----------------------------- MODULE TokenBucket -----------------------------
(***************************************************************************)
(* One bucket of the Gateway's rate limiter: the script that Redis runs    *)
(* for every request of one caller, the key that expires, and the clock of *)
(* the Redis server.                                                       *)
(*                                                                         *)
(* Tokens are measured by the time it takes to refill them, so a bucket    *)
(* gains one unit per tick of the clock and a request costs Token units.   *)
(* While Redis is out of reach every request is let through without a      *)
(* look at the bucket, which changes nothing here.                         *)
(***************************************************************************)
EXTENDS Integers

CONSTANTS
  Token,      \* ticks it takes to refill the token one request spends
  Full,       \* ticks it takes to refill an empty bucket (its capacity)
  Second,     \* ticks in a second
  MaxWindow,  \* bound: length of the window a burst is measured in
  MaxStep     \* bound: how far the clock is ever set back

ASSUME BucketAssumption ==
  /\ Token \in Nat \ {0}
  /\ Full \in Nat
  /\ Token <= Full
  /\ Second \in Nat \ {0}
  /\ MaxWindow \in Nat
  /\ MaxStep \in Nat

VARIABLES
  bucket,   \* the hash in Redis: its tokens, and the time since its `ts`
  window,   \* time since an observer began to count what is granted
  granted,  \* what was granted since, in ticks
  promise   \* time until the earliest moment a refused caller was told to retry

bucketVars == <<bucket, window, granted, promise>>

NoKey == [tokens |-> -1, age |-> 0]
NoPromise == -1

Least(a, b) == IF a <= b THEN a ELSE b
Most(a, b) == IF a >= b THEN a ELSE b

\* PEXPIRE: an idle bucket is full again after Full ticks.
Idle == Full + Second

\* Wrong: a clock that was set back drains the bucket.
SignedRefill(tokens, age) == Least(Full, tokens + age)

\* Wrong: what was refilled is not capped.
Uncapped(tokens, age) == tokens + Most(0, age)

\* The tokens a request would find `age` after `tokens` were stored.
Refilled(tokens, age) == Least(Full, tokens + Most(0, age))

Level == IF bucket = NoKey THEN Full ELSE Refilled(bucket.tokens, bucket.age)

\* Wrong: part of a second is no second.
RoundedDown(ticks) == Most(1, ticks \div Second) * Second

\* Retry-After is a number of whole seconds, at least one.
RetryAfter(ticks) == Most(1, (ticks + Second - 1) \div Second) * Second

Store(tokens) == bucket' = [tokens |-> tokens, age |-> 0]

BucketInit ==
  /\ bucket = NoKey
  /\ window = 0
  /\ granted = 0
  /\ promise = NoPromise

Allow ==
  /\ Level >= Token
  /\ Store(Level - Token)
  /\ granted' = granted + Token
  /\ promise' = NoPromise
  /\ UNCHANGED window

Refuse ==
  /\ Level < Token
  /\ Store(Level)
  /\ LET wait == RetryAfter(Token - Level)
     IN promise' = IF promise = NoPromise THEN wait ELSE Least(promise, wait)
  /\ UNCHANGED <<window, granted>>

\* Wrong: the key is dropped before the bucket is full again.
DroppedTooSoon(age) == age >= Full - Token

\* When the key may be dropped.
Expired(age) == age >= Idle

DropKey ==
  /\ bucket # NoKey
  /\ Expired(bucket.age)
  /\ bucket' = NoKey
  /\ UNCHANGED <<window, granted, promise>>

Tick ==
  /\ window < MaxWindow
  /\ bucket # NoKey => bucket.age < Idle
  /\ window' = window + 1
  /\ bucket' = IF bucket = NoKey THEN bucket ELSE [bucket EXCEPT !.age = @ + 1]
  /\ promise' = IF promise > 0 THEN promise - 1 ELSE promise
  /\ UNCHANGED granted

\* The server's clock is set back.  A promise made before is then void.
SetClockBack ==
  /\ bucket # NoKey
  /\ \E step \in 1 .. MaxStep :
       /\ bucket.age - step >= -MaxStep
       /\ bucket' = [bucket EXCEPT !.age = @ - step]
  /\ promise' = NoPromise
  /\ UNCHANGED <<window, granted>>

\* The observer begins to count at any moment.
Observe ==
  /\ window' = 0
  /\ granted' = 0
  /\ UNCHANGED <<bucket, promise>>

BucketNext == Allow \/ Refuse \/ DropKey \/ Tick \/ SetClockBack \/ Observe

-----------------------------------------------------------------------------
(* Properties. *)

BucketTypeOK ==
  /\ bucket \in {NoKey} \cup [tokens : 0 .. Full, age : -MaxStep .. Idle]
  /\ window \in 0 .. MaxWindow
  /\ granted \in Nat
  /\ promise \in {NoPromise} \cup Nat

\* FR-7: whenever one begins to count, no more is granted than a full bucket and
\* what is refilled since; neither a key that expires nor a clock that is set
\* back gives a caller a second burst.
BurstBounded == granted <= Full + window

\* A caller that waits for as long as Retry-After says finds a token, unless
\* somebody else with the same bucket took it.
PromiseKept ==
  promise # NoPromise /\ bucket # NoKey =>
    Refilled(bucket.tokens, bucket.age + promise) >= Token
=============================================================================
