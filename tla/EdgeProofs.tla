----------------------------- MODULE EdgeProofs -----------------------------
(***************************************************************************)
(* What the rate limiter, the Recommendation and the Notification service  *)
(* and the listings promise, for any capacity, rate, orders, messages,     *)
(* consumers, rows and page size.  Each has an inductive invariant of its  *)
(* own, and a behaviour of Edge moves one of them.                         *)
(***************************************************************************)
EXTENDS Edge, FiniteSetTheorems, SequenceTheorems, TLAPS

-----------------------------------------------------------------------------
(* The rate limiter.  What was granted and what is left in the bucket      *)
(* never exceed together a full bucket and the time that passed, and no    *)
(* step but the passing of time adds to their sum.                         *)

BucketInv ==
  /\ BucketTypeOK
  /\ granted + Level <= Full + window
  /\ PromiseKept

\* Whole seconds last at least as long as the ticks they are rounded from.
LEMMA RoundedUp ==
  ASSUME NEW ticks \in Nat
  PROVE  RetryAfter(ticks) \in Nat /\ RetryAfter(ticks) >= ticks
<1> DEFINE n == (ticks + Second - 1) \div Second
<1>1. Second \in Nat \ {0}
  BY BucketAssumption
<1>2. n \in Nat /\ n * Second >= ticks
  <2>1. ticks + Second - 1 \in Nat
    BY <1>1, SMT
  <2>2. n \in Int /\ n * Second <= ticks + Second - 1 /\ ticks + Second - 1 < n * Second + Second
    BY <1>1, <2>1, SMT
  <2>. QED  BY <1>1, <2>2, SMT
<1>. QED  BY <1>1, <1>2, SMT DEF RetryAfter, Most

\* A bucket that is looked at again after some ticks is as full as one that was
\* not looked at.
LEMMA Refilling ==
  ASSUME NEW tokens \in 0 .. Full, NEW age \in Int
  PROVE  /\ Refilled(tokens, age) \in 0 .. Full
         /\ age >= Full => Refilled(tokens, age) = Full
         /\ \A older \in Int :
              /\ older >= age => Refilled(tokens, older) >= Refilled(tokens, age)
              /\ older >= 0 => Refilled(Refilled(tokens, age), older) >= Refilled(tokens, age + older)
         /\ Refilled(tokens, age + 1) <= Refilled(tokens, age) + 1
         /\ Refilled(tokens, 0) = tokens
BY BucketAssumption, SMT DEF Refilled, Least, Most

LEMMA InitBucketInv == BucketInit => BucketInv
BY BucketAssumption, SMT
   DEF BucketInit, BucketInv, BucketTypeOK, PromiseKept, Level, NoKey, NoPromise, Idle

LEMMA LevelType == BucketTypeOK => Level \in 0 .. Full
<1> SUFFICES ASSUME BucketTypeOK PROVE Level \in 0 .. Full
  OBVIOUS
<1>1. CASE bucket = NoKey
  BY <1>1, BucketAssumption, SMT DEF Level
<1>2. CASE bucket # NoKey
  <2>1. bucket.tokens \in 0 .. Full /\ bucket.age \in Int
    BY <1>2, BucketAssumption, SMT DEF BucketTypeOK, Idle
  <2>. QED  BY <1>2, <2>1, Refilling DEF Level
<1>. QED  BY <1>1, <1>2

LEMMA AllowKeeps == BucketInv /\ Allow => BucketInv'
<1> SUFFICES ASSUME BucketInv, Allow PROVE BucketInv'
  OBVIOUS
<1>1. Level - Token \in 0 .. Full
  BY LevelType, BucketAssumption, SMT DEF BucketInv, Allow
<1>2. bucket' = [tokens |-> Level - Token, age |-> 0] /\ bucket'.tokens = Level - Token
  BY DEF Allow, Store
<1>3. BucketTypeOK'
  BY <1>1, <1>2, BucketAssumption, SMT DEF BucketInv, BucketTypeOK, Allow, Idle
<1>4. Level' = Level - Token
  BY <1>1, <1>2, Refilling, SMT DEF Level, NoKey
<1>5. (granted + Level <= Full + window)'
  BY <1>1, <1>4, LevelType, BucketAssumption, SMT DEF BucketInv, BucketTypeOK, Allow
<1>6. PromiseKept'
  BY DEF Allow, PromiseKept
<1>. QED  BY <1>3, <1>5, <1>6 DEF BucketInv

LEMMA RefuseKeeps == BucketInv /\ Refuse => BucketInv'
<1> SUFFICES ASSUME BucketInv, Refuse PROVE BucketInv'
  OBVIOUS
<1> DEFINE wait == RetryAfter(Token - Level)
<1>1. Level \in 0 .. Full /\ Token - Level \in Nat
  BY LevelType, BucketAssumption, SMT DEF BucketInv, Refuse
<1>2. bucket' = [tokens |-> Level, age |-> 0] /\ bucket'.tokens = Level /\ bucket'.age = 0
  BY DEF Refuse, Store
<1>3. wait \in Nat /\ wait >= Token - Level
  BY <1>1, RoundedUp
<1>4. bucket # NoKey /\ bucket.tokens \in 0 .. Full /\ bucket.age \in Int
  BY BucketAssumption, SMT DEF BucketInv, BucketTypeOK, Refuse, Level, Idle
<1>5. promise' = IF promise = NoPromise THEN wait ELSE Least(promise, wait)
  BY DEF Refuse
<1>6. promise \in Nat \cup {NoPromise}
  BY DEF BucketInv, BucketTypeOK
<1>7. BucketTypeOK'
  <2>1. promise' \in Nat
    BY <1>3, <1>5, <1>6, SMT DEF Least, NoPromise
  <2>. QED  BY <1>1, <1>2, <2>1, BucketAssumption, SMT DEF BucketInv, BucketTypeOK, Refuse, Idle
<1>8. Level' = Level
  BY <1>1, <1>2, Refilling, SMT DEF Level, NoKey
<1>9. (granted + Level <= Full + window)'
  BY <1>8 DEF BucketInv, Refuse
<1>10. Refilled(Level, promise') >= Token
  <2>1. Refilled(Level, wait) >= Token
    BY <1>1, <1>3, BucketAssumption, SMT DEF Refilled, Least, Most
  <2>2. promise # NoPromise => Refilled(Level, promise) >= Token
    <3>1. promise # NoPromise => Refilled(bucket.tokens, bucket.age + promise) >= Token
      BY <1>4 DEF BucketInv, PromiseKept
    <3>2. Level = Refilled(bucket.tokens, bucket.age)
      BY <1>4 DEF Level
    <3>. QED  BY <1>4, <1>6, <3>1, <3>2, BucketAssumption, SMT DEF NoPromise, Refilled, Least, Most
  <2>. QED  BY <1>5, <2>1, <2>2 DEF Least
<1>11. PromiseKept'
  <2>1. bucket'.age + promise' = promise'
    BY <1>2, <1>3, <1>5, <1>6, SMT DEF Least, NoPromise
  <2>. QED  BY <1>2, <1>10, <2>1 DEF PromiseKept
<1>. QED  BY <1>7, <1>9, <1>11 DEF BucketInv

LEMMA DropKeyKeeps == BucketInv /\ DropKey => BucketInv'
<1> SUFFICES ASSUME BucketInv, DropKey PROVE BucketInv'
  OBVIOUS
<1>1. bucket.tokens \in 0 .. Full /\ bucket.age \in Int /\ bucket.age >= Full
  BY BucketAssumption, SMT DEF BucketInv, BucketTypeOK, DropKey, Expired, Idle
<1>2. Level = Full /\ Level' = Full
  BY <1>1, Refilling DEF Level, DropKey
<1>3. BucketTypeOK' /\ PromiseKept'
  BY DEF BucketInv, BucketTypeOK, PromiseKept, DropKey
<1>. QED  BY <1>2, <1>3 DEF BucketInv, DropKey

LEMMA TickKeeps == BucketInv /\ Tick => BucketInv'
<1> SUFFICES ASSUME BucketInv, Tick PROVE BucketInv'
  OBVIOUS
<1>1. promise \in Nat \cup {NoPromise} /\ window \in Nat /\ granted \in Nat
  BY BucketAssumption, SMT DEF BucketInv, BucketTypeOK
<1>2. CASE bucket = NoKey
  <2>1. bucket' = NoKey /\ Level' = Level
    BY <1>2 DEF Tick, Level
  <2>2. BucketTypeOK'
    BY <1>1, <1>2, <2>1, BucketAssumption, SMT DEF BucketInv, BucketTypeOK, Tick, NoPromise
  <2>3. PromiseKept'
    BY <2>1 DEF PromiseKept
  <2>4. (granted + Level <= Full + window)'
    <3>1. Level' = Level /\ Level \in 0 .. Full
      BY <2>1, LevelType DEF BucketInv
    <3>. QED  BY <1>1, <3>1, BucketAssumption, SMT DEF BucketInv, Tick
  <2>. QED  BY <2>2, <2>3, <2>4 DEF BucketInv
<1>3. CASE bucket # NoKey
  <2>1. bucket \in [tokens : 0 .. Full, age : -MaxStep .. Idle]
    BY <1>3 DEF BucketInv, BucketTypeOK
  <2>2. bucket' = [bucket EXCEPT !.age = @ + 1] /\ bucket.age < Idle
    BY <1>3 DEF Tick
  <2>3. /\ bucket.tokens \in 0 .. Full /\ bucket.age \in Int
        /\ bucket'.tokens = bucket.tokens /\ bucket'.age = bucket.age + 1
        /\ bucket' \in [tokens : 0 .. Full, age : -MaxStep .. Idle]
    BY <2>1, <2>2, BucketAssumption, SMT DEF Idle
  <2>4. bucket' # NoKey
    BY <2>3, SMT DEF NoKey
  <2>5. BucketTypeOK'
    BY <1>1, <2>3, BucketAssumption, SMT DEF BucketInv, BucketTypeOK, Tick, NoPromise
  <2>6. Level = Refilled(bucket.tokens, bucket.age) /\ Level' = Refilled(bucket.tokens, bucket.age + 1)
    BY <1>3, <2>3, <2>4 DEF Level
  <2>7. (granted + Level <= Full + window)'
    <3>1. Level' \in 0 .. Full /\ Level \in 0 .. Full /\ Level' <= Level + 1
      BY <2>3, <2>6, BucketAssumption, SMT DEF Refilled, Least, Most
    <3>. QED  BY <1>1, <3>1, BucketAssumption, SMT DEF BucketInv, Tick
  <2>8. PromiseKept'
    <3>1. promise # NoPromise => Refilled(bucket.tokens, bucket.age + promise) >= Token
      BY <1>3 DEF BucketInv, PromiseKept
    <3>2. CASE promise \in Nat /\ promise > 0
      BY <2>3, <3>1, <3>2, SMT DEF PromiseKept, Tick, NoPromise
    <3>3. CASE promise = 0
      BY <2>3, <3>1, <3>3, BucketAssumption, SMT DEF PromiseKept, Tick, NoPromise, Refilled, Least, Most
    <3>4. CASE promise = NoPromise
      BY <3>4, SMT DEF PromiseKept, Tick, NoPromise
    <3>. QED  BY <1>1, <3>2, <3>3, <3>4, SMT
  <2>. QED  BY <2>5, <2>7, <2>8 DEF BucketInv
<1>. QED  BY <1>2, <1>3

LEMMA SetClockBackKeeps == BucketInv /\ SetClockBack => BucketInv'
<1> SUFFICES ASSUME BucketInv, SetClockBack PROVE BucketInv'
  OBVIOUS
<1>1. PICK back \in 1 .. MaxStep :
        bucket.age - back >= -MaxStep /\ bucket' = [bucket EXCEPT !.age = @ - back]
  BY DEF SetClockBack
<1>2. bucket # NoKey /\ bucket \in [tokens : 0 .. Full, age : -MaxStep .. Idle]
  BY DEF BucketInv, BucketTypeOK, SetClockBack
<1>3. /\ bucket.tokens \in 0 .. Full /\ bucket.age \in Int /\ bucket.age <= Idle
      /\ bucket'.tokens = bucket.tokens /\ bucket'.age = bucket.age - back
  BY <1>1, <1>2, BucketAssumption, SMT DEF Idle
<1>4. bucket' \in [tokens : 0 .. Full, age : -MaxStep .. Idle] /\ bucket' # NoKey
  BY <1>1, <1>2, <1>3, BucketAssumption, SMT DEF Idle, NoKey
<1>5. BucketTypeOK'
  BY <1>4 DEF BucketInv, BucketTypeOK, SetClockBack
<1>6. (granted + Level <= Full + window)'
  <2>1. Level = Refilled(bucket.tokens, bucket.age) /\ Level' = Refilled(bucket.tokens, bucket.age - back)
    BY <1>2, <1>3, <1>4 DEF Level
  <2>2. Level' \in 0 .. Full /\ Level \in 0 .. Full /\ Level' <= Level
    BY <1>1, <1>3, <2>1, BucketAssumption, SMT DEF Refilled, Least, Most
  <2>. QED  BY <2>2, BucketAssumption, SMT DEF BucketInv, BucketTypeOK, SetClockBack
<1>7. PromiseKept'
  BY DEF PromiseKept, SetClockBack
<1>. QED  BY <1>5, <1>6, <1>7 DEF BucketInv

LEMMA ObserveKeeps == BucketInv /\ Observe => BucketInv'
<1> SUFFICES ASSUME BucketInv, Observe PROVE BucketInv'
  OBVIOUS
<1>1. Level' = Level /\ Level \in 0 .. Full
  BY LevelType DEF BucketInv, Observe, Level
<1>2. BucketTypeOK' /\ PromiseKept'
  BY BucketAssumption, SMT DEF BucketInv, BucketTypeOK, PromiseKept, Observe
<1>. QED  BY <1>1, <1>2, BucketAssumption, SMT DEF BucketInv, Observe

LEMMA StutterKeepsBucket == BucketInv /\ UNCHANGED bucketVars => BucketInv'
BY DEF BucketInv, BucketTypeOK, PromiseKept, Level, bucketVars

LEMMA BucketNextKeeps == BucketInv /\ [BucketNext]_bucketVars => BucketInv'
BY AllowKeeps, RefuseKeeps, DropKeyKeeps, TickKeeps, SetClockBackKeeps, ObserveKeeps,
   StutterKeepsBucket DEF BucketNext

-----------------------------------------------------------------------------
(* The Notification service.  A fulfilled order's event is confirmed or    *)
(* still to come: on the queue or with a consumer the broker would take it *)
(* back from; a consumer acknowledges only what it found confirmed.        *)

NoticeTypes ==
  /\ mail \subseteq Notices
  /\ notifying \in [Notifiers -> {N!Nothing} \cup [message : Notices, live : BOOLEAN]]
  /\ sent \in [Confirmed -> Nat]
  /\ task \in [Notifiers -> {"idle", "lookup", "add", "ack"}]

IsConfirmed(m) == sent[OrderFor[m]] = 1
WithNotifier(m) == \E c \in Notifiers : notifying[c].message = m /\ notifying[c].live

NoticeInv ==
  /\ NoticeTypes
  /\ \A c \in Notifiers :
       /\ task[c] = "idle" <=> notifying[c] = N!Nothing
       /\ task[c] \in {"lookup", "add"} => KeyFor[notifying[c].message] = Fulfilled
       /\ task[c] = "ack" /\ KeyFor[notifying[c].message] = Fulfilled =>
            IsConfirmed(notifying[c].message)
  /\ \A o \in Confirmed :
       /\ sent[o] <= 1
       /\ sent[o] = 1 => \E m \in Notices : KeyFor[m] = Fulfilled /\ OrderFor[m] = o
  /\ \A m \in Notices :
       KeyFor[m] = Fulfilled => IsConfirmed(m) \/ m \in mail \/ WithNotifier(m)

LEMMA NoticeInitInv == NoticeInit => NoticeInv
<1> SUFFICES ASSUME NoticeInit PROVE NoticeInv
  OBVIOUS
<1>1. NoticeTypes
  BY DEF NoticeInit, NoticeTypes, N!Start
<1>2. \A c \in Notifiers : task[c] = "idle" /\ notifying[c] = N!Nothing
  BY DEF NoticeInit, N!Start
<1>3. \A m \in Notices : m \in mail
  BY DEF NoticeInit, N!Start
<1>4. \A o \in Confirmed : sent[o] = 0
  BY DEF NoticeInit
<1>. QED  BY <1>1, <1>2, <1>3, <1>4 DEF NoticeInv

LEMMA TakeNoticeKeeps ==
  ASSUME NoticeInv, NEW c \in Notifiers, NEW m \in Notices, TakeNotice(c, m)
  PROVE  NoticeInv'
<1>1. /\ notifying[c] = N!Nothing /\ m \in mail /\ mail' = mail \ {m}
      /\ notifying' = [notifying EXCEPT ![c] = [message |-> m, live |-> TRUE]]
      /\ task' = [task EXCEPT ![c] = IF Concerns(KeyFor[m]) THEN "lookup" ELSE "ack"]
      /\ sent' = sent
  BY DEF TakeNotice, N!Take, N!Free
<1>2. /\ notifying'[c] = [message |-> m, live |-> TRUE]
      /\ \A d \in Notifiers \ {c} : notifying'[d] = notifying[d] /\ task'[d] = task[d]
      /\ task'[c] = IF KeyFor[m] = Fulfilled THEN "lookup" ELSE "ack"
  BY <1>1 DEF NoticeInv, NoticeTypes, Concerns
<1>3. [message |-> m, live |-> TRUE] # N!Nothing
  BY ConfirmationsAssumption DEF N!Nothing
<1>4. NoticeTypes'
  BY <1>1, <1>3 DEF NoticeInv, NoticeTypes
<1>5. ASSUME NEW d \in Notifiers
      PROVE  /\ task'[d] = "idle" <=> notifying'[d] = N!Nothing
             /\ task'[d] \in {"lookup", "add"} => KeyFor[notifying'[d].message] = Fulfilled
             /\ task'[d] = "ack" /\ KeyFor[notifying'[d].message] = Fulfilled =>
                  sent'[OrderFor[notifying'[d].message]] = 1
  <2>1. CASE d = c
    BY <1>2, <1>3, <2>1
  <2>2. CASE d # c
    BY <1>1, <1>2, <2>2 DEF NoticeInv, IsConfirmed
  <2>. QED  BY <2>1, <2>2
<1>6. ASSUME NEW n \in Notices, KeyFor[n] = Fulfilled
      PROVE  sent'[OrderFor[n]] = 1 \/ n \in mail' \/
             \E d \in Notifiers : notifying'[d].message = n /\ notifying'[d].live
  <2>1. CASE n = m
    BY <1>2, <2>1
  <2>2. CASE n # m
    <3>1. WithNotifier(n) => \E d \in Notifiers \ {c} : notifying[d].message = n /\ notifying[d].live
      BY <1>1 DEF WithNotifier, N!Nothing
    <3>2. WithNotifier(n) => \E d \in Notifiers : notifying'[d].message = n /\ notifying'[d].live
      BY <1>2, <3>1
    <3>. QED  BY <1>1, <1>6, <2>2, <3>2 DEF NoticeInv, IsConfirmed
  <2>. QED  BY <2>1, <2>2
<1>. QED  BY <1>1, <1>4, <1>5, <1>6 DEF NoticeInv, IsConfirmed, WithNotifier

\* The message at hand is a notice, and where OrderFor and sent are defined.
LEMMA NoticeAtHand ==
  ASSUME NoticeInv, NEW c \in Notifiers, task[c] # "idle"
  PROVE  /\ notifying[c] \in [message : Notices, live : BOOLEAN]
         /\ notifying[c].message \in Notices
         /\ Addressee(c) \in Confirmed
         /\ sent[Addressee(c)] \in Nat
<1>1. notifying[c] \in [message : Notices, live : BOOLEAN]
  BY DEF NoticeInv, NoticeTypes
<1>2. Addressee(c) \in Confirmed
  BY <1>1 DEF Addressee, Confirmed
<1>. QED  BY <1>1, <1>2 DEF NoticeInv, NoticeTypes

LEMMA FindNoticeKeeps ==
  ASSUME NoticeInv, NEW c \in Notifiers, FindNotice(c)
  PROVE  NoticeInv'
<1>1. /\ task[c] = "lookup" /\ UNCHANGED <<mail, notifying, sent>>
      /\ task' = [task EXCEPT ![c] = IF sent[Addressee(c)] > 0 THEN "ack" ELSE "add"]
  BY DEF FindNotice, mailVars
<1>2. Addressee(c) \in Confirmed /\ sent[Addressee(c)] \in Nat /\ sent[Addressee(c)] <= 1
  BY <1>1, NoticeAtHand DEF NoticeInv
<1>3. /\ task' \in [Notifiers -> {"idle", "lookup", "add", "ack"}]
      /\ task'[c] \in {"add", "ack"}
      /\ task'[c] = "ack" => sent[OrderFor[notifying[c].message]] = 1
      /\ \A d \in Notifiers \ {c} : task'[d] = task[d]
  BY <1>1, <1>2 DEF NoticeInv, NoticeTypes, Addressee
<1>. QED  BY <1>1, <1>3 DEF NoticeInv, NoticeTypes, IsConfirmed, WithNotifier

LEMMA AddNoticeKeeps ==
  ASSUME NoticeInv, NEW c \in Notifiers, AddNotice(c)
  PROVE  NoticeInv'
<1>. PICK o : o = Addressee(c)
  OBVIOUS
<1>1. /\ task[c] = "add" /\ UNCHANGED <<mail, notifying>>
      /\ sent' = [sent EXCEPT ![o] = IF sent[o] > 0 THEN sent[o] ELSE sent[o] + 1]
      /\ task' = [task EXCEPT ![c] = "ack"]
  BY DEF AddNotice, mailVars, Conflicts
<1>2. /\ o \in Confirmed /\ sent[o] \in Nat /\ sent[o] <= 1 /\ o = OrderFor[notifying[c].message]
      /\ notifying[c].message \in Notices /\ KeyFor[notifying[c].message] = Fulfilled
      /\ notifying[c] # N!Nothing
  BY <1>1, NoticeAtHand DEF NoticeInv, Addressee
<1>3. /\ sent'[o] = 1
      /\ \A p \in Confirmed \ {o} : sent'[p] = sent[p]
      /\ sent' \in [Confirmed -> Nat]
  BY <1>1, <1>2 DEF NoticeInv, NoticeTypes
<1>4. /\ task' \in [Notifiers -> {"idle", "lookup", "add", "ack"}]
      /\ task'[c] = "ack"
      /\ \A d \in Notifiers \ {c} : task'[d] = task[d]
  BY <1>1 DEF NoticeInv, NoticeTypes
<1>5. \A m \in Notices : IsConfirmed(m) => sent'[OrderFor[m]] = 1
  BY <1>3 DEF IsConfirmed, Confirmed
<1>6. ASSUME NEW d \in Notifiers
      PROVE  /\ task'[d] = "idle" <=> notifying'[d] = N!Nothing
             /\ task'[d] \in {"lookup", "add"} => KeyFor[notifying'[d].message] = Fulfilled
             /\ task'[d] = "ack" /\ KeyFor[notifying'[d].message] = Fulfilled =>
                  sent'[OrderFor[notifying'[d].message]] = 1
  <2>1. CASE d = c
    BY <1>1, <1>2, <1>3, <1>4, <2>1
  <2>2. CASE d # c
    <3>1. task'[d] = task[d] /\ notifying'[d] = notifying[d]
      BY <1>1, <1>4, <2>2
    <3>2. task[d] # "idle" => notifying[d].message \in Notices
      BY NoticeAtHand
    <3>. QED  BY <1>5, <3>1, <3>2 DEF NoticeInv
  <2>. QED  BY <2>1, <2>2
<1>7. ASSUME NEW p \in Confirmed
      PROVE  /\ sent'[p] <= 1
             /\ sent'[p] = 1 => \E m \in Notices : KeyFor[m] = Fulfilled /\ OrderFor[m] = p
  BY <1>2, <1>3 DEF NoticeInv
<1>8. ASSUME NEW n \in Notices, KeyFor[n] = Fulfilled
      PROVE  sent'[OrderFor[n]] = 1 \/ n \in mail' \/
             \E d \in Notifiers : notifying'[d].message = n /\ notifying'[d].live
  BY <1>1, <1>5, <1>8 DEF NoticeInv, WithNotifier
<1>. QED  BY <1>1, <1>3, <1>4, <1>6, <1>7, <1>8 DEF NoticeInv, NoticeTypes, IsConfirmed, WithNotifier

\* A consumer puts its message down: nothing to do, or what the broker takes back.
LEMMA PutDownKeeps ==
  ASSUME NoticeInv, NEW c \in Notifiers, AckNotice(c) \/ BreakNotifier(c)
  PROVE  NoticeInv'
<1>1. /\ notifying' = [notifying EXCEPT ![c] = N!Nothing]
      /\ task' = [task EXCEPT ![c] = "idle"]
      /\ sent' = sent
      /\ notifying[c] # N!Nothing
      /\ \/ task[c] = "ack" /\ mail' = mail
         \/ mail' = mail \cup (IF notifying[c].live THEN {notifying[c].message} ELSE {})
  BY DEF AckNotice, BreakNotifier, N!Ack, N!Break, N!Return, N!Free, NoticeInv
<1>2. notifying[c].message \in Notices
  BY <1>1, NoticeAtHand DEF NoticeInv
<1>3. /\ notifying'[c] = N!Nothing /\ task'[c] = "idle"
      /\ \A d \in Notifiers \ {c} : notifying'[d] = notifying[d] /\ task'[d] = task[d]
  BY <1>1 DEF NoticeInv, NoticeTypes
<1>4. NoticeTypes'
  BY <1>1, <1>2 DEF NoticeInv, NoticeTypes
<1>5. ASSUME NEW n \in Notices, KeyFor[n] = Fulfilled
      PROVE  sent'[OrderFor[n]] = 1 \/ n \in mail' \/
             \E d \in Notifiers : notifying'[d].message = n /\ notifying'[d].live
  <2>1. CASE notifying[c].message = n /\ notifying[c].live
    BY <1>1, <1>5, <2>1 DEF NoticeInv, IsConfirmed
  <2>2. CASE ~(notifying[c].message = n /\ notifying[c].live)
    BY <1>1, <1>3, <1>5, <2>2 DEF NoticeInv, IsConfirmed, WithNotifier
  <2>. QED  BY <2>1, <2>2
<1>. QED  BY <1>1, <1>3, <1>4, <1>5 DEF NoticeInv, IsConfirmed, WithNotifier

LEMMA LoseNotifierKeeps ==
  ASSUME NoticeInv, NEW c \in Notifiers, LoseNotifier(c)
  PROVE  NoticeInv'
<1>1. /\ notifying' = [notifying EXCEPT ![c].live = FALSE]
      /\ UNCHANGED <<sent, task>>
      /\ notifying[c].live
      /\ mail' = mail \cup {notifying[c].message}
  BY DEF LoseNotifier, N!Lose, N!Return
<1>2. notifying[c] # N!Nothing
  BY <1>1 DEF N!Nothing
<1>3. notifying[c] \in [message : Notices, live : BOOLEAN]
  BY <1>2 DEF NoticeInv, NoticeTypes
<1>4. /\ notifying'[c] \in [message : Notices, live : BOOLEAN]
      /\ notifying'[c].message = notifying[c].message
      /\ \A d \in Notifiers \ {c} : notifying'[d] = notifying[d]
      /\ notifying' \in [Notifiers -> {N!Nothing} \cup [message : Notices, live : BOOLEAN]]
  BY <1>1, <1>3 DEF NoticeInv, NoticeTypes
<1>5. notifying'[c] # N!Nothing
  BY <1>4, ConfirmationsAssumption DEF N!Nothing
<1>6. NoticeTypes'
  BY <1>1, <1>3, <1>4 DEF NoticeInv, NoticeTypes
<1>7. ASSUME NEW d \in Notifiers
      PROVE  /\ task'[d] = "idle" <=> notifying'[d] = N!Nothing
             /\ notifying'[d].message = notifying[d].message
  BY <1>1, <1>2, <1>4, <1>5 DEF NoticeInv
<1>8. ASSUME NEW n \in Notices, KeyFor[n] = Fulfilled
      PROVE  sent'[OrderFor[n]] = 1 \/ n \in mail' \/
             \E d \in Notifiers : notifying'[d].message = n /\ notifying'[d].live
  <2>1. CASE n = notifying[c].message
    BY <1>1, <2>1
  <2>2. CASE n # notifying[c].message
    BY <1>1, <1>4, <1>8, <2>2 DEF NoticeInv, IsConfirmed, WithNotifier
  <2>. QED  BY <2>1, <2>2
<1>. QED  BY <1>1, <1>6, <1>7, <1>8 DEF NoticeInv, IsConfirmed, WithNotifier

LEMMA NoticeNextKeeps == NoticeInv /\ [NoticeNext]_noticeVars => NoticeInv'
<1>1. NoticeInv /\ UNCHANGED noticeVars => NoticeInv'
  BY DEF NoticeInv, NoticeTypes, IsConfirmed, WithNotifier, noticeVars
<1>. QED
  BY <1>1, TakeNoticeKeeps, FindNoticeKeeps, AddNoticeKeeps, PutDownKeeps, LoseNotifierKeeps
     DEF NoticeNext

-----------------------------------------------------------------------------
(* The Recommendation service.  A transaction that counts has its order's  *)
(* mark to itself, and every pair it wrote: nobody commits another count   *)
(* of a pair before it does, and it writes pairs in ascending order.       *)

TallyTypes ==
  /\ due \subseteq Purchases
  /\ recording \in [Recorders -> {D!Nothing} \cup [message : Purchases, live : BOOLEAN]]
  /\ recorded \subseteq Purchases /\ IsFiniteSet(recorded)
  /\ collided \subseteq Purchases
  /\ count \in [Pairs -> Nat]
  /\ step \in [Recorders -> {"idle", "lookup", "mark", "count", "write", "ack"}]
  /\ left \in [Recorders -> SUBSET Pairs]
  /\ DOMAIN wrote = Recorders /\ DOMAIN seen = Recorders
  /\ \A c \in Recorders : DOMAIN wrote[c] \subseteq Pairs
  /\ \A c \in Recorders : step[c] = "idle" <=> recording[c] = D!Nothing

\* How many of the orders hold the pair.
Counted(orders, pair) == Cardinality({o \in orders : pair \in PairsOf(o)})

Counting(c) == step[c] \in {"count", "write"}
Written(c) == DOMAIN wrote[c]

\* Of its order's pairs a transaction has written some, reads one, and has some left.
Progress(c) ==
  /\ ~Counting(c) => Written(c) = {}
  /\ step[c] = "count" => PairsOf(OrderOf(c)) = left[c] \cup Written(c)
  /\ step[c] = "write" =>
       /\ Pair(c) \in Pairs
       /\ PairsOf(OrderOf(c)) = left[c] \cup Written(c) \cup {Pair(c)}
       /\ seen[c].count \in Nat
       /\ seen[c].count <= Counted(recorded, Pair(c))
       /\ \A p \in Written(c) : Before(p, Pair(c))
       /\ \A q \in left[c] : Before(Pair(c), q)
  /\ Counting(c) => \A p \in Written(c), q \in left[c] : Before(p, q)

\* What a transaction wrote was right when it read, and is still unless it raced.
Exact(c) ==
  \A p \in Written(c) :
    /\ wrote[c][p] \in Nat \ {0}
    /\ wrote[c][p] <= Counted(recorded, p) + 1
    /\ p \notin raced => wrote[c][p] = count[p] + 1

Alone(c) ==
  /\ Counting(c) => OrderOf(c) \notin recorded
  /\ \A d \in Recorders \ {c} :
       /\ Counting(c) /\ Counting(d) => OrderOf(c) # OrderOf(d)
       /\ Written(c) \cap Written(d) = {}

CountInv ==
  \A p \in Pairs :
    /\ count[p] <= Counted(recorded, p)
    /\ p \notin raced => count[p] = Counted(recorded, p)
    /\ Counted(recorded, p) > 0 => count[p] > 0

WithRecorder(o) == \E c \in Recorders : OrderOf(c) = o /\ recording[c].live

DueInv ==
  /\ \A o \in Purchases : o \in recorded \cup collided \cup due \/ WithRecorder(o)
  /\ \A c \in Recorders : step[c] = "ack" => OrderOf(c) \in recorded \cup collided

TallyInv ==
  /\ TallyTypes
  /\ \A c \in Recorders : Progress(c) /\ Exact(c) /\ Alone(c)
  /\ CountInv
  /\ DueInv

\* Pairs are pairs of numbers, compared by the first and then by the second.
LEMMA PairsAreNumbers ==
  /\ \A p \in Pairs : p \in Nat \X Nat
  /\ \A o \in Purchases : PairsOf(o) \subseteq Pairs
BY CoPurchaseAssumption DEF Pairs, PairsOf

LEMMA BeforeOrders ==
  /\ \A p \in Pairs : ~Before(p, p)
  /\ \A p, q \in Pairs : p = q \/ Before(p, q) \/ Before(q, p)
  /\ \A p, q, r \in Pairs : Before(p, q) /\ Before(q, r) => Before(p, r)
<1>1. \A p, q \in Nat \X Nat : p[1] = q[1] /\ p[2] = q[2] => p = q
  OBVIOUS
<1>2. \A p \in Pairs : p \in Nat \X Nat /\ p[1] \in Nat /\ p[2] \in Nat
  BY PairsAreNumbers
<1>. QED  BY <1>1, <1>2, SMT DEF Before

\* One more recorded order adds one to each of its pairs and to no other.
LEMMA OneMoreOrder ==
  ASSUME NEW orders, IsFiniteSet(orders), NEW o, o \notin orders,
         NEW more, more = orders \cup {o}
  PROVE  /\ IsFiniteSet(more)
         /\ \A p : /\ Counted(orders, p) \in Nat
                   /\ p \in PairsOf(o) => Counted(more, p) = Counted(orders, p) + 1
                   /\ p \notin PairsOf(o) => Counted(more, p) = Counted(orders, p)
<1>1. IsFiniteSet(more)
  BY FS_AddElement
<1>2. ASSUME NEW p
      PROVE  /\ Counted(orders, p) \in Nat
             /\ p \in PairsOf(o) => Counted(more, p) = Counted(orders, p) + 1
             /\ p \notin PairsOf(o) => Counted(more, p) = Counted(orders, p)
  <2> DEFINE Holds(set) == {x \in set : p \in PairsOf(x)}
  <2>1. IsFiniteSet(Holds(orders)) /\ o \notin Holds(orders)
    BY FS_Subset
  <2>2. Cardinality(Holds(orders)) \in Nat
    BY <2>1, FS_CardinalityType
  <2>3. CASE p \in PairsOf(o)
    <3>1. Holds(more) = Holds(orders) \cup {o}
      BY <2>3
    <3>2. Cardinality(Holds(orders) \cup {o}) = Cardinality(Holds(orders)) + 1
      BY <2>1, FS_AddElement
    <3>. QED  BY <2>2, <2>3, <3>1, <3>2 DEF Counted
  <2>4. CASE p \notin PairsOf(o)
    <3>1. Holds(more) = Holds(orders)
      BY <2>4
    <3>. QED  BY <2>2, <2>4, <3>1 DEF Counted
  <2>. QED  BY <2>3, <2>4
<1>. QED  BY <1>1, <1>2

LEMMA CountedType ==
  ASSUME NEW orders, IsFiniteSet(orders), NEW p
  PROVE  Counted(orders, p) \in Nat
<1>1. IsFiniteSet({o \in orders : p \in PairsOf(o)})
  BY FS_Subset
<1>. QED  BY <1>1, FS_CardinalityType DEF Counted

LEMMA TallyInitInv == TallyInit => TallyInv
<1> SUFFICES ASSUME TallyInit PROVE TallyInv
  OBVIOUS
<1>1. /\ due = Purchases /\ recording = [c \in Recorders |-> D!Nothing]
      /\ recorded = {} /\ collided = {} /\ raced = {}
      /\ count = [pair \in Pairs |-> 0]
      /\ step = [c \in Recorders |-> "idle"]
      /\ left = [c \in Recorders |-> {}]
      /\ DOMAIN seen = Recorders
      /\ wrote = [c \in Recorders |-> Unwritten]
  BY DEF TallyInit, D!Start
<1>2. DOMAIN Unwritten = {}
  BY DEF Unwritten
<1>3. \A p : Counted(recorded, p) = 0
  BY <1>1, FS_EmptySet DEF Counted
<1>4. IsFiniteSet(recorded)
  BY <1>1, FS_EmptySet
<1>5. TallyTypes
  BY <1>1, <1>2, <1>4 DEF TallyTypes
<1>6. \A c \in Recorders : Progress(c) /\ Exact(c) /\ Alone(c)
  BY <1>1, <1>2 DEF Progress, Exact, Alone, Written, Counting
<1>7. CountInv
  BY <1>1, <1>3 DEF CountInv
<1>8. DueInv
  BY <1>1 DEF DueInv
<1>. QED  BY <1>5, <1>6, <1>7, <1>8 DEF TallyInv

\* A consumer at work has an order's message.
LEMMA AtWork ==
  ASSUME TallyInv, NEW c \in Recorders, step[c] # "idle"
  PROVE  /\ recording[c] \in [message : Purchases, live : BOOLEAN]
         /\ OrderOf(c) \in Purchases
         /\ recording[c].live \in BOOLEAN
<1>1. recording[c] \in [message : Purchases, live : BOOLEAN]
  BY DEF TallyInv, TallyTypes
<1>. QED  BY <1>1 DEF OrderOf

\* What a step of c leaves alone: the transactions and the messages of the others.
OthersRest(c) ==
  \A d \in Recorders \ {c} :
    /\ step'[d] = step[d] /\ left'[d] = left[d] /\ seen'[d] = seen[d] /\ wrote'[d] = wrote[d]
    /\ recording'[d] = recording[d]

\* A step that commits nothing can only disturb what is said of its consumer.
LEMMA OnlyOneMoves ==
  ASSUME TallyInv, NEW c \in Recorders, OthersRest(c),
         recorded' = recorded, count' = count, raced \subseteq raced',
         TallyTypes', Progress(c)', Exact(c)', DueInv',
         Counting(c)' =>
           /\ OrderOf(c)' \notin recorded
           /\ \A d \in Recorders \ {c} : Counting(d) => OrderOf(d) # OrderOf(c)',
         \A d \in Recorders \ {c} : Written(c)' \cap Written(d) = {}
  PROVE  TallyInv'
<1>1. ASSUME NEW d \in Recorders \ {c}
      PROVE  Progress(d)' /\ Exact(d)'
  <2>1. Progress(d) /\ Exact(d)
    BY DEF TallyInv
  <2>2. /\ step'[d] = step[d] /\ left'[d] = left[d] /\ seen'[d] = seen[d] /\ wrote'[d] = wrote[d]
        /\ recording'[d] = recording[d]
    BY DEF OthersRest
  <2>3. Progress(d)'
    BY <2>1, <2>2 DEF Progress, Counting, Written, OrderOf, Pair
  <2>4. Exact(d)'
    BY <2>1, <2>2 DEF Exact, Written
  <2>. QED  BY <2>3, <2>4
<1>2. ASSUME NEW d \in Recorders
      PROVE  Alone(d)'
  <2>1. \A e \in Recorders : Alone(e)
    BY DEF TallyInv
  <2>2. CASE d = c
    BY <2>1, <2>2 DEF OthersRest, Alone, Counting, Written, OrderOf
  <2>3. CASE d # c
    <3>1. Counting(d)' => OrderOf(d)' \notin recorded'
      BY <2>1, <2>3 DEF OthersRest, Alone, Counting, OrderOf
    <3>2. ASSUME NEW e \in Recorders \ {d}
          PROVE  /\ Counting(d)' /\ Counting(e)' => OrderOf(d)' # OrderOf(e)'
                 /\ Written(d)' \cap Written(e)' = {}
      <4>1. CASE e = c
        BY <2>3, <4>1 DEF OthersRest, Counting, Written, OrderOf
      <4>2. CASE e # c
        BY <2>1, <2>3, <4>2 DEF OthersRest, Alone, Counting, Written, OrderOf
      <4>. QED  BY <4>1, <4>2
    <3>. QED  BY <3>1, <3>2 DEF Alone
  <2>. QED  BY <2>2, <2>3
<1>3. CountInv'
  BY DEF TallyInv, CountInv
<1>. QED  BY <1>1, <1>2, <1>3 DEF TallyInv

\* In particular a consumer that is not counting, with nothing written.
LEMMA NothingWritten ==
  ASSUME TallyInv, NEW c \in Recorders, OthersRest(c),
         recorded' = recorded, count' = count, raced \subseteq raced',
         TallyTypes', DueInv',
         step'[c] \notin {"count", "write"}, Written(c)' = {}
  PROVE  TallyInv'
<1>1. ~Counting(c)'
  BY DEF Counting
<1>2. Progress(c)' /\ Exact(c)'
  BY <1>1 DEF Progress, Exact, Counting
<1>. QED  BY <1>1, <1>2, OnlyOneMoves

LEMMA TakePaidKeeps ==
  ASSUME TallyInv, NEW c \in Recorders, NEW o \in Purchases, TakePaid(c, o)
  PROVE  TallyInv'
<1>1. /\ recording[c] = D!Nothing /\ o \in due /\ due' = due \ {o}
      /\ recording' = [recording EXCEPT ![c] = [message |-> o, live |-> TRUE]]
      /\ step' = [step EXCEPT ![c] = "lookup"]
      /\ UNCHANGED <<recorded, count, raced, collided, left, seen, wrote>>
  BY DEF TakePaid, D!Take, D!Free, Tables
<1>2. step[c] = "idle" /\ Written(c) = {}
  BY <1>1 DEF TallyInv, TallyTypes, Progress, Counting
<1>3. /\ recording'[c] = [message |-> o, live |-> TRUE] /\ step'[c] = "lookup"
      /\ OthersRest(c)
  BY <1>1 DEF TallyInv, TallyTypes, OthersRest
<1>4. recording'[c] # D!Nothing
  BY <1>3, CoPurchaseAssumption DEF D!Nothing
<1>5. TallyTypes'
  <2>1. \A d \in Recorders : step'[d] = "idle" <=> recording'[d] = D!Nothing
    BY <1>3, <1>4 DEF OthersRest, TallyInv, TallyTypes
  <2>. QED  BY <1>1, <2>1 DEF TallyInv, TallyTypes
<1>6. DueInv'
  <2>1. ASSUME NEW p \in Purchases, WithRecorder(p)
        PROVE  WithRecorder(p)'
    <3>1. PICK d \in Recorders : OrderOf(d) = p /\ recording[d].live
      BY <2>1 DEF WithRecorder
    <3>2. d # c
      BY <1>1, <3>1 DEF D!Nothing
    <3>. QED  BY <1>3, <3>1, <3>2 DEF WithRecorder, OthersRest, OrderOf
  <2>2. WithRecorder(o)'
    BY <1>3 DEF WithRecorder, OrderOf
  <2>3. ASSUME NEW p \in Purchases
        PROVE  (p \in recorded \cup collided \cup due \/ WithRecorder(p))'
    BY <1>1, <2>1, <2>2 DEF TallyInv, DueInv
  <2>4. ASSUME NEW d \in Recorders, step'[d] = "ack"
        PROVE  OrderOf(d)' \in recorded' \cup collided'
    <3>1. d # c
      BY <1>3, <2>4
    <3>. QED  BY <1>1, <1>3, <2>4, <3>1 DEF OthersRest, OrderOf, TallyInv, DueInv
  <2>. QED  BY <2>3, <2>4 DEF DueInv
<1>. QED  BY <1>1, <1>2, <1>3, <1>5, <1>6, NothingWritten DEF Written

\* While messages stay where they are, an order stays where it was.
LEMMA DueStays ==
  ASSUME TallyInv, NEW c \in Recorders, UNCHANGED <<due, recording>>, OthersRest(c),
         recorded \subseteq recorded', collided \subseteq collided',
         step'[c] = "ack" => OrderOf(c) \in recorded' \cup collided'
  PROVE  DueInv'
<1>1. ASSUME NEW p \in Purchases
      PROVE  (p \in recorded \cup collided \cup due \/ WithRecorder(p))'
  BY DEF TallyInv, DueInv, WithRecorder, OrderOf
<1>2. ASSUME NEW d \in Recorders, step'[d] = "ack"
      PROVE  OrderOf(d)' \in recorded' \cup collided'
  BY <1>2 DEF OthersRest, OrderOf, TallyInv, DueInv
<1>. QED  BY <1>1, <1>2 DEF DueInv

LEMMA LookUpKeeps ==
  ASSUME TallyInv, NEW c \in Recorders, LookUp(c)
  PROVE  TallyInv'
<1>1. /\ step[c] = "lookup"
      /\ step' = [step EXCEPT ![c] = IF OrderOf(c) \in recorded THEN "ack" ELSE "mark"]
      /\ UNCHANGED <<due, recording, recorded, count, raced, collided, left, seen, wrote>>
  BY DEF LookUp, Tables, dueVars, Marked
<1>2. /\ step'[c] \in {"ack", "mark"} /\ step'[c] = "ack" => OrderOf(c) \in recorded
      /\ OthersRest(c)
  BY <1>1 DEF TallyInv, TallyTypes, OthersRest
<1>3. Written(c) = {}
  BY <1>1 DEF TallyInv, Progress, Counting
<1>4. TallyTypes'
  <2>1. \A d \in Recorders : step'[d] = "idle" <=> recording'[d] = D!Nothing
    BY <1>1, <1>2 DEF OthersRest, TallyInv, TallyTypes
  <2>. QED  BY <1>1, <2>1 DEF TallyInv, TallyTypes
<1>5. DueInv'
  BY <1>1, <1>2, DueStays
<1>. QED  BY <1>1, <1>2, <1>3, <1>4, <1>5, NothingWritten DEF Written

LEMMA MarkKeeps ==
  ASSUME TallyInv, NEW c \in Recorders, Mark(c)
  PROVE  TallyInv'
<1>. PICK o : o = OrderOf(c)
  OBVIOUS
<1>1. /\ step[c] = "mark" /\ o \notin recorded
      /\ \A d \in Recorders \ {c} : ~(OrderOf(d) = o /\ Counting(d))
      /\ step' = [step EXCEPT ![c] = "count"]
      /\ left' = [left EXCEPT ![c] = PairsOf(o)]
      /\ UNCHANGED <<due, recording, recorded, count, raced, collided, seen, wrote>>
  BY DEF Mark, MarkBusy, Marked, Counting, Tables, dueVars
<1>2. PairsOf(o) \subseteq Pairs
  BY <1>1, AtWork, PairsAreNumbers
<1>3. step'[c] = "count" /\ left'[c] = PairsOf(o) /\ OthersRest(c)
  BY <1>1 DEF TallyInv, TallyTypes, OthersRest
<1>4. Written(c) = {}
  BY <1>1 DEF TallyInv, Progress, Counting
<1>5. TallyTypes'
  <2>1. \A d \in Recorders : step'[d] = "idle" <=> recording'[d] = D!Nothing
    BY <1>1, <1>3 DEF OthersRest, TallyInv, TallyTypes
  <2>. QED  BY <1>1, <1>2, <2>1 DEF TallyInv, TallyTypes
<1>6. DueInv'
  BY <1>1, <1>3, DueStays
<1>7. Progress(c)' /\ Exact(c)'
  BY <1>1, <1>3, <1>4 DEF Progress, Exact, Counting, Written, OrderOf
<1>. QED  BY <1>1, <1>3, <1>4, <1>5, <1>6, <1>7, OnlyOneMoves DEF Written, OrderOf

\* What every end of a transaction leaves behind.
LEMMA Left ==
  ASSUME TallyInv, NEW c \in Recorders, NEW next, Leave(c, next),
         next \in {"idle", "ack"},
         \A d \in Recorders \ {c} : recording'[d] = recording[d]
  PROVE  /\ step'[c] = next /\ Written(c)' = {} /\ OthersRest(c)
         /\ step' \in [Recorders -> {"idle", "lookup", "mark", "count", "write", "ack"}]
         /\ left' \in [Recorders -> SUBSET Pairs]
         /\ DOMAIN wrote' = Recorders /\ DOMAIN seen' = Recorders
         /\ \A d \in Recorders : DOMAIN wrote'[d] \subseteq Pairs
<1>1. DOMAIN Unwritten = {}
  BY DEF Unwritten
<1>2. /\ step' = [step EXCEPT ![c] = next]
      /\ left' = [left EXCEPT ![c] = {}]
      /\ seen' = [seen EXCEPT ![c] = Unread]
      /\ wrote' = [wrote EXCEPT ![c] = Unwritten]
  BY DEF Leave
<1>3. /\ step \in [Recorders -> {"idle", "lookup", "mark", "count", "write", "ack"}]
      /\ left \in [Recorders -> SUBSET Pairs]
      /\ DOMAIN wrote = Recorders /\ DOMAIN seen = Recorders
      /\ \A d \in Recorders : DOMAIN wrote[d] \subseteq Pairs
  BY DEF TallyInv, TallyTypes
<1>4. /\ step'[c] = next /\ wrote'[c] = Unwritten
      /\ \A d \in Recorders \ {c} :
           step'[d] = step[d] /\ left'[d] = left[d] /\ seen'[d] = seen[d] /\ wrote'[d] = wrote[d]
  BY <1>2, <1>3
<1>5. OthersRest(c)
  BY <1>4 DEF OthersRest
<1>6. \A d \in Recorders : DOMAIN wrote'[d] \subseteq Pairs
  BY <1>1, <1>3, <1>4
<1>7. Written(c)' = {}
  BY <1>1, <1>4 DEF Written
<1>8. /\ step' \in [Recorders -> {"idle", "lookup", "mark", "count", "write", "ack"}]
      /\ left' \in [Recorders -> SUBSET Pairs]
      /\ DOMAIN wrote' = Recorders /\ DOMAIN seen' = Recorders
  BY <1>2, <1>3
<1>. QED  BY <1>4, <1>5, <1>6, <1>7, <1>8

\* A consumer puts its message down: acknowledged, or back on the queue unless
\* the broker has taken it back before.
LEMMA PutBackKeeps ==
  ASSUME TallyInv, NEW c \in Recorders, step[c] # "idle",
         Leave(c, "idle"),
         recording' = [recording EXCEPT ![c] = D!Nothing],
         UNCHANGED Tables,
         \/ due' = due /\ step[c] = "ack"
         \/ due' = due \cup D!Return(c)
  PROVE  TallyInv'
<1>1. /\ recording'[c] = D!Nothing /\ \A d \in Recorders \ {c} : recording'[d] = recording[d]
      /\ UNCHANGED <<recorded, count, raced, collided>>
      /\ recording' \in [Recorders -> {D!Nothing} \cup [message : Purchases, live : BOOLEAN]]
  BY DEF TallyInv, TallyTypes, Tables
<1>2. /\ step'[c] = "idle" /\ Written(c)' = {} /\ OthersRest(c)
      /\ step' \in [Recorders -> {"idle", "lookup", "mark", "count", "write", "ack"}]
      /\ left' \in [Recorders -> SUBSET Pairs]
      /\ DOMAIN wrote' = Recorders /\ DOMAIN seen' = Recorders
      /\ \A d \in Recorders : DOMAIN wrote'[d] \subseteq Pairs
  BY <1>1, Left
<1>3. OrderOf(c) \in Purchases
  BY AtWork
<1>4. due \subseteq due' /\ due' \subseteq Purchases
  BY <1>3 DEF TallyInv, TallyTypes, D!Return, OrderOf
<1>5. TallyTypes'
  <2>1. \A d \in Recorders : step'[d] = "idle" <=> recording'[d] = D!Nothing
    BY <1>1, <1>2 DEF OthersRest, TallyInv, TallyTypes
  <2>. QED  BY <1>1, <1>2, <1>4, <2>1 DEF TallyInv, TallyTypes
<1>6. DueInv'
  <2>1. ASSUME NEW p \in Purchases
        PROVE  (p \in recorded \cup collided \cup due \/ WithRecorder(p))'
    <3>1. CASE p \in recorded \cup collided \cup due
      BY <1>1, <1>4, <3>1
    <3>2. CASE WithRecorder(p)
      <4>1. PICK d \in Recorders : OrderOf(d) = p /\ recording[d].live
        BY <3>2 DEF WithRecorder
      <4>2. CASE d = c
        <5>1. step[c] = "ack" => p \in recorded \cup collided
          BY <4>1, <4>2 DEF TallyInv, DueInv
        <5>2. p \in D!Return(c)
          BY <4>1, <4>2 DEF D!Return, OrderOf
        <5>. QED  BY <1>1, <5>1, <5>2
      <4>3. CASE d # c
        BY <1>1, <4>1, <4>3 DEF WithRecorder, OrderOf
      <4>. QED  BY <4>2, <4>3
    <3>. QED  BY <3>1, <3>2 DEF TallyInv, DueInv
  <2>2. ASSUME NEW d \in Recorders, step'[d] = "ack"
        PROVE  OrderOf(d)' \in recorded' \cup collided'
    BY <1>1, <1>2, <2>2 DEF OthersRest, OrderOf, TallyInv, DueInv
  <2>. QED  BY <2>1, <2>2 DEF DueInv
<1>7. step'[c] \notin {"count", "write"}
  BY <1>2
<1>. QED  BY <1>1, <1>2, <1>5, <1>6, <1>7, NothingWritten

\* A transaction ends with its order recorded or given up, its message unacknowledged.
LEMMA GivenUpKeeps ==
  ASSUME TallyInv, NEW c \in Recorders, step[c] # "idle", Leave(c, "ack"),
         UNCHANGED <<due, recording, recorded, count, raced>>,
         OrderOf(c) \in recorded' \cup collided',
         collided \subseteq collided', collided' \subseteq Purchases
  PROVE  TallyInv'
<1>1. /\ step'[c] = "ack" /\ Written(c)' = {} /\ OthersRest(c)
      /\ step' \in [Recorders -> {"idle", "lookup", "mark", "count", "write", "ack"}]
      /\ left' \in [Recorders -> SUBSET Pairs]
      /\ DOMAIN wrote' = Recorders /\ DOMAIN seen' = Recorders
      /\ \A d \in Recorders : DOMAIN wrote'[d] \subseteq Pairs
  BY Left
<1>2. TallyTypes'
  <2>1. \A d \in Recorders : step'[d] = "idle" <=> recording'[d] = D!Nothing
    BY <1>1 DEF OthersRest, TallyInv, TallyTypes
  <2>. QED  BY <1>1, <2>1 DEF TallyInv, TallyTypes
<1>3. DueInv'
  BY <1>1, DueStays
<1>4. step'[c] \notin {"count", "write"}
  BY <1>1
<1>. QED  BY <1>1, <1>2, <1>3, <1>4, NothingWritten

LEMMA MarkedMeanwhileKeeps ==
  ASSUME TallyInv, NEW c \in Recorders, MarkedMeanwhile(c)
  PROVE  TallyInv'
<1>1. step[c] = "mark" /\ OrderOf(c) \in recorded /\ UNCHANGED Tables
  BY DEF MarkedMeanwhile, Marked
<1>2. CASE PairsOf(OrderOf(c)) = {}
  BY <1>1, <1>2, PutBackKeeps DEF MarkedMeanwhile, D!Retry
<1>3. CASE PairsOf(OrderOf(c)) # {}
  <2>1. Leave(c, "ack") /\ UNCHANGED <<due, recording, recorded, count, raced, collided>>
    BY <1>3 DEF MarkedMeanwhile, dueVars, Tables
  <2>. QED  BY <1>1, <2>1, GivenUpKeeps DEF TallyInv, TallyTypes
<1>. QED  BY <1>2, <1>3

LEMMA CollideKeeps ==
  ASSUME TallyInv, NEW c \in Recorders, Collide(c)
  PROVE  TallyInv'
<1>1. /\ step[c] = "write" /\ Leave(c, "ack")
      /\ collided' = collided \cup {OrderOf(c)}
      /\ UNCHANGED <<due, recording, recorded, count, raced>>
  BY DEF Collide, dueVars
<1>2. OrderOf(c) \in Purchases /\ collided \subseteq Purchases
  BY <1>1, AtWork DEF TallyInv, TallyTypes
<1>. QED  BY <1>1, <1>2, GivenUpKeeps

LEMMA AckPaidKeeps ==
  ASSUME TallyInv, NEW c \in Recorders, AckPaid(c)
  PROVE  TallyInv'
BY PutBackKeeps DEF AckPaid, D!Ack

LEMMA BreakRecorderKeeps ==
  ASSUME TallyInv, NEW c \in Recorders, BreakRecorder(c)
  PROVE  TallyInv'
<1>1. step[c] # "idle"
  BY DEF BreakRecorder, D!Break, D!Free, TallyInv, TallyTypes
<1>. QED  BY <1>1, PutBackKeeps DEF BreakRecorder, D!Break

LEMMA LoseRecorderKeeps ==
  ASSUME TallyInv, NEW c \in Recorders, LoseRecorder(c)
  PROVE  TallyInv'
<1>. PICK o : o = recording[c].message
  OBVIOUS
<1>1. /\ recording[c].live /\ due' = due \cup {o}
      /\ recording' = [recording EXCEPT ![c].live = FALSE]
      /\ UNCHANGED <<recorded, count, raced, collided, step, left, seen, wrote>>
  BY DEF LoseRecorder, D!Lose, D!Return, Tables
<1>2. recording[c] # D!Nothing
  BY <1>1 DEF D!Nothing
<1>3. recording[c] \in [message : Purchases, live : BOOLEAN]
  BY <1>2 DEF TallyInv, TallyTypes
<1>4. /\ recording'[c] \in [message : Purchases, live : BOOLEAN]
      /\ recording'[c].message = o
      /\ \A d \in Recorders \ {c} : recording'[d] = recording[d]
      /\ recording' \in [Recorders -> {D!Nothing} \cup [message : Purchases, live : BOOLEAN]]
  BY <1>1, <1>3 DEF TallyInv, TallyTypes
<1>5. recording'[c] # D!Nothing
  BY <1>4, CoPurchaseAssumption DEF D!Nothing
<1>6. \A d \in Recorders : OrderOf(d)' = OrderOf(d)
  BY <1>4 DEF OrderOf
<1>7. TallyTypes'
  <2>1. \A d \in Recorders : step'[d] = "idle" <=> recording'[d] = D!Nothing
    BY <1>1, <1>2, <1>4, <1>5 DEF TallyInv, TallyTypes
  <2>2. due' \subseteq Purchases
    BY <1>1, <1>3 DEF TallyInv, TallyTypes
  <2>. QED  BY <1>1, <1>4, <2>1, <2>2 DEF TallyInv, TallyTypes
<1>8. DueInv'
  <2>1. ASSUME NEW p \in Purchases
        PROVE  (p \in recorded \cup collided \cup due \/ WithRecorder(p))'
    <3>1. CASE p = o
      BY <1>1, <3>1
    <3>2. CASE p # o
      <4>1. WithRecorder(p) => WithRecorder(p)'
        <5> SUFFICES ASSUME WithRecorder(p) PROVE WithRecorder(p)'
          OBVIOUS
        <5>1. PICK d \in Recorders : OrderOf(d) = p /\ recording[d].live
          BY DEF WithRecorder
        <5>2. d # c
          BY <3>2, <5>1 DEF OrderOf
        <5>. QED  BY <1>4, <1>6, <5>1, <5>2 DEF WithRecorder
      <4>. QED  BY <1>1, <4>1 DEF TallyInv, DueInv
    <3>. QED  BY <3>1, <3>2
  <2>2. \A d \in Recorders : step'[d] = "ack" => OrderOf(d)' \in recorded' \cup collided'
    BY <1>1, <1>6 DEF TallyInv, DueInv
  <2>. QED  BY <2>1, <2>2 DEF DueInv
<1>9. ASSUME NEW d \in Recorders
      PROVE  Progress(d)' /\ Exact(d)' /\ Alone(d)'
  <2>1. Progress(d) /\ Exact(d) /\ Alone(d)
    BY DEF TallyInv
  <2>2. Progress(d)'
    BY <1>1, <1>6, <2>1 DEF Progress, Counting, Written, Pair
  <2>3. Exact(d)'
    BY <1>1, <2>1 DEF Exact, Written
  <2>4. Alone(d)'
    BY <1>1, <1>6, <2>1 DEF Alone, Counting, Written
  <2>. QED  BY <2>2, <2>3, <2>4
<1>10. CountInv'
  BY <1>1 DEF TallyInv, CountInv
<1>. QED  BY <1>7, <1>8, <1>9, <1>10 DEF TallyInv

LEMMA ReadKeeps ==
  ASSUME TallyInv, NEW c \in Recorders, NEW pair \in Pairs, Read(c, pair)
  PROVE  TallyInv'
<1>1. /\ step[c] = "count" /\ pair \in left[c] /\ \A q \in left[c] : ~Before(q, pair)
      /\ step' = [step EXCEPT ![c] = "write"]
      /\ left' = [left EXCEPT ![c] = @ \ {pair}]
      /\ seen' = [seen EXCEPT ![c] = [pair |-> pair, count |-> count[pair]]]
      /\ UNCHANGED <<due, recording, recorded, count, raced, collided, wrote>>
  BY DEF Read, InTurn, Tables, dueVars
<1>2. /\ step'[c] = "write" /\ left'[c] = left[c] \ {pair}
      /\ seen'[c] = [pair |-> pair, count |-> count[pair]]
      /\ seen'[c].pair = pair /\ seen'[c].count = count[pair]
      /\ OthersRest(c)
  BY <1>1 DEF TallyInv, TallyTypes, OthersRest
<1>3. TallyTypes'
  <2>1. \A d \in Recorders : step'[d] = "idle" <=> recording'[d] = D!Nothing
    BY <1>1, <1>2 DEF OthersRest, TallyInv, TallyTypes
  <2>. QED  BY <1>1, <2>1 DEF TallyInv, TallyTypes
<1>4. DueInv'
  BY <1>1, <1>2, DueStays
<1>5. left[c] \subseteq Pairs /\ count[pair] \in Nat /\ count[pair] <= Counted(recorded, pair)
  BY DEF TallyInv, TallyTypes, CountInv
<1>6. \A q \in left[c] \ {pair} : Before(pair, q)
  BY <1>1, <1>5, BeforeOrders
<1>7. /\ PairsOf(OrderOf(c)) = left[c] \cup Written(c)
      /\ \A p \in Written(c), q \in left[c] : Before(p, q)
  BY <1>1 DEF TallyInv, Progress, Counting
<1>8. Progress(c)'
  <2>1. Pair(c)' = pair /\ Written(c)' = Written(c) /\ OrderOf(c)' = OrderOf(c)
    BY <1>1, <1>2 DEF Pair, Written, OrderOf
  <2>2. left[c] = left'[c] \cup {pair}
    BY <1>1, <1>2
  <2>. QED  BY <1>1, <1>2, <1>5, <1>6, <1>7, <2>1, <2>2 DEF Progress, Counting
<1>9. Exact(c)'
  BY <1>1 DEF TallyInv, Exact, Written
<1>10. Counting(c) /\ Alone(c)
  BY <1>1 DEF TallyInv, Counting
<1>11. Counting(c)' => /\ OrderOf(c)' \notin recorded
                       /\ \A d \in Recorders \ {c} : Counting(d) => OrderOf(d) # OrderOf(c)'
  BY <1>1, <1>10 DEF Alone, OrderOf
<1>12. \A d \in Recorders \ {c} : Written(c)' \cap Written(d) = {}
  BY <1>1, <1>10 DEF Alone, Written
<1>. QED  BY <1>1, <1>2, <1>3, <1>4, <1>8, <1>9, <1>11, <1>12, OnlyOneMoves

LEMMA WriteKeeps ==
  ASSUME TallyInv, NEW c \in Recorders, Write(c)
  PROVE  TallyInv'
<1>. PICK pair, old, was : pair = Pair(c) /\ old = wrote[c] /\ was = seen[c].count
  OBVIOUS
<1> DEFINE new == [p \in DOMAIN old \cup {pair} |-> IF p = pair THEN was + 1 ELSE old[p]]
<1>1. /\ step[c] = "write" /\ \A d \in Recorders \ {c} : pair \notin Written(d)
      /\ step' = [step EXCEPT ![c] = "count"]
      /\ wrote' = [wrote EXCEPT ![c] = new]
      /\ raced' = IF count[pair] = was THEN raced ELSE raced \cup {pair}
      /\ UNCHANGED <<due, recording, recorded, count, collided, left, seen>>
  BY DEF Write, PairBusy, Written, dueVars
<1>2. step'[c] = "count" /\ wrote'[c] = new /\ OthersRest(c)
  BY <1>1 DEF TallyInv, TallyTypes, OthersRest
<1>3. /\ pair \in Pairs /\ was \in Nat /\ was <= Counted(recorded, pair)
      /\ PairsOf(OrderOf(c)) = left[c] \cup Written(c) \cup {pair}
      /\ \A q \in left[c] : Before(pair, q)
      /\ \A p \in Written(c), q \in left[c] : Before(p, q)
  BY <1>1 DEF TallyInv, Progress, Counting
<1>4. Written(c)' = Written(c) \cup {pair} /\ Written(c) = DOMAIN old
  BY <1>2 DEF Written
<1>5. TallyTypes'
  <2>1. \A d \in Recorders : step'[d] = "idle" <=> recording'[d] = D!Nothing
    BY <1>1, <1>2 DEF OthersRest, TallyInv, TallyTypes
  <2>2. \A d \in Recorders : DOMAIN wrote'[d] \subseteq Pairs
    BY <1>2, <1>3, <1>4 DEF OthersRest, TallyInv, TallyTypes, Written
  <2>3. DOMAIN wrote' = Recorders
    BY <1>1 DEF TallyInv, TallyTypes
  <2>. QED  BY <1>1, <2>1, <2>2, <2>3 DEF TallyInv, TallyTypes
<1>6. DueInv'
  BY <1>1, <1>2, DueStays
<1>7. Progress(c)'
  <2>1. OrderOf(c)' = OrderOf(c) /\ left'[c] = left[c]
    BY <1>1 DEF OrderOf
  <2>. QED  BY <1>2, <1>3, <1>4, <2>1 DEF Progress, Counting
<1>8. Exact(c)'
  <2>1. raced \subseteq raced' /\ (pair \notin raced' => count[pair] = was)
    BY <1>1
  <2>2. ASSUME NEW p \in Written(c) \cup {pair}
        PROVE  /\ new[p] \in Nat \ {0}
               /\ new[p] <= Counted(recorded, p) + 1
               /\ p \notin raced' => new[p] = count[p] + 1
    <3>1. CASE p = pair
      <4>1. new[p] = was + 1
        BY <3>1
      <4>2. Counted(recorded, p) \in Nat /\ count[p] \in Nat
        BY <1>3, <3>1, CountedType DEF TallyInv, TallyTypes
      <4>3. was <= Counted(recorded, p) /\ (p \notin raced' => count[p] = was)
        BY <1>3, <2>1, <3>1
      <4>. HIDE DEF new
      <4>. QED  BY <1>3, <4>1, <4>2, <4>3, SMT
    <3>2. CASE p # pair
      <4>1. new[p] = old[p] /\ p \in DOMAIN old
        BY <1>4, <3>2
      <4>2. Exact(c)
        BY DEF TallyInv
      <4>. HIDE DEF new
      <4>. QED  BY <1>4, <2>1, <4>1, <4>2 DEF Exact, Written
    <3>. QED  BY <3>1, <3>2
  <2>. HIDE DEF new
  <2>. QED  BY <1>1, <1>2, <1>4, <2>2 DEF Exact
<1>9. Counting(c) /\ Alone(c)
  BY <1>1 DEF TallyInv, Counting
<1>10. Counting(c)' => /\ OrderOf(c)' \notin recorded
                       /\ \A d \in Recorders \ {c} : Counting(d) => OrderOf(d) # OrderOf(c)'
  BY <1>1, <1>9 DEF Alone, OrderOf
<1>11. \A d \in Recorders \ {c} : Written(c)' \cap Written(d) = {}
  BY <1>1, <1>4, <1>9 DEF Alone
<1>12. raced \subseteq raced'
  BY <1>1
<1>. HIDE DEF new
<1>. QED  BY <1>1, <1>2, <1>5, <1>6, <1>7, <1>8, <1>10, <1>11, <1>12, OnlyOneMoves

LEMMA CommitKeeps ==
  ASSUME TallyInv, NEW c \in Recorders, Commit(c)
  PROVE  TallyInv'
<1>. PICK o : o = OrderOf(c)
  OBVIOUS
<1>1. /\ step[c] = "count" /\ left[c] = {} /\ Leave(c, "ack")
      /\ recorded' = recorded \cup {o}
      /\ count' = [p \in Pairs |-> IF p \in Written(c) THEN wrote[c][p] ELSE count[p]]
      /\ UNCHANGED <<due, recording, raced, collided>>
  BY DEF Commit, Written, dueVars
<1>2. /\ step'[c] = "ack" /\ Written(c)' = {} /\ OthersRest(c)
      /\ step' \in [Recorders -> {"idle", "lookup", "mark", "count", "write", "ack"}]
      /\ left' \in [Recorders -> SUBSET Pairs]
      /\ DOMAIN wrote' = Recorders /\ DOMAIN seen' = Recorders
      /\ \A d \in Recorders : DOMAIN wrote'[d] \subseteq Pairs
  BY <1>1, Left
<1>3. o \in Purchases /\ Written(c) \subseteq Pairs /\ Written(c) = PairsOf(o) /\ Counting(c)
  BY <1>1, AtWork DEF TallyInv, TallyTypes, Progress, Counting, Written
<1>4. o \notin recorded /\ IsFiniteSet(recorded) /\ recorded \subseteq Purchases
  BY <1>3 DEF TallyInv, TallyTypes, Alone
<1>5. /\ IsFiniteSet(recorded')
      /\ \A p : /\ Counted(recorded, p) \in Nat
                /\ p \in Written(c) => Counted(recorded', p) = Counted(recorded, p) + 1
                /\ p \notin Written(c) => Counted(recorded', p) = Counted(recorded, p)
  <2>. PICK was, more : was = recorded /\ more = was \cup {o}
    OBVIOUS
  <2>1. /\ IsFiniteSet(more)
        /\ \A p : /\ Counted(was, p) \in Nat
                  /\ p \in PairsOf(o) => Counted(more, p) = Counted(was, p) + 1
                  /\ p \notin PairsOf(o) => Counted(more, p) = Counted(was, p)
    BY <1>4, OneMoreOrder
  <2>2. recorded' = more
    BY <1>1
  <2>. QED  BY <1>3, <2>1, <2>2
<1>6. \A p \in Written(c) : /\ wrote[c][p] \in Nat \ {0}
                            /\ wrote[c][p] <= Counted(recorded, p) + 1
                            /\ p \notin raced => wrote[c][p] = count[p] + 1
  BY DEF TallyInv, Exact
<1>7. \A p \in Pairs : /\ p \in Written(c) => count'[p] = wrote[c][p]
                       /\ p \notin Written(c) => count'[p] = count[p]
  BY <1>1
<1>8. TallyTypes'
  <2>1. \A d \in Recorders : step'[d] = "idle" <=> recording'[d] = D!Nothing
    BY <1>1, <1>2 DEF OthersRest, TallyInv, TallyTypes
  <2>2. count' \in [Pairs -> Nat]
    <3>1. \A p \in Pairs : count[p] \in Nat
      BY DEF TallyInv, TallyTypes
    <3>. QED  BY <1>1, <1>6, <3>1
  <2>3. recorded' \subseteq Purchases
    BY <1>1, <1>3, <1>4
  <2>. QED  BY <1>1, <1>2, <1>5, <2>1, <2>2, <2>3 DEF TallyInv, TallyTypes
<1>9. CountInv'
  <2>1. ASSUME NEW p \in Pairs
        PROVE  /\ count'[p] <= Counted(recorded', p)
               /\ p \notin raced' => count'[p] = Counted(recorded', p)
               /\ Counted(recorded', p) > 0 => count'[p] > 0
    <3>1. /\ count[p] \in Nat
          /\ count[p] <= Counted(recorded, p)
          /\ p \notin raced => count[p] = Counted(recorded, p)
          /\ Counted(recorded, p) > 0 => count[p] > 0
      BY DEF TallyInv, TallyTypes, CountInv
    <3>2. CASE p \in Written(c)
      <4>1. /\ Counted(recorded, p) \in Nat
            /\ Counted(recorded', p) = Counted(recorded, p) + 1
        BY <1>5, <3>2
      <4>2. /\ count'[p] \in Nat \ {0}
            /\ count'[p] <= Counted(recorded, p) + 1
            /\ p \notin raced => count'[p] = count[p] + 1
        BY <1>6, <1>7, <3>2
      <4>3. raced' = raced
        BY <1>1
      <4>. QED  BY <3>1, <4>1, <4>2, <4>3
    <3>3. CASE p \notin Written(c)
      BY <1>1, <1>5, <1>7, <3>1, <3>3
    <3>. QED  BY <3>2, <3>3
  <2>. QED  BY <2>1 DEF CountInv
<1>10. DueInv'
  <2>1. recorded \subseteq recorded' /\ OrderOf(c) \in recorded' \cup collided'
    BY <1>1
  <2>. QED  BY <1>1, <1>2, <2>1, DueStays
<1>11. ASSUME NEW d \in Recorders \ {c}
       PROVE  Progress(d)' /\ Exact(d)' /\ Alone(d)'
  <2>1. /\ step'[d] = step[d] /\ left'[d] = left[d] /\ seen'[d] = seen[d] /\ wrote'[d] = wrote[d]
        /\ recording'[d] = recording[d]
    BY <1>2 DEF OthersRest
  <2>2. Progress(d) /\ Exact(d) /\ Alone(d) /\ Alone(c)
    BY DEF TallyInv
  <2>3. \A p : Counted(recorded, p) \in Nat /\ Counted(recorded, p) <= Counted(recorded', p)
    BY <1>5
  <2>4. Progress(d)'
    <3>1. Counted(recorded, Pair(d)) \in Nat /\ Counted(recorded, Pair(d)) <= Counted(recorded', Pair(d))
      BY <2>3
    <3>2. \A n \in Nat : n <= Counted(recorded, Pair(d)) => n <= Counted(recorded', Pair(d))
      BY <1>5, <3>1
    <3>. QED  BY <2>1, <2>2, <3>2 DEF Progress, Counting, Written, OrderOf, Pair
  <2>5. Exact(d)'
    <3>1. ASSUME NEW p \in Written(d)
          PROVE  /\ wrote[d][p] \in Nat \ {0}
                 /\ wrote[d][p] <= Counted(recorded', p) + 1
                 /\ p \notin raced' => wrote[d][p] = count'[p] + 1
      <4>1. p \notin Written(c) /\ p \in Pairs
        BY <2>2 DEF Alone, TallyInv, TallyTypes, Written
      <4>. QED  BY <1>1, <1>5, <1>7, <2>2, <4>1 DEF Exact
    <3>. QED  BY <2>1, <3>1 DEF Exact, Written
  <2>6. Alone(d)'
    <3>1. Counting(d)' => OrderOf(d)' \notin recorded'
      BY <1>1, <1>3, <2>1, <2>2 DEF Alone, Counting, OrderOf
    <3>2. ASSUME NEW e \in Recorders \ {d}
          PROVE  /\ Counting(d)' /\ Counting(e)' => OrderOf(d)' # OrderOf(e)'
                 /\ Written(d)' \cap Written(e)' = {}
      <4>1. CASE e = c
        BY <1>2, <4>1 DEF Counting
      <4>2. CASE e # c
        BY <1>2, <2>1, <2>2, <4>2 DEF OthersRest, Alone, Counting, Written, OrderOf
      <4>. QED  BY <4>1, <4>2
    <3>. QED  BY <3>1, <3>2 DEF Alone
  <2>. QED  BY <2>4, <2>5, <2>6
<1>12. Progress(c)' /\ Exact(c)' /\ Alone(c)'
  BY <1>2 DEF Progress, Exact, Alone, Counting
<1>. QED  BY <1>8, <1>9, <1>10, <1>11, <1>12 DEF TallyInv

LEMMA TallyNextKeeps == TallyInv /\ [TallyNext]_tallyVars => TallyInv'
<1>1. TallyInv /\ UNCHANGED tallyVars => TallyInv'
  <2> SUFFICES ASSUME TallyInv, UNCHANGED tallyVars PROVE TallyInv'
    OBVIOUS
  <2>1. UNCHANGED <<due, recording, recorded, count, step, left, seen, wrote, raced, collided>>
    BY DEF tallyVars
  <2>2. TallyTypes'
    BY <2>1 DEF TallyInv, TallyTypes
  <2>3. \A c \in Recorders : Progress(c)' /\ Exact(c)' /\ Alone(c)'
    BY <2>1 DEF TallyInv, Progress, Exact, Alone, Counting, Written, OrderOf, Pair
  <2>4. CountInv' /\ DueInv'
    BY <2>1 DEF TallyInv, CountInv, DueInv, WithRecorder, OrderOf
  <2>. QED  BY <2>2, <2>3, <2>4 DEF TallyInv
<1>. QED
  BY <1>1, TakePaidKeeps, LookUpKeeps, MarkKeeps, MarkedMeanwhileKeeps, ReadKeeps, WriteKeeps,
     CollideKeeps, CommitKeeps, AckPaidKeeps, LoseRecorderKeeps, BreakRecorderKeeps DEF TallyNext

LEMMA TalliesAgree == TallyInv => CountsFollowOrders /\ DroppedOnlyByCollision
<1> SUFFICES ASSUME TallyInv PROVE CountsFollowOrders /\ DroppedOnlyByCollision
  OBVIOUS
<1>1. \A p \in Pairs : Recorded(p) = Counted(recorded, p)
  BY DEF Recorded, Counted
<1>2. ASSUME NEW o \in Purchases, D!Settled(o)
      PROVE  o \in recorded \cup collided
  <2>1. o \notin due /\ ~WithRecorder(o)
    BY <1>2 DEF D!Settled, WithRecorder, OrderOf
  <2>. QED  BY <2>1 DEF TallyInv, DueInv
<1>3. CountsFollowOrders
  BY <1>1 DEF TallyInv, CountInv, CountsFollowOrders
<1>. QED  BY <1>2, <1>3 DEF DroppedOnlyByCollision

\* Whoever waits for a pair waits for a transaction that is past it; of a set of
\* waiting ones, the one with the last pair waits for nobody in the set.
LEMMA SomeoneMoves == TallyInv => NoCircularWait
<1> SUFFICES ASSUME TallyInv, NEW group \in SUBSET Recorders, group # {},
                    \A c \in group : \E d \in group : Awaits(c, d)
             PROVE  FALSE
  BY DEF NoCircularWait
<1> DEFINE Stuck == {c \in group : step[c] = "write"}
           Ahead(c) == {d \in Stuck : Before(Pair(c), Pair(d))}
           R == StrictSubsetOrdering(Stuck)
<1>1. \A c \in Recorders : step[c] = "write" => Pair(c) \in Pairs
  BY DEF TallyInv, Progress
<1>2. ASSUME NEW c \in Stuck
      PROVE  \E d \in Stuck : Before(Pair(c), Pair(d))
  <2>1. PICK d \in group : Awaits(c, d)
    BY <1>2
  <2>2. Pair(c) \in Written(d)
    BY <1>2, <2>1 DEF Awaits, Written
  <2>3. Counting(d)
    BY <2>2 DEF TallyInv, Progress
  <2>4. step[d] = "write"
    BY <2>3 DEF Awaits, Counting
  <2>5. Before(Pair(c), Pair(d))
    BY <2>2, <2>4 DEF TallyInv, Progress
  <2>. QED  BY <2>4, <2>5
<1>3. Stuck # {}
  <2>1. PICK c \in group : TRUE
    OBVIOUS
  <2>2. PICK d \in group : Awaits(c, d)
    BY <2>1
  <2>3. CASE step[c] = "write"
    BY <2>1, <2>3
  <2>4. CASE step[c] # "write"
    <3>1. Counting(d)
      BY <2>2, <2>4 DEF Awaits, Counting
    <3>2. step[d] = "write"
      BY <3>1 DEF Awaits, Counting
    <3>. QED  BY <3>2
  <2>. QED  BY <2>3, <2>4
<1>4. IsFiniteSet(Stuck)
  BY CoPurchaseAssumption, FS_Subset
<1>5. IsWellFoundedOn(R, SUBSET Stuck)
  BY <1>4, FS_StrictSubsetOrderingWellFounded, FS_FiniteSubsetsOfFinite
<1>6. PICK x \in {Ahead(c) : c \in Stuck} : \A y \in {Ahead(c) : c \in Stuck} : <<y, x>> \notin R
  <2>1. {Ahead(c) : c \in Stuck} \subseteq SUBSET Stuck /\ {Ahead(c) : c \in Stuck} # {}
    BY <1>3
  <2>. HIDE DEF R, Ahead
  <2>. QED  BY <1>5, <2>1, WFMin
<1>7. PICK c \in Stuck : x = Ahead(c)
  BY <1>6
<1>8. PICK d \in Stuck : Before(Pair(c), Pair(d))
  BY <1>2
<1>9. Ahead(d) \subseteq Ahead(c) /\ d \in Ahead(c) /\ d \notin Ahead(d)
  <2>1. \A e \in Stuck : Pair(e) \in Pairs
    BY <1>1
  <2>. QED  BY <1>8, <2>1, BeforeOrders
<1>10. <<Ahead(d), Ahead(c)>> \in R
  <2>1. Ahead(d) \in SUBSET Stuck /\ Ahead(c) \in SUBSET Stuck /\ Ahead(d) # Ahead(c)
    BY <1>9
  <2>. HIDE DEF Ahead, Stuck
  <2>. QED  BY <1>9, <2>1 DEF StrictSubsetOrdering
<1>. QED  BY <1>6, <1>7, <1>10

-----------------------------------------------------------------------------
(* The listings.  Between two pages the cursor parts the rows: all that    *)
(* were returned are before it, and of those that were there, and fitted,  *)
(* from the first page on, all the others are beyond it.                   *)

Parted ==
  \/ /\ cursor = FirstPage
     /\ pages = <<>> /\ steady = {}
  \/ /\ cursor \in (0 .. MaxTime) \X Ids
     /\ \A n \in DOMAIN pages : ~BeyondCursor(pages[n])
     /\ \A i \in steady : i \in ToSet(pages) \/ BeyondCursor(i)
  \/ /\ cursor = LastPage
     /\ steady \subseteq ToSet(pages)

ListingInv ==
  /\ ListingTypeOK
  /\ clock \in 0 .. MaxTime
  /\ pages \in Seq(Ids)
  /\ \A m, n \in DOMAIN pages : m < n => Newer(pages[m], pages[n])
  /\ Parted

LEMMA Cursors ==
  /\ FirstPage # LastPage
  /\ \A t, i : <<t, i>> # FirstPage /\ <<t, i>> # LastPage
BY SMT DEF FirstPage, LastPage

\* A cursor is a place in the order of the rows.
LEMMA NewerOrders ==
  ASSUME ListingAssumption, created \in [Ids -> Unborn .. MaxTime]
  PROVE  /\ \A i, j \in Ids : i = j \/ Newer(i, j) \/ Newer(j, i)
         /\ \A i \in Ids : ~Newer(i, i)
         /\ \A i, j, k \in Ids : Newer(i, j) /\ Newer(j, k) => Newer(i, k)
BY SMT DEF ListingAssumption, Newer, Unborn

LEMMA CursorParts ==
  ASSUME ListingAssumption, created \in [Ids -> Unborn .. MaxTime],
         cursor \in (0 .. MaxTime) \X Ids
  PROVE  \A i, j \in Ids : ~BeyondCursor(i) /\ BeyondCursor(j) => Newer(i, j)
<1>. PICK t, k : t = cursor[1] /\ k = cursor[2]
  OBVIOUS
<1>1. t \in 0 .. MaxTime /\ k \in Ids /\ cursor = <<t, k>>
  OBVIOUS
<1>2. cursor # FirstPage
  BY <1>1, Cursors
<1>3. \A i : BeyondCursor(i) <=> (created[i] < t \/ (created[i] = t /\ i < k))
  BY <1>2 DEF BeyondCursor
<1>. QED  BY <1>3, SMT DEF ListingAssumption, Newer, Unborn

LEMMA ListingInitInv == ListingInit => ListingInv
<1> SUFFICES ASSUME ListingInit PROVE ListingInv
  OBVIOUS
<1>1. ListingTypeOK
  BY ListingAssumption DEF ListingInit, ListingTypeOK, ToSet, Unborn
<1>2. clock \in 0 .. MaxTime /\ pages \in Seq(Ids) /\ DOMAIN pages = {}
  BY ListingAssumption DEF ListingInit
<1>3. Parted
  BY DEF ListingInit, Parted
<1>. QED  BY <1>1, <1>2, <1>3 DEF ListingInv

\* A step that returns nothing, and leaves alone when the rows returned and the
\* steady ones were created, keeps everything.
LEMMA RowsKeep ==
  ASSUME ListingInv, UNCHANGED <<cursor, pages>>, steady' \subseteq steady,
         ListingTypeOK', clock' \in 0 .. MaxTime,
         \A i \in committed : created'[i] = created[i]
  PROVE  ListingInv'
<1>1. \A n \in DOMAIN pages : pages[n] \in committed
  BY DEF ListingInv, ListingTypeOK, ToSet
<1>2. \A m, n \in DOMAIN pages : m < n => Newer(pages[m], pages[n])'
  BY <1>1 DEF ListingInv, Newer
<1>3. steady \subseteq committed
  BY DEF ListingInv, ListingTypeOK
<1>4. Parted'
  BY <1>1, <1>3 DEF ListingInv, Parted, BeyondCursor
<1>. QED  BY <1>2, <1>4 DEF ListingInv

LEMMA PassTimeKeeps == ListingInv /\ PassTime => ListingInv'
<1> SUFFICES ASSUME ListingInv, PassTime PROVE ListingInv'
  OBVIOUS
<1>1. ListingTypeOK' /\ clock' \in 0 .. MaxTime
  BY ListingAssumption DEF ListingInv, ListingTypeOK, PassTime
<1>. QED  BY <1>1, RowsKeep DEF PassTime

LEMMA BeginInsertKeeps ==
  ASSUME ListingInv, NEW i \in Ids, BeginInsert(i)
  PROVE  ListingInv'
<1>1. /\ created \in [Ids -> Unborn .. MaxTime] /\ created[i] = Unborn
      /\ committed \subseteq {j \in Ids : created[j] # Unborn}
      /\ clock \in 0 .. MaxTime
  BY DEF ListingInv, ListingTypeOK, BeginInsert
<1>2. created' = [created EXCEPT ![i] = clock] /\ fits \subseteq fits'
      /\ UNCHANGED <<clock, committed, cursor, pages, steady>>
  BY DEF BeginInsert
<1>3. created' \in [Ids -> Unborn .. MaxTime]
  BY <1>1, <1>2, ListingAssumption DEF Unborn
<1>4. i \notin committed /\ \A j \in committed : created'[j] = created[j]
  BY <1>1, <1>2
<1>5. ListingTypeOK'
  BY <1>1, <1>2, <1>3, <1>4 DEF ListingInv, ListingTypeOK
<1>. QED  BY <1>1, <1>2, <1>4, <1>5, RowsKeep

LEMMA CommitInsertKeeps ==
  ASSUME ListingInv, NEW i \in Ids, CommitInsert(i)
  PROVE  ListingInv'
<1>1. ListingTypeOK'
  BY DEF ListingInv, ListingTypeOK, CommitInsert
<1>. QED  BY <1>1, RowsKeep DEF CommitInsert, ListingInv

LEMMA ChangeStatusKeeps ==
  ASSUME ListingInv, NEW i \in Ids, ChangeStatus(i)
  PROVE  ListingInv'
<1>1. ListingTypeOK'
  BY DEF ListingInv, ListingTypeOK, ChangeStatus
<1>. QED  BY <1>1, RowsKeep DEF ChangeStatus, ListingInv

LEMMA FetchPageKeeps == ListingInv /\ FetchPage => ListingInv'
<1> SUFFICES ASSUME ListingInv, FetchPage PROVE ListingInv'
  OBVIOUS
<1>1. PICK page \in NextPages :
        /\ pages' = pages \o page
        /\ cursor' = IF ToSet(page) = Matching THEN LastPage ELSE Key(Last(page))
  BY DEF FetchPage
<1>2. PICK size \in 0 .. PageSize : page \in [1 .. size -> Matching]
  BY <1>1 DEF NextPages
<1>3. /\ cursor # LastPage /\ UNCHANGED <<clock, created, committed, fits>>
      /\ steady' = IF cursor = FirstPage THEN committed \cap fits ELSE steady
  BY DEF FetchPage
<1>4. /\ created \in [Ids -> Unborn .. MaxTime] /\ committed \subseteq Ids
      /\ \A i \in committed : created[i] \in 0 .. MaxTime
      /\ pages \in Seq(Ids) /\ size \in Nat
      /\ Matching \subseteq committed \cap fits
  <2>1. committed \subseteq {i \in Ids : created[i] # Unborn}
    BY DEF ListingInv, ListingTypeOK
  <2>. QED  BY <2>1, ListingAssumption DEF ListingInv, ListingTypeOK, Matching, Unborn
<1>5. /\ page \in Seq(Ids) /\ Len(page) = size /\ DOMAIN page = 1 .. size
      /\ ToSet(page) \subseteq Matching
  <2>1. page \in Seq(Matching)
    BY <1>2, <1>4
  <2>2. Len(page) = size /\ DOMAIN page = 1 .. size
    BY <1>2, <1>4, <2>1, LenProperties
  <2>3. page \in Seq(Ids)
    BY <1>4, <2>1
  <2>4. \A n \in 1 .. size : page[n] \in Matching
    BY <1>2
  <2>. QED  BY <2>2, <2>3, <2>4 DEF ToSet
<1>6. /\ pages' \in Seq(Ids)
      /\ DOMAIN pages' = 1 .. Len(pages) + size
      /\ \A n \in 1 .. Len(pages) : pages'[n] = pages[n]
      /\ \A n \in Len(pages) + 1 .. Len(pages) + size :
           n - Len(pages) \in 1 .. size /\ pages'[n] = page[n - Len(pages)]
  <2>. PICK old : old = pages
    OBVIOUS
  <2>1. old \in Seq(Ids) /\ Len(old) \in Nat
    BY <1>4, LenProperties
  <2>2. /\ old \o page \in Seq(Ids) /\ Len(old \o page) = Len(old) + size
        /\ \A n \in 1 .. Len(old) + size :
             (old \o page)[n] = IF n <= Len(old) THEN old[n] ELSE page[n - Len(old)]
    BY <1>5, <2>1, ConcatProperties
  <2>3. DOMAIN (old \o page) = 1 .. Len(old) + size
    BY <2>2, LenProperties
  <2>4. pages' = old \o page
    BY <1>1
  <2>. QED  BY <1>4, <2>1, <2>2, <2>3, <2>4
<1>7. DOMAIN pages = 1 .. Len(pages) /\ Len(pages) \in Nat
  BY <1>4, LenProperties
<1>8. ToSet(pages') = ToSet(pages) \cup ToSet(page)
  <2>1. ToSet(pages') \subseteq ToSet(pages) \cup ToSet(page)
    <3>1. ASSUME NEW n \in 1 .. Len(pages) + size
          PROVE  pages'[n] \in ToSet(pages) \cup ToSet(page)
      <4>1. CASE n \in 1 .. Len(pages)
        BY <1>6, <1>7, <4>1 DEF ToSet
      <4>2. CASE n \notin 1 .. Len(pages)
        <5>1. n \in Len(pages) + 1 .. Len(pages) + size
          BY <1>4, <1>7, <4>2
        <5>. QED  BY <1>5, <1>6, <5>1 DEF ToSet
      <4>. QED  BY <4>1, <4>2
    <3>. QED  BY <1>6, <3>1 DEF ToSet
  <2>2. ToSet(pages) \subseteq ToSet(pages')
    BY <1>4, <1>6, <1>7 DEF ToSet
  <2>3. ASSUME NEW n \in 1 .. size
        PROVE  page[n] \in ToSet(pages')
    <3>1. n + Len(pages) \in DOMAIN pages' /\ pages'[n + Len(pages)] = page[n]
      <4>1. n + Len(pages) \in Len(pages) + 1 .. Len(pages) + size
        BY <1>4, <1>7
      <4>2. n + Len(pages) \in 1 .. Len(pages) + size /\ (n + Len(pages)) - Len(pages) = n
        BY <1>4, <1>7
      <4>. QED  BY <1>6, <4>1, <4>2
    <3>. QED  BY <3>1 DEF ToSet
  <2>. QED  BY <1>5, <2>1, <2>2, <2>3 DEF ToSet
<1>9. /\ \A m, n \in 1 .. size : m < n => Newer(page[m], page[n])
      /\ \A i \in Matching \ ToSet(page) : Len(page) = PageSize /\ Newer(Last(page), i)
  BY <1>1, <1>5 DEF NextPages
<1>10. \A m \in 1 .. Len(pages), n \in 1 .. size : Newer(pages[m], page[n])
  <2>1. CASE cursor = FirstPage
    BY <1>4, <2>1, Cursors DEF ListingInv, Parted
  <2>2. CASE cursor # FirstPage
    <3>1. cursor \in (0 .. MaxTime) \X Ids /\ \A n \in DOMAIN pages : ~BeyondCursor(pages[n])
      BY <1>3, <2>2 DEF ListingInv, Parted
    <3>2. \A n \in 1 .. size : page[n] \in Ids /\ BeyondCursor(page[n])
      BY <1>2, <1>4 DEF Matching
    <3>3. \A m \in 1 .. Len(pages) : pages[m] \in Ids
      BY <1>4
    <3>. QED  BY <1>4, <1>7, <3>1, <3>2, <3>3, CursorParts, ListingAssumption
  <2>. QED  BY <2>1, <2>2
<1>11. \A m, n \in DOMAIN pages' : m < n => Newer(pages'[m], pages'[n])
  <2> SUFFICES ASSUME NEW m \in 1 .. Len(pages) + size, NEW n \in 1 .. Len(pages) + size, m < n
               PROVE  Newer(pages'[m], pages'[n])
    BY <1>6
  <2>1. CASE n \in 1 .. Len(pages)
    <3>1. m \in 1 .. Len(pages)
      BY <1>4, <1>7, <2>1
    <3>. QED  BY <1>6, <1>7, <2>1, <3>1 DEF ListingInv
  <2>2. CASE m \in 1 .. Len(pages) /\ n \notin 1 .. Len(pages)
    <3>1. n \in Len(pages) + 1 .. Len(pages) + size
      BY <1>4, <1>7, <2>2
    <3>. QED  BY <1>6, <1>10, <2>2, <3>1
  <2>3. CASE m \notin 1 .. Len(pages)
    <3>1. m \in Len(pages) + 1 .. Len(pages) + size /\ n \in Len(pages) + 1 .. Len(pages) + size
      BY <1>4, <1>7, <2>3
    <3>2. m - Len(pages) < n - Len(pages)
      BY <1>4, <1>7
    <3>. QED  BY <1>6, <1>9, <3>1, <3>2
  <2>. QED  BY <2>1, <2>2, <2>3
<1>12. steady' \subseteq committed \cap fits
  BY <1>3 DEF ListingInv, ListingTypeOK
<1>13. \A i \in steady' : i \in ToSet(pages) \/ i \in Matching
  <2>1. CASE cursor = FirstPage
    BY <1>3, <2>1 DEF Matching, BeyondCursor
  <2>2. CASE cursor # FirstPage
    BY <1>3, <1>12, <2>2 DEF ListingInv, Parted, Matching
  <2>. QED  BY <2>1, <2>2
<1>14. ToSet(pages') \subseteq committed
  BY <1>4, <1>5, <1>8 DEF ListingInv, ListingTypeOK
<1>15. CASE ToSet(page) = Matching
  <2>1. cursor' = LastPage /\ steady' \subseteq ToSet(pages')
    BY <1>1, <1>8, <1>13, <1>15
  <2>2. Parted'
    BY <2>1 DEF Parted
  <2>3. ListingTypeOK'
    BY <1>3, <1>12, <1>14, <2>1 DEF ListingInv, ListingTypeOK
  <2>. QED  BY <1>3, <1>6, <1>11, <2>2, <2>3 DEF ListingInv, Newer
<1>16. CASE ToSet(page) # Matching
  <2>. PICK last : last = Last(page)
    OBVIOUS
  <2>1. PICK i \in Matching : i \notin ToSet(page)
    BY <1>5, <1>16
  <2>2. size = PageSize /\ size \in Nat \ {0}
    BY <1>5, <1>9, <2>1, ListingAssumption
  <2>3. last = page[size] /\ last \in committed /\ last \in Ids /\ created[last] \in 0 .. MaxTime
    BY <1>2, <1>4, <1>5, <2>2 DEF Last
  <2>4. cursor' = <<created[last], last>> /\ cursor' # FirstPage
    BY <1>1, <1>16, Cursors DEF Key
  <2>5. \A j \in Ids : BeyondCursor(j)' <=> Newer(last, j)
    BY <1>3, <1>4, <2>3, <2>4, ListingAssumption, SMT DEF BeyondCursor, Newer, Unborn
  <2>6. ASSUME NEW n \in DOMAIN pages'
        PROVE  (~BeyondCursor(pages[n]))'
    <3>1. pages'[n] \in Ids
      BY <1>6
    <3>2. pages'[n] = last \/ Newer(pages'[n], last)
      <4>1. CASE n \in 1 .. Len(pages)
        BY <1>6, <1>10, <2>2, <2>3, <4>1
      <4>2. CASE n \notin 1 .. Len(pages)
        <5>1. n \in Len(pages) + 1 .. Len(pages) + size
          BY <1>4, <1>6, <1>7, <4>2
        <5>2. PICK k \in 1 .. size : pages'[n] = page[k]
          BY <1>6, <5>1
        <5>3. k = size \/ k < size
          BY <2>2
        <5>. QED  BY <1>9, <2>2, <2>3, <5>2, <5>3
      <4>. QED  BY <4>1, <4>2
    <3>3. ~Newer(last, pages'[n])
      BY <1>4, <2>3, <3>1, <3>2, NewerOrders, ListingAssumption
    <3>. PICK j : j = pages'[n]
      OBVIOUS
    <3>4. ~BeyondCursor(j)'
      BY <2>5, <3>1, <3>3
    <3>. QED  BY <3>4 DEF BeyondCursor
  <2>7. \A j \in steady' : j \in ToSet(pages') \/ BeyondCursor(j)'
    BY <1>4, <1>8, <1>9, <1>13, <2>5
  <2>8. cursor' \in (0 .. MaxTime) \X Ids
    BY <2>3, <2>4
  <2>9. Parted'
    <3>1. (\A n \in DOMAIN pages : ~BeyondCursor(pages[n]))'
      BY <2>6
    <3>. QED  BY <2>7, <2>8, <3>1 DEF Parted
  <2>10. ListingTypeOK'
    BY <1>3, <1>12, <1>14, <2>8 DEF ListingInv, ListingTypeOK
  <2>. QED  BY <1>3, <1>6, <1>11, <2>9, <2>10 DEF ListingInv, Newer
<1>. QED  BY <1>15, <1>16

LEMMA ListingNextKeeps == ListingInv /\ [ListingNext]_listingVars => ListingInv'
<1>1. ListingInv /\ UNCHANGED listingVars => ListingInv'
  <2> SUFFICES ASSUME ListingInv, UNCHANGED listingVars PROVE ListingInv'
    OBVIOUS
  <2>1. UNCHANGED <<clock, created, committed, fits, cursor, pages, steady>>
    BY DEF listingVars
  <2>2. ListingTypeOK'
    BY <2>1 DEF ListingInv, ListingTypeOK
  <2>. QED  BY <2>1, <2>2, RowsKeep DEF ListingInv
<1>. QED
  BY <1>1, PassTimeKeeps, BeginInsertKeeps, CommitInsertKeeps, ChangeStatusKeeps, FetchPageKeeps
     DEF ListingNext

-----------------------------------------------------------------------------
(* The parts together: each keeps its own invariant while another moves.   *)

EdgeInv == BucketInv /\ TallyInv /\ NoticeInv /\ ListingInv

LEMMA EdgeInvariant == Spec => []EdgeInv
<1>1. Init => EdgeInv
  BY InitBucketInv, TallyInitInv, NoticeInitInv, ListingInitInv DEF Init, EdgeInv
<1>2. EdgeInv /\ [Next]_vars => EdgeInv'
  <2> SUFFICES ASSUME EdgeInv, [Next]_vars PROVE EdgeInv'
    OBVIOUS
  <2>1. [BucketNext]_bucketVars /\ [TallyNext]_tallyVars
    BY DEF Next, vars
  <2>2. [NoticeNext]_noticeVars /\ [ListingNext]_listingVars
    BY DEF Next, vars
  <2>. QED  BY <2>1, <2>2, BucketNextKeeps, TallyNextKeeps, NoticeNextKeeps, ListingNextKeeps DEF EdgeInv
<1>. QED  BY <1>1, <1>2, PTL DEF Spec

\* Every state of the four services has its types: a clock that is set back leaves no
\* bucket with less than nothing, no page returns a row that was not committed.
THEOREM EdgeTypes == Spec => []TypeOK
<1>1. EdgeInv => TypeOK
  <2> SUFFICES ASSUME EdgeInv PROVE TypeOK
    OBVIOUS
  <2>1. TallyTypeOK
    BY DEF EdgeInv, TallyInv, TallyTypes, TallyTypeOK
  <2>2. NoticeTypeOK
    BY DEF EdgeInv, NoticeInv, NoticeTypes, NoticeTypeOK
  <2>. QED  BY <2>1, <2>2 DEF EdgeInv, BucketInv, ListingInv, TypeOK
<1>. QED  BY <1>1, EdgeInvariant, PTL

\* FR-7: over no window does a caller get more than a full bucket and what the
\* window refills, whatever the clock of Redis does and whenever the key expires.
THEOREM BurstIsBounded == Spec => []BurstBounded
<1>1. EdgeInv => BurstBounded
  <2> SUFFICES ASSUME EdgeInv PROVE BurstBounded
    OBVIOUS
  <2>1. BucketInv
    BY DEF EdgeInv
  <2>. QED  BY <2>1, LevelType, BucketAssumption, SMT DEF BucketInv, BucketTypeOK, BurstBounded
<1>. QED  BY <1>1, EdgeInvariant, PTL

\* FR-7: who waits for as long as Retry-After says finds a token, unless another
\* request of the same caller took it.
THEOREM RetryAfterIsEnough == Spec => []PromiseKept
<1>1. EdgeInv => PromiseKept
  BY DEF EdgeInv, BucketInv
<1>. QED  BY <1>1, EdgeInvariant, PTL

\* However many instances count, and however often a message is delivered, a pair's
\* count is that of the recorded orders that hold it, or below where two
\* transactions met over it.
THEOREM TalliesFollow == Spec => []CountsFollowOrders
<1>1. EdgeInv => CountsFollowOrders
  BY TalliesAgree DEF EdgeInv
<1>. QED  BY <1>1, EdgeInvariant, PTL

\* Redeliveries, lost connections and killed instances drop no order: one that is
\* settled and not recorded was rolled back over a pair another had just inserted.
THEOREM OnlyCollisionsDrop == Spec => []DroppedOnlyByCollision
<1>1. EdgeInv => DroppedOnlyByCollision
  BY TalliesAgree DEF EdgeInv
<1>. QED  BY <1>1, EdgeInvariant, PTL

\* The transactions of any number of consumers, on baskets of any size, never wait
\* for each other in a circle, because each writes its pairs in ascending order.
THEOREM NoDeadlock == Spec => []NoCircularWait
<1>1. EdgeInv => NoCircularWait
  BY SomeoneMoves DEF EdgeInv
<1>. QED  BY <1>1, EdgeInvariant, PTL

\* FR-8: however many instances share the queue, an order is confirmed once, by the
\* time its event is settled, and only if it was fulfilled.
THEOREM ConfirmedExactlyOnce == Spec => []ConfirmedOnce
<1>1. EdgeInv => ConfirmedOnce
  <2> SUFFICES ASSUME EdgeInv PROVE ConfirmedOnce
    OBVIOUS
  <2>1. ASSUME NEW m \in Notices, KeyFor[m] = Fulfilled, N!Settled(m)
        PROVE  sent[OrderFor[m]] = 1
    <3>1. m \notin mail /\ ~WithNotifier(m)
      BY <2>1 DEF N!Settled, WithNotifier
    <3>. QED  BY <2>1, <3>1 DEF EdgeInv, NoticeInv, IsConfirmed
  <2>. QED  BY <2>1 DEF EdgeInv, NoticeInv, ConfirmedOnce
<1>. QED  BY <1>1, EdgeInvariant, PTL

\* A listing of any number of rows, on pages of any size, returns nothing twice or out
\* of order, and a reader that reaches the last page has seen every row that was
\* there, and fitted, from the first page on.
THEOREM ListingComplete == Spec => []PagesComplete
<1>1. EdgeInv => PagesComplete
  <2> SUFFICES ASSUME EdgeInv PROVE PagesComplete
    OBVIOUS
  <2>1. cursor = LastPage => cursor # FirstPage /\ cursor \notin (0 .. MaxTime) \X Ids
    BY Cursors
  <2>. QED  BY <2>1 DEF EdgeInv, ListingInv, Parted, PagesComplete
<1>. QED  BY <1>1, EdgeInvariant, PTL
=============================================================================
