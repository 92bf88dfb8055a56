--------------------------- MODULE RefreshRotation ---------------------------
(***************************************************************************)
(* The Gateway's refresh tokens.  A login issues a pair of tokens; a       *)
(* refresh spends the refresh token of a pair and issues the next one, in  *)
(* one transaction that locks the token's row.  A pair is named by the     *)
(* place in which it was issued.  No user is ever deleted, so every token  *)
(* has its user.                                                           *)
(***************************************************************************)
EXTENDS Integers

CONSTANTS
  Requests,    \* requests to /auth/refresh that may be in progress
  MaxPairs     \* bound: pairs issued

ASSUME RotationAssumption == MaxPairs \in Nat \ {0}

VARIABLES
  issued,     \* how many pairs have been
  row,        \* refresh_tokens: "valid" until revoked_at is set
  login,      \* the pair of the login from which each pair descends
  outdated,   \* refresh tokens past their expires_at
  request     \* what each request presented, how far it is, and the pair it answers

rotationVars == <<issued, row, login, outdated, request>>

Pairs == 1 .. MaxPairs
NoPair == 0

Asking(phase, pair, answer) == [phase |-> phase, pair |-> pair, answer |-> answer]
NoRequest == Asking("none", NoPair, NoPair)

RotationTypeOK ==
  /\ issued \in 0 .. MaxPairs
  /\ row \in [Pairs -> {"absent", "valid", "revoked"}]
  /\ \A t \in Pairs : row[t] = "absent" <=> t > issued
  /\ login \in [Pairs -> Pairs \cup {NoPair}]
  /\ outdated \subseteq Pairs
  /\ request \in [Requests -> [phase : {"none", "asked", "locked", "answered"},
                              pair : Pairs \cup {NoPair}, answer : Pairs \cup {NoPair}]]
  /\ \A r \in Requests : request[r].pair \in 0 .. issued

\* As Init leaves it, somebody has logged in.
RotationInit ==
  /\ issued = 1
  /\ row = [t \in Pairs |-> IF t = 1 THEN "valid" ELSE "absent"]
  /\ login = [t \in Pairs |-> IF t = 1 THEN 1 ELSE NoPair]
  /\ outdated = {}
  /\ request = [r \in Requests |-> NoRequest]

NewPair == issued + 1

LogIn ==
  /\ issued < MaxPairs
  /\ issued' = NewPair
  /\ row' = [row EXCEPT ![NewPair] = "valid"]
  /\ login' = [login EXCEPT ![NewPair] = NewPair]
  /\ UNCHANGED <<outdated, request>>

GrowOld(t) ==
  /\ row[t] # "absent"
  /\ outdated' = outdated \cup {t}
  /\ UNCHANGED <<issued, row, login, request>>

Ask(r, t) ==
  /\ request[r].phase = "none"
  /\ row[t] # "absent"
  /\ request' = [request EXCEPT ![r] = Asking("asked", t, NoPair)]
  /\ UNCHANGED <<issued, row, login, outdated>>

Answer(r, answer) ==
  request' = [request EXCEPT ![r] = Asking("answered", @.pair, answer)]

\* Wrong: the row is read without FOR UPDATE.
Unlocked(t) == TRUE

Lockable(t) == \A r \in Requests : ~(request[r].phase = "locked" /\ request[r].pair = t)

\* get_valid_by_raw_token waits for the row and then looks at revoked_at again.
FindValid(r) ==
  /\ request[r].phase = "asked"
  /\ row[request[r].pair] = "valid"
  /\ Lockable(request[r].pair)
  /\ request' = [request EXCEPT ![r].phase = "locked"]
  /\ UNCHANGED <<issued, row, login, outdated>>

FindNone(r) ==
  /\ request[r].phase = "asked"
  /\ row[request[r].pair] = "revoked"
  /\ Answer(r, NoPair)
  /\ UNCHANGED <<issued, row, login, outdated>>

RefuseOutdated(r) ==
  /\ request[r].phase = "locked"
  /\ request[r].pair \in outdated
  /\ row' = [row EXCEPT ![request[r].pair] = "revoked"]
  /\ Answer(r, NoPair)
  /\ UNCHANGED <<issued, login, outdated>>

Rotate(r) ==
  /\ request[r].phase = "locked"
  /\ request[r].pair \notin outdated
  /\ issued < MaxPairs
  /\ issued' = NewPair
  /\ row' = [row EXCEPT ![request[r].pair] = "revoked", ![NewPair] = "valid"]
  /\ login' = [login EXCEPT ![NewPair] = login[request[r].pair]]
  /\ Answer(r, NewPair)
  /\ UNCHANGED outdated

\* The transaction rolls back: the token stays what it was.
Abort(r) ==
  /\ request[r].phase = "locked"
  /\ Answer(r, NoPair)
  /\ UNCHANGED <<issued, row, login, outdated>>

\* The answer reaches the caller, or nobody.
Close(r) ==
  /\ request[r].phase = "answered"
  /\ request' = [request EXCEPT ![r] = NoRequest]
  /\ UNCHANGED <<issued, row, login, outdated>>

RotationNext ==
  \/ LogIn
  \/ \E t \in Pairs : GrowOld(t)
  \/ \E r \in Requests :
       \/ \E t \in Pairs : Ask(r, t)
       \/ FindValid(r) \/ FindNone(r) \/ RefuseOutdated(r) \/ Rotate(r) \/ Abort(r) \/ Close(r)

-----------------------------------------------------------------------------
(* Property. *)

\* Rotation: of all the pairs that descend from one login at most one can still be
\* refreshed, whoever presents the same token at the same time; "concurrent reuse
\* waits and then fails instead of minting two descendants".
OneLivePair ==
  \A t, u \in Pairs :
    row[t] = "valid" /\ row[u] = "valid" /\ login[t] = login[u] => t = u
=============================================================================
