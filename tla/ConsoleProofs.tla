---------------------------- MODULE ConsoleProofs ----------------------------
(***************************************************************************)
(* The console and its session, for any orders, sizes of queues, pairs and *)
(* troubles.  The invariant has a part for the refresh tokens, one for the *)
(* handler of the socket, one for the socket itself, two for what is shown *)
(* and one for the session; every step of the console is a step of the     *)
(* refresh tokens or leaves them alone.                                    *)
(***************************************************************************)
EXTENDS Console, SequenceTheorems, TLAPS

-----------------------------------------------------------------------------
(* The refresh tokens.  OneLivePair is not inductive: a request that found *)
(* its token valid rotates it later, so the lock must have kept the row    *)
(* valid for it and others away.                                           *)

Locked(r, t) == request[r].phase = "locked" /\ request[r].pair = t

Family ==
  /\ \A t \in Pairs : row[t] # "absent" => login[t] \in 1 .. issued
  /\ OneLivePair

Locks ==
  /\ \A r \in Requests, t \in Pairs : Locked(r, t) => row[t] = "valid"
  /\ \A r, s \in Requests, t \in Pairs : Locked(r, t) /\ Locked(s, t) => r = s
  /\ \A r \in Requests : request[r].phase # "none" => request[r].pair \in 1 .. issued

RotationInv == RotationTypeOK /\ Family /\ Locks

LEMMA InitRotationInv == RotationInit => RotationInv
<1> SUFFICES ASSUME RotationInit PROVE RotationInv
  OBVIOUS
<1> USE RotationAssumption DEF Pairs, NoPair, NoRequest, Asking
<1>1. RotationTypeOK
  BY SMT DEF RotationInit, RotationTypeOK
<1>2. Family
  BY SMT DEF RotationInit, Family, OneLivePair
<1>3. Locks
  BY SMT DEF RotationInit, Locks, Locked
<1>. QED  BY <1>1, <1>2, <1>3 DEF RotationInv

\* A step of one request that leaves the rows alone keeps what is said of them, and
\* the locks if what it locks was valid and free.
LEMMA RequestKeeps ==
  ASSUME RotationInv, UNCHANGED <<issued, row, login>>,
         NEW r \in Requests, NEW q, outdated' \subseteq Pairs,
         request' = [request EXCEPT ![r] = q],
         q \in [phase : {"none", "asked", "locked", "answered"},
                pair : Pairs \cup {NoPair}, answer : Pairs \cup {NoPair}],
         q.pair \in 0 .. issued,
         q.phase # "none" => q.pair \in 1 .. issued,
         q.phase = "locked" =>
           /\ row[q.pair] = "valid"
           /\ \A s \in Requests : ~Locked(s, q.pair)
  PROVE  RotationInv'
<1>1. RotationTypeOK'
  BY SMT DEF RotationInv, RotationTypeOK
<1>2. Family'
  BY DEF RotationInv, Family, OneLivePair
<1>3. \A s \in Requests : request'[s] = IF s = r THEN q ELSE request[s]
  BY DEF RotationInv, RotationTypeOK
<1>4. \A s \in Requests, t \in Pairs : s # r => (Locked(s, t)' <=> Locked(s, t))
  BY <1>3 DEF Locked
<1>5. \A t \in Pairs : Locked(r, t)' <=> q.phase = "locked" /\ q.pair = t
  BY <1>3 DEF Locked
<1>6. Locks'
  <2>1. \A s \in Requests, t \in Pairs : Locked(s, t)' => row'[t] = "valid"
    BY <1>4, <1>5 DEF RotationInv, Locks
  <2>2. \A s, u \in Requests, t \in Pairs : Locked(s, t)' /\ Locked(u, t)' => s = u
    BY <1>4, <1>5 DEF RotationInv, Locks
  <2>3. \A s \in Requests : request'[s].phase # "none" => request'[s].pair \in 1 .. issued'
    BY <1>3 DEF RotationInv, Locks
  <2>. QED  BY <2>1, <2>2, <2>3 DEF Locks, Locked
<1>. QED  BY <1>1, <1>2, <1>6 DEF RotationInv

\* What a request holds is one of the records a request can be.
LEMMA RequestTypes ==
  ASSUME RotationInv, NEW r \in Requests
  PROVE  /\ request[r] \in [phase : {"none", "asked", "locked", "answered"},
                            pair : Pairs \cup {NoPair}, answer : Pairs \cup {NoPair}]
         /\ request[r].pair \in 0 .. issued
         /\ request[r].phase # "none" => request[r].pair \in 1 .. issued
         /\ issued \in 0 .. MaxPairs
         /\ 1 .. issued \subseteq Pairs
BY RotationAssumption, SMT DEF RotationInv, RotationTypeOK, Locks, Pairs

LEMMA LogInKeeps == RotationInv /\ LogIn => RotationInv'
<1> SUFFICES ASSUME RotationInv, LogIn PROVE RotationInv'
  OBVIOUS
<1> USE RotationAssumption DEF NewPair
<1>1. issued \in 0 .. MaxPairs /\ issued < MaxPairs /\ issued' = issued + 1 /\ issued + 1 \in Pairs
  BY SMT DEF RotationInv, RotationTypeOK, LogIn, Pairs
<1>2. /\ \A t \in Pairs : row'[t] = IF t = issued + 1 THEN "valid" ELSE row[t]
      /\ \A t \in Pairs : login'[t] = IF t = issued + 1 THEN issued + 1 ELSE login[t]
      /\ row' \in [Pairs -> {"absent", "valid", "revoked"}]
      /\ login' \in [Pairs -> Pairs \cup {NoPair}]
  BY <1>1 DEF RotationInv, RotationTypeOK, LogIn
<1>3. \A t \in Pairs : row[t] = "absent" <=> t > issued
  BY DEF RotationInv, RotationTypeOK
<1>4. RotationTypeOK'
  <2>1. \A t \in Pairs : row'[t] = "absent" <=> t > issued'
    BY <1>1, <1>2, <1>3, SMT DEF Pairs
  <2>2. \A r \in Requests : request'[r].pair \in 0 .. issued'
    BY <1>1, SMT DEF RotationInv, RotationTypeOK, LogIn
  <2>. QED  BY <1>1, <1>2, <2>1, <2>2, SMT DEF RotationInv, RotationTypeOK, LogIn
<1>5. Family'
  <2>1. \A t \in Pairs : row[t] # "absent" => login[t] \in 1 .. issued
    BY DEF RotationInv, Family
  <2>2. \A t \in Pairs : row'[t] # "absent" => login'[t] \in 1 .. issued'
    BY <1>1, <1>2, <2>1, SMT
  <2>3. ASSUME NEW t \in Pairs, NEW u \in Pairs,
               row'[t] = "valid", row'[u] = "valid", login'[t] = login'[u]
        PROVE  t = u
    <3>1. CASE t # issued + 1 /\ u # issued + 1
      BY <1>2, <2>3, <3>1 DEF RotationInv, Family, OneLivePair
    <3>2. CASE t = issued + 1 \/ u = issued + 1
      BY <1>1, <1>2, <2>1, <2>3, <3>2, SMT
    <3>. QED  BY <3>1, <3>2
  <2>. QED  BY <2>2, <2>3 DEF Family, OneLivePair
<1>6. Locks'
  <2>1. \A r \in Requests, t \in Pairs : Locked(r, t)' <=> Locked(r, t)
    BY DEF Locked, LogIn
  <2>2. \A r \in Requests, t \in Pairs : Locked(r, t) => row'[t] = "valid"
    BY <1>2 DEF RotationInv, Locks
  <2>3. \A r \in Requests : request'[r].phase # "none" => request'[r].pair \in 1 .. issued'
    BY <1>1, SMT DEF RotationInv, RotationTypeOK, Locks, LogIn
  <2>. QED  BY <2>1, <2>2, <2>3 DEF RotationInv, Locks, Locked
<1>. QED  BY <1>4, <1>5, <1>6 DEF RotationInv

LEMMA RotateKeeps ==
  ASSUME RotationInv, NEW r \in Requests, Rotate(r)
  PROVE  RotationInv'
<1> USE RotationAssumption DEF NewPair
<1> DEFINE spent == request[r].pair
<1>1. /\ issued \in 0 .. MaxPairs /\ issued < MaxPairs /\ issued' = issued + 1
      /\ issued + 1 \in Pairs /\ spent \in 1 .. issued /\ spent \in Pairs
      /\ Locked(r, spent) /\ row[spent] = "valid"
  <2>1. issued \in 0 .. MaxPairs /\ issued < MaxPairs /\ issued' = issued + 1
    BY DEF RotationInv, RotationTypeOK, Rotate
  <2>2. spent \in 1 .. issued
    BY DEF RotationInv, Locks, Rotate
  <2>3. issued + 1 \in Pairs /\ spent \in Pairs
    BY <2>1, <2>2, SMT DEF Pairs
  <2>4. Locked(r, spent)
    BY DEF Locked, Rotate
  <2>. QED  BY <2>1, <2>2, <2>3, <2>4 DEF RotationInv, Locks
<1>2. \A t \in Pairs : row[t] = "absent" <=> t > issued
  BY DEF RotationInv, RotationTypeOK
<1>3. /\ \A t \in Pairs : row'[t] = IF t = issued + 1 THEN "valid"
                                    ELSE IF t = spent THEN "revoked" ELSE row[t]
      /\ \A t \in Pairs : login'[t] = IF t = issued + 1 THEN login[spent] ELSE login[t]
      /\ row' \in [Pairs -> {"absent", "valid", "revoked"}]
      /\ login' \in [Pairs -> Pairs \cup {NoPair}]
  BY <1>1 DEF RotationInv, RotationTypeOK, Rotate
<1>4. \A s \in Requests :
        request'[s] = IF s = r THEN Asking("answered", spent, issued + 1) ELSE request[s]
  BY DEF RotationInv, RotationTypeOK, Rotate, Answer
<1>5. RotationTypeOK'
  <2>1. \A t \in Pairs : row'[t] = "absent" <=> t > issued'
    BY <1>1, <1>2, <1>3, SMT DEF Pairs
  <2>2. \A s \in Requests : request'[s].pair \in 0 .. issued'
    <3>1. \A s \in Requests : request[s].pair \in 0 .. issued
      BY DEF RotationInv, RotationTypeOK
    <3>. QED  BY <1>1, <1>4, <3>1, SMT DEF Asking
  <2>3. request' \in [Requests -> [phase : {"none", "asked", "locked", "answered"},
                          pair : Pairs \cup {NoPair}, answer : Pairs \cup {NoPair}]]
    BY <1>1, SMT DEF RotationInv, RotationTypeOK, Rotate, Answer, Asking
  <2>4. issued' \in 0 .. MaxPairs /\ outdated' \subseteq Pairs
    BY <1>1, SMT DEF RotationInv, RotationTypeOK, Rotate
  <2>. QED  BY <1>3, <2>1, <2>2, <2>3, <2>4 DEF RotationTypeOK
<1>6. Family'
  <2>1. \A t \in Pairs : row[t] # "absent" => login[t] \in 1 .. issued
    BY DEF RotationInv, Family
  <2>2. \A t \in Pairs : row'[t] # "absent" => login'[t] \in 1 .. issued'
    BY <1>1, <1>3, <2>1, SMT
  <2>3. \A t \in Pairs : row[t] = "valid" /\ login[t] = login[spent] => t = spent
    BY <1>1 DEF RotationInv, Family, OneLivePair
  <2>4. ASSUME NEW t \in Pairs, NEW u \in Pairs,
               row'[t] = "valid", row'[u] = "valid", login'[t] = login'[u]
        PROVE  t = u
    <3>1. CASE t # issued + 1 /\ u # issued + 1
      BY <1>3, <2>4, <3>1 DEF RotationInv, Family, OneLivePair
    <3>2. CASE t = issued + 1 /\ u # issued + 1
      BY <1>1, <1>3, <2>3, <2>4, <3>2
    <3>3. CASE t # issued + 1 /\ u = issued + 1
      BY <1>1, <1>3, <2>3, <2>4, <3>3
    <3>. QED  BY <3>1, <3>2, <3>3
  <2>. QED  BY <2>2, <2>4 DEF Family, OneLivePair
<1>7. Locks'
  <2>1. \A s \in Requests, t \in Pairs : Locked(s, t)' => s # r /\ t # spent /\ Locked(s, t)
    BY <1>1, <1>4 DEF Locked, Asking, RotationInv, Locks
  <2>2. \A s \in Requests, t \in Pairs : Locked(s, t)' => row'[t] = "valid"
    BY <1>3, <2>1 DEF RotationInv, Locks
  <2>3. \A s, u \in Requests, t \in Pairs : Locked(s, t)' /\ Locked(u, t)' => s = u
    BY <2>1 DEF RotationInv, Locks
  <2>4. \A s \in Requests : request'[s].phase # "none" => request'[s].pair \in 1 .. issued'
    <3>1. \A s \in Requests : request[s].phase # "none" => request[s].pair \in 1 .. issued
      BY DEF RotationInv, Locks
    <3>. QED  BY <1>1, <1>4, <3>1, SMT DEF Asking
  <2>. QED  BY <2>2, <2>3, <2>4 DEF Locks, Locked
<1>. QED  BY <1>5, <1>6, <1>7 DEF RotationInv

LEMMA RefuseOutdatedKeeps ==
  ASSUME RotationInv, NEW r \in Requests, RefuseOutdated(r)
  PROVE  RotationInv'
<1> DEFINE spent == request[r].pair
<1>1. spent \in 1 .. issued /\ spent \in Pairs /\ Locked(r, spent)
  BY RequestTypes DEF RefuseOutdated, Locked
<1>2. /\ \A t \in Pairs : row'[t] = IF t = spent THEN "revoked" ELSE row[t]
      /\ row' \in [Pairs -> {"absent", "valid", "revoked"}]
      /\ row[spent] = "valid"
  BY <1>1 DEF RotationInv, RotationTypeOK, Locks, RefuseOutdated
<1>3. \A s \in Requests :
        request'[s] = IF s = r THEN Asking("answered", spent, NoPair) ELSE request[s]
  BY DEF RotationInv, RotationTypeOK, RefuseOutdated, Answer
<1>4. RotationTypeOK'
  <2>1. request' \in [Requests -> [phase : {"none", "asked", "locked", "answered"},
                          pair : Pairs \cup {NoPair}, answer : Pairs \cup {NoPair}]]
    BY <1>1, SMT DEF RotationInv, RotationTypeOK, RefuseOutdated, Answer, Asking
  <2>2. \A s \in Requests : request'[s].pair \in 0 .. issued
    BY <1>3 DEF Asking, RotationInv, RotationTypeOK
  <2>3. \A t \in Pairs : row'[t] = "absent" <=> row[t] = "absent"
    BY <1>2
  <2>. QED  BY <1>2, <2>1, <2>2, <2>3 DEF RotationInv, RotationTypeOK, RefuseOutdated
<1>5. Family'
  BY <1>2 DEF RotationInv, Family, OneLivePair, RefuseOutdated
<1>6. Locks'
  <2>1. \A s \in Requests, t \in Pairs : Locked(s, t)' => s # r /\ t # spent /\ Locked(s, t)
    BY <1>1, <1>3 DEF Locked, Asking, RotationInv, Locks
  <2>2. \A s \in Requests, t \in Pairs : Locked(s, t)' => row'[t] = "valid"
    BY <1>2, <2>1 DEF RotationInv, Locks
  <2>3. \A s, u \in Requests, t \in Pairs : Locked(s, t)' /\ Locked(u, t)' => s = u
    BY <2>1 DEF RotationInv, Locks
  <2>4. \A s \in Requests : request'[s].phase # "none" => request'[s].pair \in 1 .. issued'
    BY <1>1, <1>3 DEF Asking, RotationInv, Locks, RefuseOutdated
  <2>. QED  BY <2>2, <2>3, <2>4 DEF Locks, Locked
<1>. QED  BY <1>4, <1>5, <1>6 DEF RotationInv

LEMMA AskKeeps ==
  ASSUME RotationInv, NEW r \in Requests, NEW t \in Pairs, Ask(r, t)
  PROVE  RotationInv'
<1> DEFINE q == Asking("asked", t, NoPair)
<1>1. t \in 1 .. issued /\ t \in 0 .. issued
  BY RotationAssumption, SMT DEF RotationInv, RotationTypeOK, Ask, Pairs
<1>2. request' = [request EXCEPT ![r] = q] /\ outdated' \subseteq Pairs
  BY DEF Ask, RotationInv, RotationTypeOK
<1>3. UNCHANGED <<issued, row, login>>
  BY DEF Ask
<1>4. /\ q \in [phase : {"none", "asked", "locked", "answered"},
                pair : Pairs \cup {NoPair}, answer : Pairs \cup {NoPair}]
      /\ q.pair = t /\ q.phase = "asked"
  BY DEF Asking
<1>5. q.pair \in 0 .. issued /\ (q.phase # "none" => q.pair \in 1 .. issued)
  BY <1>1, <1>4
<1>6. q.phase # "locked"
  BY <1>4
<1> HIDE DEF q
<1>. QED  BY <1>2, <1>3, <1>4, <1>5, <1>6, RequestKeeps

LEMMA FindValidKeeps ==
  ASSUME RotationInv, NEW r \in Requests, FindValid(r)
  PROVE  RotationInv'
<1> DEFINE q == [request[r] EXCEPT !.phase = "locked"]
<1>1. request[r].pair \in 1 .. issued
  BY RequestTypes DEF FindValid
<1>2. /\ q \in [phase : {"none", "asked", "locked", "answered"},
                pair : Pairs \cup {NoPair}, answer : Pairs \cup {NoPair}]
      /\ q.pair = request[r].pair /\ q.phase = "locked"
  BY RequestTypes
<1>3. request' = [request EXCEPT ![r] = q] /\ outdated' \subseteq Pairs
  BY DEF FindValid, RotationInv, RotationTypeOK
<1>4. row[q.pair] = "valid" /\ \A s \in Requests : ~Locked(s, q.pair)
  BY <1>2 DEF FindValid, Lockable, Locked
<1>5. q.pair \in 0 .. issued
  BY <1>2, RequestTypes
<1>6. UNCHANGED <<issued, row, login>>
  BY DEF FindValid
<1> HIDE DEF q
<1>. QED  BY <1>1, <1>2, <1>3, <1>4, <1>5, <1>6, RequestKeeps

\* A request is answered with nothing, or forgotten.
LEMMA AnsweredKeeps ==
  ASSUME RotationInv, NEW r \in Requests, FindNone(r) \/ Abort(r) \/ Close(r)
  PROVE  RotationInv'
<1>1. UNCHANGED <<issued, row, login>> /\ outdated' \subseteq Pairs
  BY DEF FindNone, Abort, Close, RotationInv, RotationTypeOK
<1>2. CASE FindNone(r) \/ Abort(r)
  <2> DEFINE q == Asking("answered", request[r].pair, NoPair)
  <2>1. request' = [request EXCEPT ![r] = q] /\ request[r].phase # "none"
    BY <1>2 DEF FindNone, Abort, Answer, RotationInv, RotationTypeOK
  <2>2. /\ q \in [phase : {"none", "asked", "locked", "answered"},
                  pair : Pairs \cup {NoPair}, answer : Pairs \cup {NoPair}]
        /\ q.pair = request[r].pair /\ q.phase = "answered"
    BY RequestTypes DEF Asking
  <2>3. q.pair \in 0 .. issued /\ q.pair \in 1 .. issued
    BY <2>1, <2>2, RequestTypes
  <2> HIDE DEF q
  <2>. QED  BY <1>1, <2>1, <2>2, <2>3, RequestKeeps
<1>3. CASE Close(r)
  <2>1. request' = [request EXCEPT ![r] = NoRequest]
    BY <1>3 DEF Close
  <2>2. /\ NoRequest \in [phase : {"none", "asked", "locked", "answered"},
                          pair : Pairs \cup {NoPair}, answer : Pairs \cup {NoPair}]
        /\ NoRequest.pair = 0 /\ NoRequest.phase = "none"
    BY DEF NoRequest, Asking, NoPair
  <2>3. NoRequest.pair \in 0 .. issued
    BY <2>2, RequestTypes, RotationAssumption, SMT
  <2>. QED  BY <1>1, <2>1, <2>2, <2>3, RequestKeeps
<1>. QED  BY <1>2, <1>3

LEMMA GrowOldKeeps ==
  ASSUME RotationInv, NEW t \in Pairs, GrowOld(t)
  PROVE  RotationInv'
<1>1. RotationTypeOK'
  BY DEF RotationInv, RotationTypeOK, GrowOld
<1>2. Family' /\ Locks'
  BY DEF RotationInv, Family, OneLivePair, Locks, Locked, GrowOld
<1>. QED  BY <1>1, <1>2 DEF RotationInv

LEMMA StutterKeepsRotation == RotationInv /\ UNCHANGED rotationVars => RotationInv'
BY DEF RotationInv, RotationTypeOK, Family, OneLivePair, Locks, Locked, rotationVars

LEMMA RotationKeeps == RotationInv /\ [RotationNext]_rotationVars => RotationInv'
<1> SUFFICES ASSUME RotationInv, RotationNext PROVE RotationInv'
  BY StutterKeepsRotation
<1>1. CASE LogIn
  BY <1>1, LogInKeeps
<1>2. CASE \E t \in Pairs : GrowOld(t)
  BY <1>2, GrowOldKeeps
<1>3. ASSUME NEW r \in Requests, \E t \in Pairs : Ask(r, t)
      PROVE  RotationInv'
  BY <1>3, AskKeeps
<1>4. ASSUME NEW r \in Requests,
             FindValid(r) \/ FindNone(r) \/ RefuseOutdated(r) \/ Rotate(r) \/ Abort(r) \/ Close(r)
      PROVE  RotationInv'
  BY <1>4, FindValidKeeps, AnsweredKeeps, RefuseOutdatedKeeps, RotateKeeps
<1>. QED  BY <1>1, <1>2, <1>3, <1>4 DEF RotationNext

-----------------------------------------------------------------------------
(* The console.                                                            *)

On(s) == {s[i] : i \in 1 .. Len(s)}

Closes == {TooSlow, Unauthenticated}
Queued == Events \cup {Overflow}
Sent == Events \cup Closes \cup {Ready}
Announcing == <<"announce">>
Loads ==
  [phase : {"asked", "denied", "read"}, pair : Pairs, newest : BOOLEAN, retried : BOOLEAN,
   data : [Orders -> Statuses]]

FeedTypes ==
  /\ FeedTypeOK
  /\ queue \in Seq(Queued)
  /\ wire \in Seq(Sent)
  /\ handler \in [at : {"none", "auth", "greet", "open"}, todo : {Greeting, Announcing, <<>>},
                  pair : Pairs \cup {NoPair}]

ClientTypes ==
  /\ session \in Pairs \cup {NoPair}
  /\ conn \in {"down", "opening", "live", "refused"}
  /\ loads \in Seq(Loads)
  /\ shown \in [Orders -> Statuses]
  /\ expired \subseteq Pairs
  /\ missed \in BOOLEAN
  /\ mishap \in BOOLEAN

\* Until it listens the handler has sent nothing, and when it announces so it is a
\* subscriber, or was one; nothing is sent behind the close.
FeedInv ==
  /\ handler.at = "none" => ~open /\ queue = <<>>
  /\ handler.at = "auth" => handler.todo = Greeting /\ wire = <<>> /\ ~open /\ queue = <<>>
  /\ handler.at = "greet" =>
       /\ wire = <<>>
       /\ handler.todo = Greeting \/ (handler.todo = Announcing /\ (open \/ Overflow \in On(queue)))
  /\ handler.at = "open" => open \/ Overflow \in On(queue)
  /\ \A i \in 1 .. Len(wire) : wire[i] \in Closes => i = Len(wire) /\ handler.at = "none"

\* A socket the browser holds has a handler, or a close on its way.
SocketInv ==
  /\ conn \in {"down", "refused"} => handler.at = "none" /\ wire = <<>>
  /\ conn \in {"opening", "live"} /\ handler.at = "none" =>
       wire # <<>> /\ wire[Len(wire)] \in Closes
  /\ handler.at \in {"auth", "greet"} => conn = "opening"
  /\ session = NoPair => loads = <<>> /\ conn = "down"

Behind(x, s) == x = s \/ Rank[x] < Rank[s]

\* Nothing that is shown or on its way is ahead of the order's row.
PastInv ==
  /\ \A o \in Orders : Behind(shown[o], status[o])
  /\ \A o \in Orders, s \in Statuses :
       Changed(o, s) \in pipe \cup On(queue) \cup On(wire) => Behind(s, status[o])
  /\ \A load \in On(loads), o \in Orders : Behind(load.data[o], status[o])

Coming(load, o) == load.newest /\ (load.phase # "read" \/ load.data[o] = status[o])

\* The true status of an order is shown, or comes in an event or a snapshot, or the
\* socket is about to close.
Covered(o) ==
  \/ handler.at = "none" \/ Overflow \in On(queue)
  \/ Changed(o, status[o]) \in pipe \cup On(queue) \cup On(wire)
  \/ shown[o] = status[o]
  \/ \E load \in On(loads) : Coming(load, o)

CoverInv == conn = "live" /\ ~missed => \A o \in Orders : Covered(o)

\* At most one request of the tab is on its way; it presents the pair in use, or has
\* spent that and brings the next.
SessionInv ==
  ~mishap =>
    /\ session # NoPair
    /\ outdated = {}
    /\ request["copy"].phase = "none"
    /\ \A r, s \in Own : request[r].phase # "none" /\ request[s].phase # "none" => r = s
    /\ (\A r \in Own : request[r].phase # "answered") => row[session] = "valid"
    /\ \A r \in Own :
         /\ request[r].phase \in {"asked", "locked"} => request[r].pair = session
         /\ request[r].phase = "answered" =>
              request[r].answer \in Pairs /\ row[request[r].answer] = "valid"

LiveInv == FeedTypes /\ ClientTypes /\ FeedInv /\ SocketInv /\ PastInv /\ CoverInv

ConsoleInv == RotationInv /\ LiveInv /\ SessionInv

-----------------------------------------------------------------------------
(* Lemmas: messages, sequences and the order of statuses.                  *)

LEMMA Messages ==
  /\ Closes \cap Events = {} /\ Ready \notin Events \cup Closes /\ Overflow \notin Events
  /\ TooSlow # Unauthenticated
  /\ \A o \in Orders, s \in Statuses : Changed(o, s) # Overflow /\ Changed(o, s) # Ready
                                        /\ Changed(o, s) \notin Closes
  /\ \A e \in Events : e = Changed(e[1], e[2]) /\ e[1] \in Orders /\ e[2] \in Statuses
BY SMT DEF Closes, Events, Ready, Overflow, TooSlow, Unauthenticated, Changed, Statuses

LEMMA Greetings ==
  /\ Tail(Greeting) = Announcing /\ Tail(Announcing) = <<>>
  /\ Head(Greeting) = "subscribe" /\ Head(Announcing) = "announce"
  /\ Greeting # Announcing /\ Greeting # <<>> /\ Announcing # <<>>
BY SMT DEF Greeting, Announcing

LEMMA OnAppend ==
  ASSUME NEW S, NEW s \in Seq(S), NEW e
  PROVE  On(Append(s, e)) = On(s) \cup {e}
BY SMT DEF On

LEMMA OnTail ==
  ASSUME NEW S, NEW s \in Seq(S), s # <<>>
  PROVE  On(s) = {Head(s)} \cup On(Tail(s)) /\ Head(s) \in S /\ Tail(s) \in Seq(S)
<1>1. /\ Len(s) \in Nat \ {0} /\ Head(s) = s[1] /\ Head(s) \in S /\ Tail(s) \in Seq(S)
      /\ Len(Tail(s)) = Len(s) - 1
      /\ \A i \in 1 .. Len(s) - 1 : Tail(s)[i] = s[i + 1]
  BY SMT
<1>2. ASSUME NEW i \in 1 .. Len(s), i # 1 PROVE s[i] \in On(Tail(s))
  <2>1. i - 1 \in 1 .. Len(s) - 1 /\ s[(i - 1) + 1] = s[i]
    BY <1>1, <1>2, SMT
  <2>. QED  BY <1>1, <2>1 DEF On
<1>3. On(Tail(s)) \subseteq On(s)
  BY <1>1, SMT DEF On
<1>4. Head(s) \in On(s)
  BY <1>1, SMT DEF On
<1>5. On(s) \subseteq {Head(s)} \cup On(Tail(s))
  BY <1>1, <1>2 DEF On
<1>. QED  BY <1>1, <1>3, <1>4, <1>5

LEMMA OnEmpty == On(<<>>) = {}
BY SMT DEF On

LEMMA OnOne == ASSUME NEW e PROVE On(<<e>>) = {e}
BY SMT DEF On

LEMMA OnTypes ==
  ASSUME NEW S, NEW s \in Seq(S)
  PROVE  On(s) \subseteq S
BY SMT DEF On

LEMMA OnMap ==
  ASSUME NEW S, NEW s \in Seq(S), NEW F, F = [i \in DOMAIN s |-> F[i]],
         \A i \in DOMAIN s : F[i] \in S
  PROVE  /\ F \in Seq(S) /\ DOMAIN F = 1 .. Len(s) /\ Len(F) = Len(s)
         /\ On(F) = {F[i] : i \in 1 .. Len(s)}
<1>1. F \in Seq(S) /\ DOMAIN F = 1 .. Len(s) /\ Len(F) = Len(s)
  BY SMT
<1>. QED  BY <1>1 DEF On

LEMMA OnWithout ==
  ASSUME NEW i \in 1 .. Len(loads), loads \in Seq(Loads)
  PROVE  /\ Without(i) \in Seq(Loads)
         /\ On(Without(i)) \subseteq On(loads)
         /\ On(loads) \subseteq On(Without(i)) \cup {loads[i]}
<1> DEFINE a == SubSeq(loads, 1, i - 1)
           b == SubSeq(loads, i + 1, Len(loads))
<1>1. /\ a \in Seq(Loads) /\ Len(a) = i - 1 /\ \A j \in 1 .. i - 1 : a[j] = loads[j]
      /\ b \in Seq(Loads) /\ Len(b) = Len(loads) - i
      /\ \A j \in 1 .. Len(loads) - i : b[j] = loads[i + j]
  BY SMT
<1> HIDE DEF a, b
<1>2. /\ a \o b \in Seq(Loads) /\ Len(a \o b) = Len(loads) - 1
      /\ \A j \in 1 .. Len(loads) - 1 : (a \o b)[j] = IF j < i THEN loads[j] ELSE loads[j + 1]
  <2>1. /\ a \o b \in Seq(Loads) /\ Len(a \o b) = Len(a) + Len(b)
        /\ \A j \in 1 .. Len(a) + Len(b) :
             (a \o b)[j] = IF j <= Len(a) THEN a[j] ELSE b[j - Len(a)]
    BY <1>1, ConcatProperties
  <2>2. Len(loads) \in Nat /\ i \in Int /\ Len(a) + Len(b) = Len(loads) - 1
    BY <1>1, SMT
  <2>3. ASSUME NEW j \in 1 .. Len(loads) - 1
        PROVE  (a \o b)[j] = IF j < i THEN loads[j] ELSE loads[j + 1]
    <3>1. CASE j < i
      <4>1. j <= Len(a) /\ j \in 1 .. i - 1
        BY <1>1, <2>2, <3>1, SMT
      <4>. QED  BY <1>1, <2>1, <2>2, <3>1, <4>1
    <3>2. CASE ~(j < i)
      <4>1. ~(j <= Len(a)) /\ j - Len(a) \in 1 .. Len(loads) - i /\ i + (j - Len(a)) = j + 1
        BY <1>1, <2>2, <3>2, SMT
      <4>2. (a \o b)[j] = b[j - Len(a)]
        BY <2>1, <2>2, <4>1
      <4>3. b[j - Len(a)] = loads[i + (j - Len(a))]
        BY <1>1, <4>1
      <4>. QED  BY <3>2, <4>1, <4>2, <4>3
    <3>. QED  BY <3>1, <3>2
  <2>. QED  BY <2>1, <2>2, <2>3
<1>3. Without(i) = a \o b
  BY DEF Without, a, b
<1> HIDE DEF Without
<1>4. \A j \in 1 .. Len(loads) - 1 : Without(i)[j] \in On(loads)
  BY <1>2, <1>3, SMT DEF On
<1>5. ASSUME NEW j \in 1 .. Len(loads), j # i PROVE loads[j] \in On(Without(i))
  <2>1. CASE j < i
    <3>1. j \in 1 .. Len(loads) - 1
      BY <2>1, SMT
    <3>2. Without(i)[j] = loads[j] /\ Len(Without(i)) = Len(loads) - 1
      BY <1>2, <1>3, <2>1, <3>1
    <3>. QED  BY <3>1, <3>2 DEF On
  <2>2. CASE j > i
    <3>1. j - 1 \in 1 .. Len(loads) - 1 /\ ~(j - 1 < i) /\ (j - 1) + 1 = j
      BY <2>2, SMT
    <3>2. Without(i)[j - 1] = loads[j] /\ Len(Without(i)) = Len(loads) - 1
      BY <1>2, <1>3, <3>1
    <3>. QED  BY <3>1, <3>2 DEF On
  <2>. QED  BY <1>5, <2>1, <2>2, SMT
<1>6. On(Without(i)) \subseteq On(loads)
  BY <1>2, <1>3, <1>4 DEF On
<1>7. On(loads) \subseteq On(Without(i)) \cup {loads[i]}
  BY <1>5 DEF On
<1>. QED  BY <1>2, <1>3, <1>6, <1>7

LEMMA Ranks ==
  /\ \A s \in Statuses : Rank[s] \in Int
  /\ \A s \in Statuses : \A t \in Following[s] : t \in Statuses \ {"none"} /\ Rank[s] < Rank[t]
BY SMT DEF Rank, Statuses, Following

\* What is not ahead of a status and is further along than another is it.
LEMMA BehindFurthest ==
  ASSUME NEW s \in Statuses, NEW a \in Statuses, NEW b \in Statuses,
         Behind(a, s), Behind(b, s)
  PROVE  /\ Furthest(a, b) \in Statuses /\ Behind(Furthest(a, b), s)
         /\ a = s \/ b = s => Furthest(a, b) = s
<1>1. Rank[s] \in Int /\ Rank[a] \in Int /\ Rank[b] \in Int
  BY Ranks
<1>. QED  BY <1>1, SMT DEF Behind, Furthest

LEMMA BehindNext ==
  ASSUME NEW s \in Statuses, NEW x \in Statuses, Behind(x, s), NEW t \in Following[s]
  PROVE  Behind(x, t)
<1>1. Rank[s] \in Int /\ Rank[x] \in Int /\ Rank[t] \in Int /\ Rank[s] < Rank[t]
  BY Ranks
<1>. QED  BY <1>1, SMT DEF Behind

\* What a publication leaves behind: the event is on the queue of a subscriber, or
\* the subscriber fell behind and will be told.
LEMMA Published ==
  ASSUME FeedTypes, NEW e \in Events, Publish(e)
  PROVE  /\ queue' \in Seq(Queued) /\ Len(queue') <= QueueSize /\ open' \in BOOLEAN
         /\ On(queue') \subseteq On(queue) \cup {e, Overflow}
         /\ Overflow \in On(queue') \/ On(queue) \subseteq On(queue')
         /\ open => e \in On(queue') \/ Overflow \in On(queue')
         /\ open => open' \/ Overflow \in On(queue')
         /\ ~open => UNCHANGED <<open, queue>>
<1>0. queue \in Seq(Queued) /\ Len(queue) <= QueueSize /\ open \in BOOLEAN /\ QueueSize \in Nat \ {0}
  BY FeedAssumption DEF FeedTypes, FeedTypeOK
<1>1. CASE ~open
  BY <1>0, <1>1 DEF Publish
<1>2. CASE open /\ Len(queue) = QueueSize
  <2>1. open' = FALSE /\ queue' = <<Overflow>>
    BY <1>2 DEF Publish, FallBehind
  <2>2. queue' \in Seq(Queued) /\ Len(queue') = 1 /\ On(queue') = {Overflow}
    BY <2>1, OnOne DEF Queued
  <2>3. Len(queue') <= QueueSize
    BY <1>0, <2>2, SMT
  <2>. QED  BY <1>0, <1>2, <2>1, <2>2, <2>3
<1>3. CASE open /\ Len(queue) # QueueSize
  <2>1. open' = open /\ queue' = Append(queue, e)
    BY <1>3 DEF Publish
  <2>2. On(queue') = On(queue) \cup {e}
    BY <1>0, <2>1, OnAppend
  <2>3. queue' \in Seq(Queued) /\ Len(queue') = Len(queue) + 1
    BY <1>0, <2>1, AppendProperties DEF Queued
  <2>4. Len(queue') <= QueueSize
    BY <1>0, <1>3, <2>3, SMT
  <2>. QED  BY <1>0, <1>3, <2>1, <2>2, <2>3, <2>4
<1>. QED  BY <1>0, <1>1, <1>2, <1>3

-----------------------------------------------------------------------------
(* Lemmas: what a step must leave of each part.                            *)

LEMMA FeedStays ==
  ASSUME FeedTypes, FeedInv, UNCHANGED <<status, pipe, handler, open, queue, wire>>,
         troubles' \in 0 .. MaxTroubles
  PROVE  FeedTypes' /\ FeedInv'
BY DEF FeedTypes, FeedTypeOK, FeedInv

LEMMA SocketStays ==
  ASSUME SocketInv, UNCHANGED <<handler, wire, conn, session>>, loads = <<>> => loads' = <<>>
  PROVE  SocketInv'
BY DEF SocketInv

LEMMA PastStays ==
  ASSUME PastInv, UNCHANGED <<status, shown>>, On(loads') \subseteq On(loads),
         pipe' \cup On(queue') \cup On(wire') \subseteq
           pipe \cup On(queue) \cup On(wire) \cup {Overflow, Ready} \cup Closes
  PROVE  PastInv'
<1>1. \A o \in Orders, s \in Statuses :
        Changed(o, s) \in pipe' \cup On(queue') \cup On(wire') =>
          Changed(o, s) \in pipe \cup On(queue) \cup On(wire)
  BY Messages
<1>2. \A o \in Orders, s \in Statuses :
        Changed(o, s) \in pipe' \cup On(queue') \cup On(wire') => Behind(s, status'[o])
  BY <1>1 DEF PastInv
<1>. QED  BY <1>2 DEF PastInv

\* Whatever is true of the socket, a step that keeps events and snapshots on their
\* way, and the mark of a full queue, keeps the orders covered.
LEMMA CoverStays ==
  ASSUME CoverInv, UNCHANGED <<status, shown, loads>>,
         conn' = "live" /\ ~missed' => conn = "live" /\ ~missed,
         handler.at = "none" \/ Overflow \in On(queue) =>
           handler'.at = "none" \/ Overflow \in On(queue'),
         \/ handler'.at = "none" \/ Overflow \in On(queue')
         \/ (pipe \cup On(queue) \cup On(wire)) \cap Events \subseteq
              pipe' \cup On(queue') \cup On(wire'),
         FeedTypes
  PROVE  CoverInv'
<1> SUFFICES ASSUME conn' = "live", ~missed', NEW o \in Orders PROVE Covered(o)'
  BY DEF CoverInv
<1>1. Covered(o)
  BY DEF CoverInv
<1>2. status'[o] = status[o] /\ status[o] \in Statuses
  BY DEF FeedTypes, FeedTypeOK
<1>3. pipe \cup On(queue) \cup On(wire) \subseteq Events \cup {Overflow, Ready} \cup Closes
  <2>1. pipe \subseteq Events /\ On(queue) \subseteq Queued /\ On(wire) \subseteq Sent
    BY OnTypes DEF FeedTypes, FeedTypeOK
  <2>. QED  BY <2>1 DEF Queued, Sent
<1>4. Changed(o, status[o]) \in pipe \cup On(queue) \cup On(wire) =>
        Changed(o, status[o]) \in (pipe \cup On(queue) \cup On(wire)) \cap Events
  BY <1>2, <1>3, Messages
<1>5. CASE handler'.at = "none" \/ Overflow \in On(queue')
  BY <1>5 DEF Covered
<1>6. CASE ~(handler'.at = "none" \/ Overflow \in On(queue'))
  <2>1. \/ Changed(o, status[o]) \in pipe' \cup On(queue') \cup On(wire')
        \/ shown[o] = status[o]
        \/ \E load \in On(loads) : Coming(load, o)
    BY <1>1, <1>4, <1>6 DEF Covered
  <2>. QED  BY <1>2, <2>1 DEF Covered, Coming
<1>. QED  BY <1>5, <1>6

-----------------------------------------------------------------------------
(* Lemmas: each step of the Gateway keeps the live part of the invariant.  *)

LEMMA Troubled == FeedTypes /\ Trouble => troubles' \in 0 .. MaxTroubles
BY FeedAssumption, SMT DEF FeedTypes, FeedTypeOK, Trouble

LEMMA ClientStays == ClientTypes /\ UNCHANGED clientVars => ClientTypes'
BY DEF ClientTypes, clientVars

LEMMA PublishKeeps ==
  ASSUME LiveInv, NEW e \in pipe, Publish(e), pipe' \in {pipe, pipe \ {e}},
         troubles' \in 0 .. MaxTroubles,
         UNCHANGED <<status, handler, wire>>, UNCHANGED clientVars
  PROVE  LiveInv'
<1>0. e \in Events /\ pipe \subseteq Events
  BY DEF LiveInv, FeedTypes, FeedTypeOK
<1>1. /\ queue' \in Seq(Queued) /\ Len(queue') <= QueueSize /\ open' \in BOOLEAN
      /\ On(queue') \subseteq On(queue) \cup {e, Overflow}
      /\ Overflow \in On(queue') \/ On(queue) \subseteq On(queue')
      /\ open => e \in On(queue') \/ Overflow \in On(queue')
      /\ open => open' \/ Overflow \in On(queue')
      /\ ~open => UNCHANGED <<open, queue>>
  BY <1>0, Published DEF LiveInv
<1>2. FeedTypes'
  <2>1. \A i \in DOMAIN queue' : queue'[i] \in Events \cup {Overflow}
    BY <1>1 DEF Queued
  <2>. QED  BY <1>0, <1>1, <2>1 DEF LiveInv, FeedTypes, FeedTypeOK
<1>3. ClientTypes'
  BY ClientStays DEF LiveInv
<1>4. FeedInv'
  <2>1. open \/ Overflow \in On(queue) => open' \/ Overflow \in On(queue')
    BY <1>1
  <2>. QED  BY <1>1, <2>1 DEF LiveInv, FeedInv
<1>5. SocketInv'
  BY SocketStays DEF LiveInv, clientVars
<1>6. PastInv'
  BY <1>1, PastStays DEF LiveInv, clientVars
<1>7. CoverInv'
  <2>1. CASE conn # "live" \/ missed
    BY <2>1 DEF CoverInv, clientVars
  <2>2. CASE conn = "live" /\ handler.at = "none"
    BY <1>1, <2>2, CoverStays DEF LiveInv, clientVars
  <2>3. CASE conn = "live" /\ handler.at # "none"
    <3>1. handler.at \in {"none", "auth", "greet", "open"}
      BY DEF LiveInv, FeedTypes, FeedTypeOK
    <3>2. handler.at = "open"
      BY <2>3, <3>1 DEF LiveInv, SocketInv
    <3>3. open \/ Overflow \in On(queue)
      BY <3>2 DEF LiveInv, FeedInv
    <3>. QED  BY <1>1, <3>3, CoverStays DEF LiveInv, clientVars
  <2>. QED  BY <2>1, <2>2, <2>3
<1>. QED  BY <1>2, <1>3, <1>4, <1>5, <1>6, <1>7 DEF LiveInv

LEMMA ChangeStatusKeeps ==
  ASSUME LiveInv, NEW o \in Orders, ChangeStatus(o), UNCHANGED clientVars
  PROVE  LiveInv'
<1>1. PICK s \in Following[status[o]] :
        status' = [status EXCEPT ![o] = s] /\ pipe' = pipe \cup {Changed(o, s)}
  BY DEF ChangeStatus
<1>2. status \in [Orders -> Statuses] /\ s \in Statuses \ {"none"}
  BY Ranks DEF LiveInv, FeedTypes, FeedTypeOK
<1>3. /\ status' \in [Orders -> Statuses]
      /\ status'[o] = s /\ \A p \in Orders \ {o} : status'[p] = status[p]
  BY <1>1, <1>2
<1>4. Changed(o, s) \in Events
  BY <1>2 DEF Events
<1>5. UNCHANGED <<handler, open, queue, wire, troubles>>
  BY DEF ChangeStatus
<1>6. ASSUME NEW p \in Orders, NEW x \in Statuses, Behind(x, status[p])
      PROVE  Behind(x, status'[p])
  BY <1>2, <1>3, <1>6, BehindNext
<1>7. FeedTypes' /\ ClientTypes'
  BY <1>1, <1>3, <1>4, <1>5, ClientStays DEF LiveInv, FeedTypes, FeedTypeOK
<1>8. FeedInv' /\ SocketInv'
  BY <1>5 DEF LiveInv, FeedInv, SocketInv, clientVars
<1>9. PastInv'
  <2>1. \A p \in Orders : Behind(shown[p], status'[p])
    BY <1>6 DEF LiveInv, PastInv, ClientTypes
  <2>2. ASSUME NEW p \in Orders, NEW x \in Statuses,
               Changed(p, x) \in pipe' \cup On(queue) \cup On(wire)
        PROVE  Behind(x, status'[p])
    <3>1. CASE Changed(p, x) = Changed(o, s)
      BY <1>3, <3>1 DEF Changed, Behind
    <3>2. CASE Changed(p, x) # Changed(o, s)
      BY <1>1, <1>6, <2>2, <3>2 DEF LiveInv, PastInv
    <3>. QED  BY <3>1, <3>2
  <2>3. ASSUME NEW load \in On(loads), NEW p \in Orders
        PROVE  Behind(load.data[p], status'[p])
    <3>1. load \in Loads
      BY OnTypes DEF LiveInv, ClientTypes
    <3>2. load.data[p] \in Statuses
      BY <3>1 DEF Loads
    <3>. QED  BY <1>6, <3>2 DEF LiveInv, PastInv
  <2>. QED  BY <1>5, <2>1, <2>2, <2>3 DEF PastInv, clientVars
<1>10. CoverInv'
  <2> SUFFICES ASSUME conn = "live", ~missed, NEW p \in Orders PROVE Covered(p)'
    BY DEF CoverInv, clientVars
  <2>1. CASE p = o
    BY <1>1, <1>3, <2>1 DEF Covered
  <2>2. CASE p # o
    <3>1. Covered(p)
      BY DEF LiveInv, CoverInv
    <3>2. UNCHANGED <<handler, queue, wire, shown, loads, status[p]>> /\ pipe \subseteq pipe'
      BY <1>1, <1>3, <1>5, <2>2 DEF clientVars
    <3>. QED  BY <3>1, <3>2 DEF Covered, Coming
  <2>. QED  BY <2>1, <2>2
<1>. QED  BY <1>7, <1>8, <1>9, <1>10 DEF LiveInv

LEMMA LoseEventsKeeps ==
  ASSUME LiveInv, LoseEvents, missed' = TRUE,
         UNCHANGED <<session, conn, loads, shown, expired, mishap>>
  PROVE  LiveInv'
<1>1. pipe' \subseteq pipe /\ UNCHANGED <<status, handler, open, queue, wire>> /\ Trouble
  BY DEF LoseEvents
<1>2. FeedTypes' /\ FeedInv'
  BY <1>1, Troubled DEF LiveInv, FeedTypes, FeedTypeOK, FeedInv
<1>3. ClientTypes'
  BY DEF LiveInv, ClientTypes
<1>4. SocketInv' /\ PastInv' /\ CoverInv'
  BY <1>1, SocketStays, PastStays DEF LiveInv, CoverInv
<1>. QED  BY <1>2, <1>3, <1>4 DEF LiveInv

\* The handler returns and the close is the last thing the browser reads.
LEMMA HangKeeps ==
  ASSUME LiveInv, handler.at \in {"auth", "open"}, NEW last \in Closes, Hang(<<last>>),
         UNCHANGED <<status, pipe, troubles>>, UNCHANGED clientVars
  PROVE  LiveInv'
<1>1. /\ handler' = NoHandler /\ handler'.at = "none" /\ handler'.todo = <<>> /\ handler'.pair = 0
      /\ open' = FALSE /\ queue' = <<>>
      /\ wire' = wire \o <<last>>
  BY DEF Hang, NoHandler
<1>2. wire \in Seq(Sent) /\ last \in Sent /\ <<last>> \in Seq(Sent) /\ Len(<<last>>) = 1
      /\ <<last>>[1] = last
  BY DEF LiveInv, FeedTypes, Sent
<1>3. /\ wire' \in Seq(Sent) /\ Len(wire') = Len(wire) + 1
      /\ \A i \in 1 .. Len(wire) : wire'[i] = wire[i]
      /\ wire'[Len(wire) + 1] = last
      /\ Len(wire) \in Nat
  <2>1. /\ wire' \in Seq(Sent) /\ Len(wire') = Len(wire) + 1
        /\ \A i \in 1 .. Len(wire) + 1 :
             wire'[i] = IF i <= Len(wire) THEN wire[i] ELSE <<last>>[i - Len(wire)]
    BY <1>1, <1>2, ConcatProperties
  <2>2. Len(wire) \in Nat
    BY <1>2, LenProperties
  <2>3. Len(wire) + 1 \in 1 .. Len(wire) + 1 /\ ~(Len(wire) + 1 <= Len(wire))
        /\ Len(wire) + 1 - Len(wire) = 1
    BY <2>2, SMT
  <2>4. \A i \in 1 .. Len(wire) : i \in 1 .. Len(wire) + 1 /\ i <= Len(wire)
    BY <2>2, SMT
  <2>. QED  BY <1>2, <2>1, <2>2, <2>3, <2>4
<1>4. On(wire') = On(wire) \cup {last}
  <2>1. \A i \in 1 .. Len(wire) + 1 : i \in 1 .. Len(wire) \/ i = Len(wire) + 1
    BY <1>3, SMT
  <2>2. \A i \in 1 .. Len(wire) : i \in 1 .. Len(wire) + 1
    BY <1>3, SMT
  <2>3. Len(wire) + 1 \in 1 .. Len(wire) + 1
    BY <1>3, SMT
  <2>. QED  BY <1>3, <2>1, <2>2, <2>3 DEF On
<1>5. FeedTypes'
  <2>1. handler' \in [at : {"none", "auth", "greet", "open"}, todo : {Greeting, Announcing, <<>>},
                      pair : Pairs \cup {NoPair}]
    BY <1>1 DEF NoHandler, NoPair
  <2>2. Len(queue') <= QueueSize /\ queue' \in Seq(Queued) /\ DOMAIN queue' = {}
    BY <1>1, FeedAssumption, SMT
  <2>3. \A i \in DOMAIN wire' : wire'[i] \in Events \cup {Ready, TooSlow, Unauthenticated}
    BY <1>3 DEF Sent, Closes
  <2>. QED  BY <1>1, <1>3, <2>1, <2>2, <2>3 DEF LiveInv, FeedTypes, FeedTypeOK
<1>6. FeedInv'
  <2>1. ASSUME NEW i \in 1 .. Len(wire'), wire'[i] \in Closes PROVE i = Len(wire')
    <3>1. \A j \in 1 .. Len(wire) : wire[j] \notin Closes
      BY DEF LiveInv, FeedInv
    <3>2. i \in 1 .. Len(wire) \/ i = Len(wire')
      BY <1>3, SMT
    <3>. QED  BY <1>3, <2>1, <3>1, <3>2
  <2>. QED  BY <1>1, <2>1 DEF FeedInv
<1>7. SocketInv'
  <2>1. conn \in {"opening", "live"} /\ session # NoPair
    BY DEF LiveInv, SocketInv, ClientTypes
  <2>2. wire' # <<>> /\ wire'[Len(wire')] \in Closes
    BY <1>3, SMT
  <2>. QED  BY <1>1, <2>1, <2>2 DEF SocketInv, clientVars
<1>8. PastInv'
  BY <1>1, <1>4, OnEmpty, PastStays DEF LiveInv, clientVars
<1>9. CoverInv'
  BY <1>1, CoverStays DEF LiveInv, clientVars
<1>. QED  BY <1>5, <1>6, <1>7, <1>8, <1>9, ClientStays DEF LiveInv

LEMMA AuthenticateKeeps ==
  ASSUME LiveInv, NEW late, Authenticate(late), UNCHANGED clientVars
  PROVE  LiveInv'
<1>1. CASE Hang(<<Unauthenticated>>)
  BY <1>1, HangKeeps DEF Authenticate, Closes
<1>2. CASE handler' = [handler EXCEPT !.at = "greet"] /\ UNCHANGED <<open, queue, wire>>
  <2>1. /\ handler'.at = "greet" /\ handler'.todo = handler.todo
        /\ handler' \in [at : {"none", "auth", "greet", "open"}, todo : {Greeting, Announcing, <<>>},
                         pair : Pairs \cup {NoPair}]
    BY <1>2 DEF LiveInv, FeedTypes
  <2>2. handler.at = "auth" /\ handler.todo = Greeting /\ wire = <<>> /\ conn = "opening"
    BY DEF LiveInv, FeedInv, SocketInv, Authenticate
  <2>3. UNCHANGED <<status, pipe, troubles>>
    BY DEF Authenticate
  <2>4. FeedTypes'
    BY <1>2, <2>1, <2>3 DEF LiveInv, FeedTypes, FeedTypeOK
  <2>5. FeedInv'
    BY <1>2, <2>1, <2>2 DEF LiveInv, FeedInv
  <2>6. SocketInv'
    BY <1>2, <2>1, <2>2 DEF LiveInv, SocketInv, clientVars
  <2>7. PastInv'
    BY <1>2, <2>3, PastStays DEF LiveInv, clientVars
  <2>8. CoverInv'
    BY <2>2 DEF CoverInv, clientVars
  <2>. QED  BY <2>4, <2>5, <2>6, <2>7, <2>8, ClientStays DEF LiveInv
<1>. QED  BY <1>1, <1>2 DEF Authenticate

LEMMA GreetKeeps ==
  ASSUME LiveInv, Greet, UNCHANGED clientVars
  PROVE  LiveInv'
<1>1. /\ handler.at = "greet" /\ wire = <<>> /\ conn = "opening"
      /\ handler.todo = Greeting \/ (handler.todo = Announcing /\ (open \/ Overflow \in On(queue)))
      /\ UNCHANGED <<status, pipe, queue, troubles>>
  BY DEF LiveInv, FeedInv, SocketInv, Greet
<1>2. handler.pair \in Pairs \cup {NoPair}
  BY DEF LiveInv, FeedTypes
<1>3. CASE handler.todo = Greeting
  <2>1. handler' = [at |-> "greet", todo |-> Announcing, pair |-> handler.pair]
        /\ open' = TRUE /\ UNCHANGED wire
    BY <1>3, Greetings DEF Greet
  <2>2. FeedTypes'
    BY <1>1, <1>2, <2>1 DEF LiveInv, FeedTypes, FeedTypeOK
  <2>3. FeedInv'
    BY <1>1, <2>1 DEF LiveInv, FeedInv
  <2>4. SocketInv'
    BY <1>1, <2>1 DEF LiveInv, SocketInv, clientVars
  <2>5. PastInv'
    BY <1>1, <2>1, PastStays DEF LiveInv, clientVars
  <2>. QED  BY <1>1, <2>2, <2>3, <2>4, <2>5, ClientStays DEF LiveInv, CoverInv, clientVars
<1>4. CASE handler.todo = Announcing
  <2>1. /\ handler' = [at |-> "open", todo |-> <<>>, pair |-> handler.pair]
        /\ wire' = <<Ready>> /\ UNCHANGED open
    <3>1. Append(<<>>, Ready) = <<Ready>>
      BY SMT
    <3>. QED  BY <1>1, <1>4, <3>1, Greetings DEF Greet
  <2>2. wire' \in Seq(Sent) /\ Len(wire') = 1 /\ wire'[1] = Ready /\ On(wire') = {Ready}
    BY <2>1, OnOne DEF Sent
  <2>3. FeedTypes'
    <3>1. handler' \in [at : {"none", "auth", "greet", "open"}, todo : {Greeting, Announcing, <<>>},
                        pair : Pairs \cup {NoPair}]
      BY <1>2, <2>1
    <3>2. \A i \in DOMAIN wire' : wire'[i] \in Events \cup {Ready, TooSlow, Unauthenticated}
      BY <2>1
    <3>. QED  BY <1>1, <2>1, <2>2, <3>1, <3>2 DEF LiveInv, FeedTypes, FeedTypeOK
  <2>4. FeedInv'
    <3>1. open \/ Overflow \in On(queue)
      BY <1>1, <1>4, Greetings
    <3>2. \A i \in 1 .. Len(wire') : wire'[i] \notin Closes
      BY <2>1, <2>2, Messages, SMT
    <3>. QED  BY <1>1, <2>1, <3>1, <3>2 DEF FeedInv
  <2>5. SocketInv'
    BY <1>1, <2>1 DEF LiveInv, SocketInv, clientVars
  <2>6. PastInv'
    BY <1>1, <2>2, PastStays DEF LiveInv, clientVars
  <2>. QED  BY <1>1, <2>3, <2>4, <2>5, <2>6, ClientStays DEF LiveInv, CoverInv, clientVars
<1>. QED  BY <1>1, <1>3, <1>4

LEMMA SendKeeps ==
  ASSUME LiveInv, Send, UNCHANGED clientVars
  PROVE  LiveInv'
<1>1. handler.at = "open" /\ queue # <<>> /\ UNCHANGED <<status, pipe, troubles>>
  BY DEF Send
<1>2. queue \in Seq(Queued) /\ wire \in Seq(Sent) /\ Len(queue) <= QueueSize
  BY DEF LiveInv, FeedTypes, FeedTypeOK
<1>3. CASE Head(queue) = Overflow
  BY <1>1, <1>3, HangKeeps DEF Send, Closes
<1>4. CASE Head(queue) # Overflow
  <2>1. wire' = Append(wire, Head(queue)) /\ queue' = Tail(queue) /\ UNCHANGED <<handler, open>>
    BY <1>4 DEF Send
  <2>2. /\ Head(queue) \in Queued /\ queue' \in Seq(Queued)
        /\ On(queue) = {Head(queue)} \cup On(queue')
    BY <1>1, <1>2, <2>1, OnTail
  <2>3. Head(queue) \in Events /\ Head(queue) \notin Closes
    BY <1>4, <2>2, Messages DEF Queued
  <2>4. wire' \in Seq(Sent) /\ On(wire') = On(wire) \cup {Head(queue)}
    BY <1>2, <2>1, <2>3, OnAppend, AppendProperties DEF Sent
  <2>5. FeedTypes'
    <3>1. Len(queue') <= QueueSize
      BY <1>1, <1>2, <2>1, FeedAssumption, SMT
    <3>2. \A i \in DOMAIN queue' : queue'[i] \in Events \cup {Overflow}
      BY <2>2 DEF Queued
    <3>3. \A i \in DOMAIN wire' : wire'[i] \in Events \cup {Ready, TooSlow, Unauthenticated}
      BY <2>4 DEF Sent, Closes
    <3>. QED  BY <1>1, <2>1, <2>2, <2>4, <3>1, <3>2, <3>3 DEF LiveInv, FeedTypes, FeedTypeOK
  <2>6. FeedInv'
    <3>1. \A e \in On(wire') : e \notin Closes
      <4>1. \A e \in On(wire) : e \notin Closes
        BY <1>1 DEF LiveInv, FeedInv, On
      <4>. QED  BY <2>3, <2>4, <4>1
    <3>2. \A i \in 1 .. Len(wire') : wire'[i] \notin Closes
      BY <3>1 DEF On
    <3>3. open \/ Overflow \in On(queue')
      BY <1>1, <1>4, <2>2 DEF LiveInv, FeedInv
    <3>. QED  BY <1>1, <2>1, <3>2, <3>3 DEF FeedInv
  <2>7. SocketInv'
    BY <1>1, <2>1 DEF LiveInv, SocketInv, clientVars
  <2>8. PastInv'
    BY <1>1, <2>2, <2>4, PastStays DEF LiveInv, clientVars
  <2>9. CoverInv'
    BY <1>1, <1>4, <2>1, <2>2, <2>4, CoverStays DEF LiveInv, clientVars
  <2>. QED  BY <2>5, <2>6, <2>7, <2>8, <2>9, ClientStays DEF LiveInv
<1>. QED  BY <1>3, <1>4

LEMMA ExpireSocketKeeps ==
  ASSUME LiveInv, NEW late, ExpireSocket(late), UNCHANGED clientVars
  PROVE  LiveInv'
BY HangKeeps DEF ExpireSocket, Closes

-----------------------------------------------------------------------------
(* Lemmas: each step of the browser keeps the live part of the invariant.  *)

LEMMA LiveFacts ==
  ASSUME LiveInv
  PROVE  /\ status \in [Orders -> Statuses] /\ shown \in [Orders -> Statuses]
         /\ loads \in Seq(Loads) /\ On(loads) \subseteq Loads
         /\ queue \in Seq(Queued) /\ wire \in Seq(Sent)
BY OnTypes DEF LiveInv, FeedTypes, FeedTypeOK, ClientTypes

LEMMA BlankBehind == \A s \in Statuses : Behind("none", s)
BY SMT DEF Behind, Rank, Statuses

LEMMA BlankType == Blank \in [Orders -> Statuses]
BY DEF Blank, Statuses

LEMMA PastMoves ==
  ASSUME PastInv, UNCHANGED status, \A o \in Orders : Behind(shown'[o], status[o]),
         pipe' \cup On(queue') \cup On(wire') \subseteq pipe \cup On(queue) \cup On(wire),
         \A load \in On(loads'), o \in Orders : Behind(load.data[o], status[o])
  PROVE  PastInv'
BY DEF PastInv

\* The socket is gone.
LEMMA CutKeeps ==
  ASSUME LiveInv, Cut, UNCHANGED <<status, pipe>>, troubles' \in 0 .. MaxTroubles,
         conn' = "down", session' = NoPair => loads' = <<>>
  PROVE  FeedTypes' /\ FeedInv' /\ SocketInv' /\ CoverInv' /\ queue' = <<>> /\ wire' = <<>>
<1>1. /\ handler' = NoHandler /\ handler'.at = "none" /\ open' = FALSE /\ queue' = <<>> /\ wire' = <<>>
  BY DEF Cut, NoHandler
<1>2. FeedTypes'
  <2>1. handler' \in [at : {"none", "auth", "greet", "open"}, todo : {Greeting, Announcing, <<>>},
                      pair : Pairs \cup {NoPair}]
    BY <1>1 DEF NoHandler, NoPair
  <2>2. Len(queue') <= QueueSize /\ queue' \in Seq(Queued) /\ DOMAIN queue' = {}
    BY <1>1, FeedAssumption, SMT
  <2>3. wire' \in Seq(Sent) /\ DOMAIN wire' = {}
    BY <1>1, SMT
  <2>. QED  BY <1>1, <2>1, <2>2, <2>3 DEF LiveInv, FeedTypes, FeedTypeOK
<1>3. FeedInv'
  <2>1. 1 .. Len(wire') = {}
    BY <1>1, SMT
  <2>. QED  BY <1>1, <2>1 DEF FeedInv
<1>4. SocketInv'
  BY <1>1 DEF SocketInv
<1>5. CoverInv'
  BY DEF CoverInv
<1>. QED  BY <1>1, <1>2, <1>3, <1>4, <1>5

LEMMA UnmountKeeps ==
  ASSUME LiveInv, Unmount, UNCHANGED <<status, pipe, expired>>, troubles' \in 0 .. MaxTroubles,
         mishap' \in BOOLEAN
  PROVE  LiveInv'
<1>1. /\ Cut /\ conn' = "down" /\ session' = NoPair /\ loads' = <<>> /\ shown' = Blank
      /\ missed' = FALSE
  BY DEF Unmount
<1>2. FeedTypes' /\ FeedInv' /\ SocketInv' /\ CoverInv' /\ queue' = <<>> /\ wire' = <<>>
  BY <1>1, CutKeeps
<1>3. ClientTypes'
  <2>1. loads' \in Seq(Loads)
    BY <1>1
  <2>. QED  BY <1>1, <2>1, BlankType DEF LiveInv, ClientTypes
<1>4. PastInv'
  <2>1. \A o \in Orders : Behind(shown'[o], status[o])
    BY <1>1, BlankBehind, LiveFacts DEF Blank
  <2>. QED  BY <1>1, <1>2, <2>1, OnEmpty, PastMoves DEF LiveInv
<1>. QED  BY <1>2, <1>3, <1>4 DEF LiveInv

LEMMA RenewKeeps ==
  ASSUME LiveInv, NEW pair \in Pairs, Renew(pair),
         UNCHANGED <<status, pipe, troubles, expired, mishap>>
  PROVE  LiveInv'
<1>0. loads \in Seq(Loads) /\ troubles' \in 0 .. MaxTroubles
  BY DEF LiveInv, ClientTypes, FeedTypes, FeedTypeOK
<1>1. Cut /\ conn' = "down" /\ session' = pair /\ UNCHANGED <<shown, missed>>
  BY DEF Renew
<1>2. pair # NoPair
  BY RotationAssumption, SMT DEF Pairs, NoPair
<1>3. FeedTypes' /\ FeedInv' /\ SocketInv' /\ CoverInv' /\ queue' = <<>> /\ wire' = <<>>
  BY <1>0, <1>1, <1>2, CutKeeps
<1> DEFINE F == [i \in DOMAIN loads |->
                   IF loads[i].phase = "denied" THEN Repeated(loads[i], pair) ELSE loads[i]]
<1>4. loads' = F
  BY DEF Renew
<1>5. \A i \in DOMAIN loads : F[i] \in Loads /\ F[i].data = loads[i].data
  <2> TAKE i \in DOMAIN loads
  <2>1. loads[i] \in Loads /\ F[i] = IF loads[i].phase = "denied" THEN Repeated(loads[i], pair) ELSE loads[i]
    BY <1>0
  <2>2. Repeated(loads[i], pair) \in Loads /\ Repeated(loads[i], pair).data = loads[i].data
    BY <2>1 DEF Repeated, Loads
  <2>. QED  BY <2>1, <2>2
<1>6. F = [i \in DOMAIN loads |-> F[i]]
  OBVIOUS
<1> HIDE DEF F
<1>7. F \in Seq(Loads) /\ On(F) = {F[i] : i \in 1 .. Len(loads)}
  BY <1>0, <1>5, <1>6, OnMap
<1>8. \A load \in On(F), o \in Orders : Behind(load.data[o], status[o])
  <2>1. DOMAIN loads = 1 .. Len(loads)
    BY <1>0, LenProperties
  <2>2. \A i \in 1 .. Len(loads) : loads[i] \in On(loads)
    BY DEF On
  <2>. QED  BY <1>5, <1>7, <2>1, <2>2 DEF LiveInv, PastInv
<1>9. ClientTypes'
  BY <1>1, <1>4, <1>7 DEF LiveInv, ClientTypes
<1>10. PastInv'
  BY <1>1, <1>3, <1>4, <1>8, OnEmpty, PastMoves DEF LiveInv, PastInv
<1>. QED  BY <1>3, <1>9, <1>10 DEF LiveInv

LEMMA DropSocketKeeps ==
  ASSUME LiveInv, DropSocket
  PROVE  LiveInv'
<1>1. /\ Cut /\ conn' = "down" /\ conn # "down"
      /\ UNCHANGED <<status, pipe, session, loads, shown, expired, missed, mishap>>
  BY DEF DropSocket
<1>2. session # NoPair
  BY <1>1 DEF LiveInv, SocketInv
<1>3. troubles' \in 0 .. MaxTroubles
  BY Troubled DEF LiveInv, DropSocket
<1>4. FeedTypes' /\ FeedInv' /\ SocketInv' /\ CoverInv' /\ queue' = <<>> /\ wire' = <<>>
  BY <1>1, <1>2, <1>3, CutKeeps
<1>5. ClientTypes'
  BY <1>1 DEF LiveInv, ClientTypes
<1>6. PastInv'
  BY <1>1, <1>4, OnEmpty, PastMoves DEF LiveInv, PastInv
<1>. QED  BY <1>4, <1>5, <1>6 DEF LiveInv

LEMMA ConnectKeeps ==
  ASSUME LiveInv, Connect
  PROVE  LiveInv'
<1>1. /\ conn = "down" /\ session # NoPair /\ conn' = "opening"
      /\ handler' = [at |-> "auth", todo |-> Greeting, pair |-> session]
      /\ UNCHANGED <<status, pipe, open, queue, wire, troubles>>
      /\ UNCHANGED <<session, loads, shown, expired, missed, mishap>>
  BY DEF Connect, Accept
<1>2. handler.at = "none" /\ wire = <<>> /\ ~open /\ queue = <<>>
  BY <1>1 DEF LiveInv, SocketInv, FeedInv
<1>3. FeedTypes' /\ ClientTypes'
  BY <1>1 DEF LiveInv, FeedTypes, FeedTypeOK, ClientTypes
<1>4. FeedInv'
  BY <1>1, <1>2, SMT DEF LiveInv, FeedInv
<1>5. SocketInv'
  BY <1>1 DEF SocketInv
<1>6. PastInv'
  BY <1>1, PastStays DEF LiveInv
<1>. QED  BY <1>1, <1>3, <1>4, <1>5, <1>6 DEF LiveInv, CoverInv

\* The browser takes what comes first.
LEMMA Reading ==
  ASSUME LiveInv, Read
  PROVE  /\ Head(wire) \in Sent /\ wire' = Tail(wire) /\ wire # <<>>
         /\ On(wire) = {Head(wire)} \cup On(wire')
         /\ UNCHANGED <<status, pipe, handler, open, queue, troubles>>
         /\ FeedTypes' /\ FeedInv'
         /\ conn \in {"opening", "live"} /\ session # NoPair
         /\ Head(wire) \in Closes => handler.at = "none" /\ wire' = <<>>
         /\ Head(wire) \notin Closes =>
              /\ handler.at \notin {"auth", "greet"}
              /\ handler.at = "none" => wire' # <<>> /\ wire'[Len(wire')] \in Closes
<1>1. wire # <<>> /\ wire' = Tail(wire) /\ UNCHANGED <<status, pipe, handler, open, queue, troubles>>
  BY DEF Read
<1>2. wire \in Seq(Sent)
  BY LiveFacts
<1>3. Head(wire) \in Sent /\ wire' \in Seq(Sent) /\ On(wire) = {Head(wire)} \cup On(wire')
  BY <1>1, <1>2, OnTail
<1>4. /\ Len(wire) \in Nat \ {0} /\ Len(wire') = Len(wire) - 1 /\ Head(wire) = wire[1]
      /\ \A i \in 1 .. Len(wire) - 1 : wire'[i] = wire[i + 1]
  BY <1>1, <1>2, SMT
<1>5. FeedTypes'
  <2>1. \A i \in DOMAIN wire' : wire'[i] \in Events \cup {Ready, TooSlow, Unauthenticated}
    BY <1>3 DEF Sent, Closes
  <2>. QED  BY <1>1, <1>3, <2>1 DEF LiveInv, FeedTypes, FeedTypeOK
<1>6. handler.at \notin {"auth", "greet"}
  BY <1>1 DEF LiveInv, FeedInv
<1>7. ASSUME NEW i \in 1 .. Len(wire'), wire'[i] \in Closes
      PROVE  i = Len(wire') /\ handler.at = "none"
  <2>1. i + 1 \in 1 .. Len(wire) /\ i \in 1 .. Len(wire) - 1
    BY <1>4, SMT
  <2>2. wire[i + 1] \in Closes
    BY <1>4, <1>7, <2>1
  <2>3. i + 1 = Len(wire) /\ handler.at = "none"
    BY <2>1, <2>2 DEF LiveInv, FeedInv
  <2>. QED  BY <1>4, <2>3, SMT
<1>8. FeedInv'
  BY <1>1, <1>6, <1>7 DEF LiveInv, FeedInv
<1>9. conn \in {"opening", "live"} /\ session # NoPair
  BY <1>1 DEF LiveInv, SocketInv, ClientTypes
<1>10. ASSUME Head(wire) \in Closes PROVE handler.at = "none" /\ wire' = <<>>
  <2>1. 1 \in 1 .. Len(wire) /\ wire[1] \in Closes
    BY <1>4, <1>10, SMT
  <2>2. Len(wire) = 1 /\ handler.at = "none"
    BY <2>1 DEF LiveInv, FeedInv
  <2>3. wire' = <<>>
    BY <1>3, <1>4, <2>2, SMT
  <2>. QED  BY <2>2, <2>3
<1>11. ASSUME Head(wire) \notin Closes, handler.at = "none"
       PROVE  wire' # <<>> /\ wire'[Len(wire')] \in Closes
  <2>1. wire[Len(wire)] \in Closes
    BY <1>9, <1>11 DEF LiveInv, SocketInv
  <2>2. Len(wire) # 1
    BY <1>4, <1>11, <2>1
  <2>3. Len(wire) - 1 \in 1 .. Len(wire) - 1 /\ (Len(wire) - 1) + 1 = Len(wire)
    BY <1>4, <2>2, SMT
  <2>4. wire'[Len(wire')] = wire[Len(wire)]
    BY <1>4, <2>3
  <2>5. Len(wire') # 0
    BY <1>4, <2>2, SMT
  <2>6. wire' # <<>>
    BY <2>5, SMT
  <2>. QED  BY <2>1, <2>4, <2>6
<1>. QED  BY <1>1, <1>3, <1>5, <1>6, <1>8, <1>9, <1>10, <1>11

LEMMA ReadReadyKeeps ==
  ASSUME LiveInv, ReadReady
  PROVE  LiveInv'
<1> DEFINE F == [i \in DOMAIN loads |-> [loads[i] EXCEPT !.newest = FALSE]]
<1>1. /\ Read /\ Head(wire) = Ready /\ conn' = "live" /\ missed' = FALSE
      /\ loads' = Append(F, Load(session))
      /\ UNCHANGED <<session, shown, expired, mishap>>
  BY DEF ReadReady, Read
<1>2. /\ wire' = Tail(wire) /\ wire # <<>>
      /\ On(wire) = {Head(wire)} \cup On(wire')
      /\ UNCHANGED <<status, pipe, handler, open, queue, troubles>>
      /\ FeedTypes' /\ FeedInv'
      /\ session # NoPair
      /\ Ready \notin Closes
      /\ handler.at \notin {"auth", "greet"}
      /\ handler.at = "none" => wire' # <<>> /\ wire'[Len(wire')] \in Closes
  BY <1>1, Reading, Messages
<1>3. loads \in Seq(Loads) /\ session \in Pairs
  BY <1>2 DEF LiveInv, ClientTypes
<1>4. \A i \in DOMAIN loads : F[i] \in Loads /\ F[i].data = loads[i].data
  <2> TAKE i \in DOMAIN loads
  <2>1. loads[i] \in Loads /\ F[i] = [loads[i] EXCEPT !.newest = FALSE]
    BY <1>3
  <2>. QED  BY <2>1 DEF Loads
<1>5. F = [i \in DOMAIN loads |-> F[i]]
  OBVIOUS
<1>6. Load(session) \in Loads /\ Load(session).data = Blank /\ Load(session).newest
      /\ Load(session).phase # "read"
  BY <1>3, BlankType DEF Load, Loads
<1> HIDE DEF F
<1>7. F \in Seq(Loads) /\ On(F) = {F[i] : i \in 1 .. Len(loads)}
  BY <1>3, <1>4, <1>5, OnMap
<1>8. loads' \in Seq(Loads) /\ On(loads') = On(F) \cup {Load(session)}
  BY <1>1, <1>6, <1>7, OnAppend, AppendProperties
<1>9. \A load \in On(loads'), o \in Orders : Behind(load.data[o], status[o])
  <2>1. DOMAIN loads = 1 .. Len(loads)
    BY <1>3, LenProperties
  <2>2. \A i \in 1 .. Len(loads) : loads[i] \in On(loads)
    BY DEF On
  <2>3. \A o \in Orders : Behind(Blank[o], status[o])
    BY BlankBehind, LiveFacts DEF Blank
  <2>. QED  BY <1>4, <1>6, <1>7, <1>8, <2>1, <2>2, <2>3 DEF LiveInv, PastInv
<1>10. ClientTypes'
  BY <1>1, <1>8 DEF LiveInv, ClientTypes
<1>11. SocketInv'
  BY <1>1, <1>2 DEF SocketInv
<1>12. PastInv'
  BY <1>1, <1>2, <1>9, PastMoves DEF LiveInv, PastInv
<1>13. CoverInv'
  <2>1. Load(session) \in On(loads')
    BY <1>8
  <2>2. \A o \in Orders : (\E load \in On(loads) : Coming(load, o))'
    BY <1>6, <2>1 DEF Coming
  <2>. QED  BY <2>2 DEF CoverInv, Covered
<1>. QED  BY <1>2, <1>10, <1>11, <1>12, <1>13 DEF LiveInv

LEMMA ReadEventKeeps ==
  ASSUME LiveInv, ReadEvent
  PROVE  LiveInv'
<1>1. PICK e \in Events : e = Head(wire)
  BY DEF ReadEvent
<1>2. /\ Read /\ shown' = [shown EXCEPT ![e[1]] = Furthest(@, e[2])]
      /\ UNCHANGED <<session, conn, loads, expired, missed, mishap>>
  BY <1>1 DEF ReadEvent, Read
<1>3. /\ On(wire) = {e} \cup On(wire')
      /\ UNCHANGED <<status, pipe, handler, open, queue, troubles>>
      /\ FeedTypes' /\ FeedInv' /\ conn \in {"opening", "live"} /\ session # NoPair
      /\ e \notin Closes
      /\ handler.at \notin {"auth", "greet"}
      /\ handler.at = "none" => wire' # <<>> /\ wire'[Len(wire')] \in Closes
  BY <1>1, <1>2, Reading, Messages
<1>4. PICK p \in Orders, x \in Statuses : e = Changed(p, x) /\ e[1] = p /\ e[2] = x
  BY <1>1, Messages DEF Changed
<1>5. status \in [Orders -> Statuses] /\ shown \in [Orders -> Statuses]
  BY LiveFacts
<1>6. Behind(x, status[p]) /\ \A o \in Orders : Behind(shown[o], status[o])
  BY <1>3, <1>4 DEF LiveInv, PastInv
<1>7. /\ Furthest(shown[p], x) \in Statuses /\ Behind(Furthest(shown[p], x), status[p])
      /\ shown[p] = status[p] \/ x = status[p] => Furthest(shown[p], x) = status[p]
  BY <1>5, <1>6, BehindFurthest
<1>8. /\ shown' \in [Orders -> Statuses] /\ shown'[p] = Furthest(shown[p], x)
      /\ \A o \in Orders \ {p} : shown'[o] = shown[o]
  BY <1>2, <1>4, <1>5, <1>7
<1>9. ClientTypes' /\ SocketInv'
  BY <1>2, <1>3, <1>8 DEF LiveInv, ClientTypes, SocketInv
<1>10. PastInv'
  <2>1. \A o \in Orders : Behind(shown'[o], status[o])
    BY <1>6, <1>7, <1>8
  <2>. QED  BY <1>2, <1>3, <2>1, PastMoves DEF LiveInv, PastInv
<1>11. CoverInv'
  <2> SUFFICES ASSUME conn = "live", ~missed, NEW o \in Orders PROVE Covered(o)'
    BY <1>2 DEF CoverInv
  <2>1. Covered(o)
    BY DEF LiveInv, CoverInv
  <2>2. shown[o] = status[o] => shown'[o] = status[o]
    BY <1>7, <1>8
  <2>3. Changed(o, status[o]) = e => shown'[o] = status[o]
    BY <1>4, <1>7, <1>8 DEF Changed
  <2>. QED  BY <1>2, <1>3, <2>1, <2>2, <2>3 DEF Covered, Coming
<1>. QED  BY <1>3, <1>9, <1>10, <1>11 DEF LiveInv

LEMMA ReadCloseKeeps ==
  ASSUME LiveInv, ReadClose
  PROVE  LiveInv'
<1>1. /\ Read /\ Head(wire) \in Closes /\ conn' \in {"refused", "down"}
      /\ UNCHANGED <<session, loads, shown, expired, missed, mishap>>
  BY DEF ReadClose, Read, Closes
<1>2. /\ On(wire) = {Head(wire)} \cup On(wire')
      /\ UNCHANGED <<status, pipe, handler, open, queue, troubles>>
      /\ FeedTypes' /\ FeedInv' /\ session # NoPair
      /\ handler.at = "none" /\ wire' = <<>>
  BY <1>1, Reading
<1>3. ClientTypes' /\ SocketInv'
  BY <1>1, <1>2 DEF LiveInv, ClientTypes, SocketInv
<1>4. PastInv'
  BY <1>1, <1>2, PastStays DEF LiveInv
<1>. QED  BY <1>1, <1>2, <1>3, <1>4 DEF LiveInv, CoverInv

\* A step that touches only the snapshots and what is shown: nothing gets ahead, and
\* what a snapshot was to bring is shown when it is gone, or was missed.
LEMMA LoadsMove ==
  ASSUME LiveInv, troubles' \in 0 .. MaxTroubles,
         UNCHANGED <<status, pipe, handler, open, queue, wire, session, conn, expired, mishap>>,
         loads' \in Seq(Loads), loads # <<>>, missed' \in BOOLEAN,
         shown' \in [Orders -> Statuses],
         \A o \in Orders : Behind(shown'[o], status[o]),
         \A load \in On(loads'), o \in Orders : Behind(load.data[o], status[o]),
         ~missed' =>
           /\ ~missed
           /\ \A o \in Orders :
                shown[o] = status[o] \/ (\E load \in On(loads) : Coming(load, o)) =>
                  shown'[o] = status[o] \/ (\E load \in On(loads') : Coming(load, o))
  PROVE  LiveInv'
<1>1. FeedTypes' /\ FeedInv'
  BY FeedStays DEF LiveInv
<1>2. ClientTypes'
  BY DEF LiveInv, ClientTypes
<1>3. SocketInv'
  BY DEF LiveInv, SocketInv
<1>4. PastInv'
  BY PastMoves DEF LiveInv
<1>5. CoverInv'
  <2> SUFFICES ASSUME conn = "live", ~missed', NEW o \in Orders PROVE Covered(o)'
    BY DEF CoverInv
  <2>1. Covered(o)
    BY DEF LiveInv, CoverInv
  <2>2. shown[o] = status[o] \/ (\E load \in On(loads) : Coming(load, o)) =>
          shown'[o] = status[o] \/ (\E load \in On(loads') : Coming(load, o))
    OBVIOUS
  <2>. QED  BY <2>1, <2>2 DEF Covered, Coming
<1>. QED  BY <1>1, <1>2, <1>3, <1>4, <1>5 DEF LiveInv

LEMMA Indexed ==
  ASSUME LiveInv, NEW i \in DOMAIN loads
  PROVE  i \in 1 .. Len(loads) /\ loads # <<>> /\ loads[i] \in On(loads) /\ loads[i] \in Loads
<1>1. loads \in Seq(Loads)
  BY LiveFacts
<1>2. i \in 1 .. Len(loads) /\ loads[i] \in Loads
  BY <1>1, LenProperties
<1>3. loads # <<>>
  BY <1>2, SMT
<1>. QED  BY <1>2, <1>3 DEF On

\* The snapshots that are left when one is taken off.
LEMMA Leaving ==
  ASSUME LiveInv, NEW i \in DOMAIN loads
  PROVE  /\ Without(i) \in Seq(Loads)
         /\ On(loads) \subseteq On(Without(i)) \cup {loads[i]}
         /\ \A load \in On(Without(i)), o \in Orders : Behind(load.data[o], status[o])
<1>1. /\ Without(i) \in Seq(Loads) /\ On(Without(i)) \subseteq On(loads)
      /\ On(loads) \subseteq On(Without(i)) \cup {loads[i]}
  BY LiveFacts, Indexed, OnWithout
<1>. QED  BY <1>1 DEF LiveInv, PastInv

LEMMA GiveUpKeeps ==
  ASSUME LiveInv, NEW i \in DOMAIN loads, GiveUp(i), troubles' \in 0 .. MaxTroubles,
         UNCHANGED <<status, pipe, handler, open, queue, wire, session, conn, shown, expired, mishap>>
  PROVE  LiveInv'
<1>1. loads' = Without(i) /\ missed' = (missed \/ loads[i].newest)
  BY DEF GiveUp
<1>2. loads[i] \in Loads /\ loads[i].newest \in BOOLEAN /\ missed \in BOOLEAN /\ loads # <<>>
  BY Indexed DEF Loads, LiveInv, ClientTypes
<1>3. missed' \in BOOLEAN /\ (~missed' => ~missed /\ ~loads[i].newest)
  BY <1>1, <1>2
<1>4. \A o \in Orders : ~missed' /\ (\E load \in On(loads) : Coming(load, o)) =>
                          \E load \in On(loads') : Coming(load, o)
  BY <1>1, <1>3, Leaving DEF Coming
<1>5. \A o \in Orders : Behind(shown'[o], status[o])
  BY DEF LiveInv, PastInv
<1>6. shown' \in [Orders -> Statuses]
  BY LiveFacts
<1>7. loads' \in Seq(Loads) /\ \A load \in On(loads'), o \in Orders : Behind(load.data[o], status[o])
  BY <1>1, Leaving
<1>. QED  BY <1>2, <1>3, <1>4, <1>5, <1>6, <1>7, LoadsMove

\* A snapshot is replaced by itself at another phase.
LEMMA ExchangeKeeps ==
  ASSUME LiveInv, NEW i \in DOMAIN loads, NEW load \in Loads, loads' = [loads EXCEPT ![i] = load],
         UNCHANGED <<status, pipe, handler, open, queue, wire, session, conn, shown, expired,
                     missed, mishap, troubles>>,
         load.newest = loads[i].newest,
         \A o \in Orders : Behind(load.data[o], status[o]),
         load.phase # "read" \/ load.data = status
  PROVE  LiveInv'
<1>0. i \in 1 .. Len(loads) /\ loads # <<>> /\ loads \in Seq(Loads)
  BY Indexed, LiveFacts
<1>1. /\ loads' \in Seq(Loads)
      /\ On(loads') \subseteq On(loads) \cup {load}
      /\ On(loads) \subseteq On(loads') \cup {loads[i]}
      /\ load \in On(loads')
  <2>1. /\ loads' \in Seq(Loads) /\ Len(loads') = Len(loads)
        /\ \A j \in 1 .. Len(loads) : loads'[j] = IF j = i THEN load ELSE loads[j]
    BY <1>0, SMT
  <2>. QED  BY <1>0, <2>1 DEF On
<1>2. \A l \in On(loads'), o \in Orders : Behind(l.data[o], status[o])
  BY <1>1 DEF LiveInv, PastInv
<1>3. \A o \in Orders : (\E l \in On(loads) : Coming(l, o)) => \E l \in On(loads') : Coming(l, o)
  BY <1>1 DEF Coming
<1>4. \A o \in Orders : Behind(shown'[o], status[o])
  BY DEF LiveInv, PastInv
<1>5. shown' \in [Orders -> Statuses] /\ missed' \in BOOLEAN /\ troubles' \in 0 .. MaxTroubles
  BY DEF LiveInv, ClientTypes, FeedTypes, FeedTypeOK
<1>. QED  BY <1>0, <1>1, <1>2, <1>3, <1>4, <1>5, LoadsMove

LEMMA ReadOrdersKeeps ==
  ASSUME LiveInv, NEW i \in DOMAIN loads, ReadOrders(i)
  PROVE  LiveInv'
<1>1. loads[i] \in Loads /\ status \in [Orders -> Statuses]
  BY Indexed, LiveFacts
<1>2. PICK load : load = Snapshot(loads[i])
  OBVIOUS
<1>3. load \in Loads /\ load.newest = loads[i].newest /\ load.data = status
  BY <1>1, <1>2 DEF Snapshot, Loads
<1>4. loads' = [loads EXCEPT ![i] = load]
  BY <1>2 DEF ReadOrders
<1>5. \A o \in Orders : Behind(load.data[o], status[o])
  BY <1>3 DEF Behind
<1>6. UNCHANGED <<status, pipe, handler, open, queue, wire, session, conn, shown, expired,
                  missed, mishap, troubles>>
  BY DEF ReadOrders, feedVars
<1>. QED  BY <1>3, <1>4, <1>5, <1>6, ExchangeKeeps

LEMMA DeniedKeeps ==
  ASSUME LiveInv, NEW i \in DOMAIN loads, Denied(i)
  PROVE  LiveInv'
<1>1. UNCHANGED <<status, pipe, handler, open, queue, wire, session, conn, shown, expired,
                  mishap, troubles>>
  BY DEF Denied, feedVars
<1>2. CASE GiveUp(i)
  <2>1. troubles' \in 0 .. MaxTroubles
    BY <1>1 DEF LiveInv, FeedTypes, FeedTypeOK
  <2>. QED  BY <1>1, <1>2, <2>1, GiveUpKeeps
<1>3. CASE loads' = [loads EXCEPT ![i].phase = "denied"] /\ UNCHANGED missed
  <2>1. loads[i] \in Loads
    BY Indexed
  <2>2. PICK load : load = [loads[i] EXCEPT !.phase = "denied"]
    OBVIOUS
  <2>3. /\ load \in Loads /\ load.newest = loads[i].newest /\ load.data = loads[i].data
        /\ load.phase = "denied"
    BY <2>1, <2>2 DEF Loads
  <2>4. loads' = [loads EXCEPT ![i] = load]
    BY <1>3, <2>2
  <2>5. \A o \in Orders : Behind(load.data[o], status[o])
    BY <2>3, Indexed DEF LiveInv, PastInv
  <2>. QED  BY <1>1, <1>3, <2>3, <2>4, <2>5, ExchangeKeeps
<1>. QED  BY <1>2, <1>3 DEF Denied

LEMMA MergeSnapshotKeeps ==
  ASSUME LiveInv, NEW i \in DOMAIN loads, MergeSnapshot(i)
  PROVE  LiveInv'
<1>1. /\ loads[i].phase = "read" /\ loads' = Without(i)
      /\ shown' = [o \in Orders |-> Furthest(shown[o], loads[i].data[o])]
      /\ UNCHANGED <<status, pipe, handler, open, queue, wire, session, conn, expired,
                     missed, mishap, troubles>>
  BY DEF MergeSnapshot, feedVars
<1>2. /\ status \in [Orders -> Statuses] /\ shown \in [Orders -> Statuses]
      /\ loads[i] \in Loads /\ loads[i] \in On(loads) /\ loads # <<>>
  BY LiveFacts, Indexed
<1>3. \A o \in Orders : loads[i].data[o] \in Statuses
  BY <1>2 DEF Loads
<1>4. ASSUME NEW o \in Orders
      PROVE  /\ shown'[o] \in Statuses /\ Behind(shown'[o], status[o])
             /\ shown[o] = status[o] \/ loads[i].data[o] = status[o] => shown'[o] = status[o]
  <2>1. Behind(shown[o], status[o]) /\ Behind(loads[i].data[o], status[o])
    BY <1>2 DEF LiveInv, PastInv
  <2>2. shown'[o] = Furthest(shown[o], loads[i].data[o])
    BY <1>1
  <2>. QED  BY <1>2, <1>3, <2>1, <2>2, BehindFurthest
<1>5. shown' \in [Orders -> Statuses]
  BY <1>1, <1>4
<1>6. \A o \in Orders :
        shown[o] = status[o] \/ (\E load \in On(loads) : Coming(load, o)) =>
          shown'[o] = status[o] \/ (\E load \in On(loads') : Coming(load, o))
  <2>1. \A o \in Orders : Coming(loads[i], o) => loads[i].data[o] = status[o]
    BY <1>1 DEF Coming
  <2>. QED  BY <1>1, <1>4, <2>1, Leaving
<1>7. loads' \in Seq(Loads) /\ \A load \in On(loads'), o \in Orders : Behind(load.data[o], status[o])
  BY <1>1, Leaving
<1>8. missed' \in BOOLEAN /\ troubles' \in 0 .. MaxTroubles /\ missed' = missed
  BY <1>1 DEF LiveInv, ClientTypes, FeedTypes, FeedTypeOK
<1>. QED  BY <1>1, <1>2, <1>4, <1>5, <1>6, <1>7, <1>8, LoadsMove

LEMMA FailLoadKeeps ==
  ASSUME LiveInv, NEW i \in DOMAIN loads, FailLoad(i)
  PROVE  LiveInv'
<1>1. troubles' \in 0 .. MaxTroubles
  BY Troubled DEF LiveInv, FailLoad
<1>. QED  BY <1>1, GiveUpKeeps DEF FailLoad, feedButTroubles

LEMMA FinishRefreshKeeps ==
  ASSUME RotationInv, LiveInv, NEW r \in Own, FinishRefresh(r)
  PROVE  LiveInv'
<1>1. r \in Requests
  BY ConsoleAssumption
<1>2. request[r].answer \in Pairs \cup {NoPair}
  BY <1>1, RequestTypes
<1>3. UNCHANGED <<status, pipe, troubles, expired, mishap>>
  BY DEF FinishRefresh
<1>4. CASE request[r].answer = NoPair
  <2>1. Unmount
    BY <1>4 DEF FinishRefresh
  <2>2. troubles' \in 0 .. MaxTroubles /\ mishap' \in BOOLEAN
    BY <1>3 DEF LiveInv, FeedTypes, FeedTypeOK, ClientTypes
  <2>. QED  BY <1>3, <2>1, <2>2, UnmountKeeps
<1>5. CASE request[r].answer # NoPair
  <2>1. Renew(request[r].answer)
    BY <1>5 DEF FinishRefresh
  <2>2. PICK pair \in Pairs : pair = request[r].answer
    BY <1>2, <1>5
  <2>3. Renew(pair)
    BY <2>1, <2>2
  <2>. QED  BY <1>3, <2>3, RenewKeeps
<1>. QED  BY <1>4, <1>5

LEMMA SigningOutKeeps ==
  ASSUME LiveInv, SignOut \/ \E r \in Own : LoseAnswer(r)
  PROVE  LiveInv'
<1>1. Unmount /\ Trouble /\ mishap' = TRUE /\ UNCHANGED <<status, pipe, expired>>
  BY DEF SignOut, LoseAnswer
<1>2. troubles' \in 0 .. MaxTroubles
  BY <1>1, Troubled DEF LiveInv
<1>. QED  BY <1>1, <1>2, UnmountKeeps

\* What goes on behind the socket and the pages.
LEMMA LiveStays ==
  ASSUME LiveInv, UNCHANGED feedButTroubles, troubles' \in 0 .. MaxTroubles,
         UNCHANGED <<conn, loads, shown, missed>>,
         session' \in Pairs \cup {NoPair}, session' = NoPair => session = NoPair,
         expired' \subseteq Pairs, mishap' \in BOOLEAN
  PROVE  LiveInv'
<1>1. FeedTypes' /\ FeedInv'
  BY FeedStays DEF LiveInv, feedButTroubles
<1>2. ClientTypes'
  BY DEF LiveInv, ClientTypes
<1>3. SocketInv' /\ PastInv' /\ CoverInv'
  BY DEF LiveInv, SocketInv, PastInv, CoverInv, Covered, Coming, feedButTroubles
<1>. QED  BY <1>1, <1>2, <1>3 DEF LiveInv

LEMMA BehindSceneKeeps ==
  ASSUME RotationInv, LiveInv, ServeRefresh \/ ExpireAccess \/ Mishap \/ SignIn
  PROVE  LiveInv'
<1>1. /\ session \in Pairs \cup {NoPair} /\ expired \subseteq Pairs /\ mishap \in BOOLEAN
      /\ troubles \in 0 .. MaxTroubles
  BY DEF LiveInv, ClientTypes, FeedTypes, FeedTypeOK
<1>2. CASE ServeRefresh
  BY <1>1, <1>2, LiveStays DEF ServeRefresh, feedVars, feedButTroubles, clientVars
<1>3. CASE ExpireAccess
  BY <1>1, <1>3, LiveStays DEF ExpireAccess, feedVars, feedButTroubles
<1>4. CASE Mishap
  <2>1. troubles' \in 0 .. MaxTroubles /\ mishap' = TRUE
    BY <1>4, Troubled DEF LiveInv, Mishap
  <2>. QED  BY <1>1, <1>4, <2>1, LiveStays DEF Mishap
<1>5. CASE SignIn
  <2>1. session' = issued + 1 /\ issued < MaxPairs /\ issued \in 0 .. MaxPairs
    BY <1>5 DEF SignIn, LogIn, NewPair, RotationInv, RotationTypeOK
  <2>2. session' \in Pairs /\ session' # NoPair
    BY <2>1, RotationAssumption, SMT DEF Pairs, NoPair
  <2>. QED  BY <1>1, <1>5, <2>2, LiveStays DEF SignIn, feedVars, feedButTroubles
<1>. QED  BY <1>2, <1>3, <1>4, <1>5

LEMMA GatewayKeeps ==
  ASSUME LiveInv,
         \/ ServeSocket \/ Publishing
         \/ (\E o \in Orders : ChangeStatus(o)) /\ FeedOnly
         \/ (\E e \in Events : RelayTwice(e)) /\ FeedOnly
         \/ ExpireSocket(handler.pair \in expired) /\ FeedOnly
  PROVE  LiveInv'
<1>1. UNCHANGED clientVars
  BY DEF ServeSocket, Publishing, FeedOnly
<1>2. CASE ServeSocket
  BY <1>1, <1>2, AuthenticateKeeps, GreetKeeps, SendKeeps DEF ServeSocket
<1>3. ASSUME NEW e \in Events, Relay(e) \/ RelayTwice(e)
      PROVE  LiveInv'
  <2>1. /\ e \in pipe /\ Publish(e) /\ pipe' \in {pipe, pipe \ {e}}
        /\ UNCHANGED <<status, handler, wire>>
    BY <1>3 DEF Relay, RelayTwice
  <2>2. troubles' \in 0 .. MaxTroubles
    BY <1>3, Troubled DEF Relay, RelayTwice, LiveInv, FeedTypes, FeedTypeOK
  <2>. QED  BY <1>1, <2>1, <2>2, PublishKeeps
<1>4. CASE \E o \in Orders : ChangeStatus(o)
  BY <1>1, <1>4, ChangeStatusKeeps
<1>5. CASE ExpireSocket(handler.pair \in expired)
  BY <1>1, <1>5, ExpireSocketKeeps
<1>. QED  BY <1>2, <1>3, <1>4, <1>5 DEF Publishing

LEMMA BrowseKeeps == RotationInv /\ LiveInv /\ Browse => LiveInv'
BY ConnectKeeps, ReadReadyKeeps, ReadEventKeeps, ReadCloseKeeps, FinishRefreshKeeps,
   ReadOrdersKeeps, DeniedKeeps, MergeSnapshotKeeps
   DEF Browse

LEMMA StutterKeepsLive == LiveInv /\ UNCHANGED vars => LiveInv'
<1> SUFFICES ASSUME LiveInv, UNCHANGED vars PROVE LiveInv'
  OBVIOUS
<1>1. UNCHANGED feedButTroubles /\ UNCHANGED <<troubles, session, conn, loads, shown, expired, missed, mishap>>
  BY DEF vars, feedVars, feedButTroubles, clientVars
<1>2. /\ session \in Pairs \cup {NoPair} /\ expired \subseteq Pairs /\ mishap \in BOOLEAN
      /\ troubles \in 0 .. MaxTroubles
  BY DEF LiveInv, ClientTypes, FeedTypes, FeedTypeOK
<1>. QED  BY <1>1, <1>2, LiveStays

LEMMA LiveKeeps == RotationInv /\ LiveInv /\ [Next]_vars => LiveInv'
<1> SUFFICES ASSUME RotationInv, LiveInv, Next PROVE LiveInv'
  BY StutterKeepsLive
<1>1. CASE LoseEvents /\ missed' = TRUE
           /\ UNCHANGED <<rotationVars, session, conn, loads, shown, expired, mishap>>
  BY <1>1, LoseEventsKeeps
<1>2. CASE DropSocket \/ \E i \in DOMAIN loads : FailLoad(i)
  BY <1>2, DropSocketKeeps, FailLoadKeeps
<1>. QED
  BY <1>1, <1>2, GatewayKeeps, BrowseKeeps, BehindSceneKeeps, SigningOutKeeps DEF Next

-----------------------------------------------------------------------------
(* Lemmas: the session.                                                    *)

\* Who asks for a refresh has a session.
LEMMA Callers ==
  ASSUME LiveInv, ReadClose \/ \E i \in DOMAIN loads : Denied(i)
  PROVE  /\ session \in Pairs /\ session # NoPair
         /\ RefreshSession \/ UNCHANGED rotationVars
         /\ UNCHANGED <<session, mishap>>
<1>1. session # NoPair
  <2>1. CASE ReadClose
    BY <2>1, Reading DEF ReadClose
  <2>2. CASE \E i \in DOMAIN loads : Denied(i)
    BY <2>2, Indexed DEF LiveInv, SocketInv
  <2>. QED  BY <2>1, <2>2
<1>2. session \in Pairs
  BY <1>1 DEF LiveInv, ClientTypes
<1>. QED  BY <1>1, <1>2 DEF ReadClose, Read, Denied

LEMMA RefreshIsRotation ==
  ASSUME session \in Pairs, RefreshSession
  PROVE  [RotationNext]_rotationVars
<1>1. {"tab", "again"} \subseteq Requests
  BY ConsoleAssumption DEF Own
<1>. QED  BY <1>1 DEF RefreshSession, RotationNext

LEMMA StepOfRotation ==
  ASSUME RotationInv, LiveInv, [Next]_vars
  PROVE  [RotationNext]_rotationVars
<1>0. Own \subseteq Requests /\ "copy" \in Requests
  BY ConsoleAssumption
<1>1. CASE ReadClose \/ \E i \in DOMAIN loads : Denied(i)
  BY <1>1, Callers, RefreshIsRotation
<1>2. CASE ServeRefresh
  BY <1>0, <1>2 DEF ServeRefresh, RotationNext
<1>3. CASE \E r \in Own : FinishRefresh(r) \/ LoseAnswer(r)
  BY <1>0, <1>3 DEF FinishRefresh, LoseAnswer, RotationNext
<1>4. CASE Mishap
  <2>1. session \in Pairs \/ session = NoPair
    BY DEF LiveInv, ClientTypes
  <2>. QED  BY <1>0, <1>4, <2>1 DEF Mishap, RotationNext
<1>5. CASE SignIn
  BY <1>5 DEF SignIn, RotationNext
<1>6. CASE \/ ServeSocket \/ Publishing \/ Connect \/ ReadReady \/ ReadEvent
           \/ \E i \in DOMAIN loads : ReadOrders(i) \/ MergeSnapshot(i) \/ FailLoad(i)
           \/ (\E o \in Orders : ChangeStatus(o)) /\ FeedOnly
           \/ (\E e \in Events : RelayTwice(e)) /\ FeedOnly
           \/ LoseEvents /\ missed' = TRUE
              /\ UNCHANGED <<rotationVars, session, conn, loads, shown, expired, mishap>>
           \/ ExpireSocket(handler.pair \in expired) /\ FeedOnly
           \/ DropSocket \/ ExpireAccess \/ SignOut \/ UNCHANGED vars
  <2>1. UNCHANGED rotationVars
    BY <1>6 DEF ServeSocket, Publishing, Connect, ReadReady, ReadEvent, ReadOrders, MergeSnapshot,
                FailLoad, FeedOnly, DropSocket, ExpireAccess, SignOut, vars
  <2>. QED  BY <2>1
<1>. QED  BY <1>1, <1>2, <1>3, <1>4, <1>5, <1>6 DEF Next, Browse

LEMMA SessionStays ==
  ASSUME SessionInv, UNCHANGED <<session, outdated, row, request, mishap>>
  PROVE  SessionInv'
BY DEF SessionInv

\* A refresh is asked for only while none is on its way, with the pair in use.
LEMMA RefreshSessionKeeps ==
  ASSUME RotationInv, SessionInv, RefreshSession, UNCHANGED <<session, mishap>>
  PROVE  SessionInv'
<1>1. CASE InFlight
  BY <1>1, SessionStays DEF RefreshSession, rotationVars
<1>2. CASE ~InFlight
  <2>1. PICK r \in Own : Ask(r, session)
    BY <1>2 DEF RefreshSession, Own
  <2>2. Own \subseteq Requests /\ "copy" \in Requests /\ "copy" \notin Own
    BY ConsoleAssumption DEF Own
  <2>3. \A s \in Requests : request'[s] = IF s = r THEN Asking("asked", session, NoPair) ELSE request[s]
    BY <2>1, <2>2 DEF Ask, RotationInv, RotationTypeOK
  <2>4. /\ Asking("asked", session, NoPair).phase = "asked"
        /\ Asking("asked", session, NoPair).pair = session
    BY DEF Asking
  <2>5. \A s \in Own : s # r => request'[s].phase = "none"
    BY <1>2, <2>2, <2>3 DEF InFlight
  <2>6. request'[r].phase = "asked" /\ request'[r].pair = session
    BY <2>2, <2>3, <2>4
  <2>7. UNCHANGED <<row, outdated>> /\ request'["copy"] = request["copy"]
    BY <2>1, <2>2, <2>3 DEF Ask
  <2> SUFFICES ASSUME ~mishap' PROVE SessionInv'
    BY DEF SessionInv
  <2>8. session # NoPair /\ outdated = {} /\ request["copy"].phase = "none" /\ row[session] = "valid"
    BY <1>2 DEF SessionInv, InFlight
  <2>. QED  BY <2>5, <2>6, <2>7, <2>8 DEF SessionInv
<1>. QED  BY <1>1, <1>2

LEMMA FinishRefreshKeepsSession ==
  ASSUME RotationInv, SessionInv, NEW r \in Own, FinishRefresh(r)
  PROVE  SessionInv'
<1>1. Own \subseteq Requests /\ "copy" \in Requests /\ "copy" \notin Own
  BY ConsoleAssumption DEF Own
<1>2. /\ request[r].phase = "answered" /\ request' = [request EXCEPT ![r] = NoRequest]
      /\ UNCHANGED <<row, outdated, mishap>>
  BY DEF FinishRefresh, Close
<1>3. \A s \in Requests : request'[s] = IF s = r THEN NoRequest ELSE request[s]
  BY <1>1, <1>2 DEF RotationInv, RotationTypeOK
<1>4. NoRequest.phase = "none"
  BY DEF NoRequest, Asking
<1> SUFFICES ASSUME ~mishap PROVE SessionInv'
  BY <1>2 DEF SessionInv
<1>5. /\ request[r].answer \in Pairs /\ row[request[r].answer] = "valid"
      /\ \A s \in Own : s # r => request[s].phase = "none"
      /\ outdated = {} /\ request["copy"].phase = "none"
  BY <1>2 DEF SessionInv
<1>6. request[r].answer # NoPair
  BY <1>5, RotationAssumption, SMT DEF Pairs, NoPair
<1>7. session' = request[r].answer
  BY <1>6 DEF FinishRefresh, Renew
<1>8. \A s \in Own : request'[s].phase = "none"
  BY <1>1, <1>3, <1>4, <1>5
<1>9. request'["copy"].phase = "none"
  BY <1>1, <1>3, <1>5
<1>. QED  BY <1>2, <1>5, <1>6, <1>7, <1>8, <1>9 DEF SessionInv

\* While nothing went wrong the Gateway finds the token it is presented, and answers
\* with the next pair.
LEMMA ServeRefreshKeepsSession ==
  ASSUME RotationInv, SessionInv, ServeRefresh
  PROVE  SessionInv'
<1>1. Requests = Own \cup {"copy"} /\ "copy" \notin Own
  BY ConsoleAssumption DEF Own
<1>2. UNCHANGED <<session, mishap>>
  BY DEF ServeRefresh, clientVars
<1> SUFFICES ASSUME ~mishap PROVE SessionInv'
  BY <1>2 DEF SessionInv
<1>3. /\ session # NoPair /\ outdated = {} /\ request["copy"].phase = "none"
      /\ \A r, s \in Own : request[r].phase # "none" /\ request[s].phase # "none" => r = s
      /\ (\A r \in Own : request[r].phase # "answered") => row[session] = "valid"
      /\ \A r \in Own :
           /\ request[r].phase \in {"asked", "locked"} => request[r].pair = session
           /\ request[r].phase = "answered" =>
                request[r].answer \in Pairs /\ row[request[r].answer] = "valid"
  BY DEF SessionInv
<1>4. ~Close("copy")
  BY <1>3 DEF Close
<1>5. PICK r \in Requests : FindValid(r) \/ FindNone(r) \/ RefuseOutdated(r) \/ Rotate(r)
  BY <1>4 DEF ServeRefresh
<1>6. request[r].phase \in {"asked", "locked"}
  BY <1>5 DEF FindValid, FindNone, RefuseOutdated, Rotate
<1>7. r \in Own /\ request[r].pair = session
  BY <1>1, <1>3, <1>6
<1>8. /\ \A s \in Own : s # r => request[s].phase = "none"
      /\ \A s \in Own : request[s].phase # "answered"
      /\ row[session] = "valid"
  BY <1>3, <1>6, <1>7
<1>9. ~FindNone(r) /\ ~RefuseOutdated(r)
  BY <1>3, <1>7, <1>8 DEF FindNone, RefuseOutdated
<1>10. CASE FindValid(r)
  <2>1. \A s \in Requests :
          request'[s] = IF s = r THEN [request[r] EXCEPT !.phase = "locked"] ELSE request[s]
    BY <1>10 DEF FindValid, RotationInv, RotationTypeOK
  <2>2. request'[r].phase = "locked" /\ request'[r].pair = session
    BY <1>7, <2>1, RequestTypes
  <2>3. \A s \in Own : s # r => request'[s].phase = "none"
    BY <1>1, <1>8, <2>1
  <2>4. request'["copy"].phase = "none"
    BY <1>1, <1>3, <1>7, <2>1
  <2>5. UNCHANGED <<row, outdated>>
    BY <1>10 DEF FindValid
  <2>. QED  BY <1>2, <1>3, <1>8, <2>2, <2>3, <2>4, <2>5 DEF SessionInv
<1>11. CASE Rotate(r)
  <2>1. \A s \in Requests :
          request'[s] = IF s = r THEN Asking("answered", session, issued + 1) ELSE request[s]
    BY <1>7, <1>11 DEF Rotate, Answer, NewPair, RotationInv, RotationTypeOK
  <2>2. issued + 1 \in Pairs
    <3>1. issued < MaxPairs /\ issued \in 0 .. MaxPairs
      BY <1>11 DEF Rotate, RotationInv, RotationTypeOK
    <3>. QED  BY <3>1, RotationAssumption, SMT DEF Pairs
  <2>3. request'[r].phase = "answered" /\ request'[r].answer = issued + 1
    BY <2>1 DEF Asking
  <2>4. row'[issued + 1] = "valid"
    BY <1>11, <2>2 DEF Rotate, NewPair, RotationInv, RotationTypeOK
  <2>5. \A s \in Own : s # r => request'[s].phase = "none"
    BY <1>1, <1>8, <2>1
  <2>6. request'["copy"].phase = "none"
    BY <1>1, <1>3, <1>7, <2>1
  <2>7. UNCHANGED outdated
    BY <1>11 DEF Rotate
  <2>. QED  BY <1>2, <1>3, <1>7, <2>2, <2>3, <2>4, <2>5, <2>6, <2>7 DEF SessionInv
<1>. QED  BY <1>5, <1>9, <1>10, <1>11

LEMMA SessionKeeps == RotationInv /\ LiveInv /\ SessionInv /\ [Next]_vars => SessionInv'
<1> SUFFICES ASSUME RotationInv, LiveInv, SessionInv, [Next]_vars PROVE SessionInv'
  OBVIOUS
<1>1. CASE ReadClose \/ \E i \in DOMAIN loads : Denied(i)
  BY <1>1, Callers, RefreshSessionKeeps, SessionStays DEF ReadClose, Denied, rotationVars
<1>2. CASE \E r \in Own : FinishRefresh(r)
  BY <1>2, FinishRefreshKeepsSession
<1>3. CASE ServeRefresh
  BY <1>3, ServeRefreshKeepsSession
<1>4. CASE SignOut \/ Mishap \/ \E r \in Own : LoseAnswer(r)
  <2>1. mishap' = TRUE
    BY <1>4 DEF SignOut, Mishap, LoseAnswer
  <2>. QED  BY <2>1 DEF SessionInv
<1>5. CASE SignIn
  BY <1>5 DEF SignIn, SessionInv
<1>6. CASE \/ ServeSocket \/ Publishing \/ Connect \/ ReadReady \/ ReadEvent
           \/ \E i \in DOMAIN loads : ReadOrders(i) \/ MergeSnapshot(i) \/ FailLoad(i)
           \/ (\E o \in Orders : ChangeStatus(o)) /\ FeedOnly
           \/ (\E e \in Events : RelayTwice(e)) /\ FeedOnly
           \/ LoseEvents /\ missed' = TRUE
              /\ UNCHANGED <<rotationVars, session, conn, loads, shown, expired, mishap>>
           \/ ExpireSocket(handler.pair \in expired) /\ FeedOnly
           \/ DropSocket \/ ExpireAccess \/ UNCHANGED vars
  <2>1. UNCHANGED rotationVars /\ UNCHANGED <<session, mishap>>
    BY <1>6 DEF ServeSocket, Publishing, Connect, ReadReady, ReadEvent, Read, ReadOrders, MergeSnapshot,
                FailLoad, FeedOnly, DropSocket, ExpireAccess, vars, clientVars
  <2>. QED  BY <2>1, SessionStays DEF rotationVars
<1>. QED  BY <1>1, <1>2, <1>3, <1>4, <1>5, <1>6 DEF Next, Browse

-----------------------------------------------------------------------------
(* Theorems.                                                               *)

LEMMA InitConsoleInv == Init => ConsoleInv
<1> SUFFICES ASSUME Init PROVE ConsoleInv
  OBVIOUS
<1>1. RotationInv
  BY InitRotationInv DEF Init
<1>2. FeedTypes /\ ClientTypes
  <2>1. FeedTypeOK
    <3>1. status \in [Orders -> Statuses]
      BY FeedAssumption DEF Init, FeedInit
    <3>2. handler.at = "none" /\ queue = <<>> /\ wire = <<>> /\ pipe = {} /\ open = FALSE
      BY DEF Init, FeedInit, NoHandler
    <3>3. Len(queue) <= QueueSize /\ DOMAIN queue = {} /\ DOMAIN wire = {}
      BY <3>2, FeedAssumption, SMT
    <3>4. troubles \in 0 .. MaxTroubles
      BY FeedAssumption, SMT DEF Init, FeedInit
    <3>. QED  BY <3>1, <3>2, <3>3, <3>4 DEF FeedTypeOK
  <2>2. handler \in [at : {"none", "auth", "greet", "open"}, todo : {Greeting, Announcing, <<>>},
                     pair : Pairs \cup {NoPair}]
    BY DEF Init, FeedInit, NoHandler, NoPair
  <2>3. queue \in Seq(Queued) /\ wire \in Seq(Sent) /\ loads \in Seq(Loads)
    BY DEF Init, FeedInit
  <2>4. session \in Pairs
    BY RotationAssumption, SMT DEF Init, Pairs
  <2>. QED  BY <2>1, <2>2, <2>3, <2>4, BlankType DEF Init, FeedTypes, ClientTypes
<1>3. FeedInv
  BY SMT DEF Init, FeedInit, FeedInv, NoHandler
<1>4. SocketInv
  BY SMT DEF Init, FeedInit, SocketInv, NoHandler, NoPair
<1>5. PastInv
  <2>1. \A o \in Orders : status[o] \in Statuses /\ Behind(Blank[o], status[o])
    BY BlankBehind, FeedAssumption DEF Init, FeedInit, Blank
  <2>. QED  BY <2>1, OnEmpty DEF Init, FeedInit, PastInv
<1>6. CoverInv
  BY DEF Init, CoverInv
<1>7. SessionInv
  <2>1. \A r \in Requests : request[r].phase = "none"
    BY DEF Init, RotationInit, NoRequest, Asking
  <2>2. session # NoPair /\ outdated = {} /\ row[session] = "valid"
    BY RotationAssumption, SMT DEF Init, RotationInit, NoPair, Pairs
  <2>3. Own \subseteq Requests /\ "copy" \in Requests
    BY ConsoleAssumption
  <2>. QED  BY <2>1, <2>2, <2>3 DEF SessionInv
<1>. QED  BY <1>1, <1>2, <1>3, <1>4, <1>5, <1>6, <1>7 DEF ConsoleInv, LiveInv

\* The invariant holds of every behaviour of the console.
THEOREM ConsoleInvariant == Spec => []ConsoleInv
<1>1. ConsoleInv /\ [Next]_vars => ConsoleInv'
  <2> SUFFICES ASSUME ConsoleInv, [Next]_vars PROVE ConsoleInv'
    OBVIOUS
  <2>1. RotationInv /\ LiveInv /\ SessionInv
    BY DEF ConsoleInv
  <2>2. RotationInv'
    BY <2>1, StepOfRotation, RotationKeeps
  <2>3. LiveInv' /\ SessionInv'
    BY <2>1, LiveKeeps, SessionKeeps
  <2>. QED  BY <2>2, <2>3 DEF ConsoleInv
<1>. QED  BY <1>1, InitConsoleInv, PTL DEF Spec

\* The variables of the console, its socket and its refresh tokens keep their types.
THEOREM ConsoleTypes == Spec => []TypeOK
<1>1. ConsoleInv => TypeOK
  <2>1. ASSUME ClientTypes, NEW i \in DOMAIN loads
        PROVE  loads[i].phase \in {"asked", "denied", "read"}
    <3>1. loads[i] \in Loads
      BY <2>1 DEF ClientTypes
    <3>. QED  BY <3>1 DEF Loads
  <2>. QED  BY <2>1 DEF ConsoleInv, LiveInv, FeedTypes, ClientTypes, RotationInv, TypeOK
<1>. QED  BY <1>1, ConsoleInvariant, PTL

\* Rotation: however many requests present the same refresh token at once, and
\* however they interleave, expire or fail, one login never has two pairs that can
\* still be refreshed.
THEOREM OneLivePairAlways == Spec => []OneLivePair
<1>1. ConsoleInv => OneLivePair
  BY DEF ConsoleInv, RotationInv, Family
<1>. QED  BY <1>1, ConsoleInvariant, PTL

\* Refreshes never spend the token of another refresh of the same tab: without a
\* sign-out by the user, a lost answer or trouble at the Gateway, the session lasts.
THEOREM SignedOutForAReason == Spec => []SignedOutOnlyByMishap
<1>1. ConsoleInv => SignedOutOnlyByMishap
  BY DEF ConsoleInv, SessionInv, SignedOutOnlyByMishap
<1>. QED  BY <1>1, ConsoleInvariant, PTL

\* A console that is live and has nothing on its way shows what is true, for any
\* number of orders, size of the queue and order in which events and snapshots come.
THEOREM LiveIsCurrent == Spec => []QuietMeansCurrent
<1>1. ConsoleInv => QuietMeansCurrent
  <2> SUFFICES ASSUME ConsoleInv, Quiet, ~missed, NEW o \in Orders
               PROVE  shown[o] = status[o] \/ \E s \in Statuses : Changed(o, s) \in pipe
    BY DEF QuietMeansCurrent
  <2>1. conn = "live" /\ loads = <<>> /\ queue = <<>> /\ wire = <<>>
    BY DEF Quiet
  <2>2. handler.at # "none"
    BY <2>1 DEF ConsoleInv, LiveInv, SocketInv
  <2>3. On(queue) = {} /\ On(wire) = {} /\ On(loads) = {}
    BY <2>1, OnEmpty
  <2>4. Changed(o, status[o]) \in pipe \/ shown[o] = status[o]
    BY <2>1, <2>2, <2>3 DEF ConsoleInv, LiveInv, CoverInv, Covered
  <2>5. status[o] \in Statuses
    BY DEF ConsoleInv, LiveInv, FeedTypes, FeedTypeOK
  <2>. QED  BY <2>4, <2>5
<1>. QED  BY <1>1, ConsoleInvariant, PTL
=============================================================================
