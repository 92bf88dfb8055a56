------------------------------- MODULE Console -------------------------------
(***************************************************************************)
(* The administrator's dashboard in one browser tab, with the Gateway's    *)
(* feed and refresh tokens behind it: the socket that reconnects, the      *)
(* snapshot loaded over HTTP whenever the socket is ready, the merge of    *)
(* both into what is shown, and the session that is renewed when a token   *)
(* has expired.  A pair of tokens is named by its number; 0 is the login   *)
(* screen.  A request of "copy" comes from a duplicate of the tab, which   *)
(* starts with the same session and so presents the same refresh token.    *)
(***************************************************************************)
EXTENDS DashboardFeed, RefreshRotation

CONSTANTS
  MaxExpiries,   \* bound: access tokens that expire
  MaxLoads       \* bound: snapshots on their way when another is asked for

Own == {"tab", "again"}   \* requests of this tab; the second for want of a free one

ASSUME ConsoleAssumption ==
  /\ MaxExpiries \in Nat
  /\ MaxLoads \in Nat \ {0}
  /\ Requests = Own \cup {"copy"}

VARIABLES
  session,    \* the pair in use
  conn,       \* the socket: "down" until the retry timer, "opening", "live", "refused"
  loads,      \* snapshots on their way, oldest first
  shown,      \* the order map's status of each order
  expired,    \* pairs whose access token has expired
  missed,     \* history: events or the newest snapshot were lost since the socket was ready
  mishap      \* history: something made a refresh fail, or the user signed out

clientVars == <<session, conn, loads, shown, expired, missed, mishap>>
vars == <<feedVars, rotationVars, clientVars>>
feedButTroubles == <<status, pipe, handler, open, queue, wire>>

Blank == [o \in Orders |-> "none"]
Load(pair) ==
  [phase |-> "asked", pair |-> pair, newest |-> TRUE, retried |-> FALSE, data |-> Blank]

TypeOK ==
  /\ FeedTypeOK
  /\ RotationTypeOK
  /\ session \in Pairs \cup {NoPair}
  /\ conn \in {"down", "opening", "live", "refused"}
  /\ \A i \in DOMAIN loads : loads[i].phase \in {"asked", "denied", "read"}
  /\ shown \in [Orders -> Statuses]
  /\ expired \subseteq Pairs
  /\ missed \in BOOLEAN
  /\ mishap \in BOOLEAN

Init ==
  /\ FeedInit
  /\ RotationInit
  /\ session = 1
  /\ conn = "down"
  /\ loads = <<>>
  /\ shown = Blank
  /\ expired = {}
  /\ missed = FALSE
  /\ mishap = FALSE

-----------------------------------------------------------------------------
(* What is shown. *)

Rank ==
  [none |-> -1, pending |-> 0, reserved |-> 1, paid |-> 2, fulfilled |-> 3, cancelled |-> 3]

\* Wrong: what arrives last wins.
Latest(a, b) == IF b = "none" THEN a ELSE b

\* "Further along wins", whichever arrived first.
Furthest(a, b) == IF Rank[b] > Rank[a] THEN b ELSE a

-----------------------------------------------------------------------------
(* The session. *)

\* Wrong: nobody looks whether a refresh is on its way.
Unshared == FALSE

InFlight == \E r \in Own : request[r].phase # "none"

\* refresh(): callers share the request that is in flight.
RefreshSession ==
  IF InFlight
  THEN UNCHANGED rotationVars
  ELSE Ask(IF request["tab"].phase = "none" THEN "tab" ELSE "again", session)

\* The pages are gone, with their socket and everything they showed.
Unmount ==
  /\ session' = NoPair
  /\ Cut
  /\ conn' = "down"
  /\ loads' = <<>>
  /\ shown' = Blank
  /\ missed' = FALSE

\* withToken: a call that was denied is made once more, with the new token.
Repeated(load, pair) ==
  [phase |-> "asked", pair |-> pair, newest |-> load.newest, retried |-> TRUE, data |-> load.data]

\* A new access token closes the socket and opens another; calls that were denied
\* are repeated with it.
Renew(pair) ==
  /\ session' = pair
  /\ Cut
  /\ conn' = "down"
  /\ loads' = [i \in DOMAIN loads |->
                 IF loads[i].phase = "denied" THEN Repeated(loads[i], pair) ELSE loads[i]]
  /\ UNCHANGED <<shown, missed>>

\* The answer of /auth/refresh, even if the user signed out meanwhile.
FinishRefresh(r) ==
  /\ Close(r)
  /\ IF request[r].answer = NoPair THEN Unmount ELSE Renew(request[r].answer)
  /\ UNCHANGED <<status, pipe, troubles, expired, mishap>>

\* Whatever goes wrong with the call counts as a refresh that is impossible.
LoseAnswer(r) ==
  /\ Trouble
  /\ Close(r)
  /\ Unmount
  /\ mishap' = TRUE
  /\ UNCHANGED <<status, pipe, expired>>

SignOut ==
  /\ session # NoPair
  /\ Trouble
  /\ Unmount
  /\ mishap' = TRUE
  /\ UNCHANGED <<status, pipe, rotationVars, expired>>

SignIn ==
  /\ session = NoPair
  /\ LogIn
  /\ session' = NewPair
  /\ UNCHANGED <<feedVars, conn, loads, shown, expired, missed, mishap>>

-----------------------------------------------------------------------------
(* The snapshot. *)

Without(i) == SubSeq(loads, 1, i - 1) \o SubSeq(loads, i + 1, Len(loads))

GiveUp(i) ==
  /\ loads' = Without(i)
  /\ missed' = (missed \/ loads[i].newest)

Snapshot(load) ==
  [phase |-> "read", pair |-> load.pair, newest |-> load.newest,
   retried |-> load.retried, data |-> status]

ReadOrders(i) ==
  /\ loads[i].phase = "asked"
  /\ loads[i].pair \notin expired
  /\ loads' = [loads EXCEPT ![i] = Snapshot(@)]
  /\ UNCHANGED <<feedVars, rotationVars, session, conn, shown, expired, missed, mishap>>

\* 401: withToken refreshes once and calls again.
Denied(i) ==
  /\ loads[i].phase = "asked"
  /\ loads[i].pair \in expired
  /\ IF loads[i].retried
     THEN GiveUp(i) /\ UNCHANGED rotationVars
     ELSE /\ loads' = [loads EXCEPT ![i].phase = "denied"]
          /\ RefreshSession
          /\ UNCHANGED missed
  /\ UNCHANGED <<feedVars, session, conn, shown, expired, mishap>>

MergeSnapshot(i) ==
  /\ loads[i].phase = "read"
  /\ loads' = Without(i)
  /\ shown' = [o \in Orders |-> Furthest(shown[o], loads[i].data[o])]
  /\ UNCHANGED <<feedVars, rotationVars, session, conn, expired, missed, mishap>>

FailLoad(i) ==
  /\ loads[i].phase # "denied"
  /\ Trouble
  /\ GiveUp(i)
  /\ UNCHANGED <<feedButTroubles, rotationVars, session, conn, shown, expired, mishap>>

-----------------------------------------------------------------------------
(* The socket. *)

Connect ==
  /\ session # NoPair
  /\ conn = "down"
  /\ conn' = "opening"
  /\ Accept(session)
  /\ UNCHANGED <<status, pipe, open, queue, wire, troubles, rotationVars,
                 session, loads, shown, expired, missed, mishap>>

Read ==
  /\ wire # <<>>
  /\ wire' = Tail(wire)
  /\ UNCHANGED <<status, pipe, handler, open, queue, troubles, session, expired, mishap>>

\* onReady: every connection starts with a snapshot.
ReadReady ==
  /\ Read
  /\ Head(wire) = Ready
  /\ Len(loads) < MaxLoads
  /\ conn' = "live"
  /\ loads' = Append([i \in DOMAIN loads |-> [loads[i] EXCEPT !.newest = FALSE]], Load(session))
  /\ missed' = FALSE
  /\ UNCHANGED <<rotationVars, shown>>

ReadEvent ==
  /\ Read
  /\ Head(wire) \in Events
  /\ LET o == Head(wire)[1]
     IN shown' = [shown EXCEPT ![o] = Furthest(@, Head(wire)[2])]
  /\ UNCHANGED <<rotationVars, conn, loads, missed>>

\* onclose: 4401 renews the session and waits for a new token; anything else
\* connects again after a while.
ReadClose ==
  /\ Read
  /\ \/ Head(wire) = Unauthenticated /\ conn' = "refused" /\ RefreshSession
     \/ Head(wire) = TooSlow /\ conn' = "down" /\ UNCHANGED rotationVars
  /\ UNCHANGED <<loads, shown, missed>>

DropSocket ==
  /\ conn \in {"opening", "live"}
  /\ Trouble
  /\ Cut
  /\ conn' = "down"
  /\ UNCHANGED <<status, pipe, rotationVars, session, loads, shown, expired, missed, mishap>>

-----------------------------------------------------------------------------
(* Time and mishaps. *)

ExpireAccess ==
  /\ session \notin expired \cup {NoPair}
  /\ Cardinality(expired) < MaxExpiries
  /\ expired' = expired \cup {session}
  /\ UNCHANGED <<feedVars, rotationVars, session, conn, loads, shown, missed, mishap>>

\* What a refresh cannot survive: a token too old, another tab with the same
\* session, an error of the Gateway.
Mishap ==
  /\ Trouble
  /\ \/ session # NoPair /\ GrowOld(session)
     \/ session # NoPair /\ Ask("copy", session)
     \/ \E r \in Own : Abort(r)
  /\ mishap' = TRUE
  /\ UNCHANGED <<feedButTroubles, session, conn, loads, shown, expired, missed>>

\* The Gateway's side of a refresh, and the end of the copy's.
ServeRefresh ==
  /\ \/ \E r \in Requests : FindValid(r) \/ FindNone(r) \/ RefuseOutdated(r) \/ Rotate(r)
     \/ Close("copy")
  /\ UNCHANGED <<feedVars, clientVars>>

-----------------------------------------------------------------------------
(* The specification. *)

FeedOnly == UNCHANGED <<rotationVars, clientVars>>

ServeSocket == (Authenticate(handler.pair \in expired) \/ Greet \/ Send) /\ FeedOnly

Publishing == (\E e \in Events : Relay(e)) /\ FeedOnly

Browse ==
  \/ Connect \/ ReadReady \/ ReadEvent \/ ReadClose
  \/ \E r \in Own : FinishRefresh(r)
  \/ \E i \in DOMAIN loads : ReadOrders(i) \/ Denied(i) \/ MergeSnapshot(i)

Next ==
  \/ ServeSocket \/ Publishing \/ ServeRefresh \/ Browse
  \/ (\E o \in Orders : ChangeStatus(o)) /\ FeedOnly
  \/ (\E e \in Events : RelayTwice(e)) /\ FeedOnly
  \/ LoseEvents /\ missed' = TRUE
     /\ UNCHANGED <<rotationVars, session, conn, loads, shown, expired, mishap>>
  \/ ExpireSocket(handler.pair \in expired) /\ FeedOnly
  \/ DropSocket \/ ExpireAccess \/ Mishap \/ SignOut \/ SignIn
  \/ \E r \in Own : LoseAnswer(r)
  \/ \E i \in DOMAIN loads : FailLoad(i)

Spec == Init /\ [][Next]_vars

\* The Gateway's tasks, its consumer and its requests run on; timers of the browser
\* fire and its callbacks are called.
Fairness ==
  /\ WF_vars(ServeSocket)
  /\ WF_vars(Publishing)
  /\ WF_vars(ServeRefresh)
  /\ WF_vars(Browse)

LiveSpec == Spec /\ Fairness

-----------------------------------------------------------------------------
(* Properties. *)

Quiet ==
  /\ conn = "live"
  /\ loads = <<>>
  /\ queue = <<>> /\ wire = <<>>

\* A console that says "live", with its snapshot loaded and nothing on the way,
\* shows the true status of every order: snapshots and events may overtake each
\* other, events come twice and out of order, sockets break and fall behind.  Only
\* events lost before the hub, or a snapshot that failed, leave it behind.
QuietMeansCurrent ==
  Quiet /\ ~missed =>
    \A o \in Orders : shown[o] = status[o] \/ \E s \in Statuses : Changed(o, s) \in pipe

\* "Two concurrent refreshes would spend the same token twice and the second would
\* fail": however socket and snapshots meet an expired token, the tab is signed out
\* only by the user or by something that went wrong outside of it.
SignedOutOnlyByMishap == session = NoPair => mishap

\* An order that reached its end is shown so in the end, unless the user has to sign
\* in first or what the console missed is never followed by another connection.
CatchesUp ==
  \/ <>[]missed
  \/ \A o \in Orders :
       status[o] \in Terminal ~> (shown[o] = status[o] \/ session = NoPair)
=============================================================================
