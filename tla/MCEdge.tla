------------------------------- MODULE MCEdge -------------------------------
(***************************************************************************)
(* The instance TLC checks: a bucket of two tokens; three orders that      *)
(* meet at a pair and one of a single product, on two instances; a queue   *)
(* with an old binding; three rows on pages of one.                        *)
(***************************************************************************)
EXTENDS Edge, TLC

CONSTANTS o1, o2, o3, o4, n1, n2, n3

Baskets == o1 :> {1, 2, 3} @@ o2 :> {1, 2, 3} @@ o3 :> {1, 2} @@ o4 :> {2}

\* o1 was paid and fulfilled, o2 only paid.
Keys == n1 :> Fulfilled @@ n2 :> Paid @@ n3 :> Paid
Abouts == n1 :> o1 @@ n2 :> o1 @@ n3 :> o2
=============================================================================
