--------------------------- MODULE MCReservations ---------------------------
EXTENDS Reservations, TLC

CONSTANTS o1, o2, s1, s2, s3

\* Two units of each product.
ShortStock == (1 :> 2 @@ 2 :> 2)

\* o1 wants one of each; o2 wants both of the second, and finds out that they are
\* not there when it has locked the first.
Overlapping ==
  (o1 :> {(1 :> 1 @@ 2 :> 1)} @@ o2 :> {(1 :> 1 @@ 2 :> 2)})
=============================================================================
