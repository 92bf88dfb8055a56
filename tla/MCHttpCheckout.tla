--------------------------- MODULE MCHttpCheckout ---------------------------
EXTENDS HttpCheckout, TLC

CONSTANTS r1, r2, r3, r4, p1

OneUnit == (p1 :> 1)

\* r2 repeats r1, r3 asks for something else under the same key, r4 is another shopper's.
Keys == (r1 :> "a" @@ r2 :> "a" @@ r3 :> "a" @@ r4 :> "b")
Wanted == (r1 :> (p1 :> 1) @@ r2 :> (p1 :> 1) @@ r3 :> (p1 :> 2) @@ r4 :> (p1 :> 1))
=============================================================================
