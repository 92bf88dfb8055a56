----------------------------- MODULE MCConsole -----------------------------
(***************************************************************************)
(* The instance TLC checks: one order, a queue of one message, one token   *)
(* that expires, and one trouble of any kind.                              *)
(***************************************************************************)
EXTENDS Console

Slots == Own \cup {"copy"}
=============================================================================
