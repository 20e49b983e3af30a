---------------------------- MODULE MCTokenRing -----------------------------
(***************************************************************************)
(* A text with a name before and after the ring wraps around.              *)
(***************************************************************************)
EXTENDS TokenRing

MCText == [n \in 1 .. 17 |-> IF n \in {1, 15, 17} THEN "x" ELSE ","]
=============================================================================
