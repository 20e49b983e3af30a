---------------------------- MODULE MCInt32Dict ----------------------------
(* Instance of Int32Dict for TLC: tables of 1, 2 and 4 nodes, so that both  *)
(* growing and shrinking happen twice in a row, and three keys that need    *)
(* them all: two of them collide under every mask, the third is parted from *)
(* them when the table grows to 4; one is negative, and one is 0, which is  *)
(* also what a cleared node holds.                                          *)
EXTENDS Int32Dict

MCKeys == {-2, 0, 2}
MCClearSizes == {1, 4}
=============================================================================
