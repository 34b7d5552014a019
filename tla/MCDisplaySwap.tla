--------------------------- MODULE MCDisplaySwap ---------------------------
(* DisplaySwap for TLC.  A display that has nothing more to draw rests, so *)
(* deadlock is not checked.                                                *)
EXTENDS DisplaySwap
=============================================================================
