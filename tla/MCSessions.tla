-------------------------------- MODULE MCSessions --------------------------------
(* Instances of Sessions for TLC: tabs and tools as model values. *)
EXTENDS Sessions

CONSTANTS c1, c2
===================================================================================
