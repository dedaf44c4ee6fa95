----------------------------- MODULE MCOrderPayment -----------------------------
(* Instances of OrderPayment for TLC: one or two request slots, as model values. *)
EXTENDS OrderPayment, TLC

CONSTANTS s1, s2

\* Slots are interchangeable: only their number matters.  Not for liveness runs.
SlotSymmetry == Permutations(Slots)
================================================================================
