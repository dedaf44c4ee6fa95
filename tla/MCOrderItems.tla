------------------------------ MODULE MCOrderItems ------------------------------
(* Instances of OrderItems for TLC: two products and two slots as model values. *)
EXTENDS OrderItems, TLC

CONSTANTS s1, s2, milk, bread

\* One unit with tax, and two units with a discount that one unit of a cheap
\* product does not cover.
TwoLines == {[qty |-> 1, discount |-> 0, tax |-> 1], [qty |-> 2, discount |-> 3, tax |-> 0]}

Interchangeable == Permutations({s1, s2}) \cup Permutations({milk, bread})
================================================================================
