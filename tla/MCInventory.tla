------------------------------ MODULE MCInventory -------------------------------
(* Instances of Inventory for TLC: rows as model values. *)
EXTENDS Inventory, TLC

CONSTANTS s1, s2, milk, bread, north, south, o1

\* A product is low with one unit left in all its locations together.
LowAtOne == [p \in Products |-> 1]
OneUnit  == {-1, 1}

Interchangeable ==
  Permutations({s1, s2}) \cup Permutations({north, south}) \cup Permutations({milk, bread})
=================================================================================
