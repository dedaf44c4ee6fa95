-------------------------------- MODULE MCBrowsing --------------------------------
(* Instances of Browsing for TLC: request slots and filters as model values, three rows. *)
EXTENDS Browsing

CONSTANTS s1, s2, all, open

\* Rows that pass both filters: two tied ones before a third, three of different values not
\* in the order of their ids, and two with a third that may be created.
Row(k, filters) == [key |-> k, passes |-> filters]
MCFirstTables ==
  {t \in Tables :
     <<t[1], t[2], t[3]>> \in
       {<<Row(1, Filters), Row(1, Filters), Row(3, Filters)>>,
        <<Row(2, Filters), Row(1, Filters), Row(3, Filters)>>,
        <<Row(2, Filters), Row(1, Filters), NoRow>>}}

Interchangeable == Permutations({s1, s2}) \cup Permutations({all, open})
===================================================================================
