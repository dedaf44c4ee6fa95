--------------------------------- MODULE MCTeam ---------------------------------
(* Instances of Team for TLC: members and slots as model values. *)
EXTENDS Team, TLC

CONSTANTS s1, s2, ann, bob

Interchangeable == Permutations({s1, s2})
=================================================================================
