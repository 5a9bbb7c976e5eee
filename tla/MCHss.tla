-------------------------------- MODULE MCHss --------------------------------
(* An instance of Hss: four levels of two or three leaves, so that a refresh *)
(* passes several exhausted levels.  The messages are interchangeable.  Calls *)
(* that fail after they have signed leave at most MaxLost message signatures *)
(* that no other call returned.                                              *)
EXTENDS Hss, FiniteSets, TLC
CONSTANT MaxLost
MCCap == [l \in Level |-> IF l = 1 THEN 3 ELSE 2]
MCMessages == Permutations(Messages)
FewLost == Cardinality({s \in signed : s.key.level = Bottom} \ returned) <= MaxLost
===============================================================================
