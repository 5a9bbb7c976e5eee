--------------------------------- MODULE MCTree ---------------------------------
(***************************************************************************)
(* TreeCache for model checking: identifiers are interchangeable, and a     *)
(* session is followed while few things in it are in doubt.                 *)
(***************************************************************************)
EXTENDS TreeCache, FiniteSets, TLC

CONSTANT MaxCauses    \* doubtful caches, copies and identifiers at a time

MCIds == Permutations(Ids)

FewCauses ==
  Cardinality({x \in DOMAIN taint : taint[x] # {}})
    + Cardinality({I \in Ids : Cardinality(seedsOf[I]) > 1}) <= MaxCauses
===============================================================================
