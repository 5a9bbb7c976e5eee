------------------------------ MODULE MCRequests ------------------------------
(* OtsRequests with interchangeable messages.                              *)
EXTENDS OtsRequests, TLC

Symmetry == Permutations(Messages)
===============================================================================
