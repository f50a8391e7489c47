---------------------------- MODULE MCSecondOps ----------------------------
(* Identities and symmetry for the instances of SecondOps.                 *)
EXTENDS SecondOps, TLC

Symmetric == Permutations(Part) \union Permutations(Worker)
=============================================================================
