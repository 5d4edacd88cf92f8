-------------------------- MODULE MCHybridServer ----------------------------
(* HybridServer with interchangeable handlers.                             *)
EXTENDS HybridServer, TLC

Symmetry == Permutations(Handlers)
=============================================================================
