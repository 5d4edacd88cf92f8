----------------------------- MODULE MCKvWorker -----------------------------
(* KvWorker on one crate with and without a target, and a third key that   *)
(* key_string writes like the second.                                      *)
EXTENDS KvWorker, TLC

CONSTANTS r1, r2

MCKeys ==
    {[crate |-> <<"serde">>, version |-> <<"1.0">>, target |-> NoTarget],
     [crate |-> <<"serde">>, version |-> <<"1.0">>, target |-> <<"x86">>],
     [crate |-> <<"serde">>, version |-> <<"1.0", ":", "x86">>, target |-> NoTarget]}

MCRequests == {r1, r2}

Symmetry == Permutations(MCRequests)
=============================================================================
