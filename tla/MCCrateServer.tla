--------------------------- MODULE MCCrateServer ----------------------------
(* CrateServer with its docs.rs contents filled in.                        *)
EXTENDS CrateServer, TLC

\* Item "old" is documented by every release, item "new" since the second.
MCContents ==
    [k \in Keys |-> [n \in Releases |-> IF n = 1 THEN Items \ {"new"} ELSE Items]]

\* Requests are interchangeable.
Symmetry == Permutations(Requests)
=============================================================================
