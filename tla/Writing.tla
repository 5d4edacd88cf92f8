------------------------------ MODULE Writing -------------------------------
(***************************************************************************)
(* How ty.rs and render/mod.rs put a text or a page together: all of them  *)
(* in order, with or without something between, some of them, or none.     *)
(***************************************************************************)
EXTENDS SequencesExt

\* A loop over s that writes each.
Each(F(_), s) == FlattenSeq([i \in DOMAIN s |-> F(s[i])])

\* write! with a separator between the parts.
Join(F(_), s, sep) ==
    FlattenSeq([i \in DOMAIN s |-> (IF i = 1 THEN <<>> ELSE <<sep>>) \o F(s[i])])

If(there, text) == IF there THEN text ELSE <<>>

\* filter: those of s that Is says, in their order.
Those(s, Is(_)) == Each(LAMBDA x : If(Is(x), <<x>>), s)
=============================================================================
