---------------------------- MODULE MCSpecParse -----------------------------
(* SpecParse on every text of up to four tokens, "::" being one token, and  *)
(* a name, a version and a path of two around each of up to two of them.    *)
EXTENDS SpecParse

LOCAL INSTANCE SequencesExt

Tokens == {<<"a">>, <<"1">>, <<"-">>, <<"@">>, <<":">>, Path, <<" ">>, <<"nbsp">>, <<".">>}

Upto(n) == {FlattenSeq(f) : f \in UNION {[1..k -> Tokens] : k \in 0..n}}

MCTexts ==
    Upto(4)
    \cup {<<"a">> \o At \o x \o Path \o <<"a">> \o y : x \in Upto(2), y \in Upto(2)}

MCTargets == {<<>>, <<"x">>}
=============================================================================
