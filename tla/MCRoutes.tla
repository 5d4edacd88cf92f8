------------------------------ MODULE MCRoutes ------------------------------
(* Routes on paths of up to five segments, on every query, and on specs as  *)
(* paths.                                                                   *)
EXTENDS Routes

Kinds == {"struct.", "fn."}

MCOthers == Kinds \cup {Html, "."}

S == <<"s">>
De == <<"d">>
Value == <<"V">>
RustdocTypes == <<"s", "-", "d">>

MCCrates == {S, RustdocTypes, Healthz, Kv, <<"1", "s">>}

MCDocumented == [c \in {S, RustdocTypes} |-> {<<De>>, <<De, Value>>, <<S>>}]

Versions == {Latest, <<"1", ".", "1">>}

KindOf(kind, name) == <<kind>> \o name \o <<Html>>

Rest == {Empty, De, S, <<"s", "_", "d">>, <<"s", Html>>, KindOf("struct.", Value),
         KindOf("fn.", De), <<"struct.">> \o S}

Tails == UNION {[1..n -> Rest] : n \in 0..3}

MCPaths ==
    {<<Empty>>} \cup {<<c>> : c \in MCCrates} \cup {<<c, Empty>> : c \in MCCrates}
    \cup {<<c, v>> \o t : c \in MCCrates, v \in Versions, t \in Tails}

Query(segs, spec, t) == [segs |-> segs, spec |-> spec, target |-> t]

MCTargets == {NoQuery, <<>>, <<"w", "w">>}

\* What may stand for a spec, well or badly made.
Names == MCCrates \cup {Empty}
Ats == {<<>>, At, At \o <<"1">>, At \o <<"1", ".", "1">>}
Ends == {<<>>, Path, Path \o De, Path \o De \o Path \o Value, Path \o Path}
Specs == {n \o v \o p : n \in Names, v \in Ats, p \in Ends}

Around == {<<>>, <<" ">>, <<"nbsp">>}

MCRequests ==
    {Query(p, NoQuery, t) : p \in MCPaths, t \in MCTargets}
    \cup {Query(p, NoQuery, t) : p \in {<<s>> : s \in Specs \ {Empty}}, t \in MCTargets}
    \cup {Query(<<s, r>>, NoQuery, t) : s \in Specs \ {Empty}, r \in Rest, t \in MCTargets}
    \cup {Query(p, a \o s \o b, t) : p \in {<<Empty>>, <<S>>}, s \in Specs,
                                     a \in Around, b \in Around, t \in MCTargets}
=============================================================================
