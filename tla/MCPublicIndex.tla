--------------------------- MODULE MCPublicIndex ----------------------------
(* PublicIndex on every small crate of one shape: a root, two modules, a   *)
(* struct, an impl and two uses, placed, ordered and aimed in every way.   *)
EXTENDS PublicIndex, SequencesExt

MCIds == {"root", "a", "b", "item", "impl", "u", "v", "foreign"}
MCNames == {"crate", "a", "b", "item", "alias"}

Mod(name, items) ==
    [kind |-> "module", name |-> name, items |-> items, target |-> NoId, glob |-> FALSE]
Other(name) ==
    [kind |-> "other", name |-> name, items |-> <<>>, target |-> NoId, glob |-> FALSE]
Use(name, target, glob) ==
    [kind |-> "use", name |-> name, items |-> <<>>, target |-> target, glob |-> glob]

\* A parent that is not there: a module that is private, and known to rustdoc
\* only because a use may lead into it.
Private == "private"

\* The children of a module, in one order or the opposite one.
Listed(parent, m, backwards) ==
    LET order == IF backwards THEN <<"v", "item", "impl", "u", "b", "a", "foreign">>
                              ELSE <<"foreign", "a", "b", "u", "impl", "item", "v">>
    IN  SelectSeq(order, LAMBDA c : parent[c] = m)

Crate(parent, backwards, u, v) ==
    [root |-> "root",
     index |-> [id \in MCIds \ {"foreign"} |->
        CASE id \in {"root", "a", "b"} ->
                Mod(IF id = "root" THEN "crate" ELSE id, Listed(parent, id, backwards))
          [] id = "item" -> Other("item")
          [] id = "impl" -> Other(NoName)
          [] id = "u" -> u
          [] id = "v" -> v],
     paths |-> [id \in {"item"} |->
        <<"crate">> \o (IF parent["b"] = "a" THEN <<"a">> ELSE <<>>) \o <<"b", "item">>]]

Parents ==
    {p \in [{"a", "b", "item", "impl", "u", "v", "foreign"} -> {"root", "a", "b", Private}] :
        /\ p["a"] = "root" /\ p["foreign"] = "root"
        /\ p["b"] # "b" /\ p["impl"] = "b" /\ p["item"] = "b"
        /\ Private \notin {p["u"], p["v"]}}

Uses(names, targets) ==
    {Use(n, t, g) : n \in names, t \in targets, g \in BOOLEAN}

MCKrates ==
    {Crate(p, o, u, v) :
        p \in Parents, o \in BOOLEAN,
        u \in Uses({"alias"}, {"root", "a", "b", "item", "foreign", NoId}),
        v \in Uses({"alias", "b"}, {"root", "a", "b"})}

\* No cycle and no glob: one module re-exported under a second name.
MCAliased ==
    {Crate(p, FALSE, Use("alias", t, FALSE), Use("b", NoId, FALSE)) :
        p \in {q \in Parents : q["u"] = "root"}, t \in {"a", "b"}}
=============================================================================
