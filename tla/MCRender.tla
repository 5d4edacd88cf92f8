------------------------------ MODULE MCRender ------------------------------
(***************************************************************************)
(* Items for Render: every type of one constructor over a few small types, *)
(* some of two, signatures, and items of every kind with children that are *)
(* missing, hidden, unnamed, undocumented or of an unexpected kind.        *)
(***************************************************************************)
EXTENDS Declarations

Plain(k, n) == Node(k, n, <<>>, <<>>, <<>>, {})
Of(k, s) == Node(k, "", s, <<>>, <<>>, {})

Self == Plain("name", "Self")
T == Plain("name", "T")
U == Plain("name", "u8")
A == Plain("trait", "A")
B == Plain("trait", "B")
Infer == Plain("infer", "")
Unit == Of("tuple", <<>>)
No == Plain("none", "")

Angle(args, constraints) == Node("angle", "", args, <<>>, constraints, {})
Paren(in, out) == Node("paren", "", in, out, <<>>, {})
Fn(more) == Node("trait", "Fn", <<>>, <<>>, <<more>>, {})

Options(S) == {<<>>} \cup {<<t>> : t \in S}
UpTo2(S) == Options(S) \cup (S \X S)
Muts == {{}, {"mut"}}

\* One constructor over the types of S; bounds from the set Traits.
Around(S, Traits) ==
    LET args == {Angle(s, c) : s \in UpTo2(S) \cup {<<Plain("life", "'a")>>, <<Plain("const", "T")>>, <<Infer>>},
                               c \in Options({Node("constraint", n, <<t>>, <<>>, <<>>, {}) : n \in {"T", "Item"}, t \in S})}
                \cup {Paren(in, out) : in \in UpTo2(S), out \in Options(S)} \cup {Plain("rtn", "")}
        traits == Traits \cup {Fn(Paren(<<>>, <<t>>)) : t \in S} \cup {Fn(Angle(<<t>>, <<>>)) : t \in S}
        ends == traits \cup {Plain("life", "'a")}
    IN  {Of("tuple", s) : s \in UpTo2(S)}
        \cup {Node(k, n, <<t>>, <<>>, <<>>, {}) : k \in {"array"}, n \in {"N", "2"}, t \in S}
        \cup {Of(k, <<t>>) : k \in {"slice", "pat"}, t \in S}
        \cup {Node("ref", n, <<t>>, <<>>, <<>>, m) : n \in {"", "'a"}, t \in S, m \in Muts}
        \cup {Node("ptr", "", <<t>>, <<>>, <<>>, m) : t \in S, m \in Muts}
        \cup {Of(k, s) : k \in {"dyn", "impl"}, s \in {<<b>> : b \in traits} \cup (traits \X ends)}
        \cup {Of("impl", <<b, Plain("use", "'a")>>) : b \in traits}
        \cup {Node("fnptr", "", in, out, <<>>, f) :
                in \in UpTo2(S), out \in Options(S), f \in {{}, {"unsafe"}}}
        \cup {Node("path", "Vec", <<>>, <<>>, more, {}) : more \in Options(args)}
        \cup {Node("qpath", "Item", <<t>>, tr, more, {}) :
                t \in {T, Self}, tr \in Options({A, Fn(Angle(<<T>>, <<>>))}),
                more \in Options({Angle(<<>>, <<>>)} \cup {Angle(<<u>>, <<>>) : u \in S})}

Bounds1 == {A, B, Node("trait", "A", <<>>, <<>>, <<>>, {"for<'a>"}),
            Node("trait", "A", <<>>, <<>>, <<>>, {"?"})}
Small == {T, U}
Inner == {T, Of("dyn", <<A>>), Of("dyn", <<A, B>>), Of("tuple", <<T>>), Node("ref", "", <<T>>, <<>>, <<>>, {}),
          Node("fnptr", "", <<>>, <<Of("impl", <<A>>)>>, <<>>, {})}
Some == Small \cup Around(Small, Bounds1) \cup Around(Inner, {A, B})

Receivers == {Self, Node("ref", "", <<T>>, <<>>, <<>>, {}), Node("path", "Box", <<>>, <<>>, <<Angle(<<Self>>, <<>>)>>, {})}
    \cup {Node("ref", n, <<Self>>, <<>>, <<>>, m) : n \in {"", "'a"}, m \in Muts}
    \cup {Node("ref", "", <<Node("ref", "", <<Self>>, <<>>, <<>>, {})>>, <<>>, <<>>, {})}
Param1(n, t) == Node("param", n, <<t>>, <<>>, <<>>, {})
Params == {<<>>} \cup {<<Param1("self", t)>> : t \in Receivers}
    \cup {<<Param1(n, t)>> : n \in {"x", "_"}, t \in {T, Self}} \cup {<<Param1("self", Self), Param1("x", T)>>}
Signatures == {Node("sig", "", of \o dots, out, <<>>, f) :
    of \in Params, dots \in Options({Plain("dots", "")}), out \in Options({T, Unit}),
    f \in SUBSET {"const ", "unsafe "} \cup {{"async "}, {"async ", "unsafe "}}}

-----------------------------------------------------------------------------
Docs3 == {"none", "blank", "docs"}
Missing == Item("missing", "", "none", "", No, <<>>)
Field(n, docs, t) == Item("field", n, docs, "", t, <<>>)

Fields(i) == {Missing, Item("use", "z", "none", "", No, <<>>)}
    \cup {Field(n, d, t) : n \in {"", "f"}, d \in {"none", "blank", <<"docs f", "docs g">>[i]}, t \in Small}
FieldLists == {<<>>} \cup {<<f>> : f \in Fields(1)} \cup (Fields(1) \X Fields(2))
Structs == {Item(k, "S", d, form, No, IF form = "unit" THEN <<>> ELSE of) :
    k \in {"struct"}, d \in {"docs"}, form \in {"unit", "tuple", "plain"}, of \in FieldLists}
    \cup {Item("union", "S", "none", "", No, of) : of \in FieldLists}

Variants(i) == {Missing}
    \cup {Item("variant", <<"V", "W">>[i], d, "plain", No, <<>>) : d \in {"none", "blank", <<"docs v", "docs w">>[i]}}
    \cup {Item("variant", <<"V", "W">>[i], <<"docs v", "docs w">>[i], form, No, of) :
            form \in {"tuple", "struct"},
            of \in {<<>>, <<Field("f", <<"docs f", "docs g">>[i], T), Missing>>, <<Field("f", "blank", U)>>,
                    <<Missing, Field("", <<"docs f", "docs g">>[i], U)>>}}
Enums == {Item("enum", "E", d, "", No, of) :
    d \in Docs3, of \in {<<>>} \cup {<<v>> : v \in Variants(1)} \cup (Variants(1) \X Variants(2))}

Sig0 == Node("sig", "", <<>>, <<>>, <<>>, {})
Members(i) == {Missing, Item("assoc_type", "x", <<"docs m", "docs n">>[i], "", No, <<>>)}
    \cup {Item("assoc_const", "x", d, "", T, <<>>) : d \in {"none", <<"docs m", "docs n">>[i]}}
    \cup {Item("function", "x", d, form, Sig0, <<>>) :
            d \in {"none", "blank", <<"docs m", "docs n">>[i]}, form \in {"required", "provided"}}
Traits == {Item("trait", "A", "docs", "", Node("none", "", <<>>, <<>>, <<>>, f), of) :
    f \in {{}, {"unsafe "}}, of \in {<<>>} \cup {<<m>> : m \in Members(1)} \cup (Members(1) \X Members(2))}

AnyKind == ListedKinds \cup {"impl", "primitive"}
Children(i) == {Missing}
    \cup {Item(k, n, d, "b", Plain("name", "src"), <<>>) :
            k \in AnyKind \ {"use"}, n \in {"", <<"b", "a">>[i]}, d \in {"none", <<"docs a", "docs b">>[i]}}
    \cup {Item("use", n, "none", "c", Plain("name", "src"), <<>>) : n \in {"", "b"}}
Modules == {Item("module", "m", "docs", "", No, of) :
    of \in {<<>>} \cup {<<c>> : c \in Children(1)} \cup (Children(1) \X Children(2))}

Values == {Item("type_alias", "X", "docs", "", t, <<>>) : t \in Some}
    \cup {Item("function", "f", d, "provided", s, <<>>) : d \in {"docs"}, s \in Signatures}
    \cup {Item("constant", "X", d, "1", t, <<>>) : d \in Docs3, t \in Small}
    \cup {Item("static", "X", d, e, Node("static", "", <<t>>, <<>>, <<>>, m), <<>>) :
            d \in {"docs"}, e \in {"1", "2"}, t \in Small, m \in Muts}
    \cup {Item(k, "q", d, "", No, <<>>) : k \in {"macro", "primitive", "trait_alias", "missing"}, d \in Docs3}

MCAlphabet == <<"a", "b", "c">>

RECURSIVE Within(_), Depth(_)
Within(t) == {t} \cup UNION {Within(c) : c \in Parts(t)}
Depth(t) == IF Parts(t) = {} THEN 0 ELSE 1 + Max({Depth(c) : c \in Parts(t)})

MCNodes == {t : t \in UNION {Within(s) : s \in {it.type : it \in Values} \cup {T, U, Sig0}}}
MCHeight == [t \in MCNodes |-> Depth(t)]

MCSubjects == Structs \cup Enums \cup Traits \cup Modules \cup Values
=============================================================================
