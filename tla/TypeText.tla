------------------------------ MODULE TypeText ------------------------------
(***************************************************************************)
(* render/ty.rs: how a rustdoc type is written as Rust, and how            *)
(* render/mod.rs writes a function's signature.  A text is a sequence of   *)
(* tokens.                                                                 *)
(***************************************************************************)
EXTENDS Writing, Naturals

CONSTANT Height  \* of each node, above those it is made of

\* Types, bounds, generic arguments, parameters and signatures.
Nodes == DOMAIN Height

\* A node: k is its variant, n its name, of what it is made of, out the optional
\* type after it (the output, the trait of a qualified path), more its generic
\* arguments or constraints, flags what is or is not there.
Node(k, n, of, out, more, flags) ==
    [k |-> k, n |-> n, of |-> of, out |-> out, more |-> more, flags |-> flags]

Tokens ==
    {"(", ")", ",", ", ", "[", "]", "; ", ";", "&", " ", "mut ", "*mut ", "*const ", "dyn", "impl",
     " + ", "fn(", " -> ", "<", ">", "(..)", " as ", "::", ": ", "...", " = "}

\* What is written as its name, with or without generic arguments.
Words == {"name", "infer", "path", "trait", "life", "const", "constraint", "use", "dots"}

Types == {"name", "infer", "path", "pat", "tuple", "slice", "array", "ref", "ptr", "dyn", "impl",
          "fnptr", "qpath"}

Parts(t) == Range(t.of) \cup Range(t.out) \cup Range(t.more)

Kinds(s) == {s[i].k : i \in DOMAIN s}

\* What a node has, by its variant.  The dots of a variadic function are its
\* last parameter; an associated type without a trait is of a named type.
WellMade(t) ==
    /\ \A s \in {t.of, t.out, t.more} : s \in Seq(Range(s))
    /\ \A c \in Parts(t) : Height[c] < Height[t]
    /\ t.n \in STRING \ Tokens
    /\ \/ t.k \in Words
       \/ Kinds(t.of) \subseteq CASE t.k = "angle" -> Types \cup {"life", "const"}
                                 [] t.k \in {"dyn", "impl"} -> {"trait", "life", "use"}
                                 [] t.k = "sig" -> {"param", "dots"}
                                 [] OTHER -> Types
    /\ Kinds(t.out) \subseteq IF t.k = "qpath" THEN {"trait"} ELSE Types
    /\ Kinds(t.more) \subseteq IF t.k = "angle" THEN {"constraint"} ELSE {"angle", "paren", "rtn"}
    /\ t.k \in {"slice", "array", "ref", "ptr", "pat", "qpath", "param", "static"} => Len(t.of) = 1
    /\ t.out # <<>> => Len(t.out) = 1 /\ t.k \in {"fnptr", "paren", "qpath", "sig"}
    /\ t.more # <<>> /\ t.k # "angle" => Len(t.more) = 1 /\ t.k \in {"path", "trait", "qpath"}
    /\ t.k = "rtn" => t.of = <<>>
    /\ t.k = "pat" => t.of[1].k # "pat"
    /\ t.k = "qpath" /\ t.out = <<>> => t.of[1].k = "name"
    /\ t.k \in {"ref", "ptr", "static"} => t.flags \subseteq {"mut"}
    /\ t.k = "sig" => t.flags \subseteq {"const ", "async ", "unsafe "}

ASSUME NodesAssumption ==
    /\ Height \in [Nodes -> Nat] /\ UNION {Parts(t) : t \in Nodes} \subseteq Nodes
    /\ \A t \in Nodes : WellMade(t)

-----------------------------------------------------------------------------
(* Each as it is written, given how its parts are                          *)

All(s, written) == Each(LAMBDA t : written[t], s)

List(s, sep, written) == Join(LAMBDA t : written[t], s, sep)

Word(t) ==
    CASE t.k = "infer" -> "_"
      [] t.k = "use" -> "use<..>"
      [] t.k = "dots" -> "..."
      [] OTHER -> t.n

\* A tuple of one has its comma.
Enclosed(t, written) ==
    CASE t.k = "tuple" ->
            <<"(">> \o List(t.of, ", ", written) \o If(Len(t.of) = 1, <<",">>) \o <<")">>
      [] t.k = "slice" -> <<"[">> \o written[t.of[1]] \o <<"]">>
      [] t.k = "array" -> <<"[">> \o written[t.of[1]] \o <<"; ", t.n, "]">>

Reference(t) == <<"&">> \o If(t.n # "", <<t.n, " ">>) \o If("mut" \in t.flags, <<"mut ">>)

Pointer(t, written) ==
    (IF t.k = "ref" THEN Reference(t) ELSE <<IF "mut" \in t.flags THEN "*mut " ELSE "*const ">>)
        \o written[t.of[1]]

Output(t, written) == If(t.out # <<>>, <<" -> ">> \o All(t.out, written))

\* Of a constraint, its name.
GenericArgs(a, written) ==
    CASE a.k = "angle" ->
            If(a.of \o a.more # <<>>, <<"<">> \o List(a.of \o a.more, ", ", written) \o <<">">>)
      [] a.k = "paren" -> <<"(">> \o List(a.of, ", ", written) \o <<")">> \o Output(a, written)
      [] a.k = "rtn" -> <<"(..)">>

\* Of a bound, its path: no for<'a> or ?.  Of use<>, not what it captures.
Path(t, written) == <<Word(t)>> \o All(t.more, written)

\* Bounds of impl, traits of dyn and its lifetime.
Bounds(t, written) == <<t.k, " ">> \o List(t.of, " + ", written)

\* Neither unsafe nor an ABI is written.
FnPointer(t, written) == <<"fn(">> \o List(t.of, ", ", written) \o <<")">> \o Output(t, written)

QualifiedPath(t, written) ==
    (IF t.out = <<>> THEN written[t.of[1]]
     ELSE <<"<">> \o written[t.of[1]] \o <<" as ">> \o All(t.out, written) \o <<">">>)
        \o <<"::", t.n>> \o All(t.more, written)

IsSelf(t) == t.k = "name" /\ t.n = "Self"

Receiver(t, written) ==
    IF IsSelf(t) THEN <<"self">>
    ELSE IF t.k = "ref" /\ IsSelf(t.of[1]) THEN Reference(t) \o <<"self">>
         ELSE <<"self", ": ">> \o written[t]

Param(p, written) ==
    IF p.n = "self" THEN Receiver(p.of[1], written) ELSE <<p.n, ": ">> \o written[p.of[1]]

Write(t, written) ==
    CASE t.k \in Words -> Path(t, written)
      [] t.k = "pat" -> written[t.of[1]]
      [] t.k \in {"tuple", "slice", "array"} -> Enclosed(t, written)
      [] t.k \in {"ref", "ptr"} -> Pointer(t, written)
      [] t.k \in {"dyn", "impl"} -> Bounds(t, written)
      [] t.k = "fnptr" -> FnPointer(t, written)
      [] t.k = "qpath" -> QualifiedPath(t, written)
      [] t.k \in {"angle", "paren", "rtn"} -> GenericArgs(t, written)
      [] t.k = "param" -> Param(t, written)
      [] OTHER -> <<>>

ty[t \in Nodes] == Write(t, ty)

FnSignature(name, f) ==
    If("const " \in f.flags, <<"const ">>) \o If("async " \in f.flags, <<"async ">>)
        \o If("unsafe " \in f.flags, <<"unsafe ">>) \o <<"fn ", name, "(">> \o List(f.of, ", ", ty)
        \o <<")">> \o Output(f, ty) \o <<";">>

-----------------------------------------------------------------------------
(* What a reader can take from a text                                      *)

Core(t) == IF t.k = "pat" THEN t.of[1] ELSE t

\* An empty <> is not written.
Args(t) ==
    If(\A i \in DOMAIN t.more : t.more[i].k = "angle" => t.more[i].of \o t.more[i].more # <<>>, t.more)

\* a and b are one but for what the code leaves out: which of the words it is,
\* what a pattern type is narrowed to, what a constraint says, for<'a>, the ? of
\* a bound, what use<> captures, and the unsafe and ABI of a function pointer.
Same(a, b, alike) ==
    LET all(s, u) == Len(s) = Len(u) /\ \A i \in DOMAIN s : alike[<<s[i], u[i]>>]
    IN  \/ {a.k, b.k} \subseteq Words /\ Word(a) = Word(b) /\ all(Args(a), Args(b))
        \/ a.k = "angle" /\ b.k = "angle" /\ all(a.of \o a.more, b.of \o b.more)
        \/ /\ a.k = b.k /\ a.k \notin Words \cup {"angle"}
           /\ a.k \in {"array", "ref", "qpath", "param"} => a.n = b.n
           /\ a.k \in {"ref", "ptr", "static", "sig"} => a.flags = b.flags
           /\ all(a.of, b.of) /\ all(a.out, b.out) /\ all(Args(a), Args(b))

alike[p \in Nodes \X Nodes] == Same(Core(p[1]), Core(p[2]), alike)

\* The text ends in a list of bounds, which a " + " after it would prolong.
EndsOpen(t, open) ==
    \/ t.k \in {"dyn", "impl"}
    \/ t.k \in {"ref", "ptr", "pat"} /\ open[t.of[1]]
    \/ t.k \in {"fnptr", "paren"} /\ \E i \in DOMAIN t.out : open[t.out[i]]
    \/ t.k \in {"path", "trait", "qpath"} /\ \E i \in DOMAIN t.more : open[t.more[i]]

open[t \in Nodes] == EndsOpen(t, open)

\* Somewhere in it a bound that ends open is followed by another bound, or
\* could be.
Prolongs(t, prolonged) ==
    \/ t.k \in {"dyn", "impl"} /\ \E i \in DOMAIN t.of : open[t.of[i]]
    \/ \E s \in {t.of, t.out, t.more} : \E i \in DOMAIN s : prolonged[s[i]]

prolonged[t \in Nodes] == Prolongs(t, prolonged)
=============================================================================
