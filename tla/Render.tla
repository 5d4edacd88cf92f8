------------------------------- MODULE Render -------------------------------
(***************************************************************************)
(* render/mod.rs: the page of an item, as a sequence of blocks.  An item's  *)
(* children are in its field of; one that is not in the crate's index, or   *)
(* a hidden position of a tuple, has the kind "missing".  Docs are "none",  *)
(* "blank" (only space) or a text of the item's own.  Wording, layout and   *)
(* the link to docs.rs are left out.  How a type and a signature are        *)
(* written is TypeText's subject.                                           *)
(***************************************************************************)
EXTENDS TypeText, Integers, FiniteSets

CONSTANTS
    Subjects,  \* the items that may be rendered
    Alphabet   \* the names of a module's children, in order

\* form is the shape of a struct or variant, or whether a method has a body.
Item(kind, name, docs, form, type, of) ==
    [kind |-> kind, name |-> name, docs |-> docs, form |-> form, type |-> type, of |-> of]

Below(it) == {it.of[i] : i \in DOMAIN it.of}

Grandchildren(it) == UNION {Below(c) : c \in Below(it)}

HasDocs(it) == it.docs \notin {"none", "blank"}

\* Whoever has docs has its own: nothing else in the item has the same.
OwnDocs(it) ==
    /\ \A c \in Below(it) \cup Grandchildren(it) : HasDocs(c) => c.docs # it.docs
    /\ \A c \in Below(it) : \A f \in Grandchildren(it) : HasDocs(c) => c.docs # f.docs
    /\ \A i, j \in DOMAIN it.of :
          /\ HasDocs(it.of[i]) /\ it.of[i].docs = it.of[j].docs => i = j
          /\ \A k \in DOMAIN it.of[i].of : \A l \in DOMAIN it.of[j].of :
                HasDocs(it.of[i].of[k]) /\ it.of[i].of[k].docs = it.of[j].of[l].docs => i = j /\ k = l

\* What has a type on the item's page, and of which variant.
Typed(it) ==
    {c \in Below(it) \cup Grandchildren(it) \cup {it} :
        /\ it.kind # "module"
        /\ c.kind \in {"field", "type_alias", "constant", "assoc_const", "static", "function"}}

TypeKinds(c) ==
    CASE c.kind = "static" -> {"static"} [] c.kind = "function" -> {"sig"} [] OTHER -> Types

\* An item lists its children, and so do those.  A struct has one of three
\* shapes, and a trait's method has a body or not.  A module's children are
\* listed by names in the alphabet, in which each stands once.
ASSUME ItemsAssumption ==
    /\ {c.type : c \in UNION {Typed(it) : it \in Subjects}} \subseteq Nodes
    /\ \A it \in Subjects :
          /\ \A c \in Below(it) \cup {it} : c.of \in Seq(Below(c))
          /\ OwnDocs(it)
          /\ \A c \in Below(it) \cup {it} : c.name \in STRING \ Tokens /\ c.form \in STRING
          /\ \A c \in Typed(it) : c.type.k \in TypeKinds(c)
          /\ it.kind = "struct" => it.form \in {"unit", "tuple", "plain"}
          /\ it.kind = "trait" =>
                \A c \in Below(it) : c.kind = "function" => c.form \in {"required", "provided"}
          /\ it.kind = "module" =>
                \A c \in Below(it) : c.name # "" /\ c.kind # "missing" =>
                    \E i \in DOMAIN Alphabet :
                        Alphabet[i] = IF c.kind = "use" THEN c.form ELSE c.name
    /\ Alphabet \in Seq(STRING)
    /\ \A i, j \in DOMAIN Alphabet : Alphabet[i] = Alphabet[j] => i = j

VARIABLES
    subject,  \* the item that is asked for
    page      \* its blocks, <<>> before

pageVars == <<subject, page>>

\* A block, and the docs it tells.
Told(b, text, docs) == [b |-> b, text |-> text, docs |-> docs]
Block(b, text) == Told(b, text, "none")

Fence(lines) ==
    <<Block("open", <<>>)>> \o [i \in DOMAIN lines |-> Block("code", lines[i])]
        \o <<Block("close", <<>>)>>

Name(it) == IF it.name = "" THEN "_" ELSE it.name

\* Some docs, trimmed: also a block of no text.
Docs(it) == If(it.docs # "none", <<Told("docs", <<>>, it.docs)>>)

Indexed(s) == Those(s, LAMBDA it : it.kind # "missing")

TypeOf(it) == IF it.kind \in {"field", "assoc_const"} THEN ty[it.type] ELSE <<"_">>

NameAndType(it) == <<Name(it), ": ">> \o TypeOf(it)

-----------------------------------------------------------------------------
(* Structs, unions and enums                                               *)

\* Positions that are hidden or missing passed over.
MutantPositions(s, pub) ==
    Join(LAMBDA f : pub \o TypeOf(f), Indexed(s), ", ")

\* A tuple keeps its positions: one without a type is written "_".
Positions(s, pub) ==
    Join(LAMBDA f : IF f.kind = "field" THEN pub \o ty[f.type] ELSE <<"_">>, s, ", ")

\* Named fields that are hidden or missing are passed over.
FieldLines(s, pub) ==
    Each(LAMBDA f : If(f.kind = "field", <<pub \o NameAndType(f)>>), s)

\* The heading before the look at what there is.
MutantFieldDocs(it) ==
    LET documented == Those(Indexed(it.of), LAMBDA f : f.docs # "none")
    IN  If(it.form = "plain" /\ documented # <<>>,
           <<Block("h2", <<"Fields">>)>>
               \o Each(LAMBDA f : If(HasDocs(f), <<Block("h3", NameAndType(f))>> \o Docs(f)), documented))

FieldDocs(it) ==
    LET documented == Those(Indexed(it.of), HasDocs)
    IN  If(it.form = "plain" /\ documented # <<>>,
           <<Block("h2", <<"Fields">>)>>
               \o Each(LAMBDA f : <<Block("h3", NameAndType(f))>> \o Docs(f), documented))

Struct(it) ==
    Fence(CASE it.form = "unit" -> <<<<"pub struct ", Name(it), ";">>>>
            [] it.form = "tuple" ->
                 <<<<"pub struct ", Name(it), "(">> \o Positions(it.of, <<"pub ">>) \o <<");">>>>
            [] it.form = "plain" ->
                 <<<<"pub struct ", Name(it), " {">>>> \o FieldLines(it.of, <<"pub ">>) \o <<<<"}">>>>)
    \o FieldDocs(it)

\* The docs of a union's fields have no place.
Union(it) ==
    Fence(<<<<"pub union ", Name(it), " {">>>> \o FieldLines(it.of, <<"pub ">>) \o <<<<"}">>>>)

VariantLines(v) ==
    CASE v.kind # "variant" \/ v.form = "plain" -> <<<<Name(v), ",">>>>
      [] v.kind = "variant" /\ v.form = "tuple" ->
            <<<<Name(v), "(">> \o Positions(v.of, <<>>) \o <<"),">>>>
      [] OTHER -> <<<<Name(v), " {">>>> \o FieldLines(v.of, <<>>) \o <<<<"},">>>>

\* The documented fields of a struct variant, with the first line of each.
VariantDetail(v) ==
    If(v.kind = "variant" /\ v.form = "struct",
       Each(LAMBDA f : <<Block("bullet", NameAndType(f))>> \o Docs(f),
            Those(Indexed(v.of), HasDocs)))

Enum(it) ==
    Fence(<<<<"pub enum ", Name(it), " {">>>> \o Each(VariantLines, Indexed(it.of)) \o <<<<"}">>>>)
    \o If(Indexed(it.of) # <<>>,
          <<Block("h2", <<"Variants">>)>>
              \o Each(LAMBDA v : <<Block("h3", <<Name(v)>>)>> \o Docs(v) \o VariantDetail(v),
                      Indexed(it.of)))

-----------------------------------------------------------------------------
(* Traits                                                                  *)

Titled(title, entries) ==
    If(entries # <<>>, <<Block("h2", <<title>>)>> \o FlattenSeq(entries))

AssocTypes(s) ==
    Titled("Associated Types",
           [i \in DOMAIN s |-> <<Block("h3", <<"type ", Name(s[i])>>)>> \o Docs(s[i])])

AssocConsts(s) ==
    Titled("Associated Constants",
           [i \in DOMAIN s |-> <<Block("h3", <<"const ">> \o NameAndType(s[i]))>> \o Docs(s[i])])

Methods(title, s) ==
    Titled(title,
           [i \in DOMAIN s |-> <<Block("h3", <<Name(s[i])>>)>>
                                   \o Fence(<<FnSignature(Name(s[i]), s[i].type)>>) \o Docs(s[i])])

\* provided is the form of a method that has a body.
TraitBody(it, provided) ==
    LET kinds(k, form) ==
            Those(it.of, LAMBDA c : c.kind = k /\ (form = "" \/ c.form = form))
    IN  Fence(<<<<"pub ">> \o Each(LAMBDA w : If(w \in it.type.flags, <<w>>), <<"unsafe ", "auto ">>)
                  \o <<"trait ", Name(it), " { /* ... */ }">>>>)
        \o AssocTypes(kinds("assoc_type", ""))
        \o AssocConsts(kinds("assoc_const", ""))
        \o Methods("Required Methods", kinds("function", "required"))
        \o Methods("Provided Methods", kinds("function", provided))

\* Whether a method has a body is not asked of the provided ones.
MutantTrait(it) == TraitBody(it, "")

Trait(it) == TraitBody(it, "provided")

-----------------------------------------------------------------------------
(* Modules                                                                 *)

\* Title and the kinds it takes, in the order of the page.
Buckets ==
    <<[title |-> "Modules", kinds |-> {"module"}], [title |-> "Structs", kinds |-> {"struct"}],
      [title |-> "Enums", kinds |-> {"enum"}], [title |-> "Unions", kinds |-> {"union"}],
      [title |-> "Traits", kinds |-> {"trait"}], [title |-> "Functions", kinds |-> {"function"}],
      [title |-> "Type Aliases", kinds |-> {"type_alias"}],
      [title |-> "Constants", kinds |-> {"constant"}], [title |-> "Statics", kinds |-> {"static"}],
      [title |-> "Macros", kinds |-> {"macro", "proc_macro"}],
      [title |-> "Re-exports", kinds |-> {"use"}]>>

\* A re-export is listed by the name it gives and the path it takes it from,
\* which are in form and type; anything else by its name and first paragraph.
Listed(c) ==
    IF c.kind = "use" THEN Block("item", <<c.form, " - ", c.type.n>>)
    ELSE Told("item", <<c.name>>, IF HasDocs(c) THEN c.docs ELSE "none")

\* sort_by_key by the name listed, which keeps the order of equals.
Sorted(s) ==
    LET named(c) == IF c.kind = "use" THEN c.form ELSE c.name
    IN  Each(LAMBDA name : Those(s, LAMBDA c : named(c) = name), Alphabet)

\* An unnamed child is passed over, before anybody asks what it is.
ModuleBody(it) ==
    LET named == Those(Indexed(it.of), LAMBDA c : c.name # "")
    IN  Each(LAMBDA bucket :
               LET s == Sorted(Those(named, LAMBDA c : c.kind \in bucket.kinds))
               IN  If(s # <<>>, <<Block("h2", <<bucket.title>>)>> \o [i \in DOMAIN s |-> Listed(s[i])]),
             Buckets)

-----------------------------------------------------------------------------
Value(it) ==
    CASE it.kind = "constant" -> <<"pub const ", Name(it), ": ">> \o ty[it.type] \o <<" = ", it.form, ";">>
      [] it.kind = "static" ->
            <<"pub static ">> \o If("mut" \in it.type.flags, <<"mut ">>) \o <<Name(it), ": ">>
                \o ty[it.type.of[1]] \o <<" = ", it.form, ";">>
      [] it.kind = "type_alias" -> <<"pub type ", Name(it), " = ">> \o ty[it.type] \o <<";">>
      [] it.kind = "function" -> FnSignature(Name(it), it.type)
      [] it.kind = "macro" -> <<it.form>>

Body(it) ==
    CASE it.kind = "module" -> ModuleBody(it)
      [] it.kind = "struct" -> Struct(it)
      [] it.kind = "enum" -> Enum(it)
      [] it.kind = "trait" -> Trait(it)
      [] it.kind = "union" -> Union(it)
      [] it.kind \in {"constant", "static", "type_alias", "function", "macro"} -> Fence(<<Value(it)>>)
      [] OTHER -> <<Block("note", <<it.kind>>)>>

\* An item that is known by its path only has a stub for a page.
Page(it) ==
    <<Block("h1", <<it.kind, " ", it.name>>)>>
        \o (IF it.kind = "missing" THEN <<Block("note", <<"re-exported">>)>>
            ELSE Docs(it) \o Body(it))

PageInit == subject \in Subjects /\ page = <<>>

Render == page = <<>> /\ page' = Page(subject) /\ UNCHANGED subject

PageSpec == PageInit /\ [][Render]_pageVars

-----------------------------------------------------------------------------
ListedKinds == UNION {Buckets[i].kinds : i \in DOMAIN Buckets}

\* The documented children an item's page has a place for: all but positions
\* of tuples, fields of unions, and what a module does not name or has no
\* section for.
Placed(it) ==
    CASE it.kind = "module" -> {c \in Below(it) : c.name # "" /\ c.kind \in ListedKinds \ {"use"}}
      [] it.kind = "struct" /\ it.form = "plain" -> Below(it)
      [] it.kind = "trait" -> {c \in Below(it) : c.kind \in {"function", "assoc_type", "assoc_const"}}
      [] it.kind = "enum" ->
            Below(it) \cup UNION {Below(v) : v \in {w \in Below(it) : w.kind = "variant" /\ w.form = "struct"}}
      [] OTHER -> {}

Mentions(docs) == {i \in DOMAIN page : page[i].docs = docs}

\* Docs are on the page once: the item's own first, and those of every child
\* that the page has a place for, whatever is missing beside it.
DocsShownOnce ==
    page # <<>> =>
        /\ HasDocs(subject) /\ subject.kind # "missing" => Mentions(subject.docs) = {2}
        /\ \A c \in Placed(subject) :
              HasDocs(c) /\ c.kind # "missing" => Cardinality(Mentions(c.docs)) = 1

\* No heading stands over nothing: after each comes something of its own, and
\* no two sections have one title.
HeadingsHaveContent ==
    \A i \in DOMAIN page : page[i].b = "h2" =>
        /\ i < Len(page) /\ page[i + 1].b \in {"h3", "item"}
        /\ \A j \in DOMAIN page : page[j] = page[i] => j = i
=============================================================================
