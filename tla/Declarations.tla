---------------------------- MODULE Declarations ----------------------------
(***************************************************************************)
(* What can be read off the declaration on a page.                         *)
(***************************************************************************)
EXTENDS Render

Valued == {"type_alias", "constant", "static", "function"}

Readable == Valued \cup {"struct", "union"}

Code(blocks) == Those(blocks, LAMBDA block : block.b = "code")

Shown(it) == Those(it.of, LAMBDA f : f.kind = "field")

\* Two items of a kind are one but for what the code leaves out of their
\* declarations: besides what alike says, a union's and a plain struct's hidden
\* fields, and the names of a tuple's.
AlikeItems(a, b) ==
    CASE a.kind \in Valued -> alike[<<a.type, b.type>>]
      [] a.kind = "union" \/ (a.kind = "struct" /\ a.form = "plain") ->
            /\ Len(Shown(a)) = Len(Shown(b))
            /\ \A i \in DOMAIN Shown(a) :
                  /\ Name(Shown(a)[i]) = Name(Shown(b)[i])
                  /\ alike[<<Shown(a)[i].type, Shown(b)[i].type>>]
      [] a.kind = "struct" /\ a.form = "tuple" ->
            /\ Len(a.of) = Len(b.of)
            /\ \A i \in DOMAIN a.of :
                  /\ a.of[i].kind = "field" <=> b.of[i].kind = "field"
                  /\ a.of[i].kind = "field" => alike[<<a.of[i].type, b.of[i].type>>]
      [] OTHER -> TRUE

\* No type of the item is prolonged.
Clear(it) ==
    \A c \in Below(it) \cup {it} : c.kind \in Valued \cup {"field"} => ~prolonged[c.type]

\* Of each kind, what is declared on the page of an item.
Declared ==
    [kind \in Readable |->
        {[as |-> <<it.form, Code(Page(it))>>, by |-> it] : it \in {i \in Subjects : i.kind = kind}}]

\* Two items of a kind whose declarations read alike are alike, in all the
\* page claims to show of them: ty.rs sets no parentheses and yet every type
\* has a text of its own, except where a bound whose output ends in bounds is
\* itself in a list of bounds.
ReadsBack ==
    subject.kind \in Readable /\ page # <<>> /\ Clear(subject) =>
        LET as == <<subject.form, Code(page)>>
        IN  \A other \in Declared[subject.kind] : other.as = as => AlikeItems(subject, other.by)
=============================================================================
