---------------------------- MODULE PublicIndex -----------------------------
(***************************************************************************)
(* build_public_index, walk_module, walk_use and resolve of                *)
(* md-docrs-core/src/resolve.rs: the walk that gives every public item of  *)
(* a crate the path it is asked for by.  The recursion is an explicit      *)
(* stack, one frame per call of walk_module that is going through its      *)
(* children; one step handles one child.  A name is one value, a path a    *)
(* sequence of names, and the alias of a use is already worked out         *)
(* (walk_use falls back to the last segment of the source).                *)
(***************************************************************************)
EXTENDS Integers, Sequences, FiniteSets

CONSTANTS
    Ids,      \* rustdoc Ids
    Names,    \* item names and aliases
    NoName,   \* Item.name = None
    NoId,     \* Use.id = None
    CrateName,
    Krates    \* the decoded crates to resolve in

Paths == Seq(Names)

Items == [kind : {"module", "use", "other"},
          name : Names \cup {NoName},
          items : Seq(Ids),          \* Module.items
          target : Ids \cup {NoId},  \* Use.id
          glob : BOOLEAN]            \* Use.is_glob

\* root and index as rustdoc writes them: index holds the items whose bodies
\* are in this crate, and lacks, say, the target of a foreign re-export.
IsKrate(K) ==
    /\ K.root \in Ids
    /\ DOMAIN K.index \subseteq Ids
    /\ \A id \in DOMAIN K.index :
          /\ K.index[id] \in Items
          /\ K.index[id].kind = "use" => K.index[id].name \in Names
    /\ DOMAIN K.paths \subseteq Ids

ASSUME KratesAssumption == \A K \in Krates : IsKrate(K)
ASSUME NamesAssumption == CrateName \in Names /\ NoName \notin Names /\ NoId \notin Ids

VARIABLES
    krate,    \* the crate
    stack,    \* the calls of walk_module in progress, the innermost first
    out,      \* the index so far: path -> Id
    visited,  \* the ids walk_module was called with
    home      \* history: module -> the path its children are indexed under

vars == <<krate, stack, out, visited, home>>

Module(K) == {id \in DOMAIN K.index : K.index[id].kind = "module"}

RootPath == <<CrateName>>

Frame(m, p) == [module |-> m, path |-> p, next |-> 1]

\* out.entry(p).or_insert(id)
OrInsert(p, id) ==
    [q \in DOMAIN out \cup {p} |-> IF q \in DOMAIN out THEN out[q] ELSE id]

\* A bug this code could have had (no specification uses a Mutant; it takes the
\* place of the definition after it): a module is marked when it is entered, and
\* entered again all the same.
MutantReenter(m, p, rest) ==
    /\ visited' = visited \cup {m}
    /\ stack' = IF m \in Module(krate) /\ Len(rest) < 4 THEN <<Frame(m, p)>> \o rest ELSE rest
    /\ home' = [n \in DOMAIN home \cup (Module(krate) \cap {m}) |->
                    IF n = m THEN p ELSE home[n]]

\* walk_module(m, p) called from a frame that leaves the stack as rest: an
\* id that was visited, is not in the index or is no module is left at once.
Walk(m, p, rest) ==
    /\ visited' = visited \cup {m}
    /\ IF m \notin visited /\ m \in Module(krate)
       THEN /\ stack' = <<Frame(m, p)>> \o rest
            /\ home' = [n \in DOMAIN home \cup {m} |-> IF n = m THEN p ELSE home[n]]
       ELSE /\ stack' = rest
            /\ UNCHANGED home

Init ==
    /\ krate \in Krates
    /\ out = [p \in {RootPath} |-> krate.root]
    /\ visited = {krate.root}
    /\ IF krate.root \in Module(krate)
       THEN /\ stack = <<Frame(krate.root, RootPath)>>
            /\ home = [m \in {krate.root} |-> RootPath]
       ELSE /\ stack = <<>>
            /\ home = [m \in {} |-> RootPath]

-----------------------------------------------------------------------------
Top == Head(stack)

Children(K, m) == K.index[m].items

\* The innermost call is at a child of its module.
AtChild == stack # <<>> /\ Top.next <= Len(Children(krate, Top.module))

ChildId == Children(krate, Top.module)[Top.next]

Child == krate.index[ChildId]

\* The stack with the innermost call past this child.
Advanced == <<[Top EXCEPT !.next = @ + 1]>> \o Tail(stack)

Skip ==
    /\ stack' = Advanced
    /\ UNCHANGED <<krate, out, visited, home>>

\* A child that the index lacks.
Missing ==
    /\ AtChild
    /\ ChildId \notin DOMAIN krate.index
    /\ Skip

\* A named item; a module is walked under its own path.
Declare ==
    /\ AtChild
    /\ ChildId \in DOMAIN krate.index
    /\ Child.kind # "use"
    /\ Child.name # NoName
    /\ out' = OrInsert(Append(Top.path, Child.name), ChildId)
    /\ IF Child.kind = "module"
       THEN Walk(ChildId, Append(Top.path, Child.name), Advanced)
       ELSE stack' = Advanced /\ UNCHANGED <<visited, home>>
    /\ UNCHANGED krate

\* An item without a name (an impl).
Unnamed ==
    /\ AtChild
    /\ ChildId \in DOMAIN krate.index
    /\ Child.kind # "use"
    /\ Child.name = NoName
    /\ Skip

AtUse ==
    /\ AtChild
    /\ ChildId \in DOMAIN krate.index
    /\ Child.kind = "use"

\* Use.id taken to be there.
MutantUseIgnored ==
    /\ AtUse
    /\ Child.target # NoId
    /\ Child.glob /\ Child.target \notin Module(krate)
    /\ Skip

\* A use whose target rustdoc does not know, and a glob of anything but a
\* module of this crate.
UseIgnored ==
    /\ AtUse
    /\ \/ Child.target = NoId
       \/ Child.glob /\ Child.target \notin Module(krate)
    /\ Skip

\* A glob under a path of its own.
MutantUseGlob ==
    /\ AtUse
    /\ Child.glob
    /\ Child.target \in Module(krate)
    /\ Walk(Child.target, Append(Top.path, Child.name), Advanced)
    /\ UNCHANGED <<krate, out>>

\* pub use target::*: the target's children, under the path of this module.
UseGlob ==
    /\ AtUse
    /\ Child.glob
    /\ Child.target \in Module(krate)
    /\ Walk(Child.target, Top.path, Advanced)
    /\ UNCHANGED <<krate, out>>

\* A re-exported module named, and not walked.
MutantUseNamed ==
    /\ AtUse
    /\ ~Child.glob
    /\ Child.target # NoId
    /\ out' = OrInsert(Append(Top.path, Child.name), Child.target)
    /\ stack' = Advanced
    /\ UNCHANGED <<krate, visited, home>>

\* pub use target as name: one entry, and a module is walked under it.
UseNamed ==
    /\ AtUse
    /\ ~Child.glob
    /\ Child.target # NoId
    /\ out' = OrInsert(Append(Top.path, Child.name), Child.target)
    /\ IF Child.target \in Module(krate)
       THEN Walk(Child.target, Append(Top.path, Child.name), Advanced)
       ELSE stack' = Advanced /\ UNCHANGED <<visited, home>>
    /\ UNCHANGED krate

\* The innermost call has no child left.
Return ==
    /\ stack # <<>>
    /\ ~AtChild
    /\ stack' = Tail(stack)
    /\ UNCHANGED <<krate, out, visited, home>>

Next ==
    \/ Missing \/ Declare \/ Unnamed
    \/ UseIgnored \/ UseGlob \/ UseNamed
    \/ Return

Spec == Init /\ [][Next]_vars

\* One thread runs the walk to its end.
FairSpec == Spec /\ WF_vars(Next)

Done == stack = <<>>

-----------------------------------------------------------------------------
(* resolve, once the index is built                                        *)

\* The ids whose defining path is p; those in the index come first, and a
\* HashMap's order decides between equals.
Stored(p) ==
    LET candidates == {id \in DOMAIN krate.paths : krate.paths[id] = p}
        documented == candidates \cap DOMAIN krate.index
    IN  IF documented # {} THEN documented ELSE candidates

\* The ids resolve may return for p; none of them is Error::NotFound.
Resolve(p) ==
    IF p = RootPath THEN {krate.root}
    ELSE IF p \in DOMAIN out THEN {out[p]}
    ELSE Stored(p)

-----------------------------------------------------------------------------
(* The public module tree, said without a walk                             *)

GlobImports(K, m, t) ==
    \E i \in DOMAIN Children(K, m) :
        LET c == Children(K, m)[i] IN
        /\ c \in DOMAIN K.index
        /\ K.index[c].kind = "use" /\ K.index[c].glob
        /\ K.index[c].target = t
        /\ t \in Module(K)

\* m gives id the name n, by declaring it or by a use that is not a glob.
Declares(K, m, n, id) ==
    \E i \in DOMAIN Children(K, m) :
        LET c == Children(K, m)[i] IN
        /\ c \in DOMAIN K.index
        /\ K.index[c].name = n /\ n # NoName
        /\ IF K.index[c].kind = "use"
           THEN ~K.index[c].glob /\ K.index[c].target = id /\ id # NoId
           ELSE id = c

\* The modules whose names are names of m: m and what it globs, and so on;
\* the least such set.
GlobScope(K, m) ==
    {t \in Module(K) : \A S \in SUBSET Module(K) :
        m \in S /\ (\A a \in S, b \in Module(K) : GlobImports(K, a, b) => b \in S)
        => t \in S}

Opens(K, m, n, id) == \E s \in GlobScope(K, m) : Declares(K, s, n, id)

\* p is a public path of id: from the root, every name of p is a name of the
\* module the names before it lead to.
PublicPath(K, p, id) ==
    \E w \in [1..Len(p) -> Module(K) \cup {K.root, id}] :
        /\ w[1] = K.root /\ p[1] = CrateName
        /\ w[Len(p)] = id
        /\ \A i \in 1..(Len(p) - 1) :
              w[i] \in Module(K) /\ Opens(K, w[i], p[i + 1], w[i + 1])

\* The modules the public tree leads to, from a root that is a module.
Leads(K, a, b) ==
    b \in Module(K) /\ (GlobImports(K, a, b) \/ \E n \in Names : Declares(K, a, n, b))

Reachable(K) ==
    {t \in Module(K) : K.root \in Module(K) /\ \A S \in SUBSET Module(K) :
        K.root \in S /\ (\A a \in S, b \in Module(K) : Leads(K, a, b) => b \in S)
        => t \in S}

-----------------------------------------------------------------------------
TypeOK ==
    /\ IsKrate(krate)
    /\ stack \in Seq([module : Module(krate), path : Paths, next : Nat \ {0}])
    /\ DOMAIN out \subseteq Paths
    /\ \A p \in DOMAIN out : out[p] \in Ids
    /\ visited \subseteq Ids
    /\ DOMAIN home = visited \cap Module(krate)
    /\ \A m \in DOMAIN home : home[m] \in Paths

\* The index never gives a path to an item that does not publicly have it:
\* what a glob inlines is attributed to the importing module's path, what an
\* alias exposes to the alias, through any nesting of both.
IndexSound == \A p \in DOMAIN out : PublicPath(krate, p, out[p])

\* A re-export cycle cannot recurse for ever: the calls in progress are for
\* different modules, each under the one path its children go by.
StackSound ==
    /\ \A i, j \in DOMAIN stack : stack[i].module = stack[j].module => i = j
    /\ \A i \in DOMAIN stack : stack[i].path = home[stack[i].module]

\* When the walk is over, every module of the public tree was walked, and
\* every name it declares is in the index under the path it was walked at,
\* whatever the order of children, globs and cycles.
IndexComplete ==
    Done => \A m \in Reachable(krate) :
        /\ m \in DOMAIN home
        /\ \A n \in Names, id \in Ids :
              Declares(krate, m, n, id) => Append(home[m], n) \in DOMAIN out

\* The walk ends, also on crates whose re-exports form cycles.
Terminates == <>Done

\* What the comment on resolve says of Error::NotFound: it means that no item
\* of the public module tree has the path.
NotFoundIsPrivate ==
    Done => \A p \in UNION {[1..l -> Names] : l \in 2..4} :
        Resolve(p) = {} => \A id \in Ids : ~PublicPath(krate, p, id)
=============================================================================
