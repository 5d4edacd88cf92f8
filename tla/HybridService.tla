--------------------------- MODULE HybridService ----------------------------
(***************************************************************************)
(* What md-docrs-server promises with the hybrid cache, with no tier, write *)
(* or read in sight: per key a set of crates a lookup may find.  A crate    *)
(* gets into the set only by a request that downloaded it and is still      *)
(* there; what left the set comes back only by another download; crates     *)
(* may be forgotten at any time, and a restart forgets requests and perhaps *)
(* crates, never adds any.                                                  *)
(***************************************************************************)
EXTENDS DocsRs

CONSTANTS
    Handlers,
    MaxBuild   \* bound: FORMAT_VERSIONs the program is rebuilt with

VARIABLES
    build,     \* the FORMAT_VERSION of the program that runs
    findable,  \* key -> the entries a lookup may find
    key,       \* handler -> the key it is asked for
    phase,     \* handler -> "idle" | "open" | "loaded" | "holding"
    held       \* handler -> the entry it answers from, or NoCrate

vars == <<docs, build, findable, key, phase, held>>

Entries == [crate : Crates, format : 1..MaxBuild]

Init ==
    /\ DocsInit
    /\ build = 1
    /\ findable = [k \in Keys |-> {}]
    /\ key \in [Handlers -> Keys]
    /\ phase = [h \in Handlers |-> "idle"]
    /\ held = [h \in Handlers |-> NoCrate]

Shrinks == \A k \in Keys : findable'[k] \subseteq findable[k]

Upstream ==
    /\ \E k \in Keys : Publish(k) \/ Build(k)
    /\ UNCHANGED <<build, findable, key, phase, held>>

Open(h) ==
    /\ phase[h] = "idle"
    /\ \E k \in Keys : key' = [key EXCEPT ![h] = k]
    /\ phase' = [phase EXCEPT ![h] = "open"]
    /\ UNCHANGED <<docs, build, findable, held>>

Find(h) ==
    /\ phase[h] = "open"
    /\ \E e \in findable[key[h]] : held' = [held EXCEPT ![h] = e]
    /\ phase' = [phase EXCEPT ![h] = "holding"]
    /\ UNCHANGED <<docs, build, findable, key>>

Load(h) ==
    /\ phase[h] = "open"
    /\ docs[key[h]].built
    /\ held' = [held EXCEPT ![h] = [crate |-> Served(key[h]), format |-> build]]
    /\ phase' = [phase EXCEPT ![h] = "loaded"]
    /\ UNCHANGED <<docs, build, findable, key>>

Store(h) ==
    /\ phase[h] = "loaded"
    /\ held[h] \in findable'[key[h]]
    /\ findable' \in [Keys -> SUBSET Entries]
    /\ findable'[key[h]] \subseteq findable[key[h]] \cup {held[h]}
    /\ \A k \in Keys \ {key[h]} : findable'[k] \subseteq findable[k]
    /\ phase' = [phase EXCEPT ![h] = "holding"]
    /\ UNCHANGED <<docs, build, key, held>>

\* Answered, refused, or given up by its client.
Close(h) ==
    /\ phase[h] # "idle"
    /\ phase' = [phase EXCEPT ![h] = "idle"]
    /\ held' = [held EXCEPT ![h] = NoCrate]
    /\ UNCHANGED <<docs, build, findable, key>>

Forget ==
    /\ findable' \in [Keys -> SUBSET Entries]
    /\ Shrinks
    /\ UNCHANGED <<docs, build, key, phase, held>>

Restart ==
    /\ build' \in {n \in 1..MaxBuild : n \in {build, build + 1}}
    /\ docs' \in [Keys -> [release : 0..MaxRelease, built : BOOLEAN]]
    /\ \A k \in Keys : docs'[k].release = docs[k].release
    /\ build' = build => docs' = docs
    /\ findable' \in [Keys -> SUBSET Entries]
    /\ Shrinks
    /\ phase' = [h \in Handlers |-> "idle"]
    /\ held' = [h \in Handlers |-> NoCrate]
    /\ UNCHANGED key

Next ==
    \/ Upstream \/ Forget \/ Restart
    \/ \E h \in Handlers : Open(h) \/ Find(h) \/ Load(h) \/ Store(h) \/ Close(h)

Spec == Init /\ [][Next]_vars
=============================================================================
