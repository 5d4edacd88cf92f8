------------------------------- MODULE DocsRs -------------------------------
(***************************************************************************)
(* docs.rs, as the fetchers use it: for every (crate, version, target) it  *)
(* serves one rustdoc JSON build at a time.  A new release (of a version   *)
(* alias such as "latest") or a new rustdoc format replaces what is served *)
(* with something that is not there yet in the client's FORMAT_VERSION; a  *)
(* build makes it available.                                               *)
(***************************************************************************)
EXTENDS Integers

CONSTANTS
    Keys,        \* (crate name, version, target)
    MaxRelease,  \* bound: the releases docs.rs makes of one key
    NoCrate      \* Option::None

Releases == 1..MaxRelease

\* A decoded crate: which key it documents and which release of it.
Crates == [of : Keys, release : Releases]

ASSUME MaxReleaseAssumption == MaxRelease \in Nat
ASSUME NoCrateAssumption == NoCrate \notin Crates

VARIABLE docs   \* key -> [release, built]; release 0 is "no such crate"

DocsInit == docs = [k \in Keys |-> [release |-> 0, built |-> FALSE]]

DocsTypeOK ==
    /\ docs \in [Keys -> [release : 0..MaxRelease, built : BOOLEAN]]
    /\ \A k \in Keys : docs[k].built => docs[k].release > 0

Publish(k) ==
    /\ docs[k].release < MaxRelease
    /\ docs' = [docs EXCEPT ![k] = [release |-> docs[k].release + 1,
                                    built |-> FALSE]]

Build(k) ==
    /\ docs[k].release > 0
    /\ ~docs[k].built
    /\ docs' = [docs EXCEPT ![k].built = TRUE]

\* What a GET of the key's JSON in FORMAT_VERSION would decode to.
Served(k) == [of |-> k, release |-> docs[k].release]
=============================================================================
