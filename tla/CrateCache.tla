----------------------------- MODULE CrateCache -----------------------------
(***************************************************************************)
(* The in-memory crate cache of md-docrs-core (cache/memory.rs): an LRU    *)
(* map from CacheKey to a parsed crate, behind one mutex, so each get and  *)
(* each put is one atomic step.  The value of the map is a sequence of     *)
(* entries, the most recently used first.  This module holds the operators *)
(* only; InMemoryCache drives them alone, CrateServer inside the server.   *)
(***************************************************************************)
EXTENDS Integers, Sequences

CONSTANT ConfiguredCapacity   \* the argument of InMemoryCache::new

ASSUME CapacityAssumption == ConfiguredCapacity \in Nat

\* Operators whose name starts with Mutant are bugs this code could have had.
\* No specification uses them; each takes the place of the definition after it
\* to show that a property notices.

\* A capacity of zero taken as it is.
MutantCapacity == ConfiguredCapacity

\* NonZeroUsize::new(capacity).unwrap_or(NonZeroUsize::MIN)
Capacity == IF ConfiguredCapacity = 0 THEN 1 ELSE ConfiguredCapacity

\* The arguments of put swapped.
MutantEntry(k, c) == [key |-> c, crate |-> k]

Entry(k, c) == [key |-> k, crate |-> c]

Holds(s, k) == \E i \in DOMAIN s : s[i].key = k

Slot(s, k) == CHOOSE i \in DOMAIN s : s[i].key = k

Value(s, k) == s[Slot(s, k)].crate

\* The list after entry e took the front and slot i was given up for it:
\* what was before slot i moves back by one, what was after it stays.
ToFront(s, i, e) ==
    [j \in 1..(IF i > Len(s) THEN i ELSE Len(s)) |->
        IF j = 1 THEN e ELSE IF j <= i THEN s[j - 1] ELSE s[j]]

\* peek where get is meant.
MutantPromote(s, k) == s

\* LruCache::get on a key that is held: the entry becomes the most recent.
Promote(s, k) == ToFront(s, Slot(s, k), s[Slot(s, k)])

\* A put that does not look for the key first.
MutantPutSlot(s, k) == IF Len(s) < Capacity THEN Len(s) + 1 ELSE Len(s)

\* The slot LruCache::put gives up: the key's own, else a fresh one, else
\* the least recently used one.
PutSlot(s, k) ==
    IF Holds(s, k) THEN Slot(s, k)
    ELSE IF Len(s) < Capacity THEN Len(s) + 1 ELSE Len(s)

Insert(s, k, c) == ToFront(s, PutSlot(s, k), Entry(k, c))

\* No key has two entries.
DistinctKeys(s) ==
    \A i, j \in DOMAIN s : s[i].key = s[j].key => i = j
=============================================================================
