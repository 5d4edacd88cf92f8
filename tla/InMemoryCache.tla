--------------------------- MODULE InMemoryCache ----------------------------
(***************************************************************************)
(* InMemoryCache of cache/memory.rs on its own: any number of callers get  *)
(* and put in any order; the mutex makes each call one step.  used and     *)
(* clock are history variables: they date the last use of every key, so    *)
(* that the order of the list can be compared with what "least recently    *)
(* used" means.                                                            *)
(***************************************************************************)
EXTENDS CrateCache

CONSTANTS
    Keys,      \* CacheKey: (crate name, version, target)
    Crates,    \* the parsed crates a caller may put
    NoCrate,   \* Option::None
    MaxUses    \* bound: the uses a behaviour may make of the cache

ASSUME NoCrateAssumption == NoCrate \notin Crates
ASSUME MaxUsesAssumption == MaxUses \in Nat

VARIABLES
    lru,       \* the LruCache
    answered,  \* what the last get returned
    used,      \* history: key -> the time of its last use, 0 when never used
    clock      \* history: the number of uses so far

vars == <<lru, answered, used, clock>>

Init ==
    /\ lru = <<>>
    /\ answered = NoCrate
    /\ used = [k \in Keys |-> 0]
    /\ clock = 0

Use(k) ==
    /\ clock < MaxUses
    /\ clock' = clock + 1
    /\ used' = [used EXCEPT ![k] = clock + 1]

\* get on a key that is held returns it and makes it the most recent.
GetHit(k) ==
    /\ Holds(lru, k)
    /\ answered' = Value(lru, k)
    /\ lru' = Promote(lru, k)
    /\ Use(k)

\* get on any other key returns None and touches nothing.
GetMiss(k) ==
    /\ ~Holds(lru, k)
    /\ answered' = NoCrate
    /\ UNCHANGED <<lru, used, clock>>

Put(k, c) ==
    /\ lru' = Insert(lru, k, c)
    /\ Use(k)
    /\ UNCHANGED answered

Next == \E k \in Keys : GetHit(k) \/ GetMiss(k) \/ \E c \in Crates : Put(k, c)

Spec == Init /\ [][Next]_vars

-----------------------------------------------------------------------------
TypeOK ==
    /\ lru \in Seq([key : Keys, crate : Crates])
    /\ answered \in Crates \cup {NoCrate}
    /\ used \in [Keys -> 0..MaxUses]
    /\ clock \in 0..MaxUses

\* The list never exceeds the capacity LruCache was created with, and a key
\* never has two entries: the second of two racing puts replaces the first.
WellFormed ==
    /\ Len(lru) <= Capacity
    /\ DistinctKeys(lru)

InUseOrder(s, u) ==
    \A i, j \in DOMAIN s : i < j => u[s[i].key] > u[s[j].key]

ForgetsOldest(s, u) ==
    \A k \in Keys : u[k] > 0 /\ ~Holds(s, k) =>
        /\ Len(s) = Capacity
        /\ \A i \in DOMAIN s : u[k] < u[s[i].key]

\* The keys held are exactly the most recently used ones: the list is in the
\* order of last use, and a key that was used and is gone was used before
\* every key that is still held, in a list that is full.
KeepsMostRecent == InUseOrder(lru, used) /\ ForgetsOldest(lru, used)

\* The same list implements the map of BoundedCache.
Content == [k \in Keys |-> IF Holds(lru, k) THEN Value(lru, k) ELSE NoCrate]

Abstract == INSTANCE BoundedCache WITH content <- Content, Bound <- Capacity

\* Every get and put is a step of the abstract cache: a put evicts only when
\* the cache is full, only one key, and only the least recently used one.
IsBoundedCache == Abstract!Spec
=============================================================================
