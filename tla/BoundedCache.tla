---------------------------- MODULE BoundedCache ----------------------------
(***************************************************************************)
(* What the CrateCache trait (cache/mod.rs) and the "bounded LRU" of       *)
(* cache/memory.rs promise, without the list that implements it: a partial *)
(* map of at most Bound keys that returns the value last put and, when it  *)
(* is full, forgets the key whose last use is the oldest.                  *)
(***************************************************************************)
EXTENDS Integers, FiniteSets

CONSTANTS
    Keys,      \* CacheKey
    Crates,    \* the parsed crates that may be put
    NoCrate,   \* Option::None
    Bound,     \* the keys the cache may hold at once
    MaxUses    \* bound: the uses a behaviour may make of the cache

VARIABLES
    content,   \* key -> the crate held for it, or NoCrate
    answered,  \* what the last get returned
    used,      \* key -> the time of its last use, 0 when never used
    clock      \* the number of uses so far

vars == <<content, answered, used, clock>>

Init ==
    /\ content = [k \in Keys |-> NoCrate]
    /\ answered = NoCrate
    /\ used = [k \in Keys |-> 0]
    /\ clock = 0

Use(k) ==
    /\ clock < MaxUses
    /\ clock' = clock + 1
    /\ used' = [used EXCEPT ![k] = clock + 1]

\* A get returns what is held, and counts as a use when something is.
Get(k) ==
    /\ answered' = content[k]
    /\ IF content[k] # NoCrate THEN Use(k) ELSE UNCHANGED <<used, clock>>
    /\ UNCHANGED content

Live == {k \in Keys : content[k] # NoCrate}

Put(k, c) ==
    /\ Use(k)
    /\ UNCHANGED answered
    /\ \/ /\ k \in Live \/ Cardinality(Live) < Bound
          /\ content' = [content EXCEPT ![k] = c]
       \/ /\ k \notin Live
          /\ Cardinality(Live) = Bound
          /\ \E oldest \in Live :
                /\ \A j \in Live : used[oldest] <= used[j]
                /\ content' = [content EXCEPT ![k] = c, ![oldest] = NoCrate]

Next == \E k \in Keys : Get(k) \/ \E c \in Crates : Put(k, c)

Spec == Init /\ [][Next]_vars
=============================================================================
