------------------------ MODULE InMemoryCacheProofs -------------------------
(***************************************************************************)
(* InMemoryCache keeps its type, its shape and the most recently used      *)
(* keys, and implements BoundedCache, for every capacity, set of keys and  *)
(* set of crates.                                                          *)
(***************************************************************************)
EXTENDS InMemoryCache, CrateCacheProofs, FiniteSetTheorems, FunctionTheorems

\* Nothing is dated later than now.
DatesPast == \A k \in Keys : used[k] <= clock

IInv == TypeOK /\ WellFormed /\ KeepsMostRecent /\ DatesPast

LEMMA InitIInv == Init => IInv
<1> SUFFICES ASSUME Init PROVE IInv
  OBVIOUS
<1>1. lru = <<>> /\ lru \in Seq([key : Keys, crate : Crates])
      /\ DOMAIN lru = {} /\ Len(lru) = 0
  BY DEF Init
<1>2. TypeOK
  BY <1>1, MaxUsesAssumption DEF Init, TypeOK
<1>3. WellFormed
  BY <1>1, CapacityPositive DEF WellFormed, DistinctKeys
<1>4. KeepsMostRecent /\ DatesPast
  BY <1>1 DEF Init, KeepsMostRecent, InUseOrder, ForgetsOldest, DatesPast
<1> QED BY <1>2, <1>3, <1>4 DEF IInv

\* Moving a used entry to the front keeps the list in the order of last use,
\* provided the slot given up is the entry's, a fresh one, or the last of a
\* full list.
LEMMA FrontKeepsOrder ==
    ASSUME NEW E, NEW s \in Seq(E), \A x \in E : x.key \in Keys,
           NEW u \in [Keys -> Nat], NEW now \in Nat,
           NEW e \in E,
           NEW i \in 1..(Len(s) + 1), i <= Capacity, Len(s) <= Capacity,
           \A j \in DOMAIN s : j # i => s[j].key # e.key,
           i \in DOMAIN s /\ s[i].key # e.key => i = Len(s) /\ i = Capacity,
           \A k \in Keys : u[k] <= now,
           InUseOrder(s, u), ForgetsOldest(s, u)
    PROVE  LET t == ToFront(s, i, e)
               v == [u EXCEPT ![e.key] = now + 1]
           IN  InUseOrder(t, v) /\ ForgetsOldest(t, v)
<1> DEFINE t == ToFront(s, i, e)
           v == [u EXCEPT ![e.key] = now + 1]
<1>1. /\ DOMAIN s = 1..Len(s) /\ Len(s) \in Nat /\ Capacity \in Nat
      /\ \A j \in DOMAIN s : s[j].key \in Keys
      /\ e.key \in Keys
  BY CapacityPositive
<1>2. /\ DOMAIN t = 1..Len(t) /\ Len(t) \in Nat
      /\ Len(t) = IF i > Len(s) THEN i ELSE Len(s)
      /\ 1 \in DOMAIN t /\ t[1] = e
      /\ \A j \in DOMAIN t : j # 1 =>
            From(i, j) \in DOMAIN s /\ From(i, j) # i /\ t[j] = s[From(i, j)]
      /\ \A n \in DOMAIN s : n # i => To(i, n) \in DOMAIN t /\ t[To(i, n)] = s[n]
  BY ONLY ToFrontMoves, s \in Seq(E), e \in E, i \in 1..(Len(s) + 1)
<1>3. /\ v[e.key] = now + 1
      /\ \A k \in Keys : k # e.key => v[k] = u[k]
  BY <1>1
<1> HIDE DEF t, v
<1>4. ASSUME NEW j \in DOMAIN t, j # 1
      PROVE  /\ From(i, j) \in DOMAIN s /\ From(i, j) # i
             /\ v[t[j].key] = u[s[From(i, j)].key]
             /\ v[t[j].key] \in Nat /\ v[t[j].key] <= now
  <2>1. From(i, j) \in DOMAIN s /\ From(i, j) # i /\ t[j] = s[From(i, j)]
    BY <1>2, <1>4
  <2>2. t[j].key \in Keys /\ t[j].key # e.key
    BY <2>1, <1>1
  <2>3. v[t[j].key] = u[t[j].key]
    BY <2>2, <1>3
  <2>4. u[t[j].key] \in Nat /\ u[t[j].key] <= now
    BY <2>2
  <2> QED BY <2>1, <2>3, <2>4
<1>5. InUseOrder(t, v)
  <2> SUFFICES ASSUME NEW j \in DOMAIN t, NEW m \in DOMAIN t, j < m
               PROVE  v[t[j].key] > v[t[m].key]
    BY DEF InUseOrder
  <2>1. m # 1 /\ j \in Nat /\ m \in Nat /\ j >= 1
    BY <1>2
  <2>2. CASE j = 1
    BY <2>1, <2>2, <1>2, <1>3, <1>4
  <2>3. CASE j # 1
    <3>1. From(i, j) < From(i, m)
      BY <2>1 DEF From
    <3>2. u[s[From(i, j)].key] > u[s[From(i, m)].key]
      BY <2>1, <2>3, <3>1, <1>4 DEF InUseOrder
    <3> QED BY <2>1, <2>3, <3>2, <1>4
  <2> QED BY <2>2, <2>3
<1>6. ForgetsOldest(t, v)
  <2> SUFFICES ASSUME NEW k \in Keys, v[k] > 0, ~Holds(t, k)
               PROVE  /\ Len(t) = Capacity
                      /\ \A m \in DOMAIN t : v[k] < v[t[m].key]
    BY DEF ForgetsOldest
  <2>1. k # e.key
    BY <1>2 DEF Holds
  <2>2. v[k] = u[k] /\ u[k] \in Nat /\ u[k] <= now /\ u[k] > 0
    BY <2>1, <1>3
  <2>3. \A n \in DOMAIN s : n # i => s[n].key # k
    BY <1>2 DEF Holds
  <2>4. /\ Len(s) = Capacity
        /\ \A n \in DOMAIN s : n # i => u[k] < u[s[n].key]
    <3>1. CASE ~Holds(s, k)
      BY <3>1, <2>2 DEF ForgetsOldest
    <3>2. CASE Holds(s, k)
      <4>1. i \in DOMAIN s /\ s[i].key = k
        BY <3>2, <2>3 DEF Holds
      <4>2. i = Len(s) /\ i = Capacity
        BY <4>1, <2>1
      <4>3. \A n \in DOMAIN s : n # i => n < i
        BY <4>2, <1>1
      <4> QED BY <4>1, <4>2, <4>3 DEF InUseOrder
    <3> QED BY <3>1, <3>2
  <2>5. Len(t) = Capacity
    BY <2>4, <1>1, <1>2
  <2>6. ASSUME NEW m \in DOMAIN t PROVE v[k] < v[t[m].key]
    <3>1. CASE m = 1
      BY <3>1, <2>2, <1>2, <1>3
    <3>2. CASE m # 1
      BY <3>2, <2>2, <2>4, <1>4
    <3> QED BY <3>1, <3>2
  <2> QED BY <2>5, <2>6
<1> QED BY <1>5, <1>6 DEF t, v

-----------------------------------------------------------------------------
\* The invariant gives a use of the list the facts the lemmas ask for.
LEMMA ListFacts ==
    ASSUME IInv
    PROVE  /\ lru \in Seq([key : Keys, crate : Crates])
           /\ Len(lru) <= Capacity /\ DistinctKeys(lru)
           /\ used \in [Keys -> Nat] /\ clock \in Nat
           /\ \A k \in Keys : used[k] <= clock
           /\ InUseOrder(lru, used) /\ ForgetsOldest(lru, used)
BY MaxUsesAssumption DEF IInv, TypeOK, WellFormed, KeepsMostRecent, DatesPast

\* A use of k whose entry takes the front from slot i preserves the invariant.
LEMMA UseIInv ==
    ASSUME IInv, NEW k \in Keys, NEW e \in [key : Keys, crate : Crates],
           e.key = k,
           NEW i \in 1..(Len(lru) + 1), i <= Capacity,
           \A j \in DOMAIN lru : j # i => lru[j].key # k,
           i \in DOMAIN lru /\ lru[i].key # k => i = Len(lru) /\ i = Capacity,
           lru' = ToFront(lru, i, e), Use(k),
           lru' \in Seq([key : Keys, crate : Crates]),
           Len(lru') <= Capacity, DistinctKeys(lru'),
           answered' \in Crates \cup {NoCrate}
    PROVE  IInv'
<1>1. /\ clock' = clock + 1 /\ clock' \in 0..MaxUses
      /\ used' = [used EXCEPT ![k] = clock + 1]
  BY MaxUsesAssumption, ListFacts DEF Use, IInv, TypeOK
<1>2. TypeOK'
  BY <1>1, ListFacts DEF TypeOK, IInv
<1>3. WellFormed'
  BY DEF WellFormed
<1>4. DatesPast'
  BY <1>1, ListFacts DEF DatesPast
<1>5. InUseOrder(lru', used') /\ ForgetsOldest(lru', used')
  <2>1. \A x \in [key : Keys, crate : Crates] : x.key \in Keys
    OBVIOUS
  <2>2. used' = [used EXCEPT ![e.key] = clock + 1]
    BY <1>1
  <2> QED BY <2>1, <2>2, ListFacts, FrontKeepsOrder
<1> QED BY <1>2, <1>3, <1>4, <1>5 DEF IInv, KeepsMostRecent

LEMMA GetHitIInv == ASSUME IInv, NEW k \in Keys, GetHit(k) PROVE IInv'
<1> DEFINE i == Slot(lru, k)
           e == lru[Slot(lru, k)]
<1>1. /\ Holds(lru, k) /\ lru' = Promote(lru, k) /\ Use(k)
      /\ answered' = Value(lru, k)
  BY DEF GetHit
<1>2. i \in DOMAIN lru /\ lru[i].key = k /\ e.key = k /\ e \in [key : Keys, crate : Crates]
  <2>1. i \in DOMAIN lru /\ e.key = k
    BY <1>1, SlotFinds
  <2>2. e \in [key : Keys, crate : Crates]
    BY <1>1, ListFacts, SlotEntry
  <2> QED BY <2>1, <2>2
<1>3. i \in 1..(Len(lru) + 1) /\ i <= Capacity
  BY <1>2, ListFacts, CapacityPositive
<1>4. \A j \in DOMAIN lru : j # i => lru[j].key # k
  BY <1>2, ListFacts DEF DistinctKeys
<1>5. /\ lru' \in Seq([key : Keys, crate : Crates])
      /\ Len(lru') <= Capacity /\ DistinctKeys(lru')
  BY <1>1, ListFacts, PromoteKeeps
<1>6. lru' = ToFront(lru, i, e)
  BY <1>1 DEF Promote
<1>7. answered' \in Crates \cup {NoCrate}
  BY <1>1, <1>2 DEF Value
<1> HIDE DEF i, e
<1> QED BY <1>1, <1>2, <1>3, <1>4, <1>5, <1>6, <1>7, UseIInv

LEMMA PutIInv == ASSUME IInv, NEW k \in Keys, NEW c \in Crates, Put(k, c) PROVE IInv'
<1> DEFINE i == PutSlot(lru, k)
           e == Entry(k, c)
<1>1. lru' = Insert(lru, k, c) /\ Use(k) /\ answered' = answered
  BY DEF Put
<1>2. e \in [key : Keys, crate : Crates] /\ e.key = k
  BY DEF Entry
<1>3. /\ i \in 1..(Len(lru) + 1) /\ i <= Capacity
      /\ \A j \in DOMAIN lru : j # i => lru[j].key # k
  BY ListFacts, PutSlotInRange
<1>4. i \in DOMAIN lru /\ lru[i].key # k => i = Len(lru) /\ i = Capacity
  BY ListFacts, PutSlotInRange
<1>5. /\ lru' \in Seq([key : Keys, crate : Crates])
      /\ Len(lru') <= Capacity /\ DistinctKeys(lru')
  BY <1>1, <1>2, ListFacts, InsertStores
<1>6. lru' = ToFront(lru, i, e)
  BY <1>1 DEF Insert
<1>7. answered' \in Crates \cup {NoCrate}
  BY <1>1 DEF IInv, TypeOK
<1> HIDE DEF i, e
<1> QED BY <1>1, <1>2, <1>3, <1>4, <1>5, <1>6, <1>7, UseIInv

LEMMA NextIInv == IInv /\ [Next]_vars => IInv'
<1> SUFFICES ASSUME IInv, [Next]_vars PROVE IInv'
  OBVIOUS
<1>1. ASSUME NEW k \in Keys, GetHit(k) PROVE IInv'
  BY <1>1, GetHitIInv
<1>2. ASSUME NEW k \in Keys, GetMiss(k) PROVE IInv'
  BY <1>2 DEF GetMiss, IInv, TypeOK, WellFormed, KeepsMostRecent, DatesPast
<1>3. ASSUME NEW k \in Keys, NEW c \in Crates, Put(k, c) PROVE IInv'
  BY <1>3, PutIInv
<1>4. CASE UNCHANGED vars
  BY <1>4 DEF vars, IInv, TypeOK, WellFormed, KeepsMostRecent, DatesPast
<1> QED BY <1>1, <1>2, <1>3, <1>4 DEF Next

\* Type, shape and eviction order, for every capacity and any calls.
THEOREM Invariance == Spec => []IInv
BY InitIInv, NextIInv, PTL DEF Spec

\* TypeOK: the list only ever holds entries of known keys and crates.
THEOREM AlwaysTyped == Spec => []TypeOK
<1>1. IInv => TypeOK
  BY DEF IInv
<1> QED BY <1>1, Invariance, PTL

\* The list is never longer than its capacity and has one entry per key.
THEOREM AlwaysWellFormed == Spec => []WellFormed
<1>1. IInv => WellFormed
  BY DEF IInv
<1> QED BY <1>1, Invariance, PTL

\* What is evicted is always the least recently used.
THEOREM AlwaysKeepsMostRecent == Spec => []KeepsMostRecent
<1>1. IInv => KeepsMostRecent
  BY DEF IInv
<1> QED BY <1>1, Invariance, PTL

-----------------------------------------------------------------------------
(* InMemoryCache implements BoundedCache                                   *)

Held == {k \in Keys : Holds(lru, k)}

\* There are as many keys with a crate as there are entries in the list.
LEMMA HeldCount == ASSUME IInv PROVE Cardinality(Held) = Len(lru)
<1> DEFINE f == [i \in 1..Len(lru) |-> lru[i].key]
<1>1. lru \in Seq([key : Keys, crate : Crates]) /\ Len(lru) \in Nat /\ DistinctKeys(lru)
  BY ListFacts
<1>2. \A i \in 1..Len(lru) : i \in DOMAIN lru /\ lru[i].key \in Keys
  <2> TAKE i \in 1..Len(lru)
  <2>1. i \in DOMAIN lru /\ lru[i] \in [key : Keys, crate : Crates]
    BY <1>1, EntryAt
  <2> QED BY <2>1
<1>3. \A i \in 1..Len(lru) : f[i] \in Held
  BY <1>2 DEF Held, Holds
<1>4. \A i, j \in 1..Len(lru) : f[i] = f[j] => i = j
  BY <1>1, <1>2 DEF DistinctKeys
<1>5. \A k \in Held : \E i \in 1..Len(lru) : f[i] = k
  BY <1>1 DEF Held, Holds
<1>6. f \in Bijection(1..Len(lru), Held)
  BY <1>3, <1>4, <1>5, Fun_IsBij
<1>7. ExistsBijection(1..Len(lru), Held)
  BY <1>6, Fun_ExistsBij
<1>8. IsFiniteSet(1..Len(lru)) /\ Cardinality(1..Len(lru)) = Len(lru)
  BY <1>1, FS_Interval
<1> QED BY <1>7, <1>8, FS_Bijection

LEMMA ValueIsCrate == ASSUME IInv, NEW k, Holds(lru, k) PROVE Value(lru, k) \in Crates
<1>1. lru[Slot(lru, k)] \in [key : Keys, crate : Crates]
  BY ListFacts, SlotEntry
<1> QED BY <1>1 DEF Value

LEMMA LiveIsHeld ==
    ASSUME IInv
    PROVE  Abstract!Live = Held /\ Abstract!Cardinality(Abstract!Live) = Len(lru)
<1>1. Abstract!Live = Held
  BY ValueIsCrate, NoCrateAssumption DEF Abstract!Live, Content, Held
<1>2. Abstract!Cardinality(Held) = Cardinality(Held)
  BY DEF Abstract!Cardinality, Cardinality
<1> QED BY <1>1, <1>2, HeldCount

\* A hit is a get of a key that has a crate.
LEMMA GetHitMaps == ASSUME IInv, NEW k \in Keys, GetHit(k) PROVE Abstract!Get(k)
<1>1. Holds(lru, k) /\ lru' = Promote(lru, k) /\ answered' = Value(lru, k) /\ Use(k)
  BY DEF GetHit
<1>2. \A j : /\ Holds(lru', j) <=> Holds(lru, j)
             /\ Holds(lru, j) => Value(lru', j) = Value(lru, j)
  BY <1>1, ListFacts, PromoteKeeps
<1>3. Content' = Content
  BY <1>2 DEF Content
<1>4. answered' = Content[k] /\ Content[k] # NoCrate
  BY <1>1, ValueIsCrate, NoCrateAssumption DEF Content
<1>5. Abstract!Use(k)
  BY <1>1 DEF Use, Abstract!Use
<1> QED BY <1>3, <1>4, <1>5 DEF Abstract!Get

\* A miss is a get of a key that has none.
LEMMA GetMissMaps == ASSUME IInv, NEW k \in Keys, GetMiss(k) PROVE Abstract!Get(k)
<1>1. answered' = Content[k] /\ Content[k] = NoCrate
  BY DEF GetMiss, Content
<1>2. Content' = Content /\ UNCHANGED <<used, clock>>
  BY DEF GetMiss, Content
<1> QED BY <1>1, <1>2 DEF Abstract!Get

\* A put keeps every other key, or forgets the least recently used one to
\* make room in a full cache.
LEMMA PutMaps ==
    ASSUME IInv, NEW k \in Keys, NEW c \in Crates, Put(k, c)
    PROVE  Abstract!Put(k, c)
<1> DEFINE i == PutSlot(lru, k)
<1>1. lru' = Insert(lru, k, c) /\ Abstract!Use(k) /\ UNCHANGED answered
  BY DEF Put, Use, Abstract!Use
<1>2. /\ Holds(lru', k) /\ Value(lru', k) = c
      /\ \A j : j # k =>
            /\ Holds(lru', j) <=> Holds(lru, j) /\ ~(i \in DOMAIN lru /\ lru[i].key = j)
            /\ Holds(lru', j) => Value(lru', j) = Value(lru, j)
  <2> DEFINE t == Insert(lru, k, c)
             E == [key : Keys, crate : Crates]
  <2>1. Entry(k, c) \in E
    BY DEF Entry
  <2>2. lru \in Seq(E) /\ DistinctKeys(lru) /\ Len(lru) <= Capacity
    BY ListFacts
  <2> HIDE DEF E
  <2>3. /\ Holds(t, k) /\ Value(t, k) = c
        /\ \A j : j # k =>
              /\ Holds(t, j) <=> Holds(lru, j) /\ ~(i \in DOMAIN lru /\ lru[i].key = j)
              /\ Holds(t, j) => Value(t, j) = Value(lru, j)
    BY <2>1, <2>2, InsertStores
  <2> QED BY <1>1, <2>3
<1>3. Abstract!Live = Held /\ Abstract!Cardinality(Abstract!Live) = Len(lru)
  BY LiveIsHeld
<1>4. Len(lru) \in Nat /\ Len(lru) <= Capacity /\ Capacity \in Nat /\ Capacity > 0
  BY ListFacts, CapacityPositive
<1>5. CASE Holds(lru, k)
  <2>1. i \in DOMAIN lru /\ lru[i].key = k
    BY <1>5, SlotFinds DEF PutSlot
  <2>2. Content' = [Content EXCEPT ![k] = c]
    BY <1>2, <2>1 DEF Content
  <2>3. k \in Abstract!Live
    BY <1>3, <1>5 DEF Held
  <2> QED BY <1>1, <2>2, <2>3 DEF Abstract!Put
<1>6. CASE ~Holds(lru, k) /\ Len(lru) < Capacity
  <2>1. i = Len(lru) + 1
    BY <1>6 DEF PutSlot
  <2>2. i \notin DOMAIN lru
    BY <2>1, <1>4, ListFacts
  <2>3. Content' = [Content EXCEPT ![k] = c]
    BY <1>2, <2>2 DEF Content
  <2> QED BY <1>1, <1>3, <1>6, <2>3 DEF Abstract!Put
<1>7. CASE ~Holds(lru, k) /\ Len(lru) = Capacity
  <2> DEFINE oldest == lru[Len(lru)].key
  <2>1. i = Len(lru)
    BY <1>7, <1>4 DEF PutSlot
  <2>2. i \in DOMAIN lru /\ lru[i].key = oldest
    BY <2>1, <1>4, <1>7, ListFacts
  <2>3. oldest \in Keys /\ oldest \in Held /\ oldest # k
    <3>1. i \in 1..Len(lru)
      BY <2>1, <1>4, <1>7
    <3>2. lru[i] \in [key : Keys, crate : Crates]
      BY <3>1, ListFacts, EntryAt
    <3>3. Holds(lru, oldest)
      BY <2>2 DEF Holds
    <3> QED BY <2>2, <3>2, <3>3, <1>7 DEF Held
  <2>4. \A j \in Held : used[oldest] <= used[j]
    <3> SUFFICES ASSUME NEW j \in Held PROVE used[oldest] <= used[j]
      OBVIOUS
    <3>1. PICK n \in DOMAIN lru : lru[n].key = j
      BY DEF Held, Holds
    <3>2. used[oldest] \in Nat /\ used[j] \in Nat
      BY <2>3, ListFacts DEF Held
    <3>3. CASE n = i
      BY <2>2, <3>1, <3>2, <3>3
    <3>4. CASE n # i
      <4>1. n < i
        BY <3>1, <3>4, <2>1, ListFacts
      <4>2. used[lru[n].key] > used[lru[i].key]
        BY <4>1, <2>2, ListFacts DEF InUseOrder
      <4> QED BY <4>2, <2>2, <3>1, <3>2
    <3> QED BY <3>3, <3>4
  <2>5. Content' = [Content EXCEPT ![k] = c, ![oldest] = NoCrate]
    BY <1>2, <2>2, <2>3 DEF Content
  <2>6. k \notin Abstract!Live /\ Abstract!Cardinality(Abstract!Live) = Capacity
    BY <1>3, <1>7 DEF Held
  <2> HIDE DEF oldest
  <2> QED BY <1>1, <1>3, <2>3, <2>4, <2>5, <2>6 DEF Abstract!Put
<1> QED BY <1>4, <1>5, <1>6, <1>7

LEMMA StepMaps == IInv /\ [Next]_vars => [Abstract!Next]_(Abstract!vars)
<1> SUFFICES ASSUME IInv, [Next]_vars PROVE [Abstract!Next]_(Abstract!vars)
  OBVIOUS
<1>1. ASSUME NEW k \in Keys, GetHit(k) PROVE Abstract!Next
  BY <1>1, GetHitMaps DEF Abstract!Next
<1>2. ASSUME NEW k \in Keys, GetMiss(k) PROVE Abstract!Next
  BY <1>2, GetMissMaps DEF Abstract!Next
<1>3. ASSUME NEW k \in Keys, NEW c \in Crates, Put(k, c) PROVE Abstract!Next
  BY <1>3, PutMaps DEF Abstract!Next
<1>4. CASE UNCHANGED vars
  BY <1>4 DEF vars, Abstract!vars, Content
<1> QED BY <1>1, <1>2, <1>3, <1>4 DEF Next

\* The list implements the bounded map that forgets the least recently used
\* key, for every capacity (0 counting as 1).
THEOREM Refinement == Spec => IsBoundedCache
<1>1. Init => Abstract!Init
  <2> SUFFICES ASSUME Init PROVE Abstract!Init
    OBVIOUS
  <2>1. \A k \in Keys : ~Holds(lru, k)
    BY DEF Init, Holds
  <2> QED BY <2>1 DEF Init, Abstract!Init, Content
<1> QED BY <1>1, StepMaps, Invariance, PTL DEF Spec, IsBoundedCache, Abstract!Spec
=============================================================================
