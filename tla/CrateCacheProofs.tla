-------------------------- MODULE CrateCacheProofs --------------------------
(***************************************************************************)
(* What the operators of CrateCache return, for lists over any sets of     *)
(* keys and crates.                                                        *)
(***************************************************************************)
EXTENDS CrateCache, TLAPS

LEMMA CapacityPositive == Capacity \in Nat \ {0}
BY CapacityAssumption DEF Capacity

\* Slot finds the entry of a key that is held.
LEMMA SlotFinds ==
    ASSUME NEW s, NEW k, Holds(s, k)
    PROVE  Slot(s, k) \in DOMAIN s /\ s[Slot(s, k)].key = k
BY DEF Holds, Slot

LEMMA EntryAt ==
    ASSUME NEW E, NEW s \in Seq(E), NEW i \in 1..Len(s)
    PROVE  i \in DOMAIN s /\ s[i] \in E
OBVIOUS

LEMMA SlotEntry ==
    ASSUME NEW E, NEW s \in Seq(E), NEW k, Holds(s, k)
    PROVE  Slot(s, k) \in 1..Len(s) /\ s[Slot(s, k)] \in E
<1>1. Slot(s, k) \in 1..Len(s)
  BY SlotFinds
<1> QED BY <1>1

\* Where no key has two entries, Slot finds the only one.
LEMMA SlotUnique ==
    ASSUME NEW s, DistinctKeys(s), NEW i \in DOMAIN s
    PROVE  /\ Holds(s, s[i].key)
           /\ Slot(s, s[i].key) = i
           /\ Value(s, s[i].key) = s[i].crate
<1>1. Holds(s, s[i].key)
  BY DEF Holds
<1>2. Slot(s, s[i].key) = i
  BY <1>1, SlotFinds DEF DistinctKeys
<1> QED BY <1>1, <1>2 DEF Value

\* The shape of ToFront: a list with e first, what was before slot i one
\* place further back and what was after it where it was.
LEMMA ToFrontShape ==
    ASSUME NEW E, NEW s \in Seq(E), NEW e \in E, NEW i \in 1..(Len(s) + 1)
    PROVE  LET t == ToFront(s, i, e) IN
           /\ t \in Seq(E)
           /\ Len(t) = IF i > Len(s) THEN i ELSE Len(s)
           /\ DOMAIN t = 1..Len(t)
           /\ \A j \in 1..Len(t) :
                 t[j] = IF j = 1 THEN e ELSE IF j <= i THEN s[j - 1] ELSE s[j]
<1> DEFINE n == IF i > Len(s) THEN i ELSE Len(s)
           t == ToFront(s, i, e)
<1>1. n \in Nat /\ Len(s) \in Nat /\ DOMAIN s = 1..Len(s)
  OBVIOUS
<1>2. t = [j \in 1..n |-> IF j = 1 THEN e ELSE IF j <= i THEN s[j - 1] ELSE s[j]]
  BY DEF ToFront
<1>3. \A j \in 1..n : (IF j = 1 THEN e ELSE IF j <= i THEN s[j - 1] ELSE s[j]) \in E
  <2> TAKE j \in 1..n
  <2>1. CASE j = 1
    BY <2>1
  <2>2. CASE j # 1 /\ j <= i
    BY <2>2, <1>1
  <2>3. CASE j # 1 /\ ~(j <= i)
    BY <2>3, <1>1
  <2> QED BY <2>1, <2>2, <2>3
<1>4. t \in Seq(E) /\ Len(t) = n
  BY <1>1, <1>2, <1>3
<1> QED BY <1>1, <1>2, <1>4

\* Where place j > 1 of the new list comes from, and where place n of the old
\* one goes.
From(i, j) == IF j <= i THEN j - 1 ELSE j
To(i, n) == IF n < i THEN n + 1 ELSE n

\* Every entry but slot i's has one place in the new list, behind the front,
\* in the same order.
LEMMA ToFrontMoves ==
    ASSUME NEW E, NEW s \in Seq(E), NEW e \in E, NEW i \in 1..(Len(s) + 1)
    PROVE  LET t == ToFront(s, i, e) IN
           /\ DOMAIN t = 1..Len(t) /\ Len(t) \in Nat
           /\ Len(t) = IF i > Len(s) THEN i ELSE Len(s)
           /\ 1 \in DOMAIN t /\ t[1] = e
           /\ \A j \in DOMAIN t : j # 1 =>
                 From(i, j) \in DOMAIN s /\ From(i, j) # i /\ t[j] = s[From(i, j)]
           /\ \A n \in DOMAIN s : n # i =>
                 To(i, n) \in DOMAIN t /\ t[To(i, n)] = s[n]
<1> DEFINE t == ToFront(s, i, e)
<1>1. DOMAIN s = 1..Len(s) /\ Len(s) \in Nat
  OBVIOUS
<1>2. /\ Len(t) = IF i > Len(s) THEN i ELSE Len(s)
      /\ DOMAIN t = 1..Len(t)
      /\ \A j \in 1..Len(t) :
            t[j] = IF j = 1 THEN e ELSE IF j <= i THEN s[j - 1] ELSE s[j]
  BY ToFrontShape
<1> HIDE DEF t
<1>3. Len(t) \in Nat /\ 1 \in DOMAIN t /\ t[1] = e
  BY <1>1, <1>2
<1>4. \A j \in DOMAIN t : j # 1 =>
          From(i, j) \in DOMAIN s /\ From(i, j) # i /\ t[j] = s[From(i, j)]
  BY <1>1, <1>2 DEF From
<1>5. \A n \in DOMAIN s : n # i => To(i, n) \in DOMAIN t /\ t[To(i, n)] = s[n]
  BY <1>1, <1>2 DEF To
<1> QED BY <1>2, <1>3, <1>4, <1>5 DEF t

\* The entry that takes the front replaces the one of its key, or a key that
\* has none: no key ends up with two.
LEMMA ToFrontDistinct ==
    ASSUME NEW E, NEW s \in Seq(E), NEW e \in E, NEW i \in 1..(Len(s) + 1),
           DistinctKeys(s),
           \A j \in DOMAIN s : j # i => s[j].key # e.key
    PROVE  DistinctKeys(ToFront(s, i, e))
<1> DEFINE t == ToFront(s, i, e)
<1>1. /\ DOMAIN t = 1..Len(t) /\ Len(t) \in Nat /\ t[1] = e
      /\ \A j \in DOMAIN t : j # 1 =>
            From(i, j) \in DOMAIN s /\ From(i, j) # i /\ t[j] = s[From(i, j)]
  BY ToFrontMoves
<1> HIDE DEF t
<1>2. \A j \in DOMAIN t : j # 1 => t[j].key # e.key
  BY <1>1
<1>3. ASSUME NEW j \in DOMAIN t, NEW m \in DOMAIN t, j # 1, m # 1, t[j].key = t[m].key
      PROVE  j = m
  <2>1. From(i, j) = From(i, m)
    BY <1>1, <1>3 DEF DistinctKeys
  <2> QED BY <2>1, <1>1 DEF From
<1>4. DistinctKeys(t)
  BY <1>1, <1>2, <1>3 DEF DistinctKeys
<1> QED BY <1>4 DEF t

\* What ToFront does to the map: e's key has e's crate, the key of slot i is
\* gone unless it is e's, every other key keeps what it had.
LEMMA ToFrontMap ==
    ASSUME NEW E, NEW s \in Seq(E), NEW e \in E, NEW i \in 1..(Len(s) + 1),
           DistinctKeys(s),
           \A j \in DOMAIN s : j # i => s[j].key # e.key
    PROVE  LET t == ToFront(s, i, e) IN
           /\ Holds(t, e.key) /\ Value(t, e.key) = e.crate
           /\ \A k : k # e.key =>
                 /\ Holds(t, k) <=> Holds(s, k) /\ ~(i \in DOMAIN s /\ s[i].key = k)
                 /\ Holds(t, k) => Value(t, k) = Value(s, k)
<1> DEFINE t == ToFront(s, i, e)
<1>1. /\ 1 \in DOMAIN t /\ t[1] = e
      /\ \A j \in DOMAIN t : j # 1 =>
            From(i, j) \in DOMAIN s /\ From(i, j) # i /\ t[j] = s[From(i, j)]
      /\ \A n \in DOMAIN s : n # i => To(i, n) \in DOMAIN t /\ t[To(i, n)] = s[n]
  BY ToFrontMoves
<1>2. DistinctKeys(t)
  BY ToFrontDistinct
<1> HIDE DEF t
<1>3. Holds(t, e.key) /\ Value(t, e.key) = e.crate
  BY <1>1, <1>2, SlotUnique
<1>4. ASSUME NEW k, k # e.key
      PROVE  /\ Holds(t, k) <=> Holds(s, k) /\ ~(i \in DOMAIN s /\ s[i].key = k)
             /\ Holds(t, k) => Value(t, k) = Value(s, k)
  <2>1. ASSUME NEW j \in DOMAIN t, t[j].key = k
        PROVE  /\ Holds(s, k) /\ ~(i \in DOMAIN s /\ s[i].key = k)
               /\ Value(t, k) = Value(s, k)
    <3> DEFINE m == From(i, j)
    <3>1. m \in DOMAIN s /\ m # i /\ t[j] = s[m]
      BY <1>1, <1>4, <2>1
    <3>2. Holds(s, k) /\ Value(s, k) = s[m].crate
      BY <2>1, <3>1, SlotUnique
    <3>3. Value(t, k) = t[j].crate
      BY <2>1, <1>2, SlotUnique
    <3>4. ~(i \in DOMAIN s /\ s[i].key = k)
      BY <2>1, <3>1 DEF DistinctKeys
    <3> QED BY <3>1, <3>2, <3>3, <3>4
  <2>2. ASSUME NEW n \in DOMAIN s, s[n].key = k, n # i
        PROVE  Holds(t, k)
    BY <1>1, <2>2 DEF Holds
  <2> QED BY <2>1, <2>2 DEF Holds
<1> QED BY <1>3, <1>4 DEF t

-----------------------------------------------------------------------------
\* A hit changes the order and nothing else.
LEMMA PromoteKeeps ==
    ASSUME NEW E, NEW s \in Seq(E), NEW k, Holds(s, k), DistinctKeys(s)
    PROVE  LET t == Promote(s, k) IN
           /\ t \in Seq(E)
           /\ Len(t) = Len(s)
           /\ DistinctKeys(t)
           /\ \A j : Holds(t, j) <=> Holds(s, j)
           /\ \A j : Holds(s, j) => Value(t, j) = Value(s, j)
<1> DEFINE i == Slot(s, k)
           e == s[Slot(s, k)]
<1>1. /\ i \in DOMAIN s /\ e.key = k /\ e \in E
      /\ i \in 1..(Len(s) + 1) /\ i \in 1..Len(s)
  BY SlotFinds
<1>2. \A j \in DOMAIN s : j # i => s[j].key # e.key
  BY <1>1 DEF DistinctKeys
<1>3. Value(s, k) = e.crate
  BY DEF Value
<1> HIDE DEF i, e
<1>4. Promote(s, k) = ToFront(s, i, e)
  BY DEF Promote, i, e
<1>5. /\ ToFront(s, i, e) \in Seq(E)
      /\ Len(ToFront(s, i, e)) = IF i > Len(s) THEN i ELSE Len(s)
  BY <1>1, ToFrontShape
<1>6. DistinctKeys(ToFront(s, i, e))
  BY <1>1, <1>2, ToFrontDistinct
<1>7. /\ Holds(ToFront(s, i, e), e.key) /\ Value(ToFront(s, i, e), e.key) = e.crate
      /\ \A j : j # e.key =>
            /\ Holds(ToFront(s, i, e), j)
                  <=> Holds(s, j) /\ ~(i \in DOMAIN s /\ s[i].key = j)
            /\ Holds(ToFront(s, i, e), j) => Value(ToFront(s, i, e), j) = Value(s, j)
  BY <1>1, <1>2, ToFrontMap
<1>8. ASSUME NEW j
      PROVE  /\ Holds(ToFront(s, i, e), j) <=> Holds(s, j)
             /\ Holds(s, j) => Value(ToFront(s, i, e), j) = Value(s, j)
  <2>1. CASE j = k
    BY <2>1, <1>1, <1>3, <1>7
  <2>2. CASE j # k
    <3>1. ~(i \in DOMAIN s /\ s[i].key = j)
      BY <2>2, <1>1, SlotFinds DEF i
    <3> QED BY <2>2, <3>1, <1>1, <1>7
  <2> QED BY <2>1, <2>2
<1>9. Len(ToFront(s, i, e)) = Len(s)
  BY <1>1, <1>5
<1> QED BY <1>4, <1>5, <1>6, <1>8, <1>9

\* The slot a put gives up is in range and holds no key but its own or, in a
\* full list, the last one.
LEMMA PutSlotInRange ==
    ASSUME NEW E, NEW s \in Seq(E), NEW k, DistinctKeys(s), Len(s) <= Capacity
    PROVE  /\ PutSlot(s, k) \in 1..(Len(s) + 1)
           /\ PutSlot(s, k) <= Capacity
           /\ \A j \in DOMAIN s : j # PutSlot(s, k) => s[j].key # k
           /\ PutSlot(s, k) \in DOMAIN s /\ s[PutSlot(s, k)].key # k
              => PutSlot(s, k) = Len(s) /\ PutSlot(s, k) = Capacity
<1>1. Len(s) \in Nat /\ Capacity \in Nat /\ Capacity > 0
  BY CapacityPositive
<1>2. CASE Holds(s, k)
  <2>1. PutSlot(s, k) \in DOMAIN s /\ s[PutSlot(s, k)].key = k
    BY <1>2, SlotFinds DEF PutSlot
  <2>2. \A j \in DOMAIN s : j # PutSlot(s, k) => s[j].key # k
    BY <2>1 DEF DistinctKeys
  <2> QED BY <1>1, <2>1, <2>2
<1>3. CASE ~Holds(s, k)
  <2>1. PutSlot(s, k) = IF Len(s) < Capacity THEN Len(s) + 1 ELSE Len(s)
    BY <1>3 DEF PutSlot
  <2>2. \A j \in DOMAIN s : s[j].key # k
    BY <1>3 DEF Holds
  <2> DEFINE p == PutSlot(s, k)
  <2> HIDE DEF p
  <2>3. p = IF Len(s) < Capacity THEN Len(s) + 1 ELSE Len(s)
    BY <2>1 DEF p
  <2>4. Len(s) < Capacity \/ Len(s) = Capacity
    BY <1>1
  <2>5. p \in 1..(Len(s) + 1) /\ p <= Capacity
    BY <1>1, <2>3, <2>4
  <2>6. p \in DOMAIN s => p = Len(s) /\ p = Capacity
    BY <1>1, <2>3, <2>4
  <2> QED BY <2>2, <2>5, <2>6 DEF p
<1> QED BY <1>2, <1>3

\* A put keeps the list well formed, makes its key's crate the new one, and
\* at most forgets one other key.
LEMMA InsertStores ==
    ASSUME NEW E, NEW s \in Seq(E), NEW k, NEW c, Entry(k, c) \in E,
           DistinctKeys(s), Len(s) <= Capacity
    PROVE  LET t == Insert(s, k, c) IN
           /\ t \in Seq(E)
           /\ Len(t) <= Capacity
           /\ DistinctKeys(t)
           /\ Holds(t, k) /\ Value(t, k) = c
           /\ \A j : j # k =>
                 /\ Holds(t, j) <=> Holds(s, j)
                        /\ ~(PutSlot(s, k) \in DOMAIN s /\ s[PutSlot(s, k)].key = j)
                 /\ Holds(t, j) => Value(t, j) = Value(s, j)
<1> DEFINE i == PutSlot(s, k)
           e == Entry(k, c)
<1>1. /\ i \in 1..(Len(s) + 1) /\ i <= Capacity
      /\ \A j \in DOMAIN s : j # i => s[j].key # k
  BY PutSlotInRange
<1>2. e \in E /\ e.key = k /\ e.crate = c
  BY DEF Entry
<1>3. Insert(s, k, c) = ToFront(s, i, e)
  BY DEF Insert
<1> HIDE DEF i, e
<1>4. /\ ToFront(s, i, e) \in Seq(E)
      /\ Len(ToFront(s, i, e)) = IF i > Len(s) THEN i ELSE Len(s)
  BY <1>1, <1>2, ToFrontShape
<1>5. DistinctKeys(ToFront(s, i, e))
  BY <1>1, <1>2, ToFrontDistinct
<1>6. /\ Holds(ToFront(s, i, e), e.key) /\ Value(ToFront(s, i, e), e.key) = e.crate
      /\ \A j : j # e.key =>
            /\ Holds(ToFront(s, i, e), j)
                  <=> Holds(s, j) /\ ~(i \in DOMAIN s /\ s[i].key = j)
            /\ Holds(ToFront(s, i, e), j) => Value(ToFront(s, i, e), j) = Value(s, j)
  BY <1>1, <1>2, ToFrontMap
<1>7. Len(ToFront(s, i, e)) <= Capacity
  BY <1>1, <1>4
<1>8. i = PutSlot(s, k)
  BY DEF i
<1> QED BY <1>2, <1>3, <1>4, <1>5, <1>6, <1>7, <1>8
=============================================================================
