------------------------- MODULE CrateServerProofs --------------------------
(***************************************************************************)
(* The server's safety, for any requests, keys, capacity and pool size:    *)
(* its invariants, what a step may do to a cached release, and that it     *)
(* implements CrateService.                                                *)
(***************************************************************************)
EXTENDS CrateServer, CrateCacheProofs, FiniteSetTheorems

PoolInv == IsFiniteSet(Running) /\ PoolBounded

IInv == /\ TypeOK /\ Control
        /\ CacheWellFormed /\ Provenance /\ FreshAfterMiss
        /\ QueueSound /\ PoolInv

\* A release or a build keeps the types and takes no key back.
LEMMA DocsMoveOn ==
    ASSUME DocsTypeOK, NEW k \in Keys, Publish(k) \/ Build(k)
    PROVE  /\ DocsTypeOK'
           /\ \A j \in Keys : docs[j].release <= docs'[j].release
           /\ \A j \in Keys : docs[j].release \in Int /\ docs'[j].release \in Int
<1>1. docs \in [Keys -> [release : 0..MaxRelease, built : BOOLEAN]]
  BY DEF DocsTypeOK
<1>2. docs[k] \in [release : 0..MaxRelease, built : BOOLEAN]
  BY <1>1
<1>3. PICK d \in [release : 0..MaxRelease, built : BOOLEAN] :
          /\ docs' = [docs EXCEPT ![k] = d] /\ docs[k].release <= d.release
          /\ d.built => d.release > 0
  <2>1. CASE Publish(k)
    <3>1. /\ docs[k].release + 1 \in 0..MaxRelease
          /\ docs[k].release <= docs[k].release + 1
      BY <2>1, <1>2, MaxReleaseAssumption DEF Publish
    <3>2. [release |-> docs[k].release + 1, built |-> FALSE]
              \in [release : 0..MaxRelease, built : BOOLEAN]
      BY <3>1
    <3>3. ~[release |-> docs[k].release + 1, built |-> FALSE].built
      OBVIOUS
    <3> QED BY <2>1, <3>1, <3>2, <3>3 DEF Publish
  <2>2. CASE Build(k)
    <3>1. docs' = [docs EXCEPT ![k] = [docs[k] EXCEPT !.built = TRUE]]
      BY <2>2 DEF Build
    <3>2. /\ [docs[k] EXCEPT !.built = TRUE]
                \in [release : 0..MaxRelease, built : BOOLEAN]
          /\ [docs[k] EXCEPT !.built = TRUE].release = docs[k].release
      BY <1>2
    <3>3. docs[k].release <= docs[k].release /\ docs[k].release > 0
      BY <1>2, <2>2 DEF Build
    <3> QED BY <3>1, <3>2, <3>3
  <2> QED BY <2>1, <2>2
<1>4. DocsTypeOK'
  <2>1. \A j \in Keys : docs'[j] = IF j = k THEN d ELSE docs[j]
    BY <1>1, <1>3
  <2>2. \A j \in Keys : docs'[j].built => docs'[j].release > 0
    BY <1>3, <2>1 DEF DocsTypeOK
  <2> QED BY <1>1, <1>3, <2>2 DEF DocsTypeOK
<1>5. ASSUME NEW j \in Keys
      PROVE  /\ docs[j].release <= docs'[j].release
             /\ docs[j].release \in Int /\ docs'[j].release \in Int
  <2>1. docs[j] \in [release : 0..MaxRelease, built : BOOLEAN]
    BY <1>1
  <2>2. docs[j].release \in Int /\ d.release \in Int
    BY <2>1, <1>3
  <2>3. docs'[j] = IF j = k THEN d ELSE docs[j]
    BY <1>1, <1>3
  <2> QED BY <1>3, <2>2, <2>3
<1> QED BY <1>4, <1>5

\* What is served has been released.
LEMMA ServedIsReleased ==
    ASSUME DocsTypeOK, NEW k \in Keys, docs[k].built
    PROVE  Served(k) \in Crates
<1>1. docs[k] \in [release : 0..MaxRelease, built : BOOLEAN] /\ docs[k].release > 0
  BY DEF DocsTypeOK
<1>2. docs[k].release \in 1..MaxRelease
  BY <1>1, MaxReleaseAssumption
<1> QED BY <1>2 DEF Served, Crates, Releases

LEMMA InitIInv == Init => IInv
<1> SUFFICES ASSUME Init PROVE IInv
  OBVIOUS
<1>1. lru = <<>> /\ lru \in Seq(EntrySet) /\ DOMAIN lru = {} /\ Len(lru) = 0
      /\ queue \in Seq(Requests)
  BY DEF Init
<1>2. TypeOK
  <2>1. DocsTypeOK
    <3>1. [release |-> 0, built |-> FALSE] \in [release : 0..MaxRelease, built : BOOLEAN]
      BY MaxReleaseAssumption
    <3> QED BY <3>1 DEF Init, DocsInit, DocsTypeOK
  <2> QED BY <2>1, <1>1, MaxReleaseAssumption DEF Init, TypeOK, Crate
<1>3. CacheWellFormed
  BY <1>1, CapacityPositive DEF CacheWellFormed, DistinctKeys
<1>4. Control /\ Provenance /\ FreshAfterMiss
  BY <1>1 DEF Init, Control, Provenance, FreshAfterMiss
<1>5. QueueSound
  BY <1>1 DEF Init, QueueSound
<1>6. PoolInv
  <2>1. Running = {}
    BY DEF Init, Running
  <2> QED BY <2>1, FS_EmptySet, WorkersAssumption DEF PoolInv, PoolBounded
<1> QED BY <1>2, <1>3, <1>4, <1>5, <1>6 DEF IInv

\* A step that queues and starts nothing keeps the pool as it is, or frees a
\* thread of it.
LEMMA PoolKept ==
    ASSUME IInv, UNCHANGED queue,
           \A r \in Requests : task'[r] = "queued" <=> task[r] = "queued",
           \A r \in Requests : task'[r] \in {"get", "head"} => task[r] \in {"get", "head"}
    PROVE  QueueSound' /\ PoolInv'
<1>1. QueueSound'
  BY DEF IInv, QueueSound
<1>2. Running' \in SUBSET Running
  BY DEF Running
<1>3. IsFiniteSet(Running') /\ Cardinality(Running') <= Cardinality(Running)
  BY <1>2, FS_Subset DEF IInv, PoolInv
<1>4. Cardinality(Running) \in Nat /\ Cardinality(Running') \in Nat
  BY <1>3, FS_CardinalityType DEF IInv, PoolInv
<1>5. PoolInv'
  BY <1>3, <1>4, WorkersAssumption DEF IInv, PoolInv, PoolBounded
<1> QED BY <1>1, <1>5

\* docs.rs only moves forward, so what was made of a key stays made.
LEMMA UpstreamIInv == ASSUME IInv, Upstream PROVE IInv'
<1>1. PICK k \in Keys : Publish(k) \/ Build(k)
  BY DEF Upstream
<1>2. /\ DocsTypeOK'
      /\ \A j \in Keys : docs[j].release <= docs'[j].release
      /\ \A j \in Keys : docs[j].release \in Int /\ docs'[j].release \in Int
  BY <1>1, DocsMoveOn DEF IInv, TypeOK
<1>3. UNCHANGED <<lru, ask, pc, task, queue, outcome, krate, answer, missedAt>>
  BY DEF Upstream
<1>4. TypeOK'
  BY <1>2, <1>3 DEF IInv, TypeOK
<1>5. \A r \in Requests : Key(r) \in Keys /\ Key(r)' = Key(r)
  BY <1>3 DEF IInv, TypeOK, Key
<1>6. Control'
  <2>1. \A r \in Requests : missedAt[r] \in Int
    BY MaxReleaseAssumption DEF IInv, TypeOK
  <2> QED BY <1>2, <1>3, <1>5, <2>1 DEF IInv, Control
<1>7. CacheWellFormed' /\ FreshAfterMiss'
  BY <1>3 DEF IInv, CacheWellFormed, FreshAfterMiss
<1>8. Provenance'
  <2>1. \A i \in DOMAIN lru : lru[i].key \in Keys /\ lru[i].crate.release \in Int
    <3> TAKE i \in DOMAIN lru
    <3>1. i \in 1..Len(lru) /\ lru \in Seq(EntrySet)
      BY DEF IInv, TypeOK
    <3>2. lru[i] \in EntrySet
      BY <3>1, EntryAt
    <3> QED BY <3>2 DEF EntrySet, Crates, Releases
  <2>2. \A r \in Requests : krate[r] # NoCrate => krate[r].release \in Int
    BY DEF IInv, TypeOK, Crate, Crates, Releases
  <2> QED BY <1>2, <1>3, <1>5, <2>1, <2>2 DEF IInv, Provenance
<1>9. QueueSound' /\ PoolInv'
  BY <1>3, PoolKept
<1> QED BY <1>4, <1>6, <1>7, <1>8, <1>9 DEF IInv

-----------------------------------------------------------------------------
(* The invariant, one action at a time                                     *)

\* What the invariant says of the list and of the request that acts.
LEMMA ServerFacts ==
    ASSUME IInv, NEW r \in Requests
    PROVE  /\ lru \in Seq(EntrySet) /\ Len(lru) <= Capacity /\ DistinctKeys(lru)
           /\ Key(r) \in Keys
           /\ krate[r] \in Crates \cup {NoCrate}
           /\ missedAt[r] \in Nat
           /\ docs[Key(r)] \in [release : 0..MaxRelease, built : BOOLEAN]
           /\ docs[Key(r)].release \in Nat
<1>1. ask[r] \in [key : Keys, item : Items]
  BY DEF IInv, TypeOK
<1>2. Key(r) \in Keys
  BY <1>1 DEF Key
<1>3. docs[Key(r)] \in [release : 0..MaxRelease, built : BOOLEAN]
  BY <1>2 DEF IInv, TypeOK, DocsTypeOK
<1>4. docs[Key(r)].release \in Nat
  BY <1>3, MaxReleaseAssumption
<1> QED BY <1>2, <1>3, <1>4, MaxReleaseAssumption
      DEF IInv, TypeOK, CacheWellFormed, Crate

LEMMA ArriveIInv == ASSUME IInv, NEW r \in Requests, Arrive(r) PROVE IInv'
<1>1. /\ pc[r] = "idle" /\ pc' = [pc EXCEPT ![r] = "lookup"]
      /\ UNCHANGED <<docs, lru, ask, task, queue, outcome, krate, answer, missedAt>>
  BY DEF Arrive
<1>2. TypeOK'
  BY <1>1 DEF IInv, TypeOK, DocsTypeOK
<1>3. Control'
  BY <1>1 DEF IInv, TypeOK, Control, Key
<1>4. CacheWellFormed' /\ Provenance' /\ FreshAfterMiss'
  BY <1>1 DEF IInv, CacheWellFormed, Provenance, FreshAfterMiss, Key
<1>5. QueueSound' /\ PoolInv'
  BY <1>1, PoolKept
<1> QED BY <1>2, <1>3, <1>4, <1>5 DEF IInv

\* What a key's slot holds is a crate of that key.
LEMMA HeldIsOwn ==
    ASSUME IInv, NEW r \in Requests, Holds(lru, Key(r))
    PROVE  /\ Value(lru, Key(r)) \in Crates /\ Value(lru, Key(r)) # NoCrate
           /\ Value(lru, Key(r)).of = Key(r)
           /\ Value(lru, Key(r)).release <= docs[Key(r)].release
<1> DEFINE i == Slot(lru, Key(r))
<1>1. i \in DOMAIN lru /\ lru[i].key = Key(r)
  BY SlotFinds
<1>2. lru[i] \in EntrySet
  BY ServerFacts, SlotEntry
<1>3. lru[i].crate.of = Key(r) /\ lru[i].crate.release <= docs[Key(r)].release
  BY <1>1 DEF IInv, Provenance
<1>4. lru[i].crate \in Crates
  BY <1>2 DEF EntrySet
<1> QED BY <1>3, <1>4, NoCrateAssumption DEF Value

\* Reordering the list changes what it says of no key.
LEMMA PromotedProvenance ==
    ASSUME IInv, NEW k, Holds(lru, k), NEW t, t = Promote(lru, k)
    PROVE  /\ t \in Seq(EntrySet) /\ Len(t) <= Capacity /\ DistinctKeys(t)
           /\ \A i \in DOMAIN t :
                 t[i].crate.of = t[i].key
                 /\ t[i].crate.release <= docs[t[i].key].release
<1>1. lru \in Seq(EntrySet) /\ DistinctKeys(lru) /\ Len(lru) <= Capacity
  BY DEF IInv, TypeOK, CacheWellFormed
<1>2. /\ t \in Seq(EntrySet) /\ Len(t) = Len(lru) /\ DistinctKeys(t)
      /\ \A j : Holds(t, j) <=> Holds(lru, j)
      /\ \A j : Holds(lru, j) => Value(t, j) = Value(lru, j)
  BY <1>1, PromoteKeeps
<1>3. ASSUME NEW i \in DOMAIN t
      PROVE  t[i].crate.of = t[i].key /\ t[i].crate.release <= docs[t[i].key].release
  <2>1. Holds(t, t[i].key) /\ Value(t, t[i].key) = t[i].crate
    BY <1>2, SlotUnique
  <2>2. Holds(lru, t[i].key) /\ Value(lru, t[i].key) = t[i].crate
    BY <1>2, <2>1
  <2>3. PICK j \in DOMAIN lru : lru[j].key = t[i].key
    BY <2>2 DEF Holds
  <2>4. lru[j].crate = t[i].crate
    BY <1>1, <2>2, <2>3, SlotUnique
  <2> QED BY <2>3, <2>4 DEF IInv, Provenance
<1> QED BY <1>1, <1>2, <1>3

LEMMA LookupHitIInv == ASSUME IInv, NEW r \in Requests, LookupHit(r) PROVE IInv'
<1>1. /\ pc[r] = "lookup" /\ Holds(lru, Key(r))
      /\ krate' = [krate EXCEPT ![r] = Value(lru, Key(r))]
      /\ lru' = Promote(lru, Key(r))
      /\ pc' = [pc EXCEPT ![r] = "render"]
      /\ UNCHANGED <<docs, ask, task, queue, outcome, answer, missedAt>>
  BY DEF LookupHit
<1>2. /\ Value(lru, Key(r)) \in Crates /\ Value(lru, Key(r)) # NoCrate
      /\ Value(lru, Key(r)).of = Key(r)
      /\ Value(lru, Key(r)).release <= docs[Key(r)].release
  BY <1>1, HeldIsOwn
<1>3. /\ lru' \in Seq(EntrySet) /\ Len(lru') <= Capacity /\ DistinctKeys(lru')
      /\ \A i \in DOMAIN lru' :
            lru'[i].crate.of = lru'[i].key
            /\ lru'[i].crate.release <= docs[lru'[i].key].release
  BY <1>1, PromotedProvenance
<1>4. TypeOK'
  BY <1>1, <1>2, <1>3 DEF IInv, TypeOK, DocsTypeOK, Crate
<1>5. task[r] = "none" /\ outcome[r] = "none"
  BY <1>1 DEF IInv, Control
<1>6. Control'
  BY <1>1, <1>2, <1>5 DEF IInv, TypeOK, Control, Key
<1>7. CacheWellFormed'
  BY <1>3 DEF CacheWellFormed
<1>8. Provenance'
  BY <1>1, <1>2, <1>3 DEF IInv, TypeOK, Provenance, Key
<1>9. FreshAfterMiss'
  BY <1>1, <1>5 DEF IInv, TypeOK, FreshAfterMiss
<1>10. QueueSound' /\ PoolInv'
  BY <1>1, PoolKept
<1> QED BY <1>4, <1>6, <1>7, <1>8, <1>9, <1>10 DEF IInv

LEMMA LookupMissIInv == ASSUME IInv, NEW r \in Requests, LookupMiss(r) PROVE IInv'
<1>1. /\ pc[r] = "lookup"
      /\ missedAt' = [missedAt EXCEPT ![r] = docs[Key(r)].release]
      /\ task' = [task EXCEPT ![r] = "queued"]
      /\ queue' = Append(queue, r)
      /\ pc' = [pc EXCEPT ![r] = "fetching"]
      /\ UNCHANGED <<docs, lru, ask, outcome, krate, answer>>
  BY DEF LookupMiss
<1>2. task[r] = "none" /\ outcome[r] = "none" /\ krate[r] = NoCrate
  BY <1>1 DEF IInv, Control
<1>3. TypeOK'
  <2>1. docs[Key(r)].release \in 0..(MaxRelease + 1)
    BY ServerFacts, MaxReleaseAssumption
  <2>2. queue' \in Seq(Requests)
    BY <1>1 DEF IInv, TypeOK
  <2> QED BY <1>1, <2>1, <2>2 DEF IInv, TypeOK, DocsTypeOK
<1>4. Control'
  <2>1. docs[Key(r)].release <= docs[Key(r)].release
    BY ServerFacts
  <2> QED BY <1>1, <1>2, <2>1 DEF IInv, TypeOK, Control, Key
<1>5. CacheWellFormed' /\ Provenance'
  BY <1>1 DEF IInv, CacheWellFormed, Provenance, Key
<1>6. FreshAfterMiss'
  BY <1>1, <1>2 DEF IInv, TypeOK, FreshAfterMiss
<1>7. QueueSound'
  <2>1. /\ \A i \in DOMAIN queue' : IF i = Len(queue) + 1 THEN queue'[i] = r
                                   ELSE i \in DOMAIN queue /\ queue'[i] = queue[i]
        /\ Len(queue) + 1 \in DOMAIN queue' /\ queue'[Len(queue) + 1] = r
        /\ \A i \in DOMAIN queue : i \in DOMAIN queue' /\ queue'[i] = queue[i]
    BY <1>1 DEF IInv, TypeOK
  <2>2. \A i \in DOMAIN queue : queue[i] # r
    BY <1>2 DEF IInv, QueueSound
  <2>3. \A s \in Requests : task'[s] = IF s = r THEN "queued" ELSE task[s]
    BY <1>1 DEF IInv, TypeOK
  <2>4. \A s \in Requests : task'[s] = "queued" <=> \E i \in DOMAIN queue' : queue'[i] = s
    <3> TAKE s \in Requests
    <3>1. CASE s = r
      BY <2>1, <2>3, <3>1
    <3>2. CASE s # r
      BY <2>1, <2>3, <3>2 DEF IInv, QueueSound
    <3> QED BY <3>1, <3>2
  <2>5. \A i, j \in DOMAIN queue' : queue'[i] = queue'[j] => i = j
    BY <2>1, <2>2 DEF IInv, QueueSound
  <2> QED BY <2>4, <2>5 DEF QueueSound
<1>8. PoolInv'
  <2>1. Running' = Running
    BY <1>1, <1>2 DEF Running, IInv, TypeOK
  <2> QED BY <2>1 DEF IInv, PoolInv, PoolBounded
<1> QED BY <1>3, <1>4, <1>5, <1>6, <1>7, <1>8 DEF IInv

LEMMA StartTaskIInv == ASSUME IInv, NEW r \in Requests, StartTask(r) PROVE IInv'
<1>1. /\ queue # <<>> /\ r = Head(queue) /\ queue' = Tail(queue)
      /\ task' = [task EXCEPT ![r] = "get"]
      /\ UNCHANGED <<docs, lru, ask, pc, outcome, krate, answer, missedAt>>
  BY DEF StartTask, Start
<1>2. task[r] = "queued"
  BY <1>1 DEF IInv, TypeOK, QueueSound
<1>3. TypeOK'
  <2>1. queue' \in Seq(Requests)
    BY <1>1 DEF IInv, TypeOK
  <2> QED BY <1>1, <2>1 DEF IInv, TypeOK, DocsTypeOK
<1>4. Control'
  BY <1>1, <1>2 DEF IInv, TypeOK, Control, Key
<1>5. CacheWellFormed' /\ Provenance' /\ FreshAfterMiss'
  BY <1>1 DEF IInv, CacheWellFormed, Provenance, FreshAfterMiss, Key
<1>6. QueueSound'
  <2>1. /\ queue[1] = r /\ 1 \in DOMAIN queue
        /\ \A i \in DOMAIN queue' : i + 1 \in DOMAIN queue /\ queue'[i] = queue[i + 1]
        /\ \A i \in DOMAIN queue : i # 1 => i - 1 \in DOMAIN queue' /\ queue'[i - 1] = queue[i]
        /\ \A i \in DOMAIN queue' : i \in Nat \ {0}
    BY <1>1 DEF IInv, TypeOK
  <2>2. \A s \in Requests : task'[s] = IF s = r THEN "get" ELSE task[s]
    BY <1>1 DEF IInv, TypeOK
  <2>3. \A i \in DOMAIN queue' : queue'[i] # r
    BY <2>1 DEF IInv, QueueSound
  <2>4. \A s \in Requests : task'[s] = "queued" <=> \E i \in DOMAIN queue' : queue'[i] = s
    <3> TAKE s \in Requests
    <3>1. CASE s = r
      BY <2>2, <2>3, <3>1
    <3>2. CASE s # r
      <4>1. (\E i \in DOMAIN queue : queue[i] = s) <=> \E i \in DOMAIN queue' : queue'[i] = s
        BY <2>1, <3>2
      <4> QED BY <2>2, <3>2, <4>1 DEF IInv, QueueSound
    <3> QED BY <3>1, <3>2
  <2>5. \A i, j \in DOMAIN queue' : queue'[i] = queue'[j] => i = j
    <3> SUFFICES ASSUME NEW i \in DOMAIN queue', NEW j \in DOMAIN queue', queue'[i] = queue'[j]
                 PROVE  i = j
      OBVIOUS
    <3>1. i + 1 = j + 1
      BY <2>1 DEF IInv, QueueSound
    <3> QED BY <2>1, <3>1
  <2> QED BY <2>4, <2>5 DEF QueueSound
<1>7. PoolInv'
  <2>1. Running' = Running \cup {r} /\ r \notin Running
    BY <1>1, <1>2 DEF Running, IInv, TypeOK
  <2>2. IsFiniteSet(Running') /\ Cardinality(Running') = Cardinality(Running) + 1
    BY <2>1, FS_AddElement DEF IInv, PoolInv
  <2>3. Cardinality(Running) < Workers /\ Cardinality(Running) \in Nat
    BY FS_CardinalityType DEF StartTask, Start, IInv, PoolInv
  <2> QED BY <2>2, <2>3, WorkersAssumption DEF PoolInv, PoolBounded
<1> QED BY <1>3, <1>4, <1>5, <1>6, <1>7 DEF IInv

\* A closure that returns frees its thread; nothing else moves.
LEMMA ReturnIInv ==
    ASSUME IInv, NEW r \in Requests, task[r] \in {"get", "head"},
           NEW what \in {"waiting", "absent", "failed"},
           Return(r, what), UNCHANGED krate
    PROVE  IInv'
<1>1. /\ task' = [task EXCEPT ![r] = "done"]
      /\ outcome' = [outcome EXCEPT ![r] = what]
      /\ UNCHANGED <<docs, lru, ask, pc, queue, answer, missedAt, krate>>
  BY DEF Return
<1>2. krate[r] = NoCrate /\ pc[r] \in {"fetching", "gone"}
  BY DEF IInv, Control
<1>3. TypeOK'
  BY <1>1 DEF IInv, TypeOK, DocsTypeOK
<1>4. Control'
  BY <1>1, <1>2 DEF IInv, TypeOK, Control, Key
<1>5. CacheWellFormed' /\ Provenance'
  BY <1>1 DEF IInv, CacheWellFormed, Provenance, Key
<1>6. FreshAfterMiss'
  BY <1>1 DEF IInv, TypeOK, FreshAfterMiss
<1>7. QueueSound' /\ PoolInv'
  <2>1. \A s \in Requests : task'[s] = IF s = r THEN "done" ELSE task[s]
    BY <1>1 DEF IInv, TypeOK
  <2> QED BY <1>1, <2>1, PoolKept
<1> QED BY <1>3, <1>4, <1>5, <1>6, <1>7 DEF IInv

LEMMA GetOkIInv == ASSUME IInv, NEW r \in Requests, GetOk(r) PROVE IInv'
<1>1. /\ task[r] = "get" /\ docs[Key(r)].built
      /\ krate' = [krate EXCEPT ![r] = Served(Key(r))]
      /\ task' = [task EXCEPT ![r] = "done"]
      /\ outcome' = [outcome EXCEPT ![r] = "crate"]
      /\ UNCHANGED <<docs, lru, ask, pc, queue, answer, missedAt>>
  BY DEF GetOk, Return
<1>2. pc[r] \in {"fetching", "gone"} /\ missedAt[r] <= docs[Key(r)].release
  BY <1>1 DEF IInv, Control
<1>3. /\ Served(Key(r)) \in Crates /\ Served(Key(r)) # NoCrate
      /\ Served(Key(r)).of = Key(r)
      /\ Served(Key(r)).release = docs[Key(r)].release
  <2>1. docs[Key(r)].release \in Releases /\ Key(r) \in Keys
    BY <1>1, ServerFacts, MaxReleaseAssumption DEF IInv, TypeOK, DocsTypeOK, Releases
  <2> QED BY <2>1, NoCrateAssumption DEF Served, Crates
<1>4. TypeOK'
  BY <1>1, <1>3 DEF IInv, TypeOK, DocsTypeOK, Crate
<1>5. Control'
  BY <1>1, <1>2, <1>3 DEF IInv, TypeOK, Control, Key
<1>6. CacheWellFormed'
  BY <1>1 DEF IInv, CacheWellFormed
<1>7. Provenance'
  <2>1. docs[Key(r)].release <= docs[Key(r)].release
    BY ServerFacts
  <2> QED BY <1>1, <1>3, <2>1 DEF IInv, TypeOK, Provenance, Key
<1>8. FreshAfterMiss'
  BY <1>1, <1>2, <1>3 DEF IInv, TypeOK, FreshAfterMiss
<1>9. QueueSound' /\ PoolInv'
  <2>1. \A s \in Requests : task'[s] = IF s = r THEN "done" ELSE task[s]
    BY <1>1 DEF IInv, TypeOK
  <2> QED BY <1>1, <2>1, PoolKept
<1> QED BY <1>4, <1>5, <1>6, <1>7, <1>8, <1>9 DEF IInv

LEMMA Get404IInv == ASSUME IInv, NEW r \in Requests, Get404(r) PROVE IInv'
<1>1. /\ task[r] = "get" /\ task' = [task EXCEPT ![r] = "head"]
      /\ UNCHANGED <<docs, lru, ask, pc, queue, outcome, krate, answer, missedAt>>
  BY DEF Get404
<1>2. TypeOK'
  BY <1>1 DEF IInv, TypeOK, DocsTypeOK
<1>3. Control'
  BY <1>1 DEF IInv, TypeOK, Control, Key
<1>4. CacheWellFormed' /\ Provenance' /\ FreshAfterMiss'
  BY <1>1 DEF IInv, CacheWellFormed, Provenance, FreshAfterMiss, Key
<1>5. QueueSound' /\ PoolInv'
  <2>1. \A s \in Requests : task'[s] = IF s = r THEN "head" ELSE task[s]
    BY <1>1 DEF IInv, TypeOK
  <2> QED BY <1>1, <2>1, PoolKept
<1> QED BY <1>2, <1>3, <1>4, <1>5 DEF IInv

\* A handler that waits for a download that returned.
LEMMA Finished ==
    ASSUME IInv, NEW r \in Requests, task[r] = "done", outcome[r] = "crate"
    PROVE  /\ krate[r] \in Crates /\ krate[r] # NoCrate
           /\ krate[r].of = Key(r)
           /\ krate[r].release \in Nat
           /\ krate[r].release <= docs[Key(r)].release
           /\ Entry(Key(r), krate[r]) \in EntrySet
<1>1. krate[r] # NoCrate /\ krate[r] \in Crates
  BY DEF IInv, Control, TypeOK, Crate
<1>2. krate[r].of = Key(r) /\ krate[r].release <= docs[Key(r)].release
  BY <1>1 DEF IInv, Provenance
<1>3. krate[r].release \in Nat
  BY <1>1, MaxReleaseAssumption DEF Crates, Releases
<1>4. Entry(Key(r), krate[r]) \in EntrySet
  BY <1>1, ServerFacts DEF Entry, EntrySet
<1> QED BY <1>1, <1>2, <1>3, <1>4

LEMMA FinishOkIInv == ASSUME IInv, NEW r \in Requests, FinishOk(r) PROVE IInv'
<1>1. /\ pc[r] = "fetching" /\ task[r] = "done" /\ outcome[r] = "crate"
      /\ lru' = Insert(lru, Key(r), krate[r])
      /\ pc' = [pc EXCEPT ![r] = "render"]
      /\ UNCHANGED <<docs, ask, task, queue, outcome, krate, answer, missedAt>>
  BY DEF FinishOk
<1>2. /\ krate[r] # NoCrate /\ krate[r].of = Key(r)
      /\ krate[r].release <= docs[Key(r)].release
      /\ Entry(Key(r), krate[r]) \in EntrySet
  BY <1>1, Finished
<1>3. /\ lru' \in Seq(EntrySet) /\ Len(lru') <= Capacity /\ DistinctKeys(lru')
      /\ Holds(lru', Key(r)) /\ Value(lru', Key(r)) = krate[r]
      /\ \A k : k # Key(r) /\ Holds(lru', k) =>
            Holds(lru, k) /\ Value(lru', k) = Value(lru, k)
  BY <1>1, <1>2, ServerFacts, InsertStores
<1>4. TypeOK'
  BY <1>1, <1>3 DEF IInv, TypeOK, DocsTypeOK
<1>5. Control'
  BY <1>1, <1>2 DEF IInv, TypeOK, Control, Key
<1>6. CacheWellFormed'
  BY <1>3 DEF CacheWellFormed
<1>7. ASSUME NEW i \in DOMAIN lru'
      PROVE  /\ lru'[i].crate.of = lru'[i].key
             /\ lru'[i].crate.release <= docs[lru'[i].key].release
  <2>1. Holds(lru', lru'[i].key) /\ Value(lru', lru'[i].key) = lru'[i].crate
    BY <1>3, SlotUnique
  <2>2. CASE lru'[i].key = Key(r)
    BY <1>2, <1>3, <2>1, <2>2
  <2>3. CASE lru'[i].key # Key(r)
    <3>1. Holds(lru, lru'[i].key) /\ Value(lru, lru'[i].key) = lru'[i].crate
      BY <1>3, <2>1, <2>3
    <3>2. PICK j \in DOMAIN lru : lru[j].key = lru'[i].key
      BY <3>1 DEF Holds
    <3>3. lru[j].crate = lru'[i].crate
      BY <3>1, <3>2, SlotUnique DEF IInv, CacheWellFormed
    <3> QED BY <3>2, <3>3 DEF IInv, Provenance
  <2> QED BY <2>2, <2>3
<1>8. Provenance'
  BY <1>1, <1>7 DEF IInv, Provenance, Key
<1>9. FreshAfterMiss'
  BY <1>1 DEF IInv, FreshAfterMiss
<1>10. QueueSound' /\ PoolInv'
  BY <1>1, PoolKept
<1> QED BY <1>4, <1>5, <1>6, <1>8, <1>9, <1>10 DEF IInv

LEMMA FinishErrIInv == ASSUME IInv, NEW r \in Requests, FinishErr(r) PROVE IInv'
<1>1. /\ pc[r] = "fetching" /\ task[r] = "done" /\ outcome[r] # "crate"
      /\ answer' = [answer EXCEPT ![r] = 502]
      /\ pc' = [pc EXCEPT ![r] = "answered"]
      /\ UNCHANGED <<docs, lru, ask, task, queue, outcome, krate, missedAt>>
  BY DEF FinishErr, Respond
<1>2. TypeOK'
  BY <1>1 DEF IInv, TypeOK, DocsTypeOK
<1>3. Control'
  BY <1>1 DEF IInv, TypeOK, Control, Key
<1>4. CacheWellFormed' /\ Provenance' /\ FreshAfterMiss'
  BY <1>1 DEF IInv, CacheWellFormed, Provenance, FreshAfterMiss, Key
<1>5. QueueSound' /\ PoolInv'
  BY <1>1, PoolKept
<1> QED BY <1>2, <1>3, <1>4, <1>5 DEF IInv

LEMMA RenderIInv == ASSUME IInv, NEW r \in Requests, Render(r) PROVE IInv'
<1> DEFINE status == IF ask[r].item \in Contents[krate[r].of][krate[r].release]
                     THEN 200 ELSE 404
<1>1. /\ pc[r] = "render" /\ answer' = [answer EXCEPT ![r] = status]
      /\ pc' = [pc EXCEPT ![r] = "answered"]
      /\ UNCHANGED <<docs, lru, ask, task, queue, outcome, krate, missedAt>>
  BY DEF Render, Respond, Found
<1>2. status \in {0, 200, 404, 502}
  OBVIOUS
<1> HIDE DEF status
<1>3. TypeOK'
  BY <1>1, <1>2 DEF IInv, TypeOK, DocsTypeOK
<1>4. Control'
  BY <1>1 DEF IInv, TypeOK, Control, Key
<1>5. CacheWellFormed' /\ Provenance' /\ FreshAfterMiss'
  BY <1>1 DEF IInv, CacheWellFormed, Provenance, FreshAfterMiss, Key
<1>6. QueueSound' /\ PoolInv'
  BY <1>1, PoolKept
<1> QED BY <1>3, <1>4, <1>5, <1>6 DEF IInv

LEMMA DisconnectIInv == ASSUME IInv, NEW r \in Requests, Disconnect(r) PROVE IInv'
<1>1. /\ pc[r] = "fetching" /\ pc' = [pc EXCEPT ![r] = "gone"]
      /\ UNCHANGED <<docs, lru, ask, task, queue, outcome, krate, answer, missedAt>>
  BY DEF Disconnect
<1>2. TypeOK'
  BY <1>1 DEF IInv, TypeOK, DocsTypeOK
<1>3. Control'
  BY <1>1 DEF IInv, TypeOK, Control, Key
<1>4. CacheWellFormed' /\ Provenance' /\ FreshAfterMiss'
  BY <1>1 DEF IInv, CacheWellFormed, Provenance, FreshAfterMiss, Key
<1>5. QueueSound' /\ PoolInv'
  BY <1>1, PoolKept
<1> QED BY <1>2, <1>3, <1>4, <1>5 DEF IInv

LEMMA NextIInv == IInv /\ [Next]_vars => IInv'
<1> SUFFICES ASSUME IInv, [Next]_vars PROVE IInv'
  OBVIOUS
<1>1. CASE Upstream
  BY <1>1, UpstreamIInv
<1>2. ASSUME NEW r \in Requests, Arrive(r) \/ Handle(r) \/ Disconnect(r)
      PROVE  IInv'
  BY <1>2, ArriveIInv, LookupHitIInv, LookupMissIInv, FinishOkIInv, FinishErrIInv,
     RenderIInv, DisconnectIInv DEF Handle
<1>3. ASSUME NEW r \in Requests, StartTask(r) \/ Get(r) \/ Probe(r)
      PROVE  IInv'
  <2>1. CASE StartTask(r) \/ GetOk(r) \/ Get404(r)
    BY <2>1, StartTaskIInv, GetOkIInv, Get404IInv
  <2>2. CASE GetFails(r)
    BY <2>2, ReturnIInv DEF GetFails
  <2>3. CASE HeadOk(r)
    BY <2>3, ReturnIInv DEF HeadOk
  <2>4. CASE HeadOther(r)
    BY <2>4, ReturnIInv DEF HeadOther
  <2>5. CASE HeadFails(r)
    BY <2>5, ReturnIInv DEF HeadFails
  <2> QED BY <1>3, <2>1, <2>2, <2>3, <2>4, <2>5 DEF Get, Probe
<1>4. CASE UNCHANGED vars
  <2>1. UNCHANGED <<docs, lru, ask, pc, task, queue, outcome, krate, answer, missedAt>>
    BY <1>4 DEF vars
  <2>2. TypeOK' /\ Control' /\ CacheWellFormed'
    BY <2>1 DEF IInv, TypeOK, DocsTypeOK, Control, CacheWellFormed, Key
  <2>3. Provenance' /\ FreshAfterMiss'
    BY <2>1 DEF IInv, Provenance, FreshAfterMiss, Key
  <2>4. QueueSound' /\ PoolInv'
    BY <2>1, PoolKept
  <2> QED BY <2>2, <2>3, <2>4 DEF IInv
<1> QED BY <1>1, <1>2, <1>3, <1>4 DEF Next

-----------------------------------------------------------------------------
\* The inductive invariant holds throughout.
THEOREM Inductive == Spec => []IInv
BY InitIInv, NextIInv, PTL DEF Spec

\* TypeOK: every variable keeps its type.
THEOREM AlwaysTyped == Spec => []TypeOK
<1>1. IInv => TypeOK
  BY DEF IInv
<1> QED BY <1>1, Inductive, PTL

\* Control: a handler and its download are only ever at places that belong
\* together.
THEOREM AlwaysControl == Spec => []Control
<1>1. IInv => Control
  BY DEF IInv
<1> QED BY <1>1, Inductive, PTL

\* CacheWellFormed: racing puts of one key leave one entry, within capacity.
THEOREM AlwaysCacheWellFormed == Spec => []CacheWellFormed
<1>1. IInv => CacheWellFormed
  BY DEF IInv
<1> QED BY <1>1, Inductive, PTL

\* Provenance: no key is ever answered from another key's crate.
THEOREM AlwaysProvenance == Spec => []Provenance
<1>1. IInv => Provenance
  BY DEF IInv
<1> QED BY <1>1, Inductive, PTL

\* FreshAfterMiss: a download brings a release at least as new as its miss.
THEOREM AlwaysFreshAfterMiss == Spec => []FreshAfterMiss
<1>1. IInv => FreshAfterMiss
  BY DEF IInv
<1> QED BY <1>1, Inductive, PTL

\* QueueSound: the pool loses and duplicates no download, whoever disconnects.
THEOREM AlwaysQueueSound == Spec => []QueueSound
<1>1. IInv => QueueSound
  BY DEF IInv, PoolInv
<1> QED BY <1>1, Inductive, PTL

\* PoolBounded: it never runs more downloads than it has threads.
THEOREM AlwaysPoolBounded == Spec => []PoolBounded
<1>1. IInv => PoolBounded
  BY DEF IInv, PoolInv
<1> QED BY <1>1, Inductive, PTL

-----------------------------------------------------------------------------
(* A cached release goes back only by overlap                              *)

\* What is cached has a release that is a number.
LEMMA HeldRelease ==
    ASSUME NEW s \in Seq(EntrySet), NEW k, Holds(s, k)
    PROVE  Value(s, k).release \in Nat
<1>1. s[Slot(s, k)] \in EntrySet
  BY SlotEntry
<1> QED BY <1>1, MaxReleaseAssumption DEF Value, EntrySet, Crates, Releases

\* A step that leaves the list alone, or only reorders it, takes no key back.
LEMMA SameValuesStay ==
    ASSUME NEW k, lru \in Seq(EntrySet),
           Holds(lru, k) => Value(lru', k) = Value(lru, k)
    PROVE  ~GoesBack(k)
BY HeldRelease DEF GoesBack

LEMMA StepGoesBack ==
    ASSUME IInv, [Next]_vars, NEW k \in Keys, GoesBack(k)
    PROVE  \E r \in Requests : Overlaps(r, k)
<1>1. lru \in Seq(EntrySet) /\ DistinctKeys(lru) /\ Len(lru) <= Capacity
  BY DEF IInv, TypeOK, CacheWellFormed
<1>2. lru' # lru
  BY <1>1, SameValuesStay
<1>3. PICK r \in Requests : LookupHit(r) \/ FinishOk(r)
  BY <1>2 DEF Next, vars, Upstream, Arrive, Handle, LookupMiss, FinishErr, Respond, Render,
     Disconnect, StartTask, Start, Get, GetOk, Get404, GetFails, Probe, HeadOk, HeadOther,
     HeadFails, Return
<1>4. ~LookupHit(r)
  <2> SUFFICES ASSUME LookupHit(r) PROVE FALSE
    OBVIOUS
  <2>1. Holds(lru, Key(r)) /\ lru' = Promote(lru, Key(r))
    BY DEF LookupHit
  <2>2. Holds(lru, k) => Value(lru', k) = Value(lru, k)
    BY <1>1, <2>1, PromoteKeeps
  <2> QED BY <1>1, <2>2, SameValuesStay
<1>5. /\ pc[r] = "fetching" /\ task[r] = "done" /\ outcome[r] = "crate"
      /\ lru' = Insert(lru, Key(r), krate[r])
  BY <1>3, <1>4 DEF FinishOk
<1>6. krate[r].release \in Nat /\ krate[r].release >= missedAt[r]
      /\ Entry(Key(r), krate[r]) \in EntrySet
  BY <1>5, Finished DEF IInv, FreshAfterMiss
<1>7. /\ Holds(lru', Key(r)) /\ Value(lru', Key(r)) = krate[r]
      /\ \A j : j # Key(r) /\ Holds(lru', j) => Value(lru', j) = Value(lru, j)
  BY <1>1, <1>5, <1>6, InsertStores
<1>8. Value(lru, k).release \in Nat /\ missedAt[r] \in Nat
  BY <1>1, HeldRelease, ServerFacts DEF GoesBack
<1>9. Key(r) = k
  BY <1>7, <1>8 DEF GoesBack
<1>10. missedAt[r] < Value(lru, k).release
  BY <1>6, <1>7, <1>8, <1>9 DEF GoesBack
<1> QED BY <1>5, <1>9, <1>10 DEF Overlaps

\* OlderOnlyByOverlap: only a download that overlaps the newer release can
\* put an older one in its place.
THEOREM OlderNeedsOverlap == Spec => OlderOnlyByOverlap
<1>1. IInv /\ [Next]_vars
      => [\A k \in Keys : GoesBack(k) => \E r \in Requests : Overlaps(r, k)]_vars
  BY StepGoesBack
<1> QED BY <1>1, Inductive, PTL DEF Spec, OlderOnlyByOverlap

-----------------------------------------------------------------------------
(* That the server gets on                                                 *)

\* The steps a handler and its download can still take.
HandlerLeft(at) ==
    IF at = "idle" THEN 4 ELSE IF at = "lookup" THEN 3 ELSE IF at = "fetching" THEN 2
    ELSE IF at = "render" THEN 1 ELSE 0

DownloadLeft(at) ==
    IF at = "none" THEN 4 ELSE IF at = "queued" THEN 3 ELSE IF at = "get" THEN 2
    ELSE IF at = "head" THEN 1 ELSE 0

StepsLeft(r) == HandlerLeft(pc[r]) + DownloadLeft(task[r])

\* The download of r waits ahead of that of s.
Ahead(r, s) == \E i, j \in DOMAIN queue : i < j /\ queue[i] = r /\ queue[j] = s

Untouched == UNCHANGED <<lru, ask, pc, task, queue, outcome, krate, answer, missedAt>>

\* One request gets on, and the stages of the others are left alone.
GetsOn ==
    \E r \in Requests :
        /\ StepsLeft(r)' < StepsLeft(r)
        /\ \A s \in Requests \ {r} : pc'[s] = pc[s] /\ task'[s] = task[s]

NoOvertaking ==
    \A r, s \in Requests : Ahead(r, s) => Ahead(r, s)' \/ task'[r] = "get"

\* A step of r's handler or download takes it to a later stage.
LEMMA StageGetsOn ==
    ASSUME IInv, NEW r \in Requests, NEW p, NEW t,
           pc' = [pc EXCEPT ![r] = p], task' = [task EXCEPT ![r] = t],
           HandlerLeft(p) + DownloadLeft(t) < StepsLeft(r)
    PROVE  GetsOn
<1>1. pc'[r] = p /\ task'[r] = t
  BY DEF IInv, TypeOK
<1>2. \A s \in Requests \ {r} : pc'[s] = pc[s] /\ task'[s] = task[s]
  BY DEF IInv, TypeOK
<1> QED BY <1>1, <1>2 DEF GetsOn, StepsLeft

\* ... of the handler alone, or of the download alone.
LEMMA HandlerGetsOn ==
    ASSUME IInv, NEW r \in Requests, NEW p, pc' = [pc EXCEPT ![r] = p], task' = task,
           HandlerLeft(p) < HandlerLeft(pc[r])
    PROVE  GetsOn
<1>1. task' = [task EXCEPT ![r] = task[r]]
  BY DEF IInv, TypeOK
<1>2. /\ HandlerLeft(p) \in Nat /\ HandlerLeft(pc[r]) \in Nat /\ DownloadLeft(task[r]) \in Nat
  BY DEF HandlerLeft, DownloadLeft
<1>3. HandlerLeft(p) + DownloadLeft(task[r]) < StepsLeft(r)
  BY <1>2 DEF StepsLeft
<1> QED BY <1>1, <1>3, StageGetsOn

LEMMA DownloadGetsOn ==
    ASSUME IInv, NEW r \in Requests, NEW t, task' = [task EXCEPT ![r] = t], pc' = pc,
           DownloadLeft(t) < DownloadLeft(task[r])
    PROVE  GetsOn
<1>1. pc' = [pc EXCEPT ![r] = pc[r]]
  BY DEF IInv, TypeOK
<1>2. /\ DownloadLeft(t) \in Nat /\ HandlerLeft(pc[r]) \in Nat /\ DownloadLeft(task[r]) \in Nat
  BY DEF HandlerLeft, DownloadLeft
<1>3. HandlerLeft(pc[r]) + DownloadLeft(t) < StepsLeft(r)
  BY <1>2 DEF StepsLeft
<1> QED BY <1>1, <1>3, StageGetsOn

LEMMA StepGetsOn == ASSUME IInv, Next PROVE Untouched \/ GetsOn
<1>1. CASE Upstream
  BY <1>1 DEF Upstream, Untouched
<1>2. ASSUME NEW r \in Requests, Arrive(r) \/ LookupHit(r) \/ FinishOk(r) \/ FinishErr(r)
                                 \/ Render(r) \/ Disconnect(r)
      PROVE  GetsOn
  <2>1. /\ HandlerLeft("lookup") < HandlerLeft("idle")
        /\ HandlerLeft("render") < HandlerLeft("lookup")
        /\ \A p \in {"render", "answered", "gone"} : HandlerLeft(p) < HandlerLeft("fetching")
        /\ HandlerLeft("answered") < HandlerLeft("render")
    BY DEF HandlerLeft
  <2>2. CASE Arrive(r)
    BY <2>1, <2>2, HandlerGetsOn DEF Arrive
  <2>3. CASE LookupHit(r)
    BY <2>1, <2>3, HandlerGetsOn DEF LookupHit
  <2>4. CASE FinishOk(r) \/ FinishErr(r) \/ Disconnect(r)
    BY <2>1, <2>4, HandlerGetsOn DEF FinishOk, FinishErr, Respond, Disconnect
  <2>5. CASE Render(r)
    BY <2>1, <2>5, HandlerGetsOn DEF Render, Respond, Found
  <2> QED BY <1>2, <2>2, <2>3, <2>4, <2>5
<1>3. ASSUME NEW r \in Requests, LookupMiss(r) PROVE GetsOn
  <2>1. pc[r] = "lookup" /\ task[r] = "none"
    BY <1>3 DEF LookupMiss, IInv, Control
  <2>2. HandlerLeft("fetching") + DownloadLeft("queued") < StepsLeft(r)
    BY <2>1 DEF StepsLeft, HandlerLeft, DownloadLeft
  <2>3. pc' = [pc EXCEPT ![r] = "fetching"] /\ task' = [task EXCEPT ![r] = "queued"]
    BY <1>3 DEF LookupMiss
  <2> QED BY <2>2, <2>3, StageGetsOn
<1>4. ASSUME NEW r \in Requests, StartTask(r) PROVE GetsOn
  <2>1. task[r] = "queued"
    BY <1>4 DEF StartTask, Start, IInv, TypeOK, QueueSound
  <2>2. DownloadLeft("get") < DownloadLeft(task[r])
    BY <2>1 DEF DownloadLeft
  <2> QED BY <1>4, <2>2, DownloadGetsOn DEF StartTask, Start
<1>5. ASSUME NEW r \in Requests, Get(r) \/ Probe(r) PROVE GetsOn
  <2>1. PICK t \in {"head", "done"} :
            /\ task' = [task EXCEPT ![r] = t] /\ pc' = pc
            /\ DownloadLeft(t) < DownloadLeft(task[r])
    BY <1>5 DEF Get, Probe, GetOk, Get404, GetFails, HeadOk, HeadOther, HeadFails, Return,
                DownloadLeft
  <2> QED BY <2>1, DownloadGetsOn
<1> QED BY <1>1, <1>2, <1>3, <1>4, <1>5 DEF Next, Handle

\* Every step but docs.rs's takes one request to a later stage of its handler
\* or its download and no request back.  A request has eight such steps at
\* most: what EveryRequestEnds and PoolDrains say, less that they are taken.
THEOREM ServerGetsOn == Spec => [][Untouched \/ GetsOn]_vars
<1>1. IInv /\ [Next]_vars => [Untouched \/ GetsOn]_vars
  BY StepGetsOn
<1> QED BY <1>1, Inductive, PTL DEF Spec

\* A step that leaves the queue alone, or adds to its end, keeps its order.
LEMMA StepKeepsOrder == ASSUME IInv, Next PROVE NoOvertaking
<1> SUFFICES ASSUME NEW r \in Requests, NEW s \in Requests, Ahead(r, s)
             PROVE  Ahead(r, s)' \/ task'[r] = "get"
  BY DEF NoOvertaking
<1>1. PICK i \in DOMAIN queue, j \in DOMAIN queue : i < j /\ queue[i] = r /\ queue[j] = s
  BY DEF Ahead
<1>2. queue \in Seq(Requests) /\ DOMAIN queue = 1..Len(queue) /\ Len(queue) \in Nat
  BY DEF IInv, TypeOK
<1>3. CASE UNCHANGED queue
  BY <1>1, <1>3 DEF Ahead
<1>4. ASSUME NEW q \in Requests, LookupMiss(q) PROVE Ahead(r, s)'
  <2>1. queue' = Append(queue, q)
    BY <1>4 DEF LookupMiss
  <2>2. /\ i \in DOMAIN queue' /\ j \in DOMAIN queue'
        /\ queue'[i] = queue[i] /\ queue'[j] = queue[j]
    BY <1>1, <1>2, <2>1
  <2> QED BY <1>1, <2>2 DEF Ahead
<1>5. ASSUME NEW q \in Requests, StartTask(q) PROVE Ahead(r, s)' \/ task'[r] = "get"
  <2>1. queue' = Tail(queue) /\ q = queue[1] /\ queue # <<>> /\ task'[q] = "get"
    BY <1>2, <1>5 DEF StartTask, Start, IInv, TypeOK
  <2>2. CASE i = 1
    BY <1>1, <2>1, <2>2
  <2>3. CASE i # 1
    <3>1. /\ i - 1 \in DOMAIN queue' /\ j - 1 \in DOMAIN queue' /\ i - 1 < j - 1
          /\ queue'[i - 1] = queue[i] /\ queue'[j - 1] = queue[j]
      BY <1>1, <1>2, <2>1, <2>3
    <3> QED BY <1>1, <3>1 DEF Ahead
  <2> QED BY <2>2, <2>3
<1>6. ASSUME Upstream PROVE UNCHANGED queue
  BY <1>6 DEF Upstream
<1>7. ASSUME NEW q \in Requests, Arrive(q) \/ Disconnect(q) \/ LookupHit(q) \/ FinishOk(q)
                                 \/ FinishErr(q) \/ Render(q)
      PROVE  UNCHANGED queue
  BY <1>7 DEF Arrive, Disconnect, LookupHit, FinishOk, FinishErr, Respond, Found, Render
<1>8. ASSUME NEW q \in Requests, Get(q) \/ Probe(q) PROVE UNCHANGED queue
  BY <1>8 DEF Get, Probe, GetOk, Get404, GetFails, HeadOk, HeadOther, HeadFails, Return
<1> QED BY <1>3, <1>4, <1>5, <1>6, <1>7, <1>8 DEF Next, Handle

\* No download overtakes one that was queued before it: as long as one waits,
\* those ahead of it stay ahead until they start, and every start leaves fewer.
THEOREM DownloadsKeepTheirOrder == Spec => [][NoOvertaking]_vars
<1>1. IInv /\ [Next]_vars => [NoOvertaking]_vars
  BY StepKeepsOrder
<1> QED BY <1>1, Inductive, PTL DEF Spec

Free ==
    queue # <<>> /\ task[Head(queue)] = "queued" /\ Cardinality(Running) < Workers

\* While a handler or a download waits, its outcome is there, or a thread is at
\* work, or the oldest download can have one.
NobodyStuck ==
    \A r \in Requests :
        pc[r] = "fetching" \/ task[r] = "queued" =>
            task[r] = "done" \/ Running # {} \/ Free

\* Nobody waits for nobody: whatever waits, waits for docs.rs or for a step that
\* its guard allows.
THEOREM NeverStuck == Spec => []NobodyStuck
<1>1. ASSUME IInv, NEW r \in Requests, pc[r] = "fetching" \/ task[r] = "queued",
             task[r] # "done", Running = {}
      PROVE  Free
  <2>1. task[r] \in {"none", "queued", "get", "head", "done"} /\ task[r] # "none"
    BY <1>1 DEF IInv, TypeOK, Control
  <2>2. task[r] = "queued"
    BY <1>1, <2>1 DEF Running
  <2>3. PICK i \in DOMAIN queue : queue[i] = r
    BY <1>1, <2>2 DEF IInv, QueueSound
  <2>4. queue \in Seq(Requests)
    BY <1>1 DEF IInv, TypeOK
  <2>5. queue # <<>> /\ 1 \in DOMAIN queue /\ Head(queue) = queue[1] /\ queue[1] \in Requests
    BY <2>3, <2>4
  <2>6. task[Head(queue)] = "queued"
    BY <1>1, <2>5 DEF IInv, QueueSound
  <2>7. Cardinality(Running) = 0
    BY <1>1, FS_EmptySet
  <2> QED BY <2>5, <2>6, <2>7, WorkersAssumption DEF Free
<1>2. IInv => NobodyStuck
  BY <1>1 DEF NobodyStuck
<1> QED BY <1>2, Inductive, PTL

-----------------------------------------------------------------------------
(* The server implements CrateService                                      *)

AbsContent == [k \in Keys |-> IF Holds(lru, k) THEN Value(lru, k) ELSE NoCrate]
AbsPhase == [r \in Requests |-> Phase(r)]
AbsKrate == [r \in Requests |-> IF pc[r] = "gone" THEN NoCrate ELSE krate[r]]

\* A step of one handler moves that handler's phase and crate at most.
LEMMA PhaseMoves ==
    ASSUME NEW r \in Requests,
           \A s \in Requests \ {r} : pc'[s] = pc[s] /\ krate'[s] = krate[s]
    PROVE  /\ AbsPhase' = [AbsPhase EXCEPT ![r] = Phase(r)']
           /\ AbsKrate' = [AbsKrate EXCEPT ![r] =
                              IF pc'[r] = "gone" THEN NoCrate ELSE krate'[r]]
           /\ Phase(r)' = Phase(r) => UNCHANGED AbsPhase
           /\ AbsPhase[r] = Phase(r)
           /\ AbsKrate[r] = IF pc[r] = "gone" THEN NoCrate ELSE krate[r]
<1>1. \A s \in Requests \ {r} : Phase(s)' = Phase(s)
  BY DEF Phase
<1>2. AbsPhase' = [AbsPhase EXCEPT ![r] = Phase(r)']
  BY <1>1 DEF AbsPhase
<1>3. AbsKrate' = [AbsKrate EXCEPT ![r] =
                     IF pc'[r] = "gone" THEN NoCrate ELSE krate'[r]]
  BY DEF AbsKrate
<1>4. Phase(r)' = Phase(r) => UNCHANGED AbsPhase
  BY <1>1 DEF AbsPhase
<1> QED BY <1>2, <1>3, <1>4 DEF AbsPhase, AbsKrate

\* A step that moves no handler and no crate moves nothing of the service but
\* docs.rs and the answers.
LEMMA Hidden ==
    ASSUME UNCHANGED <<lru, pc, krate>>
    PROVE  UNCHANGED <<AbsContent, AbsPhase, AbsKrate>>
<1>1. \A r \in Requests : Phase(r)' = Phase(r)
  BY DEF Phase
<1> QED BY <1>1 DEF AbsContent, AbsPhase, AbsKrate

LEMMA InitImplements == Init => Service!Init
<1> SUFFICES ASSUME Init PROVE Service!Init
  OBVIOUS
<1>1. AbsContent = [k \in Keys |-> NoCrate]
  BY DEF Init, AbsContent, Holds
<1>2. AbsPhase = [r \in Requests |-> "idle"]
  BY DEF Init, AbsPhase, Phase
<1>3. AbsKrate = [r \in Requests |-> NoCrate]
  BY DEF Init, AbsKrate
<1> QED BY <1>1, <1>2, <1>3
      DEF Init, DocsInit, Service!Init, Service!DocsInit, AbsContent, AbsPhase, AbsKrate

LEMMA ArriveOpens ==
    ASSUME IInv, NEW r \in Requests, Arrive(r) PROVE Service!Open(r)
<1>1. /\ pc[r] = "idle" /\ pc' = [pc EXCEPT ![r] = "lookup"]
      /\ UNCHANGED <<docs, lru, ask, krate, answer>>
  BY DEF Arrive
<1>2. krate[r] = NoCrate /\ pc'[r] = "lookup"
  BY <1>1 DEF IInv, Control, TypeOK
<1>3. Phase(r) = "idle" /\ Phase(r)' = "open"
  BY <1>1, <1>2 DEF Phase
<1>4. \A s \in Requests \ {r} : pc'[s] = pc[s] /\ krate'[s] = krate[s]
  BY <1>1
<1>5. /\ AbsPhase[r] = "idle" /\ AbsPhase' = [AbsPhase EXCEPT ![r] = "open"]
  BY <1>3, <1>4, PhaseMoves
<1>6. UNCHANGED AbsKrate
  <2>1. \A s \in Requests : pc'[s] = "gone" <=> pc[s] = "gone"
    BY <1>1 DEF IInv, TypeOK
  <2> QED BY <1>1, <2>1 DEF AbsKrate
<1>7. UNCHANGED AbsContent
  BY <1>1 DEF AbsContent
<1> QED BY <1>1, <1>5, <1>6, <1>7 DEF Service!Open, AbsContent, AbsPhase, AbsKrate

LEMMA HitReuses ==
    ASSUME IInv, NEW r \in Requests, LookupHit(r) PROVE Service!Reuse(r)
<1>1. /\ pc[r] = "lookup" /\ Holds(lru, Key(r))
      /\ krate' = [krate EXCEPT ![r] = Value(lru, Key(r))]
      /\ lru' = Promote(lru, Key(r))
      /\ pc' = [pc EXCEPT ![r] = "render"]
      /\ UNCHANGED <<docs, ask, answer>>
  BY DEF LookupHit
<1>2. /\ krate[r] = NoCrate /\ pc'[r] = "render"
      /\ krate'[r] = Value(lru, Key(r))
      /\ \A s \in Requests \ {r} : pc'[s] = pc[s] /\ krate'[s] = krate[s]
  BY <1>1 DEF IInv, Control, TypeOK
<1>3. Phase(r) = "open" /\ Phase(r)' = "holding"
  BY <1>1, <1>2 DEF Phase
<1>4. /\ AbsPhase[r] = "open" /\ AbsPhase' = [AbsPhase EXCEPT ![r] = "holding"]
      /\ AbsKrate' = [AbsKrate EXCEPT ![r] = Value(lru, Key(r))]
  BY <1>2, <1>3, PhaseMoves
<1>5. AbsContent[ask[r].key] = Value(lru, Key(r)) /\ Value(lru, Key(r)) # NoCrate
  BY <1>1, HeldIsOwn, ServerFacts DEF AbsContent, Key
<1>6. UNCHANGED AbsContent
  <2>1. /\ \A k : Holds(lru', k) <=> Holds(lru, k)
        /\ \A k : Holds(lru, k) => Value(lru', k) = Value(lru, k)
    BY <1>1, ServerFacts, PromoteKeeps
  <2> QED BY <2>1 DEF AbsContent
<1> QED BY <1>1, <1>4, <1>5, <1>6 DEF Service!Reuse, AbsContent, AbsPhase, AbsKrate

\* The handler learns nothing when it misses.
LEMMA MissStutters ==
    ASSUME IInv, NEW r \in Requests, LookupMiss(r) PROVE UNCHANGED Service!vars
<1>1. /\ pc[r] = "lookup" /\ pc' = [pc EXCEPT ![r] = "fetching"]
      /\ UNCHANGED <<docs, lru, ask, krate, answer>>
  BY DEF LookupMiss
<1>2. /\ krate[r] = NoCrate /\ pc'[r] = "fetching" /\ krate'[r] = NoCrate
      /\ \A s \in Requests \ {r} : pc'[s] = pc[s] /\ krate'[s] = krate[s]
  BY <1>1 DEF IInv, Control, TypeOK
<1>3. Phase(r) = "open" /\ Phase(r)' = "open"
  BY <1>1, <1>2 DEF Phase
<1>4. UNCHANGED AbsPhase
  BY <1>2, <1>3, PhaseMoves
<1>5. UNCHANGED AbsKrate
  <2>1. \A s \in Requests : pc'[s] = "gone" <=> pc[s] = "gone"
    BY <1>1 DEF IInv, TypeOK
  <2> QED BY <1>1, <2>1 DEF AbsKrate
<1>6. UNCHANGED AbsContent
  BY <1>1 DEF AbsContent
<1> QED BY <1>1, <1>4, <1>5, <1>6 DEF Service!vars, AbsContent, AbsPhase, AbsKrate

\* A download that decodes is the request's crate, if there is still one to
\* answer.
LEMMA GetOkLoads ==
    ASSUME IInv, NEW r \in Requests, GetOk(r)
    PROVE  Service!Load(r) \/ UNCHANGED Service!vars
<1>1. /\ task[r] = "get" /\ docs[Key(r)].built
      /\ krate' = [krate EXCEPT ![r] = Served(Key(r))]
      /\ UNCHANGED <<docs, lru, ask, pc, answer>>
  BY DEF GetOk, Return
<1>2. /\ krate[r] = NoCrate /\ pc[r] \in {"fetching", "gone"}
      /\ krate'[r] = Served(Key(r)) /\ krate' \in [Requests -> Crate]
      /\ \A s \in Requests \ {r} : pc'[s] = pc[s] /\ krate'[s] = krate[s]
  BY <1>1, GetOkIInv DEF IInv, Control, TypeOK
<1>3. Served(Key(r)) # NoCrate
  <2>1. docs[Key(r)].release \in Releases /\ Key(r) \in Keys
    BY <1>1, ServerFacts, MaxReleaseAssumption DEF IInv, TypeOK, DocsTypeOK, Releases
  <2> QED BY <2>1, NoCrateAssumption DEF Served, Crates
<1>4. UNCHANGED AbsContent
  BY <1>1 DEF AbsContent
<1>5. CASE pc[r] = "fetching"
  <2>1. Phase(r) = "open" /\ Phase(r)' = "loaded"
    BY <1>1, <1>2, <1>3, <1>5 DEF Phase
  <2>2. pc'[r] # "gone"
    BY <1>1, <1>5
  <2>3. /\ AbsPhase[r] = "open" /\ AbsPhase' = [AbsPhase EXCEPT ![r] = "loaded"]
        /\ AbsKrate' = [AbsKrate EXCEPT ![r] = Served(Key(r))]
    BY <1>2, <2>1, <2>2, PhaseMoves
  <2>4. Service!Served(ask[r].key) = Served(Key(r))
    BY DEF Service!Served, Served, Key
  <2> QED BY <1>1, <1>4, <2>3, <2>4
        DEF Service!Load, AbsContent, AbsPhase, AbsKrate, Key
<1>6. CASE pc[r] = "gone"
  <2>1. Phase(r) = "closed" /\ Phase(r)' = "closed"
    BY <1>1, <1>6 DEF Phase
  <2>2. UNCHANGED AbsPhase
    BY <1>2, <2>1, PhaseMoves
  <2>3. UNCHANGED AbsKrate
    BY <1>1, <1>2, <1>6 DEF AbsKrate
  <2> QED BY <1>1, <1>4, <2>2, <2>3 DEF Service!vars, AbsContent, AbsPhase, AbsKrate
<1> QED BY <1>2, <1>5, <1>6

LEMMA FinishStores ==
    ASSUME IInv, NEW r \in Requests, FinishOk(r) PROVE Service!Store(r)
<1>1. /\ pc[r] = "fetching" /\ task[r] = "done" /\ outcome[r] = "crate"
      /\ lru' = Insert(lru, Key(r), krate[r])
      /\ pc' = [pc EXCEPT ![r] = "render"]
      /\ UNCHANGED <<docs, ask, krate, answer>>
  BY DEF FinishOk
<1>2. /\ krate[r] # NoCrate /\ pc'[r] = "render" /\ krate'[r] = krate[r]
      /\ Entry(Key(r), krate[r]) \in EntrySet
      /\ \A s \in Requests \ {r} : pc'[s] = pc[s] /\ krate'[s] = krate[s]
  BY <1>1, Finished DEF IInv, TypeOK
<1>3. Phase(r) = "loaded" /\ Phase(r)' = "holding"
  BY <1>1, <1>2 DEF Phase
<1>4. AbsPhase[r] = "loaded" /\ AbsPhase' = [AbsPhase EXCEPT ![r] = "holding"]
  BY <1>2, <1>3, PhaseMoves
<1>5. UNCHANGED AbsKrate /\ AbsKrate[r] = krate[r]
  <2>1. \A s \in Requests : pc'[s] = "gone" <=> pc[s] = "gone"
    BY <1>1 DEF IInv, TypeOK
  <2> QED BY <1>1, <2>1 DEF AbsKrate
<1>6. /\ lru' \in Seq(EntrySet)
      /\ Holds(lru', Key(r)) /\ Value(lru', Key(r)) = krate[r]
      /\ \A k : k # Key(r) /\ Holds(lru', k) =>
            Holds(lru, k) /\ Value(lru', k) = Value(lru, k)
  BY <1>1, <1>2, ServerFacts, InsertStores
<1>7. AbsContent' \in [Keys -> Crates \cup {NoCrate}]
  <2>1. ASSUME NEW k \in Keys, Holds(lru', k) PROVE Value(lru', k) \in Crates
    <3>1. lru'[Slot(lru', k)] \in EntrySet
      BY <1>6, <2>1, SlotEntry
    <3> QED BY <3>1 DEF Value, EntrySet
  <2> QED BY <2>1 DEF AbsContent
<1>8. AbsContent'[ask[r].key] = AbsKrate[r]
  BY <1>5, <1>6, ServerFacts DEF AbsContent, Key
<1>9. \A k \in Keys \ {ask[r].key} : AbsContent'[k] \in {AbsContent[k], NoCrate}
  BY <1>6 DEF AbsContent, Key
<1> QED BY <1>1, <1>4, <1>5, <1>7, <1>8, <1>9
      DEF Service!Store, Service!Crates, Service!Releases, Crates, Releases,
          AbsContent, AbsPhase, AbsKrate

LEMMA FinishRefuses ==
    ASSUME IInv, NEW r \in Requests, FinishErr(r) PROVE Service!Refuse(r)
<1>1. /\ pc[r] = "fetching" /\ task[r] = "done" /\ outcome[r] # "crate"
      /\ answer' = [answer EXCEPT ![r] = 502]
      /\ pc' = [pc EXCEPT ![r] = "answered"]
      /\ UNCHANGED <<docs, lru, ask, krate>>
  BY DEF FinishErr, Respond
<1>2. /\ krate[r] = NoCrate /\ pc'[r] = "answered"
      /\ \A s \in Requests \ {r} : pc'[s] = pc[s] /\ krate'[s] = krate[s]
  BY <1>1 DEF IInv, Control, TypeOK
<1>3. Phase(r) = "open" /\ Phase(r)' = "closed"
  BY <1>1, <1>2 DEF Phase
<1>4. AbsPhase[r] = "open" /\ AbsPhase' = [AbsPhase EXCEPT ![r] = "closed"]
  BY <1>2, <1>3, PhaseMoves
<1>5. UNCHANGED AbsKrate
  <2>1. \A s \in Requests : pc'[s] = "gone" <=> pc[s] = "gone"
    BY <1>1 DEF IInv, TypeOK
  <2> QED BY <1>1, <2>1 DEF AbsKrate
<1>6. UNCHANGED AbsContent
  BY <1>1 DEF AbsContent
<1> QED BY <1>1, <1>4, <1>5, <1>6 DEF Service!Refuse, AbsContent, AbsPhase, AbsKrate

LEMMA RenderReplies ==
    ASSUME IInv, NEW r \in Requests, Render(r) PROVE Service!Reply(r)
<1>1. /\ pc[r] = "render"
      /\ pc' = [pc EXCEPT ![r] = "answered"]
      /\ UNCHANGED <<docs, lru, ask, krate>>
  BY DEF Render, Respond, Found
<1>2. /\ pc'[r] = "answered"
      /\ \A s \in Requests \ {r} : pc'[s] = pc[s] /\ krate'[s] = krate[s]
  BY <1>1 DEF IInv, TypeOK
<1>3. Phase(r) = "holding" /\ Phase(r)' = "closed"
  BY <1>1, <1>2 DEF Phase
<1>4. AbsPhase[r] = "holding" /\ AbsPhase' = [AbsPhase EXCEPT ![r] = "closed"]
  BY <1>2, <1>3, PhaseMoves
<1>5. UNCHANGED AbsKrate /\ AbsKrate[r] = krate[r]
  <2>1. \A s \in Requests : pc'[s] = "gone" <=> pc[s] = "gone"
    BY <1>1 DEF IInv, TypeOK
  <2> QED BY <1>1, <2>1 DEF AbsKrate
<1>6. UNCHANGED AbsContent
  BY <1>1 DEF AbsContent
<1>7. answer' = [answer EXCEPT ![r] = Service!Status(r, AbsKrate[r])]
  BY <1>5 DEF Render, Respond, Found, Service!Status
<1> QED BY <1>1, <1>4, <1>5, <1>6, <1>7
      DEF Service!Reply, AbsContent, AbsPhase, AbsKrate

LEMMA DisconnectAbandons ==
    ASSUME IInv, NEW r \in Requests, Disconnect(r) PROVE Service!Abandon(r)
<1>1. /\ pc[r] = "fetching" /\ pc' = [pc EXCEPT ![r] = "gone"]
      /\ UNCHANGED <<docs, lru, ask, krate, answer>>
  BY DEF Disconnect
<1>2. /\ pc'[r] = "gone"
      /\ \A s \in Requests \ {r} : pc'[s] = pc[s] /\ krate'[s] = krate[s]
  BY <1>1 DEF IInv, TypeOK
<1>3. Phase(r) \in {"open", "loaded"} /\ Phase(r)' = "closed"
  BY <1>1, <1>2 DEF Phase
<1>4. /\ AbsPhase[r] \in {"open", "loaded"}
      /\ AbsPhase' = [AbsPhase EXCEPT ![r] = "closed"]
      /\ AbsKrate' = [AbsKrate EXCEPT ![r] = NoCrate]
  BY <1>2, <1>3, PhaseMoves
<1>5. UNCHANGED AbsContent
  BY <1>1 DEF AbsContent
<1> QED BY <1>1, <1>4, <1>5 DEF Service!Abandon, AbsContent, AbsPhase, AbsKrate

LEMMA NextImplements ==
    ASSUME IInv, [Next]_vars PROVE [Service!Next]_(Service!vars)
<1>1. CASE Upstream
  <2>1. PICK k \in Keys : Publish(k) \/ Build(k)
    BY <1>1 DEF Upstream
  <2>2. Service!Publish(k) \/ Service!Build(k)
    BY <2>1 DEF Publish, Build, Service!Publish, Service!Build
  <2>3. UNCHANGED <<AbsContent, AbsPhase, AbsKrate, ask, answer>>
    BY <1>1, Hidden DEF Upstream
  <2>4. Service!Upstream
    BY <2>2, <2>3 DEF Service!Upstream, AbsContent, AbsPhase, AbsKrate
  <2> QED BY <2>4 DEF Service!Next
<1>2. ASSUME NEW r \in Requests, Arrive(r) \/ Handle(r) \/ Disconnect(r)
      PROVE  [Service!Next]_(Service!vars)
  BY <1>2, ArriveOpens, HitReuses, MissStutters, FinishStores, FinishRefuses,
     RenderReplies, DisconnectAbandons DEF Handle, Service!Next
<1>3. ASSUME NEW r \in Requests, StartTask(r) \/ Get(r) \/ Probe(r)
      PROVE  [Service!Next]_(Service!vars)
  <2>1. CASE GetOk(r)
    BY <2>1, GetOkLoads DEF Service!Next
  <2>2. CASE ~GetOk(r)
    <3>1. UNCHANGED <<docs, lru, ask, pc, krate, answer>>
      BY <1>3, <2>2 DEF StartTask, Start, Get, Get404, GetFails, Probe, HeadOk, HeadOther,
         HeadFails, Return
    <3>2. UNCHANGED <<AbsContent, AbsPhase, AbsKrate>>
      BY <3>1, Hidden
    <3> QED BY <3>1, <3>2 DEF Service!vars, AbsContent, AbsPhase, AbsKrate
  <2> QED BY <2>1, <2>2
<1>4. CASE UNCHANGED vars
  <2>1. UNCHANGED <<docs, lru, ask, pc, krate, answer>>
    BY <1>4 DEF vars
  <2>2. UNCHANGED <<AbsContent, AbsPhase, AbsKrate>>
    BY <2>1, Hidden
  <2> QED BY <2>1, <2>2 DEF Service!vars, AbsContent, AbsPhase, AbsKrate
<1> QED BY <1>1, <1>2, <1>3, <1>4 DEF Next

\* ImplementsService: the list, the pool and every overlap of handlers hide
\* behind one map and one crate per request.
THEOREM Implementation == Spec => ImplementsService
<1>1. IInv /\ [Next]_vars => [Service!Next]_(Service!vars)
  BY NextImplements
<1> QED BY <1>1, InitImplements, Inductive, PTL DEF Spec, ImplementsService, Service!Spec
=============================================================================
