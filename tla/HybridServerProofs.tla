------------------------- MODULE HybridServerProofs -------------------------
(***************************************************************************)
(* The server with --cache-dir, for any handlers, keys, releases and       *)
(* rebuilds: its types, what the two tiers give back, the age of what a    *)
(* miss downloads, and that it implements HybridService.                   *)
(***************************************************************************)
EXTENDS HybridServer, TLAPS

\* A handler has a crate exactly from its lookup or download to its answer,
\* and docs.rs has not gone back since it missed.
Control ==
    \A h \in Handlers :
        /\ pc[h] \in {"loaded", "render"} <=> held[h] # NoCrate
        /\ pc[h] = "fetching" => missedAt[h] <= docs[key[h]].release

IInv == TypeOK /\ Control /\ FindsLastPut /\ FreshAfterMiss

\* A release or a build keeps the types and takes no key back.
LEMMA DocsMoveOn ==
    ASSUME DocsTypeOK, NEW k \in Keys, Publish(k) \/ Build(k)
    PROVE  /\ DocsTypeOK'
           /\ \A j \in Keys : docs[j].release <= docs'[j].release
           /\ \A j \in Keys : docs[j].release \in Int /\ docs'[j].release \in Int
<1>1. docs \in [Keys -> [release : 0..MaxRelease, built : BOOLEAN]]
  BY DEF DocsTypeOK
<1>2. docs[k] \in [release : 0..MaxRelease, built : BOOLEAN]
  BY <1>1
<1>3. PICK d \in [release : 0..MaxRelease, built : BOOLEAN] :
          /\ docs' = [docs EXCEPT ![k] = d] /\ docs[k].release <= d.release
          /\ d.built => d.release > 0
  <2>1. CASE Publish(k)
    <3>1. /\ docs[k].release + 1 \in 0..MaxRelease
          /\ docs[k].release <= docs[k].release + 1
      BY <2>1, <1>2, MaxReleaseAssumption DEF Publish
    <3>2. [release |-> docs[k].release + 1, built |-> FALSE]
              \in [release : 0..MaxRelease, built : BOOLEAN]
      BY <3>1
    <3>3. ~[release |-> docs[k].release + 1, built |-> FALSE].built
      OBVIOUS
    <3> QED BY <2>1, <3>1, <3>2, <3>3 DEF Publish
  <2>2. CASE Build(k)
    <3>1. docs' = [docs EXCEPT ![k] = [docs[k] EXCEPT !.built = TRUE]]
      BY <2>2 DEF Build
    <3>2. /\ [docs[k] EXCEPT !.built = TRUE]
                \in [release : 0..MaxRelease, built : BOOLEAN]
          /\ [docs[k] EXCEPT !.built = TRUE].release = docs[k].release
      BY <1>2
    <3>3. docs[k].release <= docs[k].release /\ docs[k].release > 0
      BY <1>2, <2>2 DEF Build
    <3> QED BY <3>1, <3>2, <3>3
  <2> QED BY <2>1, <2>2
<1>4. DocsTypeOK'
  <2>1. \A j \in Keys : docs'[j] = IF j = k THEN d ELSE docs[j]
    BY <1>1, <1>3
  <2>2. \A j \in Keys : docs'[j].built => docs'[j].release > 0
    BY <1>3, <2>1 DEF DocsTypeOK
  <2> QED BY <1>1, <1>3, <2>2 DEF DocsTypeOK
<1>5. ASSUME NEW j \in Keys
      PROVE  /\ docs[j].release <= docs'[j].release
             /\ docs[j].release \in Int /\ docs'[j].release \in Int
  <2>1. docs[j] \in [release : 0..MaxRelease, built : BOOLEAN]
    BY <1>1
  <2>2. docs[j].release \in Int /\ d.release \in Int
    BY <2>1, <1>3
  <2>3. docs'[j] = IF j = k THEN d ELSE docs[j]
    BY <1>1, <1>3
  <2> QED BY <1>3, <2>2, <2>3
<1> QED BY <1>4, <1>5

\* What is served has been released.
LEMMA ServedIsReleased ==
    ASSUME DocsTypeOK, NEW k \in Keys, docs[k].built
    PROVE  Served(k) \in Crates
<1>1. docs[k] \in [release : 0..MaxRelease, built : BOOLEAN] /\ docs[k].release > 0
  BY DEF DocsTypeOK
<1>2. docs[k].release \in 1..MaxRelease
  BY <1>1, MaxReleaseAssumption
<1> QED BY <1>2 DEF Served, Crates, Releases

LEMMA InitIInv == Init => IInv
<1> SUFFICES ASSUME Init PROVE IInv
  OBVIOUS
<1>1. DocsTypeOK
  BY MaxReleaseAssumption DEF Init, DocsInit, DocsTypeOK
<1>2. 1 \in 1..MaxBuild /\ 0 \in 0..MaxRelease
  BY MaxBuildAssumption, MaxReleaseAssumption
<1>3. TypeOK
  BY <1>1, <1>2 DEF Init, TypeOK, Nothing, Entry
<1>4. Control /\ FreshAfterMiss
  BY DEF Init, Control, FreshAfterMiss
<1>5. FindsLastPut
  BY DEF Init, FindsLastPut, Nothing
<1> QED BY <1>3, <1>4, <1>5 DEF IInv

-----------------------------------------------------------------------------
(* One action at a time                                                    *)

LEMMA UpstreamIInv == ASSUME IInv, Upstream PROVE IInv'
<1>1. PICK k \in Keys : Publish(k) \/ Build(k)
  BY DEF Upstream
<1>2. /\ DocsTypeOK'
      /\ \A j \in Keys : docs[j].release <= docs'[j].release
      /\ \A j \in Keys : docs[j].release \in Int /\ docs'[j].release \in Int
  BY <1>1, DocsMoveOn DEF IInv, TypeOK
<1>3. UNCHANGED <<build, memory, unwritten, disk, key, pc, held, missedAt, latest, lost>>
  BY DEF Upstream, tiers, past
<1>4. TypeOK'
  BY <1>2, <1>3 DEF IInv, TypeOK, Entry
<1>5. Control'
  <2>1. \A h \in Handlers : key[h] \in Keys /\ missedAt[h] \in Int
    BY MaxReleaseAssumption DEF IInv, TypeOK
  <2> QED BY <1>2, <1>3, <2>1 DEF IInv, Control
<1>6. FindsLastPut' /\ FreshAfterMiss'
  BY <1>3 DEF IInv, FindsLastPut, FreshAfterMiss
<1> QED BY <1>4, <1>5, <1>6 DEF IInv

\* What a key's lookup may be given is an entry, and the last one put unless
\* that was lost.
LEMMA StoredSound ==
    ASSUME IInv, NEW k \in Keys
    PROVE  /\ Stored(k) \in Entry
           /\ ~lost[k] => Stored(k) \in {NoCrate, latest[k]}
<1>1. Stored(k) \in {memory[k], unwritten[k], disk[k]}
  BY DEF Stored
<1>2. Stored(k) \in Entry
  BY <1>1 DEF IInv, TypeOK
<1>3. CASE memory[k] # NoCrate
  BY <1>2, <1>3 DEF IInv, FindsLastPut, Stored
<1>4. CASE memory[k] = NoCrate /\ unwritten[k] # NoCrate
  BY <1>2, <1>4 DEF IInv, FindsLastPut, Stored
<1>5. CASE memory[k] = NoCrate /\ unwritten[k] = NoCrate
  BY <1>2, <1>5 DEF IInv, FindsLastPut, Stored
<1> QED BY <1>2, <1>3, <1>4, <1>5

LEMMA HitIInv ==
    ASSUME IInv, NEW h \in Handlers, LookupMemory(h) \/ ReadHit(h) PROVE IInv'
<1> DEFINE e == Stored(key[h])
<1>1. /\ key[h] \in Keys /\ e \in Entry /\ e # NoCrate
      /\ ~lost[key[h]] => e \in {NoCrate, latest[key[h]]}
  BY StoredSound DEF IInv, TypeOK, LookupMemory, ReadHit, Stored
<1>2. /\ memory' = [memory EXCEPT ![key[h]] = e]
      /\ held' = [held EXCEPT ![h] = e]
      /\ pc' = [pc EXCEPT ![h] = "render"]
      /\ UNCHANGED <<docs, build, unwritten, disk, key, missedAt, latest, lost>>
  BY DEF IInv, TypeOK, LookupMemory, ReadHit, Hit, Stored, tiers, past
<1> HIDE DEF e
<1>3. TypeOK'
  BY <1>1, <1>2 DEF IInv, TypeOK, DocsTypeOK
<1>4. Control'
  BY <1>1, <1>2 DEF IInv, TypeOK, Control
<1>5. FindsLastPut'
  BY <1>1, <1>2 DEF IInv, TypeOK, FindsLastPut
<1>6. FreshAfterMiss'
  BY <1>2 DEF IInv, TypeOK, FreshAfterMiss
<1> QED BY <1>3, <1>4, <1>5, <1>6 DEF IInv

\* The steps of a handler that leave both tiers alone: where it goes, what it
\* holds and what it saw.
LEMMA QuietIInv ==
    ASSUME IInv, NEW h \in Handlers, NEW k \in Keys,
           Arrive(h, k) \/ LookupDisk(h) \/ Reply(h) \/ GiveUp(h)
    PROVE  IInv'
<1>1. /\ \A g \in Handlers \ {h} : /\ pc'[g] = pc[g] /\ held'[g] = held[g]
                                   /\ key'[g] = key[g] /\ missedAt'[g] = missedAt[g]
      /\ pc'[h] \in {"idle", "lookup", "reading"} /\ held'[h] = NoCrate
      /\ UNCHANGED <<docs, build, memory, unwritten, disk, latest, lost>>
  BY DEF IInv, TypeOK, Control, Arrive, LookupDisk, Reply, GiveUp, Leave, tiers, past
<1>2. /\ key' \in [Handlers -> Keys] /\ held' \in [Handlers -> Entry]
      /\ missedAt' \in [Handlers -> 0..MaxRelease]
      /\ pc' \in [Handlers -> {"idle", "lookup", "reading", "fetching", "loaded", "render"}]
  BY MaxReleaseAssumption
     DEF IInv, TypeOK, Entry, Arrive, LookupDisk, Reply, GiveUp, Leave
<1>3. TypeOK'
  BY <1>1, <1>2 DEF IInv, TypeOK, DocsTypeOK
<1>4. Control' /\ FreshAfterMiss'
  BY <1>1 DEF IInv, Control, FreshAfterMiss
<1>5. FindsLastPut'
  BY <1>1 DEF IInv, FindsLastPut
<1> QED BY <1>3, <1>4, <1>5 DEF IInv

LEMMA ReadMissIInv == ASSUME IInv, NEW h \in Handlers, ReadMiss(h) PROVE IInv'
<1>1. /\ pc[h] = "reading" /\ pc' = [pc EXCEPT ![h] = "fetching"]
      /\ missedAt' = [missedAt EXCEPT ![h] = docs[key[h]].release]
      /\ UNCHANGED <<docs, build, memory, unwritten, disk, key, held, latest, lost>>
  BY DEF ReadMiss, tiers, past
<1>2. docs[key[h]].release \in 0..MaxRelease
  BY DEF IInv, TypeOK, DocsTypeOK
<1>3. TypeOK'
  BY <1>1, <1>2 DEF IInv, TypeOK, DocsTypeOK
<1>4. Control'
  BY <1>1, <1>2, MaxReleaseAssumption DEF IInv, TypeOK, Control
<1>5. FindsLastPut' /\ FreshAfterMiss'
  BY <1>1 DEF IInv, TypeOK, FindsLastPut, FreshAfterMiss
<1> QED BY <1>3, <1>4, <1>5 DEF IInv

LEMMA FetchOkIInv == ASSUME IInv, NEW h \in Handlers, FetchOk(h) PROVE IInv'
<1> DEFINE e == Downloaded(key[h])
<1>1. /\ pc[h] = "fetching" /\ pc' = [pc EXCEPT ![h] = "loaded"]
      /\ held' = [held EXCEPT ![h] = e]
      /\ UNCHANGED <<docs, build, memory, unwritten, disk, key, missedAt, latest, lost>>
  BY DEF FetchOk, tiers, past
<1>2. e \in Entries /\ e.format = build /\ e.crate.release = docs[key[h]].release
  <2>1. Served(key[h]) \in Crates
    BY ServedIsReleased DEF IInv, TypeOK, FetchOk
  <2> QED BY <2>1 DEF IInv, TypeOK, Downloaded, Entries, Served
<1>3. e # NoCrate
  BY <1>2, NoEntryAssumption
<1>4. /\ missedAt[h] \in Int /\ docs[key[h]].release \in Int
      /\ missedAt[h] <= docs[key[h]].release
  BY <1>1, MaxReleaseAssumption DEF IInv, TypeOK, DocsTypeOK, Control
<1>5. e.crate.release >= missedAt[h]
  BY <1>2, <1>4
<1> HIDE DEF e
<1>6. TypeOK'
  BY <1>1, <1>2 DEF IInv, TypeOK, DocsTypeOK, Entry
<1>7. Control'
  BY <1>1, <1>3 DEF IInv, TypeOK, Control
<1>8. FindsLastPut'
  BY <1>1 DEF IInv, FindsLastPut
<1>9. FreshAfterMiss'
  BY <1>1, <1>2, <1>5 DEF IInv, TypeOK, FreshAfterMiss
<1> QED BY <1>6, <1>7, <1>8, <1>9 DEF IInv

LEMMA PutIInv == ASSUME IInv, NEW h \in Handlers, Put(h) PROVE IInv'
<1>1. /\ pc[h] = "loaded" /\ pc' = [pc EXCEPT ![h] = "render"]
      /\ memory' = [memory EXCEPT ![key[h]] = held[h]]
      /\ latest' = [latest EXCEPT ![key[h]] = held[h]]
      /\ UNCHANGED <<docs, build, disk, key, held, missedAt>>
  BY DEF Put
<1>2. key[h] \in Keys /\ held[h] \in Entry /\ held[h] # NoCrate
  BY <1>1 DEF IInv, TypeOK, Control
<1>3. TypeOK' /\ FindsLastPut'
  <2>1. CASE /\ unwritten' = [unwritten EXCEPT ![key[h]] = held[h]]
             /\ lost' = [lost EXCEPT ![key[h]] = FALSE]
    <3>1. TypeOK'
      BY <1>1, <1>2, <2>1 DEF IInv, TypeOK, DocsTypeOK
    <3>2. FindsLastPut'
      BY <1>1, <1>2, <2>1 DEF IInv, TypeOK, FindsLastPut
    <3> QED BY <3>1, <3>2
  <2>2. CASE lost' = [lost EXCEPT ![key[h]] = TRUE] /\ UNCHANGED unwritten
    <3>1. TypeOK'
      BY <1>1, <1>2, <2>2 DEF IInv, TypeOK, DocsTypeOK
    <3>2. FindsLastPut'
      BY <1>1, <1>2, <2>2 DEF IInv, TypeOK, FindsLastPut
    <3> QED BY <3>1, <3>2
  <2> QED BY <2>1, <2>2 DEF Put
<1>4. Control' /\ FreshAfterMiss'
  BY <1>1 DEF IInv, TypeOK, Control, FreshAfterMiss
<1> QED BY <1>3, <1>4 DEF IInv

LEMMA FoyerIInv == ASSUME IInv, Foyer PROVE IInv'
<1>1. UNCHANGED <<docs, build, key, pc, held, missedAt>>
  BY DEF Foyer
<1>2. Control' /\ FreshAfterMiss'
  BY <1>1 DEF IInv, Control, FreshAfterMiss
<1>3. PICK k \in Keys : Written(k) \/ WriteFails(k) \/ EvictMemory(k) \/ EvictDisk(k)
  BY DEF Foyer
<1>4. NoCrate \in Entry
  BY DEF Entry
<1>5. CASE Written(k)
  <2>1. TypeOK'
    BY <1>1, <1>4, <1>5 DEF IInv, TypeOK, DocsTypeOK, Written, past
  <2>2. FindsLastPut'
    BY <1>5 DEF IInv, TypeOK, FindsLastPut, Written, past
  <2> QED BY <1>2, <2>1, <2>2 DEF IInv
<1>6. CASE WriteFails(k)
  <2>1. TypeOK'
    BY <1>1, <1>4, <1>6 DEF IInv, TypeOK, DocsTypeOK, WriteFails
  <2>2. FindsLastPut'
    BY <1>6 DEF IInv, TypeOK, FindsLastPut, WriteFails
  <2> QED BY <1>2, <2>1, <2>2 DEF IInv
<1>7. CASE EvictMemory(k)
  <2>1. TypeOK'
    BY <1>1, <1>4, <1>7 DEF IInv, TypeOK, DocsTypeOK, EvictMemory, past
  <2>2. FindsLastPut'
    BY <1>7 DEF IInv, TypeOK, FindsLastPut, EvictMemory, past
  <2> QED BY <1>2, <2>1, <2>2 DEF IInv
<1>8. CASE EvictDisk(k)
  <2>1. TypeOK'
    BY <1>1, <1>4, <1>8 DEF IInv, TypeOK, DocsTypeOK, EvictDisk, past
  <2>2. FindsLastPut'
    BY <1>8 DEF IInv, TypeOK, FindsLastPut, EvictDisk, past
  <2> QED BY <1>2, <2>1, <2>2 DEF IInv
<1> QED BY <1>3, <1>5, <1>6, <1>7, <1>8

\* docs.rs may be without the new build's format, and has every release.
LEMMA RestartDocs ==
    ASSUME IInv, Restart
    PROVE  DocsTypeOK' /\ \A k \in Keys : docs'[k].release = docs[k].release
<1>1. docs \in [Keys -> [release : 0..MaxRelease, built : BOOLEAN]]
  BY DEF IInv, TypeOK, DocsTypeOK
<1>2. CASE docs' = docs
  BY <1>2 DEF IInv, TypeOK, DocsTypeOK
<1>3. ASSUME NEW built \in [Keys -> BOOLEAN],
             docs' = [k \in Keys |-> [docs[k] EXCEPT !.built = built[k] /\ docs[k].release > 0]]
      PROVE  DocsTypeOK' /\ \A k \in Keys : docs'[k].release = docs[k].release
  <2>1. ASSUME NEW k \in Keys
        PROVE  /\ docs'[k] \in [release : 0..MaxRelease, built : BOOLEAN]
               /\ docs'[k].release = docs[k].release
               /\ docs'[k].built => docs[k].release > 0
    <3>1. docs[k] \in [release : 0..MaxRelease, built : BOOLEAN]
      BY <1>1
    <3> DEFINE b == built[k] /\ docs[k].release > 0
    <3>2. docs'[k] = [docs[k] EXCEPT !.built = b] /\ b \in BOOLEAN
      BY <1>3
    <3>3. b => docs[k].release > 0
      OBVIOUS
    <3> HIDE DEF b
    <3>4. /\ docs'[k] \in [release : 0..MaxRelease, built : BOOLEAN]
          /\ docs'[k].release = docs[k].release
      BY <3>1, <3>2
    <3>5. docs'[k].built = b
      BY <3>1, <3>2
    <3> QED BY <3>3, <3>4, <3>5
  <2>2. docs' \in [Keys -> [release : 0..MaxRelease, built : BOOLEAN]]
    BY <1>3, <2>1
  <2>3. \A k \in Keys : docs'[k].built => docs'[k].release > 0
    BY <2>1
  <2> QED BY <2>1, <2>2, <2>3 DEF DocsTypeOK
<1> QED BY <1>2, <1>3 DEF Restart

LEMMA RestartIInv == ASSUME IInv, Restart PROVE IInv'
<1>1. /\ memory' = Nothing /\ unwritten' = Nothing
      /\ disk' \in [Keys -> Entry] /\ build' \in 1..MaxBuild
      /\ \A k \in Keys : disk'[k] \in {disk[k], NoCrate}
      /\ lost' = [k \in Keys |-> lost[k] \/ unwritten[k] # NoCrate]
      /\ UNCHANGED <<key, latest>>
  BY DEF Restart, Entry
<1>2. /\ pc' = [h \in Handlers |-> "idle"] /\ held' = [h \in Handlers |-> NoCrate]
      /\ missedAt' = [h \in Handlers |-> 0]
  BY DEF Restart
<1>3. Nothing \in [Keys -> Entry] /\ lost' \in [Keys -> BOOLEAN]
  BY <1>1 DEF Nothing, Entry, IInv, TypeOK
<1>4. held' \in [Handlers -> Entry] /\ missedAt' \in [Handlers -> 0..MaxRelease]
  BY <1>2, MaxReleaseAssumption DEF Entry
<1>5. TypeOK'
  BY <1>1, <1>2, <1>3, <1>4, RestartDocs DEF IInv, TypeOK
<1>6. Control' /\ FreshAfterMiss'
  BY <1>2 DEF Control, FreshAfterMiss
<1>7. FindsLastPut'
  <2> SUFFICES ASSUME NEW k \in Keys, ~lost'[k]
               PROVE  /\ memory'[k] = NoCrate /\ unwritten'[k] = NoCrate
                      /\ disk'[k] \in {NoCrate, latest[k]}
    BY <1>1 DEF FindsLastPut
  <2>1. ~lost[k] /\ unwritten[k] = NoCrate
    BY <1>1
  <2> QED BY <1>1, <2>1 DEF IInv, FindsLastPut, Nothing
<1> QED BY <1>5, <1>6, <1>7 DEF IInv

LEMMA NextIInv == IInv /\ [Next]_vars => IInv'
<1> SUFFICES ASSUME IInv, [Next]_vars PROVE IInv'
  OBVIOUS
<1>1. CASE Upstream \/ Foyer \/ Restart
  BY <1>1, UpstreamIInv, FoyerIInv, RestartIInv
<1>2. ASSUME NEW h \in Handlers, NEW k \in Keys, Arrive(h, k)
      PROVE  IInv'
  BY <1>2, QuietIInv
<1>3. ASSUME NEW h \in Handlers, LookupMemory(h) \/ ReadHit(h) \/ ReadMiss(h)
                                   \/ FetchOk(h) \/ Put(h)
      PROVE  IInv'
  BY <1>3, HitIInv, ReadMissIInv, FetchOkIInv, PutIInv
<1>4. ASSUME NEW h \in Handlers, LookupDisk(h) \/ Reply(h) \/ GiveUp(h)
      PROVE  IInv'
  <2>1. key[h] \in Keys
    BY DEF IInv, TypeOK
  <2> QED BY <1>4, <2>1, QuietIInv
<1>5. CASE UNCHANGED vars
  BY <1>5 DEF vars, tiers, past, IInv, TypeOK, DocsTypeOK, Control, FindsLastPut, FreshAfterMiss
<1> QED BY <1>1, <1>2, <1>3, <1>4, <1>5 DEF Next

-----------------------------------------------------------------------------
\* The inductive invariant holds throughout.
THEOREM Inductive == Spec => []IInv
BY InitIInv, NextIInv, PTL DEF Spec

\* TypeOK: both tiers only ever hold what some build decoded.
THEOREM AlwaysTyped == Spec => []TypeOK
<1>1. IInv => TypeOK
  BY DEF IInv
<1> QED BY <1>1, Inductive, PTL

\* FindsLastPut: no eviction, read or restart brings back an older crate
\* unless foyer lost the write of the newest.
THEOREM AlwaysFindsLastPut == Spec => []FindsLastPut
<1>1. IInv => FindsLastPut
  BY DEF IInv
<1> QED BY <1>1, Inductive, PTL

\* FreshAfterMiss: a miss of both tiers ends in a crate of the build that
\* runs, no older than what docs.rs had at the miss.
THEOREM AlwaysFreshAfterMiss == Spec => []FreshAfterMiss
<1>1. IInv => FreshAfterMiss
  BY DEF IInv
<1> QED BY <1>1, Inductive, PTL

-----------------------------------------------------------------------------
(* The implementation of HybridService                                     *)

AbsFindable == [k \in Keys |-> {memory[k], unwritten[k], disk[k]} \ {NoCrate}]
AbsPhase == [h \in Handlers |-> Phase(h)]

LEMMA FindableTyped == ASSUME TypeOK PROVE AbsFindable \in [Keys -> SUBSET Service!Entries]
<1>1. Service!Entries = Entries
  BY DEF Service!Entries, Entries, Service!Crates, Crates, Service!Releases, Releases
<1>2. \A k \in Keys : {memory[k], unwritten[k], disk[k]} \ {NoCrate} \in SUBSET Entries
  BY DEF TypeOK, Entry
<1> QED BY <1>1, <1>2 DEF AbsFindable

\* A step of one handler moves that handler's phase at most.
LEMMA PhaseMoves ==
    ASSUME NEW h \in Handlers, \A g \in Handlers \ {h} : pc'[g] = pc[g]
    PROVE  /\ AbsPhase[h] = Phase(h)
           /\ AbsPhase' = [AbsPhase EXCEPT ![h] = Phase(h)']
           /\ Phase(h)' = Phase(h) => UNCHANGED AbsPhase
<1>1. \A g \in Handlers \ {h} : Phase(g)' = Phase(g)
  BY DEF Phase
<1> QED BY <1>1 DEF AbsPhase

LEMMA InitImplements == Init => Service!Init
<1> SUFFICES ASSUME Init PROVE Service!Init
  OBVIOUS
<1>1. AbsFindable = [k \in Keys |-> {}]
  BY DEF Init, AbsFindable, Nothing
<1>2. AbsPhase = [h \in Handlers |-> "idle"]
  BY DEF Init, AbsPhase, Phase
<1> QED BY <1>1, <1>2
      DEF Init, DocsInit, Service!Init, Service!DocsInit, AbsFindable, AbsPhase

LEMMA ArriveOpens ==
    ASSUME IInv, NEW h \in Handlers, NEW k \in Keys, Arrive(h, k)
    PROVE  Service!Open(h)
<1>1. /\ pc[h] = "idle" /\ pc' = [pc EXCEPT ![h] = "lookup"]
      /\ key' = [key EXCEPT ![h] = k]
      /\ UNCHANGED <<docs, build, memory, unwritten, disk, held>>
  BY DEF Arrive, tiers
<1>2. Phase(h) = "idle" /\ Phase(h)' = "open"
  BY <1>1 DEF IInv, TypeOK, Phase
<1>3. AbsPhase[h] = "idle" /\ AbsPhase' = [AbsPhase EXCEPT ![h] = "open"]
  BY <1>1, <1>2, PhaseMoves
<1>4. UNCHANGED AbsFindable
  BY <1>1 DEF AbsFindable
<1> QED BY <1>1, <1>3, <1>4 DEF Service!Open, AbsFindable, AbsPhase

LEMMA HitFinds ==
    ASSUME IInv, NEW h \in Handlers, LookupMemory(h) \/ ReadHit(h)
    PROVE  Service!Find(h)
<1>1. /\ pc[h] \in {"lookup", "reading"} /\ pc' = [pc EXCEPT ![h] = "render"]
      /\ held' = [held EXCEPT ![h] = Stored(key[h])] /\ Stored(key[h]) # NoCrate
      /\ memory' = [memory EXCEPT ![key[h]] = Stored(key[h])]
      /\ UNCHANGED <<docs, build, unwritten, disk, key>>
  BY DEF IInv, TypeOK, LookupMemory, ReadHit, Hit, Stored, tiers
<1>2. Phase(h) = "open" /\ Phase(h)' = "holding"
  BY <1>1 DEF IInv, TypeOK, Phase
<1>3. AbsPhase[h] = "open" /\ AbsPhase' = [AbsPhase EXCEPT ![h] = "holding"]
  BY <1>1, <1>2, PhaseMoves
<1>4. key[h] \in Keys
  BY DEF IInv, TypeOK
<1>5. Stored(key[h]) \in AbsFindable[key[h]]
  BY <1>1, <1>4 DEF AbsFindable, Stored
<1>6. UNCHANGED AbsFindable
  <2>1. ASSUME NEW k \in Keys
        PROVE  {memory'[k], unwritten[k], disk[k]} \ {NoCrate}
                   = {memory[k], unwritten[k], disk[k]} \ {NoCrate}
    <3>1. CASE k # key[h]
      BY <1>1, <3>1
    <3>2. CASE k = key[h]
      <4>1. memory'[k] = Stored(k) /\ memory[k] \in {Stored(k), NoCrate}
        BY <1>1, <3>2 DEF IInv, TypeOK, Stored
      <4>2. memory[k] = NoCrate => Stored(k) \in {unwritten[k], disk[k]}
        BY DEF Stored
      <4> QED BY <4>1, <4>2
    <3> QED BY <3>1, <3>2
  <2> QED BY <1>1, <2>1 DEF AbsFindable
<1> QED BY <1>1, <1>3, <1>5, <1>6 DEF Service!Find, AbsFindable, AbsPhase

LEMMA WaitStutters ==
    ASSUME IInv, NEW h \in Handlers, LookupDisk(h) \/ ReadMiss(h)
    PROVE  UNCHANGED Service!vars
<1>1. /\ pc[h] \in {"lookup", "reading"} /\ pc'[h] \in {"reading", "fetching"}
      /\ \A g \in Handlers \ {h} : pc'[g] = pc[g]
      /\ UNCHANGED <<docs, build, memory, unwritten, disk, key, held>>
  BY DEF IInv, TypeOK, LookupDisk, ReadMiss, tiers
<1>2. Phase(h)' = Phase(h)
  BY <1>1 DEF Phase
<1>3. UNCHANGED <<AbsPhase, AbsFindable>>
  BY <1>1, <1>2, PhaseMoves DEF AbsFindable
<1> QED BY <1>1, <1>3 DEF Service!vars, AbsFindable, AbsPhase

LEMMA FetchOkLoads ==
    ASSUME IInv, NEW h \in Handlers, FetchOk(h) PROVE Service!Load(h)
<1>1. /\ pc[h] = "fetching" /\ pc' = [pc EXCEPT ![h] = "loaded"]
      /\ docs[key[h]].built /\ held' = [held EXCEPT ![h] = Downloaded(key[h])]
      /\ UNCHANGED <<docs, build, memory, unwritten, disk, key>>
  BY DEF FetchOk, tiers
<1>2. Phase(h) = "open" /\ Phase(h)' = "loaded"
  BY <1>1 DEF IInv, TypeOK, Phase
<1>3. AbsPhase[h] = "open" /\ AbsPhase' = [AbsPhase EXCEPT ![h] = "loaded"]
  BY <1>1, <1>2, PhaseMoves
<1>4. UNCHANGED AbsFindable
  BY <1>1 DEF AbsFindable
<1> QED BY <1>1, <1>3, <1>4
      DEF Service!Load, AbsFindable, AbsPhase, Downloaded, Served, Service!Served

LEMMA PutStores ==
    ASSUME IInv, NEW h \in Handlers, Put(h) PROVE Service!Store(h)
<1>1. /\ pc[h] = "loaded" /\ pc' = [pc EXCEPT ![h] = "render"]
      /\ memory' = [memory EXCEPT ![key[h]] = held[h]]
      /\ unwritten' = unwritten \/ unwritten' = [unwritten EXCEPT ![key[h]] = held[h]]
      /\ UNCHANGED <<docs, build, disk, key, held>>
  BY DEF Put
<1>2. Phase(h) = "loaded" /\ Phase(h)' = "holding"
  BY <1>1 DEF IInv, TypeOK, Phase
<1>3. AbsPhase[h] = "loaded" /\ AbsPhase' = [AbsPhase EXCEPT ![h] = "holding"]
  BY <1>1, <1>2, PhaseMoves
<1>4. key[h] \in Keys /\ held[h] # NoCrate
  BY <1>1 DEF IInv, TypeOK, Control
<1>5. /\ memory'[key[h]] = held[h]
      /\ unwritten'[key[h]] \in {unwritten[key[h]], held[h]}
      /\ \A k \in Keys \ {key[h]} : memory'[k] = memory[k] /\ unwritten'[k] = unwritten[k]
  BY <1>1, <1>4 DEF IInv, TypeOK
<1>6. /\ held[h] \in AbsFindable'[key[h]]
      /\ AbsFindable'[key[h]] \subseteq AbsFindable[key[h]] \cup {held[h]}
      /\ \A k \in Keys \ {key[h]} : AbsFindable'[k] \subseteq AbsFindable[k]
  BY <1>1, <1>4, <1>5 DEF AbsFindable
<1>7. AbsFindable' \in [Keys -> SUBSET Service!Entries]
  <2>1. TypeOK'
    BY PutIInv DEF IInv
  <2>2. \A k \in Keys : AbsFindable'[k] \in SUBSET Entries
    BY <2>1 DEF TypeOK, Entry, AbsFindable
  <2>3. Service!Entries = Entries
    BY DEF Service!Entries, Entries, Service!Crates, Crates, Service!Releases, Releases
  <2> QED BY <2>2, <2>3 DEF AbsFindable
<1> QED BY <1>1, <1>3, <1>6, <1>7 DEF Service!Store, AbsFindable, AbsPhase

LEMMA LeaveCloses ==
    ASSUME IInv, NEW h \in Handlers, Reply(h) \/ GiveUp(h) PROVE Service!Close(h)
<1>1. /\ pc[h] # "idle" /\ pc' = [pc EXCEPT ![h] = "idle"]
      /\ held' = [held EXCEPT ![h] = NoCrate]
      /\ UNCHANGED <<docs, build, memory, unwritten, disk, key>>
  BY DEF Reply, GiveUp, Leave, tiers
<1>2. Phase(h) # "idle" /\ Phase(h)' = "idle"
  BY <1>1 DEF IInv, TypeOK, Phase
<1>3. AbsPhase[h] # "idle" /\ AbsPhase' = [AbsPhase EXCEPT ![h] = "idle"]
  BY <1>1, <1>2, PhaseMoves
<1>4. UNCHANGED AbsFindable
  BY <1>1 DEF AbsFindable
<1> QED BY <1>1, <1>3, <1>4 DEF Service!Close, AbsFindable, AbsPhase

LEMMA FoyerForgets == ASSUME IInv, Foyer PROVE Service!Forget
<1>1. UNCHANGED <<docs, build, key, pc, held>>
  BY DEF Foyer
<1>2. PICK k \in Keys : Written(k) \/ WriteFails(k) \/ EvictMemory(k) \/ EvictDisk(k)
  BY DEF Foyer
<1>3. \A j \in Keys : AbsFindable'[j] \subseteq AbsFindable[j]
  <2> SUFFICES ASSUME NEW j \in Keys
               PROVE  {memory'[j], unwritten'[j], disk'[j]} \ {NoCrate}
                          \subseteq {memory[j], unwritten[j], disk[j]} \ {NoCrate}
    BY DEF AbsFindable
  <2>1. CASE Written(k)
    BY <2>1 DEF IInv, TypeOK, Written
  <2>2. CASE WriteFails(k)
    BY <2>2 DEF IInv, TypeOK, WriteFails
  <2>3. CASE EvictMemory(k)
    BY <2>3 DEF IInv, TypeOK, EvictMemory
  <2>4. CASE EvictDisk(k)
    BY <2>4 DEF IInv, TypeOK, EvictDisk
  <2> QED BY <1>2, <2>1, <2>2, <2>3, <2>4
<1>4. UNCHANGED AbsPhase
  BY <1>1 DEF AbsPhase, Phase
<1>5. AbsFindable' \in [Keys -> SUBSET Service!Entries]
  BY <1>3, FindableTyped DEF IInv, AbsFindable
<1> QED BY <1>1, <1>3, <1>4, <1>5 DEF Service!Forget, Service!Shrinks, AbsFindable, AbsPhase

LEMMA RestartRestarts == ASSUME IInv, Restart PROVE Service!Restart
<1>1. /\ memory' = Nothing /\ unwritten' = Nothing
      /\ \A k \in Keys : disk'[k] \in {disk[k], NoCrate}
      /\ pc' = [h \in Handlers |-> "idle"] /\ held' = [h \in Handlers |-> NoCrate]
      /\ build' \in {n \in 1..MaxBuild : n \in {build, build + 1}}
      /\ build' = build => docs' = docs
      /\ UNCHANGED key
  BY DEF Restart
<1>2. \A k \in Keys : AbsFindable'[k] \subseteq AbsFindable[k]
  BY <1>1 DEF AbsFindable, Nothing
<1>3. AbsFindable' \in [Keys -> SUBSET Service!Entries]
  BY <1>2, FindableTyped DEF IInv, AbsFindable
<1>4. AbsPhase' = [h \in Handlers |-> "idle"]
  BY <1>1 DEF AbsPhase, Phase
<1>5. /\ docs' \in [Keys -> [release : 0..MaxRelease, built : BOOLEAN]]
      /\ \A k \in Keys : docs'[k].release = docs[k].release
  BY RestartDocs DEF DocsTypeOK
<1> QED BY <1>1, <1>2, <1>3, <1>4, <1>5
      DEF Service!Restart, Service!Shrinks, AbsFindable, AbsPhase

LEMMA NextImplements ==
    ASSUME IInv, [Next]_vars PROVE [Service!Next]_(Service!vars)
<1>1. CASE Upstream
  <2>1. PICK k \in Keys : Publish(k) \/ Build(k)
    BY <1>1 DEF Upstream
  <2>2. Service!Publish(k) \/ Service!Build(k)
    BY <2>1 DEF Publish, Build, Service!Publish, Service!Build
  <2>3. UNCHANGED <<build, memory, unwritten, disk, key, pc, held>>
    BY <1>1 DEF Upstream, tiers
  <2>4. UNCHANGED <<AbsFindable, AbsPhase>>
    BY <2>3 DEF AbsFindable, AbsPhase, Phase
  <2>5. Service!Upstream
    BY <2>2, <2>3, <2>4 DEF Service!Upstream, AbsFindable, AbsPhase
  <2> QED BY <2>5 DEF Service!Next
<1>2. CASE Foyer \/ Restart
  BY <1>2, FoyerForgets, RestartRestarts DEF Service!Next
<1>3. ASSUME NEW h \in Handlers, NEW k \in Keys, Arrive(h, k)
      PROVE  [Service!Next]_(Service!vars)
  BY <1>3, ArriveOpens DEF Service!Next
<1>4. ASSUME NEW h \in Handlers,
             LookupMemory(h) \/ LookupDisk(h) \/ ReadHit(h) \/ ReadMiss(h)
               \/ FetchOk(h) \/ Put(h) \/ Reply(h) \/ GiveUp(h)
      PROVE  [Service!Next]_(Service!vars)
  BY <1>4, HitFinds, WaitStutters, FetchOkLoads, PutStores, LeaveCloses DEF Service!Next
<1>5. CASE UNCHANGED vars
  <2>1. UNCHANGED <<docs, build, memory, unwritten, disk, key, pc, held>>
    BY <1>5 DEF vars, tiers
  <2>2. UNCHANGED <<AbsFindable, AbsPhase>>
    BY <2>1 DEF AbsFindable, AbsPhase, Phase
  <2> QED BY <2>1, <2>2 DEF Service!vars, AbsFindable, AbsPhase
<1> QED BY <1>1, <1>2, <1>3, <1>4, <1>5 DEF Next

\* ImplementsService: memory, pending writes and disk hide behind one set of
\* crates per key that only a finished download adds to, and that evictions,
\* failed writes and restarts only take from.
THEOREM Implementation == Spec => ImplementsService
<1>1. IInv /\ [Next]_vars => [Service!Next]_(Service!vars)
  BY NextImplements
<1> QED BY <1>1, InitImplements, Inductive, PTL DEF Spec, ImplementsService, Service!Spec
=============================================================================
