---------------------------- MODULE HybridServer ----------------------------
(***************************************************************************)
(* md-docrs-server with --cache-dir: handlers run load_crate over foyer's  *)
(* two tiers (cache/hybrid.rs).  A get that memory cannot answer awaits a  *)
(* read of the disk; a put returns when memory has the entry, and the disk *)
(* gets it later or never; main ends without close.  A restart recovers    *)
(* what the disk still has, perhaps under a build with another             *)
(* FORMAT_VERSION, which get never looks at.  Foyer itself is external:    *)
(* it serves an entry whose write is pending before an older one on disk.  *)
(* The pool of the downloads is CrateServer's subject and left out.        *)
(***************************************************************************)
EXTENDS DocsRs

CONSTANTS
    Handlers,  \* the requests that may be open at once
    MaxBuild   \* bound: FORMAT_VERSIONs the program is rebuilt with

ASSUME MaxBuildAssumption == MaxBuild \in Nat \ {0}

\* A decoded crate in the FORMAT_VERSION of the build that decoded it.
Entries == [crate : Crates, format : 1..MaxBuild]

ASSUME NoEntryAssumption == NoCrate \notin Entries

VARIABLES
    build,      \* the FORMAT_VERSION of the program that runs
    memory,     \* foyer's memory tier: key -> the entry, or NoCrate
    unwritten,  \* key -> the entry still to be written, or NoCrate
    disk,       \* foyer's disk tier: key -> the entry, or NoCrate
    key,        \* handler -> the key it is asked for
    pc,         \* handler -> where it is
    held,       \* handler -> the entry it has, or NoCrate
    missedAt,   \* history: handler -> the release docs.rs was at when it missed
    latest,     \* history: key -> the entry that was put last, or NoCrate
    lost        \* history: key -> that entry's write failed or was cut off

tiers == <<memory, unwritten, disk>>
past == <<latest, lost>>
vars == <<docs, build, tiers, key, pc, held, missedAt, past>>

Nothing == [k \in Keys |-> NoCrate]

Init ==
    /\ DocsInit
    /\ build = 1
    /\ memory = Nothing /\ unwritten = Nothing /\ disk = Nothing
    /\ key \in [Handlers -> Keys]
    /\ pc = [h \in Handlers |-> "idle"]
    /\ held = [h \in Handlers |-> NoCrate]
    /\ missedAt = [h \in Handlers |-> 0]
    /\ latest = Nothing
    /\ lost = [k \in Keys |-> FALSE]

Upstream ==
    /\ \E k \in Keys : Publish(k) \/ Build(k)
    /\ UNCHANGED <<build, tiers, key, pc, held, missedAt, past>>

-----------------------------------------------------------------------------
(* load_crate over FoyerHybridCache                                        *)

Arrive(h, k) ==
    /\ pc[h] = "idle"
    /\ key' = [key EXCEPT ![h] = k]
    /\ pc' = [pc EXCEPT ![h] = "lookup"]
    /\ UNCHANGED <<docs, build, tiers, held, missedAt, past>>

Hit(h, e) ==
    /\ held' = [held EXCEPT ![h] = e]
    /\ pc' = [pc EXCEPT ![h] = "render"]
    /\ UNCHANGED <<docs, build, key, missedAt, past>>

LookupMemory(h) ==
    /\ pc[h] = "lookup"
    /\ memory[key[h]] # NoCrate
    /\ Hit(h, memory[key[h]])
    /\ UNCHANGED tiers

\* The get has to wait for the disk: its handler gives up its thread.
LookupDisk(h) ==
    /\ pc[h] = "lookup"
    /\ memory[key[h]] = NoCrate
    /\ pc' = [pc EXCEPT ![h] = "reading"]
    /\ UNCHANGED <<docs, build, tiers, key, held, missedAt, past>>

\* What foyer has of a key, the newest first.
Stored(k) ==
    CASE memory[k] # NoCrate -> memory[k]
      [] memory[k] = NoCrate /\ unwritten[k] # NoCrate -> unwritten[k]
      [] OTHER -> disk[k]

\* Ok(Some(entry)); the memory tier has it from then on.
ReadHit(h) ==
    /\ pc[h] = "reading"
    /\ Stored(key[h]) # NoCrate
    /\ memory' = [memory EXCEPT ![key[h]] = Stored(key[h])]
    /\ Hit(h, Stored(key[h]))
    /\ UNCHANGED <<unwritten, disk>>

\* Ok(None), perhaps from before another handler's put, or any Err, which get
\* turns into a miss.
ReadMiss(h) ==
    /\ pc[h] = "reading"
    /\ pc' = [pc EXCEPT ![h] = "fetching"]
    /\ missedAt' = [missedAt EXCEPT ![h] = docs[key[h]].release]
    /\ UNCHANGED <<docs, build, tiers, key, held, past>>

Downloaded(k) == [crate |-> Served(k), format |-> build]

\* Downloads coalesced: one that is under way takes what another handler of
\* its key has got.
MutantFetchOk(h) ==
    /\ pc[h] = "fetching"
    /\ docs[key[h]].built
    /\ \E e \in {Downloaded(key[h])}
              \cup {held[g] : g \in {f \in Handlers : key[f] = key[h] /\ held[f] # NoCrate}} :
          held' = [held EXCEPT ![h] = e]
    /\ pc' = [pc EXCEPT ![h] = "loaded"]
    /\ UNCHANGED <<docs, build, tiers, key, missedAt, past>>

FetchOk(h) ==
    /\ pc[h] = "fetching"
    /\ docs[key[h]].built
    /\ held' = [held EXCEPT ![h] = Downloaded(key[h])]
    /\ pc' = [pc EXCEPT ![h] = "loaded"]
    /\ UNCHANGED <<docs, build, tiers, key, missedAt, past>>

\* A key that the disk has already is not written again.
MutantPut(h) ==
    /\ pc[h] = "loaded"
    /\ memory' = [memory EXCEPT ![key[h]] = held[h]]
    /\ latest' = [latest EXCEPT ![key[h]] = held[h]]
    /\ lost' = [lost EXCEPT ![key[h]] = FALSE]
    /\ unwritten' = [unwritten EXCEPT ![key[h]] =
                        IF disk[key[h]] = NoCrate THEN held[h] ELSE @]
    /\ pc' = [pc EXCEPT ![h] = "render"]
    /\ UNCHANGED <<docs, build, disk, key, held, missedAt>>

\* insert returns once memory has the entry.  WriteOnInsertion queues its
\* write, or foyer drops it, which nobody is told.
Put(h) ==
    /\ pc[h] = "loaded"
    /\ memory' = [memory EXCEPT ![key[h]] = held[h]]
    /\ latest' = [latest EXCEPT ![key[h]] = held[h]]
    /\ \/ /\ unwritten' = [unwritten EXCEPT ![key[h]] = held[h]]
          /\ lost' = [lost EXCEPT ![key[h]] = FALSE]
       \/ /\ lost' = [lost EXCEPT ![key[h]] = TRUE]
          /\ UNCHANGED unwritten
    /\ pc' = [pc EXCEPT ![h] = "render"]
    /\ UNCHANGED <<docs, build, disk, key, held, missedAt>>

Leave(h) ==
    /\ pc' = [pc EXCEPT ![h] = "idle"]
    /\ held' = [held EXCEPT ![h] = NoCrate]
    /\ missedAt' = [missedAt EXCEPT ![h] = 0]

\* The crate put back into the cache once it was used.
MutantReply(h) ==
    /\ pc[h] = "render"
    /\ memory' = [memory EXCEPT ![key[h]] = held[h]]
    /\ Leave(h)
    /\ UNCHANGED <<docs, build, unwritten, disk, key, past>>

Reply(h) ==
    /\ pc[h] = "render"
    /\ Leave(h)
    /\ UNCHANGED <<docs, build, tiers, key, past>>

\* The download failed, or the client closed the connection at an await.
GiveUp(h) ==
    /\ pc[h] \in {"reading", "fetching"}
    /\ Leave(h)
    /\ UNCHANGED <<docs, build, tiers, key, past>>

-----------------------------------------------------------------------------
(* Foyer on its own, and the life of the process                           *)

Written(k) ==
    /\ unwritten[k] # NoCrate
    /\ disk' = [disk EXCEPT ![k] = unwritten[k]]
    /\ unwritten' = [unwritten EXCEPT ![k] = NoCrate]
    /\ UNCHANGED <<memory, past>>

WriteFails(k) ==
    /\ unwritten[k] # NoCrate
    /\ unwritten' = [unwritten EXCEPT ![k] = NoCrate]
    /\ lost' = [lost EXCEPT ![k] = TRUE]
    /\ UNCHANGED <<memory, disk, latest>>

EvictMemory(k) ==
    /\ memory[k] # NoCrate
    /\ memory' = [memory EXCEPT ![k] = NoCrate]
    /\ UNCHANGED <<unwritten, disk, past>>

EvictDisk(k) ==
    /\ disk[k] # NoCrate
    /\ disk' = [disk EXCEPT ![k] = NoCrate]
    /\ UNCHANGED <<memory, unwritten, past>>

Foyer ==
    /\ \E k \in Keys : Written(k) \/ WriteFails(k) \/ EvictMemory(k) \/ EvictDisk(k)
    /\ UNCHANGED <<docs, build, key, pc, held, missedAt>>

\* The process crashes or is told to stop; nothing waits for the writes.  The
\* next one may be a rebuild, for whose FORMAT_VERSION docs.rs has other
\* builds.  RecoverMode::Quiet takes what can be read and skips the rest.
Restart ==
    /\ build' \in {n \in 1..MaxBuild : n \in {build, build + 1}}
    /\ IF build' = build THEN docs' = docs
       ELSE \E built \in [Keys -> BOOLEAN] :
              docs' = [k \in Keys |->
                         [docs[k] EXCEPT !.built = built[k] /\ docs[k].release > 0]]
    /\ memory' = Nothing /\ unwritten' = Nothing
    /\ disk' \in [Keys -> Entries \cup {NoCrate}]
    /\ \A k \in Keys : disk'[k] \in {disk[k], NoCrate}
    /\ lost' = [k \in Keys |-> lost[k] \/ unwritten[k] # NoCrate]
    /\ pc' = [h \in Handlers |-> "idle"]
    /\ held' = [h \in Handlers |-> NoCrate]
    /\ missedAt' = [h \in Handlers |-> 0]
    /\ UNCHANGED <<key, latest>>

Next ==
    \/ Upstream \/ Foyer \/ Restart
    \/ \E h \in Handlers :
          \/ \E k \in Keys : Arrive(h, k)
          \/ LookupMemory(h) \/ LookupDisk(h) \/ ReadHit(h) \/ ReadMiss(h)
          \/ FetchOk(h) \/ Put(h) \/ Reply(h) \/ GiveUp(h)

Spec == Init /\ [][Next]_vars

-----------------------------------------------------------------------------
Entry == Entries \cup {NoCrate}

TypeOK ==
    /\ DocsTypeOK
    /\ build \in 1..MaxBuild
    /\ memory \in [Keys -> Entry]
    /\ unwritten \in [Keys -> Entry]
    /\ disk \in [Keys -> Entry]
    /\ key \in [Handlers -> Keys]
    /\ pc \in [Handlers -> {"idle", "lookup", "reading", "fetching", "loaded", "render"}]
    /\ held \in [Handlers -> Entry]
    /\ missedAt \in [Handlers -> 0..MaxRelease]
    /\ latest \in [Keys -> Entry]
    /\ lost \in [Keys -> BOOLEAN]

\* As long as the write of what was put last has not been lost, no tier gives
\* anything else: not memory after an eviction and a read, not the disk once
\* the write is done, not a restart.  Only a lost write lets an older crate,
\* or one of an older FORMAT_VERSION, come back.
FindsLastPut ==
    \A k \in Keys : ~lost[k] =>
        /\ memory[k] \in {NoCrate, latest[k]}
        /\ unwritten[k] \in {NoCrate, latest[k]}
        /\ unwritten[k] = NoCrate => disk[k] \in {NoCrate, latest[k]}

\* A request that missed both tiers answers from a download in the format of
\* the build that runs, no older than what docs.rs had when it missed.
FreshAfterMiss ==
    \A h \in Handlers : pc[h] = "loaded" =>
        /\ held[h].format = build
        /\ held[h].crate.release >= missedAt[h]

-----------------------------------------------------------------------------
Phase(h) ==
    CASE pc[h] \in {"lookup", "reading", "fetching"} -> "open"
      [] pc[h] = "render" -> "holding"
      [] OTHER -> pc[h]

Service == INSTANCE HybridService WITH
    findable <- [k \in Keys |-> {memory[k], unwritten[k], disk[k]} \ {NoCrate}],
    phase <- [h \in Handlers |-> Phase(h)]

\* The two tiers are one set of crates that only a finished download adds to:
\* nothing that was forgotten, by eviction, failure or restart, returns.
ImplementsService == Service!Spec
=============================================================================
