---------------------------- MODULE CrateServer -----------------------------
(***************************************************************************)
(* md-docrs-server with the in-memory cache: HTTP handlers on a            *)
(* multi-threaded runtime (server.rs), the load path they share            *)
(* (md-docrs-core/src/lib.rs: render_spec, load_crate), the LRU behind its *)
(* mutex, and the fetcher (md-docrs-fetch-http) that runs each download in *)
(* a blocking pool.  A handler gives up its thread only while it waits for *)
(* its download; other handlers run between any two of its steps.          *)
(***************************************************************************)
EXTENDS DocsRs, CrateCache, FiniteSets

CONSTANTS
    Requests,  \* the requests that may arrive
    Items,     \* the item paths they may ask for
    Contents,  \* key -> release -> the items that release documents
    Workers    \* threads of the blocking pool

ASSUME ContentsAssumption == Contents \in [Keys -> [Releases -> SUBSET Items]]
ASSUME WorkersAssumption == Workers \in Nat \ {0}

VARIABLES
    lru,       \* the cache
    ask,       \* request -> the ItemSpec its route was parsed into
    pc,        \* request -> where its handler is
    task,      \* request -> where its blocking download is
    queue,     \* the downloads waiting for a thread, oldest first
    outcome,   \* request -> what its download returned
    krate,     \* request -> the decoded crate or Arc it has, or NoCrate
    answer,    \* request -> the status of its response, 0 for none
    missedAt   \* history: request -> the release docs.rs was at when it missed

vars == <<docs, lru, ask, pc, task, queue, outcome, krate, answer, missedAt>>

Key(r) == ask[r].key

Init ==
    /\ DocsInit
    /\ lru = <<>>
    /\ ask \in [Requests -> [key : Keys, item : Items]]
    /\ pc = [r \in Requests |-> "idle"]
    /\ task = [r \in Requests |-> "none"]
    /\ queue = <<>>
    /\ outcome = [r \in Requests |-> "none"]
    /\ krate = [r \in Requests |-> NoCrate]
    /\ answer = [r \in Requests |-> 0]
    /\ missedAt = [r \in Requests |-> MaxRelease + 1]

Upstream ==
    /\ \E k \in Keys : Publish(k) \/ Build(k)
    /\ UNCHANGED <<lru, ask, pc, task, queue, outcome, krate, answer, missedAt>>

Arrive(r) ==
    /\ pc[r] = "idle"
    /\ pc' = [pc EXCEPT ![r] = "lookup"]
    /\ UNCHANGED <<docs, lru, ask, task, queue, outcome, krate, answer, missedAt>>

-----------------------------------------------------------------------------
(* load_crate, up to the await of the fetch                                *)

LookupHit(r) ==
    /\ pc[r] = "lookup"
    /\ Holds(lru, Key(r))
    /\ krate' = [krate EXCEPT ![r] = Value(lru, Key(r))]
    /\ lru' = Promote(lru, Key(r))
    /\ pc' = [pc EXCEPT ![r] = "render"]
    /\ UNCHANGED <<docs, ask, task, queue, outcome, answer, missedAt>>

LookupMiss(r) ==
    /\ pc[r] = "lookup"
    /\ ~Holds(lru, Key(r))
    /\ missedAt' = [missedAt EXCEPT ![r] = docs[Key(r)].release]
    /\ task' = [task EXCEPT ![r] = "queued"]
    /\ queue' = Append(queue, r)
    /\ pc' = [pc EXCEPT ![r] = "fetching"]
    /\ UNCHANGED <<docs, lru, ask, outcome, krate, answer>>

-----------------------------------------------------------------------------
(* The closure of spawn_blocking, on a thread of the pool                  *)

Running == {r \in Requests : task[r] \in {"get", "head"}}

\* A thread takes the oldest download.
Start(r) ==
    /\ queue # <<>> /\ r = Head(queue)
    /\ queue' = Tail(queue)
    /\ task' = [task EXCEPT ![r] = "get"]
    /\ UNCHANGED <<docs, lru, ask, pc, outcome, krate, answer, missedAt>>

\* A pool that starts every download at once.
MutantStartAll(r) == Start(r)

\* A pool that starts no download whose client has left.
MutantStartWanted(r) == pc[r] = "fetching" /\ Cardinality(Running) < Workers /\ Start(r)

StartTask(r) == Cardinality(Running) < Workers /\ Start(r)

\* The closure returns; its thread is free again.
Return(r, what) ==
    /\ task' = [task EXCEPT ![r] = "done"]
    /\ outcome' = [outcome EXCEPT ![r] = what]
    /\ UNCHANGED <<docs, lru, ask, pc, queue, answer, missedAt>>

\* Downloads coalesced: one that starts late takes what another handler
\* already has.
MutantGetOkFrom(r, others) ==
    /\ task[r] = "get"
    /\ docs[Key(r)].built
    /\ \E c \in {Served(Key(r))} \cup {krate[s] : s \in {q \in others : krate[q] # NoCrate}} :
          krate' = [krate EXCEPT ![r] = c]
    /\ Return(r, "crate")

\* ... one of its key, or of any key.
MutantGetOkSameKey(r) == MutantGetOkFrom(r, {q \in Requests : Key(q) = Key(r)})
MutantGetOkAnyKey(r) == MutantGetOkFrom(r, Requests)

\* The download puts its crate into the cache itself.
MutantGetOkPuts(r) ==
    /\ task[r] = "get"
    /\ docs[Key(r)].built
    /\ krate' = [krate EXCEPT ![r] = Served(Key(r))]
    /\ lru' = Insert(lru, Key(r), Served(Key(r)))
    /\ task' = [task EXCEPT ![r] = "done"]
    /\ outcome' = [outcome EXCEPT ![r] = "crate"]
    /\ UNCHANGED <<docs, ask, pc, queue, answer, missedAt>>

\* A 2xx body that decompresses, parses and has the right format version.
GetOk(r) ==
    /\ task[r] = "get"
    /\ docs[Key(r)].built
    /\ krate' = [krate EXCEPT ![r] = Served(Key(r))]
    /\ Return(r, "crate")

Get404(r) ==
    /\ task[r] = "get"
    /\ ~docs[Key(r)].built
    /\ task' = [task EXCEPT ![r] = "head"]
    /\ UNCHANGED <<docs, lru, ask, pc, queue, outcome, krate, answer, missedAt>>

\* Transport error or timeout, a status that is neither 2xx nor 404, a body
\* that zstd, serde_json or validate_format_version rejects.
GetFails(r) ==
    /\ task[r] = "get"
    /\ Return(r, "failed")
    /\ UNCHANGED krate

\* The probe says that docs.rs has the release in another format ...
HeadOk(r) ==
    /\ task[r] = "head"
    /\ docs[Key(r)].release > 0
    /\ Return(r, "waiting")
    /\ UNCHANGED krate

\* ... or answers anything but 2xx, for whatever reason ...
HeadOther(r) ==
    /\ task[r] = "head"
    /\ Return(r, "absent")
    /\ UNCHANGED krate

\* ... or fails.
HeadFails(r) ==
    /\ task[r] = "head"
    /\ Return(r, "failed")
    /\ UNCHANGED krate

-----------------------------------------------------------------------------
(* The handler once its download has returned                              *)

FinishOk(r) ==
    /\ pc[r] = "fetching"
    /\ task[r] = "done"
    /\ outcome[r] = "crate"
    /\ lru' = Insert(lru, Key(r), krate[r])
    /\ pc' = [pc EXCEPT ![r] = "render"]
    /\ UNCHANGED <<docs, ask, task, queue, outcome, krate, answer, missedAt>>

Respond(r, status) ==
    /\ answer' = [answer EXCEPT ![r] = status]
    /\ pc' = [pc EXCEPT ![r] = "answered"]
    /\ UNCHANGED <<docs, ask, task, queue, outcome, krate, missedAt>>

\* Only FetchError::Transport turned into a response.
MutantFinishErr(r) ==
    pc[r] = "fetching" /\ outcome[r] = "failed" /\ Respond(r, 502) /\ UNCHANGED lru

FinishErr(r) ==
    /\ pc[r] = "fetching"
    /\ task[r] = "done"
    /\ outcome[r] # "crate"
    /\ Respond(r, 502)
    /\ UNCHANGED lru

\* What resolve makes of the item asked for.
Found(r, c) == IF ask[r].item \in Contents[c.of][c.release] THEN 200 ELSE 404

\* The entry is used again by putting it back once rendered.
MutantRenderPuts(r) ==
    /\ pc[r] = "render"
    /\ Respond(r, Found(r, krate[r]))
    /\ lru' = Insert(lru, Key(r), krate[r])

\* The item looked for in what the cache holds by now.
MutantRenderRereads(r) ==
    /\ pc[r] = "render"
    /\ Respond(r, IF Holds(lru, Key(r)) THEN Found(r, Value(lru, Key(r))) ELSE 404)
    /\ UNCHANGED lru

\* resolve and render the item from the crate the handler holds; the cache
\* may have moved on.
Render(r) ==
    /\ pc[r] = "render"
    /\ Respond(r, Found(r, krate[r]))
    /\ UNCHANGED lru

\* The download aborted with its handler, and left in the pool's queue.
MutantDisconnect(r) ==
    /\ pc[r] = "fetching"
    /\ pc' = [pc EXCEPT ![r] = "gone"]
    /\ task' = [task EXCEPT ![r] = "done"]
    /\ UNCHANGED <<docs, lru, ask, queue, outcome, krate, answer, missedAt>>

\* The client closes the connection: hyper drops the handler at its only
\* await that can be pending.  The download is detached, not stopped.
Disconnect(r) ==
    /\ pc[r] = "fetching"
    /\ pc' = [pc EXCEPT ![r] = "gone"]
    /\ UNCHANGED <<docs, lru, ask, task, queue, outcome, krate, answer, missedAt>>

-----------------------------------------------------------------------------
Get(r) == GetOk(r) \/ Get404(r) \/ GetFails(r)
Probe(r) == HeadOk(r) \/ HeadOther(r) \/ HeadFails(r)
Handle(r) ==
    LookupHit(r) \/ LookupMiss(r) \/ FinishOk(r) \/ FinishErr(r) \/ Render(r)

Next ==
    \/ Upstream
    \/ \E r \in Requests :
          \/ Arrive(r) \/ Handle(r) \/ Disconnect(r)
          \/ StartTask(r) \/ Get(r) \/ Probe(r)

Spec == Init /\ [][Next]_vars

\* The runtime polls every handler that is ready and gives every free thread
\* the oldest download; a request to docs.rs ends, if only by its timeout of
\* 30 seconds.  Clients and docs.rs owe nothing.
Fairness ==
    \A r \in Requests :
        /\ WF_vars(Handle(r))
        /\ WF_vars(StartTask(r))
        /\ WF_vars(Get(r))
        /\ WF_vars(Probe(r))

FairSpec == Spec /\ Fairness

-----------------------------------------------------------------------------
Crate == Crates \cup {NoCrate}

EntrySet == [key : Keys, crate : Crates]

TypeOK ==
    /\ DocsTypeOK
    /\ lru \in Seq(EntrySet)
    /\ ask \in [Requests -> [key : Keys, item : Items]]
    /\ pc \in [Requests -> {"idle", "lookup", "fetching", "render",
                            "answered", "gone"}]
    /\ task \in [Requests -> {"none", "queued", "get", "head", "done"}]
    /\ queue \in Seq(Requests)
    /\ outcome \in [Requests -> {"none", "crate", "waiting", "absent", "failed"}]
    /\ krate \in [Requests -> Crate]
    /\ answer \in [Requests -> {0, 200, 404, 502}]
    /\ missedAt \in [Requests -> 0..(MaxRelease + 1)]

\* Racing handlers of one key put it once each: the list still has one entry
\* per key and no more entries than its capacity.
CacheWellFormed ==
    /\ Len(lru) <= Capacity
    /\ DistinctKeys(lru)

\* Where a handler and its download can be together: a crate is held exactly
\* by the handlers that hit and by those whose download decoded one, and a
\* handler that waits has a download that knows the release it missed at.
Control ==
    \A r \in Requests :
        /\ pc[r] \in {"idle", "lookup"} => task[r] = "none" /\ krate[r] = NoCrate
        /\ pc[r] \in {"fetching", "gone"} => task[r] # "none"
        /\ pc[r] = "render" => krate[r] # NoCrate
        /\ task[r] = "none" => outcome[r] = "none"
        /\ task[r] \in {"queued", "get", "head"} =>
              outcome[r] = "none" /\ krate[r] = NoCrate /\ pc[r] \in {"fetching", "gone"}
        /\ task[r] = "done" => (outcome[r] = "crate" <=> krate[r] # NoCrate)
        /\ task[r] # "none" => missedAt[r] <= docs[Key(r)].release

\* What is cached or held for a key is that key's crate, in a release that
\* docs.rs has made, whichever downloads overlapped.
Provenance ==
    /\ \A i \in DOMAIN lru :
          /\ lru[i].crate.of = lru[i].key
          /\ lru[i].crate.release <= docs[lru[i].key].release
    /\ \A r \in Requests : krate[r] # NoCrate =>
          /\ krate[r].of = Key(r)
          /\ krate[r].release <= docs[Key(r)].release

\* A request that missed is answered from a crate at least as new as what
\* docs.rs had when it missed: nobody else's older download is handed to it.
FreshAfterMiss ==
    \A r \in Requests :
        outcome[r] = "crate" => krate[r].release >= missedAt[r]

GoesBack(k) ==
    /\ Holds(lru, k) /\ Holds(lru', k)
    /\ Value(lru', k).release < Value(lru, k).release

Overlaps(r, k) ==
    Key(r) = k /\ pc[r] = "fetching" /\ missedAt[r] < Value(lru, k).release

\* A cached key goes back to an older release only when a handler that missed
\* before the newer one came out stores its late download: never by a hit, by
\* an eviction, or by a download that began after the newer one was cached.
OlderOnlyByOverlap ==
    [][\A k \in Keys : GoesBack(k) => \E r \in Requests : Overlaps(r, k)]_vars

\* No download is lost on its way into the pool or queued twice: the queue
\* holds exactly the downloads that wait, also those whose client is gone.
QueueSound ==
    /\ \A r \in Requests : task[r] = "queued" <=> \E i \in DOMAIN queue : queue[i] = r
    /\ \A i, j \in DOMAIN queue : queue[i] = queue[j] => i = j

\* The pool never runs more downloads than it has threads: a client that
\* leaves does not free the thread its download still uses.
PoolBounded == Cardinality(Running) <= Workers

\* Every request that arrived is answered, unless its client leaves, however
\* many downloads of clients that left are ahead of it in the pool.
EveryRequestEnds ==
    \A r \in Requests : pc[r] = "lookup" ~> pc[r] \in {"answered", "gone"}

\* A download that was queued gives its thread back, wanted or not.
PoolDrains ==
    \A r \in Requests : task[r] = "queued" ~> task[r] = "done"

-----------------------------------------------------------------------------
Phase(r) ==
    CASE pc[r] = "idle" -> "idle"
      [] pc[r] \in {"lookup", "fetching"} ->
            IF krate[r] = NoCrate THEN "open" ELSE "loaded"
      [] pc[r] = "render" -> "holding"
      [] OTHER -> "closed"

Service == INSTANCE CrateService WITH
    content <- [k \in Keys |-> IF Holds(lru, k) THEN Value(lru, k) ELSE NoCrate],
    phase <- [r \in Requests |-> Phase(r)],
    krate <- [r \in Requests |-> IF pc[r] = "gone" THEN NoCrate ELSE krate[r]]

\* The server is CrateService: every response is explained by one crate of
\* the request's key that was cached or current while the request was open,
\* and the download of a client that left changes nothing.
ImplementsService == Service!Spec
=============================================================================
