# A verification development of md-docrs-proxy

The repository turns the rustdoc JSON of docs.rs into Markdown: as a server, as
a Cloudflare Worker, as a command line program and inside WebAssembly. This
directory holds TLA+ modules translated from its source, TLC configurations
that check them on small instances, and TLAPS proofs of what matters most for
every value of the constants. `PROJECT.json` maps every definition to the lines
it stands for, names the runs, and gives, for each property, a plausible bug of
the code (an operator whose name starts with `Mutant`) that breaks it.

    tlc -workers 2 -config CrateServerRace.cfg MCCrateServer
    tlapm CrateServerProofs.tla

The longest proof, `ItemProofs`, takes about a quarter of an hour.

## 1. The system

Paths are below `src/`; `core` is `crates/md-docrs-core/src`.

| component | source | state it keeps | operations |
|---|---|---|---|
| in-memory cache | `core/cache/memory.rs` | an LRU list of (key, crate) behind one mutex | `get`, `put` |
| hybrid cache | `core/cache/hybrid.rs` | foyer: entries in memory and on disk | `new` (recovers the disk), `get`, `put`, `close` |
| load path | `core/lib.rs` | none; works on the cache | `render_spec` = `load_crate`; `resolve`; `render` |
| fetcher | `crates/md-docrs-fetch-http` | an agent; one blocking task per download | `fetch`: GET, and HEAD after a 404 |
| server | `crates/md-docrs-server` | `AppState`: cache and fetcher, shared by all handlers | the routes |
| resolution | `core/resolve.rs` | per call: the index, the visited set, the recursion | `build_public_index`, `resolve` |
| specs | `core/spec.rs`, `zig/lib/spec.zig` | none | `parse`, twice |
| renderer | `core/render` | none | item to Markdown, type to text |
| worker | `crates/md-docrs-worker` | a KV store that outlives deployments | its router, its own copies of the fetcher and the load path |
| WASM guests | `crates/md-docrs-rust-wasm`, `zig/lib` | linear memory | `alloc`, `free`, `resolve_url`, `render_spec`, `render_markdown` |
| Zig worker | `zig/src/index.ts` | views and pointers into an instance | `fetch`, `resolveUrl` |
| comparison harness | `crates/md-docrs-wasm-compare` | an instance and its download cache per artifact; samples; the parity map | `call_resolve`, `call_render`, `fetch_bytes`; the tables |
| others | the CLIs, `mcp/md_docrs_remote.py`, scripts | none that lasts | one request each |

**How they interact.** A handler of the server parses its path into an
`ItemSpec`, asks the shared cache for (crate, version, target), and on a miss
awaits a download that `spawn_blocking` runs on a pool of threads; then it puts
the crate and resolves and renders the item. The cache's mutex is held for one
call only, so anything may happen between a miss and the put it leads to. The
worker does the same over a KV store, where every call is an await, can fail
and may see an old write. A WASM guest and its host share linear memory: the
host allocates inputs and output through the guest, the guest calls back into
the host for the download, and the host calls back into the guest's `alloc`.

**What is hard.**

- *Overlapping downloads.* There is no single flight. Two requests of one key
  both miss, both download and both put, in either order, while docs.rs
  publishes a release of a moving version such as `latest`.
- *Clients that leave.* Dropping a handler does not stop its blocking closure,
  which keeps its place in the queue and then its thread.
- *Entries that change under a reader*: evicted or replaced while it renders.
- *Re-exports.* Globs, aliases, cycles, and one visited set for all of them.
- *Stores that outlive the code*: entries of an older `FORMAT_VERSION`,
  writes that fail or are never made, reads that are stale, keys that are
  written alike, a process that ends between a put and its write.
- *More than one of everything*: three routers, two parsers, two guests, that
  should be alike, and a harness that has to say whether they are.
- *Ownership across the WASM boundary*, when any step fails and any `alloc`
  may move the memory under a view.

**What makes each component correct.** The cache holds the most recently used
keys, once each, within capacity. The server answers each request from one
crate of its own key that was cached or current while the request was open; it
loses no download and answers everyone who stays. The index gives public paths
only, and every module of the public tree has its names in it. The worker
serves nothing that is older than an expiry and a download. The hybrid cache
gives back what was put last or nothing, unless a write was lost. The front
ends agree; a page of docs.rs leads to its item. A parser reads back what
writes a spec. A page tells items apart and shows each child's docs once. No
buffer is used after it is freed, freed twice, freed with another length or
left behind. The harness claims agreement only where it saw some. The
`hazards` of `PROJECT.json` place these at lines.

## 2. Modules

| module | models |
|---|---|
| `CrateCache` | the LRU list as operators: `Promote` is `LruCache::get`, `Insert` is `put` |
| `InMemoryCache` | callers that get and put; `used` and `clock` are history variables |
| `BoundedCache` | abstract: a partial map that forgets the key whose last use is oldest |
| `DocsRs` | external: docs.rs, whose keys get releases and then builds of them |
| `CrateServer` | the server: handlers, load path, LRU, fetcher, pool; composes `DocsRs` and `CrateCache` |
| `CrateService` | abstract: what a server owes one request, without list, pool or task |
| `PublicIndex` | the walk of `resolve.rs`, one step per child; the recursion is `stack` |
| `HybridServer` | the server with `--cache-dir`: handlers and load path over foyer's two tiers, crashes, restarts, rebuilds; composes `DocsRs` |
| `HybridService` | abstract: one set of crates per key that only a finished download adds to |
| `Routes` | the three routers, from path and query to `ItemSpec`, URL and status |
| `KvWorker` | the worker's load path over an expiring, eventually consistent store |
| `WasmAbi` | four hosts and two guests over one heap |
| `SpecText` | specs as texts: both parsers and both URL builders |
| `SpecParse` | a text that is given to both parsers, and what writes a spec |
| `Writing` | how the renderer's loops put texts and pages together |
| `TypeText` | `ty.rs` as tokens, and what of a type its text tells |
| `Render` | `render/mod.rs` as a page of blocks |
| `Declarations` | what the declaration on a page tells of the item |
| `Harness` | a whole run of `wasm-compare` |
| `...Proofs` | the proofs about the module of that name (section 4); `WasmAbiProofs` has those of `Harness` too, `RequestProofs` is about `Routes`, `SpecText`, `SpecParse` and `PublicIndex`, `ItemProofs` about `Render` and `Declarations` |
| `MC...` | the constants of the runs |

### State and actions against the code

**CrateServer.** `pc[r]` is where handler `r` is (`lookup`, `fetching`,
`render`), `task[r]` where its closure is (`queued`, `get`, `head`, `done`),
`queue` what waits for a thread. A handler gives up its thread only while it
awaits the download (both cache calls return at once), so `LookupHit`,
`LookupMiss`, `FinishOk`, `FinishErr` and `Render` are steps, and the only
places another handler can come between. A missing key is looked up and its
closure spawned in one step, `LookupMiss`. `GetOk`, `Get404`, `GetFails`,
`HeadOk`, `HeadOther` and `HeadFails` are every way `fetch` goes on.
`FinishOk` puts the crate (`Insert` with its eviction). `Disconnect` is hyper
dropping a handler that awaits: `task` and `queue` stay as they are.
`missedAt` is a history variable. A crate is its key and release; `Contents`
says which items a release documents. Four error causes share the status 502
with the code.

**PublicIndex.** A frame of `stack` is a call of `walk_module`: module, path,
next child. `Walk` is the call with its early returns (visited, not in the
index, no module). `walk_use` is `UseIgnored`, `UseGlob` and `UseNamed`.
`out` is filled by `or_insert`. `home` is a history variable. `Resolve` gives
the set of ids `resolve` may return: among equal stored paths the order of a
`HashMap` decides. `PublicPath` and `Reachable` say without a walk what a
public path is; they are least fixed points over sets of modules.

**KvWorker.** `kv` is the set of writes not yet expired; a read may see any of
them with its key, or none, as KV is eventually consistent. `GetMiss` is also
a failed read and an entry that does not deserialize. `PutFails` goes on
without the entry. `code[r]` is the `FORMAT_VERSION` of the build that serves
`r`; `Deploy` changes it for later requests. `past`, `asked` and `slowest` are
history variables.

**HybridServer.** `memory`, `unwritten` and `disk` are what foyer has of a key
in each tier and in between. foyer is external and assumed of only as follows:
a write that is pending is served before what the disk has; a read that ends
after an insert of its key gives what was inserted, or nothing; either tier
may drop any entry at any time; `insert` returns when memory has the entry and
tells nobody whether the write was queued (`Put`), done (`Written`) or failed
(`WriteFails`). `LookupMemory` is a `get` without an await, `LookupDisk`,
`ReadHit` and `ReadMiss` one with; any error is a miss. `Restart` is a crash or
a shutdown, as `main` never calls `close`, and recovery with
`RecoverMode::Quiet`, perhaps in a rebuild with the next `FORMAT_VERSION`.
`latest`, `lost` and `missedAt` are history variables. The pool of downloads is
left to `CrateServer`.

**WasmAbi.** `heap` maps a live address to the buffer whose length it has, so
a free with another length shows as a fault. `pages` counts growth and `view`
is the growth at which the worker made its views. The hosts are the Zig
worker's `resolveUrl`, the harness's `call_resolve` and `call_render`, and a
caller of `render_markdown` as the comment on that function describes one: no
host in the repository calls it. Every failure of the guest
(`BadSpec`, `OutOfMemory`, `Abort`, `TooLong`, `FetchFails`, `BadZstd`,
`BadCrate`, `NoRoom`) and of the host is a way a call ends. After an abort or a
null from `alloc` the instance is given up, as in all hosts. `BadSpec` may
happen before the path's buffer is there or after it: the Zig parser looks at
version and name last, and fails over a list that `errdefer` frees.

**SpecText** works on characters, as its properties tell characters apart; `::`
is two. It is what **SpecParse** and **Routes** have in common: a segment of a
path is a text as well, in which a rustdoc kind (`struct.`) and `.html` are one
character each. `ServerResponse`, `WorkerResponse` and `ZigResponse` are the
three front ends. The server and the Rust Worker have a copy of the path parsing
each (`ParseRest` with `ServerKinds`, `ParseRestSegments` with `WorkerKinds`; the
loops of the two copies of `strip_kind_prefix` are the same code, one operator
over either's kinds). The Zig Worker reads the whole path as a spec (`PathText`,
`ZigParse`) and refuses what is none, or has a URL of more than `OUT_CAP` bytes.

`PagesAreFound` asks for status 200 and for the crate, version and path of the
page's item. It is about pages named `kind.Name.html`, of rustdoc's kinds but
`traitalias` and `keyword`. The page of a module or a crate ends in `index.html`,
which no code of either front end knows: `index.html` is taken for the name of an
item, and the answer is 404. `WorkersAgree` leaves out a spec with space other
than ASCII's around it; it says of a path only what holds where the Rust Worker
finds the crate, see *Where the code and a document differ*.

**TypeText** and **Render** have a function of `render/ty.rs` and
`render/mod.rs` per operator. A type is a tree (`Node`), its text a sequence of
tokens, a page a sequence of blocks: headings, docs, the lines of a code fence,
list entries. A child that the index lacks, and a hidden position of a tuple,
is an item of kind `missing`. The state is the item asked for and its page.
`Write` is one call of `write_ty`, or of what it calls, given what the calls
below it wrote; `ty` is the recursion. The constant `Height` has the nodes there
are for its domain and places each above its parts, as a tree of `rustdoc_types`
has an end; the other recursive functions follow it too: `alike` (two types are
one but for what is not written), `open` (a text that a `+` after it would
prolong) and `prolonged` (such a text is somewhere in a list of bounds). A page
is modelled as telling *whose* docs it
shows: docs stand for the item they are written at, so no two items of a page
have the same (`OwnDocs`).

**Harness.** `phase` and `todo`, the places of the artifacts still to come, are
the nested loops of `main`: per spec, every artifact resolves, then every full one renders `renderIterations` times on an
instance with a download cache of its own (`cache`), and `Summary` prints the
parity line. `Publish` is docs.rs between any two downloads. `Resolved` is
`run_resolve` with its statistics, `StatsPanic` where they index past their
samples. `RenderError` is every error of `run_render`, `ReadFails` an artifact
file that goes away. `wasmtime_runner` and `wasmer_runner` are one model,
except that wasmer's `run_resolve` instantiates without imports, which a full
artifact does not survive (`Instantiates`). `began` and `first` are history
variables.

## 3. Runs

| run | shows | bounds |
|---|---|---|
| `cache` | the list holds the most recently used keys, and implements `BoundedCache` | 3 keys, capacity 2, 6 uses |
| `server_race` | no older crate than the miss saw; a key goes back only by an overlapping download; `CrateService` is implemented | 3 requests of 1 key, 3 releases, 2 threads |
| `server_evict` | eviction under a reader, downloads that queue, and that everyone who stays is answered | 2 requests, 2 keys, configured capacity 0 (so 1), 1 thread |
| `hybrid` | only a lost write lets an older crate or format back; `HybridService` is implemented | 3 handlers of 1 key, 2 releases, 2 builds of the program |
| `index` | the index is sound and complete and the walk ends | root, 2 modules, one perhaps private, 5 other items; every placing of the uses, order and aim |
| `index_not_found` | *violation*, see below | the same without cycles or globs |
| `routes` | both routers agree, a docs.rs page leads to its item, the two Workers never look for two crates | paths of up to 5 segments, every spec as a path, as its first segment and as a query, 3 targets; URLs of up to 9 bytes, which some exceed |
| `kv` | own crate, and none older than an expiry and a download | 2 requests, 3 keys, 2 releases, 2 formats, 2 ticks |
| `wasm_abi` | no fault, nothing left, on every way a call can end | 6 addresses, 2 calls, 2 growths |
| `spec_parse` | parsing inverts writing; both builds agree | texts of up to 4 tokens, and longer ones around a version and a path |
| `harness` | what the parity line may say, which differences it shows, when the statistics panic, that every run ends | 4 artifacts, 2 specs, 0, 1 or 3 iterations, 2 releases |
| `render` | declarations read back, docs once, no empty heading | every type of one constructor over small ones; items of every kind with up to a few children |

**Why the bounds are enough.** A race that puts an older crate back needs two
overlapping downloads and a release between them; a third request and release
allow for one that began after both. Eviction needs one key more than the
capacity, queueing one download more than threads. The tiers keep their keys
apart, so one key shows what they do to it; a stale entry needs two puts, a
lost write and a read, which two handlers and a third that reads make. The
re-export hazards need
a module, a second one in it or beside it, and two uses that point at
each other or at a parent; both orders of the children decide which of two
names comes first. An entry of the store can be stale, expired or of an old
format with one change of each within two expiries (`Ttl` is one tick), and
collide with two keys written alike. Two calls show what the first leaves to
the second; `render_spec` has at most six buffers live at once. Four tokens
hold every pair of separators next to each other, doubled and at either end.
A comparison needs two full artifacts and a third that differs or fails, and
one that cannot render at all; one and three iterations are on either side of
where the median moves, and none is where the statistics break. An ambiguous
text needs two constructors, the inner of which ends the text of the outer.
The largest bounds that stay within minutes were taken. Symmetry is used over
requests and handlers only, and not in a run with a liveness property. Where a
module has proofs, they do away with the bounds.

**Fairness.** `EveryRequestEnds` and `PoolDrains` assume weak fairness of the
handler's steps, of the pool taking the oldest download, and of a running
download ending. tokio polls every woken task and gives each idle thread the
head of its queue; a request to docs.rs has a timeout of 30 seconds
(`with_user_agent`). Nothing is assumed of clients or of docs.rs. `Terminates`
assumes that the thread of the walk runs. `Ends` assumes the same of the
harness, one thread whose downloads have the same timeout, and nothing of
docs.rs, which may stop publishing. The other properties need no fairness.

**Types.** A type invariant is checked by `server_race`, for the server and the
list under it; those of the other modules that have one are proved.

**Deadlock** is checked in `cache`, where one of three keys is always missing,
so that a get of it can always be made, and in `hybrid`, where requests keep
arriving. In the other runs every request ends, and then nothing happens.

### Where the code and a document differ

`NotFoundIsPrivate` (`index_not_found`) is a violation that TLC finds.
`resolve` documents `NotFound` as "does not match any item in the crate's
public module tree". A module that is reached under a second name is not
walked again, so with `pub mod a { pub mod b }` and `pub use a as alias`,
`crate::alias::b` is not found.

Others were met while modelling and are in the models as the code has them:

- The server's README (lines 40 and 44) lists `GET /?spec=` and `?target=`; no
  handler of `server.rs` reads the query.
- The same README (line 123) says that the last segment loses `.html`;
  `server.rs:83` cuts it only where the segment has a kind prefix too.
- The Rust guest is documented as drop-in interchangeable with the Zig one
  (`md-docrs-rust-wasm/src/lib.rs:3-5`). `str::trim` in `core/spec.rs:28` takes
  Unicode space off a spec, `zig/lib/spec.zig:29` ASCII space only, so a spec
  with a no-break space in front is accepted by one. `AgreeOnAscii` says that
  this is all.
- A `target` of no length is no target for the Zig worker and a target for the
  Rust one, which downloads from a URL with an empty segment (`WorkersAgree` makes
  the exception).
- The READMEs of both Workers give a path for an item. The Zig Worker's is a spec
  (`/tokio@1.52.1::sync::Mutex`, `index.ts:75`), for which the Rust one asks
  docs.rs for a crate `tokio@1.52.1::sync::Mutex` and answers 502. The Rust
  one's has slashes (`/tokio/1.52.1/...`), which the Zig Worker refuses with 400,
  but for slashes behind an `@`, which are part of a version. What `WorkersAgree`
  says of a path is that it leads to no two crates: where the Rust Worker finds
  its crate, the Zig Worker has that URL or none.
- `render_module` passes a child without a name over, and its comment
  (`render/mod.rs:130`) takes such children for non-public ones. rustdoc's
  re-exports have no name of their own, so the section Re-exports is never
  written. The model does as the code does; `HeadingsHaveContent` and
  `DocsShownOnce` do not ask for the section.
- `wasm-compare`'s comment (`main.rs:16-17`) says that the first output is
  hashed; `run_render` hashes the last. `HashesTheFirst` says why it makes no
  difference: an instance downloads once.
- `--iterations 0` is let through by `parse_args` and panics in the statistics
  (`PanicsOnlyAtZero`); of three render iterations, the default, the fetch
  column shows the time of a call that was served from the host's cache
  (`FetchColumn`).
- The server answers an invalid crate name with 502, as a path is never parsed
  as a spec, where its README has `400` for invalid specs; and a docs.rs page
  of a crate with a dash in its name repeats the library's name with an
  underscore, which is not dropped from the item path, so that page is a 404.
- Without parentheses, a list of bounds in a list of bounds reads as one
  (`impl Fn() -> dyn A + B`). `ReadsBack` is about all other types
  (`prolonged`), and about what of a type is written at all: `Same`, and so
  `alike`, overlooks a pattern type's pattern, what `use<..>` names, what a
  constraint says, an empty `<>`, and the qualifiers of function pointers and
  traits (`?`, `for<'a>`, `unsafe`, the ABI).

## 4. Proofs

| theorem | says, for every value of the constants |
|---|---|
| `CrateCacheProofs`: `PromoteKeeps`, `InsertStores` | what a get and a put do to the map the list stands for |
| `InMemoryCacheProofs`: `AlwaysTyped`, `AlwaysWellFormed`, `AlwaysKeepsMostRecent` | the list's invariants |
| `InMemoryCacheProofs`: `Refinement` | the list implements `BoundedCache` |
| `CrateServerProofs`: `AlwaysTyped`, `AlwaysControl`, `AlwaysCacheWellFormed`, `AlwaysProvenance`, `AlwaysFreshAfterMiss`, `AlwaysQueueSound`, `AlwaysPoolBounded` | the server's invariants |
| `CrateServerProofs`: `OlderNeedsOverlap` | the action property `OlderOnlyByOverlap` |
| `CrateServerProofs`: `ServerGetsOn`, `DownloadsKeepTheirOrder`, `NeverStuck` | progress: each step brings a request nearer its end, in the queue's order, and something can always be done |
| `CrateServerProofs`: `Implementation` | the server implements `CrateService` |
| `HybridServerProofs`: `AlwaysTyped`, `AlwaysFindsLastPut`, `AlwaysFreshAfterMiss` | what the two tiers give back, across crashes and rebuilds |
| `HybridServerProofs`: `Implementation` | the server over two tiers implements `HybridService` |
| `KvWorkerProofs`: `KeyStringInjective` | keys without colons are stored apart |
| `KvWorkerProofs`: `AlwaysTyped`, `AlwaysOwnCrate`, `AlwaysNoOlderThanTtl` | whose crate is served, and how old it may be |
| `RequestProofs`: `AlwaysTyped`, `AlwaysIndexSound`, `AlwaysStackSound`, `AlwaysIndexComplete` | the walk, on every crate |
| `RequestProofs`: `WalkAlwaysGetsOn`, `DepthIsBounded` | progress: each step of the walk leaves less to do, and the recursion is no deeper than the crate has modules |
| `ItemProofs`: `EveryHeadingStands`, `DocsAreShown` | the page of every item, of any kind and with any children |
| `ItemProofs`: `TypesRead`, `PagesReadBack` | types of any depth, and the declarations they stand in, keep apart as text |
| `WasmAbiProofs`: `AlwaysTyped`, `AlwaysNoFault`, `AlwaysEmptyBetweenCalls`, `AlwaysGuestKeepsNothing` | who owns which buffer |
| `WasmAbiProofs`: `HarnessAlwaysGetsOn`, `RenderNeverStuck` | progress: each step leaves the comparison less to do, and a render can go on |
| `WasmAbiProofs`: `FirstOutputIsHashed`, `DifferencesAreExplained`, `AgreementsAreEarned`, `PanicsAreAtZero`, `FetchColumnTells` | what the harness says of any artifacts, specs, iterations and releases |
| `RequestProofs`: `OneRouter`, `PagesFound`, `OneUrl` | of paths and queries of any length: the two routers make one spec, the docs.rs page of an item of any depth is answered with that item, the two Workers look for one crate by one URL |
| `RequestProofs`: `BuildsAgree`, `ParsedIsWritten` | both parsers read texts of any length alike, and back what writes a spec |

**Assumptions.** The bounds and the configured capacity are naturals, the pool
has a thread, `NoCrate` is no crate or entry, and `Contents` is a function of
keys and releases. Any sets of requests, keys and items are allowed, infinite
ones too; a capacity of zero is covered. Of a crate, `IsKrate` says what
rustdoc writes: ids, kinds and children that are lists of ids; a root that is
no module, children that are missing and any cycle are allowed. The parts of a
key of the worker's store are texts; which of them have no colon is a
hypothesis of `KeyStringInjective` and a guard of the model (docs.rs has no
crate with one in its name). `Null` is no address. The harness has at least one
spec, and what stands for no output is none. A request has a path that fits a
route (`Fits`): a parameter of axum's takes no empty segment, for which axum
answers 404 itself, so that paths with one where crate or version should be are
not compared. A segment has no slash and no space in it, and its spec query, if
it has one, is any text. docs.rs has crates of valid names only, which is
crates.io's rule; what it documents are lists of names. A character of
a spec is of one class only: letters and digits are no space and no sign. Of
the items to render, `ItemsAssumption` says what a rustdoc item has: lists of
children, one of three shapes for a struct, a trait's methods with a body or
without, and docs that are the item's own; and that `Alphabet`, the order in
which a module's children are sorted, has every name in it once, those that
re-exports give included. Missing,
hidden, unnamed and undocumented children are allowed. Of types,
`NodesAssumption` says what `rustdoc_types` makes: each is above its parts, a
variant has the parts it has a place for (`WellMade`), and a name is none of the
tokens the code writes around it (`Tokens`), as Rust's names, lifetimes, paths
and lengths are words of their own. Nodes may be infinitely many and nest to any
depth. TLC evaluates each assumption.

**Argument.** In each module an invariant `IInv` is shown to hold at first and
to be kept by every action, by one lemma per action (or per group of actions
that end alike); the properties are its parts or follow from it.

*The list.* The operators come first: `ToFrontMap` says what each key has
after an entry took the front and a slot was given up. From it, a get changes
what the list says of no key, and a put changes its own key and the one whose
slot it takes. `WellFormed` alone does not give the order of the list:
`KeepsMostRecent` needs that a key in the list was used, and that no use is
later than `clock`, so that the key at the front is later than all others.

*The server.*

    IInv == TypeOK /\ Control /\ CacheWellFormed /\ Provenance
            /\ FreshAfterMiss /\ QueueSound /\ PoolInv

`FreshAfterMiss` is not inductive: a download that ends brings what docs.rs
has *then*, so one needs that releases never fall below the one at the miss,
which `Control` keeps for every task. `Provenance` needs `CacheWellFormed`, as
an entry that moves in the list must stay one entry, and `Control`, as
`FinishOk` puts what a finished task decoded. `PoolInv` adds to `PoolBounded`
that the set of running tasks is finite, without which its cardinality says
nothing, as there may be infinitely many requests. `QueueSound` makes the head
of the queue a download that is not yet running, so that taking it adds one.
`OlderNeedsOverlap` follows from the invariant: of all steps only `FinishOk`
changes what a key has to another crate, and its crate is at least as new as
its miss, so if it is older than the one it replaces, that miss came first.
`Implementation` maps a handler's `pc` and crate to a phase of `CrateService`
and hides the crate of a handler that was dropped. A miss, the start of a
download, and a GET or HEAD that fails are stutters; a decoded crate is
`Load`; an eviction is what `Store` may forget.

*The hybrid cache.* `FindsLastPut` is inductive with `Control` (who has a
crate, and that docs.rs has not gone back since a miss): it speaks of the disk
only where no write is pending, so a put over a pending write keeps it, and a
restart that cuts a write off counts it as lost. `Implementation` maps the
three places an entry may be to one set, which a read, a write and an eviction
can only shrink or leave.

*The worker's store.* `Sound` says of a request that its crate is of its key
and no older, in release and format, than what was current when it asked;
`StoreSound` says of an entry the same, counted back from its expiry by `Ttl`
and by the slowest download so far; `PastSound` that releases and formats never
go back. A read gives `StoreSound` over to `Sound` only for an entry of the
same key, and for that two keys must not be written alike: `KeyStringInjective`
peels the parts of a key string off at its colons, of which a part has none.

*The walk.* `HomeSound` says that the path of a module leads to it, or to a
module whose scope it is globbed into; so a child's path is public. `Progress`
says that a call is done with the children before its next, and one that has
returned with all of them; so when the stack is empty the walked modules are
closed under what the tree leads to, and `Reachable` is the least such set. No
induction over the crate is needed, as scopes and reachability are least sets
said with quantifiers.

*The heap.* `Stage` says of every place of host and guest exactly which buffers
are live, and `Owned` that each is where its side believes it to be. Then
every use and free is of a live buffer, and what the host frees at the end is
all there is.

*The harness.* `HarnessInv` adds three parts to the properties. `InstanceSound`
ties the instance at work to its cache: what it rendered, first and last, is of
the one release it downloaded, which the first sample alone is of.
`ParitySound` says of each entry in the parity map whose way of rendering it
shows, and that its release was current while its spec was compared; two that
differ with one way of rendering then had a release in between.
`AgreementIsEarned` speaks of the spec before, for which `InOrder` has to say
that nothing is printed of a spec until its summary. That a median or
percentile of n samples is at a place from 1 to n is arithmetic over all n.

*Paths and texts of any length.* What holds of a sequence if it holds of all
shorter ones holds of all (`ByLength`): the lengths at which it fails would
have a least one. The recursive functions of `Routes`, `SpecText` and `SpecParse`
(`NonEmpty`, `Slashed`, `Split`, `ZigPath`, `Joined`) are shown to be what their
definitions say by the same argument (`SuffixRecursion`): there is one such
function on the sequences shorter than n, for every n, and those of two bounds
say the same where both say something. The answers depend on the request only
(`RoutesInv`, `ParseInv`), so the rest is about operators.

Both routers drop empty segments and strip the last of the others, so they
differ at most in where they do so: the server drops them behind crate and
version, the worker everywhere, which is the same as neither of those is empty.
Of a page's path what is left behind crate and version is the library and the
item's path with a kind on its last name; the library is named as the crate,
and goes; what is left is the item's path (`PageRead`). `PagesAreFound` makes an
exception of a target of no length, which the worker puts into the URL of docs.rs.

That the two Workers look for one crate has two halves. A spec in the query is
parsed alike (`BuildsAgree`'s lemmas), and `BuildUrl` is the same text of the
same crate, version and target (`UrlsAlike`). A path
matters where the Rust Worker finds its crate: then the first segment is a valid
name. Alone it is that crate's spec, at the latest version (`NameReads`), as the
Rust Worker takes it. With a slash after it it is no spec (`SlashReads`): what
the Zig parser takes for the name would have to go on past the slash, which is in
no name, or end before it, at an `@` or a `:`, which are in no name either.

Both parsers cut a text at the first `::`, and what is before it at the first
`@`. The Rust build splits the rest and then checks its parts, the Zig build
checks each part as it finds it: `ZigPathSplits` says by length that this gives
the same path or none. A text is what is before its first separator, the
separator and what is after it (`BeforeAndAfter`), which gives one half of
`ParseInvertsWriting`. The other needs that a separator is first found where it
was written: not earlier, as a name, an identifier and a version have no `::`
in them and do not end in a colon that would make one with the next (`Tidy`),
and that the space taken off at both ends is none of the text's own (`Ends`).
A version that ends in a colon or in space does break it, which is why
`ParseInvertsWriting` asks for a `Clean` one.

*The page.* `Headed` says of any stretch of a page that its headings are of a
set of titles, have an entry under them and are there once. Stretches whose
titles differ put together are `Headed` again, and so is a loop over sections;
what is left is one lemma per section, each of which asks whether there is an
entry before it writes its title. `DocsShownOnce` is shown the other way round:
of the blocks that tell one child's docs, each loop, filter and sort has
exactly one for that child (`Only`) and none for another (`Never`), which is
kept by what is put before and after it. A filter is a loop that puts one or
none for each (`Filtered`), the sort has every named child once because a name has one
place in the alphabet, and the buckets and the kinds of a trait's children are
disjoint. `FlattenSeq`, under all loops, is recursive in the library: it is
shown to be the one function that its definition says by the least number at
which two such would differ.

*Reading a declaration.* `ReadsBack` is the converse of writing: of two texts
that are one, the types are alike. A text does not say where it ends, so the
induction is about a text with something after it. `Reads(a, b)` says: if the
text of `a` before `x` is the text of `b` before `y`, where `x` and `y` are what
may stand after a type (`Ready`: they begin with a separator or a closing token,
and not with a `+` where the text is open), then `a` and `b` are alike and `x` is
`y`. `AllRead` is this for all nodes by their height: a node of least height that
cannot be read would have parts that can (`Known`), and one lemma per variant
says that such a node can be read. What these need is

- that the recursive functions are what they say (`HeightRecursion`, by
  height, once for all of `ty`, `alike`, `open` and `prolonged`);
- what a text begins with (`Starts`): with one token that tells most variants
  apart, or with that of its first part where a qualified path has no trait or a
  type is a pattern's, which begin as another type does;
- how lists are read (`ListsRead`): element by element, as each is followed by
  the separator or by what closes the list, and neither is the other. A list of
  bounds is closed by whatever comes after it, which is why an element that is
  open is excluded (`prolonged`).

Then signatures, values, positions and fields are read in the same way from what
stands around their types, `CodedRead` takes the declaration off the page, and
`ItemsRead` has one case per kind.

*Progress.* What can be said of progress without fairness is proved: of each
program with a liveness property, a measure that no step raises and every step
of its own lowers.

- The walk: modules never entered, then calls in progress (`Left` for the
  innermost: children still to see). Each falls or leaves the turn to the next,
  so cycles of re-exports do not matter; what makes it so is that the visited
  set only grows and that a module on the stack is in it. As no module is on
  the stack twice, the stack is no longer than the crate has modules.
- The server: `HandlerLeft` and `DownloadLeft` count the stages before a
  handler and its download, eight in all (`StepsLeft`). A step of one request
  takes that request on and leaves the others as they are (`ServerGetsOn`). A
  queued download waits for those ahead of it only, which only become fewer
  (`DownloadsKeepTheirOrder`). Where a request waits and no download runs, a
  thread is free for the first in the queue (`NeverStuck`), for which
  `PoolInv` and `QueueSound` are needed: that the pool has a thread, and that
  what is queued is in the queue.
- The harness: spec, phase, artifacts of the phase, calls of the artifact, and
  whether a body is rendered, in this order (`HarnessGetsOn`); a release on
  docs.rs is a step that is not the harness's.

From these, `Terminates`, `EveryRequestEnds`, `PoolDrains` and `Ends` follow by
the fairness of section 3; that last step is left to TLC.

**Only model-checked.** The liveness properties (`EveryRequestEnds`,
`PoolDrains`, `Terminates`, `Ends`) themselves, as the prover does not reason
about fairness. Every invariant and every other property of a passing run has a
theorem.

## 5. Not modelled

- The CLIs and the MCP adapter: one request each, with no state that lasts. A
  `md-docrs` run is `CrateServer` with one request that nobody leaves; the MCP
  adapter is one GET to the worker per call, without retry.
- Build scripts, continuous integration, and text for agents.
- foyer and `lru` inside, docs.rs, KV and the WASM runtimes: external, modelled
  by what the code can see of them. `close` of the hybrid cache, which nothing
  calls.
- Layout, wording, indentation and the link to docs.rs of a page; headers and
  logging; `/kv` of the worker beyond its status; durations, of which the
  harness model keeps whether a sample is of the network.
- Percent-encoding: axum and the Zig Worker decode a path and the Rust Worker
  matches it as it is, so the front ends may differ on paths with `%`; names of
  crates and items have none.
- An associated type without a trait whose type is more than a name
  (`ty.rs:79-81`): `WellMade` leaves it out. Types are told apart by their tokens,
  not by the characters in them.
- Buffers of no length: `alloc(0)` is null in Rust and not in Zig. What the
  guest does with a null is modelled (a body without bytes is a failed fetch);
  that inputs are never empty is assumed.
- Name spaces: a path may mean a type and a function; `out` keeps the first.
