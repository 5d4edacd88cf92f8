------------------------------ MODULE Harness -------------------------------
(***************************************************************************)
(* wasm-compare (main.rs): per spec, every artifact's resolve_url is timed, *)
(* then every full artifact renders the spec a few times and the outputs    *)
(* are compared.  A render downloads through the host's fetch_bytes, whose  *)
(* cache lives as long as the artifact's instance; docs.rs publishes        *)
(* meanwhile.  wasmtime_runner and wasmer_runner are one, except for what a *)
(* full artifact imports.  What happens inside an instance is WasmAbi's     *)
(* subject: here a call gives an output or an error.  The names of the two  *)
(* modules are kept apart, as WasmAbiProofs extends both.                   *)
(***************************************************************************)
EXTENDS Integers, Sequences, FiniteSets

CONSTANTS
    Artifacts,   \* the artifacts there may be, in order: [label, full]
    Specs,       \* DEFAULT_SPECS, in order
    Counts,      \* what --iterations and --render-iterations may be given
    MaxRelease,  \* bound: releases docs.rs makes of one spec's crate
    None

Labels == {Artifacts[i].label : i \in DOMAIN Artifacts}

\* What a full artifact renders: a release of the spec's crate, in the words
\* of the common renderer or in its own.
Outputs == [spec : 1..Len(Specs), release : 0..MaxRelease, odd : BOOLEAN]

ASSUME ParametersAssumption ==
    /\ Artifacts \in Seq([label : STRING, full : BOOLEAN])
    /\ Specs \in Seq(STRING) \ {<<>>}
    /\ Counts \subseteq Nat
    /\ MaxRelease \in Nat \ {0}
    /\ None \notin Outputs \cup Nat

VARIABLES
    docs,        \* docs.rs: index of a spec -> the release served
    runtime, iterations, renderIterations, offline,   \* Args
    present,     \* the labels of the artifacts that are there
    odd,         \* the labels of those that do not render as the others do
    spec,        \* the index of the spec under comparison
    phase,       \* "resolve" | "render" | "done" | "panicked" | "failed"
    todo,        \* the indices of the artifacts left in this phase
    cache,       \* HostState.cache of the instance: spec -> body, or None
    body,        \* the body fetch_bytes gave to the running render, or None
    fetches,     \* the fetch samples so far: "cached" or "net"
    output,      \* last_output
    first,       \* history: the instance's first output, or None
    parity,      \* the entries of the parity map: [hash, label]
    shown,       \* the fetch column of the rows printed: [label, fetch]
    verdict,     \* what was printed of the spec before: "" | "agree" | "differ"
    began        \* history: the release docs.rs was at when the spec began

args == <<runtime, iterations, renderIterations, offline, present, odd>>
instance == <<cache, body, fetches, output, first>>
harnessVars == <<docs, args, spec, phase, todo, instance, parity, shown, verdict, began>>

Present(full) ==
    {i \in DOMAIN Artifacts :
        Artifacts[i].label \in present /\ (full => Artifacts[i].full)}

\* The artifacts take their turns in the order of the list.
Turn == CHOOSE i \in todo : \A j \in todo : i <= j

Running == Artifacts[Turn]

Fresh ==
    /\ cache' = [s \in 1..Len(Specs) |-> None]
    /\ body' = None /\ output' = None /\ first' = None /\ fetches' = <<>>

HarnessInit ==
    /\ docs = [s \in 1..Len(Specs) |-> 1]
    /\ runtime \in {"wasmtime", "wasmer"}
    /\ iterations \in Counts /\ renderIterations \in Counts
    /\ offline \in BOOLEAN
    /\ present \in SUBSET Labels \ {{}}
    /\ odd \in SUBSET present
    /\ \A i \in DOMAIN Artifacts : Artifacts[i].label \in odd => Artifacts[i].full
    /\ spec = 1 /\ phase = "resolve" /\ todo = Present(FALSE)
    /\ cache = [s \in 1..Len(Specs) |-> None]
    /\ body = None /\ output = None /\ first = None /\ fetches = <<>>
    /\ parity = {} /\ shown = {} /\ verdict = "" /\ began = docs

Publish(s) ==
    /\ phase \in {"resolve", "render"}
    /\ s >= spec
    /\ docs[s] < MaxRelease
    /\ docs' = [docs EXCEPT ![s] = @ + 1]
    /\ UNCHANGED <<args, spec, phase, todo, instance, parity, shown, verdict, began>>

-----------------------------------------------------------------------------
(* print_resolve_results                                                   *)

\* The index of the 95th percentile not held below the count.
MutantP95(n) == (n * 95 + 99) \div 100

\* With n samples: usize division, and n - 1 panics for n = 0.
P95(n) == IF (n * 95) \div 100 < n - 1 THEN (n * 95) \div 100 ELSE n - 1

Median(n) == n \div 2

InRange(i, n) == 0 <= i /\ i < n

\* wasmer_runner's run_resolve instantiates with no imports at all, and a full
\* artifact imports env.fetch_bytes.
Instantiates(a) == runtime = "wasmer" => ~a.full

\* run_resolve made its calls and takes the statistics of them.
Resolved ==
    /\ phase = "resolve" /\ todo # {}
    /\ Instantiates(Running)
    /\ InRange(Median(iterations), iterations) /\ InRange(P95(iterations), iterations)
    /\ todo' = todo \ {Turn}
    /\ UNCHANGED <<docs, args, spec, phase, instance, parity, shown, verdict, began>>

\* An error of the artifact, which wasmer gives for every full one, is printed
\* and the next one's turn comes.
ResolveError ==
    /\ phase = "resolve" /\ todo # {}
    /\ todo' = todo \ {Turn}
    /\ UNCHANGED <<docs, args, spec, phase, instance, parity, shown, verdict, began>>

StatsPanic ==
    /\ phase = "resolve" /\ todo # {}
    /\ Instantiates(Running)
    /\ ~(InRange(Median(iterations), iterations) /\ InRange(P95(iterations), iterations))
    /\ phase' = "panicked"
    /\ UNCHANGED <<docs, args, spec, todo, instance, parity, shown, verdict, began>>

\* fs::read of the artifact fails, which ends the program.
ReadFails ==
    /\ phase \in {"resolve", "render"} /\ todo # {}
    /\ phase = "render" => fetches = <<>> /\ body = None
    /\ phase' = "failed"
    /\ UNCHANGED <<docs, args, spec, todo, instance, parity, shown, verdict, began>>

NextSpec ==
    /\ began' = docs
    /\ IF spec < Len(Specs)
       THEN spec' = spec + 1 /\ phase' = "resolve" /\ todo' = Present(FALSE)
       ELSE phase' = "done" /\ UNCHANGED <<spec, todo>>

\* The render column is left out offline and where no artifact has it.
SkipRender ==
    /\ phase = "resolve" /\ todo = {}
    /\ offline \/ Present(TRUE) = {}
    /\ verdict' = "" /\ parity' = {} /\ shown' = {}
    /\ NextSpec
    /\ UNCHANGED <<docs, args, instance>>

\* ... else every full artifact gets an instance of its own, and the spec a
\* parity map.
StartRender ==
    /\ phase = "resolve" /\ todo = {}
    /\ ~offline /\ Present(TRUE) # {}
    /\ phase' = "render"
    /\ todo' = Present(TRUE)
    /\ parity' = {} /\ shown' = {} /\ verdict' = ""
    /\ Fresh
    /\ UNCHANGED <<docs, args, spec, began>>

-----------------------------------------------------------------------------
(* run_render: one iteration is a fetch and a render                       *)

Calling ==
    /\ phase = "render" /\ todo # {}
    /\ Len(fetches) < renderIterations
    /\ body = None

\* A call served from the cache not counted as an iteration.
MutantFetchCached ==
    /\ Calling
    /\ cache[spec] # None
    /\ body' = cache[spec]
    /\ UNCHANGED <<docs, args, spec, phase, todo, cache, fetches, output, first,
                   parity, shown, verdict, began>>

FetchCached ==
    /\ Calling
    /\ cache[spec] # None
    /\ body' = cache[spec]
    /\ fetches' = Append(fetches, "cached")
    /\ UNCHANGED <<docs, args, spec, phase, todo, cache, output, first,
                   parity, shown, verdict, began>>

FetchFromNet ==
    /\ Calling
    /\ cache[spec] = None
    /\ body' = docs[spec]
    /\ fetches' = Append(fetches, "net")
    /\ UNCHANGED <<docs, args, spec, phase, todo, output, first,
                   parity, shown, verdict, began>>

\* The body kept only for the call that asked for it.
MutantDownload == FetchFromNet /\ UNCHANGED cache

Download == FetchFromNet /\ cache' = [cache EXCEPT ![spec] = docs[spec]]

RenderedBy(a) == [spec |-> spec, release |-> body, odd |-> a.label \in odd]

RenderOk ==
    /\ phase = "render" /\ body # None
    /\ output' = RenderedBy(Running)
    /\ first' = IF first = None THEN RenderedBy(Running) ELSE first
    /\ body' = None
    /\ UNCHANGED <<docs, args, spec, phase, todo, cache, fetches,
                   parity, shown, verdict, began>>

NextArtifact == todo' = todo \ {Turn} /\ Fresh

\* After a call that failed the artifact is compared by the output before it.
MutantRenderError ==
    /\ phase = "render" /\ todo # {}
    /\ Calling \/ body # None
    /\ parity' = parity \cup {[hash |-> [spec |-> spec, release |-> 0, odd |-> FALSE],
                               label |-> Running.label]}
    /\ NextArtifact
    /\ UNCHANGED <<docs, args, spec, phase, shown, verdict, began>>

\* The module does not instantiate or export render_spec, the download fails
\* or is refused, the body finds no room, the guest fails: the error is
\* printed and the artifact takes no part in the comparison.
RenderError ==
    /\ phase = "render" /\ todo # {}
    /\ Calling \/ body # None
    /\ NextArtifact
    /\ UNCHANGED <<docs, args, spec, phase, parity, shown, verdict, began>>

\* No iteration, no output: "render_spec produced no output".
NothingRendered ==
    /\ phase = "render" /\ todo # {}
    /\ renderIterations = 0
    /\ NextArtifact
    /\ UNCHANGED <<docs, args, spec, phase, parity, shown, verdict, began>>

\* median_duration of the fetches: sorted, a cached body comes first.
FetchMedian ==
    IF Median(Len(fetches)) < Cardinality({i \in DOMAIN fetches : fetches[i] = "cached"})
    THEN "cached" ELSE "net"

Row ==
    /\ phase = "render" /\ todo # {}
    /\ body = None /\ output # None
    /\ Len(fetches) = renderIterations
    /\ parity' = parity \cup {[hash |-> output, label |-> Running.label]}
    /\ shown' = shown \cup {[label |-> Running.label, fetch |-> FetchMedian]}
    /\ NextArtifact
    /\ UNCHANGED <<docs, args, spec, phase, verdict, began>>

Hashes == {p.hash : p \in parity}

\* Agreement said of a single artifact, or of none.
MutantVerdict == IF Cardinality(Hashes) > 1 THEN "differ" ELSE "agree"

Verdict ==
    CASE Cardinality(Hashes) > 1 -> "differ"
      [] Cardinality(Hashes) = 1 /\ Cardinality(parity) > 1 -> "agree"
      [] OTHER -> ""

\* print_parity_summary; its rows are the model's until the next spec's.
Summary ==
    /\ phase = "render" /\ todo = {}
    /\ verdict' = Verdict
    /\ NextSpec
    /\ UNCHANGED <<docs, args, instance, parity, shown>>

Run ==
    \/ Resolved \/ ResolveError \/ StatsPanic \/ ReadFails
    \/ SkipRender \/ StartRender
    \/ FetchCached \/ Download \/ RenderOk \/ RenderError \/ NothingRendered \/ Row
    \/ Summary

HarnessNext == Run \/ \E s \in 1..Len(Specs) : Publish(s)

HarnessSpec == HarnessInit /\ [][HarnessNext]_harnessVars

\* One thread runs the harness; every request has a timeout of 30 seconds.
FairHarness == HarnessSpec /\ WF_harnessVars(Run)

-----------------------------------------------------------------------------
\* The head of main.rs says that the first output is hashed; run_render hashes
\* the last.  They are one and the same, whatever docs.rs does in between, as
\* every call after the first is served from the instance's cache.
HashesTheFirst == output # None => output = first

\* Outputs differ only where an artifact renders in its own way, or where
\* docs.rs has published since the spec began: every artifact downloads anew.
DifferenceExplained ==
    \A p, q \in parity :
        phase = "render" /\ p.hash # q.hash =>
            \/ p.label \in odd /\ q.label \notin odd
            \/ q.label \in odd /\ p.label \notin odd
            \/ docs[spec] > began[spec]

\* "all full artifacts agree" is said of two or more that rendered, none of
\* which renders in its own way unless all do, whichever failed beside them.
AgreementIsEarned ==
    verdict = "agree" =>
        LET rendered == {p.label : p \in parity} IN
            /\ Cardinality(rendered) > 1
            /\ rendered \subseteq odd \/ rendered \cap odd = {}

\* The statistics index their samples within bounds, except that with
\* --iterations 0, which parse_args lets through, there are none; and then
\* wasmer gets by where all artifacts are full, as it instantiates none.
PanicsOnlyAtZero ==
    phase = "panicked" =>
        /\ iterations = 0
        /\ runtime = "wasmer" => \E i \in DOMAIN Artifacts :
              Artifacts[i].label \in present /\ ~Artifacts[i].full

\* The fetch column shows the network only up to two iterations: of three, the
\* default, the median is a call that was served from the host's cache.
FetchColumn ==
    \A row \in shown : row.fetch = "net" <=> renderIterations <= 2

Releases == [1..Len(Specs) -> 1..MaxRelease]

HarnessTypeOK ==
    /\ docs \in Releases /\ began \in Releases
    /\ iterations \in Nat /\ renderIterations \in Nat
    /\ spec \in 1..Len(Specs)
    /\ phase \in {"resolve", "render", "done", "panicked", "failed"}
    /\ todo \subseteq DOMAIN Artifacts
    /\ cache \in [1..Len(Specs) -> 1..MaxRelease \cup {None}]
    /\ body \in 1..MaxRelease \cup {None}
    /\ fetches \in Seq({"cached", "net"})
    /\ output \in Outputs \cup {None} /\ first \in Outputs \cup {None}
    /\ parity \subseteq [hash : Outputs, label : STRING] /\ IsFiniteSet(parity)

\* The instance at work: its cache has the one release it downloaded, which is
\* what it renders from and has rendered.
InstanceSound ==
    phase = "render" =>
        /\ body # None => body = cache[spec]
        /\ first = output
        /\ output # None => cache[spec] # None /\ output =
              [spec |-> spec, release |-> cache[spec], odd |-> Running.label \in odd]
        /\ fetches = <<>> <=> cache[spec] = None
        /\ \A i \in 1..Len(fetches) : fetches[i] = "net" <=> i = 1
        /\ cache[spec] # None => cache[spec] \in began[spec]..docs[spec]

\* What the parity map of a spec has of the artifacts that rendered it.
ParitySound ==
    /\ \A p \in parity : p.hash.odd <=> p.label \in odd
    /\ phase = "render" =>
          \A p \in parity :
              p.hash.spec = spec /\ p.hash.release \in began[spec]..docs[spec]

\* Nothing is said of a spec before its summary, only artifacts that are there
\* have a turn, and docs.rs only moves on.
InOrder ==
    /\ \A s \in 1..Len(Specs) : began[s] <= docs[s]
    /\ phase = "render" => verdict = ""
    /\ phase = "resolve" => todo \subseteq Present(FALSE)

HarnessInv ==
    /\ HarnessTypeOK /\ InstanceSound /\ ParitySound /\ InOrder
    /\ HashesTheFirst /\ AgreementIsEarned /\ PanicsOnlyAtZero /\ FetchColumn

\* However artifacts fail, every comparison comes to its end.
Ends == <>(phase \in {"done", "panicked", "failed"})
=============================================================================
