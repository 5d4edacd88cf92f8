------------------------------ MODULE WasmAbi -------------------------------
(***************************************************************************)
(* The C ABI between a WASM guest (md-docrs-rust-wasm/src/lib.rs, or       *)
(* zig/lib/wasm.zig for resolve_url) and the hosts that call it: the       *)
(* Worker around the Zig build (zig/src/index.ts), the harness's           *)
(* call_resolve and call_render (md-docrs-wasm-compare), which keep one    *)
(* instance for many calls, and a caller of render_markdown as its comment *)
(* describes one.  Every buffer in linear memory belongs to one side at a  *)
(* time and is freed by whoever has it, with its own length.               *)
(***************************************************************************)
EXTENDS Integers

CONSTANTS
    Ptrs,       \* the addresses alloc may return
    Null,
    MaxRounds,  \* bound: calls made on one instance
    MaxGrowth   \* bound: times linear memory grows

ASSUME NullAssumption == Null \notin Ptrs
ASSUME BoundsAssumption == MaxRounds \in Nat \ {0} /\ MaxGrowth \in Nat

HostBuffers == {"spec", "target", "out", "slot", "json"}
GuestBuffers == {"path", "url", "resp", "md"}
Buffers == HostBuffers \cup GuestBuffers

VARIABLES
    host,      \* "worker", "resolve", "render" or "caller"
    guest,     \* "rust" or "zig"
    target,    \* is there a target triple?
    pc,        \* where host and guest are: they share one thread
    heap,      \* live address -> the buffer whose length it was allocated with
    at,        \* buffer -> the address its side has for it, or Null
    pages,     \* how often memory has grown
    view,      \* worker: pages when the view it writes or reads through was made
    rc,        \* what the guest returned: bytes, or 0 and below as in its docs
    rounds,    \* calls finished on this instance
    faults     \* buffers that were used or freed while not live, or misused

vars == <<host, guest, target, pc, heap, at, pages, view, rc, rounds, faults>>
fixed == <<host, guest, target>>

Init ==
    /\ host \in {"worker", "resolve", "render", "caller"}
    /\ guest \in CASE host = "worker" -> {"zig"}
                    [] host = "resolve" -> {"zig", "rust"}
                    [] host \in {"render", "caller"} -> {"rust"}
    /\ target \in BOOLEAN
    /\ pc = "start"
    /\ heap = [p \in {} |-> ""]
    /\ at = [b \in Buffers |-> Null]
    /\ pages = 0
    /\ view = 0
    /\ rc = 0
    /\ rounds = 0
    /\ faults = {}

-----------------------------------------------------------------------------
(* alloc, free and access                                                  *)

Live(b) == at[b] \in DOMAIN heap /\ heap[at[b]] = b

Goto(from, to) == pc = from /\ pc' = to

\* alloc finds room, perhaps by growing memory, which detaches every view ...
Alloc(b) ==
    /\ \E p \in Ptrs \ DOMAIN heap :
          /\ heap' = [q \in DOMAIN heap \cup {p} |-> IF q = p THEN b ELSE heap[q]]
          /\ at' = [at EXCEPT ![b] = p]
    /\ pages' \in {pages} \cup (IF pages < MaxGrowth THEN {pages + 1} ELSE {})
    /\ UNCHANGED <<fixed, view, rc, rounds, faults>>

\* ... or returns null.
NoAlloc(b) ==
    /\ at' = [at EXCEPT ![b] = Null]
    /\ UNCHANGED <<fixed, heap, pages, view, rc, rounds, faults>>

Faulty(bs) == {b \in bs : ~Live(b)}

FreeAll(bs) ==
    /\ heap' = [p \in DOMAIN heap \ {at[b] : b \in bs} |-> heap[p]]
    /\ faults' = faults \cup Faulty(bs)

\* Views are good until memory grows.
Use(bs) == faults' = faults \cup Faulty(bs)
UseView(bs, v) == faults' = faults \cup Faulty(bs) \cup (IF v = pages THEN {} ELSE bs)

-----------------------------------------------------------------------------
(* The hosts, up to the call                                               *)

\* Is the answer a buffer of the guest's own?
Renders == host \in {"render", "caller"}

OutBuffer == IF Renders THEN "slot" ELSE "out"

Given == {"spec", OutBuffer} \cup (IF target THEN {"target"} ELSE {})
             \cup (IF host = "caller" THEN {"json"} ELSE {})

\* The harness bails at a null; the worker looks at all three at the end.
AllocSpec ==
    \/ Goto("start", "target") /\ Alloc("spec")
    \/ Goto("start", IF host = "worker" THEN "target" ELSE "bailed") /\ NoAlloc("spec")

AllocTarget ==
    \/ target /\ Goto("target", "out") /\ Alloc("target")
    \/ /\ target
       /\ Goto("target", IF host = "worker" THEN "out" ELSE "bailed")
       /\ NoAlloc("target")
    \/ ~target /\ Goto("target", "out") /\ NoAlloc("target")

AllocOut ==
    \/ Goto("out", IF host = "caller" THEN "body" ELSE "inputs") /\ Alloc(OutBuffer)
    \/ /\ Goto("out", IF host = "worker" THEN "inputs" ELSE "bailed")
       /\ NoAlloc(OutBuffer)

\* The crate comes from the caller, where the guest fetches nothing.
AllocJson ==
    \/ Goto("body", "inputs") /\ Alloc("json")
    \/ Goto("body", "bailed") /\ NoAlloc("json")

AllocFailed ==
    /\ host = "worker"
    /\ \E b \in Given : at[b] = Null
    /\ Goto("inputs", "bailed")
    /\ UNCHANGED <<fixed, heap, at, pages, view, rc, rounds, faults>>

\* The inputs are written: by the worker through views made for it, by the
\* harness through the runtime's memory.write as each is allocated.
WriteInputs ==
    /\ \A b \in Given : at[b] # Null
    /\ Goto("inputs", "parse")
    /\ view' = pages
    /\ UseView(Given \ {OutBuffer}, view')
    /\ UNCHANGED <<fixed, heap, at, pages, rc, rounds>>

-----------------------------------------------------------------------------
(* The guest: resolve_url, render_spec and render_markdown, to the answer  *)

Locals == {b \in {"path", "url"} : at[b] # Null}

Return(code) ==
    /\ pc' = "returned"
    /\ rc' = code
    /\ at' = [b \in Buffers |-> IF b \in {"path", "url"} THEN Null ELSE at[b]]
    /\ UNCHANGED <<fixed, pages, view, rounds>>

Failure == IF host = "render" THEN -5 ELSE 0

\* A spec with a path has its segments in a buffer; one without has none.
ParseSpec ==
    Goto("parse", IF host = "caller" THEN "json" ELSE "url") /\ (Alloc("path") \/ NoAlloc("path"))

\* A segment is no identifier, while its buffer is there or not; or it is there,
\* and version or name are no good.
BadSpec ==
    /\ pc \in {"parse", "url"} \/ (pc = "json" /\ host = "caller")
    /\ heap' = [p \in DOMAIN heap \ {at[b] : b \in Locals} |-> heap[p]]
    /\ Use((Given \ {OutBuffer}) \cup Locals)
    /\ Return(Failure)

BuildUrl == Goto("url", IF host = "render" THEN "fetch" ELSE "write") /\ Alloc("url")

\* No memory for the spec or the URL: Zig returns 0, Rust aborts.
OutOfMemory ==
    /\ guest = "zig"
    /\ pc \in {"parse", "url"}
    /\ FreeAll(Locals)
    /\ Return(0)

Abort ==
    /\ guest = "rust"
    /\ pc \in {"parse", "url", "decode", "json"}
    /\ pc' = "bailed"
    /\ UNCHANGED <<fixed, heap, at, pages, view, rc, rounds, faults>>

TooLong ==
    /\ pc = "write"
    /\ FreeAll(Locals)
    /\ Return(0)

WriteUrl ==
    /\ pc = "write"
    /\ heap' = [p \in DOMAIN heap \ {at[b] : b \in Locals} |-> heap[p]]
    /\ Use(Locals \cup {"out"})
    /\ Return(1)

\* fetch_bytes: the host fails, by status, transport or for want of memory ...
FetchFails ==
    /\ pc = "fetch"
    /\ FreeAll(Locals)
    /\ Return(-2)

\* ... or calls the guest's alloc and hands the body over.
FetchBytes == Goto("fetch", "decode") /\ Alloc("resp")

\* The guest returns before it frees the body.
MutantBadZstd ==
    /\ pc = "decode"
    /\ FreeAll(Locals)
    /\ Return(-3)

\* The body is freed once it is decoded, whether it could be or not.
Decode ==
    /\ Goto("decode", "json")
    /\ FreeAll({"resp"})
    /\ UNCHANGED <<fixed, at, pages, view, rc, rounds>>

BadZstd ==
    /\ pc = "decode"
    /\ FreeAll(Locals \cup {"resp"})
    /\ Return(-3)

\* The JSON, which may be the caller's, does not parse, or the item is not in it.
BadCrate ==
    /\ pc = "json"
    /\ heap' = [p \in DOMAIN heap \ {at[b] : b \in Locals} |-> heap[p]]
    /\ Use(Locals \cup ({"json"} \cap Given))
    /\ \E code \in IF host = "render" THEN {-4, -5} ELSE {0} : Return(code)

Rendered == Goto("json", "md") /\ Alloc("md")

NoRoom ==
    /\ pc = "json"
    /\ FreeAll(Locals)
    /\ Return(IF host = "render" THEN -1 ELSE 0)

WriteSlots ==
    /\ pc = "md"
    /\ heap' = [p \in DOMAIN heap \ {at[b] : b \in Locals} |-> heap[p]]
    /\ Use(Locals \cup {"slot", "md"} \cup ({"json"} \cap Given))
    /\ Return(IF host = "render" THEN 0 ELSE 1)

-----------------------------------------------------------------------------
(* The hosts, from the return on                                           *)

Succeeded == IF host = "render" THEN rc = 0 ELSE rc > 0

\* The URL decoded from a view made before the call.
MutantReadOutput ==
    /\ Succeeded
    /\ Goto("returned", "free")
    /\ UseView({OutBuffer}, IF host = "worker" THEN view ELSE pages)
    /\ UNCHANGED <<fixed, heap, at, pages, view, rc, rounds>>

\* The output is read through a view, or a read, of the memory as it is now.
ReadOutput ==
    /\ Succeeded
    /\ Goto("returned", "free")
    /\ view' = pages
    /\ UseView({OutBuffer} \cup (IF Renders THEN {"md"} ELSE {}), view')
    /\ UNCHANGED <<fixed, heap, at, pages, rc, rounds>>

\* A run that goes on with the same instance after render_spec failed.
MutantNoOutput ==
    /\ ~Succeeded
    /\ Goto("returned", IF host = "render" THEN "start" ELSE "free")
    /\ UNCHANGED <<fixed, heap, at, pages, view, rc, rounds, faults>>

\* resolve_url's failure is a result and frees as well, and so may a caller of
\* render_markdown; render_spec's leaves call_render at once, and run_render
\* with it.
NoOutput ==
    /\ ~Succeeded
    /\ Goto("returned", IF host = "render" THEN "bailed" ELSE "free")
    /\ UNCHANGED <<fixed, heap, at, pages, view, rc, rounds, faults>>

ToFree == Given \cup (IF Renders /\ Succeeded THEN {"md"} ELSE {})

\* Every buffer the host has is freed, and the next iteration starts; the
\* worker is done with its instance.
FreeBuffers ==
    /\ Goto("free", IF host = "worker" \/ rounds + 1 = MaxRounds THEN "done" ELSE "start")
    /\ FreeAll(ToFree)
    /\ rounds' = rounds + 1
    /\ UNCHANGED <<fixed, at, pages, view, rc>>

Next ==
    \/ AllocSpec \/ AllocTarget \/ AllocOut \/ AllocJson \/ AllocFailed \/ WriteInputs
    \/ ParseSpec \/ BadSpec \/ BuildUrl \/ OutOfMemory \/ Abort
    \/ TooLong \/ WriteUrl
    \/ FetchFails \/ FetchBytes \/ Decode \/ BadZstd \/ BadCrate \/ Rendered
    \/ NoRoom \/ WriteSlots
    \/ ReadOutput \/ NoOutput \/ FreeBuffers

Spec == Init /\ [][Next]_vars

-----------------------------------------------------------------------------
TypeOK ==
    /\ <<host, guest>> \in {"worker", "resolve", "render", "caller"} \X {"rust", "zig"}
    /\ target \in BOOLEAN
    /\ pc \in {"start", "target", "out", "body", "inputs", "parse", "url", "write", "fetch",
               "decode", "json", "md", "returned", "free", "done", "bailed"}
    /\ DOMAIN heap \subseteq Ptrs
    /\ \A p \in DOMAIN heap : heap[p] \in Buffers
    /\ at \in [Buffers -> Ptrs \cup {Null}]
    /\ pages \in 0..MaxGrowth /\ view \in 0..MaxGrowth
    /\ rc \in -5..1
    /\ rounds \in 0..MaxRounds
    /\ faults \subseteq Buffers

\* Neither side frees or uses what is not live, frees with another length than
\* it was allocated with, or goes through a view of memory that has grown.
NoFault == faults = {}

\* A call that ends without leaving the instance leaves nothing in it: the
\* harness's many iterations on one instance do not fill its memory.
EmptyBetweenCalls == pc \in {"start", "done"} => DOMAIN heap = {}

\* Whatever fails in the guest, it gives back all of its own, the body the host
\* handed it included, and none of the host's; Markdown it leaves only with
\* success.
GuestKeepsNothing ==
    pc = "returned" =>
        {heap[p] : p \in DOMAIN heap} =
            Given \cup (IF Renders /\ Succeeded THEN {"md"} ELSE {})
=============================================================================
