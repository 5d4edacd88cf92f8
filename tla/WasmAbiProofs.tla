--------------------------- MODULE WasmAbiProofs ---------------------------
(***************************************************************************)
(* Who owns which buffer, proved for any addresses, any number of calls    *)
(* and any growth of memory.  Held is what is live; Stage says, at every   *)
(* place host and guest can be, exactly which buffers those are, and Owned *)
(* that each is where its side believes it to be.  NoFault, and that a     *)
(* call leaves nothing behind, are then read off.                          *)
(* The second part is of Harness, which runs the guests to compare them.   *)
(***************************************************************************)
EXTENDS WasmAbi, Harness, TLAPS, FiniteSetTheorems, FunctionTheorems,
        WellFoundedInduction

Held == {heap[p] : p \in DOMAIN heap}

Owned ==
    /\ heap = [p \in DOMAIN heap |-> heap[p]]
    /\ \A p \in DOMAIN heap : at[heap[p]] = p

\* Which host goes with which guest, and which of them comes to which place.
Places ==
    /\ guest = "zig" => ~Renders
    /\ pc = "write" => ~Renders
    /\ pc = "body" => host = "caller"
    /\ pc \in {"fetch", "decode"} => host = "render"
    /\ pc = "url" => host # "caller"
    /\ pc \in {"json", "md"} => Renders
    /\ pc = "free" /\ host = "render" => rc = 0
    /\ pc \notin {"done", "bailed"} => rounds < MaxRounds

PlaceNames ==
    {"start", "target", "out", "body", "inputs", "parse", "url", "write", "fetch",
     "decode", "json", "md", "returned", "free", "done", "bailed"}

Inside == {"parse", "url", "write", "fetch", "decode", "json", "md"}

\* What each place holds, but where the instance was left as it was.
Stage ==
    pc # "bailed" =>
        /\ "spec" \in Held <=> pc \notin {"start", "done"} /\ at["spec"] # Null
        /\ "target" \in Held <=>
              target /\ pc \notin {"start", "target", "done"} /\ at["target"] # Null
        /\ "out" \in Held <=>
              ~Renders /\ pc \notin {"start", "target", "out", "done"} /\ at["out"] # Null
        /\ "slot" \in Held <=>
              Renders /\ pc \notin {"start", "target", "out", "done"} /\ at["slot"] # Null
        /\ "json" \in Held <=>
              /\ host = "caller" /\ at["json"] # Null
              /\ pc \notin {"start", "target", "out", "body", "done"}
        /\ "path" \in Held <=> at["path"] # Null
        /\ "url" \in Held <=> at["url"] # Null
        /\ "resp" \in Held <=> pc = "decode"
        /\ "md" \in Held <=> pc = "md" \/ (pc \in {"returned", "free"} /\ Renders /\ Succeeded)
        /\ pc \notin Inside \ {"parse"} => at["path"] = Null /\ at["url"] = Null
        /\ pc = "url" => at["url"] = Null
        /\ host = "caller" => at["url"] = Null
        /\ pc \in Inside \cup {"returned", "free"} => \A b \in Given : at[b] # Null

IInv == TypeOK /\ NoFault /\ Owned /\ Places /\ Stage

-----------------------------------------------------------------------------
(* What alloc and free do to what is held                                  *)

\* What is held is live: at the address its side has, with its own length.
LEMMA HeldIsLive == ASSUME Owned, NEW b, b \in Held PROVE Live(b)
BY DEF Owned, Held, Live

LEMMA HeldIsTyped == ASSUME TypeOK PROVE Held \subseteq Buffers
BY DEF TypeOK, Held

LEMMA NoFaults == ASSUME Owned, NEW bs, bs \subseteq Held PROVE Faulty(bs) = {}
BY HeldIsLive DEF Faulty

\* alloc adds the one buffer it is asked for, where nothing was.
LEMMA AllocHolds ==
    ASSUME TypeOK, Owned, NEW b \in Buffers, b \notin Held, Alloc(b)
    PROVE  /\ Held' = Held \cup {b}
           /\ Owned'
           /\ DOMAIN heap' \subseteq Ptrs /\ \A p \in DOMAIN heap' : heap'[p] \in Buffers
           /\ at' \in [Buffers -> Ptrs \cup {Null}]
           /\ at'[b] # Null /\ \A c \in Buffers \ {b} : at'[c] = at[c]
           /\ pages' \in 0..MaxGrowth
<1>1. PICK p \in Ptrs \ DOMAIN heap :
          /\ heap' = [q \in DOMAIN heap \cup {p} |-> IF q = p THEN b ELSE heap[q]]
          /\ at' = [at EXCEPT ![b] = p]
  BY DEF Alloc
<1>2. p # Null /\ at \in [Buffers -> Ptrs \cup {Null}]
  BY NullAssumption DEF TypeOK
<1>3. /\ DOMAIN heap' = DOMAIN heap \cup {p} /\ heap'[p] = b
      /\ \A q \in DOMAIN heap : heap'[q] = heap[q] /\ q # p
  BY <1>1
<1>4. at'[b] = p /\ \A c \in Buffers \ {b} : at'[c] = at[c]
  BY <1>1, <1>2
<1>5. Held' = Held \cup {b}
  BY <1>3 DEF Held
<1>6. Owned'
  <2>1. heap' = [q \in DOMAIN heap' |-> heap'[q]]
    BY <1>1, <1>3
  <2>2. ASSUME NEW q \in DOMAIN heap PROVE at'[heap'[q]] = q
    <3>1. heap[q] \in Buffers /\ heap[q] # b
      BY DEF TypeOK, Held
    <3> QED BY <1>3, <1>4, <3>1 DEF Owned
  <2> QED BY <1>3, <1>4, <2>1, <2>2 DEF Owned
<1>7. pages' \in 0..MaxGrowth
  BY BoundsAssumption DEF Alloc, TypeOK
<1> QED BY <1>1, <1>2, <1>3, <1>4, <1>5, <1>6, <1>7 DEF TypeOK

\* A refused alloc leaves what is held alone.
LEMMA NoAllocHolds ==
    ASSUME TypeOK, Owned, NEW b \in Buffers, b \notin Held, NoAlloc(b)
    PROVE  /\ Held' = Held
           /\ Owned'
           /\ at' \in [Buffers -> Ptrs \cup {Null}]
           /\ at'[b] = Null /\ \A c \in Buffers \ {b} : at'[c] = at[c]
<1>1. heap' = heap /\ at' = [at EXCEPT ![b] = Null]
  BY DEF NoAlloc
<1>2. \A p \in DOMAIN heap : heap[p] \in Buffers \ {b}
  BY DEF TypeOK, Held
<1> QED BY <1>1, <1>2 DEF TypeOK, Owned, Held

\* free takes away the buffers it is called with and no other.
LEMMA FreeHolds ==
    ASSUME TypeOK, Owned, NEW bs, bs \subseteq Held,
           heap' = [p \in DOMAIN heap \ {at[b] : b \in bs} |-> heap[p]],
           \A b \in Held \ bs : at'[b] = at[b]
    PROVE  /\ Held' = Held \ bs
           /\ Owned'
           /\ DOMAIN heap' \subseteq Ptrs /\ \A p \in DOMAIN heap' : heap'[p] \in Buffers
<1>1. /\ DOMAIN heap' = DOMAIN heap \ {at[b] : b \in bs}
      /\ \A p \in DOMAIN heap' : heap'[p] = heap[p]
  OBVIOUS
<1>2. \A p \in DOMAIN heap : p \in DOMAIN heap' <=> heap[p] \notin bs
  <2>1. ASSUME NEW p \in DOMAIN heap, heap[p] \in bs PROVE p \notin DOMAIN heap'
    BY <1>1, <2>1 DEF Owned
  <2>2. ASSUME NEW p \in DOMAIN heap, NEW b \in bs, p = at[b] PROVE heap[p] \in bs
    BY <2>2, HeldIsLive DEF Live
  <2> QED BY <1>1, <2>1, <2>2
<1>3. Held' = Held \ bs
  BY <1>1, <1>2 DEF Held
<1>4. Owned'
  <2>1. \A p \in DOMAIN heap' : heap[p] \in Held \ bs
    BY <1>1, <1>2 DEF Held
  <2> QED BY <1>1, <2>1 DEF Owned
<1> QED BY <1>1, <1>3, <1>4 DEF TypeOK

-----------------------------------------------------------------------------
(* The steps, host first                                                   *)

LEMMA InitIInv == ASSUME Init PROVE IInv
<1>1. Held = {} /\ DOMAIN heap = {}
  BY DEF Init, Held
<1>2. TypeOK
  BY <1>1, BoundsAssumption DEF Init, TypeOK
<1>3. Owned
  BY <1>1 DEF Init, Owned
<1>4. NoFault /\ Places
  BY BoundsAssumption DEF Init, NoFault, Places, Renders
<1>5. \A b \in Buffers : at[b] = Null
  BY DEF Init
<1>6. pc = "start"
  BY DEF Init
<1>7. Stage
  BY <1>1, <1>5, <1>6 DEF Stage, Buffers, HostBuffers, GuestBuffers, Inside
<1> QED BY <1>2, <1>3, <1>4, <1>7 DEF IInv

\* Everything of the next state but where it is: alloc and its refusal ...
LEMMA AllocKeeps ==
    ASSUME IInv, NEW b \in Buffers, b \notin Held, Alloc(b)
    PROVE  /\ Held' = Held \cup {b} /\ Owned' /\ NoFault'
           /\ UNCHANGED <<host, guest, target, rc, rounds>>
           /\ at'[b] # Null /\ \A c \in Buffers \ {b} : at'[c] = at[c]
           /\ pc' \in PlaceNames => TypeOK'
<1>1. UNCHANGED <<host, guest, target, view, rc, rounds, faults>>
  BY DEF Alloc, fixed
<1>2. pc' \in PlaceNames => TypeOK'
  BY <1>1, AllocHolds DEF IInv, TypeOK, PlaceNames
<1> QED BY <1>1, <1>2, AllocHolds DEF IInv, NoFault

LEMMA NoAllocKeeps ==
    ASSUME IInv, NEW b \in Buffers, b \notin Held, NoAlloc(b)
    PROVE  /\ Held' = Held /\ Owned' /\ NoFault'
           /\ UNCHANGED <<host, guest, target, rc, rounds>>
           /\ at'[b] = Null /\ \A c \in Buffers \ {b} : at'[c] = at[c]
           /\ pc' \in PlaceNames => TypeOK'
<1>1. UNCHANGED <<host, guest, target, heap, pages, view, rc, rounds, faults>>
  BY DEF NoAlloc, fixed
<1>2. pc' \in PlaceNames => TypeOK'
  BY <1>1, NoAllocHolds DEF IInv, TypeOK, PlaceNames
<1> QED BY <1>1, <1>2, NoAllocHolds DEF IInv, NoFault

\* ... and the guest's return, with its locals among what it frees.
LEMMA ReturnKeeps ==
    ASSUME IInv, NEW bs, bs \subseteq Held, Held \cap {"path", "url"} \subseteq bs,
           heap' = [p \in DOMAIN heap \ {at[b] : b \in bs} |-> heap[p]],
           NEW code \in -5..1, Return(code), faults' = faults
    PROVE  /\ Held' = Held \ bs /\ Owned' /\ NoFault' /\ TypeOK'
           /\ UNCHANGED <<host, guest, target, rounds>>
           /\ pc' = "returned" /\ rc' = code
           /\ at'["path"] = Null /\ at'["url"] = Null
           /\ \A c \in Buffers \ {"path", "url"} : at'[c] = at[c]
<1>1. /\ UNCHANGED <<host, guest, target, pages, view, rounds>>
      /\ pc' = "returned" /\ rc' = code
      /\ at' = [b \in Buffers |-> IF b \in {"path", "url"} THEN Null ELSE at[b]]
  BY DEF Return, fixed
<1>2. Held \subseteq Buffers
  BY HeldIsTyped DEF IInv
<1>3. /\ Held' = Held \ bs /\ Owned'
      /\ DOMAIN heap' \subseteq Ptrs /\ \A p \in DOMAIN heap' : heap'[p] \in Buffers
  BY <1>1, <1>2, FreeHolds DEF IInv
<1>4. TypeOK'
  BY <1>1, <1>3 DEF IInv, TypeOK
<1> QED BY <1>1, <1>3, <1>4 DEF IInv, NoFault, Buffers, GuestBuffers

LEMMA AllocSpecIInv == ASSUME IInv, AllocSpec PROVE IInv'
<1>1. pc = "start" /\ "spec" \in Buffers /\ "spec" \notin Held
  BY DEF IInv, AllocSpec, Goto, Stage, Buffers, HostBuffers
<1>2. CASE Alloc("spec") /\ pc' = "target"
  BY <1>1, <1>2, AllocKeeps DEF IInv, PlaceNames, Stage, Places, Renders, Succeeded, Given,
     Buffers, HostBuffers, GuestBuffers, Inside
<1>3. CASE NoAlloc("spec") /\ pc' \in {"target", "bailed"}
  BY <1>1, <1>3, NoAllocKeeps DEF IInv, PlaceNames, Stage, Places, Renders, Succeeded, Given,
     Buffers, HostBuffers, GuestBuffers, Inside
<1> QED BY <1>2, <1>3 DEF AllocSpec, Goto

LEMMA AllocTargetIInv == ASSUME IInv, AllocTarget PROVE IInv'
<1>1. pc = "target" /\ "target" \in Buffers /\ "target" \notin Held
  BY DEF IInv, AllocTarget, Goto, Stage, Buffers, HostBuffers
<1>2. CASE target /\ Alloc("target") /\ pc' = "out"
  <2>1. /\ Held' = Held \cup {"target"} /\ Owned' /\ NoFault' /\ TypeOK'
        /\ UNCHANGED <<host, guest, target, rc, rounds>>
        /\ at'["target"] # Null /\ \A c \in Buffers \ {"target"} : at'[c] = at[c]
    BY <1>1, <1>2, AllocKeeps DEF PlaceNames
  <2>2. Places'
    BY <1>1, <1>2, <2>1 DEF IInv, Places, Renders
  <2>3. Stage'
    BY <1>1, <1>2, <2>1 DEF IInv, Stage, Renders, Succeeded,
       Buffers, HostBuffers, GuestBuffers, Inside
  <2> QED BY <2>1, <2>2, <2>3 DEF IInv
<1>3. CASE NoAlloc("target") /\ pc' \in {"out", "bailed"}
  BY <1>1, <1>3, NoAllocKeeps DEF IInv, PlaceNames, Stage, Places, Renders, Succeeded, Given,
     Buffers, HostBuffers, GuestBuffers, Inside
<1> QED BY <1>2, <1>3 DEF AllocTarget, Goto

LEMMA AllocOutIInv == ASSUME IInv, AllocOut PROVE IInv'
<1>1. /\ pc = "out" /\ OutBuffer \in Buffers /\ OutBuffer \notin Held
      /\ OutBuffer = IF Renders THEN "slot" ELSE "out"
  BY DEF IInv, AllocOut, Goto, Stage, Buffers, HostBuffers, OutBuffer
<1>2. CASE Alloc(OutBuffer) /\ pc' = IF host = "caller" THEN "body" ELSE "inputs"
  <2>1. CASE Renders
    BY <1>1, <1>2, <2>1, AllocKeeps DEF IInv, PlaceNames, Stage, Places, Renders, Succeeded,
       Given, Buffers, HostBuffers, GuestBuffers, Inside
  <2>2. CASE ~Renders
    BY <1>1, <1>2, <2>2, AllocKeeps DEF IInv, PlaceNames, Stage, Places, Renders, Succeeded,
       Given, Buffers, HostBuffers, GuestBuffers, Inside
  <2> QED BY <2>1, <2>2
<1>3. CASE NoAlloc(OutBuffer) /\ pc' = IF host = "worker" THEN "inputs" ELSE "bailed"
  <2>1. CASE Renders
    BY <1>1, <1>3, <2>1, NoAllocKeeps DEF IInv, PlaceNames, Stage, Places, Renders, Succeeded,
       Given, Buffers, HostBuffers, GuestBuffers, Inside
  <2>2. CASE ~Renders
    BY <1>1, <1>3, <2>2, NoAllocKeeps DEF IInv, PlaceNames, Stage, Places, Renders, Succeeded,
       Given, Buffers, HostBuffers, GuestBuffers, Inside
  <2> QED BY <2>1, <2>2
<1> QED BY <1>2, <1>3 DEF AllocOut, Goto

LEMMA AllocJsonIInv == ASSUME IInv, AllocJson PROVE IInv'
<1>1. pc = "body" /\ "json" \in Buffers /\ "json" \notin Held
  BY DEF IInv, AllocJson, Goto, Stage, Buffers, HostBuffers
<1>2. CASE Alloc("json") /\ pc' = "inputs"
  BY <1>1, <1>2, AllocKeeps DEF IInv, PlaceNames, Stage, Places, Renders, Succeeded, Given,
     Buffers, HostBuffers, GuestBuffers, Inside
<1>3. CASE NoAlloc("json") /\ pc' = "bailed"
  BY <1>1, <1>3, NoAllocKeeps DEF IInv, PlaceNames, Stage, Places, Renders, Succeeded, Given,
     Buffers, HostBuffers, GuestBuffers, Inside
<1> QED BY <1>2, <1>3 DEF AllocJson, Goto

\* Giving up on the instance changes nothing in it.
LEMMA BailIInv ==
    ASSUME IInv, AllocFailed \/ Abort
    PROVE  IInv'
<1>1. /\ pc' = "bailed"
      /\ UNCHANGED <<host, guest, target, heap, at, pages, view, rc, rounds, faults>>
  BY DEF AllocFailed, Abort, Goto, fixed
<1>2. Owned' /\ NoFault' /\ TypeOK'
  BY <1>1 DEF IInv, Owned, NoFault, TypeOK
<1> QED BY <1>1, <1>2 DEF IInv, Stage, Places, Renders

\* The inputs are all there, and their views as new as memory.
LEMMA WriteInputsIInv == ASSUME IInv, WriteInputs PROVE IInv'
<1>1. /\ pc = "inputs" /\ pc' = "parse" /\ view' = pages
      /\ \A b \in Given : at[b] # Null
      /\ UNCHANGED <<host, guest, target, heap, at, pages, rc, rounds>>
      /\ faults' = faults \cup Faulty(Given \ {OutBuffer})
  BY DEF WriteInputs, Goto, fixed, UseView
<1>2. Given \subseteq Held
  BY <1>1 DEF IInv, Stage, Given, OutBuffer, Renders
<1>3. NoFault'
  BY <1>1, <1>2, NoFaults DEF IInv, NoFault
<1>4. Held' = Held /\ Owned' /\ TypeOK'
  BY <1>1, <1>3 DEF IInv, Owned, Held, TypeOK, NoFault
<1> QED BY <1>1, <1>3, <1>4 DEF IInv, Stage, Places, Renders, Given, OutBuffer, Inside, Succeeded

-----------------------------------------------------------------------------
(* The guest                                                               *)

LEMMA ParseSpecIInv == ASSUME IInv, ParseSpec PROVE IInv'
<1>1. /\ pc = "parse" /\ pc' = IF host = "caller" THEN "json" ELSE "url"
      /\ "path" \in Buffers /\ "path" \notin Held
  BY DEF IInv, ParseSpec, Goto, Stage, Buffers, GuestBuffers, Inside
<1>2. CASE Alloc("path")
  BY <1>1, <1>2, AllocKeeps DEF IInv, PlaceNames, Stage, Places, Renders, Succeeded, Given,
     OutBuffer, Buffers, HostBuffers, GuestBuffers, Inside
<1>3. CASE NoAlloc("path")
  BY <1>1, <1>3, NoAllocKeeps DEF IInv, PlaceNames, Stage, Places, Renders, Succeeded, Given,
     OutBuffer, Buffers, HostBuffers, GuestBuffers, Inside
<1> QED BY <1>2, <1>3 DEF ParseSpec

LEMMA BuildUrlIInv == ASSUME IInv, BuildUrl PROVE IInv'
<1>1. /\ pc = "url" /\ pc' = IF host = "render" THEN "fetch" ELSE "write"
      /\ "url" \in Buffers /\ "url" \notin Held /\ Alloc("url")
  BY DEF IInv, BuildUrl, Goto, Stage, Buffers, GuestBuffers
<1> QED BY <1>1, AllocKeeps DEF IInv, PlaceNames, Stage, Places, Renders, Succeeded, Given,
        OutBuffer, Buffers, HostBuffers, GuestBuffers, Inside

LEMMA FetchBytesIInv == ASSUME IInv, FetchBytes PROVE IInv'
<1>1. /\ pc = "fetch" /\ pc' = "decode"
      /\ "resp" \in Buffers /\ "resp" \notin Held /\ Alloc("resp")
  BY DEF IInv, FetchBytes, Goto, Stage, Buffers, GuestBuffers
<1> QED BY <1>1, AllocKeeps DEF IInv, PlaceNames, Stage, Places, Renders, Succeeded, Given,
        OutBuffer, Buffers, HostBuffers, GuestBuffers, Inside

LEMMA RenderedIInv == ASSUME IInv, Rendered PROVE IInv'
<1>1. /\ pc = "json" /\ pc' = "md"
      /\ "md" \in Buffers /\ "md" \notin Held /\ Alloc("md")
  BY DEF IInv, Rendered, Goto, Stage, Buffers, GuestBuffers
<1> QED BY <1>1, AllocKeeps DEF IInv, PlaceNames, Stage, Places, Renders, Succeeded, Given,
        OutBuffer, Buffers, HostBuffers, GuestBuffers, Inside

\* What of the guest's own is left after a return: Markdown, with success.
Kept(code) ==
    IF Renders /\ (IF host = "render" THEN code = 0 ELSE code > 0) THEN {"md"} ELSE {}

LEMMA ReturnIInv ==
    ASSUME IInv, pc \in Inside, NEW code \in -5..1, Return(code), faults' = faults,
           NEW bs, bs = Held \ (Given \cup Kept(code)),
           heap' = [p \in DOMAIN heap \ {at[b] : b \in bs} |-> heap[p]],
           Kept(code) = IF pc = "md" THEN {"md"} ELSE {}
    PROVE  IInv'
<1>1. Held \cap {"path", "url"} \subseteq bs /\ bs \subseteq Held
  BY DEF Given, OutBuffer
<1>2. /\ Held' = Held \ bs /\ Owned' /\ NoFault' /\ TypeOK'
      /\ UNCHANGED <<host, guest, target, rounds>>
      /\ pc' = "returned" /\ rc' = code
      /\ at'["path"] = Null /\ at'["url"] = Null
      /\ \A c \in Buffers \ {"path", "url"} : at'[c] = at[c]
  BY <1>1, ReturnKeeps
<1>3. Places'
  BY <1>2 DEF IInv, Places, Renders, Inside
<1>4. Stage'
  BY <1>2 DEF IInv, Stage, Places, Renders, Succeeded, Given, OutBuffer, Kept,
     Buffers, HostBuffers, GuestBuffers, Inside
<1> QED BY <1>2, <1>3, <1>4 DEF IInv

LEMMA HeldInside ==
    ASSUME IInv, pc \in Inside
    PROVE  /\ Given \subseteq Held
           /\ Held = Given \cup Locals \cup (IF pc = "decode" THEN {"resp"} ELSE {})
                         \cup (IF pc = "md" THEN {"md"} ELSE {})
           /\ Locals \subseteq {"path", "url"}
           /\ pc = "parse" => Locals = {}
<1>1. Held \subseteq Buffers
  BY HeldIsTyped DEF IInv
<1>2. /\ Given \subseteq Held
      /\ \A b \in Held : b \in Given \/ b \in Locals \/ b = "resp" \/ b = "md"
  BY <1>1 DEF IInv, Stage, Locals, Given, OutBuffer, Renders, Inside,
     Buffers, HostBuffers, GuestBuffers
<1>3. /\ Locals \subseteq Held /\ Locals \subseteq {"path", "url"}
      /\ "resp" \in Held <=> pc = "decode"
      /\ "md" \in Held <=> pc = "md"
      /\ pc = "parse" => Locals = {}
  BY DEF IInv, Stage, Locals, Inside
<1> QED BY <1>2, <1>3

\* Every use and free of the guest is of a live buffer.
LEMMA GuestReturnsIInv ==
    ASSUME IInv,
           BadSpec \/ OutOfMemory \/ TooLong \/ WriteUrl \/ FetchFails \/ BadZstd
             \/ BadCrate \/ NoRoom \/ WriteSlots
    PROVE  IInv'
<1> USE DEF FreeAll, Use
<1>1. CASE BadSpec
  <2>1. /\ pc \in {"parse", "url", "json"} /\ Return(Failure)
        /\ heap' = [p \in DOMAIN heap \ {at[b] : b \in Locals} |-> heap[p]]
        /\ faults' = faults \cup Faulty((Given \ {OutBuffer}) \cup Locals)
    BY <1>1 DEF BadSpec
  <2>2. Held = Given \cup Locals /\ Locals \subseteq {"path", "url"}
    BY <2>1, HeldInside DEF Inside
  <2>3. faults' = faults
    BY <2>1, <2>2, NoFaults DEF IInv
  <2>4. Failure \in -5..1 /\ Kept(Failure) = {} /\ Locals = Held \ (Given \cup {})
    BY <2>2 DEF Failure, Given, OutBuffer, Kept
  <2> QED BY <2>1, <2>3, <2>4, ReturnIInv DEF Inside
<1>2. CASE OutOfMemory
  <2>1. /\ pc \in {"parse", "url"} /\ Return(0) /\ guest = "zig"
        /\ heap' = [p \in DOMAIN heap \ {at[b] : b \in Locals} |-> heap[p]]
        /\ faults' = faults \cup Faulty(Locals)
    BY <1>2 DEF OutOfMemory
  <2>2. Held = Given \cup Locals /\ Locals \subseteq {"path", "url"}
    BY <2>1, HeldInside DEF Inside
  <2>3. faults' = faults
    BY <2>1, <2>2, NoFaults DEF IInv
  <2>4. Kept(0) = {} /\ Locals = Held \ (Given \cup {})
    BY <2>1, <2>2 DEF IInv, Places, Given, OutBuffer, Kept
  <2> QED BY <2>1, <2>3, <2>4, ReturnIInv DEF Inside
<1>3. CASE TooLong
  <2>1. /\ pc = "write" /\ Return(0)
        /\ heap' = [p \in DOMAIN heap \ {at[b] : b \in Locals} |-> heap[p]]
        /\ faults' = faults \cup Faulty(Locals)
    BY <1>3 DEF TooLong
  <2>2. Held = Given \cup Locals /\ Locals \subseteq {"path", "url"}
    BY <2>1, HeldInside DEF Inside
  <2>3. faults' = faults
    BY <2>1, <2>2, NoFaults DEF IInv
  <2>4. Kept(0) = {} /\ Locals = Held \ (Given \cup {})
    BY <2>1, <2>2 DEF IInv, Places, Given, OutBuffer, Kept
  <2> QED BY <2>1, <2>3, <2>4, ReturnIInv DEF Inside
<1>4. CASE WriteUrl
  <2>1. /\ pc = "write" /\ Return(1)
        /\ heap' = [p \in DOMAIN heap \ {at[b] : b \in Locals} |-> heap[p]]
        /\ faults' = faults \cup Faulty(Locals \cup {"out"})
    BY <1>4 DEF WriteUrl
  <2>2. ~Renders
    BY <2>1 DEF IInv, Places
  <2>3. Held = Given \cup Locals /\ Locals \subseteq {"path", "url"} /\ "out" \in Given
    BY <2>1, <2>2, HeldInside DEF Inside, Given, OutBuffer
  <2>4. faults' = faults
    BY <2>1, <2>3, NoFaults DEF IInv
  <2>5. Kept(1) = {} /\ Locals = Held \ (Given \cup {})
    BY <2>2, <2>3 DEF Given, OutBuffer, Kept
  <2> QED BY <2>1, <2>4, <2>5, ReturnIInv DEF Inside
<1>5. CASE FetchFails
  <2>1. /\ pc = "fetch" /\ Return(-2) /\ host = "render"
        /\ heap' = [p \in DOMAIN heap \ {at[b] : b \in Locals} |-> heap[p]]
        /\ faults' = faults \cup Faulty(Locals)
    BY <1>5 DEF FetchFails, IInv, Places
  <2>2. Held = Given \cup Locals /\ Locals \subseteq {"path", "url"}
    BY <2>1, HeldInside DEF Inside
  <2>3. faults' = faults
    BY <2>1, <2>2, NoFaults DEF IInv
  <2>4. Kept(-2) = {} /\ Locals = Held \ (Given \cup {})
    BY <2>1, <2>2 DEF Given, OutBuffer, Kept
  <2> QED BY <2>1, <2>3, <2>4, ReturnIInv DEF Inside
<1>6. CASE BadZstd
  <2>1. /\ pc = "decode" /\ Return(-3) /\ host = "render"
        /\ heap' = [p \in DOMAIN heap \ {at[b] : b \in Locals \cup {"resp"}} |-> heap[p]]
        /\ faults' = faults \cup Faulty(Locals \cup {"resp"})
    BY <1>6 DEF BadZstd, IInv, Places
  <2>2. Held = Given \cup Locals \cup {"resp"} /\ Locals \subseteq {"path", "url"}
    BY <2>1, HeldInside DEF Inside
  <2>3. faults' = faults
    BY <2>1, <2>2, NoFaults DEF IInv
  <2>4. Kept(-3) = {} /\ Locals \cup {"resp"} = Held \ (Given \cup {})
    BY <2>1, <2>2 DEF Given, OutBuffer, Kept
  <2> DEFINE bs == Locals \cup {"resp"}
  <2>5. /\ pc \in Inside /\ Return(-3) /\ -3 \in -5..1
        /\ heap' = [p \in DOMAIN heap \ {at[b] : b \in bs} |-> heap[p]]
        /\ bs = Held \ (Given \cup Kept(-3))
        /\ Kept(-3) = IF pc = "md" THEN {"md"} ELSE {}
    BY <2>1, <2>4 DEF Inside
  <2> HIDE DEF bs
  <2> QED BY <2>3, <2>5, ReturnIInv
<1>7. CASE BadCrate
  <2>1. PICK code \in IF host = "render" THEN {-4, -5} ELSE {0} : Return(code)
    BY <1>7 DEF BadCrate
  <2>2. /\ pc = "json"
        /\ heap' = [p \in DOMAIN heap \ {at[b] : b \in Locals} |-> heap[p]]
        /\ faults' = faults \cup Faulty(Locals \cup ({"json"} \cap Given))
    BY <1>7 DEF BadCrate
  <2>3. Held = Given \cup Locals /\ Locals \subseteq {"path", "url"}
    BY <2>2, HeldInside DEF Inside
  <2>4. faults' = faults
    BY <2>2, <2>3, NoFaults DEF IInv
  <2>5. code \in -5..1 /\ Kept(code) = {} /\ Locals = Held \ (Given \cup {})
    BY <2>3 DEF Given, OutBuffer, Kept
  <2> QED BY <2>1, <2>2, <2>4, <2>5, ReturnIInv DEF Inside
<1>8. CASE NoRoom
  <2> DEFINE code == IF host = "render" THEN -1 ELSE 0
  <2>1. /\ pc = "json" /\ Return(code)
        /\ heap' = [p \in DOMAIN heap \ {at[b] : b \in Locals} |-> heap[p]]
        /\ faults' = faults \cup Faulty(Locals)
    BY <1>8 DEF NoRoom
  <2>2. Held = Given \cup Locals /\ Locals \subseteq {"path", "url"}
    BY <2>1, HeldInside DEF Inside
  <2>3. faults' = faults
    BY <2>1, <2>2, NoFaults DEF IInv
  <2>4. code \in -5..1 /\ Kept(code) = {} /\ Locals = Held \ (Given \cup {})
    BY <2>2 DEF Given, OutBuffer, Kept
  <2> HIDE DEF code
  <2> QED BY <2>1, <2>3, <2>4, ReturnIInv DEF Inside
<1>9. CASE WriteSlots
  <2> DEFINE code == IF host = "render" THEN 0 ELSE 1
  <2>1. /\ pc = "md" /\ Return(code)
        /\ heap' = [p \in DOMAIN heap \ {at[b] : b \in Locals} |-> heap[p]]
        /\ faults' = faults \cup Faulty(Locals \cup {"slot", "md"} \cup ({"json"} \cap Given))
    BY <1>9 DEF WriteSlots
  <2>2. Held = Given \cup Locals \cup {"md"} /\ Locals \subseteq {"path", "url"}
    BY <2>1, HeldInside DEF Inside
  <2>3. Renders /\ "slot" \in Given
    BY <2>1 DEF IInv, Places, Given, OutBuffer
  <2>4. faults' = faults
    BY <2>1, <2>2, <2>3, NoFaults DEF IInv
  <2>5. code \in -5..1 /\ Kept(code) = {"md"} /\ Locals = Held \ (Given \cup {"md"})
    BY <2>2, <2>3 DEF Given, OutBuffer, Kept
  <2> HIDE DEF code
  <2> QED BY <2>1, <2>4, <2>5, ReturnIInv DEF Inside
<1> QED BY <1>1, <1>2, <1>3, <1>4, <1>5, <1>6, <1>7, <1>8, <1>9

LEMMA DecodeIInv == ASSUME IInv, Decode PROVE IInv'
<1>1. /\ pc = "decode" /\ pc' = "json"
      /\ heap' = [p \in DOMAIN heap \ {at[b] : b \in {"resp"}} |-> heap[p]]
      /\ faults' = faults \cup Faulty({"resp"})
      /\ UNCHANGED <<host, guest, target, at, pages, view, rc, rounds>>
  BY DEF Decode, FreeAll, Goto, fixed
<1>2. {"resp"} \subseteq Held
  BY <1>1 DEF IInv, Stage
<1>3. NoFault'
  BY <1>1, <1>2, NoFaults DEF IInv, NoFault
<1>4. /\ Held' = Held \ {"resp"} /\ Owned'
      /\ DOMAIN heap' \subseteq Ptrs /\ \A p \in DOMAIN heap' : heap'[p] \in Buffers
  BY <1>1, <1>2, FreeHolds DEF IInv
<1>5. TypeOK'
  BY <1>1, <1>3, <1>4 DEF IInv, TypeOK, NoFault
<1>6. Stage' /\ Places'
  BY <1>1, <1>4 DEF IInv, Stage, Places, Renders, Given, OutBuffer, Inside, Succeeded
<1> QED BY <1>3, <1>4, <1>5, <1>6 DEF IInv

-----------------------------------------------------------------------------
(* The hosts again                                                         *)

LEMMA ReadOutputIInv == ASSUME IInv, ReadOutput PROVE IInv'
<1>1. /\ pc = "returned" /\ pc' = "free" /\ Succeeded /\ view' = pages
      /\ UNCHANGED <<host, guest, target, heap, at, pages, rc, rounds>>
      /\ faults' = faults \cup Faulty({OutBuffer} \cup (IF Renders THEN {"md"} ELSE {}))
  BY DEF ReadOutput, Goto, UseView, fixed
<1>2. {OutBuffer} \cup (IF Renders THEN {"md"} ELSE {}) \subseteq Held
  BY <1>1 DEF IInv, Stage, Given, OutBuffer
<1>3. NoFault'
  BY <1>1, <1>2, NoFaults DEF IInv, NoFault
<1>4. Held' = Held /\ Owned' /\ TypeOK'
  BY <1>1, <1>3 DEF IInv, Owned, Held, TypeOK, NoFault
<1> QED BY <1>1, <1>3, <1>4 DEF IInv, Stage, Places, Renders, Given, OutBuffer, Inside, Succeeded

LEMMA NoOutputIInv == ASSUME IInv, NoOutput PROVE IInv'
<1>1. /\ pc = "returned" /\ ~Succeeded
      /\ pc' = IF host = "render" THEN "bailed" ELSE "free"
      /\ UNCHANGED <<host, guest, target, heap, at, pages, view, rc, rounds, faults>>
  BY DEF NoOutput, Goto, fixed
<1>2. Held' = Held /\ Owned' /\ TypeOK' /\ NoFault'
  BY <1>1 DEF IInv, Owned, Held, TypeOK, NoFault
<1> QED BY <1>1, <1>2 DEF IInv, Stage, Places, Renders, Given, OutBuffer, Inside, Succeeded

\* What the host frees is all there is.
LEMMA FreeBuffersIInv == ASSUME IInv, FreeBuffers PROVE IInv'
<1>1. /\ pc = "free"
      /\ pc' = IF host = "worker" \/ rounds + 1 = MaxRounds THEN "done" ELSE "start"
      /\ heap' = [p \in DOMAIN heap \ {at[b] : b \in ToFree} |-> heap[p]]
      /\ faults' = faults \cup Faulty(ToFree)
      /\ rounds' = rounds + 1
      /\ UNCHANGED <<host, guest, target, at, pages, view, rc>>
  BY DEF FreeBuffers, FreeAll, Goto, fixed
<1>2. Held \subseteq Buffers
  BY HeldIsTyped DEF IInv
<1>3. ToFree = Held
  BY <1>1, <1>2 DEF IInv, Stage, ToFree, Given, OutBuffer, Renders, Inside,
     Buffers, HostBuffers, GuestBuffers
<1>4. NoFault'
  BY <1>1, <1>3, NoFaults DEF IInv, NoFault
<1>5. /\ Held' = {} /\ Owned'
      /\ DOMAIN heap' \subseteq Ptrs /\ \A p \in DOMAIN heap' : heap'[p] \in Buffers
  BY <1>1, <1>3, FreeHolds DEF IInv
<1>6. rounds < MaxRounds /\ rounds \in 0..MaxRounds /\ MaxRounds \in Nat
  BY <1>1, BoundsAssumption DEF IInv, TypeOK, Places
<1>7. TypeOK'
  BY <1>1, <1>4, <1>5, <1>6 DEF IInv, TypeOK, NoFault
<1>8. Places'
  BY <1>1, <1>6 DEF IInv, Places, Renders
<1>9. Stage'
  BY <1>1, <1>5 DEF IInv, Stage, Inside
<1> QED BY <1>4, <1>5, <1>7, <1>8, <1>9 DEF IInv

LEMMA NextIInv == IInv /\ [Next]_vars => IInv'
<1> SUFFICES ASSUME IInv, [Next]_vars PROVE IInv'
  OBVIOUS
<1>1. CASE UNCHANGED vars
  BY <1>1 DEF vars, fixed, IInv, TypeOK, NoFault, Owned, Held, Places, Stage, Renders, Given,
     OutBuffer, Succeeded
<1>2. CASE Next
  BY <1>2, AllocSpecIInv, AllocTargetIInv, AllocOutIInv, AllocJsonIInv, BailIInv,
     WriteInputsIInv, ParseSpecIInv, GuestReturnsIInv, BuildUrlIInv, FetchBytesIInv,
     DecodeIInv, RenderedIInv, ReadOutputIInv, NoOutputIInv, FreeBuffersIInv DEF Next
<1> QED BY <1>1, <1>2

\* The inductive invariant holds throughout.
THEOREM Inductive == Spec => []IInv
BY InitIInv, NextIInv, PTL DEF Spec

\* TypeOK: every variable keeps its type, however many calls an instance serves.
THEOREM AlwaysTyped == Spec => []TypeOK
<1>1. IInv => TypeOK
  BY DEF IInv
<1> QED BY <1>1, Inductive, PTL

\* NoFault: neither side frees or uses what is not live, with another length
\* than it has, or through a view of memory that has grown.
THEOREM AlwaysNoFault == Spec => []NoFault
<1>1. IInv => NoFault
  BY DEF IInv
<1> QED BY <1>1, Inductive, PTL

\* EmptyBetweenCalls: a call that does not leave the instance leaves nothing.
THEOREM AlwaysEmptyBetweenCalls == Spec => []EmptyBetweenCalls
<1>1. IInv => EmptyBetweenCalls
  <2> SUFFICES ASSUME IInv, pc \in {"start", "done"}, NEW p \in DOMAIN heap PROVE FALSE
    BY DEF EmptyBetweenCalls
  <2>1. heap[p] \in Held /\ heap[p] \in Buffers
    BY DEF Held, IInv, TypeOK
  <2> QED BY <2>1 DEF IInv, Stage, Buffers, HostBuffers, GuestBuffers, Inside
<1> QED BY <1>1, Inductive, PTL

\* GuestKeepsNothing: at its return, the guest has given back all of its own,
\* and none of the host's, whatever failed in it.
THEOREM AlwaysGuestKeepsNothing == Spec => []GuestKeepsNothing
<1>1. IInv => GuestKeepsNothing
  <2> SUFFICES ASSUME IInv, pc = "returned"
               PROVE  Held = Given \cup (IF Renders /\ Succeeded THEN {"md"} ELSE {})
    BY DEF GuestKeepsNothing, Held
  <2>1. Held \subseteq Buffers
    BY HeldIsTyped DEF IInv
  <2> QED BY <2>1 DEF IInv, Stage, Given, OutBuffer, Renders, Inside,
          Buffers, HostBuffers, GuestBuffers
<1> QED BY <1>1, Inductive, PTL

-----------------------------------------------------------------------------
(***************************************************************************)
(* The harness that compares the guests, where a call is an output or an   *)
(* error.  HarnessInv says of the instance at work that all it renders     *)
(* comes from the one release it downloaded, and of the parity map that    *)
(* its entries are of the spec under comparison and of releases since it   *)
(* began.  Proved for any list of artifacts and specs, any number of       *)
(* iterations, and any number of releases.                                 *)
(***************************************************************************)

\* What a sequence over a set is made of.
LEMMA ItemsOf ==
    ASSUME NEW S, NEW q \in Seq(S)
    PROVE  DOMAIN q = 1..Len(q) /\ Len(q) \in Nat /\ \A i \in DOMAIN q : q[i] \in S
OBVIOUS

\* Every set of naturals that has a member has a least one.
LEMMA LeastNatural ==
    ASSUME NEW T \in SUBSET Nat, T # {}
    PROVE  \E n \in T : \A m \in T : n <= m
<1> DEFINE UpTo(n) == T \cap (0..n)
           F == {UpTo(n) : n \in T}
<1>1. ASSUME NEW n \in T
      PROVE  IsFiniteSet(UpTo(n)) /\ n \in UpTo(n) /\ UpTo(n) \subseteq Nat
  <2>1. n \in Nat /\ IsFiniteSet(0..n)
    BY FS_Interval
  <2>2. IsFiniteSet(UpTo(n))
    BY <2>1, FS_Subset
  <2> QED BY <2>1, <2>2
<1>2. F \subseteq FiniteSubsetsOf(Nat) /\ F # {}
  BY <1>1 DEF FiniteSubsetsOf
<1>3. PICK s \in F : \A t \in F : ~(<<t, s>> \in StrictSubsetOrdering(Nat))
  BY <1>2, FS_StrictSubsetOrderingWellFounded, WFMin
<1>4. PICK n \in T : s = UpTo(n)
  BY <1>3
<1>5. ASSUME NEW m \in T, m < n PROVE FALSE
  <2>1. /\ UpTo(m) \subseteq UpTo(n) /\ n \notin UpTo(m) /\ n \in UpTo(n)
        /\ n \in Nat /\ m \in Nat
    BY <1>5
  <2>2. /\ UpTo(m) \in SUBSET Nat /\ UpTo(n) \in SUBSET Nat
        /\ UpTo(m) # UpTo(n) /\ UpTo(m) \in F
    BY <2>1
  <2>3. <<UpTo(m), UpTo(n)>> \in StrictSubsetOrdering(Nat)
    BY <2>1, <2>2 DEF StrictSubsetOrdering
  <2> QED BY <1>3, <1>4, <2>2, <2>3
<1> QED BY <1>5

\* While artifacts are left, one of them has its turn.
LEMMA TurnIsLeft ==
    ASSUME HarnessTypeOK, todo # {}
    PROVE  Turn \in todo /\ Running \in [label : STRING, full : BOOLEAN]
<1>1. todo \subseteq DOMAIN Artifacts /\ DOMAIN Artifacts \subseteq Nat
  BY ParametersAssumption DEF HarnessTypeOK
<1>2. \E i \in todo : \A j \in todo : i <= j
  BY <1>1, LeastNatural
<1>3. Turn \in todo
  BY <1>2 DEF Turn
<1>4. \A i \in DOMAIN Artifacts : Artifacts[i] \in [label : STRING, full : BOOLEAN]
  BY ParametersAssumption, ItemsOf
<1> QED BY <1>1, <1>3, <1>4 DEF Running

\* Init.
LEMMA HarnessStarts == ASSUME HarnessInit PROVE HarnessInv
<1>1. HarnessTypeOK
  <2>1. Len(Specs) \in Nat /\ Len(Specs) # 0
    <3>1. Specs \in Seq(STRING) /\ Specs # <<>>
      BY ParametersAssumption
    <3> QED BY <3>1
  <2>2. docs \in Releases /\ began \in Releases /\ 1 \in 1..Len(Specs)
    <3>1. 1 \in 1..Len(Specs) /\ 1 \in 1..MaxRelease
      BY ParametersAssumption, <2>1
    <3> QED BY <3>1 DEF HarnessInit, Releases
  <2>3. parity \subseteq [hash : Outputs, label : STRING] /\ IsFiniteSet(parity)
    BY FS_EmptySet DEF HarnessInit
  <2>4. iterations \in Nat /\ renderIterations \in Nat /\ spec \in 1..Len(Specs)
    BY ParametersAssumption, <2>2 DEF HarnessInit
  <2>5. todo \subseteq DOMAIN Artifacts
    BY DEF HarnessInit, Present
  <2>6. /\ cache \in [1..Len(Specs) -> 1..MaxRelease \cup {None}]
        /\ body = None /\ output = None /\ first = None /\ phase = "resolve"
    BY DEF HarnessInit
  <2>7. fetches \in Seq({"cached", "net"})
    <3>1. fetches = <<>>
      BY DEF HarnessInit
    <3> QED BY <3>1
  <2> QED BY <2>2, <2>3, <2>4, <2>5, <2>6, <2>7 DEF HarnessTypeOK
<1>2. \A s \in 1..Len(Specs) : began[s] <= docs[s]
  <2>1. \A s \in 1..Len(Specs) : docs[s] = 1 /\ began[s] = 1
    BY DEF HarnessInit
  <2> QED BY <2>1
<1> QED BY <1>1, <1>2 DEF HarnessInit, HarnessInv, InstanceSound, ParitySound, InOrder,
       HashesTheFirst, AgreementIsEarned, PanicsOnlyAtZero, FetchColumn

\* resolve_url is timed, or gives an error.
LEMMA ResolvingSteps ==
    ASSUME HarnessInv, Resolved \/ ResolveError
    PROVE  HarnessInv'
<1>1. /\ phase = "resolve" /\ todo' = todo \ {Turn}
      /\ UNCHANGED <<docs, args, spec, phase, instance, parity, shown, verdict, began>>
  BY DEF Resolved, ResolveError
<1>2. HarnessTypeOK'
  BY <1>1 DEF HarnessInv, HarnessTypeOK, args, instance
<1> QED BY <1>1, <1>2 DEF HarnessInv, args, instance, InstanceSound, ParitySound,
       InOrder, Present, HashesTheFirst, AgreementIsEarned,
       PanicsOnlyAtZero, FetchColumn

\* The statistics of at least one sample are within bounds.
LEMMA StatsInRange ==
    ASSUME NEW n \in Nat, n # 0
    PROVE  InRange(Median(n), n) /\ InRange(P95(n), n)
<1>1. n \div 2 \in 0..(n - 1)
  OBVIOUS
<1>2. (n * 95) \div 100 >= 0
  OBVIOUS
<1> QED BY <1>1, <1>2 DEF InRange, Median, P95

\* An empty sample, and an artifact that cannot be read, end the comparison.
LEMMA StopSteps ==
    ASSUME HarnessInv, StatsPanic \/ ReadFails
    PROVE  HarnessInv'
<1>1. /\ phase' \in {"panicked", "failed"}
      /\ UNCHANGED <<docs, args, spec, todo, instance, parity, shown, verdict, began>>
  BY DEF StatsPanic, ReadFails
<1>2. HarnessTypeOK'
  BY <1>1 DEF HarnessInv, HarnessTypeOK, args, instance
<1>3. PanicsOnlyAtZero'
  <2>1. SUFFICES ASSUME phase' = "panicked" PROVE PanicsOnlyAtZero'
    BY DEF PanicsOnlyAtZero
  <2>2. StatsPanic
    BY <2>1 DEF ReadFails
  <2>3. iterations = 0
    BY <2>2, StatsInRange DEF StatsPanic, HarnessInv, HarnessTypeOK
  <2>4. Turn \in todo /\ todo \subseteq Present(FALSE)
    BY <2>2, TurnIsLeft DEF StatsPanic, HarnessInv, InOrder
  <2>5. runtime = "wasmer" => ~Artifacts[Turn].full
    BY <2>2 DEF StatsPanic, Instantiates, Running
  <2> QED BY <1>1, <2>3, <2>4, <2>5 DEF PanicsOnlyAtZero, Present, args
<1> QED BY <1>1, <1>2, <1>3 DEF HarnessInv, args, instance, InstanceSound, ParitySound,
       InOrder, HashesTheFirst, AgreementIsEarned, FetchColumn

\* From one spec to the next: nothing of the comparison is touched.
LEMMA NextSpecKeeps ==
    ASSUME HarnessTypeOK, NextSpec, UNCHANGED <<docs, args, instance>>,
           parity' \subseteq parity
    PROVE  /\ HarnessTypeOK' /\ InOrder'
           /\ phase' \in {"resolve", "done"}
<1>1. phase' \in {"resolve", "done"} /\ began' = docs /\ spec' \in 1..Len(Specs)
  <2>1. Len(Specs) \in Nat /\ spec \in 1..Len(Specs)
    BY ParametersAssumption DEF HarnessTypeOK
  <2>2. CASE spec < Len(Specs)
    BY <2>1, <2>2 DEF NextSpec
  <2>3. CASE ~(spec < Len(Specs))
    BY <2>1, <2>3 DEF NextSpec
  <2> QED BY <2>2, <2>3
<1>2. todo' \subseteq DOMAIN Artifacts /\ (phase' = "resolve" => todo' = Present(FALSE))
  BY DEF NextSpec, Present, HarnessTypeOK
<1>3. Present(FALSE)' = Present(FALSE)
  BY DEF Present, args
<1>4. IsFiniteSet(parity')
  BY FS_Subset DEF HarnessTypeOK
<1>5. HarnessTypeOK'
  BY <1>1, <1>2, <1>4 DEF HarnessTypeOK, args, instance, Releases
<1>6. InOrder'
  <2>1. \A s \in 1..Len(Specs) : docs[s] \in Nat
    <3>1. docs \in Releases
      BY DEF HarnessTypeOK
    <3> QED BY <3>1 DEF Releases
  <2>2. \A s \in 1..Len(Specs) : began'[s] <= docs'[s]
    BY <1>1, <2>1
  <2> QED BY <1>1, <1>2, <1>3, <2>2 DEF InOrder
<1> QED BY <1>1, <1>5, <1>6

\* The spec is done with: the parity map is left as it was, or emptied.
LEMMA SkipRenderStep == ASSUME HarnessInv, SkipRender PROVE HarnessInv'
<1>1. /\ NextSpec /\ UNCHANGED <<docs, args, instance>>
      /\ verdict' = "" /\ parity' = {} /\ shown' = {}
  BY DEF SkipRender
<1>2. HarnessTypeOK' /\ InOrder' /\ phase' \in {"resolve", "done"}
  BY <1>1, NextSpecKeeps DEF HarnessInv
<1> QED BY <1>1, <1>2 DEF HarnessInv, args, instance, InstanceSound, ParitySound,
       HashesTheFirst, AgreementIsEarned, PanicsOnlyAtZero, FetchColumn

\* Entries of one hash are told apart by their labels.
LEMMA OneHash ==
    ASSUME HarnessTypeOK, Cardinality(Hashes) = 1
    PROVE  /\ Cardinality({p.label : p \in parity}) = Cardinality(parity)
           /\ \A p, q \in parity : p.hash = q.hash
<1> DEFINE hash == [p \in parity |-> p.hash]
<1>0. IsFiniteSet(parity)
  BY DEF HarnessTypeOK
<1>1. IsFiniteSet(Hashes)
  <2>1. hash \in Surjection(parity, Hashes)
    BY Fun_IsSurj DEF Hashes
  <2> QED BY <1>0, <2>1, FS_Surjection
<1>2. PICK h : Hashes = {h}
  BY <1>1, FS_Singleton
<1>3. \A p \in parity : p.hash = h
  BY <1>2 DEF Hashes
<1> DEFINE L == {p.label : p \in parity}
           label == [p \in parity |-> p.label]
<1>4. label \in Bijection(parity, L)
  <2>1. label \in [parity -> L]
    OBVIOUS
  <2>2. ASSUME NEW p \in parity, NEW q \in parity, label[p] = label[q] PROVE p = q
    BY <1>3, <2>2 DEF HarnessTypeOK
  <2>3. \A l \in L : \E p \in parity : label[p] = l
    OBVIOUS
  <2> QED BY <2>1, <2>2, <2>3, Fun_IsBij
<1>5. Cardinality(parity) = Cardinality(L)
  BY <1>0, <1>4, FS_Bijection, Fun_ExistsBij
<1> QED BY <1>3, <1>5

\* print_parity_summary: one hash of more than one entry is of several labels.
LEMMA SummaryStep == ASSUME HarnessInv, Summary PROVE HarnessInv'
<1>1. /\ NextSpec /\ verdict' = Verdict
      /\ UNCHANGED <<docs, args, instance, parity, shown>>
  BY DEF Summary
<1>2. HarnessTypeOK' /\ InOrder' /\ phase' \in {"resolve", "done"}
  BY <1>1, NextSpecKeeps DEF HarnessInv
<1>3. AgreementIsEarned'
  <2>1. SUFFICES ASSUME verdict' = "agree" PROVE AgreementIsEarned'
    BY DEF AgreementIsEarned
  <2>2. Cardinality(Hashes) = 1 /\ Cardinality(parity) > 1
    BY <1>1, <2>1 DEF Verdict
  <2>3. /\ Cardinality({p.label : p \in parity}) > 1
        /\ \A p, q \in parity : p.hash = q.hash
    BY <2>2, OneHash DEF HarnessInv
  <2>4. \A p, q \in parity : p.label \in odd <=> q.label \in odd
    BY <2>3 DEF HarnessInv, ParitySound
  <2>5. \/ {p.label : p \in parity} \subseteq odd
        \/ {p.label : p \in parity} \cap odd = {}
    BY <2>4
  <2> QED BY <1>1, <2>3, <2>5 DEF AgreementIsEarned, args
<1> QED BY <1>1, <1>2, <1>3 DEF HarnessInv, args, instance, InstanceSound,
       ParitySound, HashesTheFirst, PanicsOnlyAtZero, FetchColumn

\* A new instance has everything before it.
LEMMA FreshInstance ==
    ASSUME HarnessTypeOK, Fresh, UNCHANGED spec
    PROVE  /\ cache' \in [1..Len(Specs) -> 1..MaxRelease \cup {None}]
           /\ body' = None /\ output' = None /\ first' = None
           /\ fetches' \in Seq({"cached", "net"})
           /\ InstanceSound' /\ HashesTheFirst'
<1>1. /\ cache' \in [1..Len(Specs) -> 1..MaxRelease \cup {None}]
      /\ body' = None /\ output' = None /\ first' = None /\ fetches' = <<>>
      /\ cache'[spec'] = None
  BY DEF Fresh, HarnessTypeOK
<1>2. <<>> \in Seq({"cached", "net"}) /\ Len(<<>>) = 0
  OBVIOUS
<1> QED BY <1>1, <1>2 DEF InstanceSound, HashesTheFirst

\* The first of the full artifacts gets its instance.
LEMMA StartRenderStep == ASSUME HarnessInv, StartRender PROVE HarnessInv'
<1>1. /\ Fresh /\ phase' = "render" /\ todo' = Present(TRUE)
      /\ parity' = {} /\ shown' = {} /\ verdict' = ""
      /\ UNCHANGED <<docs, args, spec, began>>
  BY DEF StartRender
<1>2. IsFiniteSet({})
  BY FS_EmptySet
<1>3. todo' \subseteq DOMAIN Artifacts
  BY <1>1 DEF Present
<1>4. /\ HarnessTypeOK' /\ InstanceSound' /\ HashesTheFirst'
  BY <1>1, <1>2, <1>3, FreshInstance DEF HarnessInv, HarnessTypeOK, args, Releases
<1> QED BY <1>1, <1>4 DEF HarnessInv, args, ParitySound, InOrder,
       AgreementIsEarned, PanicsOnlyAtZero, FetchColumn

\* fetch_bytes: the first call downloads, and those after it are served.
LEMMA FetchSteps ==
    ASSUME HarnessInv, FetchCached \/ Download
    PROVE  HarnessInv'
<1>1. /\ phase = "render"
      /\ UNCHANGED <<docs, args, spec, phase, todo, output, first, parity, shown,
                     verdict, began>>
  BY DEF FetchCached, Download, FetchFromNet, Calling
<1>2. /\ spec \in 1..Len(Specs) /\ fetches \in Seq({"cached", "net"})
      /\ cache \in [1..Len(Specs) -> 1..MaxRelease \cup {None}]
      /\ docs[spec] \in 1..MaxRelease /\ began[spec] \in 1..MaxRelease
      /\ began[spec] <= docs[spec] /\ MaxRelease \in Nat /\ None \notin Nat
      /\ fetches = <<>> <=> cache[spec] = None
      /\ \A i \in 1..Len(fetches) : fetches[i] = "net" <=> i = 1
      /\ cache[spec] # None => cache[spec] \in began[spec]..docs[spec]
      /\ first = output
      /\ output # None => cache[spec] # None /\ output =
              [spec |-> spec, release |-> cache[spec], odd |-> Running.label \in odd]
  BY ParametersAssumption, <1>1 DEF HarnessInv, HarnessTypeOK, InOrder, InstanceSound, Releases
<1>3. /\ cache' \in [1..Len(Specs) -> 1..MaxRelease \cup {None}]
      /\ cache'[spec] # None /\ body' = cache'[spec]
      /\ cache'[spec] \in began[spec]..docs[spec]
      /\ cache[spec] # None => cache'[spec] = cache[spec]
  <2>1. CASE FetchCached
    BY <2>1, <1>2 DEF FetchCached
  <2>2. CASE Download
    BY <2>2, <1>2 DEF Download, FetchFromNet
  <2> QED BY <2>1, <2>2
<1>4. \E how \in {"cached", "net"} :
          fetches' = Append(fetches, how) /\ (how = "net" <=> cache[spec] = None)
  BY DEF FetchCached, Download, FetchFromNet
<1>5. /\ fetches' \in Seq({"cached", "net"}) /\ fetches' # <<>>
      /\ \A i \in 1..Len(fetches') : fetches'[i] = "net" <=> i = 1
  <2>1. PICK how \in {"cached", "net"} :
            fetches' = Append(fetches, how) /\ (how = "net" <=> cache[spec] = None)
    BY <1>4
  <2>2. /\ Len(fetches') = Len(fetches) + 1 /\ Len(fetches) \in Nat
        /\ \A i \in 1..Len(fetches) : fetches'[i] = fetches[i]
        /\ fetches'[Len(fetches) + 1] = how
        /\ fetches' \in Seq({"cached", "net"})
        /\ fetches = <<>> <=> Len(fetches) = 0
    BY <1>2, <2>1
  <2>3. how = "net" <=> Len(fetches) = 0
    BY <1>2, <2>1, <2>2
  <2>4. \A i \in 1..Len(fetches) : fetches[i] = "net" <=> i = 1
    BY <1>2
  <2>5. fetches' # <<>>
    BY <2>2
  <2>6. ASSUME NEW i \in 1..Len(fetches') PROVE fetches'[i] = "net" <=> i = 1
    <3>1. CASE i = Len(fetches) + 1
      BY <3>1, <2>2, <2>3
    <3>2. CASE i \in 1..Len(fetches)
      BY <3>2, <2>2, <2>4
    <3> QED BY <3>1, <3>2, <2>2
  <2> QED BY <2>2, <2>5, <2>6
<1>6. cache'[spec] \in 1..MaxRelease
  BY <1>2, <1>3
<1>7. HarnessTypeOK'
  BY <1>1, <1>3, <1>5, <1>6 DEF HarnessInv, HarnessTypeOK, args, Releases
<1>8. Running' = Running
  BY <1>1 DEF Running, Turn
<1>9. InstanceSound'
  BY <1>1, <1>2, <1>3, <1>5, <1>8 DEF InstanceSound, args
<1> QED BY <1>1, <1>7, <1>9 DEF HarnessInv, args, ParitySound, InOrder, Present,
       HashesTheFirst, AgreementIsEarned, PanicsOnlyAtZero, FetchColumn

\* A render gives what the one before it gave.
LEMMA RenderOkStep == ASSUME HarnessInv, RenderOk PROVE HarnessInv'
<1>1. /\ phase = "render" /\ body # None /\ body' = None
      /\ output' = RenderedBy(Running)
      /\ first' = IF first = None THEN RenderedBy(Running) ELSE first
      /\ UNCHANGED <<docs, args, spec, phase, todo, cache, fetches, parity, shown,
                     verdict, began>>
  BY DEF RenderOk
<1>2. /\ spec \in 1..Len(Specs) /\ body = cache[spec] /\ body \in 1..MaxRelease
      /\ first = output /\ MaxRelease \in Nat
      /\ output # None => output =
              [spec |-> spec, release |-> cache[spec], odd |-> Running.label \in odd]
  BY ParametersAssumption, <1>1 DEF HarnessInv, HarnessTypeOK, InstanceSound
<1>3. RenderedBy(Running) =
          [spec |-> spec, release |-> cache[spec], odd |-> Running.label \in odd]
  BY <1>2 DEF RenderedBy
<1>4. output' = RenderedBy(Running) /\ first' = output'
  BY <1>1, <1>2, <1>3
<1>5. RenderedBy(Running) \in Outputs /\ RenderedBy(Running) # None
  <2>1. body \in 0..MaxRelease
    BY <1>2
  <2>2. RenderedBy(Running) \in Outputs
    BY <1>2, <2>1 DEF RenderedBy, Outputs
  <2> QED BY ParametersAssumption, <2>2
<1>6. HarnessTypeOK'
  BY <1>1, <1>4, <1>5 DEF HarnessInv, HarnessTypeOK, args, Releases
<1>7. Running' = Running
  BY <1>1 DEF Running, Turn
<1>8. InstanceSound'
  BY <1>1, <1>2, <1>3, <1>4, <1>7 DEF HarnessInv, InstanceSound, args
<1> QED BY <1>1, <1>4, <1>6, <1>8 DEF HarnessInv, args, ParitySound, InOrder, Present,
       HashesTheFirst, AgreementIsEarned, PanicsOnlyAtZero, FetchColumn

\* What is next after a row, or after an artifact that has none.
LEMMA NextArtifactKeeps ==
    ASSUME HarnessInv, phase = "render", NextArtifact,
           UNCHANGED <<docs, args, spec, phase, verdict, began>>,
           parity' \subseteq [hash : Outputs, label : STRING], IsFiniteSet(parity')
    PROVE  /\ HarnessTypeOK' /\ InstanceSound' /\ InOrder' /\ HashesTheFirst'
           /\ AgreementIsEarned' /\ PanicsOnlyAtZero'
<1>1. Fresh /\ todo' = todo \ {Turn}
  BY DEF NextArtifact
<1>2. todo' \subseteq DOMAIN Artifacts
  BY <1>1 DEF HarnessInv, HarnessTypeOK
<1>3. HarnessTypeOK' /\ InstanceSound' /\ HashesTheFirst'
  BY <1>1, <1>2, FreshInstance DEF HarnessInv, HarnessTypeOK, args, Releases
<1>4. phase' = "render" /\ verdict' = ""
  BY DEF HarnessInv, InOrder
<1> QED BY <1>3, <1>4 DEF HarnessInv, InOrder, AgreementIsEarned, PanicsOnlyAtZero

\* No row is printed of an artifact that fails, or that has no output.
LEMMA NoRowSteps ==
    ASSUME HarnessInv, RenderError \/ NothingRendered
    PROVE  HarnessInv'
<1>1. /\ phase = "render" /\ NextArtifact
      /\ UNCHANGED <<docs, args, spec, phase, parity, shown, verdict, began>>
  BY DEF RenderError, NothingRendered
<1>2. parity' \subseteq [hash : Outputs, label : STRING] /\ IsFiniteSet(parity')
  BY <1>1 DEF HarnessInv, HarnessTypeOK
<1> QED BY <1>1, <1>2, NextArtifactKeeps DEF HarnessInv, args, ParitySound, FetchColumn

\* The only download of an instance is its first, so the median is one exactly
\* where there are no more than two.
LEMMA MedianOfFetches ==
    ASSUME HarnessTypeOK, fetches # <<>>,
           \A i \in 1..Len(fetches) : fetches[i] = "net" <=> i = 1
    PROVE  FetchMedian = "net" <=> Len(fetches) <= 2
<1> DEFINE n == Len(fetches)
           served == {i \in DOMAIN fetches : fetches[i] = "cached"}
<1>1. /\ n \in Nat /\ n # 0 /\ DOMAIN fetches = 1..n
      /\ \A i \in 1..n : fetches[i] \in {"cached", "net"}
  BY DEF HarnessTypeOK
<1>2. served = 2..n
  BY <1>1
<1>3. Cardinality(served) = n - 1
  <2>1. Cardinality(2..n) = IF 2 > n THEN 0 ELSE n - 2 + 1
    BY <1>1, FS_Interval
  <2>2. Cardinality(2..n) = n - 1
    BY <1>1, <2>1
  <2> HIDE DEF served
  <2> QED BY <1>2, <2>2
<1>4. n \div 2 < n - 1 <=> n > 2
  BY <1>1
<1> QED BY <1>1, <1>3, <1>4 DEF FetchMedian, Median

\* A row is printed, and the output takes its place in the parity map.
LEMMA RowStep == ASSUME HarnessInv, Row PROVE HarnessInv'
<1>1. /\ phase = "render" /\ todo # {} /\ output # None
      /\ Len(fetches) = renderIterations
      /\ parity' = parity \cup {[hash |-> output, label |-> Running.label]}
      /\ shown' = shown \cup {[label |-> Running.label, fetch |-> FetchMedian]}
      /\ NextArtifact
      /\ UNCHANGED <<docs, args, spec, phase, verdict, began>>
  BY DEF Row
<1>2. Running.label \in STRING
  BY <1>1, TurnIsLeft DEF HarnessInv
<1>3. parity' \subseteq [hash : Outputs, label : STRING] /\ IsFiniteSet(parity')
  <2>1. IsFiniteSet(parity')
    BY <1>1, FS_AddElement DEF HarnessInv, HarnessTypeOK
  <2> QED BY <1>1, <1>2, <2>1 DEF HarnessInv, HarnessTypeOK
<1>4. /\ HarnessTypeOK' /\ InstanceSound' /\ InOrder' /\ HashesTheFirst'
      /\ AgreementIsEarned' /\ PanicsOnlyAtZero'
  BY <1>1, <1>3, NextArtifactKeeps
<1>5. /\ cache[spec] # None /\ cache[spec] \in began[spec]..docs[spec]
      /\ output = [spec |-> spec, release |-> cache[spec],
                   odd |-> Running.label \in odd]
      /\ fetches # <<>>
      /\ \A i \in 1..Len(fetches) : fetches[i] = "net" <=> i = 1
  BY <1>1 DEF HarnessInv, InstanceSound
<1>6. ParitySound'
  <2>1. /\ output.odd <=> Running.label \in odd
        /\ output.spec = spec /\ output.release \in began[spec]..docs[spec]
    BY <1>5
  <2>2. \A p \in parity' : p \in parity \/ (p.hash = output /\ p.label = Running.label)
    BY <1>1
  <2> QED BY <1>1, <2>1, <2>2 DEF HarnessInv, ParitySound, args
<1>7. FetchColumn'
  <2>1. FetchMedian = "net" <=> renderIterations <= 2
    BY <1>1, <1>5, MedianOfFetches DEF HarnessInv
  <2>2. \A row \in shown' : row \in shown \/ row.fetch = FetchMedian
    BY <1>1
  <2> QED BY <1>1, <2>1, <2>2 DEF HarnessInv, FetchColumn, args
<1> QED BY <1>4, <1>6, <1>7 DEF HarnessInv

\* docs.rs publishes: what was downloaded is as old as it was.
LEMMA PublishStep ==
    ASSUME HarnessInv, NEW s \in 1..Len(Specs), Publish(s)
    PROVE  HarnessInv'
<1>1. /\ docs' = [docs EXCEPT ![s] = @ + 1] /\ docs[s] < MaxRelease
      /\ UNCHANGED <<args, spec, phase, todo, instance, parity, shown, verdict, began>>
  BY DEF Publish
<1>2. /\ docs \in Releases /\ began \in Releases /\ MaxRelease \in Nat
      /\ spec \in 1..Len(Specs) /\ \A t \in 1..Len(Specs) : began[t] <= docs[t]
  BY ParametersAssumption DEF HarnessInv, HarnessTypeOK, InOrder
<1>3. /\ docs' \in Releases
      /\ \A t \in 1..Len(Specs) : docs[t] <= docs'[t] /\ began'[t] <= docs'[t]
  <2>1. \A t \in 1..Len(Specs) : docs[t] \in 1..MaxRelease /\ began[t] \in 1..MaxRelease
    BY <1>2 DEF Releases
  <2>2. /\ DOMAIN docs' = 1..Len(Specs) /\ docs' = [t \in DOMAIN docs' |-> docs'[t]]
        /\ \A t \in 1..Len(Specs) : docs'[t] = IF t = s THEN docs[t] + 1 ELSE docs[t]
    BY <1>1, <1>2 DEF Releases
  <2>3. \A t \in 1..Len(Specs) : docs'[t] \in 1..MaxRelease
    BY <1>1, <1>2, <2>1, <2>2
  <2>4. docs' \in Releases
    BY <2>2, <2>3 DEF Releases
  <2>5. \A t \in 1..Len(Specs) : docs[t] <= docs'[t] /\ began[t] <= docs'[t]
    BY <1>2, <2>1, <2>2
  <2> QED BY <1>1, <2>4, <2>5
<1>4. HarnessTypeOK'
  BY <1>1, <1>3 DEF HarnessInv, HarnessTypeOK, args, instance, Releases
<1>5. \A r \in began[spec]..docs[spec] : r \in began'[spec']..docs'[spec']
  <2>1. /\ docs[spec] \in Nat /\ docs'[spec] \in Nat /\ began[spec] \in Nat
        /\ docs[spec] <= docs'[spec] /\ began'[spec'] = began[spec] /\ spec' = spec
    BY <1>1, <1>2, <1>3 DEF Releases
  <2> QED BY <2>1
<1>6. Running' = Running
  BY <1>1 DEF Running, Turn
<1>7. InstanceSound' /\ ParitySound'
  BY <1>1, <1>5, <1>6 DEF HarnessInv, InstanceSound, ParitySound, args, instance
<1> QED BY <1>1, <1>3, <1>4, <1>7 DEF HarnessInv, args, instance, InOrder, Present,
       HashesTheFirst, AgreementIsEarned, PanicsOnlyAtZero, FetchColumn

\* Every step keeps the inductive invariant ...
LEMMA HarnessMoves == HarnessInv /\ [HarnessNext]_harnessVars => HarnessInv'
<1> SUFFICES ASSUME HarnessInv, [HarnessNext]_harnessVars PROVE HarnessInv'
  OBVIOUS
<1>1. CASE Run
  BY <1>1, ResolvingSteps, StopSteps, SkipRenderStep, StartRenderStep, FetchSteps,
     RenderOkStep, NoRowSteps, RowStep, SummaryStep DEF Run
<1>2. CASE \E s \in 1..Len(Specs) : Publish(s)
  BY <1>2, PublishStep
<1>3. CASE UNCHANGED harnessVars
  BY <1>3 DEF HarnessInv, harnessVars, args, instance, HarnessTypeOK, InstanceSound, ParitySound,
     InOrder, Present, Running, Turn, HashesTheFirst, AgreementIsEarned,
     PanicsOnlyAtZero, FetchColumn, Releases
<1> QED BY <1>1, <1>2, <1>3 DEF HarnessNext

\* ... so that it holds throughout, whatever there is to compare.
THEOREM HarnessInductive == HarnessSpec => []HarnessInv
<1>1. HarnessInit => HarnessInv
  BY HarnessStarts
<1> QED BY <1>1, HarnessMoves, PTL DEF HarnessSpec

\* HashesTheFirst: the output hashed is the first, however often a spec is
\* rendered and docs.rs publishes in between.
THEOREM FirstOutputIsHashed == HarnessSpec => []HashesTheFirst
<1>1. HarnessInv => HashesTheFirst
  BY DEF HarnessInv
<1> QED BY <1>1, HarnessInductive, PTL

\* DifferenceExplained: outputs differ for an artifact's own way of rendering or
\* a release in between, of any number of artifacts and releases.
THEOREM DifferencesAreExplained == HarnessSpec => []DifferenceExplained
<1>1. HarnessInv => DifferenceExplained
  <2>1. SUFFICES ASSUME HarnessInv, NEW p \in parity, NEW q \in parity, phase = "render",
                        p.hash # q.hash, p.label \in odd <=> q.label \in odd,
                        ~(docs[spec] > began[spec])
                 PROVE  FALSE
    BY DEF DifferenceExplained
  <2>2. /\ p.hash \in Outputs /\ q.hash \in Outputs
        /\ p.hash.odd <=> q.hash.odd
        /\ p.hash.spec = q.hash.spec
        /\ p.hash.release \in began[spec]..docs[spec]
        /\ q.hash.release \in began[spec]..docs[spec]
    BY <2>1 DEF HarnessInv, HarnessTypeOK, ParitySound
  <2>3. docs[spec] \in 1..MaxRelease /\ began[spec] \in 1..MaxRelease
    BY <2>1 DEF HarnessInv, HarnessTypeOK, Releases
  <2>4. p.hash.release = q.hash.release
    BY <2>1, <2>2, <2>3
  <2> QED BY <2>1, <2>2, <2>4 DEF Outputs
<1> QED BY <1>1, HarnessInductive, PTL

\* AgreementIsEarned: agreement is said of two labels or more that rendered, all
\* in their own way or none.
THEOREM AgreementsAreEarned == HarnessSpec => []AgreementIsEarned
<1>1. HarnessInv => AgreementIsEarned
  BY DEF HarnessInv
<1> QED BY <1>1, HarnessInductive, PTL

\* PanicsOnlyAtZero: for every number of iterations but 0, the median and the
\* 95th percentile index one of the samples.
THEOREM PanicsAreAtZero == HarnessSpec => []PanicsOnlyAtZero
<1>1. HarnessInv => PanicsOnlyAtZero
  BY DEF HarnessInv
<1> QED BY <1>1, HarnessInductive, PTL

\* FetchColumn: the column says "net" for two iterations or fewer, and for no
\* greater number.
THEOREM FetchColumnTells == HarnessSpec => []FetchColumn
<1>1. HarnessInv => FetchColumn
  BY DEF HarnessInv
<1> QED BY <1>1, HarnessInductive, PTL

-----------------------------------------------------------------------------
(* That the harness gets on                                                *)

\* The instance at work has made no more calls than it is to make, and the
\* last of them has its body or has been rendered.
CallsSound ==
    phase = "render" =>
        /\ Len(fetches) <= renderIterations
        /\ fetches # <<>> => body # None \/ output # None

CallsLeft == renderIterations - Len(fetches)

PhasesLeft == IF phase = "resolve" THEN 2 ELSE IF phase = "render" THEN 1 ELSE 0

\* A step goes on to the next spec, the next phase of this one, the next
\* artifact of the phase, the next call of the instance, or renders its body.
HarnessGetsOn ==
    \/ spec' > spec
    \/ /\ spec' = spec
       /\ \/ PhasesLeft' < PhasesLeft
          \/ /\ phase' = phase
             /\ \/ todo' \subseteq todo /\ todo' # todo
                \/ /\ todo' = todo
                   /\ \/ CallsLeft' < CallsLeft
                      \/ CallsLeft' = CallsLeft /\ body # None /\ body' = None

\* What is left to do here: a call or its rendering, the row, or the error that
\* stands for it.
MayGoOn ==
    \/ Calling \/ body # None
    \/ renderIterations = 0
    \/ output # None /\ Len(fetches) = renderIterations

LEMMA FetchGetsOn ==
    ASSUME HarnessInv, CallsSound, FetchCached \/ Download
    PROVE  CallsSound' /\ HarnessGetsOn
<1>1. /\ phase = "render" /\ Len(fetches) < renderIterations
      /\ UNCHANGED <<renderIterations, spec, phase, todo>>
  BY DEF FetchCached, Download, FetchFromNet, Calling, args
<1>2. fetches \in Seq({"cached", "net"}) /\ renderIterations \in Nat
  BY DEF HarnessInv, HarnessTypeOK
<1>3. PICK how \in {"cached", "net"} : fetches' = Append(fetches, how)
  BY DEF FetchCached, Download, FetchFromNet
<1>4. Len(fetches') = Len(fetches) + 1 /\ Len(fetches) \in Nat
  BY <1>2, <1>3
<1>5. body' # None
  <2>1. docs[spec] # None
    <3>1. docs[spec] \in 1..MaxRelease /\ MaxRelease \in Nat
      BY ParametersAssumption DEF HarnessInv, HarnessTypeOK, Releases
    <3>2. docs[spec] \in Nat
      BY <3>1
    <3> QED BY <3>2, ParametersAssumption
  <2>2. CASE FetchCached
    BY <2>2 DEF FetchCached
  <2>3. CASE Download
    BY <2>1, <2>3 DEF Download, FetchFromNet
  <2> QED BY <2>2, <2>3
<1>6. CallsLeft' < CallsLeft
  BY <1>1, <1>2, <1>4 DEF CallsLeft
<1>7. Len(fetches') <= renderIterations'
  BY <1>1, <1>2, <1>4
<1> QED BY <1>1, <1>5, <1>6, <1>7 DEF CallsSound, HarnessGetsOn

LEMMA RenderGetsOn ==
    ASSUME HarnessInv, CallsSound, RenderOk
    PROVE  CallsSound' /\ HarnessGetsOn
<1>1. /\ phase = "render" /\ body # None /\ body' = None /\ output' = RenderedBy(Running)
      /\ UNCHANGED <<renderIterations, spec, phase, todo, fetches>>
  BY DEF RenderOk, args
<1>2. output' # None
  <2>1. body \in 1..MaxRelease /\ MaxRelease \in Nat /\ spec \in 1..Len(Specs)
    BY <1>1, ParametersAssumption DEF HarnessInv, HarnessTypeOK
  <2>2. RenderedBy(Running) \in Outputs
    BY <2>1 DEF RenderedBy, Outputs
  <2> QED BY <1>1, <2>2, ParametersAssumption
<1> QED BY <1>1, <1>2 DEF CallsSound, HarnessGetsOn, CallsLeft

LEMMA TurnGetsOn ==
    ASSUME HarnessInv, CallsSound, RenderError \/ NothingRendered \/ Row
    PROVE  CallsSound' /\ HarnessGetsOn
<1>1. /\ todo # {} /\ todo' = todo \ {Turn} /\ fetches' = <<>>
      /\ UNCHANGED <<renderIterations, spec, phase>>
  BY DEF RenderError, NothingRendered, Row, NextArtifact, Fresh, args
<1>2. Turn \in todo /\ renderIterations \in Nat
  BY <1>1, TurnIsLeft DEF HarnessInv, HarnessTypeOK
<1>3. Len(fetches') = 0
  BY <1>1
<1> QED BY <1>1, <1>2, <1>3 DEF CallsSound, HarnessGetsOn

LEMMA PhaseGetsOn ==
    ASSUME HarnessInv, CallsSound,
           Resolved \/ ResolveError \/ StatsPanic \/ ReadFails
           \/ SkipRender \/ StartRender \/ Summary
    PROVE  CallsSound' /\ HarnessGetsOn
<1>1. spec \in Nat /\ renderIterations \in Nat
  BY DEF HarnessInv, HarnessTypeOK
<1>2. CASE Resolved \/ ResolveError
  <2>1. /\ todo # {} /\ todo' = todo \ {Turn} /\ phase = "resolve"
        /\ UNCHANGED <<spec, phase>>
    BY <1>2 DEF Resolved, ResolveError
  <2>2. Turn \in todo
    BY <2>1, TurnIsLeft DEF HarnessInv
  <2> QED BY <2>1, <2>2 DEF CallsSound, HarnessGetsOn
<1>3. CASE StatsPanic \/ ReadFails
  <2>1. /\ phase \in {"resolve", "render"} /\ phase' \in {"panicked", "failed"}
        /\ spec' = spec
    BY <1>3 DEF StatsPanic, ReadFails
  <2>2. PhasesLeft' < PhasesLeft
    BY <2>1 DEF PhasesLeft
  <2> QED BY <2>1, <2>2 DEF CallsSound, HarnessGetsOn
<1>4. CASE StartRender
  <2>1. phase = "resolve" /\ phase' = "render" /\ spec' = spec /\ fetches' = <<>>
        /\ renderIterations' = renderIterations
    BY <1>4 DEF StartRender, Fresh, args
  <2>2. PhasesLeft' < PhasesLeft /\ Len(fetches') = 0
    BY <2>1 DEF PhasesLeft
  <2> QED BY <1>1, <2>1, <2>2 DEF CallsSound, HarnessGetsOn
<1>5. CASE SkipRender \/ Summary
  <2>1. phase \in {"resolve", "render"} /\ NextSpec
    BY <1>5 DEF SkipRender, Summary
  <2>2. CASE spec < Len(Specs)
    <3>1. spec' = spec + 1 /\ phase' = "resolve"
      BY <2>1, <2>2 DEF NextSpec
    <3>2. spec' > spec
      BY <1>1, <3>1
    <3> QED BY <3>1, <3>2 DEF CallsSound, HarnessGetsOn
  <2>3. CASE ~(spec < Len(Specs))
    <3>1. spec' = spec /\ phase' = "done"
      BY <2>1, <2>3 DEF NextSpec
    <3>2. PhasesLeft' < PhasesLeft
      BY <2>1, <3>1 DEF PhasesLeft
    <3> QED BY <3>1, <3>2 DEF CallsSound, HarnessGetsOn
  <2> QED BY <2>2, <2>3
<1> QED BY <1>2, <1>3, <1>4, <1>5

LEMMA RunGetsOn == ASSUME HarnessInv, CallsSound, Run PROVE CallsSound' /\ HarnessGetsOn
BY FetchGetsOn, RenderGetsOn, TurnGetsOn, PhaseGetsOn DEF Run

LEMMA AlwaysCallsSound == HarnessSpec => []CallsSound
<1>1. HarnessInit => CallsSound
  BY DEF HarnessInit, CallsSound
<1>2. HarnessInv /\ CallsSound /\ [HarnessNext]_harnessVars => CallsSound'
  <2>1. ASSUME CallsSound, UNCHANGED harnessVars \/ \E s \in 1..Len(Specs) : Publish(s)
        PROVE  CallsSound'
    BY <2>1 DEF CallsSound, Publish, harnessVars, instance, args
  <2> QED BY <2>1, RunGetsOn DEF HarnessNext
<1> QED BY <1>1, <1>2, HarnessInductive, PTL DEF HarnessSpec

\* Every step of the harness gets on: to a later spec, else to a later phase,
\* else with an artifact less, else with a call less, else from a body to its
\* output.  Each is bounded, so the comparison ends whatever fails: what Ends
\* says, less that the harness is run at all.  docs.rs has its own steps.
THEOREM HarnessAlwaysGetsOn ==
    HarnessSpec =>
        /\ [](spec \in 1..Len(Specs) /\ (phase = "render" => CallsLeft \in Nat))
        /\ [][HarnessGetsOn \/ \E s \in 1..Len(Specs) : Publish(s)]_harnessVars
<1>1. HarnessInv /\ CallsSound
          => spec \in 1..Len(Specs) /\ (phase = "render" => CallsLeft \in Nat)
  <2> SUFFICES ASSUME HarnessInv, CallsSound
               PROVE  spec \in 1..Len(Specs) /\ (phase = "render" => CallsLeft \in Nat)
    OBVIOUS
  <2>1. spec \in 1..Len(Specs) /\ fetches \in Seq({"cached", "net"}) /\ renderIterations \in Nat
    BY DEF HarnessInv, HarnessTypeOK
  <2>2. Len(fetches) \in Nat
    BY <2>1
  <2> QED BY <2>1, <2>2 DEF CallsSound, CallsLeft
<1>2. HarnessInv /\ CallsSound /\ [HarnessNext]_harnessVars
          => [HarnessGetsOn \/ \E s \in 1..Len(Specs) : Publish(s)]_harnessVars
  BY RunGetsOn DEF HarnessNext
<1> QED BY <1>1, <1>2, HarnessInductive, AlwaysCallsSound, PTL DEF HarnessSpec

\* The harness comes to no halt within a render: an artifact whose turn it is
\* has a call to make, a body to render, its row to print, or no iteration.
THEOREM RenderNeverStuck ==
    HarnessSpec => [](phase = "render" /\ todo # {} => MayGoOn)
<1>1. HarnessInv /\ CallsSound => (phase = "render" /\ todo # {} => MayGoOn)
  <2> SUFFICES ASSUME HarnessInv, CallsSound, phase = "render", todo # {}, body = None
               PROVE  MayGoOn
    BY DEF MayGoOn
  <2>1. fetches \in Seq({"cached", "net"}) /\ renderIterations \in Nat
    BY DEF HarnessInv, HarnessTypeOK
  <2>2. Len(fetches) \in Nat /\ (fetches = <<>> => Len(fetches) = 0)
    BY <2>1
  <2>3. Len(fetches) < renderIterations \/ Len(fetches) = renderIterations
    BY <2>1, <2>2 DEF CallsSound
  <2> QED BY <2>2, <2>3 DEF CallsSound, MayGoOn, Calling
<1> QED BY <1>1, HarnessInductive, AlwaysCallsSound, PTL
=============================================================================
