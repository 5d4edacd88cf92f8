---------------------------- MODULE CrateService ----------------------------
(***************************************************************************)
(* What md-docrs-server promises about one request, with no list, pool or  *)
(* task in sight: it holds a partial map of crates; a request is answered  *)
(* from one crate of its own key, either the one held at some moment while *)
(* it was open or one that docs.rs served at some moment while it was      *)
(* open; a crate taken from docs.rs is in the map before the answer goes   *)
(* out; putting it may forget other keys and changes nothing else.         *)
(***************************************************************************)
EXTENDS DocsRs

CONSTANTS
    Requests,
    Items,
    Contents   \* key -> release -> the items that release documents

VARIABLES
    content,   \* key -> the crate held, or NoCrate
    ask,       \* request -> the key and item it asks for
    phase,     \* request -> "idle" | "open" | "loaded" | "holding" | "closed"
    krate,     \* request -> the crate it is answered from
    answer     \* request -> the status it was answered with, 0 for none

vars == <<docs, content, ask, phase, krate, answer>>

Status(r, c) == IF ask[r].item \in Contents[c.of][c.release] THEN 200 ELSE 404

Init ==
    /\ DocsInit
    /\ content = [k \in Keys |-> NoCrate]
    /\ ask \in [Requests -> [key : Keys, item : Items]]
    /\ phase = [r \in Requests |-> "idle"]
    /\ krate = [r \in Requests |-> NoCrate]
    /\ answer = [r \in Requests |-> 0]

Upstream ==
    /\ \E k \in Keys : Publish(k) \/ Build(k)
    /\ UNCHANGED <<content, ask, phase, krate, answer>>

Open(r) ==
    /\ phase[r] = "idle"
    /\ phase' = [phase EXCEPT ![r] = "open"]
    /\ UNCHANGED <<docs, content, ask, krate, answer>>

Reuse(r) ==
    /\ phase[r] = "open"
    /\ content[ask[r].key] # NoCrate
    /\ krate' = [krate EXCEPT ![r] = content[ask[r].key]]
    /\ phase' = [phase EXCEPT ![r] = "holding"]
    /\ UNCHANGED <<docs, content, ask, answer>>

Load(r) ==
    /\ phase[r] = "open"
    /\ docs[ask[r].key].built
    /\ krate' = [krate EXCEPT ![r] = Served(ask[r].key)]
    /\ phase' = [phase EXCEPT ![r] = "loaded"]
    /\ UNCHANGED <<docs, content, ask, answer>>

Store(r) ==
    /\ phase[r] = "loaded"
    /\ content' \in [Keys -> Crates \cup {NoCrate}]
    /\ content'[ask[r].key] = krate[r]
    /\ \A k \in Keys \ {ask[r].key} : content'[k] \in {content[k], NoCrate}
    /\ phase' = [phase EXCEPT ![r] = "holding"]
    /\ UNCHANGED <<docs, ask, krate, answer>>

Reply(r) ==
    /\ phase[r] = "holding"
    /\ answer' = [answer EXCEPT ![r] = Status(r, krate[r])]
    /\ phase' = [phase EXCEPT ![r] = "closed"]
    /\ UNCHANGED <<docs, content, ask, krate>>

\* A request may be refused, but never once it has its crate.
Refuse(r) ==
    /\ phase[r] = "open"
    /\ answer' = [answer EXCEPT ![r] = 502]
    /\ phase' = [phase EXCEPT ![r] = "closed"]
    /\ UNCHANGED <<docs, content, ask, krate>>

\* The client went away: what was loaded for it is lost.
Abandon(r) ==
    /\ phase[r] \in {"open", "loaded"}
    /\ krate' = [krate EXCEPT ![r] = NoCrate]
    /\ phase' = [phase EXCEPT ![r] = "closed"]
    /\ UNCHANGED <<docs, content, ask, answer>>

Next ==
    \/ Upstream
    \/ \E r \in Requests :
          \/ Open(r) \/ Reuse(r) \/ Load(r) \/ Store(r)
          \/ Reply(r) \/ Refuse(r) \/ Abandon(r)

Spec == Init /\ [][Next]_vars
=============================================================================
