------------------------------ MODULE KvWorker ------------------------------
(***************************************************************************)
(* md-docrs-worker: the Cloudflare Worker that loads crates through a KV   *)
(* store with expiring entries (lib.rs: render_spec_response, WorkerFetcher *)
(* and KvCrateCache).  Requests interleave at every await, docs.rs         *)
(* publishes, a new FORMAT_VERSION is deployed, and the store outlives it. *)
(* Texts are sequences of words and colons, as key_string joins them.      *)
(***************************************************************************)
EXTENDS Integers, Sequences

CONSTANTS
    Requests,    \* the requests that may arrive
    Keys,        \* the CacheKeys they may have: [crate, version, target]
    NoTarget,    \* no target query parameter
    NoCrate,     \* no crate loaded yet
    Ttl,         \* ttl_seconds, in ticks of the clock
    MaxRelease,  \* bound: releases of a key
    MaxFormat,   \* bound: FORMAT_VERSIONs deployed
    MaxClock     \* bound: ticks

\* A text cut into words and colons.
Texts == Seq(STRING)

ASSUME KeysAssumption ==
    Keys \subseteq [crate : Texts, version : Texts, target : {NoTarget} \cup Texts]
ASSUME TtlAssumption == Ttl \in Nat \ {0}
ASSUME BoundsAssumption == /\ MaxRelease \in Nat /\ MaxClock \in Nat
                           /\ MaxFormat \in Nat \ {0}

\* The target left out, as when a deployment had only one.
MutantKeyString(key) == <<"crate", ":">> \o key.crate \o <<":">> \o key.version

KeyString(key) ==
    <<"crate", ":">> \o key.crate \o <<":">> \o key.version
        \o IF key.target = NoTarget THEN <<>> ELSE <<":">> \o key.target

\* docs.rs has no crate, version or target with a colon in its name.
HasColon(text) == \E i \in DOMAIN text : text[i] = ":"

Documentable(key) ==
    /\ ~HasColon(key.crate) /\ ~HasColon(key.version)
    /\ key.target # NoTarget => ~HasColon(key.target)

Crates == [of : Keys, release : 1..MaxRelease, format : 1..MaxFormat]

VARIABLES
    clock,
    release,   \* docs.rs: key -> its newest release, 0 for none
    format,    \* the FORMAT_VERSION of the deployed worker
    kv,        \* the store: [at, crate, expires], every write a read may see
    key,       \* request -> its CacheKey
    code,      \* request -> the FORMAT_VERSION of the worker that serves it
    pc,        \* request -> the await its handler is at
    krate,     \* request -> the crate it holds
    asked,     \* history: request -> when it arrived
    slowest,   \* history: the longest a request took to store its download
    past       \* history: when -> what docs.rs had and what was deployed

vars == <<clock, release, format, kv, key, code, pc, krate, asked, slowest, past>>
world == <<clock, release, format, past>>

Init ==
    /\ clock = 0
    /\ release = [k \in Keys |-> 0]
    /\ format = 1
    /\ kv = {}
    /\ key \in [Requests -> Keys]
    /\ code = [r \in Requests |-> 1]
    /\ pc = [r \in Requests |-> "idle"]
    /\ krate = [r \in Requests |-> NoCrate]
    /\ asked = [r \in Requests |-> 0]
    /\ slowest = 0
    /\ past = [t \in {0} |-> [release |-> release, format |-> 1]]

-----------------------------------------------------------------------------
(* The world outside                                                       *)

Publish(k) ==
    /\ Documentable(k)
    /\ release[k] < MaxRelease
    /\ release' = [release EXCEPT ![k] = @ + 1]
    /\ UNCHANGED <<clock, format, kv, key, code, pc, krate, asked, slowest, past>>

Deploy ==
    /\ format < MaxFormat
    /\ format' = format + 1
    /\ UNCHANGED <<clock, release, kv, key, code, pc, krate, asked, slowest, past>>

\* Time passes; the store drops what has expired.
Tick ==
    /\ clock < MaxClock
    /\ clock' = clock + 1
    /\ kv' = {e \in kv : e.expires > clock'}
    /\ past' = [t \in 0..clock' |-> IF t = clock'
                    THEN [release |-> release, format |-> format] ELSE past[t]]
    /\ UNCHANGED <<release, format, key, code, pc, krate, asked, slowest>>

-----------------------------------------------------------------------------
(* render_spec_response                                                    *)

Goto(r, from, to) == pc[r] = from /\ pc' = [pc EXCEPT ![r] = to]

Arrive(r) ==
    /\ Goto(r, "idle", "kv.get")
    /\ code' = [code EXCEPT ![r] = format]
    /\ asked' = [asked EXCEPT ![r] = clock]
    /\ UNCHANGED <<world, kv, key, krate, slowest>>

\* The store is only eventually consistent: any write not yet expired may be
\* what this location sees.  Nothing compares the entry's format_version.
GetHit(r) ==
    /\ Goto(r, "kv.get", "render")
    /\ \E e \in kv :
          /\ e.at = KeyString(key[r])
          /\ krate' = [krate EXCEPT ![r] = e.crate]
    /\ UNCHANGED <<world, kv, key, code, asked, slowest>>

\* No entry, one that is not seen yet, one that does not deserialize, or an
\* error of the store.
GetMiss(r) ==
    /\ Goto(r, "kv.get", "get")
    /\ UNCHANGED <<world, kv, key, code, krate, asked, slowest>>

\* 2xx, and the body decompresses, parses and has this worker's format.
FetchOk(r) ==
    /\ Goto(r, "get", "kv.put")
    /\ release[key[r]] > 0
    /\ krate' = [krate EXCEPT ![r] = [of |-> key[r], release |-> release[key[r]],
                                      format |-> code[r]]]
    /\ UNCHANGED <<world, kv, key, code, asked, slowest>>

\* 404: there is no such crate, or not in this format yet.
Fetch404(r) ==
    /\ Goto(r, "get", "head")
    /\ UNCHANGED <<world, kv, key, code, krate, asked, slowest>>

\* Any other status, a transport error, or a body that is refused; or the
\* probe has ended, whatever it said.
FetchFails(r) ==
    /\ Goto(r, "get", "failed") \/ Goto(r, "head", "failed")
    /\ UNCHANGED <<world, kv, key, code, krate, asked, slowest>>

\* Stored without expiration_ttl.
MutantStored(r) ==
    {[at |-> KeyString(key[r]), crate |-> krate[r], expires |-> MaxClock + 1]}

Stored(r) ==
    {[at |-> KeyString(key[r]), crate |-> krate[r], expires |-> clock + Ttl]}

PutOk(r) ==
    /\ Goto(r, "kv.put", "render")
    /\ kv' = kv \cup Stored(r)
    /\ slowest' = IF clock - asked[r] > slowest THEN clock - asked[r] ELSE slowest
    /\ UNCHANGED <<world, key, code, krate, asked>>

\* The write fails and the request goes on without it.
PutFails(r) ==
    /\ Goto(r, "kv.put", "render")
    /\ UNCHANGED <<world, kv, key, code, krate, asked, slowest>>

Render(r) ==
    /\ Goto(r, "render", "answered")
    /\ UNCHANGED <<world, kv, key, code, krate, asked, slowest>>

\* The client leaves, or the store is not one (InvalidKvStore): the request
\* ends at its await without an answer.
Abandon(r) ==
    /\ pc[r] \in {"kv.get", "get", "head", "kv.put"}
    /\ pc' = [pc EXCEPT ![r] = "gone"]
    /\ UNCHANGED <<world, kv, key, code, krate, asked, slowest>>

Next ==
    \/ Deploy \/ Tick \/ \E k \in Keys : Publish(k)
    \/ \E r \in Requests :
          \/ Arrive(r) \/ GetHit(r) \/ GetMiss(r)
          \/ FetchOk(r) \/ Fetch404(r) \/ FetchFails(r)
          \/ PutOk(r) \/ PutFails(r) \/ Render(r) \/ Abandon(r)

Spec == Init /\ [][Next]_vars

-----------------------------------------------------------------------------
TypeOK ==
    /\ clock \in 0..MaxClock
    /\ release \in [Keys -> 0..MaxRelease]
    /\ format \in 1..MaxFormat
    /\ \A e \in kv : /\ e.at \in {KeyString(k) : k \in Keys}
                     /\ e.crate \in Crates
                     /\ e.expires \in clock + 1..clock + Ttl
    /\ key \in [Requests -> Keys]
    /\ code \in [Requests -> 1..MaxFormat]
    /\ pc \in [Requests -> {"idle", "kv.get", "get", "head", "kv.put",
                            "render", "answered", "failed", "gone"}]
    /\ krate \in [Requests -> Crates \cup {NoCrate}]
    /\ asked \in [Requests -> 0..clock]
    /\ slowest \in 0..clock
    /\ past \in [0..clock -> [release : [Keys -> 0..MaxRelease], format : 1..MaxFormat]]

\* key_string joins with a character its parts may have, so two keys share an
\* entry; a key docs.rs can have is never answered with another key's crate.
OwnCrate ==
    \A r \in Requests : krate[r] # NoCrate /\ Documentable(key[r])
                        => krate[r].of = key[r]

\* What a request holds is no older, in release and in format, than what was
\* current one Ttl and one slowest download before it asked: neither a failed
\* write, a stale read nor an older worker's entry makes it worse.
NoOlderThanTtl ==
    \A r \in Requests : krate[r] # NoCrate =>
        LET since == asked[r] - Ttl - slowest
            then == past[IF since < 0 THEN 0 ELSE since]
        IN  /\ krate[r].release >= then.release[krate[r].of]
            /\ krate[r].format >= then.format
=============================================================================
