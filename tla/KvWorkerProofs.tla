--------------------------- MODULE KvWorkerProofs ---------------------------
(***************************************************************************)
(* The Worker's KV store, for any requests, keys, time to live, releases   *)
(* and deployments: its types, whose crate a key is answered with, and how *)
(* old it may be.                                                          *)
(***************************************************************************)
EXTENDS KvWorker, SequenceTheorems, TLAPS

-----------------------------------------------------------------------------
(* key_string                                                              *)

\* The provers know of no text that it is a STRING: the two that key_string
\* puts in are added to the words.
Pieces == STRING \cup {":", "crate"}
Joined == Seq(Pieces)

LEMMA TextIsJoined == ASSUME NEW a \in Texts PROVE a \in Joined
BY DEF Texts, Joined, Pieces

Colon == <<":">>

LEMMA ColonText == Colon \in Joined /\ Len(Colon) = 1 /\ Colon[1] = ":"
<1>1. Colon \in Seq(Pieces)
  BY DEF Colon, Pieces
<1>2. Len(Colon) = 1 /\ Colon[1] = ":"
  BY DEF Colon
<1> QED BY <1>1, <1>2 DEF Joined

\* What two texts put together are.
LEMMA Together ==
    ASSUME NEW a \in Joined, NEW b \in Joined
    PROVE  /\ a \o b \in Joined
           /\ Len(a) \in Nat /\ Len(b) \in Nat /\ Len(a \o b) = Len(a) + Len(b)
           /\ \A i \in 1..Len(a) : (a \o b)[i] = a[i]
           /\ \A i \in 1..Len(b) : (a \o b)[Len(a) + i] = b[i]
<1>1. a \in Seq(Pieces) /\ b \in Seq(Pieces)
  BY DEF Joined
<1>2. /\ a \o b \in Seq(Pieces) /\ Len(a \o b) = Len(a) + Len(b)
      /\ \A i \in 1..Len(a) + Len(b) :
            (a \o b)[i] = IF i <= Len(a) THEN a[i] ELSE b[i - Len(a)]
  BY <1>1, ConcatProperties
<1>3. Len(a) \in Nat /\ Len(b) \in Nat
  BY <1>1
<1> HIDE <1>1
<1> QED BY <1>2, <1>3 DEF Joined

LEMMA Associative ==
    ASSUME NEW a \in Joined, NEW b \in Joined, NEW c \in Joined
    PROVE  (a \o b) \o c = a \o (b \o c)
BY ConcatAssociative DEF Joined

LEMMA AfterColon ==
    ASSUME NEW b \in Joined
    PROVE  /\ Colon \o b \in Joined
           /\ Len(Colon \o b) = 1 + Len(b) /\ Len(Colon \o b) \in Nat
           /\ Len(b) \in Nat /\ (Colon \o b)[1] = ":"
<1>1. 1 \in 1..Len(Colon) /\ Len(Colon) = 1 /\ Colon[1] = ":" /\ Colon \in Joined
  BY ColonText
<1>2. /\ Colon \o b \in Joined /\ Len(b) \in Nat
      /\ Len(Colon \o b) = Len(Colon) + Len(b)
  BY <1>1, Together
<1>3. (Colon \o b)[1] = ":"
  BY <1>1, Together
<1> QED BY <1>1, <1>2, <1>3

\* Up to its first colon a text can be read in one way only.
LEMMA FirstColon ==
    ASSUME NEW a \in Joined, NEW b \in Joined, NEW c \in Joined, NEW d \in Joined,
           ~HasColon(a), ~HasColon(c),
           a \o (Colon \o b) = c \o (Colon \o d)
    PROVE  a = c /\ b = d
<1> DEFINE x == Colon \o b
           y == Colon \o d
<1>1. /\ x \in Joined /\ y \in Joined /\ x[1] = ":" /\ y[1] = ":"
      /\ Len(x) \in Nat /\ Len(y) \in Nat /\ Len(x) >= 1 /\ Len(y) >= 1
  BY AfterColon
<1>2. a \o x = c \o y
  OBVIOUS
<1> HIDE DEF x, y
<1>3. /\ Len(a) \in Nat /\ Len(c) \in Nat
      /\ Len(a \o x) = Len(a) + Len(x) /\ Len(c \o y) = Len(c) + Len(y)
  BY <1>1, Together
<1>4. /\ \A i \in 1..Len(a) : a[i] # ":" /\ (a \o x)[i] = a[i]
      /\ \A i \in 1..Len(c) : c[i] # ":" /\ (c \o y)[i] = c[i]
  <2>1. \A i \in 1..Len(a) : a[i] # ":"
    BY DEF HasColon, Joined
  <2>2. \A i \in 1..Len(c) : c[i] # ":"
    BY DEF HasColon, Joined
  <2> QED BY <1>1, <2>1, <2>2, Together
<1>5. (a \o x)[Len(a) + 1] = ":" /\ (c \o y)[Len(c) + 1] = ":"
  <2>1. 1 \in 1..Len(x) /\ 1 \in 1..Len(y)
    BY <1>1
  <2>2. (a \o x)[Len(a) + 1] = x[1]
    BY <1>1, <2>1, Together
  <2>3. (c \o y)[Len(c) + 1] = y[1]
    BY <1>1, <2>1, Together
  <2> QED BY <1>1, <2>2, <2>3
<1>6. ~(Len(a) < Len(c)) /\ ~(Len(c) < Len(a))
  <2>1. ASSUME Len(a) < Len(c) PROVE FALSE
    <3>1. Len(a) + 1 \in 1..Len(c)
      BY <1>3, <2>1
    <3> QED BY <1>2, <1>4, <1>5, <3>1
  <2>2. ASSUME Len(c) < Len(a) PROVE FALSE
    <3>1. Len(c) + 1 \in 1..Len(a)
      BY <1>3, <2>2
    <3> QED BY <1>2, <1>4, <1>5, <3>1
  <2> QED BY <2>1, <2>2
<1>7. Len(a) = Len(c)
  BY <1>3, <1>6
<1>8. a = c
  <2>1. \A i \in 1..Len(a) : a[i] = c[i]
    BY <1>2, <1>4, <1>7
  <2>2. a \in Seq(Pieces) /\ c \in Seq(Pieces)
    BY DEF Joined
  <2> QED BY <1>7, <2>1, <2>2, SeqEqual
<1>9. x = y
  BY <1>1, <1>2, <1>8, ConcatSimplifications DEF Joined
<1>10. b = d
  BY <1>9, ColonText, ConcatSimplifications DEF x, y, Joined
<1> QED BY <1>8, <1>10

\* A text with a colon in it is not one without.
LEMMA HasItsColon ==
    ASSUME NEW a \in Joined, NEW b \in Joined PROVE HasColon(a \o (Colon \o b))
<1> DEFINE x == Colon \o b
<1>1. x \in Joined /\ 1 \in 1..Len(x) /\ x[1] = ":" /\ Len(x) \in Nat
  BY AfterColon
<1> HIDE DEF x
<1>2. /\ a \o x \in Seq(Pieces) /\ (a \o x)[Len(a) + 1] = ":"
      /\ Len(a) + 1 \in 1..Len(a \o x)
  BY <1>1, Together DEF Joined
<1>3. Len(a) + 1 \in DOMAIN (a \o x)
  BY <1>2
<1> QED BY <1>2, <1>3 DEF HasColon, x

\* What key_string writes after the crate and its colon.
Rest(k) == IF k.target = NoTarget THEN k.version ELSE k.version \o (Colon \o k.target)

CratePrefix == <<"crate", ":">>

LEMMA KeyStringParts ==
    ASSUME NEW k \in Keys
    PROVE  /\ k.crate \in Joined /\ k.version \in Joined /\ Rest(k) \in Joined
           /\ k.target # NoTarget => k.target \in Joined
           /\ CratePrefix \in Joined /\ k.crate \o (Colon \o Rest(k)) \in Joined
           /\ KeyString(k) = CratePrefix \o (k.crate \o (Colon \o Rest(k)))
<1> DEFINE tail == IF k.target = NoTarget THEN <<>> ELSE Colon \o k.target
<1>1. /\ k.crate \in Joined /\ k.version \in Joined
      /\ k.target # NoTarget => k.target \in Joined
  BY KeysAssumption, TextIsJoined
<1>2. CratePrefix \in Joined /\ tail \in Joined
  <2>1. CratePrefix \in Joined /\ <<>> \in Joined
    BY DEF CratePrefix, Joined, Pieces
  <2> QED BY <1>1, <2>1, AfterColon
<1>3. Rest(k) = k.version \o tail
  BY <1>1, ConcatEmptySeq DEF Rest, Joined
<1>4. KeyString(k) = (((CratePrefix \o k.crate) \o Colon) \o k.version) \o tail
  BY DEF KeyString, Colon, CratePrefix
<1> HIDE DEF tail
<1>5. Rest(k) \in Joined
  BY <1>1, <1>2, <1>3, Together
<1>6. k.crate \o (Colon \o Rest(k)) \in Joined
  BY <1>1, <1>5, AfterColon, Together
<1>7. (((CratePrefix \o k.crate) \o Colon) \o k.version) \o tail
        = CratePrefix \o (k.crate \o (Colon \o (k.version \o tail)))
  <2> DEFINE start == CratePrefix \o k.crate
             end == k.version \o tail
  <2>1. start \in Joined /\ end \in Joined /\ Colon \in Joined
    BY <1>1, <1>2, ColonText, Together
  <2>2. start \o Colon \in Joined /\ Colon \o end \in Joined
    BY <2>1, Together
  <2>3. start \o (Colon \o end) = CratePrefix \o (k.crate \o (Colon \o end))
    <3> DEFINE middle == Colon \o end
    <3>1. middle \in Joined
      BY <2>2
    <3> HIDE DEF middle, end
    <3>2. CratePrefix \in Joined /\ k.crate \in Joined
      BY <1>1, <1>2
    <3>3. PICK a, b : a = CratePrefix /\ b = k.crate
      OBVIOUS
    <3>4. (a \o b) \o middle = a \o (b \o middle)
      BY <3>1, <3>2, <3>3, Associative
    <3> QED BY <3>3, <3>4 DEF middle
  <2> HIDE DEF start
  <2>4. ((start \o Colon) \o k.version) \o tail = (start \o Colon) \o end
    <3> DEFINE prefix == start \o Colon
    <3>1. prefix \in Joined
      BY <2>2
    <3> HIDE DEF prefix
    <3>2. (prefix \o k.version) \o tail = prefix \o (k.version \o tail)
      BY <1>1, <1>2, <3>1, Associative
    <3> QED BY <3>2 DEF prefix
  <2> HIDE DEF end
  <2>5. (start \o Colon) \o end = start \o (Colon \o end)
    BY <2>1, Associative
  <2>6. ((start \o Colon) \o k.version) \o tail
          = CratePrefix \o (k.crate \o (Colon \o end))
    BY <2>3, <2>4, <2>5
  <2> QED BY <2>6 DEF start, end
<1> QED BY <1>1, <1>2, <1>3, <1>4, <1>5, <1>6, <1>7

\* Two keys that docs.rs can have, with a colon in no part, have two strings.
THEOREM KeyStringInjective ==
    ASSUME NEW j \in Keys, NEW k \in Keys, Documentable(j), Documentable(k),
           KeyString(j) = KeyString(k)
    PROVE  j = k
<1>1. j.crate \o (Colon \o Rest(j)) = k.crate \o (Colon \o Rest(k))
  <2> DEFINE x == j.crate \o (Colon \o Rest(j))
             y == k.crate \o (Colon \o Rest(k))
  <2>1. x \in Joined /\ y \in Joined /\ CratePrefix \in Joined
    BY KeyStringParts
  <2>2. CratePrefix \o x = CratePrefix \o y
    BY KeyStringParts
  <2> HIDE DEF x, y
  <2>3. x = y
    BY <2>1, <2>2, ConcatSimplifications DEF Joined
  <2> QED BY <2>3 DEF x, y
<1>2. /\ j.crate \in Joined /\ j.version \in Joined /\ Rest(j) \in Joined
      /\ k.crate \in Joined /\ k.version \in Joined /\ Rest(k) \in Joined
      /\ j.target # NoTarget => j.target \in Joined
      /\ k.target # NoTarget => k.target \in Joined
  BY KeyStringParts
<1>3. j.crate = k.crate /\ Rest(j) = Rest(k)
  <2>1. ~HasColon(j.crate) /\ ~HasColon(k.crate)
    BY DEF Documentable
  <2>2. PICK a, b, c, d : a = j.crate /\ b = Rest(j) /\ c = k.crate /\ d = Rest(k)
    OBVIOUS
  <2>3. /\ a \in Joined /\ b \in Joined /\ c \in Joined /\ d \in Joined
        /\ ~HasColon(a) /\ ~HasColon(c) /\ a \o (Colon \o b) = c \o (Colon \o d)
    BY <1>1, <1>2, <2>1, <2>2
  <2>4. a = c /\ b = d
    BY <2>3, FirstColon
  <2> QED BY <2>2, <2>4
<1>4. j.version = k.version /\ j.target = k.target
  <2>1. CASE j.target = NoTarget /\ k.target = NoTarget
    BY <1>3, <2>1 DEF Rest
  <2>2. CASE j.target # NoTarget /\ k.target # NoTarget
    <3>1. j.version \o (Colon \o j.target) = k.version \o (Colon \o k.target)
      BY <1>3, <2>2 DEF Rest
    <3>2. ~HasColon(j.version) /\ ~HasColon(k.version)
      BY DEF Documentable
    <3>3. j.target \in Joined /\ k.target \in Joined
      BY <1>2, <2>2
    <3> QED BY <1>2, <3>1, <3>2, <3>3, FirstColon
  <2>3. CASE j.target = NoTarget /\ k.target # NoTarget
    BY <1>2, <1>3, <2>3, HasItsColon DEF Rest, Documentable
  <2>4. CASE j.target # NoTarget /\ k.target = NoTarget
    BY <1>2, <1>3, <2>4, HasItsColon DEF Rest, Documentable
  <2> QED BY <2>1, <2>2, <2>3, <2>4
<1> QED BY <1>3, <1>4, KeysAssumption

-----------------------------------------------------------------------------
(* The inductive invariant                                                 *)

Upto(t) == IF t < 0 THEN 0 ELSE t

\* A crate is no older than what was current at t.
Recent(c, t) ==
    /\ c.release >= past[Upto(t)].release[c.of]
    /\ c.format >= past[Upto(t)].format

\* docs.rs and the deployments have only moved on.
PastSound ==
    /\ \A s, t \in 0..clock : s <= t =>
          /\ \A k \in Keys : past[s].release[k] <= past[t].release[k]
          /\ past[s].format <= past[t].format
    /\ \A k \in Keys : past[clock].release[k] <= release[k]
    /\ past[clock].format <= format

\* What is stored was fetched for a key docs.rs can have, under that key's
\* string, no longer before it was stored than the slowest download took.
StoreSound ==
    /\ \A k \in Keys : release[k] > 0 => Documentable(k)
    /\ \A e \in kv : /\ e.at = KeyString(e.crate.of) /\ Documentable(e.crate.of)
                     /\ Recent(e.crate, e.expires - Ttl - slowest)

\* What a request holds is its own and recent enough; until it is stored, a
\* download is as new as the request.
Sound(r) ==
    /\ pc[r] = "idle" => krate[r] = NoCrate
    /\ pc[r] # "idle" => code[r] >= past[asked[r]].format
    /\ pc[r] = "kv.put" =>
          /\ krate[r] \in Crates /\ krate[r].of = key[r] /\ Documentable(key[r])
          /\ Recent(krate[r], asked[r])
    /\ krate[r] # NoCrate =>
          /\ Documentable(key[r]) => krate[r].of = key[r]
          /\ Recent(krate[r], asked[r] - Ttl - slowest)

IInv == TypeOK /\ PastSound /\ StoreSound /\ \A r \in Requests : Sound(r)

LEMMA InitIInv == Init => IInv
<1> SUFFICES ASSUME Init PROVE IInv
  OBVIOUS
<1>1. /\ 0 \in 0..MaxClock /\ 0 \in 0..MaxRelease /\ 1 \in 1..MaxFormat /\ 0 \in 0..0
      /\ 0..0 = {0}
  BY BoundsAssumption
<1>2. past[0] = [release |-> release, format |-> 1]
  BY DEF Init
<1>3. TypeOK
  <2>1. past \in [0..0 -> [release : [Keys -> 0..MaxRelease], format : 1..MaxFormat]]
    BY <1>1 DEF Init
  <2>2. clock = 0 /\ kv = {} /\ slowest = 0
    BY DEF Init
  <2> QED BY <1>1, <2>1, <2>2 DEF Init, TypeOK
<1>4. \A r \in Requests : Sound(r)
  BY DEF Init, Sound
<1>5. StoreSound
  BY DEF Init, StoreSound
<1>6. PastSound
  <2>1. \A s \in 0..clock : s = 0
    BY DEF Init
  <2>2. \A k \in Keys : release[k] = 0
    BY DEF Init
  <2>3. clock = 0 /\ format = 1
    BY DEF Init
  <2> QED BY <1>2, <2>1, <2>2, <2>3 DEF PastSound
<1> QED BY <1>3, <1>4, <1>5, <1>6 DEF IInv

-----------------------------------------------------------------------------
(* Time                                                                    *)

LEMMA Numbers ==
    ASSUME TypeOK
    PROVE  /\ clock \in Nat /\ slowest \in Nat /\ slowest <= clock /\ Ttl \in Nat /\ Ttl > 0
           /\ \A t \in 0..clock : /\ past[t].format \in Nat
                                  /\ \A k \in Keys : past[t].release[k] \in Nat
           /\ \A k \in Keys : release[k] \in Nat
           /\ format \in Nat
           /\ \A c \in Crates : c.of \in Keys /\ c.release \in Nat /\ c.format \in Nat
           /\ \A r \in Requests : asked[r] \in 0..clock /\ code[r] \in Nat
           /\ \A e \in kv : e.crate \in Crates /\ e.expires \in Nat
                            /\ e.expires > clock /\ e.expires <= clock + Ttl
<1>1. clock \in Nat /\ slowest \in Nat /\ slowest <= clock /\ Ttl \in Nat /\ Ttl > 0
  BY TtlAssumption, BoundsAssumption DEF TypeOK
<1>2. ASSUME NEW t \in 0..clock
      PROVE  past[t].format \in Nat /\ \A k \in Keys : past[t].release[k] \in Nat
  <2>1. past[t] \in [release : [Keys -> 0..MaxRelease], format : 1..MaxFormat]
    BY DEF TypeOK
  <2>2. past[t].release \in [Keys -> 0..MaxRelease] /\ past[t].format \in 1..MaxFormat
    BY <2>1
  <2> QED BY <2>2, BoundsAssumption
<1>3. (\A k \in Keys : release[k] \in Nat) /\ format \in Nat
  BY BoundsAssumption DEF TypeOK
<1>4. \A c \in Crates : c.of \in Keys /\ c.release \in Nat /\ c.format \in Nat
  BY BoundsAssumption DEF Crates
<1>5. \A r \in Requests : asked[r] \in 0..clock /\ code[r] \in Nat
  BY BoundsAssumption DEF TypeOK
<1>6. \A e \in kv : e.crate \in Crates /\ e.expires \in Nat
                    /\ e.expires > clock /\ e.expires <= clock + Ttl
  BY <1>1 DEF TypeOK
<1> QED BY <1>1, <1>2, <1>3, <1>4, <1>5, <1>6

\* No older than t is no older than anything before t.
LEMMA OlderIsEasier ==
    ASSUME TypeOK, PastSound, NEW c \in Crates, NEW t \in Int, NEW s \in Int,
           s <= t, t <= clock, Recent(c, t)
    PROVE  Recent(c, s)
<1>1. /\ Upto(s) \in 0..clock /\ Upto(t) \in 0..clock /\ Upto(s) <= Upto(t)
  <2>1. clock \in Nat
    BY Numbers
  <2> QED BY <2>1 DEF Upto
<1>2. /\ past[Upto(s)].release[c.of] <= past[Upto(t)].release[c.of]
      /\ past[Upto(s)].format <= past[Upto(t)].format
  BY <1>1, Numbers DEF PastSound
<1>3. /\ past[Upto(s)].release[c.of] \in Nat /\ past[Upto(t)].release[c.of] \in Nat
      /\ past[Upto(s)].format \in Nat /\ past[Upto(t)].format \in Nat
      /\ c.release \in Nat /\ c.format \in Nat
  BY <1>1, Numbers
<1> QED BY <1>2, <1>3 DEF Recent

\* Current now is no older than any time so far.
LEMMA CurrentIsRecent ==
    ASSUME TypeOK, PastSound, NEW c \in Crates, NEW t \in 0..clock,
           c.release = release[c.of], c.format >= past[t].format
    PROVE  Recent(c, t)
<1>1. /\ t <= clock /\ clock \in 0..clock /\ Upto(t) = t /\ c.of \in Keys
  BY Numbers DEF Upto
<1>2. past[t].release[c.of] <= past[clock].release[c.of]
  BY <1>1 DEF PastSound
<1>3. past[clock].release[c.of] <= release[c.of]
  BY <1>1 DEF PastSound
<1>4. /\ past[t].release[c.of] \in Nat /\ past[clock].release[c.of] \in Nat
      /\ release[c.of] \in Nat
  BY <1>1, Numbers
<1> QED BY <1>1, <1>2, <1>3, <1>4 DEF Recent

-----------------------------------------------------------------------------
(* The world outside                                                       *)

LEMMA PublishIInv == ASSUME IInv, NEW k \in Keys, Publish(k) PROVE IInv'
<1>1. /\ Documentable(k) /\ release[k] < MaxRelease
      /\ release' = [release EXCEPT ![k] = release[k] + 1]
      /\ UNCHANGED <<clock, format, kv, key, code, pc, krate, asked, slowest, past>>
  BY DEF Publish
<1>2. release[k] + 1 \in 0..MaxRelease
  BY <1>1, BoundsAssumption DEF IInv, TypeOK
<1>3. TypeOK'
  BY <1>1, <1>2 DEF IInv, TypeOK
<1>4. PastSound'
  <2>1. \A j \in Keys : release[j] <= release'[j]
    <3>1. \A j \in Keys : release'[j] = IF j = k THEN release[k] + 1 ELSE release[j]
      BY <1>1 DEF IInv, TypeOK
    <3>2. \A j \in Keys : release[j] \in Nat
      BY Numbers DEF IInv
    <3> QED BY <3>1, <3>2
  <2>2. \A j \in Keys : /\ past[clock].release[j] \in Nat /\ release[j] \in Nat
                        /\ release'[j] \in Nat
    BY <1>3, BoundsAssumption, Numbers DEF IInv, TypeOK
  <2>3. \A j \in Keys : past[clock].release[j] <= release'[j]
    BY <2>1, <2>2 DEF IInv, PastSound
  <2> QED BY <1>1, <2>3 DEF IInv, PastSound
<1>5. StoreSound'
  <2>1. \A j \in Keys \ {k} : release'[j] = release[j]
    BY <1>1 DEF IInv, TypeOK
  <2> QED BY <1>1, <2>1 DEF IInv, StoreSound, Recent
<1>6. \A r \in Requests : Sound(r)'
  BY <1>1 DEF IInv, Sound, Recent
<1> QED BY <1>3, <1>4, <1>5, <1>6 DEF IInv

LEMMA DeployIInv == ASSUME IInv, Deploy PROVE IInv'
<1>1. /\ format' = format + 1 /\ format' \in 1..MaxFormat /\ format \in Nat
      /\ UNCHANGED <<clock, release, kv, key, code, pc, krate, asked, slowest, past>>
  BY BoundsAssumption DEF IInv, TypeOK, Deploy
<1>2. TypeOK'
  BY <1>1 DEF IInv, TypeOK
<1>3. PastSound'
  <2>1. past[clock].format \in Nat
    BY Numbers DEF IInv
  <2> QED BY <1>1, <2>1 DEF IInv, PastSound
<1>4. StoreSound' /\ \A r \in Requests : Sound(r)'
  BY <1>1 DEF IInv, StoreSound, Sound, Recent
<1> QED BY <1>2, <1>3, <1>4 DEF IInv

LEMMA TickIInv == ASSUME IInv, Tick PROVE IInv'
<1>1. /\ clock < MaxClock /\ clock' = clock + 1
      /\ kv' = {e \in kv : e.expires > clock'}
      /\ past' = [t \in 0..clock' |-> IF t = clock'
                     THEN [release |-> release, format |-> format] ELSE past[t]]
      /\ UNCHANGED <<release, format, key, code, pc, krate, asked, slowest>>
  BY DEF Tick
<1>2. /\ clock \in Nat /\ clock' \in 0..MaxClock /\ clock' \in 0..clock'
      /\ \A t \in 0..clock' : t = clock' \/ t \in 0..clock
      /\ \A t \in 0..clock : t \in 0..clock' /\ t # clock'
  BY <1>1, BoundsAssumption, Numbers DEF IInv
<1>3. /\ \A t \in 0..clock : past'[t] = past[t]
      /\ past'[clock'] = [release |-> release, format |-> format]
  BY <1>1, <1>2
<1>4. TypeOK'
  <2>1. past' \in [0..clock' -> [release : [Keys -> 0..MaxRelease], format : 1..MaxFormat]]
    <3>1. [release |-> release, format |-> format]
             \in [release : [Keys -> 0..MaxRelease], format : 1..MaxFormat]
      BY DEF IInv, TypeOK
    <3>2. \A t \in 0..clock :
             past[t] \in [release : [Keys -> 0..MaxRelease], format : 1..MaxFormat]
      BY DEF IInv, TypeOK
    <3> QED BY <1>1, <1>2, <3>1, <3>2
  <2>2. \A e \in kv' : /\ e.at \in {KeyString(k) : k \in Keys} /\ e.crate \in Crates
                       /\ e.expires \in clock' + 1..clock' + Ttl
    BY <1>1, <1>2, TtlAssumption DEF IInv, TypeOK
  <2>3. asked' \in [Requests -> 0..clock'] /\ slowest' \in 0..clock'
    BY <1>1, <1>2 DEF IInv, TypeOK
  <2> QED BY <1>1, <1>2, <2>1, <2>2, <2>3 DEF IInv, TypeOK
<1>5. PastSound'
  <2>1. \A k \in Keys : past'[clock'].release[k] <= release[k]
    BY <1>3, Numbers DEF IInv
  <2>2. past'[clock'].format <= format
    BY <1>3, Numbers DEF IInv
  <2>3. ASSUME NEW s \in 0..clock', NEW t \in 0..clock', s <= t
        PROVE  /\ \A k \in Keys : past'[s].release[k] <= past'[t].release[k]
               /\ past'[s].format <= past'[t].format
    <3>1. CASE t \in 0..clock
      <4>1. s \in 0..clock
        BY <1>2, <2>3, <3>1
      <4> QED BY <1>3, <2>3, <3>1, <4>1 DEF IInv, PastSound
    <3>2. CASE t = clock' /\ s = clock'
      BY <3>2, <1>3, Numbers DEF IInv
    <3>3. CASE t = clock' /\ s \in 0..clock
      <4>1. s <= clock /\ clock \in 0..clock
        BY <1>2, <3>3
      <4>2. /\ \A k \in Keys : past[s].release[k] <= past[clock].release[k]
            /\ past[s].format <= past[clock].format
        BY <3>3, <4>1 DEF IInv, PastSound
      <4>3. /\ \A k \in Keys : past[clock].release[k] <= release[k]
            /\ past[clock].format <= format
        BY DEF IInv, PastSound
      <4>4. /\ \A k \in Keys : /\ past[s].release[k] \in Nat /\ release[k] \in Nat
                               /\ past[clock].release[k] \in Nat
            /\ past[s].format \in Nat /\ past[clock].format \in Nat /\ format \in Nat
        BY <3>3, <4>1, Numbers DEF IInv
      <4> QED BY <1>3, <3>3, <4>2, <4>3, <4>4
    <3> QED BY <1>2, <3>1, <3>2, <3>3
  <2> QED BY <1>1, <2>1, <2>2, <2>3 DEF PastSound
<1>6. ASSUME NEW c, NEW t \in Int, t <= clock, Recent(c, t)
      PROVE  c.release >= past'[Upto(t)].release[c.of] /\ c.format >= past'[Upto(t)].format
  <2>1. Upto(t) \in 0..clock
    BY <1>2, <1>6 DEF Upto
  <2> QED BY <1>3, <1>6, <2>1 DEF Recent
<1>7. StoreSound'
  <2> SUFFICES ASSUME NEW e \in kv, e.expires > clock'
               PROVE  /\ e.at = KeyString(e.crate.of) /\ Documentable(e.crate.of)
                      /\ e.crate.release >= past'[Upto(e.expires - Ttl - slowest)].release[e.crate.of]
                      /\ e.crate.format >= past'[Upto(e.expires - Ttl - slowest)].format
    BY <1>1 DEF IInv, StoreSound, Recent
  <2>1. e.expires - Ttl - slowest \in Int /\ e.expires - Ttl - slowest <= clock
    BY Numbers DEF IInv
  <2>2. /\ e.at = KeyString(e.crate.of) /\ Documentable(e.crate.of)
        /\ Recent(e.crate, e.expires - Ttl - slowest)
    BY DEF IInv, StoreSound
  <2> QED BY <1>6, <2>1, <2>2
<1>8. ASSUME NEW r \in Requests PROVE Sound(r)'
  <2>1. /\ asked[r] \in 0..clock /\ asked[r] \in Int /\ asked[r] <= clock
        /\ asked[r] - Ttl - slowest \in Int /\ asked[r] - Ttl - slowest <= clock
    BY Numbers DEF IInv
  <2>2. past'[asked[r]] = past[asked[r]]
    BY <1>3, <2>1
  <2>3. Recent(krate[r], asked[r]) => Recent(krate[r], asked[r])'
    BY <1>1, <1>6, <2>1 DEF Recent
  <2>4. Recent(krate[r], asked[r] - Ttl - slowest) => Recent(krate[r], asked[r] - Ttl - slowest)'
    BY <1>1, <1>6, <2>1 DEF Recent
  <2>5. Sound(r)
    BY DEF IInv
  <2> QED BY <1>1, <2>2, <2>3, <2>4, <2>5 DEF Sound
<1> QED BY <1>4, <1>5, <1>7, <1>8 DEF IInv

-----------------------------------------------------------------------------
(* Requests                                                                *)

\* A step that leaves the store alone has one request to answer for.
LEMMA OneRequest ==
    ASSUME IInv, NEW r \in Requests, UNCHANGED <<world, kv, slowest, key>>,
           \A g \in Requests \ {r} : /\ pc'[g] = pc[g] /\ krate'[g] = krate[g]
                                     /\ asked'[g] = asked[g] /\ code'[g] = code[g],
           TypeOK', Sound(r)'
    PROVE  IInv'
<1>1. UNCHANGED <<clock, release, format, past, kv, slowest, key>>
  BY DEF world
<1>2. PastSound' /\ StoreSound'
  BY <1>1 DEF IInv, PastSound, StoreSound, Recent
<1>3. ASSUME NEW g \in Requests \ {r} PROVE Sound(g)'
  <2>1. Sound(g)
    BY DEF IInv
  <2> QED BY <1>1, <2>1 DEF Sound, Recent
<1> QED BY <1>2, <1>3 DEF IInv

LEMMA ArriveIInv == ASSUME IInv, NEW r \in Requests, Arrive(r) PROVE IInv'
<1>1. /\ pc[r] = "idle" /\ pc' = [pc EXCEPT ![r] = "kv.get"]
      /\ code' = [code EXCEPT ![r] = format] /\ asked' = [asked EXCEPT ![r] = clock]
      /\ UNCHANGED <<clock, release, format, past, kv, key, krate, slowest>>
  BY DEF Arrive, Goto, world
<1>2. clock \in 0..clock
  BY Numbers DEF IInv
<1>3. TypeOK'
  BY <1>1, <1>2 DEF IInv, TypeOK
<1>4. Sound(r)'
  <2>1. krate[r] = NoCrate /\ past[clock].format <= format
    BY <1>1 DEF IInv, Sound, PastSound
  <2>2. past[clock].format \in Nat /\ format \in Nat
    BY <1>2, Numbers DEF IInv
  <2>3. /\ pc'[r] = "kv.get" /\ code'[r] = format /\ asked'[r] = clock
        /\ krate'[r] = NoCrate /\ past'[clock].format = past[clock].format
    BY <1>1, <2>1 DEF IInv, TypeOK
  <2> QED BY <2>1, <2>2, <2>3 DEF Sound
<1> QED BY <1>1, <1>3, <1>4, OneRequest DEF world

\* What a key's string finds is that key's own.
LEMMA GetHitIInv == ASSUME IInv, NEW r \in Requests, GetHit(r) PROVE IInv'
<1>1. PICK e \in kv : /\ e.at = KeyString(key[r])
                      /\ krate' = [krate EXCEPT ![r] = e.crate]
  BY DEF GetHit
<1>2. /\ pc[r] = "kv.get" /\ pc' = [pc EXCEPT ![r] = "render"]
      /\ UNCHANGED <<clock, release, format, past, kv, key, code, asked, slowest>>
  BY DEF GetHit, Goto, world
<1>3. /\ e.crate \in Crates /\ e.crate.of \in Keys /\ key[r] \in Keys
      /\ e.expires \in Nat /\ e.expires > clock /\ e.expires <= clock + Ttl
      /\ asked[r] \in 0..clock /\ clock \in Nat /\ Ttl \in Nat /\ slowest \in Nat
  BY Numbers DEF IInv, TypeOK
<1>4. /\ e.at = KeyString(e.crate.of) /\ Documentable(e.crate.of)
      /\ Recent(e.crate, e.expires - Ttl - slowest)
  BY DEF IInv, StoreSound
<1>5. Documentable(key[r]) => e.crate.of = key[r]
  BY <1>1, <1>3, <1>4, KeyStringInjective
<1>6. Recent(e.crate, asked[r] - Ttl - slowest)
  <2> DEFINE s == asked[r] - Ttl - slowest
             t == e.expires - Ttl - slowest
  <2>1. s \in Int /\ t \in Int /\ s <= t /\ t <= clock
    BY <1>3
  <2>2. Recent(e.crate, t)
    BY <1>4
  <2> HIDE DEF s, t
  <2>3. Recent(e.crate, s)
    BY <1>3, <2>1, <2>2, OlderIsEasier DEF IInv
  <2> QED BY <2>3 DEF s
<1>7. TypeOK'
  BY <1>1, <1>2, <1>3 DEF IInv, TypeOK
<1>8. Sound(r)'
  <2>1. pc'[r] = "render" /\ krate'[r] = e.crate
    BY <1>1, <1>2 DEF IInv, TypeOK
  <2>2. code[r] >= past[asked[r]].format
    BY <1>2 DEF IInv, Sound
  <2> QED BY <1>2, <1>5, <1>6, <2>1, <2>2 DEF Sound, Recent
<1> QED BY <1>1, <1>2, <1>7, <1>8, OneRequest DEF world

\* The steps after which a request holds what it held before.
LEMMA MovesOnIInv ==
    ASSUME IInv, NEW r \in Requests,
           GetMiss(r) \/ Fetch404(r) \/ FetchFails(r) \/ PutFails(r) \/ Render(r) \/ Abandon(r)
    PROVE  IInv'
<1>1. /\ pc[r] # "idle" /\ pc'[r] \notin {"idle", "kv.put"}
      /\ pc' \in [Requests -> {"idle", "kv.get", "get", "head", "kv.put",
                               "render", "answered", "failed", "gone"}]
      /\ \A g \in Requests \ {r} : pc'[g] = pc[g]
      /\ UNCHANGED <<clock, release, format, past, kv, key, code, krate, asked, slowest>>
  BY DEF IInv, TypeOK, GetMiss, Fetch404, FetchFails, PutFails, Render, Abandon, Goto, world
<1>2. TypeOK'
  BY <1>1 DEF IInv, TypeOK
<1>3. Sound(r)'
  BY <1>1 DEF IInv, Sound, Recent
<1> QED BY <1>1, <1>2, <1>3, OneRequest DEF world

LEMMA FetchOkIInv == ASSUME IInv, NEW r \in Requests, FetchOk(r) PROVE IInv'
<1> DEFINE c == [of |-> key[r], release |-> release[key[r]], format |-> code[r]]
<1>1. /\ pc[r] = "get" /\ pc' = [pc EXCEPT ![r] = "kv.put"]
      /\ release[key[r]] > 0
      /\ krate' = [krate EXCEPT ![r] = c]
      /\ UNCHANGED <<clock, release, format, past, kv, key, code, asked, slowest>>
  BY DEF FetchOk, Goto, world
<1>2. key[r] \in Keys /\ release[key[r]] \in 1..MaxRelease /\ code[r] \in 1..MaxFormat
  BY <1>1, BoundsAssumption DEF IInv, TypeOK
<1>3. /\ c \in Crates /\ c.of = key[r] /\ c.release = release[c.of] /\ c.format = code[r]
  BY <1>2 DEF Crates
<1> HIDE DEF c
<1>4. Documentable(key[r]) /\ code[r] >= past[asked[r]].format
  BY <1>1, <1>2 DEF IInv, StoreSound, Sound
<1>5. /\ asked[r] \in 0..clock /\ asked[r] \in Int /\ asked[r] <= clock
      /\ asked[r] - Ttl - slowest \in Int /\ asked[r] - Ttl - slowest <= asked[r]
  BY Numbers DEF IInv
<1>6. Recent(c, asked[r])
  BY <1>3, <1>4, <1>5, CurrentIsRecent DEF IInv
<1>7. Recent(c, asked[r] - Ttl - slowest)
  BY <1>3, <1>5, <1>6, OlderIsEasier DEF IInv
<1>8. TypeOK'
  BY <1>1, <1>3 DEF IInv, TypeOK
<1>9. Sound(r)'
  <2>1. pc'[r] = "kv.put" /\ krate'[r] = c
    BY <1>1 DEF IInv, TypeOK
  <2> QED BY <1>1, <1>3, <1>4, <1>6, <1>7, <2>1 DEF Sound, Recent
<1> QED BY <1>1, <1>8, <1>9, OneRequest DEF world

LEMMA PutOkIInv == ASSUME IInv, NEW r \in Requests, PutOk(r) PROVE IInv'
<1> DEFINE e == [at |-> KeyString(key[r]), crate |-> krate[r], expires |-> clock + Ttl]
<1>1. /\ pc[r] = "kv.put" /\ pc' = [pc EXCEPT ![r] = "render"]
      /\ kv' = kv \cup {e}
      /\ slowest' = IF clock - asked[r] > slowest THEN clock - asked[r] ELSE slowest
      /\ UNCHANGED <<clock, release, format, past, key, code, krate, asked>>
  BY DEF PutOk, Goto, world, Stored
<1>2. /\ krate[r] \in Crates /\ krate[r].of = key[r] /\ Documentable(key[r])
      /\ Recent(krate[r], asked[r]) /\ key[r] \in Keys
  BY <1>1 DEF IInv, TypeOK, Sound
<1>3. /\ e.at = KeyString(key[r]) /\ e.crate = krate[r] /\ e.expires = clock + Ttl
      /\ e.expires \in clock + 1..clock + Ttl
  BY Numbers DEF IInv
<1>4. e.at \in {KeyString(k) : k \in Keys}
  BY <1>2, <1>3
<1> HIDE DEF e
<1>5. /\ clock \in Nat /\ asked[r] \in 0..clock /\ slowest \in 0..clock /\ Ttl \in Nat
  BY Numbers DEF IInv
<1>6. slowest' \in 0..clock /\ slowest <= slowest' /\ clock - slowest' <= asked[r]
  BY <1>1, <1>5
<1>7. TypeOK'
  <2>1. \A f \in kv' : /\ f.at \in {KeyString(k) : k \in Keys} /\ f.crate \in Crates
                       /\ f.expires \in clock + 1..clock + Ttl
    BY <1>1, <1>2, <1>3, <1>4 DEF IInv, TypeOK
  <2> QED BY <1>1, <1>6, <2>1 DEF IInv, TypeOK
<1>8. ASSUME NEW c \in Crates, NEW t \in Int, t - slowest <= clock, Recent(c, t - slowest)
      PROVE  Recent(c, t - slowest')
  <2>1. \A x, y, z \in Int : y <= z => x - y \in Int /\ x - z \in Int /\ x - z <= x - y
    OBVIOUS
  <2>2. slowest \in Int /\ slowest' \in Int /\ slowest <= slowest'
    BY <1>5, <1>6
  <2>3. t - slowest \in Int /\ t - slowest' \in Int /\ t - slowest' <= t - slowest
    BY <1>8, <2>1, <2>2
  <2> QED BY <1>8, <2>3, OlderIsEasier DEF IInv
<1>9. StoreSound'
  <2>1. Recent(e.crate, e.expires - Ttl - slowest')
    <3> DEFINE s == e.expires - Ttl - slowest'
    <3>1. s \in Int /\ s <= asked[r] /\ asked[r] \in Int /\ asked[r] <= clock
      BY <1>3, <1>5, <1>6
    <3> HIDE DEF s
    <3>2. Recent(krate[r], s)
      BY <1>2, <3>1, OlderIsEasier DEF IInv
    <3> QED BY <1>3, <3>2 DEF s
  <2>2. ASSUME NEW f \in kv PROVE Recent(f.crate, f.expires - Ttl - slowest')
    <3>1. /\ f.crate \in Crates /\ f.expires - Ttl \in Int
          /\ (f.expires - Ttl) - slowest <= clock
      BY <1>5, Numbers DEF IInv
    <3>2. Recent(f.crate, f.expires - Ttl - slowest)
      BY DEF IInv, StoreSound
    <3> QED BY <1>8, <3>1, <3>2
  <2>3. \A f \in kv' : f = e \/ f \in kv
    BY <1>1
  <2>4. \A f \in kv' : f.at = KeyString(f.crate.of) /\ Documentable(f.crate.of)
    BY <1>2, <1>3, <2>3 DEF IInv, StoreSound
  <2>5. \A f \in kv' : Recent(f.crate, f.expires - Ttl - slowest')
    BY <2>1, <2>2, <2>3
  <2>6. \A k \in Keys : release'[k] > 0 => Documentable(k)
    BY <1>1 DEF IInv, StoreSound
  <2> QED BY <1>1, <2>4, <2>5, <2>6 DEF StoreSound, Recent
<1>10. ASSUME NEW g \in Requests PROVE Sound(g)'
  <2>1. Sound(g)
    BY DEF IInv
  <2>2. pc'[g] = (IF g = r THEN "render" ELSE pc[g])
    BY <1>1 DEF IInv, TypeOK
  <2>3. krate[g] # NoCrate => Recent(krate[g], asked[g] - Ttl - slowest')
    <3> SUFFICES ASSUME krate[g] # NoCrate
                 PROVE  Recent(krate[g], asked[g] - Ttl - slowest')
      OBVIOUS
    <3>1. krate[g] \in Crates
      BY DEF IInv, TypeOK
    <3>2. asked[g] \in 0..clock
      BY Numbers DEF IInv
    <3>3. asked[g] - Ttl \in Int /\ (asked[g] - Ttl) - slowest <= clock
      BY <1>5, <3>2
    <3>4. Recent(krate[g], asked[g] - Ttl - slowest)
      BY <2>1 DEF Sound
    <3> QED BY <1>8, <3>1, <3>3, <3>4
  <2> QED BY <1>1, <2>1, <2>2, <2>3 DEF Sound, Recent
<1>11. PastSound'
  BY <1>1 DEF IInv, PastSound
<1> QED BY <1>7, <1>9, <1>10, <1>11 DEF IInv

LEMMA NextIInv == IInv /\ [Next]_vars => IInv'
<1> SUFFICES ASSUME IInv, [Next]_vars PROVE IInv'
  OBVIOUS
<1>1. CASE Deploy \/ Tick
  BY <1>1, DeployIInv, TickIInv
<1>2. ASSUME NEW k \in Keys, Publish(k) PROVE IInv'
  BY <1>2, PublishIInv
<1>3. ASSUME NEW r \in Requests, Arrive(r) \/ GetHit(r) \/ FetchOk(r) \/ PutOk(r)
      PROVE  IInv'
  BY <1>3, ArriveIInv, GetHitIInv, FetchOkIInv, PutOkIInv
<1>4. ASSUME NEW r \in Requests,
             GetMiss(r) \/ Fetch404(r) \/ FetchFails(r) \/ PutFails(r) \/ Render(r) \/ Abandon(r)
      PROVE  IInv'
  BY <1>4, MovesOnIInv
<1>5. CASE UNCHANGED vars
  BY <1>5 DEF vars, IInv, TypeOK, PastSound, StoreSound, Sound, Recent
<1> QED BY <1>1, <1>2, <1>3, <1>4, <1>5 DEF Next

-----------------------------------------------------------------------------
\* The inductive invariant holds throughout.
THEOREM Inductive == Spec => []IInv
BY InitIInv, NextIInv, PTL DEF Spec

\* TypeOK: what the store has is typed and expires within one time to live.
THEOREM AlwaysTyped == Spec => []TypeOK
<1>1. IInv => TypeOK
  BY DEF IInv
<1> QED BY <1>1, Inductive, PTL

\* OwnCrate: the strings of a store that keys can share never answer a key
\* docs.rs can have with the crate of another.
THEOREM AlwaysOwnCrate == Spec => []OwnCrate
<1>1. IInv => OwnCrate
  BY DEF IInv, Sound, OwnCrate
<1> QED BY <1>1, Inductive, PTL

\* NoOlderThanTtl: whatever the store returns, forgets or fails to write, an
\* answer is at most one time to live and one slowest download old.
THEOREM AlwaysNoOlderThanTtl == Spec => []NoOlderThanTtl
<1>1. IInv => NoOlderThanTtl
  BY DEF IInv, Sound, NoOlderThanTtl, Recent, Upto
<1> QED BY <1>1, Inductive, PTL
=============================================================================
