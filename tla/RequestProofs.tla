--------------------------- MODULE RequestProofs ----------------------------
(***************************************************************************)
(* What a request names, for any path, target and text: that the two front *)
(* ends make one spec of a path, that a docs.rs page's address is read     *)
(* back as the crate, the version and the item it is about, that the two   *)
(* Workers ask docs.rs for one URL, that the two builds read a spec alike, *)
(* and that what a spec writes is read as that spec.                       *)
(*                                                                         *)
(* Paths and texts are sequences of any length. What holds of a sequence   *)
(* when it holds of all shorter ones holds of all (ByLength): otherwise    *)
(* some length would be the least at which it fails. The same argument     *)
(* gives the recursive functions of Routes and SpecParse their values      *)
(* (SuffixRecursion).                                                      *)
(*                                                                         *)
(* The walk of walk_module, which finds what a path names, for every       *)
(* crate: any ids, names, shape, order, globs and cycles.  HomeSound says  *)
(* what the path a module is walked under is worth; Handled, what the walk *)
(* owes a child it is past.  GlobScope, Reachable and the paths are least  *)
(* sets and sequences said with quantifiers, so no induction over the      *)
(* crate is needed.                                                        *)
(***************************************************************************)
EXTENDS Routes, SpecParse, PublicIndex, TLAPS, FiniteSetTheorems, SequenceTheorems,
        WellFoundedInduction

-----------------------------------------------------------------------------
(* Sequences                                                               *)

\* What is at which place of a sequence made of its members, of a concatenation,
\* of a part and of what Head and Tail leave.
LEMMA One ==
    ASSUME NEW S, NEW x \in S
    PROVE  <<x>> \in Seq(S) /\ Len(<<x>>) = 1 /\ <<x>>[1] = x
OBVIOUS

LEMMA Three ==
    ASSUME NEW S, NEW x \in S, NEW y \in S, NEW z \in S
    PROVE  /\ <<x, y, z>> \in Seq(S) /\ Len(<<x, y, z>>) = 3
           /\ <<x, y, z>>[1] = x /\ <<x, y, z>>[2] = y /\ <<x, y, z>>[3] = z
OBVIOUS

\* Only the empty sequence has length zero.
LEMMA Length ==
    ASSUME NEW S, NEW s \in Seq(S)
    PROVE  /\ Len(s) \in Nat /\ (Len(s) = 0 <=> s = <<>>)
           /\ Len(s) = 1 => s = <<s[1]>>
           /\ s # <<>> => Len(s) = 1 \/ Len(s) = 2 \/ Len(s) > 2
<1>1. Len(s) \in Nat /\ (Len(s) = 0 <=> s = <<>>)
  BY EmptySeq
<1>2. \A k \in Nat : k # 0 => k = 1 \/ k = 2 \/ k > 2
  OBVIOUS
<1>3. Len(s) = 1 => s = <<s[1]>>
  OBVIOUS
<1> QED BY <1>1, <1>2, <1>3

LEMMA Joint ==
    ASSUME NEW S, NEW s \in Seq(S), NEW t \in Seq(S)
    PROVE  /\ s \o t \in Seq(S) /\ Len(s \o t) = Len(s) + Len(t)
           /\ \A i \in 1..Len(s) : (s \o t)[i] = s[i]
           /\ \A i \in 1..Len(t) : (s \o t)[Len(s) + i] = t[i]
<1>1. Len(s) \in Nat /\ Len(t) \in Nat
  BY Length
<1>2. ASSUME NEW i \in 1..Len(s) PROVE (s \o t)[i] = s[i]
  <2>1. i \in 1..(Len(s) + Len(t)) /\ i <= Len(s)
    BY <1>1
  <2> QED BY <2>1, ConcatProperties
<1>3. ASSUME NEW i \in 1..Len(t) PROVE (s \o t)[Len(s) + i] = t[i]
  <2>1. Len(s) + i \in 1..(Len(s) + Len(t)) /\ ~(Len(s) + i <= Len(s)) /\ Len(s) + i - Len(s) = i
    BY <1>1
  <2> QED BY <2>1, ConcatProperties
<1> QED BY <1>2, <1>3, ConcatProperties

\* What a part of a sequence is.
LEMMA PartOf ==
    ASSUME NEW S, NEW s \in Seq(S), NEW m \in Nat, NEW n \in Nat,
           1 <= m, m <= n + 1, n <= Len(s)
    PROVE  /\ SubSeq(s, m, n) \in Seq(S)
           /\ Len(SubSeq(s, m, n)) = n - m + 1
           /\ \A i \in 1..(n - m + 1) : SubSeq(s, m, n)[i] = s[i + m - 1]
<1>1. \A i \in m..n : s[i] \in S
  BY ElementOfSeq
<1>2. /\ SubSeq(s, m, n) \in Seq(S)
      /\ Len(SubSeq(s, m, n)) = IF m <= n THEN n - m + 1 ELSE 0
      /\ \A i \in 1..(n - m + 1) : SubSeq(s, m, n)[i] = s[m + i - 1]
  BY <1>1, SubSeqProperties
<1>3. \A i \in 1..(n - m + 1) : m + i - 1 = i + m - 1
  OBVIOUS
<1> QED BY <1>2, <1>3

LEMMA HeadAndTail ==
    ASSUME NEW S, NEW s \in Seq(S), s # <<>>
    PROVE  /\ Head(s) \in S /\ Tail(s) \in Seq(S) /\ Len(Tail(s)) < Len(s)
           /\ s = <<Head(s)>> \o Tail(s) /\ Head(s) = s[1]
           /\ Len(Tail(s)) = Len(s) - 1 /\ \A i \in 1..Len(Tail(s)) : Tail(s)[i] = s[i + 1]
OBVIOUS

LEMMA PairIs ==
    ASSUME NEW x \in Seq(Chars), NEW y \in Seq(Chars), Len(x) = 2, Len(y) = 2
    PROVE  x = y <=> x[1] = y[1] /\ x[2] = y[2]
<1>1. ASSUME x[1] = y[1], x[2] = y[2] PROVE x = y
  <2>1. \A i \in 1..2 : x[i] = y[i]
    <3> TAKE i \in 1..2
    <3>1. i = 1 \/ i = 2
      OBVIOUS
    <3> QED BY <1>1, <3>1
  <2> QED BY <2>1, SeqEqual
<1> QED BY <1>1

\* The part from the first place to the last is the sequence.
LEMMA WholeOf == ASSUME NEW S, NEW s \in Seq(S) PROVE SubSeq(s, 1, Len(s) + 1 - 1) = s
<1>1. PICK one \in Nat, k \in Nat : one = 1 /\ k = Len(s)
  BY Length
<1>2. 1 <= one /\ one <= k + 1 /\ k <= Len(s)
  BY <1>1
<1>3. /\ SubSeq(s, one, k) \in Seq(S) /\ Len(SubSeq(s, one, k)) = k - one + 1
      /\ \A i \in 1..(k - one + 1) : SubSeq(s, one, k)[i] = s[i + one - 1]
  BY <1>2, PartOf
<1>4. k - one + 1 = k /\ Len(s) + 1 - 1 = k /\ \A i \in 1..k : i + one - 1 = i
  BY <1>1
<1>5. SubSeq(s, one, k) = s
  BY <1>1, <1>3, <1>4, SeqEqual
<1> QED BY <1>1, <1>4, <1>5

\* One member in front of a sequence: Head and Tail take the two apart.
LEMMA Onto ==
    ASSUME NEW S, NEW x \in S, NEW s \in Seq(S)
    PROVE  /\ <<x>> \o s \in Seq(S) /\ <<x>> \o s # <<>>
           /\ Head(<<x>> \o s) = x /\ Tail(<<x>> \o s) = s
<1>1. <<x>> \o s \in Seq(S) /\ Len(<<x>> \o s) = 1 + Len(s) /\ (<<x>> \o s)[1] = x
      /\ \A i \in 1..Len(s) : (<<x>> \o s)[1 + i] = s[i]
  <2>1. /\ <<x>> \in Seq(S) /\ Len(<<x>>) = 1 /\ <<x>>[1] = x
    BY One
  <2>2. PICK o : o = <<x>> /\ o \in Seq(S) /\ Len(o) = 1 /\ o[1] = x
    BY <2>1
  <2>3. 1 \in 1..Len(o)
    BY <2>2
  <2>4. /\ o \o s \in Seq(S) /\ Len(o \o s) = Len(o) + Len(s)
        /\ \A i \in 1..Len(o) : (o \o s)[i] = o[i]
        /\ \A i \in 1..Len(s) : (o \o s)[Len(o) + i] = s[i]
    BY <2>2, Joint
  <2> QED BY <2>2, <2>3, <2>4
<1>2. PICK w : w = <<x>> \o s
  OBVIOUS
<1>3. Len(s) \in Nat
  BY Length
<1>4. w # <<>>
  <2>1. Len(w) # 0
    BY <1>1, <1>2, <1>3
  <2> QED BY <1>1, <1>2, <2>1, Length
<1>5. /\ Head(w) = w[1] /\ Tail(w) \in Seq(S) /\ Len(Tail(w)) = Len(w) - 1
      /\ \A i \in 1..Len(Tail(w)) : Tail(w)[i] = w[i + 1]
  BY <1>1, <1>2, <1>4, HeadAndTail
<1>6. Len(Tail(w)) = Len(s)
  BY <1>1, <1>2, <1>3, <1>5
<1>7. ASSUME NEW i \in 1..Len(s) PROVE Tail(w)[i] = s[i]
  <2>1. i + 1 = 1 + i
    BY <1>3
  <2> QED BY <1>1, <1>2, <1>5, <1>6, <1>7, <2>1
<1>8. Tail(w) = s
  BY <1>5, <1>6, <1>7, SeqEqual
<1> QED BY <1>1, <1>2, <1>4, <1>5, <1>8

\* Concatenation has no order of its own.
LEMMA Regroup ==
    ASSUME NEW S, NEW x \in Seq(S), NEW y \in Seq(S), NEW z \in Seq(S)
    PROVE  /\ (x \o y) \o z = x \o (y \o z)
           /\ x \o y \in Seq(S) /\ y \o z \in Seq(S) /\ x \o (y \o z) \in Seq(S)
<1>1. x \o y \in Seq(S) /\ y \o z \in Seq(S)
  BY Joint
<1>2. x \o (y \o z) \in Seq(S)
  BY <1>1, Joint
<1> QED BY <1>1, <1>2, ConcatAssociative

\* Every set of naturals that has a member has a least one.
LEMMA LeastNatural ==
    ASSUME NEW T \in SUBSET Nat, T # {}
    PROVE  \E n \in T : \A m \in T : n <= m
<1> DEFINE UpTo(n) == T \cap (0..n)
           F == {UpTo(n) : n \in T}
<1>1. ASSUME NEW n \in T
      PROVE  IsFiniteSet(UpTo(n)) /\ n \in UpTo(n) /\ UpTo(n) \subseteq Nat
  <2>1. n \in Nat /\ IsFiniteSet(0..n)
    BY FS_Interval
  <2>2. IsFiniteSet(UpTo(n))
    BY <2>1, FS_Subset
  <2> QED BY <2>1, <2>2
<1>2. F \subseteq FiniteSubsetsOf(Nat) /\ F # {}
  BY <1>1 DEF FiniteSubsetsOf
<1>3. PICK s \in F : \A t \in F : ~(<<t, s>> \in StrictSubsetOrdering(Nat))
  BY <1>2, FS_StrictSubsetOrderingWellFounded, WFMin
<1>4. PICK n \in T : s = UpTo(n)
  BY <1>3
<1>5. ASSUME NEW m \in T, m < n PROVE FALSE
  <2>1. /\ UpTo(m) \subseteq UpTo(n) /\ n \notin UpTo(m) /\ n \in UpTo(n)
        /\ n \in Nat /\ m \in Nat
    BY <1>5
  <2>2. /\ UpTo(m) \in SUBSET Nat /\ UpTo(n) \in SUBSET Nat
        /\ UpTo(m) # UpTo(n) /\ UpTo(m) \in F
    BY <2>1
  <2>3. <<UpTo(m), UpTo(n)>> \in StrictSubsetOrdering(Nat)
    BY <2>1, <2>2 DEF StrictSubsetOrdering
  <2> QED BY <1>3, <1>4, <2>2, <2>3
<1> QED BY <1>5

\* Min and Max of SpecParse are the least and the greatest of what they are given.
LEMMA LeastOf ==
    ASSUME NEW T \in SUBSET Nat, T # {}
    PROVE  Min(T) \in T /\ \A m \in T : Min(T) <= m
BY LeastNatural DEF Min

LEMMA GreatestOf ==
    ASSUME NEW T \in SUBSET Nat, T # {}, NEW k \in Nat, \A m \in T : m <= k
    PROVE  Max(T) \in T /\ \A m \in T : m <= Max(T)
<1> DEFINE Left == {k - m : m \in T}
<1>1. Left \in SUBSET Nat /\ Left # {}
  <2>1. ASSUME NEW m \in T PROVE k - m \in Nat
    <3>1. m \in Nat /\ m <= k
      OBVIOUS
    <3> QED BY <3>1
  <2> QED BY <2>1
<1>2. PICK l \in Left : \A n \in Left : l <= n
  <2> HIDE DEF Left
  <2> QED BY <1>1, LeastNatural
<1>3. PICK x \in T : l = k - x
  BY <1>2
<1>4. \A m \in T : x >= m
  <2> TAKE m \in T
  <2>1. k - m \in Left /\ m \in Nat /\ x \in Nat
    BY <1>3
  <2>2. k - x <= k - m
    BY <1>2, <1>3, <2>1
  <2> QED BY <2>1, <2>2
<1>5. Max(T) \in T /\ \A m \in T : Max(T) >= m
  <2>1. \E y \in T : \A m \in T : y >= m
    BY <1>4
  <2> QED BY <2>1 DEF Max
<1>6. \A m \in T : m \in Nat
  OBVIOUS
<1> QED BY <1>5, <1>6

\* How a recursive function on sequences is given: what it says where it stops,
\* and else by its value at a shorter sequence.
Recursion(S, A, Stop, shorter, base, step) ==
    /\ Stop \in SUBSET Seq(S)
    /\ shorter \in [Seq(S) -> Seq(S)]
    /\ \A s \in Seq(S) \ Stop : Len(shorter[s]) < Len(s)
    /\ base \in [Seq(S) -> A]
    /\ step \in [Seq(S) \X A -> A]

\* A function that is as Recursion says.
Solves(f, S, A, Stop, shorter, base, step) ==
    /\ f \in [Seq(S) -> A]
    /\ \A s \in Seq(S) :
          f[s] = IF s \in Stop THEN base[s] ELSE step[<<s, f[shorter[s]]>>]

\* A function that asks for its value at a shorter sequence exists: of the
\* functions that are right on sequences shorter than n, for every n, those of
\* a greater n say the same as those of a smaller.
LEMMA SuffixRecursion ==
    ASSUME NEW S, NEW A, NEW Stop, NEW shorter, NEW base, NEW step,
           Recursion(S, A, Stop, shorter, base, step)
    PROVE  \E f : Solves(f, S, A, Stop, shorter, base, step)
<1>0. /\ Stop \in SUBSET Seq(S) /\ shorter \in [Seq(S) -> Seq(S)]
      /\ \A s \in Seq(S) \ Stop : Len(shorter[s]) < Len(s)
      /\ base \in [Seq(S) -> A] /\ step \in [Seq(S) \X A -> A]
  BY DEF Recursion
<1> DEFINE Said(f, s) == IF s \in Stop THEN base[s] ELSE step[<<s, f[shorter[s]]>>]
           Right(f, n) == \A s \in Seq(S) : Len(s) < n => f[s] = Said(f, s)
           Fs == [Seq(S) -> A]
<1>1. ASSUME NEW f \in Fs, NEW s \in Seq(S) PROVE Said(f, s) \in A
  BY <1>0, <1>1
<1>2. \A s \in Seq(S) : Len(s) \in Nat
  OBVIOUS
<1>3. ASSUME NEW n \in Nat PROVE \E f \in Fs : Right(f, n)
  <2> DEFINE T == {m \in Nat : ~\E f \in Fs : Right(f, m)}
  <2>1. SUFFICES ASSUME T # {} PROVE FALSE
    OBVIOUS
  <2>2. PICK m \in T : \A k \in T : m <= k
    BY <2>1, LeastNatural
  <2>3. m # 0
    <3>1. base \in Fs /\ Right(base, 0)
      BY <1>0, <1>2
    <3> QED BY <3>1
  <2>4. m - 1 \in Nat /\ m - 1 \notin T
    <3>1. m \in Nat /\ m - 1 \in Nat /\ ~(m <= m - 1)
      BY <2>2, <2>3
    <3> HIDE DEF T
    <3> QED BY <2>2, <3>1
  <2>5. PICK f \in Fs : Right(f, m - 1)
    BY <2>4
  <2> DEFINE g == [s \in Seq(S) |-> Said(f, s)]
  <2>6. g \in Fs
    BY <1>1
  <2>7. \A s \in Seq(S) : Len(s) < m - 1 => g[s] = f[s]
    BY <2>5
  <2>8. ASSUME NEW s \in Seq(S), Len(s) < m PROVE g[s] = Said(g, s)
    <3>1. CASE s \in Stop
      BY <3>1
    <3>2. CASE s \notin Stop
      <4>1. shorter[s] \in Seq(S) /\ Len(shorter[s]) < m - 1
        BY <1>0, <1>2, <2>4, <2>8, <3>2
      <4>2. g[shorter[s]] = f[shorter[s]]
        BY <4>1, <2>7
      <4> QED BY <4>2
    <3> QED BY <3>1, <3>2
  <2> QED BY <2>2, <2>6, <2>8
<1>4. ASSUME NEW f \in Fs, NEW g \in Fs, NEW n \in Nat, Right(f, n), Right(g, n),
             NEW s \in Seq(S), Len(s) < n
      PROVE  f[s] = g[s]
  <2> DEFINE T == {m \in Nat : \E t \in Seq(S) : Len(t) = m /\ m < n /\ f[t] # g[t]}
  <2>1. SUFFICES ASSUME T # {} PROVE FALSE
    BY <1>2, <1>4
  <2>2. PICK m \in T : \A k \in T : m <= k
    BY <2>1, LeastNatural
  <2>3. PICK t \in Seq(S) : Len(t) = m /\ m < n /\ f[t] # g[t]
    BY <2>2
  <2>4. f[t] = Said(f, t) /\ g[t] = Said(g, t)
    BY <1>4, <2>3
  <2>5. t \notin Stop
    BY <2>3, <2>4
  <2>6. /\ shorter[t] \in Seq(S) /\ Len(shorter[t]) < m /\ Len(shorter[t]) < n
        /\ Len(shorter[t]) \in Nat
    BY <1>0, <1>2, <2>3, <2>5
  <2>7. f[shorter[t]] = g[shorter[t]]
    BY <2>2, <2>6
  <2> QED BY <2>3, <2>4, <2>7
<1> DEFINE Of(n) == CHOOSE f \in Fs : Right(f, n)
           F == [s \in Seq(S) |-> Of(Len(s) + 1)[s]]
<1>5. ASSUME NEW n \in Nat PROVE Of(n) \in Fs /\ Right(Of(n), n)
  BY <1>3
<1> HIDE DEF Of
<1>6. F \in Fs
  BY <1>2, <1>5
<1>7. ASSUME NEW s \in Seq(S) PROVE F[s] = Said(F, s)
  <2>1. Len(s) \in Nat /\ Len(s) + 1 \in Nat /\ Len(s) < Len(s) + 1
    BY <1>2
  <2>2. F[s] = Said(Of(Len(s) + 1), s)
    BY <1>5, <2>1
  <2>3. CASE s \in Stop
    BY <2>2, <2>3
  <2>4. CASE s \notin Stop
    <3> DEFINE t == shorter[s]
    <3>1. t \in Seq(S) /\ Len(t) \in Nat /\ Len(t) + 1 \in Nat /\ Len(t) < Len(s)
      BY <1>0, <1>2, <2>4
    <3>2. Right(Of(Len(s) + 1), Len(t) + 1)
      <4>1. \A u \in Seq(S) : Len(u) < Len(t) + 1 => Len(u) < Len(s) + 1
        BY <1>2, <2>1, <3>1
      <4>2. Right(Of(Len(s) + 1), Len(s) + 1)
        BY <1>5, <2>1
      <4> QED BY <4>1, <4>2
    <3>3. Of(Len(t) + 1)[t] = Of(Len(s) + 1)[t]
      <4>1. /\ Of(Len(t) + 1) \in Fs /\ Right(Of(Len(t) + 1), Len(t) + 1)
            /\ Of(Len(s) + 1) \in Fs
        BY <1>5, <2>1, <3>1
      <4>2. t \in Seq(S) /\ Len(t) + 1 \in Nat /\ Len(t) < Len(t) + 1
        BY <3>1
      <4> HIDE DEF Right, Fs, t
      <4> QED BY <1>4, <3>2, <4>1, <4>2
    <3> QED BY <2>2, <2>4, <3>1, <3>3
  <2> QED BY <2>3, <2>4
<1> QED BY <1>6, <1>7 DEF Solves

\* What holds of a sequence if it holds of all shorter ones, holds of all.
LEMMA ByLength ==
    ASSUME NEW S, NEW P \in SUBSET Seq(S),
           \A s \in Seq(S) : (\A t \in Seq(S) : Len(t) < Len(s) => t \in P) => s \in P
    PROVE  P = Seq(S)
<1> DEFINE T == {n \in Nat : \E s \in Seq(S) : Len(s) = n /\ s \notin P}
<1>1. SUFFICES ASSUME T # {} PROVE FALSE
  <2>1. \A s \in Seq(S) : Len(s) \in Nat
    OBVIOUS
  <2> QED BY <2>1
<1>2. PICK n \in T : \A m \in T : n <= m
  BY <1>1, LeastNatural
<1>3. PICK s \in Seq(S) : Len(s) = n /\ s \notin P
  BY <1>2
<1>4. ASSUME NEW t \in Seq(S), Len(t) < n, t \notin P PROVE FALSE
  <2>1. Len(t) \in T
    BY <1>4
  <2> QED BY <1>2, <1>4, <2>1
<1> QED BY <1>3, <1>4

-----------------------------------------------------------------------------
(* What the routers leave of a path                                        *)

\* NonEmpty is the function its definition says.
LEMMA NonEmptyIs ==
    ASSUME NEW s \in Seq(Segments)
    PROVE  /\ s = <<>> => NonEmpty[s] = <<>>
           /\ s # <<>> /\ Head(s) = Empty => NonEmpty[s] = NonEmpty[Tail(s)]
           /\ s # <<>> /\ Head(s) # Empty => NonEmpty[s] = <<Head(s)>> \o NonEmpty[Tail(s)]
<1> DEFINE A == Seq(Segments)
           shorter == [q \in A |-> IF q = <<>> THEN <<>> ELSE Tail(q)]
           base == [q \in A |-> <<>>]
           step == [p \in A \X A |-> IF p[1] = <<>> THEN <<>>
                                     ELSE IF Head(p[1]) = Empty THEN p[2]
                                     ELSE <<Head(p[1])>> \o p[2]]
<1>1. <<>> \in A /\ \A q \in A : q # <<>> =>
          Tail(q) \in A /\ Head(q) \in Segments /\ Len(Tail(q)) < Len(q)
  OBVIOUS
<1>2. shorter \in [A -> A] /\ base \in [A -> A]
  BY <1>1
<1>3. step \in [A \X A -> A]
  <2>1. ASSUME NEW p \in A \X A PROVE step[p] \in A
    <3>1. p[1] \in A /\ p[2] \in A
      OBVIOUS
    <3>2. CASE p[1] = <<>> \/ Head(p[1]) = Empty
      BY <3>1, <3>2
    <3>3. CASE ~(p[1] = <<>> \/ Head(p[1]) = Empty)
      <4>1. <<Head(p[1])>> \o p[2] \in A
        BY <1>1, <3>1, <3>3
      <4> QED BY <3>3, <4>1
    <3> QED BY <3>2, <3>3
  <2> QED BY <2>1
<1>4. Recursion(Segments, A, {<<>>}, shorter, base, step)
  BY <1>1, <1>2, <1>3 DEF Recursion
<1>5. PICK f : Solves(f, Segments, A, {<<>>}, shorter, base, step)
  <2> HIDE DEF A, shorter, base, step
  <2> QED BY <1>4, SuffixRecursion
<1>6. ASSUME NEW q \in A
      PROVE  f[q] = IF q = <<>> THEN <<>>
                    ELSE IF Head(q) = Empty THEN f[Tail(q)]
                    ELSE <<Head(q)>> \o f[Tail(q)]
  <2>1. CASE q = <<>>
    BY <1>5, <2>1 DEF Solves
  <2>2. CASE q # <<>>
    <3>1. shorter[q] = Tail(q) /\ Tail(q) \in A /\ f[Tail(q)] \in A
      BY <1>1, <1>5, <2>2 DEF Solves
    <3>2. f[q] = step[<<q, f[Tail(q)]>>]
      <4>1. f[q] = step[<<q, f[shorter[q]]>>]
        BY <1>5, <2>2 DEF Solves
      <4> QED BY <3>1, <4>1
    <3> QED BY <2>2, <3>1, <3>2
  <2> QED BY <2>1, <2>2
<1>7. f = [q \in Seq(Segments) |->
              IF q = <<>> THEN <<>>
              ELSE IF Head(q) = Empty THEN f[Tail(q)]
              ELSE <<Head(q)>> \o f[Tail(q)]]
  BY <1>5, <1>6 DEF Solves
<1>8. NonEmpty = [q \in Seq(Segments) |->
              IF q = <<>> THEN <<>>
              ELSE IF Head(q) = Empty THEN NonEmpty[Tail(q)]
              ELSE <<Head(q)>> \o NonEmpty[Tail(q)]]
  BY <1>7 DEF NonEmpty
<1> QED BY <1>8

\* What is left has no empty segment, and a path without one is left as it is.
LEMMA NonEmptyFilters ==
    ASSUME NEW s \in Seq(Segments)
    PROVE  /\ NonEmpty[s] \in Seq(Segments)
           /\ \A i \in 1..Len(NonEmpty[s]) : NonEmpty[s][i] # Empty
           /\ (\A i \in 1..Len(s) : s[i] # Empty) => NonEmpty[s] = s
<1> DEFINE Good(q) ==
        /\ NonEmpty[q] \in Seq(Segments)
        /\ \A i \in 1..Len(NonEmpty[q]) : NonEmpty[q][i] # Empty
        /\ (\A i \in 1..Len(q) : q[i] # Empty) => NonEmpty[q] = q
           P == {q \in Seq(Segments) : Good(q)}
<1>1. ASSUME NEW q \in Seq(Segments), \A t \in Seq(Segments) : Len(t) < Len(q) => t \in P
      PROVE  q \in P
  <2>1. CASE q = <<>>
    <3>1. NonEmpty[q] = <<>>
      BY <2>1, NonEmptyIs
    <3>2. q \in Seq(Segments) /\ <<>> \in Seq(Segments) /\ Len(<<>>) = 0
      OBVIOUS
    <3>3. Good(q)
      BY <2>1, <3>1, <3>2
    <3> QED BY <3>2, <3>3
  <2>2. CASE q # <<>>
    <3>1. /\ Head(q) \in Segments /\ Tail(q) \in Seq(Segments) /\ Len(Tail(q)) < Len(q)
          /\ q = <<Head(q)>> \o Tail(q) /\ Head(q) = q[1] /\ Len(q) \in Nat
          /\ Len(Tail(q)) = Len(q) - 1
          /\ \A i \in 1..Len(Tail(q)) : Tail(q)[i] = q[i + 1]
      BY <2>2, HeadAndTail
    <3>2. Good(Tail(q))
      BY <1>1, <3>1
    <3>3. CASE Head(q) = Empty
      <4>1. NonEmpty[q] = NonEmpty[Tail(q)]
        BY <2>2, <3>3, NonEmptyIs
      <4>2. 1 \in 1..Len(q)
        BY <2>2
      <4> QED BY <3>1, <3>2, <3>3, <4>1, <4>2
    <3>4. CASE Head(q) # Empty
      <4> DEFINE r == NonEmpty[Tail(q)]
      <4>1. NonEmpty[q] = <<Head(q)>> \o r
        BY <2>2, <3>4, NonEmptyIs
      <4>2. r \in Seq(Segments) /\ \A i \in 1..Len(r) : r[i] # Empty
        BY <3>2
      <4>3. (\A i \in 1..Len(q) : q[i] # Empty) => r = Tail(q)
        <5>1. ASSUME \A i \in 1..Len(q) : q[i] # Empty,
                     NEW i \in 1..Len(Tail(q))
              PROVE  Tail(q)[i] # Empty
          BY <3>1, <5>1
        <5> QED BY <3>2, <5>1
      <4> HIDE DEF r
      <4>4. /\ <<Head(q)>> \o r \in Seq(Segments) /\ Len(<<Head(q)>> \o r) = Len(r) + 1
            /\ (<<Head(q)>> \o r)[1] = Head(q)
            /\ \A i \in 2..(Len(r) + 1) : (<<Head(q)>> \o r)[i] = r[i - 1]
        BY <3>1, <4>2
      <4>5. \A i \in 1..Len(NonEmpty[q]) : NonEmpty[q][i] # Empty
        BY <3>4, <4>1, <4>2, <4>4
      <4> QED BY <3>1, <4>1, <4>3, <4>4, <4>5
    <3> QED BY <3>3, <3>4
  <2> QED BY <2>1, <2>2
<1>2. P = Seq(Segments)
  <2> HIDE DEF Good
  <2> QED BY <1>1, ByLength
<1> QED BY <1>2

\* What is left of a path whose crate and version are not empty.
LEMMA NonEmptyOfPath ==
    ASSUME NEW s \in Seq(Segments), Len(s) >= 2, s[1] # Empty, s[2] # Empty
    PROVE  /\ Drop(s, 2) \in Seq(Segments)
           /\ NonEmpty[s] = <<s[1], s[2]>> \o NonEmpty[Drop(s, 2)]
<1>1. /\ s # <<>> /\ Head(s) = s[1] /\ Tail(s) \in Seq(Segments)
      /\ Len(Tail(s)) = Len(s) - 1 /\ s[1] \in Segments /\ s[2] \in Segments
      /\ \A i \in 1..Len(Tail(s)) : Tail(s)[i] = s[i + 1]
  <2>1. s # <<>> /\ 1 \in 1..Len(s) /\ 2 \in 1..Len(s)
    OBVIOUS
  <2> QED BY <2>1, HeadAndTail, ElementOfSeq
<1>2. /\ Tail(s) # <<>> /\ Head(Tail(s)) = s[2] /\ Tail(Tail(s)) = Drop(s, 2)
      /\ Drop(s, 2) \in Seq(Segments)
  <2>1. Tail(s) # <<>> /\ Head(Tail(s)) = s[2]
    BY <1>1
  <2>2. /\ Len(Tail(Tail(s))) = Len(s) - 2 /\ Tail(Tail(s)) \in Seq(Segments)
        /\ \A i \in 1..(Len(s) - 2) : Tail(Tail(s))[i] = s[i + 2]
    BY <1>1, <2>1, HeadAndTail
  <2>3. /\ Len(SubSeq(s, 3, Len(s))) = Len(s) - 2 /\ SubSeq(s, 3, Len(s)) \in Seq(Segments)
        /\ \A i \in 1..(Len(s) - 2) : SubSeq(s, 3, Len(s))[i] = s[i + 2]
    <3>1. PICK m \in Nat : m = 3
      OBVIOUS
    <3>2. Len(s) \in Nat /\ 1 <= m /\ m <= Len(s) + 1
      BY <3>1
    <3>3. /\ SubSeq(s, m, Len(s)) \in Seq(Segments)
          /\ Len(SubSeq(s, m, Len(s))) = Len(s) - m + 1
          /\ \A i \in 1..(Len(s) - m + 1) : SubSeq(s, m, Len(s))[i] = s[i + m - 1]
      BY <3>2, PartOf
    <3> QED BY <3>1, <3>2, <3>3
  <2>4. Tail(Tail(s)) = SubSeq(s, 3, Len(s))
    BY <2>2, <2>3, SeqEqual
  <2> QED BY <2>1, <2>3, <2>4 DEF Drop
<1>3. NonEmpty[s] = <<s[1]>> \o NonEmpty[Tail(s)]
  BY <1>1, NonEmptyIs
<1>4. NonEmpty[Tail(s)] = <<s[2]>> \o NonEmpty[Drop(s, 2)]
  BY <1>1, <1>2, NonEmptyIs
<1>5. NonEmpty[Drop(s, 2)] \in Seq(Segments)
  BY <1>2, NonEmptyFilters
<1> QED BY <1>1, <1>2, <1>3, <1>4, <1>5

\* ... and of one that says no more than a crate.
LEMMA NonEmptyOfCrate ==
    ASSUME NEW s \in Seq(Segments), s[1] # Empty,
           Len(s) = 1 \/ (Len(s) = 2 /\ s[2] = Empty)
    PROVE  NonEmpty[s] = <<s[1]>>
<1>1. s # <<>> /\ Head(s) = s[1] /\ Tail(s) \in Seq(Segments) /\ s[1] \in Segments
      /\ Len(Tail(s)) = Len(s) - 1 /\ \A i \in 1..Len(Tail(s)) : Tail(s)[i] = s[i + 1]
  <2>1. s # <<>> /\ 1 \in 1..Len(s)
    OBVIOUS
  <2> QED BY <2>1, HeadAndTail, ElementOfSeq
<1>2. NonEmpty[s] = <<s[1]>> \o NonEmpty[Tail(s)]
  BY <1>1, NonEmptyIs
<1>3. NonEmpty[Tail(s)] = <<>>
  <2>1. CASE Len(s) = 1
    <3>1. Len(Tail(s)) = 0
      BY <1>1, <2>1
    <3>2. Tail(s) = <<>>
      BY <1>1, <3>1, EmptySeq
    <3> QED BY <1>1, <3>2, NonEmptyIs
  <2>2. CASE Len(s) = 2 /\ s[2] = Empty
    <3>1. Len(Tail(s)) = 1 /\ Tail(s)[1] = Empty
      <4> DEFINE t == Tail(s)
      <4>1. Len(t) = 1
        BY <1>1, <2>2
      <4>2. \A i \in 1..Len(t) : t[i] = s[i + 1]
        BY <1>1
      <4> HIDE DEF t
      <4>3. t[1] = s[1 + 1]
        BY <4>1, <4>2
      <4> QED BY <2>2, <4>1, <4>3 DEF t
    <3>2. Tail(s) # <<>> /\ Head(Tail(s)) = Empty
      <4>1. Tail(s) # <<>>
        BY <1>1, <3>1, EmptySeq
      <4> QED BY <1>1, <3>1, <4>1, HeadAndTail
    <3>3. Tail(Tail(s)) \in Seq(Segments) /\ Len(Tail(Tail(s))) = 0
      BY <1>1, <3>1, <3>2, HeadAndTail
    <3>4. Tail(Tail(s)) = <<>>
      BY <3>3, EmptySeq
    <3>5. NonEmpty[Tail(s)] = NonEmpty[Tail(Tail(s))]
      BY <1>1, <3>2, NonEmptyIs
    <3> QED BY <3>3, <3>4, <3>5, NonEmptyIs
  <2> QED BY <2>1, <2>2
<1> QED BY <1>1, <1>2, <1>3

\* Of no path, and of a lone slash, nothing is left; and no item's path is.
LEMMA NonEmptyOfNone == <<>> \in Seq(Segments) /\ NonEmpty[<<>>] = <<>>
<1>1. <<>> \in Seq(Segments)
  OBVIOUS
<1> QED BY <1>1, NonEmptyIs

LEMMA NonEmptyOfEmpty == ASSUME <<Empty>> \in Seq(Segments) PROVE NonEmpty[<<Empty>>] = <<>>
<1>1. Head(<<Empty>>) = Empty /\ Tail(<<Empty>>) = <<>> /\ <<Empty>> # <<>>
  OBVIOUS
<1>2. NonEmpty[<<Empty>>] = NonEmpty[Tail(<<Empty>>)]
  BY <1>1, NonEmptyIs
<1> QED BY <1>1, <1>2, NonEmptyOfNone

LEMMA EmptyRest ==
    /\ ParseRest(<<>>) = <<>> /\ ParseRestSegments(<<>>) = <<>>
    /\ \A c : ItemPath(c, <<>>) = <<>> /\ Drop(<<c>>, 2) = <<>>
<1>1. <<>> \in Seq(Segments) /\ NonEmpty[<<>>] = <<>>
  BY NonEmptyOfNone
<1>2. ASSUME NEW c PROVE Drop(<<c>>, 2) = <<>>
  BY SubSeqEmpty DEF Drop
<1> QED BY <1>1, <1>2 DEF ParseRest, ParseRestSegments, LastStripped, ItemPath

\* What the Worker's path says where it says a crate, and where a version too.
LEMMA PathOfCrate ==
    ASSUME NEW q, NEW c, NonEmpty[q.segs] = <<c>>
    PROVE  PathResponse(q) = Rendered(ItemSpec(c, Latest, q.target, <<>>))
<1>1. Len(<<c>>) = 1 /\ <<c>>[1] = c
  OBVIOUS
<1> QED BY <1>1, EmptyRest DEF PathResponse

LEMMA PathOfVersion ==
    ASSUME NEW q, NEW c \in Segments, NEW v \in Segments, NEW t \in Seq(Segments),
           NonEmpty[q.segs] = <<c, v>> \o NonEmpty[t]
    PROVE  PathResponse(q) = Rendered(ItemSpec(c, v, q.target, ItemPath(c, ParseRest(t))))
<1> DEFINE segs == <<c, v>> \o NonEmpty[t]
<1>1. NonEmpty[t] \in Seq(Segments) /\ <<c, v>> \in Seq(Segments) /\ Len(<<c, v>>) = 2
  BY NonEmptyFilters
<1>2. /\ segs \in Seq(Segments) /\ Len(segs) = 2 + Len(NonEmpty[t])
      /\ segs[1] = c /\ segs[2] = v
      /\ \A i \in 1..Len(NonEmpty[t]) : segs[i + 2] = NonEmpty[t][i]
  BY <1>1, ConcatProperties
<1>3. Drop(segs, 2) = NonEmpty[t]
  <2>1. PICK m \in Nat : m = 3
    OBVIOUS
  <2> HIDE DEF segs
  <2>2. Len(segs) \in Nat /\ 1 <= m /\ m <= Len(segs) + 1 /\ Len(NonEmpty[t]) \in Nat
    BY <1>1, <1>2, <2>1
  <2>3. /\ SubSeq(segs, m, Len(segs)) \in Seq(Segments)
        /\ Len(SubSeq(segs, m, Len(segs))) = Len(segs) - m + 1
        /\ \A i \in 1..(Len(segs) - m + 1) : SubSeq(segs, m, Len(segs))[i] = segs[i + m - 1]
    BY <1>2, <2>2, PartOf
  <2>4. SubSeq(segs, m, Len(segs)) = NonEmpty[t]
    BY <1>1, <1>2, <2>1, <2>2, <2>3, SeqEqual
  <2> QED BY <2>1, <2>4 DEF Drop
<1>4. ParseRestSegments(NonEmpty[t]) = ParseRest(t)
  BY DEF ParseRest, ParseRestSegments, ServerKinds, WorkerKinds
<1> HIDE DEF segs
<1>5. NonEmpty[q.segs] = segs /\ segs # <<>>
  BY <1>2 DEF segs
<1>6. Len(segs) >= 2
  BY <1>1, <1>2
<1>7. PathResponse(q) = Rendered(ItemSpec(segs[1], segs[2], q.target,
                                          ItemPath(segs[1],
                                                   ParseRestSegments(Drop(segs, 2)))))
  BY <1>5, <1>6 DEF PathResponse
<1> QED BY <1>2, <1>3, <1>4, <1>7

\* One path is one spec to both, whatever its length.
LEMMA RoutersAgree ==
    ASSUME NEW q, Fits(q.segs), q.spec = NoQuery, q.target = NoQuery,
           q.segs # <<Kv>>
    PROVE  ServerResponse(q) = WorkerResponse(q)
<1> DEFINE s == q.segs
<1>1. s \in Seq(Segments) /\ s # <<>> /\ Len(s) \in Nat /\ Len(s) # 0
  BY DEF Fits
<1>2. CASE s = <<Empty>>
  <2>2. NonEmpty[s] = <<>>
    BY <1>1, <1>2, NonEmptyOfEmpty
  <2> QED BY <1>2, <2>2 DEF ServerResponse, WorkerResponse
<1>3. CASE s = <<Healthz>>
  <2>1. Healthz # Empty /\ Len(s) = 1 /\ s[1] = Healthz
    <3>1. Healthz # Empty
      BY DEF Healthz, Empty
    <3> QED BY <1>3, <3>1
  <2>2. NonEmpty[s] = <<s[1]>>
    BY <1>1, <2>1, NonEmptyOfCrate
  <2>3. NonEmpty[s] # <<>>
    BY <2>2
  <2> QED BY <1>3, <2>1, <2>3 DEF ServerResponse, WorkerResponse
<1>4. CASE /\ s # <<Empty>> /\ s # <<Healthz>>
           /\ Len(s) = 1 \/ (Len(s) = 2 /\ s[2] = Empty)
  <2>1. NonEmpty[s] = <<s[1]>>
    BY <1>1, <1>4, NonEmptyOfCrate DEF Fits
  <2>2. NonEmpty[s] # <<>>
    BY <2>1
  <2>3. WorkerResponse(q) = PathResponse(q)
    BY <1>4, <2>2 DEF WorkerResponse
  <2>4. ServerResponse(q) = Rendered(ItemSpec(s[1], Latest, NoQuery, <<>>))
    BY <1>4 DEF ServerResponse
  <2> QED BY <2>1, <2>3, <2>4, PathOfCrate
<1>5. CASE Len(s) >= 2 /\ s[2] # Empty
  <2>1. s[1] # Empty /\ s[1] \in Segments /\ s[2] \in Segments
    <3>1. 1 \in 1..Len(s) /\ 2 \in 1..Len(s) /\ s # <<Empty>>
      BY <1>1, <1>5
    <3> QED BY <1>1, <3>1, ElementOfSeq DEF Fits
  <2>2. /\ Drop(s, 2) \in Seq(Segments)
        /\ NonEmpty[s] = <<s[1], s[2]>> \o NonEmpty[Drop(s, 2)]
    BY <1>1, <1>5, <2>1, NonEmptyOfPath
  <2>3. NonEmpty[s] # <<>>
    BY <2>1, <2>2, NonEmptyFilters
  <2>4. s # <<Healthz>> /\ s # <<Empty>> /\ ~(Len(s) = 1)
    BY <1>1, <1>5
  <2>5. WorkerResponse(q) = PathResponse(q)
    BY <2>3, <2>4 DEF WorkerResponse
  <2>6. PathResponse(q) = Rendered(ItemSpec(s[1], s[2], NoQuery,
                                            ItemPath(s[1], ParseRest(Drop(s, 2)))))
    BY <2>1, <2>2, PathOfVersion
  <2>7. Drop(s, 2) \in {<<>>, <<Empty>>} => ParseRest(Drop(s, 2)) = <<>>
    <3>1. <<Empty>> = Drop(s, 2) => NonEmpty[<<Empty>>] = <<>>
      BY <2>2, NonEmptyOfEmpty
    <3>2. Drop(s, 2) = <<Empty>> => ParseRest(Drop(s, 2)) = <<>>
      BY <3>1 DEF ParseRest, LastStripped
    <3> QED BY <3>2, EmptyRest
  <2>8. ServerResponse(q) = Rendered(ItemSpec(s[1], s[2], NoQuery,
                                              ItemPath(s[1], ParseRest(Drop(s, 2)))))
    BY <1>5, <2>4, <2>7, EmptyRest DEF ServerResponse
  <2>9. q.target = NoQuery
    OBVIOUS
  <2> QED BY <2>5, <2>6, <2>8, <2>9
<1>6. /\ Len(s) > 2 => s[2] # Empty
      /\ Len(s) = 1 \/ Len(s) = 2 \/ Len(s) > 2
  <2>1. Len(s) > 2 => s[2] # Empty
    BY DEF Fits
  <2> HIDE DEF s
  <2>2. Len(s) = 1 \/ Len(s) = 2 \/ Len(s) > 2
    BY <1>1, Length
  <2> QED BY <2>1, <2>2
<1> HIDE DEF s
<1>7. \/ s = <<Empty>>
      \/ s = <<Healthz>>
      \/ /\ s # <<Empty>> /\ s # <<Healthz>>
         /\ Len(s) = 1 \/ (Len(s) = 2 /\ s[2] = Empty)
      \/ Len(s) >= 2 /\ s[2] # Empty
  BY <1>1, <1>6
<1> QED BY <1>2, <1>3, <1>4, <1>5, <1>7

-----------------------------------------------------------------------------
(* What has been answered is what the routers answer to this request       *)

\* Each answer is what its front end's router makes of the request there is.
RoutesInv ==
    /\ request \in Requests
    /\ server # NoQuery => server = ServerResponse(request)
    /\ worker # NoQuery => worker = WorkerResponse(request)
    /\ zigWorker # NoQuery => zigWorker = ZigResponse(request)

\* RoutesInv is inductive: the request never changes, and each answers once.
LEMMA Routing == RoutesSpec => []RoutesInv
<1>1. RoutesInit => RoutesInv
  BY DEF RoutesInit, RoutesInv
<1>2. RoutesInv /\ [RoutesNext]_routesVars => RoutesInv'
  <2> SUFFICES ASSUME RoutesInv, [RoutesNext]_routesVars PROVE RoutesInv'
    OBVIOUS
  <2>1. CASE Serve
    BY <2>1 DEF Serve, RoutesInv
  <2>2. CASE Work
    BY <2>2 DEF Work, RoutesInv
  <2>3. CASE ResolveUrl
    BY <2>3 DEF ResolveUrl, RoutesInv
  <2>4. CASE UNCHANGED routesVars
    BY <2>4 DEF routesVars, RoutesInv
  <2> QED BY <2>1, <2>2, <2>3, <2>4 DEF RoutesNext
<1> QED BY <1>1, <1>2, PTL DEF RoutesSpec

\* FrontEndsAgree: axum's routes (server.rs) and the Worker's split of the path
\* (lib.rs) give a path without a query one spec and one status, however many
\* segments it has and wherever its slashes are.
THEOREM OneRouter == RoutesSpec => []FrontEndsAgree
<1>1. RoutesInv => FrontEndsAgree
  <2>1. RoutesInv => Fits(request.segs)
    BY RoutesAssumption DEF RoutesInv
  <2>2. SUFFICES ASSUME RoutesInv, server # NoQuery, worker # NoQuery,
                        request.spec = NoQuery, request.target = NoQuery,
                        request.segs # <<Kv>>
                 PROVE  ServerResponse(request) = WorkerResponse(request)
    BY DEF FrontEndsAgree, RoutesInv
  <2> QED BY <2>1, <2>2, RoutersAgree
<1> QED BY <1>1, Routing, PTL

-----------------------------------------------------------------------------
(* A docs.rs page, read back                                               *)

\* Facts of numbers, stated where no record is in sight.
LEMMA Longer ==
    ASSUME NEW S, NEW s \in Seq(S), Len(s) > 2
    PROVE  Len(s) >= 2 /\ Len(s) # 1 /\ (Len(s) > 3 => Len(s) # 2)
<1>1. PICK k \in Nat : k = Len(s)
  BY Length
<1>2. k > 2
  BY <1>1
<1>3. k >= 2 /\ k # 1 /\ (k > 3 => k # 2)
  BY <1>2
<1> QED BY <1>1, <1>3

LEMMA FirstTwo ==
    ASSUME NEW S, NEW s \in Seq(S), Len(s) >= 2
    PROVE  s[1] \in S /\ s[2] \in S
<1>1. 1 \in 1..Len(s) /\ 2 \in 1..Len(s)
  BY Length
<1> QED BY <1>1, ElementOfSeq

LEMMA Single ==
    ASSUME NEW S, NEW s \in Seq(S), s # <<>>, ~(Len(s) > 1)
    PROVE  Len(s) = 1 /\ s = <<s[1]>>
<1>1. Len(s) \in Nat /\ (Len(s) = 1 \/ Len(s) = 2 \/ Len(s) > 2)
  BY Length
<1>2. Len(s) = 1
  BY <1>1
<1> QED BY <1>2, Length

LEMMA PairFirst ==
    ASSUME NEW S, NEW x \in S, NEW y \in S, NEW t \in Seq(S)
    PROVE  <<x, y>> \o t # <<>>
<1>1. <<x, y>> \in Seq(S) /\ Len(<<x, y>>) = 2
  OBVIOUS
<1>2. Len(<<x, y>> \o t) = 2 + Len(t) /\ Len(t) \in Nat
  BY <1>1, Joint, Length
<1>3. Len(<<x, y>> \o t) # Len(<<>>)
  BY <1>2
<1> QED BY <1>3

\* Of a kind, a name and ".html", strip_kind_prefix leaves the name.
LEMMA NameLeft ==
    ASSUME NEW name \in Segments, NEW kind, NEW kinds, kind \in kinds
    PROVE  LET seg == (<<kind>> \o name) \o <<Html>>
           IN  seg # Empty /\ StripKindPrefix(seg, kinds) = name
<1> DEFINE S == (Chars \ (Spaces \cup {"/"})) \cup {kind, Html}
           bare == <<kind>> \o name
           seg == bare \o <<Html>>
           n == Len(bare)
<1>1. name \in Seq(S) /\ kind \in S /\ Html \in S
  BY DEF Segments
<1> HIDE DEF S
<1>2. /\ bare \in Seq(S) /\ bare # <<>> /\ Head(bare) = kind /\ Tail(bare) = name
  BY <1>1, Onto
<1> HIDE DEF bare
<1>3. bare[1] = kind
  BY <1>2, HeadAndTail
<1>4. PICK e : e = <<Html>> /\ e \in Seq(S) /\ Len(e) = 1 /\ e[1] = Html
  BY <1>1, One
<1>5. /\ seg \in Seq(S) /\ Len(seg) = n + 1 /\ n \in Nat /\ n >= 1
      /\ \A i \in 1..n : seg[i] = bare[i]
      /\ seg[n + 1] = Html
  <2>1. n \in Nat /\ n # 0
    BY <1>2, Length
  <2>2. /\ bare \o e \in Seq(S) /\ Len(bare \o e) = n + Len(e)
        /\ \A i \in 1..n : (bare \o e)[i] = bare[i]
        /\ \A i \in 1..Len(e) : (bare \o e)[n + i] = e[i]
    BY <1>2, <1>4, Joint
  <2>3. (bare \o e)[n + 1] = Html
    BY <1>4, <2>2
  <2> QED BY <1>4, <2>1, <2>2, <2>3
<1> HIDE DEF seg
<1>6. seg # <<>> /\ seg[Len(seg)] = Html
  <2>1. Len(seg) # 0
    BY <1>5
  <2> QED BY <1>5, <2>1, Length
<1>7. SubSeq(seg, 1, Len(seg) - 1) = bare
  <2>1. PICK one \in Nat : one = 1
    OBVIOUS
  <2>2. 1 <= one /\ one <= n + 1 /\ n <= Len(seg) /\ Len(seg) - 1 = n
    BY <1>5, <2>1
  <2>3. /\ SubSeq(seg, one, n) \in Seq(S) /\ Len(SubSeq(seg, one, n)) = n - one + 1
        /\ \A i \in 1..(n - one + 1) : SubSeq(seg, one, n)[i] = seg[i + one - 1]
    BY <1>5, <2>2, PartOf
  <2>4. n - one + 1 = n /\ \A i \in 1..n : i + one - 1 = i
    BY <1>5, <2>1
  <2>5. SubSeq(seg, one, n) = bare
    BY <1>2, <1>5, <2>3, <2>4, SeqEqual
  <2> QED BY <2>1, <2>2, <2>5
<1>8. StripKindPrefix(seg, kinds) = Tail(bare)
  BY <1>2, <1>3, <1>6, <1>7 DEF StripKindPrefix, Empty
<1> QED BY <1>2, <1>6, <1>8 DEF seg, bare, Empty

\* What stands where in the address of a page.
Shaped(s, c, v, path, kind) ==
    /\ Len(s) = Len(path) + 3
    /\ s[1] = c /\ s[2] = v /\ s[3] = c
    /\ \A i \in 1..(Len(path) - 1) : s[i + 3] = path[i]
    /\ s[Len(path) + 3] = (<<kind>> \o path[Len(path)]) \o <<Html>>

\* What a page's URL is made of, place by place.
LEMMA PageIs ==
    ASSUME NEW c \in Segments, NEW v \in Segments, NEW path \in Seq(Segments), path # <<>>,
           NEW kind \in PageKinds, NEW s \in Seq(Segments), s = Page(c, v, path, kind)
    PROVE  Shaped(s, c, v, path, kind)
<1> DEFINE n == Len(path)
           mods == SubSeq(path, 1, n - 1)
           last == (<<kind>> \o path[n]) \o <<Html>>
           S == Segments \cup {last}
<1>1. n \in Nat /\ n >= 1
  BY EmptySeq
<1>2. c \in S /\ v \in S /\ path \in Seq(S) /\ last \in S
  OBVIOUS
<1> HIDE DEF last, S
<1>4. /\ mods \in Seq(S) /\ Len(mods) = n - 1
      /\ \A i \in 1..(n - 1) : mods[i] = path[i]
  <2>1. PICK one \in Nat : one = 1
    OBVIOUS
  <2>2. PICK k \in Nat : k = n - 1
    BY <1>1
  <2>3. one <= k + 1 /\ k <= Len(path) /\ 1 <= one
    BY <1>1, <2>1, <2>2
  <2>4. /\ SubSeq(path, one, k) \in Seq(S)
        /\ Len(SubSeq(path, one, k)) = k - one + 1
        /\ \A i \in 1..(k - one + 1) : SubSeq(path, one, k)[i] = path[i + one - 1]
    BY <1>2, <2>3, PartOf
  <2> QED BY <1>1, <2>1, <2>2, <2>4
<1> HIDE DEF n, mods
<1>5. /\ <<c, v, c>> \in Seq(S) /\ Len(<<c, v, c>>) = 3
      /\ <<c, v, c>>[1] = c /\ <<c, v, c>>[2] = v /\ <<c, v, c>>[3] = c
  BY <1>2, Three
<1>6. PICK h : h = <<c, v, c>> /\ h \in Seq(S) /\ Len(h) = 3
               /\ h[1] = c /\ h[2] = v /\ h[3] = c
  BY <1>5
<1>7. PICK e : e = <<last>> /\ e \in Seq(S) /\ Len(e) = 1 /\ e[1] = last
  BY <1>2, One
<1>8. s = (h \o mods) \o e
  BY <1>6, <1>7 DEF Page, n, mods, last
<1>9. /\ h \o mods \in Seq(S) /\ Len(h \o mods) = n + 2
      /\ \A i \in 1..3 : (h \o mods)[i] = h[i]
      /\ \A i \in 1..(n - 1) : (h \o mods)[i + 3] = mods[i]
  BY <1>1, <1>4, <1>6, ConcatProperties
<1>10. PICK f : f = h \o mods
  OBVIOUS
<1>11. /\ f \o e \in Seq(S) /\ Len(f \o e) = n + 3
       /\ \A i \in 1..(n + 2) : (f \o e)[i] = f[i]
       /\ (f \o e)[n + 3] = last
  <2>1. f \in Seq(S) /\ Len(f) = n + 2
    BY <1>9, <1>10
  <2>2. /\ f \o e \in Seq(S) /\ Len(f \o e) = Len(f) + Len(e)
        /\ \A i \in 1..Len(f) : (f \o e)[i] = f[i]
        /\ \A i \in 1..Len(e) : (f \o e)[Len(f) + i] = e[i]
    BY <1>7, <2>1, Joint
  <2>3. 1 \in 1..Len(e) /\ n + 2 + 1 = n + 3
    BY <1>1, <1>7
  <2>4. (f \o e)[n + 3] = last
    BY <1>7, <2>1, <2>2, <2>3
  <2> QED BY <1>7, <2>1, <2>2, <2>3, <2>4
<1>12. \A i \in 1..3 : s[i] = h[i]
  <2> TAKE i \in 1..3
  <2>1. i \in 1..(n + 2)
    BY <1>1
  <2> QED BY <1>8, <1>9, <1>10, <1>11, <2>1
<1>13. \A i \in 1..(n - 1) : s[i + 3] = path[i]
  <2> TAKE i \in 1..(n - 1)
  <2>1. i + 3 \in 1..(n + 2)
    BY <1>1
  <2> QED BY <1>4, <1>8, <1>9, <1>10, <1>11, <2>1
<1>14. s[1] = c /\ s[2] = v /\ s[3] = c
  BY <1>6, <1>12
<1>17. Len(s) = n + 3 /\ s[n + 3] = last
  BY <1>8, <1>10, <1>11
<1> QED BY <1>13, <1>14, <1>17 DEF n, last, Shaped

\* ... in particular its first segment.
LEMMA PageFirst ==
    \A c, v \in Segments : \A path \in Seq(Segments) \ {<<>>} : \A kind \in PageKinds :
        Page(c, v, path, kind) \in Seq(Segments) => Page(c, v, path, kind)[1] = c
<1> SUFFICES ASSUME NEW c \in Segments, NEW v \in Segments, NEW path \in Seq(Segments),
                    path # <<>>, NEW kind \in PageKinds,
                    NEW s \in Seq(Segments), s = Page(c, v, path, kind)
             PROVE  s[1] = c
  OBVIOUS
<1>1. Shaped(s, c, v, path, kind)
  BY PageIs
<1> QED BY <1>1 DEF Shaped

\* What follows crate and version in it is the item's path: the crate's name in
\* front is left out once.
LEMMA PageRead ==
    ASSUME NEW c \in Segments, NEW v \in Segments, NEW path \in Seq(Segments), path # <<>>,
           \A i \in DOMAIN path : path[i] # Empty, c # Empty,
           NEW kind \in PageKinds,
           NEW s \in Seq(Segments), s = Page(c, v, path, kind)
    PROVE  /\ s[1] = c /\ Len(s) > 3
           /\ ItemPath(c, ParseRest(Drop(s, 2))) = path
<1>0. /\ Len(s) = Len(path) + 3 /\ s[1] = c /\ s[2] = v /\ s[3] = c
      /\ \A i \in 1..(Len(path) - 1) : s[i + 3] = path[i]
      /\ s[Len(path) + 3] = (<<kind>> \o path[Len(path)]) \o <<Html>>
  <2>1. Shaped(s, c, v, path, kind)
    BY PageIs
  <2> QED BY <2>1 DEF Shaped
<1> DEFINE n == Len(path)
           r == Drop(s, 2)
           page == s[n + 3]
<1>1. n \in Nat /\ n >= 1 /\ DOMAIN path = 1..n
  <2>1. n \in Nat /\ n # 0
    BY Length
  <2> QED BY <2>1
<1>2. /\ Len(s) = n + 3 /\ s[1] = c /\ s[3] = c
      /\ \A i \in 1..(n - 1) : s[i + 3] = path[i]
      /\ page # Empty /\ StripKindPrefix(page, ServerKinds) = path[n]
  <2>1. /\ Len(s) = n + 3 /\ s[1] = c /\ s[3] = c
        /\ \A i \in 1..(n - 1) : s[i + 3] = path[i]
        /\ page = (<<kind>> \o path[n]) \o <<Html>>
    BY <1>0
  <2>2. path[n] \in Segments
    BY <1>1, ElementOfSeq
  <2>3. page # Empty /\ StripKindPrefix(page, ServerKinds) = path[n]
    <3>1. PICK name \in Segments : name = path[n]
      BY <2>2
    <3>2. page = (<<kind>> \o name) \o <<Html>>
      BY <2>1, <3>1
    <3>3. kind \in ServerKinds
      BY DEF PageKinds, ServerKinds
    <3> QED BY <3>1, <3>2, <3>3, NameLeft
  <2> QED BY <2>1, <2>3
<1> HIDE DEF page
<1>3. r \in Seq(Segments) /\ Len(r) = n + 1 /\ \A i \in 1..(n + 1) : r[i] = s[i + 2]
  <2>1. PICK m \in Nat : m = 3
    OBVIOUS
  <2>2. PICK k \in Nat : k = Len(s)
    BY <1>1, <1>2
  <2>3. 1 <= m /\ m <= k + 1 /\ k <= Len(s)
    BY <1>1, <1>2, <2>1, <2>2
  <2>4. /\ SubSeq(s, m, k) \in Seq(Segments)
        /\ Len(SubSeq(s, m, k)) = k - m + 1
        /\ \A i \in 1..(k - m + 1) : SubSeq(s, m, k)[i] = s[i + m - 1]
    BY <1>2, <2>3, PartOf
  <2>5. r = SubSeq(s, m, k)
    BY <2>1, <2>2 DEF Drop
  <2> HIDE DEF r, n
  <2> QED BY <1>1, <1>2, <2>1, <2>2, <2>4, <2>5
<1> HIDE DEF r, n
<1>4. r[1] = c /\ r[n + 1] = page /\ \A i \in 1..(n - 1) : r[i + 1] = path[i]
  <2>1. r[1] = s[3] /\ r[n + 1] = s[n + 3]
    BY <1>1, <1>3
  <2>2. ASSUME NEW i \in 1..(n - 1) PROVE r[i + 1] = path[i]
    <3>1. i + 1 \in 1..(n + 1)
      BY <1>1
    <3>2. r[i + 1] = s[i + 1 + 2] /\ i + 1 + 2 = i + 3
      BY <1>3, <3>1
    <3> QED BY <1>2, <3>2
  <2> QED BY <1>2, <2>1, <2>2 DEF page
<1>5. NonEmpty[r] = r
  <2>2. ASSUME NEW i \in 1..Len(r) PROVE r[i] # Empty
    <3>1. CASE i = 1
      BY <1>4, <3>1
    <3>2. CASE i = n + 1
      BY <1>2, <1>4, <3>2
    <3>3. CASE i \in 2..n
      <4>1. i - 1 \in 1..(n - 1) /\ i - 1 \in 1..n /\ i - 1 + 1 = i
        BY <1>1, <3>3
      <4>2. r[i] = path[i - 1]
        BY <1>4, <4>1
      <4> QED BY <1>1, <4>1, <4>2
    <3> QED BY <1>1, <1>3, <3>1, <3>2, <3>3
  <2> QED BY <1>3, <2>2, NonEmptyFilters
<1>7. ParseRest(r) = [r EXCEPT ![n + 1] = path[n]]
  <2>1. r # <<>>
    BY <1>1, <1>3, EmptySeq
  <2>2. ParseRest(r) = [r EXCEPT ![n + 1] = StripKindPrefix(r[n + 1], ServerKinds)]
    BY <1>3, <1>5, <2>1 DEF ParseRest, LastStripped
  <2> QED BY <1>2, <1>4, <2>2
<1> DEFINE p == [r EXCEPT ![n + 1] = path[n]]
<1>8. path[n] \in Segments /\ \A i \in 1..n : path[i] \in Segments
  BY <1>1, ElementOfSeq
<1>9. /\ p \in Seq(Segments) /\ Len(p) = n + 1
      /\ \A i \in 1..n : p[i] = r[i]
      /\ p[n + 1] = path[n]
  BY <1>1, <1>3, <1>8, ExceptSeq
<1> HIDE DEF p
<1>10. /\ p # <<>> /\ Head(p) = p[1] /\ Tail(p) \in Seq(Segments)
       /\ Len(Tail(p)) = n /\ \A i \in 1..n : Tail(p)[i] = p[i + 1]
  <2>1. p # <<>>
    BY <1>1, <1>9, EmptySeq
  <2>2. /\ Head(p) = p[1] /\ Tail(p) \in Seq(Segments)
        /\ Len(Tail(p)) = Len(p) - 1 /\ \A i \in 1..Len(Tail(p)) : Tail(p)[i] = p[i + 1]
    BY <1>9, <2>1, HeadAndTail
  <2>3. Len(p) - 1 = n
    BY <1>1, <1>9
  <2> QED BY <2>1, <2>2, <2>3
<1>11. Head(p) = c
  <2>1. 1 \in 1..n
    BY <1>1
  <2> QED BY <1>4, <1>9, <1>10, <2>1
<1>12. ASSUME NEW i \in 1..n PROVE Tail(p)[i] = path[i]
  <2>1. CASE i = n
    BY <1>9, <1>10, <2>1
  <2>2. CASE i # n
    <3>1. i \in 1..(n - 1) /\ i + 1 \in 1..n
      BY <1>1, <2>2
    <3>2. Tail(p)[i] = r[i + 1]
      BY <1>9, <1>10, <3>1
    <3> QED BY <1>4, <3>1, <3>2
  <2> QED BY <2>1, <2>2
<1>13. Tail(p) = path
  <2>1. Len(path) = n
    BY DEF n
  <2> QED BY <1>10, <1>12, <2>1, SeqEqual
<1>14. ParseRest(r) = p
  BY <1>7 DEF p
<1>15. ItemPath(c, ParseRest(r)) = path
  BY <1>10, <1>11, <1>13, <1>14 DEF ItemPath
<1>16. Len(s) > 3
  BY <1>1, <1>2
<1> QED BY <1>2, <1>15, <1>16 DEF r

\* A target that is missing, or has a length.
Targeted(q) == q.target # <<>>

\* A front end's answer to the page of an item.
Finds(answer, c, v, path) ==
    /\ answer.status = 200
    /\ answer.spec.crate = c /\ answer.spec.version = v /\ answer.spec.path = path

\* Both routers find the item of a page's path.
LEMMA PageAnswered ==
    ASSUME NEW q, NEW s, s = q.segs, Fits(s), q.spec = NoQuery, Targeted(q),
           NEW c \in DOMAIN Documented, NEW path \in Documented[c], path # <<>>,
           IsPage(s, c, path)
    PROVE  Finds(ServerResponse(q), c, s[2], path) /\ Finds(WorkerResponse(q), c, s[2], path)
<1>a. Len(s) > 2 /\ \E kind \in PageKinds : s = Page(c, s[2], path, kind)
  BY DEF IsPage
<1>b. PICK kind \in PageKinds : s = Page(c, s[2], path, kind)
  BY <1>a
<1>1. s \in Seq(Segments) /\ s # <<>>
  BY DEF Fits
<1>2. path \in Seq(Segments) /\ \A i \in DOMAIN path : path[i] # Empty
  <2>1. path \in Seq(Segments \ {Empty})
    BY RoutesAssumption
  <2> QED BY <2>1, ElementOfSeq
<1>3. s # <<Empty>> /\ s # <<Healthz>> /\ s # <<Kv>> /\ Len(s) >= 2
  <2>1. \A x : Len(<<x>>) = 1
    OBVIOUS
  <2> QED BY <1>1, <1>a, <2>1, Longer
<1>4. s[1] # Empty /\ s[2] # Empty
  BY <1>3, <1>a DEF Fits
<1>5. s[1] \in Segments /\ s[2] \in Segments
  BY <1>1, <1>3, FirstTwo
<1>6. s[1] = c /\ c \in Segments
  <2>1. c \in Segments
    BY RoutesAssumption
  <2>2. \A v \in Segments : \A p \in Seq(Segments) \ {<<>>} :
            Page(c, v, p, kind) \in Seq(Segments) => Page(c, v, p, kind)[1] = c
    BY <2>1, PageFirst
  <2>3. path \in Seq(Segments) \ {<<>>}
    BY <1>2
  <2>4. Page(c, s[2], path, kind) \in Seq(Segments) => Page(c, s[2], path, kind)[1] = c
    BY <1>5, <2>2, <2>3
  <2> QED BY <1>1, <1>b, <2>1, <2>4
<1>7. Len(s) > 3 /\ ItemPath(c, ParseRest(Drop(s, 2))) = path
  BY <1>1, <1>2, <1>4, <1>5, <1>6, <1>b, PageRead
<1>9. /\ Drop(s, 2) \in Seq(Segments)
      /\ NonEmpty[s] = <<s[1], s[2]>> \o NonEmpty[Drop(s, 2)]
  BY <1>1, <1>3, <1>4, NonEmptyOfPath
<1>10. Drop(s, 2) # <<>> /\ Drop(s, 2) # <<Empty>>
  <2>1. ASSUME Drop(s, 2) = <<>> \/ Drop(s, 2) = <<Empty>> PROVE FALSE
    <3>1. ParseRest(Drop(s, 2)) = <<>>
      <4>1. NonEmpty[Drop(s, 2)] = <<>>
        BY <1>9, <2>1, NonEmptyOfNone, NonEmptyOfEmpty
      <4> QED BY <4>1 DEF ParseRest, LastStripped
    <3>2. path = <<>>
      BY <1>7, <3>1, EmptyRest
    <3> QED BY <3>2
  <2> QED BY <2>1
<1>11. ASSUME NEW t, t \in {NoQuery, q.target}
       PROVE  Finds(Rendered(ItemSpec(c, s[2], t, path)), c, s[2], path)
  <2>1. t # <<>>
    <3>1. <<>> \in Seq(Chars)
      OBVIOUS
    <3> QED BY <1>11, <3>1, RoutesAssumption DEF Targeted
  <2> DEFINE i == ItemSpec(c, s[2], t, path)
  <2>2. i.crate = c /\ i.version = s[2] /\ i.target = t /\ i.path = path
    BY DEF ItemSpec
  <2>3. Rendered(i) = [status |-> 200, spec |-> i]
    <3> HIDE DEF i
    <3> QED BY <2>1, <2>2 DEF Rendered
  <2> HIDE DEF i
  <2>4. Rendered(i).status = 200 /\ Rendered(i).spec = i
    BY <2>3
  <2> QED BY <2>2, <2>4 DEF Finds, i
<1>12. ServerResponse(q) = Rendered(ItemSpec(c, s[2], NoQuery, path))
  <2>1. ~(Len(s) = 1 \/ (Len(s) = 2 /\ s[2] = Empty))
    BY <1>3, <1>4, <1>7, Longer
  <2>2. ServerResponse(q) = Rendered(ItemSpec(s[1], s[2], NoQuery,
                                         ItemPath(s[1], ParseRest(Drop(s, 2)))))
    BY <1>3, <1>10, <2>1 DEF ServerResponse
  <2> QED BY <1>6, <1>7, <2>2
<1>13. WorkerResponse(q) = Rendered(ItemSpec(c, s[2], q.target, path))
  <2>1. NonEmpty[s] # <<>>
    <3>1. NonEmpty[Drop(s, 2)] \in Seq(Segments)
      BY <1>9, NonEmptyFilters
    <3> QED BY <1>5, <1>9, <3>1, PairFirst
  <2>2. WorkerResponse(q) = PathResponse(q)
    BY <1>3, <2>1 DEF WorkerResponse
  <2>3. PathResponse(q) = Rendered(ItemSpec(s[1], s[2], q.target,
                                       ItemPath(s[1], ParseRest(Drop(s, 2)))))
    BY <1>5, <1>9, PathOfVersion
  <2> QED BY <1>6, <1>7, <2>2, <2>3
<1>14. Finds(Rendered(ItemSpec(c, s[2], NoQuery, path)), c, s[2], path)
  BY <1>11
<1>15. Finds(Rendered(ItemSpec(c, s[2], q.target, path)), c, s[2], path)
  BY <1>11
<1> QED BY <1>12, <1>13, <1>14, <1>15

\* PagesAreFound: of the address of a documented item's docs.rs page, whatever
\* its depth and its kind, strip_kind_prefix and serve's crate name in front
\* leave the item's path, so that both front ends find that item, of that crate
\* and version.
THEOREM PagesFound == RoutesSpec => []PagesAreFound
<1>1. RoutesInv => PagesAreFound
  <2> SUFFICES ASSUME RoutesInv, request.spec = NoQuery, request.target # <<>>,
                      NEW c \in DOMAIN Documented,
                      NEW path \in Documented[c] \ {<<>>},
                      IsPage(request.segs, c, path),
                      NEW response \in {server, worker} \ {NoQuery}
               PROVE  Finds(response, c, request.segs[2], path)
    BY DEF PagesAreFound, Finds
  <2>1. Fits(request.segs) /\ Targeted(request)
    BY RoutesAssumption DEF RoutesInv, Targeted
  <2>2. response = ServerResponse(request) \/ response = WorkerResponse(request)
    BY DEF RoutesInv
  <2>3. PICK q, s : q = request /\ s = request.segs
    OBVIOUS
  <2>4. Finds(ServerResponse(q), c, s[2], path) /\ Finds(WorkerResponse(q), c, s[2], path)
    BY <2>1, <2>3, PageAnswered
  <2> QED BY <2>2, <2>3, <2>4
<1> QED BY <1>1, Routing, PTL

-----------------------------------------------------------------------------
(* A text and its separators                                               *)

\* A separator: a text, not the empty one.
Separator(sep) == sep \in Seq(Chars) /\ sep # <<>>

\* "::" and "@" are separators.
LEMMA Separators ==
    /\ Separator(Path) /\ Len(Path) = 2
    /\ Separator(At) /\ Len(At) = 1
<1>1. ":" \in Chars /\ "@" \in Chars
  BY DEF Chars, Punctuation
<1>2. <<":", ":">> \in Seq(Chars) /\ Len(<<":", ":">>) = 2 /\ <<":", ":">> # <<>>
  BY <1>1
<1>3. <<"@">> \in Seq(Chars) /\ Len(<<"@">>) = 1 /\ <<"@">> # <<>>
  BY <1>1
<1> QED BY <1>2, <1>3 DEF Path, At, Separator

\* Where a separator is first found.
LEMMA FirstFound ==
    ASSUME NEW text \in Seq(Chars), NEW sep, Separator(sep), Has(text, sep)
    PROVE  LET i == Min(Found(text, sep))
           IN  /\ i \in Nat /\ 1 <= i /\ i + Len(sep) - 1 <= Len(text)
               /\ SubSeq(text, i, i + Len(sep) - 1) = sep
               /\ \A j \in Found(text, sep) : i <= j
<1> DEFINE T == Found(text, sep)
<1>1. Len(text) \in Nat /\ Len(sep) \in Nat
  BY Length DEF Separator
<1>2. T \in SUBSET Nat
  BY <1>1 DEF Found
<1>3. \E i \in T : \A j \in T : i <= j
  <2>1. T # {}
    BY DEF Has
  <2> HIDE DEF T
  <2> QED BY <1>2, <2>1, LeastNatural
<1>4. Min(T) \in T /\ \A j \in T : Min(T) <= j
  <2> HIDE DEF T
  <2> QED BY <1>3 DEF Min
<1>5. \A i \in T : /\ i \in Nat /\ 1 <= i /\ i + Len(sep) - 1 <= Len(text)
                   /\ SubSeq(text, i, i + Len(sep) - 1) = sep
  <2> TAKE i \in T
  <2>1. i \in 1..(Len(text) - Len(sep) + 1) /\ SubSeq(text, i, i + Len(sep) - 1) = sep
    BY DEF Found
  <2> QED BY <1>1, <2>1
<1> HIDE DEF T
<1>6. /\ Min(T) \in Nat /\ 1 <= Min(T) /\ Min(T) + Len(sep) - 1 <= Len(text)
      /\ SubSeq(text, Min(T), Min(T) + Len(sep) - 1) = sep
  BY <1>4, <1>5
<1> QED BY <1>4, <1>6 DEF T

\* A text is put together again from three parts that follow each other.
LEMMA ThreeParts ==
    ASSUME NEW S, NEW s \in Seq(S), NEW m \in Nat, NEW n \in Nat,
           1 <= m, m <= n + 1, n <= Len(s)
    PROVE  s = (SubSeq(s, 1, m - 1) \o SubSeq(s, m, n)) \o SubSeq(s, n + 1, Len(s))
<1>1. PICK one \in Nat, a \in Nat, b \in Nat, k \in Nat :
          one = 1 /\ a = m - 1 /\ b = n + 1 /\ k = Len(s)
  <2>1. 1 \in Nat /\ m - 1 \in Nat /\ n + 1 \in Nat /\ Len(s) \in Nat
    BY Length
  <2> QED BY <2>1
<1> DEFINE x == SubSeq(s, one, a)
           y == SubSeq(s, m, n)
           z == SubSeq(s, b, k)
<1>2. 1 <= one /\ one <= a + 1 /\ a <= k /\ 1 <= b /\ b <= k + 1 /\ k <= Len(s) /\ n <= k
  BY <1>1
<1>3. x \in Seq(S) /\ Len(x) = a /\ \A i \in 1..a : x[i] = s[i]
  <2>1. /\ x \in Seq(S) /\ Len(x) = a - one + 1
        /\ \A i \in 1..(a - one + 1) : x[i] = s[i + one - 1]
    BY <1>1, <1>2, PartOf
  <2> HIDE DEF x
  <2> QED BY <1>1, <2>1
<1>4. y \in Seq(S) /\ Len(y) = n - m + 1 /\ \A i \in 1..(n - m + 1) : y[i] = s[i + m - 1]
  BY PartOf
<1>5. z \in Seq(S) /\ Len(z) = k - n /\ \A i \in 1..(k - n) : z[i] = s[i + n]
  <2>1. /\ z \in Seq(S) /\ Len(z) = k - b + 1
        /\ \A i \in 1..(k - b + 1) : z[i] = s[i + b - 1]
    BY <1>1, <1>2, PartOf
  <2>2. k - b + 1 = k - n /\ \A i \in 1..(k - n) : i + b - 1 = i + n
    BY <1>1
  <2> HIDE DEF z
  <2> QED BY <2>1, <2>2
<1> HIDE DEF x, y, z
<1>6. /\ x \o y \in Seq(S) /\ Len(x \o y) = n
      /\ \A i \in 1..a : (x \o y)[i] = x[i]
      /\ \A i \in 1..(n - m + 1) : (x \o y)[a + i] = y[i]
  <2>1. x \in Seq(S) /\ y \in Seq(S)
    BY <1>3, <1>4
  <2>2. /\ x \o y \in Seq(S) /\ Len(x \o y) = Len(x) + Len(y)
        /\ \A i \in 1..Len(x) : (x \o y)[i] = x[i]
        /\ \A i \in 1..Len(y) : (x \o y)[Len(x) + i] = y[i]
    BY <2>1, Joint
  <2>3. a + (n - m + 1) = n
    BY <1>1
  <2> QED BY <1>3, <1>4, <2>2, <2>3
<1>7. PICK w : w = x \o y
  OBVIOUS
<1>8. ASSUME NEW i \in 1..n PROVE w[i] = s[i]
  <2>1. CASE i \in 1..a
    BY <1>3, <1>6, <1>7, <2>1
  <2>2. CASE i \notin 1..a
    <3>1. i - a \in 1..(n - m + 1) /\ a + (i - a) = i /\ i - a + m - 1 = i
      BY <1>1, <2>2
    <3>2. w[i] = y[i - a]
      BY <1>6, <1>7, <3>1
    <3>3. y[i - a] = s[i]
      BY <1>4, <3>1
    <3> QED BY <3>2, <3>3
  <2> QED BY <2>1, <2>2
<1>9. /\ w \o z \in Seq(S) /\ Len(w \o z) = k
      /\ \A i \in 1..n : (w \o z)[i] = w[i]
      /\ \A i \in 1..(k - n) : (w \o z)[n + i] = z[i]
  <2>1. w \in Seq(S) /\ Len(w) = n
    BY <1>6, <1>7
  <2>2. /\ w \o z \in Seq(S) /\ Len(w \o z) = Len(w) + Len(z)
        /\ \A i \in 1..Len(w) : (w \o z)[i] = w[i]
        /\ \A i \in 1..Len(z) : (w \o z)[Len(w) + i] = z[i]
    <3>1. w \in Seq(S) /\ z \in Seq(S)
      BY <1>5, <2>1
    <3> QED BY <3>1, Joint
  <2>3. n + (k - n) = k
    BY <1>1
  <2> QED BY <1>5, <2>1, <2>2, <2>3
<1>10. ASSUME NEW i \in 1..k PROVE (w \o z)[i] = s[i]
  <2>1. CASE i \in 1..n
    BY <1>8, <1>9, <2>1
  <2>2. CASE i \notin 1..n
    <3>1. i - n \in 1..(k - n) /\ n + (i - n) = i /\ i - n + n = i
      BY <1>1, <2>2
    <3>2. (w \o z)[i] = z[i - n]
      BY <1>9, <3>1
    <3>3. z[i - n] = s[i]
      BY <1>5, <3>1
    <3> QED BY <3>2, <3>3
  <2> QED BY <2>1, <2>2
<1>11. w \o z = s
  BY <1>1, <1>9, <1>10, SeqEqual
<1> QED BY <1>1, <1>7, <1>11 DEF x, y, z

\* What is before the first separator and after it.
LEMMA BeforeAndAfter ==
    ASSUME NEW text \in Seq(Chars), NEW sep, Separator(sep), Has(text, sep)
    PROVE  /\ Before(text, sep) \in Seq(Chars) /\ After(text, sep) \in Seq(Chars)
           /\ Len(After(text, sep)) < Len(text)
           /\ Len(Before(text, sep)) = Min(Found(text, sep)) - 1
           /\ \A i \in 1..Len(Before(text, sep)) : Before(text, sep)[i] = text[i]
           /\ text = (Before(text, sep) \o sep) \o After(text, sep)
<1> DEFINE i == Min(Found(text, sep))
<1>1. /\ i \in Nat /\ 1 <= i /\ i + Len(sep) - 1 <= Len(text)
      /\ SubSeq(text, i, i + Len(sep) - 1) = sep
  BY FirstFound
<1> HIDE DEF i
<1>2. Len(sep) \in Nat /\ Len(sep) >= 1 /\ Len(text) \in Nat
  <2>1. Len(sep) \in Nat /\ Len(sep) # 0 /\ Len(text) \in Nat
    BY Length DEF Separator
  <2> QED BY <2>1
<1>3. PICK one \in Nat, a \in Nat, n \in Nat, b \in Nat, k \in Nat :
          /\ one = 1 /\ a = i - 1 /\ n = i + Len(sep) - 1 /\ b = i + Len(sep) /\ k = Len(text)
  <2>1. /\ 1 \in Nat /\ i - 1 \in Nat /\ i + Len(sep) - 1 \in Nat
        /\ i + Len(sep) \in Nat /\ Len(text) \in Nat
    BY <1>1, <1>2
  <2> QED BY <2>1
<1>4. /\ SubSeq(text, one, a) \in Seq(Chars) /\ Len(SubSeq(text, one, a)) = a
      /\ \A j \in 1..a : SubSeq(text, one, a)[j] = text[j]
  <2>1. 1 <= one /\ one <= a + 1 /\ a <= Len(text)
    BY <1>1, <1>2, <1>3
  <2>2. /\ SubSeq(text, one, a) \in Seq(Chars) /\ Len(SubSeq(text, one, a)) = a - one + 1
        /\ \A j \in 1..(a - one + 1) : SubSeq(text, one, a)[j] = text[j + one - 1]
    BY <2>1, PartOf
  <2>3. a - one + 1 = a /\ \A j \in 1..a : j + one - 1 = j
    BY <1>3
  <2> QED BY <2>2, <2>3
<1>5. SubSeq(text, b, k) \in Seq(Chars) /\ Len(SubSeq(text, b, k)) < Len(text)
  <2>1. 1 <= b /\ b <= k + 1 /\ k <= Len(text)
    BY <1>1, <1>2, <1>3
  <2>2. SubSeq(text, b, k) \in Seq(Chars) /\ Len(SubSeq(text, b, k)) = k - b + 1
    BY <2>1, PartOf
  <2> QED BY <1>1, <1>2, <1>3, <2>2
<1>6. Before(text, sep) = SubSeq(text, one, a) /\ After(text, sep) = SubSeq(text, b, k)
  BY <1>3 DEF Before, After, i
<1>7. text = (SubSeq(text, 1, i - 1) \o SubSeq(text, i, n)) \o SubSeq(text, n + 1, Len(text))
  <2>1. 1 <= i /\ i <= n + 1 /\ n <= Len(text)
    BY <1>1, <1>2, <1>3
  <2> QED BY <1>1, <2>1, ThreeParts
<1>8. n + 1 = b /\ SubSeq(text, i, n) = sep
  BY <1>1, <1>2, <1>3
<1>9. text = (Before(text, sep) \o sep) \o After(text, sep)
  BY <1>3, <1>6, <1>7, <1>8
<1>10. Len(Before(text, sep)) = i - 1
       /\ \A j \in 1..Len(Before(text, sep)) : Before(text, sep)[j] = text[j]
  BY <1>3, <1>4, <1>6
<1> QED BY <1>4, <1>5, <1>6, <1>9, <1>10 DEF i

-----------------------------------------------------------------------------
(* Split, and the path the Zig build reads segment by segment              *)

\* Split is the function its definition says.
LEMMA SplitIs ==
    ASSUME NEW r \in Seq(Chars)
    PROVE  /\ Split[r] \in Seq(Seq(Chars))
           /\ Has(r, Path) => Split[r] = <<Before(r, Path)>> \o Split[After(r, Path)]
           /\ ~Has(r, Path) => Split[r] = <<r>>
<1> DEFINE T == Seq(Chars)
           A == Seq(Seq(Chars))
           Stop == {q \in T : ~Has(q, Path)}
           shorter == [q \in T |-> IF Has(q, Path) THEN After(q, Path) ELSE q]
           base == [q \in T |-> <<q>>]
           step == [p \in T \X A |-> IF Has(p[1], Path) THEN <<Before(p[1], Path)>> \o p[2]
                                     ELSE p[2]]
<1>1. ASSUME NEW q \in T, Has(q, Path)
      PROVE  Before(q, Path) \in T /\ After(q, Path) \in T /\ Len(After(q, Path)) < Len(q)
  BY <1>1, BeforeAndAfter, Separators
<1>2. shorter \in [T -> T] /\ base \in [T -> A]
  <2>1. \A q \in T : <<q>> \in A
    OBVIOUS
  <2>2. \A q \in T : (IF Has(q, Path) THEN After(q, Path) ELSE q) \in T
    BY <1>1
  <2> QED BY <2>1, <2>2
<1>3. step \in [T \X A -> A]
  <2>1. ASSUME NEW q \in T, NEW a \in A, Has(q, Path) PROVE <<Before(q, Path)>> \o a \in A
    <3>1. PICK b \in T : b = Before(q, Path)
      BY <1>1, <2>1
    <3>2. <<b>> \o a \in A
      OBVIOUS
    <3> QED BY <3>1, <3>2
  <2>2. ASSUME NEW p \in T \X A
        PROVE  (IF Has(p[1], Path) THEN <<Before(p[1], Path)>> \o p[2] ELSE p[2]) \in A
    <3>1. p[1] \in T /\ p[2] \in A
      OBVIOUS
    <3> QED BY <2>1, <3>1
  <2> QED BY <2>2
<1>4. Recursion(Chars, A, Stop, shorter, base, step)
  <2>1. \A q \in T \ Stop : Len(shorter[q]) < Len(q)
    <3> TAKE q \in T \ Stop
    <3>1. Has(q, Path) /\ shorter[q] = After(q, Path)
      OBVIOUS
    <3> QED BY <1>1, <3>1
  <2> HIDE DEF shorter, base, step, A
  <2> QED BY <1>2, <1>3, <2>1 DEF Recursion
<1>5. PICK f : Solves(f, Chars, A, Stop, shorter, base, step)
  <2> HIDE DEF A, Stop, shorter, base, step
  <2> QED BY <1>4, SuffixRecursion
<1>6. ASSUME NEW q \in T
      PROVE  /\ f[q] \in A
             /\ f[q] = IF Has(q, Path) THEN <<Before(q, Path)>> \o f[After(q, Path)] ELSE <<q>>
  <2>1. f \in [T -> A]
    BY <1>5 DEF Solves
  <2>2. CASE ~Has(q, Path)
    <3>1. f[q] = base[q]
      BY <1>5, <2>2 DEF Solves
    <3> QED BY <2>1, <2>2, <3>1
  <2>3. CASE Has(q, Path)
    <3>1. shorter[q] = After(q, Path) /\ After(q, Path) \in T
      BY <1>1, <2>3
    <3>2. f[q] = step[<<q, f[After(q, Path)]>>]
      <4>1. f[q] = step[<<q, f[shorter[q]]>>]
        BY <1>5, <2>3 DEF Solves
      <4> QED BY <3>1, <4>1
    <3>3. f[After(q, Path)] \in A
      BY <2>1, <3>1
    <3>4. f[q] = <<Before(q, Path)>> \o f[After(q, Path)]
      <4>1. PICK a \in A : a = f[After(q, Path)]
        BY <3>3
      <4>2. step[<<q, a>>] = <<Before(q, Path)>> \o a
        BY <2>3
      <4> QED BY <3>2, <4>1, <4>2
    <3> QED BY <2>1, <2>3, <3>4
  <2> QED BY <2>2, <2>3
<1>7. f = [q \in Seq(Chars) |->
              IF Has(q, Path) THEN <<Before(q, Path)>> \o f[After(q, Path)] ELSE <<q>>]
  <2>1. f = [q \in Seq(Chars) |-> f[q]]
    <3> HIDE DEF A, Stop, shorter, base, step
    <3> QED BY <1>5 DEF Solves
  <2> QED BY <1>6, <2>1
<1>8. Split = [q \in Seq(Chars) |->
              IF Has(q, Path) THEN <<Before(q, Path)>> \o Split[After(q, Path)] ELSE <<q>>]
  BY <1>7 DEF Split
<1>9. ASSUME NEW q \in T
      PROVE  /\ Has(q, Path) => Split[q] = <<Before(q, Path)>> \o Split[After(q, Path)]
             /\ ~Has(q, Path) => Split[q] = <<q>>
  BY <1>8
<1> DEFINE P == {q \in T : Split[q] \in A}
<1>10. ASSUME NEW q \in T, \A t \in T : Len(t) < Len(q) => t \in P
       PROVE  q \in P
  <2>1. CASE Has(q, Path)
    <3>1. Before(q, Path) \in T /\ Split[After(q, Path)] \in A
      BY <1>1, <1>10, <2>1
    <3>2. PICK b \in T, a \in A : b = Before(q, Path) /\ a = Split[After(q, Path)]
      BY <3>1
    <3>3. <<b>> \o a \in A
      OBVIOUS
    <3>4. Split[q] = <<b>> \o a
      BY <1>9, <2>1, <3>2
    <3> QED BY <3>3, <3>4
  <2>2. CASE ~Has(q, Path)
    <3>1. Split[q] = <<q>>
      BY <1>9, <2>2
    <3>2. <<q>> \in A
      OBVIOUS
    <3> QED BY <3>1, <3>2
  <2> QED BY <2>1, <2>2
<1>11. P = T
  <2> HIDE DEF A
  <2> QED BY <1>10, ByLength
<1>12. Split[r] \in A
  BY <1>11
<1> QED BY <1>9, <1>12

\* A segment that the Zig build takes in front of the path after it.
Fit(seg, more) == ValidIdent(seg) /\ more # None

\* ZigPath is the function its definition says.
LEMMA ZigPathIs ==
    ASSUME NEW r \in Seq(Chars)
    PROVE  /\ Has(r, Path) => ZigPath[r] = IF Fit(Before(r, Path), ZigPath[After(r, Path)])
                                           THEN <<Before(r, Path)>> \o ZigPath[After(r, Path)]
                                           ELSE None
           /\ ~Has(r, Path) => ZigPath[r] = IF ValidIdent(r) THEN <<r>> ELSE None
<1> DEFINE T == Seq(Chars)
           A == Seq(Seq(Chars)) \cup {None}
           Stop == {q \in T : ~Has(q, Path)}
           shorter == [q \in T |-> IF Has(q, Path) THEN After(q, Path) ELSE q]
           base == [q \in T |-> IF ValidIdent(q) THEN <<q>> ELSE None]
           step == [p \in T \X A |-> IF Has(p[1], Path) /\ Fit(Before(p[1], Path), p[2])
                                     THEN <<Before(p[1], Path)>> \o p[2]
                                     ELSE None]
<1>1. ASSUME NEW q \in T, Has(q, Path)
      PROVE  Before(q, Path) \in T /\ After(q, Path) \in T /\ Len(After(q, Path)) < Len(q)
  BY <1>1, BeforeAndAfter, Separators
<1>2. shorter \in [T -> T] /\ base \in [T -> A]
  <2>1. \A q \in T : <<q>> \in A
    OBVIOUS
  <2>2. \A q \in T : (IF Has(q, Path) THEN After(q, Path) ELSE q) \in T
    BY <1>1
  <2> QED BY <2>1, <2>2
<1>3. step \in [T \X A -> A]
  <2>1. ASSUME NEW q \in T, NEW a \in A, Has(q, Path), a # None
        PROVE <<Before(q, Path)>> \o a \in A
    <3>1. PICK b \in T : b = Before(q, Path)
      BY <1>1, <2>1
    <3>2. a \in Seq(Seq(Chars))
      BY <2>1
    <3>3. <<b>> \o a \in Seq(Seq(Chars))
      BY <3>2
    <3> QED BY <3>1, <3>3
  <2>2. ASSUME NEW p \in T \X A
        PROVE  (IF Has(p[1], Path) /\ Fit(Before(p[1], Path), p[2])
                THEN <<Before(p[1], Path)>> \o p[2] ELSE None) \in A
    <3>1. p[1] \in T /\ p[2] \in A
      OBVIOUS
    <3> QED BY <2>1, <3>1 DEF Fit
  <2> QED BY <2>2
<1>4. Recursion(Chars, A, Stop, shorter, base, step)
  <2>1. \A q \in T \ Stop : Len(shorter[q]) < Len(q)
    <3> TAKE q \in T \ Stop
    <3>1. Has(q, Path) /\ shorter[q] = After(q, Path)
      OBVIOUS
    <3> QED BY <1>1, <3>1
  <2> HIDE DEF shorter, base, step, A
  <2> QED BY <1>2, <1>3, <2>1 DEF Recursion
<1>5. PICK f : Solves(f, Chars, A, Stop, shorter, base, step)
  <2> HIDE DEF A, Stop, shorter, base, step
  <2> QED BY <1>4, SuffixRecursion
<1> DEFINE Body(g, q) ==
        LET seg == IF Has(q, Path) THEN Before(q, Path) ELSE q
            more == IF Has(q, Path) THEN g[After(q, Path)] ELSE <<>>
        IN  IF ~ValidIdent(seg) \/ more = None THEN None ELSE <<seg>> \o more
<1>6. <<>> # None
  <2>1. <<>> \in Seq(Seq(Chars))
    OBVIOUS
  <2> QED BY <2>1, TextAssumption
<1>7. ASSUME NEW g, NEW q \in T
      PROVE  Body(g, q) = IF Has(q, Path)
                          THEN IF Fit(Before(q, Path), g[After(q, Path)])
                               THEN <<Before(q, Path)>> \o g[After(q, Path)] ELSE None
                          ELSE IF ValidIdent(q) THEN <<q>> ELSE None
  <2>1. <<q>> \o <<>> = <<q>>
    OBVIOUS
  <2> QED BY <1>6, <2>1 DEF Fit
<1>8. ASSUME NEW q \in T PROVE f[q] = Body(f, q)
  <2>1. f \in [T -> A]
    BY <1>5 DEF Solves
  <2>2. CASE ~Has(q, Path)
    <3>1. f[q] = base[q]
      BY <1>5, <2>2 DEF Solves
    <3> QED BY <1>7, <2>2, <3>1
  <2>3. CASE Has(q, Path)
    <3>1. shorter[q] = After(q, Path) /\ After(q, Path) \in T
      BY <1>1, <2>3
    <3>2. f[q] = step[<<q, f[After(q, Path)]>>]
      <4>1. f[q] = step[<<q, f[shorter[q]]>>]
        BY <1>5, <2>3 DEF Solves
      <4> QED BY <3>1, <4>1
    <3>3. f[After(q, Path)] \in A
      BY <2>1, <3>1
    <3>4. f[q] = IF Fit(Before(q, Path), f[After(q, Path)])
                 THEN <<Before(q, Path)>> \o f[After(q, Path)] ELSE None
      <4>1. PICK a \in A : a = f[After(q, Path)]
        BY <3>3
      <4>2. step[<<q, a>>] = IF Fit(Before(q, Path), a)
                             THEN <<Before(q, Path)>> \o a ELSE None
        <5> HIDE DEF Body, base, shorter, Stop
        <5> QED BY <2>3
      <4> QED BY <3>2, <4>1, <4>2
    <3> HIDE DEF Body
    <3> QED BY <1>7, <2>3, <3>4
  <2> QED BY <2>2, <2>3
<1>9. f = [q \in Seq(Chars) |-> Body(f, q)]
  <2> HIDE DEF Body
  <2>1. f = [q \in Seq(Chars) |-> f[q]]
    <3> HIDE DEF A, Stop, shorter, base, step
    <3> QED BY <1>5 DEF Solves
  <2> QED BY <1>8, <2>1
<1>10. ZigPath = [q \in Seq(Chars) |-> Body(ZigPath, q)]
  BY <1>9 DEF ZigPath
<1>11. ZigPath[r] = Body(ZigPath, r)
  <2> HIDE DEF Body
  <2> QED BY <1>10
<1> HIDE DEF Body
<1> QED BY <1>7, <1>11

\* Segment by segment or all of them at once: the same path, or none.
LEMMA ZigPathSplits ==
    ASSUME NEW r \in Seq(Chars)
    PROVE  ZigPath[r] = IF \A i \in DOMAIN Split[r] : ValidIdent(Split[r][i])
                        THEN Split[r] ELSE None
<1> DEFINE Good(q) == \A i \in DOMAIN Split[q] : ValidIdent(Split[q][i])
           P == {q \in Seq(Chars) : ZigPath[q] = IF Good(q) THEN Split[q] ELSE None}
<1>1. ASSUME NEW q \in Seq(Chars), \A t \in Seq(Chars) : Len(t) < Len(q) => t \in P
      PROVE  q \in P
  <2>1. CASE ~Has(q, Path)
    <3>1. Split[q] = <<q>>
      BY <2>1, SplitIs
    <3>2. DOMAIN <<q>> = {1} /\ <<q>>[1] = q
      OBVIOUS
    <3>3. Good(q) <=> ValidIdent(q)
      BY <3>1, <3>2
    <3> HIDE DEF Good
    <3> QED BY <2>1, <3>1, <3>3, ZigPathIs
  <2>2. CASE Has(q, Path)
    <3> DEFINE b == Before(q, Path)
               t == After(q, Path)
    <3>1. b \in Seq(Chars) /\ t \in Seq(Chars) /\ t \in P
      BY <1>1, <2>2, BeforeAndAfter, Separators
    <3>2. Split[q] = <<b>> \o Split[t] /\ Split[t] \in Seq(Seq(Chars)) /\ Split[t] # None
      BY <2>2, <3>1, SplitIs, TextAssumption
    <3>3. Good(q) <=> ValidIdent(b) /\ Good(t)
      <4>1. PICK s \in Seq(Seq(Chars)) : s = Split[t]
        BY <3>2
      <4> HIDE DEF b, t
      <4>2. /\ DOMAIN (<<b>> \o s) = 1..(Len(s) + 1) /\ (<<b>> \o s)[1] = b
            /\ \A i \in 1..Len(s) : (<<b>> \o s)[i + 1] = s[i]
            /\ DOMAIN s = 1..Len(s) /\ Len(s) \in Nat
        BY <3>1
      <4>3. ASSUME \A i \in 1..(Len(s) + 1) : ValidIdent((<<b>> \o s)[i])
            PROVE  ValidIdent(b) /\ \A i \in 1..Len(s) : ValidIdent(s[i])
        <5>1. 1 \in 1..(Len(s) + 1) /\ \A i \in 1..Len(s) : i + 1 \in 1..(Len(s) + 1)
          BY <4>2
        <5> QED BY <4>2, <4>3, <5>1
      <4>4. ASSUME ValidIdent(b), \A i \in 1..Len(s) : ValidIdent(s[i]),
                   NEW i \in 1..(Len(s) + 1)
            PROVE  ValidIdent((<<b>> \o s)[i])
        <5>1. CASE i = 1
          BY <4>2, <4>4, <5>1
        <5>2. CASE i # 1
          <6>1. i - 1 \in 1..Len(s) /\ i - 1 + 1 = i
            BY <4>2, <5>2
          <6>2. (<<b>> \o s)[i - 1 + 1] = s[i - 1]
            BY <4>2, <6>1
          <6> QED BY <4>4, <6>1, <6>2
        <5> QED BY <5>1, <5>2
      <4> QED BY <3>2, <4>1, <4>2, <4>3, <4>4
    <3>4. ZigPath[t] = IF Good(t) THEN Split[t] ELSE None
      BY <3>1
    <3>5. ZigPath[q] = IF Fit(b, ZigPath[t]) THEN <<b>> \o ZigPath[t] ELSE None
      BY <2>2, ZigPathIs
    <3> HIDE DEF Good, b, t
    <3>6. ZigPath[q] = IF Good(q) THEN Split[q] ELSE None
      BY <3>2, <3>3, <3>4, <3>5 DEF Fit
    <3> QED BY <3>6
  <2> QED BY <2>1, <2>2
<1>2. P = Seq(Chars)
  <2> HIDE DEF Good
  <2> QED BY <1>1, ByLength
<1> QED BY <1>2

-----------------------------------------------------------------------------
(* What the two parsers read in a trimmed text                             *)

\* What is left of a text when space is trimmed is a text.
LEMMA Trimmed ==
    ASSUME NEW text \in Seq(Chars), NEW space
    PROVE  Trim(text, space) \in Seq(Chars)
<1> DEFINE kept == {i \in DOMAIN text : text[i] \notin space}
<1>1. CASE kept = {}
  BY <1>1 DEF Trim
<1>2. CASE kept # {}
  <2>1. Len(text) \in Nat /\ DOMAIN text = 1..Len(text)
    BY Length
  <2>2. kept \in SUBSET Nat /\ \A i \in kept : 1 <= i /\ i <= Len(text)
    BY <2>1
  <2>3. Trim(text, space) = SubSeq(text, Min(kept), Max(kept))
    BY <1>2 DEF Trim
  <2> HIDE DEF kept
  <2>4. Min(kept) \in kept /\ \A j \in kept : Min(kept) <= j
    BY <1>2, <2>2, LeastOf
  <2>5. Max(kept) \in kept
    BY <1>2, <2>1, <2>2, GreatestOf
  <2>6. /\ Min(kept) \in Nat /\ Max(kept) \in Nat
        /\ 1 <= Min(kept) /\ Min(kept) <= Max(kept) + 1 /\ Max(kept) <= Len(text)
    <3>1. PICK a \in Nat, b \in Nat : a = Min(kept) /\ b = Max(kept)
      BY <2>2, <2>4, <2>5
    <3>2. 1 <= a /\ a <= b /\ b <= Len(text)
      BY <2>2, <2>4, <2>5, <3>1
    <3> QED BY <2>1, <3>1, <3>2
  <2> QED BY <2>3, <2>6, PartOf
<1> QED BY <1>1, <1>2

\* What the two parsers cut a trimmed text into: the part before the first
\* "::" and the one after it.
HeadOf(t) == IF Has(t, Path) THEN Before(t, Path) ELSE t

RestOf(t) == IF Has(t, Path) THEN After(t, Path) ELSE <<>>

\* The Zig build cuts it where the Rust build does.
LEMMA ZigCuts ==
    ASSUME NEW t \in Seq(Chars)
    PROVE  LET i == IF Has(t, Path) THEN Min(Found(t, Path)) ELSE Len(t) + 1
           IN  /\ SubSeq(t, i + 2, Len(t)) = RestOf(t)
               /\ SubSeq(t, 1, i - 1) = HeadOf(t)
<1>1. CASE Has(t, Path)
  BY <1>1, Separators DEF HeadOf, RestOf, Before, After
<1>2. CASE ~Has(t, Path)
  <2>1. PICK k \in Nat : k = Len(t)
    BY Length
  <2>2. SubSeq(t, k + 1 + 2, k) = <<>>
    BY <2>1, SubSeqEmpty
  <2>3. SubSeq(t, 1, k + 1 - 1) = t
    BY <2>1, WholeOf
  <2> QED BY <1>2, <2>1, <2>2, <2>3 DEF HeadOf, RestOf
<1> QED BY <1>1, <1>2

\* Both parts are texts.
LEMMA HeadAndRest ==
    ASSUME NEW t \in Seq(Chars)
    PROVE  HeadOf(t) \in Seq(Chars) /\ RestOf(t) \in Seq(Chars)
<1>1. CASE Has(t, Path)
  BY <1>1, BeforeAndAfter, Separators DEF HeadOf, RestOf
<1>2. CASE ~Has(t, Path)
  <2>1. <<>> \in Seq(Chars)
    OBVIOUS
  <2> QED BY <1>2, <2>1 DEF HeadOf, RestOf
<1> QED BY <1>1, <1>2

\* Name and version in the part before "::", and the path in the one after.
NameOf(h) == IF Has(h, At) THEN Before(h, At) ELSE h

VersionOf(h) == IF Has(h, At) THEN After(h, At) ELSE Latest

\* Both look for the first "@".
LEMMA ZigVersionIs ==
    ASSUME NEW h
    PROVE  ZigVersion(h).crate = NameOf(h) /\ ZigVersion(h).version = VersionOf(h)
<1>1. CASE Has(h, At)
  <2>1. Before(h, At) = SubSeq(h, 1, Min(Found(h, At)) - 1)
    BY DEF Before
  <2>2. After(h, At) = SubSeq(h, Min(Found(h, At)) + 1, Len(h))
    BY Separators DEF After
  <2>3. ZigVersion(h) = [crate |-> Before(h, At), version |-> After(h, At)]
    BY <1>1, <2>1, <2>2 DEF ZigVersion
  <2> QED BY <1>1, <2>3 DEF NameOf, VersionOf
<1>2. CASE ~Has(h, At)
  BY <1>2 DEF ZigVersion, NameOf, VersionOf
<1> QED BY <1>1, <1>2

Idents(path) == \A i \in DOMAIN path : ValidIdent(path[i])

PathOf(rest) == IF rest = <<>> THEN <<>> ELSE Split[rest]

\* What a trimmed text is to both.
Reads(t) ==
    LET h == HeadOf(t)
        path == PathOf(RestOf(t))
    IN  IF ValidName(NameOf(h)) /\ VersionOf(h) # <<>> /\ Idents(path)
        THEN Parsed(NameOf(h), VersionOf(h), path) ELSE None

\* No separator is in a text of no length, and its name has none either.
LEMMA NothingReads ==
    /\ <<>> \in Seq(Chars) /\ ~Has(<<>>, Path) /\ ~Has(<<>>, At)
    /\ HeadOf(<<>>) = <<>> /\ NameOf(<<>>) = <<>>
<1>1. <<>> \in Seq(Chars) /\ Len(<<>>) = 0
  OBVIOUS
<1>2. ASSUME NEW sep, Separator(sep) PROVE ~Has(<<>>, sep)
  <2>1. Len(sep) \in Nat /\ Len(sep) # 0
    BY <1>2, Length DEF Separator
  <2>2. 1..(Len(<<>>) - Len(sep) + 1) = {}
    BY <1>1, <2>1
  <2> QED BY <2>2 DEF Has, Found
<1>3. ~Has(<<>>, Path) /\ ~Has(<<>>, At)
  BY <1>2, Separators
<1> QED BY <1>1, <1>3 DEF HeadOf, NameOf

\* ... and both builds read that.
LEMMA RustReads ==
    ASSUME NEW raw
    PROVE  RustParse(raw) = Reads(Trim(raw, Spaces))
<1> DEFINE t == Trim(raw, Spaces)
           h == HeadOf(t)
           path == PathOf(RestOf(t))
<1>1. RustParse(raw) =
         IF \/ t = <<>> \/ NameOf(h) = <<>> \/ VersionOf(h) = <<>>
            \/ ~ValidName(NameOf(h))
            \/ \E i \in DOMAIN path : ~ValidIdent(path[i])
         THEN None ELSE Parsed(NameOf(h), VersionOf(h), path)
  BY DEF RustParse, HeadOf, RestOf, NameOf, VersionOf, PathOf
<1> HIDE DEF t, h, path
<1>2. ~ValidName(<<>>)
  BY DEF ValidName
<1>3. t = <<>> => NameOf(h) = <<>>
  BY NothingReads DEF h
<1>4. (\E i \in DOMAIN path : ~ValidIdent(path[i])) <=> ~Idents(path)
  BY DEF Idents
<1>5. Reads(t) = IF ValidName(NameOf(h)) /\ VersionOf(h) # <<>> /\ Idents(path)
                 THEN Parsed(NameOf(h), VersionOf(h), path) ELSE None
  BY DEF Reads, h, path
<1>6. RustParse(raw) = Reads(t)
  BY <1>1, <1>2, <1>3, <1>4, <1>5
<1> QED BY <1>6 DEF t

LEMMA ZigReads ==
    ASSUME NEW raw, Trim(raw, AsciiSpace) \in Seq(Chars)
    PROVE  ZigParse(raw) = Reads(Trim(raw, AsciiSpace))
<1> DEFINE t == Trim(raw, AsciiSpace)
           i == IF Has(t, Path) THEN Min(Found(t, Path)) ELSE Len(t) + 1
           rest == SubSeq(t, i + 2, Len(t))
           zpath == IF rest = <<>> THEN <<>> ELSE ZigPath[rest]
           v == ZigVersion(SubSeq(t, 1, i - 1))
           h == HeadOf(t)
           path == PathOf(RestOf(t))
<1>1. ZigParse(raw) = IF zpath = None \/ v.version = <<>> \/ ~ValidName(v.crate)
                      THEN None ELSE Parsed(v.crate, v.version, zpath)
  BY DEF ZigParse
<1>2. rest = RestOf(t) /\ SubSeq(t, 1, i - 1) = h
  BY ZigCuts
<1>3. v.crate = NameOf(h) /\ v.version = VersionOf(h)
  <2> HIDE DEF i, t
  <2> QED BY <1>2, ZigVersionIs
<1>4. /\ path \in Seq(Seq(Chars))
      /\ zpath = IF Idents(path) THEN path ELSE None
  <2>1. RestOf(t) \in Seq(Chars)
    BY HeadAndRest
  <2>2. CASE rest = <<>>
    <3>1. path = <<>> /\ zpath = <<>>
      BY <1>2, <2>2 DEF PathOf
    <3>2. Idents(<<>>) /\ <<>> \in Seq(Seq(Chars))
      BY DEF Idents
    <3> QED BY <3>1, <3>2
  <2>3. CASE rest # <<>>
    <3> HIDE DEF rest, t
    <3>1. path = Split[rest] /\ zpath = ZigPath[rest]
      BY <1>2, <2>3 DEF PathOf
    <3> QED BY <1>2, <2>1, <3>1, ZigPathSplits, SplitIs DEF Idents
  <2> QED BY <2>2, <2>3
<1>5. path # None
  BY <1>4, TextAssumption
<1>6. Reads(t) = IF ValidName(NameOf(h)) /\ VersionOf(h) # <<>> /\ Idents(path)
                 THEN Parsed(NameOf(h), VersionOf(h), path) ELSE None
  BY DEF Reads
<1> HIDE DEF t, i, rest, zpath, v, h, path
<1>7. ZigParse(raw) = Reads(t)
  BY <1>1, <1>3, <1>4, <1>5, <1>6
<1> QED BY <1>7 DEF t

-----------------------------------------------------------------------------
(* What has been written is what each build writes for this spec           *)

\* The spec is one of the texts, and a build that has written wrote what it writes.
ParseInv ==
    /\ spec \in Texts
    /\ rust # None => rust = Resolved(RustParse(spec), target)
    /\ zig # None => zig = Resolved(ZigParse(spec), target)

\* ParseInv is inductive: the host's text never changes.
LEMMA Parsing == ParseSpec => []ParseInv
<1>1. ParseInit => ParseInv
  BY DEF ParseInit, ParseInv
<1>2. ParseInv /\ [ParseNext]_parseVars => ParseInv'
  <2> SUFFICES ASSUME ParseInv, [ParseNext]_parseVars PROVE ParseInv'
    OBVIOUS
  <2>1. CASE Rust
    BY <2>1 DEF Rust, ParseInv
  <2>2. CASE Zig
    BY <2>2 DEF Zig, ParseInv
  <2>3. CASE UNCHANGED parseVars
    BY <2>3 DEF parseVars, ParseInv
  <2> QED BY <2>1, <2>2, <2>3 DEF ParseNext
<1> QED BY <1>1, <1>2, PTL DEF ParseSpec

\* AgreeOnAscii: ItemSpec::parse (spec.rs), which collects the path and checks
\* name, version and path in that order, and the Zig parser, which takes it
\* segment by segment and looks for "@" by itself, answer one URL for every text
\* of any length without space but ASCII's around it.
THEOREM BuildsAgree == ParseSpec => []AgreeOnAscii
<1>1. ParseInv => AgreeOnAscii
  <2> SUFFICES ASSUME ParseInv, rust # None, zig # None,
                      Trim(spec, AsciiSpace) = Trim(spec, Spaces)
               PROVE  rust = zig
    BY DEF AgreeOnAscii
  <2>1. spec \in Seq(Chars)
    BY ParseAssumption DEF ParseInv
  <2>2. Trim(spec, AsciiSpace) \in Seq(Chars)
    BY <2>1, Trimmed
  <2>3. RustParse(spec) = ZigParse(spec)
    BY <2>2, RustReads, ZigReads
  <2> QED BY <2>3 DEF ParseInv
<1> QED BY <1>1, Parsing, PTL

-----------------------------------------------------------------------------
(* What is read is a text that writes it                                   *)

\* Joined is the function its definition says.
LEMMA JoinedIs ==
    ASSUME NEW path \in Seq(Seq(Chars))
    PROVE  /\ Joined[path] \in Seq(Chars)
           /\ path = <<>> => Joined[path] = <<>>
           /\ path # <<>> => Joined[path] = (Path \o Head(path)) \o Joined[Tail(path)]
<1> DEFINE T == Seq(Seq(Chars))
           A == Seq(Chars)
           shorter == [q \in T |-> IF q = <<>> THEN <<>> ELSE Tail(q)]
           base == [q \in T |-> <<>>]
           step == [x \in T \X A |-> IF x[1] = <<>> THEN <<>>
                                     ELSE (Path \o Head(x[1])) \o x[2]]
<1>1. <<>> \in T /\ <<>> \in A /\ Path \in A
  <2>1. <<>> \in T /\ <<>> \in A
    OBVIOUS
  <2> QED BY <2>1, Separators DEF Separator
<1>2. \A q \in T : q # <<>> => Head(q) \in A /\ Tail(q) \in T /\ Len(Tail(q)) < Len(q)
  <2> TAKE q \in T
  <2> HAVE q # <<>>
  <2> QED BY HeadAndTail
<1>3. shorter \in [T -> T] /\ base \in [T -> A]
  BY <1>1, <1>2
<1>4. step \in [T \X A -> A]
  <2>1. ASSUME NEW q \in T, NEW a \in A, q # <<>> PROVE (Path \o Head(q)) \o a \in A
    <3>1. Head(q) \in A
      BY <1>2, <2>1
    <3>2. Path \o Head(q) \in A
      BY <1>1, <3>1, Joint
    <3> QED BY <3>2, Joint
  <2>2. ASSUME NEW x \in T \X A
        PROVE (IF x[1] = <<>> THEN <<>> ELSE (Path \o Head(x[1])) \o x[2]) \in A
    <3>1. x[1] \in T /\ x[2] \in A
      OBVIOUS
    <3> QED BY <1>1, <2>1, <3>1
  <2> QED BY <2>2
<1>5. Recursion(Seq(Chars), A, {<<>>}, shorter, base, step)
  <2>1. \A q \in T \ {<<>>} : Len(shorter[q]) < Len(q)
    BY <1>2
  <2> HIDE DEF shorter, base, step, A
  <2> QED BY <1>1, <1>3, <1>4, <2>1 DEF Recursion
<1>6. PICK f : Solves(f, Seq(Chars), A, {<<>>}, shorter, base, step)
  <2> HIDE DEF A, shorter, base, step
  <2> QED BY <1>5, SuffixRecursion
<1>7. ASSUME NEW q \in T
      PROVE  f[q] = IF q = <<>> THEN <<>> ELSE (Path \o Head(q)) \o f[Tail(q)]
  <2>1. f \in [T -> A]
    BY <1>6 DEF Solves
  <2>2. CASE q = <<>>
    <3>1. f[q] = base[q]
      BY <1>6, <2>2 DEF Solves
    <3> QED BY <2>2, <3>1
  <2>3. CASE q # <<>>
    <3>1. shorter[q] = Tail(q) /\ Tail(q) \in T
      BY <1>2, <2>3
    <3>2. f[q] = step[<<q, f[Tail(q)]>>]
      <4>1. f[q] = step[<<q, f[shorter[q]]>>]
        BY <1>6, <2>3 DEF Solves
      <4> QED BY <3>1, <4>1
    <3>3. PICK a \in A : a = f[Tail(q)]
      BY <2>1, <3>1
    <3>4. step[<<q, a>>] = (Path \o Head(q)) \o a
      BY <2>3
    <3> QED BY <2>3, <3>2, <3>3, <3>4
  <2> QED BY <2>2, <2>3
<1>8. f = [q \in Seq(Seq(Chars)) |->
              IF q = <<>> THEN <<>> ELSE Path \o Head(q) \o f[Tail(q)]]
  <2>1. f = [q \in Seq(Seq(Chars)) |-> f[q]]
    <3> HIDE DEF A, shorter, base, step
    <3> QED BY <1>6 DEF Solves
  <2> QED BY <1>7, <2>1
<1>9. Joined = [q \in Seq(Seq(Chars)) |->
              IF q = <<>> THEN <<>> ELSE Path \o Head(q) \o Joined[Tail(q)]]
  BY <1>8 DEF Joined
<1>10. ASSUME NEW q \in T
       PROVE  /\ q = <<>> => Joined[q] = <<>>
              /\ q # <<>> => Joined[q] = (Path \o Head(q)) \o Joined[Tail(q)]
  BY <1>9
<1> DEFINE P == {q \in T : Joined[q] \in A}
<1>11. ASSUME NEW q \in T, \A t \in T : Len(t) < Len(q) => t \in P
       PROVE  q \in P
  <2>1. CASE q = <<>>
    BY <1>1, <1>10, <2>1
  <2>2. CASE q # <<>>
    <3>1. Head(q) \in A /\ Joined[Tail(q)] \in A
      BY <1>2, <1>11, <2>2
    <3>2. Path \o Head(q) \in A
      BY <1>1, <3>1, Joint
    <3>3. (Path \o Head(q)) \o Joined[Tail(q)] \in A
      BY <3>1, <3>2, Joint
    <3> QED BY <1>10, <2>2, <3>3
  <2> QED BY <2>1, <2>2
<1>12. P = T
  <2> HIDE DEF A
  <2> QED BY <1>11, ByLength
<1>13. Joined[path] \in A
  BY <1>12
<1> QED BY <1>10, <1>13

\* "::" may be grouped with either neighbour.
LEMMA PathAround ==
    \A x, y \in Seq(Chars) : /\ (Path \o x) \o y = Path \o (x \o y)
                             /\ (x \o Path) \o y = x \o (Path \o y)
<1> TAKE x, y \in Seq(Chars)
<1>1. PICK p : p = Path /\ p \in Seq(Chars)
  BY Separators DEF Separator
<1>2. (p \o x) \o y = p \o (x \o y)
  BY <1>1, Regroup
<1>3. (x \o p) \o y = x \o (p \o y)
  BY <1>1, Regroup
<1> QED BY <1>1, <1>2, <1>3

\* What Split takes apart, Joined puts together.
LEMMA JoinsSplit ==
    ASSUME NEW r \in Seq(Chars)
    PROVE  Joined[Split[r]] = Path \o r
<1> DEFINE P == {q \in Seq(Chars) : Joined[Split[q]] = Path \o q}
<1>0. Path \in Seq(Chars)
  BY Separators DEF Separator
<1>1. ASSUME NEW q \in Seq(Chars), \A t \in Seq(Chars) : Len(t) < Len(q) => t \in P
      PROVE  q \in P
  <2>1. CASE ~Has(q, Path)
    <3>1. Split[q] = <<q>>
      BY <2>1, SplitIs
    <3>2. <<q>> \in Seq(Seq(Chars)) /\ <<q>> # <<>> /\ Head(<<q>>) = q /\ Tail(<<q>>) = <<>>
      OBVIOUS
    <3>3. <<>> \in Seq(Seq(Chars))
      OBVIOUS
    <3>4. Joined[<<q>>] = (Path \o q) \o <<>>
      BY <3>2, <3>3, JoinedIs
    <3>5. Path \o q \in Seq(Chars)
      BY <1>0, Joint
    <3>6. (Path \o q) \o <<>> = Path \o q
      BY <3>5, ConcatEmptySeq
    <3> QED BY <3>1, <3>4, <3>6
  <2>2. CASE Has(q, Path)
    <3>1. PICK b \in Seq(Chars), a \in Seq(Chars) :
              /\ b = Before(q, Path) /\ a = After(q, Path)
              /\ Len(a) < Len(q) /\ q = (b \o Path) \o a
      BY <2>2, BeforeAndAfter, Separators
    <3>2. Split[q] = <<b>> \o Split[a] /\ Split[a] \in Seq(Seq(Chars))
      BY <2>2, <3>1, SplitIs
    <3>3. /\ Split[q] \in Seq(Seq(Chars)) /\ Split[q] # <<>>
          /\ Head(Split[q]) = b /\ Tail(Split[q]) = Split[a]
      <4>1. PICK x : x = Split[a] /\ x \in Seq(Seq(Chars))
        BY <3>2
      <4>2. /\ <<b>> \o x \in Seq(Seq(Chars)) /\ <<b>> \o x # <<>>
            /\ Head(<<b>> \o x) = b /\ Tail(<<b>> \o x) = x
        BY <4>1, Onto
      <4> QED BY <3>2, <4>1, <4>2
    <3>4. Joined[Split[a]] = Path \o a
      BY <1>1, <3>1
    <3>5. Joined[Split[q]] = (Path \o b) \o (Path \o a)
      BY <3>3, <3>4, JoinedIs
    <3>6. (Path \o b) \o (Path \o a) = Path \o (b \o (Path \o a))
      <4>1. Path \o a \in Seq(Chars)
        BY <1>0, Joint
      <4> QED BY <4>1, PathAround
    <3>7. b \o (Path \o a) = (b \o Path) \o a
      BY PathAround
    <3> QED BY <3>1, <3>5, <3>6, <3>7
  <2> QED BY <2>1, <2>2
<1>2. P = Seq(Chars)
  BY <1>1, ByLength
<1> QED BY <1>2

\* A spec as it is read off t.
Named(t, s) ==
    LET h == HeadOf(t)
    IN  /\ s.crate = NameOf(h) /\ s.version = VersionOf(h) /\ s.path = PathOf(RestOf(t))
        /\ ValidName(s.crate) /\ s.version # <<>> /\ Idents(s.path)

LEMMA ReadsNamed ==
    ASSUME NEW t, Reads(t) # None
    PROVE  Named(t, Reads(t)) /\ Reads(t) = Parsed(NameOf(HeadOf(t)), VersionOf(HeadOf(t)),
                                                   PathOf(RestOf(t)))
<1>1. /\ Reads(t) = Parsed(NameOf(HeadOf(t)), VersionOf(HeadOf(t)), PathOf(RestOf(t)))
      /\ ValidName(NameOf(HeadOf(t))) /\ VersionOf(HeadOf(t)) # <<>>
      /\ Idents(PathOf(RestOf(t)))
  BY DEF Reads
<1>2. \A c, v, p : /\ Parsed(c, v, p).crate = c /\ Parsed(c, v, p).version = v
                   /\ Parsed(c, v, p).path = p
  BY DEF Parsed
<1> QED BY <1>1, <1>2 DEF Named

LEMMA NoneAfter ==
    ASSUME NEW x \in Seq(Chars) PROVE x \o <<>> = x
BY ConcatEmptySeq

\* Name and version, written again, are the part they were read in, ...
LEMMA WritesName ==
    ASSUME NEW h \in Seq(Chars)
    PROVE  /\ NameOf(h) \in Seq(Chars) /\ VersionOf(h) \in Seq(Chars)
           /\ \/ h = NameOf(h) \o (At \o VersionOf(h))
              \/ h = NameOf(h) \o <<>> /\ VersionOf(h) = Latest
<1>1. CASE Has(h, At)
  <2>1. PICK b \in Seq(Chars), a \in Seq(Chars) :
            b = Before(h, At) /\ a = After(h, At) /\ h = (b \o At) \o a
    BY <1>1, BeforeAndAfter, Separators
  <2>2. (b \o At) \o a = b \o (At \o a)
    <3>1. At \in Seq(Chars)
      BY Separators DEF Separator
    <3> QED BY <3>1, Regroup
  <2> QED BY <1>1, <2>1, <2>2 DEF NameOf, VersionOf
<1>2. CASE ~Has(h, At)
  <2>1. "latest" \in Chars
    BY DEF Chars
  <2>2. Latest \in Seq(Chars)
    BY <2>1 DEF Latest
  <2> QED BY <1>2, <2>2, NoneAfter DEF NameOf, VersionOf
<1> QED BY <1>1, <1>2

\* ... the path is the rest of the text, ...
LEMMA WritesPath ==
    ASSUME NEW t \in Seq(Chars)
    PROVE  \/ t = HeadOf(t) \o Joined[PathOf(RestOf(t))]
           \/ t = HeadOf(t) \o Path /\ PathOf(RestOf(t)) = <<>>
<1>0. Path \in Seq(Chars) /\ <<>> \in Seq(Seq(Chars))
  <2>1. <<>> \in Seq(Seq(Chars))
    OBVIOUS
  <2> QED BY <2>1, Separators DEF Separator
<1>1. CASE Has(t, Path)
  <2>1. PICK b \in Seq(Chars), a \in Seq(Chars) :
            b = Before(t, Path) /\ a = After(t, Path) /\ t = (b \o Path) \o a
    BY <1>1, BeforeAndAfter, Separators
  <2>2. HeadOf(t) = b /\ RestOf(t) = a
    BY <1>1, <2>1 DEF HeadOf, RestOf
  <2>3. CASE a = <<>>
    <3>1. b \o Path \in Seq(Chars)
      BY <1>0, Joint
    <3>2. t = b \o Path
      BY <2>1, <2>3, <3>1, NoneAfter
    <3> QED BY <2>2, <2>3, <3>2 DEF PathOf
  <2>4. CASE a # <<>>
    <3>1. PathOf(a) = Split[a] /\ Joined[Split[a]] = Path \o a
      BY <2>4, JoinsSplit DEF PathOf
    <3>2. (b \o Path) \o a = b \o (Path \o a)
      BY <1>0, Regroup
    <3> QED BY <2>1, <2>2, <3>1, <3>2
  <2> QED BY <2>3, <2>4
<1>2. CASE ~Has(t, Path)
  <2>1. HeadOf(t) = t /\ PathOf(RestOf(t)) = <<>>
    BY <1>2 DEF HeadOf, RestOf, PathOf
  <2>2. Joined[<<>>] = <<>>
    BY <1>0, JoinedIs
  <2> QED BY <2>1, <2>2, NoneAfter
<1> QED BY <1>1, <1>2

\* ... and so the text is one of those Written says.
LEMMA IsWritten ==
    ASSUME NEW s, NEW v, v = At \o s.version \/ (s.version = Latest /\ v = <<>>),
           NEW p, p = Joined[s.path] \/ (s.path = <<>> /\ p = Path)
    PROVE  s.crate \o v \o p \in Written(s)
<1> DEFINE vs == {At \o s.version} \cup (IF s.version = Latest THEN {<<>>} ELSE {})
           ps == {Joined[s.path]} \cup (IF s.path = <<>> THEN {Path} ELSE {})
<1>1. v \in vs /\ p \in ps
  OBVIOUS
<1>2. Written(s) = {s.crate \o x \o y : x \in vs, y \in ps}
  BY DEF Written
<1>3. ASSUME NEW Vs, NEW Ps, NEW a \in Vs, NEW b \in Ps,
             Written(s) = {s.crate \o x \o y : x \in Vs, y \in Ps}
      PROVE  s.crate \o a \o b \in Written(s)
  BY <1>3
<1> HIDE DEF vs, ps
<1> QED BY <1>1, <1>2, <1>3

LEMMA WritesItself ==
    ASSUME NEW t \in Seq(Chars), NEW s, Named(t, s)
    PROVE  t \in Written(s)
<1> DEFINE h == HeadOf(t)
<1>1. h \in Seq(Chars)
  BY HeadAndRest
<1>2. s.crate = NameOf(h) /\ s.version = VersionOf(h) /\ s.path = PathOf(RestOf(t))
  BY DEF Named
<1>3. PICK v : h = s.crate \o v /\ (v = At \o s.version \/ (s.version = Latest /\ v = <<>>))
  BY <1>1, <1>2, WritesName
<1>4. PICK p : t = h \o p /\ (p = Joined[s.path] \/ (s.path = <<>> /\ p = Path))
  BY <1>2, WritesPath
<1>5. s.crate \o v \o p \in Written(s)
  BY <1>3, <1>4, IsWritten
<1>6. t = s.crate \o v \o p
  BY <1>3, <1>4
<1> QED BY <1>5, <1>6

-----------------------------------------------------------------------------
(* What ends a name, a version and a path                                  *)

\* The two signs that the separators are made of.
Colon == ":"

AtSign == "@"

LEMMA Signs ==
    /\ Path \in Seq(Chars) /\ Len(Path) = 2 /\ Path[1] = Colon /\ Path[2] = Colon
    /\ At \in Seq(Chars) /\ Len(At) = 1 /\ At[1] = AtSign
    /\ Colon # AtSign
<1>1. Path \in Seq(Chars) /\ Len(Path) = 2 /\ At \in Seq(Chars) /\ Len(At) = 1
  BY Separators DEF Separator
<1>2. Path[1] = Colon /\ Path[2] = Colon /\ At[1] = AtSign
  BY DEF Path, At, Colon, AtSign
<1>3. Colon # AtSign
  BY DEF Colon, AtSign
<1> QED BY <1>1, <1>2, <1>3

\* Where the two separators are found.
LEMMA FoundPath ==
    ASSUME NEW text \in Seq(Chars), NEW j
    PROVE  j \in Found(text, Path) <=>
              j \in Nat /\ 1 <= j /\ j + 1 <= Len(text) /\ text[j] = Colon /\ text[j + 1] = Colon
<1>1. Len(text) \in Nat
  BY Length
<1>2. j \in Found(text, Path) <=>
          j \in 1..(Len(text) - 2 + 1) /\ SubSeq(text, j, j + 2 - 1) = Path
  BY Signs DEF Found
<1>3. j \in 1..(Len(text) - 2 + 1) <=> j \in Nat /\ 1 <= j /\ j + 1 <= Len(text)
  BY <1>1
<1>4. ASSUME j \in Nat, 1 <= j, j + 1 <= Len(text)
      PROVE  SubSeq(text, j, j + 2 - 1) = Path <=> text[j] = Colon /\ text[j + 1] = Colon
  <2>1. PICK n \in Nat : n = j + 2 - 1
    BY <1>4
  <2>2. 1 <= j /\ j <= n + 1 /\ n <= Len(text)
    BY <1>1, <1>4, <2>1
  <2>3. /\ SubSeq(text, j, n) \in Seq(Chars) /\ Len(SubSeq(text, j, n)) = n - j + 1
        /\ \A i \in 1..(n - j + 1) : SubSeq(text, j, n)[i] = text[i + j - 1]
    BY <1>4, <2>2, PartOf
  <2>4. n - j + 1 = 2 /\ 1 + j - 1 = j /\ 2 + j - 1 = j + 1 /\ 1 \in 1..2 /\ 2 \in 1..2
    BY <1>4, <2>1
  <2>5. SubSeq(text, j, n)[1] = text[j] /\ SubSeq(text, j, n)[2] = text[j + 1]
    BY <2>3, <2>4
  <2>6. SubSeq(text, j, n) = Path <=> text[j] = Colon /\ text[j + 1] = Colon
    <3>1. PICK z \in Seq(Chars) : z = SubSeq(text, j, n) /\ Len(z) = 2
      BY <2>3, <2>4
    <3>2. PICK p \in Seq(Chars) : p = Path /\ Len(p) = 2 /\ p[1] = Colon /\ p[2] = Colon
      BY Signs
    <3>3. z = p <=> z[1] = p[1] /\ z[2] = p[2]
      BY <3>1, <3>2, PairIs
    <3> QED BY <2>5, <3>1, <3>2, <3>3
  <2> QED BY <2>1, <2>6
<1> QED BY <1>2, <1>3, <1>4

LEMMA FoundAt ==
    ASSUME NEW text \in Seq(Chars), NEW j
    PROVE  j \in Found(text, At) <=>
              j \in Nat /\ 1 <= j /\ j <= Len(text) /\ text[j] = AtSign
<1>1. Len(text) \in Nat
  BY Length
<1>2. j \in Found(text, At) <=>
          j \in 1..(Len(text) - 1 + 1) /\ SubSeq(text, j, j + 1 - 1) = At
  BY Signs DEF Found
<1>3. j \in 1..(Len(text) - 1 + 1) <=> j \in Nat /\ 1 <= j /\ j <= Len(text)
  BY <1>1
<1>4. ASSUME j \in Nat, 1 <= j, j <= Len(text)
      PROVE  SubSeq(text, j, j + 1 - 1) = At <=> text[j] = AtSign
  <2>1. j + 1 - 1 = j /\ j <= j + 1
    BY <1>4
  <2>3. /\ SubSeq(text, j, j) \in Seq(Chars) /\ Len(SubSeq(text, j, j)) = j - j + 1
        /\ \A i \in 1..(j - j + 1) : SubSeq(text, j, j)[i] = text[i + j - 1]
    BY <1>4, <2>1, PartOf
  <2>4. j - j + 1 = 1 /\ 1 + j - 1 = j /\ 1 \in 1..1
    BY <1>4
  <2>5. SubSeq(text, j, j)[1] = text[j] /\ Len(SubSeq(text, j, j)) = 1
    BY <2>3, <2>4
  <2>6. ASSUME text[j] = AtSign PROVE SubSeq(text, j, j) = At
    <3>1. \A i \in 1..1 : SubSeq(text, j, j)[i] = At[i]
      <4> TAKE i \in 1..1
      <4>1. i = 1
        OBVIOUS
      <4> QED BY <2>5, <2>6, <4>1, Signs
    <3> QED BY <2>3, <2>5, <3>1, Signs, SeqEqual
  <2> QED BY <2>1, <2>5, <2>6, Signs
<1> QED BY <1>2, <1>3, <1>4

\* A text cut where a separator is found and none is before.
LEMMA Cut ==
    ASSUME NEW g \in Seq(Chars), NEW sep, Separator(sep), NEW rest \in Seq(Chars),
           NEW x, x = g \o (sep \o rest),
           \A j \in Found(x, sep) : j > Len(g)
    PROVE  Has(x, sep) /\ Before(x, sep) = g /\ After(x, sep) = rest
<1>1. sep \in Seq(Chars) /\ Len(sep) \in Nat /\ Len(sep) # 0
      /\ Len(g) \in Nat /\ Len(rest) \in Nat
  BY Length DEF Separator
<1>2. PICK m \in Nat, n \in Nat, b \in Nat :
          m = Len(g) + 1 /\ n = Len(g) + Len(sep) /\ b = Len(g) + 1 + Len(sep)
  <2>1. Len(g) + 1 \in Nat /\ Len(g) + Len(sep) \in Nat /\ Len(g) + 1 + Len(sep) \in Nat
    BY <1>1
  <2> QED BY <2>1
<1>3. PICK y \in Seq(Chars) :
          /\ y = sep \o rest /\ Len(y) = Len(sep) + Len(rest)
          /\ \A i \in 1..Len(sep) : y[i] = sep[i]
          /\ \A i \in 1..Len(rest) : y[Len(sep) + i] = rest[i]
  <2>1. /\ sep \o rest \in Seq(Chars) /\ Len(sep \o rest) = Len(sep) + Len(rest)
        /\ \A i \in 1..Len(sep) : (sep \o rest)[i] = sep[i]
        /\ \A i \in 1..Len(rest) : (sep \o rest)[Len(sep) + i] = rest[i]
    <3>1. sep \in Seq(Chars)
      BY <1>1
    <3> QED BY <3>1, Joint
  <2> QED BY <2>1
<1>4. /\ x \in Seq(Chars) /\ Len(x) = Len(g) + Len(y)
      /\ \A i \in 1..Len(g) : x[i] = g[i]
      /\ \A i \in 1..Len(y) : x[Len(g) + i] = y[i]
  <2>1. x = g \o y
    BY <1>3
  <2> QED BY <2>1, Joint
<1>5. PICK k \in Nat : k = Len(x) /\ k = Len(g) + Len(sep) + Len(rest)
  <2>1. Len(x) \in Nat /\ Len(x) = Len(g) + Len(sep) + Len(rest)
    BY <1>1, <1>3, <1>4
  <2> QED BY <2>1
<1>6. SubSeq(x, m, n) = sep
  <2>1. 1 <= m /\ m <= n + 1 /\ n <= Len(x)
    BY <1>1, <1>2, <1>5
  <2>2. /\ SubSeq(x, m, n) \in Seq(Chars) /\ Len(SubSeq(x, m, n)) = n - m + 1
        /\ \A i \in 1..(n - m + 1) : SubSeq(x, m, n)[i] = x[i + m - 1]
    <3>1. x \in Seq(Chars)
      BY <1>4
    <3> QED BY <2>1, <3>1, PartOf
  <2>3. n - m + 1 = Len(sep)
    BY <1>1, <1>2
  <2>4. ASSUME NEW i \in 1..Len(sep) PROVE x[i + m - 1] = sep[i]
    <3>1. i + m - 1 = Len(g) + i /\ i \in 1..Len(y)
      BY <1>1, <1>2, <1>3
    <3> QED BY <1>3, <1>4, <3>1
  <2> QED BY <1>1, <2>2, <2>3, <2>4, SeqEqual
<1>7. m \in Found(x, sep)
  <2>1. m \in 1..(Len(x) - Len(sep) + 1) /\ m + Len(sep) - 1 = n
    BY <1>1, <1>2, <1>5
  <2> QED BY <1>6, <2>1 DEF Found
<1>8. Has(x, sep)
  BY <1>7 DEF Has
<1>9. Min(Found(x, sep)) = m
  <2>1. PICK l : l = Min(Found(x, sep))
    OBVIOUS
  <2>2. Found(x, sep) \in SUBSET Nat
    <3>1. Len(x) \in Nat /\ Len(sep) \in Nat
      BY <1>1, <1>5
    <3> QED BY <3>1 DEF Found
  <2>3. l \in Found(x, sep) /\ l <= m
    BY <1>7, <2>1, <2>2, LeastOf
  <2>4. l > Len(g) /\ l \in Nat
    BY <2>2, <2>3
  <2>5. l = m
    BY <1>1, <1>2, <2>3, <2>4
  <2> QED BY <2>1, <2>5
<1>10. Before(x, sep) = g
  <2>1. PICK one \in Nat, a \in Nat : one = 1 /\ a = m - 1 /\ a = Len(g)
    <3>1. 1 \in Nat /\ m - 1 \in Nat /\ m - 1 = Len(g)
      BY <1>1, <1>2
    <3> QED BY <3>1
  <2>2. 1 <= one /\ one <= a + 1 /\ a <= Len(x)
    BY <1>1, <1>5, <2>1
  <2>3. /\ SubSeq(x, one, a) \in Seq(Chars) /\ Len(SubSeq(x, one, a)) = a - one + 1
        /\ \A i \in 1..(a - one + 1) : SubSeq(x, one, a)[i] = x[i + one - 1]
    BY <1>4, <2>2, PartOf
  <2>4. a - one + 1 = Len(g) /\ \A i \in 1..Len(g) : i + one - 1 = i
    BY <1>1, <2>1
  <2>5. SubSeq(x, one, a) = g
    BY <1>4, <2>3, <2>4, SeqEqual
  <2> QED BY <1>9, <2>1, <2>5 DEF Before
<1>11. After(x, sep) = rest
  <2>1. 1 <= b /\ b <= k + 1 /\ k <= Len(x)
    BY <1>1, <1>2, <1>5
  <2>2. /\ SubSeq(x, b, k) \in Seq(Chars) /\ Len(SubSeq(x, b, k)) = k - b + 1
        /\ \A i \in 1..(k - b + 1) : SubSeq(x, b, k)[i] = x[i + b - 1]
    BY <1>4, <2>1, PartOf
  <2>3. k - b + 1 = Len(rest)
    BY <1>1, <1>2, <1>5
  <2>4. ASSUME NEW i \in 1..Len(rest) PROVE x[i + b - 1] = rest[i]
    <3>1. i + b - 1 = Len(g) + (Len(sep) + i) /\ Len(sep) + i \in 1..Len(y)
      BY <1>1, <1>2, <1>3
    <3> QED BY <1>3, <1>4, <3>1
  <2>5. SubSeq(x, b, k) = rest
    BY <2>2, <2>3, <2>4, SeqEqual
  <2>6. b = m + Len(sep)
    BY <1>1, <1>2
  <2> QED BY <1>5, <1>9, <2>5, <2>6 DEF After
<1> QED BY <1>8, <1>10, <1>11

\* A text of letters, digits and what is neither a separator nor space.
Plainly(x) == \A i \in 1..Len(x) : x[i] \notin Spaces /\ x[i] # Colon /\ x[i] # AtSign

\* Names and identifiers are made of such characters.
LEMMA WordChars ==
    ASSUME NEW c \in Letters \cup Digits \cup {"-", "_"}
    PROVE  c \notin Spaces /\ c # Colon /\ c # AtSign
<1>1. Colon \in Punctuation /\ AtSign \in Punctuation /\ "-" \in Punctuation /\ "_" \in Punctuation
  BY DEF Punctuation, Colon, AtSign
<1>2. CASE c \in Letters \cup Digits
  BY <1>1, <1>2, TextAssumption
<1>3. CASE c \in {"-", "_"}
  <2>1. c # Colon /\ c # AtSign
    BY <1>3 DEF Colon, AtSign
  <2> QED BY <1>1, <1>3, <2>1, TextAssumption
<1> QED BY <1>2, <1>3

LEMMA IdentPlain ==
    ASSUME NEW x \in Seq(Chars), ValidIdent(x)
    PROVE  x # <<>> /\ Plainly(x)
<1>1. x # <<>> /\ \A i \in DOMAIN x : x[i] \in Letters \cup Digits \cup {"_"}
  BY DEF ValidIdent, Word
<1>2. DOMAIN x = 1..Len(x)
  OBVIOUS
<1> QED BY <1>1, <1>2, WordChars DEF Plainly

LEMMA NamePlain ==
    ASSUME NEW x \in Seq(Chars), ValidName(x)
    PROVE  x # <<>> /\ Plainly(x)
<1>1. /\ x # <<>> /\ Head(x) \in Letters
      /\ \A i \in DOMAIN Tail(x) : Tail(x)[i] \in Letters \cup Digits \cup {"-", "_"}
  BY DEF ValidName, Word
<1>2. /\ Head(x) = x[1] /\ Tail(x) \in Seq(Chars) /\ Len(Tail(x)) = Len(x) - 1
      /\ \A i \in 1..Len(Tail(x)) : Tail(x)[i] = x[i + 1]
  BY <1>1, HeadAndTail
<1>3. DOMAIN Tail(x) = 1..Len(Tail(x)) /\ Len(x) \in Nat
  <2>1. \A y \in Seq(Chars) : DOMAIN y = 1..Len(y) /\ Len(y) \in Nat
    OBVIOUS
  <2> QED BY <1>2, <2>1
<1>4. ASSUME NEW i \in 1..Len(x) PROVE x[i] \in Letters \cup Digits \cup {"-", "_"}
  <2>1. CASE i = 1
    BY <1>1, <1>2, <2>1
  <2>2. CASE i # 1
    <3>1. i - 1 \in 1..Len(Tail(x)) /\ i - 1 + 1 = i
      BY <1>2, <1>3, <2>2
    <3>2. Tail(x)[i - 1] = x[i]
      BY <1>2, <3>1
    <3>3. Tail(x)[i - 1] \in Letters \cup Digits \cup {"-", "_"}
      BY <1>1, <1>3, <3>1
    <3> QED BY <3>2, <3>3
  <2> QED BY <2>1, <2>2
<1>5. Plainly(x)
  BY <1>4, WordChars DEF Plainly
<1> QED BY <1>1, <1>5

\* A text that no space ends, ...
Ends(x) == x # <<>> /\ x[Len(x)] \notin Spaces

\* Two texts together end as the second does.
LEMMA EndOf ==
    ASSUME NEW x \in Seq(Chars), NEW y \in Seq(Chars), y # <<>>
    PROVE  x \o y # <<>> /\ (x \o y)[Len(x \o y)] = y[Len(y)]
<1>1. Len(y) \in Nat /\ Len(y) # 0 /\ Len(x) \in Nat
  BY Length
<1>2. /\ x \o y \in Seq(Chars) /\ Len(x \o y) = Len(x) + Len(y)
      /\ \A i \in 1..Len(y) : (x \o y)[Len(x) + i] = y[i]
  BY Joint
<1>3. Len(y) \in 1..Len(y)
  BY <1>1
<1>4. (x \o y)[Len(x \o y)] = y[Len(y)]
  BY <1>2, <1>3
<1>5. Len(x \o y) # 0
  BY <1>1, <1>2
<1> QED BY <1>2, <1>4, <1>5, Length

LEMMA EndsJoint ==
    ASSUME NEW x \in Seq(Chars), NEW y \in Seq(Chars), Ends(y)
    PROVE  Ends(x \o y)
BY EndOf DEF Ends

LEMMA PlainEnds ==
    ASSUME NEW x \in Seq(Chars), x # <<>>, Plainly(x)
    PROVE  Ends(x) /\ x[1] \notin Spaces
<1>1. Len(x) \in Nat /\ Len(x) # 0
  BY Length
<1>2. Len(x) \in 1..Len(x) /\ 1 \in 1..Len(x)
  BY <1>1
<1> QED BY <1>2 DEF Plainly, Ends

\* ... and one that a path may follow.
Tidy(g) == ~Has(g, Path) /\ (g # <<>> => g[Len(g)] # Colon)

\* A name is tidy, and no "@" is in it.
LEMMA PlainTidy ==
    ASSUME NEW x \in Seq(Chars), Plainly(x)
    PROVE  Tidy(x) /\ ~Has(x, At)
<1>1. Len(x) \in Nat /\ (x # <<>> => Len(x) # 0)
  BY Length
<1>2. ASSUME NEW j \in Found(x, Path) PROVE FALSE
  <2>1. j \in Nat /\ 1 <= j /\ j + 1 <= Len(x) /\ x[j] = Colon
    BY FoundPath
  <2>2. j \in 1..Len(x)
    BY <1>1, <2>1
  <2> QED BY <2>1, <2>2 DEF Plainly
<1>3. ASSUME NEW j \in Found(x, At) PROVE FALSE
  <2>1. j \in Nat /\ 1 <= j /\ j <= Len(x) /\ x[j] = AtSign
    BY FoundAt
  <2>2. j \in 1..Len(x)
    BY <1>1, <2>1
  <2> QED BY <2>1, <2>2 DEF Plainly
<1>4. x # <<>> => x[Len(x)] # Colon
  <2>1. x # <<>> => Len(x) \in 1..Len(x)
    BY <1>1
  <2> QED BY <2>1 DEF Plainly
<1> QED BY <1>2, <1>3, <1>4 DEF Tidy, Has

LEMMA TidyJoint ==
    ASSUME NEW x \in Seq(Chars), NEW y \in Seq(Chars), y # <<>>, Tidy(y),
           \A i \in 1..Len(x) : x[i] # Colon
    PROVE  Tidy(x \o y)
<1>1. Len(x) \in Nat /\ Len(y) \in Nat
  BY Length
<1>2. PICK z \in Seq(Chars) :
          /\ z = x \o y /\ Len(z) = Len(x) + Len(y)
          /\ \A i \in 1..Len(x) : z[i] = x[i]
          /\ \A i \in 1..Len(y) : z[Len(x) + i] = y[i]
  <2>1. /\ x \o y \in Seq(Chars) /\ Len(x \o y) = Len(x) + Len(y)
        /\ \A i \in 1..Len(x) : (x \o y)[i] = x[i]
        /\ \A i \in 1..Len(y) : (x \o y)[Len(x) + i] = y[i]
    BY Joint
  <2> QED BY <2>1
<1>3. ASSUME NEW j \in Found(z, Path) PROVE FALSE
  <2>1. /\ j \in Nat /\ 1 <= j /\ j + 1 <= Len(z)
        /\ z[j] = Colon /\ z[j + 1] = Colon
    BY FoundPath
  <2>2. j > Len(x)
    <3>1. ASSUME j <= Len(x) PROVE FALSE
      <4>1. j \in 1..Len(x)
        BY <1>1, <2>1, <3>1
      <4> QED BY <1>2, <2>1, <4>1
    <3> QED BY <1>1, <2>1, <3>1
  <2>3. PICK k \in Nat : k = j - Len(x)
    <3>1. j - Len(x) \in Nat
      BY <1>1, <2>1, <2>2
    <3> QED BY <3>1
  <2>4. /\ 1 <= k /\ k + 1 <= Len(y) /\ k \in 1..Len(y) /\ k + 1 \in 1..Len(y)
        /\ Len(x) + k = j /\ Len(x) + (k + 1) = j + 1
    BY <1>1, <1>2, <2>1, <2>2, <2>3
  <2>5. y[k] = Colon /\ y[k + 1] = Colon
    BY <1>2, <2>1, <2>4
  <2>6. k \in Found(y, Path)
    BY <2>4, <2>5, FoundPath
  <2> QED BY <2>6 DEF Tidy, Has
<1>4. z[Len(z)] = y[Len(y)]
  BY <1>2, EndOf
<1> QED BY <1>2, <1>3, <1>4 DEF Tidy, Has

\* A tidy text is what is before the first "::", whatever follows it; ...
LEMMA TidyCut ==
    ASSUME NEW g \in Seq(Chars), Tidy(g), NEW rest \in Seq(Chars),
           NEW x, x = g \o (Path \o rest)
    PROVE  HeadOf(x) = g /\ RestOf(x) = rest /\ Has(x, Path)
<1>1. Len(g) \in Nat
  BY Length
<1>2. PICK y \in Seq(Chars) : y = Path \o rest
  <2>1. Path \o rest \in Seq(Chars)
    BY Signs, Joint
  <2> QED BY <2>1
<1>3. /\ x \in Seq(Chars) /\ \A i \in 1..Len(g) : x[i] = g[i]
  <2>1. x = g \o y
    BY <1>2
  <2> QED BY <2>1, Joint
<1>4. ASSUME NEW j \in Found(x, Path) PROVE j > Len(g)
  <2>1. /\ j \in Nat /\ 1 <= j /\ x[j] = Colon /\ x[j + 1] = Colon
    BY <1>3, FoundPath
  <2>2. ASSUME j < Len(g) PROVE FALSE
    <3>1. j \in 1..Len(g) /\ j + 1 \in 1..Len(g) /\ j + 1 <= Len(g)
      BY <1>1, <2>1, <2>2
    <3>2. g[j] = Colon /\ g[j + 1] = Colon
      BY <1>3, <2>1, <3>1
    <3>3. j \in Found(g, Path)
      BY <2>1, <3>1, <3>2, FoundPath
    <3> QED BY <3>3 DEF Tidy, Has
  <2>3. ASSUME j = Len(g) PROVE FALSE
    <3>1. j \in 1..Len(g) /\ Len(g) # 0
      BY <1>1, <2>1, <2>3
    <3>2. g[Len(g)] = Colon /\ g # <<>>
      BY <1>3, <2>1, <2>3, <3>1, Length
    <3> QED BY <3>2 DEF Tidy
  <2> QED BY <1>1, <2>1, <2>2, <2>3
<1>5. Has(x, Path) /\ Before(x, Path) = g /\ After(x, Path) = rest
  BY <1>4, Separators, Cut
<1> QED BY <1>5 DEF HeadOf, RestOf

\* ... and a name is what is before the first "@".
LEMMA AtCut ==
    ASSUME NEW c \in Seq(Chars), Plainly(c), NEW v \in Seq(Chars),
           NEW x, x = c \o (At \o v)
    PROVE  NameOf(x) = c /\ VersionOf(x) = v
<1>1. Len(c) \in Nat
  BY Length
<1>2. PICK y \in Seq(Chars) : y = At \o v
  <2>1. At \o v \in Seq(Chars)
    BY Signs, Joint
  <2> QED BY <2>1
<1>3. /\ x \in Seq(Chars) /\ \A i \in 1..Len(c) : x[i] = c[i]
  <2>1. x = c \o y
    BY <1>2
  <2> QED BY <2>1, Joint
<1>4. ASSUME NEW j \in Found(x, At) PROVE j > Len(c)
  <2>1. /\ j \in Nat /\ 1 <= j /\ x[j] = AtSign
    BY <1>3, FoundAt
  <2>2. ASSUME j <= Len(c) PROVE FALSE
    <3>1. j \in 1..Len(c)
      BY <1>1, <2>1, <2>2
    <3> QED BY <1>3, <2>1, <3>1 DEF Plainly
  <2> QED BY <1>1, <2>1, <2>2
<1>5. Has(x, At) /\ Before(x, At) = c /\ After(x, At) = v
  BY <1>4, Separators, Cut
<1> QED BY <1>5 DEF NameOf, VersionOf

\* No path is in what is before the first "::", nor in the version there.
LEMMA NoPathBefore ==
    ASSUME NEW t \in Seq(Chars)
    PROVE  ~Has(HeadOf(t), Path) /\ ~Has(VersionOf(HeadOf(t)), Path)
<1> DEFINE h == HeadOf(t)
<1>1. h \in Seq(Chars) /\ Len(h) \in Nat
  BY HeadAndRest, Length
<1>2. ~Has(h, Path)
  <2>1. CASE ~Has(t, Path)
    BY <2>1 DEF HeadOf
  <2>2. CASE Has(t, Path)
    <3>1. h = Before(t, Path)
      BY <2>2 DEF HeadOf
    <3> DEFINE i == Min(Found(t, Path))
    <3>2. i \in Nat /\ i + 2 - 1 <= Len(t) /\ \A j \in Found(t, Path) : i <= j
      BY <2>2, Separators, FirstFound
    <3>3. Len(h) = i - 1 /\ \A j \in 1..Len(h) : h[j] = t[j]
      BY <2>2, <3>1, Separators, BeforeAndAfter
    <3> HIDE DEF i, h
    <3>4. ASSUME NEW j \in Found(h, Path) PROVE FALSE
      <4>1. j \in Nat /\ 1 <= j /\ j + 1 <= Len(h) /\ h[j] = Colon /\ h[j + 1] = Colon
        BY <1>1, FoundPath
      <4>2. j \in 1..Len(h) /\ j + 1 \in 1..Len(h)
        BY <1>1, <4>1
      <4>3. t[j] = Colon /\ t[j + 1] = Colon
        BY <3>3, <4>1, <4>2
      <4>4. j + 1 <= Len(t) /\ j < i
        <5>1. Len(t) \in Nat
          BY Length
        <5> QED BY <1>1, <3>2, <3>3, <4>1, <5>1
      <4>5. j \in Found(t, Path)
        BY <4>1, <4>3, <4>4, FoundPath
      <4> QED BY <3>2, <4>1, <4>4, <4>5
    <3> QED BY <3>4 DEF Has
  <2> QED BY <2>1, <2>2
<1> HIDE DEF h
<1>3. ~Has(VersionOf(h), Path)
  <2>1. CASE ~Has(h, At)
    <3>1. VersionOf(h) = Latest
      BY <2>1 DEF VersionOf
    <3>2. Latest \in Seq(Chars) /\ Len(Latest) = 1
      <4>1. "latest" \in Chars
        BY DEF Chars
      <4> QED BY <4>1, One DEF Latest
    <3>3. ASSUME NEW j \in Found(Latest, Path) PROVE FALSE
      <4>1. j \in Nat /\ 1 <= j /\ j + 1 <= 1
        BY <3>2, FoundPath
      <4> QED BY <4>1
    <3> QED BY <3>1, <3>3 DEF Has
  <2>2. CASE Has(h, At)
    <3>1. PICK b \in Seq(Chars), v \in Seq(Chars) :
              b = Before(h, At) /\ v = After(h, At) /\ h = (b \o At) \o v
      BY <1>1, <2>2, BeforeAndAfter, Separators
    <3>2. VersionOf(h) = v
      BY <2>2, <3>1 DEF VersionOf
    <3>3. PICK x \in Seq(Chars) : x = b \o At /\ Len(x) \in Nat
      <4>1. b \o At \in Seq(Chars)
        BY Signs, Joint
      <4> QED BY <4>1, Length
    <3>4. /\ Len(h) = Len(x) + Len(v) /\ Len(v) \in Nat
          /\ \A i \in 1..Len(v) : h[Len(x) + i] = v[i]
      <4>1. h = x \o v
        BY <3>1, <3>3
      <4> QED BY <4>1, Joint, Length
    <3>5. ASSUME NEW j \in Found(v, Path) PROVE FALSE
      <4>1. j \in Nat /\ 1 <= j /\ j + 1 <= Len(v) /\ v[j] = Colon /\ v[j + 1] = Colon
        BY FoundPath
      <4>2. j \in 1..Len(v) /\ j + 1 \in 1..Len(v)
        BY <3>4, <4>1
      <4>3. h[Len(x) + j] = Colon /\ h[Len(x) + (j + 1)] = Colon
        BY <3>4, <4>1, <4>2
      <4>4. /\ Len(x) + j \in Nat /\ 1 <= Len(x) + j /\ Len(x) + j + 1 <= Len(h)
            /\ Len(x) + (j + 1) = Len(x) + j + 1
        BY <3>3, <3>4, <4>1
      <4>5. Len(x) + j \in Found(h, Path)
        BY <1>1, <4>3, <4>4, FoundPath
      <4> QED BY <1>2, <4>5 DEF Has
    <3> QED BY <3>2, <3>5 DEF Has
  <2> QED BY <2>1, <2>2
<1> QED BY <1>2, <1>3 DEF h

\* There is nothing to trim of a text that begins and ends with no space.
LEMMA TrimsNothing ==
    ASSUME NEW x \in Seq(Chars), Ends(x), x[1] \notin Spaces,
           NEW space \in SUBSET Spaces
    PROVE  Trim(x, space) = x
<1> DEFINE kept == {i \in DOMAIN x : x[i] \notin space}
<1>1. Len(x) \in Nat /\ Len(x) # 0 /\ DOMAIN x = 1..Len(x)
  BY Length DEF Ends
<1>2. 1 \in kept /\ Len(x) \in kept /\ kept \in SUBSET (1..Len(x))
  BY <1>1 DEF Ends
<1>3. Trim(x, space) = SubSeq(x, Min(kept), Max(kept))
  BY <1>2 DEF Trim
<1> HIDE DEF kept
<1>4. kept \in SUBSET Nat /\ kept # {} /\ \A i \in kept : 1 <= i /\ i <= Len(x)
  BY <1>1, <1>2
<1>5. PICK a \in Nat : a = Min(kept) /\ a <= 1 /\ 1 <= a
  <2>1. Min(kept) \in kept /\ \A i \in kept : Min(kept) <= i
    BY <1>4, LeastOf
  <2> QED BY <1>2, <1>4, <2>1
<1>6. PICK b \in Nat : b = Max(kept) /\ Len(x) <= b /\ b <= Len(x)
  <2>1. Max(kept) \in kept /\ \A i \in kept : i <= Max(kept)
    BY <1>1, <1>4, GreatestOf
  <2> QED BY <1>2, <1>4, <2>1
<1>7. a = 1 /\ b = Len(x) + 1 - 1
  BY <1>1, <1>5, <1>6
<1> QED BY <1>3, <1>5, <1>6, <1>7, WholeOf

-----------------------------------------------------------------------------
(* What Joined puts together, Split takes apart                            *)

\* A path of identifiers is its first and a path of identifiers.
LEMMA IdentsOf ==
    ASSUME NEW path \in Seq(Seq(Chars)), path # <<>>, Idents(path)
    PROVE  /\ Head(path) \in Seq(Chars) /\ Tail(path) \in Seq(Seq(Chars))
           /\ ValidIdent(Head(path)) /\ Idents(Tail(path))
           /\ path = <<Head(path)>> \o Tail(path) /\ Len(Tail(path)) < Len(path)
<1>1. /\ Head(path) \in Seq(Chars) /\ Tail(path) \in Seq(Seq(Chars))
      /\ Len(Tail(path)) < Len(path)
      /\ path = <<Head(path)>> \o Tail(path) /\ Head(path) = path[1]
      /\ Len(Tail(path)) = Len(path) - 1
      /\ \A i \in 1..Len(Tail(path)) : Tail(path)[i] = path[i + 1]
  BY HeadAndTail
<1>2. \A y \in Seq(Seq(Chars)) : DOMAIN y = 1..Len(y) /\ Len(y) \in Nat
  OBVIOUS
<1>3. \A i \in 1..Len(path) : ValidIdent(path[i])
  BY <1>2 DEF Idents
<1>4. Len(path) \in Nat /\ Len(path) # 0
  BY Length
<1>5. ValidIdent(Head(path))
  <2>1. 1 \in 1..Len(path)
    BY <1>4
  <2> QED BY <1>1, <1>3, <2>1
<1>6. ASSUME NEW i \in DOMAIN Tail(path) PROVE ValidIdent(Tail(path)[i])
  <2>1. i \in 1..Len(Tail(path))
    BY <1>1, <1>2
  <2>2. i + 1 \in 1..Len(path)
    BY <1>1, <1>4, <2>1
  <2> QED BY <1>1, <1>3, <2>1, <2>2
<1> QED BY <1>1, <1>5, <1>6 DEF Idents

\* A path as it is written, without the "::" in front.
FromFirst(path) == Head(path) \o Joined[Tail(path)]

\* What Joined puts together, Split takes apart.
LEMMA SplitsJoined ==
    ASSUME NEW path \in Seq(Seq(Chars)), path # <<>>, Idents(path)
    PROVE  /\ FromFirst(path) \in Seq(Chars) /\ FromFirst(path) # <<>>
           /\ Joined[path] = Path \o FromFirst(path)
           /\ Split[FromFirst(path)] = path /\ Ends(Joined[path])
<1> DEFINE Good(q) == q # <<>> /\ Idents(q) =>
               /\ FromFirst(q) \in Seq(Chars) /\ FromFirst(q) # <<>>
               /\ Joined[q] = Path \o FromFirst(q)
               /\ Split[FromFirst(q)] = q /\ Ends(FromFirst(q))
           P == {q \in Seq(Seq(Chars)) : Good(q)}
<1>1. ASSUME NEW q \in Seq(Seq(Chars)), q # <<>>, Idents(q),
             \A t \in Seq(Seq(Chars)) : Len(t) < Len(q) => t \in P
      PROVE  /\ FromFirst(q) \in Seq(Chars) /\ FromFirst(q) # <<>>
             /\ Joined[q] = Path \o FromFirst(q)
             /\ Split[FromFirst(q)] = q /\ Ends(FromFirst(q))
  <2>1. PICK h \in Seq(Chars), t \in Seq(Seq(Chars)) :
            /\ h = Head(q) /\ t = Tail(q) /\ ValidIdent(h) /\ Idents(t)
            /\ q = <<h>> \o t /\ Len(t) < Len(q)
    BY <1>1, IdentsOf
  <2>2. h # <<>> /\ Plainly(h) /\ Tidy(h) /\ ~Has(h, Path) /\ Ends(h)
    BY <2>1, IdentPlain, PlainTidy, PlainEnds DEF Tidy
  <2>3. PICK j \in Seq(Chars) : j = Joined[t]
    BY JoinedIs
  <2>4. FromFirst(q) = h \o j
    BY <2>1, <2>3 DEF FromFirst
  <2>5. h \o j \in Seq(Chars)
    BY Joint
  <2>6. Joined[q] = Path \o (h \o j)
    <3>1. Joined[q] = (Path \o h) \o j
      BY <1>1, <2>1, <2>3, JoinedIs
    <3>2. (Path \o h) \o j = Path \o (h \o j)
      BY PathAround
    <3> QED BY <3>1, <3>2
  <2>7. CASE t = <<>>
    <3>1. j = <<>>
      BY <2>3, <2>7, JoinedIs
    <3>2. h \o j = h
      BY <3>1, NoneAfter
    <3>3. Split[h] = <<h>>
      BY <2>2, SplitIs
    <3>4. <<h>> \o <<>> = <<h>>
      OBVIOUS
    <3> QED BY <2>1, <2>2, <2>4, <2>6, <2>7, <3>2, <3>3, <3>4
  <2>8. CASE t # <<>>
    <3>1. Good(t)
      BY <1>1, <2>1
    <3>2. PICK r \in Seq(Chars) : r = FromFirst(t) /\ j = Path \o r /\ Split[r] = t /\ Ends(r)
      BY <2>1, <2>3, <2>8, <3>1
    <3>3. /\ HeadOf(h \o j) = h /\ RestOf(h \o j) = r /\ Has(h \o j, Path)
      BY <2>2, <3>2, TidyCut
    <3>4. Before(h \o j, Path) = h /\ After(h \o j, Path) = r
      BY <3>3 DEF HeadOf, RestOf
    <3>5. Split[h \o j] = <<h>> \o Split[r]
      BY <2>5, <3>3, <3>4, SplitIs
    <3>6. Ends(h \o j)
      <4>1. Ends(j)
        BY <3>2, Signs, EndsJoint
      <4> QED BY <4>1, EndsJoint
    <3>7. h \o j # <<>>
      BY <3>6 DEF Ends
    <3> QED BY <2>1, <2>4, <2>5, <2>6, <3>2, <3>5, <3>6, <3>7
  <2> QED BY <2>7, <2>8
<1>2. ASSUME NEW q \in Seq(Seq(Chars)),
             \A t \in Seq(Seq(Chars)) : Len(t) < Len(q) => t \in P
      PROVE  q \in P
  <2>1. Good(q)
    <3> HIDE DEF P
    <3> QED BY <1>1, <1>2
  <2> HIDE DEF Good
  <2> QED BY <2>1
<1>3. P = Seq(Seq(Chars))
  <2> HIDE DEF Good
  <2> QED BY <1>2, ByLength
<1>4. Good(path)
  BY <1>3
<1>5. Ends(Path \o FromFirst(path))
  BY <1>4, Signs, EndsJoint
<1> QED BY <1>4, <1>5

-----------------------------------------------------------------------------
(* Every text that writes a spec is read as that spec                      *)

\* What a parsed spec is made of, whatever it was read off.
Sound(c, ver, path) ==
    /\ c \in Seq(Chars) /\ ver \in Seq(Chars) /\ path \in Seq(Seq(Chars))
    /\ ValidName(c) /\ Idents(path)
    /\ ver # <<>> /\ ~Has(ver, Path)

\* Written's two choices: the version left out or not, and "::" for no path.
Spelled(x, c, ver, path) ==
    \E v, p : /\ v = At \o ver \/ (ver = Latest /\ v = <<>>)
              /\ p = Joined[path] \/ (path = <<>> /\ p = Path)
              /\ x = c \o v \o p

\* A name, with or without its version, is read as that name and version; ...
LEMMA NameCut ==
    ASSUME NEW c, NEW ver, NEW path, Sound(c, ver, path), Clean(ver),
           NEW v, v = At \o ver \/ (ver = Latest /\ v = <<>>)
    PROVE  /\ c \o v \in Seq(Chars) /\ c \o v # <<>>
           /\ (c \o v)[1] \notin Spaces /\ Ends(c \o v) /\ Tidy(c \o v)
           /\ NameOf(c \o v) = c /\ VersionOf(c \o v) = ver
<1>1. /\ c \in Seq(Chars) /\ ver \in Seq(Chars) /\ ver # <<>> /\ ~Has(ver, Path)
      /\ c # <<>> /\ Plainly(c)
  BY NamePlain DEF Sound
<1>2. Tidy(c) /\ ~Has(c, At) /\ Ends(c) /\ c[1] \notin Spaces
  BY <1>1, PlainTidy, PlainEnds
<1>3. CASE ver = Latest /\ v = <<>>
  <2>1. c \o v = c
    BY <1>1, <1>3, NoneAfter
  <2>2. NameOf(c) = c /\ VersionOf(c) = ver
    BY <1>2, <1>3 DEF NameOf, VersionOf
  <2> QED BY <1>1, <1>2, <2>1, <2>2
<1>4. CASE v = At \o ver
  <2>1. Ends(ver) /\ Tidy(ver)
    BY <1>1 DEF Clean, Ends, Tidy, Colon
  <2>2. PICK w \in Seq(Chars) : w = At \o ver /\ v = w
    <3>1. At \o ver \in Seq(Chars)
      BY <1>1, Signs, Joint
    <3> QED BY <1>4, <3>1
  <2>3. Ends(w) /\ Tidy(w) /\ w # <<>>
    <3>1. Ends(At \o ver)
      BY <1>1, <2>1, Signs, EndsJoint
    <3>2. \A i \in 1..Len(At) : At[i] # Colon
      <4> TAKE i \in 1..Len(At)
      <4>1. i = 1
        BY Signs
      <4> QED BY <4>1, Signs
    <3>3. Tidy(At \o ver)
      BY <1>1, <2>1, <3>2, Signs, TidyJoint
    <3> QED BY <2>2, <3>1, <3>3 DEF Ends
  <2>4. c \o w \in Seq(Chars) /\ (c \o w)[1] = c[1]
    <3>1. Len(c) \in Nat /\ Len(c) # 0
      BY <1>1, Length
    <3>2. 1 \in 1..Len(c)
      BY <3>1
    <3> QED BY <1>1, <3>2, Joint
  <2>5. Ends(c \o w)
    BY <1>1, <2>3, EndsJoint
  <2>6. Tidy(c \o w)
    BY <1>1, <2>3, TidyJoint DEF Plainly
  <2>7. NameOf(c \o w) = c /\ VersionOf(c \o w) = ver
    BY <1>1, <2>2, AtCut
  <2>8. c \o w # <<>>
    BY <2>5 DEF Ends
  <2> QED BY <1>2, <2>2, <2>4, <2>5, <2>6, <2>7, <2>8
<1> QED BY <1>3, <1>4

\* ... and with its path, as the spec it writes.
LEMMA ReadBack ==
    ASSUME NEW c, NEW ver, NEW path, Sound(c, ver, path), Clean(ver),
           NEW x, Spelled(x, c, ver, path)
    PROVE  RustParse(x) = Parsed(c, ver, path)
<1>0. PICK v, p : /\ v = At \o ver \/ (ver = Latest /\ v = <<>>)
                  /\ p = Joined[path] \/ (path = <<>> /\ p = Path)
                  /\ x = c \o v \o p
  BY DEF Spelled
<1>1. PICK g \in Seq(Chars) :
          /\ g = c \o v /\ g # <<>> /\ g[1] \notin Spaces /\ Ends(g) /\ Tidy(g)
          /\ NameOf(g) = c /\ VersionOf(g) = ver
  BY <1>0, NameCut
<1>2. x = g \o p
  BY <1>0, <1>1
<1>3. path \in Seq(Seq(Chars)) /\ Idents(path) /\ ValidName(c) /\ ver # <<>>
  BY DEF Sound
<1>4. ASSUME p # <<>>, p \in Seq(Chars), Ends(p) PROVE x \in Seq(Chars) /\ Trim(x, Spaces) = x
  <2>1. x \in Seq(Chars) /\ x[1] = g[1]
    <3>1. Len(g) \in Nat /\ Len(g) # 0
      BY <1>1, Length
    <3>2. 1 \in 1..Len(g)
      BY <3>1
    <3>3. g \o p \in Seq(Chars) /\ \A i \in 1..Len(g) : (g \o p)[i] = g[i]
      BY <1>4, Joint
    <3> QED BY <1>2, <3>2, <3>3
  <2>2. Ends(x)
    BY <1>2, <1>4, EndsJoint
  <2> QED BY <1>1, <2>1, <2>2, TrimsNothing
<1>5. x \in Seq(Chars) /\ Trim(x, Spaces) = x /\ HeadOf(x) = g /\ PathOf(RestOf(x)) = path
  <2>1. CASE path # <<>>
    <3>1. PICK r \in Seq(Chars) : r = FromFirst(path) /\ r # <<>>
                                  /\ p = Path \o r /\ Split[r] = path /\ Ends(p)
      <4>1. PICK r \in Seq(Chars) : r = FromFirst(path) /\ r # <<>>
                                    /\ Joined[path] = Path \o r /\ Split[r] = path
                                    /\ Ends(Joined[path])
        BY <1>3, <2>1, SplitsJoined
      <4> QED BY <1>0, <2>1, <4>1
    <3>2. HeadOf(x) = g /\ RestOf(x) = r
      <4>1. x = g \o (Path \o r)
        BY <1>2, <3>1
      <4> QED BY <1>1, <4>1, TidyCut
    <3>3. PathOf(r) = path
      BY <3>1 DEF PathOf
    <3>4. p \in Seq(Chars) /\ p # <<>>
      <4>1. Path \o r \in Seq(Chars)
        BY Signs, Joint
      <4> QED BY <3>1, <4>1 DEF Ends
    <3> QED BY <1>4, <3>1, <3>2, <3>3, <3>4
  <2>2. CASE path = <<>> /\ p = Path
    <3>1. Ends(Path) /\ Path # <<>>
      <4>1. Path # <<>>
        BY Separators DEF Separator
      <4>2. Colon \notin Spaces
        BY TextAssumption DEF Colon, Punctuation
      <4> QED BY <4>1, <4>2, Signs DEF Ends
    <3>2. <<>> \in Seq(Chars) /\ Path \o <<>> = Path
      <4>1. <<>> \in Seq(Chars)
        OBVIOUS
      <4> QED BY <4>1, Signs, NoneAfter
    <3>3. HeadOf(x) = g /\ RestOf(x) = <<>>
      <4>1. x = g \o (Path \o <<>>)
        BY <1>2, <2>2, <3>2
      <4> QED BY <1>1, <3>2, <4>1, TidyCut
    <3> QED BY <1>4, <2>2, <3>1, <3>3, Signs DEF PathOf
  <2>3. CASE path = <<>> /\ p # Path
    <3>1. p = <<>>
      BY <1>0, <1>3, <2>3, JoinedIs
    <3>2. x = g
      BY <1>1, <1>2, <3>1, NoneAfter
    <3>3. Trim(g, Spaces) = g
      BY <1>1, TrimsNothing
    <3>4. HeadOf(g) = g /\ RestOf(g) = <<>>
      BY <1>1 DEF HeadOf, RestOf, Tidy
    <3> QED BY <1>1, <2>3, <3>2, <3>3, <3>4 DEF PathOf
  <2> QED BY <2>1, <2>2, <2>3
<1>6. RustParse(x) = Reads(x)
  BY <1>5, RustReads
<1>7. Reads(x) = Parsed(c, ver, path)
  BY <1>1, <1>3, <1>5 DEF Reads
<1> QED BY <1>6, <1>7

\* There is no other way of writing a spec.
LEMMA WrittenIs ==
    ASSUME NEW s, NEW x \in Written(s)
    PROVE  Spelled(x, s.crate, s.version, s.path)
<1> DEFINE vs == {At \o s.version} \cup (IF s.version = Latest THEN {<<>>} ELSE {})
           ps == {Joined[s.path]} \cup (IF s.path = <<>> THEN {Path} ELSE {})
<1>1. Written(s) = {s.crate \o v \o p : v \in vs, p \in ps}
  BY DEF Written
<1>2. ASSUME NEW W, NEW c, NEW Vs, NEW Ps, NEW w \in W,
             W = {c \o v \o p : v \in Vs, p \in Ps}
      PROVE  \E v \in Vs, p \in Ps : w = c \o v \o p
  BY <1>2
<1>3. \E v \in vs, p \in ps : x = s.crate \o v \o p
  <2> HIDE DEF vs, ps
  <2>1. PICK W, c, Vs, Ps : W = Written(s) /\ c = s.crate /\ Vs = vs /\ Ps = ps
    OBVIOUS
  <2>2. W = {c \o v \o p : v \in Vs, p \in Ps}
    BY <1>1, <2>1
  <2>3. x \in W
    BY <2>1
  <2>4. \E v \in Vs, p \in Ps : x = c \o v \o p
    BY <1>2, <2>2, <2>3
  <2> QED BY <2>1, <2>4
<1>4. PICK v \in vs, p \in ps : x = s.crate \o v \o p
  BY <1>3
<1>5. v = At \o s.version \/ (s.version = Latest /\ v = <<>>)
  OBVIOUS
<1>6. p = Joined[s.path] \/ (s.path = <<>> /\ p = Path)
  OBVIOUS
<1> QED BY <1>4, <1>5, <1>6 DEF Spelled

\* ParseInvertsWriting: what ItemSpec::parse reads is written by the text it read
\* it off, and every way of writing it is read as the same again, for names,
\* versions and paths of any length.
THEOREM ParsedIsWritten == ParseSpec => []ParseInvertsWriting
<1>1. ParseInv => ParseInvertsWriting
  <2> SUFFICES ASSUME ParseInv, RustParse(spec) # None
               PROVE  /\ Trim(spec, Spaces) \in Written(RustParse(spec))
                      /\ Clean(RustParse(spec).version) =>
                            \A text \in Written(RustParse(spec)) :
                                RustParse(text) = RustParse(spec)
    BY DEF ParseInvertsWriting
  <2> DEFINE t == Trim(spec, Spaces)
  <2>1. t \in Seq(Chars)
    <3>1. spec \in Seq(Chars)
      BY ParseAssumption DEF ParseInv
    <3> QED BY <3>1, Trimmed
  <2>2. PICK s : s = RustParse(spec) /\ s = Reads(t) /\ s # None
    BY RustReads
  <2> HIDE DEF t
  <2>3. /\ Named(t, s)
        /\ s = Parsed(NameOf(HeadOf(t)), VersionOf(HeadOf(t)), PathOf(RestOf(t)))
    BY <2>2, ReadsNamed
  <2>4. t \in Written(s)
    BY <2>1, <2>3, WritesItself
  <2>5. Sound(s.crate, s.version, s.path) /\ s = Parsed(s.crate, s.version, s.path)
    <3>1. /\ s.crate = NameOf(HeadOf(t)) /\ s.version = VersionOf(HeadOf(t))
          /\ s.path = PathOf(RestOf(t))
          /\ ValidName(s.crate) /\ s.version # <<>> /\ Idents(s.path)
      BY <2>3 DEF Named
    <3>2. HeadOf(t) \in Seq(Chars) /\ RestOf(t) \in Seq(Chars)
      BY <2>1, HeadAndRest
    <3>3. NameOf(HeadOf(t)) \in Seq(Chars) /\ VersionOf(HeadOf(t)) \in Seq(Chars)
      BY <3>2, WritesName
    <3>4. PathOf(RestOf(t)) \in Seq(Seq(Chars))
      <4>1. <<>> \in Seq(Seq(Chars))
        OBVIOUS
      <4> QED BY <3>2, <4>1, SplitIs DEF PathOf
    <3>5. ~Has(VersionOf(HeadOf(t)), Path)
      BY <2>1, NoPathBefore
    <3> QED BY <2>3, <3>1, <3>3, <3>4, <3>5 DEF Sound
  <2>6. ASSUME Clean(s.version), NEW text \in Written(s) PROVE RustParse(text) = s
    <3>1. PICK c, ver, path : c = s.crate /\ ver = s.version /\ path = s.path
      OBVIOUS
    <3>2. Sound(c, ver, path) /\ Clean(ver) /\ Spelled(text, c, ver, path)
      BY <2>5, <2>6, <3>1, WrittenIs
    <3>3. RustParse(text) = Parsed(c, ver, path)
      BY <3>2, ReadBack
    <3> QED BY <2>5, <3>1, <3>3
  <2> QED BY <2>2, <2>4, <2>6 DEF t
<1> QED BY <1>1, Parsing, PTL

-----------------------------------------------------------------------------
(* The two Workers                                                         *)

\* Slashed is the function its definition says, and no space is in what it makes.
LEMMA SlashedIs ==
    ASSUME NEW segs \in Seq(Segments)
    PROVE  /\ Slashed[segs] \in Seq(Chars \ Spaces)
           /\ segs = <<>> => Slashed[segs] = <<>>
           /\ segs # <<>> => Slashed[segs] = (<<"/">> \o Head(segs)) \o Slashed[Tail(segs)]
<1> DEFINE T == Seq(Segments)
           A == Seq(Chars \ Spaces)
           slash == <<"/">>
           shorter == [q \in T |-> IF q = <<>> THEN <<>> ELSE Tail(q)]
           base == [q \in T |-> <<>>]
           step == [x \in T \X A |-> IF x[1] = <<>> THEN <<>>
                                     ELSE (slash \o Head(x[1])) \o x[2]]
<1>1. <<>> \in T /\ <<>> \in A /\ slash \in A
  <2>1. "/" \in Chars \ Spaces
    BY TextAssumption DEF Chars, Punctuation
  <2> QED BY <2>1, One
<1>2. \A q \in T : q # <<>> => Head(q) \in A /\ Tail(q) \in T /\ Len(Tail(q)) < Len(q)
  <2> TAKE q \in T
  <2> HAVE q # <<>>
  <2>1. Head(q) \in Segments /\ Tail(q) \in T /\ Len(Tail(q)) < Len(q)
    BY HeadAndTail
  <2>2. Segments \in SUBSET A
    BY DEF Segments
  <2> QED BY <2>1, <2>2
<1> HIDE DEF slash
<1>3. shorter \in [T -> T] /\ base \in [T -> A]
  BY <1>1, <1>2
<1>4. step \in [T \X A -> A]
  <2>1. ASSUME NEW q \in T, NEW a \in A, q # <<>> PROVE (slash \o Head(q)) \o a \in A
    <3>1. Head(q) \in A
      BY <1>2, <2>1
    <3>2. slash \o Head(q) \in A
      BY <1>1, <3>1, Joint
    <3> QED BY <3>2, Joint
  <2>2. ASSUME NEW x \in T \X A
        PROVE (IF x[1] = <<>> THEN <<>> ELSE (slash \o Head(x[1])) \o x[2]) \in A
    <3>1. x[1] \in T /\ x[2] \in A
      OBVIOUS
    <3> QED BY <1>1, <2>1, <3>1
  <2> QED BY <2>2
<1>5. Recursion(Segments, A, {<<>>}, shorter, base, step)
  <2>1. \A q \in T \ {<<>>} : Len(shorter[q]) < Len(q)
    BY <1>2
  <2> HIDE DEF shorter, base, step, A
  <2> QED BY <1>1, <1>3, <1>4, <2>1 DEF Recursion
<1>6. PICK f : Solves(f, Segments, A, {<<>>}, shorter, base, step)
  <2> HIDE DEF A, shorter, base, step
  <2> QED BY <1>5, SuffixRecursion
<1>7. ASSUME NEW q \in T
      PROVE  f[q] = IF q = <<>> THEN <<>> ELSE (slash \o Head(q)) \o f[Tail(q)]
  <2>1. f \in [T -> A]
    BY <1>6 DEF Solves
  <2>2. CASE q = <<>>
    <3>1. f[q] = base[q]
      BY <1>6, <2>2 DEF Solves
    <3> QED BY <2>2, <3>1
  <2>3. CASE q # <<>>
    <3>1. shorter[q] = Tail(q) /\ Tail(q) \in T
      BY <1>2, <2>3
    <3>2. f[q] = step[<<q, f[Tail(q)]>>]
      <4>1. f[q] = step[<<q, f[shorter[q]]>>]
        BY <1>6, <2>3 DEF Solves
      <4> QED BY <3>1, <4>1
    <3>3. PICK a \in A : a = f[Tail(q)]
      BY <2>1, <3>1
    <3>4. step[<<q, a>>] = (slash \o Head(q)) \o a
      BY <2>3
    <3> QED BY <2>3, <3>2, <3>3, <3>4
  <2> QED BY <2>2, <2>3
<1>8. f = [q \in Seq(Segments) |->
              IF q = <<>> THEN <<>> ELSE <<"/">> \o Head(q) \o f[Tail(q)]]
  <2>1. f = [q \in Seq(Segments) |-> f[q]]
    <3> HIDE DEF A, shorter, base, step
    <3> QED BY <1>6 DEF Solves
  <2> QED BY <1>7, <2>1 DEF slash
<1>9. Slashed = [q \in Seq(Segments) |->
              IF q = <<>> THEN <<>> ELSE <<"/">> \o Head(q) \o Slashed[Tail(q)]]
  BY <1>8 DEF Slashed
<1>10. ASSUME NEW q \in T
       PROVE  /\ q = <<>> => Slashed[q] = <<>>
              /\ q # <<>> => Slashed[q] = (slash \o Head(q)) \o Slashed[Tail(q)]
  BY <1>9 DEF slash
<1> DEFINE P == {q \in T : Slashed[q] \in A}
<1>11. ASSUME NEW q \in T, \A t \in T : Len(t) < Len(q) => t \in P
       PROVE  q \in P
  <2>1. CASE q = <<>>
    BY <1>1, <1>10, <2>1
  <2>2. CASE q # <<>>
    <3>1. Head(q) \in A /\ Slashed[Tail(q)] \in A
      BY <1>2, <1>11, <2>2
    <3>2. slash \o Head(q) \in A
      BY <1>1, <3>1, Joint
    <3>3. (slash \o Head(q)) \o Slashed[Tail(q)] \in A
      BY <3>1, <3>2, Joint
    <3> QED BY <1>10, <2>2, <3>3
  <2> QED BY <2>1, <2>2
<1>12. P = T
  <2> HIDE DEF A
  <2> QED BY <1>11, ByLength
<1>13. Slashed[segs] \in A
  BY <1>12
<1> QED BY <1>10, <1>13 DEF slash

\* Two texts together begin as the first does.
LEMMA FirstOf ==
    ASSUME NEW S, NEW x \in Seq(S), NEW y \in Seq(S), x # <<>>
    PROVE  x \o y # <<>> /\ (x \o y)[1] = x[1]
<1>1. Len(x) \in Nat /\ Len(x) # 0 /\ Len(y) \in Nat
  BY Length
<1>2. 1 \in 1..Len(x)
  BY <1>1
<1>3. x \o y \in Seq(S) /\ Len(x \o y) = Len(x) + Len(y) /\ (x \o y)[1] = x[1]
  BY <1>2, Joint
<1>4. Len(x \o y) # 0
  BY <1>1, <1>3
<1> QED BY <1>3, <1>4, Length

Slash == "/"

\* No slash is in a name, and what follows the name in a text is "@" or "::".
LEMMA NoSlash ==
    ASSUME NEW x \in Seq(Chars), ValidName(x)
    PROVE  \A i \in 1..Len(x) : x[i] # Slash
<1>1. /\ x # <<>> /\ Head(x) \in Letters
      /\ \A i \in DOMAIN Tail(x) : Tail(x)[i] \in Letters \cup Digits \cup {"-", "_"}
  BY DEF ValidName, Word
<1>2. /\ Head(x) = x[1] /\ Tail(x) \in Seq(Chars) /\ Len(Tail(x)) = Len(x) - 1
      /\ \A i \in 1..Len(Tail(x)) : Tail(x)[i] = x[i + 1]
  BY <1>1, HeadAndTail
<1>3. DOMAIN Tail(x) = 1..Len(Tail(x)) /\ Len(x) \in Nat
  <2>1. \A y \in Seq(Chars) : DOMAIN y = 1..Len(y) /\ Len(y) \in Nat
    OBVIOUS
  <2> QED BY <1>2, <2>1
<1>4. ASSUME NEW c \in Letters \cup Digits \cup {"-", "_"} PROVE c # Slash
  <2>1. Slash \in Punctuation /\ "-" # Slash /\ "_" # Slash
    BY DEF Punctuation, Slash
  <2> QED BY <2>1, TextAssumption
<1> TAKE i \in 1..Len(x)
<1>5. CASE i = 1
  BY <1>1, <1>2, <1>4, <1>5
<1>6. CASE i # 1
  <2>1. i - 1 \in 1..Len(Tail(x)) /\ i - 1 + 1 = i
    BY <1>2, <1>3, <1>6
  <2>2. Tail(x)[i - 1] = x[i]
    BY <1>2, <2>1
  <2>3. Tail(x)[i - 1] \in Letters \cup Digits \cup {"-", "_"}
    BY <1>1, <1>3, <2>1
  <2> QED BY <1>4, <2>2, <2>3
<1> QED BY <1>5, <1>6

LEMMA AfterName ==
    ASSUME NEW t \in Seq(Chars), Reads(t) # None
    PROVE  \E n \in Seq(Chars), u \in Seq(Chars) :
               /\ ValidName(n) /\ t = n \o u
               /\ u # <<>> => u[1] = AtSign \/ u[1] = Colon
<1> DEFINE h == HeadOf(t)
           n == NameOf(h)
           path == PathOf(RestOf(t))
<1>1. ValidName(n)
  BY ReadsNamed DEF Named
<1>2. h \in Seq(Chars) /\ RestOf(t) \in Seq(Chars)
  BY HeadAndRest
<1>3. path \in Seq(Seq(Chars))
  <2>1. <<>> \in Seq(Seq(Chars))
    OBVIOUS
  <2> QED BY <1>2, <2>1, SplitIs DEF PathOf
<1> HIDE DEF h, path
<1>4. /\ n \in Seq(Chars) /\ VersionOf(h) \in Seq(Chars)
      /\ h = n \o (At \o VersionOf(h)) \/ h = n \o <<>>
  BY <1>2, WritesName
<1> HIDE DEF n
<1>5. PICK v \in Seq(Chars) : h = n \o v /\ (v # <<>> => v[1] = AtSign)
  <2>1. CASE h = n \o (At \o VersionOf(h))
    <3>1. At # <<>>
      BY Separators DEF Separator
    <3>2. At \o VersionOf(h) \in Seq(Chars) /\ (At \o VersionOf(h))[1] = At[1]
      BY <1>4, <3>1, Signs, Joint, FirstOf
    <3> QED BY <2>1, <3>2, Signs
  <2>2. CASE h = n \o <<>>
    <3>1. <<>> \in Seq(Chars)
      OBVIOUS
    <3> QED BY <2>2, <3>1
  <2> QED BY <1>4, <2>1, <2>2
<1>6. PICK p \in Seq(Chars) : t = h \o p /\ (p # <<>> => p[1] = Colon)
  <2>1. CASE t = h \o Path
    BY <2>1, Signs
  <2>2. CASE t = h \o Joined[path]
    <3>1. Joined[path] \in Seq(Chars)
      BY <1>3, JoinedIs
    <3>2. ASSUME Joined[path] # <<>> PROVE Joined[path][1] = Colon
      <4>1. path # <<>>
        BY <1>3, <3>2, JoinedIs
      <4>2. Head(path) \in Seq(Chars) /\ Tail(path) \in Seq(Seq(Chars))
        BY <1>3, <4>1, HeadAndTail
      <4>3. PICK j \in Seq(Chars) : j = Joined[Tail(path)]
        BY <4>2, JoinedIs
      <4>4. Joined[path] = (Path \o Head(path)) \o j
        BY <1>3, <4>1, <4>3, JoinedIs
      <4>5. Path # <<>>
        BY Separators DEF Separator
      <4>6. PICK w \in Seq(Chars) : w = Path \o Head(path) /\ w # <<>> /\ w[1] = Colon
        <5>1. Path \o Head(path) \in Seq(Chars)
          BY <4>2, Signs, Joint
        <5>2. Path \o Head(path) # <<>> /\ (Path \o Head(path))[1] = Path[1]
          BY <4>2, <4>5, Signs, FirstOf
        <5> QED BY <5>1, <5>2, Signs
      <4>7. (w \o j)[1] = w[1]
        BY <4>6, FirstOf
      <4> QED BY <4>4, <4>6, <4>7
    <3> QED BY <2>2, <3>1, <3>2
  <2> QED BY <2>1, <2>2, WritesPath DEF h, path
<1>7. t = n \o (v \o p) /\ v \o p \in Seq(Chars)
  <2>1. v \o p \in Seq(Chars)
    BY Joint
  <2>2. (n \o v) \o p = n \o (v \o p)
    BY <1>4, Regroup
  <2> QED BY <1>5, <1>6, <2>1, <2>2
<1>8. ASSUME v \o p # <<>> PROVE (v \o p)[1] = AtSign \/ (v \o p)[1] = Colon
  <2>1. CASE v # <<>>
    BY <1>5, <2>1, FirstOf
  <2>2. CASE v = <<>>
    <3>1. v \o p = p
      BY <2>2, ConcatEmptySeq
    <3> QED BY <1>6, <1>8, <3>1
  <2> QED BY <2>1, <2>2
<1> QED BY <1>1, <1>4, <1>7, <1>8

\* A text that is a crate's name with a slash after it is no spec: to be one, its
\* name would have to go on past the slash, or end before.
LEMMA SlashReads ==
    ASSUME NEW c \in Seq(Chars), Plainly(c), NEW r \in Seq(Chars), r # <<>>, r[1] = Slash
    PROVE  Reads(c \o r) = None
<1> SUFFICES ASSUME Reads(c \o r) # None PROVE FALSE
  OBVIOUS
<1>1. PICK t \in Seq(Chars) :
          /\ t = c \o r /\ Len(t) = Len(c) + Len(r)
          /\ \A i \in 1..Len(c) : t[i] = c[i]
          /\ t[Len(c) + 1] = Slash
  <2>1. Len(r) \in Nat /\ Len(r) # 0
    BY Length
  <2>2. 1 \in 1..Len(r)
    BY <2>1
  <2>3. PICK t : t = c \o r
    OBVIOUS
  <2>4. /\ t \in Seq(Chars) /\ Len(t) = Len(c) + Len(r)
        /\ \A i \in 1..Len(c) : t[i] = c[i]
        /\ \A i \in 1..Len(r) : t[Len(c) + i] = r[i]
    BY <2>3, Joint
  <2>5. t[Len(c) + 1] = Slash
    BY <2>2, <2>4
  <2> QED BY <2>3, <2>4, <2>5
<1>2. PICK n \in Seq(Chars), u \in Seq(Chars) :
          /\ ValidName(n) /\ t = n \o u
          /\ u # <<>> => u[1] = AtSign \/ u[1] = Colon
  BY <1>1, AfterName
<1>3. /\ Len(c) \in Nat /\ Len(r) \in Nat /\ Len(r) # 0
      /\ Len(n) \in Nat /\ Len(u) \in Nat
  BY Length
<1>4. /\ Len(t) = Len(n) + Len(u)
      /\ \A i \in 1..Len(n) : t[i] = n[i]
      /\ \A i \in 1..Len(u) : t[Len(n) + i] = u[i]
  BY <1>2, Joint
<1>5. Len(n) <= Len(c)
  <2>1. ASSUME ~(Len(n) <= Len(c)) PROVE FALSE
    <3>1. Len(c) + 1 \in 1..Len(n)
      BY <1>3, <2>1
    <3>2. n[Len(c) + 1] = Slash
      BY <1>1, <1>4, <3>1
    <3> QED BY <1>2, <3>1, <3>2, NoSlash
  <2> QED BY <2>1
<1>6. t[Len(n) + 1] = AtSign \/ t[Len(n) + 1] = Colon
  <2>1. 1 \in 1..Len(u) /\ Len(u) # 0
    BY <1>1, <1>3, <1>4, <1>5
  <2>2. u # <<>>
    BY <2>1, Length
  <2> QED BY <1>2, <1>4, <2>1, <2>2
<1>7. CASE Len(n) = Len(c)
  <2>1. Slash # AtSign /\ Slash # Colon
    BY DEF Slash, AtSign, Colon
  <2> QED BY <1>1, <1>6, <1>7, <2>1
<1>8. CASE Len(n) # Len(c)
  <2>1. Len(n) + 1 \in 1..Len(c)
    BY <1>3, <1>5, <1>8
  <2>2. t[Len(n) + 1] = c[Len(n) + 1]
    BY <1>1, <2>1
  <2> QED BY <1>6, <2>1, <2>2 DEF Plainly
<1> QED BY <1>7, <1>8

\* A name alone is that crate, at the latest version.
LEMMA NameReads ==
    ASSUME NEW c \in Seq(Chars), ValidName(c)
    PROVE  Reads(c) = Parsed(c, Latest, <<>>)
<1>1. Plainly(c) /\ ~Has(c, Path) /\ ~Has(c, At)
  BY NamePlain, PlainTidy DEF Tidy
<1>2. HeadOf(c) = c /\ RestOf(c) = <<>> /\ NameOf(c) = c /\ VersionOf(c) = Latest
  BY <1>1 DEF HeadOf, RestOf, NameOf, VersionOf
<1>3. PathOf(<<>>) = <<>> /\ Idents(<<>>)
  BY DEF PathOf, Idents
<1>4. Latest # <<>>
  BY DEF Latest
<1> QED BY <1>2, <1>3, <1>4 DEF Reads

\* There is nothing to trim of a text with no space in it.
LEMMA PathTrims ==
    ASSUME NEW x \in Seq(Chars \ Spaces), x # <<>>
    PROVE  x \in Seq(Chars) /\ Trim(x, AsciiSpace) = x
<1>1. x \in Seq(Chars)
  OBVIOUS
<1>2. Len(x) \in Nat /\ Len(x) # 0
  BY Length
<1>3. 1 \in 1..Len(x) /\ Len(x) \in 1..Len(x)
  BY <1>2
<1>4. x[1] \in Chars \ Spaces /\ x[Len(x)] \in Chars \ Spaces
  BY <1>3, ElementOfSeq
<1>5. AsciiSpace \in SUBSET Spaces
  BY DEF Spaces
<1> QED BY <1>1, <1>4, <1>5, TrimsNothing DEF Ends

\* What the Zig Worker reads a path as, if it begins with a crate's name.
LEMMA PathRead ==
    ASSUME NEW s \in Seq(Segments), s # <<>>, ValidName(s[1])
    PROVE  ZigParse(PathText(s)) = IF Len(s) = 1 THEN Parsed(s[1], Latest, <<>>) ELSE None
<1>1. PICK c \in Segments, rest \in Seq(Segments) :
          c = Head(s) /\ c = s[1] /\ rest = Tail(s) /\ Len(rest) = Len(s) - 1
  BY HeadAndTail
<1>2. c \in Seq(Chars \ Spaces) /\ c \in Seq(Chars) /\ c # <<>> /\ Plainly(c)
  <2>1. c \in Seq(Chars \ Spaces) /\ c \in Seq(Chars)
    BY DEF Segments
  <2> QED BY <1>1, <2>1, NamePlain
<1>3. PICK x \in Seq(Chars \ Spaces) : x = Slashed[rest]
  BY SlashedIs
<1>4. PathText(s) = c \o x
  BY <1>1, <1>3 DEF PathText
<1>5. c \o x \in Seq(Chars \ Spaces) /\ c \o x # <<>>
  BY <1>2, Joint, FirstOf
<1>6. ZigParse(PathText(s)) = Reads(c \o x)
  <2>1. c \o x \in Seq(Chars) /\ Trim(c \o x, AsciiSpace) = c \o x
    BY <1>5, PathTrims
  <2> QED BY <1>4, <2>1, ZigReads
<1>7. Len(s) \in Nat /\ Len(s) # 0 /\ Len(rest) \in Nat /\ (rest = <<>> <=> Len(rest) = 0)
  BY Length
<1>8. CASE Len(s) = 1
  <2>1. x = <<>>
    <3>1. rest = <<>>
      BY <1>1, <1>7, <1>8
    <3> QED BY <1>3, <3>1, SlashedIs
  <2>2. c \o x = c
    BY <1>2, <2>1, NoneAfter
  <2>3. Reads(c) = Parsed(c, Latest, <<>>)
    BY <1>1, <1>2, NameReads
  <2> QED BY <1>1, <1>6, <1>8, <2>2, <2>3
<1>9. CASE Len(s) # 1
  <2>1. rest # <<>>
    BY <1>1, <1>7, <1>9
  <2>2. Head(rest) \in Seq(Chars \ Spaces) /\ Tail(rest) \in Seq(Segments)
    <3>1. Head(rest) \in Segments /\ Tail(rest) \in Seq(Segments)
      BY <2>1, HeadAndTail
    <3> QED BY <3>1 DEF Segments
  <2>3. PICK e \in Seq(Chars \ Spaces) : e = <<"/">> /\ e # <<>> /\ e[1] = Slash
    <3>1. "/" \in Chars \ Spaces
      BY TextAssumption DEF Chars, Punctuation
    <3> QED BY <3>1, One DEF Slash
  <2>4. PICK y \in Seq(Chars \ Spaces) : y = Slashed[Tail(rest)]
    BY <2>2, SlashedIs
  <2>5. x = (e \o Head(rest)) \o y
    BY <1>3, <2>1, <2>3, <2>4, SlashedIs
  <2>6. /\ e \o Head(rest) \in Seq(Chars \ Spaces)
        /\ e \o Head(rest) # <<>> /\ (e \o Head(rest))[1] = Slash
    BY <2>2, <2>3, Joint, FirstOf
  <2>7. x # <<>> /\ x[1] = Slash
    BY <2>5, <2>6, FirstOf
  <2>8. x \in Seq(Chars)
    OBVIOUS
  <2>9. Reads(c \o x) = None
    BY <1>2, <2>7, <2>8, SlashReads
  <2> QED BY <1>6, <1>9, <2>9
<1> QED BY <1>8, <1>9

\* A URL has a length.
LEMMA UrlHasLength ==
    ASSUME NEW s, s.crate \in Seq(Chars), s.version \in Seq(Chars),
           NEW segment, segment = <<>> \/ \E t \in Seq(Chars) : segment = <<"/">> \o t
    PROVE  BuildUrl(s, segment) # <<>>
<1>1. PICK a, b, z : a = "https://docs.rs/crate/" /\ b = "/" /\ z = "/json/57.zst"
  OBVIOUS
<1> DEFINE S == Chars \cup {a, b, z}
<1>2. PICK c \in Seq(S), v \in Seq(S) : c = s.crate /\ v = s.version
  OBVIOUS
<1>3. a \in S /\ b \in S /\ z \in S /\ Seq(Chars) \in SUBSET Seq(S) /\ <<>> \in Seq(S)
  OBVIOUS
<1> HIDE DEF S
<1>4. <<a>> \in Seq(S) /\ <<b>> \in Seq(S) /\ <<z>> \in Seq(S) /\ <<a>> # <<>>
  BY <1>3, One
<1>5. ASSUME NEW f \in Seq(S), f # <<>>, NEW g \in Seq(S)
      PROVE  f \o g \in Seq(S) /\ f \o g # <<>>
  BY <1>5, Joint, FirstOf
<1>6. PICK g \in Seq(S) : g = segment
  <2>1. \A t \in Seq(Chars) : <<b>> \o t \in Seq(S)
    <3>1. \A t \in Seq(Chars) : t \in Seq(S)
      BY <1>3
    <3> QED BY <1>4, <3>1, Joint
  <2>2. segment \in Seq(S)
    BY <1>1, <1>3, <2>1
  <2> QED BY <2>2
<1>7. PICK x \in Seq(S) : x = <<a>> \o c /\ x # <<>>
  BY <1>2, <1>4, <1>5
<1>8. PICK y \in Seq(S) : y = x \o <<b>> /\ y # <<>>
  BY <1>4, <1>5, <1>7
<1>9. PICK w \in Seq(S) : w = y \o v /\ w # <<>>
  BY <1>2, <1>5, <1>8
<1>10. PICK q \in Seq(S) : q = w \o g /\ q # <<>>
  BY <1>5, <1>6, <1>9
<1>11. q \o <<z>> # <<>>
  BY <1>4, <1>5, <1>10
<1> QED BY <1>1, <1>2, <1>6, <1>7, <1>8, <1>9, <1>10, <1>11 DEF BuildUrl

\* What the Zig Worker reads, and the URL it has for that.
Asked(q) == IF q.spec # NoQuery THEN q.spec ELSE PathText(q.segs)

UrlOf(parsed, t) == Resolved(parsed, IF t = NoQuery THEN <<>> ELSE t)

\* What the Zig build answers of a crate, a version and a target is the URL that
\* is downloaded for them, if it fits.
LEMMA UrlsAlike ==
    ASSUME NEW s, s # None, s.crate \in Seq(Chars), s.version \in Seq(Chars),
           NEW t, Given(t), t # <<>>, NEW i,
           i.crate = s.crate, i.version = s.version, i.target = t
    PROVE  /\ UrlOf(s, t) # <<>> => UrlOf(s, t) = DocsUrl(i)
           /\ UrlOf(s, t) = <<>> <=> Bytes(DocsUrl(i)) > OutCap
<1> DEFINE none == IF t = NoQuery THEN <<>> ELSE t
           segment == IF t = NoQuery THEN <<>> ELSE <<"/">> \o t
<1>1. Url(s, none) = BuildUrl(s, segment)
  <2>1. (IF none = <<>> THEN <<>> ELSE <<"/">> \o none) = segment
    OBVIOUS
  <2> HIDE DEF none, segment
  <2> QED BY <2>1 DEF Url
<1>2. DocsUrl(i) = BuildUrl(s, segment)
  BY DEF DocsUrl, BuildUrl
<1>3. BuildUrl(s, segment) # <<>>
  <2>1. segment = <<>> \/ \E w \in Seq(Chars) : segment = <<"/">> \o w
    BY DEF Given
  <2> HIDE DEF segment
  <2> QED BY <2>1, UrlHasLength
<1> HIDE DEF segment, none
<1>4. PICK url : url = BuildUrl(s, segment)
  OBVIOUS
<1>5. Resolved(s, none) = IF Bytes(url) > OutCap THEN <<>> ELSE url
  BY <1>1, <1>4 DEF Resolved, Write
<1> QED BY <1>2, <1>3, <1>4, <1>5 DEF none, UrlOf

\* ... and answers, with a URL or without.
LEMMA ZigAnswers ==
    ASSUME NEW q, NEW parsed, ZigParse(Asked(q)) = parsed
    PROVE  /\ UrlOf(parsed, q.target) = <<>> => ZigResponse(q).status = 400
           /\ UrlOf(parsed, q.target) # <<>> =>
                 ZigResponse(q).status = 200 /\ ZigResponse(q).url = UrlOf(parsed, q.target)
<1>1. PICK url : url = UrlOf(parsed, q.target)
  OBVIOUS
<1>2. ZigResponse(q) = IF url = <<>> THEN Text(400) ELSE [status |-> 200, url |-> url]
  BY <1>1 DEF ZigResponse, ResolvedWith, Asked, UrlOf
<1>3. Text(400).status = 400
  BY DEF Text
<1>4. [status |-> 200, url |-> url].status = 200 /\ [status |-> 200, url |-> url].url = url
  OBVIOUS
<1> QED BY <1>1, <1>2, <1>3, <1>4

\* What is rendered is answered with its spec.
LEMMA RenderedSpec ==
    ASSUME NEW i
    PROVE  /\ Rendered(i).spec = i /\ Rendered(i).status # 400
           /\ Rendered(i).status # 502 => i.crate \in DOMAIN Documented
<1> DEFINE A == i.crate \notin DOMAIN Documented \/ i.target = <<>>
           B == i.path = <<>> \/ i.path \in Documented[i.crate]
<1>1. Rendered(i) = [status |-> IF A THEN 502 ELSE IF B THEN 200 ELSE 404, spec |-> i]
  BY DEF Rendered
<1>2. ~A => i.crate \in DOMAIN Documented
  OBVIOUS
<1> HIDE DEF A, B
<1>3. Rendered(i).spec = i /\ Rendered(i).status = IF A THEN 502 ELSE IF B THEN 200 ELSE 404
  BY <1>1
<1> QED BY <1>2, <1>3

\* What the two Workers answer alike.
Alike(q, w, z) ==
    /\ q.spec # NoQuery /\ w.status = 400 => z.status = 400
    /\ w.spec # NoQuery /\ q.target # <<>> =>
          /\ z.status = 200 => z.url = DocsUrl(w.spec)
          /\ q.spec # NoQuery => (z.status = 400 <=> Bytes(DocsUrl(w.spec)) > OutCap)

\* A spec query is read alike and so answered alike, ...
LEMMA QueryAnswered ==
    ASSUME NEW q, q.spec # NoQuery, q.spec \in Seq(Chars), Given(q.target),
           Trim(q.spec, AsciiSpace) = Trim(q.spec, Spaces)
    PROVE  Alike(q, WorkerResponse(q), ZigResponse(q))
<1> DEFINE t == Trim(q.spec, Spaces)
           w == WorkerResponse(q)
           z == ZigResponse(q)
           i(s) == ItemSpec(s.crate, s.version, q.target, s.path)
<1>1. t \in Seq(Chars)
  BY Trimmed
<1>2. PICK s : s = RustParse(q.spec) /\ s = ZigParse(q.spec) /\ s = Reads(t)
  BY <1>1, RustReads, ZigReads
<1> HIDE DEF t
<1>3. w = IF s = None THEN Text(400) ELSE Rendered(i(s))
  BY <1>2 DEF WorkerResponse, SpecResponse
<1>4. PICK url : /\ url = UrlOf(s, q.target)
                 /\ url = <<>> => z.status = 400
                 /\ url # <<>> => z.status = 200 /\ z.url = url
  <2>1. ZigParse(Asked(q)) = s
    BY <1>2 DEF Asked
  <2> QED BY <2>1, ZigAnswers
<1> HIDE DEF w, z
<1>5. CASE s = None
  <2>1. w.spec = NoQuery
    BY <1>3, <1>5 DEF Text
  <2>2. z.status = 400
    BY <1>4, <1>5 DEF UrlOf, Resolved
  <2> QED BY <2>1, <2>2 DEF Alike, w, z
<1>6. CASE s # None
  <2>1. s.crate \in Seq(Chars) /\ s.version \in Seq(Chars)
    <3>1. s.crate = NameOf(HeadOf(t)) /\ s.version = VersionOf(HeadOf(t))
      BY <1>2, <1>6, ReadsNamed DEF Named
    <3> QED BY <1>1, <3>1, HeadAndRest, WritesName
  <2>2. PICK item : /\ item = i(s) /\ item.crate = s.crate /\ item.version = s.version
                    /\ item.target = q.target
    <3>1. i(s).crate = s.crate /\ i(s).version = s.version /\ i(s).target = q.target
      BY DEF ItemSpec
    <3> QED BY <3>1
  <2>3. w.spec = item /\ w.status # 400
    <3>1. w = Rendered(item)
      BY <1>3, <1>6, <2>2
    <3> QED BY <3>1, RenderedSpec
  <2>4. ASSUME q.target # <<>>
        PROVE  /\ z.status = 200 => z.url = DocsUrl(item)
               /\ z.status = 400 <=> Bytes(DocsUrl(item)) > OutCap
    <3>1. /\ url # <<>> => url = DocsUrl(item)
          /\ url = <<>> <=> Bytes(DocsUrl(item)) > OutCap
      BY <1>4, <1>6, <2>1, <2>2, <2>4, UrlsAlike
    <3> QED BY <1>4, <3>1
  <2> QED BY <2>3, <2>4 DEF Alike, w, z
<1> QED BY <1>5, <1>6

\* The first segment of a path that does not begin with a slash is the first
\* of what is left of it.
LEMMA FirstStays ==
    ASSUME NEW s \in Seq(Segments), s # <<>>, Head(s) # Empty
    PROVE  NonEmpty[s][1] = s[1]
<1>1. Head(s) \in Segments /\ Tail(s) \in Seq(Segments) /\ Head(s) = s[1]
  BY HeadAndTail
<1>2. PICK rest : rest = NonEmpty[Tail(s)] /\ rest \in Seq(Segments)
  BY <1>1, NonEmptyFilters
<1>3. NonEmpty[s] = <<Head(s)>> \o rest
  BY <1>2, NonEmptyIs
<1>4. PICK x \in Seq(Segments) : x = <<Head(s)>> \o rest /\ x # <<>> /\ Head(x) = Head(s)
  BY <1>1, <1>2, Onto
<1>5. x[1] = Head(x)
  BY <1>4, HeadAndTail
<1> QED BY <1>1, <1>3, <1>4, <1>5

\* ... and of a path, if the Rust Worker finds the crate that is its first
\* segment: the Zig Worker reads that crate or none.
LEMMA PathAnswered ==
    ASSUME NEW q, NEW s, s = q.segs, Fits(s), q.spec = NoQuery, Given(q.target),
           WorkerResponse(q).status # 502
    PROVE  Alike(q, WorkerResponse(q), ZigResponse(q))
<1> DEFINE w == WorkerResponse(q)
           z == ZigResponse(q)
<1>1. s \in Seq(Segments) /\ s # <<>>
  BY DEF Fits
<1> SUFFICES ASSUME w.spec # NoQuery, q.target # <<>>, z.status = 200
             PROVE  z.url = DocsUrl(w.spec)
  BY DEF Alike
<1>2. NonEmpty[s] # <<>> /\ w = PathResponse(q)
  <2>1. Text(200).spec = NoQuery
    BY DEF Text
  <2> QED BY <2>1 DEF WorkerResponse
<1>3. Head(s) # Empty /\ Head(s) = s[1] /\ s[1] \in Segments /\ Tail(s) \in Seq(Segments)
  <2>1. s # <<Empty>>
    BY <1>1, <1>2, NonEmptyOfEmpty
  <2> QED BY <1>1, <2>1, HeadAndTail DEF Fits
<1>4. NonEmpty[s][1] = s[1]
  BY <1>1, <1>3, FirstStays
<1>5. ValidName(s[1])
  <2>1. PICK i : i.crate = s[1] /\ w = Rendered(i)
    <3>1. PICK segs : segs = NonEmpty[s] /\ segs[1] = s[1]
      BY <1>4
    <3>2. \E v, p : w = Rendered(ItemSpec(segs[1], v, q.target, p))
      BY <1>2, <3>1 DEF PathResponse
    <3>3. \A v, p : ItemSpec(segs[1], v, q.target, p).crate = s[1]
      BY <3>1 DEF ItemSpec
    <3> QED BY <3>2, <3>3
  <2>2. s[1] \in DOMAIN Documented
    BY <2>1, RenderedSpec
  <2> QED BY <2>2, RoutesAssumption
<1>6. PICK read : read = ZigParse(PathText(s))
  OBVIOUS
<1>7. PICK url : url = UrlOf(read, q.target) /\ url # <<>> /\ z.url = url
  <2>1. ZigParse(Asked(q)) = read
    BY <1>6 DEF Asked
  <2>2. /\ UrlOf(read, q.target) = <<>> => z.status = 400
        /\ UrlOf(read, q.target) # <<>> => z.url = UrlOf(read, q.target)
    BY <2>1, ZigAnswers
  <2> QED BY <2>2
<1>8. read # None
  BY <1>7 DEF UrlOf, Resolved
<1>9. Len(s) = 1 /\ read = Parsed(s[1], Latest, <<>>)
  BY <1>1, <1>5, <1>6, <1>8, PathRead
<1>10. w = Rendered(ItemSpec(s[1], Latest, q.target, <<>>))
  <2>1. s[1] # Empty
    BY <1>3
  <2>2. NonEmpty[s] = <<s[1]>>
    BY <1>1, <1>9, <2>1, NonEmptyOfCrate
  <2> QED BY <1>2, <2>2, PathOfCrate
<1>11. PICK item : /\ item = ItemSpec(s[1], Latest, q.target, <<>>) /\ item.crate = s[1]
                   /\ item.version = Latest /\ item.target = q.target
  <2>1. \A c, v, t, p : /\ ItemSpec(c, v, t, p).crate = c /\ ItemSpec(c, v, t, p).version = v
                        /\ ItemSpec(c, v, t, p).target = t
    BY DEF ItemSpec
  <2> QED BY <2>1
<1>12. read.crate = s[1] /\ read.version = Latest
  BY <1>9 DEF Parsed
<1>13. s[1] \in Seq(Chars) /\ Latest \in Seq(Chars)
  <2>1. "latest" \in Chars
    BY DEF Chars
  <2> QED BY <1>3, <2>1 DEF Segments, Latest
<1>14. url = DocsUrl(item)
  BY <1>7, <1>8, <1>11, <1>12, <1>13, UrlsAlike
<1>15. w.spec = item
  BY <1>10, <1>11, RenderedSpec
<1> QED BY <1>7, <1>14, <1>15

\* WorkersAgree: of a spec in the query, of any length and with any "::" and "@",
\* the Zig Worker (index.ts) answers the URL that the Rust one (lib.rs) downloads,
\* or refuses it with it; of a path, which it reads as a spec, it has no other
\* crate's URL than the one the other finds.
THEOREM OneUrl == RoutesSpec => []WorkersAgree
<1>1. RoutesInv => WorkersAgree
  <2> SUFFICES ASSUME RoutesInv, worker # NoQuery, zigWorker # NoQuery,
                      IF request.spec = NoQuery THEN worker.status # 502
                      ELSE Trim(request.spec, AsciiSpace) = Trim(request.spec, Spaces)
               PROVE  Alike(request, worker, zigWorker)
    BY DEF WorkersAgree, Alike
  <2>1. Fits(request.segs) /\ Given(request.spec) /\ Given(request.target)
    BY RoutesAssumption DEF RoutesInv
  <2>2. worker = WorkerResponse(request) /\ zigWorker = ZigResponse(request)
    BY DEF RoutesInv
  <2>3. PICK q, s : q = request /\ s = request.segs
    OBVIOUS
  <2>4. CASE q.spec = NoQuery
    BY <2>1, <2>2, <2>3, <2>4, PathAnswered
  <2>5. CASE q.spec # NoQuery
    BY <2>1, <2>2, <2>3, <2>5, QueryAnswered DEF Given
  <2> QED BY <2>2, <2>3, <2>4, <2>5
<1> QED BY <1>1, Routing, PTL

-----------------------------------------------------------------------------
(* The walk of a crate                                                     *)

Calls == [module : Module(krate), path : Paths, next : Nat \ {0}]

\* A module's path leads to it, or to a module whose scope it is globbed into.
Worth(p, m) ==
    \E s \in Module(krate) : m \in GlobScope(krate, s) /\ PublicPath(krate, p, s)

HomeSound ==
    \A m \in DOMAIN home : home[m] # <<>> /\ Worth(home[m], m)

\* The calls in progress are for modules that were walked.
StackVisited == \A i \in DOMAIN stack : stack[i].module \in DOMAIN home

\* What the walk of m leaves of child c: its name in the index and, of a
\* module it gives a name or globs, a visit.
Handled(m, c) ==
    c \in DOMAIN krate.index =>
        LET it == krate.index[c] IN
        /\ it.kind # "use" /\ it.name # NoName =>
              /\ Append(home[m], it.name) \in DOMAIN out
              /\ it.kind = "module" => c \in visited
        /\ it.kind = "use" /\ it.target # NoId /\ ~it.glob =>
              /\ Append(home[m], it.name) \in DOMAIN out
              /\ it.target \in Module(krate) => it.target \in visited
        /\ it.kind = "use" /\ it.glob /\ it.target \in Module(krate) => it.target \in visited

Running(m) == \E i \in DOMAIN stack : stack[i].module = m

\* A call in progress is done with the children before its next, one that has
\* returned with all of them.
Progress ==
    /\ \A i \in DOMAIN stack : \A j \in DOMAIN Children(krate, stack[i].module) :
          j < stack[i].next => Handled(stack[i].module, Children(krate, stack[i].module)[j])
    /\ \A m \in DOMAIN home : ~Running(m) =>
          \A j \in DOMAIN Children(krate, m) : Handled(m, Children(krate, m)[j])
    /\ krate.root \in Module(krate) => krate.root \in visited

IInv ==
    /\ TypeOK /\ IndexSound /\ StackSound
    /\ HomeSound /\ StackVisited /\ Progress

-----------------------------------------------------------------------------
(* The public tree                                                         *)

\* A module is in its own scope, and what is globbed into a scope is in it.
LEMMA ScopeReflexive == ASSUME NEW K, NEW m \in Module(K) PROVE m \in GlobScope(K, m)
BY DEF GlobScope

LEMMA ScopeClosed ==
    ASSUME NEW K, NEW s, NEW m \in GlobScope(K, s), NEW t \in Module(K), GlobImports(K, m, t)
    PROVE  t \in GlobScope(K, s)
<1>1. ASSUME NEW S \in SUBSET Module(K), s \in S,
             \A a \in S, b \in Module(K) : GlobImports(K, a, b) => b \in S
      PROVE  t \in S
  <2>1. m \in S
    BY <1>1 DEF GlobScope
  <2> QED BY <1>1, <2>1
<1> QED BY <1>1 DEF GlobScope

LEMMA RootIsPublic == ASSUME NEW K PROVE PublicPath(K, RootPath, K.root)
<1> DEFINE id == K.root
           w == [i \in 1..1 |-> id]
<1>1. Len(RootPath) = 1 /\ RootPath[1] = CrateName
  BY DEF RootPath
<1>2. w \in [1..1 -> Module(K) \cup {K.root, id}] /\ w[1] = id
  OBVIOUS
<1> HIDE DEF w
<1>3. \A i \in 1..(1 - 1) : w[i] \in Module(K) /\ Opens(K, w[i], RootPath[i + 1], w[i + 1])
  OBVIOUS
<1>4. \E u \in [1..Len(RootPath) -> Module(K) \cup {K.root, id}] :
          /\ u[1] = K.root /\ RootPath[1] = CrateName
          /\ u[Len(RootPath)] = id
          /\ \A i \in 1..(Len(RootPath) - 1) :
                u[i] \in Module(K) /\ Opens(K, u[i], RootPath[i + 1], u[i + 1])
  BY <1>1, <1>2, <1>3
<1> QED BY <1>4 DEF PublicPath

\* A public path and a name of the scope it leads to are a public path.
LEMMA PathExtends ==
    ASSUME NEW p \in Paths, p # <<>>, NEW m, NEW n \in Names, NEW id,
           Worth(p, m), Declares(krate, m, n, id)
    PROVE  PublicPath(krate, Append(p, n), id)
<1> DEFINE K == krate
           l == Len(p)
           q == Append(p, n)
<1>1. PICK s \in Module(K) : m \in GlobScope(K, s) /\ PublicPath(K, p, s)
  BY DEF Worth
<1>2. PICK w \in [1..l -> Module(K) \cup {K.root, s}] :
          /\ w[1] = K.root /\ p[1] = CrateName
          /\ w[l] = s
          /\ \A i \in 1..(l - 1) : w[i] \in Module(K) /\ Opens(K, w[i], p[i + 1], w[i + 1])
  BY <1>1 DEF PublicPath
<1>3. /\ l \in Nat \ {0} /\ Len(q) = l + 1
      /\ \A i \in 1..l : q[i] = p[i]
      /\ q[l + 1] = n
  BY DEF Paths
<1> DEFINE v == [i \in 1..(l + 1) |-> IF i = l + 1 THEN id ELSE w[i]]
<1>4. /\ v \in [1..(l + 1) -> Module(K) \cup {K.root, id}]
      /\ v[l + 1] = id /\ \A i \in 1..l : v[i] = w[i]
  BY <1>1, <1>2, <1>3
<1>5. Opens(K, s, n, id)
  BY <1>1 DEF Opens
<1> HIDE DEF v, q, l
<1>6. ASSUME NEW i \in 1..l
      PROVE  v[i] \in Module(K) /\ Opens(K, v[i], q[i + 1], v[i + 1])
  <2>1. CASE i = l
    BY <1>1, <1>2, <1>3, <1>4, <1>5, <2>1
  <2>2. CASE i # l
    <3>1. i \in 1..(l - 1) /\ i + 1 \in 1..l
      BY <1>3, <2>2
    <3> QED BY <1>2, <1>3, <1>4, <3>1
  <2> QED BY <2>1, <2>2
<1>7. v[1] = K.root /\ q[1] = CrateName
  BY <1>2, <1>3, <1>4
<1>8. Len(q) - 1 = l
  BY <1>3
<1>9. PublicPath(K, q, id)
  BY <1>3, <1>4, <1>6, <1>7, <1>8 DEF PublicPath
<1> QED BY <1>9 DEF q

-----------------------------------------------------------------------------
(* The stack                                                               *)

\* A sequence with one more element in front.
LEMMA PushedIs ==
    ASSUME NEW S, NEW f \in S, NEW s \in Seq(S)
    PROVE  /\ <<f>> \o s \in Seq(S)
           /\ Len(<<f>> \o s) = 1 + Len(s)
           /\ 1 \in DOMAIN (<<f>> \o s) /\ (<<f>> \o s)[1] = f
           /\ \A i \in DOMAIN s : i + 1 \in DOMAIN (<<f>> \o s) /\ (<<f>> \o s)[i + 1] = s[i]
           /\ \A i \in DOMAIN (<<f>> \o s) : i # 1 => i - 1 \in DOMAIN s /\ i - 1 + 1 = i
<1> DEFINE g == <<f>>
<1>1. g \in Seq(S) /\ Len(g) = 1 /\ g[1] = f
  OBVIOUS
<1> HIDE DEF g
<1>2. Len(s) \in Nat /\ DOMAIN s = 1..Len(s)
  OBVIOUS
<1>3. /\ g \o s \in Seq(S) /\ Len(g \o s) = 1 + Len(s)
      /\ \A i \in 1..(1 + Len(s)) : (g \o s)[i] = IF i <= 1 THEN g[i] ELSE s[i - 1]
  <2>1. /\ g \o s \in Seq(S)
        /\ Len(g \o s) = Len(g) + Len(s)
        /\ \A i \in 1..Len(g) + Len(s) : (g \o s)[i] = IF i <= Len(g) THEN g[i] ELSE s[i - Len(g)]
    BY <1>1, ConcatProperties, Zenon
  <2> QED BY <1>1, <2>1
<1>4. DOMAIN (g \o s) = 1..(1 + Len(s))
  BY <1>3
<1>5. (g \o s)[1] = f /\ \A i \in 1..Len(s) : (g \o s)[i + 1] = s[i]
  <2>1. (g \o s)[1] = g[1]
    BY <1>2, <1>3
  <2>2. ASSUME NEW i \in 1..Len(s) PROVE (g \o s)[i + 1] = s[i]
    <3>1. i + 1 \in 1..(1 + Len(s)) /\ ~(i + 1 <= 1) /\ i + 1 - 1 = i
      BY <1>2
    <3> QED BY <1>3, <3>1
  <2> QED BY <1>1, <2>1, <2>2
<1> QED BY <1>2, <1>3, <1>4, <1>5 DEF g
LEMMA AdvancedIs ==
    ASSUME TypeOK, AtChild
    PROVE  /\ Top \in Calls /\ stack # <<>> /\ 1 \in DOMAIN stack /\ Top = stack[1]
           /\ Advanced \in Seq(Calls) /\ DOMAIN Advanced = DOMAIN stack
           /\ Advanced[1] = [Top EXCEPT !.next = @ + 1]
           /\ \A i \in DOMAIN stack : i # 1 => Advanced[i] = stack[i]
<1>1. stack \in Seq(Calls) /\ stack # <<>>
  BY DEF AtChild, TypeOK, Calls
<1>2. /\ Len(stack) \in Nat \ {0} /\ DOMAIN stack = 1..Len(stack)
      /\ Top = stack[1] /\ Top \in Calls
      /\ Tail(stack) \in Seq(Calls) /\ Len(Tail(stack)) = Len(stack) - 1
      /\ \A i \in 1..(Len(stack) - 1) : Tail(stack)[i] = stack[i + 1]
  BY <1>1 DEF Top
<1> DEFINE f == [Top EXCEPT !.next = @ + 1]
           t == Tail(stack)
<1>3. f \in Calls
  BY <1>2 DEF Calls
<1> HIDE DEF f, t
<1>4. /\ <<f>> \o t \in Seq(Calls) /\ Len(<<f>> \o t) = 1 + Len(t)
      /\ (<<f>> \o t)[1] = f
      /\ \A i \in DOMAIN t : (<<f>> \o t)[i + 1] = t[i]
  BY <1>2, <1>3, PushedIs DEF t
<1>5. Advanced = <<f>> \o t
  BY DEF Advanced, f, t
<1>6. ASSUME NEW i \in 1..Len(stack), i # 1 PROVE Advanced[i] = stack[i]
  <2>1. i - 1 \in 1..(Len(stack) - 1) /\ i - 1 + 1 = i /\ DOMAIN t = 1..(Len(stack) - 1)
    BY <1>2, <1>6 DEF t
  <2> QED BY <1>2, <1>4, <1>5, <2>1 DEF t
<1>7. Len(Advanced) = Len(stack)
  BY <1>2, <1>4, <1>5 DEF t
<1>8. Advanced \in Seq(Calls) /\ Advanced[1] = f
  BY <1>4, <1>5
<1>9. DOMAIN Advanced = DOMAIN stack
  BY <1>2, <1>7, <1>8
<1> QED BY <1>1, <1>2, <1>6, <1>8, <1>9 DEF f

\* A module's children are a list of ids.
LEMMA ChildrenTyped ==
    ASSUME NEW K, IsKrate(K), NEW m \in Module(K)
    PROVE  /\ Children(K, m) \in Seq(Ids) /\ m \in Ids
           /\ DOMAIN Children(K, m) = 1..Len(Children(K, m))
           /\ \A j \in DOMAIN Children(K, m) : j \in Nat \ {0} /\ Children(K, m)[j] \in Ids
BY DEF Children, IsKrate, Module, Items

-----------------------------------------------------------------------------
(* One step                                                                *)

\* What a step may do to the index: add names to it that are public.
Grows(K) ==
    /\ DOMAIN out \subseteq DOMAIN out'
    /\ \A q \in DOMAIN out' : q \in Paths /\ out'[q] \in Ids /\ PublicPath(K, q, out'[q])

\* or_insert adds a public path, and leaves what was there.
LEMMA OrInsertGrows ==
    ASSUME IInv, NEW p \in Paths, NEW id \in Ids, PublicPath(krate, p, id),
           out' = OrInsert(p, id)
    PROVE  Grows(krate) /\ p \in DOMAIN out'
BY DEF IInv, TypeOK, IndexSound, OrInsert, Grows

\* What was handled stays so while index, visits and homes only grow.
LEMMA HandledStays ==
    ASSUME NEW m, NEW c, Handled(m, c), krate' = krate, home'[m] = home[m],
           visited \subseteq visited', DOMAIN out \subseteq DOMAIN out'
    PROVE  Handled(m, c)'
BY DEF Handled, Module

LEMMA InitIInv == ASSUME Init PROVE IInv
<1>1. /\ krate \in Krates /\ IsKrate(krate) /\ krate.root \in Ids
      /\ out = [p \in {RootPath} |-> krate.root] /\ visited = {krate.root}
  BY KratesAssumption DEF Init, IsKrate
<1>2. RootPath \in Paths /\ RootPath # <<>>
  BY NamesAssumption DEF RootPath, Paths
<1>3. IndexSound
  BY <1>1, RootIsPublic DEF IndexSound
<1>4. CASE krate.root \notin Module(krate)
  <2>1. stack = <<>> /\ DOMAIN home = {} /\ DOMAIN stack = {}
    BY <1>4 DEF Init
  <2>2. TypeOK
    BY <1>1, <1>2, <1>4, <2>1 DEF TypeOK
  <2> QED BY <1>1, <1>3, <1>4, <2>1, <2>2 DEF IInv, StackSound, HomeSound, StackVisited, Progress
<1>5. CASE krate.root \in Module(krate)
  <2> DEFINE r == krate.root
             f == Frame(r, RootPath)
  <2>1. stack = <<f>> /\ home = [m \in {r} |-> RootPath]
    BY <1>5 DEF Init
  <2>2. f \in Calls /\ f.module = r /\ f.path = RootPath /\ f.next = 1
    BY <1>2, <1>5 DEF Frame, Calls
  <2> HIDE DEF f
  <2>3. stack \in Seq(Calls) /\ DOMAIN stack = {1} /\ stack[1] = f
    BY <2>1, <2>2
  <2>4. DOMAIN home = {r} /\ home[r] = RootPath
    BY <2>1
  <2>5. TypeOK
    BY <1>1, <1>2, <1>5, <2>3, <2>4 DEF TypeOK, Calls
  <2>6. StackSound /\ StackVisited
    BY <2>2, <2>3, <2>4 DEF StackSound, StackVisited
  <2>7. HomeSound
    BY <1>2, <1>5, <2>4, RootIsPublic, ScopeReflexive DEF HomeSound, Worth
  <2>8. Progress
    <3>1. ASSUME NEW j \in DOMAIN Children(krate, r), j < 1 PROVE FALSE
      BY <1>1, <1>5, <3>1 DEF Children, IsKrate, Module, Items
    <3>2. Running(r)
      BY <2>2, <2>3 DEF Running
    <3> QED BY <1>1, <2>2, <2>3, <2>4, <3>1, <3>2 DEF Progress
  <2> QED BY <1>3, <2>5, <2>6, <2>7, <2>8 DEF IInv
<1> QED BY <1>4, <1>5

\* The call at the top is done with its child, and no other begins.
LEMMA AdvanceIInv ==
    ASSUME IInv, AtChild, NEW t, t = Top.module, NEW c, c = ChildId,
           krate' = krate, stack' = Advanced, home' = home, visited' = visited,
           Grows(krate), Handled(t, c)'
    PROVE  IInv'
<1>1. TypeOK /\ IsKrate(krate)
  BY DEF IInv, TypeOK
<1>2. /\ 1 \in DOMAIN stack /\ Top = stack[1] /\ Top \in Calls
      /\ stack' \in Seq(Calls) /\ DOMAIN stack' = DOMAIN stack
      /\ stack'[1] = [Top EXCEPT !.next = @ + 1]
      /\ \A i \in DOMAIN stack : i # 1 => stack'[i] = stack[i]
  BY <1>1, AdvancedIs
<1>3. stack'[1].module = t /\ stack'[1].path = Top.path /\ stack'[1].next = Top.next + 1
  BY <1>2 DEF Calls
<1>4. \A i \in DOMAIN stack : stack'[i].module = stack[i].module /\ stack'[i].path = stack[i].path
  BY <1>2, <1>3
<1>5. Module(krate)' = Module(krate)
  BY DEF Module
<1>6. TypeOK'
  BY <1>1, <1>2, <1>5 DEF TypeOK, Calls, Grows
<1>7. IndexSound'
  BY DEF IndexSound, Grows
<1>8. StackSound' /\ StackVisited'
  BY <1>2, <1>4 DEF IInv, StackSound, StackVisited
<1>9. HomeSound'
  BY DEF IInv, HomeSound, Worth
<1>10. \A m, d : Handled(m, d) => Handled(m, d)'
  BY HandledStays DEF Grows
<1>11. Progress'
  <2>1. \A m : Running(m)' <=> Running(m)
    BY <1>2, <1>4 DEF Running
  <2>2. ASSUME NEW i \in DOMAIN stack, NEW m, m = stack[i].module,
               NEW j \in DOMAIN Children(krate, m), j < stack'[i].next,
               NEW d, d = Children(krate, m)[j]
        PROVE  Handled(m, d)'
    <3>1. CASE i = 1 /\ j = Top.next
      BY <1>2, <2>2, <3>1 DEF ChildId
    <3>2. CASE ~(i = 1 /\ j = Top.next)
      <4>1. stack[i] \in Calls
        <5>1. stack \in Seq(Calls)
          BY <1>1 DEF TypeOK, Calls
        <5> QED BY <2>2, <5>1
      <4>2. j \in Nat /\ stack[i].next \in Nat
        BY <1>1, <2>2, <4>1, ChildrenTyped DEF Calls
      <4>3. j < stack[i].next
        <5>1. CASE i = 1
          <6>1. stack'[i].next = stack[i].next + 1 /\ j # stack[i].next
            BY <1>2, <1>3, <3>2, <5>1
          <6> QED BY <2>2, <4>2, <6>1
        <5>2. CASE i # 1
          <6>1. stack'[i] = stack[i]
            BY <1>2, <2>2, <5>2
          <6> QED BY <2>2, <6>1
        <5> QED BY <5>1, <5>2
      <4>4. Handled(m, d)
        BY <2>2, <4>3 DEF IInv, Progress
      <4> QED BY <1>10, <4>4
    <3> QED BY <3>1, <3>2
  <2>3. ASSUME NEW m \in DOMAIN home, ~Running(m), NEW j \in DOMAIN Children(krate, m),
               NEW d, d = Children(krate, m)[j]
        PROVE  Handled(m, d)'
    BY <1>10, <2>3 DEF IInv, Progress
  <2>4. krate.root \in Module(krate) => krate.root \in visited
    BY DEF IInv, Progress
  <2>5. Children(krate, t)' = Children(krate, t) /\ \A m : Children(krate', m) = Children(krate, m)
    BY DEF Children
  <2> QED BY <1>2, <1>4, <1>5, <2>1, <2>2, <2>3, <2>4, <2>5 DEF Progress
<1> QED BY <1>6, <1>7, <1>8, <1>9, <1>11 DEF IInv

\* Another call begins, of module n under path p.
LEMMA EnterIInv ==
    ASSUME IInv, AtChild, NEW t, t = Top.module, NEW c, c = ChildId, krate' = krate,
           NEW n \in Module(krate), n \notin visited, visited' = visited \cup {n},
           NEW p \in Paths, p # <<>>, Worth(p, n),
           stack' = <<Frame(n, p)>> \o Advanced,
           home' = [m \in DOMAIN home \cup {n} |-> IF m = n THEN p ELSE home[m]],
           Grows(krate), Handled(t, c)'
    PROVE  IInv'
<1>1. TypeOK /\ IsKrate(krate) /\ DOMAIN home = visited \cap Module(krate) /\ n \notin DOMAIN home
  BY DEF IInv, TypeOK
<1>2. /\ 1 \in DOMAIN stack /\ Top = stack[1] /\ Top \in Calls
      /\ Advanced \in Seq(Calls) /\ DOMAIN Advanced = DOMAIN stack
      /\ Advanced[1] = [Top EXCEPT !.next = @ + 1]
      /\ \A i \in DOMAIN stack : i # 1 => Advanced[i] = stack[i]
  BY <1>1, AdvancedIs
<1>3. /\ \A i \in DOMAIN stack : /\ Advanced[i].module = stack[i].module
                               /\ Advanced[i].path = stack[i].path
      /\ Advanced[1].module = t /\ Advanced[1].next = Top.next + 1
  BY <1>2 DEF Calls
<1> DEFINE f == Frame(n, p)
<1>4. f \in Calls /\ f.module = n /\ f.path = p /\ f.next = 1
  BY DEF Frame, Calls
<1> HIDE DEF f
<1>5. /\ stack' \in Seq(Calls)
      /\ 1 \in DOMAIN stack' /\ stack'[1] = f
      /\ \A i \in DOMAIN stack : i + 1 \in DOMAIN stack' /\ stack'[i + 1] = Advanced[i]
      /\ \A i \in DOMAIN stack' : i # 1 => i - 1 \in DOMAIN stack /\ i - 1 + 1 = i
  BY <1>2, <1>4, PushedIs DEF f
<1>6. Module(krate)' = Module(krate) /\ n \in Ids
  BY <1>1, ChildrenTyped DEF Module
<1>7. /\ DOMAIN home' = DOMAIN home \cup {n} /\ home'[n] = p
      /\ \A m \in DOMAIN home : home'[m] = home[m]
  BY <1>1
<1>8. TypeOK'
  <2>1. stack' \in Seq([module : Module(krate), path : Paths, next : Nat \ {0}])
    BY <1>5 DEF Calls
  <2>2. DOMAIN home' = visited' \cap Module(krate) /\ visited' \subseteq Ids
    BY <1>1, <1>6, <1>7 DEF TypeOK
  <2>3. \A m \in DOMAIN home' : home'[m] \in Paths
    BY <1>1, <1>7 DEF TypeOK
  <2>4. DOMAIN out' \subseteq Paths /\ \A q \in DOMAIN out' : out'[q] \in Ids
    BY DEF Grows
  <2> QED BY <1>1, <1>6, <2>1, <2>2, <2>3, <2>4 DEF TypeOK
<1>9. IndexSound'
  BY DEF IndexSound, Grows
<1>10. \A i \in DOMAIN stack' :
           \/ i = 1 /\ stack'[i].module = n /\ stack'[i].path = p
           \/ /\ i # 1 /\ i - 1 \in DOMAIN stack /\ i - 1 + 1 = i
              /\ stack'[i].module = stack[i - 1].module /\ stack'[i].path = stack[i - 1].path
              /\ stack[i - 1].module \in DOMAIN home
  BY <1>3, <1>4, <1>5 DEF IInv, StackVisited
<1>11. StackVisited'
  BY <1>7, <1>10 DEF StackVisited
<1>12. StackSound'
  <2>1. ASSUME NEW i \in DOMAIN stack', NEW j \in DOMAIN stack',
               stack'[i].module = stack'[j].module
        PROVE  i = j
    <3>1. CASE i = 1 \/ j = 1
      BY <1>1, <1>10, <2>1, <3>1
    <3>2. CASE i # 1 /\ j # 1
      <4>1. /\ i - 1 \in DOMAIN stack /\ j - 1 \in DOMAIN stack
            /\ stack[i - 1].module = stack[j - 1].module
            /\ i - 1 + 1 = i /\ j - 1 + 1 = j
        BY <1>10, <2>1, <3>2
      <4>2. i - 1 = j - 1
        BY <4>1 DEF IInv, StackSound
      <4> QED BY <4>1, <4>2
    <3> QED BY <3>1, <3>2
  <2>2. \A i \in DOMAIN stack' : stack'[i].path = home'[stack'[i].module]
    BY <1>7, <1>10 DEF IInv, StackSound
  <2> QED BY <2>1, <2>2 DEF StackSound
<1>13. HomeSound'
  <2>1. \A m \in DOMAIN home : home[m] # <<>> /\ Worth(home[m], m)
    BY DEF IInv, HomeSound
  <2>2. \A m, q : Worth(q, m)' <=> Worth(q, m)
    BY <1>6 DEF Worth
  <2>3. \A m \in DOMAIN home' : home'[m] # <<>> /\ Worth(home'[m], m)
    BY <1>7, <2>1
  <2> QED BY <2>3 DEF HomeSound, Worth
<1>14. \A m \in DOMAIN home : \A d : Handled(m, d) => Handled(m, d)'
  BY <1>7, HandledStays DEF Grows
<1>15. ASSUME NEW i \in DOMAIN stack, NEW m, m = stack[i].module,
              NEW j \in DOMAIN Children(krate, m), j < Advanced[i].next,
              NEW d, d = Children(krate, m)[j]
       PROVE  Handled(m, d)'
  <2>1. CASE i = 1 /\ j = Top.next
    BY <1>2, <1>15, <2>1 DEF ChildId
  <2>2. CASE ~(i = 1 /\ j = Top.next)
    <3>1. stack[i] \in Calls
      <4>1. stack \in Seq(Calls)
        BY <1>1 DEF TypeOK, Calls
      <4> QED BY <1>15, <4>1
    <3>2. j \in Nat /\ stack[i].next \in Nat
      BY <1>1, <1>15, <3>1, ChildrenTyped DEF Calls
    <3>3. j < stack[i].next
      <4>1. CASE i = 1
        <5>1. Advanced[i].next = stack[i].next + 1 /\ j # stack[i].next
          BY <1>2, <1>3, <2>2, <4>1
        <5> QED BY <1>15, <3>2, <5>1
      <4>2. CASE i # 1
        BY <1>2, <1>15, <4>2
      <4> QED BY <4>1, <4>2
    <3>4. Handled(m, d) /\ m \in DOMAIN home
      BY <1>15, <3>3 DEF IInv, Progress, StackVisited
    <3> QED BY <1>14, <3>4
  <2> QED BY <2>1, <2>2
<1>16. Progress'
  <2>1. Running(n)' /\ \A m : Running(m) => Running(m)'
    <3>1. Running(n)'
      BY <1>4, <1>5 DEF Running
    <3>2. ASSUME NEW m, NEW i \in DOMAIN stack, stack[i].module = m PROVE Running(m)'
      <4>1. i + 1 \in DOMAIN stack' /\ stack'[i + 1].module = m
        BY <1>3, <1>5, <3>2
      <4> QED BY <4>1 DEF Running
    <3> QED BY <3>1, <3>2 DEF Running
  <2>2. ASSUME NEW i \in DOMAIN stack', NEW m, m = stack'[i].module,
               NEW j \in DOMAIN Children(krate, m), j < stack'[i].next,
               NEW d, d = Children(krate, m)[j]
        PROVE  Handled(m, d)'
    <3>1. CASE i = 1
      <4>1. m = n /\ stack'[i].next = 1
        BY <1>4, <1>5, <2>2, <3>1
      <4>2. j \in Nat \ {0}
        BY <1>1, <2>2, <4>1, ChildrenTyped
      <4> QED BY <2>2, <4>1, <4>2
    <3>2. CASE i # 1
      <4>1. i - 1 \in DOMAIN stack /\ stack'[i] = Advanced[i - 1] /\ m = stack[i - 1].module
        BY <1>3, <1>5, <2>2, <3>2
      <4> QED BY <1>15, <2>2, <4>1
    <3> QED BY <3>1, <3>2
  <2>3. ASSUME NEW m \in DOMAIN home', ~Running(m)', NEW j \in DOMAIN Children(krate, m),
               NEW d, d = Children(krate, m)[j]
        PROVE  Handled(m, d)'
    <3>1. m \in DOMAIN home /\ ~Running(m)
      BY <1>7, <2>1, <2>3
    <3> QED BY <1>14, <2>3, <3>1 DEF IInv, Progress
  <2>4. krate.root \in Module(krate) => krate.root \in visited'
    BY DEF IInv, Progress
  <2>5. \A m : Children(krate', m) = Children(krate, m)
    OBVIOUS
  <2> QED BY <1>6, <2>2, <2>3, <2>4, <2>5 DEF Progress
<1> QED BY <1>8, <1>9, <1>11, <1>12, <1>13, <1>16 DEF IInv

\* walk_module on a module of this crate: entered once, left at once after.
LEMMA WalkIInv ==
    ASSUME IInv, AtChild, NEW t, t = Top.module, NEW c, c = ChildId, krate' = krate,
           NEW n \in Module(krate), NEW p \in Paths, p # <<>>, Worth(p, n),
           Walk(n, p, Advanced), Grows(krate), Handled(t, c)'
    PROVE  IInv'
<1>1. CASE n \in visited
  <2>1. visited' = visited /\ stack' = Advanced /\ home' = home
    BY <1>1 DEF Walk
  <2> QED BY <2>1, AdvanceIInv
<1>2. CASE n \notin visited
  <2>1. /\ visited' = visited \cup {n} /\ stack' = <<Frame(n, p)>> \o Advanced
        /\ home' = [m \in DOMAIN home \cup {n} |-> IF m = n THEN p ELSE home[m]]
    BY <1>2 DEF Walk
  <2> QED BY <1>2, <2>1, EnterIInv
<1> QED BY <1>1, <1>2

LEMMA ReturnIInv == ASSUME IInv, Return PROVE IInv'
<1>1. /\ stack \in Seq(Calls) /\ stack # <<>> /\ stack' = Tail(stack)
      /\ UNCHANGED <<krate, out, visited, home>>
      /\ Top.next > Len(Children(krate, Top.module)) \/ ~(Top.next <= Len(Children(krate, Top.module)))
      /\ IsKrate(krate)
  BY DEF IInv, TypeOK, Calls, Return, AtChild
<1>2. /\ stack' \in Seq(Calls) /\ Top = stack[1] /\ 1 \in DOMAIN stack
      /\ \A i \in DOMAIN stack' : /\ i + 1 \in DOMAIN stack /\ stack'[i] = stack[i + 1]
                                /\ i \in Nat
      /\ \A i \in DOMAIN stack : i # 1 => i - 1 \in DOMAIN stack' /\ stack'[i - 1] = stack[i]
  BY <1>1 DEF Top
<1>3. TypeOK'
  BY <1>1, <1>2 DEF IInv, TypeOK, Calls, Module
<1>4. StackSound' /\ StackVisited'
  <2>1. ASSUME NEW i \in DOMAIN stack', NEW j \in DOMAIN stack',
               stack'[i].module = stack'[j].module
        PROVE  i = j
    <3>1. i + 1 = j + 1
      BY <1>2, <2>1 DEF IInv, StackSound
    <3> QED BY <1>2, <3>1
  <2> QED BY <1>1, <1>2, <2>1 DEF IInv, StackSound, StackVisited
<1>5. IndexSound' /\ HomeSound'
  BY <1>1 DEF IInv, IndexSound, HomeSound, Worth
<1>6. Progress'
  <2>1. stack[1] \in Calls
    BY <1>1, <1>2
  <2>2. ASSUME NEW m, m = Top.module, NEW j \in DOMAIN Children(krate, m)
        PROVE  Handled(m, Children(krate, m)[j])
    <3>1. /\ j \in 1..Len(Children(krate, m)) /\ Len(Children(krate, m)) \in Nat
          /\ Top.next \in Nat
      BY <1>1, <1>2, <2>1, <2>2, ChildrenTyped DEF Calls
    <3>2. j < Top.next
      BY <1>1, <2>2, <3>1
    <3> QED BY <1>2, <2>2, <3>2 DEF IInv, Progress
  <2>3. \A m : Running(m) => Running(m)' \/ m = Top.module
    BY <1>2 DEF Running
  <2>4. \A m, d : Handled(m, d)' <=> Handled(m, d)
    BY <1>1 DEF Handled, Module
  <2>5. ASSUME NEW i \in DOMAIN stack', NEW m, m = stack'[i].module,
               NEW j \in DOMAIN Children(krate, m), j < stack'[i].next,
               NEW d, d = Children(krate, m)[j]
        PROVE  Handled(m, d)'
    BY <1>2, <2>4, <2>5 DEF IInv, Progress
  <2>6. ASSUME NEW m \in DOMAIN home, ~Running(m)', NEW j \in DOMAIN Children(krate, m),
               NEW d, d = Children(krate, m)[j]
        PROVE  Handled(m, d)'
    BY <2>2, <2>3, <2>4, <2>6 DEF IInv, Progress
  <2>7. krate.root \in Module(krate) => krate.root \in visited
    BY DEF IInv, Progress
  <2>8. \A m : Children(krate', m) = Children(krate, m)
    BY <1>1
  <2>9. Module(krate)' = Module(krate)
    BY <1>1 DEF Module
  <2> QED BY <1>1, <2>5, <2>6, <2>7, <2>8, <2>9 DEF Progress
<1> QED BY <1>3, <1>4, <1>5, <1>6 DEF IInv

\* The child at hand, and the module it is a child of.
LEMMA ChildIs ==
    ASSUME IInv, AtChild
    PROVE  /\ Top.module \in DOMAIN home /\ Top.module \in Module(krate)
           /\ Top.path = home[Top.module] /\ Top.path \in Paths /\ Top.path # <<>>
           /\ Worth(Top.path, Top.module)
           /\ \E j \in DOMAIN Children(krate, Top.module) : ChildId = Children(krate, Top.module)[j]
           /\ ChildId \in Ids /\ IsKrate(krate)
<1>1. /\ TypeOK /\ IsKrate(krate)
      /\ Top \in Calls /\ 1 \in DOMAIN stack /\ Top = stack[1]
  BY AdvancedIs DEF IInv, TypeOK
<1>2. Top.module \in Module(krate) /\ Top.next \in Nat \ {0} /\ Top.path \in Paths
  BY <1>1 DEF Calls
<1>3. Top.next \in DOMAIN Children(krate, Top.module)
  BY <1>1, <1>2, ChildrenTyped DEF AtChild
<1>4. ChildId \in Ids
  BY <1>1, <1>2, <1>3, ChildrenTyped DEF ChildId
<1>5. Top.module \in DOMAIN home /\ Top.path = home[Top.module]
  BY <1>1 DEF IInv, StackVisited, StackSound
<1> QED BY <1>1, <1>2, <1>3, <1>4, <1>5 DEF IInv, HomeSound, ChildId

\* A step past a child that adds nothing.
LEMMA SkipIInv ==
    ASSUME IInv, Missing \/ Unnamed \/ UseIgnored
    PROVE  IInv'
<1>1. AtChild /\ stack' = Advanced /\ UNCHANGED <<krate, out, visited, home>>
  BY DEF Missing, Unnamed, UseIgnored, Skip, AtUse
<1>2. NoId \notin Module(krate)
  BY <1>1, ChildIs, NamesAssumption DEF Module, IsKrate
<1>3. ASSUME NEW t, t = Top.module, NEW c, c = ChildId
      PROVE  Handled(t, c)'
  <2>1. Handled(t, c)
    BY <1>2, <1>3 DEF Missing, Unnamed, UseIgnored, AtUse, Handled, Child
  <2> QED BY <1>1, <2>1, HandledStays
<1>4. Grows(krate)
  BY <1>1 DEF IInv, TypeOK, IndexSound, Grows
<1> QED BY <1>1, <1>3, <1>4, AdvanceIInv

\* A name in the index, and perhaps a module under it.
LEMMA NamedIInv ==
    ASSUME IInv, AtChild, krate' = krate, NEW t, t = Top.module, NEW c, c = ChildId,
           NEW n \in Names, NEW id \in Ids, Declares(krate, t, n, id),
           NEW p, p = Append(Top.path, n), out' = OrInsert(p, id),
           \/ id \in Module(krate) /\ Walk(id, p, Advanced)
           \/ stack' = Advanced /\ UNCHANGED <<visited, home>>,
           Grows(krate) /\ p \in DOMAIN out' => Handled(t, c)'
    PROVE  IInv'
<1>1. Top.path \in Paths /\ Top.path # <<>> /\ Worth(Top.path, t)
  BY ChildIs
<1>2. p \in Paths /\ p # <<>>
  BY <1>1 DEF Paths
<1>3. PublicPath(krate, p, id)
  BY <1>1, PathExtends
<1>4. Grows(krate) /\ p \in DOMAIN out'
  BY <1>2, <1>3, OrInsertGrows
<1>5. CASE id \in Module(krate) /\ Walk(id, p, Advanced)
  <2>1. Worth(p, id)
    BY <1>3, <1>5, ScopeReflexive DEF Worth
  <2> QED BY <1>2, <1>4, <1>5, <2>1, WalkIInv
<1>6. CASE stack' = Advanced /\ UNCHANGED <<visited, home>>
  BY <1>4, <1>6, AdvanceIInv
<1> QED BY <1>5, <1>6

\* After Walk the module is visited and homes it had are kept.
LEMMA WalkVisits ==
    ASSUME IInv, NEW m \in DOMAIN home, NEW n \in Module(krate), NEW p, NEW s, Walk(n, p, s)
    PROVE  n \in visited' /\ visited \subseteq visited' /\ home'[m] = home[m]
BY DEF IInv, TypeOK, Walk

LEMMA DeclareIInv == ASSUME IInv, Declare PROVE IInv'
<1> DEFINE n == Child.name
           p == Append(Top.path, n)
<1>1. /\ AtChild /\ ChildId \in DOMAIN krate.index /\ Child.kind # "use" /\ n # NoName
      /\ out' = OrInsert(p, ChildId) /\ krate' = krate
      /\ IF Child.kind = "module" THEN Walk(ChildId, p, Advanced)
         ELSE stack' = Advanced /\ UNCHANGED <<visited, home>>
  BY DEF Declare
<1>2. Child \in Items /\ n \in Names /\ Child = krate.index[ChildId]
  BY <1>1, ChildIs DEF IsKrate, Items, Child
<1>3. Declares(krate, Top.module, n, ChildId)
  BY <1>1, <1>2, ChildIs DEF Declares
<1>4. Child.kind = "module" => ChildId \in Module(krate)
  BY <1>1, <1>2 DEF Module
<1>5. /\ home'[Top.module] = home[Top.module]
      /\ Child.kind = "module" => ChildId \in visited'
  BY <1>1, <1>4, ChildIs, WalkVisits
<1> HIDE DEF p, n
<1>6. ASSUME NEW t, t = Top.module, NEW c, c = ChildId, p \in DOMAIN out'
      PROVE  Handled(t, c)'
  <2>1. p = Append(home'[t], n)
    BY <1>1, <1>5, <1>6, ChildIs DEF p
  <2> QED BY <1>1, <1>2, <1>5, <1>6, <2>1 DEF Handled, n
<1> QED BY <1>1, <1>2, <1>3, <1>4, <1>6, ChildIs, NamedIInv DEF p

LEMMA UseNamedIInv == ASSUME IInv, UseNamed PROVE IInv'
<1> DEFINE n == Child.name
           p == Append(Top.path, n)
           id == Child.target
<1>1. /\ AtChild /\ ChildId \in DOMAIN krate.index /\ Child.kind = "use"
      /\ ~Child.glob /\ id # NoId
      /\ out' = OrInsert(p, id) /\ krate' = krate
      /\ IF id \in Module(krate) THEN Walk(id, p, Advanced)
         ELSE stack' = Advanced /\ UNCHANGED <<visited, home>>
  BY DEF UseNamed, AtUse
<1>2. Child \in Items /\ n \in Names /\ Child = krate.index[ChildId] /\ id \in Ids
  BY <1>1, ChildIs DEF IsKrate, Items, Child
<1>3. Declares(krate, Top.module, n, id)
  BY <1>1, <1>2, ChildIs, NamesAssumption DEF Declares
<1>4. /\ home'[Top.module] = home[Top.module]
      /\ id \in Module(krate) => id \in visited'
  BY <1>1, ChildIs, WalkVisits
<1> HIDE DEF p, n, id
<1>5. ASSUME NEW t, t = Top.module, NEW c, c = ChildId, p \in DOMAIN out'
      PROVE  Handled(t, c)'
  <2>1. p = Append(home'[t], n)
    BY <1>1, <1>4, <1>5, ChildIs DEF p
  <2>2. Module(krate)' = Module(krate)
    BY <1>1
  <2> QED BY <1>1, <1>2, <1>4, <1>5, <2>1, <2>2 DEF Handled, n, id
<1> QED BY <1>1, <1>2, <1>3, <1>5, ChildIs, NamedIInv DEF p

LEMMA UseGlobIInv == ASSUME IInv, UseGlob PROVE IInv'
<1> DEFINE id == Child.target
<1>1. /\ AtChild /\ ChildId \in DOMAIN krate.index /\ Child.kind = "use"
      /\ Child.glob /\ id \in Module(krate)
      /\ Walk(id, Top.path, Advanced) /\ UNCHANGED <<krate, out>>
  BY DEF UseGlob, AtUse
<1>2. Child = krate.index[ChildId]
  BY DEF Child
<1>3. GlobImports(krate, Top.module, id)
  BY <1>1, <1>2, ChildIs DEF GlobImports
<1>4. Worth(Top.path, id)
  BY <1>1, <1>3, ChildIs, ScopeClosed DEF Worth
<1>5. Grows(krate)
  BY <1>1 DEF IInv, TypeOK, IndexSound, Grows
<1>6. id \in visited'
  BY <1>1, ChildIs, WalkVisits
<1> HIDE DEF id
<1>7. ASSUME NEW t, t = Top.module, NEW c, c = ChildId
      PROVE  Handled(t, c)'
  BY <1>1, <1>2, <1>6, <1>7 DEF Handled, id
<1> QED BY <1>1, <1>4, <1>5, <1>7, ChildIs, WalkIInv

LEMMA NextIInv == IInv /\ [Next]_vars => IInv'
<1> SUFFICES ASSUME IInv, [Next]_vars PROVE IInv'
  OBVIOUS
<1>1. CASE UNCHANGED vars
  <2>1. UNCHANGED <<krate, stack, out, visited, home>>
    BY <1>1 DEF vars
  <2>2. TypeOK' /\ IndexSound' /\ StackSound' /\ StackVisited'
    BY <2>1 DEF IInv, TypeOK, IndexSound, StackSound, StackVisited, Module
  <2>3. HomeSound'
    BY <2>1 DEF IInv, HomeSound, Worth, Module
  <2>4. Progress'
    <3>1. \A m, d : Handled(m, d)' <=> Handled(m, d)
      BY <2>1 DEF Handled, Module
    <3>2. \A m : Running(m)' <=> Running(m)
      BY <2>1 DEF Running
    <3>3. Module(krate)' = Module(krate) /\ \A m : Children(krate', m) = Children(krate, m)
      BY <2>1 DEF Module
    <3> QED BY <2>1, <3>1, <3>2, <3>3 DEF IInv, Progress
  <2> QED BY <2>2, <2>3, <2>4 DEF IInv
<1>2. CASE Next
  BY <1>2, SkipIInv, DeclareIInv, UseGlobIInv, UseNamedIInv, ReturnIInv DEF Next
<1> QED BY <1>1, <1>2

-----------------------------------------------------------------------------
\* The inductive invariant holds throughout.
THEOREM Inductive == Spec => []IInv
BY InitIInv, NextIInv, PTL DEF Spec

\* TypeOK: what is walked is a module of the crate, and what it is called once.
THEOREM AlwaysTyped == Spec => []TypeOK
<1>1. IInv => TypeOK
  BY DEF IInv
<1> QED BY <1>1, Inductive, PTL

\* IndexSound: for every crate, the index gives no item a path that it does not
\* publicly have, through any nesting of globs, aliases and cycles.
THEOREM AlwaysIndexSound == Spec => []IndexSound
<1>1. IInv => IndexSound
  BY DEF IInv
<1> QED BY <1>1, Inductive, PTL

\* StackSound: the recursion is never deeper than the crate has modules.
THEOREM AlwaysStackSound == Spec => []StackSound
<1>1. IInv => StackSound
  BY DEF IInv
<1> QED BY <1>1, Inductive, PTL

\* The modules that are walked when nothing runs are all the tree leads to.
LEMMA WalkedIsClosed ==
    ASSUME IInv, Done, NEW a \in DOMAIN home, NEW b \in Module(krate), Leads(krate, a, b)
    PROVE  b \in DOMAIN home
<1>1. /\ IsKrate(krate) /\ DOMAIN home = visited \cap Module(krate)
      /\ \A j \in DOMAIN Children(krate, a) : Handled(a, Children(krate, a)[j])
  BY DEF IInv, TypeOK, Progress, Running, Done
<1>2. CASE GlobImports(krate, a, b)
  BY <1>1, <1>2 DEF GlobImports, Handled
<1>3. ASSUME NEW n \in Names, Declares(krate, a, n, b) PROVE b \in DOMAIN home
  BY <1>1, <1>3 DEF Declares, Handled, Module
<1> QED BY <1>2, <1>3 DEF Leads

\* IndexComplete: when the walk is over, whatever the order of the children, it
\* has been in every module of the public tree and indexed every name of it.
THEOREM AlwaysIndexComplete == Spec => []IndexComplete
<1>1. IInv => IndexComplete
  <2> SUFFICES ASSUME IInv, Done, NEW m \in Reachable(krate)
               PROVE  /\ m \in DOMAIN home
                      /\ \A n \in Names, id \in Ids :
                            Declares(krate, m, n, id) => Append(home[m], n) \in DOMAIN out
    BY DEF IndexComplete
  <2>1. DOMAIN home \subseteq Module(krate) /\ krate.root \in DOMAIN home
    BY DEF IInv, TypeOK, Progress, Reachable
  <2>2. m \in DOMAIN home
    BY <2>1, WalkedIsClosed DEF Reachable
  <2>3. \A j \in DOMAIN Children(krate, m) : Handled(m, Children(krate, m)[j])
    BY <2>2 DEF IInv, Progress, Running, Done
  <2>4. ASSUME NEW n \in Names, NEW id \in Ids, Declares(krate, m, n, id)
        PROVE  Append(home[m], n) \in DOMAIN out
    BY <2>3, <2>4, NamesAssumption DEF Declares, Handled
  <2> QED BY <2>2, <2>4
<1> QED BY <1>1, Inductive, PTL

-----------------------------------------------------------------------------
(* That the walk gets on                                                   *)

\* A call is at a child of its module, or just past the last.
FramesSound ==
    \A i \in DOMAIN stack : stack[i].next <= Len(Children(krate, stack[i].module)) + 1

\* The children the innermost call has not handled, and its return.
Left == Len(Children(krate, Top.module)) + 1 - Top.next

\* A step enters a module for the first and only time; if not, it returns from
\* a call or, in the same call, handles a child.
GetsOn ==
    \/ \E m \in Module(krate) \ visited : visited' = visited \cup {m}
    \/ /\ visited' = visited
       /\ \/ Len(stack') < Len(stack)
          \/ Len(stack') = Len(stack) /\ Left' < Left

\* A call goes on to its next child ...
LEMMA AdvanceGetsOn ==
    ASSUME TypeOK, FramesSound, AtChild, krate' = krate, stack' = Advanced
    PROVE  FramesSound' /\ Len(stack') = Len(stack) /\ Left' < Left
<1>1. /\ Top \in Calls /\ 1 \in DOMAIN stack /\ Top = stack[1] /\ stack \in Seq(Calls)
      /\ stack' \in Seq(Calls) /\ DOMAIN stack' = DOMAIN stack
      /\ stack'[1] = [Top EXCEPT !.next = @ + 1]
      /\ \A i \in DOMAIN stack : i # 1 => stack'[i] = stack[i]
  BY AdvancedIs DEF TypeOK, Calls
<1>2. stack'[1].module = Top.module /\ stack'[1].next = Top.next + 1 /\ Top' = stack'[1]
  BY <1>1 DEF Calls, Top
<1>3. Len(Children(krate, Top.module)) \in Nat /\ Top.next \in Nat
  BY <1>1, ChildrenTyped DEF TypeOK, Calls
<1>4. \A i \in DOMAIN stack' : stack'[i].next <= Len(Children(krate, stack'[i].module)) + 1
  <2>1. stack'[1].next <= Len(Children(krate, stack'[1].module)) + 1
    BY <1>2, <1>3 DEF AtChild
  <2> QED BY <1>1, <2>1 DEF FramesSound
<1>5. Len(stack') = Len(stack)
  BY <1>1
<1>6. Left' < Left
  BY <1>2, <1>3 DEF Left
<1> QED BY <1>4, <1>5, <1>6 DEF FramesSound

\* ... and the call it makes begins at the first.
LEMMA WalkGetsOn ==
    ASSUME TypeOK, FramesSound, AtChild, krate' = krate,
           NEW n \in Module(krate), NEW p \in Paths, Walk(n, p, Advanced)
    PROVE  FramesSound' /\ GetsOn
<1>1. CASE n \in visited
  <2>1. stack' = Advanced /\ visited' = visited
    BY <1>1 DEF Walk
  <2> QED BY <2>1, AdvanceGetsOn DEF GetsOn
<1>2. CASE n \notin visited
  <2> DEFINE f == Frame(n, p)
  <2>1. visited' = visited \cup {n} /\ stack' = <<f>> \o Advanced
    BY <1>2 DEF Walk
  <2>2. f \in Calls /\ f.module = n /\ f.next = 1
    BY DEF Frame, Calls
  <2> HIDE DEF f
  <2>3. /\ Advanced \in Seq(Calls) /\ DOMAIN Advanced = DOMAIN stack
        /\ Top \in Calls /\ 1 \in DOMAIN stack /\ Top = stack[1]
        /\ Advanced[1] = [Top EXCEPT !.next = @ + 1]
        /\ \A i \in DOMAIN stack : i # 1 => Advanced[i] = stack[i]
    BY AdvancedIs
  <2>4. /\ stack'[1] = f
        /\ \A i \in DOMAIN stack : stack'[i + 1] = Advanced[i]
        /\ \A i \in DOMAIN stack' : i # 1 => i - 1 \in DOMAIN stack /\ i - 1 + 1 = i
    BY <2>1, <2>2, <2>3, PushedIs
  <2>5. Len(Children(krate, n)) \in Nat /\ Len(Children(krate, Top.module)) \in Nat
    BY <2>3, ChildrenTyped DEF TypeOK, Calls
  <2>6. \A i \in DOMAIN stack : Advanced[i].next <= Len(Children(krate, Advanced[i].module)) + 1
    <3>1. Advanced[1].next <= Len(Children(krate, Advanced[1].module)) + 1
      <4>1. Advanced[1].next = Top.next + 1 /\ Advanced[1].module = Top.module /\ Top.next \in Nat
        BY <2>3 DEF Calls
      <4> QED BY <2>5, <4>1 DEF AtChild
    <3> QED BY <2>3, <3>1 DEF FramesSound
  <2>7. ASSUME NEW i \in DOMAIN stack'
        PROVE  stack'[i].next <= Len(Children(krate, stack'[i].module)) + 1
    <3>1. CASE i = 1
      BY <2>2, <2>4, <2>5, <3>1
    <3>2. CASE i # 1
      <4>1. i - 1 \in DOMAIN stack /\ stack'[i] = Advanced[i - 1]
        BY <2>4, <2>7, <3>2
      <4> QED BY <2>6, <4>1
    <3> QED BY <3>1, <3>2
  <2> QED BY <1>2, <2>1, <2>7 DEF FramesSound, GetsOn
<1> QED BY <1>1, <1>2

LEMMA ReturnGetsOn == ASSUME TypeOK, FramesSound, Return PROVE FramesSound' /\ GetsOn
<1>1. stack \in Seq(Calls) /\ stack # <<>> /\ stack' = Tail(stack) /\ UNCHANGED <<krate, visited>>
  BY DEF Return, TypeOK, Calls
<1>2. Len(stack') < Len(stack)
  BY <1>1
<1>3. \A i \in DOMAIN stack' : i + 1 \in DOMAIN stack /\ stack'[i] = stack[i + 1]
  BY <1>1
<1> QED BY <1>1, <1>2, <1>3 DEF FramesSound, GetsOn

LEMMA StepGetsOn == ASSUME IInv, FramesSound, Next PROVE FramesSound' /\ GetsOn
<1>1. TypeOK
  BY DEF IInv
<1>2. CASE Return
  BY <1>1, <1>2, ReturnGetsOn
<1>3. CASE AtChild /\ UNCHANGED <<krate, visited>> /\ stack' = Advanced
  BY <1>1, <1>3, AdvanceGetsOn DEF GetsOn
<1>4. ASSUME AtChild, krate' = krate, NEW n \in Module(krate), NEW p \in Paths,
             Walk(n, p, Advanced)
      PROVE  FramesSound' /\ GetsOn
  BY <1>1, <1>4, WalkGetsOn
<1>5. CASE Missing \/ Unnamed \/ UseIgnored
  BY <1>3, <1>5 DEF Missing, Unnamed, UseIgnored, AtUse, Skip
<1>6. ASSUME AtChild, NEW n \in Names PROVE Append(Top.path, n) \in Paths
  BY <1>6, ChildIs DEF Paths
<1>7. ASSUME AtChild, ChildId \in DOMAIN krate.index
      PROVE  Child \in Items /\ (Child.kind = "use" => Child.name \in Names)
             /\ (Child.kind = "module" => ChildId \in Module(krate))
  BY <1>7, ChildIs DEF IsKrate, Child, Module
<1>8. CASE Declare
  <2>1. AtChild /\ krate' = krate /\ Child.name \in Names
    BY <1>7, <1>8 DEF Declare, Items
  <2> QED BY <1>3, <1>4, <1>6, <1>7, <1>8, <2>1 DEF Declare
<1>9. CASE UseGlob
  BY <1>4, <1>9, ChildIs DEF UseGlob, AtUse
<1>10. CASE UseNamed
  BY <1>3, <1>4, <1>6, <1>7, <1>10 DEF UseNamed, AtUse
<1> QED BY <1>2, <1>5, <1>8, <1>9, <1>10 DEF Next

LEMMA AlwaysFrames == Spec => []FramesSound
<1>1. Init => FramesSound
  <2> SUFFICES ASSUME Init, NEW i \in DOMAIN stack
               PROVE  stack[i].next <= Len(Children(krate, stack[i].module)) + 1
    BY DEF FramesSound
  <2>1. krate.root \in Module(krate) /\ stack = <<Frame(krate.root, RootPath)>> /\ IsKrate(krate)
    BY KratesAssumption DEF Init
  <2>2. stack[i] = Frame(krate.root, RootPath)
    BY <2>1
  <2>3. Len(Children(krate, krate.root)) \in Nat
    BY <2>1, ChildrenTyped
  <2> QED BY <2>2, <2>3 DEF Frame
<1>2. IInv /\ FramesSound /\ [Next]_vars => FramesSound'
  BY StepGetsOn DEF FramesSound, vars
<1> QED BY <1>1, <1>2, Inductive, PTL DEF Spec

\* Every step of the walk gets on: a module is entered that never was before,
\* or else the calls in progress become fewer, or else the innermost has less
\* left to do.  The three decrease one after the other and none below zero, so
\* the walk of a finite crate ends, whatever its cycles: what Terminates says,
\* less that the walk is run at all.
THEOREM WalkAlwaysGetsOn ==
    Spec => /\ [](stack # <<>> => Left \in Nat)
            /\ [][krate' = krate /\ GetsOn]_vars
<1>1. IInv /\ FramesSound => (stack # <<>> => Left \in Nat)
  <2> SUFFICES ASSUME IInv, FramesSound, stack # <<>> PROVE Left \in Nat
    OBVIOUS
  <2>1. stack \in Seq(Calls) /\ IsKrate(krate)
    BY DEF IInv, TypeOK, Calls
  <2>2. Top \in Calls /\ 1 \in DOMAIN stack /\ Top = stack[1]
    BY <2>1 DEF Top
  <2>3. Len(Children(krate, Top.module)) \in Nat /\ Top.next \in Nat
    BY <2>1, <2>2, ChildrenTyped DEF Calls
  <2> QED BY <2>2, <2>3 DEF FramesSound, Left
<1>2. IInv /\ FramesSound /\ [Next]_vars => [krate' = krate /\ GetsOn]_vars
  <2>1. Next => krate' = krate
    BY DEF Next, Missing, Declare, Unnamed, UseIgnored, UseGlob, UseNamed, Return, Skip
  <2> QED BY <2>1, StepGetsOn
<1> QED BY <1>1, <1>2, Inductive, AlwaysFrames, PTL DEF Spec

\* The recursion is never deeper than the crate has modules.
THEOREM DepthIsBounded ==
    Spec => [](IsFiniteSet(Module(krate)) => Len(stack) <= Cardinality(Module(krate)))
<1>1. IInv => (IsFiniteSet(Module(krate)) => Len(stack) <= Cardinality(Module(krate)))
  <2> SUFFICES ASSUME IInv, IsFiniteSet(Module(krate))
               PROVE  Len(stack) <= Cardinality(Module(krate))
    OBVIOUS
  <2> DEFINE f == [i \in 1..Len(stack) |-> stack[i].module]
  <2>1. stack \in Seq(Calls) /\ Len(stack) \in Nat
    BY DEF IInv, TypeOK, Calls
  <2>2. \A i \in 1..Len(stack) : stack[i] \in Calls
    BY <2>1
  <2>3. f \in [1..Len(stack) -> Module(krate)]
    BY <2>2 DEF Calls
  <2>4. \A i, j \in 1..Len(stack) : f[i] = f[j] => i = j
    BY <2>1 DEF IInv, StackSound
  <2> HIDE DEF f
  <2>5. f \in Injection(1..Len(stack), Module(krate))
    BY <2>3, <2>4 DEF Injection, IsInjective
  <2>6. Cardinality(1..Len(stack)) <= Cardinality(Module(krate))
    BY <2>5, FS_Injection
  <2>7. Cardinality(1..Len(stack)) = Len(stack)
    <3> DEFINE l == Len(stack)
    <3>1. l \in Int /\ 1 \in Int /\ (IF 1 > l THEN 0 ELSE l - 1 + 1) = l
      BY <2>1
    <3> HIDE DEF l
    <3>2. Cardinality(1..l) = l
      BY <3>1, FS_Interval
    <3> QED BY <3>2 DEF l
  <2> QED BY <2>6, <2>7
<1> QED BY <1>1, Inductive, PTL
=============================================================================
