----------------------------- MODULE ItemProofs -----------------------------
(***************************************************************************)
(* The page of an item, proved for every item.  Headed says which headings *)
(* a stretch of a page has and that each stands over an entry; Only and    *)
(* Never, which of its blocks tell certain docs.  Both go through loops,   *)
(* filters, the sort and sections, so that a page has what its parts have. *)
(*                                                                         *)
(* What is read back off a page, proved for types of any depth.  Reads     *)
(* says that of one text of two nodes, with something after each, the      *)
(* nodes are alike and what is after them is the same; Known, that this    *)
(* holds of all that is lower than a node.  Each way of writing a node has *)
(* a lemma that takes Known to Reads, on texts that are only put together  *)
(* (Cat) from tokens; AllRead goes up by Height.  Signatures, values,      *)
(* positions and fields follow, and then the pages they stand on.          *)
(***************************************************************************)
EXTENDS Declarations, SequenceTheorems, FiniteSetTheorems, WellFoundedInduction, TLAPS

-----------------------------------------------------------------------------
(* Sequences, and what FlattenSeq puts together                            *)

\* Every set of naturals that has a member has a least one.
LEMMA LeastNatural ==
    ASSUME NEW T \in SUBSET Nat, T # {}
    PROVE  \E n \in T : \A m \in T : n <= m
<1> DEFINE UpTo(n) == T \cap (0..n)
           F == {UpTo(n) : n \in T}
<1>1. ASSUME NEW n \in T
      PROVE  IsFiniteSet(UpTo(n)) /\ n \in UpTo(n) /\ UpTo(n) \subseteq Nat
  <2>1. n \in Nat /\ IsFiniteSet(0..n)
    BY FS_Interval
  <2>2. IsFiniteSet(UpTo(n))
    BY <2>1, FS_Subset
  <2> QED BY <2>1, <2>2
<1>2. F \subseteq FiniteSubsetsOf(Nat) /\ F # {}
  BY <1>1 DEF FiniteSubsetsOf
<1>3. PICK s \in F : \A t \in F : ~(<<t, s>> \in StrictSubsetOrdering(Nat))
  BY <1>2, FS_StrictSubsetOrderingWellFounded, WFMin
<1>4. PICK n \in T : s = UpTo(n)
  BY <1>3
<1>5. ASSUME NEW m \in T, m < n PROVE FALSE
  <2>1. /\ UpTo(m) \subseteq UpTo(n) /\ n \notin UpTo(m) /\ n \in UpTo(n)
        /\ n \in Nat /\ m \in Nat
    BY <1>5
  <2>2. /\ UpTo(m) \in SUBSET Nat /\ UpTo(n) \in SUBSET Nat
        /\ UpTo(m) # UpTo(n) /\ UpTo(m) \in F
    BY <2>1
  <2>3. <<UpTo(m), UpTo(n)>> \in StrictSubsetOrdering(Nat)
    BY <2>1, <2>2 DEF StrictSubsetOrdering
  <2> QED BY <1>3, <1>4, <2>2, <2>3
<1> QED BY <1>5

LEMMA Length ==
    ASSUME NEW S, NEW s \in Seq(S)
    PROVE  /\ Len(s) \in Nat /\ (Len(s) = 0 <=> s = <<>>)
           /\ Len(s) = 1 => s = <<s[1]>>
           /\ s # <<>> => Len(s) = 1 \/ Len(s) = 2 \/ Len(s) > 2
<1>1. Len(s) \in Nat /\ (Len(s) = 0 <=> s = <<>>)
  BY EmptySeq
<1>2. \A k \in Nat : k # 0 => k = 1 \/ k = 2 \/ k > 2
  OBVIOUS
<1>3. Len(s) = 1 => s = <<s[1]>>
  OBVIOUS
<1> QED BY <1>1, <1>2, <1>3

LEMMA Joint ==
    ASSUME NEW S, NEW s \in Seq(S), NEW t \in Seq(S)
    PROVE  /\ s \o t \in Seq(S) /\ Len(s \o t) = Len(s) + Len(t)
           /\ \A i \in 1..Len(s) : (s \o t)[i] = s[i]
           /\ \A i \in 1..Len(t) : (s \o t)[Len(s) + i] = t[i]
<1>1. Len(s) \in Nat /\ Len(t) \in Nat
  BY Length
<1>2. ASSUME NEW i \in 1..Len(s) PROVE (s \o t)[i] = s[i]
  <2>1. i \in 1..(Len(s) + Len(t)) /\ i <= Len(s)
    BY <1>1
  <2> QED BY <2>1, ConcatProperties
<1>3. ASSUME NEW i \in 1..Len(t) PROVE (s \o t)[Len(s) + i] = t[i]
  <2>1. Len(s) + i \in 1..(Len(s) + Len(t)) /\ ~(Len(s) + i <= Len(s)) /\ Len(s) + i - Len(s) = i
    BY <1>1
  <2> QED BY <2>1, ConcatProperties
<1> QED BY <1>2, <1>3, ConcatProperties

\* What starts at 1 and goes on is everywhere.
LEMMA Upwards ==
    ASSUME NEW n \in Nat, NEW P, 1 \in P, \A i \in 2..n : i - 1 \in P => i \in P
    PROVE  1..n \subseteq P
<1> DEFINE Fails == {i \in 1..n : i \notin P}
<1>1. SUFFICES ASSUME Fails # {} PROVE FALSE
  OBVIOUS
<1>2. Fails \in SUBSET Nat
  OBVIOUS
<1>3. PICK k \in Fails : \A m \in Fails : k <= m
  <2> HIDE DEF Fails
  <2> QED BY <1>1, <1>2, LeastNatural
<1>4. k \in 2..n
  BY <1>3
<1>5. k - 1 \in P
  <2>1. k - 1 \in 1..n /\ ~(k <= k - 1)
    BY <1>4
  <2>2. k - 1 \notin Fails
    <3> HIDE DEF Fails
    <3> QED BY <1>3, <2>1
  <2> QED BY <2>1, <2>2
<1> QED BY <1>3, <1>4, <1>5

InTurn(f, s, n) == f[1] = s[1] /\ \A i \in 2..n : f[i] = f[i - 1] \o s[i]

\* What FlattenSeq puts together, one after another.
Puts(f, s, S) ==
    /\ f \in [1..Len(s) -> Seq(S)]
    /\ InTurn(f, s, Len(s))
    /\ FlattenSeq(s) = f[Len(s)]

\* What FlattenSeq defines by recursion there is one of, ...
LEMMA OneFlattening ==
    ASSUME NEW s, NEW n \in Nat, n >= 1, NEW f, NEW g, InTurn(f, s, n), InTurn(g, s, n)
    PROVE  f[n] = g[n]
<1> DEFINE P == {i \in 1..n : f[i] = g[i]}
<1>1. 1 \in P
  BY DEF InTurn
<1>2. ASSUME NEW i \in 2..n, i - 1 \in P PROVE i \in P
  <2>1. i \in 1..n
    OBVIOUS
  <2> QED BY <1>2, <2>1 DEF InTurn
<1>3. 1..n \subseteq P
  <2> HIDE DEF P
  <2> QED BY <1>1, <1>2, Upwards
<1> QED BY <1>3

\* ... and there is one up to every number.
LEMMA Flattens ==
    ASSUME NEW S, NEW s \in Seq(Seq(S)), s # <<>>
    PROVE  \E f : Puts(f, s, S)
<1>1. PICK n \in Nat : n = Len(s) /\ n # 0 /\ n >= 1
  <2>1. Len(s) \in Nat /\ Len(s) # 0
    BY Length
  <2> QED BY <2>1
<1>2. \A i \in 1..n : s[i] \in Seq(S)
  BY <1>1
<1> DEFINE Right(f, m) == /\ f \in [1..m -> Seq(S)] /\ f[1] = s[1]
                          /\ \A i \in 2..m : f[i] = f[i - 1] \o s[i]
           P == {m \in 1..n : \E f : Right(f, m)}
<1>3. 1 \in P
  <2>1. Right([i \in 1..1 |-> s[1]], 1)
    BY <1>1, <1>2
  <2>2. 1 \in 1..n
    BY <1>1
  <2> HIDE DEF Right
  <2> QED BY <2>1, <2>2
<1>4. ASSUME NEW m \in 2..n, m - 1 \in P PROVE m \in P
  <2>1. PICK f : Right(f, m - 1)
    BY <1>4
  <2> DEFINE g == [i \in 1..m |-> IF i = m THEN f[m - 1] \o s[m] ELSE f[i]]
  <2>2. m - 1 \in 1..(m - 1) /\ m \in 1..n /\ 1 \in 1..(m - 1)
    BY <1>1
  <2>3. f[m - 1] \o s[m] \in Seq(S)
    <3>1. f[m - 1] \in Seq(S) /\ s[m] \in Seq(S)
      BY <1>2, <2>1, <2>2
    <3> QED BY <3>1, Joint
  <2>4. g \in [1..m -> Seq(S)]
    <3>1. ASSUME NEW i \in 1..m, i # m PROVE f[i] \in Seq(S)
      <4>1. i \in 1..(m - 1)
        BY <3>1
      <4> QED BY <2>1, <4>1
    <3> QED BY <2>3, <3>1
  <2>5. g[1] = s[1]
    BY <2>1, <2>2
  <2>6. ASSUME NEW i \in 2..m PROVE g[i] = g[i - 1] \o s[i]
    <3>1. CASE i = m
      <4>1. m - 1 \in 1..m /\ m - 1 # m /\ m \in 1..m
        BY <1>1
      <4> QED BY <3>1, <4>1
    <3>2. CASE i # m
      <4>1. i \in 2..(m - 1) /\ i \in 1..m /\ i - 1 \in 1..m /\ i - 1 # m
        BY <3>2
      <4> QED BY <2>1, <3>2, <4>1
    <3> QED BY <3>1, <3>2
  <2>7. Right(g, m)
    <3> HIDE DEF g
    <3> QED BY <2>4, <2>5, <2>6
  <2> HIDE DEF Right
  <2> QED BY <2>2, <2>7
<1>5. n \in P
  <2>1. 1..n \subseteq P
    <3> HIDE DEF P
    <3> QED BY <1>3, <1>4, Upwards
  <2>2. n \in 1..n
    BY <1>1
  <2> HIDE DEF P
  <2> QED BY <2>1, <2>2
<1>6. PICK f : Right(f, n)
  <2> HIDE DEF Right
  <2> QED BY <1>5
<1>7. f = [i \in 1..Len(s) |-> IF i = 1 THEN s[i] ELSE f[i - 1] \o s[i]]
  <2>1. f \in [1..n -> Seq(S)]
    BY <1>6
  <2>2. ASSUME NEW i \in 1..n PROVE f[i] = IF i = 1 THEN s[i] ELSE f[i - 1] \o s[i]
    <3>1. i # 1 => i \in 2..n
      BY <1>1
    <3> QED BY <1>6, <3>1
  <2> QED BY <1>1, <2>1, <2>2
<1> DEFINE flatten == CHOOSE h : h = [i \in 1..Len(s) |-> IF i = 1 THEN s[i] ELSE h[i - 1] \o s[i]]
<1>8. flatten = [i \in 1..Len(s) |-> IF i = 1 THEN s[i] ELSE flatten[i - 1] \o s[i]]
  BY <1>7
<1>9. FlattenSeq(s) = flatten[Len(s)]
  BY <1>1 DEF FlattenSeq
<1>10. PICK h : h = flatten
  OBVIOUS
<1> HIDE DEF flatten
<1>11. h = [i \in 1..n |-> IF i = 1 THEN s[i] ELSE h[i - 1] \o s[i]]
  BY <1>1, <1>8, <1>10
<1>12. h[1] = s[1] /\ \A i \in 2..n : h[i] = h[i - 1] \o s[i]
  <2>1. 1 \in 1..n
    BY <1>1
  <2>2. \A i \in 2..n : i \in 1..n /\ i # 1
    BY <1>1
  <2>3. h[1] = s[1]
    BY <1>11, <2>1
  <2>4. \A i \in 2..n : h[i] = h[i - 1] \o s[i]
    BY <1>11, <2>2
  <2> QED BY <2>3, <2>4
<1>13. h[n] = f[n]
  <2>1. n \in Nat /\ n >= 1
    BY <1>1
  <2>2. InTurn(f, s, n) /\ InTurn(h, s, n)
    BY <1>6, <1>12 DEF InTurn
  <2> QED BY <2>1, <2>2, OneFlattening
<1> QED BY <1>1, <1>6, <1>9, <1>10, <1>13 DEF Puts, InTurn

\* A sequence, of whatever.
Row(x) == \E S : x \in Seq(S)

LEMMA RowIs ==
    ASSUME NEW x, Row(x)
    PROVE  /\ Len(x) \in Nat /\ DOMAIN x = 1..Len(x) /\ (Len(x) = 0 <=> x = <<>>)
           /\ x \in Seq({x[i] : i \in 1..Len(x)})
<1>1. PICK S : x \in Seq(S)
  BY DEF Row
<1>2. Len(x) \in Nat /\ DOMAIN x = 1..Len(x) /\ (Len(x) = 0 <=> x = <<>>)
  BY <1>1, Length
<1>3. x \in Seq({x[i] : i \in 1..Len(x)})
  BY <1>1, <1>2
<1> QED BY <1>2, <1>3

LEMMA RowFits == ASSUME NEW S, NEW s \in Seq(S) PROVE Row(s)
BY DEF Row

\* Two sequences are of one set.
LEMMA RowsTogether ==
    ASSUME NEW x, NEW y, Row(x), Row(y)
    PROVE  \E S : x \in Seq(S) /\ y \in Seq(S)
<1> DEFINE X == {x[i] : i \in 1..Len(x)}
           Y == {y[i] : i \in 1..Len(y)}
<1>1. x \in Seq(X) /\ y \in Seq(Y)
  BY RowIs
<1>2. ASSUME NEW A, NEW B, NEW s \in Seq(A) PROVE s \in Seq(A \cup B) /\ s \in Seq(B \cup A)
  OBVIOUS
<1>3. x \in Seq(X \cup Y) /\ y \in Seq(X \cup Y)
  <2> HIDE DEF X, Y
  <2> QED BY <1>1, <1>2
<1> QED BY <1>3

LEMMA RowJoint ==
    ASSUME NEW x, NEW y, Row(x), Row(y)
    PROVE  /\ Row(x \o y) /\ Len(x \o y) = Len(x) + Len(y)
           /\ \A i \in 1..Len(x) : (x \o y)[i] = x[i]
           /\ \A i \in 1..Len(y) : (x \o y)[Len(x) + i] = y[i]
           /\ \A k \in 1..Len(x \o y) :
                 k \in 1..Len(x) \/ (k - Len(x) \in 1..Len(y) /\ k = Len(x) + (k - Len(x)))
<1>1. PICK S : x \in Seq(S) /\ y \in Seq(S)
  BY RowsTogether
<1>2. /\ x \o y \in Seq(S) /\ Len(x \o y) = Len(x) + Len(y)
      /\ \A i \in 1..Len(x) : (x \o y)[i] = x[i]
      /\ \A i \in 1..Len(y) : (x \o y)[Len(x) + i] = y[i]
  BY <1>1, Joint
<1>3. Len(x) \in Nat /\ Len(y) \in Nat
  BY RowIs
<1>4. \A k \in 1..(Len(x) + Len(y)) :
          k \in 1..Len(x) \/ (k - Len(x) \in 1..Len(y) /\ k = Len(x) + (k - Len(x)))
  BY <1>3
<1> QED BY <1>2, <1>4 DEF Row

LEMMA OneRow ==
    ASSUME NEW b
    PROVE  Row(<<b>>) /\ Len(<<b>>) = 1 /\ <<b>>[1] = b /\ Row(<<>>)
<1>1. <<b>> \in Seq({b}) /\ <<>> \in Seq({b})
  OBVIOUS
<1> QED BY <1>1 DEF Row

\* What FlattenSeq is given.
Rows(p) == Row(p) /\ \A i \in 1..Len(p) : Row(p[i])

\* ... the members of which are in the parts.
LEMMA RowsAre ==
    ASSUME NEW p, Rows(p)
    PROVE  \E S : /\ p \in Seq(Seq(S))
                  /\ \A b \in S : \E i \in 1..Len(p) : \E j \in 1..Len(p[i]) : b = p[i][j]
<1> DEFINE S == UNION {{p[i][j] : j \in 1..Len(p[i])} : i \in 1..Len(p)}
<1>1. ASSUME NEW i \in 1..Len(p) PROVE p[i] \in Seq(S)
  <2>1. p[i] \in Seq({p[i][j] : j \in 1..Len(p[i])})
    BY RowIs DEF Rows
  <2>2. {p[i][j] : j \in 1..Len(p[i])} \subseteq S
    OBVIOUS
  <2>3. ASSUME NEW A, NEW B, A \subseteq B, NEW s \in Seq(A) PROVE s \in Seq(B)
    BY <2>3
  <2> HIDE DEF S
  <2> QED BY <2>1, <2>2, <2>3
<1>2. p \in Seq(Seq(S))
  <2>1. p \in Seq({p[i] : i \in 1..Len(p)}) /\ Len(p) \in Nat
    BY RowIs DEF Rows
  <2> HIDE DEF S
  <2> QED BY <1>1, <2>1
<1>3. \A b \in S : \E i \in 1..Len(p) : \E j \in 1..Len(p[i]) : b = p[i][j]
  OBVIOUS
<1> HIDE DEF S
<1> QED BY <1>2, <1>3

LEMMA FlatOfNone == FlattenSeq(<<>>) = <<>>
BY DEF FlattenSeq

\* FlattenSeq stays in the set.
LEMMA FlatIn ==
    ASSUME NEW S, NEW p \in Seq(Seq(S)) PROVE FlattenSeq(p) \in Seq(S)
<1>1. CASE p = <<>>
  <2>1. <<>> \in Seq(S)
    OBVIOUS
  <2> QED BY <1>1, <2>1, FlatOfNone
<1>2. CASE p # <<>>
  <2>1. PICK f : Puts(f, p, S)
    BY <1>2, Flattens
  <2>2. Len(p) \in 1..Len(p)
    BY <1>2, Length
  <2> QED BY <2>1, <2>2 DEF Puts
<1> QED BY <1>1, <1>2

LEMMA FlatRow ==
    ASSUME NEW p, Rows(p) PROVE Row(FlattenSeq(p))
<1>1. PICK S : p \in Seq(Seq(S))
  BY RowsAre
<1> QED BY <1>1, FlatIn DEF Row

\* It begins as its first part does.
LEMMA FlatFirst ==
    ASSUME NEW p, Rows(p), p # <<>>, p[1] # <<>>
    PROVE  FlattenSeq(p) # <<>> /\ FlattenSeq(p)[1] = p[1][1]
<1>1. PICK S : p \in Seq(Seq(S))
  BY RowsAre
<1>2. PICK f : Puts(f, p, S)
  BY <1>1, Flattens
<1>3. PICK n \in Nat : n = Len(p) /\ n >= 1
  <2>1. Len(p) \in Nat /\ Len(p) # 0
    BY <1>1, Length
  <2> QED BY <2>1
<1>4. f \in [1..n -> Seq(S)] /\ InTurn(f, p, n) /\ FlattenSeq(p) = f[n]
  BY <1>2, <1>3 DEF Puts
<1> DEFINE P == {i \in 1..n : f[i] # <<>> /\ f[i][1] = p[1][1]}
<1>5. 1 \in P
  BY <1>3, <1>4 DEF InTurn
<1>6. ASSUME NEW i \in 2..n, i - 1 \in P PROVE i \in P
  <2>1. PICK x \in Seq(S), y \in Seq(S) : x = f[i - 1] /\ y = p[i] /\ f[i] = x \o y
    <3>1. i - 1 \in 1..n /\ i \in 1..n
      BY <1>3
    <3>2. f[i - 1] \in Seq(S)
      BY <1>4, <3>1
    <3>3. \A k \in 1..n : p[k] \in Seq(S)
      BY <1>1, <1>3
    <3>4. p[i] \in Seq(S)
      BY <3>1, <3>3
    <3> QED BY <1>4, <3>2, <3>4 DEF InTurn
  <2>2. x # <<>> /\ x[1] = p[1][1]
    BY <1>6, <2>1
  <2>3. Len(x) \in Nat /\ Len(y) \in Nat /\ Len(x) # 0
    BY <2>2, Length
  <2>4. x \o y \in Seq(S) /\ Len(x \o y) # 0 /\ (x \o y)[1] = x[1]
    <3>1. 1 \in 1..Len(x) /\ Len(x) + Len(y) # 0
      BY <2>3
    <3> QED BY <3>1, Joint
  <2>5. x \o y # <<>>
    BY <2>4, Length
  <2>6. i \in 1..n
    BY <1>3
  <2> QED BY <2>1, <2>2, <2>4, <2>5, <2>6
<1>7. 1..n \subseteq P
  <2> HIDE DEF P
  <2> QED BY <1>3, <1>5, <1>6, Upwards
<1>8. n \in 1..n
  BY <1>3
<1> QED BY <1>4, <1>7, <1>8

\* A loop over s makes as many parts as s has.
LEMMA Loop ==
    ASSUME NEW s, Row(s), NEW p, p = [i \in DOMAIN s |-> p[i]]
    PROVE  Row(p) /\ Len(p) = Len(s) /\ (p = <<>> <=> s = <<>>)
<1>1. Len(s) \in Nat /\ DOMAIN s = 1..Len(s)
  BY RowIs
<1>2. p = [i \in 1..Len(s) |-> p[i]]
  BY <1>1
<1>3. p \in Seq({p[i] : i \in 1..Len(s)}) /\ Len(p) = Len(s)
  BY <1>1, <1>2
<1>4. Row(p)
  BY <1>3 DEF Row
<1> QED BY <1>3, <1>4, RowIs

\* What a loop over s writes, of whatever it writes for each.
LEMMA Written ==
    ASSUME NEW s, Row(s), NEW p, p = [i \in DOMAIN s |-> p[i]], \A i \in 1..Len(s) : Row(p[i])
    PROVE  Row(FlattenSeq(p))
<1>1. Row(p) /\ Len(p) = Len(s)
  BY Loop
<1>2. Rows(p)
  BY <1>1 DEF Rows
<1> QED BY <1>2, FlatRow

\* What a filter lets through of things is of those things.
LEMMA FilterIn ==
    ASSUME NEW S, NEW s \in Seq(S), NEW p, p = [i \in DOMAIN s |-> p[i]],
           \A i \in 1..Len(s) : p[i] = <<s[i]>> \/ p[i] = <<>>
    PROVE  FlattenSeq(p) \in Seq(S)
<1>1. Len(s) \in Nat /\ DOMAIN s = 1..Len(s) /\ \A i \in 1..Len(s) : s[i] \in S
  OBVIOUS
<1>2. \A i \in 1..Len(s) : p[i] \in Seq(S)
  <2>1. ASSUME NEW i \in 1..Len(s) PROVE p[i] \in Seq(S)
    <3>1. s[i] \in S
      BY <1>1
    <3>2. <<s[i]>> \in Seq(S) /\ <<>> \in Seq(S)
      BY <3>1
    <3> QED BY <3>2
  <2> QED BY <2>1
<1>3. p \in Seq(Seq(S))
  BY <1>1, <1>2
<1> QED BY <1>3, FlatIn

\* A first line, a last one and some between.
LEMMA LinesRow ==
    ASSUME NEW first, NEW x, Row(x), NEW last
    PROVE  Row(<<first>> \o x \o <<last>>)
<1>1. Row(<<first>>) /\ Row(<<last>>)
  BY OneRow
<1>2. Row(<<first>> \o x)
  BY <1>1, RowJoint
<1> QED BY <1>1, <1>2, RowJoint

-----------------------------------------------------------------------------
(* What filters let through                                                *)

\* t is what a filter lets through of s: what is at the places in D.
Filtered(s, D, t) ==
    \E p : /\ p = [i \in DOMAIN s |-> p[i]] /\ t = FlattenSeq(p)
           /\ \A i \in 1..Len(s) : p[i] = IF i \in D THEN <<s[i]>> ELSE <<>>

LEMMA FilteredIn ==
    ASSUME NEW S, NEW s \in Seq(S), NEW D, NEW t, Filtered(s, D, t) PROVE t \in Seq(S)
<1>1. PICK p : /\ p = [i \in DOMAIN s |-> p[i]] /\ t = FlattenSeq(p)
               /\ \A i \in 1..Len(s) : p[i] = IF i \in D THEN <<s[i]>> ELSE <<>>
  BY DEF Filtered
<1> QED BY <1>1, FilterIn

LEMMA FilteredRow == ASSUME NEW s, Row(s), NEW D, NEW t, Filtered(s, D, t) PROVE Row(t)
<1>1. PICK S : s \in Seq(S)
  BY DEF Row
<1> QED BY <1>1, FilteredIn, RowFits

\* The filters of Render: those in the index, ...
LEMMA IndexedIs ==
    ASSUME NEW s, Row(s)
    PROVE  \E D : /\ Filtered(s, D, Indexed(s))
                  /\ \A i \in 1..Len(s) : i \in D <=> s[i].kind # "missing"
<1>1. PICK p, D : /\ p = [i \in DOMAIN s |-> If(s[i].kind # "missing", <<s[i]>>)]
                  /\ D = {i \in DOMAIN s : s[i].kind # "missing"}
  OBVIOUS
<1>2. DOMAIN s = 1..Len(s)
  BY RowIs
<1>3. /\ p = [i \in DOMAIN s |-> p[i]]
      /\ \A i \in 1..Len(s) : p[i] = IF i \in D THEN <<s[i]>> ELSE <<>>
      /\ \A i \in 1..Len(s) : i \in D <=> s[i].kind # "missing"
  BY <1>1, <1>2 DEF If
<1>4. Indexed(s) = FlattenSeq(p)
  BY <1>1 DEF Indexed, Those, Each
<1> QED BY <1>3, <1>4 DEF Filtered

LEMMA IndexedRow == ASSUME NEW s, Row(s) PROVE Row(Indexed(s))
BY IndexedIs, FilteredRow

LEMMA IndexedIn == ASSUME NEW S, NEW s \in Seq(S) PROVE Indexed(s) \in Seq(S)
BY RowFits, IndexedIs, FilteredIn

\* ... those with docs, ...
LEMMA DocumentedIs ==
    ASSUME NEW s, Row(s)
    PROVE  \E D : /\ Filtered(s, D, Those(s, HasDocs))
                  /\ \A i \in 1..Len(s) : i \in D <=> HasDocs(s[i])
<1>1. PICK p, D : /\ p = [i \in DOMAIN s |-> If(HasDocs(s[i]), <<s[i]>>)]
                  /\ D = {i \in DOMAIN s : HasDocs(s[i])}
  OBVIOUS
<1>2. DOMAIN s = 1..Len(s)
  BY RowIs
<1>3. /\ p = [i \in DOMAIN s |-> p[i]]
      /\ \A i \in 1..Len(s) : p[i] = IF i \in D THEN <<s[i]>> ELSE <<>>
      /\ \A i \in 1..Len(s) : i \in D <=> HasDocs(s[i])
  BY <1>1, <1>2 DEF If
<1>4. Those(s, HasDocs) = FlattenSeq(p)
  BY <1>1 DEF Those, Each
<1> QED BY <1>3, <1>4 DEF Filtered

LEMMA DocumentedRow == ASSUME NEW s, Row(s) PROVE Row(Those(s, HasDocs))
<1>1. PICK D, t : t = Those(s, HasDocs) /\ Filtered(s, D, t)
  BY DocumentedIs
<1> QED BY <1>1, FilteredRow

\* ... those of a kind, and maybe a form, ...
OfKind(s, k, form) == Those(s, LAMBDA c : c.kind = k /\ (form = "" \/ c.form = form))

Places(s, k, form) == {i \in 1..Len(s) : s[i].kind = k /\ (form = "" \/ s[i].form = form)}

LEMMA OfKindIs ==
    ASSUME NEW s, Row(s), NEW k, NEW form
    PROVE  Filtered(s, Places(s, k, form), OfKind(s, k, form))
<1>1. PICK p, D :
          /\ p = [i \in DOMAIN s |-> If(s[i].kind = k /\ (form = "" \/ s[i].form = form), <<s[i]>>)]
          /\ D = Places(s, k, form)
  OBVIOUS
<1>2. DOMAIN s = 1..Len(s)
  BY RowIs
<1>3. /\ p = [i \in DOMAIN s |-> p[i]]
      /\ \A i \in 1..Len(s) : p[i] = IF i \in D THEN <<s[i]>> ELSE <<>>
  BY <1>1, <1>2 DEF If, Places
<1>4. OfKind(s, k, form) = FlattenSeq(p)
  BY <1>1 DEF OfKind, Those, Each
<1>5. D = Places(s, k, form)
  BY <1>1
<1> QED BY <1>3, <1>4, <1>5 DEF Filtered

LEMMA OfKindRow == ASSUME NEW s, Row(s), NEW k, NEW form PROVE Row(OfKind(s, k, form))
BY OfKindIs, FilteredRow

Named(s) == Those(s, LAMBDA c : c.name # "")

\* ... those with a name, ...
LEMMA NamedIs ==
    ASSUME NEW s, Row(s)
    PROVE  \E D : Filtered(s, D, Named(s)) /\ \A i \in 1..Len(s) : i \in D <=> s[i].name # ""
<1>1. PICK p, D : /\ p = [i \in DOMAIN s |-> If(s[i].name # "", <<s[i]>>)]
                  /\ D = {i \in DOMAIN s : s[i].name # ""}
  OBVIOUS
<1>2. DOMAIN s = 1..Len(s)
  BY RowIs
<1>3. /\ p = [i \in DOMAIN s |-> p[i]]
      /\ \A i \in 1..Len(s) : p[i] = IF i \in D THEN <<s[i]>> ELSE <<>>
      /\ \A i \in 1..Len(s) : i \in D <=> s[i].name # ""
  BY <1>1, <1>2 DEF If
<1>4. Named(s) = FlattenSeq(p)
  BY <1>1 DEF Named, Those, Each
<1> QED BY <1>3, <1>4 DEF Filtered

LEMMA NamedRow == ASSUME NEW s, Row(s) PROVE Row(Named(s))
BY NamedIs, FilteredRow

\* ... those in a bucket of a module, ...
InBucket(s, kinds) == Those(s, LAMBDA c : c.kind \in kinds)

OfKinds(s, kinds) == {i \in 1..Len(s) : s[i].kind \in kinds}

LEMMA InBucketIs ==
    ASSUME NEW s, Row(s), NEW kinds PROVE Filtered(s, OfKinds(s, kinds), InBucket(s, kinds))
<1>1. PICK p, D : /\ p = [i \in DOMAIN s |-> If(s[i].kind \in kinds, <<s[i]>>)]
                  /\ D = OfKinds(s, kinds)
  OBVIOUS
<1>2. DOMAIN s = 1..Len(s)
  BY RowIs
<1>3. /\ p = [i \in DOMAIN s |-> p[i]]
      /\ \A i \in 1..Len(s) : p[i] = IF i \in D THEN <<s[i]>> ELSE <<>>
  BY <1>1, <1>2 DEF If, OfKinds
<1>4. InBucket(s, kinds) = FlattenSeq(p)
  BY <1>1 DEF InBucket, Those, Each
<1>5. D = OfKinds(s, kinds)
  BY <1>1
<1> QED BY <1>3, <1>4, <1>5 DEF Filtered

LEMMA InBucketRow == ASSUME NEW s, Row(s), NEW kinds PROVE Row(InBucket(s, kinds))
BY InBucketIs, FilteredRow

\* ... and those that write_section puts at a name.
ListedAs(c) == IF c.kind = "use" THEN c.form ELSE c.name

OfName(s, name) == Those(s, LAMBDA c : ListedAs(c) = name)

ListedAt(s, name) == {i \in 1..Len(s) : ListedAs(s[i]) = name}

LEMMA OfNameIs ==
    ASSUME NEW s, Row(s), NEW name PROVE Filtered(s, ListedAt(s, name), OfName(s, name))
<1>1. PICK p, D : /\ p = [i \in DOMAIN s |-> If(ListedAs(s[i]) = name, <<s[i]>>)]
                  /\ D = ListedAt(s, name)
  OBVIOUS
<1>2. DOMAIN s = 1..Len(s)
  BY RowIs
<1>3. /\ p = [i \in DOMAIN s |-> p[i]]
      /\ \A i \in 1..Len(s) : p[i] = IF i \in D THEN <<s[i]>> ELSE <<>>
  BY <1>1, <1>2 DEF If, ListedAt
<1>4. OfName(s, name) = FlattenSeq(p)
  BY <1>1 DEF OfName, Those, Each
<1>5. D = ListedAt(s, name)
  BY <1>1
<1> QED BY <1>3, <1>4, <1>5 DEF Filtered

LEMMA SortedIs ==
    ASSUME NEW s PROVE Sorted(s) = FlattenSeq([i \in DOMAIN Alphabet |-> OfName(s, Alphabet[i])])
BY DEF Sorted, Each, OfName, ListedAs

LEMMA SortedIn == ASSUME NEW S, NEW s \in Seq(S) PROVE Sorted(s) \in Seq(S)
<1>1. PICK q : q = [i \in DOMAIN Alphabet |-> OfName(s, Alphabet[i])]
  OBVIOUS
<1>2. \A name : OfName(s, name) \in Seq(S)
  BY RowFits, OfNameIs, FilteredIn
<1>3. q \in Seq(Seq(S))
  <2>1. Row(Alphabet)
    BY ItemsAssumption, RowFits
  <2>2. Len(Alphabet) \in Nat /\ DOMAIN Alphabet = 1..Len(Alphabet)
    BY <2>1, RowIs
  <2> QED BY <1>1, <1>2, <2>2
<1>4. Sorted(s) = FlattenSeq(q)
  BY <1>1, SortedIs
<1> QED BY <1>3, <1>4, FlatIn

LEMMA SortedRow == ASSUME NEW s, Row(s) PROVE Row(Sorted(s))
<1>1. PICK S : s \in Seq(S)
  BY DEF Row
<1> QED BY <1>1, SortedIn, RowFits

-----------------------------------------------------------------------------
(* What the pages consist of                                               *)

\* ItemsAssumption, of one item and the children that are listed by their names.
LEMMA SubjectIs ==
    ASSUME NEW it \in Subjects
    PROVE  /\ it.of \in Seq(Below(it)) /\ \A c \in Below(it) : c.of \in Seq(Below(c))
           /\ it.kind = "struct" => it.form \in {"unit", "tuple", "plain"}
           /\ it.kind = "trait" =>
                 \A c \in Below(it) : c.kind = "function" => c.form \in {"required", "provided"}
           /\ it.kind = "module" =>
                 \A c \in Below(it) : c.name # "" /\ c.kind \notin {"missing", "use"} =>
                     \E i \in DOMAIN Alphabet : Alphabet[i] = c.name
           /\ OwnDocs(it)
<1>1. \A c \in Below(it) \cup {it} : c.of \in Seq(Below(c))
  BY ItemsAssumption
<1>2. it.of \in Seq(Below(it)) /\ \A c \in Below(it) : c.of \in Seq(Below(c))
  BY <1>1
<1>3. ASSUME it.kind = "module", NEW c \in Below(it), c.name # "",
             c.kind \notin {"missing", "use"}
      PROVE  \E i \in DOMAIN Alphabet : Alphabet[i] = c.name
  BY <1>3, ItemsAssumption
<1> QED BY <1>2, <1>3, ItemsAssumption

LEMMA SubjectRows ==
    ASSUME NEW it \in Subjects
    PROVE  it.of \in Seq(Below(it)) /\ Row(it.of) /\ \A v \in Below(it) : Row(v.of)
<1>1. it.of \in Seq(Below(it)) /\ \A v \in Below(it) : v.of \in Seq(Below(v))
  BY SubjectIs
<1>2. Row(it.of)
  BY <1>1, RowFits
<1>3. ASSUME NEW v \in Below(it) PROVE Row(v.of)
  BY <1>1, RowFits
<1> QED BY <1>1, <1>2, <1>3

LEMMA FieldLinesRow == ASSUME NEW s, Row(s), NEW pub PROVE Row(FieldLines(s, pub))
<1>1. PICK p : p = [i \in DOMAIN s |-> If(s[i].kind = "field", <<pub \o NameAndType(s[i])>>)]
  OBVIOUS
<1>2. p = [i \in DOMAIN s |-> p[i]] /\ DOMAIN s = 1..Len(s)
  BY <1>1, RowIs
<1>3. \A i \in 1..Len(s) : Row(p[i])
  BY <1>1, <1>2, OneRow DEF If
<1>4. FieldLines(s, pub) = FlattenSeq(p)
  BY <1>1 DEF FieldLines, Each
<1> QED BY <1>2, <1>3, <1>4, Written

LEMMA StructIs ==
    ASSUME NEW it, Row(it.of), it.form \in {"unit", "tuple", "plain"}
    PROVE  \E lines : Row(lines) /\ Struct(it) = Fence(lines) \o FieldDocs(it)
<1>1. CASE it.form = "unit"
  BY <1>1, OneRow DEF Struct
<1>2. CASE it.form = "tuple"
  BY <1>2, OneRow DEF Struct
<1>3. CASE it.form = "plain"
  <2>1. Row(<<<<"pub struct ", Name(it), " {">>>> \o FieldLines(it.of, <<"pub ">>) \o <<<<"}">>>>)
    BY FieldLinesRow, LinesRow
  <2> QED BY <1>3, <2>1 DEF Struct
<1> QED BY <1>1, <1>2, <1>3

LEMMA VariantLinesRow == ASSUME NEW v, Row(v.of) PROVE Row(VariantLines(v))
<1>1. CASE v.kind # "variant" \/ v.form = "plain"
  BY <1>1, OneRow DEF VariantLines
<1>2. CASE v.kind = "variant" /\ v.form = "tuple"
  BY <1>2, OneRow DEF VariantLines
<1>3. CASE v.kind = "variant" /\ v.form # "tuple" /\ v.form # "plain"
  <2>1. Row(<<<<Name(v), " {">>>> \o FieldLines(v.of, <<>>) \o <<<<"},">>>>)
    BY FieldLinesRow, LinesRow
  <2> QED BY <1>3, <2>1 DEF VariantLines
<1> QED BY <1>1, <1>2, <1>3

\* What an enum has of a variant.
VariantEntry(v) == <<Block("h3", <<Name(v)>>)>> \o Docs(v) \o VariantDetail(v)

\* The parts of an enum's page.
EnumParts(it, lines, s, p) ==
    /\ Row(lines) /\ s = Indexed(it.of)
    /\ p = [i \in DOMAIN s |-> VariantEntry(s[i])]
    /\ Enum(it) = Fence(lines) \o If(s # <<>>, <<Block("h2", <<"Variants">>)>> \o FlattenSeq(p))

LEMMA EnumIs ==
    ASSUME NEW it, NEW S, it.of \in Seq(S), \A v \in S : Row(v.of)
    PROVE  \E lines, s, p : EnumParts(it, lines, s, p)
<1>1. PICK s : s = Indexed(it.of) /\ s \in Seq(S) /\ Row(s)
  BY IndexedIn, RowFits
<1>2. DOMAIN s = 1..Len(s) /\ \A i \in 1..Len(s) : Row(s[i].of)
  <2>1. DOMAIN s = 1..Len(s) /\ \A i \in 1..Len(s) : s[i] \in S
    BY <1>1
  <2> QED BY <2>1
<1>3. Row(Each(VariantLines, s))
  <2>1. PICK p : p = [i \in DOMAIN s |-> VariantLines(s[i])]
    OBVIOUS
  <2>2. p = [i \in DOMAIN s |-> p[i]] /\ \A i \in 1..Len(s) : Row(p[i])
    BY <1>2, <2>1, VariantLinesRow
  <2>3. Each(VariantLines, s) = FlattenSeq(p)
    BY <2>1 DEF Each
  <2> QED BY <1>1, <2>2, <2>3, Written
<1>4. PICK lines : lines = <<<<"pub enum ", Name(it), " {">>>> \o Each(VariantLines, s) \o <<<<"}">>>>
                   /\ Row(lines)
  BY <1>3, LinesRow
<1>5. PICK p : p = [i \in DOMAIN s |-> VariantEntry(s[i])]
  OBVIOUS
<1>6. Enum(it) = Fence(lines) \o If(s # <<>>, <<Block("h2", <<"Variants">>)>> \o FlattenSeq(p))
  BY <1>1, <1>4, <1>5 DEF Enum, Each, VariantEntry
<1>7. EnumParts(it, lines, s, p)
  BY <1>1, <1>4, <1>5, <1>6 DEF EnumParts
<1> QED BY <1>7

\* What a module's page has of a bucket.
Group(named, bucket) ==
    LET s == Sorted(Those(named, LAMBDA c : c.kind \in bucket.kinds))
    IN  If(s # <<>>, <<Block("h2", <<bucket.title>>)>> \o [i \in DOMAIN s |-> Listed(s[i])])

\* A page of a module is its groups.
LEMMA ModuleIs ==
    ASSUME NEW it
    PROVE  ModuleBody(it) =
               FlattenSeq([i \in DOMAIN Buckets |-> Group(Named(Indexed(it.of)), Buckets[i])])
BY DEF ModuleBody, Each, Group, Named

\* A module has eleven sections, of different titles, ...
LEMMA BucketsDiffer ==
    /\ DOMAIN Buckets = 1..11 /\ Len(Buckets) = 11 /\ Row(Buckets)
    /\ \A i, j \in 1..11 : i # j => Buckets[i].title # Buckets[j].title
<1>1. DOMAIN Buckets = 1..11 /\ Len(Buckets) = 11
  BY DEF Buckets
<1>2. Row(Buckets)
  <2>1. \E S : Buckets \in Seq(S)
    <3>1. PICK a, b, c, d, e, f, g, h, k, l, m : Buckets = <<a, b, c, d, e, f, g, h, k, l, m>>
      BY DEF Buckets
    <3>2. <<a, b, c, d, e, f, g, h, k, l, m>> \in Seq({a, b, c, d, e, f, g, h, k, l, m})
      OBVIOUS
    <3> QED BY <3>1, <3>2
  <2> QED BY <2>1 DEF Row
<1>3. /\ Buckets[1].title = "Modules" /\ Buckets[2].title = "Structs" /\ Buckets[3].title = "Enums"
      /\ Buckets[4].title = "Unions" /\ Buckets[5].title = "Traits"
      /\ Buckets[6].title = "Functions" /\ Buckets[7].title = "Type Aliases"
      /\ Buckets[8].title = "Constants" /\ Buckets[9].title = "Statics"
      /\ Buckets[10].title = "Macros" /\ Buckets[11].title = "Re-exports"
  BY DEF Buckets
<1>4. \A k \in 1..11 : \/ k = 1 \/ k = 2 \/ k = 3 \/ k = 4 \/ k = 5 \/ k = 6
                       \/ k = 7 \/ k = 8 \/ k = 9 \/ k = 10 \/ k = 11
  OBVIOUS
<1>5. ASSUME NEW i \in 1..11, NEW j \in 1..11, i # j PROVE Buckets[i].title # Buckets[j].title
  <2>1. CASE i = 1
    BY <1>3, <1>4, <1>5, <2>1, Zenon
  <2>2. CASE i = 2
    BY <1>3, <1>4, <1>5, <2>2, Zenon
  <2>3. CASE i = 3
    BY <1>3, <1>4, <1>5, <2>3, Zenon
  <2>4. CASE i = 4
    BY <1>3, <1>4, <1>5, <2>4, Zenon
  <2>5. CASE i = 5
    BY <1>3, <1>4, <1>5, <2>5, Zenon
  <2>6. CASE i = 6
    BY <1>3, <1>4, <1>5, <2>6, Zenon
  <2>7. CASE i = 7
    BY <1>3, <1>4, <1>5, <2>7, Zenon
  <2>8. CASE i = 8
    BY <1>3, <1>4, <1>5, <2>8, Zenon
  <2>9. CASE i = 9
    BY <1>3, <1>4, <1>5, <2>9, Zenon
  <2>10. CASE i = 10
    BY <1>3, <1>4, <1>5, <2>10, Zenon
  <2>11. CASE i = 11
    BY <1>3, <1>4, <1>5, <2>11, Zenon
  <2> QED BY <1>4, <2>1, <2>2, <2>3, <2>4, <2>5, <2>6, <2>7, <2>8, <2>9, <2>10, <2>11
<1> QED BY <1>1, <1>2, <1>5

\* ... and a kind is in one at most.
LEMMA BucketKinds ==
    /\ ListedKinds = UNION {Buckets[i].kinds : i \in 1..11}
    /\ \A i, j \in 1..11 : \A k : k \in Buckets[i].kinds /\ k \in Buckets[j].kinds => i = j
<1>1. ListedKinds = UNION {Buckets[i].kinds : i \in 1..11}
  BY BucketsDiffer DEF ListedKinds
<1>2. /\ Buckets[1].kinds = {"module"} /\ Buckets[2].kinds = {"struct"}
      /\ Buckets[3].kinds = {"enum"} /\ Buckets[4].kinds = {"union"}
      /\ Buckets[5].kinds = {"trait"} /\ Buckets[6].kinds = {"function"}
      /\ Buckets[7].kinds = {"type_alias"} /\ Buckets[8].kinds = {"constant"}
      /\ Buckets[9].kinds = {"static"} /\ Buckets[10].kinds = {"macro", "proc_macro"}
      /\ Buckets[11].kinds = {"use"}
  BY DEF Buckets
<1>3. ASSUME NEW i \in 1..11, NEW j \in 1..11, NEW k, k \in Buckets[i].kinds, k \in Buckets[j].kinds
      PROVE  i = j
  <2>1. \A m \in 1..11 : \/ m = 1 \/ m = 2 \/ m = 3 \/ m = 4 \/ m = 5 \/ m = 6
                         \/ m = 7 \/ m = 8 \/ m = 9 \/ m = 10 \/ m = 11
    OBVIOUS
  <2> QED BY <1>2, <1>3, <2>1
<1> QED BY <1>1, <1>3

\* A page is written once.
LEMMA Pages == PageSpec => [](subject \in Subjects /\ page \in {<<>>, Page(subject)})
<1> DEFINE Inv == subject \in Subjects /\ page \in {<<>>, Page(subject)}
<1>1. PageInit => Inv
  BY DEF PageInit
<1>2. Inv /\ [Render]_pageVars => Inv'
  BY DEF Render, pageVars
<1> QED BY <1>1, <1>2, PTL DEF PageSpec

-----------------------------------------------------------------------------
(* Headings                                                                *)

IsHead(block) == block.b = "h2"

IsEntry(block) == block.b \in {"h3", "item"}

\* No block is a heading.
Plain(x) == Row(x) /\ \A i \in 1..Len(x) : ~IsHead(x[i])

\* Every heading is in T, stands over an entry and is there once.
Headed(x, T) ==
    /\ Row(x)
    /\ \A i \in 1..Len(x) : IsHead(x[i]) =>
          /\ i < Len(x) /\ IsEntry(x[i + 1]) /\ x[i] \in T
          /\ \A j \in 1..Len(x) : x[j] = x[i] => j = i

LEMMA PlainHeaded ==
    ASSUME NEW x, NEW T, Plain(x) PROVE Headed(x, T)
BY DEF Plain, Headed

LEMMA HeadedMore ==
    ASSUME NEW x, NEW T, NEW U, T \subseteq U, Headed(x, T) PROVE Headed(x, U)
BY DEF Headed

LEMMA PlainJoint ==
    ASSUME NEW x, NEW y, Plain(x), Plain(y) PROVE Plain(x \o y)
<1>1. Row(x) /\ Row(y)
  BY DEF Plain
<1>2. ASSUME NEW k \in 1..Len(x \o y) PROVE ~IsHead((x \o y)[k])
  <2>1. CASE k \in 1..Len(x)
    BY <1>1, <2>1, RowJoint DEF Plain
  <2>2. CASE k - Len(x) \in 1..Len(y) /\ k = Len(x) + (k - Len(x))
    <3>1. PICK i \in 1..Len(y) : k = Len(x) + i
      BY <2>2
    <3>2. (x \o y)[k] = y[i]
      BY <1>1, <3>1, RowJoint
    <3> QED BY <3>2 DEF Plain
  <2> QED BY <1>1, <2>1, <2>2, RowJoint
<1> QED BY <1>1, <1>2, RowJoint DEF Plain

LEMMA HeadedJoint ==
    ASSUME NEW x, NEW y, NEW T, NEW U, Headed(x, T), Headed(y, U), T \cap U = {}
    PROVE  Headed(x \o y, T \cup U)
<1>1. Row(x) /\ Row(y)
  BY DEF Headed
<1>2. PICK z, m, n : z = x \o y /\ m = Len(x) /\ n = Len(y)
  OBVIOUS
<1>3. /\ Row(z) /\ m \in Nat /\ n \in Nat /\ Len(z) = m + n
      /\ \A i \in 1..m : z[i] = x[i]
      /\ \A i \in 1..n : z[m + i] = y[i]
      /\ \A k \in 1..Len(z) : k \in 1..m \/ (k - m \in 1..n /\ k = m + (k - m))
  BY <1>1, <1>2, RowIs, RowJoint
<1>4. ASSUME NEW i \in 1..m, IsHead(x[i])
      PROVE  /\ i < m /\ IsEntry(x[i + 1]) /\ x[i] \in T
             /\ \A j \in 1..m : x[j] = x[i] => j = i
  BY <1>2, <1>4 DEF Headed
<1>5. ASSUME NEW i \in 1..n, IsHead(y[i])
      PROVE  /\ i < n /\ IsEntry(y[i + 1]) /\ y[i] \in U
             /\ \A j \in 1..n : y[j] = y[i] => j = i
  BY <1>2, <1>5 DEF Headed
<1>6. ASSUME NEW i \in 1..m, IsHead(z[i])
      PROVE  /\ i < Len(z) /\ IsEntry(z[i + 1]) /\ z[i] \in T
             /\ \A j \in 1..Len(z) : z[j] = z[i] => j = i
  <2>1. z[i] = x[i] /\ i < m /\ IsEntry(x[i + 1]) /\ x[i] \in T
        /\ \A j \in 1..m : x[j] = x[i] => j = i
    BY <1>3, <1>4, <1>6
  <2>2. i < Len(z) /\ i + 1 \in 1..m
    BY <1>3, <2>1
  <2>3. IsEntry(z[i + 1])
    BY <1>3, <2>1, <2>2
  <2>4. ASSUME NEW j \in 1..Len(z), z[j] = z[i] PROVE j = i
    <3>1. CASE j \in 1..m
      BY <1>3, <2>1, <2>4, <3>1
    <3>2. CASE j \notin 1..m
      <4>1. PICK k \in 1..n : j = m + k
        BY <1>3, <3>2
      <4>2. y[k] = x[i]
        BY <1>3, <2>1, <2>4, <4>1
      <4>3. y[k] \in U
        BY <1>5, <1>6, <2>1, <4>2
      <4> QED BY <2>1, <4>2, <4>3
    <3> QED BY <3>1, <3>2
  <2> QED BY <2>1, <2>2, <2>3, <2>4
<1>7. ASSUME NEW i \in 1..n, IsHead(z[m + i])
      PROVE  /\ m + i < Len(z) /\ IsEntry(z[m + i + 1]) /\ z[m + i] \in U
             /\ \A j \in 1..Len(z) : z[j] = z[m + i] => j = m + i
  <2>1. z[m + i] = y[i] /\ i < n /\ IsEntry(y[i + 1]) /\ y[i] \in U
        /\ \A j \in 1..n : y[j] = y[i] => j = i
    BY <1>3, <1>5, <1>7
  <2>2. m + i < Len(z) /\ i + 1 \in 1..n /\ m + i + 1 = m + (i + 1)
    BY <1>3, <2>1
  <2>3. IsEntry(z[m + i + 1])
    BY <1>3, <2>1, <2>2
  <2>4. ASSUME NEW j \in 1..Len(z), z[j] = z[m + i] PROVE j = m + i
    <3>1. CASE j \in 1..m
      <4>1. x[j] = y[i]
        BY <1>3, <2>1, <2>4, <3>1
      <4>2. x[j] \in T
        BY <1>4, <1>7, <2>1, <3>1, <4>1
      <4> QED BY <2>1, <4>1, <4>2
    <3>2. CASE j \notin 1..m
      <4>1. PICK k \in 1..n : j = m + k
        BY <1>3, <3>2
      <4>2. y[k] = y[i]
        BY <1>3, <2>1, <2>4, <4>1
      <4> QED BY <2>1, <4>1, <4>2
    <3> QED BY <3>1, <3>2
  <2> QED BY <2>1, <2>2, <2>3, <2>4
<1>8. ASSUME NEW k \in 1..Len(z), IsHead(z[k])
      PROVE  /\ k < Len(z) /\ IsEntry(z[k + 1]) /\ z[k] \in T \cup U
             /\ \A j \in 1..Len(z) : z[j] = z[k] => j = k
  <2>1. CASE k \in 1..m
    BY <1>6, <1>8, <2>1
  <2>2. CASE k \notin 1..m
    <3>1. PICK i \in 1..n : k = m + i
      BY <1>3, <2>2
    <3> QED BY <1>7, <1>8, <3>1
  <2> QED BY <2>1, <2>2
<1> QED BY <1>2, <1>3, <1>8 DEF Headed

\* A heading over what begins with an entry.
LEMMA Section ==
    ASSUME NEW head, IsHead(head), NEW y, Plain(y), y # <<>>, IsEntry(y[1])
    PROVE  Headed(<<head>> \o y, {head})
<1>1. Row(<<head>>) /\ Len(<<head>>) = 1 /\ <<head>>[1] = head /\ Row(y)
  BY OneRow DEF Plain
<1>2. PICK z, n : z = <<head>> \o y /\ n = Len(y)
  OBVIOUS
<1>3. n \in Nat /\ n # 0
  BY <1>1, <1>2, RowIs
<1>4. /\ Row(z) /\ Len(z) = 1 + n /\ z[1] = head
      /\ \A i \in 1..n : z[1 + i] = y[i]
      /\ \A k \in 1..Len(z) : k \in 1..1 \/ (k - 1 \in 1..n /\ k = 1 + (k - 1))
  <2>1. 1 \in 1..Len(<<head>>)
    BY <1>1
  <2> QED BY <1>1, <1>2, <2>1, RowJoint
<1>5. ASSUME NEW k \in 1..Len(z), IsHead(z[k]) PROVE k = 1
  <2>1. SUFFICES ASSUME k # 1 PROVE FALSE
    OBVIOUS
  <2>2. PICK i \in 1..n : k = 1 + i
    BY <1>3, <1>4, <2>1
  <2>3. IsHead(y[i])
    BY <1>4, <1>5, <2>2
  <2> QED BY <1>2, <2>3 DEF Plain
<1>6. 1 < Len(z) /\ IsEntry(z[1 + 1])
  <2>1. 1 < Len(z) /\ 1 \in 1..n
    BY <1>3, <1>4
  <2> QED BY <1>4, <2>1
<1>7. ASSUME NEW k \in 1..Len(z), IsHead(z[k])
      PROVE  /\ k < Len(z) /\ IsEntry(z[k + 1]) /\ z[k] \in {head}
             /\ \A j \in 1..Len(z) : z[j] = z[k] => j = k
  <2>1. k = 1
    BY <1>5, <1>7
  <2>2. ASSUME NEW j \in 1..Len(z), z[j] = z[k] PROVE j = k
    BY <1>5, <1>7, <2>1, <2>2
  <2> QED BY <1>4, <1>6, <2>1, <2>2
<1> QED BY <1>2, <1>4, <1>7 DEF Headed

LEMMA FlatPlain ==
    ASSUME NEW p, Row(p), \A i \in 1..Len(p) : Plain(p[i]) PROVE Plain(FlattenSeq(p))
<1>1. Rows(p)
  BY DEF Rows, Plain
<1>2. PICK S : /\ p \in Seq(Seq(S))
               /\ \A b \in S : \E i \in 1..Len(p) : \E j \in 1..Len(p[i]) : b = p[i][j]
  BY <1>1, RowsAre
<1>3. \A b \in S : ~IsHead(b)
  BY <1>2 DEF Plain
<1>4. PICK z : z = FlattenSeq(p) /\ z \in Seq(S)
  BY <1>2, FlatIn
<1>5. \A i \in 1..Len(z) : z[i] \in S
  BY <1>4
<1> QED BY <1>3, <1>4, <1>5 DEF Plain, Row

\* Parts that have their own headings each.
Apart(p, T) ==
    /\ \A i \in 1..Len(p) : Headed(p[i], T[i])
    /\ \A i, j \in 1..Len(p) : i # j => T[i] \cap T[j] = {}

LEMMA NonePlain == Plain(<<>>)
<1>1. Row(<<>>)
  BY OneRow
<1>2. Len(<<>>) = 0 /\ 1..0 = {}
  OBVIOUS
<1> QED BY <1>1, <1>2 DEF Plain

LEMMA FlatHeaded ==
    ASSUME NEW p, Row(p), NEW T, Apart(p, T)
    PROVE  Headed(FlattenSeq(p), UNION {T[i] : i \in 1..Len(p)})
<1> USE DEF Apart
<1>0. Rows(p)
  BY DEF Rows, Headed
<1>1. PICK S : p \in Seq(Seq(S))
  BY <1>0, RowsAre
<1>2. CASE p = <<>>
  <2>1. Plain(<<>>)
    <3>1. Row(<<>>)
      BY OneRow
    <3>2. Len(<<>>) = 0 /\ 1..0 = {}
      OBVIOUS
    <3> QED BY <3>1, <3>2 DEF Plain
  <2> QED BY <1>2, <2>1, FlatOfNone, PlainHeaded
<1>3. CASE p # <<>>
  <2>1. PICK n \in Nat : n = Len(p) /\ n >= 1
    <3>1. Len(p) \in Nat /\ Len(p) # 0
      BY <1>1, <1>3, Length
    <3> QED BY <3>1
  <2>2. PICK f : Puts(f, p, S)
    BY <1>1, <1>3, Flattens
  <2>3. InTurn(f, p, n) /\ FlattenSeq(p) = f[n]
    BY <2>1, <2>2 DEF Puts
  <2> DEFINE Upto(i) == UNION {T[k] : k \in 1..i}
             P == {i \in 1..n : Headed(f[i], Upto(i))}
  <2>4. 1 \in P
    <3>1. f[1] = p[1] /\ 1 \in 1..n /\ T[1] \subseteq Upto(1)
      BY <2>1, <2>3 DEF InTurn
    <3>2. Headed(p[1], T[1])
      BY <2>1, <3>1
    <3>3. Headed(f[1], Upto(1))
      <4> HIDE DEF Upto
      <4> QED BY <3>1, <3>2, HeadedMore
    <3> HIDE DEF Upto
    <3> QED BY <3>1, <3>3
  <2>5. ASSUME NEW i \in 2..n, i - 1 \in P PROVE i \in P
    <3>1. i \in 1..n /\ \A k \in 1..(i - 1) : k # i /\ k \in 1..n
      BY <2>1
    <3>2. Headed(f[i - 1], Upto(i - 1)) /\ Headed(p[i], T[i])
      BY <2>1, <2>5, <3>1
    <3>3. Upto(i - 1) \cap T[i] = {}
      BY <2>1, <3>1
    <3>4. Upto(i - 1) \cup T[i] \subseteq Upto(i)
      BY <2>1
    <3>5. f[i] = f[i - 1] \o p[i]
      BY <2>3 DEF InTurn
    <3> HIDE DEF Upto
    <3>6. Headed(f[i], Upto(i - 1) \cup T[i])
      BY <3>2, <3>3, <3>5, HeadedJoint
    <3>7. Headed(f[i], Upto(i))
      BY <3>4, <3>6, HeadedMore
    <3> QED BY <3>1, <3>7
  <2>6. 1..n \subseteq P
    <3> HIDE DEF P
    <3> QED BY <2>1, <2>4, <2>5, Upwards
  <2>7. n \in 1..n
    BY <2>1
  <2> QED BY <2>1, <2>3, <2>6, <2>7
<1> QED BY <1>2, <1>3

LEMMA WrittenPlain ==
    ASSUME NEW s, Row(s), NEW p, p = [i \in DOMAIN s |-> p[i]], \A i \in 1..Len(s) : Plain(p[i])
    PROVE  Plain(FlattenSeq(p))
<1>1. Row(p) /\ Len(p) = Len(s)
  BY Loop
<1> QED BY <1>1, FlatPlain

LEMMA OnePlain == ASSUME NEW b, ~IsHead(b) PROVE Plain(<<b>>)
<1>1. Row(<<b>>) /\ Len(<<b>>) = 1 /\ <<b>>[1] = b
  BY OneRow
<1>2. \A i \in 1..1 : i = 1
  OBVIOUS
<1> QED BY <1>1, <1>2 DEF Plain

LEMMA BlockIs ==
    ASSUME NEW t
    PROVE  /\ ~IsHead(Block("open", t)) /\ ~IsHead(Block("code", t)) /\ ~IsHead(Block("close", t))
           /\ ~IsHead(Block("h3", t)) /\ ~IsHead(Block("h1", t))
           /\ ~IsHead(Block("bullet", t)) /\ ~IsHead(Block("item", t)) /\ ~IsHead(Block("note", t))
           /\ IsHead(Block("h2", t)) /\ IsEntry(Block("h3", t)) /\ IsEntry(Block("item", t))
BY DEF IsHead, IsEntry, Block, Told

LEMMA FencePlain == ASSUME NEW lines, Row(lines) PROVE Plain(Fence(lines))
<1>1. PICK p : p = [i \in DOMAIN lines |-> Block("code", lines[i])]
  OBVIOUS
<1>2. p = [i \in DOMAIN lines |-> p[i]] /\ DOMAIN lines = 1..Len(lines)
  BY <1>1, RowIs
<1>3. Row(p) /\ Len(p) = Len(lines)
  BY <1>2, Loop
<1>4. Plain(p)
  BY <1>1, <1>2, <1>3, BlockIs DEF Plain
<1>5. Plain(<<Block("open", <<>>)>>) /\ Plain(<<Block("close", <<>>)>>)
  BY OnePlain, BlockIs
<1>6. Plain(<<Block("open", <<>>)>> \o p)
  BY <1>4, <1>5, PlainJoint
<1>7. Plain(<<Block("open", <<>>)>> \o p \o <<Block("close", <<>>)>>)
  BY <1>5, <1>6, PlainJoint
<1> QED BY <1>1, <1>7 DEF Fence

LEMMA DocsPlain == ASSUME NEW it PROVE Plain(Docs(it))
<1>1. ~IsHead(Told("docs", <<>>, it.docs))
  BY DEF IsHead, Told
<1>2. Plain(<<Told("docs", <<>>, it.docs)>>)
  BY <1>1, OnePlain
<1> QED BY <1>2, NonePlain DEF Docs, If

\* Two or three blocks of an entry: it begins with the entry's own.
LEMMA EntryFirst ==
    ASSUME NEW b, ~IsHead(b), NEW x, Plain(x)
    PROVE  Plain(<<b>> \o x) /\ <<b>> \o x # <<>> /\ (<<b>> \o x)[1] = b
<1>1. Plain(<<b>>)
  BY OnePlain
<1>2. Row(<<b>>) /\ Len(<<b>>) = 1 /\ <<b>>[1] = b /\ Row(x) /\ Len(x) \in Nat /\ 1 \in 1..1
  BY OneRow, RowIs DEF Plain
<1>3. Row(<<b>> \o x) /\ Len(<<b>> \o x) = 1 + Len(x) /\ (<<b>> \o x)[1] = b
  BY <1>2, RowJoint
<1>4. Len(<<b>> \o x) # 0
  BY <1>2, <1>3
<1>5. <<b>> \o x # <<>>
  BY <1>3, <1>4, RowIs
<1> QED BY <1>1, <1>3, <1>5, PlainJoint

Entry(x) == Plain(x) /\ x # <<>> /\ IsEntry(x[1])

HeadOf(title) == Block("h2", <<title>>)

\* A heading and at least one entry under it.
LEMMA Chapter ==
    ASSUME NEW title, NEW p, Row(p), p # <<>>, \A i \in 1..Len(p) : Entry(p[i])
    PROVE  Headed(<<HeadOf(title)>> \o FlattenSeq(p), {HeadOf(title)})
<1>1. Rows(p) /\ Plain(FlattenSeq(p))
  BY FlatPlain DEF Rows, Entry, Plain
<1>2. 1 \in 1..Len(p)
  <2>1. Len(p) \in Nat /\ Len(p) # 0
    BY RowIs
  <2> QED BY <2>1
<1>3. p[1] # <<>> /\ IsEntry(p[1][1])
  BY <1>2 DEF Entry
<1>4. FlattenSeq(p) # <<>> /\ IsEntry(FlattenSeq(p)[1])
  BY <1>1, <1>3, FlatFirst
<1>5. IsHead(HeadOf(title))
  BY BlockIs DEF HeadOf
<1> QED BY <1>1, <1>4, <1>5, Section

LEMMA NoneHeaded == ASSUME NEW T PROVE Headed(<<>>, T)
BY NonePlain, PlainHeaded

LEMMA EntryIs ==
    ASSUME NEW t, NEW x, Plain(x) PROVE Entry(<<Block("h3", t)>> \o x)
BY BlockIs, EntryFirst DEF Entry

LEMMA EntryMore ==
    ASSUME NEW x, Entry(x), NEW y, Plain(y) PROVE Entry(x \o y)
<1>1. Row(x) /\ Row(y) /\ Len(x) \in Nat /\ Len(y) \in Nat /\ Len(x) # 0
  BY RowIs DEF Entry, Plain
<1>2. 1 \in 1..Len(x) /\ Len(x) + Len(y) # 0
  BY <1>1
<1>3. Row(x \o y) /\ Len(x \o y) # 0 /\ (x \o y)[1] = x[1]
  BY <1>1, <1>2, RowJoint
<1>4. x \o y # <<>>
  BY <1>3, RowIs
<1> QED BY <1>3, <1>4, PlainJoint DEF Entry

LEMMA TitledHeaded ==
    ASSUME NEW title, NEW p, Row(p), \A i \in 1..Len(p) : Entry(p[i])
    PROVE  Headed(Titled(title, p), {HeadOf(title)})
<1>1. CASE p = <<>>
  BY <1>1, NoneHeaded DEF Titled, If
<1>2. CASE p # <<>>
  BY <1>2, Chapter DEF Titled, If, HeadOf
<1> QED BY <1>1, <1>2

LEMMA FieldDocsHeaded ==
    ASSUME NEW it, Row(it.of) PROVE Headed(FieldDocs(it), {HeadOf("Fields")})
<1>1. PICK s : s = Those(Indexed(it.of), HasDocs) /\ Row(s)
  BY IndexedRow, DocumentedRow
<1>2. PICK p : p = [i \in DOMAIN s |-> <<Block("h3", NameAndType(s[i]))>> \o Docs(s[i])]
  OBVIOUS
<1>3. p = [i \in DOMAIN s |-> p[i]] /\ DOMAIN s = 1..Len(s)
  BY <1>1, <1>2, RowIs
<1>4. Row(p) /\ Len(p) = Len(s) /\ (p = <<>> <=> s = <<>>)
  BY <1>1, <1>3, Loop
<1>5. \A i \in 1..Len(p) : Entry(p[i])
  BY <1>2, <1>3, <1>4, DocsPlain, EntryIs
<1>6. FieldDocs(it) = If(it.form = "plain" /\ s # <<>>, <<HeadOf("Fields")>> \o FlattenSeq(p))
  BY <1>1, <1>2 DEF FieldDocs, Each, HeadOf
<1>7. CASE it.form = "plain" /\ s # <<>>
  BY <1>4, <1>5, <1>6, <1>7, Chapter DEF If
<1>8. CASE ~(it.form = "plain" /\ s # <<>>)
  BY <1>6, <1>8, NoneHeaded DEF If
<1> QED BY <1>7, <1>8

LEMMA StructHeaded ==
    ASSUME NEW it, Row(it.of), it.form \in {"unit", "tuple", "plain"}
    PROVE  Headed(Struct(it), {HeadOf("Fields")})
<1>1. PICK lines : Row(lines) /\ Struct(it) = Fence(lines) \o FieldDocs(it)
  BY StructIs
<1>2. Headed(Fence(lines), {})
  BY <1>1, FencePlain, PlainHeaded
<1>3. Headed(Fence(lines) \o FieldDocs(it), {} \cup {HeadOf("Fields")})
  BY <1>2, FieldDocsHeaded, HeadedJoint
<1> QED BY <1>1, <1>3

LEMMA UnionPlain == ASSUME NEW it, Row(it.of) PROVE Plain(Union(it))
<1>1. Row(<<<<"pub union ", Name(it), " {">>>> \o FieldLines(it.of, <<"pub ">>) \o <<<<"}">>>>)
  BY FieldLinesRow, LinesRow
<1> QED BY <1>1, FencePlain DEF Union

LEMMA VariantDetailPlain == ASSUME NEW v, Row(v.of) PROVE Plain(VariantDetail(v))
<1>1. PICK s : s = Those(Indexed(v.of), HasDocs) /\ Row(s)
  BY IndexedRow, DocumentedRow
<1>2. PICK p : p = [i \in DOMAIN s |-> <<Block("bullet", NameAndType(s[i]))>> \o Docs(s[i])]
  OBVIOUS
<1>3. p = [i \in DOMAIN s |-> p[i]] /\ DOMAIN s = 1..Len(s)
  BY <1>1, <1>2, RowIs
<1>4. \A i \in 1..Len(s) : Plain(p[i])
  BY <1>2, <1>3, DocsPlain, EntryFirst, BlockIs
<1>5. Plain(FlattenSeq(p))
  BY <1>1, <1>3, <1>4, WrittenPlain
<1>6. VariantDetail(v) = If(v.kind = "variant" /\ v.form = "struct", FlattenSeq(p))
  BY <1>1, <1>2 DEF VariantDetail, Each
<1> QED BY <1>5, <1>6, NonePlain DEF If

LEMMA EnumHeaded ==
    ASSUME NEW it, NEW S, it.of \in Seq(S), \A v \in S : Row(v.of)
    PROVE  Headed(Enum(it), {HeadOf("Variants")})
<1>0. PICK lines, s, p : EnumParts(it, lines, s, p)
  BY EnumIs
<1>1. /\ Row(lines) /\ s = Indexed(it.of) /\ s \in Seq(S)
      /\ p = [i \in DOMAIN s |-> VariantEntry(s[i])]
      /\ Enum(it) = Fence(lines) \o If(s # <<>>, <<Block("h2", <<"Variants">>)>> \o FlattenSeq(p))
  BY <1>0, IndexedIn DEF EnumParts
<1>2. /\ p = [i \in DOMAIN s |-> p[i]] /\ DOMAIN s = 1..Len(s) /\ Row(s)
      /\ \A i \in 1..Len(s) : s[i] \in S
  BY <1>1, RowFits
<1>3. Row(p) /\ Len(p) = Len(s) /\ (p = <<>> <=> s = <<>>)
  BY <1>2, Loop
<1>4. ASSUME NEW i \in 1..Len(p) PROVE Entry(p[i])
  <2>1. PICK v : v = s[i] /\ Row(v.of) /\ p[i] = VariantEntry(v)
    BY <1>1, <1>2, <1>3
  <2>2. PICK x, y : x = <<Block("h3", <<Name(v)>>)>> \o Docs(v) /\ y = VariantDetail(v)
    OBVIOUS
  <2>3. Entry(x) /\ Plain(y)
    BY <2>1, <2>2, DocsPlain, EntryIs, VariantDetailPlain
  <2>4. VariantEntry(v) = x \o y
    BY <2>2 DEF VariantEntry
  <2> QED BY <2>1, <2>3, <2>4, EntryMore
<1>5. Headed(Fence(lines), {})
  BY <1>1, FencePlain, PlainHeaded
<1>6. PICK y : y = If(s # <<>>, <<HeadOf("Variants")>> \o FlattenSeq(p)) /\ Enum(it) = Fence(lines) \o y
  BY <1>1 DEF HeadOf
<1>7. Headed(y, {HeadOf("Variants")})
  <2>1. CASE s # <<>>
    BY <1>3, <1>4, <1>6, <2>1, Chapter DEF If
  <2>2. CASE s = <<>>
    BY <1>6, <2>2, NoneHeaded DEF If
  <2> QED BY <2>1, <2>2
<1>8. Headed(Fence(lines) \o y, {} \cup {HeadOf("Variants")})
  BY <1>5, <1>7, HeadedJoint
<1> QED BY <1>6, <1>8

\* Titles tell headings apart.
LEMMA HeadsDiffer == ASSUME NEW a, NEW b, HeadOf(a) = HeadOf(b) PROVE a = b
<1>1. <<a>> = <<b>>
  BY DEF HeadOf, Block, Told
<1> QED BY <1>1

LEMMA AssocTypesHeaded ==
    ASSUME NEW s, Row(s) PROVE Headed(AssocTypes(s), {HeadOf("Associated Types")})
<1>1. PICK p : p = [i \in DOMAIN s |-> <<Block("h3", <<"type ", Name(s[i])>>)>> \o Docs(s[i])]
  OBVIOUS
<1>2. p = [i \in DOMAIN s |-> p[i]] /\ DOMAIN s = 1..Len(s)
  BY <1>1, RowIs
<1>3. Row(p) /\ Len(p) = Len(s)
  BY <1>2, Loop
<1>4. \A i \in 1..Len(p) : Entry(p[i])
  BY <1>1, <1>2, <1>3, DocsPlain, EntryIs
<1>5. AssocTypes(s) = Titled("Associated Types", p)
  BY <1>1 DEF AssocTypes
<1> QED BY <1>3, <1>4, <1>5, TitledHeaded

LEMMA AssocConstsHeaded ==
    ASSUME NEW s, Row(s) PROVE Headed(AssocConsts(s), {HeadOf("Associated Constants")})
<1>1. PICK p : p = [i \in DOMAIN s |->
                      <<Block("h3", <<"const ">> \o NameAndType(s[i]))>> \o Docs(s[i])]
  OBVIOUS
<1>2. p = [i \in DOMAIN s |-> p[i]] /\ DOMAIN s = 1..Len(s)
  BY <1>1, RowIs
<1>3. Row(p) /\ Len(p) = Len(s)
  BY <1>2, Loop
<1>4. \A i \in 1..Len(p) : Entry(p[i])
  BY <1>1, <1>2, <1>3, DocsPlain, EntryIs
<1>5. AssocConsts(s) = Titled("Associated Constants", p)
  BY <1>1 DEF AssocConsts
<1> QED BY <1>3, <1>4, <1>5, TitledHeaded

LEMMA MethodsHeaded ==
    ASSUME NEW s, Row(s), NEW title PROVE Headed(Methods(title, s), {HeadOf(title)})
<1>1. PICK p : p = [i \in DOMAIN s |->
                      <<Block("h3", <<Name(s[i])>>)>>
                          \o Fence(<<FnSignature(Name(s[i]), s[i].type)>>) \o Docs(s[i])]
  OBVIOUS
<1>2. p = [i \in DOMAIN s |-> p[i]] /\ DOMAIN s = 1..Len(s)
  BY <1>1, RowIs
<1>3. Row(p) /\ Len(p) = Len(s)
  BY <1>2, Loop
<1>4. ASSUME NEW i \in 1..Len(p) PROVE Entry(p[i])
  <2>1. PICK h, x, y : /\ h = <<Name(s[i])>> /\ y = Docs(s[i])
                       /\ x = Fence(<<FnSignature(Name(s[i]), s[i].type)>>)
    OBVIOUS
  <2>2. Plain(x) /\ Plain(y)
    BY <2>1, OneRow, FencePlain, DocsPlain
  <2>3. Entry(<<Block("h3", h)>> \o x)
    BY <2>2, EntryIs
  <2>4. Entry(<<Block("h3", h)>> \o x \o y)
    BY <2>2, <2>3, EntryMore
  <2> QED BY <1>1, <1>2, <1>3, <2>1, <2>4
<1>5. Methods(title, s) = Titled(title, p)
  BY <1>1 DEF Methods
<1> QED BY <1>3, <1>4, <1>5, TitledHeaded

LEMMA TraitHeaded ==
    ASSUME NEW it, Row(it.of)
    PROVE  \E T : Headed(Trait(it), T)
<1>0. PICK line :
          Trait(it) = Fence(<<line>>) \o AssocTypes(OfKind(it.of, "assoc_type", ""))
                          \o AssocConsts(OfKind(it.of, "assoc_const", ""))
                          \o Methods("Required Methods", OfKind(it.of, "function", "required"))
                          \o Methods("Provided Methods", OfKind(it.of, "function", "provided"))
  BY DEF Trait, TraitBody, OfKind
<1> DEFINE s1 == OfKind(it.of, "assoc_type", "")
           s2 == OfKind(it.of, "assoc_const", "")
           s3 == OfKind(it.of, "function", "required")
           s4 == OfKind(it.of, "function", "provided")
<1>1. Row(s1) /\ Row(s2) /\ Row(s3) /\ Row(s4)
  BY OfKindRow
<1> HIDE DEF s1, s2, s3, s4
<1>2. PICK x0, x1, x2, x3, x4 :
          /\ x0 = Fence(<<line>>) /\ x1 = AssocTypes(s1) /\ x2 = AssocConsts(s2)
          /\ x3 = Methods("Required Methods", s3) /\ x4 = Methods("Provided Methods", s4)
  OBVIOUS
<1>3. PICK t1, t2, t3, t4 :
          /\ t1 = HeadOf("Associated Types") /\ t2 = HeadOf("Associated Constants")
          /\ t3 = HeadOf("Required Methods") /\ t4 = HeadOf("Provided Methods")
  OBVIOUS
<1>4. t1 # t2 /\ t1 # t3 /\ t1 # t4 /\ t2 # t3 /\ t2 # t4 /\ t3 # t4
  BY <1>3, HeadsDiffer
<1>5. Headed(x0, {})
  BY <1>2, OneRow, FencePlain, PlainHeaded
<1>6. Headed(x1, {t1}) /\ Headed(x2, {t2}) /\ Headed(x3, {t3}) /\ Headed(x4, {t4})
  BY <1>1, <1>2, <1>3, AssocTypesHeaded, AssocConstsHeaded, MethodsHeaded
<1>7. Headed(x0 \o x1, {} \cup {t1})
  BY <1>5, <1>6, HeadedJoint
<1>8. Headed(x0 \o x1 \o x2, {} \cup {t1} \cup {t2})
  BY <1>4, <1>6, <1>7, HeadedJoint
<1>9. Headed(x0 \o x1 \o x2 \o x3, {} \cup {t1} \cup {t2} \cup {t3})
  BY <1>4, <1>6, <1>8, HeadedJoint
<1>10. Headed(x0 \o x1 \o x2 \o x3 \o x4, {} \cup {t1} \cup {t2} \cup {t3} \cup {t4})
  BY <1>4, <1>6, <1>9, HeadedJoint
<1>11. Trait(it) = x0 \o x1 \o x2 \o x3 \o x4
  BY <1>0, <1>2 DEF s1, s2, s3, s4
<1> QED BY <1>10, <1>11

LEMMA GroupHeaded ==
    ASSUME NEW s, Row(s), NEW bucket PROVE Headed(Group(s, bucket), {HeadOf(bucket.title)})
<1>1. PICK t : t = Sorted(InBucket(s, bucket.kinds)) /\ Row(t)
  BY InBucketRow, SortedRow
<1>2. PICK q : q = [i \in DOMAIN t |-> Listed(t[i])]
  OBVIOUS
<1>3. Group(s, bucket) = If(t # <<>>, <<HeadOf(bucket.title)>> \o q)
  BY <1>1, <1>2 DEF Group, HeadOf, InBucket
<1>4. q = [i \in DOMAIN t |-> q[i]] /\ DOMAIN t = 1..Len(t)
  BY <1>1, <1>2, RowIs
<1>5. Row(q) /\ Len(q) = Len(t) /\ (q = <<>> <=> t = <<>>)
  BY <1>1, <1>4, Loop
<1>6. \A c : ~IsHead(Listed(c)) /\ IsEntry(Listed(c))
  <2>1. ASSUME NEW c, NEW text, NEW d
        PROVE  ~IsHead(Told("item", text, d)) /\ IsEntry(Told("item", text, d))
    BY DEF IsHead, IsEntry, Told
  <2> QED BY <2>1 DEF Listed, Block
<1>7. Plain(q) /\ \A i \in 1..Len(q) : IsEntry(q[i])
  BY <1>2, <1>4, <1>5, <1>6 DEF Plain
<1>8. IsHead(HeadOf(bucket.title))
  BY BlockIs DEF HeadOf
<1>9. CASE t # <<>>
  <2>1. 1 \in 1..Len(q)
    <3>1. Len(q) \in Nat /\ Len(q) # 0
      BY <1>5, <1>9, RowIs
    <3> QED BY <3>1
  <2>2. IsEntry(q[1]) /\ q # <<>>
    BY <1>5, <1>7, <1>9, <2>1
  <2> QED BY <1>3, <1>7, <1>8, <1>9, <2>2, Section DEF If
<1>10. CASE t = <<>>
  BY <1>3, <1>10, NoneHeaded DEF If
<1> QED BY <1>9, <1>10

LEMMA ModuleHeaded == ASSUME NEW it, Row(it.of) PROVE \E T : Headed(ModuleBody(it), T)
<1>1. PICK s : s = Named(Indexed(it.of)) /\ Row(s)
  BY IndexedRow, NamedRow
<1>2. PICK p : p = [i \in DOMAIN Buckets |-> Group(s, Buckets[i])]
  OBVIOUS
<1>3. ModuleBody(it) = FlattenSeq(p)
  BY <1>1, <1>2, ModuleIs
<1>4. Row(p) /\ Len(p) = 11
  <2>1. p = [i \in DOMAIN Buckets |-> p[i]]
    BY <1>2
  <2> QED BY <2>1, BucketsDiffer, Loop
<1>5. PICK T : T = [i \in 1..11 |-> {HeadOf(Buckets[i].title)}]
  OBVIOUS
<1>6. \A i \in 1..Len(p) : Headed(p[i], T[i])
  BY <1>1, <1>2, <1>4, <1>5, BucketsDiffer, GroupHeaded
<1>7. \A i, j \in 1..Len(p) : i # j => T[i] \cap T[j] = {}
  <2>1. ASSUME NEW i \in 1..11, NEW j \in 1..11, i # j PROVE T[i] \cap T[j] = {}
    <3>1. HeadOf(Buckets[i].title) # HeadOf(Buckets[j].title)
      BY <2>1, BucketsDiffer, HeadsDiffer
    <3> QED BY <1>5, <3>1
  <2> QED BY <1>4, <2>1
<1>8. Apart(p, T)
  BY <1>6, <1>7 DEF Apart
<1>9. \E U : Headed(FlattenSeq(p), U)
  BY <1>4, <1>8, FlatHeaded
<1> QED BY <1>3, <1>9

LEMMA BodyHeaded ==
    ASSUME NEW it, NEW S, it.of \in Seq(S), \A v \in S : Row(v.of),
           it.kind = "struct" => it.form \in {"unit", "tuple", "plain"}
    PROVE  \E T : Headed(Body(it), T)
<1>1. Row(it.of)
  BY RowFits
<1>2. CASE it.kind = "module"
  BY <1>1, <1>2, ModuleHeaded DEF Body
<1>3. CASE it.kind = "struct"
  BY <1>1, <1>3, StructHeaded DEF Body
<1>4. CASE it.kind = "enum"
  BY <1>4, EnumHeaded DEF Body
<1>5. CASE it.kind = "trait"
  BY <1>1, <1>5, TraitHeaded DEF Body
<1>6. CASE it.kind = "union"
  BY <1>1, <1>6, UnionPlain, PlainHeaded DEF Body
<1>7. CASE it.kind \in {"constant", "static", "type_alias", "function", "macro"}
  <2>1. Headed(Fence(<<Value(it)>>), {})
    BY OneRow, FencePlain, PlainHeaded
  <2> QED BY <1>7, <2>1 DEF Body
<1>8. CASE it.kind \notin {"module", "struct", "enum", "trait", "union", "constant", "static",
                           "type_alias", "function", "macro"}
  <2>1. Headed(<<Block("note", <<it.kind>>)>>, {})
    BY OnePlain, BlockIs, PlainHeaded
  <2> QED BY <1>8, <2>1 DEF Body
<1> QED BY <1>2, <1>3, <1>4, <1>5, <1>6, <1>7, <1>8

LEMMA PageHeaded == ASSUME NEW it \in Subjects PROVE \E T : Headed(Page(it), T)
<1>1. PICK S : S = Below(it)
  OBVIOUS
<1>2. it.of \in Seq(S) /\ \A v \in S : Row(v.of)
  BY <1>1, SubjectRows
<1>3. PICK top : top = Block("h1", <<it.kind, " ", it.name>>) /\ ~IsHead(top)
  <2>1. \A t : ~IsHead(Block("h1", t))
    BY BlockIs
  <2> QED BY <2>1
<1>4. Headed(<<top>>, {})
  BY <1>3, OnePlain, PlainHeaded
<1>5. CASE it.kind = "missing"
  <2>1. Headed(<<Block("note", <<"re-exported">>)>>, {})
    BY OnePlain, BlockIs, PlainHeaded
  <2>2. Headed(<<top>> \o <<Block("note", <<"re-exported">>)>>, {} \cup {})
    BY <1>4, <2>1, HeadedJoint
  <2> QED BY <1>3, <1>5, <2>2 DEF Page
<1>6. CASE it.kind # "missing"
  <2>1. PICK T : Headed(Body(it), T)
    BY <1>2, SubjectIs, BodyHeaded
  <2>2. Headed(Docs(it), {})
    BY DocsPlain, PlainHeaded
  <2>3. Headed(Docs(it) \o Body(it), {} \cup T)
    BY <2>1, <2>2, HeadedJoint
  <2>4. Headed(<<top>> \o (Docs(it) \o Body(it)), {} \cup ({} \cup T))
    BY <1>4, <2>3, HeadedJoint
  <2> QED BY <1>3, <1>6, <2>4 DEF Page
<1> QED BY <1>5, <1>6

\* Every heading is followed by an entry and is on the page once, whatever is
\* missing or has no docs (HeadingsHaveContent): render_module, render_enum,
\* render_trait and render_struct ask what there is before they write one.
THEOREM EveryHeadingStands == PageSpec => []HeadingsHaveContent
<1>1. subject \in Subjects /\ page \in {<<>>, Page(subject)} => HeadingsHaveContent
  <2>1. SUFFICES ASSUME subject \in Subjects, page \in {<<>>, Page(subject)}
                 PROVE  HeadingsHaveContent
    OBVIOUS
  <2>2. PICK T : Headed(page, T)
    BY <2>1, PageHeaded, NoneHeaded
  <2>3. DOMAIN page = 1..Len(page)
    BY <2>2, RowIs DEF Headed
  <2> QED BY <2>2, <2>3 DEF Headed, IsHead, IsEntry, HeadingsHaveContent
<1> QED BY <1>1, Pages, PTL

-----------------------------------------------------------------------------
(* What is in a sequence once                                              *)

\* No member of x is in K, ...
Never(x, K) == Row(x) /\ \A i \in 1..Len(x) : x[i] \notin K

\* ... or one is, at one place.
Only(x, K) ==
    /\ Row(x)
    /\ \E k \in 1..Len(x) : x[k] \in K /\ \A j \in 1..Len(x) : x[j] \in K => j = k

LEMMA NeverJoint ==
    ASSUME NEW x, NEW y, NEW K, Never(x, K), Never(y, K) PROVE Never(x \o y, K)
<1>1. Row(x) /\ Row(y)
  BY DEF Never
<1>2. ASSUME NEW k \in 1..Len(x \o y) PROVE (x \o y)[k] \notin K
  <2>1. CASE k \in 1..Len(x)
    BY <1>1, <2>1, RowJoint DEF Never
  <2>2. CASE k - Len(x) \in 1..Len(y) /\ k = Len(x) + (k - Len(x))
    <3>1. PICK i \in 1..Len(y) : k = Len(x) + i
      BY <2>2
    <3>2. (x \o y)[k] = y[i]
      BY <1>1, <3>1, RowJoint
    <3> QED BY <3>2 DEF Never
  <2> QED BY <1>1, <2>1, <2>2, RowJoint
<1> QED BY <1>1, <1>2, RowJoint DEF Never

LEMMA OnlyFirst ==
    ASSUME NEW x, NEW y, NEW K, Only(x, K), Never(y, K) PROVE Only(x \o y, K)
<1>1. Row(x) /\ Row(y)
  BY DEF Only, Never
<1>2. PICK z, m, n : z = x \o y /\ m = Len(x) /\ n = Len(y)
  OBVIOUS
<1>3. /\ Row(z) /\ m \in Nat /\ n \in Nat /\ Len(z) = m + n
      /\ \A i \in 1..m : z[i] = x[i]
      /\ \A i \in 1..n : z[m + i] = y[i]
      /\ \A k \in 1..Len(z) : k \in 1..m \/ (k - m \in 1..n /\ k = m + (k - m))
  BY <1>1, <1>2, RowIs, RowJoint
<1>4. PICK k \in 1..m : x[k] \in K /\ \A j \in 1..m : x[j] \in K => j = k
  BY <1>2 DEF Only
<1>5. k \in 1..Len(z) /\ z[k] \in K
  BY <1>3, <1>4
<1>6. ASSUME NEW j \in 1..Len(z), z[j] \in K PROVE j = k
  <2>1. CASE j \in 1..m
    BY <1>3, <1>4, <1>6, <2>1
  <2>2. CASE j \notin 1..m
    <3>1. PICK i \in 1..n : j = m + i
      BY <1>3, <2>2
    <3>2. y[i] \in K
      BY <1>3, <1>6, <3>1
    <3> QED BY <1>2, <3>2 DEF Never
  <2> QED BY <2>1, <2>2
<1> QED BY <1>2, <1>3, <1>5, <1>6 DEF Only

LEMMA OnlyLast ==
    ASSUME NEW x, NEW y, NEW K, Never(x, K), Only(y, K) PROVE Only(x \o y, K)
<1>1. Row(x) /\ Row(y)
  BY DEF Only, Never
<1>2. PICK z, m, n : z = x \o y /\ m = Len(x) /\ n = Len(y)
  OBVIOUS
<1>3. /\ Row(z) /\ m \in Nat /\ n \in Nat /\ Len(z) = m + n
      /\ \A i \in 1..m : z[i] = x[i]
      /\ \A i \in 1..n : z[m + i] = y[i]
      /\ \A k \in 1..Len(z) : k \in 1..m \/ (k - m \in 1..n /\ k = m + (k - m))
  BY <1>1, <1>2, RowIs, RowJoint
<1>4. PICK k \in 1..n : y[k] \in K /\ \A j \in 1..n : y[j] \in K => j = k
  BY <1>2 DEF Only
<1>5. m + k \in 1..Len(z) /\ z[m + k] \in K
  BY <1>3, <1>4
<1>6. ASSUME NEW j \in 1..Len(z), z[j] \in K PROVE j = m + k
  <2>1. CASE j \in 1..m
    <3>1. x[j] \in K
      BY <1>3, <1>6, <2>1
    <3> QED BY <1>2, <2>1, <3>1 DEF Never
  <2>2. CASE j \notin 1..m
    <3>1. PICK i \in 1..n : j = m + i
      BY <1>3, <2>2
    <3>2. y[i] \in K
      BY <1>3, <1>6, <3>1
    <3> QED BY <1>4, <3>1, <3>2
  <2> QED BY <2>1, <2>2
<1> QED BY <1>2, <1>3, <1>5, <1>6 DEF Only

LEMMA NoneNever == ASSUME NEW K PROVE Never(<<>>, K)
<1>1. Row(<<>>)
  BY OneRow
<1>2. Len(<<>>) = 0 /\ 1..0 = {}
  OBVIOUS
<1> QED BY <1>1, <1>2 DEF Never

LEMMA OneIs ==
    ASSUME NEW b, NEW K
    PROVE  /\ b \in K => Only(<<b>>, K)
           /\ b \notin K => Never(<<b>>, K)
<1>1. Row(<<b>>) /\ Len(<<b>>) = 1 /\ <<b>>[1] = b
  BY OneRow
<1>2. 1 \in 1..1 /\ \A i \in 1..1 : i = 1
  OBVIOUS
<1> QED BY <1>1, <1>2 DEF Only, Never

\* Neither in the parts nor in the whole.
LEMMA FlatNever ==
    ASSUME NEW p, Row(p), NEW K, \A i \in 1..Len(p) : Never(p[i], K)
    PROVE  Never(FlattenSeq(p), K)
<1>1. Rows(p)
  BY DEF Rows, Never
<1>2. PICK S : /\ p \in Seq(Seq(S))
               /\ \A b \in S : \E i \in 1..Len(p) : \E j \in 1..Len(p[i]) : b = p[i][j]
  BY <1>1, RowsAre
<1>3. \A b \in S : b \notin K
  BY <1>2 DEF Never
<1>4. PICK z : z = FlattenSeq(p) /\ z \in Seq(S)
  BY <1>2, FlatIn
<1>5. \A i \in 1..Len(z) : z[i] \in S
  BY <1>4
<1> QED BY <1>3, <1>4, <1>5 DEF Never, Row

\* The k-th of the parts has it.
SinglePart(p, k, K) ==
    /\ Row(p) /\ k \in 1..Len(p) /\ Only(p[k], K)
    /\ \A i \in 1..Len(p) : i # k => Never(p[i], K)

LEMMA FlatOnly ==
    ASSUME NEW p, NEW k, NEW K, SinglePart(p, k, K) PROVE Only(FlattenSeq(p), K)
<1>1. Rows(p)
  <2>1. \A i \in 1..Len(p) : Row(p[i])
    BY DEF SinglePart, Only, Never
  <2> QED BY <2>1 DEF Rows, SinglePart
<1>2. PICK S : p \in Seq(Seq(S))
  BY <1>1, RowsAre
<1>3. PICK n \in Nat : n = Len(p) /\ n >= 1 /\ k \in 1..n /\ p # <<>>
  <2>1. Len(p) \in Nat /\ (Len(p) = 0 <=> p = <<>>) /\ k \in 1..Len(p)
    BY <1>2, Length DEF SinglePart
  <2> QED BY <2>1
<1>4. PICK f : Puts(f, p, S)
  BY <1>2, <1>3, Flattens
<1>5. InTurn(f, p, n) /\ FlattenSeq(p) = f[n]
  BY <1>3, <1>4 DEF Puts
<1>6. Only(p[k], K) /\ \A i \in 1..n : i # k => Never(p[i], K)
  BY <1>3 DEF SinglePart
<1> DEFINE P == {i \in 1..n : /\ i < k => Never(f[i], K)
                              /\ i >= k => Only(f[i], K)}
<1>7. 1 \in P
  <2>1. f[1] = p[1] /\ 1 \in 1..n /\ (1 >= k => 1 = k) /\ (1 < k => 1 # k)
    BY <1>3, <1>5 DEF InTurn
  <2> QED BY <1>6, <2>1
<1>8. ASSUME NEW i \in 2..n, i - 1 \in P PROVE i \in P
  <2>1. f[i] = f[i - 1] \o p[i]
    BY <1>5 DEF InTurn
  <2>2. i \in 1..n /\ i \in Nat /\ k \in Nat
    BY <1>3
  <2>3. CASE i < k
    <3>1. i - 1 < k /\ i # k /\ ~(i >= k)
      BY <2>2, <2>3
    <3>2. Never(f[i - 1], K) /\ Never(p[i], K)
      BY <1>6, <1>8, <2>2, <3>1
    <3>3. Never(f[i], K)
      BY <2>1, <3>2, NeverJoint
    <3> QED BY <2>2, <3>1, <3>3
  <2>4. CASE i = k
    <3>1. i - 1 < k /\ ~(i < k)
      BY <2>2, <2>4
    <3>2. Never(f[i - 1], K) /\ Only(p[i], K)
      BY <1>6, <1>8, <2>4, <3>1
    <3>3. Only(f[i], K)
      BY <2>1, <3>2, OnlyLast
    <3> QED BY <2>2, <3>1, <3>3
  <2>5. CASE i > k
    <3>1. i - 1 >= k /\ i # k /\ ~(i < k)
      BY <2>2, <2>5
    <3>2. Only(f[i - 1], K) /\ Never(p[i], K)
      BY <1>6, <1>8, <2>2, <3>1
    <3>3. Only(f[i], K)
      BY <2>1, <3>2, OnlyFirst
    <3> QED BY <2>2, <3>1, <3>3
  <2> QED BY <2>2, <2>3, <2>4, <2>5
<1>9. 1..n \subseteq P
  <2> HIDE DEF P
  <2> QED BY <1>3, <1>7, <1>8, Upwards
<1>10. n \in 1..n /\ n >= k
  BY <1>3
<1> QED BY <1>5, <1>9, <1>10

\* A loop over s in which one part, that of c, has it.
Singles(s, c, p, K) ==
    /\ p = [i \in DOMAIN s |-> p[i]]
    /\ \A i \in 1..Len(s) : IF s[i] = c THEN Only(p[i], K) ELSE Never(p[i], K)

LEMMA LoopOnly ==
    ASSUME NEW s, NEW c, Only(s, {c}), NEW p, NEW K, Singles(s, c, p, K)
    PROVE  Only(FlattenSeq(p), K)
<1>1. Row(s) /\ Row(p) /\ Len(p) = Len(s)
  BY Loop DEF Only, Singles
<1>2. PICK k \in 1..Len(s) : s[k] = c /\ \A j \in 1..Len(s) : s[j] = c => j = k
  BY DEF Only
<1>3. SinglePart(p, k, K)
  BY <1>1, <1>2 DEF SinglePart, Singles
<1> QED BY <1>3, FlatOnly

LEMMA LoopNever ==
    ASSUME NEW s, Row(s), NEW p, NEW K, p = [i \in DOMAIN s |-> p[i]],
           \A i \in 1..Len(s) : Never(p[i], K)
    PROVE  Never(FlattenSeq(p), K)
<1>1. Row(p) /\ Len(p) = Len(s)
  BY Loop
<1> QED BY <1>1, FlatNever

\* A list of s.
LEMMA ListOnly ==
    ASSUME NEW s, NEW c, Only(s, {c}), NEW q, q = [i \in DOMAIN s |-> q[i]], NEW K,
           \A i \in 1..Len(s) : q[i] \in K <=> s[i] = c
    PROVE  Only(q, K)
<1>1. Row(s) /\ Row(q) /\ Len(q) = Len(s)
  BY Loop DEF Only
<1> QED BY <1>1 DEF Only

LEMMA FilteredOnly ==
    ASSUME NEW s, NEW c, Only(s, {c}), NEW D, NEW t, Filtered(s, D, t),
           \A i \in 1..Len(s) : s[i] = c => i \in D
    PROVE  Only(t, {c})
<1>1. PICK p : /\ p = [i \in DOMAIN s |-> p[i]] /\ t = FlattenSeq(p)
               /\ \A i \in 1..Len(s) : p[i] = IF i \in D THEN <<s[i]>> ELSE <<>>
  BY DEF Filtered
<1>2. ASSUME NEW i \in 1..Len(s)
      PROVE  IF s[i] = c THEN Only(p[i], {c}) ELSE Never(p[i], {c})
  <2>1. CASE s[i] = c
    BY <1>1, <2>1, OneIs
  <2>2. CASE s[i] # c
    <3>1. Never(<<s[i]>>, {c}) /\ Never(<<>>, {c})
      BY <2>2, OneIs, NoneNever
    <3> QED BY <1>1, <2>2, <3>1
  <2> QED BY <2>1, <2>2
<1>3. Singles(s, c, p, {c})
  BY <1>1, <1>2 DEF Singles
<1> QED BY <1>1, <1>3, LoopOnly

LEMMA FilteredNever ==
    ASSUME NEW s, Row(s), NEW c, NEW D, NEW t, Filtered(s, D, t),
           \A i \in 1..Len(s) : s[i] = c => i \notin D
    PROVE  Never(t, {c})
<1>1. PICK p : /\ p = [i \in DOMAIN s |-> p[i]] /\ t = FlattenSeq(p)
               /\ \A i \in 1..Len(s) : p[i] = IF i \in D THEN <<s[i]>> ELSE <<>>
  BY DEF Filtered
<1>2. ASSUME NEW i \in 1..Len(s) PROVE Never(p[i], {c})
  <2>1. CASE i \in D
    <3>1. s[i] \notin {c}
      BY <2>1
    <3>2. Never(<<s[i]>>, {c})
      BY <3>1, OneIs
    <3> QED BY <1>1, <2>1, <3>2
  <2>2. CASE i \notin D
    BY <1>1, <2>2, NoneNever
  <2> QED BY <2>1, <2>2
<1> QED BY <1>1, <1>2, LoopNever

-----------------------------------------------------------------------------
(* Docs: one child has them, or none                                       *)

\* One child has c's docs, and it is c.
OwnAmong(S, c) == \A x \in S : x.docs = c.docs => x = c

Speaks(s, c) == \E S : s \in Seq(S) /\ OwnAmong(S, c) /\ Only(s, {c})

\* None of s has docs d.
Silent(s, d) == \E S : s \in Seq(S) /\ \A x \in S : x.docs # d

LEMMA SilentIs ==
    ASSUME NEW s, NEW d, Silent(s, d)
    PROVE  Row(s) /\ DOMAIN s = 1..Len(s) /\ \A i \in 1..Len(s) : s[i].docs # d
<1>1. PICK S : s \in Seq(S) /\ \A x \in S : x.docs # d
  BY DEF Silent
<1>2. DOMAIN s = 1..Len(s) /\ \A i \in 1..Len(s) : s[i] \in S
  BY <1>1
<1> QED BY <1>1, <1>2, RowFits

LEMMA SpeaksIs ==
    ASSUME NEW s, NEW c, Speaks(s, c)
    PROVE  /\ Row(s) /\ DOMAIN s = 1..Len(s) /\ Only(s, {c})
           /\ \A i \in 1..Len(s) : s[i].docs = c.docs => s[i] = c
<1>1. PICK S : s \in Seq(S) /\ OwnAmong(S, c) /\ Only(s, {c})
  BY DEF Speaks
<1>2. DOMAIN s = 1..Len(s) /\ \A i \in 1..Len(s) : s[i] \in S
  BY <1>1
<1> QED BY <1>1, <1>2, RowFits DEF OwnAmong

\* c is one of s.
LEMMA SpeaksSome == ASSUME NEW s, NEW c, Speaks(s, c) PROVE s # <<>>
<1>1. PICK k \in 1..Len(s) : s[k] = c
  BY SpeaksIs DEF Only
<1>2. Len(<<>>) = 0 /\ 1..0 = {}
  OBVIOUS
<1> QED BY <1>1, <1>2

LEMMA FilteredSilent ==
    ASSUME NEW s, NEW d, Silent(s, d), NEW D, NEW t, Filtered(s, D, t) PROVE Silent(t, d)
BY FilteredIn DEF Silent

LEMMA FilteredSpeaks ==
    ASSUME NEW s, NEW c, Speaks(s, c), NEW D, NEW t, Filtered(s, D, t),
           \A i \in 1..Len(s) : s[i] = c => i \in D
    PROVE  Speaks(t, c)
<1>1. PICK S : s \in Seq(S) /\ OwnAmong(S, c) /\ Only(s, {c})
  BY DEF Speaks
<1>2. Only(t, {c})
  BY <1>1, FilteredOnly
<1>3. t \in Seq(S)
  BY <1>1, FilteredIn
<1> QED BY <1>1, <1>2, <1>3 DEF Speaks

LEMMA FilteredOut ==
    ASSUME NEW s, NEW c, Speaks(s, c), NEW D, NEW t, Filtered(s, D, t),
           \A i \in 1..Len(s) : s[i] = c => i \notin D
    PROVE  Silent(t, c.docs)
<1>1. PICK S : s \in Seq(S) /\ OwnAmong(S, c)
  BY DEF Speaks
<1>2. Never(t, {c})
  BY <1>1, RowFits, FilteredNever
<1>3. t \in Seq(S)
  BY <1>1, FilteredIn
<1>4. t \in Seq(S \ {c})
  <2>1. Len(t) \in Nat /\ DOMAIN t = 1..Len(t) /\ \A i \in 1..Len(t) : t[i] \in S
    BY <1>3
  <2>2. \A i \in 1..Len(t) : t[i] \in S \ {c}
    BY <1>2, <2>1 DEF Never
  <2>3. t = [i \in 1..Len(t) |-> t[i]]
    BY <1>3
  <2> QED BY <2>1, <2>2, <2>3
<1>5. \A x \in S \ {c} : x.docs # c.docs
  BY <1>1 DEF OwnAmong
<1> QED BY <1>4, <1>5 DEF Silent

LEMMA IndexedSpeaks ==
    ASSUME NEW s, NEW c, Speaks(s, c), c.kind # "missing" PROVE Speaks(Indexed(s), c)
<1>1. PICK D, t : /\ t = Indexed(s) /\ Filtered(s, D, t)
                  /\ \A i \in 1..Len(s) : i \in D <=> s[i].kind # "missing"
  BY SpeaksIs, IndexedIs
<1>2. \A i \in 1..Len(s) : s[i] = c => i \in D
  BY <1>1
<1> QED BY <1>1, <1>2, FilteredSpeaks

LEMMA IndexedSilent == ASSUME NEW s, NEW d, Silent(s, d) PROVE Silent(Indexed(s), d)
BY SilentIs, IndexedIs, FilteredSilent

LEMMA DocumentedSpeaks ==
    ASSUME NEW s, NEW c, Speaks(s, c), HasDocs(c) PROVE Speaks(Those(s, HasDocs), c)
<1>1. PICK D, t : /\ t = Those(s, HasDocs) /\ Filtered(s, D, t)
                  /\ \A i \in 1..Len(s) : i \in D <=> HasDocs(s[i])
  BY SpeaksIs, DocumentedIs
<1>2. \A i \in 1..Len(s) : s[i] = c => i \in D
  BY <1>1
<1> QED BY <1>1, <1>2, FilteredSpeaks

LEMMA DocumentedSilent == ASSUME NEW s, NEW d, Silent(s, d) PROVE Silent(Those(s, HasDocs), d)
<1>1. PICK D, t : t = Those(s, HasDocs) /\ Filtered(s, D, t)
  BY SilentIs, DocumentedIs
<1> QED BY <1>1, FilteredSilent

LEMMA OfKindSpeaks ==
    ASSUME NEW s, NEW c, Speaks(s, c), NEW k, NEW form
    PROVE  /\ c.kind = k /\ (form = "" \/ c.form = form) => Speaks(OfKind(s, k, form), c)
           /\ ~(c.kind = k /\ (form = "" \/ c.form = form)) => Silent(OfKind(s, k, form), c.docs)
<1>0. Row(s)
  BY SpeaksIs
<1>1. PICK D, t : t = OfKind(s, k, form) /\ Filtered(s, D, t) /\ D = Places(s, k, form)
  BY <1>0, OfKindIs
<1>2. ASSUME c.kind = k /\ (form = "" \/ c.form = form) PROVE Speaks(t, c)
  <2>1. \A i \in 1..Len(s) : s[i] = c => i \in D
    BY <1>1, <1>2 DEF Places
  <2> QED BY <1>1, <2>1, FilteredSpeaks
<1>3. ASSUME ~(c.kind = k /\ (form = "" \/ c.form = form)) PROVE Silent(t, c.docs)
  <2>1. \A i \in 1..Len(s) : s[i] = c => i \notin D
    BY <1>1, <1>3 DEF Places
  <2> QED BY <1>1, <2>1, FilteredOut
<1> QED BY <1>1, <1>2, <1>3

LEMMA OfKindSilent ==
    ASSUME NEW s, NEW d, Silent(s, d), NEW k, NEW form PROVE Silent(OfKind(s, k, form), d)
<1>1. Row(s)
  BY SilentIs
<1>2. Filtered(s, Places(s, k, form), OfKind(s, k, form))
  BY <1>1, OfKindIs
<1> QED BY <1>2, FilteredSilent

LEMMA NamedSpeaks ==
    ASSUME NEW s, NEW c, Speaks(s, c), c.name # "" PROVE Speaks(Named(s), c)
<1>1. PICK D, t : /\ t = Named(s) /\ Filtered(s, D, t)
                  /\ \A i \in 1..Len(s) : i \in D <=> s[i].name # ""
  BY SpeaksIs, NamedIs
<1>2. \A i \in 1..Len(s) : s[i] = c => i \in D
  BY <1>1
<1> QED BY <1>1, <1>2, FilteredSpeaks

LEMMA NamedSilent == ASSUME NEW s, NEW d, Silent(s, d) PROVE Silent(Named(s), d)
<1>1. PICK D, t : t = Named(s) /\ Filtered(s, D, t)
  BY SilentIs, NamedIs
<1> QED BY <1>1, FilteredSilent

LEMMA InBucketSpeaks ==
    ASSUME NEW s, NEW c, Speaks(s, c), NEW kinds
    PROVE  /\ c.kind \in kinds => Speaks(InBucket(s, kinds), c)
           /\ c.kind \notin kinds => Silent(InBucket(s, kinds), c.docs)
<1>1. PICK D, t : t = InBucket(s, kinds) /\ D = OfKinds(s, kinds) /\ Filtered(s, D, t)
  BY SpeaksIs, InBucketIs
<1>2. \A i \in 1..Len(s) : s[i] = c => (i \in D <=> c.kind \in kinds)
  BY <1>1 DEF OfKinds
<1> QED BY <1>1, <1>2, FilteredSpeaks, FilteredOut

LEMMA InBucketSilent ==
    ASSUME NEW s, NEW d, Silent(s, d), NEW kinds PROVE Silent(InBucket(s, kinds), d)
<1>1. Filtered(s, OfKinds(s, kinds), InBucket(s, kinds))
  BY SilentIs, InBucketIs
<1> QED BY <1>1, FilteredSilent

LEMMA SortedSpeaks ==
    ASSUME NEW s, NEW c, Speaks(s, c), \E i \in DOMAIN Alphabet : Alphabet[i] = ListedAs(c)
    PROVE  Speaks(Sorted(s), c)
<1>1. PICK S : s \in Seq(S) /\ OwnAmong(S, c) /\ Only(s, {c})
  BY DEF Speaks
<1>2. Sorted(s) \in Seq(S) /\ Row(s)
  BY <1>1, SortedIn, RowFits
<1>3. PICK name : name = ListedAs(c)
  OBVIOUS
<1>4. Only(Alphabet, {name})
  <2>1. Row(Alphabet) /\ DOMAIN Alphabet = 1..Len(Alphabet)
    BY ItemsAssumption, RowFits, RowIs
  <2>2. PICK k \in 1..Len(Alphabet) : Alphabet[k] = name
    BY <1>3, <2>1
  <2>3. \A j \in 1..Len(Alphabet) : Alphabet[j] = name => j = k
    BY <2>1, <2>2, ItemsAssumption
  <2> QED BY <2>1, <2>2, <2>3 DEF Only
<1>5. PICK q : q = [i \in DOMAIN Alphabet |-> OfName(s, Alphabet[i])]
  OBVIOUS
<1>6. Only(OfName(s, name), {c})
  <2>1. \A i \in 1..Len(s) : s[i] = c => i \in ListedAt(s, name)
    BY <1>3 DEF ListedAt
  <2> QED BY <1>1, <1>2, <2>1, OfNameIs, FilteredOnly
<1>7. ASSUME NEW other, other # name PROVE Never(OfName(s, other), {c})
  <2>1. \A i \in 1..Len(s) : s[i] = c => i \notin ListedAt(s, other)
    BY <1>3, <1>7 DEF ListedAt
  <2> QED BY <1>2, <2>1, OfNameIs, FilteredNever
<1>8. Singles(Alphabet, name, q, {c})
  <2>1. DOMAIN Alphabet = 1..Len(Alphabet)
    BY <1>4, RowIs DEF Only
  <2> QED BY <1>5, <1>6, <1>7, <2>1 DEF Singles
<1>9. Only(Sorted(s), {c})
  BY <1>4, <1>5, <1>8, SortedIs, LoopOnly
<1> QED BY <1>1, <1>2, <1>9 DEF Speaks

LEMMA SortedSilent == ASSUME NEW s, NEW d, Silent(s, d) PROVE Silent(Sorted(s), d)
BY SortedIn DEF Silent

-----------------------------------------------------------------------------
(* Docs: the blocks that tell them                                         *)

\* The blocks that tell docs d, or some of them.
Telling(K, d) == d \notin {"none", "blank"} /\ \A b \in K : b.docs = d

DocsBlock(d) == Told("docs", <<>>, d)

LEMMA ToldIs ==
    ASSUME NEW K, NEW d, Telling(K, d), NEW b, NEW t
    PROVE  Block(b, t) \notin K /\ \A e : e # d => Told(b, t, e) \notin K
<1>1. \A e : Told(b, t, e).docs = e
  BY DEF Told
<1>2. Block(b, t) = Told(b, t, "none")
  BY DEF Block
<1> QED BY <1>1, <1>2 DEF Telling

LEMMA DocsOnce ==
    ASSUME NEW K, NEW d, Telling(K, d), NEW it
    PROVE  /\ it.docs = d /\ DocsBlock(d) \in K => Only(Docs(it), K)
           /\ it.docs # d => Never(Docs(it), K)
<1>1. CASE it.docs = d /\ DocsBlock(d) \in K
  <2>1. Docs(it) = <<DocsBlock(d)>>
    BY <1>1 DEF Docs, If, DocsBlock, Telling
  <2> QED BY <1>1, <2>1, OneIs
<1>2. CASE it.docs # d
  <2>1. Never(<<Told("docs", <<>>, it.docs)>>, K)
    BY <1>2, ToldIs, OneIs
  <2> QED BY <1>2, <2>1, NoneNever DEF Docs, If
<1> QED BY <1>1, <1>2

LEMMA FenceNever ==
    ASSUME NEW K, NEW d, Telling(K, d), NEW lines, Row(lines) PROVE Never(Fence(lines), K)
<1>1. PICK p : p = [i \in DOMAIN lines |-> Block("code", lines[i])]
  OBVIOUS
<1>2. p = [i \in DOMAIN lines |-> p[i]] /\ DOMAIN lines = 1..Len(lines)
  BY <1>1, RowIs
<1>3. Row(p) /\ Len(p) = Len(lines)
  BY <1>2, Loop
<1>4. Never(p, K)
  BY <1>1, <1>2, <1>3, ToldIs DEF Never
<1>5. Never(<<Block("open", <<>>)>>, K) /\ Never(<<Block("close", <<>>)>>, K)
  BY OneIs, ToldIs
<1>6. Never(<<Block("open", <<>>)>> \o p, K)
  BY <1>4, <1>5, NeverJoint
<1>7. Never(<<Block("open", <<>>)>> \o p \o <<Block("close", <<>>)>>, K)
  BY <1>5, <1>6, NeverJoint
<1> QED BY <1>1, <1>7 DEF Fence

\* A block of no docs before what may have some.
LEMMA BlockBefore ==
    ASSUME NEW K, NEW d, Telling(K, d), NEW b, NEW t, NEW x
    PROVE  /\ Only(x, K) => Only(<<Block(b, t)>> \o x, K)
           /\ Never(x, K) => Never(<<Block(b, t)>> \o x, K)
<1>1. Never(<<Block(b, t)>>, K)
  BY OneIs, ToldIs
<1> QED BY <1>1, OnlyLast, NeverJoint

\* A loop over children that writes K's block for c, and none for the others.
Tells(s, c, p, K) ==
    /\ p = [i \in DOMAIN s |-> p[i]]
    /\ \A i \in 1..Len(s) : s[i] = c => Only(p[i], K)
    /\ \A i \in 1..Len(s) : s[i].docs # c.docs => Never(p[i], K)

LEMMA LoopTells ==
    ASSUME NEW s, NEW c, Speaks(s, c), NEW p, NEW K, Tells(s, c, p, K)
    PROVE  Only(FlattenSeq(p), K)
<1>1. Only(s, {c}) /\ \A i \in 1..Len(s) : s[i].docs = c.docs => s[i] = c
  BY SpeaksIs
<1>2. Singles(s, c, p, K)
  BY <1>1 DEF Singles, Tells
<1> QED BY <1>1, <1>2, LoopOnly

\* An entry of each child: its heading, and the child's docs last.
LEMMA EntryTells ==
    ASSUME NEW K, NEW d, Telling(K, d), NEW c, NEW b, NEW t
    PROVE  /\ c.docs = d /\ DocsBlock(d) \in K => Only(<<Block(b, t)>> \o Docs(c), K)
           /\ c.docs # d => Never(<<Block(b, t)>> \o Docs(c), K)
BY DocsOnce, BlockBefore

\* What may be left out.
LEMMA IfTells ==
    ASSUME NEW K, NEW x, NEW there
    PROVE  /\ there /\ Only(x, K) => Only(If(there, x), K)
           /\ Never(x, K) => Never(If(there, x), K)
BY NoneNever DEF If

LEMMA FieldDocsTells ==
    ASSUME NEW K, NEW d, Telling(K, d), NEW it
    PROVE  /\ \A c : /\ it.form = "plain" /\ Speaks(it.of, c) /\ c.docs = d /\ DocsBlock(d) \in K
                     /\ HasDocs(c) /\ c.kind # "missing"
                     => Only(FieldDocs(it), K)
           /\ Silent(it.of, d) => Never(FieldDocs(it), K)
<1>1. PICK s, p : /\ s = Those(Indexed(it.of), HasDocs)
                  /\ p = [i \in DOMAIN s |-> <<Block("h3", NameAndType(s[i]))>> \o Docs(s[i])]
  OBVIOUS
<1>2. FieldDocs(it) = If(it.form = "plain" /\ s # <<>>, <<Block("h2", <<"Fields">>)>> \o FlattenSeq(p))
  BY <1>1 DEF FieldDocs, Each
<1>3. ASSUME NEW c, it.form = "plain", Speaks(it.of, c), c.docs = d, DocsBlock(d) \in K,
             HasDocs(c), c.kind # "missing"
      PROVE  Only(FieldDocs(it), K)
  <2>1. Speaks(s, c) /\ s # <<>>
    BY <1>1, <1>3, IndexedSpeaks, DocumentedSpeaks, SpeaksSome
  <2>2. DOMAIN s = 1..Len(s)
    BY <2>1, SpeaksIs
  <2>3. Tells(s, c, p, K)
    BY <1>1, <1>3, <2>2, EntryTells DEF Tells
  <2>4. Only(<<Block("h2", <<"Fields">>)>> \o FlattenSeq(p), K)
    BY <2>1, <2>3, LoopTells, BlockBefore
  <2> QED BY <1>2, <1>3, <2>1, <2>4, IfTells
<1>4. ASSUME Silent(it.of, d) PROVE Never(FieldDocs(it), K)
  <2>1. Silent(s, d)
    BY <1>1, <1>4, IndexedSilent, DocumentedSilent
  <2>2. Row(s) /\ DOMAIN s = 1..Len(s) /\ \A i \in 1..Len(s) : s[i].docs # d
    BY <2>1, SilentIs
  <2>3. p = [i \in DOMAIN s |-> p[i]] /\ \A i \in 1..Len(s) : Never(p[i], K)
    BY <1>1, <2>2, EntryTells
  <2>4. Never(<<Block("h2", <<"Fields">>)>> \o FlattenSeq(p), K)
    BY <2>2, <2>3, LoopNever, BlockBefore
  <2> QED BY <1>2, <2>4, IfTells
<1> QED BY <1>3, <1>4

LEMMA StructTells ==
    ASSUME NEW K, NEW d, Telling(K, d), NEW it, Row(it.of), it.form \in {"unit", "tuple", "plain"}
    PROVE  /\ \A c : /\ it.form = "plain" /\ Speaks(it.of, c) /\ c.docs = d /\ DocsBlock(d) \in K
                     /\ HasDocs(c) /\ c.kind # "missing"
                     => Only(Struct(it), K)
           /\ Silent(it.of, d) => Never(Struct(it), K)
<1>1. PICK lines : Row(lines) /\ Struct(it) = Fence(lines) \o FieldDocs(it)
  BY StructIs
<1>2. Never(Fence(lines), K)
  BY <1>1, FenceNever
<1> QED BY <1>1, <1>2, FieldDocsTells, OnlyLast, NeverJoint

LEMMA UnionNever == ASSUME NEW K, NEW d, Telling(K, d), NEW it, Row(it.of) PROVE Never(Union(it), K)
<1>1. Row(<<<<"pub union ", Name(it), " {">>>> \o FieldLines(it.of, <<"pub ">>) \o <<<<"}">>>>)
  BY FieldLinesRow, LinesRow
<1> QED BY <1>1, FenceNever DEF Union

LEMMA VariantDetailTells ==
    ASSUME NEW K, NEW d, Telling(K, d), NEW v
    PROVE  /\ \A c : /\ v.kind = "variant" /\ v.form = "struct" /\ Speaks(v.of, c) /\ c.docs = d
                     /\ DocsBlock(d) \in K /\ HasDocs(c) /\ c.kind # "missing"
                     => Only(VariantDetail(v), K)
           /\ Silent(v.of, d) => Never(VariantDetail(v), K)
<1>1. PICK s, p : /\ s = Those(Indexed(v.of), HasDocs)
                  /\ p = [i \in DOMAIN s |-> <<Block("bullet", NameAndType(s[i]))>> \o Docs(s[i])]
  OBVIOUS
<1>2. VariantDetail(v) = If(v.kind = "variant" /\ v.form = "struct", FlattenSeq(p))
  BY <1>1 DEF VariantDetail, Each
<1>3. ASSUME NEW c, v.kind = "variant", v.form = "struct", Speaks(v.of, c), c.docs = d,
             DocsBlock(d) \in K, HasDocs(c), c.kind # "missing"
      PROVE  Only(VariantDetail(v), K)
  <2>1. Speaks(s, c)
    BY <1>1, <1>3, IndexedSpeaks, DocumentedSpeaks
  <2>2. DOMAIN s = 1..Len(s)
    BY <2>1, SpeaksIs
  <2>3. Tells(s, c, p, K)
    BY <1>1, <1>3, <2>2, EntryTells DEF Tells
  <2>4. Only(FlattenSeq(p), K)
    BY <2>1, <2>3, LoopTells
  <2> QED BY <1>2, <1>3, <2>4, IfTells
<1>4. ASSUME Silent(v.of, d) PROVE Never(VariantDetail(v), K)
  <2>1. Silent(s, d)
    BY <1>1, <1>4, IndexedSilent, DocumentedSilent
  <2>2. Row(s) /\ DOMAIN s = 1..Len(s) /\ \A i \in 1..Len(s) : s[i].docs # d
    BY <2>1, SilentIs
  <2>3. p = [i \in DOMAIN s |-> p[i]] /\ \A i \in 1..Len(s) : Never(p[i], K)
    BY <1>1, <2>2, EntryTells
  <2>4. Never(FlattenSeq(p), K)
    BY <2>2, <2>3, LoopNever
  <2> QED BY <1>2, <2>4, IfTells
<1> QED BY <1>3, <1>4

LEMMA VariantTells ==
    ASSUME NEW K, NEW d, Telling(K, d), NEW v
    PROVE  /\ v.docs = d /\ DocsBlock(d) \in K /\ Silent(v.of, d) => Only(VariantEntry(v), K)
           /\ v.docs # d /\ Only(VariantDetail(v), K) => Only(VariantEntry(v), K)
           /\ v.docs # d /\ Silent(v.of, d) => Never(VariantEntry(v), K)
<1>1. PICK x, y : x = <<Block("h3", <<Name(v)>>)>> \o Docs(v) /\ y = VariantDetail(v)
  OBVIOUS
<1>2. VariantEntry(v) = x \o y
  BY <1>1 DEF VariantEntry
<1>3. /\ v.docs = d /\ DocsBlock(d) \in K => Only(x, K)
      /\ v.docs # d => Never(x, K)
      /\ Silent(v.of, d) => Never(y, K)
  BY <1>1, EntryTells, VariantDetailTells
<1> QED BY <1>1, <1>2, <1>3, OnlyFirst, OnlyLast, NeverJoint

LEMMA EnumTells ==
    ASSUME NEW K, NEW d, Telling(K, d), NEW it, NEW S, it.of \in Seq(S), \A v \in S : Row(v.of)
    PROVE  /\ \A c : /\ Speaks(it.of, c) /\ c.docs = d /\ DocsBlock(d) \in K /\ c.kind # "missing"
                     /\ \A v \in S : Silent(v.of, d)
                     => Only(Enum(it), K)
           /\ \A v : /\ Only(it.of, {v}) /\ v.kind # "missing" /\ Only(VariantDetail(v), K)
                     /\ \A w \in S : w.docs # d /\ (w # v => Silent(w.of, d))
                     => Only(Enum(it), K)
           /\ (\A v \in S : v.docs # d /\ Silent(v.of, d)) => Never(Enum(it), K)
<1>0. PICK lines, s, p : EnumParts(it, lines, s, p)
  BY EnumIs
<1>1. /\ Row(lines) /\ s = Indexed(it.of) /\ s \in Seq(S)
      /\ p = [i \in DOMAIN s |-> VariantEntry(s[i])]
      /\ Enum(it) = Fence(lines) \o If(s # <<>>, <<Block("h2", <<"Variants">>)>> \o FlattenSeq(p))
  BY <1>0, IndexedIn DEF EnumParts
<1>2. /\ p = [i \in DOMAIN s |-> p[i]] /\ DOMAIN s = 1..Len(s) /\ Row(s)
      /\ \A i \in 1..Len(s) : s[i] \in S
  BY <1>1, RowFits
<1>3. Never(Fence(lines), K)
  BY <1>1, FenceNever
<1>4. ASSUME s # <<>>, Only(FlattenSeq(p), K) PROVE Only(Enum(it), K)
  <2>1. Only(<<Block("h2", <<"Variants">>)>> \o FlattenSeq(p), K)
    BY <1>4, BlockBefore
  <2> QED BY <1>1, <1>3, <1>4, <2>1, IfTells, OnlyLast
<1>5. ASSUME NEW c, Speaks(it.of, c), c.docs = d, DocsBlock(d) \in K, c.kind # "missing",
             \A v \in S : Silent(v.of, d)
      PROVE  Only(Enum(it), K)
  <2>1. Speaks(s, c) /\ s # <<>>
    BY <1>1, <1>5, IndexedSpeaks, SpeaksSome
  <2>2. Tells(s, c, p, K)
    BY <1>1, <1>2, <1>5, VariantTells DEF Tells
  <2> QED BY <1>4, <2>1, <2>2, LoopTells
<1>6. ASSUME NEW v, Only(it.of, {v}), v.kind # "missing", Only(VariantDetail(v), K),
             \A w \in S : w.docs # d /\ (w # v => Silent(w.of, d))
      PROVE  Only(Enum(it), K)
  <2>1. Only(s, {v})
    <3>1. Row(it.of)
      BY RowFits
    <3>2. PICK D : Filtered(it.of, D, s) /\ \A i \in 1..Len(it.of) : i \in D <=> it.of[i].kind # "missing"
      BY <1>1, <3>1, IndexedIs
    <3>3. \A i \in 1..Len(it.of) : it.of[i] = v => i \in D
      BY <1>6, <3>2
    <3> QED BY <1>6, <3>2, <3>3, FilteredOnly
  <2>2. s # <<>>
    <3>1. PICK k \in 1..Len(s) : s[k] = v
      BY <2>1 DEF Only
    <3>2. Len(<<>>) = 0 /\ 1..0 = {}
      OBVIOUS
    <3> QED BY <3>1, <3>2
  <2>3. ASSUME NEW i \in 1..Len(s) PROVE IF s[i] = v THEN Only(p[i], K) ELSE Never(p[i], K)
    <3>1. p[i] = VariantEntry(s[i]) /\ s[i] \in S
      BY <1>1, <1>2
    <3> QED BY <1>6, <3>1, VariantTells
  <2>4. Singles(s, v, p, K)
    BY <1>2, <2>3 DEF Singles
  <2> QED BY <1>4, <2>1, <2>2, <2>4, LoopOnly
<1>7. ASSUME \A v \in S : v.docs # d /\ Silent(v.of, d) PROVE Never(Enum(it), K)
  <2>1. \A i \in 1..Len(s) : Never(p[i], K)
    BY <1>1, <1>2, <1>7, VariantTells
  <2>2. Never(<<Block("h2", <<"Variants">>)>> \o FlattenSeq(p), K)
    BY <1>2, <2>1, LoopNever, BlockBefore
  <2> QED BY <1>1, <1>3, <2>2, IfTells, NeverJoint
<1> QED BY <1>5, <1>6, <1>7

\* A titled section with an entry of each that tells its docs.
LEMMA TitledTells ==
    ASSUME NEW K, NEW d, Telling(K, d), NEW title, NEW s, NEW p, p = [i \in DOMAIN s |-> p[i]]
    PROVE  /\ \A c : Speaks(s, c) /\ Tells(s, c, p, K) => Only(Titled(title, p), K)
           /\ Silent(s, d) /\ (\A i \in 1..Len(s) : Never(p[i], K)) => Never(Titled(title, p), K)
<1>1. ASSUME NEW c, Speaks(s, c), Tells(s, c, p, K) PROVE Only(Titled(title, p), K)
  <2>1. p # <<>>
    BY <1>1, SpeaksSome, SpeaksIs, Loop
  <2>2. Only(<<Block("h2", <<title>>)>> \o FlattenSeq(p), K)
    BY <1>1, LoopTells, BlockBefore
  <2> QED BY <2>1, <2>2 DEF Titled, If
<1>2. ASSUME Silent(s, d), \A i \in 1..Len(s) : Never(p[i], K) PROVE Never(Titled(title, p), K)
  <2>1. Never(<<Block("h2", <<title>>)>> \o FlattenSeq(p), K)
    BY <1>2, SilentIs, LoopNever, BlockBefore
  <2> QED BY <2>1, NoneNever DEF Titled, If
<1> QED BY <1>1, <1>2

LEMMA AssocTypesTells ==
    ASSUME NEW K, NEW d, Telling(K, d), NEW s
    PROVE  /\ \A c : Speaks(s, c) /\ c.docs = d /\ DocsBlock(d) \in K => Only(AssocTypes(s), K)
           /\ Silent(s, d) => Never(AssocTypes(s), K)
<1>1. PICK p : p = [i \in DOMAIN s |-> <<Block("h3", <<"type ", Name(s[i])>>)>> \o Docs(s[i])]
  OBVIOUS
<1>2. AssocTypes(s) = Titled("Associated Types", p) /\ p = [i \in DOMAIN s |-> p[i]]
  BY <1>1 DEF AssocTypes
<1>3. ASSUME NEW c, Speaks(s, c), c.docs = d, DocsBlock(d) \in K PROVE Tells(s, c, p, K)
  <2>1. DOMAIN s = 1..Len(s)
    BY <1>3, SpeaksIs
  <2>2. ASSUME NEW i \in 1..Len(s)
        PROVE  /\ s[i] = c => Only(p[i], K)
               /\ s[i].docs # d => Never(p[i], K)
    <3>1. PICK t, f : f = s[i] /\ p[i] = <<Block("h3", t)>> \o Docs(f)
      BY <1>1, <2>1
    <3>2. /\ f.docs = d => Only(<<Block("h3", t)>> \o Docs(f), K)
          /\ f.docs # d => Never(<<Block("h3", t)>> \o Docs(f), K)
      BY <1>3, EntryTells
    <3> QED BY <1>3, <3>1, <3>2
  <2>3. p = [i \in DOMAIN s |-> p[i]]
    BY <1>2
  <2>4. \A i \in 1..Len(s) : s[i] = c => Only(p[i], K)
    BY <2>2
  <2>5. \A i \in 1..Len(s) : s[i].docs # c.docs => Never(p[i], K)
    BY <1>3, <2>2
  <2> QED BY <2>3, <2>4, <2>5 DEF Tells
<1>4. ASSUME Silent(s, d) PROVE \A i \in 1..Len(s) : Never(p[i], K)
  <2>1. DOMAIN s = 1..Len(s) /\ \A i \in 1..Len(s) : s[i].docs # d
    BY <1>4, SilentIs
  <2> QED BY <1>1, <2>1, EntryTells
<1> QED BY <1>2, <1>3, <1>4, TitledTells

LEMMA AssocConstsTells ==
    ASSUME NEW K, NEW d, Telling(K, d), NEW s
    PROVE  /\ \A c : Speaks(s, c) /\ c.docs = d /\ DocsBlock(d) \in K => Only(AssocConsts(s), K)
           /\ Silent(s, d) => Never(AssocConsts(s), K)
<1>1. PICK p : p = [i \in DOMAIN s |->
                      <<Block("h3", <<"const ">> \o NameAndType(s[i]))>> \o Docs(s[i])]
  OBVIOUS
<1>2. AssocConsts(s) = Titled("Associated Constants", p) /\ p = [i \in DOMAIN s |-> p[i]]
  BY <1>1 DEF AssocConsts
<1>3. ASSUME NEW c, Speaks(s, c), c.docs = d, DocsBlock(d) \in K PROVE Tells(s, c, p, K)
  <2>1. DOMAIN s = 1..Len(s)
    BY <1>3, SpeaksIs
  <2>2. ASSUME NEW i \in 1..Len(s)
        PROVE  /\ s[i] = c => Only(p[i], K)
               /\ s[i].docs # d => Never(p[i], K)
    <3>1. PICK t, f : f = s[i] /\ p[i] = <<Block("h3", t)>> \o Docs(f)
      BY <1>1, <2>1
    <3>2. /\ f.docs = d => Only(<<Block("h3", t)>> \o Docs(f), K)
          /\ f.docs # d => Never(<<Block("h3", t)>> \o Docs(f), K)
      BY <1>3, EntryTells
    <3> QED BY <1>3, <3>1, <3>2
  <2>3. p = [i \in DOMAIN s |-> p[i]]
    BY <1>2
  <2>4. \A i \in 1..Len(s) : s[i] = c => Only(p[i], K)
    BY <2>2
  <2>5. \A i \in 1..Len(s) : s[i].docs # c.docs => Never(p[i], K)
    BY <1>3, <2>2
  <2> QED BY <2>3, <2>4, <2>5 DEF Tells
<1>4. ASSUME Silent(s, d) PROVE \A i \in 1..Len(s) : Never(p[i], K)
  <2>1. DOMAIN s = 1..Len(s) /\ \A i \in 1..Len(s) : s[i].docs # d
    BY <1>4, SilentIs
  <2> QED BY <1>1, <2>1, EntryTells
<1> QED BY <1>2, <1>3, <1>4, TitledTells

\* What a trait has of a method.
MethodEntry(c) ==
    <<Block("h3", <<Name(c)>>)>> \o Fence(<<FnSignature(Name(c), c.type)>>) \o Docs(c)

LEMMA MethodTells ==
    ASSUME NEW K, NEW d, Telling(K, d), NEW c
    PROVE  /\ c.docs = d /\ DocsBlock(d) \in K => Only(MethodEntry(c), K)
           /\ c.docs # d => Never(MethodEntry(c), K)
<1>1. PICK x, y : /\ x = <<Block("h3", <<Name(c)>>)>> \o Fence(<<FnSignature(Name(c), c.type)>>)
                  /\ y = Docs(c)
  OBVIOUS
<1>2. MethodEntry(c) = x \o y
  BY <1>1 DEF MethodEntry
<1>3. Never(x, K)
  BY <1>1, OneRow, FenceNever, BlockBefore
<1> QED BY <1>1, <1>2, <1>3, DocsOnce, OnlyLast, NeverJoint

LEMMA MethodsTells ==
    ASSUME NEW K, NEW d, Telling(K, d), NEW s, NEW title
    PROVE  /\ \A c : Speaks(s, c) /\ c.docs = d /\ DocsBlock(d) \in K => Only(Methods(title, s), K)
           /\ Silent(s, d) => Never(Methods(title, s), K)
<1>1. PICK p : p = [i \in DOMAIN s |-> MethodEntry(s[i])]
  OBVIOUS
<1>2. Methods(title, s) = Titled(title, p) /\ p = [i \in DOMAIN s |-> p[i]]
  BY <1>1 DEF Methods, MethodEntry
<1>3. ASSUME NEW c, Speaks(s, c), c.docs = d, DocsBlock(d) \in K PROVE Tells(s, c, p, K)
  BY <1>1, <1>3, SpeaksIs, MethodTells DEF Tells
<1>4. ASSUME Silent(s, d) PROVE \A i \in 1..Len(s) : Never(p[i], K)
  BY <1>1, <1>4, SilentIs, MethodTells
<1> QED BY <1>2, <1>3, <1>4, TitledTells

\* A trait's four sections after its declaration.
TraitParts(it, line, x1, x2, x3, x4) ==
    /\ Trait(it) = Fence(<<line>>) \o x1 \o x2 \o x3 \o x4
    /\ x1 = AssocTypes(OfKind(it.of, "assoc_type", ""))
    /\ x2 = AssocConsts(OfKind(it.of, "assoc_const", ""))
    /\ x3 = Methods("Required Methods", OfKind(it.of, "function", "required"))
    /\ x4 = Methods("Provided Methods", OfKind(it.of, "function", "provided"))

LEMMA TraitIs == ASSUME NEW it PROVE \E line, x1, x2, x3, x4 : TraitParts(it, line, x1, x2, x3, x4)
BY DEF Trait, TraitBody, OfKind, TraitParts

LEMMA TraitTells ==
    ASSUME NEW K, NEW d, Telling(K, d), NEW it
    PROVE  /\ \A c : /\ Speaks(it.of, c) /\ c.docs = d /\ DocsBlock(d) \in K
                     /\ c.kind \in {"assoc_type", "assoc_const", "function"}
                     /\ c.kind = "function" => c.form \in {"required", "provided"}
                     => Only(Trait(it), K)
           /\ Silent(it.of, d) => Never(Trait(it), K)
<1>1. PICK line, x1, x2, x3, x4 : TraitParts(it, line, x1, x2, x3, x4)
  BY TraitIs
<1>2. PICK s1, s2, s3, s4 :
          /\ s1 = OfKind(it.of, "assoc_type", "") /\ s2 = OfKind(it.of, "assoc_const", "")
          /\ s3 = OfKind(it.of, "function", "required") /\ s4 = OfKind(it.of, "function", "provided")
  OBVIOUS
<1>3. PICK x0 : x0 = Fence(<<line>>) /\ Never(x0, K)
  BY OneRow, FenceNever
<1>4. Trait(it) = x0 \o x1 \o x2 \o x3 \o x4
  BY <1>1, <1>3 DEF TraitParts
<1>5. /\ Silent(s1, d) => Never(x1, K)
      /\ Silent(s2, d) => Never(x2, K)
      /\ Silent(s3, d) => Never(x3, K)
      /\ Silent(s4, d) => Never(x4, K)
  BY <1>1, <1>2, AssocTypesTells, AssocConstsTells, MethodsTells DEF TraitParts
<1>6. ASSUME NEW c, c.docs = d, DocsBlock(d) \in K
      PROVE  /\ Speaks(s1, c) => Only(x1, K)
             /\ Speaks(s2, c) => Only(x2, K)
             /\ Speaks(s3, c) => Only(x3, K)
             /\ Speaks(s4, c) => Only(x4, K)
  BY <1>1, <1>2, <1>6, AssocTypesTells, AssocConstsTells, MethodsTells DEF TraitParts
<1>7. ASSUME NEW c, Speaks(it.of, c), c.docs = d, DocsBlock(d) \in K,
             c.kind \in {"assoc_type", "assoc_const", "function"},
             c.kind = "function" => c.form \in {"required", "provided"}
      PROVE  Only(Trait(it), K)
  <2>1. CASE c.kind = "assoc_type"
    <3>1. Speaks(s1, c) /\ Silent(s2, d) /\ Silent(s3, d) /\ Silent(s4, d)
      BY <1>2, <1>7, <2>1, OfKindSpeaks
    <3>2. Only(x1, K) /\ Never(x2, K) /\ Never(x3, K) /\ Never(x4, K)
      BY <1>5, <1>6, <1>7, <3>1
    <3>3. Only(x0 \o x1, K)
      BY <1>3, <3>2, OnlyLast
    <3>4. Only(x0 \o x1 \o x2, K)
      BY <3>2, <3>3, OnlyFirst
    <3>5. Only(x0 \o x1 \o x2 \o x3, K)
      BY <3>2, <3>4, OnlyFirst
    <3> QED BY <1>4, <3>2, <3>5, OnlyFirst
  <2>2. CASE c.kind = "assoc_const"
    <3>1. Silent(s1, d) /\ Speaks(s2, c) /\ Silent(s3, d) /\ Silent(s4, d)
      BY <1>2, <1>7, <2>2, OfKindSpeaks
    <3>2. Never(x1, K) /\ Only(x2, K) /\ Never(x3, K) /\ Never(x4, K)
      BY <1>5, <1>6, <1>7, <3>1
    <3>3. Never(x0 \o x1, K)
      BY <1>3, <3>2, NeverJoint
    <3>4. Only(x0 \o x1 \o x2, K)
      BY <3>2, <3>3, OnlyLast
    <3>5. Only(x0 \o x1 \o x2 \o x3, K)
      BY <3>2, <3>4, OnlyFirst
    <3> QED BY <1>4, <3>2, <3>5, OnlyFirst
  <2>3. CASE c.kind = "function" /\ c.form = "required"
    <3>1. Silent(s1, d) /\ Silent(s2, d) /\ Speaks(s3, c) /\ Silent(s4, d)
      BY <1>2, <1>7, <2>3, OfKindSpeaks
    <3>2. Never(x1, K) /\ Never(x2, K) /\ Only(x3, K) /\ Never(x4, K)
      BY <1>5, <1>6, <1>7, <3>1
    <3>3. Never(x0 \o x1, K)
      BY <1>3, <3>2, NeverJoint
    <3>4. Never(x0 \o x1 \o x2, K)
      BY <3>2, <3>3, NeverJoint
    <3>5. Only(x0 \o x1 \o x2 \o x3, K)
      BY <3>2, <3>4, OnlyLast
    <3> QED BY <1>4, <3>2, <3>5, OnlyFirst
  <2>4. CASE c.kind = "function" /\ c.form = "provided"
    <3>1. Silent(s1, d) /\ Silent(s2, d) /\ Silent(s3, d) /\ Speaks(s4, c)
      BY <1>2, <1>7, <2>4, OfKindSpeaks
    <3>2. Never(x1, K) /\ Never(x2, K) /\ Never(x3, K) /\ Only(x4, K)
      BY <1>5, <1>6, <1>7, <3>1
    <3>3. Never(x0 \o x1, K)
      BY <1>3, <3>2, NeverJoint
    <3>4. Never(x0 \o x1 \o x2, K)
      BY <3>2, <3>3, NeverJoint
    <3>5. Never(x0 \o x1 \o x2 \o x3, K)
      BY <3>2, <3>4, NeverJoint
    <3> QED BY <1>4, <3>2, <3>5, OnlyLast
  <2> QED BY <1>7, <2>1, <2>2, <2>3, <2>4
<1>8. ASSUME Silent(it.of, d) PROVE Never(Trait(it), K)
  <2>1. Silent(s1, d) /\ Silent(s2, d) /\ Silent(s3, d) /\ Silent(s4, d)
    BY <1>2, <1>8, OfKindSilent
  <2>2. Never(x1, K) /\ Never(x2, K) /\ Never(x3, K) /\ Never(x4, K)
    BY <1>5, <2>1
  <2>3. Never(x0 \o x1, K)
    BY <1>3, <2>2, NeverJoint
  <2>4. Never(x0 \o x1 \o x2, K)
    BY <2>2, <2>3, NeverJoint
  <2>5. Never(x0 \o x1 \o x2 \o x3, K)
    BY <2>2, <2>4, NeverJoint
  <2> QED BY <1>4, <2>2, <2>5, NeverJoint
<1> QED BY <1>7, <1>8

\* A module lists the docs of no other child.
LEMMA ListedIs ==
    ASSUME NEW K, NEW d, Telling(K, d), NEW x, x.docs # d PROVE Listed(x) \notin K
<1>1. CASE x.kind = "use"
  BY <1>1, ToldIs DEF Listed
<1>2. CASE x.kind # "use"
  <2>1. PICK e : e = (IF HasDocs(x) THEN x.docs ELSE "none") /\ e # d
    BY DEF Telling
  <2>2. Listed(x) = Told("item", <<x.name>>, e)
    BY <1>2, <2>1 DEF Listed
  <2>3. PICK t : t = <<x.name>>
    OBVIOUS
  <2>4. Told("item", t, e) \notin K
    BY <2>1, ToldIs
  <2> QED BY <2>2, <2>3, <2>4
<1> QED BY <1>1, <1>2

GroupParts(s, bucket, t, q) ==
    /\ t = Sorted(InBucket(s, bucket.kinds))
    /\ q = [i \in DOMAIN t |-> Listed(t[i])]
    /\ Group(s, bucket) = If(t # <<>>, <<Block("h2", <<bucket.title>>)>> \o q)

LEMMA GroupIs ==
    ASSUME NEW s, NEW bucket PROVE \E t, q : GroupParts(s, bucket, t, q)
<1>1. PICK t, q : t = Sorted(InBucket(s, bucket.kinds)) /\ q = [i \in DOMAIN t |-> Listed(t[i])]
  OBVIOUS
<1>2. GroupParts(s, bucket, t, q)
  BY <1>1 DEF Group, InBucket, GroupParts
<1> QED BY <1>2

\* The alphabet has the name that c is listed by.
Filed(c) == \E i \in DOMAIN Alphabet : Alphabet[i] = ListedAs(c)

LEMMA GroupOnly ==
    ASSUME NEW K, NEW d, Telling(K, d), NEW s, NEW bucket, NEW c, Speaks(s, c), c.docs = d,
           c.kind \in bucket.kinds, Listed(c) \in K, Filed(c)
    PROVE  Only(Group(s, bucket), K)
<1>0. PICK t, q : GroupParts(s, bucket, t, q)
  BY GroupIs
<1>1. /\ t = Sorted(InBucket(s, bucket.kinds))
      /\ q = [i \in DOMAIN t |-> Listed(t[i])]
      /\ Group(s, bucket) = If(t # <<>>, <<Block("h2", <<bucket.title>>)>> \o q)
  BY <1>0 DEF GroupParts
<1>2. Speaks(t, c) /\ t # <<>>
  BY <1>1, InBucketSpeaks, SortedSpeaks, SpeaksSome DEF Filed
<1>3. /\ DOMAIN t = 1..Len(t) /\ Only(t, {c})
      /\ \A i \in 1..Len(t) : t[i].docs = d => t[i] = c
  BY <1>2, SpeaksIs
<1>4. q = [i \in DOMAIN t |-> q[i]]
  BY <1>1
<1>5. \A i \in 1..Len(t) : q[i] \in K <=> t[i] = c
  BY <1>1, <1>3, ListedIs
<1>6. Only(q, K)
  BY <1>3, <1>4, <1>5, ListOnly
<1> QED BY <1>1, <1>2, <1>6, BlockBefore, IfTells

LEMMA GroupNever ==
    ASSUME NEW K, NEW d, Telling(K, d), NEW s, NEW bucket, Silent(InBucket(s, bucket.kinds), d)
    PROVE  Never(Group(s, bucket), K)
<1>0. PICK t, q : GroupParts(s, bucket, t, q)
  BY GroupIs
<1>1. /\ t = Sorted(InBucket(s, bucket.kinds))
      /\ q = [i \in DOMAIN t |-> Listed(t[i])]
      /\ Group(s, bucket) = If(t # <<>>, <<Block("h2", <<bucket.title>>)>> \o q)
  BY <1>0 DEF GroupParts
<1>2. Silent(t, d)
  BY <1>1, SortedSilent
<1>3. Row(t) /\ DOMAIN t = 1..Len(t) /\ \A i \in 1..Len(t) : t[i].docs # d
  BY <1>2, SilentIs
<1>4. q = [i \in DOMAIN t |-> q[i]]
  BY <1>1
<1>5. Row(q) /\ Len(q) = Len(t)
  BY <1>3, <1>4, Loop
<1>6. Never(q, K)
  BY <1>1, <1>3, <1>5, ListedIs DEF Never
<1> QED BY <1>1, <1>6, BlockBefore, IfTells

LEMMA ModuleTells ==
    ASSUME NEW K, NEW d, Telling(K, d), NEW it
    PROVE  /\ \A c : /\ Speaks(it.of, c) /\ c.docs = d /\ c.kind \in ListedKinds /\ Listed(c) \in K
                     /\ c.name # "" /\ c.kind # "missing"
                     /\ Filed(c)
                     => Only(ModuleBody(it), K)
           /\ Silent(it.of, d) => Never(ModuleBody(it), K)
<1>1. PICK s, p : s = Named(Indexed(it.of)) /\ p = [i \in DOMAIN Buckets |-> Group(s, Buckets[i])]
  OBVIOUS
<1>2. ModuleBody(it) = FlattenSeq(p)
  BY <1>1, ModuleIs
<1>3. Row(p) /\ Len(p) = 11 /\ \A i \in 1..11 : p[i] = Group(s, Buckets[i])
  <2>1. p = [i \in DOMAIN Buckets |-> p[i]] /\ DOMAIN Buckets = 1..11
    BY <1>1, BucketsDiffer
  <2>2. Row(p) /\ Len(p) = 11
    BY <2>1, BucketsDiffer, Loop
  <2> QED BY <1>1, <2>1, <2>2
<1>4. ASSUME NEW c, Speaks(it.of, c), c.docs = d, c.kind \in ListedKinds, Listed(c) \in K,
             c.name # "", c.kind # "missing",
             Filed(c)
      PROVE  Only(ModuleBody(it), K)
  <2>1. Speaks(s, c)
    BY <1>1, <1>4, IndexedSpeaks, NamedSpeaks
  <2>2. PICK k \in 1..11 : c.kind \in Buckets[k].kinds
    BY <1>4, BucketKinds
  <2>3. Only(p[k], K)
    <3>1. PICK bucket : bucket = Buckets[k] /\ p[k] = Group(s, bucket) /\ c.kind \in bucket.kinds
      BY <1>3, <2>2
    <3> QED BY <1>4, <2>1, <3>1, GroupOnly
  <2>4. ASSUME NEW i \in 1..11, i # k PROVE Never(p[i], K)
    <3>1. PICK bucket : bucket = Buckets[i] /\ p[i] = Group(s, bucket)
      BY <1>3
    <3>2. c.kind \notin bucket.kinds
      BY <2>2, <2>4, <3>1, BucketKinds
    <3>3. Silent(InBucket(s, bucket.kinds), d)
      BY <1>4, <2>1, <3>2, InBucketSpeaks
    <3> QED BY <3>1, <3>3, GroupNever
  <2>5. SinglePart(p, k, K)
    BY <1>3, <2>3, <2>4 DEF SinglePart
  <2> QED BY <1>2, <2>5, FlatOnly
<1>5. ASSUME Silent(it.of, d) PROVE Never(ModuleBody(it), K)
  <2>1. Silent(s, d)
    BY <1>1, <1>5, IndexedSilent, NamedSilent
  <2>2. ASSUME NEW i \in 1..Len(p) PROVE Never(p[i], K)
    <3>1. PICK bucket : bucket = Buckets[i] /\ p[i] = Group(s, bucket)
      BY <1>3
    <3>2. Silent(InBucket(s, bucket.kinds), d)
      BY <2>1, InBucketSilent
    <3> QED BY <3>1, <3>2, GroupNever
  <2> QED BY <1>2, <1>3, <2>2, FlatNever
<1> QED BY <1>4, <1>5

\* A body tells nothing that is not in the children.
LEMMA BodyNever ==
    ASSUME NEW K, NEW d, Telling(K, d), NEW it \in Subjects, Silent(it.of, d),
           \A v \in Below(it) : v.docs # d /\ Silent(v.of, d)
    PROVE  Never(Body(it), K)
<1>1. it.of \in Seq(Below(it)) /\ Row(it.of) /\ \A v \in Below(it) : Row(v.of)
  BY SubjectRows
<1>2. CASE it.kind = "module"
  BY <1>2, ModuleTells DEF Body
<1>3. CASE it.kind = "struct"
  BY <1>1, <1>3, SubjectIs, StructTells DEF Body
<1>4. CASE it.kind = "enum"
  BY <1>1, <1>4, EnumTells DEF Body
<1>5. CASE it.kind = "trait"
  BY <1>5, TraitTells DEF Body
<1>6. CASE it.kind = "union"
  BY <1>1, <1>6, UnionNever DEF Body
<1>7. CASE it.kind \in {"constant", "static", "type_alias", "function", "macro"}
  <2>1. Never(Fence(<<Value(it)>>), K)
    BY OneRow, FenceNever
  <2> QED BY <1>7, <2>1 DEF Body
<1>8. CASE it.kind \notin {"module", "struct", "enum", "trait", "union", "constant", "static",
                           "type_alias", "function", "macro"}
  <2>1. Never(<<Block("note", <<it.kind>>)>>, K)
    BY OneIs, ToldIs
  <2> QED BY <1>8, <2>1 DEF Body
<1> QED BY <1>2, <1>3, <1>4, <1>5, <1>6, <1>7, <1>8

\* What OwnDocs says of a child with docs ...
LEMMA ChildHas ==
    ASSUME NEW it \in Subjects, NEW c \in Below(it), HasDocs(c)
    PROVE  /\ Speaks(it.of, c) /\ it.docs # c.docs
           /\ \A v \in Below(it) : Silent(v.of, c.docs)
<1>1. /\ it.of \in Seq(Below(it)) /\ \A v \in Below(it) : v.of \in Seq(Below(v))
      /\ OwnDocs(it) /\ DOMAIN it.of = 1..Len(it.of)
  <2>1. it.of \in Seq(Below(it))
    BY SubjectIs
  <2>2. DOMAIN it.of = 1..Len(it.of)
    BY <2>1
  <2> QED BY <2>1, <2>2, SubjectIs
<1>2. PICK k \in DOMAIN it.of : c = it.of[k]
  BY DEF Below
<1>3. \A i \in DOMAIN it.of : it.of[i].docs = c.docs => i = k
  BY <1>1, <1>2 DEF OwnDocs
<1>4. OwnAmong(Below(it), c)
  BY <1>2, <1>3 DEF OwnAmong, Below
<1>5. Only(it.of, {c})
  BY <1>1, <1>2, <1>3, RowFits DEF Only
<1>6. ASSUME NEW v \in Below(it) PROVE Silent(v.of, c.docs)
  <2>1. \A f \in Below(v) : f.docs # c.docs
    BY <1>1 DEF OwnDocs, Grandchildren
  <2> QED BY <1>1, <2>1 DEF Silent
<1>7. it.docs # c.docs
  BY <1>1 DEF OwnDocs
<1> QED BY <1>1, <1>4, <1>5, <1>6, <1>7 DEF Speaks

\* ... and of a child's child.
LEMMA GrandchildHas ==
    ASSUME NEW it \in Subjects, NEW v \in Below(it), NEW c \in Below(v), HasDocs(c)
    PROVE  /\ Only(it.of, {v}) /\ Speaks(v.of, c) /\ it.docs # c.docs
           /\ \A w \in Below(it) : w.docs # c.docs /\ (w # v => Silent(w.of, c.docs))
<1>1. /\ it.of \in Seq(Below(it)) /\ \A w \in Below(it) : w.of \in Seq(Below(w))
      /\ OwnDocs(it) /\ DOMAIN it.of = 1..Len(it.of) /\ DOMAIN v.of = 1..Len(v.of)
  <2>1. it.of \in Seq(Below(it)) /\ v.of \in Seq(Below(v))
    BY SubjectIs
  <2>2. DOMAIN it.of = 1..Len(it.of) /\ DOMAIN v.of = 1..Len(v.of)
    BY <2>1
  <2> QED BY <2>1, <2>2, SubjectIs
<1>2. PICK n \in DOMAIN it.of : v = it.of[n]
  BY DEF Below
<1>3. PICK k \in DOMAIN v.of : c = v.of[k]
  BY DEF Below
<1>4. \A j \in DOMAIN it.of : \A l \in DOMAIN it.of[j].of :
          it.of[j].of[l].docs = c.docs => n = j /\ k = l
  BY <1>1, <1>2, <1>3 DEF OwnDocs
<1>5. OwnAmong(Below(v), c)
  BY <1>2, <1>3, <1>4 DEF OwnAmong, Below
<1>6. Only(v.of, {c})
  <2>1. \A l \in DOMAIN v.of : v.of[l] = c => l = k
    BY <1>2, <1>4
  <2> QED BY <1>1, <1>3, <2>1, RowFits DEF Only
<1>7. Only(it.of, {v})
  <2>1. \A j \in DOMAIN it.of : it.of[j] = v => j = n
    BY <1>2, <1>3, <1>4
  <2> QED BY <1>1, <1>2, <2>1, RowFits DEF Only
<1>8. ASSUME NEW w \in Below(it), w # v PROVE Silent(w.of, c.docs)
  <2>1. PICK j \in DOMAIN it.of : w = it.of[j] /\ j # n
    BY <1>2, <1>8 DEF Below
  <2>2. \A f \in Below(w) : f.docs # c.docs
    BY <1>4, <2>1 DEF Below
  <2> QED BY <1>1, <2>2 DEF Silent
<1>9. c \in Grandchildren(it)
  BY DEF Grandchildren
<1>10. it.docs # c.docs /\ \A w \in Below(it) : w.docs # c.docs
  <2>1. it.docs # c.docs
    BY <1>1, <1>9 DEF OwnDocs
  <2>2. ASSUME NEW w \in Below(it), w.docs = c.docs PROVE FALSE
    <3>1. HasDocs(w)
      BY <2>2 DEF HasDocs
    <3> QED BY <1>1, <1>9, <2>2, <3>1 DEF OwnDocs
  <2> QED BY <2>1, <2>2
<1> QED BY <1>1, <1>5, <1>6, <1>7, <1>8, <1>10 DEF Speaks

LEMMA BodyOnly ==
    ASSUME NEW it \in Subjects, NEW c \in Placed(it), HasDocs(c), c.kind # "missing",
           NEW K, Telling(K, c.docs), DocsBlock(c.docs) \in K, it.kind = "module" => Listed(c) \in K
    PROVE  Only(Body(it), K) /\ it.docs # c.docs
<1>1. it.of \in Seq(Below(it)) /\ Row(it.of) /\ \A v \in Below(it) : Row(v.of)
  BY SubjectRows
<1>2. CASE it.kind = "module"
  <2>1. c \in Below(it) /\ c.name # "" /\ c.kind \in ListedKinds /\ c.kind # "use"
    BY <1>2 DEF Placed
  <2>2. Filed(c)
    BY <1>2, <2>1, SubjectIs DEF Filed, ListedAs
  <2>3. Speaks(it.of, c) /\ it.docs # c.docs
    BY <2>1, ChildHas
  <2>4. Only(ModuleBody(it), K)
    BY <1>2, <2>1, <2>2, <2>3, ModuleTells
  <2> QED BY <1>2, <2>3, <2>4 DEF Body
<1>3. CASE it.kind = "struct"
  <2>1. it.form = "plain" /\ c \in Below(it)
    BY <1>3 DEF Placed
  <2>2. Speaks(it.of, c) /\ it.docs # c.docs
    BY <2>1, ChildHas
  <2>3. Only(Struct(it), K)
    BY <1>1, <2>1, <2>2, StructTells
  <2> QED BY <1>3, <2>2, <2>3 DEF Body
<1>4. CASE it.kind = "trait"
  <2>1. c \in Below(it) /\ c.kind \in {"function", "assoc_type", "assoc_const"}
    BY <1>4 DEF Placed
  <2>2. c.kind = "function" => c.form \in {"required", "provided"}
    BY <1>4, <2>1, SubjectIs
  <2>3. Speaks(it.of, c) /\ it.docs # c.docs
    BY <2>1, ChildHas
  <2>4. Only(Trait(it), K)
    BY <2>1, <2>2, <2>3, TraitTells
  <2> QED BY <1>4, <2>3, <2>4 DEF Body
<1>5. CASE it.kind = "enum"
  <2>1. \/ c \in Below(it)
        \/ \E v \in Below(it) : v.kind = "variant" /\ v.form = "struct" /\ c \in Below(v)
    BY <1>5 DEF Placed
  <2>2. CASE c \in Below(it)
    <3>1. Speaks(it.of, c) /\ it.docs # c.docs /\ \A v \in Below(it) : Silent(v.of, c.docs)
      BY <2>2, ChildHas
    <3>2. Only(Enum(it), K)
      BY <1>1, <3>1, EnumTells
    <3> QED BY <1>5, <3>1, <3>2 DEF Body
  <2>3. CASE c \notin Below(it)
    <3>1. PICK v \in Below(it) : v.kind = "variant" /\ v.form = "struct" /\ c \in Below(v)
      BY <2>1, <2>3
    <3>2. /\ Only(it.of, {v}) /\ Speaks(v.of, c) /\ it.docs # c.docs
          /\ \A w \in Below(it) : w.docs # c.docs /\ (w # v => Silent(w.of, c.docs))
      BY <3>1, GrandchildHas
    <3>3. Only(VariantDetail(v), K)
      BY <3>1, <3>2, VariantDetailTells
    <3>4. Only(Enum(it), K)
      BY <1>1, <3>1, <3>2, <3>3, EnumTells
    <3> QED BY <1>5, <3>2, <3>4 DEF Body
  <2> QED BY <2>2, <2>3
<1>6. it.kind \in {"module", "struct", "trait", "enum"}
  BY DEF Placed
<1> QED BY <1>2, <1>3, <1>4, <1>5, <1>6

LEMMA PageTells ==
    ASSUME NEW it, it.kind # "missing", NEW d, NEW K, Telling(K, d)
    PROVE  /\ it.docs # d /\ Only(Body(it), K) => Only(Page(it), K)
           /\ it.docs = d /\ DocsBlock(d) \in K /\ Never(Body(it), K) =>
                 Only(Page(it), K) /\ 2 \in 1..Len(Page(it)) /\ Page(it)[2] = DocsBlock(d)
<1>1. PICK t, x, y : /\ t = <<it.kind, " ", it.name>> /\ x = Docs(it) /\ y = Body(it)
                     /\ Page(it) = <<Block("h1", t)>> \o (x \o y)
  BY DEF Page
<1>2. ASSUME it.docs # d, Only(y, K) PROVE Only(Page(it), K)
  <2>1. Never(x, K)
    BY <1>1, <1>2, DocsOnce
  <2>2. Only(x \o y, K)
    BY <1>2, <2>1, OnlyLast
  <2> QED BY <1>1, <2>2, BlockBefore
<1>3. ASSUME it.docs = d, DocsBlock(d) \in K, Never(y, K)
      PROVE  Only(Page(it), K) /\ 2 \in 1..Len(Page(it)) /\ Page(it)[2] = DocsBlock(d)
  <2>1. Only(x, K) /\ x = <<DocsBlock(d)>>
    BY <1>1, <1>3, DocsOnce DEF Docs, If, DocsBlock, Telling
  <2>2. Only(x \o y, K)
    BY <1>3, <2>1, OnlyFirst
  <2>3. PICK z : z = x \o y /\ Row(z) /\ 1 \in 1..Len(z) /\ z[1] = DocsBlock(d) /\ Len(z) \in Nat
    <3>1. Row(x) /\ Row(y) /\ Len(x) = 1 /\ x[1] = DocsBlock(d) /\ Len(y) \in Nat /\ 1 \in 1..1
      BY <1>3, <2>1, OneRow, RowIs DEF Never
    <3>2. Row(x \o y) /\ Len(x \o y) = 1 + Len(y)
      <4>1. Row(x \o y) /\ Len(x \o y) = Len(x) + Len(y)
        BY <3>1, RowJoint
      <4> QED BY <3>1, <4>1
    <3>4. 1 \in 1..Len(x)
      BY <3>1
    <3>5. (x \o y)[1] = DocsBlock(d)
      BY <3>1, <3>4, RowJoint
    <3>3. 1 \in 1..(1 + Len(y)) /\ 1 + Len(y) \in Nat
      BY <3>1
    <3> QED BY <3>2, <3>3, <3>5
  <2>4. PICK h : h = <<Block("h1", t)>> /\ Row(h) /\ Len(h) = 1
    BY OneRow
  <2>5. Len(h \o z) = 1 + Len(z) /\ (h \o z)[1 + 1] = DocsBlock(d)
    BY <2>3, <2>4, RowJoint
  <2>6. 2 \in 1..(1 + Len(z)) /\ 1 + 1 = 2
    BY <2>3
  <2>7. Page(it) = h \o z
    BY <1>1, <2>3, <2>4
  <2>8. Only(Page(it), K)
    BY <1>1, <2>2, BlockBefore
  <2> QED BY <2>5, <2>6, <2>7, <2>8
<1> QED BY <1>1, <1>2, <1>3

\* K's blocks are those of x that tell d.
Mark(x, K, d) == \A i \in 1..Len(x) : x[i] \in K <=> x[i].docs = d

LEMMA OnlyOne ==
    ASSUME NEW x, NEW d, NEW K, Only(x, K), Mark(x, K, d)
    PROVE  \E k \in 1..Len(x) : {i \in DOMAIN x : x[i].docs = d} = {k}
<1>1. DOMAIN x = 1..Len(x)
  BY RowIs DEF Only
<1>2. PICK k \in 1..Len(x) : x[k] \in K /\ \A j \in 1..Len(x) : x[j] \in K => j = k
  BY DEF Only
<1>3. x[k].docs = d /\ \A j \in 1..Len(x) : x[j].docs = d => j = k
  BY <1>2 DEF Mark
<1>4. {i \in DOMAIN x : x[i].docs = d} = {k}
  BY <1>1, <1>3
<1> QED BY <1>4

\* The docs of the subject are the second block, ...
LEMMA OwnDocsShown ==
    ASSUME NEW it \in Subjects, HasDocs(it), it.kind # "missing"
    PROVE  {i \in DOMAIN Page(it) : Page(it)[i].docs = it.docs} = {2}
<1>1. PICK x, d : x = Page(it) /\ d = it.docs
  OBVIOUS
<1>2. PICK K : K = {b \in {x[i] : i \in 1..Len(x)} \cup {DocsBlock(d)} : b.docs = d}
  OBVIOUS
<1>3. Telling(K, d) /\ DocsBlock(d) \in K /\ Mark(x, K, d)
  BY <1>1, <1>2 DEF Telling, HasDocs, DocsBlock, Told, Mark
<1>4. /\ it.of \in Seq(Below(it)) /\ \A c \in Below(it) : c.of \in Seq(Below(c))
      /\ OwnDocs(it)
  BY SubjectIs
<1>5. ASSUME NEW c \in Below(it) \cup Grandchildren(it) PROVE c.docs # d
  BY <1>1, <1>4 DEF OwnDocs, HasDocs
<1>6. Silent(it.of, d)
  BY <1>4, <1>5 DEF Silent
<1>7. ASSUME NEW v \in Below(it) PROVE v.docs # d /\ Silent(v.of, d)
  <2>1. \A f \in Below(v) : f.docs # d
    BY <1>5 DEF Grandchildren
  <2> QED BY <1>4, <1>5, <2>1 DEF Silent
<1>8. Never(Body(it), K)
  BY <1>3, <1>6, <1>7, BodyNever
<1>9. Only(x, K) /\ 2 \in 1..Len(x) /\ x[2] = DocsBlock(d)
  BY <1>1, <1>3, <1>8, PageTells
<1>10. PICK k \in 1..Len(x) : {i \in DOMAIN x : x[i].docs = d} = {k}
  BY <1>3, <1>9, OnlyOne
<1>11. 2 \in DOMAIN x /\ x[2].docs = d
  <2>1. DOMAIN x = 1..Len(x)
    BY <1>9, RowIs DEF Only
  <2> QED BY <1>9, <2>1 DEF DocsBlock, Told
<1> QED BY <1>1, <1>10, <1>11

\* ... and those of each child that has a place are in one.
LEMMA ChildDocsShown ==
    ASSUME NEW it \in Subjects, NEW c \in Placed(it), HasDocs(c), c.kind # "missing",
           it.kind # "missing"
    PROVE  Cardinality({i \in DOMAIN Page(it) : Page(it)[i].docs = c.docs}) = 1
<1>1. PICK x, d : x = Page(it) /\ d = c.docs
  OBVIOUS
<1>2. PICK K : K = {b \in {x[i] : i \in 1..Len(x)} \cup {DocsBlock(d), Listed(c)} : b.docs = d}
  OBVIOUS
<1>3. Telling(K, d) /\ DocsBlock(d) \in K /\ Mark(x, K, d)
  BY <1>1, <1>2 DEF Telling, HasDocs, DocsBlock, Told, Mark
<1>4. ASSUME it.kind = "module" PROVE Listed(c) \in K
  <2>1. c.kind # "use"
    BY <1>4 DEF Placed
  <2>2. Listed(c).docs = d
    BY <1>1, <2>1 DEF Listed, Told
  <2> QED BY <1>2, <2>2
<1>5. Only(Body(it), K) /\ it.docs # d
  BY <1>1, <1>3, <1>4, BodyOnly
<1>6. Only(x, K)
  BY <1>1, <1>3, <1>5, PageTells
<1>7. PICK k \in 1..Len(x) : {i \in DOMAIN x : x[i].docs = d} = {k}
  BY <1>3, <1>6, OnlyOne
<1> QED BY <1>1, <1>7, FS_Singleton

\* The docs of an item are its second block, and those of a child that the
\* page has a place for are in one block (DocsShownOnce): no filter, sort or
\* section drops a documented child or takes it twice.
THEOREM DocsAreShown == PageSpec => []DocsShownOnce
<1>1. subject \in Subjects /\ page \in {<<>>, Page(subject)} => DocsShownOnce
  <2>1. SUFFICES ASSUME subject \in Subjects, page = Page(subject)
                 PROVE  /\ HasDocs(subject) /\ subject.kind # "missing" => Mentions(subject.docs) = {2}
                        /\ \A c \in Placed(subject) :
                              HasDocs(c) /\ c.kind # "missing" => Cardinality(Mentions(c.docs)) = 1
    BY DEF DocsShownOnce
  <2>2. \A d : Mentions(d) = {i \in DOMAIN Page(subject) : Page(subject)[i].docs = d}
    BY <2>1 DEF Mentions
  <2>3. ASSUME HasDocs(subject), subject.kind # "missing" PROVE Mentions(subject.docs) = {2}
    BY <2>1, <2>2, <2>3, OwnDocsShown
  <2>4. ASSUME NEW c \in Placed(subject), HasDocs(c), c.kind # "missing"
        PROVE  Cardinality(Mentions(c.docs)) = 1
    <3>1. subject.kind # "missing"
      BY <2>4 DEF Placed
    <3> QED BY <2>1, <2>2, <2>4, <3>1, ChildDocsShown
  <2> QED BY <2>3, <2>4
<1> QED BY <1>1, Pages, PTL

-----------------------------------------------------------------------------
(* The texts of types: recursion over nodes                                *)

Lower(t) == {c \in Nodes : Height[c] < Height[t]}

\* step asks of a function only what it says of what is lower.
Asks(step, D, H, V) ==
    /\ H \in [D -> Nat]
    /\ step \in [D \X [D -> V] -> V]
    /\ \A t \in D : \A f, g \in [D -> V] :
          (\A c \in D : H[c] < H[t] => f[c] = g[c]) => step[<<t, f>>] = step[<<t, g>>]

Defines(step, D, V) == \E f \in [D -> V] : \A t \in D : f[t] = step[<<t, f>>]

\* A function that asks for its values at what is lower exists.
LEMMA HeightRecursion ==
    ASSUME NEW D, NEW H, NEW V, NEW step, Asks(step, D, H, V), V # {}
    PROVE  Defines(step, D, V)
<1> SUFFICES \E f \in [D -> V] : \A t \in D : f[t] = step[<<t, f>>]
  BY DEF Defines
<1>0. PICK v : v \in V
  OBVIOUS
<1> DEFINE Fs == [D -> V]
           Right(f, n) == \A t \in D : H[t] < n => f[t] = step[<<t, f>>]
<1>1. /\ \A t \in D : H[t] \in Nat
      /\ \A t \in D : \A f \in Fs : step[<<t, f>>] \in V
  BY DEF Asks
<1>2. ASSUME NEW t \in D, NEW f \in Fs, NEW g \in Fs, \A c \in D : H[c] < H[t] => f[c] = g[c]
      PROVE  step[<<t, f>>] = step[<<t, g>>]
  BY <1>2 DEF Asks
<1>3. ASSUME NEW n \in Nat PROVE \E f \in Fs : Right(f, n)
  <2> DEFINE T == {m \in Nat : ~\E f \in Fs : Right(f, m)}
  <2>1. SUFFICES ASSUME T # {} PROVE FALSE
    OBVIOUS
  <2>2. PICK m \in T : \A k \in T : m <= k
    BY <2>1, LeastNatural
  <2>3. m # 0
    <3>1. [t \in D |-> v] \in Fs /\ Right([t \in D |-> v], 0)
      BY <1>0, <1>1
    <3> QED BY <3>1
  <2>4. m - 1 \in Nat /\ m - 1 \notin T
    <3>1. m \in Nat /\ m - 1 \in Nat /\ ~(m <= m - 1)
      BY <2>2, <2>3
    <3> HIDE DEF T
    <3> QED BY <2>2, <3>1
  <2>5. PICK f \in Fs : Right(f, m - 1)
    BY <2>4
  <2> DEFINE g == [t \in D |-> step[<<t, f>>]]
  <2>6. g \in Fs
    BY <1>1
  <2>7. \A t \in D : H[t] < m - 1 => g[t] = f[t]
    BY <2>5
  <2>8. ASSUME NEW t \in D, H[t] < m PROVE g[t] = step[<<t, g>>]
    <3>1. \A c \in D : H[c] < H[t] => g[c] = f[c]
      <4>1. \A c \in D : H[c] < H[t] => H[c] < m - 1
        BY <1>1, <2>4, <2>8
      <4> QED BY <2>7, <4>1
    <3>2. g[t] = step[<<t, f>>]
      OBVIOUS
    <3> HIDE DEF g, Fs
    <3> QED BY <1>2, <2>6, <3>1, <3>2
  <2> QED BY <2>2, <2>6, <2>8
<1>4. ASSUME NEW f \in Fs, NEW g \in Fs, NEW n \in Nat, Right(f, n), Right(g, n),
             NEW t \in D, H[t] < n
      PROVE  f[t] = g[t]
  <2> DEFINE T == {m \in Nat : \E u \in D : H[u] = m /\ m < n /\ f[u] # g[u]}
  <2>1. SUFFICES ASSUME T # {} PROVE FALSE
    BY <1>1, <1>4
  <2>2. PICK m \in T : \A k \in T : m <= k
    BY <2>1, LeastNatural
  <2>3. PICK u \in D : H[u] = m /\ m < n /\ f[u] # g[u]
    BY <2>2
  <2>4. f[u] = step[<<u, f>>] /\ g[u] = step[<<u, g>>]
    BY <1>4, <2>3
  <2>5. ASSUME NEW c \in D, H[c] < H[u] PROVE f[c] = g[c]
    <3>1. H[c] \in Nat /\ H[c] < n /\ ~(m <= H[c]) /\ m \in Nat
      BY <1>1, <2>2, <2>3, <2>5
    <3>2. H[c] \notin T
      <4> HIDE DEF T
      <4> QED BY <2>2, <3>1
    <3> QED BY <3>1, <3>2
  <2>6. step[<<u, f>>] = step[<<u, g>>]
    <3> HIDE DEF Fs
    <3> QED BY <1>2, <2>5
  <2> QED BY <2>3, <2>4, <2>6
<1> DEFINE Of(n) == CHOOSE f \in Fs : Right(f, n)
           F == [t \in D |-> Of(H[t] + 1)[t]]
<1>5. ASSUME NEW n \in Nat PROVE Of(n) \in Fs /\ Right(Of(n), n)
  BY <1>3
<1> HIDE DEF Of
<1>6. F \in Fs
  BY <1>1, <1>5
<1>7. ASSUME NEW t \in D PROVE F[t] = step[<<t, F>>]
  <2>1. H[t] \in Nat /\ H[t] + 1 \in Nat /\ H[t] < H[t] + 1
    BY <1>1
  <2>2. Of(H[t] + 1) \in Fs /\ Right(Of(H[t] + 1), H[t] + 1)
    BY <1>5, <2>1
  <2>3. F[t] = step[<<t, Of(H[t] + 1)>>]
    BY <2>1, <2>2
  <2>4. ASSUME NEW c \in D, H[c] < H[t] PROVE F[c] = Of(H[t] + 1)[c]
    <3>1. H[c] \in Nat /\ H[c] + 1 \in Nat /\ H[c] < H[c] + 1
      BY <1>1
    <3>2. Of(H[c] + 1) \in Fs /\ Right(Of(H[c] + 1), H[c] + 1)
      BY <1>5, <3>1
    <3>3. Right(Of(H[t] + 1), H[c] + 1)
      <4>1. \A u \in D : H[u] < H[c] + 1 => H[u] < H[t] + 1
        BY <1>1, <2>1, <2>4, <3>1
      <4> QED BY <2>2, <4>1
    <3>4. Of(H[c] + 1)[c] = Of(H[t] + 1)[c]
      <4> HIDE DEF Right, Fs
      <4> QED BY <1>4, <2>2, <3>1, <3>2, <3>3
    <3> QED BY <3>4
  <2> HIDE DEF F, Fs
  <2> QED BY <1>2, <1>6, <2>2, <2>3, <2>4
<1> HIDE DEF F
<1> QED BY <1>6, <1>7

-----------------------------------------------------------------------------
(* Texts                                                                   *)

\* What a token can be; opaque in the proofs.
Marks ==
    {"_", "use<..>", "self", "pub ", "pub const ", "pub static ", "pub type ", "pub struct ", "pub union ",
     "const ", "async ", "unsafe ", "fn ", ");", " {"}

Strings == STRING \cup Tokens \cup Marks

Texts == Seq(Strings)

LEMMA TextIs ==
    /\ <<>> \in Texts
    /\ \A a \in Strings : <<a>> \in Texts /\ <<a>> # <<>>
    /\ \A s, t \in Texts : s \o t \in Texts
    /\ \A s \in Texts : <<>> \o s = s /\ s \o <<>> = s
    /\ \A a \in Strings : \A s \in Texts :
          <<a>> \o s # <<>> /\ (<<a>> \o s)[1] = a /\ (<<a>> \o s) \in Texts
<1>1. /\ <<>> \in Texts
      /\ \A a \in Strings : <<a>> \in Texts /\ <<a>> # <<>>
      /\ \A s, t \in Texts : s \o t \in Texts
  BY DEF Texts
<1>2. \A s \in Texts : <<>> \o s = s /\ s \o <<>> = s
  BY ConcatEmptySeq DEF Texts
<1>3. ASSUME NEW a \in Strings, NEW s \in Texts
      PROVE  <<a>> \o s # <<>> /\ (<<a>> \o s)[1] = a /\ (<<a>> \o s) \in Texts
  <2>1. <<a>> \in Texts /\ Len(<<a>>) = 1 /\ <<a>>[1] = a /\ 1 \in 1..1
    BY DEF Texts
  <2>2. (<<a>> \o s)[1] = a /\ Len(<<a>> \o s) = 1 + Len(s) /\ <<a>> \o s \in Texts
    BY <2>1, Joint DEF Texts
  <2>3. Len(s) \in Nat
    BY DEF Texts
  <2> QED BY <2>2, <2>3
<1> QED BY <1>1, <1>2, <1>3

\* The first token of a text, and what is after it.
LEMMA Peel ==
    ASSUME NEW a \in Strings, NEW b \in Strings, NEW s \in Texts, NEW t \in Texts,
           <<a>> \o s = <<b>> \o t
    PROVE  a = b /\ s = t
<1>1. a = b
  BY TextIs
<1>2. <<a>> \o s = <<a>> \o t /\ <<a>> \in Texts
  BY <1>1, TextIs
<1>3. s = t
  BY <1>2, ConcatSimplifications DEF Texts
<1> QED BY <1>1, <1>3

LEMMA Bracket ==
    ASSUME NEW s \in Texts, NEW t \in Texts, NEW u \in Texts
    PROVE  (s \o t) \o u = s \o (t \o u)
BY ConcatAssociative DEF Texts

LEMMA SameEnd ==
    ASSUME NEW s \in Texts, NEW t \in Texts, NEW u \in Texts, s \o u = t \o u
    PROVE  s = t
BY ConcatSimplifications DEF Texts

LEMMA SameStart ==
    ASSUME NEW s \in Texts, NEW t \in Texts, NEW u \in Texts, u \o s = u \o t
    PROVE  s = t
BY ConcatSimplifications DEF Texts

\* The same as operators that are not expanded below: a token, and a text after
\* another.
Tok(a) == <<a>>

Cat(s, t) == s \o t

None == <<>>

LEMMA Texting ==
    /\ None \in Texts
    /\ \A a \in Strings : Tok(a) \in Texts
    /\ \A s, t \in Texts : Cat(s, t) \in Texts
    /\ \A s \in Texts : Cat(None, s) = s /\ Cat(s, None) = s
    /\ \A s, t, u \in Texts : Cat(Cat(s, t), u) = Cat(s, Cat(t, u))
BY TextIs, Bracket, Zenon DEF Tok, Cat, None

LEMMA Peeling ==
    /\ \A a, b \in Strings : \A s, t \in Texts : Cat(Tok(a), s) = Cat(Tok(b), t) => a = b /\ s = t
    /\ \A a \in Strings : \A s \in Texts : Cat(Tok(a), s) # None
    /\ \A s, t, u \in Texts : Cat(s, u) = Cat(t, u) => s = t
    /\ \A s, t, u \in Texts : Cat(u, s) = Cat(u, t) => s = t
BY TextIs, Peel, SameEnd, SameStart, Zenon DEF Tok, Cat, None

LEMMA Nested3 ==
    \A p, q, r, x \in Texts : Cat(Cat(Cat(p, q), r), x) = Cat(p, Cat(q, Cat(r, x)))
BY Texting

LEMMA Nested4 ==
    \A p, q, r, s, x \in Texts : Cat(Cat(Cat(Cat(p, q), r), s), x) = Cat(p, Cat(q, Cat(r, Cat(s, x))))
<1> SUFFICES ASSUME NEW p \in Texts, NEW q \in Texts, NEW r \in Texts, NEW s \in Texts, NEW x \in Texts
             PROVE  Cat(Cat(Cat(Cat(p, q), r), s), x) = Cat(p, Cat(q, Cat(r, Cat(s, x))))
  OBVIOUS
<1>1. Cat(Cat(p, q), r) \in Texts /\ Cat(s, x) \in Texts
  BY Texting
<1>2. Cat(Cat(Cat(Cat(p, q), r), s), x) = Cat(Cat(Cat(p, q), r), Cat(s, x))
  BY <1>1, Texting
<1> QED BY <1>1, <1>2, Nested3

LEMMA Nested5 ==
    \A p, q, r, s, u, x \in Texts :
        Cat(Cat(Cat(Cat(Cat(p, q), r), s), u), x) = Cat(p, Cat(q, Cat(r, Cat(s, Cat(u, x)))))
<1> SUFFICES ASSUME NEW p \in Texts, NEW q \in Texts, NEW r \in Texts, NEW s \in Texts, NEW u \in Texts,
                    NEW x \in Texts
             PROVE  Cat(Cat(Cat(Cat(Cat(p, q), r), s), u), x) = Cat(p, Cat(q, Cat(r, Cat(s, Cat(u, x)))))
  OBVIOUS
<1>1. Cat(Cat(Cat(p, q), r), s) \in Texts /\ Cat(u, x) \in Texts
  BY Texting
<1>2. Cat(Cat(Cat(Cat(Cat(p, q), r), s), u), x) = Cat(Cat(Cat(Cat(p, q), r), s), Cat(u, x))
  BY <1>1, Texting
<1> QED BY <1>1, <1>2, Nested4

-----------------------------------------------------------------------------
(* Nodes                                                                   *)

Terms == Types \cup (Words \ {"dots"})

Angles == {"angle", "paren", "rtn"}

Params == {"param", "dots"}

LEMMA LowerIs ==
    ASSUME NEW t \in Nodes
    PROVE  /\ Height[t] \in Nat
           /\ \A c \in Lower(t) : c \in Nodes /\ Height[c] \in Nat /\ Height[c] < Height[t]
<1>1. Height \in [Nodes -> Nat]
  BY NodesAssumption
<1> QED BY <1>1 DEF Lower

LEMMA NodeIs ==
    ASSUME NEW t \in Nodes
    PROVE  /\ t.of \in Seq(Lower(t)) /\ t.out \in Seq(Lower(t)) /\ t.more \in Seq(Lower(t))
           /\ t.n \in Strings /\ t.n \notin Tokens
<1>1. WellMade(t) /\ UNION {Parts(u) : u \in Nodes} \subseteq Nodes
  BY NodesAssumption, Zenon
<1>2. /\ \A s \in {t.of, t.out, t.more} : s \in Seq(Range(s))
      /\ \A c \in Parts(t) : Height[c] < Height[t]
      /\ t.n \in STRING \ Tokens
  BY <1>1, Zenon DEF WellMade
<1>3. Parts(t) \subseteq Nodes
  BY <1>1, Zenon
<1>4. Parts(t) \subseteq Lower(t)
  BY <1>2, <1>3, Zenon DEF Lower
<1>5. Range(t.of) \subseteq Lower(t) /\ Range(t.out) \subseteq Lower(t) /\ Range(t.more) \subseteq Lower(t)
  BY <1>4, Zenon DEF Parts
<1>6. ASSUME NEW s, s \in Seq(Range(s)), Range(s) \subseteq Lower(t) PROVE s \in Seq(Lower(t))
  BY <1>6, SeqMonotonic
<1>7. t.of \in Seq(Lower(t)) /\ t.out \in Seq(Lower(t)) /\ t.more \in Seq(Lower(t))
  <2>1. t.of \in Seq(Range(t.of)) /\ t.out \in Seq(Range(t.out)) /\ t.more \in Seq(Range(t.more))
    BY <1>2, Zenon
  <2> QED BY <1>5, <1>6, <2>1, Zenon
<1> QED BY <1>2, <1>7, Zenon DEF Strings

\* The members of its lists are nodes.
LEMMA MemberIs ==
    ASSUME NEW t \in Nodes, NEW s \in Seq(Lower(t))
    PROVE  /\ DOMAIN s = 1..Len(s) /\ Len(s) \in Nat /\ Row(s)
           /\ \A i \in DOMAIN s : s[i] \in Lower(t) /\ s[i] \in Nodes
<1>1. DOMAIN s = 1..Len(s) /\ Len(s) \in Nat /\ \A i \in DOMAIN s : s[i] \in Lower(t)
  OBVIOUS
<1> QED BY <1>1 DEF Row, Lower

\* Of which sort they are.
Sorted3(t) ==
    /\ t.k \notin Words \cup {"sig"} => \A i \in DOMAIN t.of : t.of[i].k \in Terms
    /\ t.k = "sig" => \A i \in DOMAIN t.of : t.of[i].k \in Params
    /\ \A i \in DOMAIN t.out : t.out[i].k \in Terms
    /\ t.k = "angle" => \A i \in DOMAIN t.more : t.more[i].k \in Terms
    /\ t.k # "angle" => \A i \in DOMAIN t.more : t.more[i].k \in Angles

LEMMA SortIs == ASSUME NEW t \in Nodes PROVE Sorted3(t)
<1>1. WellMade(t)
  BY NodesAssumption, Zenon
<1>2. /\ \/ t.k \in Words
         \/ Kinds(t.of) \subseteq CASE t.k = "angle" -> Types \cup {"life", "const"}
                                   [] t.k \in {"dyn", "impl"} -> {"trait", "life", "use"}
                                   [] t.k = "sig" -> {"param", "dots"}
                                   [] OTHER -> Types
      /\ Kinds(t.out) \subseteq IF t.k = "qpath" THEN {"trait"} ELSE Types
      /\ Kinds(t.more) \subseteq IF t.k = "angle" THEN {"constraint"} ELSE {"angle", "paren", "rtn"}
  BY <1>1, Zenon DEF WellMade
<1>3. /\ Types \cup {"life", "const"} \subseteq Terms /\ {"trait", "life", "use"} \subseteq Terms
      /\ Types \subseteq Terms /\ {"trait"} \subseteq Terms /\ {"constraint"} \subseteq Terms
  BY DEF Terms, Types, Words
<1>4. t.k \notin Words \cup {"sig"} => Kinds(t.of) \subseteq Terms
  <2>1. CASE t.k = "angle"
    BY <1>2, <1>3, <2>1 DEF Words
  <2>2. CASE t.k \in {"dyn", "impl"}
    BY <1>2, <1>3, <2>2 DEF Words
  <2>3. CASE t.k \notin {"angle", "dyn", "impl", "sig"}
    BY <1>2, <1>3, <2>3
  <2> QED BY <2>1, <2>2, <2>3
<1>5. t.k = "sig" => Kinds(t.of) \subseteq Params
  BY <1>2 DEF Words, Params
<1>6. Kinds(t.out) \subseteq Terms
  BY <1>2, <1>3
<1>7. /\ t.k = "angle" => Kinds(t.more) \subseteq Terms
      /\ t.k # "angle" => Kinds(t.more) \subseteq Angles
  BY <1>2, <1>3 DEF Angles
<1>8. ASSUME NEW s, NEW K, Kinds(s) \subseteq K PROVE \A i \in DOMAIN s : s[i].k \in K
  BY <1>8, Zenon DEF Kinds
<1> QED BY <1>4, <1>5, <1>6, <1>7, <1>8, Zenon DEF Sorted3

-----------------------------------------------------------------------------
(* Every node has its text                                                 *)

\* The texts of a list, and a list of texts put together.
Images(s, written) == [i \in DOMAIN s |-> written[s[i]]]

Together(p, sep) == FlattenSeq([i \in DOMAIN p |-> (IF i = 1 THEN <<>> ELSE <<sep>>) \o p[i]])

LEMMA ListIs ==
    ASSUME NEW s, NEW w, NEW sep
    PROVE  All(s, w) = FlattenSeq(Images(s, w)) /\ List(s, sep, w) = Together(Images(s, w), sep)
BY DEF All, List, Each, Join, Together, Images

Fits(t, w) == \A c \in Lower(t) : w[c] \in Texts

Agree(t, w, v) == \A c \in Lower(t) : w[c] = v[c]

LEMMA ImagesIn ==
    ASSUME NEW S, NEW w, NEW s \in Seq(S), \A c \in S : w[c] \in Texts
    PROVE  Images(s, w) \in Seq(Texts) /\ DOMAIN Images(s, w) = DOMAIN s /\ Len(Images(s, w)) = Len(s)
BY DEF Images, Texts

LEMMA TogetherIn ==
    ASSUME NEW p \in Seq(Texts), NEW sep \in Strings
    PROVE  Together(p, sep) \in Texts /\ FlattenSeq(p) \in Texts
<1> DEFINE q == [i \in DOMAIN p |-> (IF i = 1 THEN <<>> ELSE <<sep>>) \o p[i]]
<1>1. \A i \in DOMAIN p : q[i] \in Texts
  <2>1. \A i \in DOMAIN p : p[i] \in Texts
    OBVIOUS
  <2>2. \A i \in DOMAIN p : (IF i = 1 THEN <<>> ELSE <<sep>>) \in Texts
    BY TextIs
  <2> QED BY <2>1, <2>2, TextIs
<1>2. q \in Seq(Texts)
  <2>1. DOMAIN p = 1..Len(p) /\ Len(p) \in Nat /\ DOMAIN q = 1..Len(p)
    OBVIOUS
  <2>2. q = [i \in 1..Len(p) |-> q[i]]
    BY <2>1
  <2> HIDE DEF q
  <2> QED BY <1>1, <2>1, <2>2
<1> HIDE DEF q
<1>3. FlattenSeq(q) \in Texts /\ FlattenSeq(p) \in Texts
  BY <1>2, FlatIn DEF Texts
<1> QED BY <1>3, Zenon DEF Together, q

LEMMA ListIn ==
    ASSUME NEW t \in Nodes, NEW w, Fits(t, w), NEW s \in Seq(Lower(t)), NEW sep \in Strings
    PROVE  All(s, w) \in Texts /\ List(s, sep, w) \in Texts
<1>1. Images(s, w) \in Seq(Texts)
  BY ImagesIn DEF Fits
<1> QED BY <1>1, TogetherIn, ListIs

LEMMA ListLocal ==
    ASSUME NEW t \in Nodes, NEW w, NEW v, Agree(t, w, v), NEW s \in Seq(Lower(t)), NEW sep
    PROVE  All(s, w) = All(s, v) /\ List(s, sep, w) = List(s, sep, v)
<1>1. Images(s, w) = Images(s, v)
  <2>1. \A i \in DOMAIN s : w[s[i]] = v[s[i]]
    BY MemberIs DEF Agree
  <2> QED BY <2>1, Zenon DEF Images
<1> QED BY <1>1, ListIs

Single == {"slice", "array", "ref", "ptr", "pat", "qpath", "param", "static"}

LEMMA SingleIs ==
    ASSUME NEW t \in Nodes, t.k \in Single
    PROVE  /\ Len(t.of) = 1 /\ t.of = <<t.of[1]>> /\ t.of[1] \in Lower(t) /\ t.of[1] \in Nodes
           /\ 1 \in DOMAIN t.of
<1>1. Len(t.of) = 1 /\ t.of \in Seq(Lower(t))
  BY NodesAssumption, NodeIs, Zenon DEF WellMade, Single
<1>2. t.of = <<t.of[1]>> /\ t.of[1] \in Lower(t) /\ 1 \in DOMAIN t.of
  BY <1>1, Length
<1> QED BY <1>1, <1>2 DEF Lower

\* One of the texts a node is made of.
LEMMA PartsIn ==
    ASSUME NEW t \in Nodes, NEW w, Fits(t, w), NEW sep \in Strings
    PROVE  /\ List(t.of, sep, w) \in Texts /\ All(t.out, w) \in Texts /\ All(t.more, w) \in Texts
           /\ List(t.of \o t.more, sep, w) \in Texts
           /\ t.k \in Single => w[t.of[1]] \in Texts
<1>1. t.of \o t.more \in Seq(Lower(t))
  BY NodeIs, Joint
<1> QED BY <1>1, NodeIs, ListIn, SingleIs DEF Fits

LEMMA PartsLocal ==
    ASSUME NEW t \in Nodes, NEW w, NEW v, Agree(t, w, v), NEW sep
    PROVE  /\ List(t.of, sep, w) = List(t.of, sep, v) /\ All(t.out, w) = All(t.out, v)
           /\ All(t.more, w) = All(t.more, v)
           /\ List(t.of \o t.more, sep, w) = List(t.of \o t.more, sep, v)
           /\ t.k \in Single => w[t.of[1]] = v[t.of[1]]
<1>1. t.of \o t.more \in Seq(Lower(t))
  BY NodeIs, Joint
<1>2. t.k \in Single => w[t.of[1]] = v[t.of[1]]
  BY SingleIs DEF Agree
<1>3. /\ List(t.of, sep, w) = List(t.of, sep, v) /\ All(t.out, w) = All(t.out, v)
      /\ All(t.more, w) = All(t.more, v) /\ List(t.of \o t.more, sep, w) = List(t.of \o t.more, sep, v)
  <2>1. t.of \in Seq(Lower(t)) /\ t.out \in Seq(Lower(t)) /\ t.more \in Seq(Lower(t))
    BY NodeIs
  <2>2. \A s \in Seq(Lower(t)) : All(s, w) = All(s, v) /\ List(s, sep, w) = List(s, sep, v)
    BY ListLocal
  <2> QED BY <1>1, <2>1, <2>2, Zenon
<1> QED BY <1>2, <1>3

\* What Write says of a node of each kind.
LEMMA WriteIs ==
    ASSUME NEW t, NEW w
    PROVE  /\ t.k \in Words => Write(t, w) = Path(t, w)
           /\ t.k = "pat" => Write(t, w) = w[t.of[1]]
           /\ t.k \in {"tuple", "slice", "array"} => Write(t, w) = Enclosed(t, w)
           /\ t.k \in {"ref", "ptr"} => Write(t, w) = Pointer(t, w)
           /\ t.k \in {"dyn", "impl"} => Write(t, w) = Bounds(t, w)
           /\ t.k = "fnptr" => Write(t, w) = FnPointer(t, w)
           /\ t.k = "qpath" => Write(t, w) = QualifiedPath(t, w)
           /\ t.k \in {"angle", "paren", "rtn"} => Write(t, w) = GenericArgs(t, w)
           /\ t.k = "param" => Write(t, w) = Param(t, w)
           /\ \/ t.k \in Words \cup {"pat", "tuple", "slice", "array", "ref", "ptr", "dyn", "impl", "fnptr",
                                  "qpath", "angle", "paren", "rtn", "param"}
              \/ Write(t, w) = <<>>
BY DEF Write, Words

LEMMA WriteLocal ==
    ASSUME NEW t \in Nodes, NEW w, NEW v, Agree(t, w, v)
    PROVE  Write(t, w) = Write(t, v)
<1>1. \A sep : /\ List(t.of, sep, w) = List(t.of, sep, v) /\ All(t.out, w) = All(t.out, v)
               /\ All(t.more, w) = All(t.more, v)
               /\ List(t.of \o t.more, sep, w) = List(t.of \o t.more, sep, v)
               /\ t.k \in Single => w[t.of[1]] = v[t.of[1]]
  BY PartsLocal
<1>2. t.k \in Words => Path(t, w) = Path(t, v)
  BY <1>1, Zenon DEF Path
<1>3. t.k \in {"tuple", "slice", "array"} => Enclosed(t, w) = Enclosed(t, v)
  <2>1. t.k = "tuple" => Enclosed(t, w) = Enclosed(t, v)
    BY <1>1, Zenon DEF Enclosed
  <2>2. t.k = "slice" => Enclosed(t, w) = Enclosed(t, v)
    BY <1>1, Zenon DEF Enclosed, Single
  <2>3. t.k = "array" => Enclosed(t, w) = Enclosed(t, v)
    BY <1>1, Zenon DEF Enclosed, Single
  <2> QED BY <2>1, <2>2, <2>3
<1>4. t.k \in {"ref", "ptr"} => Pointer(t, w) = Pointer(t, v)
  BY <1>1, Zenon DEF Pointer, Single
<1>5. t.k \in {"dyn", "impl"} => Bounds(t, w) = Bounds(t, v)
  BY <1>1, Zenon DEF Bounds
<1>6. Output(t, w) = Output(t, v)
  BY <1>1, Zenon DEF Output
<1>7. t.k = "fnptr" => FnPointer(t, w) = FnPointer(t, v)
  BY <1>1, <1>6, Zenon DEF FnPointer
<1>8. t.k = "qpath" => QualifiedPath(t, w) = QualifiedPath(t, v)
  BY <1>1, Zenon DEF QualifiedPath, Single
<1>9. GenericArgs(t, w) = GenericArgs(t, v)
  BY <1>1, <1>6, Zenon DEF GenericArgs
<1>10. t.k = "param" => Param(t, w) = Param(t, v)
  BY <1>1, Zenon DEF Param, Receiver, Single
<1>11. t.k = "pat" => w[t.of[1]] = v[t.of[1]]
  BY <1>1, Zenon DEF Single
<1>12. t.k \in {"angle", "paren", "rtn"} => Write(t, w) = Write(t, v)
  BY <1>9, WriteIs
<1>13. t.k \in Words \cup {"pat", "param", "fnptr", "qpath"} => Write(t, w) = Write(t, v)
  BY <1>2, <1>7, <1>8, <1>10, <1>11, WriteIs
<1>14. t.k \in {"tuple", "slice", "array", "ref", "ptr", "dyn", "impl"} => Write(t, w) = Write(t, v)
  BY <1>3, <1>4, <1>5, WriteIs
<1> QED BY <1>12, <1>13, <1>14, WriteIs

\* The tokens, by name.
OpenParen == "("
CloseParen == ")"
OpenSquare == "["
CloseSquare == "]"
Comma == ", "
OneComma == ","
Semi == "; "
Semicolon == ";"
Ampersand == "&"
Blank == " "
Mut == "mut "
MutPtr == "*mut "
ConstPtr == "*const "
Dyn == "dyn"
Impl == "impl"
Plus == " + "
Fn == "fn("
Arrow == " -> "
Less == "<"
Greater == ">"
AnyArgs == "(..)"
As == " as "
Colons == "::"
Colon == ": "
Myself == "self"

LEMMA TokensIn ==
    /\ {OpenParen, CloseParen, OpenSquare, CloseSquare, Comma, OneComma} \subseteq Strings
    /\ {Semi, Semicolon, Ampersand, Blank, Mut, MutPtr, ConstPtr, Dyn, Impl, Plus} \subseteq Strings
    /\ {Fn, Arrow, Less, Greater, AnyArgs, As, Colons, Colon, Myself} \subseteq Strings
<1>1. {OpenParen, CloseParen, OpenSquare, CloseSquare, Comma, OneComma} \subseteq Strings
  BY Zenon DEF Strings, Marks, Tokens, OpenParen, CloseParen, OpenSquare, CloseSquare, Comma, OneComma
<1>2. {Semi, Semicolon, Ampersand, Blank, Mut, MutPtr, ConstPtr, Dyn, Impl, Plus} \subseteq Strings
  BY Zenon DEF Strings, Marks, Tokens, Semi, Semicolon, Ampersand, Blank, Mut, MutPtr, ConstPtr, Dyn, Impl, Plus
<1>3. {Fn, Arrow, Less, Greater, AnyArgs, As, Colons, Colon, Myself} \subseteq Strings
  BY Zenon DEF Strings, Marks, Tokens, Fn, Arrow, Less, Greater, AnyArgs, As, Colons, Colon, Myself
<1> QED BY <1>1, <1>2, <1>3

LEMMA WordIs ==
    ASSUME NEW t \in Nodes
    PROVE  Word(t) \in Strings /\ (t.k # "dots" => Word(t) \notin Tokens)
<1>1. t.n \in Strings /\ t.n \notin Tokens
  BY NodeIs
<1>2. CASE t.k = "infer"
  <2>1. Word(t) = "_"
    BY <1>2, Zenon DEF Word
  <2> QED BY <1>2, <2>1, Zenon DEF Strings, Marks, Tokens
<1>3. CASE t.k = "use"
  <2>1. Word(t) = "use<..>"
    BY <1>3, Zenon DEF Word
  <2> QED BY <1>3, <2>1, Zenon DEF Strings, Marks, Tokens
<1>4. CASE t.k = "dots"
  <2>1. Word(t) = "..."
    BY <1>4, Zenon DEF Word
  <2> QED BY <1>4, <2>1, Zenon DEF Strings, Marks, Tokens
<1>5. CASE t.k \notin {"infer", "use", "dots"}
  <2>1. Word(t) = t.n
    BY <1>5, Zenon DEF Word
  <2> QED BY <1>1, <2>1
<1> QED BY <1>2, <1>3, <1>4, <1>5

\* The texts of each kind of node, read from the left.
LEMMA Tokens2 ==
    ASSUME NEW a \in Strings, NEW b \in Strings
    PROVE  <<a, b>> = Cat(Tok(a), Tok(b))
<1>1. <<a, b>> = <<a>> \o <<b>>
  <2>1. <<a, b>> \in Texts /\ <<a>> \in Texts /\ <<b>> \in Texts
    BY DEF Texts
  <2>2. /\ Len(<<a>> \o <<b>>) = 2 /\ (<<a>> \o <<b>>)[1] = a /\ (<<a>> \o <<b>>)[2] = b
        /\ <<a>> \o <<b>> \in Texts
    BY <2>1, Joint DEF Texts
  <2>3. Len(<<a, b>>) = 2 /\ <<a, b>>[1] = a /\ <<a, b>>[2] = b
    OBVIOUS
  <2>4. \A i \in 1..2 : <<a, b>>[i] = (<<a>> \o <<b>>)[i]
    BY <2>2, <2>3
  <2> QED BY <2>1, <2>2, <2>3, <2>4, SeqEqual DEF Texts
<1> QED BY <1>1, Zenon DEF Cat, Tok

LEMMA Tokens3 ==
    ASSUME NEW a \in Strings, NEW b \in Strings, NEW c \in Strings
    PROVE  <<a, b, c>> = Cat(Tok(a), Cat(Tok(b), Tok(c)))
<1>1. <<a, b, c>> = <<a>> \o <<b, c>>
  <2>1. <<a, b, c>> \in Texts /\ <<a>> \in Texts /\ <<b, c>> \in Texts
    BY DEF Texts
  <2>2. /\ Len(<<a>> \o <<b, c>>) = 3 /\ (<<a>> \o <<b, c>>)[1] = a
        /\ (<<a>> \o <<b, c>>)[2] = b /\ (<<a>> \o <<b, c>>)[3] = c
        /\ <<a>> \o <<b, c>> \in Texts
    BY <2>1, Joint DEF Texts
  <2> QED BY <2>1, <2>2, SeqEqual DEF Texts
<1> QED BY <1>1, Tokens2, Zenon DEF Cat, Tok

Perhaps(c, s, x) == IF c THEN Cat(s, x) ELSE x

LEMMA IfIs ==
    ASSUME NEW c, NEW s \in Texts
    PROVE  /\ If(c, s) \in Texts
           /\ \A x \in Texts : Cat(If(c, s), x) = Perhaps(c, s, x) /\ Perhaps(c, s, x) \in Texts
BY Texting, Zenon DEF If, Perhaps, None

LEMMA TupleIs ==
    ASSUME NEW t \in Nodes, NEW w, Fits(t, w), t.k = "tuple"
    PROVE  /\ Write(t, w) \in Texts /\ List(t.of, Comma, w) \in Texts
           /\ \A x \in Texts :
                 Cat(Write(t, w), x) =
                   Cat(Tok(OpenParen), Cat(List(t.of, Comma, w),
                       Perhaps(Len(t.of) = 1, Tok(OneComma), Cat(Tok(CloseParen), x))))
<1> DEFINE l == List(t.of, Comma, w)
           c == If(Len(t.of) = 1, Tok(OneComma))
<1>1. Write(t, w) = Cat(Cat(Cat(Tok(OpenParen), l), c), Tok(CloseParen))
  <2>1. Write(t, w) = Enclosed(t, w)
    BY WriteIs
  <2> QED BY <2>1, Zenon DEF Enclosed, Cat, Tok, OpenParen, CloseParen, Comma, OneComma
<1>2. l \in Texts /\ c \in Texts /\ Tok(OpenParen) \in Texts /\ Tok(CloseParen) \in Texts
  BY PartsIn, TokensIn, Texting, IfIs
<1>3. \A x \in Texts : Cat(c, x) = Perhaps(Len(t.of) = 1, Tok(OneComma), x)
  BY IfIs, TokensIn, Texting
<1> HIDE DEF l, c
<1>4. Write(t, w) \in Texts
  BY <1>1, <1>2, Texting
<1>5. ASSUME NEW x \in Texts
      PROVE  Cat(Write(t, w), x) =
               Cat(Tok(OpenParen), Cat(l, Perhaps(Len(t.of) = 1, Tok(OneComma), Cat(Tok(CloseParen), x))))
  <2>1. Cat(Tok(CloseParen), x) \in Texts
    BY <1>2, Texting
  <2>2. Cat(Write(t, w), x) = Cat(Tok(OpenParen), Cat(l, Cat(c, Cat(Tok(CloseParen), x))))
    BY <1>1, <1>2, Nested4
  <2> QED BY <1>3, <2>1, <2>2
<1> QED BY <1>2, <1>4, <1>5 DEF l

LEMMA ParenthesesIn ==
    /\ Tok(OpenParen) \in Texts /\ Tok(CloseParen) \in Texts /\ Tok(OpenSquare) \in Texts
    /\ Tok(CloseSquare) \in Texts /\ Tok(Comma) \in Texts /\ Tok(OneComma) \in Texts
    /\ Tok(Semi) \in Texts /\ Tok(Semicolon) \in Texts /\ Tok(Ampersand) \in Texts
    /\ Tok(Blank) \in Texts /\ Tok(Mut) \in Texts /\ Tok(MutPtr) \in Texts
    /\ Tok(ConstPtr) \in Texts /\ Tok(Dyn) \in Texts /\ Tok(Impl) \in Texts /\ Tok(Plus) \in Texts
    /\ Tok(Fn) \in Texts /\ Tok(Arrow) \in Texts /\ Tok(Less) \in Texts /\ Tok(Greater) \in Texts
    /\ Tok(AnyArgs) \in Texts /\ Tok(As) \in Texts /\ Tok(Colons) \in Texts /\ Tok(Colon) \in Texts
    /\ Tok(Myself) \in Texts
BY TokensIn, Texting

\* A text put together from the left, read from the left.
LEMMA Of3 ==
    ASSUME NEW y, NEW p \in Texts, NEW q \in Texts, NEW r \in Texts, y = Cat(Cat(p, q), r)
    PROVE  y \in Texts /\ \A x \in Texts : Cat(y, x) = Cat(p, Cat(q, Cat(r, x)))
BY Texting, Nested3

LEMMA Of4 ==
    ASSUME NEW y, NEW p \in Texts, NEW q \in Texts, NEW r \in Texts, NEW s \in Texts,
           y = Cat(Cat(Cat(p, q), r), s)
    PROVE  y \in Texts /\ \A x \in Texts : Cat(y, x) = Cat(p, Cat(q, Cat(r, Cat(s, x))))
<1>1. y \in Texts
  BY Texting
<1>2. \A x \in Texts : Cat(y, x) = Cat(p, Cat(q, Cat(r, Cat(s, x))))
  BY Nested4
<1> QED BY <1>1, <1>2

LEMMA Of2 ==
    ASSUME NEW y, NEW p \in Texts, NEW q \in Texts, y = Cat(p, q)
    PROVE  y \in Texts /\ \A x \in Texts : Cat(y, x) = Cat(p, Cat(q, x))
BY Texting

LEMMA PathIs ==
    ASSUME NEW t \in Nodes, NEW w, Fits(t, w), t.k \in Words
    PROVE  /\ Write(t, w) \in Texts
           /\ \A x \in Texts : Cat(Write(t, w), x) = Cat(Tok(Word(t)), Cat(All(t.more, w), x))
<1>1. Write(t, w) = Cat(Tok(Word(t)), All(t.more, w))
  BY WriteIs, Zenon DEF Path, Cat, Tok
<1>2. Tok(Word(t)) \in Texts /\ All(t.more, w) \in Texts
  BY WordIs, Texting, PartsIn, TokensIn
<1> QED BY <1>1, <1>2, Texting

LEMMA SliceIs ==
    ASSUME NEW t \in Nodes, NEW w, Fits(t, w), t.k = "slice"
    PROVE  /\ Write(t, w) \in Texts /\ w[t.of[1]] \in Texts
           /\ \A x \in Texts :
                 Cat(Write(t, w), x) = Cat(Tok(OpenSquare), Cat(w[t.of[1]], Cat(Tok(CloseSquare), x)))
<1>1. Write(t, w) = Cat(Cat(Tok(OpenSquare), w[t.of[1]]), Tok(CloseSquare))
  <2>1. Write(t, w) = Enclosed(t, w)
    BY WriteIs
  <2> QED BY <2>1, Zenon DEF Enclosed, Cat, Tok, OpenSquare, CloseSquare
<1>2. w[t.of[1]] \in Texts /\ Tok(OpenSquare) \in Texts /\ Tok(CloseSquare) \in Texts
  BY SingleIs, ParenthesesIn DEF Fits, Single
<1> QED BY <1>1, <1>2, Of3

LEMMA ArrayIs ==
    ASSUME NEW t \in Nodes, NEW w, Fits(t, w), t.k = "array"
    PROVE  /\ Write(t, w) \in Texts /\ w[t.of[1]] \in Texts
           /\ \A x \in Texts :
                 Cat(Write(t, w), x) =
                   Cat(Tok(OpenSquare), Cat(w[t.of[1]], Cat(Tok(Semi), Cat(Tok(t.n), Cat(Tok(CloseSquare), x)))))
<1> DEFINE e == Cat(Tok(Semi), Cat(Tok(t.n), Tok(CloseSquare)))
<1>1. Write(t, w) = Cat(Cat(Tok(OpenSquare), w[t.of[1]]), e)
  <2>1. Write(t, w) = Enclosed(t, w)
    BY WriteIs
  <2>2. Enclosed(t, w) = Cat(Cat(Tok(OpenSquare), w[t.of[1]]), <<Semi, t.n, CloseSquare>>)
    BY Zenon DEF Enclosed, Cat, Tok, OpenSquare, CloseSquare, Semi
  <2>3. Semi \in Strings /\ t.n \in Strings /\ CloseSquare \in Strings
    BY TokensIn, NodeIs
  <2>4. <<Semi, t.n, CloseSquare>> = e
    BY <2>3, Tokens3
  <2> QED BY <2>1, <2>2, <2>4
<1>2. /\ w[t.of[1]] \in Texts /\ Tok(t.n) \in Texts /\ Tok(OpenSquare) \in Texts
      /\ Tok(CloseSquare) \in Texts /\ Tok(Semi) \in Texts
  <2>1. w[t.of[1]] \in Texts
    BY SingleIs DEF Fits, Single
  <2>2. Tok(t.n) \in Texts
    BY NodeIs, Texting
  <2> QED BY <2>1, <2>2, ParenthesesIn
<1>3. e \in Texts
  BY <1>2, Texting
<1>4. \A x \in Texts : Cat(e, x) = Cat(Tok(Semi), Cat(Tok(t.n), Cat(Tok(CloseSquare), x)))
  BY <1>2, Texting
<1> HIDE DEF e
<1>5. /\ Write(t, w) \in Texts
      /\ \A x \in Texts : Cat(Write(t, w), x) = Cat(Tok(OpenSquare), Cat(w[t.of[1]], Cat(e, x)))
  BY <1>1, <1>2, <1>3, Of3
<1> QED BY <1>2, <1>4, <1>5

LEMMA ReferenceIs ==
    ASSUME NEW t \in Nodes
    PROVE  /\ Reference(t) \in Texts
           /\ \A x \in Texts :
                 Cat(Reference(t), x) =
                   Cat(Tok(Ampersand), Perhaps(t.n # "", Cat(Tok(t.n), Tok(Blank)),
                                               Perhaps("mut" \in t.flags, Tok(Mut), x)))
<1> DEFINE life == Cat(Tok(t.n), Tok(Blank))
           one == If(t.n # "", life)
           two == If("mut" \in t.flags, Tok(Mut))
<1>1. Reference(t) = Cat(Cat(Tok(Ampersand), one), two)
  <2>1. Reference(t) = Cat(Cat(Tok(Ampersand), If(t.n # "", <<t.n, Blank>>)), two)
    BY Zenon DEF Reference, Cat, Tok, Ampersand, Blank, Mut
  <2>2. <<t.n, Blank>> = life
    BY Tokens2, NodeIs, TokensIn
  <2> QED BY <2>1, <2>2
<1>2. Tok(t.n) \in Texts /\ life \in Texts
  BY NodeIs, ParenthesesIn, Texting
<1> HIDE DEF life
<1> DEFINE After(x) == Perhaps("mut" \in t.flags, Tok(Mut), x)
           Before(x) == Perhaps(t.n # "", life, x)
<1>3. one \in Texts /\ \A x \in Texts : Cat(one, x) = Before(x)
  BY <1>2, IfIs
<1>4. two \in Texts /\ \A x \in Texts : Cat(two, x) = After(x) /\ After(x) \in Texts
  BY IfIs, ParenthesesIn
<1> HIDE DEF one, two, After, Before
<1>5. Tok(Ampersand) \in Texts
  BY ParenthesesIn
<1>6. Reference(t) \in Texts /\ \A x \in Texts : Cat(Reference(t), x) = Cat(Tok(Ampersand), Cat(one, Cat(two, x)))
  <2>1. one \in Texts /\ two \in Texts
    BY <1>3, <1>4
  <2> QED BY <1>1, <1>5, <2>1, Of3
<1>7. \A x \in Texts : Cat(Reference(t), x) = Cat(Tok(Ampersand), Before(After(x)))
  BY <1>3, <1>4, <1>6
<1> QED BY <1>6, <1>7 DEF life, After, Before

LEMMA PointerIs ==
    ASSUME NEW t \in Nodes, NEW w, Fits(t, w), t.k \in {"ref", "ptr"}
    PROVE  /\ Write(t, w) \in Texts /\ w[t.of[1]] \in Texts
           /\ t.k = "ref" => \A x \in Texts : Cat(Write(t, w), x) = Cat(Reference(t), Cat(w[t.of[1]], x))
           /\ t.k = "ptr" => \A x \in Texts :
                 Cat(Write(t, w), x) =
                   Cat(Tok(IF "mut" \in t.flags THEN MutPtr ELSE ConstPtr), Cat(w[t.of[1]], x))
<1>1. Write(t, w) = Pointer(t, w)
  BY WriteIs
<1>2. /\ t.k = "ref" => Write(t, w) = Cat(Reference(t), w[t.of[1]])
      /\ t.k = "ptr" => Write(t, w) = Cat(Tok(IF "mut" \in t.flags THEN MutPtr ELSE ConstPtr), w[t.of[1]])
  BY <1>1, Zenon DEF Pointer, Cat, Tok, MutPtr, ConstPtr
<1>3. w[t.of[1]] \in Texts
  BY SingleIs DEF Fits, Single
<1>4. Reference(t) \in Texts /\ Tok(IF "mut" \in t.flags THEN MutPtr ELSE ConstPtr) \in Texts
  BY ReferenceIs, ParenthesesIn
<1>5. CASE t.k = "ref"
  BY <1>2, <1>3, <1>4, <1>5, Of2
<1>6. CASE t.k = "ptr"
  BY <1>2, <1>3, <1>4, <1>6, Of2
<1> QED BY <1>5, <1>6

LEMMA BoundsAre ==
    ASSUME NEW t \in Nodes, NEW w, Fits(t, w), t.k \in {"dyn", "impl"}
    PROVE  /\ Write(t, w) \in Texts /\ List(t.of, Plus, w) \in Texts /\ t.k \in {Dyn, Impl}
           /\ \A x \in Texts :
                 Cat(Write(t, w), x) = Cat(Tok(t.k), Cat(Tok(Blank), Cat(List(t.of, Plus, w), x)))
<1>1. t.k \in {Dyn, Impl}
  BY DEF Dyn, Impl
<1>2. Write(t, w) = Cat(Cat(Tok(t.k), Tok(Blank)), List(t.of, Plus, w))
  <2>1. Write(t, w) = Cat(<<t.k, Blank>>, List(t.of, Plus, w))
    BY WriteIs, Zenon DEF Bounds, Cat, Plus, Blank
  <2> QED BY <1>1, <2>1, Tokens2, TokensIn
<1>3. Tok(t.k) \in Texts /\ List(t.of, Plus, w) \in Texts
  BY <1>1, ParenthesesIn, PartsIn, TokensIn
<1>4. Tok(Blank) \in Texts
  BY ParenthesesIn
<1>5. Write(t, w) \in Texts
  BY <1>2, <1>3, <1>4, Texting
<1> QED BY <1>1, <1>2, <1>3, <1>4, <1>5, Nested3

LEMMA OutputIs ==
    ASSUME NEW t \in Nodes, NEW w, Fits(t, w)
    PROVE  /\ Output(t, w) \in Texts /\ All(t.out, w) \in Texts
           /\ \A x \in Texts : Cat(Output(t, w), x) = Perhaps(t.out # <<>>, Cat(Tok(Arrow), All(t.out, w)), x)
<1>1. Output(t, w) = If(t.out # <<>>, Cat(Tok(Arrow), All(t.out, w)))
  BY Zenon DEF Output, Cat, Tok, Arrow
<1>2. All(t.out, w) \in Texts /\ Cat(Tok(Arrow), All(t.out, w)) \in Texts
  <2>1. Tok(Arrow) \in Texts /\ All(t.out, w) \in Texts
    BY PartsIn, ParenthesesIn, TokensIn
  <2> QED BY <2>1, Texting
<1> QED BY <1>1, <1>2, IfIs

\* What a pointer to a function, Fn(A) -> B and a signature share.
Call(t, w, x) == Cat(List(t.of, Comma, w), Cat(Tok(CloseParen), Cat(Output(t, w), x)))

LEMMA CallIs ==
    ASSUME NEW t \in Nodes, NEW w, Fits(t, w), t.k \in {"fnptr", "paren"}
    PROVE  /\ Write(t, w) \in Texts
           /\ \A x \in Texts :
                 Cat(Write(t, w), x) = Cat(Tok(IF t.k = "fnptr" THEN Fn ELSE OpenParen), Call(t, w, x))
<1> DEFINE h == IF t.k = "fnptr" THEN Fn ELSE OpenParen
           l == List(t.of, Comma, w)
<1>1. Write(t, w) = Cat(Cat(Cat(Tok(h), l), Tok(CloseParen)), Output(t, w))
  <2>1. CASE t.k = "fnptr"
    <3>1. Write(t, w) = FnPointer(t, w)
      BY <2>1, WriteIs
    <3> QED BY <2>1, <3>1, Zenon DEF FnPointer, Cat, Tok, Fn, CloseParen, Comma
  <2>2. CASE t.k = "paren"
    <3>1. Write(t, w) = GenericArgs(t, w)
      BY <2>2, WriteIs
    <3>2. GenericArgs(t, w) = Cat(Cat(Cat(Tok(OpenParen), l), Tok(CloseParen)), Output(t, w))
      BY <2>2, Zenon DEF GenericArgs, Cat, Tok, OpenParen, CloseParen, Comma
    <3> QED BY <2>2, <3>1, <3>2
  <2> QED BY <2>1, <2>2
<1>2. Tok(h) \in Texts /\ l \in Texts /\ Output(t, w) \in Texts /\ Tok(CloseParen) \in Texts
  BY ParenthesesIn, PartsIn, TokensIn, OutputIs
<1> HIDE DEF h, l
<1>3. Write(t, w) \in Texts
  BY <1>1, <1>2, Texting
<1>4. \A x \in Texts : Cat(Write(t, w), x) = Cat(Tok(h), Cat(l, Cat(Tok(CloseParen), Cat(Output(t, w), x))))
  BY <1>1, <1>2, Nested4
<1> QED BY <1>3, <1>4 DEF h, l, Call

LEMMA ArgsAre ==
    ASSUME NEW t \in Nodes, NEW w, Fits(t, w)
    PROVE  /\ t.k = "angle" =>
                 /\ Write(t, w) \in Texts /\ List(t.of \o t.more, Comma, w) \in Texts
                 /\ t.of \o t.more = <<>> => Write(t, w) = None
                 /\ t.of \o t.more # <<>> => \A x \in Texts :
                       Cat(Write(t, w), x) =
                         Cat(Tok(Less), Cat(List(t.of \o t.more, Comma, w), Cat(Tok(Greater), x)))
           /\ t.k = "rtn" => Write(t, w) = Tok(AnyArgs)
<1> DEFINE l == List(t.of \o t.more, Comma, w)
<1>1. CASE t.k = "angle"
  <2>1. Write(t, w) = If(t.of \o t.more # <<>>, Cat(Cat(Tok(Less), l), Tok(Greater)))
    BY <1>1, WriteIs, Zenon DEF GenericArgs, Cat, Tok, Less, Greater, Comma
  <2>2. l \in Texts
    BY PartsIn, TokensIn
  <2> HIDE DEF l
  <2>3. CASE t.of \o t.more = <<>>
    <3>1. Write(t, w) = None
      BY <2>1, <2>3, Zenon DEF If, None
    <3> QED BY <1>1, <2>2, <2>3, <3>1, Texting DEF l
  <2>4. CASE t.of \o t.more # <<>>
    <3>1. Write(t, w) = Cat(Cat(Tok(Less), l), Tok(Greater))
      BY <2>1, <2>4, Zenon DEF If
    <3>2. Tok(Less) \in Texts /\ Tok(Greater) \in Texts
      BY ParenthesesIn
    <3>3. Write(t, w) \in Texts /\ \A x \in Texts : Cat(Write(t, w), x) = Cat(Tok(Less), Cat(l, Cat(Tok(Greater), x)))
      BY <2>2, <3>1, <3>2, Of3
    <3> QED BY <1>1, <2>2, <2>4, <3>3 DEF l
  <2> QED BY <2>3, <2>4
<1>2. CASE t.k = "rtn"
  <2>1. Write(t, w) = Tok(AnyArgs)
    BY <1>2, WriteIs, Zenon DEF GenericArgs, Tok, AnyArgs
  <2> QED BY <1>2, <2>1
<1> QED BY <1>1, <1>2

\* "::", a name and arguments: the end of a qualified path.
Ending(t, w, x) == Cat(Tok(Colons), Cat(Tok(t.n), Cat(All(t.more, w), x)))

LEMMA QualifiedIs ==
    ASSUME NEW t \in Nodes, NEW w, Fits(t, w), t.k = "qpath"
    PROVE  /\ Write(t, w) \in Texts /\ w[t.of[1]] \in Texts /\ All(t.out, w) \in Texts
           /\ \A x \in Texts : Ending(t, w, x) \in Texts
           /\ t.out = <<>> => \A x \in Texts : Cat(Write(t, w), x) = Cat(w[t.of[1]], Ending(t, w, x))
           /\ t.out # <<>> => \A x \in Texts :
                 Cat(Write(t, w), x) =
                   Cat(Tok(Less), Cat(w[t.of[1]], Cat(Tok(As), Cat(All(t.out, w), Cat(Tok(Greater), Ending(t, w, x))))))
<1> DEFINE base == IF t.out = <<>> THEN w[t.of[1]]
                   ELSE Cat(Cat(Cat(Cat(Tok(Less), w[t.of[1]]), Tok(As)), All(t.out, w)), Tok(Greater))
           last == Cat(Tok(Colons), Tok(t.n))
           more == All(t.more, w)
<1>1. Write(t, w) = Cat(Cat(base, last), more)
  <2>1. Write(t, w) = QualifiedPath(t, w)
    BY WriteIs
  <2>2. QualifiedPath(t, w) = Cat(Cat(base, <<Colons, t.n>>), more)
    BY Zenon DEF QualifiedPath, Cat, Tok, Less, As, Greater, Colons
  <2>3. Colons \in Strings /\ t.n \in Strings
    BY TokensIn, NodeIs
  <2>4. <<Colons, t.n>> = last
    BY <2>3, Tokens2
  <2> QED BY <2>1, <2>2, <2>4
<1>2. /\ w[t.of[1]] \in Texts /\ All(t.out, w) \in Texts /\ more \in Texts
      /\ Tok(Less) \in Texts /\ Tok(As) \in Texts /\ Tok(Greater) \in Texts
      /\ Tok(Colons) \in Texts /\ Tok(t.n) \in Texts
  <2>1. w[t.of[1]] \in Texts
    BY SingleIs DEF Fits, Single
  <2>2. Tok(t.n) \in Texts
    BY NodeIs, Texting
  <2>3. All(t.out, w) \in Texts /\ more \in Texts
    BY PartsIn, TokensIn
  <2> QED BY <2>1, <2>2, <2>3, ParenthesesIn
<1>3. last \in Texts /\ \A x \in Texts : Cat(last, x) = Cat(Tok(Colons), Cat(Tok(t.n), x))
  BY <1>2, Of2
<1> HIDE DEF last, more
<1>4. \A x \in Texts : Cat(more, x) \in Texts /\ Ending(t, w, x) = Cat(last, Cat(more, x))
  <2>1. \A x \in Texts : Cat(more, x) \in Texts
    BY <1>2, Texting
  <2> QED BY <1>3, <2>1 DEF Ending, more
<1>5. \A x \in Texts : Ending(t, w, x) \in Texts
  BY <1>3, <1>4, Texting
<1> DEFINE In == /\ base \in Texts /\ Write(t, w) \in Texts
                 /\ \A x \in Texts : Cat(Write(t, w), x) = Cat(base, Ending(t, w, x))
<1>6. ASSUME base \in Texts PROVE In
  <2> HIDE DEF base
  <2>1. Write(t, w) \in Texts /\ \A x \in Texts : Cat(Write(t, w), x) = Cat(base, Cat(last, Cat(more, x)))
    BY <1>1, <1>2, <1>3, <1>6, Of3 DEF more
  <2> QED BY <1>4, <1>6, <2>1
<1>7. CASE t.out = <<>>
  <2>1. base = w[t.of[1]]
    BY <1>7
  <2> HIDE DEF base
  <2>2. In
    BY <1>2, <1>6, <2>1
  <2> QED BY <1>2, <1>5, <1>7, <2>1, <2>2
<1>8. CASE t.out # <<>>
  <2>1. base = Cat(Cat(Cat(Cat(Tok(Less), w[t.of[1]]), Tok(As)), All(t.out, w)), Tok(Greater))
    BY <1>8
  <2> HIDE DEF base
  <2>2. base \in Texts /\ \A x \in Texts :
            Cat(base, x) = Cat(Tok(Less), Cat(w[t.of[1]], Cat(Tok(As), Cat(All(t.out, w), Cat(Tok(Greater), x)))))
    <3>1. PICK a, b, c, d, e : /\ a = Tok(Less) /\ b = w[t.of[1]] /\ c = Tok(As) /\ d = All(t.out, w)
                               /\ e = Tok(Greater)
      OBVIOUS
    <3>2. a \in Texts /\ b \in Texts /\ c \in Texts /\ d \in Texts /\ e \in Texts
      BY <1>2, <3>1
    <3>3. base = Cat(Cat(Cat(Cat(a, b), c), d), e)
      BY <2>1, <3>1
    <3>4. base \in Texts
      BY <3>2, <3>3, Texting
    <3>5. \A x \in Texts : Cat(base, x) = Cat(a, Cat(b, Cat(c, Cat(d, Cat(e, x)))))
      BY <3>2, <3>3, Nested5
    <3> QED BY <3>1, <3>4, <3>5
  <2>3. In
    BY <1>6, <2>2
  <2>4. \A x \in Texts : Cat(Write(t, w), x) =
            Cat(Tok(Less), Cat(w[t.of[1]], Cat(Tok(As), Cat(All(t.out, w), Cat(Tok(Greater), Ending(t, w, x))))))
    BY <1>5, <2>2, <2>3
  <2> QED BY <1>2, <1>5, <1>8, <2>3, <2>4
<1> QED BY <1>7, <1>8

LEMMA ParamIs ==
    ASSUME NEW t \in Nodes, NEW w, Fits(t, w), t.k = "param"
    PROVE  LET r == t.of[1] IN
           /\ Write(t, w) \in Texts /\ w[r] \in Texts
           /\ t.n # Myself => \A x \in Texts :
                 Cat(Write(t, w), x) = Cat(Tok(t.n), Cat(Tok(Colon), Cat(w[r], x)))
           /\ t.n = Myself /\ IsSelf(r) => Write(t, w) = Tok(Myself)
           /\ t.n = Myself /\ r.k = "ref" /\ IsSelf(r.of[1]) => \A x \in Texts :
                 Cat(Write(t, w), x) = Cat(Reference(r), Cat(Tok(Myself), x))
           /\ t.n = Myself /\ ~IsSelf(r) /\ ~(r.k = "ref" /\ IsSelf(r.of[1])) => \A x \in Texts :
                 Cat(Write(t, w), x) = Cat(Tok(Myself), Cat(Tok(Colon), Cat(w[r], x)))
<1>1. PICK r : r = t.of[1]
  OBVIOUS
<1>2. w[r] \in Texts /\ r \in Nodes
  BY <1>1, SingleIs DEF Fits, Single
<1>3. Write(t, w) = Param(t, w)
  BY WriteIs
<1>4. Tok(t.n) \in Texts /\ Tok(Colon) \in Texts /\ Tok(Myself) \in Texts /\ Reference(r) \in Texts
  BY <1>2, NodeIs, Texting, ParenthesesIn, ReferenceIs
<1>5. CASE t.n # Myself
  <2>1. Write(t, w) = Cat(<<t.n, Colon>>, w[r])
    BY <1>1, <1>3, <1>5, Zenon DEF Param, Cat, Myself, Colon
  <2>2. <<t.n, Colon>> = Cat(Tok(t.n), Tok(Colon))
    BY Tokens2, NodeIs, TokensIn
  <2>3. Write(t, w) = Cat(Cat(Tok(t.n), Tok(Colon)), w[r])
    BY <2>1, <2>2
  <2>4. Write(t, w) \in Texts /\ \A x \in Texts : Cat(Write(t, w), x) = Cat(Tok(t.n), Cat(Tok(Colon), Cat(w[r], x)))
    BY <1>2, <1>4, <2>3, Of3
  <2> QED BY <1>1, <1>2, <1>5, <2>4
<1>6. CASE t.n = Myself
  <2>1. Write(t, w) = Receiver(r, w)
    BY <1>1, <1>3, <1>6, Zenon DEF Param, Myself
  <2>2. CASE IsSelf(r)
    <3>1. Write(t, w) = Tok(Myself)
      BY <2>1, <2>2, Zenon DEF Receiver, Tok, Myself
    <3>2. ~(r.k = "ref")
      BY <2>2 DEF IsSelf
    <3> QED BY <1>1, <1>2, <1>4, <1>6, <2>2, <3>1, <3>2
  <2>3. CASE ~IsSelf(r) /\ r.k = "ref" /\ IsSelf(r.of[1])
    <3>1. Write(t, w) = Cat(Reference(r), Tok(Myself))
      BY <2>1, <2>3, Zenon DEF Receiver, Cat, Tok, Myself
    <3>2. Write(t, w) \in Texts /\ \A x \in Texts : Cat(Write(t, w), x) = Cat(Reference(r), Cat(Tok(Myself), x))
      BY <1>4, <3>1, Of2
    <3> QED BY <1>1, <1>2, <1>6, <2>3, <3>2
  <2>4. CASE ~IsSelf(r) /\ ~(r.k = "ref" /\ IsSelf(r.of[1]))
    <3>1. Write(t, w) = Cat(<<Myself, Colon>>, w[r])
      BY <2>1, <2>4, Zenon DEF Receiver, Cat, Myself, Colon
    <3>2. <<Myself, Colon>> = Cat(Tok(Myself), Tok(Colon))
      BY Tokens2, TokensIn
    <3>3. /\ Write(t, w) \in Texts
          /\ \A x \in Texts : Cat(Write(t, w), x) = Cat(Tok(Myself), Cat(Tok(Colon), Cat(w[r], x)))
      BY <1>2, <1>4, <3>1, <3>2, Of3
    <3> QED BY <1>1, <1>2, <1>6, <2>4, <3>3
  <2> QED BY <2>2, <2>3, <2>4
<1> QED BY <1>5, <1>6

LEMMA WriteIn ==
    ASSUME NEW t \in Nodes, NEW w, Fits(t, w)
    PROVE  Write(t, w) \in Texts
<1>1. t.k \in Words => Write(t, w) \in Texts
  BY PathIs
<1>2. t.k \in {"tuple", "slice", "array"} => Write(t, w) \in Texts
  BY TupleIs, SliceIs, ArrayIs
<1>3. t.k \in {"ref", "ptr", "dyn", "impl"} => Write(t, w) \in Texts
  BY PointerIs, BoundsAre
<1>4. t.k \in {"fnptr", "paren"} => Write(t, w) \in Texts
  BY CallIs
<1>5. t.k \in {"angle", "rtn"} => Write(t, w) \in Texts
  <2>1. t.k = "angle" => Write(t, w) \in Texts
    BY ArgsAre
  <2>2. t.k = "rtn" => Write(t, w) \in Texts
    BY ArgsAre, ParenthesesIn
  <2> QED BY <2>1, <2>2
<1>6. t.k \in {"qpath", "param"} => Write(t, w) \in Texts
  BY QualifiedIs, ParamIs
<1>7. t.k = "pat" => Write(t, w) \in Texts
  BY WriteIs, SingleIs DEF Fits, Single
<1>8. None = <<>> /\ None \in Texts
  BY Texting DEF None
<1> QED BY <1>1, <1>2, <1>3, <1>4, <1>5, <1>6, <1>7, <1>8, WriteIs

LEMMA TyIs ==
    /\ ty \in [Nodes -> Texts]
    /\ \A t \in Nodes : ty[t] = Write(t, ty) /\ Fits(t, ty)
<1> DEFINE Fs == [Nodes -> Texts]
           step == [p \in Nodes \X Fs |-> Write(p[1], p[2])]
<1>1. \A t \in Nodes : \A f \in Fs : Fits(t, f)
  BY DEF Fits, Lower
<1>2. \A t \in Nodes : \A f \in Fs : step[<<t, f>>] = Write(t, f) /\ Write(t, f) \in Texts
  <2>1. \A t \in Nodes : \A f \in Fs : <<t, f>> \in Nodes \X Fs
    BY Zenon
  <2> QED BY <1>1, <2>1, WriteIn
<1>3. step \in [Nodes \X Fs -> Texts]
  <2>1. ASSUME NEW p \in Nodes \X Fs PROVE Write(p[1], p[2]) \in Texts
    BY <1>2
  <2> HIDE DEF Fs
  <2> QED BY <2>1
<1> HIDE DEF step
<1>4. Asks(step, Nodes, Height, Texts)
  <2>1. Height \in [Nodes -> Nat]
    BY NodesAssumption
  <2>2. ASSUME NEW t \in Nodes, NEW f \in Fs, NEW g \in Fs, \A c \in Nodes : Height[c] < Height[t] => f[c] = g[c]
        PROVE  step[<<t, f>>] = step[<<t, g>>]
    <3>1. Agree(t, f, g)
      BY <2>2 DEF Agree, Lower
    <3> HIDE DEF Fs
    <3> QED BY <1>2, <3>1, WriteLocal
  <2> QED BY <1>3, <2>1, <2>2 DEF Asks
<1>5. PICK f \in Fs : \A t \in Nodes : f[t] = step[<<t, f>>]
  <2>1. Texts # {}
    BY Texting
  <2>2. Defines(step, Nodes, Texts)
    BY <1>4, <2>1, HeightRecursion
  <2> QED BY <2>2 DEF Defines
<1>6. f = [t \in Nodes |-> Write(t, f)]
  BY <1>2, <1>5
<1>7. ty = CHOOSE g : g = [t \in Nodes |-> Write(t, g)]
  BY Zenon DEF ty
<1>8. ty = [t \in Nodes |-> Write(t, ty)]
  <2>1. (CHOOSE g : g = [t \in Nodes |-> Write(t, g)]) =
            [t \in Nodes |-> Write(t, CHOOSE g : g = [t_1 \in Nodes |-> Write(t_1, g)])]
    BY <1>6, Zenon
  <2> QED BY <1>7, <2>1, Zenon
<1>9. ASSUME NEW t \in Nodes PROVE ty[t] \in Texts
  <2> DEFINE T == {m \in Nat : \E u \in Nodes : Height[u] = m /\ ty[u] \notin Texts}
  <2>1. SUFFICES ASSUME T # {} PROVE FALSE
    BY LowerIs
  <2>2. PICK m \in T : \A k \in T : m <= k
    BY <2>1, LeastNatural
  <2>3. PICK u \in Nodes : Height[u] = m /\ ty[u] \notin Texts
    BY <2>2
  <2>4. ASSUME NEW c \in Lower(u) PROVE ty[c] \in Texts
    <3>1. c \in Nodes /\ Height[c] \in Nat /\ ~(m <= Height[c])
      BY <2>2, <2>3, <2>4, LowerIs
    <3>2. Height[c] \notin T
      <4> HIDE DEF T
      <4> QED BY <2>2, <3>1
    <3> QED BY <3>1, <3>2
  <2>5. Write(u, ty) \in Texts
    BY <2>4, WriteIn DEF Fits
  <2> QED BY <1>8, <2>3, <2>5
<1>10. \A t \in Nodes : ty[t] = Write(t, ty)
  BY <1>8, Zenon
<1>11. ty \in [Nodes -> Texts]
  BY <1>8, <1>9
<1> QED BY <1>1, <1>10, <1>11

LEMMA MembersIn ==
    ASSUME NEW t \in Nodes
    PROVE  /\ \A i \in DOMAIN t.of : t.of[i] \in Lower(t) /\ t.of[i] \in Nodes
           /\ \A i \in DOMAIN t.out : t.out[i] \in Lower(t) /\ t.out[i] \in Nodes
           /\ \A i \in DOMAIN t.more : t.more[i] \in Lower(t) /\ t.more[i] \in Nodes
BY NodeIs, MemberIs

LEMMA OpenIs == \A t \in Nodes : open[t] = EndsOpen(t, open)
<1> DEFINE Fs == [Nodes -> BOOLEAN]
           step == [p \in Nodes \X Fs |-> EndsOpen(p[1], p[2])]
<1>1. \A t \in Nodes : \A f \in Fs : step[<<t, f>>] = EndsOpen(t, f)
  <2>1. \A t \in Nodes : \A f \in Fs : <<t, f>> \in Nodes \X Fs
    BY Zenon
  <2> QED BY <2>1
<1>2. step \in [Nodes \X Fs -> BOOLEAN]
  <2>1. \A t, f : EndsOpen(t, f) \in BOOLEAN
    BY DEF EndsOpen
  <2> QED BY <2>1
<1> HIDE DEF step
<1>3. Asks(step, Nodes, Height, BOOLEAN)
  <2>1. Height \in [Nodes -> Nat]
    BY NodesAssumption
  <2>2. ASSUME NEW t \in Nodes, NEW f \in Fs, NEW g \in Fs, \A c \in Nodes : Height[c] < Height[t] => f[c] = g[c]
        PROVE  step[<<t, f>>] = step[<<t, g>>]
    <3>1. \A c \in Lower(t) : f[c] = g[c]
      BY <2>2 DEF Lower
    <3>2. t.k \in {"ref", "ptr", "pat"} => f[t.of[1]] = g[t.of[1]]
      BY <3>1, SingleIs DEF Single
    <3>3. /\ \A i \in DOMAIN t.out : f[t.out[i]] = g[t.out[i]]
          /\ \A i \in DOMAIN t.more : f[t.more[i]] = g[t.more[i]]
      BY <3>1, MembersIn
    <3>4. EndsOpen(t, f) = EndsOpen(t, g)
      BY <3>2, <3>3 DEF EndsOpen
    <3> HIDE DEF Fs
    <3> QED BY <1>1, <3>4
  <2> QED BY <1>2, <2>1, <2>2 DEF Asks
<1>4. PICK f \in Fs : \A t \in Nodes : f[t] = step[<<t, f>>]
  <2>1. BOOLEAN # {}
    OBVIOUS
  <2>2. Defines(step, Nodes, BOOLEAN)
    BY <1>3, <2>1, HeightRecursion
  <2> QED BY <2>2 DEF Defines
<1>5. f = [t \in Nodes |-> EndsOpen(t, f)]
  BY <1>1, <1>4
<1>6. open = CHOOSE g : g = [t \in Nodes |-> EndsOpen(t, g)]
  BY Zenon DEF open
<1>7. open = [t \in Nodes |-> EndsOpen(t, open)]
  <2>1. (CHOOSE g : g = [t \in Nodes |-> EndsOpen(t, g)]) =
            [t \in Nodes |-> EndsOpen(t, CHOOSE g : g = [t_1 \in Nodes |-> EndsOpen(t_1, g)])]
    BY <1>5, Zenon
  <2> QED BY <1>6, <2>1, Zenon
<1> QED BY <1>7, Zenon

LEMMA ProlongedIs == \A t \in Nodes : prolonged[t] = Prolongs(t, prolonged)
<1> DEFINE Fs == [Nodes -> BOOLEAN]
           step == [p \in Nodes \X Fs |-> Prolongs(p[1], p[2])]
<1>1. \A t \in Nodes : \A f \in Fs : step[<<t, f>>] = Prolongs(t, f)
  <2>1. \A t \in Nodes : \A f \in Fs : <<t, f>> \in Nodes \X Fs
    BY Zenon
  <2> QED BY <2>1
<1>2. step \in [Nodes \X Fs -> BOOLEAN]
  <2>1. \A t, f : Prolongs(t, f) \in BOOLEAN
    BY DEF Prolongs
  <2> QED BY <2>1
<1> HIDE DEF step
<1>3. Asks(step, Nodes, Height, BOOLEAN)
  <2>1. Height \in [Nodes -> Nat]
    BY NodesAssumption
  <2>2. ASSUME NEW t \in Nodes, NEW f \in Fs, NEW g \in Fs, \A c \in Nodes : Height[c] < Height[t] => f[c] = g[c]
        PROVE  step[<<t, f>>] = step[<<t, g>>]
    <3>1. \A c \in Lower(t) : f[c] = g[c]
      BY <2>2 DEF Lower
    <3>2. \A s \in {t.of, t.out, t.more} : \A i \in DOMAIN s : f[s[i]] = g[s[i]]
      BY <3>1, MembersIn
    <3>3. Prolongs(t, f) = Prolongs(t, g)
      BY <3>2 DEF Prolongs
    <3> HIDE DEF Fs
    <3> QED BY <1>1, <3>3
  <2> QED BY <1>2, <2>1, <2>2 DEF Asks
<1>4. PICK f \in Fs : \A t \in Nodes : f[t] = step[<<t, f>>]
  <2>1. BOOLEAN # {}
    OBVIOUS
  <2>2. Defines(step, Nodes, BOOLEAN)
    BY <1>3, <2>1, HeightRecursion
  <2> QED BY <2>2 DEF Defines
<1>5. f = [t \in Nodes |-> Prolongs(t, f)]
  BY <1>1, <1>4
<1>6. prolonged = CHOOSE g : g = [t \in Nodes |-> Prolongs(t, g)]
  BY Zenon DEF prolonged
<1>7. prolonged = [t \in Nodes |-> Prolongs(t, prolonged)]
  <2>1. (CHOOSE g : g = [t \in Nodes |-> Prolongs(t, g)]) =
            [t \in Nodes |-> Prolongs(t, CHOOSE g : g = [t_1 \in Nodes |-> Prolongs(t_1, g)])]
    BY <1>5, Zenon
  <2> QED BY <1>6, <2>1, Zenon
<1> QED BY <1>7, Zenon

LEMMA CoreIs ==
    ASSUME NEW t \in Nodes
    PROVE  Core(t) \in Nodes /\ Lower(Core(t)) \subseteq Lower(t) /\ Core(t).k # "pat"
<1>1. CASE t.k = "pat"
  <2>1. t.of[1] \in Lower(t) /\ t.of[1] \in Nodes
    BY <1>1, SingleIs DEF Single
  <2>2. t.of[1].k # "pat"
    BY <1>1, NodesAssumption, Zenon DEF WellMade
  <2>3. Height[t] \in Nat /\ Height[t.of[1]] \in Nat /\ Height[t.of[1]] < Height[t]
    BY <2>1, LowerIs
  <2>4. Lower(t.of[1]) \subseteq Lower(t)
    <3>1. \A c \in Nodes : Height[c] \in Nat
      BY LowerIs
    <3> QED BY <2>3, <3>1 DEF Lower
  <2> QED BY <1>1, <2>1, <2>2, <2>4 DEF Core
<1>2. CASE t.k # "pat"
  BY <1>2 DEF Core
<1> QED BY <1>1, <1>2

\* Args is more, or nothing.
LEMMA ArgsOf ==
    ASSUME NEW t \in Nodes
    PROVE  /\ Args(t) \in {t.more, <<>>}
           /\ \A i \in DOMAIN Args(t) : i \in DOMAIN t.more /\ Args(t)[i] = t.more[i]
<1>1. Args(t) \in {t.more, <<>>}
  BY Zenon DEF Args, If
<1> QED BY <1>1

LEMMA BothOf ==
    ASSUME NEW t \in Nodes
    PROVE  /\ t.of \o t.more \in Seq(Lower(t))
           /\ \A i \in DOMAIN (t.of \o t.more) : (t.of \o t.more)[i] \in Lower(t) /\ (t.of \o t.more)[i] \in Nodes
<1>1. t.of \o t.more \in Seq(Lower(t))
  BY NodeIs, Joint
<1> QED BY <1>1, MemberIs

Alikes(f, s, u) == Len(s) = Len(u) /\ \A i \in DOMAIN s : f[<<s[i], u[i]>>]

LEMMA SameIs ==
    ASSUME NEW a, NEW b, NEW f
    PROVE  Same(a, b, f) =
             \/ {a.k, b.k} \subseteq Words /\ Word(a) = Word(b) /\ Alikes(f, Args(a), Args(b))
             \/ a.k = "angle" /\ b.k = "angle" /\ Alikes(f, a.of \o a.more, b.of \o b.more)
             \/ /\ a.k = b.k /\ a.k \notin Words \cup {"angle"}
                /\ a.k \in {"array", "ref", "qpath", "param"} => a.n = b.n
                /\ a.k \in {"ref", "ptr", "static", "sig"} => a.flags = b.flags
                /\ Alikes(f, a.of, b.of) /\ Alikes(f, a.out, b.out) /\ Alikes(f, Args(a), Args(b))
BY Zenon DEF Same, Alikes

LEMMA AlikesLocal ==
    ASSUME NEW p \in Nodes, NEW s \in Seq(Lower(p)), NEW u \in Seq(Nodes), NEW f, NEW g,
           \A c \in Lower(p) : \A d \in Nodes : f[<<c, d>>] = g[<<c, d>>]
    PROVE  Alikes(f, s, u) = Alikes(g, s, u)
<1>1. ASSUME Len(s) = Len(u), NEW i \in DOMAIN s PROVE f[<<s[i], u[i]>>] = g[<<s[i], u[i]>>]
  <2>1. s[i] \in Lower(p) /\ u[i] \in Nodes
    BY <1>1
  <2> QED BY <2>1
<1> QED BY <1>1 DEF Alikes

LEMMA ListsIn ==
    ASSUME NEW t \in Nodes
    PROVE  /\ \A s \in {t.of, t.out, t.of \o t.more, Args(t)} : s \in Seq(Lower(t)) /\ s \in Seq(Nodes)
<1>1. /\ t.of \in Seq(Lower(t)) /\ t.out \in Seq(Lower(t)) /\ t.more \in Seq(Lower(t))
      /\ t.of \o t.more \in Seq(Lower(t))
  BY NodeIs, BothOf
<1>2. Args(t) \in Seq(Lower(t))
  <2>1. <<>> \in Seq(Lower(t))
    OBVIOUS
  <2> QED BY <1>1, <2>1, ArgsOf
<1>3. Lower(t) \subseteq Nodes
  BY DEF Lower
<1>4. Seq(Lower(t)) \subseteq Seq(Nodes)
  BY <1>3, SeqMonotonic
<1> QED BY <1>1, <1>2, <1>4

LEMMA SameLocal ==
    ASSUME NEW p \in Nodes, NEW q \in Nodes, NEW f, NEW g,
           \A c \in Lower(p) : \A d \in Nodes : f[<<c, d>>] = g[<<c, d>>]
    PROVE  Same(p, q, f) = Same(p, q, g)
<1>1. \A s \in Seq(Lower(p)), u \in Seq(Nodes) : Alikes(f, s, u) = Alikes(g, s, u)
  BY AlikesLocal
<1>2. /\ Alikes(f, p.of, q.of) = Alikes(g, p.of, q.of)
      /\ Alikes(f, p.out, q.out) = Alikes(g, p.out, q.out)
      /\ Alikes(f, p.of \o p.more, q.of \o q.more) = Alikes(g, p.of \o p.more, q.of \o q.more)
      /\ Alikes(f, Args(p), Args(q)) = Alikes(g, Args(p), Args(q))
  BY <1>1, ListsIn, Zenon
<1> QED BY <1>2, SameIs, Zenon

LEMMA AlikeIs == \A a, b \in Nodes : alike[<<a, b>>] = Same(Core(a), Core(b), alike)
<1> DEFINE D == Nodes \X Nodes
           Fs == [D -> BOOLEAN]
           H == [d \in D |-> Height[d[1]]]
           step == [p \in D \X Fs |-> Same(Core(p[1][1]), Core(p[1][2]), p[2])]
<1>1. \A d \in D : \A f \in Fs : step[<<d, f>>] = Same(Core(d[1]), Core(d[2]), f)
  <2>1. \A d \in D : \A f \in Fs : <<d, f>> \in D \X Fs
    BY Zenon
  <2> QED BY <2>1
<1>2. step \in [D \X Fs -> BOOLEAN]
  <2>1. \A a, b, f : Same(a, b, f) \in BOOLEAN
    BY SameIs
  <2> QED BY <2>1
<1> HIDE DEF step
<1>3. H \in [D -> Nat] /\ \A d \in D : H[d] = Height[d[1]]
  BY NodesAssumption
<1> HIDE DEF H
<1>4. Asks(step, D, H, BOOLEAN)
  <2>1. ASSUME NEW t \in D, NEW f \in Fs, NEW g \in Fs, \A c \in D : H[c] < H[t] => f[c] = g[c]
        PROVE  step[<<t, f>>] = step[<<t, g>>]
    <3>1. t[1] \in Nodes /\ t[2] \in Nodes
      OBVIOUS
    <3>2. \A c \in Lower(t[1]) : \A d \in Nodes : f[<<c, d>>] = g[<<c, d>>]
      BY <1>3, <2>1, <3>1 DEF Lower
    <3>3. PICK p \in Nodes, q \in Nodes : p = Core(t[1]) /\ q = Core(t[2])
      BY <3>1, CoreIs
    <3>4. \A c \in Lower(p) : \A d \in Nodes : f[<<c, d>>] = g[<<c, d>>]
      BY <3>1, <3>2, <3>3, CoreIs
    <3>5. Same(p, q, f) = Same(p, q, g)
      BY <3>4, SameLocal
    <3> HIDE DEF Fs
    <3> QED BY <1>1, <3>3, <3>5
  <2> QED BY <1>2, <1>3, <2>1 DEF Asks
<1>5. PICK f \in Fs : \A t \in D : f[t] = step[<<t, f>>]
  <2>1. BOOLEAN # {}
    OBVIOUS
  <2>2. Defines(step, D, BOOLEAN)
    BY <1>4, <2>1, HeightRecursion
  <2> QED BY <2>2 DEF Defines
<1>6. f = [p \in D |-> Same(Core(p[1]), Core(p[2]), f)]
  BY <1>1, <1>5
<1>7. alike = CHOOSE g : g = [p \in D |-> Same(Core(p[1]), Core(p[2]), g)]
  BY Zenon DEF alike
<1>8. alike = [p \in D |-> Same(Core(p[1]), Core(p[2]), alike)]
  <2>1. (CHOOSE g : g = [p \in D |-> Same(Core(p[1]), Core(p[2]), g)]) =
            [p \in D |-> Same(Core(p[1]), Core(p[2]),
                              CHOOSE g : g = [p_1 \in D |-> Same(Core(p_1[1]), Core(p_1[2]), g)])]
    BY <1>6, Zenon
  <2> QED BY <1>7, <2>1, Zenon
<1>9. \A a, b \in Nodes : <<a, b>> \in D /\ <<a, b>>[1] = a /\ <<a, b>>[2] = b
  OBVIOUS
<1> QED BY <1>8, <1>9, Zenon

-----------------------------------------------------------------------------
(* Lists of texts                                                          *)

LEMMA TailIs ==
    ASSUME NEW S, NEW p \in Seq(S), p # <<>>
    PROVE  /\ Tail(p) \in Seq(S) /\ p[1] \in S /\ Len(p) \in Nat /\ Len(p) >= 1
           /\ Len(Tail(p)) = Len(p) - 1
           /\ \A i \in 1..(Len(p) - 1) : Tail(p)[i] = p[i + 1]
<1>1. Len(p) \in Nat /\ Len(p) # 0
  BY Length
<1> QED BY <1>1

\* FlattenSeq, from the left.
LEMMA FlatFromLeft ==
    ASSUME NEW S, NEW p \in Seq(Seq(S)), p # <<>>
    PROVE  FlattenSeq(p) = p[1] \o FlattenSeq(Tail(p))
<1>1. PICK q : q = Tail(p)
  OBVIOUS
<1>2. PICK n \in Nat : n = Len(p) /\ n >= 1
  BY TailIs
<1>3. /\ q \in Seq(Seq(S)) /\ Len(q) = n - 1 /\ p[1] \in Seq(S)
      /\ \A i \in 1..(n - 1) : q[i] = p[i + 1]
  BY <1>1, <1>2, TailIs
<1>4. PICK f : Puts(f, p, S)
  BY Flattens
<1>5. CASE q = <<>>
  <2>1. n = 1
    <3>1. Len(q) = 0
      BY <1>5
    <3>2. n - 1 = 0
      BY <1>3, <3>1
    <3> QED BY <3>2
  <2>2. FlattenSeq(p) = p[1]
    BY <1>2, <1>4, <2>1 DEF Puts, InTurn
  <2>3. p[1] \o <<>> = p[1]
    BY <1>3, ConcatEmptySeq
  <2> QED BY <1>1, <1>5, <2>2, <2>3, FlatOfNone
<1>6. CASE q # <<>>
  <2>1. PICK g : Puts(g, q, S)
    BY <1>3, <1>6, Flattens
  <2>2. n - 1 \in Nat /\ n - 1 >= 1 /\ n \in 2..n
    <3>1. Len(q) \in Nat /\ Len(q) # 0
      BY <1>3, <1>6, Length
    <3> QED BY <1>2, <1>3, <3>1
  <2>3. /\ \A i \in 2..n : f[i] = f[i - 1] \o p[i]
        /\ f[1] = p[1] /\ FlattenSeq(p) = f[n]
    BY <1>2, <1>4 DEF Puts, InTurn
  <2>4. /\ \A i \in 2..(n - 1) : g[i] = g[i - 1] \o q[i]
        /\ g[1] = q[1] /\ FlattenSeq(q) = g[n - 1]
        /\ \A i \in 1..(n - 1) : g[i] \in Seq(S)
    BY <1>3, <2>1 DEF Puts, InTurn
  <2> DEFINE P == {i \in 1..(n - 1) : f[i + 1] = p[1] \o g[i]}
  <2>5. 1 \in P
    <3>1. 2 \in 2..n /\ 1 \in 1..(n - 1) /\ 2 - 1 = 1 /\ 1 + 1 = 2
      BY <2>2
    <3>2. f[2] = f[2 - 1] \o p[2] /\ q[1] = p[1 + 1]
      BY <1>3, <2>3, <3>1
    <3>3. f[1 + 1] = p[1] \o g[1]
      BY <2>3, <2>4, <3>1, <3>2
    <3> QED BY <3>1, <3>3
  <2>6. ASSUME NEW i \in 2..(n - 1), i - 1 \in P PROVE i \in P
    <3>1. /\ i \in 1..(n - 1) /\ i - 1 \in 1..(n - 1) /\ i + 1 \in 2..n
          /\ (i + 1) - 1 = i /\ (i - 1) + 1 = i
      BY <2>2
    <3>2. f[i + 1] = f[i] \o p[i + 1]
      BY <2>3, <3>1
    <3>3. f[i] = p[1] \o g[i - 1]
      BY <2>6, <3>1
    <3>4. q[i] = p[i + 1] /\ q[i] \in Seq(S) /\ g[i - 1] \in Seq(S) /\ g[i] = g[i - 1] \o q[i]
      <4>1. q[i] = p[i + 1]
        BY <1>3, <3>1
      <4>2. g[i - 1] \in Seq(S) /\ g[i] = g[i - 1] \o q[i]
        BY <2>4, <3>1
      <4>3. i \in 1..Len(q)
        BY <1>3, <3>1
      <4>4. q[i] \in Seq(S)
        BY <1>3, <4>3
      <4> QED BY <4>1, <4>2, <4>4
    <3>5. (p[1] \o g[i - 1]) \o q[i] = p[1] \o (g[i - 1] \o q[i])
      <4>1. PICK a \in Seq(S), b \in Seq(S), c \in Seq(S) : a = p[1] /\ b = g[i - 1] /\ c = q[i]
        BY <1>3, <3>4
      <4>2. (a \o b) \o c = a \o (b \o c)
        BY ConcatAssociative
      <4> QED BY <4>1, <4>2
    <3>6. f[i + 1] = p[1] \o g[i]
      BY <3>2, <3>3, <3>4, <3>5, Zenon
    <3> QED BY <3>1, <3>6
  <2>7. 1..(n - 1) \subseteq P
    <3> HIDE DEF P
    <3> QED BY <2>2, <2>5, <2>6, Upwards
  <2>8. f[n] = p[1] \o g[n - 1]
    <3>1. n - 1 \in 1..(n - 1) /\ (n - 1) + 1 = n
      BY <2>2
    <3>2. n - 1 \in P
      BY <2>7, <3>1
    <3> QED BY <3>1, <3>2
  <2> QED BY <1>1, <2>3, <2>4, <2>8
<1> QED BY <1>5, <1>6

\* The rest of a list: each with the separator before it.
Rest(p, sep) == FlattenSeq([i \in DOMAIN p |-> <<sep>> \o p[i]])

LEMMA RestIs ==
    ASSUME NEW p \in Seq(Texts), NEW sep \in Strings
    PROVE  /\ Rest(p, sep) \in Texts
           /\ p = <<>> => Rest(p, sep) = None
           /\ p # <<>> => Rest(p, sep) = Cat(Tok(sep), Cat(p[1], Rest(Tail(p), sep)))
<1> DEFINE m(s) == [i \in DOMAIN s |-> <<sep>> \o s[i]]
<1>1. ASSUME NEW s \in Seq(Texts)
      PROVE  m(s) \in Seq(Texts) /\ Len(m(s)) = Len(s) /\ \A i \in 1..Len(s) : m(s)[i] = <<sep>> \o s[i]
  <2>1. \A i \in DOMAIN s : <<sep>> \o s[i] \in Texts
    BY TextIs
  <2>2. Len(s) \in Nat /\ DOMAIN s = 1..Len(s)
    OBVIOUS
  <2> QED BY <2>1, <2>2
<1> HIDE DEF m
<1>2. \A s : Rest(s, sep) = FlattenSeq(m(s))
  BY DEF Rest, m
<1>3. FlattenSeq(m(p)) \in Texts
  BY <1>1, FlatIn DEF Texts
<1>4. CASE p = <<>>
  <2>1. m(<<>>) = <<>>
    BY DEF m
  <2> QED BY <1>2, <1>3, <1>4, <2>1, FlatOfNone DEF None
<1>5. CASE p # <<>>
  <2>1. PICK q \in Seq(Texts) : q = Tail(p)
    BY <1>5, TailIs
  <2>2. Len(p) \in Nat /\ Len(p) >= 1 /\ p[1] \in Texts
    BY <1>5, TailIs
  <2>3. m(p) # <<>> /\ m(p)[1] = <<sep>> \o p[1]
    BY <1>1, <2>2, Length
  <2>4. Tail(m(p)) = m(q)
    <3>1. /\ Tail(m(p)) \in Seq(Texts) /\ Len(Tail(m(p))) = Len(p) - 1
          /\ \A i \in 1..(Len(p) - 1) : Tail(m(p))[i] = m(p)[i + 1]
      BY <1>1, <2>3, TailIs
    <3>2. /\ Len(q) = Len(p) - 1 /\ \A i \in 1..(Len(p) - 1) : q[i] = p[i + 1]
      BY <1>5, <2>1, TailIs
    <3>3. m(q) \in Seq(Texts) /\ Len(m(q)) = Len(p) - 1 /\ \A i \in 1..(Len(p) - 1) : m(q)[i] = <<sep>> \o q[i]
      BY <1>1, <3>2
    <3>4. \A i \in 1..(Len(p) - 1) : m(p)[i + 1] = <<sep>> \o p[i + 1]
      BY <1>1, <2>2
    <3>5. \A i \in 1..(Len(p) - 1) : Tail(m(p))[i] = m(q)[i]
      BY <3>1, <3>2, <3>3, <3>4
    <3> QED BY <3>1, <3>3, <3>5, SeqEqual
  <2>5. FlattenSeq(m(p)) = m(p)[1] \o FlattenSeq(Tail(m(p)))
    BY <1>1, <2>3, FlatFromLeft DEF Texts
  <2>6. Rest(p, sep) = Cat(Cat(Tok(sep), p[1]), Rest(q, sep))
    BY <1>2, <2>3, <2>4, <2>5, Zenon DEF Cat, Tok
  <2>7. Rest(q, sep) \in Texts
    BY <1>1, <1>2, <2>1, FlatIn DEF Texts
  <2>8. Cat(Cat(Tok(sep), p[1]), Rest(q, sep)) = Cat(Tok(sep), Cat(p[1], Rest(q, sep)))
    <3>1. PICK a \in Texts, b \in Texts, c \in Texts : a = Tok(sep) /\ b = p[1] /\ c = Rest(q, sep)
      BY <2>2, <2>7, Texting
    <3>2. Cat(Cat(a, b), c) = Cat(a, Cat(b, c))
      BY Texting
    <3> QED BY <3>1, <3>2
  <2> QED BY <1>2, <1>3, <1>5, <2>1, <2>6, <2>8
<1> QED BY <1>4, <1>5

LEMMA TogetherIs ==
    ASSUME NEW p \in Seq(Texts), NEW sep \in Strings
    PROVE  /\ Together(p, sep) \in Texts
           /\ p = <<>> => Together(p, sep) = None
           /\ p # <<>> => Together(p, sep) = Cat(p[1], Rest(Tail(p), sep))
<1> DEFINE m == [i \in DOMAIN p |-> (IF i = 1 THEN <<>> ELSE <<sep>>) \o p[i]]
<1>1. Together(p, sep) \in Texts
  BY TogetherIn
<1>2. CASE p = <<>>
  <2>1. m = <<>>
    BY <1>2
  <2> QED BY <1>1, <1>2, <2>1, FlatOfNone DEF None, Together
<1>3. CASE p # <<>>
  <2>1. PICK q \in Seq(Texts) : q = Tail(p)
    BY <1>3, TailIs
  <2>2. /\ Len(p) \in Nat /\ Len(p) >= 1 /\ p[1] \in Texts /\ DOMAIN p = 1..Len(p)
        /\ \A i \in 1..Len(p) : p[i] \in Texts
    BY <1>3, TailIs
  <2>3. m[1] = p[1] /\ \A i \in 2..Len(p) : m[i] = <<sep>> \o p[i]
    <3>1. 1 \in DOMAIN p /\ \A i \in 2..Len(p) : i \in DOMAIN p /\ i # 1
      BY <2>2
    <3>2. m[1] = <<>> \o p[1]
      BY <3>1
    <3>3. <<>> \o p[1] = p[1]
      BY <2>2, TextIs
    <3> QED BY <3>1, <3>2, <3>3
  <2>4. Len(m) = Len(p) /\ m \in Seq(Texts) /\ m # <<>>
    <3>1. \A i \in 1..Len(p) : m[i] \in Texts
      <4>1. \A i \in 2..Len(p) : <<sep>> \o p[i] \in Texts
        BY <2>2, TextIs
      <4>2. \A i \in 1..Len(p) : i = 1 \/ i \in 2..Len(p)
        BY <2>2
      <4> HIDE DEF m
      <4> QED BY <2>2, <2>3, <4>1, <4>2
    <3>2. m = [i \in 1..Len(p) |-> m[i]]
      BY <2>2
    <3> HIDE DEF m
    <3>3. m \in Seq(Texts) /\ Len(m) = Len(p)
      BY <2>2, <3>1, <3>2
    <3> QED BY <2>2, <3>3, Length
  <2> HIDE DEF m
  <2> DEFINE r == [i \in DOMAIN q |-> <<sep>> \o q[i]]
  <2>5. Len(q) = Len(p) - 1 /\ \A i \in 1..(Len(p) - 1) : q[i] = p[i + 1]
    BY <1>3, <2>1, TailIs
  <2>6. r \in Seq(Texts) /\ Len(r) = Len(p) - 1 /\ \A i \in 1..(Len(p) - 1) : r[i] = <<sep>> \o p[i + 1]
    <3>1. \A i \in DOMAIN q : <<sep>> \o q[i] \in Texts
      BY TextIs
    <3>2. Len(q) \in Nat /\ DOMAIN q = 1..Len(q)
      OBVIOUS
    <3>3. r \in Seq(Texts) /\ Len(r) = Len(q) /\ \A i \in 1..Len(q) : r[i] = <<sep>> \o q[i]
      BY <3>1, <3>2
    <3> HIDE DEF r
    <3> QED BY <2>5, <3>3
  <2> HIDE DEF r
  <2>7. Tail(m) = r
    <3>1. /\ Tail(m) \in Seq(Texts) /\ Len(Tail(m)) = Len(p) - 1
          /\ \A i \in 1..(Len(p) - 1) : Tail(m)[i] = m[i + 1]
      BY <2>4, TailIs
    <3>2. \A i \in 1..(Len(p) - 1) : i + 1 \in 2..Len(p)
      BY <2>2
    <3>3. \A i \in 1..(Len(p) - 1) : Tail(m)[i] = r[i]
      BY <2>3, <2>6, <3>1, <3>2
    <3> QED BY <2>6, <3>1, <3>3, SeqEqual
  <2>8. FlattenSeq(m) = m[1] \o FlattenSeq(Tail(m))
    BY <2>4, FlatFromLeft DEF Texts
  <2>9. Together(p, sep) = FlattenSeq(m) /\ Rest(q, sep) = FlattenSeq(r)
    BY Zenon DEF Together, Rest, m, r
  <2> QED BY <1>1, <1>3, <2>1, <2>3, <2>7, <2>8, <2>9 DEF Cat
<1> QED BY <1>2, <1>3

\* A text that starts with a token.
Starts(x, a) == \E r \in Texts : x = Cat(Tok(a), r)

LEMMA StartsIs ==
    /\ \A a \in Strings : \A r \in Texts : Starts(Cat(Tok(a), r), a)
    /\ \A a \in Strings : Starts(Tok(a), a) /\ ~Starts(None, a)
    /\ \A a \in Strings : \A p, x \in Texts : Starts(p, a) => Starts(Cat(p, x), a)
    /\ \A a, b \in Strings : \A x : Starts(x, a) /\ Starts(x, b) => a = b
<1>1. \A a \in Strings : \A r \in Texts : Starts(Cat(Tok(a), r), a)
  BY DEF Starts
<1>2. ASSUME NEW a \in Strings PROVE Starts(Tok(a), a) /\ ~Starts(None, a)
  <2>1. Tok(a) \in Texts /\ None \in Texts /\ Cat(Tok(a), None) = Tok(a)
    BY Texting
  <2>2. \A r \in Texts : Cat(Tok(a), r) # None
    BY Peeling
  <2> QED BY <2>1, <2>2 DEF Starts
<1>3. ASSUME NEW a \in Strings, NEW p \in Texts, NEW x \in Texts, Starts(p, a)
      PROVE  Starts(Cat(p, x), a)
  <2>1. PICK r \in Texts : p = Cat(Tok(a), r)
    BY <1>3 DEF Starts
  <2>2. Tok(a) \in Texts /\ Cat(r, x) \in Texts
    BY Texting
  <2>3. Cat(p, x) = Cat(Tok(a), Cat(r, x))
    BY <2>1, <2>2, Texting
  <2> QED BY <2>2, <2>3 DEF Starts
<1>4. ASSUME NEW a \in Strings, NEW b \in Strings, NEW x, Starts(x, a), Starts(x, b) PROVE a = b
  <2>1. PICK r \in Texts, s \in Texts : Cat(Tok(a), r) = Cat(Tok(b), s)
    BY <1>4 DEF Starts
  <2> QED BY <2>1, Peeling
<1> QED BY <1>1, <1>2, <1>3, <1>4

\* Where the texts of a list end if what follows is in Z.
Parted(p, q, Z) == \A x, y \in Z : Cat(p, x) = Cat(q, y) => p = q

PartedLists(p, q, sep, Z) ==
    /\ p \in Seq(Texts) /\ q \in Seq(Texts) /\ sep \in Strings /\ Z \subseteq Texts
    /\ \A i \in DOMAIN p, j \in DOMAIN q : Parted(p[i], q[j], Z)
    /\ \A s \in Texts : Cat(Tok(sep), s) \in Z

Over(sep, Z) == {x \in Z : ~Starts(x, sep)}

LEMMA TailsParted ==
    ASSUME NEW p, NEW q, NEW sep, NEW Z, PartedLists(p, q, sep, Z), p # <<>>, q # <<>>
    PROVE  PartedLists(Tail(p), Tail(q), sep, Z) /\ Parted(p[1], q[1], Z)
<1> USE DEF PartedLists
<1>1. /\ Tail(p) \in Seq(Texts) /\ Len(p) \in Nat /\ Len(p) >= 1 /\ Len(Tail(p)) = Len(p) - 1
      /\ \A i \in 1..(Len(p) - 1) : Tail(p)[i] = p[i + 1]
  BY TailIs
<1>2. /\ Tail(q) \in Seq(Texts) /\ Len(q) \in Nat /\ Len(q) >= 1 /\ Len(Tail(q)) = Len(q) - 1
      /\ \A i \in 1..(Len(q) - 1) : Tail(q)[i] = q[i + 1]
  BY TailIs
<1>3. /\ DOMAIN p = 1..Len(p) /\ DOMAIN q = 1..Len(q)
      /\ DOMAIN Tail(p) = 1..(Len(p) - 1) /\ DOMAIN Tail(q) = 1..(Len(q) - 1)
  BY <1>1, <1>2
<1>4. ASSUME NEW i \in DOMAIN Tail(p), NEW j \in DOMAIN Tail(q) PROVE Parted(Tail(p)[i], Tail(q)[j], Z)
  <2>1. i + 1 \in DOMAIN p /\ Tail(p)[i] = p[i + 1]
    BY <1>1, <1>3, <1>4
  <2>2. j + 1 \in DOMAIN q /\ Tail(q)[j] = q[j + 1]
    BY <1>2, <1>3, <1>4
  <2> QED BY <2>1, <2>2
<1>5. 1 \in DOMAIN p /\ 1 \in DOMAIN q
  BY <1>1, <1>2, <1>3
<1> QED BY <1>1, <1>2, <1>4, <1>5

LEMMA SameHeadAndTail ==
    ASSUME NEW S, NEW p \in Seq(S), NEW q \in Seq(S), p # <<>>, q # <<>>, p[1] = q[1], Tail(p) = Tail(q)
    PROVE  p = q
<1>1. /\ Len(p) \in Nat /\ Len(p) >= 1 /\ Len(Tail(p)) = Len(p) - 1
      /\ \A i \in 1..(Len(p) - 1) : Tail(p)[i] = p[i + 1]
  BY TailIs
<1>2. /\ Len(q) \in Nat /\ Len(q) >= 1 /\ Len(Tail(q)) = Len(q) - 1
      /\ \A i \in 1..(Len(q) - 1) : Tail(q)[i] = q[i + 1]
  BY TailIs
<1>3. Len(p) = Len(q)
  <2>1. Len(p) - 1 = Len(q) - 1
    BY <1>1, <1>2
  <2>2. PICK m \in Nat, n \in Nat : m = Len(p) /\ n = Len(q)
    BY <1>1, <1>2
  <2> QED BY <2>1, <2>2
<1>4. ASSUME NEW i \in 1..Len(p) PROVE p[i] = q[i]
  <2>1. CASE i = 1
    BY <2>1
  <2>2. CASE i # 1
    <3>1. i - 1 \in 1..(Len(p) - 1) /\ (i - 1) + 1 = i
      BY <1>1, <2>2
    <3>2. Tail(p)[i - 1] = p[i] /\ Tail(q)[i - 1] = q[i]
      BY <1>1, <1>2, <1>3, <3>1
    <3> QED BY <3>2
  <2> QED BY <2>1, <2>2
<1> QED BY <1>3, <1>4, SeqEqual

\* What is left of two lists reads the same only if they are the same.
RestReads(p, q, sep, Z) ==
    \A x, y \in Over(sep, Z) : Cat(Rest(p, sep), x) = Cat(Rest(q, sep), y) => p = q /\ x = y

LEMMA RestStep ==
    ASSUME NEW p, NEW q, NEW sep, NEW Z, PartedLists(p, q, sep, Z),
           p # <<>> /\ q # <<>> => RestReads(Tail(p), Tail(q), sep, Z)
    PROVE  RestReads(p, q, sep, Z)
<1> SUFFICES ASSUME NEW x \in Over(sep, Z), NEW y \in Over(sep, Z), Cat(Rest(p, sep), x) = Cat(Rest(q, sep), y)
             PROVE  p = q /\ x = y
  BY DEF RestReads
<1>1. /\ p \in Seq(Texts) /\ q \in Seq(Texts) /\ sep \in Strings /\ x \in Texts /\ y \in Texts
      /\ x \in Z /\ y \in Z /\ ~Starts(x, sep) /\ ~Starts(y, sep)
  BY DEF PartedLists, Over
<1>2. ASSUME NEW s \in Seq(Texts), s # <<>>, NEW z \in Texts
      PROVE  /\ Cat(Rest(Tail(s), sep), z) \in Texts
             /\ Cat(s[1], Cat(Rest(Tail(s), sep), z)) \in Texts
             /\ Cat(Rest(s, sep), z) = Cat(Tok(sep), Cat(s[1], Cat(Rest(Tail(s), sep), z)))
  <2>1. PICK r : r = Rest(Tail(s), sep)
    OBVIOUS
  <2>2. PICK h : h = s[1]
    OBVIOUS
  <2>3. h \in Texts /\ r \in Texts /\ Tok(sep) \in Texts /\ Rest(s, sep) = Cat(Tok(sep), Cat(h, r))
    BY <1>1, <1>2, <2>1, <2>2, RestIs, TailIs, Texting
  <2>4. Cat(h, r) \in Texts /\ Cat(r, z) \in Texts /\ Cat(h, Cat(r, z)) \in Texts
    BY <2>3, Texting
  <2>5. Cat(Cat(Tok(sep), Cat(h, r)), z) = Cat(Tok(sep), Cat(Cat(h, r), z))
    BY <2>3, <2>4, Texting
  <2>6. Cat(Cat(h, r), z) = Cat(h, Cat(r, z))
    BY <2>3, Texting
  <2> QED BY <2>1, <2>2, <2>3, <2>4, <2>5, <2>6
<1>3. ASSUME NEW s \in Seq(Texts), s = <<>>, NEW z \in Texts PROVE Cat(Rest(s, sep), z) = z
  BY <1>1, <1>3, RestIs, Texting
<1>4. CASE p = <<>>
  <2>1. Cat(Rest(p, sep), x) = x
    BY <1>1, <1>3, <1>4
  <2>2. q = <<>>
    <3>1. SUFFICES ASSUME q # <<>> PROVE FALSE
      OBVIOUS
    <3>2. x = Cat(Rest(q, sep), y)
      BY <2>1
    <3>3. PICK r \in Texts : x = Cat(Tok(sep), r)
      BY <1>1, <1>2, <3>1, <3>2
    <3> QED BY <1>1, <3>3, StartsIs
  <2>3. x = y
    BY <1>1, <1>3, <2>1, <2>2
  <2> QED BY <1>4, <2>2, <2>3
<1>5. CASE p # <<>>
  <2>1. q # <<>>
    <3>1. SUFFICES ASSUME q = <<>> PROVE FALSE
      OBVIOUS
    <3>2. Cat(Rest(q, sep), y) = y
      BY <1>1, <1>3, <3>1
    <3>3. PICK r \in Texts : y = Cat(Tok(sep), r)
      BY <1>1, <1>2, <1>5, <3>2
    <3> QED BY <1>1, <3>3, StartsIs
  <2>2. PICK a \in Texts, b \in Texts, s \in Texts, t \in Texts :
            /\ a = p[1] /\ b = q[1]
            /\ s = Cat(Rest(Tail(p), sep), x) /\ t = Cat(Rest(Tail(q), sep), y)
            /\ Cat(Tok(sep), Cat(a, s)) = Cat(Tok(sep), Cat(b, t))
    <3>1. p[1] \in Texts /\ q[1] \in Texts
      BY <1>1, <1>5, <2>1, TailIs
    <3> QED BY <1>1, <1>2, <1>5, <2>1, <3>1
  <2>3. Cat(a, s) = Cat(b, t)
    <3>1. Cat(a, s) \in Texts /\ Cat(b, t) \in Texts
      BY Texting
    <3> QED BY <1>1, <2>2, <3>1, Peeling
  <2>4. s \in Z /\ t \in Z
    <3>1. ASSUME NEW u \in Seq(Texts), NEW z \in Texts, z \in Z PROVE Cat(Rest(u, sep), z) \in Z
      <4>1. CASE u = <<>>
        BY <1>3, <3>1, <4>1
      <4>2. CASE u # <<>>
        BY <1>2, <4>2 DEF PartedLists
      <4> QED BY <4>1, <4>2
    <3>2. Tail(p) \in Seq(Texts) /\ Tail(q) \in Seq(Texts)
      BY <1>1, <1>5, <2>1, TailIs
    <3> QED BY <1>1, <2>2, <3>1, <3>2
  <2>5. a = b
    BY <1>5, <2>1, <2>2, <2>3, <2>4, TailsParted DEF Parted
  <2>6. s = t
    BY <2>3, <2>5, Peeling
  <2>7. Tail(p) = Tail(q) /\ x = y
    BY <1>5, <2>1, <2>2, <2>6 DEF RestReads
  <2> QED BY <1>1, <1>5, <2>1, <2>2, <2>5, <2>7, SameHeadAndTail
<1> QED BY <1>4, <1>5

LEMMA RestsRead ==
    ASSUME NEW p, NEW q, NEW sep, NEW Z, PartedLists(p, q, sep, Z)
    PROVE  RestReads(p, q, sep, Z)
<1> DEFINE Bad(n) == \E r, s : Len(r) = n /\ PartedLists(r, s, sep, Z) /\ ~RestReads(r, s, sep, Z)
           T == {n \in Nat : Bad(n)}
<1>1. SUFFICES ASSUME T # {} PROVE FALSE
  <2>1. Len(p) \in Nat
    BY DEF PartedLists
  <2> QED BY <1>1, <2>1
<1>2. PICK n \in T : \A m \in T : n <= m
  BY <1>1, LeastNatural
<1>3. PICK r, s : Len(r) = n /\ PartedLists(r, s, sep, Z) /\ ~RestReads(r, s, sep, Z)
  BY <1>2
<1>4. ASSUME r # <<>>, s # <<>> PROVE RestReads(Tail(r), Tail(s), sep, Z)
  <2>1. r \in Seq(Texts)
    BY <1>3 DEF PartedLists
  <2>2. Len(Tail(r)) = n - 1 /\ n >= 1 /\ n \in Nat
    BY <1>3, <1>4, <2>1, TailIs
  <2>3. n - 1 \in Nat /\ ~(n <= n - 1)
    BY <2>2
  <2>4. n - 1 \notin T
    <3> HIDE DEF T
    <3> QED BY <1>2, <2>3
  <2>5. ~Bad(n - 1)
    BY <2>3, <2>4
  <2>6. PartedLists(Tail(r), Tail(s), sep, Z)
    BY <1>3, <1>4, TailsParted
  <2> QED BY <2>2, <2>5, <2>6
<1> QED BY <1>3, <1>4, RestStep

-----------------------------------------------------------------------------
(* Where a text ends                                                       *)

Dots == "..."

\* What can come after a type, or after one of a list.
Ends == {Comma, OneComma, CloseParen, CloseSquare, Semi, Greater, As, Plus}

\* What can come within one.
Inner == {OpenParen, OpenSquare, Ampersand, MutPtr, ConstPtr, Dyn, Impl, Fn, Less, AnyArgs, Arrow, Colons,
          Colon, Blank, Mut, Dots}

LEMMA TokensApart ==
    /\ Ends \subseteq Tokens /\ Ends \subseteq Strings /\ Inner \subseteq Tokens /\ Inner \subseteq Strings
    /\ Ends \cap Inner = {} /\ Myself \notin Tokens /\ Myself \in Strings
<1>1. Ends \subseteq Tokens
  BY Zenon DEF Ends, Tokens, Comma, OneComma, CloseParen, CloseSquare, Semi, Greater, As, Plus
<1>2. Inner \subseteq Tokens
  BY Zenon DEF Inner, Tokens, OpenParen, OpenSquare, Ampersand, MutPtr, ConstPtr, Dyn, Impl, Fn, Less,
               AnyArgs, Arrow, Colons, Colon, Blank, Mut, Dots
<1>3. Tokens \subseteq Strings
  BY Zenon DEF Strings, Marks
<1>4. /\ OpenParen \notin Ends /\ OpenSquare \notin Ends /\ Ampersand \notin Ends /\ MutPtr \notin Ends
      /\ ConstPtr \notin Ends /\ Dyn \notin Ends /\ Impl \notin Ends /\ Fn \notin Ends
  BY Zenon DEF Ends, Comma, OneComma, CloseParen, CloseSquare, Semi, Greater, As, Plus,
               OpenParen, OpenSquare, Ampersand, MutPtr, ConstPtr, Dyn, Impl, Fn
<1>5. /\ Less \notin Ends /\ AnyArgs \notin Ends /\ Arrow \notin Ends /\ Colons \notin Ends
      /\ Colon \notin Ends /\ Blank \notin Ends /\ Mut \notin Ends /\ Dots \notin Ends
  BY Zenon DEF Ends, Comma, OneComma, CloseParen, CloseSquare, Semi, Greater, As, Plus,
               Less, AnyArgs, Arrow, Colons, Colon, Blank, Mut, Dots
<1>6. Ends \cap Inner = {}
  BY <1>4, <1>5, Zenon DEF Inner
<1>7. Myself \notin Tokens
  BY Zenon DEF Myself, Tokens
<1> QED BY <1>1, <1>2, <1>3, <1>6, <1>7, TokensIn

\* The tokens at one place differ.
LEMMA EndsApart ==
    /\ Comma \notin {OneComma, CloseParen, CloseSquare, Semi, Greater, As, Plus}
    /\ Plus \notin {Comma, OneComma, CloseParen, CloseSquare, Semi, Greater, As}
    /\ OneComma # CloseParen /\ CloseSquare # Semi
<1>1. Comma \notin {OneComma, CloseParen, CloseSquare, Semi, Greater, As, Plus}
  BY Zenon DEF Comma, OneComma, CloseParen, CloseSquare, Semi, Greater, As, Plus
<1>2. Plus \notin {Comma, OneComma, CloseParen, CloseSquare, Semi, Greater, As}
  BY Zenon DEF Comma, OneComma, CloseParen, CloseSquare, Semi, Greater, As, Plus
<1>3. OneComma # CloseParen /\ CloseSquare # Semi
  BY Zenon DEF OneComma, CloseParen, CloseSquare, Semi
<1> QED BY <1>1, <1>2, <1>3

LEMMA InnerApart ==
    /\ OpenParen \notin {OpenSquare, Ampersand, MutPtr, ConstPtr, Dyn, Impl, Fn, Less, AnyArgs, Dots}
    /\ OpenSquare \notin {Ampersand, MutPtr, ConstPtr, Dyn, Impl, Fn, Less}
    /\ Ampersand \notin {MutPtr, ConstPtr, Dyn, Impl, Fn, Less, Dots}
    /\ MutPtr \notin {ConstPtr, Dyn, Impl, Fn, Less} /\ ConstPtr \notin {Dyn, Impl, Fn, Less}
    /\ Dyn \notin {Impl, Fn, Less} /\ Impl \notin {Fn, Less} /\ Fn # Less /\ AnyArgs # Less
    /\ Colons \notin {OpenParen, Less, AnyArgs} /\ Blank \notin {OpenParen, Less, AnyArgs, Colons, Colon}
    /\ Mut \notin {OpenParen, OpenSquare, Ampersand, MutPtr, ConstPtr, Dyn, Impl, Fn, Less}
<1>1. OpenParen \notin {OpenSquare, Ampersand, MutPtr, ConstPtr, Dyn, Impl, Fn, Less, AnyArgs, Dots}
  BY Zenon DEF OpenParen, OpenSquare, Ampersand, MutPtr, ConstPtr, Dyn, Impl, Fn, Less, AnyArgs, Dots
<1>2. OpenSquare \notin {Ampersand, MutPtr, ConstPtr, Dyn, Impl, Fn, Less}
  BY Zenon DEF OpenSquare, Ampersand, MutPtr, ConstPtr, Dyn, Impl, Fn, Less
<1>3. Ampersand \notin {MutPtr, ConstPtr, Dyn, Impl, Fn, Less, Dots}
  BY Zenon DEF Ampersand, MutPtr, ConstPtr, Dyn, Impl, Fn, Less, Dots
<1>4. MutPtr \notin {ConstPtr, Dyn, Impl, Fn, Less} /\ ConstPtr \notin {Dyn, Impl, Fn, Less}
  BY Zenon DEF MutPtr, ConstPtr, Dyn, Impl, Fn, Less
<1>5. Dyn \notin {Impl, Fn, Less} /\ Impl \notin {Fn, Less} /\ Fn # Less /\ AnyArgs # Less
  BY Zenon DEF Dyn, Impl, Fn, Less, AnyArgs
<1>6. Colons \notin {OpenParen, Less, AnyArgs} /\ Blank \notin {OpenParen, Less, AnyArgs, Colons, Colon}
  BY Zenon DEF Colons, Blank, OpenParen, Less, AnyArgs, Colon
<1>7. Mut \notin {OpenParen, OpenSquare, Ampersand, MutPtr, ConstPtr, Dyn, Impl, Fn, Less}
  BY Zenon DEF Mut, OpenParen, OpenSquare, Ampersand, MutPtr, ConstPtr, Dyn, Impl, Fn, Less
<1> QED BY <1>1, <1>2, <1>3, <1>4, <1>5, <1>6, <1>7

Stops(x) == x \in Texts /\ (x = None \/ \E a \in Ends : Starts(x, a))

Begins(p) == p \in Texts /\ \E a \in Strings \ Ends : Starts(p, a)

LEMMA StopsIs ==
    /\ Stops(None)
    /\ \A a \in Ends : \A x \in Texts : Stops(Cat(Tok(a), x))
    /\ \A x : Stops(x) => x \in Texts /\ \A a \in Strings \ Ends : ~Starts(x, a)
    /\ \A p : Begins(p) => p \in Texts /\ p # None /\ \A x \in Texts : Begins(Cat(p, x))
    /\ \A x : ~(Stops(x) /\ Begins(x))
<1>1. None \in Texts /\ Ends \subseteq Strings
  BY Texting, TokensApart
<1>2. \A a \in Ends : \A x \in Texts : Stops(Cat(Tok(a), x))
  <2>1. \A a \in Ends : \A x \in Texts : Starts(Cat(Tok(a), x), a) /\ Cat(Tok(a), x) \in Texts
    BY <1>1, StartsIs, Texting
  <2> QED BY <2>1 DEF Stops
<1>3. ASSUME NEW x, Stops(x) PROVE x \in Texts /\ \A a \in Strings \ Ends : ~Starts(x, a)
  <2>1. \A a \in Strings, b \in Strings : Starts(x, a) /\ Starts(x, b) => a = b
    BY StartsIs
  <2>2. \A a \in Strings : ~Starts(None, a)
    BY StartsIs
  <2> QED BY <1>1, <1>3, <2>1, <2>2 DEF Stops
<1>4. ASSUME NEW p, Begins(p) PROVE p \in Texts /\ p # None /\ \A x \in Texts : Begins(Cat(p, x))
  <2>1. PICK a \in Strings \ Ends : p \in Texts /\ Starts(p, a)
    BY <1>4 DEF Begins
  <2>2. p # None
    BY <2>1, StartsIs
  <2>3. ASSUME NEW x \in Texts PROVE Begins(Cat(p, x))
    <3>1. Starts(Cat(p, x), a) /\ Cat(p, x) \in Texts
      BY <2>1, StartsIs, Texting
    <3> QED BY <3>1 DEF Begins
  <2> QED BY <2>1, <2>2, <2>3
<1>5. \A x : ~(Stops(x) /\ Begins(x))
  BY <1>3 DEF Begins
<1> QED BY <1>1, <1>2, <1>3, <1>4, <1>5 DEF Stops

\* Lists between what they begin with and what comes after them.
LEMMA ListsRead ==
    ASSUME NEW p, NEW q, NEW sep, NEW Z, PartedLists(p, q, sep, Z),
           \A i \in DOMAIN p : Begins(p[i]), \A j \in DOMAIN q : Begins(q[j]),
           NEW x \in Over(sep, Z), NEW y \in Over(sep, Z), Stops(x), Stops(y),
           Cat(Together(p, sep), x) = Cat(Together(q, sep), y)
    PROVE  p = q /\ x = y
<1>1. /\ p \in Seq(Texts) /\ q \in Seq(Texts) /\ sep \in Strings /\ x \in Texts /\ y \in Texts
      /\ x \in Z /\ y \in Z
  BY DEF PartedLists, Over
<1>2. ASSUME NEW s \in Seq(Texts), s = <<>>, NEW z \in Texts PROVE Cat(Together(s, sep), z) = z
  BY <1>1, <1>2, TogetherIs, Texting
<1>3. ASSUME NEW s \in Seq(Texts), s # <<>>, NEW z \in Texts
      PROVE  /\ s[1] \in Texts /\ Cat(Rest(Tail(s), sep), z) \in Texts
             /\ Cat(Together(s, sep), z) = Cat(s[1], Cat(Rest(Tail(s), sep), z))
  <2>1. PICK h, r : h = s[1] /\ r = Rest(Tail(s), sep)
    OBVIOUS
  <2>2. h \in Texts /\ r \in Texts /\ Together(s, sep) = Cat(h, r)
    BY <1>1, <1>3, <2>1, TailIs, RestIs, TogetherIs
  <2>3. Cat(Cat(h, r), z) = Cat(h, Cat(r, z)) /\ Cat(r, z) \in Texts
    BY <2>2, Texting
  <2> QED BY <2>1, <2>2, <2>3
<1>4. ASSUME NEW s \in Seq(Texts), s # <<>>, \A i \in DOMAIN s : Begins(s[i]), NEW z \in Texts
      PROVE  Begins(Cat(Together(s, sep), z))
  <2>1. Begins(s[1])
    <3>1. 1 \in DOMAIN s
      BY <1>4, TailIs
    <3> QED BY <1>4, <3>1
  <2> QED BY <1>3, <1>4, <2>1, StopsIs
<1>5. CASE p = <<>>
  <2>1. q = <<>>
    <3>1. SUFFICES ASSUME q # <<>> PROVE FALSE
      OBVIOUS
    <3>2. Cat(Together(q, sep), y) = x
      BY <1>1, <1>2, <1>5
    <3>3. Begins(x)
      BY <1>1, <1>4, <3>1, <3>2
    <3> QED BY <3>3, StopsIs
  <2> QED BY <1>1, <1>2, <1>5, <2>1
<1>6. CASE p # <<>>
  <2>1. q # <<>>
    <3>1. SUFFICES ASSUME q = <<>> PROVE FALSE
      OBVIOUS
    <3>2. Cat(Together(p, sep), x) = y
      BY <1>1, <1>2, <3>1
    <3>3. Begins(y)
      BY <1>1, <1>4, <1>6, <3>2
    <3> QED BY <3>3, StopsIs
  <2>2. PICK a \in Texts, b \in Texts, s \in Texts, t \in Texts :
            /\ a = p[1] /\ b = q[1]
            /\ s = Cat(Rest(Tail(p), sep), x) /\ t = Cat(Rest(Tail(q), sep), y)
            /\ Cat(a, s) = Cat(b, t)
    BY <1>1, <1>3, <1>6, <2>1
  <2>3. Tail(p) \in Seq(Texts) /\ Tail(q) \in Seq(Texts)
    BY <1>1, <1>6, <2>1, TailIs
  <2>4. s \in Z /\ t \in Z
    <3>1. ASSUME NEW u \in Seq(Texts), NEW z \in Texts, z \in Z PROVE Cat(Rest(u, sep), z) \in Z
      <4>1. CASE u = <<>>
        <5>1. Cat(Rest(u, sep), z) = z
          BY <1>1, <3>1, <4>1, RestIs, Texting
        <5> QED BY <3>1, <5>1
      <4>2. CASE u # <<>>
        <5>1. PICK h, r : h = u[1] /\ r = Rest(Tail(u), sep)
          OBVIOUS
        <5>2. h \in Texts /\ r \in Texts /\ Tok(sep) \in Texts /\ Rest(u, sep) = Cat(Tok(sep), Cat(h, r))
          BY <1>1, <4>2, <5>1, TailIs, RestIs, Texting
        <5>3. Cat(h, r) \in Texts /\ Cat(Cat(h, r), z) \in Texts
          BY <3>1, <5>2, Texting
        <5>4. Cat(Rest(u, sep), z) = Cat(Tok(sep), Cat(Cat(h, r), z))
          BY <3>1, <5>2, <5>3, Texting
        <5> QED BY <5>3, <5>4 DEF PartedLists
      <4> QED BY <4>1, <4>2
    <3> QED BY <1>1, <2>2, <2>3, <3>1
  <2>5. a = b
    BY <1>6, <2>1, <2>2, <2>4, TailsParted DEF Parted
  <2>6. s = t
    BY <2>2, <2>5, Peeling
  <2>7. RestReads(Tail(p), Tail(q), sep, Z)
    BY <1>6, <2>1, TailsParted, RestsRead
  <2>8. Tail(p) = Tail(q) /\ x = y
    BY <2>2, <2>6, <2>7 DEF RestReads
  <2> QED BY <1>1, <1>6, <2>1, <2>2, <2>5, <2>8, SameHeadAndTail
<1> QED BY <1>5, <1>6

-----------------------------------------------------------------------------
(* What a text starts with                                                 *)

Bare(t) == t.k \in Words \/ (t.k = "qpath" /\ t.out = <<>>)

\* The token that a term or arguments start with, but for a pattern type and an
\* empty angle.
Lead(t) ==
    CASE t.k \in Words -> Word(t)
      [] t.k = "qpath" -> IF t.out = <<>> THEN Word(t.of[1]) ELSE Less
      [] t.k \in {"tuple", "paren"} -> OpenParen
      [] t.k \in {"slice", "array"} -> OpenSquare
      [] t.k = "ref" -> Ampersand
      [] t.k = "ptr" -> IF "mut" \in t.flags THEN MutPtr ELSE ConstPtr
      [] t.k = "dyn" -> Dyn
      [] t.k = "impl" -> Impl
      [] t.k = "fnptr" -> Fn
      [] t.k = "angle" -> Less
      [] OTHER -> AnyArgs

LEMMA BaseIs ==
    ASSUME NEW t \in Nodes, t.k = "qpath", t.out = <<>>
    PROVE  /\ t.of[1].k = "name" /\ t.of[1] \in Nodes /\ t.of[1].more = <<>>
           /\ ty[t.of[1]] = Tok(Word(t.of[1])) /\ Word(t.of[1]) = t.of[1].n
<1>1. t.of[1].k = "name"
  BY NodesAssumption, Zenon DEF WellMade
<1>2. t.of[1] \in Nodes
  BY SingleIs DEF Single
<1>3. PICK c \in Nodes : c = t.of[1] /\ c.k = "name"
  BY <1>1, <1>2
<1>4. c.more = <<>>
  <2>1. c.more # <<>> /\ c.k # "angle" => c.k \in {"path", "trait", "qpath"}
    BY NodesAssumption, Zenon DEF WellMade
  <2> QED BY <1>3, <2>1
<1>5. ty[c] = Tok(Word(c))
  <2>1. ty[c] = Path(c, ty)
    BY <1>3, TyIs, WriteIs DEF Words
  <2>2. ty[c] = Cat(Tok(Word(c)), All(c.more, ty))
    BY <2>1, Zenon DEF Path, Cat, Tok
  <2>3. All(c.more, ty) = None
    <3>1. Images(<<>>, ty) = <<>>
      BY DEF Images
    <3> QED BY <1>4, <3>1, ListIs, FlatOfNone, Zenon DEF None
  <2>4. Tok(Word(c)) \in Texts
    BY WordIs, Texting
  <2> QED BY <2>2, <2>3, <2>4, Texting
<1>6. Word(c) = c.n
  BY <1>3, Zenon DEF Word
<1> QED BY <1>1, <1>2, <1>3, <1>4, <1>5, <1>6

LEMMA LeadIs ==
    ASSUME NEW t
    PROVE  /\ t.k \in Words => Lead(t) = Word(t)
           /\ t.k = "qpath" => Lead(t) = IF t.out = <<>> THEN Word(t.of[1]) ELSE Less
           /\ t.k \in {"tuple", "paren"} => Lead(t) = OpenParen
           /\ t.k \in {"slice", "array"} => Lead(t) = OpenSquare
           /\ t.k = "ref" => Lead(t) = Ampersand
           /\ t.k = "ptr" => Lead(t) = IF "mut" \in t.flags THEN MutPtr ELSE ConstPtr
           /\ t.k = "dyn" => Lead(t) = Dyn
           /\ t.k = "impl" => Lead(t) = Impl
           /\ t.k = "fnptr" => Lead(t) = Fn
           /\ t.k = "angle" => Lead(t) = Less
           /\ t.k = "rtn" => Lead(t) = AnyArgs
BY DEF Lead, Words

\* A text of which a token is the first.
Leading == (Terms \ {"pat"}) \cup Angles

LEMMA LeadStarts ==
    ASSUME NEW t \in Nodes, t.k \in Leading, t.k = "angle" => t.of \o t.more # <<>>
    PROVE  Starts(ty[t], Lead(t))
<1>1. Fits(t, ty) /\ ty[t] = Write(t, ty) /\ ty[t] \in Texts /\ None \in Texts /\ Cat(ty[t], None) = ty[t]
  BY TyIs, Texting
<1>2. CASE t.k \in Words
  <2>1. Cat(ty[t], None) = Cat(Tok(Word(t)), Cat(All(t.more, ty), None)) /\ All(t.more, ty) \in Texts
    BY <1>1, <1>2, PathIs, PartsIn, TokensIn
  <2>2. Cat(All(t.more, ty), None) \in Texts
    BY <1>1, <2>1, Texting
  <2> QED BY <1>1, <1>2, <2>1, <2>2, LeadIs DEF Starts
<1>3. CASE t.k \in {"tuple", "slice", "array"}
  <2>1. CASE t.k = "tuple"
    <3>1. PICK r : /\ r = Cat(List(t.of, Comma, ty), Perhaps(Len(t.of) = 1, Tok(OneComma), Cat(Tok(CloseParen), None)))
                   /\ ty[t] = Cat(Tok(OpenParen), r) /\ List(t.of, Comma, ty) \in Texts
      BY <1>1, <2>1, TupleIs
    <3>2. Cat(Tok(CloseParen), None) \in Texts /\ Tok(OneComma) \in Texts
      BY <1>1, ParenthesesIn, Texting
    <3>3. Perhaps(Len(t.of) = 1, Tok(OneComma), Cat(Tok(CloseParen), None)) \in Texts
      BY <3>2, IfIs
    <3>4. r \in Texts
      BY <3>1, <3>3, Texting
    <3> QED BY <2>1, <3>1, <3>4, LeadIs DEF Starts
  <2>2. CASE t.k = "slice"
    <3>1. PICK r : r = Cat(ty[t.of[1]], Cat(Tok(CloseSquare), None)) /\ ty[t] = Cat(Tok(OpenSquare), r)
      BY <1>1, <2>2, SliceIs
    <3>2. ty[t.of[1]] \in Texts /\ Cat(Tok(CloseSquare), None) \in Texts
      BY <1>1, <2>2, SliceIs, ParenthesesIn, Texting
    <3>3. r \in Texts
      BY <3>1, <3>2, Texting
    <3> QED BY <2>2, <3>1, <3>3, LeadIs DEF Starts
  <2>3. CASE t.k = "array"
    <3>1. PICK r, s : /\ s = Cat(Tok(Semi), Cat(Tok(t.n), Cat(Tok(CloseSquare), None)))
                      /\ r = Cat(ty[t.of[1]], s) /\ ty[t] = Cat(Tok(OpenSquare), r)
      BY <1>1, <2>3, ArrayIs
    <3>2. ty[t.of[1]] \in Texts /\ Tok(Semi) \in Texts /\ Tok(t.n) \in Texts /\ Cat(Tok(CloseSquare), None) \in Texts
      <4>1. Tok(t.n) \in Texts
        BY NodeIs, Texting
      <4>2. Tok(Semi) \in Texts /\ Cat(Tok(CloseSquare), None) \in Texts
        BY ParenthesesIn, Texting
      <4> QED BY <1>1, <2>3, <4>1, <4>2, ArrayIs
    <3>3. s \in Texts
      BY <3>1, <3>2, Texting
    <3>4. r \in Texts
      BY <3>1, <3>2, <3>3, Texting
    <3> QED BY <2>3, <3>1, <3>4, LeadIs DEF Starts
  <2> QED BY <1>3, <2>1, <2>2, <2>3
<1>4. CASE t.k \in {"ref", "ptr"}
  <2>1. ty[t.of[1]] \in Texts
    BY <1>1, <1>4, PointerIs
  <2>2. PICK r \in Texts : r = Cat(ty[t.of[1]], None)
    BY <1>1, <2>1, Texting
  <2>3. CASE t.k = "ref"
    <3>1. ty[t] = Cat(Reference(t), r)
      BY <1>1, <2>2, <2>3, PointerIs
    <3>2. PICK s : /\ s = Perhaps(t.n # "", Cat(Tok(t.n), Tok(Blank)), Perhaps("mut" \in t.flags, Tok(Mut), r))
                   /\ ty[t] = Cat(Tok(Ampersand), s)
      BY <3>1, ReferenceIs
    <3>3. Tok(t.n) \in Texts /\ Tok(Blank) \in Texts /\ Tok(Mut) \in Texts
      BY NodeIs, Texting, TokensIn
    <3>4. Cat(Tok(t.n), Tok(Blank)) \in Texts
      BY <3>3, Texting
    <3>5. Perhaps("mut" \in t.flags, Tok(Mut), r) \in Texts
      BY <3>3, IfIs
    <3>6. s \in Texts
      BY <3>2, <3>4, <3>5, IfIs
    <3> QED BY <2>3, <3>2, <3>6, LeadIs DEF Starts
  <2>4. CASE t.k = "ptr"
    <3>1. ty[t] = Cat(Tok(IF "mut" \in t.flags THEN MutPtr ELSE ConstPtr), r)
      BY <1>1, <2>2, <2>4, PointerIs
    <3>2. Lead(t) = IF "mut" \in t.flags THEN MutPtr ELSE ConstPtr
      BY <2>4, LeadIs
    <3> QED BY <2>2, <3>1, <3>2 DEF Starts
  <2> QED BY <1>4, <2>3, <2>4
<1>5. CASE t.k \in {"dyn", "impl"}
  <2>1. List(t.of, Plus, ty) \in Texts /\ Tok(Blank) \in Texts
    BY <1>1, <1>5, BoundsAre, ParenthesesIn
  <2>2. PICK r : r = Cat(Tok(Blank), Cat(List(t.of, Plus, ty), None)) /\ ty[t] = Cat(Tok(t.k), r)
    BY <1>1, <1>5, BoundsAre
  <2>3. Cat(List(t.of, Plus, ty), None) \in Texts
    BY <1>1, <2>1, Texting
  <2>4. r \in Texts
    BY <2>1, <2>2, <2>3, Texting
  <2>5. Lead(t) = t.k
    BY <1>5, LeadIs DEF Dyn, Impl
  <2> QED BY <2>2, <2>4, <2>5 DEF Starts
<1>6. CASE t.k \in {"fnptr", "paren"}
  <2>1. PICK r : r = Call(t, ty, None) /\ ty[t] = Cat(Tok(IF t.k = "fnptr" THEN Fn ELSE OpenParen), r)
    BY <1>1, <1>6, CallIs
  <2>2. List(t.of, Comma, ty) \in Texts /\ Output(t, ty) \in Texts /\ Tok(CloseParen) \in Texts
    BY <1>1, PartsIn, TokensIn, OutputIs, ParenthesesIn
  <2>3. Cat(Output(t, ty), None) \in Texts
    BY <1>1, <2>2, Texting
  <2>4. Cat(Tok(CloseParen), Cat(Output(t, ty), None)) \in Texts
    BY <2>2, <2>3, Texting
  <2>5. r \in Texts
    BY <2>1, <2>2, <2>4, Texting DEF Call
  <2>6. Lead(t) = IF t.k = "fnptr" THEN Fn ELSE OpenParen
    BY <1>6, LeadIs
  <2> QED BY <2>1, <2>5, <2>6 DEF Starts
<1>7. CASE t.k = "qpath"
  <2>1. /\ ty[t.of[1]] \in Texts /\ All(t.out, ty) \in Texts /\ Ending(t, ty, None) \in Texts
    BY <1>1, <1>7, QualifiedIs
  <2>2. CASE t.out = <<>>
    <3>1. ty[t] = Cat(ty[t.of[1]], Ending(t, ty, None))
      BY <1>1, <1>7, <2>2, QualifiedIs
    <3>2. ty[t.of[1]] = Tok(Word(t.of[1]))
      BY <1>7, <2>2, BaseIs
    <3>3. Lead(t) = Word(t.of[1])
      BY <1>7, <2>2, LeadIs
    <3> QED BY <2>1, <3>1, <3>2, <3>3 DEF Starts
  <2>3. CASE t.out # <<>>
    <3>1. PICK a, b, c, r : /\ a = ty[t.of[1]] /\ b = All(t.out, ty) /\ c = Ending(t, ty, None)
                            /\ r = Cat(a, Cat(Tok(As), Cat(b, Cat(Tok(Greater), c))))
                            /\ ty[t] = Cat(Tok(Less), r)
      BY <1>1, <1>7, <2>3, QualifiedIs
    <3>2. a \in Texts /\ b \in Texts /\ c \in Texts /\ Tok(As) \in Texts /\ Tok(Greater) \in Texts
      BY <2>1, <3>1, ParenthesesIn
    <3>3. Cat(b, Cat(Tok(Greater), c)) \in Texts
      BY <3>2, Texting
    <3>4. Cat(Tok(As), Cat(b, Cat(Tok(Greater), c))) \in Texts
      BY <3>2, <3>3, Texting
    <3>5. r \in Texts
      BY <3>1, <3>2, <3>4, Texting
    <3>6. Lead(t) = Less
      BY <1>7, <2>3, LeadIs
    <3> QED BY <3>1, <3>5, <3>6 DEF Starts
  <2> QED BY <2>2, <2>3
<1>8. CASE t.k = "angle"
  <2>1. PICK r : r = Cat(List(t.of \o t.more, Comma, ty), Cat(Tok(Greater), None)) /\ ty[t] = Cat(Tok(Less), r)
    BY <1>1, <1>8, ArgsAre
  <2>2. List(t.of \o t.more, Comma, ty) \in Texts /\ Cat(Tok(Greater), None) \in Texts
    BY <1>1, <1>8, ArgsAre, ParenthesesIn, Texting
  <2>3. r \in Texts
    BY <2>1, <2>2, Texting
  <2> QED BY <1>8, <2>1, <2>3, LeadIs DEF Starts
<1>9. CASE t.k = "rtn"
  <2>1. ty[t] = Tok(AnyArgs) /\ Lead(t) = AnyArgs /\ AnyArgs \in Strings
    BY <1>1, <1>9, ArgsAre, LeadIs, TokensIn
  <2> QED BY <2>1, StartsIs
<1> QED BY <1>2, <1>3, <1>4, <1>5, <1>6, <1>7, <1>8, <1>9 DEF Leading, Terms, Types, Words, Angles

LEMMA LeadIn ==
    ASSUME NEW t \in Nodes, t.k \in Leading
    PROVE  /\ Bare(t) => Lead(t) \in Strings /\ Lead(t) \notin Tokens
           /\ ~Bare(t) => Lead(t) \in Inner
           /\ Lead(t) \in Strings \ Ends
<1>1. Ends \subseteq Tokens /\ Inner \subseteq Strings /\ Ends \cap Inner = {}
  BY TokensApart
<1>2. CASE t.k \in Words
  <2>1. t.k # "dots"
    BY <1>2 DEF Leading, Terms, Types, Words, Angles
  <2> QED BY <1>1, <1>2, <2>1, WordIs, LeadIs DEF Bare
<1>3. CASE t.k = "qpath" /\ t.out = <<>>
  <2>1. t.of[1] \in Nodes /\ t.of[1].k = "name"
    BY <1>3, BaseIs
  <2>2. Lead(t) = Word(t.of[1])
    BY <1>3, LeadIs
  <2> QED BY <1>1, <1>3, <2>1, <2>2, WordIs DEF Bare
<1>4. CASE ~Bare(t)
  <2>1. \/ t.k = "qpath" /\ t.out # <<>>
        \/ t.k \in {"tuple", "paren", "slice", "array", "ref", "ptr", "dyn", "impl", "fnptr", "angle", "rtn"}
    BY <1>4 DEF Bare, Leading, Terms, Types, Words, Angles
  <2>2. Lead(t) \in {OpenParen, OpenSquare, Ampersand, MutPtr, ConstPtr, Dyn, Impl, Fn, Less, AnyArgs}
    BY <2>1, LeadIs
  <2>3. Lead(t) \in Inner
    BY <2>2 DEF Inner
  <2> QED BY <1>1, <1>4, <2>3
<1> QED BY <1>2, <1>3, <1>4 DEF Bare

\* A pattern type is written as what it narrows.
LEMMA CoreReads ==
    ASSUME NEW t \in Nodes
    PROVE  /\ ty[Core(t)] = ty[t] /\ open[Core(t)] = open[t]
           /\ prolonged[Core(t)] => prolonged[t]
           /\ t.k \in Terms => Core(t).k \in Terms \ {"pat"}
           /\ t.k \notin Terms => Core(t) = t
<1>1. CASE t.k = "pat"
  <2>1. t.of[1] \in Nodes /\ Core(t) = t.of[1] /\ 1 \in DOMAIN t.of
    BY <1>1, SingleIs DEF Core, Single
  <2>2. ty[t] = ty[t.of[1]]
    BY <1>1, TyIs, WriteIs
  <2>3. open[t] = open[t.of[1]]
    <3>1. open[t] = EndsOpen(t, open) /\ open[t.of[1]] = EndsOpen(t.of[1], open)
      BY <2>1, OpenIs
    <3>2. EndsOpen(t.of[1], open) \in BOOLEAN
      BY DEF EndsOpen
    <3>3. EndsOpen(t, open) = open[t.of[1]]
      BY <1>1, <3>1, <3>2 DEF EndsOpen
    <3> QED BY <3>1, <3>3
  <2>4. prolonged[t.of[1]] => prolonged[t]
    BY <2>1, ProlongedIs DEF Prolongs
  <2>5. t.of[1].k \in Terms /\ t.of[1].k # "pat"
    <3>1. t.of[1].k \in Terms
      BY <1>1, <2>1, SortIs DEF Sorted3, Words
    <3> QED BY <2>1, <3>1, CoreIs
  <2>6. t.k \in Terms
    BY <1>1 DEF Terms, Types
  <2> QED BY <2>1, <2>2, <2>3, <2>4, <2>5, <2>6
<1>2. CASE t.k # "pat"
  BY <1>2 DEF Core
<1> QED BY <1>1, <1>2

\* What is read one way: terms, arguments that are written, parameters.
Full(t) == t.k = "angle" => t.of \o t.more # <<>>

SameSort(a, b) ==
    \/ a.k \in Terms /\ b.k \in Terms
    \/ a.k \in Angles /\ b.k \in Angles /\ Full(a) /\ Full(b)
    \/ a.k \in Params /\ b.k \in Params

LEMMA ParamStarts ==
    ASSUME NEW t \in Nodes, t.k = "param"
    PROVE  /\ t.n # Myself => Starts(ty[t], t.n)
           /\ t.n = Myself /\ t.of[1].k = "ref" /\ IsSelf(t.of[1].of[1]) => Starts(ty[t], Ampersand)
           /\ t.n = Myself /\ ~(t.of[1].k = "ref" /\ IsSelf(t.of[1].of[1])) => Starts(ty[t], Myself)
<1>1. Fits(t, ty) /\ ty[t] = Write(t, ty) /\ ty[t] \in Texts /\ None \in Texts /\ Cat(ty[t], None) = ty[t]
  BY TyIs, Texting
<1>2. PICK r \in Nodes : r = t.of[1]
  BY SingleIs DEF Single
<1>3. PICK s \in Texts : s = Cat(Tok(Colon), Cat(ty[r], None))
  <2>1. ty[r] \in Texts /\ Tok(Colon) \in Texts
    BY TyIs, ParenthesesIn
  <2>2. Cat(ty[r], None) \in Texts
    BY <1>1, <2>1, Texting
  <2> QED BY <2>1, <2>2, Texting
<1>4. ASSUME t.n # Myself PROVE Starts(ty[t], t.n)
  <2>1. ty[t] = Cat(Tok(t.n), s)
    BY <1>1, <1>2, <1>3, <1>4, ParamIs
  <2> QED BY <2>1 DEF Starts
<1>5. ASSUME t.n = Myself, r.k = "ref", IsSelf(r.of[1]) PROVE Starts(ty[t], Ampersand)
  <2>1. Tok(Myself) \in Texts
    BY ParenthesesIn
  <2>2. PICK v \in Texts : v = Cat(Tok(Myself), None)
    BY <1>1, <2>1, Texting
  <2>3. ty[t] = Cat(Reference(r), v)
    BY <1>1, <1>2, <1>5, <2>2, ParamIs
  <2>4. PICK u : /\ u = Perhaps(r.n # "", Cat(Tok(r.n), Tok(Blank)), Perhaps("mut" \in r.flags, Tok(Mut), v))
                 /\ Cat(Reference(r), v) = Cat(Tok(Ampersand), u)
    BY ReferenceIs, Zenon
  <2>5. Tok(r.n) \in Texts /\ Tok(Blank) \in Texts /\ Tok(Mut) \in Texts
    BY NodeIs, Texting, TokensIn
  <2>6. Cat(Tok(r.n), Tok(Blank)) \in Texts
    BY <2>5, Texting
  <2>7. Perhaps("mut" \in r.flags, Tok(Mut), v) \in Texts
    BY <2>5, IfIs
  <2>8. u \in Texts
    BY <2>4, <2>6, <2>7, IfIs
  <2> QED BY <2>3, <2>4, <2>8 DEF Starts
<1>6. ASSUME t.n = Myself, ~(r.k = "ref" /\ IsSelf(r.of[1])) PROVE Starts(ty[t], Myself)
  <2>1. CASE IsSelf(r)
    <3>1. ty[t] = Tok(Myself) /\ Myself \in Strings
      BY <1>1, <1>2, <1>6, <2>1, ParamIs, TokensIn
    <3> QED BY <3>1, StartsIs
  <2>2. CASE ~IsSelf(r)
    <3>1. ty[t] = Cat(Tok(Myself), s)
      BY <1>1, <1>2, <1>3, <1>6, <2>2, ParamIs
    <3> QED BY <3>1 DEF Starts
  <2> QED BY <2>1, <2>2
<1> QED BY <1>2, <1>4, <1>5, <1>6

LEMMA AllBegin ==
    ASSUME NEW t \in Nodes, t.k \in Terms \cup Angles \cup Params, Full(t)
    PROVE  Begins(ty[t])
<1>1. ty[t] \in Texts
  BY TyIs
<1>2. CASE t.k \in Leading
  <2>1. Starts(ty[t], Lead(t)) /\ Lead(t) \in Strings \ Ends
    BY <1>2, LeadStarts, LeadIn DEF Full
  <2> QED BY <1>1, <2>1 DEF Begins
<1>3. CASE t.k = "pat"
  <2>1. PICK c \in Nodes : c = Core(t) /\ c.k \in Terms \ {"pat"} /\ ty[c] = ty[t]
    <3>1. t.k \in Terms
      BY <1>3 DEF Terms, Types
    <3> QED BY <3>1, CoreIs, CoreReads
  <2>2. c.k \in Leading /\ c.k # "angle"
    BY <2>1 DEF Leading, Terms, Types, Words
  <2>3. Starts(ty[c], Lead(c)) /\ Lead(c) \in Strings \ Ends
    BY <2>2, LeadStarts, LeadIn
  <2> QED BY <1>1, <2>1, <2>3 DEF Begins
<1>4. CASE t.k = "param"
  <2>1. t.n \in Strings \ Ends /\ Myself \in Strings \ Ends /\ Ampersand \in Strings \ Ends
    <3>1. t.n \in Strings /\ t.n \notin Tokens
      BY NodeIs
    <3>2. Ampersand \in Inner
      BY DEF Inner
    <3> QED BY <3>1, <3>2, TokensApart
  <2>2. Starts(ty[t], t.n) \/ Starts(ty[t], Myself) \/ Starts(ty[t], Ampersand)
    BY <1>4, ParamStarts
  <2> QED BY <1>1, <2>1, <2>2 DEF Begins
<1>5. CASE t.k = "dots"
  <2>1. t.k \in Words /\ Fits(t, ty) /\ ty[t] = Write(t, ty)
    BY <1>5, TyIs DEF Words
  <2>2. None \in Texts /\ All(t.more, ty) \in Texts /\ Cat(ty[t], None) = ty[t]
    BY <1>1, <2>1, PartsIn, TokensIn, Texting
  <2>3. PICK r \in Texts : r = Cat(All(t.more, ty), None)
    BY <2>2, Texting
  <2>4. ty[t] = Cat(Tok(Word(t)), r)
    BY <2>1, <2>2, <2>3, PathIs
  <2>5. Word(t) = Dots
    BY <1>5, Zenon DEF Word, Dots
  <2>6. Dots \in Inner
    BY DEF Inner
  <2>7. Dots \in Strings \ Ends
    BY <2>6, TokensApart
  <2> QED BY <1>1, <2>4, <2>5, <2>7 DEF Begins, Starts
<1> QED BY <1>2, <1>3, <1>4, <1>5 DEF Leading, Params

-----------------------------------------------------------------------------
(* Reading a text                                                          *)

\* After a type that ends open no other bound comes.
Ready(a, x) == Stops(x) /\ (open[a] \/ a.k \in Params => ~Starts(x, Plus))

Reads(a, b) ==
    \A x, y : Ready(a, x) /\ Ready(a, y) /\ Cat(ty[a], x) = Cat(ty[b], y) => alike[<<a, b>>] /\ x = y

\* What is lower can be read.
Known(a) == \A c \in Lower(a), d \in Nodes : SameSort(c, d) /\ ~prolonged[c] => Reads(c, d)

OneSort(s, u) ==
    \E K \in {Terms, Params} : (\A i \in DOMAIN s : s[i].k \in K) /\ (\A i \in DOMAIN u : u[i].k \in K)

Legible(a, s, u, sep) ==
    /\ Known(a) /\ s \in Seq(Lower(a)) /\ u \in Seq(Nodes) /\ OneSort(s, u) /\ sep \in {Comma, Plus}
    /\ \A i \in DOMAIN s : ~prolonged[s[i]] /\ (sep = Plus => ~open[s[i]] /\ s[i].k \notin Params)

Closes(sep, x) == Stops(x) /\ ~Starts(x, Plus) /\ ~Starts(x, sep)

Followers(sep) == {x \in Texts : Stops(x) /\ (sep # Plus => ~Starts(x, Plus))}

LEMMA ReadyIs ==
    /\ \A a : Ready(a, None)
    /\ \A a, x : Stops(x) /\ ~Starts(x, Plus) => Ready(a, x)
    /\ \A e \in Ends : \A x \in Texts : Stops(Cat(Tok(e), x)) /\ (e # Plus => ~Starts(Cat(Tok(e), x), Plus))
<1>1. Plus \in Strings /\ Ends \subseteq Strings
  BY TokensIn, TokensApart
<1>2. Stops(None) /\ ~Starts(None, Plus)
  BY <1>1, StopsIs, StartsIs
<1>3. ASSUME NEW e \in Ends, NEW x \in Texts
      PROVE  Stops(Cat(Tok(e), x)) /\ (e # Plus => ~Starts(Cat(Tok(e), x), Plus))
  <2>1. Starts(Cat(Tok(e), x), e)
    BY <1>1, StartsIs
  <2> QED BY <1>1, <2>1, StopsIs, StartsIs
<1> QED BY <1>2, <1>3 DEF Ready

LEMMA FollowersAre ==
    ASSUME NEW sep \in {Comma, Plus}
    PROVE  /\ Followers(sep) \subseteq Texts /\ sep \in Strings
           /\ \A s \in Texts : Cat(Tok(sep), s) \in Followers(sep)
           /\ \A x : Closes(sep, x) => x \in Over(sep, Followers(sep)) /\ Stops(x)
<1>1. sep \in Ends /\ sep \in Strings
  BY TokensIn DEF Ends
<1>2. ASSUME NEW s \in Texts PROVE Cat(Tok(sep), s) \in Followers(sep)
  <2>1. Cat(Tok(sep), s) \in Texts
    BY <1>1, Texting
  <2> QED BY <1>1, <2>1, ReadyIs DEF Followers
<1>3. \A x : Stops(x) => x \in Texts
  BY StopsIs
<1> QED BY <1>1, <1>2, <1>3 DEF Followers, Closes, Over

LEMMA ReadsParts ==
    ASSUME NEW c \in Nodes, NEW d \in Nodes, NEW Z, Z \subseteq Texts, Reads(c, d), \A x \in Z : Ready(c, x)
    PROVE  Parted(ty[c], ty[d], Z) /\ (ty[c] = ty[d] => alike[<<c, d>>])
<1>1. ty[c] \in Texts /\ ty[d] \in Texts
  BY TyIs
<1>2. Parted(ty[c], ty[d], Z)
  <2>1. ASSUME NEW x \in Z, NEW y \in Z, Cat(ty[c], x) = Cat(ty[d], y) PROVE ty[c] = ty[d]
    <3>1. x = y /\ x \in Texts
      BY <2>1 DEF Reads
    <3> QED BY <1>1, <2>1, <3>1, Peeling
  <2> QED BY <2>1 DEF Parted
<1>3. ASSUME ty[c] = ty[d] PROVE alike[<<c, d>>]
  BY <1>3, ReadyIs DEF Reads
<1> QED BY <1>2, <1>3

LEMMA SortsIn ==
    ASSUME NEW c, NEW d, NEW K \in {Terms, Params}, c.k \in K, d.k \in K
    PROVE  SameSort(c, d) /\ c.k \in Terms \cup Angles \cup Params /\ Full(c)
BY DEF SameSort, Terms, Types, Words, Params, Full

LEMMA NodesRead ==
    ASSUME NEW a \in Nodes, NEW s, NEW u, NEW sep, Legible(a, s, u, sep),
           NEW x, NEW y, Closes(sep, x), Closes(sep, y),
           Cat(List(s, sep, ty), x) = Cat(List(u, sep, ty), y)
    PROVE  Alikes(alike, s, u) /\ x = y
<1>1. /\ Known(a) /\ s \in Seq(Lower(a)) /\ u \in Seq(Nodes) /\ sep \in {Comma, Plus}
      /\ \A i \in DOMAIN s : ~prolonged[s[i]] /\ (sep = Plus => ~open[s[i]] /\ s[i].k \notin Params)
  BY DEF Legible
<1>2. PICK K \in {Terms, Params} :
          (\A i \in DOMAIN s : s[i].k \in K) /\ (\A i \in DOMAIN u : u[i].k \in K)
  BY DEF Legible, OneSort
<1>3. /\ \A i \in DOMAIN s : s[i] \in Lower(a) /\ s[i] \in Nodes
      /\ \A i \in DOMAIN u : u[i] \in Nodes
  BY <1>1, MemberIs
<1> DEFINE Z == Followers(sep)
           p == Images(s, ty)
           q == Images(u, ty)
<1>4. /\ p \in Seq(Texts) /\ DOMAIN p = DOMAIN s /\ Len(p) = Len(s)
      /\ q \in Seq(Texts) /\ DOMAIN q = DOMAIN u /\ Len(q) = Len(u)
      /\ \A i \in DOMAIN s : p[i] = ty[s[i]]
      /\ \A i \in DOMAIN u : q[i] = ty[u[i]]
  <2>1. \A c \in Nodes : ty[c] \in Texts
    BY TyIs
  <2>2. \A c \in Lower(a) : ty[c] \in Texts
    BY <2>1 DEF Lower
  <2>3. p \in Seq(Texts) /\ DOMAIN p = DOMAIN s /\ Len(p) = Len(s)
    BY <1>1, <2>2, ImagesIn
  <2>4. q \in Seq(Texts) /\ DOMAIN q = DOMAIN u /\ Len(q) = Len(u)
    BY <1>1, <2>1, ImagesIn
  <2>5. (\A i \in DOMAIN s : p[i] = ty[s[i]]) /\ (\A i \in DOMAIN u : q[i] = ty[u[i]])
    BY DEF Images
  <2> QED BY <2>3, <2>4, <2>5
<1>5. Cat(Together(p, sep), x) = Cat(Together(q, sep), y)
  BY ListIs
<1> HIDE DEF p, q
<1>6. ASSUME NEW i \in DOMAIN s, NEW j \in DOMAIN u
      PROVE  Parted(ty[s[i]], ty[u[j]], Z) /\ (ty[s[i]] = ty[u[j]] => alike[<<s[i], u[j]>>])
  <2>1. PICK c \in Nodes, d \in Nodes : c = s[i] /\ d = u[j]
    BY <1>3
  <2>2. Reads(c, d)
    <3>1. c \in Lower(a) /\ ~prolonged[c] /\ SameSort(c, d)
      BY <1>1, <1>2, <1>3, <2>1, SortsIn
    <3> QED BY <1>1, <3>1 DEF Known
  <2>3. \A z \in Z : Ready(c, z)
    BY <1>1, <2>1 DEF Followers, Ready
  <2> QED BY <1>1, <2>1, <2>2, <2>3, FollowersAre, ReadsParts
<1>7. PartedLists(p, q, sep, Z)
  <2>1. \A i \in DOMAIN p, j \in DOMAIN q : Parted(p[i], q[j], Z)
    <3>1. ASSUME NEW i \in DOMAIN p, NEW j \in DOMAIN q PROVE Parted(p[i], q[j], Z)
      <4>1. i \in DOMAIN s /\ j \in DOMAIN u
        BY <1>4
      <4>2. p[i] = ty[s[i]] /\ q[j] = ty[u[j]] /\ Parted(ty[s[i]], ty[u[j]], Z)
        BY <1>4, <1>6, <4>1
      <4> QED BY <4>2
    <3> QED BY <3>1
  <2>2. Z \subseteq Texts /\ sep \in Strings /\ \A t \in Texts : Cat(Tok(sep), t) \in Z
    BY <1>1, FollowersAre
  <2> HIDE DEF Z
  <2>3. p \in Seq(Texts) /\ q \in Seq(Texts)
    BY <1>4
  <2> QED BY <2>1, <2>2, <2>3 DEF PartedLists
<1>8. (\A i \in DOMAIN p : Begins(p[i])) /\ (\A i \in DOMAIN q : Begins(q[i]))
  <2>1. \A c \in Nodes : c.k \in K => Begins(ty[c])
    BY AllBegin, SortsIn
  <2> QED BY <1>2, <1>3, <1>4, <2>1
<1>9. x \in Over(sep, Z) /\ y \in Over(sep, Z) /\ Stops(x) /\ Stops(y)
  BY <1>1, FollowersAre
<1> HIDE DEF Z
<1>10. p = q /\ x = y
  BY <1>5, <1>7, <1>8, <1>9, ListsRead
<1>11. Len(s) = Len(u) /\ DOMAIN s = DOMAIN u
  BY <1>4, <1>10
<1>12. \A i \in DOMAIN s : ty[s[i]] = ty[u[i]]
  BY <1>4, <1>10, <1>11
<1> QED BY <1>6, <1>10, <1>11, <1>12 DEF Alikes

\* A list of one, and of none.
LEMMA AllIs ==
    ASSUME NEW t \in Nodes, NEW s \in Seq(Lower(t))
    PROVE  /\ s = <<>> => All(s, ty) = None
           /\ Len(s) = 1 => s[1] \in Lower(t) /\ s[1] \in Nodes /\ 1 \in DOMAIN s /\ All(s, ty) = ty[s[1]]
<1>1. CASE s = <<>>
  <2>1. Images(<<>>, ty) = <<>> /\ Len(s) # 1
    BY <1>1 DEF Images
  <2> QED BY <1>1, <2>1, ListIs, FlatOfNone, Zenon DEF None
<1>2. CASE Len(s) = 1
  <2>1. 1 \in DOMAIN s /\ s[1] \in Lower(t) /\ s[1] \in Nodes /\ s # <<>>
    BY <1>2, MemberIs
  <2>2. ty[s[1]] \in Texts /\ \A c \in Lower(t) : ty[c] \in Texts
    BY <2>1, TyIs DEF Lower
  <2>3. PICK p : p = Images(s, ty)
    OBVIOUS
  <2>4. p \in Seq(Texts) /\ Len(p) = 1 /\ p[1] = ty[s[1]] /\ p # <<>>
    <3>1. p \in Seq(Texts) /\ Len(p) = 1 /\ DOMAIN p = DOMAIN s
      BY <1>2, <2>2, <2>3, ImagesIn
    <3>2. p[1] = ty[s[1]]
      BY <2>1, <2>3, Zenon DEF Images
    <3> QED BY <3>1, <3>2
  <2>5. FlattenSeq(p) = p[1] \o FlattenSeq(Tail(p))
    BY <2>4, FlatFromLeft DEF Texts
  <2>6. Tail(p) = <<>>
    <3>1. Tail(p) \in Seq(Texts) /\ Len(Tail(p)) = Len(p) - 1
      BY <2>4, TailIs
    <3>2. Len(Tail(p)) = 0
      BY <2>4, <3>1
    <3> QED BY <3>1, <3>2, Length
  <2>7. FlattenSeq(p) = ty[s[1]]
    <3>1. p[1] \o <<>> = p[1]
      BY <2>2, <2>4, TextIs
    <3> QED BY <2>4, <2>5, <2>6, <3>1, FlatOfNone
  <2> QED BY <1>2, <2>1, <2>3, <2>7, ListIs
<1>3. s = <<>> \/ Len(s) = 1 \/ (s # <<>> /\ Len(s) # 1)
  OBVIOUS
<1> QED BY <1>1, <1>2, <1>3

\* A type p and what comes after it read the same as a type q does.
Meets(p, q, x, y) ==
    /\ p \in Nodes /\ q \in Nodes /\ ~prolonged[p] /\ Known(p)
    /\ Ready(p, x) /\ Ready(p, y) /\ Cat(ty[p], x) = Cat(ty[q], y)

One(p, q, x, y) == Same(p, q, alike) /\ x = y

LEMMA MeetsIs ==
    ASSUME NEW p, NEW q, NEW x, NEW y, Meets(p, q, x, y)
    PROVE  /\ p \in Nodes /\ q \in Nodes /\ ~prolonged[p] /\ Known(p) /\ Stops(x) /\ Stops(y)
           /\ x \in Texts /\ y \in Texts
           /\ open[p] \/ p.k \in Params => ~Starts(x, Plus) /\ ~Starts(y, Plus)
           /\ Fits(p, ty) /\ Fits(q, ty) /\ ty[p] = Write(p, ty) /\ ty[q] = Write(q, ty)
           /\ Cat(Write(p, ty), x) = Cat(Write(q, ty), y)
           /\ ty[p] \in Texts /\ ty[q] \in Texts
BY TyIs, StopsIs DEF Meets, Ready

LEMMA Ones ==
    /\ \A s, u : Len(s) = 1 /\ Len(u) = 1 /\ s \in Seq(Nodes) /\ u \in Seq(Nodes) /\ alike[<<s[1], u[1]>>]
                 => Alikes(alike, s, u)
    /\ \A f : Alikes(f, <<>>, <<>>)
<1>1. ASSUME NEW s, NEW u, Len(s) = 1, Len(u) = 1, s \in Seq(Nodes), alike[<<s[1], u[1]>>]
      PROVE  Alikes(alike, s, u)
  <2>1. DOMAIN s = 1..1
    BY <1>1
  <2>2. \A i \in DOMAIN s : i = 1
    BY <2>1
  <2> QED BY <1>1, <2>2 DEF Alikes
<1>2. \A f : Alikes(f, <<>>, <<>>)
  BY DEF Alikes
<1> QED BY <1>1, <1>2

\* The arguments of a node that are written.
MoreOf(t) ==
    \/ Args(t) = <<>> /\ All(t.more, ty) = None
    \/ \E m \in Lower(t) :
          /\ Args(t) \in Seq(Nodes) /\ Len(Args(t)) = 1 /\ Args(t)[1] = m /\ All(t.more, ty) = ty[m]
          /\ m \in Nodes /\ m.k \in Angles /\ Full(m)
          /\ (open[m] => open[t]) /\ (prolonged[m] => prolonged[t])

LEMMA MoreIs ==
    ASSUME NEW t \in Nodes, t.k # "angle"
    PROVE  MoreOf(t)
<1>1. t.more \in Seq(Lower(t))
  BY NodeIs
<1>2. CASE t.more = <<>>
  <2>1. Args(t) = <<>>
    BY <1>2, ArgsOf
  <2> QED BY <1>1, <1>2, <2>1, AllIs DEF MoreOf
<1>3. CASE t.more # <<>>
  <2>1. Len(t.more) = 1 /\ t.k \in {"path", "trait", "qpath"}
    BY <1>3, NodesAssumption, Zenon DEF WellMade
  <2>2. PICK m \in Lower(t) : m = t.more[1] /\ m \in Nodes /\ 1 \in DOMAIN t.more /\ All(t.more, ty) = ty[m]
    BY <1>1, <2>1, AllIs
  <2>3. m.k \in Angles
    BY <2>2, SortIs DEF Sorted3
  <2>4. open[m] => open[t]
    <3>1. open[t] = EndsOpen(t, open)
      BY OpenIs
    <3> QED BY <2>1, <2>2, <3>1 DEF EndsOpen
  <2>5. prolonged[m] => prolonged[t]
    <3>1. prolonged[t] = Prolongs(t, prolonged)
      BY ProlongedIs
    <3> QED BY <2>2, <3>1 DEF Prolongs
  <2>6. CASE Full(m)
    <3>1. \A i \in DOMAIN t.more : t.more[i] = m
      <4>1. DOMAIN t.more = 1..1
        BY <1>1, <2>1
      <4> QED BY <2>2, <4>1
    <3>2. Args(t) = t.more
      BY <2>6, <3>1, Zenon DEF Args, If, Full
    <3>3. Args(t) \in Seq(Nodes)
      BY ListsIn
    <3> QED BY <2>1, <2>2, <2>3, <2>4, <2>5, <2>6, <3>2, <3>3 DEF MoreOf
  <2>7. CASE ~Full(m)
    <3>1. Args(t) = <<>>
      BY <2>2, <2>7, Zenon DEF Args, If, Full
    <3>2. ty[m] = None
      <4>1. m.k = "angle" /\ m.of \o m.more = <<>> /\ Fits(m, ty) /\ ty[m] = Write(m, ty)
        BY <2>2, <2>7, TyIs DEF Full
      <4> QED BY <2>2, <4>1, ArgsAre
    <3> QED BY <2>2, <3>1, <3>2 DEF MoreOf
  <2> QED BY <2>6, <2>7
<1> QED BY <1>2, <1>3

LEMMA ArgsRead ==
    ASSUME NEW p \in Nodes, NEW q \in Nodes, p.k # "angle", q.k # "angle", ~prolonged[p], Known(p),
           NEW x, NEW y, Ready(p, x), Ready(p, y), Cat(All(p.more, ty), x) = Cat(All(q.more, ty), y)
    PROVE  Alikes(alike, Args(p), Args(q)) /\ x = y
<1>1. MoreOf(p) /\ MoreOf(q) /\ Stops(x) /\ Stops(y) /\ x \in Texts /\ y \in Texts
  BY MoreIs, StopsIs DEF Ready
<1>2. ASSUME NEW m \in Nodes, m.k \in Angles, Full(m), NEW z \in Texts
      PROVE  Begins(Cat(ty[m], z)) /\ ~Stops(Cat(ty[m], z))
  <2>1. Begins(ty[m])
    BY <1>2, AllBegin
  <2> QED BY <2>1, StopsIs
<1>3. CASE Args(p) = <<>> /\ All(p.more, ty) = None
  <2>1. Cat(All(q.more, ty), y) = x
    BY <1>1, <1>3, Texting
  <2>2. Args(q) = <<>> /\ All(q.more, ty) = None
    BY <1>1, <1>2, <2>1 DEF MoreOf
  <2>3. x = y
    BY <1>1, <2>1, <2>2, Texting
  <2> QED BY <1>3, <2>2, <2>3, Ones
<1>4. CASE \E m \in Lower(p) :
          /\ Args(p) \in Seq(Nodes) /\ Len(Args(p)) = 1 /\ Args(p)[1] = m /\ All(p.more, ty) = ty[m]
          /\ m \in Nodes /\ m.k \in Angles /\ Full(m)
          /\ (open[m] => open[p]) /\ (prolonged[m] => prolonged[p])
  <2>1. PICK m \in Lower(p) :
          /\ Args(p) \in Seq(Nodes) /\ Len(Args(p)) = 1 /\ Args(p)[1] = m /\ All(p.more, ty) = ty[m]
          /\ m \in Nodes /\ m.k \in Angles /\ Full(m)
          /\ (open[m] => open[p]) /\ (prolonged[m] => prolonged[p])
    BY <1>4
  <2>2. ~(Args(q) = <<>> /\ All(q.more, ty) = None)
    <3>1. Cat(None, y) = y
      BY <1>1, Texting
    <3> QED BY <1>1, <1>2, <2>1, <3>1
  <2>3. PICK n \in Nodes : /\ Args(q) \in Seq(Nodes) /\ Len(Args(q)) = 1 /\ Args(q)[1] = n
                           /\ All(q.more, ty) = ty[n] /\ n.k \in Angles /\ Full(n)
    BY <1>1, <2>2 DEF MoreOf
  <2>4. Reads(m, n)
    <3>1. SameSort(m, n) /\ ~prolonged[m]
      BY <2>1, <2>3 DEF SameSort
    <3> QED BY <2>1, <3>1 DEF Known
  <2>5. Ready(m, x) /\ Ready(m, y)
    <3>1. m.k \notin Params
      BY <2>1 DEF Angles, Params
    <3> QED BY <2>1, <3>1 DEF Ready
  <2>6. alike[<<m, n>>] /\ x = y
    BY <2>1, <2>3, <2>4, <2>5 DEF Reads
  <2> QED BY <2>1, <2>3, <2>6, Ones
<1> QED BY <1>1, <1>3, <1>4 DEF MoreOf

LEMMA WordsRead ==
    ASSUME NEW p, NEW q, NEW x, NEW y, Meets(p, q, x, y), p.k \in Words, q.k \in Words
    PROVE  One(p, q, x, y)
<1>1. PICK r, s : r = All(p.more, ty) /\ s = All(q.more, ty)
  OBVIOUS
<1>2. /\ Cat(Tok(Word(p)), Cat(r, x)) = Cat(Tok(Word(q)), Cat(s, y))
      /\ r \in Texts /\ s \in Texts
  BY <1>1, MeetsIs, PathIs, PartsIn, TokensIn
<1>3. Cat(r, x) \in Texts /\ Cat(s, y) \in Texts /\ Word(p) \in Strings /\ Word(q) \in Strings
  BY <1>2, MeetsIs, Texting, WordIs
<1>4. Word(p) = Word(q) /\ Cat(r, x) = Cat(s, y)
  BY <1>2, <1>3, Peeling
<1>5. p.k # "angle" /\ q.k # "angle"
  BY DEF Words
<1>6. Alikes(alike, Args(p), Args(q)) /\ x = y
  BY <1>1, <1>4, <1>5, ArgsRead DEF Meets
<1>7. Same(p, q, alike)
  <2>1. {p.k, q.k} \subseteq Words
    OBVIOUS
  <2> QED BY <1>4, <1>6, <2>1, SameIs, Zenon
<1> QED BY <1>6, <1>7 DEF One

\* The bases of two associated types of named types.
LEMMA BasesAlike ==
    ASSUME NEW p \in Nodes, NEW q \in Nodes, p.k = "qpath", p.out = <<>>, q.k = "qpath", q.out = <<>>,
           Word(p.of[1]) = Word(q.of[1])
    PROVE  Alikes(alike, p.of, q.of) /\ Alikes(alike, p.out, q.out)
<1>1. PICK c \in Nodes, d \in Nodes : c = p.of[1] /\ d = q.of[1] /\ c.k = "name" /\ d.k = "name"
                                      /\ c.more = <<>> /\ d.more = <<>> /\ Word(c) = Word(d)
  BY BaseIs
<1>2. Core(c) = c /\ Core(d) = d
  BY <1>1 DEF Core
<1>3. Args(c) = <<>> /\ Args(d) = <<>>
  BY <1>1, ArgsOf
<1>4. Same(c, d, alike)
  <2>1. {c.k, d.k} \subseteq Words
    BY <1>1 DEF Words
  <2>2. Alikes(alike, Args(c), Args(d))
    BY <1>3, Ones
  <2> QED BY <1>1, <2>1, <2>2, SameIs, Zenon
<1>5. alike[<<c, d>>]
  BY <1>2, <1>4, AlikeIs
<1>6. Len(p.of) = 1 /\ Len(q.of) = 1 /\ p.of \in Seq(Nodes) /\ q.of \in Seq(Nodes)
  BY SingleIs, ListsIn DEF Single
<1> QED BY <1>1, <1>5, <1>6, Ones

\* The parts of what is not prolonged are not.
LEMMA PartsClear ==
    ASSUME NEW t \in Nodes, ~prolonged[t]
    PROVE  /\ \A i \in DOMAIN t.of : ~prolonged[t.of[i]]
           /\ \A i \in DOMAIN t.out : ~prolonged[t.out[i]]
           /\ \A i \in DOMAIN t.more : ~prolonged[t.more[i]]
           /\ t.k \in {"dyn", "impl"} => \A i \in DOMAIN t.of : ~open[t.of[i]]
<1>1. ~Prolongs(t, prolonged)
  BY ProlongedIs
<1> QED BY <1>1, Zenon DEF Prolongs

LEMMA InnerIs ==
    ASSUME NEW t \in Nodes, t.k \in Single
    PROVE  /\ t.of[1] \in Lower(t) /\ t.of[1] \in Nodes /\ t.of[1].k \in Terms
           /\ prolonged[t.of[1]] => prolonged[t]
           /\ Len(t.of) = 1 /\ t.of \in Seq(Nodes)
<1>1. t.of[1] \in Lower(t) /\ t.of[1] \in Nodes /\ 1 \in DOMAIN t.of /\ Len(t.of) = 1
  BY SingleIs
<1>2. t.k \notin Words \cup {"sig"}
  BY DEF Single, Words
<1>3. t.of[1].k \in Terms
  BY <1>1, <1>2, SortIs DEF Sorted3
<1>4. ~prolonged[t] => ~prolonged[t.of[1]]
  BY <1>1, PartsClear
<1>5. t.of \in Seq(Nodes)
  BY ListsIn
<1> QED BY <1>1, <1>3, <1>4, <1>5

LEMMA OutIs ==
    ASSUME NEW t \in Nodes, t.out # <<>>
    PROVE  /\ t.out[1] \in Lower(t) /\ t.out[1] \in Nodes /\ t.out[1].k \in Terms
           /\ prolonged[t.out[1]] => prolonged[t]
           /\ t.k \in {"fnptr", "paren"} /\ open[t.out[1]] => open[t]
           /\ Len(t.out) = 1 /\ t.out \in Seq(Nodes) /\ All(t.out, ty) = ty[t.out[1]]
<1>1. Len(t.out) = 1
  BY NodesAssumption, Zenon DEF WellMade
<1>2. t.out \in Seq(Lower(t)) /\ t.out \in Seq(Nodes)
  BY NodeIs, ListsIn
<1>3. t.out[1] \in Lower(t) /\ t.out[1] \in Nodes /\ 1 \in DOMAIN t.out /\ All(t.out, ty) = ty[t.out[1]]
  BY <1>1, <1>2, AllIs
<1>4. t.out[1].k \in Terms
  BY <1>3, SortIs DEF Sorted3
<1>5. ~prolonged[t] => ~prolonged[t.out[1]]
  BY <1>3, PartsClear
<1>6. t.k \in {"fnptr", "paren"} /\ open[t.out[1]] => open[t]
  <2>1. open[t] = EndsOpen(t, open)
    BY OpenIs
  <2> QED BY <1>3, <2>1 DEF EndsOpen
<1> QED BY <1>1, <1>2, <1>3, <1>4, <1>5, <1>6

\* A part and what comes after it.
LEMMA ChildRead ==
    ASSUME NEW p \in Nodes, Known(p), NEW c \in Lower(p), NEW d \in Nodes, c.k \in Terms, d.k \in Terms,
           ~prolonged[c], NEW e \in Ends \ {Plus}, NEW f \in Ends \ {Plus}, NEW u \in Texts, NEW v \in Texts,
           Cat(ty[c], Cat(Tok(e), u)) = Cat(ty[d], Cat(Tok(f), v))
    PROVE  alike[<<c, d>>] /\ e = f /\ u = v
<1>1. Reads(c, d)
  BY DEF Known, SameSort
<1>2. Ready(c, Cat(Tok(e), u)) /\ Ready(c, Cat(Tok(f), v))
  BY ReadyIs DEF Ready
<1>3. alike[<<c, d>>] /\ Cat(Tok(e), u) = Cat(Tok(f), v)
  BY <1>1, <1>2 DEF Reads
<1>4. e \in Strings /\ f \in Strings
  BY TokensApart
<1> QED BY <1>3, <1>4, Peeling

LEMMA NoColons ==
    ASSUME NEW t \in Nodes, t.k # "angle", NEW x, Stops(x)
    PROVE  ~Starts(Cat(All(t.more, ty), x), Colons)
<1>1. Colons \in Inner /\ Colons \in Strings \ Ends
  <2>1. Colons \in Inner
    BY DEF Inner
  <2> QED BY <2>1, TokensApart
<1>2. x \in Texts /\ ~Starts(x, Colons)
  BY <1>1, StopsIs
<1>3. CASE All(t.more, ty) = None
  BY <1>2, <1>3, Texting
<1>4. CASE \E m \in Nodes : All(t.more, ty) = ty[m] /\ m.k \in Angles /\ Full(m)
  <2>1. PICK m \in Nodes : All(t.more, ty) = ty[m] /\ m.k \in Angles /\ Full(m)
    BY <1>4
  <2>2. Starts(ty[m], Lead(m)) /\ Lead(m) \in Strings /\ ty[m] \in Texts
    BY <2>1, LeadStarts, LeadIn, TyIs DEF Leading, Full
  <2>3. Lead(m) \in {OpenParen, Less, AnyArgs}
    BY <2>1, LeadIs DEF Angles
  <2>4. Lead(m) # Colons
    BY <2>3, InnerApart
  <2>5. Starts(Cat(ty[m], x), Lead(m))
    BY <1>2, <2>2, StartsIs
  <2> QED BY <1>1, <2>1, <2>2, <2>4, <2>5, StartsIs
<1> QED BY <1>3, <1>4, MoreIs DEF MoreOf

LEMMA EndingRead ==
    ASSUME NEW p \in Nodes, NEW q \in Nodes, p.k = "qpath", q.k = "qpath", ~prolonged[p], Known(p),
           NEW x, NEW y, Ready(p, x), Ready(p, y), Ending(p, ty, x) = Ending(q, ty, y)
    PROVE  p.n = q.n /\ Alikes(alike, Args(p), Args(q)) /\ x = y
<1>1. x \in Texts /\ y \in Texts
  BY StopsIs DEF Ready
<1>2. PICK r, s : r = All(p.more, ty) /\ s = All(q.more, ty)
  OBVIOUS
<1>3. r \in Texts /\ s \in Texts
  BY <1>2, TyIs, PartsIn, TokensIn
<1>4. p.n \in Strings /\ q.n \in Strings /\ Colons \in Strings
  BY NodeIs, TokensIn
<1>5. Cat(r, x) \in Texts /\ Cat(s, y) \in Texts /\ Tok(p.n) \in Texts /\ Tok(q.n) \in Texts
  BY <1>1, <1>3, <1>4, Texting
<1>6. Cat(Tok(p.n), Cat(r, x)) \in Texts /\ Cat(Tok(q.n), Cat(s, y)) \in Texts
  BY <1>5, Texting
<1>7. Cat(Tok(Colons), Cat(Tok(p.n), Cat(r, x))) = Cat(Tok(Colons), Cat(Tok(q.n), Cat(s, y)))
  BY <1>2 DEF Ending
<1>8. Cat(Tok(p.n), Cat(r, x)) = Cat(Tok(q.n), Cat(s, y))
  BY <1>4, <1>6, <1>7, Peeling
<1>9. p.n = q.n /\ Cat(r, x) = Cat(s, y)
  BY <1>4, <1>5, <1>8, Peeling
<1>10. Alikes(alike, Args(p), Args(q)) /\ x = y
  BY <1>2, <1>9, ArgsRead
<1> QED BY <1>9, <1>10

LEMMA SameOther ==
    ASSUME NEW a, NEW b, a.k = b.k, a.k \notin Words \cup {"angle"},
           a.k \in {"array", "ref", "qpath", "param"} => a.n = b.n,
           a.k \in {"ref", "ptr", "static", "sig"} => a.flags = b.flags,
           Alikes(alike, a.of, b.of), Alikes(alike, a.out, b.out), Alikes(alike, Args(a), Args(b))
    PROVE  Same(a, b, alike)
BY SameIs, Zenon

LEMMA BareRead ==
    ASSUME NEW p, NEW q, NEW x, NEW y, Meets(p, q, x, y), p.k \in Words \/ p.k = "qpath", Bare(p),
           q.k \in Words \/ q.k = "qpath", Bare(q)
    PROVE  One(p, q, x, y)
<1>1. /\ p \in Nodes /\ q \in Nodes /\ x \in Texts /\ y \in Texts /\ Fits(p, ty) /\ Fits(q, ty)
      /\ Cat(Write(p, ty), x) = Cat(Write(q, ty), y) /\ ~prolonged[p] /\ Known(p)
      /\ Ready(p, x) /\ Ready(p, y) /\ Stops(x) /\ Stops(y)
  BY MeetsIs DEF Meets
<1>2. ASSUME NEW t \in Nodes, t.k \in Words, Fits(t, ty), NEW z \in Texts
      PROVE  /\ Cat(Write(t, ty), z) = Cat(Tok(Word(t)), Cat(All(t.more, ty), z))
             /\ Word(t) \in Strings /\ Cat(All(t.more, ty), z) \in Texts
  <2>1. All(t.more, ty) \in Texts
    BY <1>2, PartsIn, TokensIn
  <2>2. Cat(Write(t, ty), z) = Cat(Tok(Word(t)), Cat(All(t.more, ty), z))
    BY <1>2, PathIs
  <2>3. Cat(All(t.more, ty), z) \in Texts
    BY <2>1, Texting
  <2> QED BY <2>2, <2>3, WordIs
<1>3. ASSUME NEW t \in Nodes, t.k = "qpath", t.out = <<>>, Fits(t, ty), NEW z \in Texts
      PROVE  /\ Cat(Write(t, ty), z) = Cat(Tok(Word(t.of[1])), Ending(t, ty, z))
             /\ Word(t.of[1]) \in Strings /\ Ending(t, ty, z) \in Texts
             /\ Starts(Ending(t, ty, z), Colons)
  <2>1. t.of[1] \in Nodes /\ ty[t.of[1]] = Tok(Word(t.of[1]))
    BY <1>3, BaseIs
  <2>2. Cat(Tok(t.n), Cat(All(t.more, ty), z)) \in Texts
    <3>1. Tok(t.n) \in Texts /\ All(t.more, ty) \in Texts
      BY <1>3, NodeIs, Texting, PartsIn, TokensIn
    <3>2. Cat(All(t.more, ty), z) \in Texts
      BY <3>1, Texting
    <3> QED BY <3>1, <3>2, Texting
  <2>3. Starts(Ending(t, ty, z), Colons)
    BY <2>2 DEF Ending, Starts
  <2> QED BY <1>3, <2>1, <2>3, QualifiedIs, WordIs
<1>4. CASE p.k \in Words /\ q.k \in Words
  BY <1>4, WordsRead
<1>5. CASE p.k = "qpath" /\ q.k = "qpath"
  <2>1. p.out = <<>> /\ q.out = <<>>
    BY <1>5 DEF Bare, Words
  <2>2. PICK a \in Strings, b \in Strings, u \in Texts, v \in Texts :
            /\ a = Word(p.of[1]) /\ b = Word(q.of[1]) /\ u = Ending(p, ty, x) /\ v = Ending(q, ty, y)
            /\ Cat(Tok(a), u) = Cat(Tok(b), v)
    BY <1>1, <1>3, <1>5, <2>1
  <2>3. a = b /\ u = v
    BY <2>2, Peeling
  <2>4. p.n = q.n /\ Alikes(alike, Args(p), Args(q)) /\ x = y
    BY <1>1, <1>5, <2>2, <2>3, EndingRead
  <2>5. Alikes(alike, p.of, q.of) /\ Alikes(alike, p.out, q.out)
    BY <1>1, <1>5, <2>1, <2>2, <2>3, BasesAlike
  <2>6. p.k = q.k /\ p.k \notin Words \cup {"angle"} /\ p.k \notin {"ref", "ptr", "static", "sig"}
    BY <1>5 DEF Words
  <2>7. Same(p, q, alike)
    BY <2>4, <2>5, <2>6, SameOther
  <2> QED BY <2>4, <2>7 DEF One
<1>6. CASE p.k \in Words /\ q.k = "qpath"
  <2>1. q.out = <<>> /\ p.k # "angle"
    BY <1>6 DEF Bare, Words
  <2>2. PICK a \in Strings, b \in Strings, u \in Texts, v \in Texts :
            u = Cat(All(p.more, ty), x) /\ v = Ending(q, ty, y) /\ Cat(Tok(a), u) = Cat(Tok(b), v)
            /\ Starts(v, Colons)
    BY <1>1, <1>2, <1>3, <1>6, <2>1
  <2>3. Starts(u, Colons)
    BY <2>2, Peeling
  <2> QED BY <1>1, <2>1, <2>2, <2>3, NoColons
<1>7. CASE p.k = "qpath" /\ q.k \in Words
  <2>1. p.out = <<>> /\ q.k # "angle"
    BY <1>7 DEF Bare, Words
  <2>2. PICK a \in Strings, b \in Strings, u \in Texts, v \in Texts :
            u = Ending(p, ty, x) /\ v = Cat(All(q.more, ty), y) /\ Cat(Tok(a), u) = Cat(Tok(b), v)
            /\ Starts(u, Colons)
    BY <1>1, <1>2, <1>3, <1>7, <2>1
  <2>3. Starts(v, Colons)
    BY <2>2, Peeling
  <2> QED BY <1>1, <2>1, <2>2, <2>3, NoColons
<1> QED BY <1>4, <1>5, <1>6, <1>7

LEMMA QualifiedRead ==
    ASSUME NEW p, NEW q, NEW x, NEW y, Meets(p, q, x, y), p.k = "qpath", q.k = "qpath", p.out # <<>>, q.out # <<>>
    PROVE  One(p, q, x, y)
<1>1. /\ p \in Nodes /\ q \in Nodes /\ x \in Texts /\ y \in Texts /\ Fits(p, ty) /\ Fits(q, ty)
      /\ Cat(Write(p, ty), x) = Cat(Write(q, ty), y) /\ ~prolonged[p] /\ Known(p)
      /\ Ready(p, x) /\ Ready(p, y)
  BY MeetsIs DEF Meets
<1>2. p.k \in Single /\ q.k \in Single
  BY DEF Single
<1>3. PICK c \in Lower(p), o \in Lower(p) : /\ c = p.of[1] /\ o = p.out[1] /\ c.k \in Terms /\ o.k \in Terms
                                            /\ ~prolonged[c] /\ ~prolonged[o] /\ All(p.out, ty) = ty[o]
                                            /\ c \in Nodes /\ o \in Nodes
  BY <1>1, <1>2, InnerIs, OutIs
<1>4. PICK d \in Nodes, g \in Nodes : /\ d = q.of[1] /\ g = q.out[1] /\ d.k \in Terms /\ g.k \in Terms
                                      /\ All(q.out, ty) = ty[g]
  BY <1>1, <1>2, InnerIs, OutIs
<1>5. PICK u \in Texts, v \in Texts : u = Ending(p, ty, x) /\ v = Ending(q, ty, y)
  BY <1>1, QualifiedIs
<1>6. ty[c] \in Texts /\ ty[o] \in Texts /\ ty[d] \in Texts /\ ty[g] \in Texts
  BY <1>3, <1>4, TyIs
<1>7. Tok(Greater) \in Texts /\ Tok(As) \in Texts /\ Less \in Strings
  BY ParenthesesIn, TokensIn
<1>8. PICK r \in Texts, s \in Texts :
          r = Cat(ty[o], Cat(Tok(Greater), u)) /\ s = Cat(ty[g], Cat(Tok(Greater), v))
  <2>1. Cat(Tok(Greater), u) \in Texts /\ Cat(Tok(Greater), v) \in Texts
    BY <1>7, Texting
  <2> QED BY <1>6, <2>1, Texting
<1>9. PICK h \in Texts, k \in Texts : h = Cat(ty[c], Cat(Tok(As), r)) /\ k = Cat(ty[d], Cat(Tok(As), s))
  <2>1. Cat(Tok(As), r) \in Texts /\ Cat(Tok(As), s) \in Texts
    BY <1>7, Texting
  <2> QED BY <1>6, <2>1, Texting
<1>10. Cat(Write(p, ty), x) = Cat(Tok(Less), h)
  BY <1>1, <1>3, <1>5, <1>8, <1>9, QualifiedIs
<1>11. Cat(Write(q, ty), y) = Cat(Tok(Less), k)
  BY <1>1, <1>4, <1>5, <1>8, <1>9, QualifiedIs
<1>12. h = k
  <2>1. Cat(Tok(Less), h) = Cat(Tok(Less), k)
    BY <1>1, <1>10, <1>11
  <2> QED BY <1>7, <2>1, Peeling
<1>13. As \in Ends \ {Plus} /\ Greater \in Ends \ {Plus}
  BY EndsApart DEF Ends
<1>a. p \in Nodes /\ q \in Nodes /\ ~prolonged[p] /\ Known(p) /\ Ready(p, x) /\ Ready(p, y)
  BY <1>1
<1>b. c.k \in Terms /\ o.k \in Terms /\ ~prolonged[c] /\ ~prolonged[o] /\ d.k \in Terms /\ g.k \in Terms
  BY <1>3, <1>4
<1>14. alike[<<c, d>>] /\ r = s
  <2>1. Cat(ty[c], Cat(Tok(As), r)) = Cat(ty[d], Cat(Tok(As), s))
    BY <1>9, <1>12
  <2> QED BY <1>a, <1>b, <1>13, <2>1, ChildRead
<1>15. alike[<<o, g>>] /\ u = v
  <2>1. Cat(ty[o], Cat(Tok(Greater), u)) = Cat(ty[g], Cat(Tok(Greater), v))
    BY <1>8, <1>14
  <2> QED BY <1>a, <1>b, <1>13, <2>1, ChildRead
<1>16. p.n = q.n /\ Alikes(alike, Args(p), Args(q)) /\ x = y
  <2>1. Ending(p, ty, x) = Ending(q, ty, y)
    BY <1>5, <1>15
  <2> QED BY <1>a, <2>1, EndingRead
<1>17. Alikes(alike, p.of, q.of)
  BY <1>1, <1>2, <1>3, <1>4, <1>14, InnerIs, Ones
<1>18. Alikes(alike, p.out, q.out)
  BY <1>1, <1>3, <1>4, <1>15, OutIs, Ones
<1>19. p.k = q.k /\ p.k \notin Words \cup {"angle"} /\ p.k \notin {"ref", "ptr", "static", "sig"}
  BY DEF Words
<1>20. Same(p, q, alike)
  BY <1>16, <1>17, <1>18, <1>19, SameOther
<1> QED BY <1>16, <1>20 DEF One

LEMMA Peeled ==
    ASSUME NEW a \in Strings, NEW s \in Texts, NEW t \in Texts, Cat(Tok(a), s) = Cat(Tok(a), t)
    PROVE  s = t
BY Peeling

LEMMA NoOthers ==
    ASSUME NEW t \in Nodes
    PROVE  /\ t.k \notin {"fnptr", "paren", "qpath", "sig"} => t.out = <<>>
           /\ t.k \notin {"angle", "path", "trait", "qpath"} => t.more = <<>> /\ Args(t) = <<>>
           /\ t.k = "rtn" => t.of = <<>>
<1>1. /\ t.k \notin {"fnptr", "paren", "qpath", "sig"} => t.out = <<>>
      /\ t.k \notin {"angle", "path", "trait", "qpath"} => t.more = <<>>
      /\ t.k = "rtn" => t.of = <<>>
  <2>1. WellMade(t)
    BY NodesAssumption, Zenon
  <2>2. t.k \notin {"fnptr", "paren", "qpath", "sig"} => t.out = <<>>
    BY <2>1, Zenon DEF WellMade
  <2>3. t.k \notin {"angle", "path", "trait", "qpath"} => t.more = <<>>
    BY <2>1, Zenon DEF WellMade
  <2>4. t.k = "rtn" => t.of = <<>>
    BY <2>1, Zenon DEF WellMade
  <2> QED BY <2>2, <2>3, <2>4
<1> QED BY <1>1, ArgsOf

LEMMA OthersAlike ==
    ASSUME NEW p \in Nodes, NEW q \in Nodes, p.k \notin {"angle", "path", "trait", "qpath"}, q.k = p.k
    PROVE  /\ Alikes(alike, Args(p), Args(q))
           /\ p.k \notin {"fnptr", "paren", "sig"} => Alikes(alike, p.out, q.out)
<1>1. Args(p) = <<>> /\ Args(q) = <<>>
  BY NoOthers
<1>2. p.k \notin {"fnptr", "paren", "sig"} => p.out = <<>> /\ q.out = <<>>
  BY NoOthers
<1> QED BY <1>1, <1>2, Ones

LEMMA ClosesIs ==
    /\ \A e \in Ends \ {Plus, Comma} : \A x \in Texts : Closes(Comma, Cat(Tok(e), x))
    /\ \A x : Stops(x) /\ ~Starts(x, Plus) => Closes(Plus, x)
<1>1. ASSUME NEW e \in Ends \ {Plus, Comma}, NEW x \in Texts PROVE Closes(Comma, Cat(Tok(e), x))
  <2>1. e \in Strings /\ Comma \in Strings /\ Starts(Cat(Tok(e), x), e)
    BY TokensApart, TokensIn, StartsIs
  <2> QED BY <2>1, ReadyIs, StartsIs DEF Closes
<1> QED BY <1>1 DEF Closes

LEMMA OfLegible ==
    ASSUME NEW p \in Nodes, NEW q \in Nodes, Known(p), ~prolonged[p]
    PROVE  /\ p.k \notin Words \cup {"sig"} /\ q.k \notin Words \cup {"sig"} => Legible(p, p.of, q.of, Comma)
           /\ p.k = "sig" /\ q.k = "sig" => Legible(p, p.of, q.of, Comma)
           /\ p.k \in {"dyn", "impl"} /\ q.k \in {"dyn", "impl"} => Legible(p, p.of, q.of, Plus)
<1>1. p.of \in Seq(Lower(p)) /\ q.of \in Seq(Nodes) /\ \A i \in DOMAIN p.of : ~prolonged[p.of[i]]
  BY NodeIs, ListsIn, PartsClear
<1>2. ASSUME NEW K \in {Terms, Params}, \A i \in DOMAIN p.of : p.of[i].k \in K, \A i \in DOMAIN q.of : q.of[i].k \in K
      PROVE  Legible(p, p.of, q.of, Comma)
  <2>1. OneSort(p.of, q.of)
    BY <1>2 DEF OneSort
  <2>2. Comma # Plus
    BY EndsApart
  <2> QED BY <1>1, <2>1, <2>2 DEF Legible
<1>3. ASSUME p.k \notin Words \cup {"sig"}, q.k \notin Words \cup {"sig"} PROVE Legible(p, p.of, q.of, Comma)
  BY <1>2, <1>3, SortIs DEF Sorted3
<1>4. ASSUME p.k = "sig", q.k = "sig" PROVE Legible(p, p.of, q.of, Comma)
  BY <1>2, <1>4, SortIs DEF Sorted3
<1>5. ASSUME p.k \in {"dyn", "impl"}, q.k \in {"dyn", "impl"} PROVE Legible(p, p.of, q.of, Plus)
  <2>1. (\A i \in DOMAIN p.of : p.of[i].k \in Terms) /\ (\A i \in DOMAIN q.of : q.of[i].k \in Terms)
    BY <1>5, SortIs DEF Sorted3, Words
  <2>2. OneSort(p.of, q.of)
    BY <2>1 DEF OneSort
  <2>3. \A i \in DOMAIN p.of : ~open[p.of[i]] /\ p.of[i].k \notin Params
    <3>1. Terms \cap Params = {}
      BY DEF Terms, Types, Words, Params
    <3> QED BY <1>5, <2>1, <3>1, PartsClear
  <2> QED BY <1>1, <2>2, <2>3 DEF Legible
<1> QED BY <1>3, <1>4, <1>5

LEMMA TupleRead ==
    ASSUME NEW p, NEW q, NEW x, NEW y, Meets(p, q, x, y), p.k = "tuple", q.k = "tuple"
    PROVE  One(p, q, x, y)
<1>1. /\ p \in Nodes /\ q \in Nodes /\ x \in Texts /\ y \in Texts /\ Fits(p, ty) /\ Fits(q, ty)
      /\ ~prolonged[p] /\ Known(p)
  BY MeetsIs
<1>2. Cat(Write(p, ty), x) = Cat(Write(q, ty), y)
  BY MeetsIs
<1> DEFINE End(t, z) == Perhaps(Len(t.of) = 1, Tok(OneComma), Cat(Tok(CloseParen), z))
<1>3. ASSUME NEW t, NEW z \in Texts
      PROVE  End(t, z) \in Texts /\ Closes(Comma, End(t, z)) /\ Cat(Tok(CloseParen), z) \in Texts
  <2>1. Cat(Tok(CloseParen), z) \in Texts /\ Tok(OneComma) \in Texts
    BY ParenthesesIn, Texting
  <2>2. OneComma \in Ends \ {Plus, Comma} /\ CloseParen \in Ends \ {Plus, Comma}
    BY EndsApart DEF Ends
  <2>3. Closes(Comma, Cat(Tok(OneComma), Cat(Tok(CloseParen), z))) /\ Closes(Comma, Cat(Tok(CloseParen), z))
    BY <2>1, <2>2, ClosesIs
  <2>4. Cat(Tok(OneComma), Cat(Tok(CloseParen), z)) \in Texts
    BY <2>1, Texting
  <2> QED BY <2>1, <2>3, <2>4 DEF Perhaps
<1>4. PICK l \in Texts, m \in Texts : l = List(p.of, Comma, ty) /\ m = List(q.of, Comma, ty)
  BY <1>1, TupleIs
<1>5. PICK u \in Texts, v \in Texts : u = End(p, x) /\ v = End(q, y)
  BY <1>1, <1>3
<1>6. Cat(l, u) = Cat(m, v)
  <2>1. Cat(Write(p, ty), x) = Cat(Tok(OpenParen), Cat(l, u))
    BY <1>1, <1>4, <1>5, TupleIs
  <2>2. Cat(Write(q, ty), y) = Cat(Tok(OpenParen), Cat(m, v))
    BY <1>1, <1>4, <1>5, TupleIs
  <2>3. Cat(Tok(OpenParen), Cat(l, u)) = Cat(Tok(OpenParen), Cat(m, v))
    BY <1>2, <2>1, <2>2
  <2>4. Cat(l, u) \in Texts /\ Cat(m, v) \in Texts /\ OpenParen \in Strings
    BY TokensIn, Texting
  <2> QED BY <2>3, <2>4, Peeling
<1>7. Alikes(alike, p.of, q.of) /\ u = v
  <2>1. Legible(p, p.of, q.of, Comma)
    BY <1>1, OfLegible DEF Words
  <2>2. Closes(Comma, u) /\ Closes(Comma, v)
    BY <1>1, <1>3, <1>5
  <2> QED BY <1>1, <1>4, <1>6, <2>1, <2>2, NodesRead
<1>8. x = y
  <2>1. PICK a \in Texts, b \in Texts : a = Cat(Tok(CloseParen), x) /\ b = Cat(Tok(CloseParen), y)
    BY <1>1, <1>3
  <2>2. Len(p.of) = Len(q.of)
    BY <1>7 DEF Alikes
  <2>3. Perhaps(Len(p.of) = 1, Tok(OneComma), a) = Perhaps(Len(p.of) = 1, Tok(OneComma), b)
    BY <1>5, <1>7, <2>1, <2>2
  <2>4. a = b
    BY <2>3, Peeling, TokensIn DEF Perhaps
  <2>5. Cat(Tok(CloseParen), x) = Cat(Tok(CloseParen), y)
    BY <2>1, <2>4
  <2>6. x \in Texts /\ y \in Texts /\ CloseParen \in Strings
    BY <1>1, TokensIn
  <2> QED BY <2>5, <2>6, Peeled
<1>9. Same(p, q, alike)
  <2>1. Alikes(alike, Args(p), Args(q)) /\ Alikes(alike, p.out, q.out)
    BY <1>1, OthersAlike
  <2> QED BY <1>7, <2>1, SameOther DEF Words
<1> QED BY <1>8, <1>9 DEF One

LEMMA SquareRead ==
    ASSUME NEW p, NEW q, NEW x, NEW y, Meets(p, q, x, y), p.k \in {"slice", "array"}, q.k \in {"slice", "array"}
    PROVE  One(p, q, x, y)
<1>1. /\ p \in Nodes /\ q \in Nodes /\ x \in Texts /\ y \in Texts /\ Fits(p, ty) /\ Fits(q, ty)
      /\ ~prolonged[p] /\ Known(p)
  BY MeetsIs
<1>2. Cat(Write(p, ty), x) = Cat(Write(q, ty), y)
  BY MeetsIs
<1>3. p.k \in Single /\ q.k \in Single
  BY DEF Single
<1>4. PICK c \in Lower(p) : c = p.of[1] /\ c.k \in Terms /\ ~prolonged[c] /\ ty[c] \in Texts
  BY <1>1, <1>3, InnerIs, TyIs
<1>5. PICK d \in Nodes : d = q.of[1] /\ d.k \in Terms /\ ty[d] \in Texts
  BY <1>1, <1>3, InnerIs, TyIs
<1> DEFINE Final(t, z) == IF t.k = "slice" THEN z ELSE Cat(Tok(t.n), Cat(Tok(CloseSquare), z))
           Ring(t) == IF t.k = "slice" THEN CloseSquare ELSE Semi
<1>6. ASSUME NEW t \in Nodes, NEW z \in Texts
      PROVE  Final(t, z) \in Texts /\ Ring(t) \in Ends \ {Plus} /\ Ring(t) \in Strings
  <2>1. Tok(t.n) \in Texts /\ Tok(CloseSquare) \in Texts
    BY NodeIs, Texting, ParenthesesIn
  <2>2. Cat(Tok(CloseSquare), z) \in Texts
    BY <2>1, Texting
  <2>3. Cat(Tok(t.n), Cat(Tok(CloseSquare), z)) \in Texts
    BY <2>1, <2>2, Texting
  <2>4. Ring(t) \in Ends \ {Plus}
    BY EndsApart DEF Ends
  <2> QED BY <2>3, <2>4, TokensApart
<1>7. ASSUME NEW t \in Nodes, t.k \in {"slice", "array"}, NEW z \in Texts, Fits(t, ty)
      PROVE  Cat(Write(t, ty), z) = Cat(Tok(OpenSquare), Cat(ty[t.of[1]], Cat(Tok(Ring(t)), Final(t, z))))
  <2>1. CASE t.k = "slice"
    BY <1>7, <2>1, SliceIs
  <2>2. CASE t.k = "array"
    BY <1>7, <2>2, ArrayIs
  <2> QED BY <1>7, <2>1, <2>2
<1>8. PICK e \in Ends \ {Plus}, f \in Ends \ {Plus}, u \in Texts, v \in Texts :
          e = Ring(p) /\ f = Ring(q) /\ u = Final(p, x) /\ v = Final(q, y) /\ e \in Strings /\ f \in Strings
  BY <1>1, <1>6
<1>9. Cat(ty[c], Cat(Tok(e), u)) = Cat(ty[d], Cat(Tok(f), v))
  <2>1. Cat(Write(p, ty), x) = Cat(Tok(OpenSquare), Cat(ty[c], Cat(Tok(e), u)))
    BY <1>1, <1>4, <1>7, <1>8
  <2>2. Cat(Write(q, ty), y) = Cat(Tok(OpenSquare), Cat(ty[d], Cat(Tok(f), v)))
    BY <1>1, <1>5, <1>7, <1>8
  <2>3. PICK g \in Texts, h \in Texts : g = Cat(ty[c], Cat(Tok(e), u)) /\ h = Cat(ty[d], Cat(Tok(f), v))
    <3>1. Cat(Tok(e), u) \in Texts /\ Cat(Tok(f), v) \in Texts
      BY <1>8, Texting
    <3> QED BY <1>4, <1>5, <3>1, Texting
  <2>4. Cat(Tok(OpenSquare), g) = Cat(Tok(OpenSquare), h)
    BY <1>2, <2>1, <2>2, <2>3
  <2>5. g = h
    BY <2>4, Peeling, TokensIn
  <2> QED BY <2>3, <2>5
<1>10. alike[<<c, d>>] /\ e = f /\ u = v
  <2>1. c.k \in Terms /\ d.k \in Terms /\ ~prolonged[c]
    BY <1>4, <1>5
  <2> QED BY <1>1, <1>9, <2>1, ChildRead
<1>11. p.k = q.k
  <2>1. CloseSquare # Semi
    BY EndsApart
  <2> QED BY <1>8, <1>10, <2>1
<1>12. x = y /\ (p.k = "array" => p.n = q.n)
  <2>1. CASE p.k = "slice"
    BY <1>8, <1>10, <1>11, <2>1
  <2>2. CASE p.k = "array"
    <3>1. Cat(Tok(p.n), Cat(Tok(CloseSquare), x)) = Cat(Tok(q.n), Cat(Tok(CloseSquare), y))
      BY <1>8, <1>10, <1>11, <2>2
    <3>2. PICK a \in Texts, b \in Texts : a = Cat(Tok(CloseSquare), x) /\ b = Cat(Tok(CloseSquare), y)
      BY <1>1, ParenthesesIn, Texting
    <3>3. p.n \in Strings /\ q.n \in Strings /\ CloseSquare \in Strings
      BY <1>1, NodeIs, TokensIn
    <3>4. p.n = q.n /\ a = b
      BY <3>1, <3>2, <3>3, Peeling
    <3>5. Cat(Tok(CloseSquare), x) = Cat(Tok(CloseSquare), y) /\ x \in Texts /\ y \in Texts
      BY <1>1, <3>2, <3>4
    <3>6. x = y
      BY <3>3, <3>5, Peeled
    <3> QED BY <3>4, <3>6
  <2> QED BY <2>1, <2>2
<1>13. Same(p, q, alike)
  <2>1. Alikes(alike, Args(p), Args(q)) /\ Alikes(alike, p.out, q.out)
    BY <1>1, <1>11, OthersAlike
  <2>2. Alikes(alike, p.of, q.of)
    BY <1>1, <1>3, <1>4, <1>5, <1>10, InnerIs, Ones
  <2>3. p.k \notin Words \cup {"angle"} /\ p.k \notin {"ref", "ptr", "static", "sig", "qpath", "param"}
    BY DEF Words
  <2> QED BY <1>11, <1>12, <2>1, <2>2, <2>3, SameOther
<1> QED BY <1>12, <1>13 DEF One

\* The output of a call is not prolonged by what comes after it.
Outgoing(p, x) == Stops(x) /\ (p.out # <<>> /\ open[p.out[1]] => ~Starts(x, Plus))

LEMMA OutputRead ==
    ASSUME NEW p \in Nodes, NEW q \in Nodes, Known(p), ~prolonged[p], NEW x, NEW y,
           Outgoing(p, x), Outgoing(p, y), Cat(Output(p, ty), x) = Cat(Output(q, ty), y),
           p.k # "qpath", q.k # "qpath"
    PROVE  Alikes(alike, p.out, q.out) /\ x = y
<1>1. x \in Texts /\ y \in Texts /\ Stops(x) /\ Stops(y)
  BY StopsIs DEF Outgoing
<1>2. Arrow \in Strings \ Ends
  <2>1. Arrow \in Inner
    BY DEF Inner
  <2> QED BY <2>1, TokensApart
<1>3. ASSUME NEW t \in Nodes, NEW z \in Texts
      PROVE  /\ t.out = <<>> => Cat(Output(t, ty), z) = z
             /\ t.out # <<>> => /\ ty[t.out[1]] \in Texts
                                /\ Cat(ty[t.out[1]], z) \in Texts
                                /\ Cat(Output(t, ty), z) = Cat(Tok(Arrow), Cat(ty[t.out[1]], z))
                                /\ Starts(Cat(Output(t, ty), z), Arrow)
  <2>1. Fits(t, ty)
    BY TyIs
  <2>2. Cat(Output(t, ty), z) = Perhaps(t.out # <<>>, Cat(Tok(Arrow), All(t.out, ty)), z)
    BY <2>1, OutputIs
  <2>3. CASE t.out = <<>>
    BY <2>2, <2>3 DEF Perhaps
  <2>4. CASE t.out # <<>>
    <3>1. PICK r \in Texts : r = ty[t.out[1]] /\ All(t.out, ty) = r
      BY <2>4, OutIs, TyIs
    <3>2. Tok(Arrow) \in Texts
      BY ParenthesesIn
    <3>3. Cat(r, z) \in Texts /\ Cat(Cat(Tok(Arrow), r), z) = Cat(Tok(Arrow), Cat(r, z))
      BY <3>1, <3>2, Texting
    <3>4. Cat(Output(t, ty), z) = Cat(Tok(Arrow), Cat(r, z))
      BY <2>2, <2>4, <3>1, <3>3 DEF Perhaps
    <3>5. Starts(Cat(Output(t, ty), z), Arrow)
      BY <3>3, <3>4 DEF Starts
    <3> QED BY <2>4, <3>1, <3>3, <3>4, <3>5
  <2> QED BY <2>3, <2>4
<1>4. CASE p.out = <<>>
  <2>1. q.out = <<>>
    <3>1. SUFFICES ASSUME q.out # <<>> PROVE FALSE
      OBVIOUS
    <3>2. Starts(x, Arrow)
      BY <1>1, <1>3, <1>4, <3>1
    <3> QED BY <1>1, <1>2, <3>2, StopsIs
  <2> QED BY <1>1, <1>3, <1>4, <2>1, Ones
<1>5. CASE p.out # <<>>
  <2>1. q.out # <<>>
    <3>1. SUFFICES ASSUME q.out = <<>> PROVE FALSE
      OBVIOUS
    <3>2. Starts(y, Arrow)
      BY <1>1, <1>3, <1>5, <3>1
    <3> QED BY <1>1, <1>2, <3>2, StopsIs
  <2>2. PICK o \in Lower(p), g \in Nodes : /\ o = p.out[1] /\ g = q.out[1] /\ o.k \in Terms /\ g.k \in Terms
                                          /\ ~prolonged[o] /\ o \in Nodes
    BY <1>5, <2>1, OutIs
  <2>3. PICK u \in Texts, v \in Texts : u = Cat(ty[o], x) /\ v = Cat(ty[g], y)
    BY <1>1, <1>3, <1>5, <2>1, <2>2
  <2>4. Cat(Tok(Arrow), u) = Cat(Tok(Arrow), v)
    BY <1>1, <1>3, <1>5, <2>1, <2>2, <2>3
  <2>5. u = v
    BY <1>2, <2>4, Peeled
  <2>6. Reads(o, g)
    BY <2>2 DEF Known, SameSort
  <2>7. Ready(o, x) /\ Ready(o, y)
    <3>1. o.k \notin Params
      BY <2>2 DEF Terms, Types, Words, Params
    <3> QED BY <1>5, <2>2, <3>1 DEF Outgoing, Ready
  <2>8. alike[<<o, g>>] /\ x = y
    BY <2>3, <2>5, <2>6, <2>7 DEF Reads
  <2> QED BY <1>5, <2>1, <2>2, <2>8, OutIs, Ones
<1> QED BY <1>4, <1>5

LEMMA CallRead ==
    ASSUME NEW p \in Nodes, NEW q \in Nodes, Known(p), ~prolonged[p], NEW x, NEW y,
           Outgoing(p, x), Outgoing(p, y), Legible(p, p.of, q.of, Comma), Call(p, ty, x) = Call(q, ty, y),
           p.k # "qpath", q.k # "qpath"
    PROVE  Alikes(alike, p.of, q.of) /\ Alikes(alike, p.out, q.out) /\ x = y
<1>1. x \in Texts /\ y \in Texts
  BY StopsIs DEF Outgoing
<1>2. PICK u \in Texts, v \in Texts : u = Cat(Output(p, ty), x) /\ v = Cat(Output(q, ty), y)
  <2>1. Output(p, ty) \in Texts /\ Output(q, ty) \in Texts
    BY TyIs, OutputIs
  <2> QED BY <1>1, <2>1, Texting
<1>3. PICK a \in Texts, b \in Texts : a = Cat(Tok(CloseParen), u) /\ b = Cat(Tok(CloseParen), v)
  BY ParenthesesIn, Texting
<1>4. Closes(Comma, a) /\ Closes(Comma, b)
  <2>1. CloseParen \in Ends \ {Plus, Comma}
    BY EndsApart DEF Ends
  <2> QED BY <1>3, <2>1, ClosesIs
<1>5. Cat(List(p.of, Comma, ty), a) = Cat(List(q.of, Comma, ty), b)
  BY <1>2, <1>3 DEF Call
<1>6. Alikes(alike, p.of, q.of) /\ a = b
  BY <1>4, <1>5, NodesRead
<1>7. u = v
  <2>1. Cat(Tok(CloseParen), u) = Cat(Tok(CloseParen), v) /\ CloseParen \in Strings
    BY <1>3, <1>6, TokensIn
  <2> QED BY <2>1, Peeled
<1>8. Alikes(alike, p.out, q.out) /\ x = y
  BY <1>2, <1>7, OutputRead
<1> QED BY <1>6, <1>8

LEMMA CallsRead ==
    ASSUME NEW p, NEW q, NEW x, NEW y, Meets(p, q, x, y), p.k \in {"fnptr", "paren"}, q.k = p.k
    PROVE  One(p, q, x, y)
<1>1. /\ p \in Nodes /\ q \in Nodes /\ x \in Texts /\ y \in Texts /\ Fits(p, ty) /\ Fits(q, ty)
      /\ ~prolonged[p] /\ Known(p)
  BY MeetsIs
<1>2. Outgoing(p, x) /\ Outgoing(p, y)
  <2>1. p.out # <<>> /\ open[p.out[1]] => open[p]
    BY <1>1, OutIs
  <2> QED BY <2>1, MeetsIs DEF Outgoing
<1>3. Legible(p, p.of, q.of, Comma)
  BY <1>1, OfLegible DEF Words
<1>4. Call(p, ty, x) = Call(q, ty, y)
  <2>1. PICK e \in Strings : e = IF p.k = "fnptr" THEN Fn ELSE OpenParen
    BY TokensIn
  <2>2. PICK u, v : u = Call(p, ty, x) /\ v = Call(q, ty, y)
    OBVIOUS
  <2>3. u \in Texts /\ v \in Texts
    <3>1. ASSUME NEW t \in Nodes, Fits(t, ty), NEW z \in Texts PROVE Call(t, ty, z) \in Texts
      <4>1. List(t.of, Comma, ty) \in Texts /\ Output(t, ty) \in Texts /\ Tok(CloseParen) \in Texts
        BY <3>1, PartsIn, TokensIn, OutputIs, ParenthesesIn
      <4>2. Cat(Output(t, ty), z) \in Texts
        BY <4>1, Texting
      <4>3. Cat(Tok(CloseParen), Cat(Output(t, ty), z)) \in Texts
        BY <4>1, <4>2, Texting
      <4> QED BY <4>1, <4>3, Texting DEF Call
    <3> QED BY <1>1, <2>2, <3>1
  <2>4. Cat(Write(p, ty), x) = Cat(Tok(e), u)
    BY <1>1, <2>1, <2>2, CallIs
  <2>5. Cat(Write(q, ty), y) = Cat(Tok(e), v)
    BY <1>1, <2>1, <2>2, CallIs
  <2>6. Cat(Tok(e), u) = Cat(Tok(e), v)
    BY <2>4, <2>5, MeetsIs
  <2> QED BY <2>2, <2>3, <2>6, Peeled
<1>5. Alikes(alike, p.of, q.of) /\ Alikes(alike, p.out, q.out) /\ x = y
  BY <1>1, <1>2, <1>3, <1>4, CallRead
<1>6. Same(p, q, alike)
  <2>1. Alikes(alike, Args(p), Args(q))
    BY <1>1, OthersAlike
  <2> QED BY <1>5, <2>1, SameOther DEF Words
<1> QED BY <1>5, <1>6 DEF One

LEMMA BoundsRead ==
    ASSUME NEW p, NEW q, NEW x, NEW y, Meets(p, q, x, y), p.k \in {"dyn", "impl"}, q.k \in {"dyn", "impl"}
    PROVE  One(p, q, x, y)
<1>1. /\ p \in Nodes /\ q \in Nodes /\ x \in Texts /\ y \in Texts /\ Fits(p, ty) /\ Fits(q, ty)
      /\ ~prolonged[p] /\ Known(p)
  BY MeetsIs
<1>2. Closes(Plus, x) /\ Closes(Plus, y)
  <2>1. open[p]
    BY <1>1, OpenIs DEF EndsOpen
  <2> QED BY <2>1, MeetsIs, ClosesIs
<1>3. PICK a \in Strings, b \in Strings, l \in Texts, m \in Texts :
          /\ a = p.k /\ b = q.k /\ l = List(p.of, Plus, ty) /\ m = List(q.of, Plus, ty)
  BY <1>1, BoundsAre, TokensIn
<1>4. PICK u \in Texts, v \in Texts : u = Cat(l, x) /\ v = Cat(m, y)
  BY <1>1, Texting
<1>5. PICK g \in Texts, h \in Texts : g = Cat(Tok(Blank), u) /\ h = Cat(Tok(Blank), v)
  BY ParenthesesIn, Texting
<1>6. a = b /\ g = h
  <2>1. Cat(Write(p, ty), x) = Cat(Tok(a), g)
    BY <1>1, <1>3, <1>4, <1>5, BoundsAre
  <2>2. Cat(Write(q, ty), y) = Cat(Tok(b), h)
    BY <1>1, <1>3, <1>4, <1>5, BoundsAre
  <2>3. Cat(Tok(a), g) = Cat(Tok(b), h)
    BY <2>1, <2>2, MeetsIs
  <2> QED BY <2>3, Peeling
<1>7. u = v
  <2>1. Cat(Tok(Blank), u) = Cat(Tok(Blank), v) /\ Blank \in Strings
    BY <1>5, <1>6, TokensIn
  <2> QED BY <2>1, Peeled
<1>8. Alikes(alike, p.of, q.of) /\ x = y
  <2>1. Legible(p, p.of, q.of, Plus)
    BY <1>1, OfLegible
  <2>2. Cat(List(p.of, Plus, ty), x) = Cat(List(q.of, Plus, ty), y)
    BY <1>3, <1>4, <1>7
  <2> QED BY <1>1, <1>2, <2>1, <2>2, NodesRead
<1>9. Same(p, q, alike)
  <2>1. p.k = q.k
    BY <1>3, <1>6
  <2>2. Alikes(alike, Args(p), Args(q)) /\ Alikes(alike, p.out, q.out)
    BY <1>1, <2>1, OthersAlike
  <2> QED BY <1>8, <2>1, <2>2, SameOther DEF Words
<1> QED BY <1>8, <1>9 DEF One

OfEither(s, t, i) ==
    (\E j \in DOMAIN s : (s \o t)[i] = s[j]) \/ (\E j \in DOMAIN t : (s \o t)[i] = t[j])

LEMMA MemberOfBoth ==
    ASSUME NEW S, NEW s \in Seq(S), NEW t \in Seq(S), NEW i \in DOMAIN (s \o t)
    PROVE  OfEither(s, t, i)
<1>1. PICK m \in Nat, n \in Nat : m = Len(s) /\ n = Len(t)
  OBVIOUS
<1>2. i \in 1..(m + n)
  BY <1>1
<1>3. CASE i <= m
  <2>1. i \in DOMAIN s /\ (s \o t)[i] = s[i]
    BY <1>1, <1>2, <1>3
  <2> QED BY <2>1 DEF OfEither
<1>4. CASE ~(i <= m)
  <2>1. i - m \in DOMAIN t /\ (s \o t)[i] = t[i - m]
    BY <1>1, <1>2, <1>4
  <2> QED BY <2>1 DEF OfEither
<1> QED BY <1>3, <1>4

LEMMA AngleRead ==
    ASSUME NEW p, NEW q, NEW x, NEW y, Meets(p, q, x, y), p.k = "angle", q.k = "angle", Full(p), Full(q)
    PROVE  One(p, q, x, y)
<1>1. /\ p \in Nodes /\ q \in Nodes /\ x \in Texts /\ y \in Texts /\ Fits(p, ty) /\ Fits(q, ty)
      /\ ~prolonged[p] /\ Known(p)
  BY MeetsIs
<1>2. PICK s \in Seq(Lower(p)), r \in Seq(Nodes) : s = p.of \o p.more /\ r = q.of \o q.more
  BY <1>1, ListsIn
<1>3. Legible(p, s, r, Comma)
  <2>1. ASSUME NEW t \in Nodes, t.k = "angle", NEW i \in DOMAIN (t.of \o t.more)
        PROVE  /\ (t.of \o t.more)[i].k \in Terms
               /\ ~prolonged[t] => ~prolonged[(t.of \o t.more)[i]]
    <3>1. /\ t.of \in Seq(Lower(t)) /\ t.more \in Seq(Lower(t))
          /\ \A j \in DOMAIN t.of : t.of[j].k \in Terms
          /\ \A j \in DOMAIN t.more : t.more[j].k \in Terms
      BY <2>1, NodeIs, SortIs DEF Sorted3, Words
    <3>2. \/ \E j \in DOMAIN t.of : (t.of \o t.more)[i] = t.of[j]
          \/ \E j \in DOMAIN t.more : (t.of \o t.more)[i] = t.more[j]
      <4>1. OfEither(t.of, t.more, i)
        BY <2>1, <3>1, MemberOfBoth
      <4> QED BY <4>1 DEF OfEither
    <3>3. ~prolonged[t] => /\ \A j \in DOMAIN t.of : ~prolonged[t.of[j]]
                           /\ \A j \in DOMAIN t.more : ~prolonged[t.more[j]]
      BY PartsClear
    <3> QED BY <3>1, <3>2, <3>3
  <2>2. /\ \A i \in DOMAIN s : s[i].k \in Terms /\ ~prolonged[s[i]]
        /\ \A i \in DOMAIN r : r[i].k \in Terms
    BY <1>1, <1>2, <2>1
  <2>3. OneSort(s, r)
    BY <2>2 DEF OneSort
  <2>4. Comma # Plus
    BY EndsApart
  <2> QED BY <1>1, <2>2, <2>3, <2>4 DEF Legible
<1>4. PICK l \in Texts, m \in Texts : l = List(s, Comma, ty) /\ m = List(r, Comma, ty)
  BY <1>1, <1>2, ArgsAre
<1>5. PICK u \in Texts, v \in Texts : u = Cat(Tok(Greater), x) /\ v = Cat(Tok(Greater), y)
  BY <1>1, ParenthesesIn, Texting
<1>6. Cat(l, u) = Cat(m, v)
  <2>1. s # <<>> /\ r # <<>>
    BY <1>2 DEF Full
  <2>2. Cat(Write(p, ty), x) = Cat(Tok(Less), Cat(l, u))
    BY <1>1, <1>2, <1>4, <1>5, <2>1, ArgsAre
  <2>3. Cat(Write(q, ty), y) = Cat(Tok(Less), Cat(m, v))
    BY <1>1, <1>2, <1>4, <1>5, <2>1, ArgsAre
  <2>4. Cat(Tok(Less), Cat(l, u)) = Cat(Tok(Less), Cat(m, v))
    BY <2>2, <2>3, MeetsIs
  <2>5. Cat(l, u) \in Texts /\ Cat(m, v) \in Texts /\ Less \in Strings
    BY TokensIn, Texting
  <2> QED BY <2>4, <2>5, Peeled
<1>7. Alikes(alike, s, r) /\ u = v
  <2>1. Greater \in Ends \ {Plus, Comma}
    BY EndsApart DEF Ends
  <2>2. Closes(Comma, u) /\ Closes(Comma, v)
    BY <1>1, <1>5, <2>1, ClosesIs
  <2> QED BY <1>1, <1>3, <1>4, <1>6, <2>2, NodesRead
<1>8. x = y
  <2>1. Cat(Tok(Greater), x) = Cat(Tok(Greater), y) /\ Greater \in Strings /\ x \in Texts /\ y \in Texts
    BY <1>1, <1>5, <1>7, TokensIn
  <2> QED BY <2>1, Peeled
<1>9. Same(p, q, alike)
  BY <1>2, <1>7, SameIs, Zenon
<1> QED BY <1>8, <1>9 DEF One

LEMMA AnyRead ==
    ASSUME NEW p, NEW q, NEW x, NEW y, Meets(p, q, x, y), p.k = "rtn", q.k = "rtn"
    PROVE  One(p, q, x, y)
<1>1. /\ p \in Nodes /\ q \in Nodes /\ x \in Texts /\ y \in Texts /\ Fits(p, ty) /\ Fits(q, ty)
  BY MeetsIs
<1>2. x = y
  <2>1. Write(p, ty) = Tok(AnyArgs) /\ Write(q, ty) = Tok(AnyArgs)
    BY <1>1, ArgsAre
  <2>2. Cat(Tok(AnyArgs), x) = Cat(Tok(AnyArgs), y) /\ AnyArgs \in Strings
    BY <2>1, MeetsIs, TokensIn
  <2> QED BY <1>1, <2>2, Peeled
<1>3. p.of = <<>> /\ q.of = <<>>
  BY <1>1, NoOthers
<1>4. Alikes(alike, p.of, q.of) /\ Alikes(alike, Args(p), Args(q)) /\ Alikes(alike, p.out, q.out)
  BY <1>1, <1>3, OthersAlike, Ones
<1> QED BY <1>2, <1>4, SameOther DEF One, Words

LEMMA FlagsAre ==
    ASSUME NEW p \in Nodes, NEW q \in Nodes, p.k \in {"ref", "ptr", "static"}, q.k \in {"ref", "ptr", "static"},
           "mut" \in p.flags <=> "mut" \in q.flags
    PROVE  p.flags = q.flags
<1>1. \A t \in Nodes : t.k \in {"ref", "ptr", "static"} => t.flags \subseteq {"mut"}
  BY NodesAssumption, Zenon DEF WellMade
<1> QED BY <1>1

\* What a pointer points to and what comes after.
LEMMA TailRead ==
    ASSUME NEW p, NEW q, NEW x, NEW y, Meets(p, q, x, y), p.k \in {"ref", "ptr"}, q.k \in {"ref", "ptr"},
           Cat(ty[p.of[1]], x) = Cat(ty[q.of[1]], y)
    PROVE  Alikes(alike, p.of, q.of) /\ x = y
<1>1. p \in Nodes /\ q \in Nodes /\ ~prolonged[p] /\ Known(p) /\ p.k \in Single /\ q.k \in Single
  BY MeetsIs DEF Single
<1>2. PICK c \in Lower(p), d \in Nodes : /\ c = p.of[1] /\ d = q.of[1] /\ c.k \in Terms /\ d.k \in Terms
                                        /\ ~prolonged[c]
  BY <1>1, InnerIs
<1>3. Reads(c, d)
  BY <1>1, <1>2 DEF Known, SameSort
<1>4. Ready(c, x) /\ Ready(c, y)
  <2>1. open[c] => open[p]
    BY <1>1, <1>2, OpenIs DEF EndsOpen
  <2>2. c.k \notin Params
    BY <1>2 DEF Terms, Types, Words, Params
  <2> QED BY <2>1, <2>2, MeetsIs DEF Ready
<1>5. alike[<<c, d>>] /\ x = y
  BY <1>2, <1>3, <1>4 DEF Reads
<1> QED BY <1>1, <1>2, <1>5, InnerIs, Ones

LEMMA PointerRead ==
    ASSUME NEW p, NEW q, NEW x, NEW y, Meets(p, q, x, y), p.k = "ptr", q.k = "ptr"
    PROVE  One(p, q, x, y)
<1>1. p \in Nodes /\ q \in Nodes /\ x \in Texts /\ y \in Texts /\ Fits(p, ty) /\ Fits(q, ty)
  BY MeetsIs
<1> DEFINE Ring(t) == IF "mut" \in t.flags THEN MutPtr ELSE ConstPtr
<1>2. PICK a \in Strings, b \in Strings : a = Ring(p) /\ b = Ring(q)
  BY TokensIn
<1>3. PICK u \in Texts, v \in Texts : u = Cat(ty[p.of[1]], x) /\ v = Cat(ty[q.of[1]], y)
  <2>1. ty[p.of[1]] \in Texts /\ ty[q.of[1]] \in Texts
    BY <1>1, PointerIs
  <2> QED BY <1>1, <2>1, Texting
<1>4. a = b /\ u = v
  <2>1. Cat(Write(p, ty), x) = Cat(Tok(a), u)
    BY <1>1, <1>2, <1>3, PointerIs
  <2>2. Cat(Write(q, ty), y) = Cat(Tok(b), v)
    BY <1>1, <1>2, <1>3, PointerIs
  <2>3. Cat(Tok(a), u) = Cat(Tok(b), v)
    BY <2>1, <2>2, MeetsIs
  <2> QED BY <2>3, Peeling
<1>5. p.flags = q.flags
  <2>1. MutPtr # ConstPtr
    BY InnerApart
  <2>2. "mut" \in p.flags <=> "mut" \in q.flags
    BY <1>2, <1>4, <2>1
  <2> QED BY <1>1, <2>2, FlagsAre
<1>6. Alikes(alike, p.of, q.of) /\ x = y
  BY <1>3, <1>4, TailRead
<1>7. Alikes(alike, Args(p), Args(q)) /\ Alikes(alike, p.out, q.out)
  BY <1>1, OthersAlike
<1> QED BY <1>5, <1>6, <1>7, SameOther DEF One, Words

\* What comes after & is not taken for its lifetime or its mut.
Clearly(u) ==
    /\ u \in Texts /\ ~Starts(u, Mut)
    /\ \A a \in Strings \ Tokens : \A w \in Texts : u = Cat(Tok(a), w) => ~Starts(w, Blank)

LEMMA MutsRead ==
    ASSUME NEW F, NEW G, NEW u, NEW v, Clearly(u), Clearly(v),
           Perhaps("mut" \in F, Tok(Mut), u) = Perhaps("mut" \in G, Tok(Mut), v)
    PROVE  ("mut" \in F <=> "mut" \in G) /\ u = v
<1>1. u \in Texts /\ v \in Texts /\ ~Starts(u, Mut) /\ ~Starts(v, Mut)
  BY DEF Clearly
<1>2. Starts(Cat(Tok(Mut), u), Mut) /\ Starts(Cat(Tok(Mut), v), Mut) /\ Mut \in Strings
  BY <1>1, StartsIs, TokensIn
<1>3. CASE "mut" \in F /\ "mut" \in G
  <2>1. Cat(Tok(Mut), u) = Cat(Tok(Mut), v)
    BY <1>3 DEF Perhaps
  <2> QED BY <1>1, <1>2, <1>3, <2>1, Peeled
<1>4. CASE "mut" \in F /\ "mut" \notin G
  <2>1. Cat(Tok(Mut), u) = v
    BY <1>4 DEF Perhaps
  <2> QED BY <1>1, <1>2, <2>1
<1>5. CASE "mut" \notin F /\ "mut" \in G
  <2>1. Cat(Tok(Mut), v) = u
    BY <1>5 DEF Perhaps
  <2> QED BY <1>1, <1>2, <2>1
<1>6. CASE "mut" \notin F /\ "mut" \notin G
  BY <1>6 DEF Perhaps
<1> QED BY <1>3, <1>4, <1>5, <1>6

LEMMA ReferencesRead ==
    ASSUME NEW r \in Nodes, NEW s \in Nodes, r.k = "ref", s.k = "ref", NEW u, NEW v, Clearly(u), Clearly(v),
           Cat(Reference(r), u) = Cat(Reference(s), v)
    PROVE  r.n = s.n /\ r.flags = s.flags /\ u = v
<1>1. u \in Texts /\ v \in Texts
  BY DEF Clearly
<1>2. PICK a \in Texts, b \in Texts :
          a = Perhaps("mut" \in r.flags, Tok(Mut), u) /\ b = Perhaps("mut" \in s.flags, Tok(Mut), v)
  <2>1. Tok(Mut) \in Texts
    BY ParenthesesIn
  <2> QED BY <1>1, <2>1, IfIs
<1>3. PICK m \in Strings, n \in Strings : m = r.n /\ n = s.n /\ m \notin Tokens /\ n \notin Tokens
  BY NodeIs
<1>4. /\ Cat(Reference(r), u) = Cat(Tok(Ampersand), Perhaps(m # "", Cat(Tok(m), Tok(Blank)), a))
      /\ Cat(Reference(s), v) = Cat(Tok(Ampersand), Perhaps(n # "", Cat(Tok(n), Tok(Blank)), b))
  BY <1>1, <1>2, <1>3, ReferenceIs
<1>5. PICK g \in Texts, h \in Texts : g = Cat(Tok(Blank), a) /\ h = Cat(Tok(Blank), b)
  BY ParenthesesIn, Texting
<1>6. ASSUME NEW c \in Texts, NEW l \in Strings
      PROVE  /\ Cat(Cat(Tok(l), Tok(Blank)), c) = Cat(Tok(l), Cat(Tok(Blank), c))
             /\ Cat(Tok(l), Cat(Tok(Blank), c)) \in Texts
  <2>1. Tok(Blank) \in Texts /\ Tok(l) \in Texts
    BY ParenthesesIn, Texting
  <2> QED BY <2>1, Texting
<1>7. PICK e \in Texts, f \in Texts :
          /\ e = IF m = "" THEN a ELSE Cat(Tok(m), g)
          /\ f = IF n = "" THEN b ELSE Cat(Tok(n), h)
  BY <1>5, <1>6
<1>8. e = f
  <2>1. Cat(Reference(r), u) = Cat(Tok(Ampersand), e) /\ Cat(Reference(s), v) = Cat(Tok(Ampersand), f)
    BY <1>4, <1>5, <1>6, <1>7 DEF Perhaps
  <2>2. Cat(Tok(Ampersand), e) = Cat(Tok(Ampersand), f) /\ Ampersand \in Strings
    BY <2>1, TokensIn
  <2> QED BY <2>2, Peeled
<1>9. ASSUME NEW l \in Strings, l \notin Tokens, NEW c, NEW w, Clearly(w), NEW z \in Texts,
             Cat(Tok(l), Cat(Tok(Blank), z)) = Perhaps(c, Tok(Mut), w)
      PROVE  FALSE
  <2>1. w \in Texts /\ Cat(Tok(Blank), z) \in Texts /\ Starts(Cat(Tok(Blank), z), Blank) /\ Mut \in Strings
    BY <1>9, ParenthesesIn, Texting, TokensIn, StartsIs DEF Clearly
  <2>2. CASE c
    <3>1. Cat(Tok(l), Cat(Tok(Blank), z)) = Cat(Tok(Mut), w)
      BY <1>9, <2>2 DEF Perhaps
    <3>2. l = Mut
      BY <2>1, <3>1, Peeling
    <3>3. Mut \in Inner /\ Inner \subseteq Tokens
      BY TokensApart DEF Inner
    <3> QED BY <1>9, <3>2, <3>3
  <2>3. CASE ~c
    <3>1. Cat(Tok(l), Cat(Tok(Blank), z)) = w
      BY <1>9, <2>3 DEF Perhaps
    <3> QED BY <1>9, <2>1, <3>1 DEF Clearly
  <2> QED BY <2>2, <2>3
<1>10. m = n /\ a = b
  <2>1. CASE m = "" /\ n = ""
    BY <1>7, <1>8, <2>1
  <2>2. CASE m # "" /\ n # ""
    <3>1. Cat(Tok(m), g) = Cat(Tok(n), h)
      BY <1>7, <1>8, <2>2
    <3>2. m = n /\ g = h
      BY <3>1, Peeling
    <3>3. Cat(Tok(Blank), a) = Cat(Tok(Blank), b) /\ Blank \in Strings
      BY <1>5, <3>2, TokensIn
    <3> QED BY <3>2, <3>3, Peeled
  <2>3. CASE m # "" /\ n = ""
    <3>1. Cat(Tok(m), Cat(Tok(Blank), a)) = Perhaps("mut" \in s.flags, Tok(Mut), v)
      BY <1>2, <1>5, <1>7, <1>8, <2>3
    <3> QED BY <1>3, <1>9, <3>1
  <2>4. CASE m = "" /\ n # ""
    <3>1. Cat(Tok(n), Cat(Tok(Blank), b)) = Perhaps("mut" \in r.flags, Tok(Mut), u)
      BY <1>2, <1>5, <1>7, <1>8, <2>4
    <3> QED BY <1>3, <1>9, <3>1
  <2> QED BY <2>1, <2>2, <2>3, <2>4
<1>11. ("mut" \in r.flags <=> "mut" \in s.flags) /\ u = v
  <2>1. Perhaps("mut" \in r.flags, Tok(Mut), u) = Perhaps("mut" \in s.flags, Tok(Mut), v)
    BY <1>2, <1>10
  <2> QED BY <2>1, MutsRead
<1>12. r.flags = s.flags
  BY <1>11, FlagsAre
<1> QED BY <1>3, <1>10, <1>11, <1>12

LEMMA NoBlank ==
    ASSUME NEW t \in Nodes, t.k # "angle", NEW x, Stops(x)
    PROVE  ~Starts(Cat(All(t.more, ty), x), Blank)
<1>1. Blank \in Inner /\ Blank \in Strings \ Ends
  <2>1. Blank \in Inner
    BY DEF Inner
  <2> QED BY <2>1, TokensApart
<1>2. x \in Texts /\ ~Starts(x, Blank)
  BY <1>1, StopsIs
<1>3. CASE All(t.more, ty) = None
  BY <1>2, <1>3, Texting
<1>4. CASE \E m \in Nodes : All(t.more, ty) = ty[m] /\ m.k \in Angles /\ Full(m)
  <2>1. PICK m \in Nodes : All(t.more, ty) = ty[m] /\ m.k \in Angles /\ Full(m)
    BY <1>4
  <2>2. Starts(ty[m], Lead(m)) /\ Lead(m) \in Strings /\ ty[m] \in Texts
    BY <2>1, LeadStarts, LeadIn, TyIs DEF Leading, Full
  <2>3. Lead(m) \in {OpenParen, Less, AnyArgs}
    BY <2>1, LeadIs DEF Angles
  <2>4. Lead(m) # Blank
    BY <2>3, InnerApart
  <2>5. Starts(Cat(ty[m], x), Lead(m))
    BY <1>2, <2>2, StartsIs
  <2> QED BY <1>1, <2>1, <2>2, <2>4, <2>5, StartsIs
<1> QED BY <1>3, <1>4, MoreIs DEF MoreOf

LEMMA WordClearly ==
    ASSUME NEW a \in Strings, a \notin Tokens, NEW w \in Texts, ~Starts(w, Blank)
    PROVE  Clearly(Cat(Tok(a), w))
<1>1. Cat(Tok(a), w) \in Texts /\ Starts(Cat(Tok(a), w), a) /\ Mut \in Strings
  BY Texting, StartsIs, TokensIn
<1>2. a # Mut
  <2>1. Mut \in Inner /\ Inner \subseteq Tokens
    BY TokensApart DEF Inner
  <2> QED BY <2>1
<1>3. ~Starts(Cat(Tok(a), w), Mut)
  BY <1>1, <1>2, StartsIs
<1>4. ASSUME NEW b \in Strings \ Tokens, NEW z \in Texts, Cat(Tok(a), w) = Cat(Tok(b), z) PROVE ~Starts(z, Blank)
  BY <1>4, Peeling
<1> QED BY <1>1, <1>3, <1>4 DEF Clearly

LEMMA TermsClearly ==
    ASSUME NEW t \in Nodes, t.k \in Terms, NEW x, Stops(x)
    PROVE  Clearly(Cat(ty[t], x))
<1>1. PICK c \in Nodes : ty[c] = ty[t] /\ c.k \in Terms \ {"pat"}
  BY CoreReads, CoreIs
<1>2. /\ c.k \in Leading /\ c.k \notin Angles /\ x \in Texts /\ ty[c] \in Texts /\ Fits(c, ty)
      /\ ty[c] = Write(c, ty)
  BY <1>1, TyIs, StopsIs DEF Leading, Terms, Types, Words, Angles
<1>3. PICK u \in Texts : u = Cat(ty[c], x)
  BY <1>2, Texting
<1>4. PICK a \in Strings : a = Lead(c) /\ Starts(u, a)
  <2>1. Starts(ty[c], Lead(c)) /\ Lead(c) \in Strings
    BY <1>2, LeadStarts, LeadIn DEF Angles
  <2> QED BY <1>2, <1>3, <2>1, StartsIs
<1>5. CASE ~Bare(c)
  <2>1. a \in Inner /\ a \in Tokens
    BY <1>2, <1>4, <1>5, LeadIn, TokensApart
  <2>2. a # Mut
    <3>1. \/ c.k = "qpath" /\ c.out # <<>>
          \/ c.k \in {"tuple", "slice", "array", "ref", "ptr", "dyn", "impl", "fnptr"}
      BY <1>1, <1>5 DEF Bare, Terms, Types, Words
    <3>2. a \in {OpenParen, OpenSquare, Ampersand, MutPtr, ConstPtr, Dyn, Impl, Fn, Less}
      BY <1>4, <3>1, LeadIs
    <3> QED BY <3>2, InnerApart
  <2>3. ~Starts(u, Mut)
    BY <1>4, <2>2, StartsIs, TokensIn
  <2>4. \A b \in Strings \ Tokens : \A w \in Texts : u # Cat(Tok(b), w)
    BY <1>4, <2>1, StartsIs
  <2> QED BY <1>1, <1>3, <2>3, <2>4 DEF Clearly
<1>6. CASE c.k \in Words
  <2>1. PICK w \in Texts : w = Cat(All(c.more, ty), x)
    <3>1. All(c.more, ty) \in Texts
      BY <1>2, PartsIn, TokensIn
    <3> QED BY <1>2, <3>1, Texting
  <2>2. c.k # "angle" /\ Bare(c)
    BY <1>6 DEF Words, Bare
  <2>3. ~Starts(w, Blank) /\ a \notin Tokens /\ a = Word(c)
    BY <1>2, <1>4, <1>6, <2>1, <2>2, NoBlank, LeadIn, LeadIs
  <2>4. u = Cat(Tok(a), w)
    BY <1>2, <1>3, <1>6, <2>1, <2>3, PathIs
  <2> QED BY <1>1, <1>3, <2>3, <2>4, WordClearly
<1>7. CASE c.k = "qpath" /\ c.out = <<>>
  <2>1. PICK w \in Texts : w = Ending(c, ty, x)
    BY <1>2, <1>7, QualifiedIs
  <2>2. a \notin Tokens /\ a = Word(c.of[1])
    BY <1>2, <1>4, <1>7, LeadIn, LeadIs DEF Bare
  <2>3. u = Cat(Tok(a), w)
    BY <1>2, <1>3, <1>7, <2>1, <2>2, QualifiedIs, BaseIs
  <2>4. ~Starts(w, Blank)
    <3>1. Starts(w, Colons)
      <4>1. Tok(c.n) \in Texts /\ All(c.more, ty) \in Texts
        BY <1>2, NodeIs, Texting, PartsIn, TokensIn
      <4>2. Cat(All(c.more, ty), x) \in Texts
        BY <1>2, <4>1, Texting
      <4>3. Cat(Tok(c.n), Cat(All(c.more, ty), x)) \in Texts
        BY <4>1, <4>2, Texting
      <4> QED BY <2>1, <4>3 DEF Ending, Starts
    <3>2. Blank # Colons /\ Blank \in Strings /\ Colons \in Strings
      BY InnerApart, TokensIn
    <3> QED BY <3>1, <3>2, StartsIs
  <2> QED BY <1>1, <1>3, <2>2, <2>3, <2>4, WordClearly
<1> QED BY <1>5, <1>6, <1>7 DEF Bare

LEMMA SelfClearly == \A x : Stops(x) => Clearly(Cat(Tok(Myself), x))
<1> SUFFICES ASSUME NEW x, Stops(x) PROVE Clearly(Cat(Tok(Myself), x))
  OBVIOUS
<1>1. Myself \in Strings /\ Myself \notin Tokens /\ Blank \in Strings \ Ends
  <2>1. Blank \in Inner
    BY DEF Inner
  <2> QED BY <2>1, TokensApart
<1>2. x \in Texts /\ ~Starts(x, Blank)
  BY <1>1, StopsIs
<1> QED BY <1>1, <1>2, WordClearly

LEMMA ReferenceRead ==
    ASSUME NEW p, NEW q, NEW x, NEW y, Meets(p, q, x, y), p.k = "ref", q.k = "ref"
    PROVE  One(p, q, x, y)
<1>1. p \in Nodes /\ q \in Nodes /\ x \in Texts /\ y \in Texts /\ Fits(p, ty) /\ Fits(q, ty) /\ Stops(x) /\ Stops(y)
  BY MeetsIs
<1>2. p.of[1].k \in Terms /\ q.of[1].k \in Terms /\ p.of[1] \in Nodes /\ q.of[1] \in Nodes
  BY <1>1, InnerIs DEF Single
<1>3. PICK u, v : u = Cat(ty[p.of[1]], x) /\ v = Cat(ty[q.of[1]], y)
  OBVIOUS
<1>4. Clearly(u) /\ Clearly(v)
  BY <1>1, <1>2, <1>3, TermsClearly
<1>5. Cat(Reference(p), u) = Cat(Reference(q), v)
  <2>1. Cat(Write(p, ty), x) = Cat(Reference(p), u)
    BY <1>1, <1>3, PointerIs
  <2>2. Cat(Write(q, ty), y) = Cat(Reference(q), v)
    BY <1>1, <1>3, PointerIs
  <2> QED BY <2>1, <2>2, MeetsIs
<1>6. p.n = q.n /\ p.flags = q.flags /\ u = v
  BY <1>1, <1>4, <1>5, ReferencesRead
<1>7. Alikes(alike, p.of, q.of) /\ x = y
  BY <1>3, <1>6, TailRead
<1>8. Alikes(alike, Args(p), Args(q)) /\ Alikes(alike, p.out, q.out)
  BY <1>1, OthersAlike
<1> QED BY <1>6, <1>7, <1>8, SameOther DEF One, Words

LEMMA SelvesAlike ==
    ASSUME NEW p \in Nodes, NEW q \in Nodes, p.k \in Single, q.k \in Single, IsSelf(p.of[1]), IsSelf(q.of[1])
    PROVE  Alikes(alike, p.of, q.of)
<1>1. PICK c \in Nodes, d \in Nodes : c = p.of[1] /\ d = q.of[1] /\ c.k = "name" /\ d.k = "name" /\ c.n = d.n
  BY InnerIs, Zenon DEF IsSelf
<1>2. Core(c) = c /\ Core(d) = d /\ Args(c) = <<>> /\ Args(d) = <<>>
  BY <1>1, NoOthers DEF Core
<1>3. Word(c) = Word(d)
  BY <1>1, Zenon DEF Word
<1>4. Same(c, d, alike)
  <2>1. {c.k, d.k} \subseteq Words
    BY <1>1 DEF Words
  <2>2. Alikes(alike, Args(c), Args(d))
    BY <1>2, Ones
  <2> QED BY <1>3, <2>1, <2>2, SameIs, Zenon
<1>5. alike[<<c, d>>]
  BY <1>2, <1>4, AlikeIs
<1> QED BY <1>1, <1>5, InnerIs, Ones

\* The three ways to write a parameter.
Spelt(t) ==
    t.n # Myself \/ (~IsSelf(t.of[1]) /\ ~(t.of[1].k = "ref" /\ IsSelf(t.of[1].of[1])))

Alone(t) == t.n = Myself /\ IsSelf(t.of[1])

Borrowed(t) == t.n = Myself /\ t.of[1].k = "ref" /\ IsSelf(t.of[1].of[1])

LEMMA ShapeIs ==
    ASSUME NEW t \in Nodes, t.k = "param", NEW x \in Texts
    PROVE  /\ Spelt(t) \/ Alone(t) \/ Borrowed(t)
           /\ t.of[1] \in Lower(t) /\ t.of[1] \in Nodes /\ ty[t.of[1]] \in Texts /\ t.n \in Strings /\ t.n \notin Tokens
           /\ Spelt(t) => Cat(Write(t, ty), x) = Cat(Tok(t.n), Cat(Tok(Colon), Cat(ty[t.of[1]], x)))
           /\ Alone(t) => Cat(Write(t, ty), x) = Cat(Tok(Myself), x)
           /\ Borrowed(t) => Cat(Write(t, ty), x) = Cat(Reference(t.of[1]), Cat(Tok(Myself), x))
<1>1. Spelt(t) \/ Alone(t) \/ Borrowed(t)
  BY DEF Spelt, Alone, Borrowed
<1>2. t.of[1] \in Lower(t) /\ t.of[1] \in Nodes /\ t.n \in Strings /\ t.n \notin Tokens /\ Fits(t, ty)
  BY SingleIs, NodeIs, TyIs DEF Single
<1>3. ty[t.of[1]] \in Texts
  BY <1>2, TyIs
<1>4. ASSUME Spelt(t) PROVE Cat(Write(t, ty), x) = Cat(Tok(t.n), Cat(Tok(Colon), Cat(ty[t.of[1]], x)))
  BY <1>2, <1>4, ParamIs DEF Spelt
<1>5. ASSUME Alone(t) PROVE Cat(Write(t, ty), x) = Cat(Tok(Myself), x)
  BY <1>2, <1>5, ParamIs DEF Alone
<1>6. ASSUME Borrowed(t) PROVE Cat(Write(t, ty), x) = Cat(Reference(t.of[1]), Cat(Tok(Myself), x))
  BY <1>2, <1>6, ParamIs DEF Borrowed
<1> QED BY <1>1, <1>2, <1>3, <1>4, <1>5, <1>6

LEMMA ShapesApart ==
    ASSUME NEW s \in Nodes, NEW t \in Nodes, s.k = "param", t.k = "param", NEW x \in Texts, NEW y, Stops(y),
           Cat(Write(s, ty), x) = Cat(Write(t, ty), y)
    PROVE  ~(Spelt(s) /\ Alone(t)) /\ ~(Borrowed(s) /\ (Spelt(t) \/ Alone(t)))
<1>1. y \in Texts /\ Colon \in Strings \ Ends /\ Myself \in Strings /\ Myself \notin Tokens
      /\ Ampersand \in Tokens /\ Ampersand \in Strings
  <2>1. Colon \in Inner /\ Ampersand \in Inner
    BY DEF Inner
  <2> QED BY <2>1, TokensApart, StopsIs
<1>2. ASSUME Spelt(s), Alone(t) PROVE FALSE
  <2>1. PICK u \in Texts : u = Cat(ty[s.of[1]], x)
    BY ShapeIs, Texting
  <2>2. PICK v \in Texts : v = Cat(Tok(Colon), u)
    BY <1>1, Texting
  <2>3. Cat(Tok(s.n), v) = Cat(Tok(Myself), y) /\ s.n \in Strings
    BY <1>1, <1>2, <2>1, <2>2, ShapeIs
  <2>4. v = y
    BY <1>1, <2>3, Peeling
  <2>5. Starts(y, Colon)
    BY <2>2, <2>4 DEF Starts
  <2> QED BY <1>1, <2>5, StopsIs
<1>3. ASSUME Borrowed(s), NEW a \in Strings, a \notin Tokens, NEW w \in Texts, Cat(Write(t, ty), y) = Cat(Tok(a), w)
      PROVE FALSE
  <2>1. PICK v \in Texts : v = Cat(Tok(Myself), x)
    BY <1>1, Texting
  <2>2. Starts(Cat(Reference(s.of[1]), v), Ampersand)
    <3>1. PICK r \in Nodes : r = s.of[1] /\ r.k = "ref" /\ Tok(Mut) \in Texts
      BY <1>3, ShapeIs, ParenthesesIn DEF Borrowed
    <3>2. PICK b \in Texts : b = Perhaps("mut" \in r.flags, Tok(Mut), v)
      BY <2>1, <3>1, IfIs
    <3>3. Tok(r.n) \in Texts /\ Tok(Blank) \in Texts
      BY NodeIs, Texting, ParenthesesIn
    <3>4. Cat(Tok(r.n), Tok(Blank)) \in Texts
      BY <3>3, Texting
    <3>5. PICK e \in Texts : e = Perhaps(r.n # "", Cat(Tok(r.n), Tok(Blank)), b)
      BY <3>4, IfIs
    <3>6. Cat(Reference(r), v) = Cat(Tok(Ampersand), e)
      BY <2>1, <3>1, <3>2, <3>5, ReferenceIs
    <3> QED BY <3>1, <3>6 DEF Starts
  <2>3. Cat(Write(s, ty), x) = Cat(Reference(s.of[1]), v)
    BY <1>3, <2>1, ShapeIs
  <2>4. Starts(Cat(Tok(a), w), Ampersand) /\ Starts(Cat(Tok(a), w), a)
    BY <1>3, <2>2, <2>3, StartsIs
  <2> QED BY <1>1, <1>3, <2>4, StartsIs
<1>4. ASSUME Borrowed(s), Spelt(t) PROVE FALSE
  <2>1. PICK u \in Texts : u = Cat(ty[t.of[1]], y)
    BY <1>1, ShapeIs, Texting
  <2>2. PICK v \in Texts : v = Cat(Tok(Colon), u)
    BY <1>1, Texting
  <2>3. Cat(Write(t, ty), y) = Cat(Tok(t.n), v) /\ t.n \in Strings /\ t.n \notin Tokens
    BY <1>1, <1>4, <2>1, <2>2, ShapeIs
  <2> QED BY <1>3, <1>4, <2>3
<1>5. ASSUME Borrowed(s), Alone(t) PROVE FALSE
  <2>1. Cat(Write(t, ty), y) = Cat(Tok(Myself), y)
    BY <1>1, <1>5, ShapeIs
  <2> QED BY <1>1, <1>3, <1>5, <2>1
<1> QED BY <1>2, <1>4, <1>5

LEMMA ParamRead ==
    ASSUME NEW p, NEW q, NEW x, NEW y, Meets(p, q, x, y), p.k = "param", q.k = "param"
    PROVE  One(p, q, x, y)
<1>1. /\ p \in Nodes /\ q \in Nodes /\ x \in Texts /\ y \in Texts /\ Stops(x) /\ Stops(y)
      /\ Cat(Write(p, ty), x) = Cat(Write(q, ty), y)
  BY MeetsIs
<1>2. p.k \in Single /\ q.k \in Single /\ ~prolonged[p] /\ Known(p)
  BY MeetsIs DEF Single
<1>3. SUFFICES p.n = q.n /\ Alikes(alike, p.of, q.of) /\ x = y
  <2>1. Alikes(alike, Args(p), Args(q)) /\ Alikes(alike, p.out, q.out)
    BY <1>1, OthersAlike
  <2> QED BY <1>3, <2>1, SameOther DEF One, Words
<1>4. CASE Spelt(p) /\ Spelt(q)
  <2>1. PICK c \in Lower(p), d \in Nodes : /\ c = p.of[1] /\ d = q.of[1] /\ c.k \in Terms /\ d.k \in Terms
                                          /\ ~prolonged[c]
    BY <1>1, <1>2, InnerIs
  <2>2. PICK u \in Texts, v \in Texts : u = Cat(ty[c], x) /\ v = Cat(ty[d], y)
    BY <1>1, <2>1, ShapeIs, Texting
  <2>3. PICK g \in Texts, h \in Texts : g = Cat(Tok(Colon), u) /\ h = Cat(Tok(Colon), v)
    BY ParenthesesIn, Texting
  <2>4. Cat(Tok(p.n), g) = Cat(Tok(q.n), h) /\ p.n \in Strings /\ q.n \in Strings
    BY <1>1, <1>4, <2>1, <2>2, <2>3, ShapeIs
  <2>5. p.n = q.n /\ g = h
    BY <2>4, Peeling
  <2>6. u = v
    <3>1. Cat(Tok(Colon), u) = Cat(Tok(Colon), v) /\ Colon \in Strings
      BY <2>3, <2>5, TokensIn
    <3> QED BY <3>1, Peeled
  <2>7. Reads(c, d)
    BY <1>2, <2>1 DEF Known, SameSort
  <2>8. Ready(c, x) /\ Ready(c, y)
    <3>1. ~Starts(x, Plus) /\ ~Starts(y, Plus)
      BY MeetsIs DEF Params
    <3> QED BY <1>1, <3>1 DEF Ready
  <2>9. alike[<<c, d>>] /\ x = y
    BY <2>2, <2>6, <2>7, <2>8 DEF Reads
  <2> QED BY <1>1, <1>2, <2>1, <2>5, <2>9, InnerIs, Ones
<1>5. CASE Alone(p) /\ Alone(q)
  <2>1. Cat(Tok(Myself), x) = Cat(Tok(Myself), y) /\ Myself \in Strings
    BY <1>1, <1>5, ShapeIs, TokensIn
  <2>2. x = y
    BY <1>1, <2>1, Peeled
  <2> QED BY <1>1, <1>2, <1>5, <2>2, SelvesAlike DEF Alone
<1>6. CASE Borrowed(p) /\ Borrowed(q)
  <2>1. PICK r \in Nodes, s \in Nodes : r = p.of[1] /\ s = q.of[1] /\ r.k = "ref" /\ s.k = "ref"
                                        /\ IsSelf(r.of[1]) /\ IsSelf(s.of[1])
    BY <1>1, <1>6, ShapeIs DEF Borrowed
  <2>2. PICK u, v : u = Cat(Tok(Myself), x) /\ v = Cat(Tok(Myself), y)
    OBVIOUS
  <2>3. Clearly(u) /\ Clearly(v)
    BY <1>1, <2>2, SelfClearly
  <2>4. Cat(Reference(r), u) = Cat(Reference(s), v)
    BY <1>1, <1>6, <2>1, <2>2, ShapeIs
  <2>5. r.n = s.n /\ r.flags = s.flags /\ u = v
    BY <2>1, <2>3, <2>4, ReferencesRead
  <2>6. x = y
    BY <1>1, <2>2, <2>5, Peeled, TokensIn
  <2>7. Same(r, s, alike)
    <3>1. Alikes(alike, r.of, s.of)
      BY <2>1, SelvesAlike DEF Single
    <3>2. Alikes(alike, Args(r), Args(s)) /\ Alikes(alike, r.out, s.out)
      BY <2>1, OthersAlike
    <3> QED BY <2>1, <2>5, <3>1, <3>2, SameOther DEF Words
  <2>8. Core(r) = r /\ Core(s) = s
    BY <2>1 DEF Core
  <2>9. alike[<<r, s>>]
    BY <2>1, <2>7, <2>8, AlikeIs
  <2> QED BY <1>1, <1>2, <1>6, <2>1, <2>6, <2>9, InnerIs, Ones DEF Borrowed
<1>7. /\ Spelt(p) \/ Alone(p) \/ Borrowed(p)
      /\ Spelt(q) \/ Alone(q) \/ Borrowed(q)
  BY <1>1, ShapeIs
<1>8. /\ ~(Spelt(p) /\ Alone(q)) /\ ~(Borrowed(p) /\ (Spelt(q) \/ Alone(q)))
      /\ ~(Spelt(q) /\ Alone(p)) /\ ~(Borrowed(q) /\ (Spelt(p) \/ Alone(p)))
  BY <1>1, ShapesApart
<1> QED BY <1>4, <1>5, <1>6, <1>7, <1>8

-----------------------------------------------------------------------------
(* Every type is read                                                      *)

LEMMA LeadsMeet ==
    ASSUME NEW p, NEW q, NEW x, NEW y, Meets(p, q, x, y), p.k \in Leading, q.k \in Leading, Full(p), Full(q)
    PROVE  Lead(p) = Lead(q)
<1>1. /\ p \in Nodes /\ q \in Nodes /\ x \in Texts /\ y \in Texts /\ ty[p] \in Texts /\ ty[q] \in Texts
      /\ Cat(ty[p], x) = Cat(ty[q], y)
  BY MeetsIs DEF Meets
<1>2. /\ Starts(ty[p], Lead(p)) /\ Lead(p) \in Strings
      /\ Starts(ty[q], Lead(q)) /\ Lead(q) \in Strings
  BY <1>1, LeadStarts, LeadIn DEF Full
<1>3. Starts(Cat(ty[p], x), Lead(p)) /\ Starts(Cat(ty[q], y), Lead(q))
  BY <1>1, <1>2, StartsIs
<1> QED BY <1>1, <1>2, <1>3, StartsIs

LEMMA TermRead ==
    ASSUME NEW p, NEW q, NEW x, NEW y, Meets(p, q, x, y), p.k \in Terms \ {"pat"}, q.k \in Terms \ {"pat"}
    PROVE  One(p, q, x, y)
<1>1. p \in Nodes /\ q \in Nodes /\ p.k \in Leading /\ q.k \in Leading /\ Full(p) /\ Full(q)
  BY MeetsIs DEF Leading, Full, Terms, Types, Words
<1>2. Lead(p) = Lead(q)
  BY <1>1, LeadsMeet
<1>3. Bare(p) <=> Bare(q)
  <2>1. Inner \subseteq Tokens
    BY TokensApart
  <2> QED BY <1>1, <1>2, <2>1, LeadIn
<1>4. CASE Bare(p)
  BY <1>3, <1>4, BareRead DEF Bare
<1>5. CASE ~Bare(p)
  <2>1. ASSUME NEW t, t.k \in Terms \ {"pat"}, ~Bare(t)
        PROVE  \/ t.k = "qpath" /\ t.out # <<>> /\ Lead(t) = Less
               \/ t.k = "tuple" /\ Lead(t) = OpenParen
               \/ t.k \in {"slice", "array"} /\ Lead(t) = OpenSquare
               \/ t.k = "ref" /\ Lead(t) = Ampersand
               \/ t.k = "ptr" /\ Lead(t) \in {MutPtr, ConstPtr}
               \/ t.k \in {"dyn", "impl"} /\ Lead(t) \in {Dyn, Impl}
               \/ t.k = "fnptr" /\ Lead(t) = Fn
    BY <2>1, LeadIs DEF Bare, Terms, Types, Words
  <2>2. CASE p.k = "qpath" /\ p.out # <<>> /\ Lead(p) = Less
    <3>1. q.k = "qpath" /\ q.out # <<>>
      BY <1>2, <1>3, <1>5, <2>1, <2>2, InnerApart
    <3> QED BY <2>2, <3>1, QualifiedRead
  <2>3. CASE p.k = "tuple" /\ Lead(p) = OpenParen
    <3>1. q.k = "tuple"
      BY <1>2, <1>3, <1>5, <2>1, <2>3, InnerApart
    <3> QED BY <2>3, <3>1, TupleRead
  <2>4. CASE p.k \in {"slice", "array"} /\ Lead(p) = OpenSquare
    <3>1. q.k \in {"slice", "array"}
      BY <1>2, <1>3, <1>5, <2>1, <2>4, InnerApart
    <3> QED BY <2>4, <3>1, SquareRead
  <2>5. CASE p.k = "ref" /\ Lead(p) = Ampersand
    <3>1. q.k = "ref"
      BY <1>2, <1>3, <1>5, <2>1, <2>5, InnerApart
    <3> QED BY <2>5, <3>1, ReferenceRead
  <2>6. CASE p.k = "ptr" /\ Lead(p) \in {MutPtr, ConstPtr}
    <3>1. q.k = "ptr"
      BY <1>2, <1>3, <1>5, <2>1, <2>6, InnerApart
    <3> QED BY <2>6, <3>1, PointerRead
  <2>7. CASE p.k \in {"dyn", "impl"} /\ Lead(p) \in {Dyn, Impl}
    <3>1. q.k \in {"dyn", "impl"}
      BY <1>2, <1>3, <1>5, <2>1, <2>7, InnerApart
    <3> QED BY <2>7, <3>1, BoundsRead
  <2>8. CASE p.k = "fnptr" /\ Lead(p) = Fn
    <3>1. q.k = "fnptr"
      BY <1>2, <1>3, <1>5, <2>1, <2>8, InnerApart
    <3> QED BY <2>8, <3>1, CallsRead
  <2> QED BY <1>5, <2>1, <2>2, <2>3, <2>4, <2>5, <2>6, <2>7, <2>8
<1> QED BY <1>4, <1>5

LEMMA ArgumentsRead ==
    ASSUME NEW p, NEW q, NEW x, NEW y, Meets(p, q, x, y), p.k \in Angles, q.k \in Angles, Full(p), Full(q)
    PROVE  One(p, q, x, y)
<1>1. p.k \in Leading /\ q.k \in Leading
  BY DEF Leading
<1>2. Lead(p) = Lead(q)
  BY <1>1, LeadsMeet
<1>3. \A t : t.k \in Angles =>
         \/ t.k = "angle" /\ Lead(t) = Less
         \/ t.k = "paren" /\ Lead(t) = OpenParen
         \/ t.k = "rtn" /\ Lead(t) = AnyArgs
  BY LeadIs DEF Angles
<1>4. p.k = q.k
  BY <1>2, <1>3, InnerApart
<1>5. CASE p.k = "angle"
  BY <1>4, <1>5, AngleRead
<1>6. CASE p.k = "paren"
  BY <1>4, <1>6, CallsRead
<1>7. CASE p.k = "rtn"
  BY <1>4, <1>7, AnyRead
<1> QED BY <1>5, <1>6, <1>7 DEF Angles

LEMMA DotsStart ==
    ASSUME NEW t \in Nodes, t.k = "dots"
    PROVE  Starts(ty[t], Dots)
<1>1. t.k \in Words /\ Fits(t, ty) /\ ty[t] = Write(t, ty) /\ ty[t] \in Texts
  BY TyIs DEF Words
<1>2. None \in Texts /\ All(t.more, ty) \in Texts /\ Cat(ty[t], None) = ty[t]
  BY <1>1, PartsIn, TokensIn, Texting
<1>3. PICK r \in Texts : r = Cat(All(t.more, ty), None)
  BY <1>2, Texting
<1>4. ty[t] = Cat(Tok(Word(t)), r)
  BY <1>1, <1>2, <1>3, PathIs
<1>5. Word(t) = Dots
  BY Zenon DEF Word, Dots
<1> QED BY <1>4, <1>5 DEF Starts

LEMMA ParametersRead ==
    ASSUME NEW p, NEW q, NEW x, NEW y, Meets(p, q, x, y), p.k \in Params, q.k \in Params
    PROVE  One(p, q, x, y)
<1>1. /\ p \in Nodes /\ q \in Nodes /\ x \in Texts /\ y \in Texts /\ ty[p] \in Texts /\ ty[q] \in Texts
      /\ Cat(ty[p], x) = Cat(ty[q], y)
  BY MeetsIs DEF Meets
<1>2. CASE p.k = "param" /\ q.k = "param"
  BY <1>2, ParamRead
<1>3. CASE p.k = "dots" /\ q.k = "dots"
  BY <1>3, WordsRead DEF Words
<1>4. ASSUME NEW s \in Nodes, NEW t \in Nodes, s.k = "dots", t.k = "param", NEW w \in Texts, NEW z \in Texts,
             Cat(ty[s], w) = Cat(ty[t], z)
      PROVE  FALSE
  <2>1. Dots \in Tokens /\ Dots \in Strings /\ Dots # Ampersand /\ Ampersand \in Strings
        /\ Myself \notin Tokens /\ Myself \in Strings
    <3>1. Dots \in Inner
      BY DEF Inner
    <3> QED BY <3>1, TokensApart, InnerApart, TokensIn
  <2>2. PICK a \in Strings : a # Dots /\ Starts(ty[t], a)
    <3>1. t.n \in Strings /\ t.n \notin Tokens
      BY NodeIs
    <3>2. Starts(ty[t], t.n) \/ Starts(ty[t], Myself) \/ Starts(ty[t], Ampersand)
      BY <1>4, ParamStarts
    <3> QED BY <2>1, <3>1, <3>2
  <2>3. Starts(Cat(ty[t], z), a) /\ Starts(Cat(ty[s], w), Dots)
    BY <1>4, <2>1, <2>2, TyIs, DotsStart, StartsIs
  <2> QED BY <1>4, <2>1, <2>2, <2>3, StartsIs
<1> QED BY <1>1, <1>2, <1>3, <1>4 DEF Params

LEMMA ClassRead ==
    ASSUME NEW p, NEW q, NEW x, NEW y, Meets(p, q, x, y), SameSort(p, q), p.k # "pat", q.k # "pat"
    PROVE  One(p, q, x, y)
BY TermRead, ArgumentsRead, ParametersRead DEF SameSort

\* What is known below a node is known of it.
LEMMA ReadsStep ==
    ASSUME NEW a \in Nodes, NEW b \in Nodes, Known(a), SameSort(a, b), ~prolonged[a]
    PROVE  Reads(a, b)
<1>1. PICK p, q : p = Core(a) /\ q = Core(b)
  OBVIOUS
<1>2. p \in Nodes /\ q \in Nodes /\ p.k # "pat" /\ q.k # "pat" /\ Lower(p) \subseteq Lower(a)
  BY <1>1, CoreIs
<1>3. Known(p)
  BY <1>2 DEF Known
<1>4. /\ ty[p] = ty[a] /\ ty[q] = ty[b] /\ open[p] = open[a] /\ ~prolonged[p]
  BY <1>1, CoreReads
<1>5. SameSort(p, q) /\ (p.k \in Params => a.k \in Params)
  <2>1. /\ a.k \in Terms => p.k \in Terms \ {"pat"}
        /\ a.k \notin Terms => p = a
        /\ b.k \in Terms => q.k \in Terms \ {"pat"}
        /\ b.k \notin Terms => q = b
    BY <1>1, CoreReads
  <2>2. Terms \cap Angles = {} /\ Terms \cap Params = {}
    BY DEF Terms, Types, Words, Angles, Params
  <2> QED BY <2>1, <2>2 DEF SameSort
<1>6. ASSUME NEW x, NEW y, Ready(a, x), Ready(a, y), Cat(ty[a], x) = Cat(ty[b], y)
      PROVE  alike[<<a, b>>] /\ x = y
  <2>1. Ready(p, x) /\ Ready(p, y)
    BY <1>4, <1>5, <1>6 DEF Ready
  <2>2. Meets(p, q, x, y)
    BY <1>2, <1>3, <1>4, <1>6, <2>1 DEF Meets
  <2>3. One(p, q, x, y)
    BY <1>2, <1>5, <2>2, ClassRead
  <2> QED BY <1>1, <2>3, AlikeIs DEF One
<1> QED BY <1>6 DEF Reads

LEMMA AllRead == \A a, b \in Nodes : SameSort(a, b) /\ ~prolonged[a] => Reads(a, b)
<1> DEFINE Wrong == {n \in Nat : \E a, b \in Nodes : /\ n = Height[a] /\ SameSort(a, b) /\ ~prolonged[a]
                                                     /\ ~Reads(a, b)}
<1>1. SUFFICES ASSUME Wrong # {} PROVE FALSE
  <2>1. \A a \in Nodes : Height[a] \in Nat
    BY LowerIs
  <2> QED BY <1>1, <2>1
<1>2. PICK n \in Wrong : \A m \in Wrong : n <= m
  <2>1. Wrong \subseteq Nat
    OBVIOUS
  <2> HIDE DEF Wrong
  <2> QED BY <1>1, <2>1, LeastNatural
<1>3. PICK a \in Nodes, b \in Nodes : /\ n = Height[a] /\ SameSort(a, b) /\ ~prolonged[a] /\ ~Reads(a, b)
  OBVIOUS
<1>4. Known(a)
  <2>1. SUFFICES ASSUME NEW c \in Lower(a), NEW d \in Nodes, SameSort(c, d), ~prolonged[c], ~Reads(c, d)
                 PROVE  FALSE
    BY DEF Known
  <2>2. c \in Nodes /\ Height[c] \in Nat /\ Height[a] \in Nat /\ Height[c] < Height[a]
    BY LowerIs
  <2>3. Height[c] \in Wrong
    BY <2>1, <2>2
  <2> HIDE DEF Wrong
  <2> QED BY <1>2, <1>3, <2>2, <2>3
<1> QED BY <1>3, <1>4, ReadsStep

LEMMA AllKnown == \A a \in Nodes : Known(a)
BY AllRead DEF Known, Lower

-----------------------------------------------------------------------------
(* What is declared with a type is read from its declaration               *)

\* What comes before a type, and after.
PubConst == "pub const "
PubStatic == "pub static "
PubType == "pub type "
PubStruct == "pub struct "
PubUnion == "pub union "
Pub == "pub "
Const == "const "
Async == "async "
Unsafe == "unsafe "
Func == "fn "
Is == " = "
Underscore == "_"
EndOfTuple == ");"
StartOfBody == " {"

LEMMA MarksIn ==
    /\ {PubConst, PubStatic, PubType, PubStruct, PubUnion, Pub} \subseteq Strings
    /\ {Const, Async, Unsafe, Func, Is, Underscore, EndOfTuple, StartOfBody, Semicolon} \subseteq Strings
    /\ Const \notin {Async, Unsafe, Func} /\ Async \notin {Unsafe, Func} /\ Unsafe # Func
    /\ Pub # Underscore /\ Underscore \notin Tokens /\ Pub \notin Ends /\ Underscore \notin Ends
    /\ Mut \in Tokens
<1>1. {PubConst, PubStatic, PubType, PubStruct, PubUnion, Pub} \subseteq Strings
  BY Zenon DEF Strings, Marks, PubConst, PubStatic, PubType, PubStruct, PubUnion, Pub
<1>2. {Const, Async, Unsafe, Func, Is, Underscore, EndOfTuple, StartOfBody, Semicolon} \subseteq Strings
  BY Zenon DEF Strings, Marks, Tokens, Const, Async, Unsafe, Func, Is, Underscore, EndOfTuple, StartOfBody, Semicolon
<1>3. Const \notin {Async, Unsafe, Func} /\ Async \notin {Unsafe, Func} /\ Unsafe # Func
  BY Zenon DEF Const, Async, Unsafe, Func
<1>4. Pub # Underscore /\ Underscore \notin Tokens /\ Mut \in Tokens
  BY Zenon DEF Pub, Underscore, Tokens, Mut
<1>5. Pub \notin Ends /\ Underscore \notin Ends
  BY Zenon DEF Pub, Underscore, Ends, Comma, OneComma, CloseParen, CloseSquare, Semi, Greater, As, Plus
<1> QED BY <1>1, <1>2, <1>3, <1>4, <1>5

Triple(a, b, c) == <<a, b, c>>

LEMMA TripleIs ==
    ASSUME NEW a \in Strings, NEW b \in Strings, NEW c \in Strings
    PROVE  /\ Triple(a, b, c) \in Texts
           /\ \A x \in Texts : Cat(Triple(a, b, c), x) = Cat(Tok(a), Cat(Tok(b), Cat(Tok(c), x)))
<1>1. Triple(a, b, c) = Cat(Tok(a), Cat(Tok(b), Tok(c)))
  BY Tokens3, Zenon DEF Triple
<1>2. Tok(a) \in Texts /\ Tok(b) \in Texts /\ Tok(c) \in Texts
  BY Texting
<1>3. Cat(Tok(b), Tok(c)) \in Texts
  BY <1>2, Texting
<1>4. ASSUME NEW x \in Texts PROVE Cat(Triple(a, b, c), x) = Cat(Tok(a), Cat(Tok(b), Cat(Tok(c), x)))
  <2>1. Cat(Cat(Tok(b), Tok(c)), x) = Cat(Tok(b), Cat(Tok(c), x))
    BY <1>2, Texting
  <2> QED BY <1>1, <1>2, <1>3, <2>1, Texting
<1> QED BY <1>1, <1>2, <1>3, <1>4, Texting

LEMMA TripleRead ==
    ASSUME NEW a \in Strings, NEW b \in Strings, NEW c \in Strings, NEW d \in Strings,
           NEW x \in Texts, NEW y \in Texts, Cat(Triple(a, b, c), x) = Cat(Triple(a, d, c), y)
    PROVE  b = d /\ x = y
<1>1. PICK u \in Texts, v \in Texts : u = Cat(Tok(c), x) /\ v = Cat(Tok(c), y)
  BY Texting
<1>2. PICK r \in Texts, s \in Texts : r = Cat(Tok(b), u) /\ s = Cat(Tok(d), v)
  BY Texting
<1>3. Cat(Tok(a), r) = Cat(Tok(a), s)
  BY <1>1, <1>2, TripleIs
<1>4. r = s
  BY <1>3, Peeled
<1>5. Cat(Tok(b), u) = Cat(Tok(d), v)
  BY <1>2, <1>4
<1>6. b = d /\ u = v
  BY <1>5, Peeling
<1>7. Cat(Tok(c), x) = Cat(Tok(c), y)
  BY <1>1, <1>6
<1> QED BY <1>6, <1>7, Peeled

\* A text that may begin with a token.
LEMMA OptionalRead ==
    ASSUME NEW t \in Strings, NEW w, NEW F, NEW G, NEW u \in Texts, NEW v \in Texts, ~Starts(u, t), ~Starts(v, t),
           Perhaps(w \in F, Tok(t), u) = Perhaps(w \in G, Tok(t), v)
    PROVE  (w \in F <=> w \in G) /\ u = v
<1>1. Starts(Cat(Tok(t), u), t) /\ Starts(Cat(Tok(t), v), t)
  BY StartsIs
<1>2. CASE w \in F /\ w \in G
  <2>1. Cat(Tok(t), u) = Cat(Tok(t), v)
    BY <1>2 DEF Perhaps
  <2> QED BY <1>2, <2>1, Peeled
<1>3. CASE w \in F /\ w \notin G
  <2>1. Cat(Tok(t), u) = v
    BY <1>3 DEF Perhaps
  <2> QED BY <1>1, <2>1
<1>4. CASE w \notin F /\ w \in G
  <2>1. Cat(Tok(t), v) = u
    BY <1>4 DEF Perhaps
  <2> QED BY <1>1, <2>1
<1>5. CASE w \notin F /\ w \notin G
  BY <1>5 DEF Perhaps
<1> QED BY <1>2, <1>3, <1>4, <1>5

LEMMA OptionalIs ==
    ASSUME NEW t \in Strings, NEW c, NEW u \in Texts
    PROVE  /\ Perhaps(c, Tok(t), u) \in Texts
           /\ \A s \in Strings : s # t /\ ~Starts(u, s) => ~Starts(Perhaps(c, Tok(t), u), s)
<1>1. Tok(t) \in Texts
  BY Texting
<1>2. Starts(Cat(Tok(t), u), t)
  BY StartsIs
<1>3. ASSUME NEW s \in Strings, s # t, ~Starts(u, s) PROVE ~Starts(Perhaps(c, Tok(t), u), s)
  <2>1. CASE c
    BY <1>2, <1>3, <2>1, StartsIs DEF Perhaps
  <2>2. CASE ~c
    BY <1>3, <2>2 DEF Perhaps
  <2> QED BY <2>1, <2>2
<1> QED BY <1>1, <1>3, IfIs

\* Types with one text are alike, whatever they nest: ty.rs sets no parentheses
\* and needs none but around a list of bounds in a list of bounds.
THEOREM TypesRead ==
    ASSUME NEW a \in Nodes, NEW b \in Nodes, a.k \in Types, b.k \in Types, ~prolonged[a], ty[a] = ty[b]
    PROVE  alike[<<a, b>>]
<1>1. Reads(a, b)
  <2>1. SameSort(a, b)
    BY DEF SameSort, Terms
  <2> QED BY <2>1, AllRead
<1> QED BY <1>1, ReadyIs DEF Reads

-----------------------------------------------------------------------------
(* Items                                                                   *)

LEMMA ItemIs ==
    ASSUME NEW it \in Subjects, NEW c \in Below(it) \cup {it}
    PROVE  /\ Name(c) \in Strings /\ Name(c) \notin Tokens /\ c.form \in Strings
           /\ it.kind # "module" /\ c.kind \in {"field", "type_alias", "constant"} =>
                 c.type \in Nodes /\ c.type.k \in Types
           /\ it.kind # "module" /\ c.kind = "static" => c.type \in Nodes /\ c.type.k = "static"
           /\ it.kind # "module" /\ c.kind = "function" => c.type \in Nodes /\ c.type.k = "sig"
<1>1. c.name \in STRING \ Tokens /\ c.form \in STRING
  BY ItemsAssumption, Zenon
<1>2. c.name \in Strings /\ c.name \notin Tokens /\ c.form \in Strings
  BY <1>1, Zenon DEF Strings
<1>3. Name(c) \in Strings /\ Name(c) \notin Tokens
  <2>1. Name(c) = IF c.name = "" THEN Underscore ELSE c.name
    BY Zenon DEF Name, Underscore
  <2> QED BY <1>2, <2>1, MarksIn
<1>4. ASSUME it.kind # "module", c.kind \in {"field", "type_alias", "constant", "static", "function"}
      PROVE  c.type \in Nodes /\ c.type.k \in TypeKinds(c)
  <2>1. c \in Typed(it)
    BY <1>4 DEF Typed
  <2>2. c.type.k \in TypeKinds(c)
    BY <2>1, ItemsAssumption, Zenon
  <2>3. c.type \in {d.type : d \in UNION {Typed(i) : i \in Subjects}}
    BY <2>1
  <2>4. {d.type : d \in UNION {Typed(i) : i \in Subjects}} \subseteq Nodes
    BY ItemsAssumption, Zenon
  <2> QED BY <2>2, <2>3, <2>4
<1> QED BY <1>2, <1>3, <1>4, Zenon DEF TypeKinds

-----------------------------------------------------------------------------
(* Signatures                                                              *)

\* What a signature is after its flags, and with them.
Called(name, f) == Cat(Triple(Func, name, OpenParen), Call(f, ty, None))

Flagged(f, x) ==
    Perhaps(Const \in f.flags, Tok(Const),
            Perhaps(Async \in f.flags, Tok(Async), Perhaps(Unsafe \in f.flags, Tok(Unsafe), x)))

LEMMA SignatureIs ==
    ASSUME NEW f \in Nodes, NEW name \in Strings
    PROVE  /\ Call(f, ty, None) \in Texts /\ Called(name, f) \in Texts /\ Starts(Called(name, f), Func)
           /\ Flagged(f, Called(name, f)) \in Texts
           /\ FnSignature(name, f) = Cat(Flagged(f, Called(name, f)), Tok(Semicolon))
<1> DEFINE c == If(Const \in f.flags, Tok(Const))
           a == If(Async \in f.flags, Tok(Async))
           u == If(Unsafe \in f.flags, Tok(Unsafe))
           h == Triple(Func, name, OpenParen)
           l == List(f.of, Comma, ty)
           o == Output(f, ty)
<1>1. FnSignature(name, f) =
          Cat(Cat(Cat(Cat(Cat(Cat(Cat(c, a), u), h), l), Tok(CloseParen)), o), Tok(Semicolon))
  BY Zenon DEF FnSignature, Cat, Tok, Triple, Const, Async, Unsafe, Func, OpenParen, CloseParen, Comma, Semicolon
<1>2. /\ Tok(Const) \in Texts /\ Tok(Async) \in Texts /\ Tok(Unsafe) \in Texts
      /\ h \in Texts /\ l \in Texts /\ o \in Texts /\ Tok(CloseParen) \in Texts /\ None \in Texts
  <2>1. Fits(f, ty)
    BY TyIs
  <2>2. l \in Texts /\ o \in Texts
    BY <2>1, PartsIn, TokensIn, OutputIs
  <2>3. h \in Texts
    BY MarksIn, TokensIn, TripleIs
  <2> QED BY <2>2, <2>3, MarksIn, ParenthesesIn, Texting
<1>3. c \in Texts /\ a \in Texts /\ u \in Texts
  BY <1>2, IfIs
<1>4. /\ Call(f, ty, None) = Cat(l, Cat(Tok(CloseParen), Cat(o, None)))
      /\ Called(name, f) = Cat(h, Call(f, ty, None))
  BY DEF Call, Called
<1>5. \A x \in Texts : /\ Cat(u, x) = Perhaps(Unsafe \in f.flags, Tok(Unsafe), x)
                       /\ Cat(a, x) = Perhaps(Async \in f.flags, Tok(Async), x)
                       /\ Cat(c, x) = Perhaps(Const \in f.flags, Tok(Const), x)
  BY <1>2, IfIs
<1> HIDE DEF c, a, u, h, l, o
<1>6. PICK x \in Texts : x = Cat(Tok(CloseParen), Cat(o, None))
  <2>1. Cat(o, None) \in Texts
    BY <1>2, Texting
  <2> QED BY <1>2, <2>1, Texting
<1>7. PICK k \in Texts, m \in Texts : k = Cat(l, x) /\ m = Cat(h, k)
  BY <1>2, <1>6, Texting
<1>8. Call(f, ty, None) \in Texts /\ Called(name, f) \in Texts /\ Call(f, ty, None) = k /\ Called(name, f) = m
  BY <1>4, <1>6, <1>7
<1>9. PICK r \in Texts, s \in Texts : r = Cat(u, m) /\ s = Cat(a, r)
  BY <1>3, <1>7, Texting
<1>10. Flagged(f, m) = Cat(c, s)
  BY <1>3, <1>5, <1>7, <1>9 DEF Flagged
<1>11. Cat(c, s) \in Texts
  BY <1>3, <1>9, Texting
<1>12. PICK w \in Texts : w = Cat(Cat(Cat(Cat(c, a), u), h), l)
  <2>1. Cat(c, a) \in Texts
    BY <1>3, Texting
  <2>2. Cat(Cat(c, a), u) \in Texts
    BY <1>3, <2>1, Texting
  <2>3. Cat(Cat(Cat(c, a), u), h) \in Texts
    BY <1>2, <2>2, Texting
  <2> QED BY <1>2, <2>3, Texting
<1>13. Cat(Cat(w, Tok(CloseParen)), o) = Cat(w, x)
  <2>1. Cat(o, None) = o
    BY <1>2, Texting
  <2> QED BY <1>2, <1>6, <1>12, <2>1, Texting
<1>14. Cat(w, x) = Cat(c, s)
  <2>1. PICK j \in Texts : j = Cat(Cat(Cat(c, a), u), h)
    <3>1. Cat(Cat(c, a), u) \in Texts
      BY <1>3, Texting
    <3> QED BY <1>2, <3>1, Texting
  <2>2. Cat(w, x) = Cat(j, k)
    <3>1. w = Cat(j, l)
      BY <1>12, <2>1
    <3> QED BY <1>2, <1>7, <2>1, <3>1, Texting
  <2>3. PICK i \in Texts : i = Cat(Cat(c, a), u)
    <3>1. Cat(c, a) \in Texts
      BY <1>3, Texting
    <3> QED BY <1>3, <3>1, Texting
  <2>4. Cat(j, k) = Cat(i, m)
    <3>1. j = Cat(i, h)
      BY <2>1, <2>3
    <3> QED BY <1>2, <1>7, <2>3, <3>1, Texting
  <2>5. Cat(i, m) = Cat(c, s)
    BY <1>3, <1>7, <1>9, <2>3, Nested3
  <2> QED BY <2>2, <2>4, <2>5
<1>15. FnSignature(name, f) = Cat(Cat(c, s), Tok(Semicolon))
  <2>1. FnSignature(name, f) = Cat(Cat(Cat(w, Tok(CloseParen)), o), Tok(Semicolon))
    BY <1>1, <1>12
  <2> QED BY <1>13, <1>14, <2>1
<1>16. Starts(Called(name, f), Func)
  <2>1. name \in Strings /\ Func \in Strings /\ OpenParen \in Strings
    BY MarksIn, TokensIn
  <2>2. Cat(Tok(OpenParen), k) \in Texts
    BY <2>1, Texting
  <2>3. Cat(Tok(name), Cat(Tok(OpenParen), k)) \in Texts
    BY <2>1, <2>2, Texting
  <2>4. m = Cat(Tok(Func), Cat(Tok(name), Cat(Tok(OpenParen), k)))
    BY <1>7, <2>1, TripleIs DEF h
  <2> QED BY <1>8, <2>1, <2>3, <2>4 DEF Starts
<1> QED BY <1>8, <1>10, <1>11, <1>15, <1>16

LEMMA FlagRead ==
    ASSUME NEW t \in Strings, NEW F, NEW G, NEW u \in Texts, NEW v \in Texts, ~Starts(u, t), ~Starts(v, t)
    PROVE  Perhaps(t \in F, Tok(t), u) = Perhaps(t \in G, Tok(t), v) => (t \in F <=> t \in G) /\ u = v
BY OptionalRead

LEMMA FlagsRead ==
    ASSUME NEW f \in Nodes, NEW g \in Nodes, f.k = "sig", g.k = "sig", NEW x \in Texts, NEW y \in Texts,
           Starts(x, Func), Starts(y, Func), Flagged(f, x) = Flagged(g, y)
    PROVE  f.flags = g.flags /\ x = y
<1> DEFINE unsafe(t, z) == Perhaps(Unsafe \in t.flags, Tok(Unsafe), z)
           async(t, z) == Perhaps(Async \in t.flags, Tok(Async), unsafe(t, z))
<1>1. Const \in Strings /\ Async \in Strings /\ Unsafe \in Strings /\ Func \in Strings
  BY MarksIn
<1>2. ASSUME NEW t, NEW z \in Texts, Starts(z, Func)
      PROVE  /\ ~Starts(z, Unsafe) /\ unsafe(t, z) \in Texts /\ ~Starts(unsafe(t, z), Async)
             /\ async(t, z) \in Texts /\ ~Starts(async(t, z), Const)
  <2>1. ~Starts(z, Unsafe) /\ ~Starts(z, Async) /\ ~Starts(z, Const)
    BY <1>1, <1>2, StartsIs, MarksIn
  <2>2. unsafe(t, z) \in Texts /\ ~Starts(unsafe(t, z), Async) /\ ~Starts(unsafe(t, z), Const)
    BY <1>1, <2>1, OptionalIs, MarksIn
  <2> HIDE DEF unsafe
  <2>3. async(t, z) \in Texts /\ ~Starts(async(t, z), Const)
    BY <1>1, <2>2, OptionalIs, MarksIn
  <2> QED BY <2>1, <2>2, <2>3
<1>3. PICK u \in Texts, v \in Texts, r \in Texts, s \in Texts :
          /\ u = unsafe(f, x) /\ v = unsafe(g, y) /\ ~Starts(u, Async) /\ ~Starts(v, Async)
          /\ r = async(f, x) /\ s = async(g, y) /\ ~Starts(r, Const) /\ ~Starts(s, Const)
          /\ ~Starts(x, Unsafe) /\ ~Starts(y, Unsafe)
  BY <1>2
<1>4. (Const \in f.flags <=> Const \in g.flags) /\ r = s
  <2>1. Perhaps(Const \in f.flags, Tok(Const), r) = Perhaps(Const \in g.flags, Tok(Const), s)
    BY <1>3 DEF Flagged
  <2> QED BY <1>1, <1>3, <2>1, FlagRead
<1>5. (Async \in f.flags <=> Async \in g.flags) /\ u = v
  <2>1. Perhaps(Async \in f.flags, Tok(Async), u) = Perhaps(Async \in g.flags, Tok(Async), v)
    BY <1>3, <1>4
  <2>2. u \in Texts /\ v \in Texts /\ ~Starts(u, Async) /\ ~Starts(v, Async)
    BY <1>3
  <2>3. Async \in Strings
    BY <1>1
  <2> QED BY <2>1, <2>2, <2>3, FlagRead
<1>6. (Unsafe \in f.flags <=> Unsafe \in g.flags) /\ x = y
  <2>1. Perhaps(Unsafe \in f.flags, Tok(Unsafe), x) = Perhaps(Unsafe \in g.flags, Tok(Unsafe), y)
    BY <1>3, <1>5
  <2> QED BY <1>1, <1>3, <2>1, FlagRead
<1>7. f.flags \subseteq {Const, Async, Unsafe} /\ g.flags \subseteq {Const, Async, Unsafe}
  BY NodesAssumption, Zenon DEF WellMade, Const, Async, Unsafe
<1>8. f.flags = g.flags
  <2>1. \A F, G : /\ F \subseteq {Const, Async, Unsafe} /\ G \subseteq {Const, Async, Unsafe}
                  /\ (Const \in F <=> Const \in G) /\ (Async \in F <=> Async \in G)
                  /\ (Unsafe \in F <=> Unsafe \in G)
                  => F = G
    OBVIOUS
  <2> QED BY <1>4, <1>5, <1>6, <1>7, <2>1
<1> QED BY <1>6, <1>8

LEMMA SignaturesRead ==
    ASSUME NEW f \in Nodes, NEW g \in Nodes, f.k = "sig", g.k = "sig", ~prolonged[f],
           NEW m \in Strings, NEW n \in Strings, FnSignature(m, f) = FnSignature(n, g)
    PROVE  alike[<<f, g>>]
<1>1. PICK u \in Texts, v \in Texts : u = Called(m, f) /\ v = Called(n, g) /\ Starts(u, Func) /\ Starts(v, Func)
  BY SignatureIs
<1>2. Flagged(f, u) = Flagged(g, v)
  <2>1. PICK r \in Texts, s \in Texts, e \in Texts : r = Flagged(f, u) /\ s = Flagged(g, v) /\ e = Tok(Semicolon)
    <3>1. Tok(Semicolon) \in Texts
      BY MarksIn, Texting
    <3> QED BY <1>1, <3>1, SignatureIs
  <2>2. Cat(r, e) = Cat(s, e)
    BY <1>1, <2>1, SignatureIs
  <2>3. r = s
    BY <2>2, Peeling
  <2> QED BY <2>1, <2>3
<1>3. f.flags = g.flags /\ u = v
  BY <1>1, <1>2, FlagsRead
<1>4. Call(f, ty, None) = Call(g, ty, None)
  <2>1. PICK x \in Texts, y \in Texts : x = Call(f, ty, None) /\ y = Call(g, ty, None)
    BY SignatureIs
  <2>2. Cat(Triple(Func, m, OpenParen), x) = Cat(Triple(Func, n, OpenParen), y)
    BY <1>1, <1>3, <2>1 DEF Called
  <2>3. Func \in Strings /\ OpenParen \in Strings
    BY MarksIn, TokensIn
  <2>4. x = y
    BY <2>2, <2>3, TripleRead
  <2> QED BY <2>1, <2>4
<1>5. Alikes(alike, f.of, g.of) /\ Alikes(alike, f.out, g.out)
  <2>1. Known(f)
    BY AllKnown
  <2>2. Legible(f, f.of, g.of, Comma)
    BY <2>1, OfLegible
  <2>3. Outgoing(f, None)
    BY StopsIs, StartsIs, TokensIn DEF Outgoing
  <2> QED BY <1>4, <2>1, <2>2, <2>3, CallRead
<1>6. Alikes(alike, Args(f), Args(g))
  BY OthersAlike
<1>7. Same(f, g, alike)
  BY <1>3, <1>5, <1>6, SameOther DEF Words
<1>8. Core(f) = f /\ Core(g) = g
  BY DEF Core
<1> QED BY <1>7, <1>8, AlikeIs

-----------------------------------------------------------------------------
(* Values                                                                  *)

\* A type after a name, and what ends the line.
LEMMA TypedRead ==
    ASSUME NEW a \in Nodes, NEW b \in Nodes, a.k \in Types, b.k \in Types, ~prolonged[a],
           NEW h \in Strings, NEW m \in Strings, NEW n \in Strings, NEW c \in Strings,
           Cat(Triple(h, m, c), ty[a]) = Cat(Triple(h, n, c), ty[b])
    PROVE  m = n /\ alike[<<a, b>>]
<1>1. PICK x \in Texts, y \in Texts : x = ty[a] /\ y = ty[b]
  BY TyIs
<1>2. Cat(Triple(h, m, c), x) = Cat(Triple(h, n, c), y)
  BY <1>1
<1>3. m = n /\ x = y
  BY <1>2, TripleRead
<1> QED BY <1>1, <1>3, TypesRead

LEMMA EndedRead ==
    ASSUME NEW a \in Nodes, NEW b \in Nodes, a.k \in Types, b.k \in Types, ~prolonged[a],
           NEW h \in Strings, NEW m \in Strings, NEW n \in Strings, NEW c \in Strings, NEW e \in Texts,
           Cat(Cat(Triple(h, m, c), ty[a]), e) = Cat(Cat(Triple(h, n, c), ty[b]), e)
    PROVE  alike[<<a, b>>]
<1>1. ty[a] \in Texts /\ ty[b] \in Texts /\ Triple(h, m, c) \in Texts /\ Triple(h, n, c) \in Texts
  BY TyIs, TripleIs
<1>2. PICK x \in Texts, y \in Texts : x = Cat(Triple(h, m, c), ty[a]) /\ y = Cat(Triple(h, n, c), ty[b])
  BY <1>1, Texting
<1>3. Cat(x, e) = Cat(y, e)
  BY <1>2
<1>4. x = y
  BY <1>3, Peeling
<1>5. Cat(Triple(h, m, c), ty[a]) = Cat(Triple(h, n, c), ty[b])
  BY <1>2, <1>4
<1> QED BY <1>5, TypedRead

\* What a static is after its mut, up to its type.
Stated(name, t) == Cat(Tok(name), Cat(Tok(Colon), ty[t]))

LEMMA StaticIs ==
    ASSUME NEW f \in Nodes, NEW t \in Nodes, NEW name \in Strings, NEW e \in Texts, name # Mut
    PROVE  /\ Stated(name, t) \in Texts /\ ~Starts(Stated(name, t), Mut)
           /\ Perhaps("mut" \in f.flags, Tok(Mut), Stated(name, t)) \in Texts
           /\ Cat(Cat(Cat(Cat(Tok(PubStatic), If("mut" \in f.flags, Tok(Mut))), <<name, Colon>>), ty[t]), e)
                = Cat(Cat(Tok(PubStatic), Perhaps("mut" \in f.flags, Tok(Mut), Stated(name, t))), e)
<1>1. Mut \in Strings /\ Colon \in Strings /\ PubStatic \in Strings /\ ty[t] \in Texts
  BY TokensIn, MarksIn, TyIs
<1>2. PICK u \in Texts, s \in Texts, i \in Texts, c \in Texts :
          u = ty[t] /\ s = Tok(PubStatic) /\ c = Tok(Colon) /\ i = If("mut" \in f.flags, Tok(Mut))
  <2>1. Tok(PubStatic) \in Texts /\ Tok(Mut) \in Texts /\ Tok(Colon) \in Texts
    BY <1>1, Texting
  <2> QED BY <1>1, <2>1, IfIs
<1>3. PICK v \in Texts : v = Cat(c, u)
  BY Texting
<1>4. PICK k \in Texts, w \in Texts : k = Tok(name) /\ w = Cat(k, v)
  BY Texting
<1>5. w = Stated(name, t)
  BY <1>2, <1>3, <1>4 DEF Stated
<1>6. Starts(w, name)
  BY <1>4, StartsIs
<1>7. Cat(i, w) = Perhaps("mut" \in f.flags, Tok(Mut), w) /\ Cat(i, w) \in Texts
  <2>1. Tok(Mut) \in Texts
    BY <1>1, Texting
  <2> QED BY <1>2, <2>1, IfIs
<1>8. PICK p \in Texts : p = <<name, Colon>> /\ p = Cat(k, c)
  <2>1. <<name, Colon>> = Cat(Tok(name), Tok(Colon))
    BY <1>1, Tokens2
  <2> QED BY <1>2, <1>4, <2>1, Texting
<1>9. Cat(p, u) = w
  <2>1. Cat(Cat(k, c), u) = Cat(k, Cat(c, u))
    BY Texting
  <2>2. p = Cat(k, c) /\ w = Cat(k, Cat(c, u))
    BY <1>3, <1>4, <1>8
  <2> QED BY <2>1, <2>2
<1>10. Cat(Cat(Cat(s, i), p), u) = Cat(s, Cat(i, w))
  BY <1>9, Nested3
<1> QED BY <1>1, <1>2, <1>5, <1>6, <1>7, <1>8, <1>10, StartsIs

LEMMA ConstantsRead ==
    ASSUME NEW a \in Subjects, NEW b \in Subjects, a.kind = b.kind, a.kind \in {"constant", "type_alias"},
           ~prolonged[a.type], a.form = b.form, Value(a) = Value(b)
    PROVE  alike[<<a.type, b.type>>]
<1>1. /\ a.type \in Nodes /\ b.type \in Nodes /\ a.type.k \in Types /\ b.type.k \in Types
      /\ Name(a) \in Strings /\ Name(b) \in Strings /\ a.form \in Strings
  BY ItemIs
<1>2. {PubConst, PubType, Colon, Is, Semicolon} \subseteq Strings
  BY MarksIn, TokensIn
<1>3. Triple(Is, a.form, Semicolon) \in Texts /\ Tok(Semicolon) \in Texts
  BY <1>1, <1>2, TripleIs, Texting
<1>4. CASE a.kind = "constant"
  <2>1. \A it : it.kind = "constant" =>
            Value(it) = Cat(Cat(Triple(PubConst, Name(it), Colon), ty[it.type]), Triple(Is, it.form, Semicolon))
    BY Zenon DEF Value, Cat, Triple, PubConst, Colon, Is, Semicolon
  <2>2. Cat(Cat(Triple(PubConst, Name(a), Colon), ty[a.type]), Triple(Is, a.form, Semicolon)) =
            Cat(Cat(Triple(PubConst, Name(b), Colon), ty[b.type]), Triple(Is, a.form, Semicolon))
    BY <1>4, <2>1, Zenon
  <2> QED BY <1>1, <1>2, <1>3, <2>2, EndedRead
<1>5. CASE a.kind = "type_alias"
  <2>1. \A it : it.kind = "type_alias" =>
            Value(it) = Cat(Cat(Triple(PubType, Name(it), Is), ty[it.type]), Tok(Semicolon))
    BY Zenon DEF Value, Cat, Triple, Tok, PubType, Is, Semicolon
  <2>2. Cat(Cat(Triple(PubType, Name(a), Is), ty[a.type]), Tok(Semicolon)) =
            Cat(Cat(Triple(PubType, Name(b), Is), ty[b.type]), Tok(Semicolon))
    BY <1>5, <2>1, Zenon
  <2> QED BY <1>1, <1>2, <1>3, <2>2, EndedRead
<1> QED BY <1>4, <1>5

LEMMA StaticValue ==
    ASSUME NEW it \in Subjects, it.kind = "static"
    PROVE  LET t == it.type.of[1]
           IN  /\ it.type \in Nodes /\ it.type.k = "static" /\ t \in Nodes /\ t.k \in Types
               /\ (prolonged[t] => prolonged[it.type])
               /\ Name(it) \in Strings /\ Name(it) # Mut /\ Triple(Is, it.form, Semicolon) \in Texts
               /\ Value(it) = Cat(Cat(Tok(PubStatic), Perhaps("mut" \in it.type.flags, Tok(Mut), Stated(Name(it), t))),
                                  Triple(Is, it.form, Semicolon))
<1>1. it.type \in Nodes /\ it.type.k = "static" /\ Name(it) \in Strings /\ Name(it) # Mut /\ it.form \in Strings
  BY ItemIs, MarksIn
<1>2. PICK t \in Nodes : t = it.type.of[1] /\ (prolonged[t] => prolonged[it.type])
  BY <1>1, InnerIs DEF Single
<1>3. t.k \in Types
  <2>1. Kinds(it.type.of) \subseteq Types
    BY <1>1, NodesAssumption, Zenon DEF WellMade, Words
  <2>2. 1 \in DOMAIN it.type.of
    BY <1>1, SingleIs DEF Single
  <2> QED BY <1>2, <2>1, <2>2 DEF Kinds
<1>4. Triple(Is, it.form, Semicolon) \in Texts
  BY <1>1, MarksIn, TripleIs
<1>5. Value(it) = Cat(Cat(Cat(Cat(Tok(PubStatic), If("mut" \in it.type.flags, Tok(Mut))), <<Name(it), Colon>>),
                          ty[it.type.of[1]]), Triple(Is, it.form, Semicolon))
  BY Zenon DEF Value, Cat, Triple, Tok, PubStatic, Mut, Colon, Is, Semicolon
<1>6. Value(it) = Cat(Cat(Tok(PubStatic), Perhaps("mut" \in it.type.flags, Tok(Mut), Stated(Name(it), t))),
                      Triple(Is, it.form, Semicolon))
  BY <1>1, <1>2, <1>4, <1>5, StaticIs
<1> QED BY <1>1, <1>2, <1>3, <1>4, <1>6

LEMMA StaticsRead ==
    ASSUME NEW a \in Subjects, NEW b \in Subjects, a.kind = "static", b.kind = "static",
           ~prolonged[a.type], a.form = b.form, Value(a) = Value(b)
    PROVE  alike[<<a.type, b.type>>]
<1>1. PICK f \in Nodes, g \in Nodes, s \in Nodes, t \in Nodes :
          /\ f = a.type /\ g = b.type /\ s = f.of[1] /\ t = g.of[1] /\ f.k = "static" /\ g.k = "static"
          /\ s.k \in Types /\ t.k \in Types /\ ~prolonged[s]
  BY StaticValue
<1>2. PICK m \in Strings, n \in Strings, e \in Texts :
          m = Name(a) /\ n = Name(b) /\ m # Mut /\ n # Mut /\ e = Triple(Is, a.form, Semicolon)
  BY StaticValue
<1>3. PICK u \in Texts, v \in Texts :
          u = Stated(m, s) /\ v = Stated(n, t) /\ ~Starts(u, Mut) /\ ~Starts(v, Mut)
  BY <1>2, StaticIs
<1>4. Mut \in Strings /\ PubStatic \in Strings /\ Colon \in Strings
  BY MarksIn, TokensIn
<1>5. PICK p \in Texts, q \in Texts :
          p = Perhaps("mut" \in f.flags, Tok(Mut), u) /\ q = Perhaps("mut" \in g.flags, Tok(Mut), v)
  BY <1>3, <1>4, OptionalIs
<1>6. Cat(Cat(Tok(PubStatic), p), e) = Cat(Cat(Tok(PubStatic), q), e)
  <2>1. Value(a) = Cat(Cat(Tok(PubStatic), p), e)
    BY <1>1, <1>2, <1>3, <1>5, StaticValue
  <2>2. Value(b) = Cat(Cat(Tok(PubStatic), q), e)
    BY <1>1, <1>2, <1>3, <1>5, StaticValue
  <2> QED BY <2>1, <2>2
<1>7. p = q
  <2>1. PICK x \in Texts, y \in Texts : x = Cat(Tok(PubStatic), p) /\ y = Cat(Tok(PubStatic), q)
    BY <1>4, Texting
  <2>2. Cat(x, e) = Cat(y, e)
    BY <1>6, <2>1
  <2>3. x = y
    BY <2>2, Peeling
  <2> QED BY <1>4, <2>1, <2>3, Peeled
<1>8. ("mut" \in f.flags <=> "mut" \in g.flags) /\ u = v
  <2>1. PICK F, G, w : F = f.flags /\ G = g.flags /\ w = "mut"
    OBVIOUS
  <2>2. Perhaps(w \in F, Tok(Mut), u) = Perhaps(w \in G, Tok(Mut), v)
    BY <1>5, <1>7, <2>1
  <2>3. ~Starts(u, Mut) /\ ~Starts(v, Mut) /\ Mut \in Strings
    BY <1>3, <1>4
  <2>4. (w \in F <=> w \in G) /\ u = v
    BY <2>2, <2>3, OptionalRead
  <2> QED BY <2>1, <2>4
<1>9. f.flags = g.flags
  BY <1>1, <1>8, FlagsAre
<1>10. ty[s] = ty[t]
  <2>1. PICK x \in Texts, y \in Texts : x = ty[s] /\ y = ty[t]
    BY TyIs
  <2>2. PICK c \in Texts, d \in Texts : c = Cat(Tok(Colon), x) /\ d = Cat(Tok(Colon), y)
    BY <1>4, Texting
  <2>3. Cat(Tok(m), c) = Cat(Tok(n), d)
    BY <1>3, <1>8, <2>1, <2>2 DEF Stated
  <2>4. c = d
    BY <2>3, Peeling
  <2> QED BY <1>4, <2>1, <2>2, <2>4, Peeled
<1>11. Alikes(alike, f.of, g.of)
  <2>1. alike[<<s, t>>]
    BY <1>1, <1>10, TypesRead
  <2>2. Len(f.of) = 1 /\ Len(g.of) = 1 /\ f.of \in Seq(Nodes) /\ g.of \in Seq(Nodes)
    BY <1>1, InnerIs DEF Single
  <2> QED BY <1>1, <2>1, <2>2, Ones
<1>12. Alikes(alike, Args(f), Args(g)) /\ Alikes(alike, f.out, g.out)
  BY <1>1, OthersAlike
<1>13. Same(f, g, alike)
  BY <1>1, <1>9, <1>11, <1>12, SameOther DEF Words
<1>14. Core(f) = f /\ Core(g) = g
  BY <1>1 DEF Core
<1> QED BY <1>1, <1>13, <1>14, AlikeIs

LEMMA ValuesRead ==
    ASSUME NEW a \in Subjects, NEW b \in Subjects, a.kind = b.kind, a.kind \in Valued,
           ~prolonged[a.type], a.form = b.form, Value(a) = Value(b)
    PROVE  alike[<<a.type, b.type>>]
<1>1. CASE a.kind = "function"
  <2>1. /\ a.type \in Nodes /\ b.type \in Nodes /\ a.type.k = "sig" /\ b.type.k = "sig"
        /\ Name(a) \in Strings /\ Name(b) \in Strings
    BY <1>1, ItemIs
  <2>2. \A it : it.kind = "function" => Value(it) = FnSignature(Name(it), it.type)
    BY Zenon DEF Value
  <2>3. FnSignature(Name(a), a.type) = FnSignature(Name(b), b.type)
    BY <1>1, <2>2
  <2> QED BY <2>1, <2>3, SignaturesRead
<1> QED BY <1>1, ConstantsRead, StaticsRead DEF Valued

-----------------------------------------------------------------------------
(* The positions of a tuple                                                *)

Position(f) == IF f.kind = "field" THEN Cat(Tok(Pub), ty[f.type]) ELSE Tok(Underscore)

Slots(s) == [i \in DOMAIN s |-> Position(s[i])]

LEMMA PositionsAre == \A s : Positions(s, <<"pub ">>) = Together(Slots(s), Comma)
<1>1. \A s : Positions(s, <<"pub ">>) =
          FlattenSeq([i \in DOMAIN s |-> (IF i = 1 THEN <<>> ELSE <<Comma>>) \o Position(s[i])])
  BY Zenon DEF Positions, Join, Position, Cat, Tok, Pub, Underscore, Comma
<1>2. \A s : [i \in DOMAIN Slots(s) |-> (IF i = 1 THEN <<>> ELSE <<Comma>>) \o Slots(s)[i]]
             = [i \in DOMAIN s |-> (IF i = 1 THEN <<>> ELSE <<Comma>>) \o Position(s[i])]
  <2>1. SUFFICES ASSUME NEW s
                 PROVE  [i \in DOMAIN Slots(s) |-> (IF i = 1 THEN <<>> ELSE <<Comma>>) \o Slots(s)[i]]
                        = [i \in DOMAIN s |-> (IF i = 1 THEN <<>> ELSE <<Comma>>) \o Position(s[i])]
    OBVIOUS
  <2>2. DOMAIN Slots(s) = DOMAIN s /\ \A i \in DOMAIN s : Slots(s)[i] = Position(s[i])
    BY Zenon DEF Slots
  <2> QED BY <2>2, Zenon
<1>3. ASSUME NEW s PROVE Positions(s, <<"pub ">>) = Together(Slots(s), Comma)
  <2>1. PICK p, q : /\ p = [i \in DOMAIN s |-> (IF i = 1 THEN <<>> ELSE <<Comma>>) \o Position(s[i])]
                    /\ q = [i \in DOMAIN Slots(s) |-> (IF i = 1 THEN <<>> ELSE <<Comma>>) \o Slots(s)[i]]
    OBVIOUS
  <2>2. Positions(s, <<"pub ">>) = FlattenSeq(p)
    BY <1>1, <2>1, Zenon
  <2>3. Together(Slots(s), Comma) = FlattenSeq(q)
    BY <2>1, Zenon DEF Together
  <2>4. p = q
    BY <1>2, <2>1, Zenon
  <2> QED BY <2>2, <2>3, <2>4, Zenon
<1> QED BY <1>3, Zenon

\* A field whose type can be read, or none.
Sound(f) == f.kind = "field" => f.type \in Nodes /\ f.type.k \in Types

LEMMA PositionIs ==
    ASSUME NEW f, Sound(f)
    PROVE  Position(f) \in Texts /\ Begins(Position(f))
<1>1. Pub \in Strings \ Ends /\ Underscore \in Strings \ Ends
  BY MarksIn
<1>2. CASE f.kind = "field"
  <2>1. PICK u \in Texts : u = ty[f.type]
    BY <1>2, TyIs DEF Sound
  <2>2. Cat(Tok(Pub), u) \in Texts /\ Starts(Cat(Tok(Pub), u), Pub)
    BY <1>1, Texting, StartsIs
  <2>3. Position(f) = Cat(Tok(Pub), u)
    BY <1>2, <2>1 DEF Position
  <2> QED BY <1>1, <2>2, <2>3 DEF Begins
<1>3. CASE f.kind # "field"
  <2>1. Position(f) = Tok(Underscore)
    BY <1>3 DEF Position
  <2>2. Tok(Underscore) \in Texts /\ Starts(Tok(Underscore), Underscore)
    BY <1>1, Texting, StartsIs
  <2> QED BY <1>1, <2>1, <2>2 DEF Begins
<1> QED BY <1>2, <1>3

LEMMA PositionsApart ==
    ASSUME NEW f, NEW g, Sound(f), Sound(g), f.kind = "field", g.kind # "field", NEW x \in Texts, NEW y \in Texts
    PROVE  Cat(Position(f), x) # Cat(Position(g), y)
<1>1. PICK u \in Texts, t \in Texts : u = ty[f.type] /\ t = Tok(Pub)
  BY MarksIn, TyIs, Texting DEF Sound
<1>2. PICK v \in Texts : v = Cat(u, x)
  BY Texting
<1>3. Cat(Position(f), x) = Cat(Tok(Pub), v)
  <2>1. Position(f) = Cat(t, u)
    BY <1>1 DEF Position
  <2>2. Cat(Cat(t, u), x) = Cat(t, Cat(u, x))
    BY Texting
  <2> QED BY <1>1, <1>2, <2>1, <2>2
<1>4. Cat(Position(g), y) = Cat(Tok(Underscore), y)
  BY DEF Position
<1>5. Cat(Tok(Pub), v) # Cat(Tok(Underscore), y)
  BY MarksIn, Peeling
<1> QED BY <1>3, <1>4, <1>5

LEMMA PositionRead ==
    ASSUME NEW f, NEW g, Sound(f), Sound(g), f.kind = "field" => ~prolonged[f.type]
    PROVE  /\ Parted(Position(f), Position(g), Followers(Comma))
           /\ Position(f) = Position(g) =>
                 /\ f.kind = "field" <=> g.kind = "field"
                 /\ f.kind = "field" => alike[<<f.type, g.type>>]
<1>1. Followers(Comma) \subseteq Texts
  BY FollowersAre
<1>2. CASE f.kind = "field" /\ g.kind = "field"
  <2>1. PICK c \in Nodes, d \in Nodes : c = f.type /\ d = g.type /\ c.k \in Types /\ d.k \in Types /\ ~prolonged[c]
    BY <1>2 DEF Sound
  <2>2. Reads(c, d)
    <3>1. SameSort(c, d)
      BY <2>1 DEF SameSort, Terms
    <3> QED BY <2>1, <3>1, AllRead
  <2>3. \A x \in Followers(Comma) : Ready(c, x)
    <3>1. Comma # Plus
      BY EndsApart
    <3> QED BY <3>1, ReadyIs DEF Followers
  <2>4. Parted(ty[c], ty[d], Followers(Comma)) /\ (ty[c] = ty[d] => alike[<<c, d>>])
    BY <1>1, <2>2, <2>3, ReadsParts
  <2>5. PICK u \in Texts, v \in Texts, t \in Texts : u = ty[c] /\ v = ty[d] /\ t = Tok(Pub)
    BY MarksIn, TyIs, Texting
  <2>6. Position(f) = Cat(t, u) /\ Position(g) = Cat(t, v)
    BY <1>2, <2>1, <2>5 DEF Position
  <2>7. Parted(Cat(t, u), Cat(t, v), Followers(Comma))
    <3>1. SUFFICES ASSUME NEW x \in Followers(Comma), NEW y \in Followers(Comma),
                          Cat(Cat(t, u), x) = Cat(Cat(t, v), y)
                   PROVE  u = v
      BY DEF Parted
    <3>2. x \in Texts /\ y \in Texts
      BY <1>1
    <3>3. Cat(u, x) \in Texts /\ Cat(v, y) \in Texts
      BY <3>2, Texting
    <3>4. Cat(t, Cat(u, x)) = Cat(t, Cat(v, y))
      BY <3>1, <3>2, Texting
    <3>5. Cat(u, x) = Cat(v, y)
      BY <3>3, <3>4, Peeling
    <3> QED BY <2>4, <2>5, <3>5 DEF Parted
  <2>8. Cat(t, u) = Cat(t, v) => u = v
    BY Peeling
  <2> QED BY <1>2, <2>1, <2>4, <2>5, <2>6, <2>7, <2>8
<1>3. CASE f.kind # "field" /\ g.kind # "field"
  BY <1>3 DEF Position, Parted
<1>4. CASE ~(f.kind = "field" <=> g.kind = "field")
  <2>1. \A x \in Texts, y \in Texts : Cat(Position(f), x) # Cat(Position(g), y)
    BY <1>4, PositionsApart
  <2>2. Parted(Position(f), Position(g), Followers(Comma))
    BY <1>1, <2>1 DEF Parted
  <2>3. Position(f) # Position(g)
    <3>1. None \in Texts /\ Position(f) \in Texts /\ Position(g) \in Texts
      BY PositionIs, Texting
    <3>2. Cat(Position(f), None) = Position(f) /\ Cat(Position(g), None) = Position(g)
      BY <3>1, Texting
    <3> QED BY <2>1, <3>1, <3>2
  <2> QED BY <2>2, <2>3
<1> QED BY <1>2, <1>3, <1>4

SameSlots(s, u) ==
    /\ Len(s) = Len(u)
    /\ \A i \in DOMAIN s :
          /\ s[i].kind = "field" <=> u[i].kind = "field"
          /\ s[i].kind = "field" => alike[<<s[i].type, u[i].type>>]

LEMMA SlotsRead ==
    ASSUME NEW S, NEW s \in Seq(S), NEW T, NEW u \in Seq(T), \A f \in S \cup T : Sound(f),
           \A i \in DOMAIN s : s[i].kind = "field" => ~prolonged[s[i].type],
           Together(Slots(s), Comma) = Together(Slots(u), Comma)
    PROVE  SameSlots(s, u)
<1>1. (\A i \in DOMAIN s : Sound(s[i])) /\ (\A i \in DOMAIN u : Sound(u[i]))
  <2>1. (\A i \in DOMAIN s : s[i] \in S) /\ (\A i \in DOMAIN u : u[i] \in T)
    OBVIOUS
  <2> QED BY <2>1
<1>2. ASSUME NEW R, NEW r \in Seq(R), \A i \in DOMAIN r : Sound(r[i])
      PROVE  /\ Slots(r) \in Seq(Texts) /\ DOMAIN Slots(r) = DOMAIN r
             /\ \A i \in DOMAIN r : Slots(r)[i] = Position(r[i]) /\ Begins(Slots(r)[i])
  <2>1. \A i \in DOMAIN r : Position(r[i]) \in Texts /\ Begins(Position(r[i]))
    BY <1>2, PositionIs
  <2>2. DOMAIN r = 1..Len(r) /\ Len(r) \in Nat
    OBVIOUS
  <2> QED BY <2>1, <2>2 DEF Slots
<1>3. PICK p, q : p = Slots(s) /\ q = Slots(u)
  OBVIOUS
<1>4. /\ p \in Seq(Texts) /\ DOMAIN p = DOMAIN s /\ \A i \in DOMAIN s : p[i] = Position(s[i]) /\ Begins(p[i])
  BY <1>1, <1>2, <1>3
<1>5. /\ q \in Seq(Texts) /\ DOMAIN q = DOMAIN u /\ \A i \in DOMAIN u : q[i] = Position(u[i]) /\ Begins(q[i])
  BY <1>1, <1>2, <1>3
<1>6. PartedLists(p, q, Comma, Followers(Comma))
  <2>1. \A i \in DOMAIN p, j \in DOMAIN q : Parted(p[i], q[j], Followers(Comma))
    <3>1. SUFFICES ASSUME NEW i \in DOMAIN p, NEW j \in DOMAIN q
                   PROVE  Parted(p[i], q[j], Followers(Comma))
      OBVIOUS
    <3>2. PICK f, g : f = s[i] /\ g = u[j]
      OBVIOUS
    <3>3. Sound(f) /\ Sound(g) /\ (f.kind = "field" => ~prolonged[f.type])
      BY <1>1, <1>4, <1>5, <3>1, <3>2
    <3>4. p[i] = Position(f) /\ q[j] = Position(g)
      BY <1>4, <1>5, <3>1, <3>2
    <3> QED BY <3>3, <3>4, PositionRead
  <2> QED BY <1>4, <1>5, <2>1, FollowersAre DEF PartedLists
<1>7. None \in Over(Comma, Followers(Comma)) /\ Stops(None)
  <2>1. Comma \in Strings /\ Plus \in Strings
    BY TokensIn
  <2>2. Closes(Comma, None)
    BY <2>1, StopsIs, StartsIs DEF Closes
  <2> QED BY <2>2, FollowersAre, StopsIs
<1>8. Cat(Together(p, Comma), None) = Cat(Together(q, Comma), None)
  BY <1>3
<1>9. p = q
  BY <1>4, <1>5, <1>6, <1>7, <1>8, ListsRead
<1>10. DOMAIN s = DOMAIN u /\ \A i \in DOMAIN s : Position(s[i]) = Position(u[i])
  BY <1>4, <1>5, <1>9
<1>11. Len(s) = Len(u)
  BY <1>10
<1>12. \A i \in DOMAIN s : /\ s[i].kind = "field" <=> u[i].kind = "field"
                           /\ s[i].kind = "field" => alike[<<s[i].type, u[i].type>>]
  BY <1>1, <1>10, PositionRead
<1> QED BY <1>11, <1>12 DEF SameSlots

\* A tuple struct as it is declared.
TupleLine(it) ==
    Cat(Cat(Triple(PubStruct, Name(it), OpenParen), Together(Slots(it.of), Comma)), Tok(EndOfTuple))

\* What an item lists, and of which types.
LEMMA FieldsSound ==
    ASSUME NEW it \in Subjects, it.kind \in {"struct", "union"}
    PROVE  it.of \in Seq(Below(it)) /\ \A f \in Below(it) : Sound(f)
<1>1. it.of \in Seq(Below(it))
  BY ItemsAssumption, Zenon
<1>2. \A f \in Below(it) : Sound(f)
  BY ItemIs DEF Sound
<1> QED BY <1>1, <1>2

LEMMA TuplesRead ==
    ASSUME NEW a \in Subjects, NEW b \in Subjects, a.kind = "struct", b.kind = "struct", Clear(a),
           TupleLine(a) = TupleLine(b)
    PROVE  SameSlots(a.of, b.of)
<1>1. /\ a.of \in Seq(Below(a)) /\ b.of \in Seq(Below(b)) /\ \A f \in Below(a) \cup Below(b) : Sound(f)
  BY FieldsSound
<1>2. Name(a) \in Strings /\ Name(b) \in Strings /\ PubStruct \in Strings /\ OpenParen \in Strings
  BY ItemIs, MarksIn, TokensIn
<1>3. ASSUME NEW S, NEW s \in Seq(S), \A f \in S : Sound(f) PROVE Together(Slots(s), Comma) \in Texts
  <2>1. Slots(s) \in Seq(Texts)
    <3>1. \A i \in DOMAIN s : Position(s[i]) \in Texts
      <4>1. \A i \in DOMAIN s : s[i] \in S
        OBVIOUS
      <4> QED BY <1>3, <4>1, PositionIs
    <3> QED BY <3>1 DEF Slots
  <2> QED BY <2>1, TogetherIn, TokensIn
<1>4. PICK u \in Texts, v \in Texts, e \in Texts, h \in Texts, i \in Texts :
          /\ u = Together(Slots(a.of), Comma) /\ v = Together(Slots(b.of), Comma) /\ e = Tok(EndOfTuple)
          /\ h = Triple(PubStruct, Name(a), OpenParen) /\ i = Triple(PubStruct, Name(b), OpenParen)
  <2>1. Together(Slots(a.of), Comma) \in Texts /\ Together(Slots(b.of), Comma) \in Texts
    BY <1>1, <1>3
  <2>2. Tok(EndOfTuple) \in Texts
    BY MarksIn, Texting
  <2> QED BY <1>2, <2>1, <2>2, TripleIs
<1>5. Cat(h, u) = Cat(i, v)
  <2>1. Cat(Cat(h, u), e) = Cat(Cat(i, v), e)
    BY <1>4 DEF TupleLine
  <2>2. Cat(h, u) \in Texts /\ Cat(i, v) \in Texts
    BY Texting
  <2> QED BY <2>1, <2>2, Peeling
<1>6. u = v
  BY <1>2, <1>4, <1>5, TripleRead
<1>7. \A n \in DOMAIN a.of : a.of[n].kind = "field" => ~prolonged[a.of[n].type]
  BY Zenon DEF Clear, Below
<1>8. PICK s, t, S, T : s = a.of /\ t = b.of /\ S = Below(a) /\ T = Below(b)
  OBVIOUS
<1>9. /\ s \in Seq(S) /\ t \in Seq(T) /\ \A f \in S \cup T : Sound(f)
      /\ \A j \in DOMAIN s : s[j].kind = "field" => ~prolonged[s[j].type]
  BY <1>1, <1>7, <1>8
<1>10. Together(Slots(s), Comma) = Together(Slots(t), Comma)
  BY <1>4, <1>6, <1>8
<1>11. SameSlots(s, t)
  BY <1>9, <1>10, SlotsRead
<1> QED BY <1>8, <1>11

-----------------------------------------------------------------------------
(* The code on a page                                                      *)

LEMMA FlatJoint ==
    ASSUME NEW S, NEW p \in Seq(Seq(S)), NEW q \in Seq(Seq(S))
    PROVE  FlattenSeq(p \o q) = FlattenSeq(p) \o FlattenSeq(q)
<1>1. FlattenSeq(p) \in Seq(S) /\ FlattenSeq(q) \in Seq(S)
  BY FlatIn
<1>2. CASE p = <<>>
  <2>1. p \o q = q /\ <<>> \o FlattenSeq(q) = FlattenSeq(q)
    BY <1>1, <1>2, ConcatEmptySeq
  <2> QED BY <1>2, <2>1, FlatOfNone
<1>3. CASE q = <<>>
  <2>1. p \o q = p /\ FlattenSeq(p) \o <<>> = FlattenSeq(p)
    BY <1>1, <1>3, ConcatEmptySeq
  <2> QED BY <1>3, <2>1, FlatOfNone
<1>4. CASE p # <<>> /\ q # <<>>
  <2>1. PICK m \in Nat, n \in Nat, r \in {p \o q} : m = Len(p) /\ n = Len(q) /\ m >= 1 /\ n >= 1 /\ r = p \o q
    <3>1. Len(p) \in Nat /\ Len(p) # 0 /\ Len(q) \in Nat /\ Len(q) # 0
      BY <1>4, Length
    <3>2. Len(p) >= 1 /\ Len(q) >= 1
      BY <3>1
    <3> QED BY <3>1, <3>2
  <2>2. /\ r \in Seq(Seq(S)) /\ Len(r) = m + n
        /\ \A i \in 1..m : r[i] = p[i]
        /\ \A i \in 1..n : r[m + i] = q[i]
    BY <2>1, Joint
  <2>3. r # <<>>
    <3>1. Len(r) # 0
      BY <2>1, <2>2
    <3> QED BY <2>2, <3>1, Length
  <2>4. PICK f, g, h : Puts(f, r, S) /\ Puts(g, p, S) /\ Puts(h, q, S)
    BY <1>4, <2>2, <2>3, Flattens
  <2>5. /\ FlattenSeq(r) = f[m + n] /\ f[1] = r[1] /\ f \in [1..(m + n) -> Seq(S)]
        /\ \A i \in 2..(m + n) : f[i] = f[i - 1] \o r[i]
    BY <2>2, <2>4 DEF Puts, InTurn
  <2>6. /\ FlattenSeq(q) = h[n] /\ h[1] = q[1] /\ h \in [1..n -> Seq(S)]
        /\ \A i \in 2..n : h[i] = h[i - 1] \o q[i]
    BY <2>1, <2>4 DEF Puts, InTurn
  <2>7. f[m] = FlattenSeq(p)
    <3>1. f[1] = p[1]
      <4>1. 1 \in 1..m
        BY <2>1
      <4> QED BY <2>2, <2>5, <4>1
    <3>2. ASSUME NEW i \in 2..m PROVE f[i] = f[i - 1] \o p[i]
      <4>1. i \in 2..(m + n) /\ i \in 1..m
        BY <2>1
      <4> QED BY <2>2, <2>5, <4>1
    <3>3. InTurn(f, p, m)
      BY <3>1, <3>2 DEF InTurn
    <3>4. InTurn(g, p, m) /\ FlattenSeq(p) = g[m]
      BY <2>1, <2>4 DEF Puts
    <3> QED BY <2>1, <3>3, <3>4, OneFlattening
  <2> DEFINE P == {i \in 1..n : f[m + i] = f[m] \o h[i]}
  <2>8. 1 \in P
    <3>1. m + 1 \in 2..(m + n) /\ (m + 1) - 1 = m /\ 1 \in 1..n
      BY <2>1
    <3>2. f[m + 1] = f[m] \o r[m + 1]
      BY <2>5, <3>1
    <3>3. f[m + 1] = f[m] \o h[1]
      BY <2>2, <2>6, <3>1, <3>2
    <3> QED BY <3>1, <3>3
  <2>9. ASSUME NEW i \in 2..n, i - 1 \in P PROVE i \in P
    <3>1. /\ i \in 1..n /\ i - 1 \in 1..n /\ m + i \in 2..(m + n) /\ (m + i) - 1 = m + (i - 1)
          /\ m \in 1..(m + n) /\ i \in 1..Len(q)
      BY <2>1
    <3>2. f[m + i] = f[m + (i - 1)] \o r[m + i]
      BY <2>5, <3>1
    <3>3. f[m + (i - 1)] = f[m] \o h[i - 1]
      BY <2>9
    <3>4. r[m + i] = q[i]
      BY <2>2, <3>1
    <3>5. h[i] = h[i - 1] \o q[i]
      BY <2>6
    <3>6. PICK a \in Seq(S), b \in Seq(S), c \in Seq(S) : a = f[m] /\ b = h[i - 1] /\ c = q[i]
      <4>1. f[m] \in Seq(S)
        BY <2>5, <3>1
      <4>2. h[i - 1] \in Seq(S)
        BY <2>6, <3>1
      <4>3. q[i] \in Seq(S)
        BY <3>1
      <4> QED BY <4>1, <4>2, <4>3
    <3>7. (a \o b) \o c = a \o (b \o c)
      BY ConcatAssociative
    <3>8. f[m + i] = f[m] \o h[i]
      BY <3>2, <3>3, <3>4, <3>5, <3>6, <3>7, Zenon
    <3> QED BY <3>1, <3>8
  <2>10. 1..n \subseteq P
    <3> HIDE DEF P
    <3> QED BY <2>8, <2>9, Upwards
  <2>11. n \in P
    <3>1. n \in 1..n
      BY <2>1
    <3> HIDE DEF P
    <3> QED BY <2>10, <3>1
  <2> QED BY <2>1, <2>5, <2>6, <2>7, <2>11
<1> QED BY <1>2, <1>3, <1>4

\* What a loop of one each puts together is what it went through.
LEMMA FlatOfEach ==
    ASSUME NEW S, NEW x \in Seq(S), NEW p, p = [i \in DOMAIN x |-> <<x[i]>>]
    PROVE  FlattenSeq(p) = x
<1>1. PICK n \in Nat : n = Len(x)
  BY Length
<1>2. p \in Seq(Seq(S)) /\ Len(p) = n /\ \A i \in 1..n : p[i] = <<x[i]>> /\ x[i] \in S
  <2>1. DOMAIN x = 1..n /\ \A i \in 1..n : x[i] \in S
    BY <1>1
  <2>2. \A i \in 1..n : <<x[i]>> \in Seq(S)
    BY <2>1
  <2> QED BY <2>1, <2>2
<1>3. CASE n = 0
  <2>1. x = <<>> /\ p = <<>>
    BY <1>1, <1>2, <1>3, Length
  <2> QED BY <2>1, FlatOfNone
<1>4. CASE n # 0
  <2>1. p # <<>> /\ n >= 1
    BY <1>2, <1>4, Length
  <2>2. PICK f : Puts(f, p, S)
    BY <1>2, <2>1, Flattens
  <2>3. /\ FlattenSeq(p) = f[n] /\ f[1] = p[1] /\ f \in [1..n -> Seq(S)]
        /\ \A i \in 2..n : f[i] = f[i - 1] \o p[i]
    BY <1>2, <2>2 DEF Puts, InTurn
  <2> DEFINE P == {i \in 1..n : Len(f[i]) = i /\ \A j \in 1..i : f[i][j] = x[j]}
  <2>4. 1 \in P
    <3>1. 1 \in 1..n /\ \A j \in 1..1 : j = 1
      BY <2>1
    <3>2. f[1] = <<x[1]>>
      BY <1>2, <2>3, <3>1
    <3>3. Len(f[1]) = 1 /\ f[1][1] = x[1]
      BY <3>2
    <3> QED BY <3>1, <3>3
  <2>5. ASSUME NEW i \in 2..n, i - 1 \in P PROVE i \in P
    <3>1. i \in 1..n /\ i - 1 \in 1..n /\ (i - 1) + 1 = i
      OBVIOUS
    <3>2. PICK u \in Seq(S), v \in Seq(S) : u = f[i - 1] /\ v = <<x[i]>> /\ f[i] = u \o v
      <4>1. x[i] \in S /\ p[i] = <<x[i]>>
        BY <1>2, <3>1
      <4>2. <<x[i]>> \in Seq(S)
        BY <4>1
      <4> QED BY <2>3, <3>1, <4>1, <4>2
    <3>3. Len(u) = i - 1 /\ \A j \in 1..(i - 1) : u[j] = x[j]
      BY <2>5, <3>2
    <3>4. Len(v) = 1 /\ v[1] = x[i]
      BY <3>2
    <3>5. Len(f[i]) = i /\ (\A j \in 1..(i - 1) : f[i][j] = u[j]) /\ f[i][(i - 1) + 1] = v[1]
      BY <3>1, <3>2, <3>3, <3>4, Joint
    <3>6. \A j \in 1..i : j \in 1..(i - 1) \/ j = i
      BY <3>1
    <3>7. \A j \in 1..i : f[i][j] = x[j]
      BY <3>1, <3>3, <3>4, <3>5, <3>6
    <3> QED BY <3>1, <3>5, <3>7
  <2>6. 1..n \subseteq P
    <3> HIDE DEF P
    <3> QED BY <2>4, <2>5, Upwards
  <2>7. n \in P /\ f[n] \in Seq(S)
    <3>1. n \in 1..n
      BY <2>1
    <3> HIDE DEF P
    <3> QED BY <2>3, <2>6, <3>1
  <2> QED BY <1>1, <2>3, <2>7, SeqEqual
<1> QED BY <1>3, <1>4

IsCode(block) == block.b = "code"

CodeParts(x) == [i \in DOMAIN x |-> If(IsCode(x[i]), <<x[i]>>)]

LEMMA CodeIs ==
    ASSUME NEW S, NEW x \in Seq(S)
    PROVE  /\ CodeParts(x) \in Seq(Seq(S)) /\ Len(CodeParts(x)) = Len(x) /\ Code(x) = FlattenSeq(CodeParts(x))
           /\ \A i \in 1..Len(x) : CodeParts(x)[i] = IF IsCode(x[i]) THEN <<x[i]>> ELSE <<>>
<1>1. Code(x) = FlattenSeq(CodeParts(x))
  BY DEF Code, Those, Each, CodeParts, IsCode
<1>2. DOMAIN x = 1..Len(x) /\ Len(x) \in Nat
  BY Length
<1>3. \A i \in 1..Len(x) : CodeParts(x)[i] = IF IsCode(x[i]) THEN <<x[i]>> ELSE <<>>
  BY <1>2 DEF CodeParts, If
<1>4. \A i \in 1..Len(x) : CodeParts(x)[i] \in Seq(S)
  <2>1. ASSUME NEW i \in 1..Len(x) PROVE <<x[i]>> \in Seq(S) /\ <<>> \in Seq(S)
    <3>1. x[i] \in S
      BY <1>2
    <3> QED BY <3>1
  <2> QED BY <1>3, <2>1
<1>5. CodeParts(x) = [i \in 1..Len(x) |-> CodeParts(x)[i]]
  BY <1>2 DEF CodeParts
<1>6. CodeParts(x) \in Seq(Seq(S)) /\ Len(CodeParts(x)) = Len(x)
  <2>1. PICK p : p = CodeParts(x)
    OBVIOUS
  <2>2. p = [i \in 1..Len(x) |-> p[i]] /\ \A i \in 1..Len(x) : p[i] \in Seq(S)
    BY <1>4, <1>5, <2>1
  <2> QED BY <1>2, <2>1, <2>2
<1> QED BY <1>1, <1>3, <1>6

LEMMA CodeJoint ==
    ASSUME NEW x, NEW y, Row(x), Row(y)
    PROVE  Code(x \o y) = Code(x) \o Code(y)
<1>1. PICK S : x \in Seq(S) /\ y \in Seq(S)
  BY RowsTogether
<1>2. PICK z : z = x \o y /\ z \in Seq(S)
  BY <1>1, Joint
<1>3. PICK m \in Nat, n \in Nat : m = Len(x) /\ n = Len(y)
  BY <1>1, Length
<1>4. /\ Len(z) = m + n /\ \A i \in 1..m : z[i] = x[i]
      /\ \A i \in 1..n : z[m + i] = y[i]
  BY <1>1, <1>2, <1>3, Joint
<1>5. PICK p \in Seq(Seq(S)), q \in Seq(Seq(S)), r \in Seq(Seq(S)) :
          p = CodeParts(x) /\ q = CodeParts(y) /\ r = CodeParts(z)
  BY <1>1, <1>2, CodeIs
<1>6. Len(p) = m /\ Len(q) = n /\ Len(r) = m + n
  BY <1>1, <1>2, <1>3, <1>4, <1>5, CodeIs
<1>7. PICK s \in Seq(Seq(S)) :
          /\ s = p \o q /\ Len(s) = m + n
          /\ \A i \in 1..m : s[i] = p[i]
          /\ \A i \in 1..n : s[m + i] = q[i]
  <2>1. PICK s : s = p \o q
    OBVIOUS
  <2>2. /\ s \in Seq(Seq(S)) /\ Len(s) = Len(p) + Len(q)
        /\ \A i \in 1..Len(p) : s[i] = p[i]
        /\ \A i \in 1..Len(q) : s[Len(p) + i] = q[i]
    BY <2>1, Joint
  <2> QED BY <1>6, <2>1, <2>2
<1>8. ASSUME NEW i \in 1..m PROVE r[i] = p[i]
  <2>1. r[i] = IF IsCode(z[i]) THEN <<z[i]>> ELSE <<>>
    <3>1. i \in 1..Len(z)
      BY <1>4
    <3> QED BY <1>2, <1>5, <3>1, CodeIs
  <2>2. p[i] = IF IsCode(x[i]) THEN <<x[i]>> ELSE <<>>
    BY <1>1, <1>3, <1>5, CodeIs
  <2>3. z[i] = x[i]
    BY <1>4
  <2> QED BY <2>1, <2>2, <2>3
<1>9. ASSUME NEW i \in 1..n PROVE r[m + i] = q[i]
  <2>1. r[m + i] = IF IsCode(z[m + i]) THEN <<z[m + i]>> ELSE <<>>
    <3>1. m + i \in 1..Len(z)
      BY <1>4
    <3> QED BY <1>2, <1>5, <3>1, CodeIs
  <2>2. q[i] = IF IsCode(y[i]) THEN <<y[i]>> ELSE <<>>
    BY <1>1, <1>3, <1>5, CodeIs
  <2>3. z[m + i] = y[i]
    BY <1>4
  <2> QED BY <2>1, <2>2, <2>3
<1>10. r = s
  <2>1. ASSUME NEW k \in 1..(m + n) PROVE r[k] = s[k]
    <3>1. CASE k \in 1..m
      BY <1>7, <1>8, <3>1
    <3>2. CASE k \notin 1..m
      <4>1. PICK i \in 1..n : k = m + i
        <5>1. k - m \in 1..n /\ k = m + (k - m)
          BY <3>2
        <5> QED BY <5>1
      <4> QED BY <1>7, <1>9, <4>1
    <3> QED BY <3>1, <3>2
  <2> QED BY <1>6, <1>7, <2>1, SeqEqual
<1>11. FlattenSeq(p \o q) = FlattenSeq(p) \o FlattenSeq(q)
  BY FlatJoint
<1>12. Code(x) = FlattenSeq(p) /\ Code(y) = FlattenSeq(q) /\ Code(z) = FlattenSeq(r)
  BY <1>1, <1>2, <1>5, CodeIs
<1> QED BY <1>2, <1>7, <1>10, <1>11, <1>12

\* No block is code.
Quiet(x) == Row(x) /\ \A i \in 1..Len(x) : ~IsCode(x[i])

LEMMA QuietCode == ASSUME NEW x, Quiet(x) PROVE Code(x) = <<>>
<1>1. PICK S : x \in Seq(S)
  BY DEF Quiet, Row
<1>2. PICK p : p = CodeParts(x)
  OBVIOUS
<1>3. Len(p) = Len(x) /\ Row(p) /\ \A i \in 1..Len(p) : p[i] = <<>>
  BY <1>1, <1>2, CodeIs, RowFits DEF Quiet
<1>4. Rows(p) /\ \A i \in 1..Len(p) : 1..Len(p[i]) = {}
  <2>1. Row(<<>>) /\ 1..Len(<<>>) = {}
    <3>1. Row(<<>>)
      BY OneRow
    <3>2. 1..Len(<<>>) = {}
      OBVIOUS
    <3> QED BY <3>1, <3>2
  <2>2. \A i \in 1..Len(p) : Row(p[i]) /\ 1..Len(p[i]) = {}
    BY <1>3, <2>1
  <2> QED BY <1>3, <2>2 DEF Rows
<1>5. PICK T : /\ p \in Seq(Seq(T))
               /\ \A b \in T : \E i \in 1..Len(p) : \E j \in 1..Len(p[i]) : b = p[i][j]
  BY <1>4, RowsAre
<1>6. T = {}
  BY <1>4, <1>5
<1>7. FlattenSeq(p) \in Seq({})
  BY <1>5, <1>6, FlatIn
<1>8. FlattenSeq(p) = <<>>
  <2>1. PICK z : z = FlattenSeq(p) /\ z \in Seq({})
    BY <1>7
  <2>2. z = <<>>
    <3>1. Len(z) \in Nat /\ \A i \in 1..Len(z) : z[i] \in {}
      BY <2>1
    <3>2. Len(z) = 0
      <4>1. SUFFICES ASSUME Len(z) # 0 PROVE FALSE
        OBVIOUS
      <4>2. 1 \in 1..Len(z)
        BY <3>1, <4>1
      <4> QED BY <3>1, <4>2
    <3> QED BY <2>1, <3>2, Length
  <2> QED BY <2>1, <2>2
<1> QED BY <1>1, <1>2, <1>8, CodeIs

LEMMA AllCode ==
    ASSUME NEW x, Row(x), \A i \in 1..Len(x) : IsCode(x[i])
    PROVE  Code(x) = x
<1>1. PICK S : x \in Seq(S)
  BY DEF Row
<1>2. DOMAIN x = 1..Len(x)
  BY <1>1
<1>3. PICK p : p = [i \in DOMAIN x |-> <<x[i]>>]
  OBVIOUS
<1>4. CodeParts(x) = p
  BY <1>2, <1>3 DEF CodeParts, If
<1>5. FlattenSeq(p) = x
  BY <1>1, <1>3, FlatOfEach
<1> QED BY <1>1, <1>4, <1>5, CodeIs

LEMMA QuietJoint == ASSUME NEW x, NEW y, Quiet(x), Quiet(y) PROVE Quiet(x \o y)
<1>1. Row(x) /\ Row(y)
  BY DEF Quiet
<1>2. ASSUME NEW k \in 1..Len(x \o y) PROVE ~IsCode((x \o y)[k])
  <2>1. CASE k \in 1..Len(x)
    BY <1>1, <2>1, RowJoint DEF Quiet
  <2>2. CASE k - Len(x) \in 1..Len(y) /\ k = Len(x) + (k - Len(x))
    <3>1. PICK i \in 1..Len(y) : k = Len(x) + i
      BY <2>2
    <3>2. (x \o y)[k] = y[i]
      BY <1>1, <3>1, RowJoint
    <3> QED BY <3>2 DEF Quiet
  <2> QED BY <1>1, <2>1, <2>2, RowJoint
<1> QED BY <1>1, <1>2, RowJoint DEF Quiet

LEMMA OneQuiet == ASSUME NEW b, ~IsCode(b) PROVE Quiet(<<b>>) /\ Quiet(<<>>)
<1>1. Row(<<b>>) /\ Len(<<b>>) = 1 /\ <<b>>[1] = b /\ Row(<<>>)
  BY OneRow
<1>2. (\A i \in 1..1 : i = 1) /\ \A i \in 1..Len(<<>>) : FALSE
  OBVIOUS
<1> QED BY <1>1, <1>2 DEF Quiet

LEMMA FlatQuiet ==
    ASSUME NEW p, Row(p), \A i \in 1..Len(p) : Quiet(p[i]) PROVE Quiet(FlattenSeq(p))
<1>1. Rows(p)
  BY DEF Rows, Quiet
<1>2. PICK S : /\ p \in Seq(Seq(S))
               /\ \A b \in S : \E i \in 1..Len(p) : \E j \in 1..Len(p[i]) : b = p[i][j]
  BY <1>1, RowsAre
<1>3. \A b \in S : ~IsCode(b)
  BY <1>2 DEF Quiet
<1>4. PICK z : z = FlattenSeq(p) /\ z \in Seq(S)
  BY <1>2, FlatIn
<1>5. \A i \in 1..Len(z) : z[i] \in S
  BY <1>4
<1> QED BY <1>3, <1>4, <1>5 DEF Quiet, Row

LEMMA QuietBlocks ==
    /\ \A t : ~IsCode(Block("open", t)) /\ ~IsCode(Block("close", t)) /\ ~IsCode(Block("h1", t))
    /\ \A t : ~IsCode(Block("h2", t)) /\ ~IsCode(Block("h3", t)) /\ IsCode(Block("code", t))
    /\ \A d : ~IsCode(Told("docs", <<>>, d))
BY DEF IsCode, Block, Told

LEMMA DocsQuiet == ASSUME NEW it PROVE Quiet(Docs(it))
BY QuietBlocks, OneQuiet DEF Docs, If

LEMMA FieldDocsQuiet == ASSUME NEW it, Row(it.of) PROVE Quiet(FieldDocs(it))
<1>1. PICK s : s = Those(Indexed(it.of), HasDocs) /\ Row(s)
  BY IndexedRow, DocumentedRow
<1>2. PICK p : p = [i \in DOMAIN s |-> <<Block("h3", NameAndType(s[i]))>> \o Docs(s[i])]
  OBVIOUS
<1>3. p = [i \in DOMAIN s |-> p[i]] /\ DOMAIN s = 1..Len(s)
  BY <1>1, <1>2, RowIs
<1>4. Row(p) /\ Len(p) = Len(s)
  BY <1>1, <1>3, Loop
<1>5. \A i \in 1..Len(p) : Quiet(p[i])
  <2>1. ASSUME NEW i \in 1..Len(p) PROVE Quiet(p[i])
    <3>1. Quiet(<<Block("h3", NameAndType(s[i]))>>)
      BY QuietBlocks, OneQuiet
    <3>2. Quiet(<<Block("h3", NameAndType(s[i]))>> \o Docs(s[i]))
      BY <3>1, DocsQuiet, QuietJoint
    <3> QED BY <1>2, <1>3, <1>4, <3>2
  <2> QED BY <2>1
<1>6. Quiet(FlattenSeq(p))
  BY <1>4, <1>5, FlatQuiet
<1>7. PICK h : h = Block("h2", <<"Fields">>) /\ Quiet(<<h>>) /\ Quiet(<<>>)
  BY QuietBlocks, OneQuiet
<1>8. Quiet(<<h>> \o FlattenSeq(p))
  BY <1>6, <1>7, QuietJoint
<1>9. FieldDocs(it) = If(it.form = "plain" /\ s # <<>>, <<h>> \o FlattenSeq(p))
  BY <1>1, <1>2, <1>7 DEF FieldDocs, Each
<1> QED BY <1>7, <1>8, <1>9 DEF If

\* The lines of a fence as blocks.
Coded(lines) == [i \in DOMAIN lines |-> Block("code", lines[i])]

LEMMA CodedIs ==
    ASSUME NEW lines, Row(lines)
    PROVE  Row(Coded(lines)) /\ Len(Coded(lines)) = Len(lines) /\ Code(Coded(lines)) = Coded(lines)
<1>1. PICK c : c = Coded(lines)
  OBVIOUS
<1>2. DOMAIN lines = 1..Len(lines) /\ c = [i \in DOMAIN lines |-> c[i]]
  BY <1>1, RowIs DEF Coded
<1>3. Row(c) /\ Len(c) = Len(lines)
  BY <1>2, Loop
<1>4. \A i \in 1..Len(c) : IsCode(c[i])
  BY <1>1, <1>2, <1>3, QuietBlocks DEF Coded
<1> QED BY <1>1, <1>3, <1>4, AllCode

LEMMA FenceCode ==
    ASSUME NEW lines, Row(lines)
    PROVE  Row(Fence(lines)) /\ Code(Fence(lines)) = Coded(lines)
<1>1. PICK o, c, e : o = <<Block("open", <<>>)>> /\ c = Coded(lines) /\ e = <<Block("close", <<>>)>>
  OBVIOUS
<1>2. Quiet(o) /\ Quiet(e) /\ Row(o) /\ Row(e) /\ Row(c) /\ Code(c) = c
  BY <1>1, QuietBlocks, OneQuiet, CodedIs DEF Quiet
<1>3. Fence(lines) = (o \o c) \o e
  BY <1>1 DEF Fence, Coded
<1>4. Row(o \o c) /\ Code(o \o c) = Code(o) \o c
  BY <1>2, CodeJoint, RowJoint
<1>5. Row((o \o c) \o e) /\ Code((o \o c) \o e) = Code(o \o c) \o Code(e)
  BY <1>2, <1>4, CodeJoint, RowJoint
<1>6. Code(o) = <<>> /\ Code(e) = <<>>
  BY <1>2, QuietCode
<1>7. <<>> \o c = c /\ c \o <<>> = c
  <2>1. PICK S : c \in Seq(S)
    BY <1>2 DEF Row
  <2> QED BY <2>1, ConcatEmptySeq
<1> QED BY <1>1, <1>3, <1>4, <1>5, <1>6, <1>7

LEMMA QuietAside ==
    ASSUME NEW x, NEW y, Quiet(x), Row(y)
    PROVE  /\ Row(x \o y) /\ Code(x \o y) = Code(y)
           /\ Row(y \o x) /\ Code(y \o x) = Code(y)
<1>1. Row(x) /\ Code(x) = <<>>
  BY QuietCode DEF Quiet
<1>2. PICK c : c = Code(y)
  OBVIOUS
<1>3. \E S : c \in Seq(S)
  <2>1. PICK S : y \in Seq(S)
    BY DEF Row
  <2> QED BY <1>2, <2>1, CodeIs, FlatIn
<1>4. <<>> \o c = c /\ c \o <<>> = c
  BY <1>3, ConcatEmptySeq
<1>5. Code(x \o y) = <<>> \o c /\ Code(y \o x) = c \o <<>>
  <2>1. Code(x \o y) = Code(x) \o Code(y)
    BY <1>1, CodeJoint
  <2>2. Code(y \o x) = Code(y) \o Code(x)
    BY <1>1, CodeJoint
  <2> QED BY <1>1, <1>2, <2>1, <2>2
<1>6. Row(x \o y) /\ Row(y \o x)
  BY <1>1, RowJoint
<1> QED BY <1>2, <1>4, <1>5, <1>6

\* A page of one fence: before it is no code, nor after.
LEMMA PageCode ==
    ASSUME NEW it, it.kind # "missing", NEW lines, Row(lines), NEW rest, Quiet(rest),
           Body(it) = Fence(lines) \o rest
    PROVE  Code(Page(it)) = Coded(lines)
<1>1. PICK h, d, b : h = <<Block("h1", <<it.kind, " ", it.name>>)>> /\ d = Docs(it) /\ b = Body(it)
  OBVIOUS
<1>2. Quiet(h) /\ Quiet(d) /\ Row(h) /\ Row(d)
  BY <1>1, QuietBlocks, OneQuiet, DocsQuiet DEF Quiet
<1>3. Row(Fence(lines)) /\ Code(Fence(lines)) = Coded(lines)
  BY FenceCode
<1>4. Row(b) /\ Code(b) = Coded(lines)
  <2>1. Row(Fence(lines) \o rest) /\ Code(Fence(lines) \o rest) = Code(Fence(lines))
    BY <1>3, QuietAside
  <2> QED BY <1>1, <1>3, <2>1
<1>5. Row(d \o b) /\ Code(d \o b) = Code(b)
  BY <1>2, <1>4, QuietAside
<1>6. Code(h \o (d \o b)) = Code(d \o b)
  BY <1>2, <1>5, QuietAside
<1>7. Code(h \o (d \o b)) = Coded(lines)
  BY <1>4, <1>5, <1>6
<1> QED BY <1>1, <1>7 DEF Page

LEMMA CodedRead ==
    ASSUME NEW x, NEW y, Row(x), Row(y), Coded(x) = Coded(y)
    PROVE  x = y
<1>1. PICK S : x \in Seq(S) /\ y \in Seq(S)
  BY RowsTogether
<1>2. Len(x) = Len(y)
  BY CodedIs
<1>3. ASSUME NEW i \in 1..Len(x) PROVE x[i] = y[i]
  <2>1. i \in DOMAIN x /\ i \in DOMAIN y
    BY <1>1, <1>2
  <2>2. Coded(x)[i] = Block("code", x[i]) /\ Coded(y)[i] = Block("code", y[i])
    BY <2>1 DEF Coded
  <2>3. Block("code", x[i]).text = Block("code", y[i]).text
    BY <2>2
  <2> QED BY <2>3 DEF Block, Told
<1> QED BY <1>1, <1>2, <1>3, SeqEqual

-----------------------------------------------------------------------------
(* The fields of a struct or a union                                       *)

\* One for each of the other, as R relates them.
Twin(x, y, R) ==
    /\ Row(x) /\ Row(y) /\ Len(x) = Len(y)
    /\ \A i \in 1..Len(x) : <<x[i], y[i]>> \in R

LEMMA TwinJoint ==
    ASSUME NEW x, NEW y, NEW u, NEW v, NEW R, Twin(x, y, R), Twin(u, v, R)
    PROVE  Twin(x \o u, y \o v, R)
<1>1. PICK m \in Nat, n \in Nat : m = Len(x) /\ m = Len(y) /\ n = Len(u) /\ n = Len(v)
  BY RowIs DEF Twin
<1>2. /\ Row(x \o u) /\ Len(x \o u) = m + n
      /\ \A i \in 1..m : (x \o u)[i] = x[i]
      /\ \A i \in 1..n : (x \o u)[m + i] = u[i]
  BY <1>1, RowJoint DEF Twin
<1>3. /\ Row(y \o v) /\ Len(y \o v) = m + n
      /\ \A i \in 1..m : (y \o v)[i] = y[i]
      /\ \A i \in 1..n : (y \o v)[m + i] = v[i]
  BY <1>1, RowJoint DEF Twin
<1>4. ASSUME NEW k \in 1..(m + n) PROVE <<(x \o u)[k], (y \o v)[k]>> \in R
  <2>1. CASE k \in 1..m
    BY <1>1, <1>2, <1>3, <2>1 DEF Twin
  <2>2. CASE k \notin 1..m
    <3>1. PICK i \in 1..n : k = m + i
      <4>1. k - m \in 1..n /\ k = m + (k - m)
        BY <2>2
      <4> QED BY <4>1
    <3>2. (x \o u)[k] = u[i] /\ (y \o v)[k] = v[i]
      BY <1>2, <1>3, <3>1
    <3> QED BY <1>1, <3>2 DEF Twin
  <2> QED BY <2>1, <2>2
<1> QED BY <1>2, <1>3, <1>4 DEF Twin

LEMMA FlatTwins ==
    ASSUME NEW p, NEW q, NEW R, Row(p), Row(q), Len(p) = Len(q), \A i \in 1..Len(p) : Twin(p[i], q[i], R)
    PROVE  Twin(FlattenSeq(p), FlattenSeq(q), R)
<1>1. PICK n \in Nat : n = Len(p) /\ n = Len(q)
  BY RowIs
<1>2. CASE n = 0
  <2>1. p = <<>> /\ q = <<>>
    BY <1>1, <1>2, RowIs
  <2>2. Row(<<>>) /\ Len(<<>>) = 0 /\ \A i \in 1..Len(<<>>) : FALSE
    <3>1. Row(<<>>)
      BY OneRow
    <3>2. Len(<<>>) = 0 /\ \A i \in 1..Len(<<>>) : FALSE
      OBVIOUS
    <3> QED BY <3>1, <3>2
  <2>3. Twin(<<>>, <<>>, R)
    BY <2>2 DEF Twin
  <2> QED BY <2>1, <2>3, FlatOfNone
<1>3. CASE n # 0
  <2>1. PICK S, T : p \in Seq(Seq(S)) /\ q \in Seq(Seq(T))
    <3>1. Rows(p) /\ Rows(q)
      BY <1>1 DEF Rows, Twin
    <3> QED BY <3>1, RowsAre
  <2>2. p # <<>> /\ q # <<>> /\ n >= 1
    BY <1>1, <1>3, <2>1, Length
  <2>3. PICK f, g : Puts(f, p, S) /\ Puts(g, q, T)
    BY <2>1, <2>2, Flattens
  <2>4. /\ FlattenSeq(p) = f[n] /\ f[1] = p[1] /\ FlattenSeq(q) = g[n] /\ g[1] = q[1]
        /\ \A i \in 2..n : f[i] = f[i - 1] \o p[i] /\ g[i] = g[i - 1] \o q[i]
    BY <1>1, <2>3 DEF Puts, InTurn
  <2> DEFINE P == {i \in 1..n : Twin(f[i], g[i], R)}
  <2>5. 1 \in P
    BY <1>1, <2>2, <2>4
  <2>6. ASSUME NEW i \in 2..n, i - 1 \in P PROVE i \in P
    <3>1. i \in 1..n /\ Twin(f[i - 1], g[i - 1], R) /\ Twin(p[i], q[i], R)
      BY <1>1, <2>6
    <3>2. Twin(f[i - 1] \o p[i], g[i - 1] \o q[i], R)
      BY <3>1, TwinJoint
    <3> QED BY <2>4, <3>1, <3>2
  <2>7. 1..n \subseteq P
    <3> HIDE DEF P
    <3> QED BY <2>2, <2>5, <2>6, Upwards
  <2>8. n \in P
    <3>1. n \in 1..n
      BY <2>2
    <3> HIDE DEF P
    <3> QED BY <2>7, <3>1
  <2> QED BY <2>4, <2>8
<1> QED BY <1>2, <1>3

FieldLine(f) == Cat(Triple(Pub, Name(f), Colon), ty[f.type])

LEMMA FieldLineIs ==
    ASSUME NEW f, f.kind = "field", f.type \in Nodes, Name(f) \in Strings
    PROVE  <<"pub ">> \o NameAndType(f) = FieldLine(f)
<1>1. PICK u \in Texts, n \in Texts, c \in Texts, p \in Texts :
          u = ty[f.type] /\ n = Tok(Name(f)) /\ c = Tok(Colon) /\ p = Tok(Pub)
  BY TyIs, Texting, MarksIn, TokensIn
<1>2. <<"pub ">> \o NameAndType(f) = Cat(Tok(Pub), Cat(<<Name(f), Colon>>, ty[f.type]))
  BY Zenon DEF NameAndType, TypeOf, Cat, Tok, Pub, Colon
<1>3. PICK s \in Texts : s = <<Name(f), Colon>> /\ s = Cat(n, c)
  <2>1. <<Name(f), Colon>> = Cat(Tok(Name(f)), Tok(Colon))
    BY Tokens2, TokensIn
  <2> QED BY <1>1, <2>1, Texting
<1>4. Cat(s, u) = Cat(n, Cat(c, u))
  <2>1. Cat(Cat(n, c), u) = Cat(n, Cat(c, u))
    BY Texting
  <2>2. s = Cat(n, c)
    BY <1>3
  <2> QED BY <2>1, <2>2
<1>5. <<"pub ">> \o NameAndType(f) = Cat(p, Cat(n, Cat(c, u)))
  <2>1. <<Name(f), Colon>> = s
    BY <1>3
  <2> QED BY <1>1, <1>2, <1>4, <2>1, Zenon
<1>6. FieldLine(f) = Cat(p, Cat(n, Cat(c, u)))
  <2>1. \A x \in Texts : Cat(Triple(Pub, Name(f), Colon), x) = Cat(Tok(Pub), Cat(Tok(Name(f)), Cat(Tok(Colon), x)))
    <3>1. Pub \in Strings /\ Colon \in Strings
      BY MarksIn, TokensIn
    <3>2. PICK m \in Strings : m = Name(f)
      OBVIOUS
    <3>3. \A x \in Texts : Cat(Triple(Pub, m, Colon), x) = Cat(Tok(Pub), Cat(Tok(m), Cat(Tok(Colon), x)))
      BY <3>1, TripleIs
    <3> QED BY <3>2, <3>3
  <2> QED BY <1>1, <2>1 DEF FieldLine
<1> QED BY <1>5, <1>6, Zenon

\* The fields among them, each with its line.
FieldsOf(S) == {f \in S : f.kind = "field"}

LEMMA ShownIs ==
    ASSUME NEW it \in Subjects, it.kind \in {"struct", "union"}
    PROVE  Twin(Shown(it), FieldLines(it.of, <<"pub ">>), {<<f, FieldLine(f)>> : f \in FieldsOf(Below(it))})
<1> DEFINE R == {<<f, FieldLine(f)>> : f \in FieldsOf(Below(it))}
<1>1. PICK s, S : s = it.of /\ S = Below(it) /\ s \in Seq(S) /\ Row(s)
  BY FieldsSound, RowFits
<1>2. PICK p, q : /\ p = [i \in DOMAIN s |-> If(s[i].kind = "field", <<s[i]>>)]
                  /\ q = [i \in DOMAIN s |-> If(s[i].kind = "field", <<<<"pub ">> \o NameAndType(s[i])>>)]
  OBVIOUS
<1>3. Shown(it) = FlattenSeq(p) /\ FieldLines(it.of, <<"pub ">>) = FlattenSeq(q)
  <2>1. Shown(it) = FlattenSeq(p)
    BY <1>1, <1>2 DEF Shown, Those, Each
  <2>2. FieldLines(it.of, <<"pub ">>) = FlattenSeq(q)
    BY <1>1, <1>2 DEF FieldLines, Each
  <2> QED BY <2>1, <2>2
<1>4. DOMAIN s = 1..Len(s) /\ p = [i \in DOMAIN s |-> p[i]] /\ q = [i \in DOMAIN s |-> q[i]]
  BY <1>1, <1>2, RowIs
<1>5. Row(p) /\ Row(q) /\ Len(p) = Len(s) /\ Len(q) = Len(s)
  BY <1>1, <1>4, Loop
<1>6. ASSUME NEW i \in 1..Len(s) PROVE Twin(p[i], q[i], R)
  <2>1. s[i] \in S
    BY <1>1, <1>4
  <2>2. CASE s[i].kind = "field"
    <3>1. PICK f : f = s[i] /\ f \in FieldsOf(Below(it))
      BY <1>1, <2>1, <2>2 DEF FieldsOf
    <3>2. f.kind = "field" /\ f.type \in Nodes /\ Name(f) \in Strings
      BY <3>1, ItemIs DEF FieldsOf
    <3>3. <<"pub ">> \o NameAndType(f) = FieldLine(f)
      BY <3>2, FieldLineIs
    <3>4. p[i] = <<f>> /\ q[i] = <<FieldLine(f)>>
      BY <1>2, <1>4, <2>2, <3>1, <3>3 DEF If
    <3>5. Row(<<f>>) /\ Len(<<f>>) = 1 /\ <<f>>[1] = f
      BY OneRow
    <3>6. Row(<<FieldLine(f)>>) /\ Len(<<FieldLine(f)>>) = 1 /\ <<FieldLine(f)>>[1] = FieldLine(f)
      BY OneRow
    <3>7. <<f, FieldLine(f)>> \in R
      BY <3>1
    <3>8. \A j \in 1..1 : j = 1
      OBVIOUS
    <3> HIDE DEF R
    <3> QED BY <3>4, <3>5, <3>6, <3>7, <3>8 DEF Twin
  <2>3. CASE s[i].kind # "field"
    <3>1. p[i] = <<>> /\ q[i] = <<>>
      BY <1>2, <1>4, <2>3 DEF If
    <3>2. Row(<<>>)
      BY OneRow
    <3>3. Len(<<>>) = 0 /\ \A j \in 1..Len(<<>>) : FALSE
      OBVIOUS
    <3> HIDE DEF R
    <3> QED BY <3>1, <3>2, <3>3 DEF Twin
  <2> QED BY <2>2, <2>3
<1> HIDE DEF R
<1>7. Twin(FlattenSeq(p), FlattenSeq(q), R)
  BY <1>5, <1>6, FlatTwins
<1> QED BY <1>3, <1>7 DEF R

SameFields(x, y) ==
    /\ Len(x) = Len(y)
    /\ \A i \in DOMAIN x : Name(x[i]) = Name(y[i]) /\ alike[<<x[i].type, y[i].type>>]

LEMMA FieldLineRead ==
    ASSUME NEW f, NEW g, f.type \in Nodes, f.type.k \in Types, Name(f) \in Strings, ~prolonged[f.type],
           g.type \in Nodes, g.type.k \in Types, Name(g) \in Strings, FieldLine(f) = FieldLine(g)
    PROVE  Name(f) = Name(g) /\ alike[<<f.type, g.type>>]
<1>1. Pub \in Strings /\ Colon \in Strings
  BY MarksIn, TokensIn
<1>2. PICK c \in Nodes, d \in Nodes, m \in Strings, n \in Strings :
          c = f.type /\ d = g.type /\ m = Name(f) /\ n = Name(g)
  OBVIOUS
<1>3. Cat(Triple(Pub, m, Colon), ty[c]) = Cat(Triple(Pub, n, Colon), ty[d])
  BY <1>2 DEF FieldLine
<1>4. m = n /\ alike[<<c, d>>]
  BY <1>1, <1>2, <1>3, TypedRead
<1> QED BY <1>2, <1>4

LEMMA FieldsRead ==
    ASSUME NEW a \in Subjects, NEW b \in Subjects, a.kind \in {"struct", "union"}, b.kind \in {"struct", "union"},
           Clear(a), FieldLines(a.of, <<"pub ">>) = FieldLines(b.of, <<"pub ">>)
    PROVE  SameFields(Shown(a), Shown(b))
<1>1. PICK x, y, l, R, Q :
          /\ x = Shown(a) /\ y = Shown(b) /\ l = FieldLines(a.of, <<"pub ">>) /\ l = FieldLines(b.of, <<"pub ">>)
          /\ R = {<<f, FieldLine(f)>> : f \in FieldsOf(Below(a))}
          /\ Q = {<<f, FieldLine(f)>> : f \in FieldsOf(Below(b))}
  OBVIOUS
<1>2. Twin(x, l, R) /\ Twin(y, l, Q)
  BY <1>1, ShownIs
<1>3. Len(x) = Len(y) /\ Len(x) = Len(l) /\ DOMAIN x = 1..Len(x)
  BY <1>2, RowIs DEF Twin
<1>4. ASSUME NEW i \in 1..Len(x) PROVE Name(x[i]) = Name(y[i]) /\ alike[<<x[i].type, y[i].type>>]
  <2>1. PICK f, g : f = x[i] /\ g = y[i]
    OBVIOUS
  <2>2. f \in FieldsOf(Below(a)) /\ FieldLine(f) = l[i]
    <3>1. <<f, l[i]>> \in R
      BY <1>2, <2>1 DEF Twin
    <3> QED BY <1>1, <3>1
  <2>3. g \in FieldsOf(Below(b)) /\ FieldLine(g) = l[i]
    <3>1. <<g, l[i]>> \in Q
      BY <1>2, <1>3, <2>1 DEF Twin
    <3> QED BY <1>1, <3>1
  <2>4. /\ f.type \in Nodes /\ f.type.k \in Types /\ Name(f) \in Strings
        /\ g.type \in Nodes /\ g.type.k \in Types /\ Name(g) \in Strings
    BY <2>2, <2>3, ItemIs DEF FieldsOf
  <2>5. ~prolonged[f.type]
    BY <2>2 DEF Clear, FieldsOf
  <2>6. Name(f) = Name(g) /\ alike[<<f.type, g.type>>]
    BY <2>2, <2>3, <2>4, <2>5, FieldLineRead, Zenon
  <2> QED BY <2>1, <2>6
<1> QED BY <1>1, <1>3, <1>4 DEF SameFields

Between(h, x, e) == <<h>> \o x \o <<e>>

LEMMA BetweenRead ==
    ASSUME NEW x, NEW y, Row(x), Row(y), NEW h, NEW i, NEW e, Between(h, x, e) = Between(i, y, e)
    PROVE  x = y
<1>1. ASSUME NEW k, NEW z, Row(z)
      PROVE  Len(<<k>> \o z \o <<e>>) = Len(z) + 2 /\ \A j \in 1..Len(z) : (<<k>> \o z \o <<e>>)[1 + j] = z[j]
  <2>1. Row(<<k>>) /\ Len(<<k>>) = 1 /\ Row(<<e>>) /\ Len(<<e>>) = 1
    BY OneRow
  <2>2. PICK n \in Nat : n = Len(z)
    BY <1>1, RowIs
  <2>3. PICK w : w = <<k>> \o z
    OBVIOUS
  <2>4. Row(w) /\ Len(w) = 1 + n /\ \A j \in 1..n : w[1 + j] = z[j]
    BY <1>1, <2>1, <2>2, <2>3, RowJoint
  <2>5. Len(w \o <<e>>) = (1 + n) + 1 /\ \A j \in 1..(1 + n) : (w \o <<e>>)[j] = w[j]
    BY <2>1, <2>4, RowJoint
  <2>6. \A j \in 1..n : 1 + j \in 1..(1 + n)
    OBVIOUS
  <2>7. \A j \in 1..n : (w \o <<e>>)[1 + j] = z[j]
    BY <2>4, <2>5, <2>6
  <2> QED BY <2>2, <2>3, <2>5, <2>7
<1>2. PICK u, v : u = <<h>> \o x \o <<e>> /\ v = <<i>> \o y \o <<e>> /\ u = v
  BY DEF Between
<1>3. PICK m \in Nat, n \in Nat : m = Len(x) /\ n = Len(y)
  BY RowIs
<1>4. Len(u) = m + 2 /\ \A j \in 1..m : u[1 + j] = x[j]
  BY <1>1, <1>2, <1>3
<1>5. Len(v) = n + 2 /\ \A j \in 1..n : v[1 + j] = y[j]
  BY <1>1, <1>2, <1>3
<1>6. m = n
  <2>1. m + 2 = n + 2
    BY <1>2, <1>4, <1>5
  <2> QED BY <2>1
<1>7. \A j \in 1..m : x[j] = y[j]
  BY <1>2, <1>4, <1>5, <1>6
<1>8. PICK S : x \in Seq(S) /\ y \in Seq(S)
  BY RowsTogether
<1> QED BY <1>3, <1>6, <1>7, <1>8, SeqEqual

-----------------------------------------------------------------------------
(* The declaration on a page                                               *)

\* The lines of a plain struct or a union: a first one, the fields, a last one.
Bracketed(first, it) == Between(first, FieldLines(it.of, <<"pub ">>), <<"}">>)

HeadLine(keyword, it) == <<keyword, Name(it), " {">>

LEMMA ValuedPage ==
    ASSUME NEW it, it.kind \in Valued
    PROVE  Code(Page(it)) = Coded(<<Value(it)>>) /\ Row(<<Value(it)>>)
<1>1. Row(<<Value(it)>>) /\ Quiet(<<>>)
  BY OneRow, OneQuiet, QuietBlocks
<1>2. it.kind # "missing" /\ Body(it) = Fence(<<Value(it)>>)
  BY Zenon DEF Body, Valued
<1>3. Fence(<<Value(it)>>) \o <<>> = Fence(<<Value(it)>>)
  <2>1. Row(Fence(<<Value(it)>>))
    BY <1>1, FenceCode
  <2> QED BY <2>1, ConcatEmptySeq DEF Row
<1>4. Body(it) = Fence(<<Value(it)>>) \o <<>>
  BY <1>2, <1>3, Zenon
<1> QED BY <1>1, <1>2, <1>4, PageCode

LEMMA UnionPage ==
    ASSUME NEW it \in Subjects, it.kind = "union"
    PROVE  LET lines == Bracketed(HeadLine(PubUnion, it), it)
           IN  Code(Page(it)) = Coded(lines) /\ Row(lines)
<1>1. PICK lines : lines = Bracketed(HeadLine(PubUnion, it), it)
  OBVIOUS
<1>2. Row(lines)
  <2>1. Row(FieldLines(it.of, <<"pub ">>))
    BY SubjectRows, FieldLinesRow
  <2> QED BY <1>1, <2>1, LinesRow DEF Bracketed, Between
<1>3. Quiet(<<>>) /\ it.kind # "missing"
  BY OneQuiet, QuietBlocks
<1>4. Body(it) = Fence(lines)
  BY <1>1, Zenon DEF Body, Union, Bracketed, Between, HeadLine, PubUnion
<1>5. Fence(lines) \o <<>> = Fence(lines)
  <2>1. Row(Fence(lines))
    BY <1>2, FenceCode
  <2> QED BY <2>1, ConcatEmptySeq DEF Row
<1>6. Body(it) = Fence(lines) \o <<>>
  BY <1>4, <1>5
<1> QED BY <1>1, <1>2, <1>3, <1>6, PageCode

LEMMA StructPage ==
    ASSUME NEW it \in Subjects, it.kind = "struct", it.form \in {"tuple", "plain"}
    PROVE  LET lines == IF it.form = "tuple" THEN <<TupleLine(it)>> ELSE Bracketed(HeadLine(PubStruct, it), it)
           IN  Code(Page(it)) = Coded(lines) /\ Row(lines)
<1>1. PICK lines : lines = IF it.form = "tuple" THEN <<TupleLine(it)>> ELSE Bracketed(HeadLine(PubStruct, it), it)
  OBVIOUS
<1>2. Row(lines)
  <2>1. Row(FieldLines(it.of, <<"pub ">>))
    BY SubjectRows, FieldLinesRow
  <2>2. Row(Bracketed(HeadLine(PubStruct, it), it))
    BY <2>1, LinesRow DEF Bracketed, Between
  <2> QED BY <1>1, <2>2, OneRow
<1>3. Quiet(FieldDocs(it)) /\ it.kind # "missing"
  BY SubjectRows, FieldDocsQuiet
<1>4. CASE it.form = "tuple"
  <2>1. Positions(it.of, <<"pub ">>) = Together(Slots(it.of), Comma)
    BY PositionsAre, Zenon
  <2>2. TupleLine(it) = <<"pub struct ", Name(it), "(">> \o Positions(it.of, <<"pub ">>) \o <<");">>
    BY <2>1, Zenon DEF TupleLine, Cat, Triple, Tok, PubStruct, OpenParen, EndOfTuple
  <2>3. Body(it) = Fence(lines) \o FieldDocs(it)
    BY <1>1, <1>4, <2>2, Zenon DEF Body, Struct
  <2> QED BY <1>1, <1>2, <1>3, <2>3, PageCode
<1>5. CASE it.form = "plain"
  <2>1. Body(it) = Fence(lines) \o FieldDocs(it)
    BY <1>1, <1>5, Zenon DEF Body, Struct, Bracketed, Between, HeadLine, PubStruct
  <2> QED BY <1>1, <1>2, <1>3, <2>1, PageCode
<1> QED BY <1>4, <1>5

LEMMA BracketedRead ==
    ASSUME NEW a \in Subjects, NEW b \in Subjects, a.kind \in {"struct", "union"}, b.kind \in {"struct", "union"},
           Clear(a), NEW h, NEW i, Bracketed(h, a) = Bracketed(i, b)
    PROVE  SameFields(Shown(a), Shown(b))
<1>1. PICK x, y, e : /\ x = FieldLines(a.of, <<"pub ">>) /\ y = FieldLines(b.of, <<"pub ">>)
                     /\ e = <<"}">> /\ Row(x) /\ Row(y)
  BY SubjectRows, FieldLinesRow
<1>2. Between(h, x, e) = Between(i, y, e)
  BY <1>1, Zenon DEF Bracketed
<1>3. x = y
  <2>1. Row(x) /\ Row(y)
    BY <1>1, Zenon
  <2> QED BY <1>2, <2>1, BetweenRead
<1>4. FieldLines(a.of, <<"pub ">>) = FieldLines(b.of, <<"pub ">>)
  BY <1>1, <1>3, Zenon
<1> QED BY <1>4, FieldsRead, Zenon

LEMMA OneLine == ASSUME NEW x, NEW y, <<x>> = <<y>> PROVE x = y
<1>1. <<x>>[1] = <<y>>[1]
  OBVIOUS
<1> QED BY <1>1

\* Of two items of a kind with one declaration.
LEMMA ItemsRead ==
    ASSUME NEW a \in Subjects, NEW b \in Subjects, a.kind = b.kind, a.kind \in Readable, Clear(a),
           a.form = b.form, Code(Page(a)) = Code(Page(b))
    PROVE  AlikeItems(a, b)
<1>1. CASE a.kind \in Valued
  <2>1. Coded(<<Value(a)>>) = Coded(<<Value(b)>>) /\ Row(<<Value(a)>>) /\ Row(<<Value(b)>>)
    BY <1>1, ValuedPage
  <2>2. <<Value(a)>> = <<Value(b)>>
    BY <2>1, CodedRead
  <2>3. Value(a) = Value(b)
    BY <2>2, OneLine
  <2>4. ~prolonged[a.type]
    BY <1>1 DEF Clear
  <2>5. alike[<<a.type, b.type>>]
    BY <1>1, <2>3, <2>4, ValuesRead
  <2>6. a.kind # "union" /\ a.kind # "struct"
    BY <1>1, Zenon DEF Valued
  <2> QED BY <1>1, <2>5, <2>6, Zenon DEF AlikeItems
<1>2. CASE a.kind = "union"
  <2>1. PICK x, y : /\ x = Bracketed(HeadLine(PubUnion, a), a) /\ y = Bracketed(HeadLine(PubUnion, b), b)
                    /\ Coded(x) = Coded(y) /\ Row(x) /\ Row(y)
    BY <1>2, UnionPage
  <2>2. Bracketed(HeadLine(PubUnion, a), a) = Bracketed(HeadLine(PubUnion, b), b)
    BY <2>1, CodedRead
  <2>3. SameFields(Shown(a), Shown(b))
    BY <1>2, <2>2, BracketedRead
  <2> QED BY <1>2, <2>3, Zenon DEF AlikeItems, SameFields, Valued
<1>3. CASE a.kind = "struct" /\ a.form = "plain"
  <2>1. PICK x, y : /\ x = Bracketed(HeadLine(PubStruct, a), a) /\ y = Bracketed(HeadLine(PubStruct, b), b)
                    /\ Coded(x) = Coded(y) /\ Row(x) /\ Row(y)
    BY <1>3, StructPage
  <2>2. Bracketed(HeadLine(PubStruct, a), a) = Bracketed(HeadLine(PubStruct, b), b)
    BY <2>1, CodedRead
  <2>3. SameFields(Shown(a), Shown(b))
    BY <1>3, <2>2, BracketedRead
  <2> QED BY <1>3, <2>3, Zenon DEF AlikeItems, SameFields, Valued
<1>4. CASE a.kind = "struct" /\ a.form = "tuple"
  <2>1. Coded(<<TupleLine(a)>>) = Coded(<<TupleLine(b)>>) /\ Row(<<TupleLine(a)>>) /\ Row(<<TupleLine(b)>>)
    BY <1>4, StructPage
  <2>2. <<TupleLine(a)>> = <<TupleLine(b)>>
    BY <2>1, CodedRead
  <2>3. TupleLine(a) = TupleLine(b)
    BY <2>2, OneLine
  <2>4. SameSlots(a.of, b.of)
    BY <1>4, <2>3, TuplesRead
  <2> QED BY <1>4, <2>4, Zenon DEF AlikeItems, SameSlots, Valued
<1>5. CASE a.kind = "struct" /\ a.form \notin {"plain", "tuple"}
  BY <1>5, Zenon DEF AlikeItems, Valued
<1> QED BY <1>1, <1>2, <1>3, <1>4, <1>5 DEF Readable

\* Whatever declares the same as the item asked for is like it (ty.rs sets no
\* parentheses, and drops what Same leaves out).
THEOREM PagesReadBack == PageSpec => []ReadsBack
<1>1. ASSUME subject \in Subjects, page \in {<<>>, Page(subject)} PROVE ReadsBack
  <2>1. SUFFICES ASSUME subject.kind \in Readable, page # <<>>, Clear(subject),
                        NEW other \in Declared[subject.kind], other.as = <<subject.form, Code(page)>>
                 PROVE  AlikeItems(subject, other.by)
    BY DEF ReadsBack
  <2>2. PICK it \in Subjects : it.kind = subject.kind /\ other = [as |-> <<it.form, Code(Page(it))>>, by |-> it]
    BY <2>1 DEF Declared
  <2>3. page = Page(subject) /\ other.by = it /\ <<it.form, Code(Page(it))>> = <<subject.form, Code(page)>>
    BY <1>1, <2>1, <2>2
  <2>4. it.form = subject.form /\ Code(Page(it)) = Code(Page(subject))
    BY <2>3
  <2>5. AlikeItems(subject, it)
    BY <1>1, <2>1, <2>2, <2>4, ItemsRead
  <2> QED BY <2>3, <2>5
<1> QED BY <1>1, Pages, PTL
=============================================================================
