---------------------------- MODULE SequenceProofs ----------------------------
(***************************************************************************)
(* What the modules about sequences and loops rest on: induction over the  *)
(* natural numbers, stated for a set instead of a predicate, and what      *)
(* FlattenSeq makes of appended and concatenated sequences.                *)
(***************************************************************************)
EXTENDS Integers, Sequences, SequencesExt, WellFoundedInduction, SequenceTheorems, TLAPS

\* A set of naturals has a least element.
LEMMA LeastOf ==
    ASSUME NEW T \in SUBSET Nat, T # {}
    PROVE  \E x \in T : \A y \in T : x <= y
<1> DEFINE Less == {ss \in Nat \X Nat : ss[1] < ss[2]}
<1>1. IsWellFoundedOn(Less, Nat)
  BY NatLessThanWellFounded DEF OpToRel
<1>2. PICK x \in T : \A y \in T : ~(<<y, x>> \in Less)
  <2> HIDE DEF Less
  <2> QED
    BY <1>1, WFMin
<1>3. ASSUME NEW y \in T, y < x PROVE FALSE
  <2>1. <<y, x>> \in Nat \X Nat /\ <<y, x>>[1] < <<y, x>>[2]
    BY <1>3
  <2>2. <<y, x>> \in Less
    BY <2>1
  <2> QED
    BY <1>2, <2>2
<1> QED
  BY <1>3

\* A set of naturals with a bound has a greatest element.
LEMMA GreatestOf ==
    ASSUME NEW m \in Nat, NEW T \in SUBSET (0 .. m), T # {}
    PROVE  \E x \in T : \A y \in T : y <= x
<1> DEFINE D == {m - x : x \in T}
<1>1. D \in SUBSET Nat /\ D # {}
  <2>1. \A x \in T : m - x \in Nat
    OBVIOUS
  <2> QED
    BY <2>1
<1>2. PICK d \in D : \A e \in D : d <= e
  <2> HIDE DEF D
  <2> QED
    BY <1>1, LeastOf
<1>3. PICK x \in T : d = m - x
  BY <1>2
<1>4. \A y \in T : m - x <= m - y
  BY <1>2, <1>3
<1> QED
  BY <1>4

\* Induction: what holds of 0 and of every successor holds of every number.
LEMMA Induction ==
    ASSUME NEW S, 0 \in S, \A n \in Nat : n \in S => n + 1 \in S
    PROVE  \A n \in Nat : n \in S
<1> SUFFICES ASSUME NEW n \in Nat, n \notin S PROVE FALSE
  OBVIOUS
<1> DEFINE T == Nat \ S
<1>1. PICK x \in T : \A y \in T : x <= y
  BY LeastOf
<1>2. x # 0 /\ x - 1 \in Nat /\ x - 1 \notin T
  BY <1>1
<1> QED
  BY <1>1, <1>2

\* The same for the numbers up to a bound.
LEMMA InductionUpTo ==
    ASSUME NEW m \in Nat, NEW S, 0 \in S, \A n \in 0 .. m - 1 : n \in S => n + 1 \in S
    PROVE  \A n \in 0 .. m : n \in S
<1> DEFINE T == S \cup {n \in Nat : n > m}
<1>1. 0 \in T
  OBVIOUS
<1>2. \A n \in Nat : n \in T => n + 1 \in T
  OBVIOUS
<1>3. \A n \in Nat : n \in T
  <2> HIDE DEF T
  <2> QED
    BY <1>1, <1>2, Induction
<1> QED
  BY <1>3
-----------------------------------------------------------------------------
(***************************************************************************)
(* FlattenSeq                                                              *)
(***************************************************************************)
Flattening(s) ==
    CHOOSE g : g = [i \in 1 .. Len(s) |-> IF i = 1 THEN s[i] ELSE g[i - 1] \o s[i]]

LEMMA FlattenExists ==
    ASSUME NEW S, NEW s \in Seq(Seq(S))
    PROVE  \E g : g = [i \in 1 .. Len(s) |-> IF i = 1 THEN s[i] ELSE g[i - 1] \o s[i]]
<1> DEFINE Up(n) == \E g : g = [i \in 1 .. n |-> IF i = 1 THEN s[i] ELSE g[i - 1] \o s[i]]
           T == {n \in Nat : Up(n)}
<1>1. Up(0)
  <2> WITNESS [i \in 1 .. 0 |-> s[i]]
  <2> QED
    OBVIOUS
<1>2. ASSUME NEW n \in Nat, Up(n) PROVE Up(n + 1)
  <2>1. PICK g : g = [i \in 1 .. n |-> IF i = 1 THEN s[i] ELSE g[i - 1] \o s[i]]
    BY <1>2
  <2> DEFINE h == [i \in 1 .. n + 1 |-> IF i = 1 THEN s[i] ELSE g[i - 1] \o s[i]]
  <2>2. \A i \in 1 .. n + 1 : i # 1 => i - 1 \in 1 .. n
    OBVIOUS
  <2>3. \A i \in 1 .. n : h[i] = g[i]
    <3>1. \A i \in 1 .. n : g[i] = IF i = 1 THEN s[i] ELSE g[i - 1] \o s[i]
      BY <2>1
    <3> QED
      BY <3>1
  <2>4. h = [i \in 1 .. n + 1 |-> IF i = 1 THEN s[i] ELSE h[i - 1] \o s[i]]
    BY <2>2, <2>3
  <2> QED
    BY <2>4
<1>3. 0 \in T /\ \A n \in Nat : n \in T => n + 1 \in T
  <2> HIDE DEF Up
  <2> QED
    BY <1>1, <1>2
<1>4. \A n \in Nat : n \in T
  <2> HIDE DEF T
  <2> QED
    BY <1>3, Induction
<1>5. Len(s) \in Nat
  OBVIOUS
<1> QED
  BY <1>4, <1>5

LEMMA FlattenStep ==
    ASSUME NEW S, NEW s \in Seq(Seq(S))
    PROVE  /\ Len(s) > 0 => FlattenSeq(s) = Flattening(s)[Len(s)]
           /\ \A i \in 1 .. Len(s) :
                 Flattening(s)[i] = IF i = 1 THEN s[i] ELSE Flattening(s)[i - 1] \o s[i]
<1>1. Len(s) > 0 => FlattenSeq(s) = Flattening(s)[Len(s)]
  BY DEF FlattenSeq, Flattening
<1>2. Flattening(s) =
        [i \in 1 .. Len(s) |-> IF i = 1 THEN s[i] ELSE Flattening(s)[i - 1] \o s[i]]
  BY FlattenExists DEF Flattening
<1> QED
  BY <1>1, <1>2

LEMMA FlattenEmpty == FlattenSeq(<<>>) = <<>>
  BY DEF FlattenSeq

LEMMA FlattenPrefix ==
    ASSUME NEW S, NEW s \in Seq(Seq(S)), NEW e \in Seq(S)
    PROVE  \A i \in 1 .. Len(s) : /\ Flattening(Append(s, e))[i] = Flattening(s)[i]
                                  /\ Flattening(s)[i] \in Seq(S)
<1> DEFINE t == Append(s, e)
           Same(i) == Flattening(t)[i] = Flattening(s)[i] /\ Flattening(s)[i] \in Seq(S)
           T == {0} \cup {i \in 1 .. Len(s) : Same(i)}
<1>1. /\ t \in Seq(Seq(S)) /\ Len(t) = Len(s) + 1 /\ Len(s) \in Nat
      /\ \A i \in 1 .. Len(s) : t[i] = s[i] /\ s[i] \in Seq(S)
  BY AppendProperties, ElementOfSeq
<1>2. \A i \in 1 .. Len(s) :
         Flattening(s)[i] = IF i = 1 THEN s[i] ELSE Flattening(s)[i - 1] \o s[i]
  BY FlattenStep
<1>3. \A i \in 1 .. Len(s) :
         Flattening(t)[i] = IF i = 1 THEN t[i] ELSE Flattening(t)[i - 1] \o t[i]
  <2>1. \A i \in 1 .. Len(t) :
           Flattening(t)[i] = IF i = 1 THEN t[i] ELSE Flattening(t)[i - 1] \o t[i]
    <3> HIDE DEF t
    <3> QED
      BY <1>1, FlattenStep
  <2> QED
    BY <1>1, <2>1
<1> HIDE DEF t
<1>4. ASSUME NEW n \in 0 .. Len(s) - 1, n \in T PROVE n + 1 \in T
  <2>0. Len(s) \in Nat /\ n \in Nat
    OBVIOUS
  <2>a. n + 1 \in 1 .. Len(s) /\ (n + 1) - 1 = n
    BY <2>0
  <2>1. n + 1 \in 1 .. Len(s) /\ s[n + 1] \in Seq(S) /\ t[n + 1] = s[n + 1]
    BY <1>1, <2>a
  <2>2. CASE n = 0
    BY <1>2, <1>3, <2>1, <2>2
  <2>3. CASE n # 0
    <3>1. Same(n)
      BY <1>4, <2>3
    <3>2. /\ Flattening(s)[n + 1] = Flattening(s)[n] \o s[n + 1]
          /\ Flattening(t)[n + 1] = Flattening(t)[n] \o t[n + 1]
      <4>1. n + 1 # 1
        BY <2>0, <2>3
      <4> QED
        BY <1>2, <1>3, <2>1, <2>a, <4>1
    <3>3. Flattening(s)[n] \o s[n + 1] \in Seq(S)
      BY <2>1, <3>1, ConcatProperties
    <3> QED
      BY <2>1, <3>1, <3>2, <3>3
  <2> QED
    BY <2>2, <2>3
<1>5. \A n \in 0 .. Len(s) : n \in T
  <2>1. 0 \in T /\ \A n \in 0 .. Len(s) - 1 : n \in T => n + 1 \in T
    BY <1>4
  <2> HIDE DEF T
  <2> QED
    BY <1>1, <2>1, InductionUpTo
<1> QED
  BY <1>1, <1>5 DEF t

\* The last piece comes last.
LEMMA FlattenAppend ==
    ASSUME NEW S, NEW s \in Seq(Seq(S)), NEW e \in Seq(S)
    PROVE  /\ FlattenSeq(s) \in Seq(S)
           /\ FlattenSeq(Append(s, e)) = FlattenSeq(s) \o e
<1> DEFINE t == Append(s, e)
<1>1. /\ t \in Seq(Seq(S)) /\ Len(t) = Len(s) + 1 /\ Len(s) \in Nat /\ t[Len(s) + 1] = e
  BY AppendProperties
<1>2. FlattenSeq(t) = Flattening(t)[Len(s) + 1]
  <2> HIDE DEF t
  <2> QED
    BY <1>1, FlattenStep
<1>3. Flattening(t)[Len(s) + 1] = IF Len(s) = 0 THEN e ELSE Flattening(t)[Len(s)] \o e
  <2>1. Len(s) + 1 \in 1 .. Len(t)
    BY <1>1
  <2>2. Flattening(t)[Len(s) + 1] = IF Len(s) + 1 = 1 THEN t[Len(s) + 1]
                                   ELSE Flattening(t)[Len(s) + 1 - 1] \o t[Len(s) + 1]
    <3> HIDE DEF t
    <3> QED
      BY <1>1, <2>1, FlattenStep
  <2> QED
    BY <1>1, <2>2
<1>4. CASE Len(s) = 0
  <2>1. s = <<>>
    BY <1>4, EmptySeq
  <2> QED
    <3>1. FlattenSeq(s) = <<>> /\ <<>> \in Seq(S)
      BY <2>1, FlattenEmpty, EmptySeq
    <3>2. FlattenSeq(t) = e
      BY <1>2, <1>3, <1>4
    <3>3. <<>> \o e = e
      BY ConcatEmptySeq
    <3> QED
      BY <3>1, <3>2, <3>3
<1>5. CASE Len(s) # 0
  <2>1. Len(s) \in 1 .. Len(s)
    BY <1>1, <1>5
  <2>2. Flattening(t)[Len(s)] = Flattening(s)[Len(s)] /\ Flattening(s)[Len(s)] \in Seq(S)
    BY <2>1, FlattenPrefix
  <2>3. FlattenSeq(s) = Flattening(s)[Len(s)]
    BY <1>1, <1>5, FlattenStep
  <2> QED
    BY <1>2, <1>3, <1>5, <2>2, <2>3
<1> QED
  BY <1>4, <1>5

LEMMA Associate ==
    ASSUME NEW S, NEW a \in Seq(S), NEW b \in Seq(S), NEW c \in Seq(S),
           NEW ab, NEW bc, ab = a \o b, bc = b \o c
    PROVE  ab \o c = a \o bc
  BY ConcatAssociative

LEMMA Concatenated ==
    ASSUME NEW S, NEW a \in Seq(S), NEW b \in Seq(S), NEW ab, ab = a \o b
    PROVE  /\ ab \in Seq(S) /\ Len(ab) = Len(a) + Len(b)
           /\ \A i \in 1 .. Len(a) : ab[i] = a[i]
           /\ \A i \in 1 .. Len(b) : ab[Len(a) + i] = b[i]
<1>1. Len(a) \in Nat /\ Len(b) \in Nat
  OBVIOUS
<1>2. a \o b \in Seq(S) /\ Len(a \o b) = Len(a) + Len(b)
  BY ConcatProperties
<1>3. ASSUME NEW i \in 1 .. Len(a) PROVE (a \o b)[i] = a[i]
  BY <1>1, ConcatProperties
<1>4. ASSUME NEW i \in 1 .. Len(b) PROVE (a \o b)[Len(a) + i] = b[i]
  <2>1. Len(a) + i \in 1 .. Len(a) + Len(b) /\ Len(a) + i > Len(a)
        /\ (Len(a) + i) - Len(a) = i
    BY <1>1
  <2> QED
    BY <1>1, <2>1, ConcatProperties
<1> QED
  BY <1>2, <1>3, <1>4

LEMMA FlattenConcat ==
    ASSUME NEW S, NEW s \in Seq(Seq(S)), NEW t \in Seq(Seq(S))
    PROVE  FlattenSeq(s \o t) = FlattenSeq(s) \o FlattenSeq(t)
<1> DEFINE Good(n) == \A u \in Seq(Seq(S)) :
                         Len(u) = n => FlattenSeq(s \o u) = FlattenSeq(s) \o FlattenSeq(u)
           T == {n \in Nat : Good(n)}
<1>0. FlattenSeq(s) \in Seq(S)
  BY EmptySeq, FlattenAppend
<1>1. Good(0)
  <2> SUFFICES ASSUME NEW u \in Seq(Seq(S)), Len(u) = 0
               PROVE  FlattenSeq(s \o u) = FlattenSeq(s) \o FlattenSeq(u)
    OBVIOUS
  <2>1. u = <<>> /\ s \o u = s
    BY EmptySeq, ConcatEmptySeq
  <2> QED
    BY <1>0, <2>1, FlattenEmpty, ConcatEmptySeq
<1>2. ASSUME NEW n \in Nat, Good(n) PROVE Good(n + 1)
  <2> SUFFICES ASSUME NEW u \in Seq(Seq(S)), Len(u) = n + 1
               PROVE  FlattenSeq(s \o u) = FlattenSeq(s) \o FlattenSeq(u)
    OBVIOUS
  <2>1. u # <<>>
    BY EmptySeq
  <2>2. PICK v \in Seq(Seq(S)), e \in Seq(S) : u = Append(v, e)
    BY <2>1, SequenceEmptyOrAppend
  <2>3. Len(v) = n
    BY <2>2, AppendProperties
  <2>4. s \o u = Append(s \o v, e) /\ s \o v \in Seq(Seq(S))
    BY <2>2
  <2>5. FlattenSeq(s \o u) = FlattenSeq(s \o v) \o e
    BY <2>4, FlattenAppend
  <2>6. FlattenSeq(u) = FlattenSeq(v) \o e /\ FlattenSeq(v) \in Seq(S)
    BY <2>2, FlattenAppend
  <2>7. FlattenSeq(s \o v) = FlattenSeq(s) \o FlattenSeq(v)
    BY <1>2, <2>3
  <2> QED
    <3>0. FlattenSeq(s) \in Seq(S) /\ FlattenSeq(v) \in Seq(S) /\ e \in Seq(S)
      BY <1>0, <2>6
    <3>1. FlattenSeq(s \o v) \o e = FlattenSeq(s) \o FlattenSeq(u)
      BY <2>6, <2>7, <3>0, Associate, SMTT(30)
    <3> QED
      BY <2>5, <3>1
<1>3. 0 \in T /\ \A n \in Nat : n \in T => n + 1 \in T
  <2> HIDE DEF Good
  <2> QED
    BY <1>1, <1>2
<1>4. \A n \in Nat : n \in T
  <2> HIDE DEF T
  <2> QED
    BY <1>3, Induction
<1> QED
  BY <1>4
-----------------------------------------------------------------------------
(***************************************************************************)
(* Parts of a sequence.  Join is \o by a name that the provers do not look  *)
(* into.                                                                   *)
(***************************************************************************)
Join(a, b) == a \o b

LEMMA Joined ==
    ASSUME NEW S, NEW a \in Seq(S), NEW b \in Seq(S)
    PROVE  /\ Join(a, b) \in Seq(S) /\ Len(Join(a, b)) = Len(a) + Len(b)
           /\ \A i \in 1 .. Len(a) : Join(a, b)[i] = a[i]
           /\ \A i \in 1 .. Len(b) : Join(a, b)[Len(a) + i] = b[i]
  BY Concatenated DEF Join

\* The same for a sequence that has a name.
LEMMA JoinedAs ==
    ASSUME NEW S, NEW a, NEW b, NEW ab, a \in Seq(S), b \in Seq(S), ab = Join(a, b)
    PROVE  /\ ab \in Seq(S) /\ Len(ab) = Len(a) + Len(b)
           /\ \A i \in 1 .. Len(a) : ab[i] = a[i]
           /\ \A i \in 1 .. Len(b) : ab[Len(a) + i] = b[i]
<1>1. ab = a \o b
  BY DEF Join
<1> QED
  BY <1>1, Concatenated

LEMMA SubSeqIs ==
    ASSUME NEW S, NEW f \in Seq(S), NEW i \in 1 .. Len(f) + 1, NEW n \in i - 1 .. Len(f)
    PROVE  /\ SubSeq(f, i, n) \in Seq(S) /\ Len(SubSeq(f, i, n)) = n - i + 1
           /\ \A j \in 1 .. n - i + 1 : SubSeq(f, i, n)[j] = f[j + i - 1]
<1>0. Len(f) \in Nat
  OBVIOUS
<1> QED
  BY <1>0

LEMMA SubSeqTwice ==
    ASSUME NEW S, NEW f \in Seq(S), NEW m \in 0 .. Len(f), NEW i \in 1 .. m + 1,
           NEW n \in i - 1 .. m
    PROVE  SubSeq(SubSeq(f, 1, m), i, n) = SubSeq(f, i, n)
<1> DEFINE g == SubSeq(f, 1, m)
           a == SubSeq(g, i, n)
           b == SubSeq(f, i, n)
<1>0. Len(f) \in Nat /\ m \in Nat /\ i \in Nat /\ n \in Int
  OBVIOUS
<1>1. g \in Seq(S) /\ Len(g) = m /\ \A j \in 1 .. m : g[j] = f[j]
  <2>1. 1 \in 1 .. Len(f) + 1 /\ m \in 1 - 1 .. Len(f) /\ m - 1 + 1 = m
    BY <1>0
  <2>2. g \in Seq(S) /\ Len(g) = m - 1 + 1 /\ \A j \in 1 .. m - 1 + 1 : g[j] = f[j + 1 - 1]
    BY <2>1, SubSeqIs
  <2>3. \A j \in 1 .. m : j + 1 - 1 = j
    OBVIOUS
  <2> HIDE DEF g
  <2> QED
    BY <2>1, <2>2, <2>3
<1> HIDE DEF g
<1>2. a \in Seq(S) /\ Len(a) = n - i + 1 /\ \A j \in 1 .. n - i + 1 : a[j] = g[j + i - 1]
  BY <1>1, SubSeqIs
<1>3. b \in Seq(S) /\ Len(b) = n - i + 1 /\ \A j \in 1 .. n - i + 1 : b[j] = f[j + i - 1]
  <2>1. i \in 1 .. Len(f) + 1 /\ n \in i - 1 .. Len(f)
    BY <1>0
  <2> QED
    BY <2>1, SubSeqIs
<1> HIDE DEF a, b
<1>4. ASSUME NEW j \in 1 .. n - i + 1 PROVE a[j] = b[j]
  <2>1. j + i - 1 \in 1 .. m
    BY <1>0
  <2> QED
    BY <1>1, <1>2, <1>3, <2>1
<1>5. a = b
  BY <1>2, <1>3, <1>4, SeqEqual
<1> QED
  BY <1>5 DEF a, b, g

\* What comes before a place and what comes after it make up the whole.
LEMMA Parted ==
    ASSUME NEW S, NEW f \in Seq(S), NEW i \in 1 .. Len(f) + 1
    PROVE  /\ SubSeq(f, 1, i - 1) \in Seq(S) /\ Len(SubSeq(f, 1, i - 1)) = i - 1
           /\ SubSeq(f, i, Len(f)) \in Seq(S) /\ Len(SubSeq(f, i, Len(f))) = Len(f) - (i - 1)
           /\ \A j \in 1 .. i - 1 : SubSeq(f, 1, i - 1)[j] = f[j]
           /\ \A j \in 1 .. Len(f) - (i - 1) : SubSeq(f, i, Len(f))[j] = f[j + i - 1]
           /\ f = Join(SubSeq(f, 1, i - 1), SubSeq(f, i, Len(f)))
<1> DEFINE a == SubSeq(f, 1, i - 1)
           b == SubSeq(f, i, Len(f))
           ab == Join(a, b)
<1>0. Len(f) \in Nat
  OBVIOUS
<1>1. a \in Seq(S) /\ Len(a) = i - 1 /\ \A j \in 1 .. i - 1 : a[j] = f[j]
  OBVIOUS
<1>2. /\ b \in Seq(S) /\ Len(b) = Len(f) - (i - 1)
      /\ \A j \in 1 .. Len(f) - (i - 1) : b[j] = f[j + i - 1]
  BY <1>0
<1> HIDE DEF a, b
<1>3. /\ ab \in Seq(S) /\ Len(ab) = Len(f)
      /\ \A j \in 1 .. Len(a) : ab[j] = a[j]
      /\ \A j \in 1 .. Len(b) : ab[Len(a) + j] = b[j]
  <2>1. /\ ab \in Seq(S) /\ Len(ab) = Len(a) + Len(b)
        /\ \A j \in 1 .. Len(a) : ab[j] = a[j]
        /\ \A j \in 1 .. Len(b) : ab[Len(a) + j] = b[j]
    <3>1. a \in Seq(S) /\ b \in Seq(S) /\ ab = Join(a, b)
      BY <1>1, <1>2
    <3> HIDE DEF ab
    <3> QED
      BY <3>1, JoinedAs
  <2> HIDE DEF ab
  <2> QED
    BY <1>0, <1>1, <1>2, <2>1
<1> HIDE DEF ab
<1>4. ASSUME NEW j \in 1 .. Len(f) PROVE ab[j] = f[j]
  <2>1. CASE j \in 1 .. i - 1
    BY <1>1, <1>3, <2>1
  <2>2. CASE j \in i .. Len(f)
    <3> DEFINE k == j - (i - 1)
    <3>1. k \in 1 .. Len(f) - (i - 1) /\ k + i - 1 = j /\ Len(a) + k = j
      BY <1>0, <1>1, <2>2
    <3> HIDE DEF k
    <3> QED
      BY <1>2, <1>3, <3>1
  <2> QED
    BY <1>0, <2>1, <2>2
<1>5. f = ab
  BY <1>3, <1>4, SeqEqual
<1> QED
  BY <1>1, <1>2, <1>5 DEF a, b, ab
-----------------------------------------------------------------------------
(***************************************************************************)
(* What several of the modules use                                         *)
(***************************************************************************)
\* A sequence of numbers; the name keeps the provers from looking into it.
Numbers == Seq(Nat)

\* FlattenSeq of such sequences.
LEMMA NumbersFlatten ==
    /\ FlattenSeq(<<>>) = <<>> /\ <<>> \in Seq(Numbers) /\ <<>> \in Numbers
    /\ \A s \in Seq(Numbers) : FlattenSeq(s) \in Numbers
    /\ \A s \in Seq(Numbers), e \in Numbers : FlattenSeq(Append(s, e)) = FlattenSeq(s) \o e
    /\ \A s, t \in Seq(Numbers) : FlattenSeq(s \o t) = FlattenSeq(s) \o FlattenSeq(t)
<1>1. <<>> \in Seq(Nat)
  BY EmptySeq
<1>2. ASSUME NEW s \in Seq(Seq(Nat)) PROVE FlattenSeq(s) \in Seq(Nat)
  BY <1>1, FlattenAppend
<1>3. ASSUME NEW s \in Seq(Seq(Nat)), NEW e \in Seq(Nat)
      PROVE  FlattenSeq(Append(s, e)) = FlattenSeq(s) \o e
  BY FlattenAppend
<1>4. ASSUME NEW s \in Seq(Seq(Nat)), NEW t \in Seq(Seq(Nat))
      PROVE  FlattenSeq(s \o t) = FlattenSeq(s) \o FlattenSeq(t)
  BY FlattenConcat
<1>5. <<>> \in Seq(Seq(Nat))
  BY EmptySeq
<1> QED
  BY <1>1, <1>2, <1>3, <1>4, <1>5, FlattenEmpty DEF Numbers

\* The Min of two numbers.
LEMMA MinOfTwo ==
    ASSUME NEW a \in Int, NEW b \in Int
    PROVE  Min({a, b}) = IF a <= b THEN a ELSE b
<1> DEFINE m == IF a <= b THEN a ELSE b
<1>1. m \in {a, b} /\ \A y \in {a, b} : m <= y
  OBVIOUS
<1>2. \A x \in {a, b} : (\A y \in {a, b} : x <= y) => x = m
  OBVIOUS
<1> QED
  BY <1>1, <1>2 DEF Min
=============================================================================
