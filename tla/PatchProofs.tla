------------------------------ MODULE PatchProofs ------------------------------
(***************************************************************************)
(* What holds of Patches for any layout of a file and any number of edits: *)
(* a rewrite puts calls where texts were and loses nothing else, and every *)
(* call in a component gets its hook, whatever was in the file before.     *)
(*                                                                         *)
(* The code sorts the patches by their place, drops those that overlap and *)
(* applies the rest from the end of the file to its beginning.  So when a  *)
(* patch is applied, the file is still the old one up to it, and every     *)
(* token behind it has moved by one number of places (Shift): the syntax   *)
(* tree of the new file is that of the old one, shifted.                   *)
(***************************************************************************)
EXTENDS Patches, SequenceProofs, FiniteSetTheorems

-----------------------------------------------------------------------------
(***************************************************************************)
(* The sort                                                                *)
(***************************************************************************)
\* Patches are told apart by their ranges.
Ranged(ps) ==
    /\ \A p \in ps : p.from \in Nat /\ p.to \in Nat
    /\ \A p, q \in ps : p.from = q.from /\ p.to = q.to => p = q

Earliest(ps) == CHOOSE p \in ps : \A q \in ps \ {p} : Later(q, p)

Sorting(P) ==
    CHOOSE h : h = [ps \in SUBSET P |->
        IF ps = {} THEN <<>> ELSE Append(h[ps \ {Earliest(ps)}], Earliest(ps))]

LEMMA LastOfSet ==
    ASSUME NEW ps, Ranged(ps), ps # {}
    PROVE  Earliest(ps) \in ps /\ \A q \in ps \ {Earliest(ps)} : Later(q, Earliest(ps))
<1> DEFINE F == {p.from : p \in ps}
<1>1. PICK m \in F : \A x \in F : m <= x
  <2>1. F \in SUBSET Nat /\ F # {}
    BY DEF Ranged
  <2> HIDE DEF F
  <2> QED
    BY <2>1, LeastOf
<1> DEFINE T == {p.to : p \in {q \in ps : q.from = m}}
<1>2. PICK n \in T : \A x \in T : n <= x
  <2>1. T \in SUBSET Nat /\ T # {}
    BY <1>1 DEF Ranged
  <2> HIDE DEF T
  <2> QED
    BY <2>1, LeastOf
<1>3. PICK p \in ps : p.from = m /\ p.to = n
  BY <1>2
<1>4. ASSUME NEW q \in ps \ {p} PROVE Later(q, p)
  <2>1. p.from <= q.from /\ (p.from = q.from => p.to <= q.to)
    BY <1>1, <1>2, <1>3
  <2>2. p.from \in Nat /\ q.from \in Nat /\ p.to \in Nat /\ q.to \in Nat
        /\ ~(p.from = q.from /\ p.to = q.to)
    BY DEF Ranged
  <2> QED
    BY <2>1, <2>2 DEF Later
<1> QED
  BY <1>4 DEF Earliest

LEMMA SortingExists ==
    ASSUME NEW P, IsFiniteSet(P), Ranged(P)
    PROVE  \E h : h = [ps \in SUBSET P |->
               IF ps = {} THEN <<>> ELSE Append(h[ps \ {Earliest(ps)}], Earliest(ps))]
<1> DEFINE Small(n) == {ps \in SUBSET P : Cardinality(ps) <= n}
           Up(n) == \E h : h = [ps \in Small(n) |->
               IF ps = {} THEN <<>> ELSE Append(h[ps \ {Earliest(ps)}], Earliest(ps))]
           T == {n \in Nat : Up(n)}
<1>1. \A ps \in SUBSET P : IsFiniteSet(ps) /\ Cardinality(ps) \in Nat
  BY FS_Subset, FS_CardinalityType
<1>2. ASSUME NEW ps \in SUBSET P, ps # {}
      PROVE  /\ ps \ {Earliest(ps)} \in SUBSET P
             /\ Cardinality(ps \ {Earliest(ps)}) = Cardinality(ps) - 1
  <2>1. Earliest(ps) \in ps
    BY <1>2, LastOfSet DEF Ranged
  <2> QED
    BY <1>1, <2>1, FS_RemoveElement
<1>3. Up(0)
  <2>1. \A ps \in Small(0) : ps = {}
    BY <1>1, FS_EmptySet
  <2> WITNESS [ps \in Small(0) |-> <<>>]
  <2> QED
    BY <2>1
<1>4. ASSUME NEW n \in Nat, Up(n) PROVE Up(n + 1)
  <2>1. PICK h : h = [ps \in Small(n) |->
               IF ps = {} THEN <<>> ELSE Append(h[ps \ {Earliest(ps)}], Earliest(ps))]
    BY <1>4
  <2> DEFINE g == [ps \in Small(n + 1) |->
               IF ps = {} THEN <<>> ELSE Append(h[ps \ {Earliest(ps)}], Earliest(ps))]
  <2>2. \A ps \in Small(n) : ps \in Small(n + 1)
    BY <1>1
  <2>3. \A ps \in Small(n) : g[ps] = h[ps]
    <3>1. \A ps \in Small(n) :
             h[ps] = IF ps = {} THEN <<>> ELSE Append(h[ps \ {Earliest(ps)}], Earliest(ps))
      BY <2>1
    <3> QED
      BY <2>2, <3>1
  <2>4. \A ps \in Small(n + 1) : ps # {} => ps \ {Earliest(ps)} \in Small(n)
    BY <1>1, <1>2
  <2>5. g = [ps \in Small(n + 1) |->
               IF ps = {} THEN <<>> ELSE Append(g[ps \ {Earliest(ps)}], Earliest(ps))]
    <3> HIDE DEF Small
    <3> QED
      BY <2>3, <2>4
  <2> QED
    BY <2>5
<1>5. 0 \in T /\ \A n \in Nat : n \in T => n + 1 \in T
  <2> HIDE DEF Up
  <2> QED
    BY <1>3, <1>4
<1>6. \A n \in Nat : n \in T
  <2> HIDE DEF T
  <2> QED
    BY <1>5, Induction
<1>7. Cardinality(P) \in Nat /\ Small(Cardinality(P)) = SUBSET P
  BY <1>1, FS_Subset
<1> QED
  BY <1>6, <1>7

\* s has the elements of ps, the latest first.
Sorted(s, ps) ==
    /\ s \in Seq(ps)
    /\ \A p \in ps : \E i \in 1 .. Len(s) : s[i] = p
    /\ \A j \in 1 .. Len(s) : \A i \in 1 .. j - 1 : Later(s[i], s[j])

\* The sort puts all patches in a row, from the end of the file.
LEMMA DescendingSorts ==
    ASSUME NEW P, IsFiniteSet(P), Ranged(P)
    PROVE  Sorted(Descending(P), P)
<1> DEFINE S(ps) == Sorting(P)[ps]
           T == {n \in Nat : \A ps \in SUBSET P : Cardinality(ps) = n => Sorted(S(ps), ps)}
<1>1. Descending(P) = S(P)
  BY DEF Descending, Sorting, Earliest
<1>2. \A ps \in SUBSET P :
         S(ps) = IF ps = {} THEN <<>> ELSE Append(S(ps \ {Earliest(ps)}), Earliest(ps))
  <2>1. Sorting(P) = [ps \in SUBSET P |->
           IF ps = {} THEN <<>> ELSE Append(Sorting(P)[ps \ {Earliest(ps)}], Earliest(ps))]
    BY SortingExists DEF Sorting
  <2> QED
    BY <2>1
<1>3. \A ps \in SUBSET P : IsFiniteSet(ps) /\ Cardinality(ps) \in Nat /\ Ranged(ps)
  BY FS_Subset, FS_CardinalityType DEF Ranged
<1>4. 0 \in T
  <2> SUFFICES ASSUME NEW ps \in SUBSET P, Cardinality(ps) = 0 PROVE Sorted(S(ps), ps)
    OBVIOUS
  <2>1. ps = {}
    BY <1>3, FS_EmptySet
  <2>2. S(ps) = <<>>
    BY <1>2, <2>1
  <2> QED
    BY <2>1, <2>2 DEF Sorted
<1>5. ASSUME NEW n \in Nat, n \in T PROVE n + 1 \in T
  <2> SUFFICES ASSUME NEW ps \in SUBSET P, Cardinality(ps) = n + 1 PROVE Sorted(S(ps), ps)
    OBVIOUS
  <2> DEFINE last == Earliest(ps)
             rest == ps \ {last}
  <2>1. ps # {}
    BY FS_EmptySet
  <2>2. last \in ps /\ \A q \in rest : Later(q, last)
    BY <1>3, <2>1, LastOfSet
  <2>3. Cardinality(rest) = n /\ rest \in SUBSET P
    BY <1>3, <2>2, FS_RemoveElement
  <2>4. Sorted(S(rest), rest)
    BY <1>5, <2>3
  <2>5. S(ps) = Append(S(rest), last)
    BY <1>2, <2>1
  <2> HIDE DEF S
  <2> DEFINE s == S(rest)
  <2>6. /\ s \in Seq(rest) /\ \A p \in rest : \E i \in 1 .. Len(s) : s[i] = p
        /\ \A j \in 1 .. Len(s) : \A i \in 1 .. j - 1 : Later(s[i], s[j])
    BY <2>4 DEF Sorted
  <2> HIDE DEF s, last, rest
  <2>7. rest \subseteq ps /\ ps = rest \cup {last}
    BY <2>2 DEF rest
  <2>8. s \in Seq(ps) /\ Len(s) \in Nat
    BY <2>6, <2>7
  <2>9. /\ Append(s, last) \in Seq(ps) /\ Len(Append(s, last)) = Len(s) + 1
        /\ Append(s, last)[Len(s) + 1] = last
        /\ \A i \in 1 .. Len(s) : Append(s, last)[i] = s[i] /\ s[i] \in rest
    BY <2>2, <2>6, <2>8, AppendProperties, ElementOfSeq
  <2>10. \A p \in ps : \E i \in 1 .. Len(s) + 1 : Append(s, last)[i] = p
    <3> SUFFICES ASSUME NEW p \in ps PROVE \E i \in 1 .. Len(s) + 1 : Append(s, last)[i] = p
      OBVIOUS
    <3>1. CASE p = last
      <4>1. Len(s) + 1 \in 1 .. Len(s) + 1
        BY <2>8
      <4> QED
        BY <2>9, <3>1, <4>1
    <3>2. CASE p \in rest
      <4>1. PICK i \in 1 .. Len(s) : s[i] = p
        BY <2>6, <3>2
      <4>2. i \in 1 .. Len(s) + 1
        BY <2>8
      <4> QED
        BY <2>9, <4>1, <4>2
    <3> QED
      BY <2>7, <3>1, <3>2
  <2>11. ASSUME NEW j \in 1 .. Len(s) + 1, NEW i \in 1 .. j - 1
         PROVE  Later(Append(s, last)[i], Append(s, last)[j])
    <3>1. i \in 1 .. Len(s)
      BY <2>8
    <3>2. CASE j = Len(s) + 1
      BY <2>2, <2>9, <3>1, <3>2
    <3>3. CASE j \in 1 .. Len(s)
      BY <2>6, <2>9, <3>1, <3>3
    <3> QED
      BY <2>8, <3>2, <3>3
  <2> QED
    BY <2>5, <2>9, <2>10, <2>11 DEF Sorted, s, last, rest
<1>6. \A n \in Nat : n \in T
  <2> HIDE DEF T
  <2> QED
    BY <1>4, <1>5, Induction
<1> QED
  BY <1>1, <1>3, <1>6
-----------------------------------------------------------------------------
(***************************************************************************)
(* The running bound                                                       *)
(***************************************************************************)
Keeping(s) ==
    CHOOSE h : h = [i \in 0 .. Len(s) |-> IF i = 0 THEN <<>> ELSE Keep(h[i - 1], s[i])]

LEMMA KeepingExists ==
    ASSUME NEW s, Len(s) \in Nat
    PROVE  \E h : h = [i \in 0 .. Len(s) |-> IF i = 0 THEN <<>> ELSE Keep(h[i - 1], s[i])]
<1> DEFINE Up(n) == \E h : h = [i \in 0 .. n |-> IF i = 0 THEN <<>> ELSE Keep(h[i - 1], s[i])]
           T == {n \in Nat : Up(n)}
<1>1. Up(0)
  <2> WITNESS [i \in 0 .. 0 |-> <<>>]
  <2> QED
    OBVIOUS
<1>2. ASSUME NEW n \in Nat, Up(n) PROVE Up(n + 1)
  <2>1. PICK h : h = [i \in 0 .. n |-> IF i = 0 THEN <<>> ELSE Keep(h[i - 1], s[i])]
    BY <1>2
  <2> DEFINE g == [i \in 0 .. n + 1 |-> IF i = 0 THEN <<>> ELSE Keep(h[i - 1], s[i])]
  <2>2. \A i \in 0 .. n + 1 : i # 0 => i - 1 \in 0 .. n
    OBVIOUS
  <2>3. \A i \in 0 .. n : g[i] = h[i]
    <3>1. \A i \in 0 .. n : h[i] = IF i = 0 THEN <<>> ELSE Keep(h[i - 1], s[i])
      BY <2>1
    <3> QED
      BY <3>1
  <2>4. g = [i \in 0 .. n + 1 |-> IF i = 0 THEN <<>> ELSE Keep(g[i - 1], s[i])]
    BY <2>2, <2>3
  <2> QED
    BY <2>4
<1>3. 0 \in T /\ \A n \in Nat : n \in T => n + 1 \in T
  <2> HIDE DEF Up
  <2> QED
    BY <1>1, <1>2
<1>4. \A n \in Nat : n \in T
  <2> HIDE DEF T
  <2> QED
    BY <1>3, Induction
<1> QED
  BY <1>4

\* Kept patches do not reach into each other, and a patch that is not among the
\* kept ones reaches into one that is, and comes after it.
Apart(kept) == \A i \in 2 .. Len(kept) : kept[i].to <= kept[i - 1].from

KeptOf(kept, s, n) ==
    /\ \A i \in 1 .. Len(kept) : \E j \in 1 .. n : kept[i] = s[j]
    /\ n > 0 => Len(kept) > 0 /\ \E j \in 1 .. n : kept[Len(kept)] = s[j]
    /\ \A j \in 1 .. n : \/ \E i \in 1 .. Len(kept) : kept[i] = s[j]
                         \/ \E k \in 1 .. j - 1 : s[j].to > s[k].from

LEMMA KeepStep ==
    ASSUME NEW P, Ranged(P), NEW s \in Seq(P), NEW kept \in Seq(P), Apart(kept),
           NEW n \in 0 .. Len(s) - 1, KeptOf(kept, s, n)
    PROVE  LET k == Keep(kept, s[n + 1])
           IN  k \in Seq(P) /\ Apart(k) /\ KeptOf(k, s, n + 1)
<1> DEFINE p == s[n + 1]
           k == Keep(kept, p)
<1>0. Len(s) \in Nat /\ Len(kept) \in Nat /\ n \in Nat
  OBVIOUS
<1>1. n + 1 \in 1 .. Len(s) /\ p \in P
  <2>1. n + 1 \in 1 .. Len(s)
    BY <1>0
  <2> QED
    BY <2>1, ElementOfSeq
<1>2. CASE kept # <<>> /\ ReachesInto(p, Last(kept).from)
  <2>1. k = kept /\ Len(kept) > 0
    BY <1>0, <1>2, EmptySeq DEF Keep
  <2>2. kept[Len(kept)] = Last(kept)
    BY DEF Last
  <2>3. p.to > kept[Len(kept)].from
    BY <1>2, <2>2 DEF ReachesInto
  <2>4. PICK m \in 1 .. n : kept[Len(kept)] = s[m]
    BY <1>0, <2>1 DEF KeptOf
  <2>5. p.to > s[m].from /\ m \in 1 .. (n + 1) - 1
    BY <1>0, <2>3, <2>4
  <2>6. KeptOf(kept, s, n + 1)
    <3>1. \A i \in 1 .. Len(kept) : \E j \in 1 .. n + 1 : kept[i] = s[j]
      BY <1>0 DEF KeptOf
    <3>2. ASSUME NEW j \in 1 .. n + 1
          PROVE  \/ \E i \in 1 .. Len(kept) : kept[i] = s[j]
                 \/ \E l \in 1 .. j - 1 : s[j].to > s[l].from
      <4>1. CASE j = n + 1
        BY <2>5, <4>1
      <4>2. CASE j \in 1 .. n
        BY <4>2 DEF KeptOf
      <4> QED
        BY <1>0, <4>1, <4>2
    <3>3. \E j \in 1 .. n + 1 : kept[Len(kept)] = s[j]
      BY <1>0, <2>4
    <3> QED
      BY <2>1, <3>1, <3>2, <3>3 DEF KeptOf
  <2> QED
    BY <2>1, <2>6
<1>3. CASE ~(kept # <<>> /\ ReachesInto(p, Last(kept).from))
  <2>1. k = Append(kept, p)
    BY <1>3 DEF Keep
  <2>2. /\ k \in Seq(P) /\ Len(k) = Len(kept) + 1 /\ k[Len(kept) + 1] = p
        /\ \A i \in 1 .. Len(kept) : k[i] = kept[i]
    BY <1>1, <2>1, AppendProperties
  <2> HIDE DEF k
  <2>3. ASSUME NEW i \in 2 .. Len(k) PROVE k[i].to <= k[i - 1].from
    <3>1. CASE i = Len(kept) + 1
      <4>1. kept # <<>> /\ Len(kept) \in 1 .. Len(kept) /\ i - 1 = Len(kept)
        BY <1>0, <3>1, EmptySeq
      <4>2. ~(p.to > kept[Len(kept)].from)
        BY <1>3, <4>1 DEF ReachesInto, Last
      <4>3. kept[Len(kept)] \in P
        BY <4>1, ElementOfSeq
      <4>4. p.to <= kept[Len(kept)].from
        BY <1>1, <4>2, <4>3 DEF Ranged
      <4> QED
        BY <2>2, <3>1, <4>1, <4>4
    <3>2. CASE i \in 2 .. Len(kept)
      <4>1. i \in 1 .. Len(kept) /\ i - 1 \in 1 .. Len(kept)
        BY <1>0, <3>2
      <4> QED
        BY <2>2, <3>2, <4>1 DEF Apart
    <3> QED
      BY <1>0, <2>2, <3>1, <3>2
  <2>4. KeptOf(k, s, n + 1)
    <3>1. ASSUME NEW i \in 1 .. Len(k) PROVE \E j \in 1 .. n + 1 : k[i] = s[j]
      <4>1. CASE i = Len(kept) + 1
        <5>1. n + 1 \in 1 .. n + 1
          BY <1>0
        <5> QED
          BY <2>2, <4>1, <5>1
      <4>2. CASE i \in 1 .. Len(kept)
        <5>1. PICK j \in 1 .. n : kept[i] = s[j]
          BY <4>2 DEF KeptOf
        <5> QED
          BY <1>0, <2>2, <4>2, <5>1
      <4> QED
        BY <1>0, <2>2, <4>1, <4>2
    <3>2. ASSUME NEW j \in 1 .. n + 1
          PROVE  \/ \E i \in 1 .. Len(k) : k[i] = s[j]
                 \/ \E l \in 1 .. j - 1 : s[j].to > s[l].from
      <4>1. CASE j = n + 1
        <5>1. Len(kept) + 1 \in 1 .. Len(k)
          BY <1>0, <2>2
        <5> QED
          BY <2>2, <4>1, <5>1
      <4>2. CASE j \in 1 .. n
        <5>1. CASE \E i \in 1 .. Len(kept) : kept[i] = s[j]
          BY <1>0, <2>2, <5>1
        <5>2. CASE \E l \in 1 .. j - 1 : s[j].to > s[l].from
          BY <5>2
        <5> QED
          BY <4>2, <5>1, <5>2 DEF KeptOf
      <4> QED
        BY <1>0, <4>1, <4>2
    <3>3. Len(k) > 0 /\ k[Len(k)] = s[n + 1] /\ n + 1 \in 1 .. n + 1
      BY <1>0, <2>2
    <3> QED
      BY <3>1, <3>2, <3>3 DEF KeptOf
  <2> QED
    BY <2>2, <2>3, <2>4 DEF Apart, k
<1> QED
  BY <1>2, <1>3

\* What the running bound keeps lies apart, and what it drops reaches into
\* a patch that stays.
LEMMA CleanKeeps ==
    ASSUME NEW P, IsFiniteSet(P), Ranged(P)
    PROVE  LET s == Descending(P)
               k == Clean(P)
           IN  k \in Seq(P) /\ Apart(k) /\ KeptOf(k, s, Len(s))
<1> DEFINE s == Descending(P)
           K(i) == Keeping(s)[i]
           Good(i) == K(i) \in Seq(P) /\ Apart(K(i)) /\ KeptOf(K(i), s, i)
           T == {n \in Nat : Good(n)}
<1>1. s \in Seq(P) /\ Len(s) \in Nat
  BY DescendingSorts DEF Sorted
<1>2. Clean(P) = K(Len(s))
  BY DEF Clean, Keeping
<1> HIDE DEF s
<1>3. \A i \in 0 .. Len(s) : K(i) = IF i = 0 THEN <<>> ELSE Keep(K(i - 1), s[i])
  <2>1. Keeping(s) =
          [i \in 0 .. Len(s) |-> IF i = 0 THEN <<>> ELSE Keep(Keeping(s)[i - 1], s[i])]
    BY <1>1, KeepingExists DEF Keeping
  <2> QED
    BY <2>1
<1>4. Good(0)
  <2>1. K(0) = <<>>
    BY <1>1, <1>3
  <2> QED
    BY <2>1 DEF Apart, KeptOf
<1>5. ASSUME NEW n \in 0 .. Len(s) - 1, Good(n) PROVE Good(n + 1)
  <2>1. K(n + 1) = Keep(K(n), s[n + 1])
    <3>1. n + 1 \in 0 .. Len(s) /\ n + 1 # 0 /\ (n + 1) - 1 = n
      BY <1>1
    <3> QED
      BY <1>3, <3>1
  <2> HIDE DEF K
  <2> QED
    BY <1>1, <1>5, <2>1, KeepStep
<1>6. \A n \in 0 .. Len(s) : n \in T
  <2>1. 0 \in T /\ \A n \in 0 .. Len(s) - 1 : n \in T => n + 1 \in T
    <3> HIDE DEF Good
    <3> QED
      BY <1>1, <1>4, <1>5
  <2> HIDE DEF T
  <2> QED
    BY <1>1, <2>1, InductionUpTo
<1> QED
  BY <1>1, <1>2, <1>6 DEF s
-----------------------------------------------------------------------------
(***************************************************************************)
(* Content                                                                 *)
(***************************************************************************)
\* What the tokens of a file say, token by token.
Parts(f) == [i \in DOMAIN f |-> f[i].of]

LEMMA PartsType ==
    ASSUME NEW f \in Seq(AllTokens)
    PROVE  /\ Parts(f) \in Seq(Numbers) /\ Len(Parts(f)) = Len(f)
           /\ \A i \in 1 .. Len(f) : Parts(f)[i] = f[i].of
           /\ Content(f) = FlattenSeq(Parts(f)) /\ Content(f) \in Numbers
<1>1. Len(f) \in Nat /\ DOMAIN f = 1 .. Len(f) /\ \A i \in 1 .. Len(f) : f[i] \in AllTokens
  BY ElementOfSeq
<1>2. \A i \in 1 .. Len(f) : f[i].of \in Numbers
  BY <1>1 DEF AllTokens, Numbers
<1>3. Parts(f) = [i \in 1 .. Len(f) |-> f[i].of]
  BY <1>1 DEF Parts
<1>4. Parts(f) \in Seq(Numbers) /\ Len(Parts(f)) = Len(f)
  BY <1>1, <1>2, <1>3, IsASeq
<1>5. Content(f) = FlattenSeq(Parts(f))
  BY DEF Content, Parts
<1> QED
  BY <1>3, <1>4, <1>5, NumbersFlatten

LEMMA PartsConcat ==
    ASSUME NEW f \in Seq(AllTokens), NEW g \in Seq(AllTokens)
    PROVE  Parts(f \o g) = Parts(f) \o Parts(g)
<1> DEFINE fg == f \o g
           a == Parts(fg)
           b == Parts(f) \o Parts(g)
<1>0. Len(f) \in Nat /\ Len(g) \in Nat
  OBVIOUS
<1>1. /\ fg \in Seq(AllTokens) /\ Len(fg) = Len(f) + Len(g)
      /\ \A i \in 1 .. Len(f) : fg[i] = f[i]
      /\ \A i \in 1 .. Len(g) : fg[Len(f) + i] = g[i]
  BY Concatenated
<1> HIDE DEF fg
<1>2. /\ a \in Seq(Numbers) /\ Len(a) = Len(f) + Len(g)
      /\ \A i \in 1 .. Len(f) + Len(g) : a[i] = fg[i].of
  BY <1>1, PartsType
<1>3. /\ b \in Seq(Numbers) /\ Len(b) = Len(f) + Len(g)
      /\ \A i \in 1 .. Len(f) : b[i] = f[i].of
      /\ \A i \in 1 .. Len(g) : b[Len(f) + i] = g[i].of
  <2>1. /\ Parts(f) \in Seq(Numbers) /\ Len(Parts(f)) = Len(f)
        /\ \A i \in 1 .. Len(f) : Parts(f)[i] = f[i].of
    BY PartsType
  <2>2. /\ Parts(g) \in Seq(Numbers) /\ Len(Parts(g)) = Len(g)
        /\ \A i \in 1 .. Len(g) : Parts(g)[i] = g[i].of
    BY PartsType
  <2> DEFINE x == Parts(f)
             y == Parts(g)
  <2>3. x \in Seq(Numbers) /\ y \in Seq(Numbers) /\ b = x \o y
    BY <2>1, <2>2
  <2> HIDE DEF x, y, b
  <2>4. /\ b \in Seq(Numbers) /\ Len(b) = Len(x) + Len(y)
        /\ \A i \in 1 .. Len(x) : b[i] = x[i]
        /\ \A i \in 1 .. Len(y) : b[Len(x) + i] = y[i]
    BY <2>3, Concatenated
  <2> QED
    BY <2>1, <2>2, <2>4 DEF x, y
<1> HIDE DEF a, b
<1>4. ASSUME NEW i \in 1 .. Len(f) + Len(g) PROVE a[i] = b[i]
  <2>1. CASE i \in 1 .. Len(f)
    BY <1>1, <1>2, <1>3, <2>1
  <2>2. CASE i \in Len(f) + 1 .. Len(f) + Len(g)
    <3>1. i - Len(f) \in 1 .. Len(g) /\ Len(f) + (i - Len(f)) = i
      BY <1>0, <2>2
    <3>2. a[i] = fg[i].of
      BY <1>2
    <3>3. fg[i] = g[i - Len(f)] /\ b[i] = g[i - Len(f)].of
      BY <1>1, <1>3, <3>1
    <3> QED
      BY <3>2, <3>3
  <2> QED
    BY <1>0, <2>1, <2>2
<1>5. a = b
  BY <1>2, <1>3, <1>4, SeqEqual
<1> QED
  BY <1>5 DEF a, b, fg

\* What a file says is what its two halves say.
LEMMA ContentConcat ==
    ASSUME NEW f \in Seq(AllTokens), NEW g \in Seq(AllTokens)
    PROVE  Content(f \o g) = Content(f) \o Content(g)
<1>1. f \o g \in Seq(AllTokens)
  BY Concatenated
<1>2. Parts(f) \in Seq(Numbers) /\ Parts(g) \in Seq(Numbers)
  BY PartsType
<1>3. FlattenSeq(Parts(f) \o Parts(g)) = FlattenSeq(Parts(f)) \o FlattenSeq(Parts(g))
  BY <1>2, NumbersFlatten
<1>4. Content(f \o g) = FlattenSeq(Parts(f \o g))
  BY <1>1, PartsType
<1> QED
  BY <1>3, <1>4, PartsConcat, PartsType

LEMMA ContentJoin ==
    ASSUME NEW f \in Seq(AllTokens), NEW g \in Seq(AllTokens)
    PROVE  Content(Join(f, g)) = Content(f) \o Content(g)
  BY ContentConcat DEF Join

LEMMA ContentOne ==
    ASSUME NEW t \in AllTokens
    PROVE  <<t>> \in Seq(AllTokens) /\ Content(<<t>>) = t.of
<1> DEFINE f == <<t>>
<1>1. f \in Seq(AllTokens) /\ Len(f) = 1 /\ f[1] = t /\ 1 \in 1 .. Len(f)
  OBVIOUS
<1>2. t.of \in Numbers
  BY DEF AllTokens, Numbers
<1> HIDE DEF f
<1>3. Parts(f) \in Seq(Numbers) /\ Len(Parts(f)) = 1 /\ Parts(f)[1] = t.of
  BY <1>1, PartsType
<1>4. /\ Append(<<>>, t.of) \in Seq(Numbers) /\ Len(Append(<<>>, t.of)) = 1
      /\ Append(<<>>, t.of)[1] = t.of
  BY <1>2
<1>5. Parts(f) = Append(<<>>, t.of)
  BY <1>3, <1>4, SeqEqual
<1>6. Content(f) = <<>> \o t.of
  BY <1>1, <1>2, <1>5, PartsType, NumbersFlatten
<1>7. <<>> \o t.of = t.of
  BY <1>2, ConcatEmptySeq DEF Numbers
<1> QED
  BY <1>1, <1>6, <1>7 DEF f

-----------------------------------------------------------------------------
(***************************************************************************)
(* One patch                                                               *)
(***************************************************************************)
\* What every patch of a plan is.
Fitting(f, p) ==
    /\ p.from \in 1 .. Len(f) + 1 /\ p.to \in p.from .. Len(f) + 1
    /\ p.by \in AllTokens

\* Where the token at x goes when p is carried out.
Shift(p, x) == IF x < p.from THEN x ELSE x - p.to + p.from + 1

\* What is where after one patch: the file before it, the new token, and the
\* rest of the file, shifted.
LEMMA Spliced ==
    ASSUME NEW f \in Seq(AllTokens), NEW p, Fitting(f, p)
    PROVE  /\ Splice(f, p) \in Seq(AllTokens)
           /\ Len(Splice(f, p)) = Len(f) - p.to + p.from + 1
           /\ \A x \in 1 .. p.from - 1 : Splice(f, p)[x] = f[x]
           /\ Splice(f, p)[p.from] = p.by
           /\ \A x \in p.to .. Len(f) : Splice(f, p)[Shift(p, x)] = f[x]
           /\ Content(Splice(f, p)) =
                 (Content(SubSeq(f, 1, p.from - 1)) \o p.by.of) \o Content(SubSeq(f, p.to, Len(f)))
<1> DEFINE a == SubSeq(f, 1, p.from - 1)
           b == <<p.by>>
           c == SubSeq(f, p.to, Len(f))
           ab == Join(a, b)
           g == Join(ab, c)
<1>0. Len(f) \in Nat /\ p.from \in Nat /\ p.to \in Nat /\ p.from > 0 /\ p.from <= p.to
      /\ p.to <= Len(f) + 1 /\ p.by \in AllTokens
  BY DEF Fitting
<1>1. /\ a \in Seq(AllTokens) /\ Len(a) = p.from - 1
      /\ \A x \in 1 .. p.from - 1 : a[x] = f[x]
  <2>1. p.from \in 1 .. Len(f) + 1
    BY <1>0
  <2> QED
    BY <2>1, Parted
<1>2. /\ c \in Seq(AllTokens) /\ Len(c) = Len(f) - (p.to - 1)
      /\ \A x \in 1 .. Len(f) - (p.to - 1) : c[x] = f[x + p.to - 1]
  <2>1. p.to \in 1 .. Len(f) + 1
    BY <1>0
  <2> QED
    BY <2>1, Parted
<1>3. b \in Seq(AllTokens) /\ Len(b) = 1 /\ b[1] = p.by /\ Content(b) = p.by.of
  BY <1>0, ContentOne
<1>4. Splice(f, p) = g
  BY DEF Splice, Join
<1> HIDE DEF a, b, c
<1>5. /\ ab \in Seq(AllTokens) /\ Len(ab) = p.from
      /\ \A x \in 1 .. p.from - 1 : ab[x] = f[x]
      /\ ab[p.from] = p.by
  <2>1. /\ ab \in Seq(AllTokens) /\ Len(ab) = Len(a) + Len(b)
        /\ \A i \in 1 .. Len(a) : ab[i] = a[i]
        /\ \A i \in 1 .. Len(b) : ab[Len(a) + i] = b[i]
    <3>1. a \in Seq(AllTokens) /\ b \in Seq(AllTokens) /\ ab = Join(a, b)
      BY <1>1, <1>3
    <3> HIDE DEF ab
    <3> QED
      BY <3>1, JoinedAs
  <2> HIDE DEF ab
  <2>2. ab[Len(a) + 1] = p.by /\ Len(a) + 1 = p.from
    BY <1>0, <1>1, <1>3, <2>1
  <2> QED
    BY <1>0, <1>1, <1>3, <2>1, <2>2
<1>6. Content(ab) = Content(a) \o p.by.of
  BY <1>1, <1>3, ContentJoin
<1> HIDE DEF ab
<1>7. /\ g \in Seq(AllTokens) /\ Len(g) = Len(ab) + Len(c)
      /\ \A i \in 1 .. Len(ab) : g[i] = ab[i]
      /\ \A i \in 1 .. Len(c) : g[Len(ab) + i] = c[i]
  <2>1. ab \in Seq(AllTokens) /\ c \in Seq(AllTokens) /\ g = Join(ab, c)
    BY <1>2, <1>5
  <2> HIDE DEF g
  <2> QED
    BY <2>1, JoinedAs
<1>8. Content(g) = (Content(a) \o p.by.of) \o Content(c)
  BY <1>2, <1>5, <1>6, ContentJoin
<1> HIDE DEF g
<1>9. ASSUME NEW x \in p.to .. Len(f) PROVE g[Shift(p, x)] = f[x]
  <2> DEFINE i == x - p.to + 1
  <2>1. i \in 1 .. Len(c) /\ Shift(p, x) = Len(ab) + i /\ i + p.to - 1 = x
        /\ i \in 1 .. Len(f) - (p.to - 1)
    BY <1>0, <1>2, <1>5 DEF Shift
  <2> HIDE DEF i
  <2> QED
    BY <1>2, <1>7, <2>1
<1>10. /\ \A x \in 1 .. p.from - 1 : g[x] = f[x]
       /\ g[p.from] = p.by
  <2>1. \A x \in 1 .. p.from - 1 : x \in 1 .. Len(ab)
    BY <1>0, <1>5
  <2>2. p.from \in 1 .. Len(ab)
    BY <1>0, <1>5
  <2> QED
    BY <1>5, <1>7, <2>1, <2>2
<1>11. Len(g) = Len(f) - p.to + p.from + 1
  BY <1>0, <1>2, <1>5, <1>7
<1> QED
  BY <1>4, <1>7, <1>8, <1>9, <1>10, <1>11 DEF a, c

\* A patch that says what it replaces keeps what the file says.
Faithful(f, p) == p.by.of = Content(SubSeq(f, p.from, p.to - 1))

\* A patch whose token says what was in its range changes nothing that is said.
LEMMA SpliceKeepsContent ==
    ASSUME NEW f \in Seq(AllTokens), NEW p, Fitting(f, p), Faithful(f, p)
    PROVE  Content(Splice(f, p)) = Content(f)
<1> DEFINE a == SubSeq(f, 1, p.from - 1)
           b == SubSeq(f, p.from, p.to - 1)
           c == SubSeq(f, p.to, Len(f))
           ab == SubSeq(f, 1, p.to - 1)
<1>0. Len(f) \in Nat /\ p.from \in Nat /\ p.to \in Nat /\ p.from > 0 /\ p.from <= p.to
      /\ p.to <= Len(f) + 1
  BY DEF Fitting
<1>1. /\ ab \in Seq(AllTokens) /\ Len(ab) = p.to - 1 /\ c \in Seq(AllTokens) /\ f = Join(ab, c)
      /\ \A j \in 1 .. p.to - 1 : ab[j] = f[j]
  <2>1. p.to \in 1 .. Len(f) + 1
    BY <1>0
  <2> QED
    BY <2>1, Parted
<1>2. a \in Seq(AllTokens) /\ b \in Seq(AllTokens) /\ ab = Join(a, b)
  <2>1. p.from \in 1 .. Len(ab) + 1
    BY <1>0, <1>1
  <2> HIDE DEF ab
  <2>2. /\ SubSeq(ab, 1, p.from - 1) \in Seq(AllTokens)
        /\ SubSeq(ab, p.from, Len(ab)) \in Seq(AllTokens)
        /\ ab = Join(SubSeq(ab, 1, p.from - 1), SubSeq(ab, p.from, Len(ab)))
    BY <1>1, <2>1, Parted
  <2>3. SubSeq(ab, 1, p.from - 1) = a /\ SubSeq(ab, p.from, Len(ab)) = b
    <3>1. /\ p.to - 1 \in 0 .. Len(f)
          /\ 1 \in 1 .. (p.to - 1) + 1 /\ p.from - 1 \in 1 - 1 .. p.to - 1
          /\ p.from \in 1 .. (p.to - 1) + 1 /\ p.to - 1 \in p.from - 1 .. p.to - 1
      BY <1>0
    <3> QED
      BY <1>1, <3>1, SubSeqTwice DEF a, b, ab
  <2> QED
    BY <2>2, <2>3
<1> HIDE DEF a, b, c, ab
<1>3. Content(f) = (Content(a) \o Content(b)) \o Content(c)
  BY <1>1, <1>2, ContentJoin
<1> QED
  BY <1>3, Spliced DEF Faithful, a, b, c

-----------------------------------------------------------------------------
(***************************************************************************)
(* All patches of a plan, one after the other                              *)
(***************************************************************************)
Replacing(f, ps) ==
    CHOOSE h : h = [i \in 0 .. Len(ps) |-> IF i = 0 THEN f ELSE Splice(h[i - 1], ps[i])]

LEMMA ReplacingExists ==
    ASSUME NEW f, NEW s, Len(s) \in Nat
    PROVE  \E h : h = [i \in 0 .. Len(s) |-> IF i = 0 THEN f ELSE Splice(h[i - 1], s[i])]
<1> DEFINE Up(n) == \E h : h = [i \in 0 .. n |-> IF i = 0 THEN f ELSE Splice(h[i - 1], s[i])]
           T == {n \in Nat : Up(n)}
<1>1. Up(0)
  <2> WITNESS [i \in 0 .. 0 |-> f]
  <2> QED
    OBVIOUS
<1>2. ASSUME NEW n \in Nat, Up(n) PROVE Up(n + 1)
  <2>1. PICK h : h = [i \in 0 .. n |-> IF i = 0 THEN f ELSE Splice(h[i - 1], s[i])]
    BY <1>2
  <2> DEFINE g == [i \in 0 .. n + 1 |-> IF i = 0 THEN f ELSE Splice(h[i - 1], s[i])]
  <2>2. \A i \in 0 .. n + 1 : i # 0 => i - 1 \in 0 .. n
    OBVIOUS
  <2>3. \A i \in 0 .. n : g[i] = h[i]
    <3>1. \A i \in 0 .. n : h[i] = IF i = 0 THEN f ELSE Splice(h[i - 1], s[i])
      BY <2>1
    <3> QED
      BY <3>1
  <2>4. g = [i \in 0 .. n + 1 |-> IF i = 0 THEN f ELSE Splice(g[i - 1], s[i])]
    BY <2>2, <2>3
  <2> QED
    BY <2>4
<1>3. 0 \in T /\ \A n \in Nat : n \in T => n + 1 \in T
  <2> HIDE DEF Up
  <2> QED
    BY <1>1, <1>2
<1>4. \A n \in Nat : n \in T
  <2> HIDE DEF T
  <2> QED
    BY <1>3, Induction
<1> QED
  BY <1>4

\* The rule for the loop: what holds of the file before it, and after every
\* patch if it did before, holds of the result.
LEMMA ReplacedLoop ==
    ASSUME NEW f, NEW P, Len(Clean(P)) \in Nat, NEW Q, <<0, f>> \in Q,
           \A i \in 0 .. Len(Clean(P)) - 1 : \A g :
              <<i, g>> \in Q => <<i + 1, Splice(g, Clean(P)[i + 1])>> \in Q
    PROVE  <<Len(Clean(P)), Replaced(f, P)>> \in Q
<1> DEFINE s == Clean(P)
           R(i) == Replacing(f, s)[i]
           T == {n \in Nat : <<n, R(n)>> \in Q}
<1>1. Replaced(f, P) = R(Len(s))
  BY DEF Replaced, Replacing
<1> HIDE DEF s
<1>2. \A i \in 0 .. Len(s) : R(i) = IF i = 0 THEN f ELSE Splice(R(i - 1), s[i])
  <2>1. Replacing(f, s) =
          [i \in 0 .. Len(s) |-> IF i = 0 THEN f ELSE Splice(Replacing(f, s)[i - 1], s[i])]
    BY ReplacingExists, SMTT(30) DEF Replacing, s
  <2> QED
    BY <2>1
<1>3. Len(s) \in Nat
  BY DEF s
<1>4. 0 \in T
  BY <1>2, <1>3
<1>5. ASSUME NEW n \in 0 .. Len(s) - 1, n \in T PROVE n + 1 \in T
  <2>1. n + 1 \in 0 .. Len(s) /\ n + 1 # 0 /\ (n + 1) - 1 = n /\ n \in Nat /\ n + 1 \in Nat
    BY <1>3
  <2>2. R(n + 1) = Splice(R(n), s[n + 1])
    BY <1>2, <2>1
  <2>3. <<n, R(n)>> \in Q
    BY <1>5
  <2> HIDE DEF R
  <2>4. <<n + 1, Splice(R(n), s[n + 1])>> \in Q
    BY <2>3 DEF s
  <2> QED
    BY <2>1, <2>2, <2>4
<1>6. \A n \in 0 .. Len(s) : n \in T
  <2> HIDE DEF T
  <2> QED
    BY <1>3, <1>4, <1>5, InductionUpTo
<1>7. Len(s) \in T
  BY <1>3, <1>6
<1> QED
  BY <1>1, <1>7 DEF s

\* Patches are carried out from the end: each one ends where or before every
\* earlier one begins.
LEMMA FarApart ==
    ASSUME NEW k, Len(k) \in Nat, Apart(k),
           \A i \in 1 .. Len(k) : k[i].from \in Nat /\ k[i].to \in Nat /\ k[i].from <= k[i].to
    PROVE  \A j \in 1 .. Len(k) : \A i \in 1 .. j - 1 : k[j].to <= k[i].from
<1> DEFINE T == {n \in Nat : \A j \in 1 .. Len(k) : \A i \in 1 .. j - 1 :
                                j = i + n => k[j].to <= k[i].from}
<1>1. 0 \in T
  OBVIOUS
<1>2. ASSUME NEW n \in Nat, n \in T PROVE n + 1 \in T
  <2> SUFFICES ASSUME NEW j \in 1 .. Len(k), NEW i \in 1 .. j - 1, j = i + (n + 1)
               PROVE  k[j].to <= k[i].from
    BY <1>2
  <2>1. j \in 2 .. Len(k) /\ j - 1 \in 1 .. Len(k) /\ i \in 1 .. Len(k)
    OBVIOUS
  <2>2. k[j].to <= k[j - 1].from
    BY <2>1 DEF Apart
  <2>3. CASE j - 1 = i
    BY <2>2, <2>3
  <2>4. CASE j - 1 # i
    <3>1. i \in 1 .. (j - 1) - 1 /\ j - 1 = i + n
      BY <2>1, <2>4
    <3>2. k[j - 1].to <= k[i].from
      BY <1>2, <2>1, <3>1
    <3>3. /\ k[j].to \in Nat /\ k[j - 1].from \in Nat /\ k[j - 1].to \in Nat /\ k[i].from \in Nat
          /\ k[j - 1].from <= k[j - 1].to
      BY <2>1
    <3> QED
      BY <2>2, <3>2, <3>3
  <2> QED
    BY <2>3, <2>4
<1>3. \A n \in Nat : n \in T
  <2> HIDE DEF T
  <2> QED
    BY <1>1, <1>2, Induction
<1>4. ASSUME NEW j \in 1 .. Len(k), NEW i \in 1 .. j - 1 PROVE k[j].to <= k[i].from
  <2>1. j - i \in Nat /\ j = i + (j - i)
    OBVIOUS
  <2> QED
    BY <1>3, <2>1
<1> QED
  BY <1>4

-----------------------------------------------------------------------------
(***************************************************************************)
(* What one plan does to a file                                            *)
(***************************************************************************)
\* What every plan is: texts become calls of what they say, hooks are put in
\* between.
Textual(f, p) == /\ \A x \in p.from .. p.to - 1 : f[x].kind = "text"
                 /\ p.by.kind \in {"call", "hook"}

Planned(f, P) ==
    /\ IsFiniteSet(P) /\ Ranged(P)
    /\ \A p \in P : Fitting(f, p) /\ Faithful(f, p) /\ Textual(f, p)

\* Where the part of the file begins that i patches have been through.
Reached(f, k, i) == IF i = 0 THEN Len(f) + 1 ELSE k[i].from

\* The file after i patches: before that place it is what it was.
Ahead(f, g, k, i) ==
    /\ g \in Seq(AllTokens) /\ Reached(f, k, i) \in 1 .. Len(g) + 1
    /\ \A x \in 1 .. Reached(f, k, i) - 1 : g[x] = f[x]
    /\ Content(g) = Content(f)

LEMMA SamePart ==
    ASSUME NEW S, NEW f \in Seq(S), NEW g \in Seq(S), NEW i \in Nat, NEW n \in Nat,
           i > 0, n >= i - 1, n <= Len(f), n <= Len(g), \A x \in i .. n : f[x] = g[x]
    PROVE  SubSeq(f, i, n) = SubSeq(g, i, n)
<1> DEFINE a == SubSeq(f, i, n)
           b == SubSeq(g, i, n)
<1>0. Len(f) \in Nat /\ Len(g) \in Nat
  OBVIOUS
<1>1. /\ a \in Seq(S) /\ Len(a) = n - i + 1
      /\ \A j \in 1 .. n - i + 1 : a[j] = f[j + i - 1]
  <2>1. i \in 1 .. Len(f) + 1 /\ n \in i - 1 .. Len(f)
    BY <1>0
  <2> QED
    BY <2>1, SubSeqIs
<1>2. /\ b \in Seq(S) /\ Len(b) = n - i + 1
      /\ \A j \in 1 .. n - i + 1 : b[j] = g[j + i - 1]
  <2>1. i \in 1 .. Len(g) + 1 /\ n \in i - 1 .. Len(g)
    BY <1>0
  <2> QED
    BY <2>1, SubSeqIs
<1> HIDE DEF a, b
<1>3. ASSUME NEW j \in 1 .. n - i + 1 PROVE a[j] = b[j]
  <2>1. j + i - 1 \in i .. n
    OBVIOUS
  <2> QED
    BY <1>1, <1>2, <2>1
<1>4. a = b
  BY <1>1, <1>2, <1>3, SeqEqual
<1> QED
  BY <1>4 DEF a, b

\* What is carried out of a plan that fits its file.
LEMMA CleanIs ==
    ASSUME NEW f \in Seq(AllTokens), NEW P, Planned(f, P)
    PROVE  /\ Clean(P) \in Seq(P) /\ Len(Clean(P)) \in Nat /\ Apart(Clean(P))
           /\ \A i \in 1 .. Len(Clean(P)) : Clean(P)[i] \in P
           /\ \A j \in 1 .. Len(Clean(P)) : \A i \in 1 .. j - 1 :
                 Clean(P)[j].to <= Clean(P)[i].from
<1> DEFINE k == Clean(P)
<1>1. k \in Seq(P) /\ Apart(k)
  BY CleanKeeps DEF Planned
<1> HIDE DEF k
<1>2. Len(k) \in Nat /\ \A i \in 1 .. Len(k) : k[i] \in P
  BY <1>1, ElementOfSeq
<1>3. \A i \in 1 .. Len(k) : k[i].from \in Nat /\ k[i].to \in Nat /\ k[i].from <= k[i].to
  <2>1. \A p \in P : p.from \in Nat /\ p.to \in Nat /\ p.from <= p.to
    BY DEF Planned, Fitting
  <2> QED
    BY <1>2, <2>1
<1>4. \A j \in 1 .. Len(k) : \A i \in 1 .. j - 1 : k[j].to <= k[i].from
  BY <1>1, <1>2, <1>3, FarApart
<1> QED
  BY <1>1, <1>2, <1>4 DEF k

\* The next patch still fits, though what comes after it has moved.
LEMMA NextPatch ==
    ASSUME NEW f \in Seq(AllTokens), NEW P, Planned(f, P), NEW g,
           NEW i \in 0 .. Len(Clean(P)) - 1, Ahead(f, g, Clean(P), i)
    PROVE  LET p == Clean(P)[i + 1]
           IN  /\ p \in P /\ g \in Seq(AllTokens) /\ Fitting(g, p) /\ Faithful(g, p) /\ Textual(g, p)
               /\ p.to <= Reached(f, Clean(P), i) /\ Reached(f, Clean(P), i + 1) = p.from
<1> DEFINE k == Clean(P)
           p == k[i + 1]
           r == Reached(f, k, i)
<1>1. /\ Len(k) \in Nat /\ \A j \in 1 .. Len(k) : k[j] \in P
      /\ \A j \in 1 .. Len(k) : \A n \in 1 .. j - 1 : k[j].to <= k[n].from
  BY CleanIs
<1> HIDE DEF k
<1>2. i + 1 \in 1 .. Len(k) /\ (i # 0 => i \in 1 .. (i + 1) - 1 /\ i \in 1 .. Len(k))
      /\ i \in Nat /\ i + 1 # 0
  BY <1>1 DEF k
<1>3. p \in P
  BY <1>1, <1>2
<1>4. Fitting(f, p) /\ Faithful(f, p) /\ Textual(f, p)
  BY <1>3 DEF Planned
<1>5. /\ p.from \in Nat /\ p.to \in Nat /\ p.from > 0 /\ p.from <= p.to /\ p.to <= Len(f) + 1
      /\ p.by \in AllTokens /\ Len(f) \in Nat
  BY <1>4 DEF Fitting
<1>6. p.to <= r
  <2>1. CASE i = 0
    BY <1>5, <2>1 DEF Reached
  <2>2. CASE i # 0
    BY <1>1, <1>2, <2>2 DEF Reached
  <2> QED
    BY <2>1, <2>2
<1>7. g \in Seq(AllTokens) /\ r \in 1 .. Len(g) + 1 /\ \A x \in 1 .. r - 1 : g[x] = f[x]
  BY DEF Ahead, k
<1>8. Reached(f, k, i + 1) = p.from
  BY <1>2 DEF Reached
<1> HIDE DEF p, r
<1>9. Len(g) \in Nat /\ r \in Nat /\ p.to <= Len(g) + 1
  BY <1>5, <1>6, <1>7
<1>10. Fitting(g, p)
  BY <1>5, <1>9 DEF Fitting
<1>11. \A x \in p.from .. p.to - 1 : g[x] = f[x]
  BY <1>5, <1>6, <1>7, <1>9
<1>12. SubSeq(g, p.from, p.to - 1) = SubSeq(f, p.from, p.to - 1)
  <2>1. p.to - 1 \in Nat /\ p.to - 1 >= p.from - 1 /\ p.to - 1 <= Len(f) /\ p.to - 1 <= Len(g)
    BY <1>5, <1>9
  <2> QED
    BY <1>5, <1>7, <1>11, <2>1, SamePart
<1>13. Faithful(g, p) /\ Textual(g, p)
  BY <1>4, <1>11, <1>12 DEF Faithful, Textual
<1> QED
  BY <1>3, <1>6, <1>7, <1>8, <1>10, <1>13 DEF p, r, k

\* One more patch leaves the file in front of it as it was.
LEMMA AheadStep ==
    ASSUME NEW f \in Seq(AllTokens), NEW P, Planned(f, P), NEW g,
           NEW i \in 0 .. Len(Clean(P)) - 1, Ahead(f, g, Clean(P), i)
    PROVE  Ahead(f, Splice(g, Clean(P)[i + 1]), Clean(P), i + 1)
<1> DEFINE p == Clean(P)[i + 1]
           r == Reached(f, Clean(P), i)
           h == Splice(g, p)
<1>1. /\ g \in Seq(AllTokens) /\ Fitting(g, p) /\ Faithful(g, p) /\ p.to <= r
      /\ Reached(f, Clean(P), i + 1) = p.from
  BY NextPatch
<1>2. /\ r \in 1 .. Len(g) + 1 /\ \A x \in 1 .. r - 1 : g[x] = f[x]
      /\ Content(g) = Content(f)
  BY DEF Ahead
<1> HIDE DEF p, r
<1>3. /\ h \in Seq(AllTokens) /\ Len(h) = Len(g) - p.to + p.from + 1
      /\ \A x \in 1 .. p.from - 1 : h[x] = g[x]
  BY <1>1, Spliced, ZenonT(60)
<1>4. Content(h) = Content(g)
  BY <1>1, SpliceKeepsContent
<1> HIDE DEF h
<1>5. Len(g) \in Nat /\ Len(h) \in Nat /\ p.from \in Nat /\ p.to \in Nat /\ p.from > 0
      /\ p.from <= p.to /\ p.to <= Len(g) + 1 /\ r \in Nat
  BY <1>1, <1>2, <1>3 DEF Fitting
<1>6. p.from \in 1 .. Len(h) + 1
  BY <1>3, <1>5
<1>7. \A x \in 1 .. p.from - 1 : h[x] = f[x]
  BY <1>1, <1>2, <1>3, <1>5
<1> QED
  BY <1>1, <1>2, <1>3, <1>4, <1>6, <1>7 DEF Ahead, h, p

\* The rule for a plan: the loop with what every step of it may rely on.
LEMMA PlanLoop ==
    ASSUME NEW f \in Seq(AllTokens), NEW P, Planned(f, P), NEW Q, <<0, f>> \in Q,
           \A i \in 0 .. Len(Clean(P)) - 1 : \A g :
              <<i, g>> \in Q /\ Ahead(f, g, Clean(P), i)
                 => <<i + 1, Splice(g, Clean(P)[i + 1])>> \in Q
    PROVE  /\ <<Len(Clean(P)), Replaced(f, P)>> \in Q
           /\ Ahead(f, Replaced(f, P), Clean(P), Len(Clean(P)))
<1> DEFINE k == Clean(P)
           R == {q \in Q : Ahead(f, q[2], k, q[1])}
<1>1. Len(k) \in Nat
  BY CleanIs
<1>2. <<0, f>> \in R
  BY DEF Ahead, Reached
<1>3. ASSUME NEW i \in 0 .. Len(k) - 1, NEW g, <<i, g>> \in R
      PROVE  <<i + 1, Splice(g, k[i + 1])>> \in R
  <2>1. <<i, g>> \in Q /\ Ahead(f, g, k, i)
    BY <1>3
  <2>2. Ahead(f, Splice(g, k[i + 1]), k, i + 1)
    BY <2>1, AheadStep
  <2>3. <<i + 1, Splice(g, k[i + 1])>> \in Q
    BY <2>1
  <2> QED
    BY <2>2, <2>3
<1>4. <<Len(k), Replaced(f, P)>> \in R
  <2> HIDE DEF R
  <2> QED
    BY <1>1, <1>2, <1>3, ReplacedLoop
<1> QED
  BY <1>4

-----------------------------------------------------------------------------
(***************************************************************************)
(* The plan                                                                *)
(***************************************************************************)
LEMMA IntervalFinite ==
    ASSUME NEW n \in Nat
    PROVE  IsFiniteSet(1 .. n)
<1>1. 1 \in Int /\ n \in Int
  OBVIOUS
<1> QED
  BY <1>1, FS_Interval

LEMMA CandidateIs ==
    ASSUME NEW f \in Seq(AllTokens)
    PROVE  /\ IsFiniteSet(Candidates(f))
           /\ \A c \in Candidates(f) :
                 /\ c[1] \in 1 .. Len(f) /\ c[2] \in c[1] + 1 .. Len(f) + 1
                 /\ \A x \in c[1] .. c[2] - 1 : f[x].kind = "text"
                 /\ c = <<c[1], c[2]>>
<1>0. Len(f) \in Nat /\ DOMAIN f = 1 .. Len(f)
  OBVIOUS
<1> DEFINE D == (1 .. Len(f)) \X (1 .. 2)
           g == [d \in D |-> <<d[1], d[1] + d[2]>>]
<1>1. IsFiniteSet(D)
  <2>1. IsFiniteSet(1 .. Len(f)) /\ IsFiniteSet(1 .. 2)
    BY <1>0, IntervalFinite
  <2> QED
    BY <2>1, FS_Product
<1>2. IsFiniteSet({g[d] : d \in D})
  <2>1. IsFiniteSet(Range(g))
    <3>1. g \in Surjection(D, Range(g))
      BY DEF Surjection, Range
    <3> QED
      BY <1>1, <3>1, FS_Surjection
  <2>2. {g[d] : d \in D} = Range(g)
    BY DEF Range
  <2> QED
    BY <2>1, <2>2
<1>3. Candidates(f) \subseteq {g[d] : d \in D}
  <2> SUFFICES ASSUME NEW c \in Candidates(f) PROVE c \in {g[d] : d \in D}
    OBVIOUS
  <2>1. PICK i \in 1 .. Len(f), n \in 1 .. 2 : c = <<i, i + n>>
    BY <1>0 DEF Candidates
  <2>2. <<i, n>> \in D /\ g[<<i, n>>] = c
    BY <2>1
  <2> QED
    BY <2>2
<1>4. ASSUME NEW c \in Candidates(f)
      PROVE  /\ c[1] \in 1 .. Len(f) /\ c[2] \in c[1] + 1 .. Len(f) + 1
             /\ \A x \in c[1] .. c[2] - 1 : f[x].kind = "text"
             /\ c = <<c[1], c[2]>>
  <2>1. PICK i \in 1 .. Len(f), n \in 1 .. 2 : c = <<i, i + n>>
    BY <1>0 DEF Candidates
  <2>2. c[1] = i /\ c[2] = i + n /\ i \in 1 .. Len(f)
    BY <1>0, <2>1
  <2>3. c[2] <= Len(f) + 1 /\ \A x \in c[1] .. c[2] - 1 : f[x].kind = "text"
    BY DEF Candidates
  <2> QED
    BY <1>0, <2>1, <2>2, <2>3
<1>5. IsFiniteSet(Candidates(f))
  BY <1>2, <1>3, FS_Subset
<1> QED
  BY <1>4, <1>5

LEMMA TokenIs ==
    ASSUME NEW k \in TokenKinds
    PROVE  Token(k) \in AllTokens /\ Token(k).kind = k /\ Token(k).of = <<>>
<1>1. <<>> \in Seq(Nat)
  BY EmptySeq
<1> QED
  BY <1>1 DEF Token, AllTokens

LEMMA ContentEmpty == <<>> \in Seq(AllTokens) /\ Content(<<>>) = <<>>
<1>1. <<>> \in Seq(AllTokens) /\ Len(<<>>) = 0
  BY EmptySeq
<1>2. Parts(<<>>) \in Seq(Numbers) /\ Len(Parts(<<>>)) = 0
  BY <1>1, PartsType
<1>3. Parts(<<>>) = <<>>
  BY <1>2, EmptySeq
<1> QED
  BY <1>1, <1>3, PartsType, NumbersFlatten

\* A call says what the texts it stands for said.
LEMMA CallIs ==
    ASSUME NEW f \in Seq(AllTokens), NEW c \in Candidates(f)
    PROVE  LET p == Call(f, c)
           IN  /\ p.from = c[1] /\ p.to = c[2] /\ p.from < p.to /\ p.by.kind = "call"
               /\ Fitting(f, p) /\ Faithful(f, p) /\ Textual(f, p)
<1> DEFINE p == Call(f, c)
<1>0. Len(f) \in Nat
  OBVIOUS
<1>1. /\ c[1] \in 1 .. Len(f) /\ c[2] \in c[1] + 1 .. Len(f) + 1
      /\ \A x \in c[1] .. c[2] - 1 : f[x].kind = "text"
  BY CandidateIs
<1>2. /\ p.from = c[1] /\ p.to = c[2] /\ p.by.kind = "call"
      /\ p.by.of = Content(SubSeq(f, c[1], c[2] - 1))
      /\ p.by = [kind |-> "call", of |-> Content(SubSeq(f, c[1], c[2] - 1))]
  BY DEF Call
<1>3. SubSeq(f, c[1], c[2] - 1) \in Seq(AllTokens)
  <2>1. c[1] \in 1 .. Len(f) + 1 /\ c[2] - 1 \in c[1] - 1 .. Len(f)
    BY <1>0, <1>1
  <2> QED
    BY <2>1, SubSeqIs
<1>4. Content(SubSeq(f, c[1], c[2] - 1)) \in Seq(Nat)
  BY <1>3, PartsType DEF Numbers
<1>5. p.by \in AllTokens
  BY <1>2, <1>4 DEF AllTokens, TokenKinds
<1> HIDE DEF p
<1>6. Fitting(f, p) /\ Textual(f, p) /\ p.from < p.to
  BY <1>0, <1>1, <1>2, <1>5 DEF Fitting, Textual
<1>7. Faithful(f, p)
  BY <1>2 DEF Faithful
<1> QED
  BY <1>2, <1>6, <1>7 DEF p

LEMMA HookIs ==
    ASSUME NEW f \in Seq(AllTokens), NEW i \in 1 .. Len(f)
    PROVE  LET p == Hook(i)
           IN  /\ p.from = i + 1 /\ p.to = i + 1 /\ p.by = Token("hook") /\ p.by.kind = "hook"
               /\ Fitting(f, p) /\ Faithful(f, p) /\ Textual(f, p)
<1> DEFINE p == Hook(i)
<1>0. Len(f) \in Nat
  OBVIOUS
<1>1. p.from = i + 1 /\ p.to = i + 1 /\ p.by = Token("hook")
  BY DEF Hook
<1>2. p.by \in AllTokens /\ p.by.kind = "hook" /\ p.by.of = <<>>
  BY <1>1, TokenIs DEF TokenKinds
<1> HIDE DEF p
<1>3. Fitting(f, p) /\ Textual(f, p)
  BY <1>0, <1>1, <1>2 DEF Fitting, Textual
<1>4. SubSeq(f, p.from, p.to - 1) = <<>>
  <2>1. i + 1 \in 1 .. Len(f) + 1 /\ i \in (i + 1) - 1 .. Len(f) /\ i - (i + 1) + 1 = 0
    BY <1>0
  <2>2. SubSeq(f, i + 1, i) \in Seq(AllTokens) /\ Len(SubSeq(f, i + 1, i)) = 0
    BY <2>1, SubSeqIs
  <2>3. SubSeq(f, i + 1, i) = <<>>
    BY <2>2, EmptySeq
  <2>4. p.to - 1 = i
    BY <1>1
  <2> QED
    BY <1>1, <2>3, <2>4
<1>5. Faithful(f, p)
  BY <1>2, <1>4, ContentEmpty DEF Faithful
<1> QED
  BY <1>1, <1>2, <1>3, <1>5 DEF p

\* A plan has calls of candidates, and hooks behind blocks.
LEMMA PlanIs ==
    ASSUME NEW f \in Seq(AllTokens), NEW approved \in SUBSET Candidates(f)
    PROVE  /\ Planned(f, GenerateRefactorPlan(f, approved))
           /\ \A p \in GenerateRefactorPlan(f, approved) :
                 \/ \E c \in Candidates(f) : p = Call(f, c)
                 \/ Tokens(f, "hook") = {} /\ \E i \in Tokens(f, "block") : p = Hook(i)
<1> DEFINE cs == {d \in approved : InScope(f, d)}
           calls == {Call(f, c) : c \in cs}
           bs == Tokens(f, "block")
           hooks == {Hook(i) : i \in bs}
           P == GenerateRefactorPlan(f, approved)
<1>0. Len(f) \in Nat /\ DOMAIN f = 1 .. Len(f) /\ bs \subseteq 1 .. Len(f)
  BY DEF Tokens
<1>1. P = injectComponentHooks(f, calls)
  BY DEF GenerateRefactorPlan
<1> HIDE DEF calls
<1>2. P \subseteq calls \cup hooks
  BY <1>1 DEF injectComponentHooks, HooksWanted
<1>3. Tokens(f, "hook") # {} => P \subseteq calls
  BY <1>1 DEF injectComponentHooks
<1> HIDE DEF P
<1>4. IsFiniteSet(calls)
  <2>1. IsFiniteSet(cs)
    BY CandidateIs, FS_Subset
  <2> DEFINE g == [c \in cs |-> Call(f, c)]
  <2>2. g \in Surjection(cs, Range(g)) /\ calls = Range(g)
    BY DEF Surjection, Range, calls
  <2> QED
    BY <2>1, <2>2, FS_Surjection
<1>5. IsFiniteSet(hooks)
  <2>1. IsFiniteSet(bs)
    BY <1>0, IntervalFinite, FS_Subset
  <2> DEFINE g == [i \in bs |-> Hook(i)]
  <2>2. g \in Surjection(bs, Range(g)) /\ hooks = Range(g)
    BY DEF Surjection, Range
  <2> QED
    BY <2>1, <2>2, FS_Surjection
<1>6. IsFiniteSet(P)
  BY <1>2, <1>4, <1>5, FS_Union, FS_Subset
<1>7. \A p \in calls : \E c \in Candidates(f) : p = Call(f, c)
  BY DEF calls
<1>8. \A p \in hooks : \E i \in bs : p = Hook(i)
  OBVIOUS
<1> HIDE DEF hooks, cs
<1>9. \A p \in P : \/ \E c \in Candidates(f) : p = Call(f, c)
                   \/ \E i \in bs : p = Hook(i)
  BY <1>2, <1>7, <1>8
<1>10. \A p \in P : Fitting(f, p) /\ Faithful(f, p) /\ Textual(f, p)
  <2> SUFFICES ASSUME NEW p \in P PROVE Fitting(f, p) /\ Faithful(f, p) /\ Textual(f, p)
    OBVIOUS
  <2>1. CASE \E c \in Candidates(f) : p = Call(f, c)
    BY <2>1, CallIs
  <2>2. CASE \E i \in bs : p = Hook(i)
    BY <1>0, <2>2, HookIs
  <2> QED
    BY <1>9, <2>1, <2>2
<1>11. ASSUME NEW p \in P, NEW q \in P, p.from = q.from, p.to = q.to PROVE p = q
  <2>1. ASSUME NEW c \in Candidates(f), NEW d \in Candidates(f), p = Call(f, c), q = Call(f, d)
        PROVE  p = q
    <3>1. c[1] = d[1] /\ c[2] = d[2]
      BY <1>11, <2>1, CallIs
    <3>2. c = d
      BY <3>1, CandidateIs
    <3> QED
      BY <2>1, <3>2
  <2>2. ASSUME NEW i \in bs, NEW j \in bs, p = Hook(i), q = Hook(j) PROVE p = q
    <3>1. i \in 1 .. Len(f) /\ j \in 1 .. Len(f) /\ i + 1 = j + 1
      BY <1>0, <1>11, <2>2, HookIs
    <3>2. i = j
      BY <3>1
    <3> QED
      BY <2>2, <3>2
  <2>3. \A c \in Candidates(f) : Call(f, c).from # Call(f, c).to
    <3>1. ASSUME NEW c \in Candidates(f) PROVE Call(f, c).from # Call(f, c).to
      BY CallIs DEF Fitting
    <3> QED
      BY <3>1
  <2>4. \A i \in bs : Hook(i).from = Hook(i).to
    BY DEF Hook
  <2> QED
    BY <1>9, <1>11, <2>1, <2>2, <2>3, <2>4
<1>12. Ranged(P)
  <2>1. \A p \in P : p.from \in Nat /\ p.to \in Nat
    BY <1>0, <1>10 DEF Fitting
  <2> QED
    BY <1>11, <2>1 DEF Ranged
<1>13. Planned(f, P)
  BY <1>6, <1>10, <1>12 DEF Planned
<1>14. Tokens(f, "hook") # {} => \A p \in P : \E c \in Candidates(f) : p = Call(f, c)
  BY <1>3, <1>7
<1> QED
  BY <1>9, <1>13, <1>14 DEF P
-----------------------------------------------------------------------------
(***************************************************************************)
(* The import and the directive                                            *)
(***************************************************************************)
Insertion(i, k) == [from |-> i, to |-> i, by |-> Token(k)]

LEMMA InsertionIs ==
    ASSUME NEW f \in Seq(AllTokens), NEW i \in 1 .. Len(f) + 1, NEW k \in TokenKinds
    PROVE  LET p == Insertion(i, k)
           IN  /\ p.from = i /\ p.to = i /\ p.by.kind = k /\ Fitting(f, p) /\ Faithful(f, p)
               /\ InsertAt(f, i, Token(k)) = Splice(f, p)
<1> DEFINE p == Insertion(i, k)
<1>0. Len(f) \in Nat
  OBVIOUS
<1>1. p.from = i /\ p.to = i /\ p.by = Token(k)
  BY DEF Insertion
<1>2. p.by \in AllTokens /\ p.by.kind = k /\ p.by.of = <<>>
  BY <1>1, TokenIs
<1> HIDE DEF p
<1>3. Fitting(f, p)
  BY <1>0, <1>1, <1>2 DEF Fitting
<1>4. SubSeq(f, i, i - 1) = <<>>
  <2>1. i \in 1 .. Len(f) + 1 /\ i - 1 \in i - 1 .. Len(f) /\ (i - 1) - i + 1 = 0
    BY <1>0
  <2>2. SubSeq(f, i, i - 1) \in Seq(AllTokens) /\ Len(SubSeq(f, i, i - 1)) = 0
    BY <2>1, SubSeqIs
  <2> QED
    BY <2>2, EmptySeq
<1>5. Faithful(f, p)
  BY <1>1, <1>2, <1>4, ContentEmpty DEF Faithful
<1>6. InsertAt(f, i, Token(k)) = Splice(f, p)
  BY <1>1 DEF InsertAt, Splice
<1> QED
  BY <1>1, <1>2, <1>3, <1>5, <1>6 DEF p

\* The import goes behind the directive.
LEMMA ImportedIs ==
    ASSUME NEW f \in Seq(AllTokens)
    PROVE  \E i \in 1 .. Len(f) + 1 :
              /\ Imported(f) = Splice(f, Insertion(i, "i18n"))
              /\ \A c \in Tokens(f, "client") :
                    (\A j \in DOMAIN f : j < c => f[j].kind = "comment") => c < i
<1>0. Len(f) \in Nat /\ DOMAIN f = 1 .. Len(f)
  OBVIOUS
<1> DEFINE imports == TokensOf(f, ImportLines)
           clients == Tokens(f, "client")
           last == IF imports # {} THEN CHOOSE i \in imports : \A j \in imports : j <= i
                   ELSE IF clients # {} THEN CHOOSE i \in clients : TRUE ELSE 0
<1>1. Imported(f) = InsertAt(f, last + 1, Token("i18n"))
  BY DEF Imported
<1>2. /\ imports \subseteq 1 .. Len(f) /\ clients \subseteq 1 .. Len(f)
      /\ \A i \in imports : f[i].kind # "comment" /\ f[i].kind # "client"
      /\ \A i \in clients : f[i].kind = "client"
  BY <1>0 DEF TokensOf, Tokens, ImportLines
<1>3. imports # {} => last \in imports
  <2> SUFFICES ASSUME imports # {} PROVE \E i \in imports : \A j \in imports : j <= i
    OBVIOUS
  <2>1. imports \in SUBSET (0 .. Len(f))
    BY <1>0, <1>2
  <2> HIDE DEF imports
  <2> QED
    BY <1>0, <2>1, GreatestOf
<1>4. imports = {} /\ clients # {} => last \in clients
  OBVIOUS
<1>5. imports = {} /\ clients = {} => last = 0
  OBVIOUS
<1> HIDE DEF imports, clients, last
<1>6. last + 1 \in 1 .. Len(f) + 1 /\ last \in Int
  <2>1. last \in 1 .. Len(f) \/ last = 0
    BY <1>2, <1>3, <1>4, <1>5
  <2> QED
    BY <1>0, <2>1
<1>7. Imported(f) = Splice(f, Insertion(last + 1, "i18n"))
  BY <1>1, <1>6, InsertionIs DEF TokenKinds
<1>8. ASSUME NEW c \in clients, \A j \in DOMAIN f : j < c => f[j].kind = "comment"
      PROVE  c < last + 1
  <2>1. last \in 1 .. Len(f) /\ f[last].kind # "comment"
    BY <1>2, <1>3, <1>4, <1>8
  <2>2. ~(last < c)
    BY <1>0, <1>8, <2>1
  <2> QED
    BY <1>2, <1>8, <2>1, <2>2
<1> QED
  BY <1>6, <1>7, <1>8 DEF clients

\* The directive goes before everything but comments.
LEMMA DirectiveIs ==
    ASSUME NEW f \in Seq(AllTokens), Tokens(f, "i18n") # {}
    PROVE  \/ EnsureUseClientDirective(f) = f /\ Tokens(f, "client") # {}
           \/ \E i \in 1 .. Len(f) :
                 /\ EnsureUseClientDirective(f) = Splice(f, Insertion(i, "client"))
                 /\ f[i].kind # "client" /\ f[i].kind # "comment"
                 /\ \A j \in 1 .. i - 1 : f[j].kind = "comment"
<1>0. Len(f) \in Nat /\ DOMAIN f = 1 .. Len(f)
  OBVIOUS
<1> DEFINE rest == DOMAIN f \ Tokens(f, "comment")
           first == CHOOSE i \in rest : \A j \in rest : i <= j
<1>1. EnsureUseClientDirective(f) =
        IF f[first].kind = "client" THEN f ELSE InsertAt(f, first, Token("client"))
  BY DEF EnsureUseClientDirective
<1>2. rest \in SUBSET Nat /\ rest # {}
  BY <1>0 DEF Tokens
<1>3. first \in rest /\ \A j \in rest : first <= j
  <2>1. \E i \in rest : \A j \in rest : i <= j
    <3> HIDE DEF rest
    <3> QED
      BY <1>2, LeastOf
  <2> QED
    BY <2>1
<1> HIDE DEF first
<1>4. first \in 1 .. Len(f) /\ f[first].kind # "comment"
  BY <1>0, <1>3 DEF Tokens
<1>5. \A j \in 1 .. first - 1 : f[j].kind = "comment"
  <2> SUFFICES ASSUME NEW j \in 1 .. first - 1, f[j].kind # "comment" PROVE FALSE
    OBVIOUS
  <2>1. j \in rest
    BY <1>0, <1>4 DEF Tokens
  <2> QED
    BY <1>3, <1>4, <2>1
<1>6. CASE f[first].kind = "client"
  BY <1>0, <1>1, <1>4, <1>6 DEF Tokens
<1>7. CASE f[first].kind # "client"
  <2>1. first \in 1 .. Len(f) + 1
    BY <1>0, <1>4
  <2>2. InsertAt(f, first, Token("client")) = Splice(f, Insertion(first, "client"))
    BY <2>1, InsertionIs DEF TokenKinds
  <2> QED
    BY <1>1, <1>4, <1>5, <1>7, <2>2
<1> QED
  BY <1>6, <1>7

-----------------------------------------------------------------------------
(***************************************************************************)
(* The syntax tree under one patch.  A patch of text and the insertion of  *)
(* a token leave components and their ends alone, so the tree of the file  *)
(* after it is that of the file before, shifted.                           *)
(***************************************************************************)
Brackets == Components \cup {"end"}

Edited(f, g, p) ==
    /\ f \in Seq(AllTokens) /\ g \in Seq(AllTokens) /\ Fitting(f, p)
    /\ \A x \in p.from .. p.to - 1 : f[x].kind = "text"
    /\ p.by.kind \notin Brackets
    /\ g = Splice(f, p)

\* What is not replaced.
Stays(f, p) == {x \in 1 .. Len(f) : x < p.from \/ x >= p.to}

LEMMA EditedIs ==
    ASSUME NEW f, NEW g, NEW p, Edited(f, g, p)
    PROVE  /\ Len(f) \in Nat /\ Len(g) \in Nat /\ DOMAIN f = 1 .. Len(f) /\ DOMAIN g = 1 .. Len(g)
           /\ p.from \in 1 .. Len(f) + 1 /\ p.to \in p.from .. Len(f) + 1
           /\ p.from \in 1 .. Len(g) /\ Len(g) = Len(f) - p.to + p.from + 1
           /\ \A x \in 1 .. p.from - 1 : g[x] = f[x]
           /\ g[p.from] = p.by
           /\ \A x \in p.to .. Len(f) : g[Shift(p, x)] = f[x]
<1>1. f \in Seq(AllTokens) /\ g \in Seq(AllTokens) /\ Fitting(f, p) /\ g = Splice(f, p)
  BY DEF Edited
<1>2. Len(f) \in Nat /\ Len(g) \in Nat /\ DOMAIN f = 1 .. Len(f) /\ DOMAIN g = 1 .. Len(g)
  BY <1>1
<1>3. p.from \in 1 .. Len(f) + 1 /\ p.to \in p.from .. Len(f) + 1
  BY <1>1 DEF Fitting
<1>4. /\ Len(g) = Len(f) - p.to + p.from + 1
      /\ \A x \in 1 .. p.from - 1 : g[x] = f[x]
      /\ g[p.from] = p.by
      /\ \A x \in p.to .. Len(f) : g[Shift(p, x)] = f[x]
  <2> DEFINE h == Splice(f, p)
  <2>1. /\ Len(h) = Len(f) - p.to + p.from + 1
        /\ \A x \in 1 .. p.from - 1 : h[x] = f[x]
        /\ h[p.from] = p.by
        /\ \A x \in p.to .. Len(f) : h[Shift(p, x)] = f[x]
    <3>1. f \in Seq(AllTokens) /\ Fitting(f, p)
      BY <1>1
    <3>2. /\ Len(h) = Len(f) - p.to + p.from + 1
          /\ \A x \in 1 .. p.from - 1 : h[x] = f[x]
      BY <3>1, Spliced
    <3>3. h[p.from] = p.by
      BY <3>1, Spliced
    <3>4. \A x \in p.to .. Len(f) : h[Shift(p, x)] = f[x]
      BY <3>1, Spliced
    <3> QED
      BY <3>2, <3>3, <3>4
  <2>2. g = h
    BY <1>1
  <2> HIDE DEF h
  <2> QED
    BY <2>1, <2>2
<1>5. p.from \in 1 .. Len(g)
  BY <1>2, <1>3, <1>4
<1> QED
  BY <1>2, <1>3, <1>4, <1>5

\* The tokens that stay keep their order and the kinds they had.
LEMMA ShiftIs ==
    ASSUME NEW f, NEW g, NEW p, Edited(f, g, p)
    PROVE  /\ \A x \in Stays(f, p) : /\ Shift(p, x) \in 1 .. Len(g) /\ g[Shift(p, x)] = f[x]
                                     /\ Shift(p, x) # p.from
                                     /\ x < p.from => Shift(p, x) = x
                                     /\ Shift(p, x) < p.from <=> x < p.from
                                     /\ Shift(p, x) > p.from <=> x >= p.to
           /\ \A x, y \in Stays(f, p) : Shift(p, x) < Shift(p, y) <=> x < y
           /\ \A y \in 1 .. Len(g) : y # p.from => \E x \in Stays(f, p) : y = Shift(p, x)
<1>1. /\ Len(f) \in Nat /\ Len(g) \in Nat
      /\ p.from \in 1 .. Len(f) + 1 /\ p.to \in p.from .. Len(f) + 1
      /\ Len(g) = Len(f) - p.to + p.from + 1
      /\ \A x \in 1 .. p.from - 1 : g[x] = f[x]
      /\ \A x \in p.to .. Len(f) : g[Shift(p, x)] = f[x]
  BY EditedIs
<1>2. ASSUME NEW x \in Stays(f, p)
      PROVE  /\ Shift(p, x) \in 1 .. Len(g) /\ g[Shift(p, x)] = f[x] /\ Shift(p, x) # p.from
             /\ x < p.from => Shift(p, x) = x
             /\ Shift(p, x) < p.from <=> x < p.from
             /\ Shift(p, x) > p.from <=> x >= p.to
  <2>1. CASE x < p.from
    <3>1. Shift(p, x) = x /\ x \in 1 .. p.from - 1
      BY <1>1, <2>1 DEF Shift, Stays
    <3> QED
      BY <1>1, <2>1, <3>1
  <2>2. CASE x >= p.to
    <3>1. x \in p.to .. Len(f) /\ Shift(p, x) = x - p.to + p.from + 1
      BY <1>1, <2>2 DEF Shift, Stays
    <3>2. g[Shift(p, x)] = f[x]
      BY <1>1, <3>1
    <3> DEFINE y == Shift(p, x)
    <3>3. /\ y \in 1 .. Len(g) /\ y # p.from /\ ~(x < p.from)
          /\ ~(y < p.from) /\ y > p.from
      <4>1. y = x - p.to + p.from + 1
        BY <3>1
      <4> HIDE DEF y
      <4> QED
        BY <1>1, <2>2, <3>1, <4>1, SMTT(30)
    <3> QED
      BY <2>2, <3>2, <3>3
  <2> QED
    BY <2>1, <2>2 DEF Stays
<1>3. \A x, y \in Stays(f, p) : Shift(p, x) < Shift(p, y) <=> x < y
  BY <1>1, SMTT(30) DEF Shift, Stays
<1>4. ASSUME NEW y \in 1 .. Len(g), y # p.from PROVE \E x \in Stays(f, p) : y = Shift(p, x)
  <2>1. CASE y < p.from
    BY <1>1, <2>1 DEF Shift, Stays
  <2>2. CASE y > p.from
    <3> DEFINE x == y + p.to - p.from - 1
    <3>1. x \in Stays(f, p) /\ y = Shift(p, x)
      BY <1>1, <2>2 DEF Shift, Stays
    <3> QED
      BY <3>1
  <2> QED
    BY <1>1, <1>4, <2>1, <2>2
<1> QED
  BY <1>2, <1>3, <1>4

\* Shifting tells places apart.
LEMMA ShiftCount ==
    ASSUME NEW f, NEW g, NEW p, Edited(f, g, p), NEW Z \in SUBSET Stays(f, p)
    PROVE  Cardinality({Shift(p, z) : z \in Z}) = Cardinality(Z)
<1> DEFINE T == {Shift(p, z) : z \in Z}
           m == [z \in Z |-> Shift(p, z)]
<1>1. IsFiniteSet(Z)
  <2>1. Len(f) \in Nat
    BY EditedIs
  <2>2. Z \subseteq 1 .. Len(f)
    BY DEF Stays
  <2> QED
    BY <2>1, <2>2, IntervalFinite, FS_Subset
<1>2. ASSUME NEW x \in Z, NEW y \in Z, Shift(p, x) = Shift(p, y) PROVE x = y
  <2>1. x \in Stays(f, p) /\ y \in Stays(f, p)
    OBVIOUS
  <2>2. Shift(p, x) \in 1 .. Len(g) /\ ~(x < y) /\ ~(y < x)
    <3>1. Shift(p, x) \in 1 .. Len(g)
      BY <2>1, ShiftIs
    <3>2. ~(Shift(p, x) < Shift(p, y)) /\ ~(Shift(p, y) < Shift(p, x))
      BY <1>2, <3>1
    <3> QED
      BY <2>1, <3>1, <3>2, ShiftIs
  <2> QED
    BY <2>1, <2>2 DEF Stays
<1>3. m \in Bijection(Z, T)
  <2>1. m \in [Z -> T] /\ \A x, y \in Z : m[x] = m[y] => x = y
    BY <1>2
  <2>2. \A t \in T : \E z \in Z : m[z] = t
    OBVIOUS
  <2> QED
    BY <2>1, <2>2 DEF Bijection, Injection, Surjection, IsInjective
<1> QED
  BY <1>1, <1>3, FS_Bijection DEF ExistsBijection

LEMMA TokensShift ==
    ASSUME NEW f, NEW g, NEW p, Edited(f, g, p), NEW ks, p.by.kind \notin ks, "text" \notin ks
    PROVE  /\ TokensOf(f, ks) \subseteq Stays(f, p)
           /\ TokensOf(g, ks) = {Shift(p, z) : z \in TokensOf(f, ks)}
           /\ Cardinality(TokensOf(g, ks)) = Cardinality(TokensOf(f, ks))
<1>1. /\ Len(f) \in Nat /\ DOMAIN f = 1 .. Len(f) /\ DOMAIN g = 1 .. Len(g) /\ Len(g) \in Nat
      /\ p.from \in 1 .. Len(f) + 1 /\ p.to \in p.from .. Len(f) + 1 /\ g[p.from] = p.by
  BY EditedIs
<1>2. \A x \in p.from .. p.to - 1 : f[x].kind = "text"
  BY DEF Edited
<1>3. TokensOf(f, ks) \subseteq Stays(f, p)
  <2> SUFFICES ASSUME NEW x \in TokensOf(f, ks) PROVE x \in Stays(f, p)
    OBVIOUS
  <2>1. x \in 1 .. Len(f) /\ f[x].kind \in ks
    BY <1>1 DEF TokensOf
  <2>2. x \notin p.from .. p.to - 1
    BY <1>2, <2>1
  <2> QED
    BY <1>1, <2>1, <2>2 DEF Stays
<1>4. ASSUME NEW y \in TokensOf(g, ks) PROVE y \in {Shift(p, z) : z \in TokensOf(f, ks)}
  <2>1. y \in 1 .. Len(g) /\ g[y].kind \in ks /\ y # p.from
    BY <1>1 DEF TokensOf
  <2>2. PICK x \in Stays(f, p) : y = Shift(p, x)
    BY <2>1, ShiftIs
  <2>3. x \in 1 .. Len(f) /\ f[x] = g[y]
    BY <2>2, ShiftIs DEF Stays
  <2> QED
    BY <1>1, <2>1, <2>2, <2>3 DEF TokensOf
<1>5. ASSUME NEW z \in TokensOf(f, ks) PROVE Shift(p, z) \in TokensOf(g, ks)
  <2>1. z \in Stays(f, p) /\ f[z].kind \in ks
    BY <1>3 DEF TokensOf
  <2>2. Shift(p, z) \in 1 .. Len(g) /\ g[Shift(p, z)] = f[z]
    BY <2>1, ShiftIs
  <2> QED
    BY <1>1, <2>1, <2>2 DEF TokensOf
<1>6. TokensOf(g, ks) = {Shift(p, z) : z \in TokensOf(f, ks)}
  BY <1>4, <1>5
<1> QED
  BY <1>3, <1>6, ShiftCount

\* What Depth counts.
In(f, i, k, ks) == {j \in i .. k : f[j].kind \in ks}

LEMMA DepthIs ==
    ASSUME NEW f, NEW i, NEW k
    PROVE  Depth(f, i, k) =
              Cardinality(In(f, i, k, Components)) - Cardinality(In(f, i, k, {"end"}))
<1>1. {j \in i .. k : f[j].kind = "end"} = In(f, i, k, {"end"})
  BY DEF In
<1> QED
  BY <1>1 DEF Depth, In

LEMMA InShift ==
    ASSUME NEW f, NEW g, NEW p, Edited(f, g, p), NEW ks, p.by.kind \notin ks, "text" \notin ks,
           NEW i \in Stays(f, p), NEW k \in Stays(f, p)
    PROVE  /\ In(f, i, k, ks) \subseteq Stays(f, p)
           /\ In(g, Shift(p, i), Shift(p, k), ks) = {Shift(p, z) : z \in In(f, i, k, ks)}
           /\ Cardinality(In(g, Shift(p, i), Shift(p, k), ks)) = Cardinality(In(f, i, k, ks))
<1> DEFINE a == Shift(p, i)
           b == Shift(p, k)
<1>0. /\ Len(f) \in Nat /\ DOMAIN f = 1 .. Len(f) /\ DOMAIN g = 1 .. Len(g) /\ Len(g) \in Nat
      /\ i \in 1 .. Len(f) /\ k \in 1 .. Len(f)
  BY EditedIs DEF Stays
<1>1. a \in 1 .. Len(g) /\ b \in 1 .. Len(g)
  BY ShiftIs
<1>2. In(f, i, k, ks) = {z \in TokensOf(f, ks) : i <= z /\ z <= k}
  BY <1>0 DEF In, TokensOf
<1>3. In(g, a, b, ks) = {z \in TokensOf(g, ks) : a <= z /\ z <= b}
  <2> HIDE DEF a, b
  <2> QED
    BY <1>0, <1>1 DEF In, TokensOf
<1>4. /\ TokensOf(f, ks) \subseteq Stays(f, p)
      /\ TokensOf(g, ks) = {Shift(p, z) : z \in TokensOf(f, ks)}
  BY TokensShift
<1>5. ASSUME NEW z \in TokensOf(f, ks)
      PROVE  a <= Shift(p, z) /\ Shift(p, z) <= b <=> i <= z /\ z <= k
  <2>1. z \in Stays(f, p) /\ z \in 1 .. Len(f)
    BY <1>4 DEF Stays
  <2>2. Shift(p, z) \in 1 .. Len(g)
    BY <2>1, ShiftIs
  <2>3. (Shift(p, z) < Shift(p, i) <=> z < i) /\ (Shift(p, k) < Shift(p, z) <=> k < z)
    BY <2>1, ShiftIs
  <2> QED
    BY <1>0, <1>1, <2>1, <2>2, <2>3
<1>6. In(g, a, b, ks) = {Shift(p, z) : z \in In(f, i, k, ks)}
  <2> HIDE DEF a, b
  <2> QED
    BY <1>2, <1>3, <1>4, <1>5
<1>7. In(f, i, k, ks) \subseteq Stays(f, p)
  BY <1>2, <1>4
<1> QED
  BY <1>6, <1>7, ShiftCount

\* Between two tokens that stay the depth is the same.
LEMMA DepthShift ==
    ASSUME NEW f, NEW g, NEW p, Edited(f, g, p),
           NEW i \in Stays(f, p), NEW k \in Stays(f, p)
    PROVE  Depth(g, Shift(p, i), Shift(p, k)) = Depth(f, i, k)
<1>1. /\ p.by.kind \notin Components /\ "text" \notin Components
      /\ p.by.kind \notin {"end"} /\ "text" \notin {"end"}
  BY DEF Edited, Brackets, Components
<1> QED
  BY <1>1, InShift, DepthIs

\* At the place of the patch the depth is what it was before it.
LEMMA DepthAtPatch ==
    ASSUME NEW f, NEW g, NEW p, Edited(f, g, p), NEW i \in 1 .. p.from - 1
    PROVE  Depth(g, i, p.from) = Depth(f, i, p.from - 1)
<1>1. /\ p.from \in 1 .. Len(g) /\ g[p.from] = p.by /\ Len(g) \in Nat
      /\ \A x \in 1 .. p.from - 1 : g[x] = f[x]
  BY EditedIs
<1>2. p.by.kind \notin Components /\ p.by.kind \notin {"end"}
  BY DEF Edited, Brackets
<1>3. ASSUME NEW ks, p.by.kind \notin ks PROVE In(g, i, p.from, ks) = In(f, i, p.from - 1, ks)
  <2>1. \A x \in i .. p.from : x = p.from \/ x \in i .. p.from - 1
    BY <1>1
  <2>2. \A x \in i .. p.from - 1 : x \in i .. p.from /\ x \in 1 .. p.from - 1
    BY <1>1
  <2> QED
    BY <1>1, <1>3, <2>1, <2>2 DEF In
<1> QED
  BY <1>2, <1>3, DepthIs

LEMMA ClosingShift ==
    ASSUME NEW f, NEW g, NEW p, Edited(f, g, p),
           NEW i \in Stays(f, p), NEW k \in Stays(f, p), i <= k, Closing(f, i, k)
    PROVE  Closing(g, Shift(p, i), Shift(p, k))
<1> DEFINE a == Shift(p, i)
           b == Shift(p, k)
<1>0. /\ Len(f) \in Nat /\ Len(g) \in Nat /\ p.from \in 1 .. Len(g)
      /\ p.from \in 1 .. Len(f) + 1 /\ p.to \in p.from .. Len(f) + 1
      /\ i \in 1 .. Len(f) /\ k \in 1 .. Len(f)
  BY EditedIs DEF Stays
<1>1. a \in 1 .. Len(g) /\ b \in 1 .. Len(g)
  BY ShiftIs
<1>2. Depth(g, a, b) = 0
  BY DepthShift DEF Closing
<1>3. ASSUME NEW y \in a .. b - 1 PROVE Depth(g, a, y) > 0
  <2>0. y \in 1 .. Len(g)
    BY <1>1
  <2>1. CASE y # p.from
    <3>1. PICK x \in Stays(f, p) : y = Shift(p, x)
      BY <2>0, <2>1, ShiftIs
    <3>2. x \in 1 .. Len(f)
      BY DEF Stays
    <3>3. (Shift(p, x) < Shift(p, i) <=> x < i) /\ (Shift(p, x) < Shift(p, k) <=> x < k)
      BY ShiftIs
    <3>4. ~(Shift(p, x) < a) /\ Shift(p, x) < b
      BY <1>1, <3>1
    <3>5. x \in i .. k - 1
      BY <1>0, <3>2, <3>3, <3>4
    <3>6. Depth(f, i, x) > 0
      BY <3>5 DEF Closing
    <3> QED
      BY <3>1, <3>6, DepthShift
  <2>2. CASE y = p.from
    <3>1. /\ Shift(p, i) # p.from /\ (Shift(p, i) < p.from <=> i < p.from)
          /\ (i < p.from => Shift(p, i) = i) /\ (Shift(p, k) > p.from <=> k >= p.to)
      BY ShiftIs
    <3>2. a < p.from /\ b > p.from
      BY <1>0, <1>1, <2>2, <3>1
    <3>3. i \in 1 .. p.from - 1 /\ a = i /\ k >= p.to
      BY <1>0, <3>1, <3>2
    <3>4. p.from - 1 \in i .. k - 1
      BY <1>0, <3>3
    <3>5. Depth(f, i, p.from - 1) > 0
      BY <3>4 DEF Closing
    <3>6. Depth(g, i, p.from) = Depth(f, i, p.from - 1)
      BY <3>3, DepthAtPatch
    <3> QED
      BY <2>2, <3>3, <3>5, <3>6
  <2> QED
    BY <2>1, <2>2
<1> QED
  BY <1>2, <1>3 DEF Closing

-----------------------------------------------------------------------------
(***************************************************************************)
(* Where components end                                                    *)
(***************************************************************************)
Nests(f) == \A i \in TokensOf(f, Components) : \E k \in i .. Len(f) : Closing(f, i, k)

LEMMA ClosesUnique ==
    ASSUME NEW f, Len(f) \in Nat, NEW i \in Nat, NEW k \in i .. Len(f), Closing(f, i, k)
    PROVE  Closes(f, i) = k
<1>1. ASSUME NEW j \in i .. Len(f), NEW l \in i .. Len(f), Closing(f, i, j), Closing(f, i, l), j < l
      PROVE  FALSE
  <2>1. j \in i .. l - 1
    BY <1>1
  <2>2. Depth(f, i, j) = 0 /\ Depth(f, i, j) > 0
    BY <1>1, <2>1 DEF Closing
  <2> QED
    BY <2>2
<1> DEFINE c == Closes(f, i)
<1>2. c \in i .. Len(f) /\ Closing(f, i, c)
  BY DEF Closes
<1> HIDE DEF c
<1>3. ~(c < k) /\ ~(k < c)
  BY <1>1, <1>2
<1>4. c = k
  BY <1>2, <1>3
<1> QED
  BY <1>4 DEF c

LEMMA InFinite ==
    ASSUME NEW f, NEW i \in Int, NEW k \in Int, NEW ks
    PROVE  IsFiniteSet(In(f, i, k, ks)) /\ Cardinality(In(f, i, k, ks)) \in Nat
<1>1. IsFiniteSet(i .. k)
  BY FS_Interval
<1>2. In(f, i, k, ks) \subseteq i .. k
  BY DEF In
<1> QED
  BY <1>1, <1>2, FS_Subset, FS_CardinalityType

LEMMA ClosesIs ==
    ASSUME NEW f \in Seq(AllTokens), Nests(f), NEW i \in TokensOf(f, Components)
    PROVE  /\ i \in 1 .. Len(f) /\ Closes(f, i) \in i + 1 .. Len(f) /\ Closing(f, i, Closes(f, i))
           /\ f[Closes(f, i)].kind = "end"
<1>0. Len(f) \in Nat /\ DOMAIN f = 1 .. Len(f)
  OBVIOUS
<1>1. i \in 1 .. Len(f) /\ f[i].kind \in Components
  BY <1>0 DEF TokensOf
<1> DEFINE k == Closes(f, i)
           Comp(n) == Cardinality(In(f, i, n, Components))
           End(n) == Cardinality(In(f, i, n, {"end"}))
<1>2. k \in i .. Len(f) /\ Closing(f, i, k)
  <2>1. PICK n \in i .. Len(f) : Closing(f, i, n)
    BY DEF Nests
  <2>2. Closes(f, i) = n
    BY <1>0, <1>1, <2>1, ClosesUnique
  <2> QED
    BY <2>1, <2>2
<1> HIDE DEF k
<1>3. \A n \in Int : Depth(f, i, n) = Comp(n) - End(n) /\ Comp(n) \in Nat /\ End(n) \in Nat
  BY <1>1, DepthIs, InFinite
<1>4. k # i
  <2> SUFFICES ASSUME k = i PROVE FALSE
    OBVIOUS
  <2>1. In(f, i, i, Components) = {i}
    BY <1>1 DEF In
  <2>2. In(f, i, i, {"end"}) = {}
    BY <1>1 DEF In, Components
  <2>3. Comp(i) = 1 /\ End(i) = 0
    BY <2>1, <2>2, FS_EmptySet, FS_Singleton
  <2>4. Depth(f, i, i) = 0
    BY <1>2 DEF Closing
  <2> HIDE DEF Comp, End
  <2> QED
    BY <1>1, <1>3, <2>3, <2>4
<1>5. f[k].kind = "end"
  <2> SUFFICES ASSUME f[k].kind # "end" PROVE FALSE
    OBVIOUS
  <2>1. k - 1 \in i .. k - 1 /\ k \in Int /\ k - 1 \in Int /\ i <= k
    BY <1>0, <1>1, <1>2, <1>4
  <2>2. Depth(f, i, k - 1) > 0 /\ Depth(f, i, k) = 0
    BY <1>2, <2>1 DEF Closing
  <2>3. \A j \in i .. k - 1 : j \in i .. k
    BY <1>1, <2>1
  <2>4. \A j \in i .. k : j = k \/ j \in i .. k - 1
    BY <1>1, <2>1
  <2>5. In(f, i, k - 1, Components) \subseteq In(f, i, k, Components)
    BY <2>3 DEF In
  <2>6. In(f, i, k - 1, {"end"}) = In(f, i, k, {"end"})
    BY <2>3, <2>4 DEF In
  <2>7. Comp(k - 1) <= Comp(k) /\ End(k - 1) = End(k)
    BY <1>1, <2>1, <2>5, <2>6, FS_Subset, InFinite
  <2> HIDE DEF Comp, End
  <2> QED
    BY <1>3, <2>1, <2>2, <2>7
<1>6. k \in i + 1 .. Len(f)
  BY <1>0, <1>1, <1>2, <1>4
<1> QED
  BY <1>1, <1>2, <1>5, <1>6 DEF k

\* No patch takes the end of a component away.
LEMMA ClosesStays ==
    ASSUME NEW f, NEW g, NEW p, Edited(f, g, p), Nests(f), NEW i \in TokensOf(f, Components)
    PROVE  i \in Stays(f, p) /\ Closes(f, i) \in Stays(f, p) /\ i < Closes(f, i) /\ i \in 1 .. Len(f)
<1>1. f \in Seq(AllTokens) /\ p.from \in 1 .. Len(f) + 1 /\ p.to \in p.from .. Len(f) + 1
      /\ Len(f) \in Nat
  BY EditedIs DEF Edited
<1>2. i \in 1 .. Len(f) /\ Closes(f, i) \in i + 1 .. Len(f) /\ f[Closes(f, i)].kind = "end"
  BY <1>1, ClosesIs
<1>3. \A x \in p.from .. p.to - 1 : f[x].kind = "text"
  BY DEF Edited
<1>4. f[i].kind # "text"
  BY DEF TokensOf, Components
<1> DEFINE k == Closes(f, i)
<1> HIDE DEF k
<1>5. k \in 1 .. Len(f) /\ k \notin p.from .. p.to - 1 /\ i \notin p.from .. p.to - 1
  BY <1>1, <1>2, <1>3, <1>4 DEF k
<1>6. i \in Stays(f, p) /\ k \in Stays(f, p)
  BY <1>1, <1>2, <1>5 DEF Stays
<1> QED
  BY <1>1, <1>2, <1>6 DEF k

\* Every component ends where it did.
LEMMA NestsShift ==
    ASSUME NEW f, NEW g, NEW p, Edited(f, g, p), Nests(f)
    PROVE  /\ Nests(g)
           /\ TokensOf(g, Components) = {Shift(p, i) : i \in TokensOf(f, Components)}
           /\ \A i \in TokensOf(f, Components) : Closes(g, Shift(p, i)) = Shift(p, Closes(f, i))
<1>1. p.by.kind \notin Components /\ "text" \notin Components
  BY DEF Edited, Brackets, Components
<1>2. TokensOf(g, Components) = {Shift(p, i) : i \in TokensOf(f, Components)}
  BY <1>1, TokensShift
<1>3. f \in Seq(AllTokens) /\ Len(g) \in Nat /\ Len(f) \in Nat
  BY EditedIs DEF Edited
<1>4. ASSUME NEW i \in TokensOf(f, Components)
      PROVE  LET a == Shift(p, i)
                 b == Shift(p, Closes(f, i))
             IN  a \in Nat /\ b \in a .. Len(g) /\ Closing(g, a, b)
  <2> DEFINE k == Closes(f, i)
             a == Shift(p, i)
             b == Shift(p, k)
  <2>1. i \in Stays(f, p) /\ k \in Stays(f, p) /\ i < k
    BY ClosesStays
  <2>2. Closing(f, i, k)
    BY <1>3, ClosesIs
  <2> HIDE DEF k
  <2>3. i \in 1 .. Len(f) /\ k \in 1 .. Len(f)
    BY <2>1 DEF Stays
  <2>4. Closing(g, a, b)
    <3>1. i <= k
      BY <1>3, <2>1, <2>3
    <3> QED
      BY <2>1, <2>2, <3>1, ClosingShift
  <2>5. a \in 1 .. Len(g) /\ b \in 1 .. Len(g) /\ a < b
    BY <2>1, ShiftIs
  <2> HIDE DEF a, b
  <2>6. a \in Nat /\ b \in a .. Len(g)
    BY <1>3, <2>5
  <2> QED
    BY <2>4, <2>6 DEF a, b, k
<1>5. \A i \in TokensOf(f, Components) : Closes(g, Shift(p, i)) = Shift(p, Closes(f, i))
  BY <1>3, <1>4, ClosesUnique
<1>6. Nests(g)
  BY <1>2, <1>4 DEF Nests
<1> QED
  BY <1>2, <1>5, <1>6

\* A file that parses does so after a patch.
LEMMA BalancedShift ==
    ASSUME NEW f, NEW g, NEW p, Edited(f, g, p), Balanced(f)
    PROVE  Balanced(g)
<1>1. /\ p.by.kind \notin Components /\ "text" \notin Components
      /\ p.by.kind \notin {"end"} /\ "text" \notin {"end"}
  BY DEF Edited, Brackets, Components
<1>2. Cardinality(TokensOf(g, Components)) = Cardinality(TokensOf(f, Components))
  BY <1>1, TokensShift
<1>3. Cardinality(TokensOf(g, {"end"})) = Cardinality(TokensOf(f, {"end"}))
  BY <1>1, TokensShift
<1>4. \A h : TokensOf(h, {"end"}) = Tokens(h, "end")
  BY DEF TokensOf, Tokens
<1>5. Nests(f)
  BY DEF Balanced, Nests
<1>6. Nests(g)
  BY <1>5, NestsShift
<1> QED
  BY <1>2, <1>3, <1>4, <1>6 DEF Balanced, Nests
-----------------------------------------------------------------------------
(***************************************************************************)
(* What is around a place                                                  *)
(***************************************************************************)
LEMMA AroundShift ==
    ASSUME NEW f, NEW g, NEW p, Edited(f, g, p), Nests(f), NEW x \in Stays(f, p)
    PROVE  Around(g, Shift(p, x)) = {Shift(p, j) : j \in Around(f, x)}
<1>1. /\ TokensOf(g, Components) = {Shift(p, i) : i \in TokensOf(f, Components)}
      /\ \A i \in TokensOf(f, Components) : Closes(g, Shift(p, i)) = Shift(p, Closes(f, i))
  BY NestsShift
<1>2. ASSUME NEW j \in TokensOf(f, Components)
      PROVE  /\ Shift(p, j) < Shift(p, x) <=> j < x
             /\ Shift(p, x) < Closes(g, Shift(p, j)) <=> x < Closes(f, j)
  <2>1. j \in Stays(f, p) /\ Closes(f, j) \in Stays(f, p)
    BY ClosesStays
  <2>2. Closes(g, Shift(p, j)) = Shift(p, Closes(f, j))
    BY <1>1
  <2> QED
    BY <2>1, <2>2, ShiftIs
<1> QED
  BY <1>1, <1>2 DEF Around

\* Around the place of the patch is what begins before it and ends behind what
\* it replaces.
LEMMA AroundPatch ==
    ASSUME NEW f, NEW g, NEW p, Edited(f, g, p), Nests(f)
    PROVE  Around(g, p.from) = {j \in TokensOf(f, Components) : j < p.from /\ p.to <= Closes(f, j)}
<1>1. /\ TokensOf(g, Components) = {Shift(p, i) : i \in TokensOf(f, Components)}
      /\ \A i \in TokensOf(f, Components) : Closes(g, Shift(p, i)) = Shift(p, Closes(f, i))
  BY NestsShift
<1>0. /\ p.from \in Nat /\ p.to \in Nat /\ Len(g) \in Nat /\ Len(f) \in Nat
  BY EditedIs
<1>2. ASSUME NEW j \in TokensOf(f, Components)
      PROVE  /\ Shift(p, j) < p.from <=> j < p.from
             /\ p.from < Closes(g, Shift(p, j)) <=> p.to <= Closes(f, j)
             /\ j < p.from => Shift(p, j) = j
  <2>1. j \in Stays(f, p) /\ Closes(f, j) \in Stays(f, p)
    BY ClosesStays
  <2>2. Closes(g, Shift(p, j)) = Shift(p, Closes(f, j))
    BY <1>1
  <2> DEFINE k == Closes(f, j)
  <2> HIDE DEF k
  <2>3. /\ (Shift(p, j) < p.from <=> j < p.from) /\ (j < p.from => Shift(p, j) = j)
        /\ (Shift(p, k) > p.from <=> k >= p.to) /\ Shift(p, k) \in 1 .. Len(g)
        /\ k \in 1 .. Len(f)
    BY <2>1, ShiftIs DEF k, Stays
  <2>4. (p.from < Shift(p, k) <=> p.to <= k)
    BY <1>0, <2>3
  <2> QED
    BY <2>2, <2>3, <2>4 DEF k
<1> QED
  BY <1>1, <1>2 DEF Around

LEMMA EnclosingIs ==
    ASSUME NEW f \in Seq(AllTokens), NEW x
    PROVE  /\ Around(f, x) \subseteq 1 .. Len(f)
           /\ Around(f, x) = {} => Enclosing(f, x) = 0
           /\ Around(f, x) # {} => /\ Enclosing(f, x) \in Around(f, x)
                                   /\ \A j \in Around(f, x) : j <= Enclosing(f, x)
<1>0. Len(f) \in Nat /\ DOMAIN f = 1 .. Len(f)
  OBVIOUS
<1> DEFINE a == Around(f, x)
<1>1. a \subseteq 1 .. Len(f)
  BY <1>0 DEF Around, TokensOf
<1>2. Enclosing(f, x) = IF a = {} THEN 0 ELSE CHOOSE j \in a : \A k \in a : k <= j
  BY DEF Enclosing
<1> HIDE DEF a
<1>3. a # {} => \E j \in a : \A k \in a : k <= j
  <2>1. a \in SUBSET (0 .. Len(f))
    BY <1>0, <1>1
  <2> QED
    BY <1>0, <2>1, GreatestOf
<1> QED
  BY <1>1, <1>2, <1>3 DEF a

LEMMA EnclosingUnique ==
    ASSUME NEW f \in Seq(AllTokens), NEW x, NEW m \in Around(f, x), \A j \in Around(f, x) : j <= m
    PROVE  Enclosing(f, x) = m
<1>1. /\ Around(f, x) \subseteq 1 .. Len(f) /\ Enclosing(f, x) \in Around(f, x)
      /\ \A j \in Around(f, x) : j <= Enclosing(f, x)
  BY EnclosingIs
<1>2. m \in 1 .. Len(f) /\ Enclosing(f, x) \in 1 .. Len(f)
      /\ m <= Enclosing(f, x) /\ Enclosing(f, x) <= m
  BY <1>1
<1> DEFINE e == Enclosing(f, x)
<1> HIDE DEF e
<1>3. e = m
  BY <1>2 DEF e
<1> QED
  BY <1>3 DEF e

\* A token that stays is directly in the component it was in.
LEMMA EnclosingShift ==
    ASSUME NEW f, NEW g, NEW p, Edited(f, g, p), Nests(f), NEW x \in Stays(f, p)
    PROVE  /\ Enclosing(f, x) = 0 => Enclosing(g, Shift(p, x)) = 0
           /\ Enclosing(f, x) # 0 => /\ Enclosing(f, x) \in Stays(f, p)
                                     /\ Enclosing(g, Shift(p, x)) = Shift(p, Enclosing(f, x))
<1>1. f \in Seq(AllTokens) /\ g \in Seq(AllTokens)
  BY DEF Edited
<1>2. Around(g, Shift(p, x)) = {Shift(p, j) : j \in Around(f, x)}
  BY AroundShift
<1>3. CASE Around(f, x) = {}
  BY <1>1, <1>2, <1>3, EnclosingIs
<1>4. CASE Around(f, x) # {}
  <2> DEFINE m == Enclosing(f, x)
  <2>1. m \in Around(f, x) /\ m \in 1 .. Len(f) /\ \A j \in Around(f, x) : j <= m
    BY <1>1, <1>4, EnclosingIs
  <2> HIDE DEF m
  <2>2. \A j \in Around(f, x) : j \in TokensOf(f, Components)
    BY DEF Around
  <2>3. \A j \in Around(f, x) : j \in Stays(f, p) /\ j \in 1 .. Len(f)
    BY <2>2, ClosesStays
  <2>4. ASSUME NEW j \in Around(f, x) PROVE Shift(p, j) <= Shift(p, m)
    <3>1. /\ (Shift(p, m) < Shift(p, j) <=> m < j)
          /\ Shift(p, m) \in 1 .. Len(g) /\ Shift(p, j) \in 1 .. Len(g)
      BY <2>1, <2>3, ShiftIs
    <3>2. j <= m /\ j \in 1 .. Len(f)
      BY <2>1, <2>3
    <3> QED
      BY <2>1, <3>1, <3>2
  <2>5. Enclosing(g, Shift(p, x)) = Shift(p, m)
    <3>1. Shift(p, m) \in Around(g, Shift(p, x))
      BY <1>2, <2>1
    <3>2. \A j \in Around(g, Shift(p, x)) : j <= Shift(p, m)
      BY <1>2, <2>4
    <3> QED
      BY <1>1, <3>1, <3>2, EnclosingUnique
  <2> QED
    BY <2>1, <2>3, <2>5 DEF m
<1> QED
  BY <1>3, <1>4

\* A call stands where the texts it replaces stood.
LEMMA EnclosingCall ==
    ASSUME NEW f, NEW g, NEW p, Edited(f, g, p), Nests(f), p.from < p.to
    PROVE  Enclosing(g, p.from) = Enclosing(f, p.from)
<1>0. /\ p.from \in Nat /\ p.to \in Nat /\ Len(f) \in Nat
  BY EditedIs
<1>1. ASSUME NEW j \in TokensOf(f, Components)
      PROVE  p.to <= Closes(f, j) <=> p.from < Closes(f, j)
  <2>1. Closes(f, j) \in Stays(f, p)
    BY ClosesStays
  <2> DEFINE k == Closes(f, j)
  <2> HIDE DEF k
  <2>2. k \in 1 .. Len(f) /\ (k < p.from \/ k >= p.to)
    BY <2>1 DEF Stays, k
  <2>3. p.to <= k <=> p.from < k
    BY <1>0, <2>2
  <2> QED
    BY <2>3 DEF k
<1>2. Around(g, p.from) = Around(f, p.from)
  BY <1>1, AroundPatch DEF Around
<1> QED
  BY <1>2 DEF Enclosing

\* A hook put behind the beginning of a block belongs to that block.
LEMMA EnclosingHook ==
    ASSUME NEW f, NEW g, NEW p, Edited(f, g, p), Nests(f), NEW i \in TokensOf(f, Components),
           p.from = i + 1, p.to = i + 1
    PROVE  Enclosing(g, p.from) = i
<1>1. f \in Seq(AllTokens) /\ g \in Seq(AllTokens) /\ Len(f) \in Nat
  BY EditedIs DEF Edited
<1>2. i \in 1 .. Len(f) /\ Closes(f, i) \in i + 1 .. Len(f)
  BY <1>1, ClosesIs
<1>3. i \in Around(g, p.from)
  <2>1. i < p.from /\ p.to <= Closes(f, i)
    BY <1>2
  <2> QED
    BY <2>1, AroundPatch
<1>4. ASSUME NEW j \in Around(g, p.from) PROVE j <= i
  <2>1. j \in TokensOf(f, Components) /\ j < i + 1
    BY AroundPatch
  <2>2. j \in 1 .. Len(f)
    BY <1>1, <2>1 DEF TokensOf
  <2> QED
    BY <1>2, <2>1, <2>2
<1> QED
  BY <1>1, <1>3, <1>4, EnclosingUnique

\* What has a hook keeps it.
LEMMA HookShift ==
    ASSUME NEW f, NEW g, NEW p, Edited(f, g, p), Nests(f), NEW x \in Stays(f, p), HasHook(f, x)
    PROVE  HasHook(g, Shift(p, x))
<1>1. PICK k \in Tokens(f, "hook"), j \in Around(f, x) : k < x /\ Enclosing(f, k) = j
  BY DEF HasHook
<1>2. /\ Len(f) \in Nat /\ DOMAIN f = 1 .. Len(f) /\ DOMAIN g = 1 .. Len(g)
      /\ p.from \in 1 .. Len(f) + 1 /\ p.to \in p.from .. Len(f) + 1
  BY EditedIs
<1>3. k \in 1 .. Len(f) /\ f[k].kind = "hook"
  BY <1>2 DEF Tokens
<1>4. k \in Stays(f, p)
  <2>1. \A y \in p.from .. p.to - 1 : f[y].kind = "text"
    BY DEF Edited
  <2>2. k \notin p.from .. p.to - 1
    BY <1>3, <2>1
  <2> QED
    BY <1>2, <1>3, <2>2 DEF Stays
<1>5. Shift(p, k) \in Tokens(g, "hook") /\ Shift(p, k) < Shift(p, x)
  <2>1. /\ Shift(p, k) \in 1 .. Len(g) /\ g[Shift(p, k)] = f[k]
        /\ Shift(p, k) < Shift(p, x)
    BY <1>1, <1>4, ShiftIs
  <2> QED
    BY <1>2, <1>3, <2>1 DEF Tokens
<1>6. Shift(p, j) \in Around(g, Shift(p, x))
  BY AroundShift
<1>7. Enclosing(g, Shift(p, k)) = Shift(p, j)
  <2>1. j # 0
    <3>1. j \in 1 .. Len(f)
      BY <1>2 DEF Around, TokensOf
    <3> QED
      BY <3>1
  <2> QED
    BY <1>1, <1>4, <2>1, EnclosingShift
<1> QED
  BY <1>5, <1>6, <1>7 DEF HasHook

-----------------------------------------------------------------------------
(***************************************************************************)
(* Which words a file has                                                  *)
(***************************************************************************)
LEMMA JoinSet ==
    ASSUME NEW S, NEW u \in Seq(S), NEW v \in Seq(S), NEW uv, uv = Join(u, v)
    PROVE  /\ ToSet(uv) = ToSet(u) \cup ToSet(v)
           /\ IsInjective(uv) => IsInjective(v) /\ ToSet(u) \cap ToSet(v) = {}
<1>1. /\ uv \in Seq(S) /\ Len(uv) = Len(u) + Len(v)
      /\ \A i \in 1 .. Len(u) : uv[i] = u[i]
      /\ \A i \in 1 .. Len(v) : uv[Len(u) + i] = v[i]
  BY JoinedAs
<1>2. /\ Len(u) \in Nat /\ Len(v) \in Nat /\ DOMAIN u = 1 .. Len(u) /\ DOMAIN v = 1 .. Len(v)
      /\ DOMAIN uv = 1 .. Len(u) + Len(v)
  BY <1>1
<1>3. \A i \in 1 .. Len(u) + Len(v) :
         i \in 1 .. Len(u) \/ (i - Len(u) \in 1 .. Len(v) /\ Len(u) + (i - Len(u)) = i)
  BY <1>2
<1>4. ToSet(uv) \subseteq ToSet(u) \cup ToSet(v)
  <2> SUFFICES ASSUME NEW i \in 1 .. Len(u) + Len(v) PROVE uv[i] \in ToSet(u) \cup ToSet(v)
    BY <1>2 DEF ToSet
  <2>1. CASE i \in 1 .. Len(u)
    BY <1>1, <1>2, <2>1 DEF ToSet
  <2>2. CASE i - Len(u) \in 1 .. Len(v) /\ Len(u) + (i - Len(u)) = i
    <3>1. uv[i] = v[i - Len(u)]
      BY <1>1, <2>2
    <3> QED
      BY <1>2, <2>2, <3>1 DEF ToSet
  <2> QED
    BY <1>3, <2>1, <2>2
<1>5. /\ \A i \in 1 .. Len(u) : i \in 1 .. Len(u) + Len(v)
      /\ \A i \in 1 .. Len(v) : Len(u) + i \in 1 .. Len(u) + Len(v)
  BY <1>2
<1>6. ToSet(u) \cup ToSet(v) \subseteq ToSet(uv)
  BY <1>1, <1>2, <1>5 DEF ToSet
<1>7. ASSUME IsInjective(uv) PROVE IsInjective(v) /\ ToSet(u) \cap ToSet(v) = {}
  <2>1. \A i, j \in 1 .. Len(u) + Len(v) : uv[i] = uv[j] => i = j
    BY <1>2, <1>7 DEF IsInjective
  <2>2. ASSUME NEW i \in 1 .. Len(v), NEW j \in 1 .. Len(v), v[i] = v[j] PROVE i = j
    <3>1. Len(u) + i = Len(u) + j
      <4>1. uv[Len(u) + i] = uv[Len(u) + j]
        BY <1>1, <2>2
      <4>2. Len(u) + i \in 1 .. Len(u) + Len(v) /\ Len(u) + j \in 1 .. Len(u) + Len(v)
        BY <1>5
      <4> QED
        BY <2>1, <4>1, <4>2
    <3> QED
      BY <1>2, <3>1
  <2>3. ASSUME NEW i \in 1 .. Len(u), NEW j \in 1 .. Len(v), u[i] = v[j] PROVE FALSE
    <3>1. i = Len(u) + j
      BY <1>1, <1>5, <2>1, <2>3
    <3> QED
      BY <1>2, <3>1
  <2> QED
    BY <1>2, <2>2, <2>3 DEF IsInjective, ToSet
<1> QED
  BY <1>4, <1>6, <1>7

\* What is said before a token, by it and after it.
LEMMA ContentAt ==
    ASSUME NEW f \in Seq(AllTokens), NEW i \in 1 .. Len(f)
    PROVE  \E u \in Numbers, c \in Seq(AllTokens) :
              /\ Content(f) = Join(u, Join(f[i].of, Content(c)))
              /\ Len(c) = Len(f) - i /\ \A j \in 1 .. Len(f) - i : c[j] = f[i + j]
<1>0. Len(f) \in Nat /\ f[i] \in AllTokens
  BY ElementOfSeq
<1> DEFINE a == SubSeq(f, 1, i - 1)
           b == SubSeq(f, i, Len(f))
<1>1. /\ a \in Seq(AllTokens) /\ b \in Seq(AllTokens) /\ Len(b) = Len(f) - (i - 1)
      /\ \A j \in 1 .. Len(f) - (i - 1) : b[j] = f[j + i - 1]
      /\ f = Join(a, b)
  <2>1. i \in 1 .. Len(f) + 1
    BY <1>0
  <2> QED
    BY <2>1, Parted
<1> HIDE DEF a, b
<1> DEFINE t == SubSeq(b, 1, 1)
           c == SubSeq(b, 2, Len(b))
<1>2. /\ t \in Seq(AllTokens) /\ Len(t) = 1 /\ c \in Seq(AllTokens)
      /\ Len(c) = Len(b) - 1 /\ t[1] = b[1]
      /\ \A j \in 1 .. Len(b) - 1 : c[j] = b[j + 1]
      /\ b = Join(t, c)
  <2>1. 2 \in 1 .. Len(b) + 1
    BY <1>0, <1>1
  <2>2. /\ SubSeq(b, 1, 2 - 1) \in Seq(AllTokens) /\ Len(SubSeq(b, 1, 2 - 1)) = 2 - 1
        /\ c \in Seq(AllTokens) /\ Len(c) = Len(b) - (2 - 1)
        /\ \A j \in 1 .. 2 - 1 : SubSeq(b, 1, 2 - 1)[j] = b[j]
        /\ \A j \in 1 .. Len(b) - (2 - 1) : c[j] = b[j + 2 - 1]
        /\ b = Join(SubSeq(b, 1, 2 - 1), c)
    BY <1>1, <2>1, Parted
  <2>3. SubSeq(b, 1, 2 - 1) = t /\ 2 - 1 = 1
    OBVIOUS
  <2> HIDE DEF t, c
  <2>4. Len(b) \in Nat
    BY <1>1
  <2>5. t[1] = b[1]
    BY <2>2, <2>3
  <2>6. \A j \in 1 .. Len(b) - 1 : c[j] = b[j + 1]
    BY <2>2, <2>4
  <2> QED
    BY <2>2, <2>3, <2>5, <2>6
<1> HIDE DEF t, c
<1>3. t = <<f[i]>>
  <2>1. b[1] = f[i]
    <3>1. 1 \in 1 .. Len(f) - (i - 1) /\ 1 + i - 1 = i
      BY <1>0
    <3> QED
      BY <1>1, <3>1
  <2>2. <<f[i]>> \in Seq(AllTokens) /\ Len(<<f[i]>>) = 1 /\ <<f[i]>>[1] = f[i]
    BY <1>0
  <2> QED
    BY <1>2, <2>1, <2>2, SeqEqual
<1>4. Content(t) = f[i].of
  BY <1>0, <1>3, ContentOne
<1>5. Content(b) = Join(f[i].of, Content(c))
  <2>1. Content(b) = Content(t) \o Content(c)
    BY <1>2, ContentJoin
  <2> QED
    BY <1>4, <2>1 DEF Join
<1>6. Content(f) = Join(Content(a), Content(b))
  <2>1. Content(f) = Content(a) \o Content(b)
    BY <1>1, ContentJoin
  <2> QED
    BY <2>1 DEF Join
<1>7. Len(c) = Len(f) - i /\ \A j \in 1 .. Len(f) - i : c[j] = f[i + j]
  <2>1. Len(c) = Len(f) - i
    BY <1>0, <1>1, <1>2
  <2>2. ASSUME NEW j \in 1 .. Len(f) - i PROVE c[j] = f[i + j]
    <3>1. j \in 1 .. Len(b) - 1 /\ j + 1 \in 1 .. Len(f) - (i - 1) /\ (j + 1) + i - 1 = i + j
      BY <1>0, <1>1
    <3> QED
      BY <1>1, <1>2, <3>1
  <2> QED
    BY <2>1, <2>2
<1>8. Content(a) \in Numbers
  BY <1>1, PartsType
<1> QED
  BY <1>2, <1>5, <1>6, <1>7, <1>8

\* Every token's words are the file's.
LEMMA WordIn ==
    ASSUME NEW f \in Seq(AllTokens), NEW i \in 1 .. Len(f)
    PROVE  ToSet(f[i].of) \subseteq ToSet(Content(f))
<1>1. PICK u \in Numbers, c \in Seq(AllTokens) : Content(f) = Join(u, Join(f[i].of, Content(c)))
  BY ContentAt
<1>2. f[i].of \in Numbers
  <2>1. f[i] \in AllTokens
    BY ElementOfSeq
  <2> QED
    BY <2>1 DEF AllTokens, Numbers
<1>3. Content(c) \in Numbers
  BY PartsType
<1> DEFINE v == Join(f[i].of, Content(c))
<1>4. v \in Numbers /\ ToSet(f[i].of) \subseteq ToSet(v)
  <2>1. f[i].of \in Seq(Nat) /\ Content(c) \in Seq(Nat) /\ v = Join(f[i].of, Content(c))
    BY <1>2, <1>3 DEF Numbers
  <2> HIDE DEF v
  <2>2. v \in Seq(Nat)
    BY <2>1, Joined
  <2>3. ToSet(v) = ToSet(f[i].of) \cup ToSet(Content(c))
    BY <2>1, JoinSet
  <2> QED
    BY <2>2, <2>3 DEF Numbers
<1> HIDE DEF v
<1>5. ToSet(v) \subseteq ToSet(Content(f))
  <2>1. Content(f) = Join(u, v)
    BY <1>1 DEF v
  <2> QED
    BY <1>4, <2>1, JoinSet DEF Numbers
<1> QED
  BY <1>4, <1>5

\* A file that says nothing twice has no two tokens with a word in common.
LEMMA WordsApart ==
    ASSUME NEW f \in Seq(AllTokens), IsInjective(Content(f)),
           NEW i \in 1 .. Len(f), NEW j \in 1 .. Len(f), i # j
    PROVE  ToSet(f[i].of) \cap ToSet(f[j].of) = {}
<1>0. Len(f) \in Nat
  OBVIOUS
<1>1. ASSUME NEW m \in 1 .. Len(f), NEW n \in 1 .. Len(f), m < n
      PROVE  ToSet(f[m].of) \cap ToSet(f[n].of) = {}
  <2>1. PICK u \in Numbers, c \in Seq(AllTokens) :
              /\ Content(f) = Join(u, Join(f[m].of, Content(c)))
              /\ Len(c) = Len(f) - m /\ \A l \in 1 .. Len(f) - m : c[l] = f[m + l]
    BY ContentAt
  <2>2. n - m \in 1 .. Len(c) /\ c[n - m] = f[n]
    <3>1. n - m \in 1 .. Len(f) - m /\ m + (n - m) = n
      BY <1>0, <1>1
    <3> QED
      BY <2>1, <3>1
  <2>3. ToSet(f[n].of) \subseteq ToSet(Content(c))
    BY <2>2, WordIn
  <2>4. f[m].of \in Numbers
    <3>1. f[m] \in AllTokens
      BY ElementOfSeq
    <3> QED
      BY <3>1 DEF AllTokens, Numbers
  <2>5. Content(c) \in Numbers
    BY PartsType
  <2> DEFINE v == Join(f[m].of, Content(c))
  <2>6. v \in Numbers
    BY <2>4, <2>5, Joined DEF Numbers
  <2>7. IsInjective(v) => ToSet(f[m].of) \cap ToSet(Content(c)) = {}
    BY <2>4, <2>5, JoinSet DEF Numbers
  <2> HIDE DEF v
  <2>8. IsInjective(v)
    <3>1. Content(f) = Join(u, v)
      BY <2>1 DEF v
    <3> QED
      BY <2>6, <3>1, JoinSet DEF Numbers
  <2> QED
    BY <2>3, <2>7, <2>8
<1> QED
  BY <1>0, <1>1

\* Each text of a project has its number.
Numbered(w) == IsInjective(w) /\ ToSet(w) \subseteq 1 .. Len(w)

\* w is a with the next number put in behind the first l.
Wedge(l, m, a, w) ==
    /\ \A i \in 1 .. l : w[i] = a[i]
    /\ \A i \in l + 1 .. l + 1 : w[i] = l + m + 1
    /\ \A i \in l + 2 .. l + m + 1 : w[i] = a[i - 1]

\* Numbered contents stay so when a number is put between others.
LEMMA Renumbered ==
    ASSUME NEW l \in Nat, NEW m \in Nat, NEW a, NEW w, Wedge(l, m, a, w),
           \A i, j \in 1 .. l + m : a[i] = a[j] => i = j,
           \A i \in 1 .. l + m : a[i] \in 1 .. l + m
    PROVE  /\ \A i \in 1 .. l + m + 1 : w[i] \in 1 .. l + m + 1
           /\ \A i, j \in 1 .. l + m + 1 : w[i] = w[j] => i = j
           /\ \A i \in 1 .. l + m : \E j \in 1 .. l + m + 1 : w[j] = a[i]
<1>1. \A i \in 1 .. l + m + 1 : i \in 1 .. l \/ i = l + 1 \/ i \in l + 2 .. l + m + 1
  OBVIOUS
<1>2. /\ \A i \in 1 .. l : i \in 1 .. l + m /\ w[i] = a[i]
      /\ \A i \in l + 2 .. l + m + 1 : i - 1 \in 1 .. l + m /\ w[i] = a[i - 1]
  BY DEF Wedge
<1>3. ASSUME NEW i \in 1 .. l + m + 1 PROVE w[i] \in 1 .. l + m + 1
  <2>1. CASE i \in 1 .. l
    <3>1. w[i] \in 1 .. l + m
      BY <1>2, <2>1
    <3> QED
      BY <3>1
  <2>2. CASE i = l + 1
    <3>1. w[i] = l + m + 1
      BY <2>2 DEF Wedge
    <3> QED
      BY <3>1
  <2>3. CASE i \in l + 2 .. l + m + 1
    <3>1. w[i] \in 1 .. l + m
      BY <1>2, <2>3
    <3> QED
      BY <3>1
  <2> QED
    BY <1>1, <2>1, <2>2, <2>3
<1>4. ASSUME NEW i \in 1 .. l + m + 1, NEW j \in 1 .. l + m + 1, i < j, w[i] = w[j] PROVE FALSE
  <2>1. CASE i \in 1 .. l
    <3>1. w[i] = a[i] /\ i \in 1 .. l + m
      BY <1>2, <2>1
    <3>2. CASE j \in 1 .. l
      <4>1. w[j] = a[j] /\ j \in 1 .. l + m
        BY <1>2, <3>2
      <4>2. i = j
        BY <1>4, <3>1, <4>1
      <4> QED
        BY <1>4, <4>2
    <3>3. CASE j = l + 1
      <4>1. w[j] = l + m + 1
        BY <3>3 DEF Wedge
      <4>2. w[i] \in 1 .. l + m /\ w[i] = l + m + 1
        BY <1>4, <3>1, <4>1
      <4> QED
        BY <4>2
    <3>4. CASE j \in l + 2 .. l + m + 1
      <4>1. a[i] = a[j - 1] /\ j - 1 \in 1 .. l + m
        BY <1>2, <1>4, <3>1, <3>4
      <4>2. i = j - 1
        BY <3>1, <4>1
      <4> QED
        BY <2>1, <3>4, <4>2
    <3> QED
      BY <1>1, <3>2, <3>3, <3>4
  <2>2. CASE i = l + 1
    <3>1. j \in l + 2 .. l + m + 1
      BY <1>4, <2>2
    <3>2. w[i] = l + m + 1
      BY <2>2 DEF Wedge
    <3>3. w[j] \in 1 .. l + m /\ w[j] = l + m + 1
      BY <1>2, <1>4, <3>1, <3>2
    <3> QED
      BY <3>3
  <2>3. CASE i \in l + 2 .. l + m + 1
    <3>1. j \in l + 2 .. l + m + 1
      BY <1>4, <2>3
    <3>2. a[i - 1] = a[j - 1] /\ i - 1 \in 1 .. l + m /\ j - 1 \in 1 .. l + m
      BY <1>2, <1>4, <2>3, <3>1
    <3>3. i - 1 = j - 1
      BY <3>2
    <3> QED
      BY <1>4, <3>3
  <2> QED
    BY <1>1, <2>1, <2>2, <2>3
<1>5. ASSUME NEW i \in 1 .. l + m PROVE \E j \in 1 .. l + m + 1 : w[j] = a[i]
  <2>1. CASE i \in 1 .. l
    <3>1. i \in 1 .. l + m + 1 /\ w[i] = a[i]
      BY <1>2, <2>1
    <3> QED
      BY <3>1
  <2>2. CASE i \in l + 1 .. l + m
    <3>1. i + 1 \in l + 2 .. l + m + 1 /\ (i + 1) - 1 = i /\ i + 1 \in 1 .. l + m + 1
      BY <2>2
    <3>2. w[i + 1] = a[i]
      BY <1>2, <3>1
    <3> QED
      BY <3>1, <3>2
  <2> QED
    BY <2>1, <2>2
<1>6. \A i, j \in 1 .. l + m + 1 : w[i] = w[j] => i = j
  <2> SUFFICES ASSUME NEW i \in 1 .. l + m + 1, NEW j \in 1 .. l + m + 1, w[i] = w[j]
               PROVE  i = j
    OBVIOUS
  <2>1. ~(i < j) /\ ~(j < i)
    BY <1>4
  <2> QED
    BY <2>1
<1> QED
  BY <1>3, <1>5, <1>6

LEMMA Wedged ==
    ASSUME NEW S, NEW u, NEW v, NEW o, u \in Seq(S), v \in Seq(S), o \in Seq(S),
           NEW un, un = Join(u, o), NEW w, w = Join(un, v)
    PROVE  /\ w \in Seq(S) /\ Len(w) = Len(u) + Len(o) + Len(v)
           /\ \A i \in 1 .. Len(u) : w[i] = u[i]
           /\ \A i \in 1 .. Len(o) : w[Len(u) + i] = o[i]
           /\ \A i \in 1 .. Len(v) : w[Len(u) + Len(o) + i] = v[i]
<1>1. /\ un \in Seq(S) /\ Len(un) = Len(u) + Len(o)
      /\ \A i \in 1 .. Len(u) : un[i] = u[i]
      /\ \A i \in 1 .. Len(o) : un[Len(u) + i] = o[i]
  BY JoinedAs
<1>2. /\ w \in Seq(S) /\ Len(w) = Len(un) + Len(v)
      /\ \A i \in 1 .. Len(un) : w[i] = un[i]
      /\ \A i \in 1 .. Len(v) : w[Len(un) + i] = v[i]
  <2>1. un \in Seq(S)
    BY <1>1
  <2> QED
    BY ONLY <2>1, v \in Seq(S), w = Join(un, v), JoinedAs
<1>3. Len(u) \in Nat /\ Len(v) \in Nat /\ Len(o) \in Nat
  OBVIOUS
<1>4. PICK l \in Nat, m \in Nat, n \in Nat : l = Len(u) /\ m = Len(v) /\ n = Len(o)
  BY <1>3
<1>5. Len(w) = l + n + m /\ Len(un) = l + n
  BY <1>1, <1>2, <1>4
<1>6. ASSUME NEW i \in 1 .. l PROVE w[i] = u[i]
  <2>1. i \in 1 .. Len(un)
    BY <1>5
  <2> QED
    BY <1>1, <1>2, <1>4, <2>1
<1>7. ASSUME NEW i \in 1 .. n PROVE w[l + i] = o[i]
  <2>1. l + i \in 1 .. Len(un)
    BY <1>5
  <2> QED
    BY <1>1, <1>2, <1>4, <2>1
<1>8. ASSUME NEW i \in 1 .. m PROVE w[l + n + i] = v[i]
  BY <1>2, <1>4, <1>5
<1> QED
  BY <1>2, <1>4, <1>5, <1>6, <1>7, <1>8

\* What a developer writes is none of what is in the file.
LEMMA NewWord ==
    ASSUME NEW u \in Numbers, NEW v \in Numbers, NEW uv, uv = Join(u, v), Numbered(uv),
           NEW o \in Numbers, Len(o) = 1, o[1] = 1 + Len(uv),
           NEW un, un = Join(u, o), NEW w, w = Join(un, v)
    PROVE  Numbered(w) /\ ToSet(uv) \subseteq ToSet(w)
<1>0. u \in Seq(Nat) /\ v \in Seq(Nat) /\ o \in Seq(Nat) /\ Len(u) \in Nat /\ Len(v) \in Nat
  BY DEF Numbers
<1>1. PICK l \in Nat, m \in Nat : l = Len(u) /\ m = Len(v)
  BY <1>0
<1>2. /\ uv \in Seq(Nat) /\ Len(uv) = Len(u) + Len(v)
      /\ \A i \in 1 .. Len(u) : uv[i] = u[i]
      /\ \A i \in 1 .. Len(v) : uv[Len(u) + i] = v[i]
  <2>1. u \in Seq(Nat) /\ v \in Seq(Nat)
    BY <1>0
  <2> QED
    BY ONLY <2>1, uv = Join(u, v), JoinedAs, SMTT(30)
<1>3. /\ w \in Seq(Nat) /\ Len(w) = Len(u) + Len(o) + Len(v)
      /\ \A i \in 1 .. Len(u) : w[i] = u[i]
      /\ \A i \in 1 .. Len(o) : w[Len(u) + i] = o[i]
      /\ \A i \in 1 .. Len(v) : w[Len(u) + Len(o) + i] = v[i]
  BY ONLY <1>0, un = Join(u, o), w = Join(un, v), Wedged, SMTT(30)
<1>4. /\ Len(w) = l + m + 1 /\ Len(uv) = l + m
      /\ \A i \in 1 .. l : w[i] = uv[i]
      /\ \A i \in l + 1 .. l + 1 : w[i] = l + m + 1
  BY <1>1, <1>2, <1>3
<1>5. ASSUME NEW i \in l + 2 .. l + m + 1 PROVE w[i] = uv[i - 1]
  <2>1. PICK j \in Int : j = i - (l + 1)
    OBVIOUS
  <2>2. j \in 1 .. m /\ l + 1 + j = i /\ l + j = i - 1
    BY <2>1
  <2>3. w[l + 1 + j] = v[j] /\ uv[l + j] = v[j]
    BY <1>1, <1>2, <1>3, <2>2
  <2> QED
    BY <2>2, <2>3
<1>6. DOMAIN w = 1 .. l + m + 1 /\ DOMAIN uv = 1 .. l + m
  BY <1>2, <1>3, <1>4
<1>7. /\ \A i, j \in 1 .. l + m : uv[i] = uv[j] => i = j
      /\ \A i \in 1 .. l + m : uv[i] \in 1 .. l + m
  BY <1>4, <1>6 DEF Numbered, IsInjective, ToSet
<1>8. /\ \A i \in 1 .. l + m + 1 : w[i] \in 1 .. l + m + 1
      /\ \A i, j \in 1 .. l + m + 1 : w[i] = w[j] => i = j
      /\ \A i \in 1 .. l + m : \E j \in 1 .. l + m + 1 : w[j] = uv[i]
  <2>1. \A i \in 1 .. l : w[i] = uv[i]
    BY <1>4
  <2>2. \A i \in l + 1 .. l + 1 : w[i] = l + m + 1
    BY <1>4
  <2>3. \A i \in l + 2 .. l + m + 1 : w[i] = uv[i - 1]
    BY <1>5
  <2>4. Wedge(l, m, uv, w)
    BY <2>1, <2>2, <2>3 DEF Wedge
  <2> QED
    BY ONLY l \in Nat, m \in Nat, <1>7, <2>4, Renumbered
<1>9. IsInjective(w) /\ ToSet(w) \subseteq 1 .. Len(w)
  BY <1>4, <1>6, <1>8 DEF IsInjective, ToSet
<1>10. ToSet(uv) \subseteq ToSet(w)
  <2> SUFFICES ASSUME NEW i \in 1 .. l + m PROVE uv[i] \in ToSet(w)
    BY <1>6 DEF ToSet
  <2>1. PICK j \in 1 .. l + m + 1 : w[j] = uv[i]
    BY <1>8
  <2> QED
    BY <1>6, <2>1 DEF ToSet
<1> QED
  BY <1>9, <1>10 DEF Numbered

-----------------------------------------------------------------------------
(***************************************************************************)
(* Calls and the hooks they use                                            *)
(***************************************************************************)
\* A call that has its hook, had none when the program came, or says one of F.
Fine(f, x, L, F) ==
    Enclosing(f, x) \in Tokens(f, "block") =>
        HasHook(f, x) \/ ToSet(f[x].of) \cap L # {} \/ f[x].of \in F

CallsFine(f, L, F) == \A x \in Tokens(f, "call") : Fine(f, x, L, F)

\* The hook the call waits for is among the patches to come.
Pending(f, x, k, i) == \E m \in i + 1 .. Len(k) : k[m] = Hook(Enclosing(f, x))

\* A call that stays keeps the hook it has.
LEMMA FineShift ==
    ASSUME NEW f, NEW g, NEW p, Edited(f, g, p), Nests(f), NEW x \in Stays(f, p),
           NEW L, NEW F, Fine(f, x, L, F)
    PROVE  Fine(g, Shift(p, x), L, F)
<1> SUFFICES ASSUME Enclosing(g, Shift(p, x)) \in Tokens(g, "block")
             PROVE  \/ HasHook(g, Shift(p, x)) \/ ToSet(g[Shift(p, x)].of) \cap L # {}
                    \/ g[Shift(p, x)].of \in F
  BY DEF Fine
<1>0. /\ DOMAIN g = 1 .. Len(g) /\ DOMAIN f = 1 .. Len(f)
  BY EditedIs
<1>1. g[Shift(p, x)] = f[x]
  BY ShiftIs
<1>2. Enclosing(f, x) # 0
  <2>1. Enclosing(g, Shift(p, x)) # 0
    BY <1>0 DEF Tokens
  <2> QED
    BY <2>1, EnclosingShift
<1>3. Enclosing(f, x) \in Stays(f, p) /\ Enclosing(g, Shift(p, x)) = Shift(p, Enclosing(f, x))
  BY <1>2, EnclosingShift
<1>4. g[Shift(p, Enclosing(f, x))] = f[Enclosing(f, x)]
  BY <1>3, ShiftIs
<1>5. Enclosing(f, x) \in Tokens(f, "block")
  BY <1>0, <1>3, <1>4 DEF Tokens, Stays
<1> QED
  BY <1>1, <1>5, HookShift DEF Fine

\* Where a call is after a patch that is none.
LEMMA CallsShift ==
    ASSUME NEW f, NEW g, NEW p, Edited(f, g, p), NEW y \in Tokens(g, "call"), y # p.from
    PROVE  \E x \in Stays(f, p) : y = Shift(p, x) /\ x \in Tokens(f, "call") /\ g[y] = f[x]
<1>0. /\ DOMAIN g = 1 .. Len(g) /\ DOMAIN f = 1 .. Len(f)
  BY EditedIs
<1>1. y \in 1 .. Len(g) /\ g[y].kind = "call"
  BY <1>0 DEF Tokens
<1>2. PICK x \in Stays(f, p) : y = Shift(p, x)
  BY <1>1, ShiftIs
<1>3. g[y] = f[x]
  BY <1>2, ShiftIs
<1> QED
  BY <1>0, <1>1, <1>2, <1>3 DEF Tokens, Stays

LEMMA CallsFineShift ==
    ASSUME NEW f, NEW g, NEW p, Edited(f, g, p), Nests(f), p.by.kind # "call",
           NEW L, NEW F, CallsFine(f, L, F)
    PROVE  CallsFine(g, L, F)
<1> SUFFICES ASSUME NEW y \in Tokens(g, "call") PROVE Fine(g, y, L, F)
  BY DEF CallsFine
<1>1. y # p.from
  BY EditedIs DEF Tokens
<1>2. PICK x \in Stays(f, p) : y = Shift(p, x) /\ x \in Tokens(f, "call")
  BY <1>1, CallsShift
<1> QED
  BY <1>2, FineShift DEF CallsFine

\* No patch pushes a hook aside.
LEMMA HookKept ==
    ASSUME NEW f \in Seq(AllTokens), NEW P, Planned(f, P), NEW e \in Nat, Hook(e) \in P
    PROVE  \E m \in 1 .. Len(Clean(P)) : Clean(P)[m] = Hook(e)
<1> DEFINE s == Descending(P)
           k == Clean(P)
<1>1. Ranged(P) /\ KeptOf(k, s, Len(s)) /\ Sorted(s, P)
  BY CleanKeeps, DescendingSorts DEF Planned
<1> HIDE DEF s, k
<1>2. PICK j \in 1 .. Len(s) : s[j] = Hook(e)
  BY <1>1 DEF Sorted
<1>3. ~\E l \in 1 .. j - 1 : s[j].to > s[l].from
  <2> SUFFICES ASSUME NEW l \in 1 .. j - 1, s[j].to > s[l].from PROVE FALSE
    OBVIOUS
  <2>1. Later(s[l], s[j])
    BY <1>1 DEF Sorted
  <2>2. s[l] \in P
    <3>1. s \in Seq(P) /\ Len(s) \in Nat
      BY <1>1 DEF Sorted
    <3>2. l \in 1 .. Len(s)
      BY <3>1
    <3> QED
      BY <3>1, <3>2, ElementOfSeq
  <2>3. s[l].from \in Nat /\ s[l].to \in Nat
    BY <1>1, <2>2 DEF Ranged
  <2>4. s[j].from = e + 1 /\ s[j].to = e + 1
    BY <1>2 DEF Hook
  <2>5. \/ s[l].from > s[j].from
        \/ s[l].from = s[j].from /\ s[l].to > s[j].to
    BY <2>1 DEF Later
  <2> QED
    BY <2>3, <2>4, <2>5
<1> QED
  BY <1>1, <1>2, <1>3 DEF KeptOf, k

\* What a plan must be for every call to find its hook: a call says one of F,
\* or stands in no block, or its block gets a hook.
Hooked(f, P, F) ==
    \A p \in P :
        \/ /\ p.by.kind = "call" /\ p.from < p.to
           /\ \/ p.by.of \in F
              \/ Enclosing(f, p.from) \notin Tokens(f, "block")
              \/ Hook(Enclosing(f, p.from)) \in P
        \/ p.by.kind = "hook" /\ \E i \in Tokens(f, "block") : p = Hook(i)

LEMMA HookSame ==
    ASSUME NEW f \in Seq(AllTokens), NEW i \in Tokens(f, "block"), NEW e \in Nat, Hook(e) = Hook(i)
    PROVE  e = i
<1>1. Hook(e).from = e + 1 /\ Hook(i).from = i + 1
  BY DEF Hook
<1>2. i \in Nat
  BY DEF Tokens
<1> QED
  BY <1>1, <1>2

\* The loop invariant: the tree before the place the loop has reached is the
\* old one, and every call is fine or waits for a hook still to come.
Waiting(f, g, k, i, L, F) ==
    /\ Balanced(g)
    /\ \A x \in 1 .. Reached(f, k, i) - 1 : Enclosing(g, x) = Enclosing(f, x)
    /\ \A x \in Tokens(g, "call") : Fine(g, x, L, F) \/ Pending(g, x, k, i)

LEMMA PlanEdits ==
    ASSUME NEW f \in Seq(AllTokens), NEW P, Planned(f, P), NEW g,
           NEW i \in 0 .. Len(Clean(P)) - 1, Ahead(f, g, Clean(P), i)
    PROVE  LET p == Clean(P)[i + 1] IN Edited(g, Splice(g, p), p)
<1> DEFINE p == Clean(P)[i + 1]
<1>1. g \in Seq(AllTokens) /\ Fitting(g, p) /\ Textual(g, p)
  BY NextPatch
<1> HIDE DEF p
<1>2. Splice(g, p) \in Seq(AllTokens)
  BY <1>1, Spliced
<1>3. p.by.kind \notin Brackets
  BY <1>1 DEF Textual, Brackets, Components
<1> QED
  BY <1>1, <1>2, <1>3 DEF Edited, Textual, p

\* After each patch, every call has its hook or a patch of the plan still
\* brings it.
LEMMA WaitingStep ==
    ASSUME NEW f \in Seq(AllTokens), NEW P, Planned(f, P), NEW L, NEW F, Hooked(f, P, F), NEW g,
           NEW i \in 0 .. Len(Clean(P)) - 1, Ahead(f, g, Clean(P), i),
           Waiting(f, g, Clean(P), i, L, F)
    PROVE  Waiting(f, Splice(g, Clean(P)[i + 1]), Clean(P), i + 1, L, F)
<1> DEFINE k == Clean(P)
           p == k[i + 1]
           r == Reached(f, k, i)
           h == Splice(g, p)
<1>1. /\ p \in P /\ g \in Seq(AllTokens) /\ Textual(g, p) /\ p.to <= r
      /\ Reached(f, k, i + 1) = p.from
  BY NextPatch
<1>2. Edited(g, h, p)
  BY PlanEdits
<1>3. /\ Len(k) \in Nat /\ \A j \in 1 .. Len(k) : k[j] \in P
      /\ \A j \in 1 .. Len(k) : \A n \in 1 .. j - 1 : k[j].to <= k[n].from
  BY CleanIs
<1>4. /\ Balanced(g) /\ Nests(g)
      /\ \A x \in 1 .. r - 1 : Enclosing(g, x) = Enclosing(f, x)
      /\ \A x \in Tokens(g, "call") : Fine(g, x, L, F) \/ Pending(g, x, k, i)
  BY DEF Waiting, Balanced, Nests
<1>5. r \in 1 .. Len(g) + 1 /\ \A x \in 1 .. r - 1 : g[x] = f[x]
  BY DEF Ahead
<1>6. i + 1 \in 1 .. Len(k) /\ i \in Nat
  BY <1>3
<1> HIDE DEF k, p, r, h
<1>7. /\ Len(g) \in Nat /\ Len(h) \in Nat /\ DOMAIN g = 1 .. Len(g) /\ DOMAIN h = 1 .. Len(h)
      /\ p.from \in Nat /\ p.to \in Nat /\ p.from > 0 /\ p.from <= p.to /\ p.to <= Len(g) + 1
      /\ p.from \in 1 .. Len(h) /\ h[p.from] = p.by
  BY <1>2, EditedIs
<1>8. h \in Seq(AllTokens) /\ Len(f) \in Nat /\ DOMAIN f = 1 .. Len(f)
  BY <1>2 DEF Edited
<1>9. Balanced(h)
  BY <1>2, <1>4, BalancedShift
<1>10. ASSUME NEW e, e \in Nat, e > 0, e < p.from
       PROVE  e \in Stays(g, p) /\ Shift(p, e) = e
  <2>1. e \in Stays(g, p)
    BY <1>7, <1>10 DEF Stays
  <2> QED
    BY <1>2, <1>10, <2>1, ShiftIs
<1>11. ASSUME NEW x \in 1 .. p.from - 1 PROVE Enclosing(h, x) = Enclosing(f, x)
  <2>1. x \in Stays(g, p) /\ Shift(p, x) = x
    BY <1>7, <1>10
  <2>2. Enclosing(g, x) = Enclosing(f, x)
    <3>1. x \in 1 .. r - 1
      BY <1>1, <1>5, <1>7
    <3> QED
      BY <1>4, <3>1
  <2>3. CASE Enclosing(g, x) = 0
    BY <1>2, <1>4, <2>1, <2>2, <2>3, EnclosingShift
  <2>4. CASE Enclosing(g, x) # 0
    <3> DEFINE e == Enclosing(g, x)
    <3>1. e \in Around(g, x) /\ e \in 1 .. Len(g)
      BY <1>1, <2>4, EnclosingIs
    <3>2. e < x
      BY <3>1 DEF Around
    <3>3. Enclosing(h, x) = Shift(p, e)
      BY <1>2, <1>4, <2>1, <2>4, EnclosingShift
    <3> HIDE DEF e
    <3>4. e \in Nat /\ e > 0 /\ e < p.from
      BY <1>7, <3>1, <3>2
    <3>5. Shift(p, e) = e
      BY <1>10, <3>4
    <3> QED
      BY <2>2, <3>3, <3>5 DEF e
  <2> QED
    BY <2>3, <2>4
<1>12. ASSUME NEW y \in Tokens(h, "call"), y = p.from
       PROVE  Fine(h, y, L, F) \/ Pending(h, y, k, i + 1)
  <2>1. p.by.kind = "call" /\ h[y] = p.by
    BY <1>7, <1>12 DEF Tokens
  <2>2. /\ p.from < p.to
        /\ \/ p.by.of \in F
           \/ Enclosing(f, p.from) \notin Tokens(f, "block")
           \/ Hook(Enclosing(f, p.from)) \in P
    BY <1>1, <2>1 DEF Hooked
  <2>3. Enclosing(h, y) = Enclosing(f, y)
    <3>1. y \in 1 .. r - 1
      BY <1>1, <1>5, <1>7, <1>12, <2>2
    <3> QED
      BY <1>2, <1>4, <1>12, <2>2, <3>1, EnclosingCall
  <2>4. CASE p.by.of \in F
    BY <2>1, <2>4 DEF Fine
  <2>5. CASE Enclosing(f, p.from) \notin Tokens(f, "block")
    <3> SUFFICES ASSUME Enclosing(h, y) \in Tokens(h, "block") PROVE FALSE
      BY DEF Fine
    <3> DEFINE e == Enclosing(h, y)
    <3>1. e \in 1 .. Len(h) /\ h[e].kind = "block"
      BY <1>7 DEF Tokens
    <3>2. e < y
      <4>1. e \in Around(h, y)
        BY <1>8, <3>1, EnclosingIs
      <4> QED
        BY <4>1 DEF Around
    <3> HIDE DEF e
    <3>3. e \in 1 .. p.from - 1 /\ e \in 1 .. r - 1
      BY <1>1, <1>5, <1>7, <1>12, <3>1, <3>2
    <3>4. h[e] = f[e]
      BY <1>2, <1>5, <3>3, EditedIs
    <3>5. e \in 1 .. Len(f)
      <4>1. Reached(f, k, i) <= Len(f) + 1
        <5>1. CASE i = 0
          BY <1>8, <5>1 DEF Reached
        <5>2. CASE i # 0
          <6>1. i \in 1 .. Len(k)
            BY <1>6, <5>2
          <6>2. Fitting(f, k[i])
            BY <1>3, <6>1 DEF Planned
          <6> QED
            BY <5>2, <6>2 DEF Reached, Fitting
        <5> QED
          BY <5>1, <5>2
      <4> QED
        BY <1>5, <1>8, <3>3, <4>1 DEF r
    <3>6. e \in Tokens(f, "block")
      BY <1>8, <3>1, <3>4, <3>5 DEF Tokens
    <3> QED
      BY <1>12, <2>3, <2>5, <3>6 DEF e
  <2>6. CASE Hook(Enclosing(f, p.from)) \in P
    <3> DEFINE e == Enclosing(f, p.from)
    <3>1. e \in Nat /\ e < p.from
      <4>1. CASE Around(f, p.from) = {}
        <5>1. e = 0
          BY <4>1, EnclosingIs
        <5> QED
          BY <1>7, <5>1
      <4>2. CASE Around(f, p.from) # {}
        <5>1. e \in Around(f, p.from) /\ e \in 1 .. Len(f)
          BY <4>2, EnclosingIs
        <5> QED
          BY <5>1 DEF Around
      <4> QED
        BY <4>1, <4>2
    <3> HIDE DEF e
    <3>2. PICK m \in 1 .. Len(k) : k[m] = Hook(e)
      BY <2>6, <3>1, HookKept DEF e, k
    <3>3. k[m].from = e + 1 /\ k[m].to = e + 1 /\ k[m].by.kind = "hook"
      BY <3>2 DEF Hook, Token
    <3>4. m # i + 1
      BY <2>1, <3>3 DEF p
    <3>5. ~(m < i + 1)
      <4> SUFFICES ASSUME m < i + 1 PROVE FALSE
        OBVIOUS
      <4>1. m \in 1 .. (i + 1) - 1
        BY <1>6
      <4>2. p.to <= e + 1
        BY <1>3, <1>6, <3>3, <4>1 DEF p
      <4> QED
        BY <1>7, <2>2, <3>1, <4>2
    <3>6. m \in (i + 1) + 1 .. Len(k)
      BY <1>3, <1>6, <3>4, <3>5
    <3> QED
      BY <1>12, <2>3, <3>2, <3>6 DEF Pending, e
  <2> QED
    BY <2>2, <2>4, <2>5, <2>6
<1>13. ASSUME NEW y \in Tokens(h, "call"), y # p.from
       PROVE  Fine(h, y, L, F) \/ Pending(h, y, k, i + 1)
  <2>1. PICK x \in Stays(g, p) : y = Shift(p, x) /\ x \in Tokens(g, "call")
    BY <1>2, <1>13, CallsShift
  <2>2. CASE Fine(g, x, L, F)
    BY <1>2, <1>4, <2>1, <2>2, FineShift
  <2>3. CASE Pending(g, x, k, i)
    <3> DEFINE e == Enclosing(g, x)
    <3>1. PICK m \in i + 1 .. Len(k) : k[m] = Hook(e)
      BY <2>3 DEF Pending
    <3>2. e = 0 \/ (e \in Around(g, x) /\ e \in 1 .. Len(g))
      BY <1>1, EnclosingIs
    <3>3. \A j \in Around(g, x) : j < x /\ j \in TokensOf(g, Components)
      BY DEF Around
    <3> HIDE DEF e
    <3>4. e \in Nat /\ m \in 1 .. Len(k)
      BY <1>6, <3>2
    <3>5. k[m].from = e + 1 /\ k[m].to = e + 1 /\ k[m].by.kind = "hook"
      BY <3>1 DEF Hook, Token
    <3>6. e # 0
      <4>1. PICK b \in Tokens(f, "block") : Hook(e) = Hook(b)
        BY <1>3, <3>1, <3>4, <3>5 DEF Hooked
      <4>2. e = b
        BY <3>4, <4>1, HookSame
      <4> QED
        BY <1>8, <4>1, <4>2 DEF Tokens
    <3>7. e \in Around(g, x) /\ e \in 1 .. Len(g) /\ e < x /\ e \in TokensOf(g, Components)
      BY <3>2, <3>3, <3>6
    <3>8. CASE m = i + 1
      <4>1. p = Hook(e) /\ p.from = e + 1 /\ p.to = e + 1 /\ p.by.kind = "hook"
        BY <3>1, <3>5, <3>8 DEF p
      <4>2. Enclosing(h, p.from) = e
        BY <1>2, <1>4, <3>7, <4>1, EnclosingHook
      <4>3. e \in Around(h, y)
        <5>1. Shift(p, e) = e
          BY <1>10, <3>4, <3>6, <4>1
        <5> QED
          BY <1>2, <1>4, <2>1, <3>7, <5>1, AroundShift
      <4>4. p.from \in Tokens(h, "hook")
        BY <1>7, <4>1 DEF Tokens
      <4>5. p.from < y
        <5>1. x >= p.to /\ x \in 1 .. Len(g)
          BY <3>4, <3>7, <4>1 DEF Stays
        <5>2. Shift(p, x) > p.from /\ Shift(p, x) \in 1 .. Len(h)
          BY <1>2, <5>1, ShiftIs
        <5> QED
          BY <1>7, <2>1, <5>2
      <4>6. HasHook(h, y)
        BY <4>2, <4>3, <4>4, <4>5 DEF HasHook
      <4> QED
        BY <4>6 DEF Fine
    <3>9. CASE m # i + 1
      <4>1. m \in (i + 1) + 1 .. Len(k) /\ i + 1 \in 1 .. m - 1
        BY <1>3, <1>6, <3>9
      <4>2. e + 1 <= p.from
        BY <1>3, <3>4, <3>5, <4>1 DEF p
      <4>3. e < p.from /\ e > 0
        BY <1>7, <3>4, <3>6, <4>2
      <4>4. Shift(p, e) = e
        BY <1>10, <3>4, <4>3
      <4>5. Enclosing(h, y) = e
        BY <1>2, <1>4, <2>1, <3>6, <4>4, EnclosingShift DEF e
      <4> QED
        BY <3>1, <4>1, <4>5 DEF Pending
    <3> QED
      BY <3>8, <3>9
  <2> QED
    BY <1>4, <2>1, <2>2, <2>3
<1>14. \A x \in 1 .. Reached(f, k, i + 1) - 1 : Enclosing(h, x) = Enclosing(f, x)
  BY <1>1, <1>11
<1> QED
  BY <1>9, <1>12, <1>13, <1>14 DEF Waiting, h, p, k

\* After the loop no call waits any more.
LEMMA ReplacedFine ==
    ASSUME NEW f \in Seq(AllTokens), NEW P, Planned(f, P), NEW L, NEW F, Hooked(f, P, F),
           Balanced(f), CallsFine(f, L, F)
    PROVE  Balanced(Replaced(f, P)) /\ CallsFine(Replaced(f, P), L, F)
<1> DEFINE k == Clean(P)
           R == Replaced(f, P)
           Q == {q \in Nat \X Seq(AllTokens) : Waiting(f, q[2], k, q[1], L, F)}
<1>1. Len(k) \in Nat
  BY CleanIs
<1>2. <<0, f>> \in Q
  <2>1. Waiting(f, f, k, 0, L, F)
    BY DEF Waiting, CallsFine
  <2> QED
    BY <2>1
<1>3. ASSUME NEW i \in 0 .. Len(k) - 1, NEW g, <<i, g>> \in Q, Ahead(f, g, k, i)
      PROVE  <<i + 1, Splice(g, k[i + 1])>> \in Q
  <2>1. Waiting(f, g, k, i, L, F) /\ i \in Nat
    BY <1>1, <1>3
  <2>2. Waiting(f, Splice(g, k[i + 1]), k, i + 1, L, F)
    BY <1>3, <2>1, WaitingStep
  <2>3. Splice(g, k[i + 1]) \in Seq(AllTokens)
    BY <1>3, PlanEdits DEF Edited
  <2> QED
    BY <2>1, <2>2, <2>3
<1>4. <<Len(k), R>> \in Q
  <2> HIDE DEF Q
  <2> QED
    BY <1>2, <1>3, PlanLoop
<1>5. Waiting(f, R, k, Len(k), L, F)
  BY <1>4
<1> HIDE DEF R, k
<1>6. \A x : ~Pending(R, x, k, Len(k))
  BY <1>1 DEF Pending
<1> QED
  BY <1>5, <1>6 DEF Waiting, CallsFine, R

-----------------------------------------------------------------------------
(***************************************************************************)
(* The header under one patch                                              *)
(***************************************************************************)
LEMMA KindShift ==
    ASSUME NEW f, NEW g, NEW p, Edited(f, g, p), NEW kind, kind # "text", p.by.kind # kind
    PROVE  /\ Tokens(f, kind) \subseteq Stays(f, p)
           /\ Tokens(g, kind) = {Shift(p, z) : z \in Tokens(f, kind)}
           /\ Cardinality(Tokens(g, kind)) = Cardinality(Tokens(f, kind))
           /\ Tokens(g, kind) = {} <=> Tokens(f, kind) = {}
<1>1. \A h : TokensOf(h, {kind}) = Tokens(h, kind)
  BY DEF TokensOf, Tokens
<1>2. p.by.kind \notin {kind} /\ "text" \notin {kind}
  OBVIOUS
<1>3. /\ TokensOf(f, {kind}) \subseteq Stays(f, p)
      /\ TokensOf(g, {kind}) = {Shift(p, z) : z \in TokensOf(f, {kind})}
      /\ Cardinality(TokensOf(g, {kind})) = Cardinality(TokensOf(f, {kind}))
  BY <1>2, TokensShift
<1> QED
  BY <1>1, <1>3

\* What is put behind the directive leaves it where it is.
LEMMA ClientShift ==
    ASSUME NEW f, NEW g, NEW p, Edited(f, g, p), p.by.kind # "client",
           \A c \in Tokens(f, "client") : c < p.from
    PROVE  /\ Tokens(g, "client") = Tokens(f, "client")
           /\ \A c \in Tokens(f, "client"), j \in DOMAIN g :
                 j < c => j \in DOMAIN f /\ g[j] = f[j]
<1>1. /\ Tokens(f, "client") \subseteq Stays(f, p)
      /\ Tokens(g, "client") = {Shift(p, z) : z \in Tokens(f, "client")}
  BY KindShift
<1>2. \A c \in Tokens(f, "client") : Shift(p, c) = c
  BY <1>1, ShiftIs
<1>3. /\ Len(f) \in Nat /\ DOMAIN f = 1 .. Len(f) /\ DOMAIN g = 1 .. Len(g) /\ Len(g) \in Nat
      /\ p.from \in 1 .. Len(f) + 1 /\ \A x \in 1 .. p.from - 1 : g[x] = f[x]
  BY EditedIs
<1>4. ASSUME NEW c \in Tokens(f, "client"), NEW j \in DOMAIN g, j < c
      PROVE  j \in DOMAIN f /\ g[j] = f[j]
  <2>1. c < p.from /\ c \in 1 .. Len(f)
    BY <1>3 DEF Tokens
  <2>2. j \in 1 .. p.from - 1 /\ j \in 1 .. Len(f)
    BY <1>3, <1>4, <2>1
  <2> QED
    BY <1>3, <2>2
<1> QED
  BY <1>1, <1>2, <1>4

\* The header of a file stays in order under a patch of text.
LEMMA HeaderShift ==
    ASSUME NEW f, NEW g, NEW p, Edited(f, g, p), HeaderOf(f),
           p.by.kind # "client", p.by.kind # "i18n",
           \A c \in Tokens(f, "client") : c < p.from
    PROVE  HeaderOf(g)
<1>1. Tokens(g, "client") = Tokens(f, "client")
  BY ClientShift
<1>2. Cardinality(Tokens(g, "i18n")) = Cardinality(Tokens(f, "i18n"))
  BY KindShift
<1>3. ASSUME NEW c \in Tokens(f, "client"), NEW j \in DOMAIN g, j < c PROVE g[j].kind = "comment"
  <2>1. j \in DOMAIN f /\ g[j] = f[j]
    BY <1>3, ClientShift
  <2> QED
    BY <1>3, <2>1 DEF HeaderOf
<1> QED
  BY <1>1, <1>2, <1>3 DEF HeaderOf

\* The directive is before every patch of a plan.
LEMMA ClientFirst ==
    ASSUME NEW f \in Seq(AllTokens), HeaderOf(f), NEW approved \in SUBSET Candidates(f)
    PROVE  \A p \in GenerateRefactorPlan(f, approved), c \in Tokens(f, "client") : c < p.from
<1> SUFFICES ASSUME NEW p \in GenerateRefactorPlan(f, approved), NEW c \in Tokens(f, "client")
             PROVE  c < p.from
  OBVIOUS
<1>0. Len(f) \in Nat /\ DOMAIN f = 1 .. Len(f) /\ c \in 1 .. Len(f) /\ f[c].kind = "client"
  BY DEF Tokens
<1>1. ASSUME NEW x \in 1 .. Len(f), f[x].kind # "comment", f[x].kind # "client" PROVE c < x
  <2>1. ~(x < c) /\ x # c
    BY <1>0, <1>1 DEF HeaderOf
  <2> QED
    BY <1>0, <2>1
<1>2. CASE \E d \in Candidates(f) : p = Call(f, d)
  <2>1. PICK d \in Candidates(f) : p = Call(f, d)
    BY <1>2
  <2>2. p.from = d[1] /\ d[1] \in 1 .. Len(f) /\ d[1] \in d[1] .. d[2] - 1
    <3>1. p.from = d[1]
      BY <2>1, CallIs
    <3>2. d[1] \in 1 .. Len(f) /\ d[2] \in d[1] + 1 .. Len(f) + 1
      BY CandidateIs
    <3> QED
      BY <1>0, <3>1, <3>2
  <2>3. f[d[1]].kind = "text"
    BY <2>2, CandidateIs
  <2> QED
    BY <1>1, <2>2, <2>3
<1>3. CASE \E i \in Tokens(f, "block") : p = Hook(i)
  <2>1. PICK i \in Tokens(f, "block") : p = Hook(i)
    BY <1>3
  <2>2. p.from = i + 1 /\ i \in 1 .. Len(f) /\ f[i].kind = "block"
    BY <1>0, <2>1 DEF Hook, Tokens
  <2>3. c < i
    BY <1>1, <2>2
  <2> QED
    BY <1>0, <2>2, <2>3
<1> QED
  BY <1>2, <1>3, PlanIs

\* The header is in order when all patches are done.
LEMMA ReplacedHeader ==
    ASSUME NEW f \in Seq(AllTokens), HeaderOf(f), NEW P, Planned(f, P),
           \A p \in P, c \in Tokens(f, "client") : c < p.from
    PROVE  HeaderOf(Replaced(f, P))
<1> DEFINE k == Clean(P)
           R == Replaced(f, P)
           Header(g) == HeaderOf(g) /\ Tokens(g, "client") = Tokens(f, "client")
           Q == {q \in Nat \X Seq(AllTokens) : Header(q[2])}
<1>1. Len(k) \in Nat /\ \A i \in 1 .. Len(k) : k[i] \in P
  BY CleanIs
<1>2. <<0, f>> \in Q
  OBVIOUS
<1>3. ASSUME NEW i \in 0 .. Len(k) - 1, NEW g, <<i, g>> \in Q, Ahead(f, g, k, i)
      PROVE  <<i + 1, Splice(g, k[i + 1])>> \in Q
  <2> DEFINE p == k[i + 1]
             h == Splice(g, p)
  <2>1. Header(g) /\ i \in Nat
    BY <1>1, <1>3
  <2>2. Edited(g, h, p)
    BY <1>3, PlanEdits
  <2>3. p \in P /\ Textual(g, p)
    BY <1>3, NextPatch
  <2> HIDE DEF p, h
  <2>4. p.by.kind # "client" /\ p.by.kind # "i18n"
    BY <2>3 DEF Textual
  <2>5. \A c \in Tokens(g, "client") : c < p.from
    BY <2>1, <2>3
  <2>6. HeaderOf(h) /\ Tokens(h, "client") = Tokens(g, "client")
    BY <2>1, <2>2, <2>4, <2>5, HeaderShift, ClientShift
  <2>7. h \in Seq(AllTokens)
    BY <2>2 DEF Edited
  <2> QED
    BY <2>1, <2>6, <2>7 DEF h, p
<1>4. <<Len(k), R>> \in Q
  <2> HIDE DEF Q
  <2> QED
    BY <1>2, <1>3, PlanLoop
<1> QED
  BY <1>4
-----------------------------------------------------------------------------
(***************************************************************************)
(* The header after the import and the directive                           *)
(***************************************************************************)
LEMMA InsertionEdits ==
    ASSUME NEW f \in Seq(AllTokens), NEW i \in 1 .. Len(f) + 1, NEW k \in TokenKinds,
           k \notin Brackets
    PROVE  LET p == Insertion(i, k)
               g == Splice(f, p)
           IN  /\ Edited(f, g, p) /\ g \in Seq(AllTokens) /\ Content(g) = Content(f)
               /\ p.from = i /\ p.to = i /\ p.by.kind = k /\ g[i].kind = k
<1> DEFINE p == Insertion(i, k)
           g == Splice(f, p)
<1>1. p.from = i /\ p.to = i /\ p.by.kind = k /\ Fitting(f, p) /\ Faithful(f, p)
  BY InsertionIs
<1> HIDE DEF p
<1>2. g \in Seq(AllTokens) /\ g[p.from] = p.by
  BY <1>1, Spliced
<1>3. Content(g) = Content(f)
  BY <1>1, SpliceKeepsContent
<1> HIDE DEF g
<1>4. \A x \in p.from .. p.to - 1 : f[x].kind = "text"
  <2>1. Len(f) \in Nat
    OBVIOUS
  <2> QED
    BY <1>1, <2>1
<1>5. Edited(f, g, p)
  BY <1>1, <1>2, <1>4 DEF Edited, g
<1> QED
  BY <1>1, <1>2, <1>3, <1>5 DEF g, p

\* An insertion of a kind that was not there makes one token of it.
LEMMA FirstOfKind ==
    ASSUME NEW f, NEW g, NEW p, Edited(f, g, p), NEW kind, p.by.kind = kind,
           Tokens(f, kind) = {}
    PROVE  Tokens(g, kind) = {p.from} /\ Cardinality(Tokens(g, kind)) = 1
<1>1. /\ DOMAIN f = 1 .. Len(f) /\ DOMAIN g = 1 .. Len(g) /\ p.from \in 1 .. Len(g)
      /\ g[p.from] = p.by
  BY EditedIs
<1>2. ASSUME NEW y \in Tokens(g, kind), y # p.from PROVE FALSE
  <2>1. y \in 1 .. Len(g) /\ g[y].kind = kind
    BY <1>1 DEF Tokens
  <2>2. PICK x \in Stays(f, p) : y = Shift(p, x)
    BY <1>2, <2>1, ShiftIs
  <2>3. g[y] = f[x]
    BY <2>2, ShiftIs
  <2>4. x \in Tokens(f, kind)
    BY <1>1, <2>1, <2>3 DEF Tokens, Stays
  <2> QED
    BY <2>4
<1>3. p.from \in Tokens(g, kind)
  BY <1>1 DEF Tokens
<1>4. Tokens(g, kind) = {p.from}
  BY <1>2, <1>3
<1> QED
  BY <1>4, FS_Singleton

\* The import is one, and the directive is still first.
LEMMA ImportHeader ==
    ASSUME NEW f \in Seq(AllTokens), HeaderOf(f)
    PROVE  LET g == injectImport(f)
           IN  /\ g \in Seq(AllTokens) /\ Content(g) = Content(f) /\ HeaderOf(g)
               /\ Tokens(g, "i18n") # {}
               /\ g = f \/ \E p : Edited(f, g, p) /\ p.by.kind = "i18n"
<1> DEFINE g == injectImport(f)
<1>1. CASE Tokens(f, "i18n") # {}
  BY <1>1 DEF injectImport
<1>2. CASE Tokens(f, "i18n") = {}
  <2>1. PICK i \in 1 .. Len(f) + 1 :
              /\ Imported(f) = Splice(f, Insertion(i, "i18n"))
              /\ \A c \in Tokens(f, "client") :
                    (\A j \in DOMAIN f : j < c => f[j].kind = "comment") => c < i
    BY ImportedIs
  <2> DEFINE p == Insertion(i, "i18n")
  <2>2. g = Splice(f, p)
    BY <1>2, <2>1 DEF injectImport
  <2>3. "i18n" \in TokenKinds /\ "i18n" \notin Brackets
    BY DEF TokenKinds, Brackets, Components
  <2>4. /\ Edited(f, g, p) /\ g \in Seq(AllTokens) /\ Content(g) = Content(f)
        /\ p.from = i /\ p.by.kind = "i18n"
    BY <2>2, <2>3, InsertionEdits
  <2> HIDE DEF g, p
  <2>5. \A c \in Tokens(f, "client") : c < p.from
    BY <2>1, <2>4 DEF HeaderOf
  <2>6. Tokens(g, "client") = Tokens(f, "client")
    BY <2>4, <2>5, ClientShift
  <2>7. Tokens(g, "i18n") = {p.from} /\ Cardinality(Tokens(g, "i18n")) = 1
    <3>1. Edited(f, g, p) /\ p.by.kind = "i18n" /\ Tokens(f, "i18n") = {}
      BY <1>2, <2>4
    <3> QED
      BY ONLY <3>1, FirstOfKind
  <2>8. ASSUME NEW c \in Tokens(f, "client"), NEW j \in DOMAIN g, j < c
        PROVE  g[j].kind = "comment"
    <3>1. j \in DOMAIN f /\ g[j] = f[j]
      BY <2>4, <2>5, <2>8, ClientShift
    <3> QED
      BY <2>8, <3>1 DEF HeaderOf
  <2>9. HeaderOf(g)
    BY <2>6, <2>7, <2>8 DEF HeaderOf
  <2> QED
    BY <2>4, <2>7, <2>9 DEF g
<1> QED
  BY <1>1, <1>2

\* The directive is one, and before everything but comments.
LEMMA DirectiveHeader ==
    ASSUME NEW f \in Seq(AllTokens), HeaderOf(f), Tokens(f, "i18n") # {}
    PROVE  LET g == EnsureUseClientDirective(f)
           IN  /\ g \in Seq(AllTokens) /\ Content(g) = Content(f) /\ HeaderOf(g)
               /\ Tokens(g, "i18n") # {} /\ Tokens(g, "client") # {}
               /\ g = f \/ \E p : Edited(f, g, p) /\ p.by.kind = "client"
<1> DEFINE g == EnsureUseClientDirective(f)
<1>0. Len(f) \in Nat /\ DOMAIN f = 1 .. Len(f)
  OBVIOUS
<1>1. CASE g = f /\ Tokens(f, "client") # {}
  BY <1>1
<1>2. ASSUME NEW i \in 1 .. Len(f), g = Splice(f, Insertion(i, "client")),
             f[i].kind # "client", f[i].kind # "comment",
             \A j \in 1 .. i - 1 : f[j].kind = "comment"
      PROVE  /\ g \in Seq(AllTokens) /\ Content(g) = Content(f) /\ HeaderOf(g)
             /\ Tokens(g, "i18n") # {} /\ Tokens(g, "client") # {}
             /\ \E p : Edited(f, g, p) /\ p.by.kind = "client"
  <2> DEFINE p == Insertion(i, "client")
  <2>1. "client" \in TokenKinds /\ "client" \notin Brackets /\ i \in 1 .. Len(f) + 1
    BY <1>0 DEF TokenKinds, Brackets, Components
  <2>2. /\ Edited(f, g, p) /\ g \in Seq(AllTokens) /\ Content(g) = Content(f)
        /\ p.from = i /\ p.by.kind = "client"
    BY <1>2, <2>1, InsertionEdits
  <2> HIDE DEF g, p
  <2>3. Tokens(f, "client") = {}
    <3> SUFFICES ASSUME NEW c \in Tokens(f, "client") PROVE FALSE
      OBVIOUS
    <3>1. c \in 1 .. Len(f) /\ f[c].kind = "client"
      BY <1>0 DEF Tokens
    <3>2. ~(c < i) /\ c # i
      BY <1>0, <1>2, <3>1
    <3>3. i < c /\ i \in DOMAIN f
      BY <1>0, <1>2, <3>1, <3>2
    <3> QED
      BY <1>2, <3>3 DEF HeaderOf
  <2>4. Tokens(g, "client") = {p.from} /\ Cardinality(Tokens(g, "client")) = 1
    <3>1. Edited(f, g, p)
      BY <2>2
    <3>2. p.by.kind = "client" /\ Tokens(f, "client") = {}
      BY <2>2, <2>3
    <3>3. Tokens(g, "client") = {p.from}
      BY ONLY <3>1, <3>2, FirstOfKind
    <3>4. Cardinality(Tokens(g, "client")) = 1
      BY ONLY <3>1, <3>2, FirstOfKind
    <3> QED
      BY <3>3, <3>4
  <2>5. /\ Cardinality(Tokens(g, "i18n")) = Cardinality(Tokens(f, "i18n"))
        /\ Tokens(g, "i18n") # {}
    BY <2>2, KindShift
  <2>6. ASSUME NEW j \in DOMAIN g, j < i PROVE g[j].kind = "comment"
    <3>1. /\ DOMAIN g = 1 .. Len(g) /\ \A x \in 1 .. p.from - 1 : g[x] = f[x]
          /\ Len(g) \in Nat
      BY <2>2, EditedIs
    <3>2. j \in 1 .. i - 1
      BY <1>0, <2>6, <3>1
    <3> QED
      BY <1>2, <2>2, <3>1, <3>2
  <2>7. HeaderOf(g)
    BY <2>2, <2>4, <2>5, <2>6 DEF HeaderOf
  <2> QED
    BY <2>2, <2>4, <2>5, <2>7
<1> QED
  <2>1. \/ g = f /\ Tokens(f, "client") # {}
        \/ \E i \in 1 .. Len(f) :
              /\ g = Splice(f, Insertion(i, "client"))
              /\ f[i].kind # "client" /\ f[i].kind # "comment"
              /\ \A j \in 1 .. i - 1 : f[j].kind = "comment"
    BY DirectiveIs
  <2>2. CASE g = f /\ Tokens(f, "client") # {}
    BY <1>1, <2>2
  <2>3. ASSUME ~(g = f /\ Tokens(f, "client") # {})
        PROVE  /\ g \in Seq(AllTokens) /\ Content(g) = Content(f) /\ HeaderOf(g)
               /\ Tokens(g, "i18n") # {} /\ Tokens(g, "client") # {}
               /\ \E p : Edited(f, g, p) /\ p.by.kind = "client"
    <3>1. PICK i \in 1 .. Len(f) :
              /\ g = Splice(f, Insertion(i, "client"))
              /\ f[i].kind # "client" /\ f[i].kind # "comment"
              /\ \A j \in 1 .. i - 1 : f[j].kind = "comment"
      BY <2>1, <2>3
    <3> QED
      BY <3>1, <1>2 DEF g
  <2> QED
    BY <2>2, <2>3 DEF g

-----------------------------------------------------------------------------
(***************************************************************************)
(* A plan finds every call its hook                                        *)
(***************************************************************************)
\* Every text says something, and none what another says.
Sayings(f) == Numbered(Content(f)) /\ \A i \in Tokens(f, "text") : f[i].of # <<>>

\* What no call of the file says yet.
Fresh(f) == {w \in Numbers : w # <<>> /\ \A i \in Tokens(f, "call") : f[i].of # w}

LEMMA SomeWord ==
    ASSUME NEW w \in Numbers
    PROVE  w # <<>> <=> ToSet(w) # {}
<1>1. w \in Seq(Nat) /\ DOMAIN w = 1 .. Len(w) /\ Len(w) \in Nat
  BY DEF Numbers
<1>2. CASE w = <<>>
  <2>1. Len(w) = 0
    BY <1>1, <1>2, EmptySeq
  <2>2. ToSet(w) = {}
    BY <1>1, <2>1 DEF ToSet
  <2> QED
    BY <1>2, <2>2
<1>3. CASE w # <<>>
  <2>1. 1 \in 1 .. Len(w)
    BY <1>1, <1>3, EmptySeq
  <2>2. w[1] \in ToSet(w)
    BY <1>1, <2>1 DEF ToSet
  <2> QED
    BY <1>3, <2>2
<1> QED
  BY <1>2, <1>3

\* A call that the plan makes says what no call of the file does.
LEMMA CallSays ==
    ASSUME NEW f \in Seq(AllTokens), Sayings(f), NEW c \in Candidates(f)
    PROVE  Call(f, c).by.of \in Fresh(f)
<1> DEFINE s == SubSeq(f, c[1], c[2] - 1)
           w == Content(s)
<1>0. Len(f) \in Nat /\ DOMAIN f = 1 .. Len(f)
  OBVIOUS
<1>1. /\ c[1] \in 1 .. Len(f) /\ c[2] \in c[1] + 1 .. Len(f) + 1
      /\ \A x \in c[1] .. c[2] - 1 : f[x].kind = "text"
  BY CandidateIs
<1>2. Call(f, c).by.of = w
  BY DEF Call
<1>3. s \in Seq(AllTokens) /\ 1 \in 1 .. Len(s) /\ s[1] = f[c[1]]
  <2>1. c[1] \in 1 .. Len(f) + 1 /\ c[2] - 1 \in c[1] - 1 .. Len(f)
    BY <1>0, <1>1
  <2>2. /\ s \in Seq(AllTokens) /\ Len(s) = (c[2] - 1) - c[1] + 1
        /\ \A j \in 1 .. (c[2] - 1) - c[1] + 1 : s[j] = f[j + c[1] - 1]
    BY <2>1, SubSeqIs
  <2> HIDE DEF s
  <2>3. 1 \in 1 .. (c[2] - 1) - c[1] + 1 /\ 1 + c[1] - 1 = c[1]
    BY <1>0, <1>1
  <2> QED
    BY <2>2, <2>3
<1> HIDE DEF s
<1> DEFINE t == f[c[1]].of
<1>4. t # <<>> /\ f[c[1]].kind = "text"
  <2>1. c[1] \in c[1] .. c[2] - 1
    BY <1>0, <1>1
  <2>2. f[c[1]].kind = "text"
    BY <1>1, <2>1
  <2> QED
    BY <1>0, <1>1, <2>2 DEF Sayings, Tokens
<1>5. t \in Numbers
  <2>1. f[c[1]] \in AllTokens
    BY <1>1, ElementOfSeq
  <2> QED
    BY <2>1 DEF AllTokens, Numbers
<1>6. ToSet(t) # {} /\ ToSet(t) \subseteq ToSet(w)
  BY <1>3, <1>4, <1>5, SomeWord, WordIn
<1>7. w \in Numbers /\ w # <<>>
  <2>1. w \in Numbers
    BY <1>3, PartsType
  <2> HIDE DEF w, t
  <2> QED
    BY <1>6, <2>1, SomeWord
<1>8. ASSUME NEW i \in Tokens(f, "call"), f[i].of = w PROVE FALSE
  <2>1. i \in 1 .. Len(f) /\ i # c[1]
    BY <1>0, <1>4 DEF Tokens
  <2>2. ToSet(f[i].of) \cap ToSet(t) = {}
    BY <1>1, <2>1, WordsApart DEF Sayings, Numbered
  <2> HIDE DEF w, t
  <2> QED
    BY <1>6, <1>8, <2>2
<1> HIDE DEF w
<1> QED
  BY <1>2, <1>7, <1>8 DEF Fresh

\* GenerateRefactorPlan gives every call it makes a hook, in a file that has
\* none; in one that has hooks already it makes new calls without looking.
LEMMA PlanHooks ==
    ASSUME NEW f \in Seq(AllTokens), Sayings(f), NEW approved \in SUBSET Candidates(f)
    PROVE  Hooked(f, GenerateRefactorPlan(f, approved),
                  IF Tokens(f, "hook") = {} THEN {} ELSE Fresh(f))
<1> DEFINE cs == {d \in approved : InScope(f, d)}
           calls == {Call(f, c) : c \in cs}
           P == GenerateRefactorPlan(f, approved)
           F == IF Tokens(f, "hook") = {} THEN {} ELSE Fresh(f)
<1> SUFFICES ASSUME NEW p \in P
             PROVE  \/ /\ p.by.kind = "call" /\ p.from < p.to
                       /\ \/ p.by.of \in F
                          \/ Enclosing(f, p.from) \notin Tokens(f, "block")
                          \/ Hook(Enclosing(f, p.from)) \in P
                    \/ p.by.kind = "hook" /\ \E i \in Tokens(f, "block") : p = Hook(i)
  BY DEF Hooked
<1>1. \/ \E c \in Candidates(f) : p = Call(f, c)
      \/ Tokens(f, "hook") = {} /\ \E i \in Tokens(f, "block") : p = Hook(i)
  BY PlanIs
<1>2. \A i : Hook(i).by.kind = "hook"
  BY DEF Hook, Token
<1>3. CASE \E i \in Tokens(f, "block") : p = Hook(i)
  BY <1>2, <1>3
<1>4. CASE \E c \in Candidates(f) : p = Call(f, c)
  <2>1. PICK c \in Candidates(f) : p = Call(f, c)
    BY <1>4
  <2>2. p.by.kind = "call" /\ p.from < p.to
    BY <2>1, CallIs
  <2>3. CASE Tokens(f, "hook") # {}
    <3>1. p.by.of \in F
      BY <2>1, <2>3, CallSays
    <3> QED
      BY <2>2, <3>1
  <2>4. CASE Tokens(f, "hook") = {}
    <3> SUFFICES ASSUME Enclosing(f, p.from) \in Tokens(f, "block")
                 PROVE  Hook(Enclosing(f, p.from)) \in P
      BY <2>2
    <3> DEFINE e == Enclosing(f, p.from)
               wanted == HooksWanted(f, calls)
               first == {i \in Tokens(f, "block") : \A j \in Tokens(f, "block") : i <= j}
    <3>1. P = IF calls = {} \/ Tokens(f, "hook") # {} THEN calls
              ELSE calls \cup {Hook(i) : i \in IF wanted = {} THEN first ELSE wanted}
      BY DEF GenerateRefactorPlan, injectComponentHooks
    <3> HIDE DEF calls, first, P
    <3>2. p \in calls
      BY <1>2, <2>2, <3>1
    <3>3. e \in wanted
      BY <3>2 DEF HooksWanted
    <3> HIDE DEF wanted
    <3>4. P = calls \cup {Hook(i) : i \in wanted}
      BY <2>4, <3>1, <3>2, <3>3
    <3> QED
      BY <3>3, <3>4
  <2> QED
    BY <2>3, <2>4
<1> QED
  BY <1>1, <1>3, <1>4
-----------------------------------------------------------------------------
(***************************************************************************)
(* A whole rewrite                                                         *)
(***************************************************************************)
TextsSay(f) == \A i \in Tokens(f, "text") : f[i].of # <<>>

LEMMA TextsShift ==
    ASSUME NEW f, NEW g, NEW p, Edited(f, g, p), TextsSay(f),
           p.by.kind # "text" \/ p.by.of # <<>>
    PROVE  TextsSay(g)
<1> SUFFICES ASSUME NEW y \in Tokens(g, "text") PROVE g[y].of # <<>>
  BY DEF TextsSay
<1>1. /\ DOMAIN f = 1 .. Len(f) /\ DOMAIN g = 1 .. Len(g) /\ g[p.from] = p.by
  BY EditedIs
<1>2. y \in 1 .. Len(g) /\ g[y].kind = "text"
  BY <1>1 DEF Tokens
<1>3. CASE y = p.from
  BY <1>1, <1>2, <1>3
<1>4. CASE y # p.from
  <2>1. PICK x \in Stays(f, p) : y = Shift(p, x)
    BY <1>2, <1>4, ShiftIs
  <2>2. g[y] = f[x]
    BY <2>1, ShiftIs
  <2> QED
    BY <1>1, <1>2, <2>2 DEF TextsSay, Tokens, Stays
<1> QED
  BY <1>3, <1>4

LEMMA ReplacedTexts ==
    ASSUME NEW f \in Seq(AllTokens), TextsSay(f), NEW P, Planned(f, P)
    PROVE  TextsSay(Replaced(f, P))
<1> DEFINE k == Clean(P)
           R == Replaced(f, P)
           Q == {q \in Nat \X Seq(AllTokens) : TextsSay(q[2])}
<1>1. Len(k) \in Nat
  BY CleanIs
<1>2. <<0, f>> \in Q
  OBVIOUS
<1>3. ASSUME NEW i \in 0 .. Len(k) - 1, NEW g, <<i, g>> \in Q, Ahead(f, g, k, i)
      PROVE  <<i + 1, Splice(g, k[i + 1])>> \in Q
  <2> DEFINE p == k[i + 1]
             h == Splice(g, p)
  <2>1. TextsSay(g) /\ i \in Nat
    BY <1>1, <1>3
  <2>2. Edited(g, h, p)
    BY <1>3, PlanEdits
  <2>3. Textual(g, p)
    BY <1>3, NextPatch
  <2> HIDE DEF p, h
  <2>4. p.by.kind # "text"
    BY <2>3 DEF Textual
  <2>5. TextsSay(h)
    BY <2>1, <2>2, <2>4, TextsShift
  <2>6. h \in Seq(AllTokens)
    BY <2>2 DEF Edited
  <2> QED
    BY <2>1, <2>5, <2>6 DEF h, p
<1>4. <<Len(k), R>> \in Q
  <2> HIDE DEF Q
  <2> QED
    BY <1>2, <1>3, PlanLoop
<1> QED
  BY <1>4

\* The file is one that the steps leave intact.
Whole(f) == f \in Seq(AllTokens) /\ Balanced(f) /\ TextsSay(f)

LEMMA WholeShift ==
    ASSUME NEW f, NEW g, Whole(f),
           g = f \/ \E p : Edited(f, g, p) /\ p.by.kind \in {"i18n", "client"}
    PROVE  Whole(g) /\ \A L, F : CallsFine(f, L, F) => CallsFine(g, L, F)
<1>1. CASE g = f
  BY <1>1
<1>2. ASSUME NEW p, Edited(f, g, p), p.by.kind \in {"i18n", "client"}
      PROVE  Whole(g) /\ \A L, F : CallsFine(f, L, F) => CallsFine(g, L, F)
  <2>1. Nests(f) /\ p.by.kind # "call" /\ p.by.kind # "text"
    BY <1>2 DEF Whole, Balanced, Nests
  <2>2. Balanced(g) /\ TextsSay(g) /\ g \in Seq(AllTokens)
    BY <1>2, <2>1, BalancedShift, TextsShift DEF Whole, Edited
  <2>3. ASSUME NEW L, NEW F, CallsFine(f, L, F) PROVE CallsFine(g, L, F)
    BY <1>2, <2>1, <2>3, CallsFineShift
  <2> QED
    BY <2>2, <2>3 DEF Whole
<1> QED
  BY <1>1, <1>2

\* All of what ApplyRefactorPlan does to a file: it parses, says what it said,
\* has its header and, for calls the plan has hooks for, hooks in scope.
LEMMA Rewritten ==
    ASSUME NEW f, Whole(f), HeaderOf(f), NEW approved \in SUBSET Candidates(f), NEW P,
           P = GenerateRefactorPlan(f, approved), NEW d, d = ApplyRefactorPlan(f, P)
    PROVE  /\ Whole(d) /\ Content(d) = Content(f) /\ HeaderOf(d)
           /\ Tokens(d, "i18n") # {} /\ Tokens(d, "client") # {}
           /\ \A L, F : Hooked(f, P, F) /\ CallsFine(f, L, F) => CallsFine(d, L, F)
<1> DEFINE g == Replaced(f, P)
           h == injectImport(g)
<1>0. f \in Seq(AllTokens) /\ Balanced(f) /\ TextsSay(f)
  BY DEF Whole
<1>1. Planned(f, P) /\ \A p \in P, c \in Tokens(f, "client") : c < p.from
  BY <1>0, PlanIs, ClientFirst
<1>2. g \in Seq(AllTokens) /\ Content(g) = Content(f)
  <2>1. Ahead(f, g, Clean(P), Len(Clean(P)))
    <3> DEFINE All == {<<0, f>>} \cup
                      {<<i + 1, Splice(x, Clean(P)[i + 1])>> : i \in Nat, x \in Seq(AllTokens)}
    <3>1. ASSUME NEW i \in 0 .. Len(Clean(P)) - 1, NEW x, Ahead(f, x, Clean(P), i)
          PROVE  <<i + 1, Splice(x, Clean(P)[i + 1])>> \in All
      <4>1. x \in Seq(AllTokens) /\ i \in Nat
        BY <1>0, <1>1, <3>1, CleanIs DEF Ahead
      <4> QED
        BY <4>1
    <3>2. <<0, f>> \in All
      OBVIOUS
    <3> HIDE DEF All
    <3> QED
      BY <1>0, <1>1, <3>1, <3>2, PlanLoop
  <2> QED
    BY <2>1 DEF Ahead
<1>3. /\ HeaderOf(g) /\ TextsSay(g)
  BY <1>0, <1>1, ReplacedHeader, ReplacedTexts
<1>4. d = EnsureUseClientDirective(h)
  BY DEF ApplyRefactorPlan
<1> HIDE DEF g
<1>5. /\ h \in Seq(AllTokens) /\ Content(h) = Content(g) /\ HeaderOf(h) /\ Tokens(h, "i18n") # {}
      /\ h = g \/ \E p : Edited(g, h, p) /\ p.by.kind = "i18n"
  BY <1>2, <1>3, ImportHeader
<1> HIDE DEF h
<1>6. /\ d \in Seq(AllTokens) /\ Content(d) = Content(h) /\ HeaderOf(d)
      /\ Tokens(d, "i18n") # {} /\ Tokens(d, "client") # {}
      /\ d = h \/ \E p : Edited(h, d, p) /\ p.by.kind = "client"
  BY <1>4, <1>5, DirectiveHeader
<1>7. Balanced(g)
  <2>1. Hooked(f, P, {p.by.of : p \in P})
    <3> SUFFICES ASSUME NEW p \in P
                 PROVE  \/ p.by.kind = "call" /\ p.from < p.to
                        \/ p.by.kind = "hook" /\ \E i \in Tokens(f, "block") : p = Hook(i)
      BY DEF Hooked
    <3>1. \/ \E c \in Candidates(f) : p = Call(f, c)
          \/ \E i \in Tokens(f, "block") : p = Hook(i)
      BY <1>0, PlanIs
    <3>2. CASE \E c \in Candidates(f) : p = Call(f, c)
      BY <1>0, <3>2, CallIs
    <3>3. CASE \E i \in Tokens(f, "block") : p = Hook(i)
      BY <3>3 DEF Hook, Token
    <3> QED
      BY <3>1, <3>2, <3>3
  <2>2. CallsFine(f, {}, {f[x].of : x \in Tokens(f, "call")} \cup {p.by.of : p \in P})
    BY DEF CallsFine, Fine
  <2>3. Hooked(f, P, {f[x].of : x \in Tokens(f, "call")} \cup {p.by.of : p \in P})
    BY <2>1 DEF Hooked
  <2> QED
    BY <1>0, <1>1, <2>2, <2>3, ReplacedFine DEF g
<1>8. Whole(g)
  BY <1>2, <1>3, <1>7 DEF Whole
<1>9. Whole(h) /\ \A L, F : CallsFine(g, L, F) => CallsFine(h, L, F)
  BY <1>5, <1>8, WholeShift
<1>10. Whole(d) /\ \A L, F : CallsFine(h, L, F) => CallsFine(d, L, F)
  BY <1>6, <1>9, WholeShift
<1>11. ASSUME NEW L, NEW F, Hooked(f, P, F), CallsFine(f, L, F) PROVE CallsFine(d, L, F)
  <2>1. CallsFine(g, L, F)
    BY <1>0, <1>1, <1>11, ReplacedFine DEF g
  <2> QED
    BY <1>9, <1>10, <2>1
<1> QED
  BY <1>2, <1>5, <1>6, <1>10, <1>11

-----------------------------------------------------------------------------
(***************************************************************************)
(* A component added at the end                                            *)
(***************************************************************************)
Component(n) == <<Token("block"), Text(n), Token("end")>>

Extended(f, g, n) ==
    /\ f \in Seq(AllTokens) /\ g \in Seq(AllTokens) /\ Len(g) = Len(f) + 3
    /\ \A x \in 1 .. Len(f) : g[x] = f[x]
    /\ g[Len(f) + 1] = Token("block") /\ g[Len(f) + 2] = Text(n) /\ g[Len(f) + 3] = Token("end")

LEMMA TextIs ==
    ASSUME NEW n \in Nat
    PROVE  /\ Text(n) \in AllTokens /\ Text(n).kind = "text"
           /\ Text(n).of \in Numbers /\ Len(Text(n).of) = 1 /\ Text(n).of[1] = n /\ Text(n).of # <<>>
<1>1. <<n>> \in Seq(Nat) /\ Len(<<n>>) = 1 /\ <<n>>[1] = n
  OBVIOUS
<1>2. <<n>> # <<>>
  BY <1>1, EmptySeq
<1> QED
  BY <1>1, <1>2 DEF Text, AllTokens, TokenKinds, Numbers

LEMMA ExtendedIs ==
    ASSUME NEW f \in Seq(AllTokens), NEW n \in Nat
    PROVE  Extended(f, f \o Component(n), n)
<1> DEFINE c == Component(n)
<1>1. /\ c \in Seq(AllTokens) /\ Len(c) = 3
      /\ c[1] = Token("block") /\ c[2] = Text(n) /\ c[3] = Token("end")
  <2>1. Token("block") \in AllTokens /\ Token("end") \in AllTokens /\ Text(n) \in AllTokens
    BY TextIs, TokenIs DEF TokenKinds
  <2> QED
    BY <2>1 DEF Component
<1> DEFINE g == f \o c
<1> HIDE DEF c
<1>2. /\ g \in Seq(AllTokens) /\ Len(g) = Len(f) + 3
      /\ \A x \in 1 .. Len(f) : g[x] = f[x]
      /\ \A x \in 1 .. 3 : g[Len(f) + x] = c[x]
  <2>1. /\ g \in Seq(AllTokens) /\ Len(g) = Len(f) + Len(c)
        /\ \A x \in 1 .. Len(f) : g[x] = f[x]
        /\ \A x \in 1 .. Len(c) : g[Len(f) + x] = c[x]
    <3>1. f \in Seq(AllTokens) /\ c \in Seq(AllTokens) /\ g = f \o c
      BY <1>1
    <3> HIDE DEF g
    <3> QED
      BY ONLY <3>1, Concatenated
  <2> HIDE DEF g
  <2> QED
    BY <1>1, <2>1
<1> HIDE DEF g
<1>3. 1 \in 1 .. 3 /\ 2 \in 1 .. 3 /\ 3 \in 1 .. 3
  OBVIOUS
<1>4. Extended(f, g, n)
  BY <1>1, <1>2, <1>3 DEF Extended
<1> QED
  BY <1>4 DEF g, c

LEMMA ExtendedContent ==
    ASSUME NEW f \in Seq(AllTokens), NEW n \in Nat
    PROVE  Content(f \o Component(n)) = Join(Content(f), Text(n).of)
<1> DEFINE b == Token("block")
           t == Text(n)
           e == Token("end")
           f1 == Join(f, <<b>>)
           f2 == Join(f1, <<t>>)
           f3 == Join(f2, <<e>>)
<1>1. b \in AllTokens /\ t \in AllTokens /\ e \in AllTokens /\ b.of = <<>> /\ e.of = <<>>
  BY TextIs, TokenIs DEF TokenKinds
<1> HIDE DEF b, t, e
<1>2. /\ <<b>> \in Seq(AllTokens) /\ <<t>> \in Seq(AllTokens) /\ <<e>> \in Seq(AllTokens)
      /\ Content(<<b>>) = <<>> /\ Content(<<t>>) = t.of /\ Content(<<e>>) = <<>>
      /\ Len(<<b>>) = 1 /\ Len(<<t>>) = 1 /\ Len(<<e>>) = 1
      /\ <<b>>[1] = b /\ <<t>>[1] = t /\ <<e>>[1] = e
  BY <1>1, ContentOne
<1> DEFINE vb == <<b>>
           vt == <<t>>
           ve == <<e>>
<1> HIDE DEF vb, vt, ve
<1>3. /\ vb \in Seq(AllTokens) /\ vt \in Seq(AllTokens) /\ ve \in Seq(AllTokens)
      /\ Content(vb) = <<>> /\ Content(vt) = t.of /\ Content(ve) = <<>>
      /\ Len(vb) = 1 /\ Len(vt) = 1 /\ Len(ve) = 1
      /\ vb[1] = b /\ vt[1] = t /\ ve[1] = e
      /\ f1 = Join(f, vb) /\ f2 = Join(f1, vt) /\ f3 = Join(f2, ve)
  BY <1>2 DEF vb, vt, ve
<1> HIDE DEF f1, f2, f3
<1>4. f1 \in Seq(AllTokens) /\ Len(f1) = Len(f) + 1 /\ (\A x \in 1 .. Len(f) : f1[x] = f[x])
      /\ f1[Len(f) + 1] = b
  <2>1. /\ f1 \in Seq(AllTokens) /\ Len(f1) = Len(f) + Len(vb)
        /\ \A x \in 1 .. Len(f) : f1[x] = f[x]
        /\ \A x \in 1 .. Len(vb) : f1[Len(f) + x] = vb[x]
    <3>1. f \in Seq(AllTokens) /\ vb \in Seq(AllTokens) /\ f1 = Join(f, vb)
      BY <1>3
    <3> QED
      BY ONLY <3>1, JoinedAs
  <2> QED
    BY <1>3, <2>1
<1>5. f2 \in Seq(AllTokens) /\ Len(f2) = Len(f1) + 1 /\ (\A x \in 1 .. Len(f1) : f2[x] = f1[x])
      /\ f2[Len(f1) + 1] = t
  <2>1. /\ f2 \in Seq(AllTokens) /\ Len(f2) = Len(f1) + Len(vt)
        /\ \A x \in 1 .. Len(f1) : f2[x] = f1[x]
        /\ \A x \in 1 .. Len(vt) : f2[Len(f1) + x] = vt[x]
    BY <1>3, <1>4, JoinedAs
  <2> QED
    BY <1>3, <2>1
<1>6. f3 \in Seq(AllTokens) /\ Len(f3) = Len(f2) + 1 /\ (\A x \in 1 .. Len(f2) : f3[x] = f2[x])
      /\ f3[Len(f2) + 1] = e
  <2>1. /\ f3 \in Seq(AllTokens) /\ Len(f3) = Len(f2) + Len(ve)
        /\ \A x \in 1 .. Len(f2) : f3[x] = f2[x]
        /\ \A x \in 1 .. Len(ve) : f3[Len(f2) + x] = ve[x]
    <3>1. f2 \in Seq(AllTokens) /\ ve \in Seq(AllTokens) /\ f3 = Join(f2, ve)
      BY <1>3, <1>5
    <3> QED
      BY ONLY <3>1, JoinedAs
  <2> QED
    BY <1>3, <2>1
<1>7. f3 = f \o Component(n)
  <2> DEFINE g == f \o Component(n)
  <2>1. Extended(f, g, n)
    BY ExtendedIs
  <2> HIDE DEF g
  <2>2. PICK l \in Nat : l = Len(f)
    OBVIOUS
  <2>3. /\ g \in Seq(AllTokens) /\ Len(g) = l + 3 /\ (\A x \in 1 .. l : g[x] = f[x])
        /\ g[l + 1] = b /\ g[l + 2] = t /\ g[l + 3] = e
    BY <2>1, <2>2 DEF Extended, b, t, e
  <2>4. /\ Len(f3) = l + 3 /\ (\A x \in 1 .. l : f3[x] = f[x])
        /\ f3[l + 1] = b /\ f3[l + 2] = t /\ f3[l + 3] = e
    BY <1>4, <1>5, <1>6, <2>2
  <2>5. \A x \in 1 .. l + 3 : f3[x] = g[x]
    <3> SUFFICES ASSUME NEW x \in 1 .. l + 3 PROVE f3[x] = g[x]
      OBVIOUS
    <3>1. x \in 1 .. l \/ x = l + 1 \/ x = l + 2 \/ x = l + 3
      OBVIOUS
    <3> QED
      BY <2>3, <2>4, <3>1
  <2> QED
    BY ONLY <1>6, <2>3, <2>4, <2>5, SeqEqual DEF g
<1>8. Content(f) \in Numbers
  BY PartsType
<1>9. Content(f1) = Content(f)
  <2>1. Content(f1) = Content(f) \o Content(vb)
    BY <1>3, ContentJoin
  <2> QED
    BY <1>3, <1>8, <2>1, ConcatEmptySeq DEF Numbers
<1>10. Content(f2) = Join(Content(f), t.of)
  BY <1>3, <1>4, <1>9, ContentJoin DEF Join
<1>11. Content(f3) = Content(f2)
  <2>1. Content(f3) = Content(f2) \o Content(ve)
    BY <1>3, <1>5, ContentJoin
  <2>2. Content(f2) \in Numbers
    BY <1>5, PartsType
  <2> QED
    BY <1>3, <2>1, <2>2, ConcatEmptySeq DEF Numbers
<1> QED
  BY <1>7, <1>10, <1>11 DEF t

LEMMA ExtendedTokens ==
    ASSUME NEW f, NEW g, NEW n, Extended(f, g, n), NEW ks
    PROVE  /\ Len(f) \in Nat /\ DOMAIN f = 1 .. Len(f) /\ DOMAIN g = 1 .. Len(g)
           /\ 1 .. Len(g) = 1 .. Len(f) \cup {Len(f) + 1, Len(f) + 2, Len(f) + 3}
           /\ g[Len(f) + 1].kind = "block" /\ g[Len(f) + 2].kind = "text" /\ g[Len(f) + 3].kind = "end"
           /\ TokensOf(g, ks) =
                 TokensOf(f, ks) \cup {x \in {Len(f) + 1, Len(f) + 2, Len(f) + 3} : g[x].kind \in ks}
<1>1. /\ f \in Seq(AllTokens) /\ g \in Seq(AllTokens) /\ Len(g) = Len(f) + 3
      /\ \A x \in 1 .. Len(f) : g[x] = f[x]
      /\ g[Len(f) + 1] = Token("block") /\ g[Len(f) + 2] = Text(n) /\ g[Len(f) + 3] = Token("end")
  BY DEF Extended
<1>2. Len(f) \in Nat /\ DOMAIN f = 1 .. Len(f) /\ DOMAIN g = 1 .. Len(g)
  BY <1>1
<1>3. PICK l \in Nat : l = Len(f)
  BY <1>2
<1>4. 1 .. l + 3 = 1 .. l \cup {l + 1, l + 2, l + 3}
  OBVIOUS
<1>5. g[l + 1].kind = "block" /\ g[l + 2].kind = "text" /\ g[l + 3].kind = "end"
  BY <1>1, <1>3 DEF Token, Text
<1>6. TokensOf(g, ks) = TokensOf(f, ks) \cup {x \in {l + 1, l + 2, l + 3} : g[x].kind \in ks}
  <2>1. TokensOf(g, ks) = {x \in 1 .. l : g[x].kind \in ks}
                             \cup {x \in {l + 1, l + 2, l + 3} : g[x].kind \in ks}
    BY <1>1, <1>2, <1>3, <1>4 DEF TokensOf
  <2>2. TokensOf(f, ks) = {x \in 1 .. l : g[x].kind \in ks}
    BY <1>1, <1>2, <1>3 DEF TokensOf
  <2> QED
    BY <2>1, <2>2
<1> QED
  BY <1>1, <1>2, <1>3, <1>4, <1>5, <1>6

LEMMA ExtendedPlaces ==
    ASSUME NEW f, NEW g, NEW n, Extended(f, g, n)
    PROVE  \E l \in Nat :
              /\ l = Len(f) /\ DOMAIN f = 1 .. l /\ DOMAIN g = 1 .. l + 3 /\ f \in Seq(AllTokens)
              /\ \A x \in 1 .. l : g[x] = f[x]
              /\ g[l + 1].kind = "block" /\ g[l + 2] = Text(n) /\ g[l + 2].kind = "text"
              /\ g[l + 3].kind = "end"
              /\ 1 .. l + 3 = 1 .. l \cup {l + 1, l + 2, l + 3}
<1>1. PICK l \in Nat : l = Len(f)
  BY ExtendedTokens
<1>2. /\ f \in Seq(AllTokens) /\ Len(g) = l + 3 /\ (\A x \in 1 .. l : g[x] = f[x])
      /\ g[l + 2] = Text(n)
  BY <1>1 DEF Extended
<1>3. /\ DOMAIN f = 1 .. l /\ DOMAIN g = 1 .. Len(g)
      /\ 1 .. Len(g) = 1 .. l \cup {l + 1, l + 2, l + 3}
      /\ g[l + 1].kind = "block" /\ g[l + 2].kind = "text" /\ g[l + 3].kind = "end"
  BY <1>1, ExtendedTokens
<1> QED
  BY <1>1, <1>2, <1>3

LEMMA ExtendedDepth ==
    ASSUME NEW f, NEW g, NEW n, Extended(f, g, n)
    PROVE  /\ \A i \in 1 .. Len(f), k \in 1 .. Len(f) : Depth(g, i, k) = Depth(f, i, k)
           /\ \A i \in 1 .. Len(f), k \in 1 .. Len(f) : Closing(f, i, k) => Closing(g, i, k)
           /\ Closing(g, Len(f) + 1, Len(f) + 3)
<1>1. PICK l \in Nat : l = Len(f)
  BY ExtendedTokens
<1>2. /\ \A x \in 1 .. l : g[x] = f[x]
      /\ g[l + 1].kind = "block" /\ g[l + 2].kind = "text" /\ g[l + 3].kind = "end"
  BY <1>1, ExtendedTokens DEF Extended
<1>3. ASSUME NEW i \in 1 .. l, NEW k \in 1 .. l PROVE Depth(g, i, k) = Depth(f, i, k)
  <2>1. \A ks : In(g, i, k, ks) = In(f, i, k, ks)
    <3>1. \A x \in i .. k : g[x] = f[x]
      BY <1>2
    <3> QED
      BY <3>1 DEF In
  <2> QED
    BY <2>1, DepthIs
<1>4. ASSUME NEW i \in 1 .. l, NEW k \in 1 .. l, Closing(f, i, k) PROVE Closing(g, i, k)
  <2>1. Depth(f, i, k) = 0 /\ \A j \in i .. k - 1 : Depth(f, i, j) > 0
    BY <1>4 DEF Closing
  <2>2. Depth(g, i, k) = 0
    BY <1>3, <2>1
  <2>3. \A j \in i .. k - 1 : j \in 1 .. l
    OBVIOUS
  <2>4. \A j \in i .. k - 1 : Depth(g, i, j) > 0
    BY <1>3, <2>1, <2>3
  <2> QED
    BY <2>2, <2>4 DEF Closing
<1>5. Closing(g, l + 1, l + 3)
  <2>1. Cardinality({l + 1}) = 1 /\ Cardinality({l + 3}) = 1 /\ Cardinality({}) = 0
    BY FS_Singleton, FS_EmptySet
  <2>2. /\ In(g, l + 1, l + 1, Components) = {l + 1} /\ In(g, l + 1, l + 1, {"end"}) = {}
        /\ In(g, l + 1, l + 2, Components) = {l + 1} /\ In(g, l + 1, l + 2, {"end"}) = {}
        /\ In(g, l + 1, l + 3, Components) = {l + 1} /\ In(g, l + 1, l + 3, {"end"}) = {l + 3}
    <3>1. /\ l + 1 .. l + 1 = {l + 1} /\ l + 1 .. l + 2 = {l + 1, l + 2}
          /\ l + 1 .. l + 3 = {l + 1, l + 2, l + 3}
      OBVIOUS
    <3> QED
      BY <1>2, <3>1 DEF In, Components
  <2>3. Depth(g, l + 1, l + 1) = 1 /\ Depth(g, l + 1, l + 2) = 1 /\ Depth(g, l + 1, l + 3) = 0
    BY <2>1, <2>2, DepthIs
  <2>4. \A j \in l + 1 .. (l + 3) - 1 : j = l + 1 \/ j = l + 2
    OBVIOUS
  <2>5. \A j \in l + 1 .. (l + 3) - 1 : Depth(g, l + 1, j) > 0
    <3>1. 1 > 0
      OBVIOUS
    <3> QED
      BY <2>3, <2>4, <3>1
  <2> QED
    BY <2>3, <2>5 DEF Closing
<1> QED
  BY <1>1, <1>3, <1>4, <1>5

LEMMA ExtendedBalanced ==
    ASSUME NEW f, NEW g, NEW n, Extended(f, g, n), Balanced(f)
    PROVE  /\ Balanced(g)
           /\ \A x \in 1 .. Len(f) : Around(g, x) = Around(f, x) /\ Enclosing(g, x) = Enclosing(f, x)
<1>1. PICK l \in Nat : l = Len(f)
  BY ExtendedTokens
<1>2. /\ f \in Seq(AllTokens) /\ g \in Seq(AllTokens) /\ Len(g) = l + 3
      /\ DOMAIN f = 1 .. l /\ DOMAIN g = 1 .. l + 3
  BY <1>1, ExtendedTokens DEF Extended
<1>3. /\ TokensOf(g, Components) = TokensOf(f, Components) \cup {l + 1}
      /\ Tokens(g, "end") = Tokens(f, "end") \cup {l + 3}
  <2>1. g[l + 1].kind = "block" /\ g[l + 2].kind = "text" /\ g[l + 3].kind = "end"
    BY <1>1, ExtendedTokens
  <2>2. \A ks : TokensOf(g, ks) =
            TokensOf(f, ks) \cup {x \in {l + 1, l + 2, l + 3} : g[x].kind \in ks}
    BY <1>1, ExtendedTokens
  <2>3. {x \in {l + 1, l + 2, l + 3} : g[x].kind \in Components} = {l + 1}
    BY <2>1 DEF Components
  <2>4. {x \in {l + 1, l + 2, l + 3} : g[x].kind \in {"end"}} = {l + 3}
    BY <2>1
  <2>5. \A h : TokensOf(h, {"end"}) = Tokens(h, "end")
    BY DEF TokensOf, Tokens
  <2> QED
    BY <2>2, <2>3, <2>4, <2>5
<1>4. Nests(f)
  BY DEF Balanced, Nests
<1>5. Cardinality(TokensOf(g, Components)) = Cardinality(Tokens(g, "end"))
  <2>1. TokensOf(f, Components) \subseteq 1 .. l /\ Tokens(f, "end") \subseteq 1 .. l
    BY <1>2 DEF TokensOf, Tokens
  <2>2. IsFiniteSet(TokensOf(f, Components)) /\ IsFiniteSet(Tokens(f, "end"))
    BY <2>1, IntervalFinite, FS_Subset
  <2>3. l + 1 \notin TokensOf(f, Components) /\ l + 3 \notin Tokens(f, "end")
    BY <2>1
  <2>4. /\ Cardinality(TokensOf(g, Components)) = Cardinality(TokensOf(f, Components)) + 1
        /\ Cardinality(Tokens(g, "end")) = Cardinality(Tokens(f, "end")) + 1
    BY <1>3, <2>2, <2>3, FS_AddElement
  <2> QED
    BY <2>4 DEF Balanced
<1>6. ASSUME NEW i \in TokensOf(f, Components)
      PROVE  Closes(g, i) = Closes(f, i) /\ Closing(g, i, Closes(f, i)) /\ Closes(f, i) \in i .. Len(g)
  <2>1. i \in 1 .. l /\ Closes(f, i) \in i + 1 .. l /\ Closing(f, i, Closes(f, i))
    BY <1>1, <1>2, <1>4, ClosesIs
  <2>2. Closes(f, i) \in 1 .. l /\ Closes(f, i) \in i .. l + 3
    BY <2>1
  <2>3. Closing(g, i, Closes(f, i))
    BY <1>1, <2>1, <2>2, ExtendedDepth
  <2>4. i \in Nat /\ Len(g) \in Nat /\ Closes(f, i) \in i .. Len(g)
    BY <1>2, <2>1, <2>2
  <2> QED
    BY <2>3, <2>4, ClosesUnique
<1>7. Nests(g)
  <2> SUFFICES ASSUME NEW i \in TokensOf(g, Components)
               PROVE  \E k \in i .. Len(g) : Closing(g, i, k)
    BY DEF Nests
  <2>1. CASE i = l + 1
    <3>1. l + 3 \in l + 1 .. Len(g)
      BY <1>2
    <3> QED
      BY <1>1, <2>1, <3>1, ExtendedDepth
  <2>2. CASE i \in TokensOf(f, Components)
    BY <1>6, <2>2
  <2> QED
    BY <1>3, <2>1, <2>2
<1>8. ASSUME NEW x \in 1 .. l PROVE Around(g, x) = Around(f, x)
  <2>1. ~(l + 1 < x)
    OBVIOUS
  <2>2. \A j : j \in Around(g, x) => j \in Around(f, x)
    BY <1>3, <1>6, <2>1 DEF Around
  <2>3. \A j : j \in Around(f, x) => j \in Around(g, x)
    BY <1>3, <1>6 DEF Around
  <2> QED
    BY <2>2, <2>3
<1>9. ASSUME NEW x \in 1 .. l PROVE Enclosing(g, x) = Enclosing(f, x)
  <2>1. Around(g, x) = Around(f, x)
    BY <1>8
  <2>2. CASE Around(f, x) = {}
    BY <1>2, <2>1, <2>2, EnclosingIs
  <2>3. CASE Around(f, x) # {}
    <3>1. Enclosing(f, x) \in Around(f, x) /\ \A j \in Around(f, x) : j <= Enclosing(f, x)
      BY <1>2, <2>3, EnclosingIs
    <3> QED
      BY <1>2, <2>1, <3>1, EnclosingUnique
  <2> QED
    BY <2>2, <2>3
<1>10. Balanced(g)
  BY <1>5, <1>7 DEF Balanced, Nests
<1> QED
  BY <1>1, <1>8, <1>9, <1>10

LEMMA ExtendedFine ==
    ASSUME NEW f, NEW g, NEW n, Extended(f, g, n), Balanced(f), NEW L, NEW F, CallsFine(f, L, F)
    PROVE  CallsFine(g, L, F)
<1>1. PICK l \in Nat :
              /\ l = Len(f) /\ DOMAIN f = 1 .. l /\ DOMAIN g = 1 .. l + 3 /\ f \in Seq(AllTokens)
              /\ \A x \in 1 .. l : g[x] = f[x]
              /\ g[l + 1].kind = "block" /\ g[l + 2] = Text(n) /\ g[l + 2].kind = "text"
              /\ g[l + 3].kind = "end"
              /\ 1 .. l + 3 = 1 .. l \cup {l + 1, l + 2, l + 3}
  BY ExtendedPlaces
<1>3. \A x \in 1 .. l : Around(g, x) = Around(f, x) /\ Enclosing(g, x) = Enclosing(f, x)
  BY <1>1, ExtendedBalanced
<1> SUFFICES ASSUME NEW x \in Tokens(g, "call") PROVE Fine(g, x, L, F)
  BY DEF CallsFine
<1>4. x \in 1 .. l /\ x \in Tokens(f, "call") /\ g[x] = f[x]
  BY <1>1 DEF Tokens
<1>5. Fine(f, x, L, F)
  BY <1>4 DEF CallsFine
<1> SUFFICES ASSUME Enclosing(g, x) \in Tokens(g, "block")
             PROVE  HasHook(g, x) \/ ToSet(g[x].of) \cap L # {} \/ g[x].of \in F
  BY DEF Fine
<1>6. Enclosing(f, x) \in Tokens(f, "block")
  <2>1. Enclosing(f, x) = Enclosing(g, x) /\ Enclosing(g, x) \in 1 .. l + 3
    BY <1>1, <1>3, <1>4 DEF Tokens
  <2>2. Enclosing(f, x) # 0
    BY <2>1
  <2>3. Around(f, x) # {} /\ Around(f, x) \subseteq 1 .. l
    BY <1>1, <2>2, EnclosingIs
  <2>4. Enclosing(f, x) \in 1 .. l
    BY <1>1, <2>3, EnclosingIs
  <2> QED
    BY <1>1, <2>1, <2>4 DEF Tokens
<1>7. ASSUME HasHook(f, x) PROVE HasHook(g, x)
  <2>1. PICK k \in Tokens(f, "hook"), j \in Around(f, x) : k < x /\ Enclosing(f, k) = j
    BY <1>7 DEF HasHook
  <2>2. k \in 1 .. l
    BY <1>1 DEF Tokens
  <2>3. k \in Tokens(g, "hook") /\ Enclosing(g, k) = j /\ j \in Around(g, x)
    BY <1>1, <1>3, <1>4, <2>1, <2>2 DEF Tokens
  <2> QED
    BY <2>1, <2>3 DEF HasHook
<1> QED
  BY <1>4, <1>5, <1>6, <1>7 DEF Fine

LEMMA ExtendedHeader ==
    ASSUME NEW f, NEW g, NEW n, Extended(f, g, n), HeaderOf(f)
    PROVE  /\ HeaderOf(g)
           /\ \A k \in {"client", "i18n", "call"} : Tokens(g, k) = Tokens(f, k)
<1>1. PICK l \in Nat :
              /\ l = Len(f) /\ DOMAIN f = 1 .. l /\ DOMAIN g = 1 .. l + 3 /\ f \in Seq(AllTokens)
              /\ \A x \in 1 .. l : g[x] = f[x]
              /\ g[l + 1].kind = "block" /\ g[l + 2] = Text(n) /\ g[l + 2].kind = "text"
              /\ g[l + 3].kind = "end"
              /\ 1 .. l + 3 = 1 .. l \cup {l + 1, l + 2, l + 3}
  BY ExtendedPlaces
<1>3. \A k \in {"client", "i18n", "call"} : Tokens(g, k) = Tokens(f, k)
  BY <1>1 DEF Tokens
<1>4. ASSUME NEW i \in Tokens(f, "client"), NEW j \in DOMAIN g, j < i PROVE g[j].kind = "comment"
  <2>1. i \in 1 .. l /\ j \in 1 .. l
    BY <1>1, <1>4 DEF Tokens
  <2> QED
    BY <1>1, <1>4, <2>1 DEF HeaderOf
<1> QED
  BY <1>3, <1>4 DEF HeaderOf

LEMMA ExtendedTexts ==
    ASSUME NEW f, NEW g, NEW n \in Nat, Extended(f, g, n), TextsSay(f)
    PROVE  TextsSay(g)
<1>1. PICK l \in Nat :
              /\ l = Len(f) /\ DOMAIN f = 1 .. l /\ DOMAIN g = 1 .. l + 3 /\ f \in Seq(AllTokens)
              /\ \A x \in 1 .. l : g[x] = f[x]
              /\ g[l + 1].kind = "block" /\ g[l + 2] = Text(n) /\ g[l + 2].kind = "text"
              /\ g[l + 3].kind = "end"
              /\ 1 .. l + 3 = 1 .. l \cup {l + 1, l + 2, l + 3}
  BY ExtendedPlaces
<1>3. Text(n).of # <<>>
  BY TextIs
<1> QED
  BY <1>1, <1>3 DEF TextsSay, Tokens

-----------------------------------------------------------------------------
(***************************************************************************)
(* What a developer writes                                                 *)
(***************************************************************************)
Grown(f, g) ==
    /\ Whole(g) /\ Numbered(Content(g)) /\ ToSet(Content(f)) \subseteq ToSet(Content(g))
    /\ HeaderOf(g) /\ \A k \in {"client", "i18n", "call"} : Tokens(g, k) = {} <=> Tokens(f, k) = {}
    /\ \A L, F : CallsFine(f, L, F) => CallsFine(g, L, F)

\* A new component at the end.
LEMMA ComponentGrows ==
    ASSUME NEW f, Whole(f), HeaderOf(f), Numbered(Content(f)), NEW n, n = 1 + Len(Content(f))
    PROVE  Grown(f, f \o Component(n))
<1> DEFINE g == f \o Component(n)
<1>1. f \in Seq(AllTokens) /\ Balanced(f) /\ TextsSay(f) /\ Content(f) \in Numbers
  BY PartsType DEF Whole
<1>2. n \in Nat
  <2>1. Len(Content(f)) \in Nat
    BY <1>1 DEF Numbers
  <2> QED
    BY <2>1
<1>3. Extended(f, g, n) /\ Content(g) = Join(Content(f), Text(n).of)
  BY <1>1, <1>2, ExtendedIs, ExtendedContent
<1> HIDE DEF g
<1>4. g \in Seq(AllTokens) /\ Balanced(g) /\ TextsSay(g) /\ HeaderOf(g)
  BY <1>1, <1>2, <1>3, ExtendedBalanced, ExtendedHeader, ExtendedTexts DEF Extended
<1>5. \A k \in {"client", "i18n", "call"} : Tokens(g, k) = {} <=> Tokens(f, k) = {}
  BY <1>3, ExtendedHeader
<1>6. ASSUME NEW L, NEW F, CallsFine(f, L, F) PROVE CallsFine(g, L, F)
  BY <1>1, <1>3, <1>6, ExtendedFine
<1>7. Numbered(Content(g)) /\ ToSet(Content(f)) \subseteq ToSet(Content(g))
  <2> DEFINE u == Content(f)
             o == Text(n).of
             v == <<>>
             w == Content(g)
  <2>1. /\ u \in Numbers /\ v \in Numbers /\ o \in Numbers /\ Len(o) = 1 /\ o[1] = 1 + Len(u)
        /\ Numbered(u)
    BY <1>1, <1>2, TextIs, EmptySeq DEF Numbers
  <2>2. w = Join(u, o)
    BY <1>3
  <2>3. u = Join(u, v)
    <3>1. u \in Seq(Nat)
      BY <2>1 DEF Numbers
    <3> HIDE DEF u
    <3> QED
      BY <3>1, ConcatEmptySeq DEF Join
  <2>4. w = Join(w, v)
    <3>1. w \in Seq(Nat)
      BY <1>4, PartsType DEF Numbers
    <3> HIDE DEF w
    <3> QED
      BY <3>1, ConcatEmptySeq DEF Join
  <2> HIDE DEF u, o, v, w
  <2>5. Numbered(w) /\ ToSet(u) \subseteq ToSet(w)
    BY ONLY <2>1, <2>2, <2>3, <2>4, NewWord
  <2> QED
    BY <2>5 DEF u, w
<1>8. Grown(f, g)
  BY <1>4, <1>5, <1>6, <1>7 DEF Grown, Whole
<1> QED
  BY <1>8 DEF g

\* A new text in the last component.
LEMMA TextGrows ==
    ASSUME NEW f, Whole(f), HeaderOf(f), Numbered(Content(f)), NEW n, n = 1 + Len(Content(f)),
           NEW i \in Tokens(f, "end")
    PROVE  Grown(f, InsertAt(f, i, Text(n)))
<1> DEFINE p == [from |-> i, to |-> i, by |-> Text(n)]
           g == InsertAt(f, i, Text(n))
<1>1. f \in Seq(AllTokens) /\ Balanced(f) /\ TextsSay(f) /\ Content(f) \in Numbers
  BY PartsType DEF Whole
<1>2. n \in Nat
  <2>1. Len(Content(f)) \in Nat
    BY <1>1 DEF Numbers
  <2> QED
    BY <2>1
<1>3. /\ Len(f) \in Nat /\ i \in 1 .. Len(f) /\ f[i].kind = "end"
      /\ p.from = i /\ p.to = i /\ p.by = Text(n)
  BY <1>1 DEF Tokens
<1>4. /\ p.by \in AllTokens /\ p.by.kind = "text" /\ p.by.of \in Numbers /\ Len(p.by.of) = 1
      /\ p.by.of[1] = n /\ p.by.of # <<>>
  BY <1>2, <1>3, TextIs
<1>5. g = Splice(f, p)
  BY <1>3 DEF InsertAt, Splice
<1> HIDE DEF p, g
<1>6. Edited(f, g, p)
  <2>1. Fitting(f, p)
    BY <1>3, <1>4 DEF Fitting
  <2>2. g \in Seq(AllTokens)
    BY <1>1, <1>5, <2>1, Spliced
  <2>3. i .. i - 1 = {}
    BY <1>3
  <2>4. "text" \notin Brackets
    BY DEF Brackets, Components
  <2> QED
    BY <1>1, <1>3, <1>4, <1>5, <2>1, <2>2, <2>3, <2>4 DEF Edited
<1>7. Balanced(g) /\ TextsSay(g) /\ g \in Seq(AllTokens) /\ Nests(f)
  BY <1>1, <1>4, <1>6, BalancedShift, TextsShift DEF Edited, Balanced, Nests
<1>8. HeaderOf(g)
  <2>1. ASSUME NEW c \in Tokens(f, "client") PROVE c < p.from
    <3>1. c \in 1 .. Len(f) /\ f[c].kind = "client" /\ DOMAIN f = 1 .. Len(f)
      BY <1>1 DEF Tokens
    <3>2. c # i
      BY <1>3, <3>1
    <3>3. ~(i < c)
      BY <1>3, <3>1 DEF HeaderOf
    <3> QED
      BY <1>3, <3>1, <3>2, <3>3
  <2> QED
    BY <1>4, <1>6, <2>1, HeaderShift
<1>9. \A k \in {"client", "i18n", "call"} : Tokens(g, k) = {} <=> Tokens(f, k) = {}
  BY <1>4, <1>6, KindShift
<1>10. ASSUME NEW L, NEW F, CallsFine(f, L, F) PROVE CallsFine(g, L, F)
  BY <1>4, <1>6, <1>7, <1>10, CallsFineShift
<1>11. Numbered(Content(g)) /\ ToSet(Content(f)) \subseteq ToSet(Content(g))
  <2> DEFINE a == SubSeq(f, 1, i - 1)
             b == SubSeq(f, i, Len(f))
             u == Content(a)
             v == Content(b)
             o == p.by.of
             un == Join(u, o)
  <2>1. i \in 1 .. Len(f) + 1
    BY <1>3
  <2>2. a \in Seq(AllTokens) /\ b \in Seq(AllTokens) /\ f = Join(a, b)
    BY <1>1, <2>1, Parted
  <2>3. Content(g) = Join(un, v)
    <3>1. Content(Splice(f, p)) =
            (Content(SubSeq(f, 1, p.from - 1)) \o p.by.of) \o Content(SubSeq(f, p.to, Len(f)))
      BY <1>1, <1>6, Spliced DEF Edited
    <3>2. Content(Splice(f, p)) =
            Join(Join(Content(SubSeq(f, 1, p.from - 1)), p.by.of), Content(SubSeq(f, p.to, Len(f))))
      BY <3>1 DEF Join
    <3> QED
      BY <1>3, <1>5, <3>2
  <2> HIDE DEF a, b
  <2>4. Content(f) = Join(u, v) /\ u \in Numbers /\ v \in Numbers
    BY <2>2, ContentJoin, PartsType DEF Join
  <2> DEFINE w == Content(g)
             uv == Content(f)
  <2>5. o \in Numbers /\ Len(o) = 1 /\ o[1] = 1 + Len(uv) /\ Numbered(uv) /\ un = Join(u, o)
        /\ w = Join(un, v) /\ uv = Join(u, v)
    BY <1>4, <2>3, <2>4
  <2> HIDE DEF u, v, o, un, w, uv
  <2>6. Numbered(w) /\ ToSet(uv) \subseteq ToSet(w)
    BY ONLY <2>4, <2>5, NewWord
  <2> QED
    BY <2>6 DEF uv, w
<1>12. Grown(f, g)
  BY <1>7, <1>8, <1>9, <1>10, <1>11 DEF Grown, Whole
<1> QED
  BY <1>12 DEF g
-----------------------------------------------------------------------------
(***************************************************************************)
(* The invariant of a file                                                 *)
(***************************************************************************)
\* The invariant that steps keep: PatchInv says nothing of what texts say, but
\* that no two say the same is what tells the calls of a plan apart from those
\* that were there.
PatchIInv == PatchInv /\ Sayings(file)

LEMMA FineIs ==
    /\ Sayings(file) <=> Numbered(Content(file)) /\ TextsSay(file)
    /\ HooksInScope <=> CallsFine(file, latecomers, {})
<1>1. HooksInScope => CallsFine(file, latecomers, {})
  BY DEF HooksInScope, CallsFine, Fine
<1>2. CallsFine(file, latecomers, {}) => HooksInScope
  BY DEF HooksInScope, CallsFine, Fine
<1> QED
  BY <1>1, <1>2 DEF Sayings, TextsSay

LEMMA WholeIs ==
    ASSUME PatchIInv
    PROVE  /\ Whole(file) /\ HeaderOf(file) /\ Numbered(Content(file)) /\ Sayings(file)
           /\ CallsFine(file, latecomers, {})
  BY FineIs DEF PatchIInv, PatchInv, PatchTypeOK, HeaderInOrder, Whole

\* The files a project begins with.
LEMMA PatchStarts == PatchInit => PatchIInv
<1> SUFFICES ASSUME PatchInit PROVE PatchIInv
  OBVIOUS
<1>1. file \in Layouts /\ latecomers = {} /\ edits = 0 /\ MaxEdits \in Nat
  BY PatchAssumption DEF PatchInit
<1>2. /\ file \in Seq(AllTokens) /\ Balanced(file) /\ HeaderOf(file) /\ Tokens(file, "call") = {}
      /\ \A i \in Tokens(file, "text") : file[i].of # <<>>
      /\ IsInjective(Content(file)) /\ ToSet(Content(file)) \subseteq 1 .. Len(Content(file))
  BY <1>1, PatchAssumption
<1>3. PatchTypeOK
  BY <1>1, <1>2 DEF PatchTypeOK
<1>4. HeaderInOrder /\ HooksInScope /\ Sayings(file)
  BY <1>2 DEF HeaderInOrder, HooksInScope, Sayings, Numbered
<1> QED
  BY <1>3, <1>4 DEF PatchIInv, PatchInv

\* A rewrite of any set of candidates keeps the invariant and the content.
LEMMA LocalizeStep ==
    ASSUME PatchIInv, Localize
    PROVE  PatchIInv' /\ Content(file') = Content(file)
<1>1. PICK approved \in SUBSET Candidates(file) :
          LET done == ApplyRefactorPlan(file, GenerateRefactorPlan(file, approved))
              new  == {Content(<<done[i]>>) : i \in Tokens(done, "call")}
                          \ {Content(<<file[i]>>) : i \in Tokens(file, "call")}
          IN  /\ file' = done
              /\ latecomers' = IF Tokens(file, "hook") = {} THEN latecomers
                               ELSE latecomers \cup UNION {ToSet(s) : s \in new}
              /\ UNCHANGED edits
  BY DEF Localize
<1> DEFINE P == GenerateRefactorPlan(file, approved)
           done == ApplyRefactorPlan(file, P)
           F == IF Tokens(file, "hook") = {} THEN {} ELSE Fresh(file)
           new == {Content(<<done[i]>>) : i \in Tokens(done, "call")}
                      \ {Content(<<file[i]>>) : i \in Tokens(file, "call")}
<1>2. Whole(file) /\ HeaderOf(file) /\ Numbered(Content(file)) /\ Sayings(file)
      /\ CallsFine(file, latecomers, {})
  BY WholeIs
<1>3. file \in Seq(AllTokens) /\ latecomers \subseteq ToSet(Content(file)) /\ edits \in 0 .. MaxEdits
  BY DEF PatchIInv, PatchInv, PatchTypeOK
<1>4. /\ Whole(done) /\ Content(done) = Content(file) /\ HeaderOf(done)
      /\ Tokens(done, "i18n") # {} /\ Tokens(done, "client") # {}
      /\ \A L, G : Hooked(file, P, G) /\ CallsFine(file, L, G) => CallsFine(done, L, G)
  BY <1>2, Rewritten
<1>5. Hooked(file, P, F)
  BY <1>2, <1>3, PlanHooks
<1>6. /\ file' = done /\ edits' = edits
      /\ latecomers' = IF Tokens(file, "hook") = {} THEN latecomers
                       ELSE latecomers \cup UNION {ToSet(s) : s \in new}
  BY <1>1
<1> HIDE DEF P, done
<1>7. CallsFine(done, latecomers, F)
  <2>1. CallsFine(file, latecomers, F)
    BY <1>2 DEF CallsFine, Fine
  <2> HIDE DEF F
  <2> QED
    BY <1>4, <1>5, <2>1
<1>8. done \in Seq(AllTokens) /\ Balanced(done) /\ TextsSay(done)
  BY <1>4 DEF Whole
<1>9. /\ \A i \in Tokens(done, "call") :
            /\ i \in 1 .. Len(done) /\ Content(<<done[i]>>) = done[i].of /\ done[i].of \in Numbers
      /\ \A i \in Tokens(file, "call") : Content(<<file[i]>>) = file[i].of
  <2>1. \A i \in Tokens(done, "call") : i \in 1 .. Len(done) /\ done[i] \in AllTokens
    BY <1>8, ElementOfSeq DEF Tokens
  <2>2. \A i \in Tokens(file, "call") : file[i] \in AllTokens
    BY <1>3, ElementOfSeq DEF Tokens
  <2>3. \A t \in AllTokens : Content(<<t>>) = t.of /\ t.of \in Numbers
    BY ContentOne DEF AllTokens, Numbers
  <2> QED
    BY <2>1, <2>2, <2>3
<1>10. latecomers' \subseteq ToSet(Content(done))
  <2>1. latecomers \subseteq ToSet(Content(done))
    BY <1>3, <1>4
  <2>2. ASSUME NEW s \in new PROVE ToSet(s) \subseteq ToSet(Content(done))
    <3>1. PICK i \in Tokens(done, "call") : s = done[i].of
      BY <1>9
    <3> QED
      BY <1>8, <1>9, <3>1, WordIn
  <2> HIDE DEF new
  <2> QED
    BY <1>6, <2>1, <2>2
<1>11. CallsFine(done, latecomers', {})
  <2> SUFFICES ASSUME NEW i \in Tokens(done, "call"), Enclosing(done, i) \in Tokens(done, "block"),
                      ~HasHook(done, i)
               PROVE  ToSet(done[i].of) \cap latecomers' # {}
    BY DEF CallsFine, Fine
  <2>1. ToSet(done[i].of) \cap latecomers # {} \/ done[i].of \in F
    BY <1>7 DEF CallsFine, Fine
  <2>2. latecomers \subseteq latecomers'
    BY <1>6
  <2>3. CASE done[i].of \in F
    <3>1. Tokens(file, "hook") # {} /\ done[i].of \in Fresh(file)
      BY <2>3
    <3>2. done[i].of \in new
      BY <1>9, <3>1 DEF Fresh
    <3>3. ToSet(done[i].of) # {}
      BY <3>1, SomeWord DEF Fresh
    <3> HIDE DEF new
    <3>4. ToSet(done[i].of) \subseteq latecomers'
      BY <1>6, <3>1, <3>2
    <3> QED
      BY <3>3, <3>4
  <2> QED
    BY <2>1, <2>2, <2>3
<1>12. PatchTypeOK'
  BY <1>3, <1>6, <1>8, <1>10 DEF PatchTypeOK
<1>13. HeaderInOrder'
  BY <1>4, <1>6 DEF HeaderInOrder
<1>14. HooksInScope'
  <2>1. CallsFine(done, latecomers', {}) => HooksInScope'
    BY <1>6 DEF HooksInScope, CallsFine, Fine
  <2> QED
    BY <1>11, <2>1
<1>15. Sayings(done)
  BY <1>2, <1>4, <1>8 DEF Sayings, TextsSay
<1>16. Sayings(file')
  BY <1>6, <1>15
<1> QED
  BY <1>4, <1>6, <1>12, <1>13, <1>14, <1>16 DEF PatchIInv, PatchInv

\* So does, with what is new, what a developer writes.
LEMMA WriteStep ==
    ASSUME PatchIInv, Write
    PROVE  PatchIInv'
<1>1. Whole(file) /\ HeaderOf(file) /\ Numbered(Content(file)) /\ CallsFine(file, latecomers, {})
  BY WholeIs
<1>2. file \in Seq(AllTokens) /\ latecomers \subseteq ToSet(Content(file)) /\ edits \in 0 .. MaxEdits
  BY DEF PatchIInv, PatchInv, PatchTypeOK
<1>3. /\ edits' \in 0 .. MaxEdits /\ latecomers' = latecomers
  <2>1. edits < MaxEdits /\ edits' = edits + 1 /\ latecomers' = latecomers /\ MaxEdits \in Nat
    BY PatchAssumption DEF Write
  <2> QED
    BY <1>2, <2>1
<1>4. Grown(file, file')
  <2> DEFINE n == 1 + Len(Content(file))
             last == Tokens(file, "end")
  <2>1. \/ file' = file \o Component(n)
        \/ /\ last # {}
           /\ file' = InsertAt(file, CHOOSE i \in last : \A j \in last : j <= i, Text(n))
    BY DEF Write, Component
  <2>2. CASE file' = file \o Component(n)
    <3>1. Grown(file, file \o Component(n))
      BY <1>1, ComponentGrows
    <3> HIDE DEF n
    <3> QED
      BY <2>2, <3>1
  <2>3. CASE last # {} /\ file' = InsertAt(file, CHOOSE i \in last : \A j \in last : j <= i, Text(n))
    <3> DEFINE m == CHOOSE i \in last : \A j \in last : j <= i
    <3>1. last \subseteq 0 .. Len(file) /\ Len(file) \in Nat
      BY <1>2 DEF Tokens
    <3>2. \E i \in last : \A j \in last : j <= i
      <4> HIDE DEF last
      <4> QED
        BY <2>3, <3>1, GreatestOf
    <3>3. m \in last
      BY <3>2
    <3>4. file' = InsertAt(file, m, Text(n))
      BY <2>3
    <3> HIDE DEF m, n
    <3>5. Grown(file, InsertAt(file, m, Text(n)))
      BY <1>1, <3>3, TextGrows DEF n
    <3> QED
      BY <3>4, <3>5
  <2> QED
    BY <2>1, <2>2, <2>3
<1> DEFINE g == file'
<1>5. /\ Whole(g) /\ Numbered(Content(g)) /\ ToSet(Content(file)) \subseteq ToSet(Content(g))
      /\ HeaderOf(g)
      /\ \A k \in {"client", "i18n", "call"} : Tokens(g, k) = {} <=> Tokens(file, k) = {}
      /\ CallsFine(g, latecomers, {})
  BY <1>1, <1>4 DEF Grown
<1>6. PatchTypeOK'
  BY <1>2, <1>3, <1>5 DEF PatchTypeOK, Whole
<1>7. HeaderInOrder'
  <2>1. Tokens(file, "call") # {} => Tokens(file, "i18n") # {} /\ Tokens(file, "client") # {}
    BY DEF PatchIInv, PatchInv, HeaderInOrder
  <2>2. Tokens(g, "call") # {} => Tokens(g, "i18n") # {} /\ Tokens(g, "client") # {}
    BY <1>5, <2>1
  <2> QED
    BY <1>5, <2>2 DEF HeaderInOrder
<1>8. HooksInScope'
  <2>1. CallsFine(g, latecomers, {}) => HooksInScope'
    BY <1>3 DEF HooksInScope, CallsFine, Fine
  <2> QED
    BY <1>5, <2>1
<1>9. Sayings(g)
  BY <1>5 DEF Sayings, TextsSay, Whole
<1> QED
  BY <1>6, <1>7, <1>8, <1>9 DEF PatchIInv, PatchInv

\* PatchInv of Patches, for any layout and any number of edits and runs:
\* after every rewrite the file parses, imports useTranslation and is a client
\* component once each, in the right order, and every call directly in a
\* component has its hook.
THEOREM FileIsWhole == PatchSpec => []PatchInv
<1>1. PatchIInv /\ [PatchNext]_patchVars => PatchIInv'
  <2> SUFFICES ASSUME PatchIInv, [PatchNext]_patchVars PROVE PatchIInv'
    OBVIOUS
  <2>1. CASE Localize
    BY <2>1, LocalizeStep
  <2>2. CASE Refuse
    BY <2>2 DEF Refuse, patchVars, PatchIInv, PatchInv, PatchTypeOK, HeaderInOrder, HooksInScope
  <2>3. CASE Write
    BY <2>3, WriteStep
  <2>4. CASE UNCHANGED patchVars
    BY <2>4 DEF patchVars, PatchIInv, PatchInv, PatchTypeOK, HeaderInOrder, HooksInScope
  <2> QED
    BY <2>1, <2>2, <2>3, <2>4 DEF PatchNext
<1>2. PatchIInv => PatchInv
  BY DEF PatchIInv
<1> QED
  BY <1>1, <1>2, PatchStarts, PTL DEF PatchSpec

\* NothingLost of Patches, for any overlapping candidates: a rewrite says what
\* the file said, in the same order.
THEOREM RewriteLosesNothing == PatchSpec => NothingLost
<1>1. PatchIInv /\ [PatchNext]_patchVars =>
          PatchIInv' /\ [edits' = edits => Content(file') = Content(file)]_patchVars
  <2> SUFFICES ASSUME PatchIInv, [PatchNext]_patchVars
               PROVE  PatchIInv' /\ [edits' = edits => Content(file') = Content(file)]_patchVars
    OBVIOUS
  <2>1. CASE Localize
    BY <2>1, LocalizeStep
  <2>2. CASE Refuse \/ UNCHANGED patchVars
    BY <2>2 DEF Refuse, patchVars, PatchIInv, PatchInv, PatchTypeOK, HeaderInOrder, HooksInScope
  <2>3. CASE Write
    <3>1. edits \in 0 .. MaxEdits /\ edits' = edits + 1 /\ MaxEdits \in Nat
      BY <2>3, PatchAssumption DEF Write, PatchIInv, PatchInv, PatchTypeOK
    <3> QED
      BY <2>3, <3>1, WriteStep
  <2> QED
    BY <2>1, <2>2, <2>3 DEF PatchNext
<1> QED
  BY <1>1, PatchStarts, PTL DEF PatchSpec, NothingLost
=============================================================================
