------------------------------- MODULE ListLemmas -------------------------------
(***************************************************************************)
(* Induction, and what the list operators of the UBL modules return.       *)
(***************************************************************************)
EXTENDS Naturals, Sequences, SequencesExt, WellFoundedInduction,
        SequenceTheorems, TLAPS

LEMMA LeastNatural ==
  ASSUME NEW T \in SUBSET Nat, T # {}
  PROVE  \E m \in T : \A n \in T : m <= n
<1>1. IsWellFoundedOn(OpToRel(<, Nat), Nat)
  BY NatLessThanWellFounded
<1>2. PICK m \in T : \A n \in T : <<n, m>> \notin OpToRel(<, Nat)
  BY <1>1, WFMin
<1>3. \A n \in T : ~(n < m)
  BY <1>2 DEF OpToRel
<1> QED
  BY <1>3

\* Induction up to N, over the set of the numbers for which the claim holds.
LEMMA InductionUpTo ==
  ASSUME NEW N \in Nat, NEW S \in SUBSET Nat, 0 \in S,
         \A n \in 0 .. N : n > 0 /\ n - 1 \in S => n \in S
  PROVE  0 .. N \subseteq S
<1> SUFFICES ASSUME (0 .. N) \ S # {} PROVE FALSE
  OBVIOUS
<1>1. (0 .. N) \ S \in SUBSET Nat
  OBVIOUS
<1>2. PICK m \in (0 .. N) \ S : \A n \in (0 .. N) \ S : m <= n
  BY <1>1, LeastNatural
<1> QED
  BY <1>2

\* The first N lists, one after the other: the recursion FlattenSeq is defined by.
Flattens(g, lists, N) ==
  g = [i \in 1 .. N |-> IF i = 1 THEN lists[i] ELSE g[i - 1] \o lists[i]]

LEMMA FlatteningExists ==
  ASSUME NEW N \in Nat, NEW lists
  PROVE  \E g : Flattens(g, lists, N)
<1> DEFINE S == {n \in Nat : \E g : Flattens(g, lists, n)}
<1>1. 0 \in S
  <2>1. Flattens([i \in 1 .. 0 |-> lists[i]], lists, 0)
    BY DEF Flattens
  <2> QED
    BY <2>1
<1>2. ASSUME NEW n \in 0 .. N, n > 0, n - 1 \in S PROVE n \in S
  <2>1. PICK g : Flattens(g, lists, n - 1)
    BY <1>2
  <2> DEFINE h == [i \in 1 .. n |->
                     IF i = n THEN (IF n = 1 THEN lists[n] ELSE g[n - 1] \o lists[n])
                              ELSE g[i]]
  <2>2. \A i \in 1 .. n : h[i] = IF i = 1 THEN lists[i] ELSE h[i - 1] \o lists[i]
    <3> SUFFICES ASSUME NEW i \in 1 .. n
                 PROVE  h[i] = IF i = 1 THEN lists[i] ELSE h[i - 1] \o lists[i]
      OBVIOUS
    <3>1. CASE i = n
      BY <3>1
    <3>2. CASE i # n
      <4>1. i \in 1 .. n - 1
        BY <3>2
      <4>2. g[i] = IF i = 1 THEN lists[i] ELSE g[i - 1] \o lists[i]
        BY <2>1, <4>1 DEF Flattens
      <4> QED
        BY <3>2, <4>1, <4>2
    <3> QED
      BY <3>1, <3>2
  <2>3. Flattens(h, lists, n)
    BY <2>2 DEF Flattens
  <2> QED
    BY <2>3
<1> HIDE DEF S
<1>3. S \in SUBSET Nat
  BY DEF S
<1>4. N \in S
  <2>1. N \in 0 .. N
    OBVIOUS
  <2> QED
    BY <1>1, <1>2, <1>3, <2>1, InductionUpTo
<1> QED
  BY <1>4 DEF S

LEMMA Flattening ==
  ASSUME NEW lists, Len(lists) \in Nat \ {0}
  PROVE  \E g : /\ FlattenSeq(lists) = g[Len(lists)]
                /\ Flattens(g, lists, Len(lists))
<1> DEFINE flatten == CHOOSE g : Flattens(g, lists, Len(lists))
<1>1. FlattenSeq(lists) = flatten[Len(lists)]
  BY DEF FlattenSeq, Flattens
<1>2. Flattens(flatten, lists, Len(lists))
  BY FlatteningExists
<1> QED
  BY <1>1, <1>2

\* Flattening collects the elements of every list.
LEMMA FlattenCollects ==
  ASSUME NEW T, NEW lists \in Seq(Seq(T))
  PROVE  /\ FlattenSeq(lists) \in Seq(T)
         /\ Range(FlattenSeq(lists)) = UNION {Range(lists[i]) : i \in DOMAIN lists}
<1>1. CASE lists = <<>>
  BY <1>1 DEF FlattenSeq, Range
<1>2. CASE lists # <<>>
  <2>1. Len(lists) \in Nat \ {0} /\ DOMAIN lists = 1 .. Len(lists)
    BY <1>2
  <2>2. PICK g : /\ FlattenSeq(lists) = g[Len(lists)]
                 /\ Flattens(g, lists, Len(lists))
    BY <2>1, Flattening
  <2> DEFINE N == Len(lists)
             Upto(n) == UNION {Range(lists[i]) : i \in 1 .. n}
             S == {n \in Nat : n \in 1 .. N => g[n] \in Seq(T) /\ Range(g[n]) = Upto(n)}
  <2> HIDE DEF S
  <2>3. ASSUME NEW n \in 0 .. N, n > 0, n - 1 \in S PROVE n \in S
    <3>1. n \in 1 .. N /\ lists[n] \in Seq(T)
      BY <2>1, <2>3
    <3>2. g[n] = IF n = 1 THEN lists[n] ELSE g[n - 1] \o lists[n]
      BY <2>2, <3>1 DEF Flattens
    <3>3. CASE n = 1
      <4>1. Upto(1) = Range(lists[1])
        OBVIOUS
      <4> QED
        BY <3>1, <3>2, <3>3, <4>1 DEF S
    <3>4. CASE n # 1
      <4>1. n - 1 \in 1 .. N
        BY <2>1, <2>3, <3>4
      <4>2. g[n - 1] \in Seq(T) /\ Range(g[n - 1]) = Upto(n - 1)
        BY <2>3, <4>1 DEF S
      <4>3. g[n] \in Seq(T) /\ Range(g[n]) = Upto(n - 1) \cup Range(lists[n])
        <5>1. g[n] = g[n - 1] \o lists[n]
          BY <3>2, <3>4
        <5>2. Range(g[n - 1] \o lists[n]) = Range(g[n - 1]) \cup Range(lists[n])
          BY <3>1, <4>2, RangeConcatenation
        <5> QED
          BY <3>1, <4>2, <5>1, <5>2
      <4>4. Upto(n) = Upto(n - 1) \cup Range(lists[n])
        <5>1. 1 .. n = (1 .. n - 1) \cup {n}
          BY <2>1, <2>3
        <5> QED
          BY <5>1
      <4>5. n \in Nat /\ Range(g[n]) = Upto(n)
        BY <2>1, <4>3, <4>4
      <4> HIDE DEF Upto
      <4> QED
        BY <4>3, <4>5 DEF S
    <3> QED
      BY <3>3, <3>4
  <2>4. 0 \in S
    BY DEF S
  <2>5. S \in SUBSET Nat
    BY DEF S
  <2>6. N \in S
    <3>1. N \in Nat /\ N \in 0 .. N
      BY <2>1
    <3> QED
      BY <2>3, <2>4, <2>5, <3>1, InductionUpTo
  <2> QED
    BY <2>1, <2>2, <2>6 DEF S
<1> QED
  BY <1>1, <1>2

\* Flattening lists of one element each keeps their number and their order.
LEMMA FlattenSingletons ==
  ASSUME NEW T, NEW lists \in Seq(Seq(T)), \A i \in DOMAIN lists : Len(lists[i]) = 1
  PROVE  /\ FlattenSeq(lists) \in Seq(T)
         /\ Len(FlattenSeq(lists)) = Len(lists)
         /\ \A i \in DOMAIN lists : FlattenSeq(lists)[i] = lists[i][1]
<1>1. CASE lists = <<>>
  BY <1>1 DEF FlattenSeq
<1>2. CASE lists # <<>>
  <2>1. Len(lists) \in Nat \ {0} /\ DOMAIN lists = 1 .. Len(lists)
    BY <1>2
  <2>2. PICK g : /\ FlattenSeq(lists) = g[Len(lists)]
                 /\ Flattens(g, lists, Len(lists))
    BY <2>1, Flattening
  <2> DEFINE N == Len(lists)
             Firsts(s, n) == /\ s \in Seq(T) /\ Len(s) = n
                             /\ \A i \in 1 .. n : s[i] = lists[i][1]
             S == {n \in Nat : n \in 1 .. N => Firsts(g[n], n)}
  <2> HIDE DEF S
  <2>3. ASSUME NEW n \in 0 .. N, n > 0, n - 1 \in S PROVE n \in S
    <3>1. n \in 1 .. N /\ lists[n] \in Seq(T) /\ Len(lists[n]) = 1
      BY <2>1, <2>3
    <3>2. g[n] = IF n = 1 THEN lists[n] ELSE g[n - 1] \o lists[n]
      BY <2>2, <3>1 DEF Flattens
    <3>3. CASE n = 1
      BY <3>1, <3>2, <3>3 DEF S
    <3>4. CASE n # 1
      <4>1. n - 1 \in 1 .. N
        BY <2>1, <2>3, <3>4
      <4>2. Firsts(g[n - 1], n - 1)
        BY <2>3, <4>1 DEF S
      <4>3. g[n] = g[n - 1] \o lists[n]
        BY <3>2, <3>4
      <4>4. g[n] \in Seq(T) /\ Len(g[n]) = n
        <5>1. g[n - 1] \in Seq(T) /\ Len(g[n - 1]) = n - 1
          BY <4>2
        <5>2. /\ g[n - 1] \o lists[n] \in Seq(T)
              /\ Len(g[n - 1] \o lists[n]) = Len(g[n - 1]) + Len(lists[n])
          BY <3>1, <5>1, ConcatProperties
        <5>3. n \in Nat
          BY <2>1
        <5> QED
          BY <3>1, <4>3, <5>1, <5>2, <5>3
      <4>5. ASSUME NEW i \in 1 .. n PROVE g[n][i] = lists[i][1]
        BY <2>1, <3>1, <4>2, <4>3, <4>5, ConcatProperties
      <4> QED
        BY <4>4, <4>5 DEF S
    <3> QED
      BY <3>3, <3>4
  <2>4. 0 \in S
    BY DEF S
  <2>5. S \in SUBSET Nat
    BY DEF S
  <2>6. N \in S
    <3>1. N \in Nat /\ N \in 0 .. N
      BY <2>1
    <3> QED
      BY <2>3, <2>4, <2>5, <3>1, InductionUpTo
  <2> QED
    BY <2>1, <2>2, <2>6 DEF S
<1> QED
  BY <1>1, <1>2

\* A list without elements is empty.
LEMMA EmptyRange ==
  ASSUME NEW T, NEW s \in Seq(T)
  PROVE  s = <<>> <=> Range(s) = {}
<1>1. s # <<>> => s[1] \in Range(s)
  BY DEF Range
<1>2. s = <<>> => Range(s) = {}
  BY DEF Range
<1> QED
  BY <1>1, <1>2

================================================================================
