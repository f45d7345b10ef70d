---------------------------- MODULE UblRefusalProofs ----------------------------
(***************************************************************************)
(* What detail_line writes, for every cap and every list of problems.  The *)
(* loop is a recursive function of the number of problems it has seen, so  *)
(* its invariant (Account) is proved by induction on that number.          *)
(***************************************************************************)
EXTENDS UblRefusal, ListLemmas, FiniteSetTheorems

\* A problem as it is rendered: longer than a suffix, and a character begins with
\* its first byte.
IsItem(item) ==
  /\ item \in Rendering /\ item.bytes > LongestSuffix
  /\ item.inside \subseteq 1 .. item.bytes - 1

IsItems(items) ==
  /\ Len(items) \in Nat /\ DOMAIN items = 1 .. Len(items)
  /\ \A i \in 1 .. Len(items) : IsItem(items[i])

-------------------------------------------------------------------------------
(* The recursive functions are what their equations say *)

Joins(g, items, N) ==
  g = [n \in 0 .. N |-> IF n = 0 THEN [out |-> Empty, shown |-> 0, full |-> FALSE]
                                 ELSE Add(g[n - 1], items[n])]

LEMMA JoiningExists ==
  ASSUME NEW N \in Nat, NEW items
  PROVE  \E g : Joins(g, items, N)
<1> DEFINE S == {n \in Nat : \E g : Joins(g, items, n)}
<1>1. 0 \in S
  <2>1. Joins([n \in 0 .. 0 |-> [out |-> Empty, shown |-> 0, full |-> FALSE]], items, 0)
    BY DEF Joins
  <2> QED
    BY <2>1
<1>2. ASSUME NEW n \in 0 .. N, n > 0, n - 1 \in S PROVE n \in S
  <2>1. PICK g : Joins(g, items, n - 1)
    BY <1>2
  <2> DEFINE h == [i \in 0 .. n |-> IF i = n THEN Add(g[n - 1], items[n]) ELSE g[i]]
  <2>2. ASSUME NEW i \in 0 .. n
        PROVE  h[i] = IF i = 0 THEN [out |-> Empty, shown |-> 0, full |-> FALSE]
                               ELSE Add(h[i - 1], items[i])
    <3>1. CASE i = n
      BY <1>2, <3>1
    <3>2. CASE i # n
      <4>1. i \in 0 .. n - 1 /\ (i # 0 => i - 1 \in 0 .. n - 1)
        BY <3>2
      <4>2. g[i] = IF i = 0 THEN [out |-> Empty, shown |-> 0, full |-> FALSE]
                            ELSE Add(g[i - 1], items[i])
        BY <2>1, <4>1 DEF Joins
      <4> QED
        BY <3>2, <4>1, <4>2
    <3> QED
      BY <3>1, <3>2
  <2>3. Joins(h, items, n)
    BY <2>2 DEF Joins
  <2> QED
    BY <2>3
<1> HIDE DEF S
<1>3. S \in SUBSET Nat
  BY DEF S
<1>4. N \in S
  <2>1. N \in 0 .. N
    OBVIOUS
  <2> QED
    BY <1>1, <1>2, <1>3, <2>1, InductionUpTo
<1> QED
  BY <1>4 DEF S

LEMMA Joining ==
  ASSUME NEW items, Len(items) \in Nat
  PROVE  \E g : Joined(items) = g[Len(items)] /\ Joins(g, items, Len(items))
<1> DEFINE joined == CHOOSE g : Joins(g, items, Len(items))
<1>1. Joined(items) = joined[Len(items)]
  BY DEF Joined, Joins
<1>2. Joins(joined, items, Len(items))
  BY JoiningExists
<1> QED
  BY <1>1, <1>2

Places(g, items, N) ==
  g = [k \in 1 .. N |-> IF k = 1 THEN 0 ELSE g[k - 1] + items[k - 1].bytes + 2]

LEMMA PlacingExists ==
  ASSUME NEW N \in Nat, NEW items
  PROVE  \E g : Places(g, items, N)
<1> DEFINE S == {n \in Nat : \E g : Places(g, items, n)}
<1>1. 0 \in S
  <2>1. Places([k \in 1 .. 0 |-> 0], items, 0)
    BY DEF Places
  <2> QED
    BY <2>1
<1>2. ASSUME NEW n \in 0 .. N, n > 0, n - 1 \in S PROVE n \in S
  <2>1. PICK g : Places(g, items, n - 1)
    BY <1>2
  <2> DEFINE h == [k \in 1 .. n |->
                     IF k = n THEN (IF n = 1 THEN 0 ELSE g[n - 1] + items[n - 1].bytes + 2)
                              ELSE g[k]]
  <2>2. ASSUME NEW k \in 1 .. n
        PROVE  h[k] = IF k = 1 THEN 0 ELSE h[k - 1] + items[k - 1].bytes + 2
    <3>1. CASE k = n
      BY <1>2, <3>1
    <3>2. CASE k # n
      <4>1. k \in 1 .. n - 1 /\ (k # 1 => k - 1 \in 1 .. n - 1)
        BY <3>2
      <4>2. g[k] = IF k = 1 THEN 0 ELSE g[k - 1] + items[k - 1].bytes + 2
        BY <2>1, <4>1 DEF Places
      <4> QED
        BY <3>2, <4>1, <4>2
    <3> QED
      BY <3>1, <3>2
  <2>3. Places(h, items, n)
    BY <2>2 DEF Places
  <2> QED
    BY <2>3
<1> HIDE DEF S
<1>3. S \in SUBSET Nat
  BY DEF S
<1>4. N \in S
  <2>1. N \in 0 .. N
    OBVIOUS
  <2> QED
    BY <1>1, <1>2, <1>3, <2>1, InductionUpTo
<1> QED
  BY <1>4 DEF S

\* A problem begins two bytes after the end of the one before it.
LEMMA Offsets ==
  ASSUME NEW items, IsItems(items)
  PROVE  /\ Offset(items, 1) = 0
         /\ \A k \in 1 .. Len(items) + 1 : Offset(items, k) \in Nat
         /\ \A k \in 1 .. Len(items) :
              Offset(items, k + 1) = Offset(items, k) + items[k].bytes + 2
<1> DEFINE N == Len(items) + 1
           offset == CHOOSE g : Places(g, items, N)
<1>1. N \in Nat
  BY DEF IsItems
<1>2. Places(offset, items, N)
  BY <1>1, PlacingExists
<1>3. \A k : Offset(items, k) = offset[k]
  BY DEF Offset, Places
<1> HIDE DEF offset
<1>4. \A k \in 1 .. N :
        offset[k] = IF k = 1 THEN 0 ELSE offset[k - 1] + items[k - 1].bytes + 2
  BY <1>2 DEF Places
<1>5. ASSUME NEW k \in 1 .. Len(items)
      PROVE  offset[k + 1] = offset[k] + items[k].bytes + 2
  <2>1. Len(items) \in Nat
    BY DEF IsItems
  <2>2. k + 1 \in 1 .. N /\ k + 1 # 1 /\ (k + 1) - 1 = k
    BY <2>1
  <2> QED
    BY <1>4, <2>2
<1>6. offset[1] = 0
  BY <1>1, <1>4 DEF IsItems
<1> DEFINE S == {n \in Nat : n \in 1 .. N => offset[n] \in Nat}
<1>7. \A n \in 1 .. N : offset[n] \in Nat
  <2>1. ASSUME NEW n \in 0 .. N, n > 0, n - 1 \in S PROVE n \in S
    <3>1. CASE n = 1
      BY <1>6, <3>1
    <3>2. CASE n # 1
      <4>1. n - 1 \in 1 .. Len(items) /\ (n - 1) + 1 = n
        BY <2>1, <3>2 DEF IsItems
      <4>2. offset[n - 1] \in Nat /\ items[n - 1].bytes \in Nat
        BY <1>1, <2>1, <4>1 DEF IsItems, IsItem, Rendering
      <4>3. offset[n] = offset[n - 1] + items[n - 1].bytes + 2
        BY <1>5, <4>1
      <4> QED
        BY <2>1, <4>2, <4>3
    <3> QED
      BY <3>1, <3>2
  <2>2. 0 \in S /\ S \in SUBSET Nat
    OBVIOUS
  <2> HIDE DEF S
  <2>3. 0 .. N \subseteq S
    BY <1>1, <2>1, <2>2, InductionUpTo
  <2> QED
    BY <1>1, <2>3 DEF S
<1> QED
  BY <1>3, <1>5, <1>6, <1>7

\* The later problem begins after the end of the earlier one.
LEMMA OffsetsGrow ==
  ASSUME NEW items, IsItems(items), NEW k \in 1 .. Len(items)
  PROVE  \A n \in k + 1 .. Len(items) + 1 :
           Offset(items, k) + items[k].bytes + 2 <= Offset(items, n)
<1> DEFINE N == Len(items) + 1
           End == Offset(items, k) + items[k].bytes + 2
           S == {n \in Nat : n \in k + 1 .. N => End <= Offset(items, n)}
<1>1. N \in Nat /\ k \in Nat
  BY DEF IsItems
<1>2. ASSUME NEW n \in 0 .. N, n > 0, n - 1 \in S PROVE n \in S
  <2>1. CASE n < k + 1
    BY <1>1, <2>1
  <2>2. CASE n = k + 1
    BY <1>1, <2>2, Offsets
  <2>3. CASE n > k + 1
    <3>1. n - 1 \in 1 .. Len(items) /\ n - 1 \in k + 1 .. N /\ (n - 1) + 1 = n
      BY <1>1, <1>2, <2>3 DEF IsItems
    <3>2. End <= Offset(items, n - 1)
      BY <1>2, <3>1
    <3>3. Offset(items, n) = Offset(items, n - 1) + items[n - 1].bytes + 2
      BY <3>1, Offsets
    <3>4. Offset(items, n - 1) \in Nat /\ items[n - 1].bytes \in Nat
      BY <1>1, <3>1, Offsets DEF IsItems, IsItem, Rendering
    <3>5. End \in Nat
      <4>1. k \in 1 .. Len(items) + 1 /\ items[k].bytes \in Nat
        BY <1>1 DEF IsItems, IsItem, Rendering
      <4>2. Offset(items, k) \in Nat
        BY <4>1, Offsets
      <4> QED
        BY <4>1, <4>2
    <3> HIDE DEF End
    <3>6. End <= Offset(items, n)
      BY <3>2, <3>3, <3>4, <3>5
    <3> QED
      BY <1>1, <3>6
  <2> QED
    BY <1>1, <2>1, <2>2, <2>3
<1>3. 0 \in S /\ S \in SUBSET Nat
  BY <1>1
<1> HIDE DEF S
<1>4. 0 .. N \subseteq S
  BY <1>1, <1>2, <1>3, InductionUpTo
<1> QED
  BY <1>1, <1>4 DEF S

\* The suffix is never longer than the longest one.
LEMMA SuffixFits ==
  ASSUME NEW n \in Nat \ {0}
  PROVE  /\ Suffix(n).bytes \in Nat /\ Suffix(n).bytes <= LongestSuffix
         /\ Suffix(n).inside = {}
         /\ Room(n) \in Nat /\ Room(n) > 0 /\ Room(n) + Suffix(n).bytes = Cap
<1>1. \E d \in 1 .. 10 : PowersOfTen[d] <= n /\ (d < 10 => n < PowersOfTen[d + 1])
  <2> DEFINE Is(d) == PowersOfTen[d] <= n /\ (d < 10 => n < PowersOfTen[d + 1])
  <2>1. /\ n < 10 => Is(1)
        /\ n >= 10 /\ n < 100 => Is(2)
        /\ n >= 100 /\ n < 1000 => Is(3)
        /\ n >= 1000 /\ n < 10000 => Is(4)
        /\ n >= 10000 /\ n < 100000 => Is(5)
    BY DEF PowersOfTen
  <2>2. /\ n >= 100000 /\ n < 1000000 => Is(6)
        /\ n >= 1000000 /\ n < 10000000 => Is(7)
        /\ n >= 10000000 /\ n < 100000000 => Is(8)
        /\ n >= 100000000 /\ n < 1000000000 => Is(9)
        /\ n >= 1000000000 => Is(10)
    BY DEF PowersOfTen
  <2> HIDE DEF Is
  <2>3. \E d \in 1 .. 10 : Is(d)
    BY <2>1, <2>2
  <2> QED
    BY <2>3 DEF Is
<1>2. Digits(n) \in 1 .. 10
  BY <1>1 DEF Digits
<1> QED
  BY <1>2, CapAssumption DEF Suffix, Ascii, Room, LongestSuffix

-------------------------------------------------------------------------------
(* The loop *)

\* After n problems: a prefix of them is in the line, which ends where the last
\* one shown ends; every one is there until the first that does not fit, which
\* ends the loop; and only a first problem may be longer than the cap.
Account(acc, items, n) ==
  /\ acc \in [out : Rendering, shown : Nat, full : BOOLEAN]
  /\ acc.shown <= n
  /\ acc.shown = 0 => n = 0
  /\ ~acc.full => acc.shown = n
  /\ acc.full => /\ acc.shown < n
                 /\ Offset(items, acc.shown + 2) > Cap + 2
  /\ acc.out.inside \subseteq 1 .. acc.out.bytes - 1
  /\ acc.shown = 0 => acc.out = Empty
  /\ acc.shown > 0 => acc.out.bytes + 2 = Offset(items, acc.shown + 1)
  /\ acc.shown > 1 => acc.out.bytes <= Cap

LEMMA AddKeepsAccount ==
  ASSUME NEW items, IsItems(items), NEW n \in 1 .. Len(items), NEW acc,
         Account(acc, items, n - 1)
  PROVE  Account(Add(acc, items[n]), items, n)
<1>1. n \in Nat /\ Len(items) \in Nat /\ Cap \in Nat
  BY CapAssumption DEF IsItems
<1>2. /\ items[n] \in Rendering /\ items[n].bytes \in Nat
      /\ items[n].bytes > LongestSuffix
      /\ items[n].inside \subseteq 1 .. items[n].bytes - 1
  BY DEF IsItems, IsItem, Rendering
<1>3. /\ acc \in [out : Rendering, shown : Nat, full : BOOLEAN]
      /\ acc.out \in Rendering /\ acc.out.bytes \in Nat
      /\ acc.out.inside \subseteq 1 .. acc.out.bytes - 1
      /\ acc.shown \in Nat /\ acc.shown <= n - 1
  BY DEF Account, Rendering
<1>4. CASE acc.full
  <2>1. Add(acc, items[n]) = acc
    BY <1>4 DEF Add
  <2> QED
    BY <1>1, <1>4, <2>1 DEF Account
<1>5. CASE ~acc.full /\ acc.shown = 0
  <2>1. n = 1
    BY <1>1, <1>5 DEF Account
  <2>2. Offset(items, 2) = items[1].bytes + 2
    <3>1. 1 \in 1 .. Len(items)
      BY <1>1
    <3> QED
      BY <1>2, <2>1, <3>1, Offsets
  <2>3. Add(acc, items[n]) = [acc EXCEPT !.out = items[n], !.shown = 1]
    BY <1>5 DEF Add
  <2> DEFINE next == Add(acc, items[n])
  <2>4. /\ next \in [out : Rendering, shown : Nat, full : BOOLEAN]
        /\ next.out = items[n] /\ next.shown = 1 /\ ~next.full
    <3>1. \A item \in Rendering, one \in Nat :
            LET added == [acc EXCEPT !.out = item, !.shown = one]
            IN  /\ added \in [out : Rendering, shown : Nat, full : BOOLEAN]
                /\ added.out = item /\ added.shown = one /\ ~added.full
      BY <1>3, <1>5
    <3>2. 1 \in Nat
      OBVIOUS
    <3> QED
      BY <1>2, <2>3, <3>1, <3>2
  <2> HIDE DEF next
  <2>5. Account(next, items, 1)
    BY <1>2, <2>1, <2>2, <2>4 DEF Account
  <2> QED
    BY <2>1, <2>5 DEF next
<1>6. CASE ~acc.full /\ acc.shown > 0
  <2>1. acc.shown = n - 1 /\ n > 1
    BY <1>1, <1>3, <1>6 DEF Account
  <2>2. Offset(items, n) = acc.out.bytes + 2
    BY <1>1, <1>6, <2>1 DEF Account
  <2>3. Offset(items, n + 1) = acc.out.bytes + 2 + items[n].bytes + 2
    BY <1>1, <2>2, Offsets
  <2>4. CASE Fits(acc.out, items[n])
    <3> DEFINE longer == Concat(Concat(acc.out, Separator), items[n])
    <3>1. Add(acc, items[n]) = [acc EXCEPT !.out = longer, !.shown = @ + 1]
      BY <1>3, <1>6, <2>4 DEF Add
    <3>2. longer = [bytes |-> acc.out.bytes + 2 + items[n].bytes,
                    inside |-> acc.out.inside
                                 \cup {acc.out.bytes + 2 + b : b \in items[n].inside}]
      BY DEF Concat, Separator, Ascii
    <3> HIDE DEF longer
    <3>3. ASSUME NEW b \in longer.inside PROVE b \in 1 .. longer.bytes - 1
      <4>1. CASE b \in acc.out.inside
        BY <1>2, <1>3, <3>2, <4>1
      <4>2. CASE \E c \in items[n].inside : b = acc.out.bytes + 2 + c
        <5>1. PICK c \in items[n].inside : b = acc.out.bytes + 2 + c
          BY <4>2
        <5>2. c \in 1 .. items[n].bytes - 1
          BY <1>2
        <5>3. longer.bytes = acc.out.bytes + 2 + items[n].bytes
          BY <3>2
        <5> QED
          BY <1>2, <1>3, <5>1, <5>2, <5>3
      <4> QED
        BY <3>2, <3>3, <4>1, <4>2
    <3>4. longer \in Rendering
      BY <1>2, <1>3, <3>2, <3>3 DEF Rendering
    <3>5. longer.bytes <= Cap
      BY <2>4, <3>2 DEF Fits
    <3>6. longer.bytes + 2 = Offset(items, n + 1)
      BY <1>2, <1>3, <2>3, <3>2
    <3>7. acc.shown + 1 = n
      BY <1>1, <2>1
    <3> DEFINE next == Add(acc, items[n])
    <3>8. /\ next \in [out : Rendering, shown : Nat, full : BOOLEAN]
          /\ next.out = longer /\ next.shown = n /\ ~next.full
      BY <1>1, <1>3, <1>6, <3>1, <3>4, <3>7
    <3> HIDE DEF next
    <3>9. Account(next, items, n)
      BY <1>1, <2>1, <3>3, <3>5, <3>6, <3>8 DEF Account
    <3> QED
      BY <3>9 DEF next
  <2>5. CASE ~Fits(acc.out, items[n])
    <3> DEFINE next == Add(acc, items[n])
    <3>1. next = [acc EXCEPT !.full = TRUE]
      BY <1>3, <1>6, <2>5 DEF Add
    <3>2. /\ next \in [out : Rendering, shown : Nat, full : BOOLEAN]
          /\ next.out = acc.out /\ next.shown = acc.shown /\ next.full
      BY <1>3, <3>1
    <3>3. Offset(items, acc.shown + 2) > Cap + 2
      <4>1. acc.shown + 2 = n + 1
        BY <1>1, <2>1
      <4>2. acc.out.bytes + 2 + items[n].bytes > Cap
        BY <1>1, <1>2, <1>3, <2>5 DEF Fits
      <4> QED
        BY <1>1, <1>2, <1>3, <2>3, <4>1, <4>2
    <3> HIDE DEF next
    <3>4. Account(next, items, n)
      BY <1>1, <1>3, <1>6, <2>1, <3>2, <3>3 DEF Account
    <3> QED
      BY <3>4 DEF next
  <2> QED
    BY <2>4, <2>5
<1> QED
  BY <1>3, <1>4, <1>5, <1>6

LEMMA TheLoopKeepsAccount ==
  ASSUME NEW items, IsItems(items)
  PROVE  Account(Joined(items), items, Len(items))
<1> DEFINE N == Len(items)
<1>1. N \in Nat
  BY DEF IsItems
<1>2. PICK g : Joined(items) = g[N] /\ Joins(g, items, N)
  BY <1>1, Joining
<1> DEFINE S == {n \in Nat : n \in 0 .. N => Account(g[n], items, n)}
<1>3. \A n \in 0 .. N :
        g[n] = IF n = 0 THEN [out |-> Empty, shown |-> 0, full |-> FALSE]
                        ELSE Add(g[n - 1], items[n])
  BY <1>2 DEF Joins
<1>4. 0 \in S
  <2>1. 0 \in 0 .. N
    BY <1>1
  <2>2. g[0] = [out |-> Empty, shown |-> 0, full |-> FALSE]
    BY <1>3, <2>1
  <2>3. Empty.bytes = 0 /\ Empty.inside = {} /\ Empty \in Rendering
    BY DEF Empty, Ascii, Rendering
  <2>4. /\ g[0] \in [out : Rendering, shown : Nat, full : BOOLEAN]
        /\ g[0].out = Empty /\ g[0].shown = 0 /\ ~g[0].full
    BY <2>2, <2>3
  <2>5. Account(g[0], items, 0)
    BY <2>3, <2>4 DEF Account
  <2> QED
    BY <2>5
<1>5. ASSUME NEW n \in 0 .. N, n > 0, n - 1 \in S PROVE n \in S
  <2>1. n - 1 \in 0 .. N /\ n \in 1 .. N
    BY <1>1, <1>5
  <2>2. Account(g[n - 1], items, n - 1)
    BY <1>5, <2>1
  <2>3. g[n] = Add(g[n - 1], items[n])
    BY <1>3, <1>5
  <2> QED
    BY <2>1, <2>2, <2>3, AddKeepsAccount
<1>6. S \in SUBSET Nat
  OBVIOUS
<1> HIDE DEF S
<1>7. 0 .. N \subseteq S
  BY <1>1, <1>4, <1>5, <1>6, InductionUpTo
<1> QED
  BY <1>1, <1>2, <1>7 DEF S

-------------------------------------------------------------------------------
(* The line *)

\* What the three theorems below are read from: the problems whose beginning is in
\* the line are the first ones, all the others are counted, and the first of those
\* did not fit.
Tells(line, items, shown) ==
  /\ line.hidden = Len(items) - shown
  /\ \A i \in 1 .. Len(items) : Offset(items, i) < line.kept <=> i <= shown
  /\ IsFiniteSet(line.text.inside)
  /\ line.text.bytes \in Nat
  /\ line.text.bytes > Cap => Len(items) = 1
  /\ line.hidden > 0 => Offset(items, shown + 2) > Cap + 2

LEMMA LineTells ==
  ASSUME NEW text, NEW kept, NEW hidden, NEW items, NEW shown,
         hidden = Len(items) - shown,
         \A i \in 1 .. Len(items) : Offset(items, i) < kept <=> i <= shown,
         IsFiniteSet(text.inside), text.bytes \in Nat,
         text.bytes > Cap => Len(items) = 1,
         hidden > 0 => Offset(items, shown + 2) > Cap + 2
  PROVE  Tells(Line(text, kept, hidden), items, shown)
BY DEF Tells, Line

LEMMA TheLine ==
  ASSUME NEW items, IsItems(items), Len(items) > 0, ~detail_line(items).panics
  PROVE  /\ Joined(items).shown \in 1 .. Len(items)
         /\ Tells(detail_line(items), items, Joined(items).shown)
<1> DEFINE N == Len(items)
           j == Joined(items)
           shown == j.shown
           hidden == N - shown
           room == Room(hidden)
<1>1. N \in Nat /\ N > 0 /\ Cap \in Nat /\ Cap > LongestSuffix
  BY CapAssumption DEF IsItems
<1>2. Account(j, items, N)
  BY TheLoopKeepsAccount
<1> HIDE DEF j
<1>3. /\ shown \in 1 .. N /\ j.out.bytes \in Nat
      /\ j.out.inside \subseteq 1 .. j.out.bytes - 1
      /\ j.out.bytes + 2 = Offset(items, shown + 1)
      /\ shown < N => Offset(items, shown + 2) > Cap + 2
      /\ shown > 1 => j.out.bytes <= Cap
  BY <1>1, <1>2 DEF Account, Rendering
<1>4. hidden \in Nat /\ (hidden > 0 <=> shown < N) /\ (hidden = 0 <=> shown = N)
  BY <1>1, <1>3
<1>5. /\ \A i \in 1 .. N : Offset(items, i) \in Nat
      /\ Offset(items, shown + 1) \in Nat /\ Offset(items, 1) = 0
  BY <1>1, <1>3, Offsets
<1>6. \A i \in 1 .. N : items[i].bytes \in Nat /\ items[i].bytes > LongestSuffix
  BY DEF IsItems, IsItem, Rendering
<1>7. ASSUME NEW i \in 1 .. N, i <= shown
      PROVE  Offset(items, i) + items[i].bytes <= j.out.bytes
  <2>1. shown + 1 \in i + 1 .. N + 1
    BY <1>1, <1>3, <1>7
  <2>2. Offset(items, i) + items[i].bytes + 2 <= Offset(items, shown + 1)
    BY <2>1, OffsetsGrow
  <2>3. Offset(items, i) \in Nat /\ items[i].bytes \in Nat
    BY <1>5, <1>6
  <2> QED
    BY <1>3, <2>2, <2>3
<1>8. ASSUME NEW i \in 1 .. N, i > shown
      PROVE  Offset(items, i) > j.out.bytes
  <2>1. CASE i = shown + 1
    BY <1>3, <1>5, <2>1
  <2>2. CASE i > shown + 1
    <3>1. i \in (shown + 1) + 1 .. N + 1 /\ shown + 1 \in 1 .. N
      BY <1>1, <1>3, <1>8, <2>2
    <3>2. Offset(items, shown + 1) + items[shown + 1].bytes + 2 <= Offset(items, i)
      BY <3>1, OffsetsGrow
    <3>3. Offset(items, i) \in Nat /\ items[shown + 1].bytes \in Nat
      BY <1>5, <1>6, <3>1
    <3> QED
      BY <1>3, <3>2, <3>3
  <2> QED
    BY <1>1, <1>3, <1>8, <2>1, <2>2
<1>9. \A i \in 1 .. N : Offset(items, i) < j.out.bytes <=> i <= shown
  <2>1. ASSUME NEW i \in 1 .. N, i <= shown PROVE Offset(items, i) < j.out.bytes
    <3>1. /\ Offset(items, i) \in Nat /\ items[i].bytes \in Nat
          /\ items[i].bytes > LongestSuffix
          /\ Offset(items, i) + items[i].bytes <= j.out.bytes
      BY <1>5, <1>6, <1>7, <2>1
    <3> QED
      BY <1>3, <3>1 DEF LongestSuffix
  <2>2. ASSUME NEW i \in 1 .. N, ~(i <= shown) PROVE ~(Offset(items, i) < j.out.bytes)
    <3>1. Offset(items, i) \in Nat /\ Offset(items, i) > j.out.bytes
      BY <1>1, <1>3, <1>5, <1>8, <2>2
    <3> QED
      BY <1>3, <3>1
  <2> QED
    BY <2>1, <2>2
<1>10. IsFiniteSet(j.out.inside)
  <2>1. IsFiniteSet(1 .. j.out.bytes)
    <3>1. 1 \in Int /\ j.out.bytes \in Int
      BY <1>3
    <3> QED
      BY <3>1, FS_Interval
  <2>2. j.out.inside \subseteq 1 .. j.out.bytes
    BY <1>3
  <2> QED
    BY <2>1, <2>2, FS_Subset
<1> HIDE DEF shown
<1>11. CASE hidden = 0
  <2>1. detail_line(items) = Line(j.out, j.out.bytes, hidden)
    BY <1>11 DEF detail_line, j, shown
  <2>2. N = 1 \/ j.out.bytes <= Cap
    BY <1>1, <1>3, <1>4, <1>11
  <2>3. j.out.bytes > Cap => N = 1
    BY <1>1, <1>3, <2>2
  <2>4. Tells(Line(j.out, j.out.bytes, hidden), items, shown)
    <3> HIDE DEF hidden
    <3>1. hidden > 0 => Offset(items, shown + 2) > Cap + 2
      BY <1>11
    <3>2. hidden = N - shown
      BY DEF hidden
    <3> QED
      BY <1>3, <1>9, <1>10, <2>3, <3>1, <3>2, LineTells
  <2> QED
    BY <1>3, <2>1, <2>4 DEF j, shown
<1>12. CASE hidden > 0
  <2>1. /\ Suffix(hidden).bytes \in Nat /\ Suffix(hidden).inside = {}
        /\ Suffix(hidden).bytes <= LongestSuffix
        /\ room \in Nat /\ room > 0 /\ room + Suffix(hidden).bytes = Cap
    BY <1>4, <1>12, SuffixFits
  <2>2. Offset(items, shown + 2) > Cap + 2
    BY <1>3, <1>4, <1>12
  <2>3. CASE j.out.bytes <= room
    <3> DEFINE text == Concat(j.out, Suffix(hidden))
    <3>1. detail_line(items) = Line(text, j.out.bytes, hidden)
      BY <1>3, <1>4, <1>12, <2>1, <2>3 DEF detail_line, j, shown
    <3>2. text.bytes = j.out.bytes + Suffix(hidden).bytes /\ text.inside = j.out.inside
      BY <2>1 DEF Concat
    <3> HIDE DEF text, room
    <3>3. text.bytes \in Nat /\ text.bytes <= Cap
      BY <1>1, <1>3, <2>1, <2>3, <3>2
    <3>4. IsFiniteSet(text.inside)
      BY <1>10, <3>2
    <3>5. text.bytes > Cap => N = 1
      BY <1>1, <3>3
    <3>6. Tells(Line(text, j.out.bytes, hidden), items, shown)
      BY <1>9, <2>2, <3>3, <3>4, <3>5, LineTells
    <3> QED
      BY <1>3, <3>1, <3>6 DEF j, shown
  <2>4. CASE j.out.bytes > room
    <3> DEFINE text == Concat(Cut(j.out, room), Suffix(hidden))
    <3>1. room \notin j.out.inside
      <4>1. room \in j.out.inside => detail_line(items) = Panic
        BY <1>3, <1>4, <1>12, <2>1, <2>4 DEF detail_line, j, shown
      <4> QED
        BY <4>1 DEF Panic
    <3>2. detail_line(items) = Line(text, room, hidden)
      BY <1>3, <1>4, <1>12, <2>1, <2>4, <3>1 DEF detail_line, j, shown
    <3>3. /\ text.bytes = room + Suffix(hidden).bytes
          /\ text.inside = {b \in j.out.inside : b < room}
      BY <2>1 DEF Concat, Cut
    <3> HIDE DEF text, room
    <3>4. text.bytes \in Nat /\ ~(text.bytes > Cap)
      BY <1>1, <2>1, <3>3
    <3>5. IsFiniteSet(text.inside)
      BY <1>10, <3>3, FS_Subset
    <3>6. ASSUME NEW i \in 1 .. N, i <= shown PROVE Offset(items, i) < room
      <4>1. CASE i = 1
        BY <1>5, <2>1, <4>1
      <4>2. CASE i # 1
        <5>1. j.out.bytes <= Cap
          BY <1>3, <3>6, <4>2
        <5>2. /\ Offset(items, i) \in Nat /\ items[i].bytes \in Nat
              /\ items[i].bytes > LongestSuffix
              /\ Offset(items, i) + items[i].bytes <= j.out.bytes
          BY <1>5, <1>6, <1>7, <3>6
        <5>3. Offset(items, i) + LongestSuffix < Cap
          BY <1>1, <1>3, <5>1, <5>2 DEF LongestSuffix
        <5>4. Cap <= room + LongestSuffix
          <6> HIDE DEF hidden
          <6> QED
            BY <1>1, <2>1 DEF LongestSuffix
        <5> QED
          BY <1>1, <2>1, <5>2, <5>3, <5>4 DEF LongestSuffix
      <4> QED
        BY <4>1, <4>2
    <3>7. ASSUME NEW i \in 1 .. N, ~(i <= shown) PROVE ~(Offset(items, i) < room)
      <4>1. Offset(items, i) \in Nat /\ Offset(items, i) > j.out.bytes
        BY <1>1, <1>3, <1>5, <1>8, <3>7
      <4> QED
        BY <1>3, <2>1, <2>4, <4>1
    <3>8. \A i \in 1 .. N : Offset(items, i) < room <=> i <= shown
      BY <3>6, <3>7
    <3>9. Tells(Line(text, room, hidden), items, shown)
      BY <2>2, <3>4, <3>5, <3>8, LineTells
    <3> QED
      BY <1>3, <3>2, <3>9 DEF j, shown
  <2> QED
    BY <1>3, <2>1, <2>3, <2>4
<1> QED
  BY <1>4, <1>11, <1>12

\* The problems that begin in the line and those the suffix counts are all of them,
\* for every list of rendered problems.
LEMMA ShownAndCountedAreAll ==
  ASSUME NEW items, IsItems(items), Len(items) > 0, ~detail_line(items).panics
  PROVE  LET line == detail_line(items)
         IN  Cardinality({i \in DOMAIN items : Offset(items, i) < line.kept})
               + line.hidden = Len(items)
<1> DEFINE line == detail_line(items)
           shown == Joined(items).shown
<1>1. shown \in 1 .. Len(items) /\ Tells(line, items, shown)
  BY TheLine
<1>2. Len(items) \in Nat /\ DOMAIN items = 1 .. Len(items)
  BY DEF IsItems
<1> HIDE DEF line, shown
<1>3. {i \in DOMAIN items : Offset(items, i) < line.kept} = 1 .. shown
  BY <1>1, <1>2 DEF Tells
<1>4. Cardinality(1 .. shown) = shown
  <2>1. 1 \in Int /\ shown \in Int /\ ~(1 > shown)
    BY <1>1, <1>2
  <2>2. Cardinality(1 .. shown) = IF 1 > shown THEN 0 ELSE shown - 1 + 1
    BY <2>1, FS_Interval
  <2> QED
    BY <2>1, <2>2
<1>5. line.hidden = Len(items) - shown
  BY <1>1 DEF Tells
<1>6. shown + line.hidden = Len(items)
  BY <1>1, <1>2, <1>5
<1> QED
  BY <1>3, <1>4, <1>6 DEF line

\* A line of several problems is no longer than the cap.
LEMMA OnlyOneProblemIsLong ==
  ASSUME NEW items, IsItems(items), Len(items) > 0, ~detail_line(items).panics,
         Chars(detail_line(items).text) > Cap
  PROVE  Len(items) = 1
<1> DEFINE text == detail_line(items).text
<1>1. Tells(detail_line(items), items, Joined(items).shown)
  BY TheLine
<1>2. IsFiniteSet(text.inside) /\ text.bytes \in Nat /\ (text.bytes > Cap => Len(items) = 1)
  BY <1>1 DEF Tells
<1> HIDE DEF text
<1>3. Cardinality(text.inside) \in Nat
  BY <1>2, FS_CardinalityType
<1>4. text.bytes - Cardinality(text.inside) > Cap
  BY DEF Chars, text
<1> QED
  BY <1>2, <1>3, <1>4, CapAssumption

\* The first problem that is only counted would have ended after the cap.
LEMMA TheCountedDidNotFit ==
  ASSUME NEW items, IsItems(items), Len(items) > 0, ~detail_line(items).panics,
         detail_line(items).hidden > 0
  PROVE  Offset(items, Len(items) - detail_line(items).hidden + 2) - 2 > Cap
<1> DEFINE line == detail_line(items)
           shown == Joined(items).shown
<1>1. shown \in 1 .. Len(items) /\ Tells(line, items, shown)
  BY TheLine
<1>2. Len(items) \in Nat
  BY DEF IsItems
<1> HIDE DEF line, shown
<1>3. line.hidden = Len(items) - shown /\ line.hidden > 0
  BY <1>1 DEF Tells, line
<1>4. Len(items) - line.hidden + 2 = shown + 2 /\ shown + 2 \in 1 .. Len(items) + 1
  BY <1>1, <1>2, <1>3
<1>5. Offset(items, shown + 2) > Cap + 2 /\ Offset(items, shown + 2) \in Nat
  BY <1>1, <1>3, <1>4, Offsets DEF Tells
<1>6. Offset(items, shown + 2) - 2 > Cap
  BY <1>5, CapAssumption
<1> QED
  BY <1>4, <1>6 DEF line

================================================================================
