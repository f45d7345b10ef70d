------------------------------ MODULE UblRefusal ------------------------------
(***************************************************************************)
(* UblRefusal::detail_line: how the problems of a refused UBL order become *)
(* the one line stored in edi_documents.error_detail.                      *)
(*                                                                         *)
(* A text is abstracted to its size in bytes and the offsets that fall     *)
(* inside a character: that is all the rendering depends on, since it      *)
(* measures bytes and String::truncate panics inside a character.          *)
(***************************************************************************)
EXTENDS Naturals, Sequences, FiniteSets

CONSTANT Cap  \* the size the line is kept to (1000)

\* "; +" and " more", and a number of at most ten digits.
LongestSuffix == 18

\* The line is longer than the suffix that ends it.
ASSUME CapAssumption == Cap \in Nat /\ Cap > LongestSuffix

Rendering == [bytes : Nat, inside : SUBSET Nat]

Ascii(n) == [bytes |-> n, inside |-> {}]

Empty == Ascii(0)

Concat(s, t) ==
  [bytes |-> s.bytes + t.bytes,
   inside |-> s.inside \cup {s.bytes + b : b \in t.inside}]

Cut(s, n) == [bytes |-> n, inside |-> {b \in s.inside : b < n}]

Chars(s) == s.bytes - Cardinality(s.inside)

Separator == Ascii(2)

PowersOfTen ==
  <<1, 10, 100, 1000, 10000, 100000, 1000000, 10000000, 100000000, 1000000000>>

Digits(n) ==
  CHOOSE d \in 1 .. 10 :
    PowersOfTen[d] <= n /\ (d < 10 => n < PowersOfTen[d + 1])

\* "; +{hidden} more"
Suffix(hidden) == Ascii(8 + Digits(hidden))

\* Mutant: the separator is left out of the account.
Fits_NoSeparator(out, item) == out.bytes + item.bytes <= Cap

\* Mutant: an item that would fill the line exactly is left out.
Fits_Strict(out, item) == out.bytes + 2 + item.bytes < Cap

Fits(out, item) == out.bytes + 2 + item.bytes <= Cap

\* Mutant: the problem that ends the loop is counted as shown.
Add_CountsTheLast(acc, item) ==
  IF acc.full THEN acc
  ELSE IF acc.shown = 0 THEN [acc EXCEPT !.out = item, !.shown = 1]
  ELSE IF Fits(acc.out, item)
         THEN [acc EXCEPT !.out = Concat(Concat(acc.out, Separator), item), !.shown = @ + 1]
         ELSE [acc EXCEPT !.full = TRUE, !.shown = @ + 1]

\* One turn of the loop over the problems; full stands for the break.
Add(acc, item) ==
  IF acc.full THEN acc
  ELSE IF acc.shown = 0 THEN [acc EXCEPT !.out = item, !.shown = 1]
  ELSE IF Fits(acc.out, item)
         THEN [acc EXCEPT !.out = Concat(Concat(acc.out, Separator), item), !.shown = @ + 1]
         ELSE [acc EXCEPT !.full = TRUE]

Joined(items) ==
  LET joined[n \in 0 .. Len(items)] ==
        IF n = 0 THEN [out |-> Empty, shown |-> 0, full |-> FALSE]
                 ELSE Add(joined[n - 1], items[n])
  IN  joined[Len(items)]

Room(hidden) == Cap - Suffix(hidden).bytes

Line(text, kept, hidden) ==
  [panics |-> FALSE, text |-> text, kept |-> kept, hidden |-> hidden]

Panic == [panics |-> TRUE, text |-> Empty, kept |-> 0, hidden |-> 0]

\* kept is what is left of the joined items, hidden the number in the suffix.
detail_line(items) ==
  LET j == Joined(items)
      hidden == Len(items) - j.shown
      room == Room(hidden)
  IN  CASE hidden = 0 -> Line(j.out, j.out.bytes, 0)
        [] hidden > 0 /\ j.out.bytes <= room ->
             Line(Concat(j.out, Suffix(hidden)), j.out.bytes, hidden)
        [] hidden > 0 /\ j.out.bytes > room /\ room \notin j.out.inside ->
             Line(Concat(Cut(j.out, room), Suffix(hidden)), room, hidden)
        [] OTHER -> Panic

-------------------------------------------------------------------------------
(* What the line is measured against: where each problem would begin if all of *)
(* them were joined.                                                           *)

Offset(items, i) ==
  LET offset[k \in 1 .. Len(items) + 1] ==
        IF k = 1 THEN 0 ELSE offset[k - 1] + items[k - 1].bytes + 2
  IN  offset[i]

===============================================================================
