------------------------------ MODULE BoqReview ------------------------------
(***************************************************************************)
(* The rules that review the lines of a bill of quantities (boq_review.py).*)
(* A pure function of the parsed lines; one step reviews one sheet.        *)
(*                                                                         *)
(* A line is a record: qty, price and total in hundredths (None when the   *)
(* cell has no number) and `uneven`, that the price has more than two      *)
(* decimals; `text`, that numbers were stored as text; whether it has a    *)
(* `spec` and names the tax (`vat`); of its description the `key`, the     *)
(* first sixty characters ("" for none), and, capacities aside, the set    *)
(* of its long `words` (four letters or more) and of its `short` ones; the *)
(* later lines that the matcher of texts finds it `like`; and the `cable`  *)
(* clause or the plain `rating` that its capacity is read from.  The       *)
(* position of a line is its line_no.  Wording is left out.                *)
(***************************************************************************)
EXTENDS Integers, Sequences, FiniteSetsExt

CONSTANTS
  Sheets,      \* sequences of lines
  TopLines,    \* 10: lines that the concentration looks at
  CommonShare, \* 15: per cent of the lines that make a word boilerplate
  Tolerance    \* 100: what a total may be off

VARIABLES
  sheet,
  findings     \* of the sheet; NotReviewed before

vars == <<sheet, findings>>

None == -1
NotReviewed == {[rule |-> "none", at |-> 0, of |-> {}]}
Rules == {"arithmetic_mismatch", "unrounded_unit_price", "text_number", "duplicate_description",
          "missing_spec", "capacity_inversion", "concentration_risk", "vat_missing"}

\* `at` is the line_no of a finding, 0 for the whole sheet; `of` the lines it names.
Finding(rule, at, of) == [rule |-> rule, at |-> at, of |-> of]
OnLine(rule, i) == Finding(rule, i, {i})
OnSheet(rule) == Finding(rule, 0, {})

Amount == {None} \cup Nat
Line ==
  [qty : Amount, price : Amount, total : Amount, uneven : BOOLEAN, text : BOOLEAN,
   spec : BOOLEAN, vat : BOOLEAN,
   key : STRING, words : SUBSET STRING, short : SUBSET STRING, like : SUBSET Nat,
   cable : [conductors : Amount, main : Amount, ground : Amount],
   rating : [size : Amount, unit : STRING]]

TypeOK ==
  /\ sheet \in Sheets
  /\ findings = NotReviewed \/
     \A f \in findings : f.rule \in Rules /\ f.at \in 0..Len(sheet) /\ f.of \subseteq 1..Len(sheet)

Init == sheet \in Sheets /\ findings = NotReviewed

-----------------------------------------------------------------------------
Distance(x, y) == IF x > y THEN x - y ELSE y - x

Mismatches(lines) ==
  {OnLine("arithmetic_mismatch", i) : i \in {j \in DOMAIN lines :
     /\ None \notin {lines[j].qty, lines[j].price, lines[j].total}
     /\ Distance(lines[j].qty * lines[j].price, lines[j].total) > Tolerance}}

Unrounded(lines) ==
  {OnLine("unrounded_unit_price", i) : i \in {j \in DOMAIN lines :
     lines[j].price # None /\ lines[j].uneven}}

TextNumbers(lines) == {OnLine("text_number", i) : i \in {j \in DOMAIN lines : lines[j].text}}

Unspecified(lines) == {OnLine("missing_spec", i) : i \in {j \in DOMAIN lines : ~lines[j].spec}}

Pairs(lines) == {p \in (DOMAIN lines) \X (DOMAIN lines) : p[1] < p[2]}

\* Lines whose descriptions begin alike at two prices; one without any is not compared.
Duplicates(lines) ==
  {Finding("duplicate_description", p[1], {p[1], p[2]}) : p \in {q \in Pairs(lines) :
     LET a == lines[q[1]]
         b == lines[q[2]]
     IN /\ a.key = b.key /\ a.key # ""
        /\ None \notin {a.price, b.price} /\ a.price # b.price}}

-----------------------------------------------------------------------------
(* Capacities.                                                              *)

\* A cable clause holds the number of conductors, their cross-section and
\* perhaps that of the ground conductor.  Every number equal to the ground's
\* is put aside, and the largest of the others is the capacity.
CableSize(cable) ==
  LET others == {cable.conductors, cable.main} \ {cable.ground}
  IN IF others = {} THEN None ELSE Max(others)

Capacity(line) ==
  IF line.cable.main # None /\ CableSize(line.cable) # None
  THEN [size |-> CableSize(line.cable), unit |-> "mm"]
  ELSE line.rating

\* Long words of at least two lines, and of the share of the lines that makes
\* a word boilerplate: in a short sheet, every word that two lines have.
Boilerplate(lines) ==
  LET written == {i \in DOMAIN lines : lines[i].key # ""}
      least == Max({2, (Cardinality(written) * CommonShare) \div 100})
  IN {w \in UNION {lines[i].words : i \in DOMAIN lines} :
        Cardinality({i \in written : w \in lines[i].words}) >= least}

Stripped(lines, i) == (lines[i].words \ Boilerplate(lines)) \cup lines[i].short

\* Two long words in common that are not boilerplate.
Worded(lines, i, j) == Cardinality((lines[i].words \cap lines[j].words) \ Boilerplate(lines)) >= 2

\* SequenceMatcher.ratio above 0.7, of the earlier text and the later: any
\* outcome, since the ratio of two texts depends on which of them is first.
Alike(lines, i, j) ==
  \E a, b \in {i, j} : /\ a < b /\ b \in lines[a].like
                       /\ Stripped(lines, a) # {} /\ Stripped(lines, b) # {}

Similar(lines, i, j) == Worded(lines, i, j) \/ Alike(lines, i, j)

\* Mutant: units would not be compared.
Comparable_AnyUnit(lines, i, j) ==
  /\ Capacity(lines[i]).size # None /\ Capacity(lines[j]).size # None
  /\ Similar(lines, i, j) /\ None \notin {lines[i].price, lines[j].price}

Comparable(lines, i, j) ==
  /\ Capacity(lines[i]).size # None /\ Capacity(lines[j]).size # None
  /\ Capacity(lines[i]).unit = Capacity(lines[j]).unit
  /\ Similar(lines, i, j) /\ None \notin {lines[i].price, lines[j].price}

\* The larger of two similar lines has the lower price; the finding is the larger's.
Inversions(lines) ==
  {Finding("capacity_inversion", p[1], {p[1], p[2]}) : p \in {q \in (DOMAIN lines) \X (DOMAIN lines) :
     /\ Comparable(lines, q[1], q[2])
     /\ Capacity(lines[q[1]]).size > Capacity(lines[q[2]]).size
     /\ lines[q[1]].price < lines[q[2]].price}}

-----------------------------------------------------------------------------
Totals(lines) == {i \in DOMAIN lines : lines[i].total # None}
SumOf(lines, of) == MapThenSumSet(LAMBDA i : lines[i].total, of)

\* The largest totals, TopLines of them, are more than half of the sum.
Concentrated(lines) ==
  LET top == {i \in Totals(lines) :
                Cardinality({j \in Totals(lines) : \/ lines[j].total > lines[i].total
                                                   \/ lines[j].total = lines[i].total /\ j < i})
                  < TopLines}
  IN IF SumOf(lines, Totals(lines)) > 0 /\ 2 * SumOf(lines, top) > SumOf(lines, Totals(lines))
     THEN {OnSheet("concentration_risk")} ELSE {}

Untaxed(lines) ==
  IF \E i \in DOMAIN lines : lines[i].vat THEN {} ELSE {OnSheet("vat_missing")}

Reviewed(lines) ==
  UNION {Mismatches(lines), Unrounded(lines), TextNumbers(lines), Duplicates(lines),
         Unspecified(lines), Inversions(lines), Concentrated(lines), Untaxed(lines)}

Review ==
  /\ findings = NotReviewed
  /\ findings' = Reviewed(sheet)
  /\ UNCHANGED sheet

Next == Review

Spec == Init /\ [][Next]_vars

-----------------------------------------------------------------------------
Found(rule) == {f \in findings : f.rule = rule}
Backwards(lines) == [i \in DOMAIN lines |-> lines[Len(lines) + 1 - i]]
Moved(f) == [f EXCEPT !.of = {Len(sheet) + 1 - i : i \in f.of}]
Kept(all) == {[rule |-> f.rule, of |-> f.of] : f \in all}

\* Without the inversions of lines that only the matcher of texts brings together.
ByWords(lines, all) ==
  {f \in all : f.rule = "capacity_inversion" => \A i, j \in f.of : i # j => Worded(lines, i, j)}

\* No rule but one finds more or less in a sheet whose lines stand in the
\* opposite order (the concentration has to break ties, a duplicate is
\* anchored at the earlier line), and that one, the comparison of capacities,
\* neither among lines with words in common: what the matcher of texts adds
\* may differ.  No pair is accused twice, or the other way round.
ReviewIsFair ==
  findings # NotReviewed =>
    LET back == Backwards(sheet)
    IN /\ Kept(ByWords(sheet, findings)) = Kept({Moved(f) : f \in ByWords(back, Reviewed(back))})
       /\ \A f, g \in Found("capacity_inversion") : f.of = g.of => f = g

\* An accused line is larger than the line it is held against, in the same
\* unit, and cheaper; for a cable larger in its main conductors, as long as
\* no ground conductor has the size of a main one and the conductors of the
\* larger one are not more than the square millimetres of each.
InversionsAreReal ==
  \A f \in Found("capacity_inversion"), i, j \in DOMAIN sheet :
    f.of = {i, j} /\ f.at = i /\ i # j =>
      LET a == sheet[i]
          b == sheet[j]
      IN /\ a.price < b.price /\ Capacity(a).unit = Capacity(b).unit
         /\ /\ None \notin {a.cable.main, b.cable.main}
            /\ a.cable.main # a.cable.ground /\ b.cable.main # b.cable.ground
            /\ a.cable.conductors <= a.cable.main
            => a.cable.main > b.cable.main

\* A sheet is reviewed once, or not yet.
ReviewInv == sheet \in Sheets /\ findings \in {NotReviewed, Reviewed(sheet)}
=============================================================================
