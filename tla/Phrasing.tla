------------------------------ MODULE Phrasing ------------------------------
(***************************************************************************)
(* Exact fixed-point numbers (crates/kernel/src/quantity.rs, and the       *)
(* operations of ir.rs over them) and reading text (text.rs, value.rs and  *)
(* phrasing.rs).                                                           *)
(*                                                                         *)
(* A quantity is [units, scale], standing for units / 10^scale.  An        *)
(* operation that would leave the machine's range, or need more places     *)
(* than MaxScale, has no result: an optional result is a sequence of at    *)
(* most one element.                                                       *)
(*                                                                         *)
(* A text is a sequence of words [text, folded, value, binds, ends]: its   *)
(* spelling, the spelling folded for case and typography, what it denotes  *)
(* as a number, sum of money or date, whether it extends a value beside it *)
(* (a sign, a currency mark or code, a scale word), and the punctuation    *)
(* after it: "no" punctuation, a "wrap" (one line break), a "point" (a     *)
(* full stop that ends no sentence), "stop", "ask" (a question mark) or a  *)
(* "gap" (a blank line).                                                   *)
(***************************************************************************)
EXTENDS Integers, Sequences, SequencesExt, FiniteSets, FiniteSetsExt

CONSTANTS
    MaxUnits,       \* i128::MAX
    MaxScale        \* MAX_SCALE

None == <<>>
Some(x) == <<x>>

Fits(units) == -MaxUnits - 1 <= units /\ units <= MaxUnits

InRange(units, scale) == IF Fits(units) THEN Some([units |-> units, scale |-> scale]) ELSE None

Rescaled(q, scale) ==
    LET factor == 10 ^ (scale - q.scale)
    IN IF scale < q.scale \/ scale > MaxScale THEN None
       ELSE IF ~Fits(factor) THEN None ELSE InRange(q.units * factor, scale)

Aligned(a, b) ==
    LET scale == IF a.scale >= b.scale THEN a.scale ELSE b.scale
        left  == Rescaled(a, scale)
        right == Rescaled(b, scale)
    IN IF left = None \/ right = None THEN None
       ELSE Some([left |-> left[1].units, right |-> right[1].units, scale |-> scale])

CheckedAdd(a, b) ==
    LET both == Aligned(a, b)
    IN IF both = None THEN None ELSE InRange(both[1].left + both[1].right, both[1].scale)

CheckedSub(a, b) ==
    LET both == Aligned(a, b)
    IN IF both = None THEN None ELSE InRange(both[1].left - both[1].right, both[1].scale)

CheckedMul(a, b) ==
    IF a.scale + b.scale > MaxScale THEN None ELSE InRange(a.units * b.units, a.scale + b.scale)

\* -1, 0 or 1, when the two can be aligned.
CompareExact(a, b) ==
    LET both == Aligned(a, b)
    IN IF both = None THEN None
       ELSE Some(IF both[1].left < both[1].right THEN -1 ELSE IF both[1].left = both[1].right THEN 0 ELSE 1)

SameQuantity(a, b) == CompareExact(a, b) = Some(0)

\* The operand that wins a min or a max; the accumulator keeps ties.
Extreme(op, a, b) ==
    LET order == CompareExact(a, b)
    IN IF order = None THEN None
       ELSE Some(IF order[1] = (IF op = "min" THEN 1 ELSE -1) THEN b ELSE a)

Apply2(op, a, b) ==
    CASE op = "sum" -> CheckedAdd(a, b)
      [] op = "difference" -> CheckedSub(a, b)
      [] op = "product" -> CheckedMul(a, b)
      [] op \in {"min", "max"} -> Extreme(op, a, b)

ApplyOp(op, operands) ==
    IF operands = <<>> THEN None
    ELSE FoldLeft(LAMBDA acc, q : IF acc = None THEN None ELSE Apply2(op, acc[1], q),
                  Some(operands[1]), Tail(operands))

-----------------------------------------------------------------------------
Fold(word) == word.folded

ContainsTerm(text, term) == \E i \in DOMAIN text : Fold(text[i]) = Fold(term)

\* The words of `folded` in a row, starting at word i.
OccursAt(text, i, folded) ==
    /\ i + Len(folded) - 1 <= Len(text)
    /\ \A k \in DOMAIN folded : Fold(text[i + k - 1]) = folded[k]

ContainsFolded(text, folded) == folded # <<>> /\ \E i \in DOMAIN text : OccursAt(text, i, folded)

-----------------------------------------------------------------------------
(***************************************************************************)
(* Values.  `policy` gives the default currency and the order of a slashed *)
(* date, "" where the contract gives none.                                 *)
(***************************************************************************)
ValueTypes == {"number", "money", "date"}

Calendar(year, month, day) ==
    LET leap == year % 4 = 0 /\ (year % 100 # 0 \/ year % 400 = 0)
        days == CASE month \in {1, 3, 5, 7, 8, 10, 12} -> 31
                  [] month \in {4, 6, 9, 11} -> 30
                  [] month = 2 -> IF leap THEN 29 ELSE 28
                  [] OTHER -> 0
    IN IF year \in 1..9999 /\ day \in 1..days THEN {<<year, month, day>>} ELSE {}

NumberReading(v) ==
    IF v.kind = "number" THEN [values |-> {v.amount}, ambiguous |-> FALSE]
    ELSE [values |-> {}, ambiguous |-> FALSE]

\* A symbol stands for every currency that uses it, unless the default is one.
MoneyReading(v, policy) ==
    LET chosen == IF policy.currency \in v.currencies THEN {policy.currency} ELSE v.currencies
    IN IF v.kind # "money" THEN [values |-> {}, ambiguous |-> FALSE]
       ELSE [values |-> {<<c, v.amount>> : c \in chosen}, ambiguous |-> Cardinality(chosen) > 1]

\* A slashed date with no declared order is ambiguous even when one reading,
\* or the same reading twice, is all there is.
DateReading(v, policy) ==
    LET dayFirst   == Calendar(v.year, v.second, v.first)
        monthFirst == Calendar(v.year, v.first, v.second)
    IN CASE v.kind = "slashed" ->
              (CASE policy.order = "day_first" -> [values |-> dayFirst, ambiguous |-> FALSE]
                 [] policy.order = "month_first" -> [values |-> monthFirst, ambiguous |-> FALSE]
                 [] OTHER -> [values |-> dayFirst \cup monthFirst, ambiguous |-> TRUE])
         [] v.kind = "named" -> [values |-> Calendar(v.year, v.month, v.day), ambiguous |-> FALSE]
         [] OTHER -> [values |-> {}, ambiguous |-> FALSE]

ParseValue(kind, v, policy) ==
    CASE kind = "number" -> NumberReading(v)
      [] kind = "money" -> MoneyReading(v, policy)
      [] kind = "date" -> DateReading(v, policy)

\* Whether two readings share a value: amounts compare as quantities.
SameValue(kind, a, b) ==
    CASE kind = "number" -> SameQuantity(a, b)
      [] kind = "money" -> a[1] = b[1] /\ SameQuantity(a[2], b[2])
      [] kind = "date" -> a = b

\* The comparison of a word of the text with the wanted object: no result, or
\* whether the match rests on an ambiguous reading.
SharedReading(kind, ours, theirs) ==
    IF \E a \in theirs.values, b \in ours.values : SameValue(kind, a, b)
    THEN Some(theirs.ambiguous \/ ours.ambiguous) ELSE None

CompareFolded(kind, wanted, actual, policy) ==
    SharedReading(kind, ParseValue(kind, wanted.value, policy), ParseValue(kind, actual.value, policy))

\* A value that its neighbours extend is only part of a larger one.
ClosedRegion(text, i) ==
    /\ i > 1 => ~text[i - 1].binds
    /\ i < Len(text) => ~text[i + 1].binds

\* An unambiguous occurrence wins over an earlier ambiguous one.
Clearest(results) ==
    IF Some(FALSE) \in results THEN Some(FALSE) ELSE IF Some(TRUE) \in results THEN Some(TRUE) ELSE None

FindValue(kind, text, wanted, policy) ==
    Clearest({IF ClosedRegion(text, i) THEN CompareFolded(kind, wanted, text[i], policy) ELSE None : i \in DOMAIN text})

\* The first result there is.
FirstSome(results) ==
    LET hits == {i \in DOMAIN results : results[i] # None}
    IN IF hits = {} THEN None ELSE results[Min(hits)]

-----------------------------------------------------------------------------
(***************************************************************************)
(* Phrasebooks: [relations, types, cues, policy].  A phrasing is a         *)
(* sequence over folded words and the slots "{from}" and "{to}".           *)
(***************************************************************************)
FromContract(ast) ==
    LET phrased == {r \in DOMAIN ast.relations : ast.relations[r].phrasings # <<>>}
        typed   == {r \in DOMAIN ast.relations : ast.relations[r].to \in ValueTypes}
    IN [relations |-> [r \in phrased |-> ast.relations[r].phrasings],
        types     |-> [r \in typed |-> ast.relations[r].to],
        cues      |-> ast.cues,
        policy    |-> ast.policy]

Phrasings(book, predicate) ==
    IF predicate \in DOMAIN book.relations THEN book.relations[predicate] ELSE <<>>

ObjectIn(book, text, prop) ==
    IF prop.predicate \in DOMAIN book.types
    THEN FindValue(book.types[prop.predicate], text, prop.object, book.policy)
    ELSE IF ContainsTerm(text, prop.object) THEN Some(FALSE) ELSE None

Instantiate(phrasing, prop) ==
    [i \in DOMAIN phrasing |-> CASE phrasing[i] = "{from}" -> Fold(prop.subject)
                                 [] phrasing[i] = "{to}" -> Fold(prop.object)
                                 [] OTHER -> phrasing[i]]

\* The first place where the phrasing's words stand around a closed value
\* equal to the object's, ambiguous or not.
TypedStatement(sentence, phrasing, prop, kind, policy) ==
    LET slot   == CHOOSE i \in DOMAIN phrasing : phrasing[i] = "{to}"
        words  == Instantiate(phrasing, prop)
        prefix == SubSeq(words, 1, slot - 1)
        suffix == SubSeq(words, slot + 1, Len(words))
        Match(at, v) == IF /\ OccursAt(sentence, at, prefix)
                           /\ v <= Len(sentence)
                           /\ OccursAt(sentence, v + 1, suffix)
                           /\ ClosedRegion(sentence, v)
                        THEN CompareFolded(kind, prop.object, sentence[v], policy) ELSE None
    IN FirstSome([at \in DOMAIN sentence |-> Match(at, at + slot - 1)])

\* Where a text's sentences end: a wrapped line and an inner full stop do not.
Sentences(text) ==
    LET closing == {i \in DOMAIN text : text[i].ends \in {"stop", "ask", "gap"} \/ i = Len(text)}
        ends    == SetToSortSeq(closing, LAMBDA a, b : a < b)
    IN [k \in DOMAIN ends |-> SubSeq(text, IF k = 1 THEN 1 ELSE ends[k - 1] + 1, ends[k])]

IsAQuestion(sentence) == Last(sentence).ends = "ask"

\* (mutant) Cues are looked for in questions only.
CuedWhenAsked(book, sentence) ==
    IsAQuestion(sentence) /\ \E i \in DOMAIN sentence : Fold(sentence[i]) \in book.cues

Cued(book, sentence) == \E i \in DOMAIN sentence : Fold(sentence[i]) \in book.cues

\* The phrasings of one sentence, in order: the first that matches decides.
StatedBy(book, sentence, prop) ==
    LET phrasings == Phrasings(book, prop.predicate)
        Found(p)  == IF prop.predicate \in DOMAIN book.types
                     THEN TypedStatement(sentence, p, prop, book.types[prop.predicate], book.policy)
                     ELSE IF ContainsFolded(sentence, Instantiate(p, prop)) THEN Some(FALSE) ELSE None
    IN FirstSome([i \in DOMAIN phrasings |-> Found(phrasings[i])])

\* The first sentence that asserts the proposition: no result, or whether it
\* does so by an ambiguous reading.
StatementIn(book, text, prop) ==
    LET all     == Sentences(text)
        Says(s) == IF IsAQuestion(s) \/ Cued(book, s) THEN None ELSE StatedBy(book, s, prop)
    IN FirstSome([i \in DOMAIN all |-> Says(all[i])])
=============================================================================
