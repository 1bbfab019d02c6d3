------------------------------ MODULE JsonValues ------------------------------
(***************************************************************************)
(* JSON values: a number is its sign and its digits, a string the sequence *)
(* of its lexemes.                                                         *)
(***************************************************************************)

EXTENDS Sequences, Integers, Functions

DigitRow == <<"0", "1", "2", "3", "4", "5", "6", "7", "8", "9">>
Digits == Range(DigitRow)

Null == [k |-> "null"]
Boolean(is) == [k |-> "boolean", is |-> is]
Number(negative, digits) == [k |-> "number", negative |-> negative, digits |-> digits]
String(chars) == [k |-> "string", chars |-> chars]
Array(items) == [k |-> "array", items |-> items]
Object(members) == [k |-> "object", members |-> members]

\* What is before the first of these marks, and what is after it.
Cut(s, mark) == CHOOSE i \in DOMAIN s : s[i] = mark /\ \A j \in 1..i - 1 : s[j] # mark
Before(s, mark) == IF mark \in Range(s) THEN SubSeq(s, 1, Cut(s, mark) - 1) ELSE s
Behind(s, mark) == IF mark \in Range(s) THEN SubSeq(s, Cut(s, mark) + 1, Len(s)) ELSE <<>>

IsZero(digits) == Range(Before(digits, "e")) \subseteq {"0", "."} \/ Range(digits) \subseteq {"0x", "0"}

\* The value of some digits.
Decimal(digits) ==
  LET value[n \in 0..Len(digits)] ==
        IF n = 0 THEN 0 ELSE 10 * value[n - 1] + (CHOOSE i \in DOMAIN DigitRow : DigitRow[i] = digits[n]) - 1
  IN  value[Len(digits)]

\* A number as digits, and how many of them are before the point.
Significant(digits) == SelectSeq(Before(digits, "e"), LAMBDA c : c # ".")
Exponent(digits) ==
  (IF "-" \in Range(Behind(digits, "e")) THEN -1 ELSE 1)
    * Decimal(SelectSeq(Behind(digits, "e"), LAMBDA c : c \in Digits))
PointAt(digits) == Len(Before(Before(digits, "e"), ".")) + Exponent(digits)
=============================================================================
