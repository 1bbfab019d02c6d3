--------------------------------- MODULE Json5 ---------------------------------
(***************************************************************************)
(* parseJSON5, which reads the texts of JSDoc tags such as @default, and   *)
(* beside it the grammar of JSON5: what a text means if it can be cut up   *)
(* in some way into what the grammar allows.                               *)
(*                                                                         *)
(* A text is a sequence of lexemes: single characters, and the words and   *)
(* markers of several characters that the parser looks for.  What          *)
(* strconv.ParseFloat takes is external, and numbers beyond its range are  *)
(* left out.                                                               *)
(***************************************************************************)
EXTENDS JsonValues, SequencesExt, Naturals

LineTerminators == {"\n", "\r"}
Spaces == {" "} \cup LineTerminators
Quotes == {"'", "\""}
LowerRow == <<"a", "b", "c", "d", "e", "f">>
UpperRow == <<"A", "B", "C", "D", "E", "F">>
HexDigits == Digits \cup Range(LowerRow) \cup Range(UpperRow)
Words == {"null", "true", "false", "Infinity", "NaN"}
Letters == Range(LowerRow) \cup Range(UpperRow) \cup {"n", "u", "x"}

\* What a row of digits is in base 16.
HexValue(digit) ==
  IF digit \in Range(UpperRow) THEN 9 + CHOOSE i \in DOMAIN UpperRow : UpperRow[i] = digit
  ELSE (CHOOSE i \in DOMAIN (DigitRow \o LowerRow) : (DigitRow \o LowerRow)[i] = digit) - 1
CodeOf(digits) == FoldLeft(LAMBDA code, digit : 16 * code + HexValue(digit), 0, digits)

\* Unicode: the characters of these rows; what pairs of code units are made of.
RowAt(code, row) == [c \in code..code + Len(row) - 1 |-> row[c - code + 1]]
Characters ==
  RowAt(0, <<"NUL">>) @@ RowAt(8, <<"BS", "\t", "\n", "VT", "\f", "\r">>)
    @@ RowAt(32, <<" ">>) @@ RowAt(34, <<"\"">>) @@ RowAt(39, <<"'">>) @@ RowAt(42, <<"*", "+", ",", "-", ".">>)
    @@ RowAt(48, DigitRow) @@ RowAt(58, <<":">>) @@ RowAt(65, UpperRow) @@ RowAt(91, <<"[", "\\", "]">>)
    @@ RowAt(97, LowerRow) @@ RowAt(110, <<"n">>) @@ RowAt(117, <<"u">>) @@ RowAt(120, <<"x">>)
    @@ RowAt(123, <<"{">>) @@ RowAt(125, <<"}">>)
HighSurrogates == 55296..56319
LowSurrogates == 56320..57343
Character(code) == IF code \in DOMAIN Characters THEN Characters[code] ELSE "U+" \o ToString(code)

-----------------------------------------------------------------------------
(* The parser: s is the input, p the position in it.                       *)

End == "end of input"
At(s, p) == IF p \in DOMAIN s THEN s[p] ELSE End

Failed == [ok |-> FALSE]
Parsed(value, p) == [ok |-> TRUE, value |-> value, at |-> p]

\* The first place from p on that has one of these, or the end.
FirstOf(s, p, lexemes) ==
  CHOOSE q \in p..Len(s) + 1 : At(s, q) \in lexemes \cup {End} /\ \A r \in p..q - 1 : s[r] \notin lexemes

\* Mutant of SkipIgnored: a comment that is not closed ends with the input.
RECURSIVE SkipIgnoredToTheEnd(_, _)
SkipIgnoredToTheEnd(s, p) ==
  CASE At(s, p) \in Spaces -> SkipIgnoredToTheEnd(s, p + 1)
    [] At(s, p) = "//" -> SkipIgnoredToTheEnd(s, FirstOf(s, p, LineTerminators))
    [] At(s, p) = "/*" ->
         SkipIgnoredToTheEnd(s, FirstOf(s, p, {"*/"}) + (IF At(s, FirstOf(s, p, {"*/"})) = End THEN 0 ELSE 1))
    [] OTHER -> p

\* Past whitespace and comments; nowhere, if a comment is not closed.
RECURSIVE SkipIgnored(_, _)
SkipIgnored(s, p) ==
  CASE At(s, p) \in Spaces -> SkipIgnored(s, p + 1)
    [] At(s, p) = "//" -> SkipIgnored(s, FirstOf(s, p, LineTerminators))
    [] At(s, p) = "/*" ->
         IF At(s, FirstOf(s, p, {"*/"})) = End THEN 0 ELSE SkipIgnored(s, FirstOf(s, p, {"*/"}) + 1)
    [] OTHER -> p

IdentifierStart == Letters \cup Words
IdentifierPart == IdentifierStart \cup Digits \cup {"0x"}

\* scanIdentifier: the place after the identifier at p, p itself if there is none.
ScanIdentifier(s, p) ==
  IF At(s, p) \notin IdentifierStart THEN p
  ELSE CHOOSE q \in p + 1..Len(s) + 1 :
         At(s, q) \notin IdentifierPart /\ \A r \in p + 1..q - 1 : s[r] \in IdentifierPart

ParseLiteralName(s, p) ==
  LET end == ScanIdentifier(s, p)
      name == SubSeq(s, p, end - 1)
  IN  CASE name = <<"null">> -> Parsed(Null, end)
        [] name = <<"true">> -> Parsed(Boolean(TRUE), end)
        [] name = <<"false">> -> Parsed(Boolean(FALSE), end)
        [] name \in {<<"Infinity">>, <<"NaN">>} -> Parsed(Number(FALSE, name), end)
        [] OTHER -> Failed

NamedEscapes ==
  [c \in {"b", "f", "n", "r", "t", "v", "0"} |->
     CASE c = "b" -> "BS" [] c = "f" -> "\f" [] c = "n" -> "\n" [] c = "r" -> "\r"
       [] c = "t" -> "\t" [] c = "v" -> "VT" [] c = "0" -> "NUL"]

\* WriteRune: half a pair has no encoding.
Rune(code) == IF code \in HighSurrogates \cup LowSurrogates THEN "U+FFFD" ELSE Character(code)

\* readHexDigits
HasHexDigits(s, p, digits) == p + digits - 1 <= Len(s) /\ \A q \in p..p + digits - 1 : s[q] \in HexDigits
ReadHexDigits(s, p, digits) == CodeOf(SubSeq(s, p, p + digits - 1))


\* A \u escape at p for the second half of a pair.
IsLow(s, p) ==
  At(s, p) = "\\" /\ At(s, p + 1) = "u" /\ HasHexDigits(s, p + 2, 4) /\ ReadHexDigits(s, p + 2, 4) \in LowSurrogates

RECURSIVE ParseString(_, _, _, _)

\* parseHexEscape, for the escape whose digits begin at p.
AfterCode(s, p, code, quote, chars) ==
  IF code \in HighSurrogates /\ IsLow(s, p)
  THEN ParseString(s, p + 6, quote,
                   Append(chars, Rune(65536 + 1024 * (code - 55296) + ReadHexDigits(s, p + 2, 4) - 56320)))
  ELSE ParseString(s, p, quote, Append(chars, Rune(code)))

ParseHexEscape(s, p, digits, quote, chars) ==
  IF HasHexDigits(s, p, digits) THEN AfterCode(s, p + digits, ReadHexDigits(s, p, digits), quote, chars) ELSE Failed

ParseEscape(s, p, quote, chars) ==
  CASE At(s, p) = End -> Failed
    [] At(s, p) \in DOMAIN NamedEscapes -> ParseString(s, p + 1, quote, Append(chars, NamedEscapes[At(s, p)]))
    [] At(s, p) = "x" -> ParseHexEscape(s, p + 1, 2, quote, chars)
    [] At(s, p) = "u" -> ParseHexEscape(s, p + 1, 4, quote, chars)
    [] At(s, p) \in LineTerminators ->
         ParseString(s, IF At(s, p) = "\r" /\ At(s, p + 1) = "\n" THEN p + 2 ELSE p + 1, quote, chars)
    [] OTHER -> ParseString(s, p + 1, quote, Append(chars, At(s, p)))

\* parseString, after the opening quote and these characters.
ParseString(s, p, quote, chars) ==
  CASE At(s, p) = quote -> Parsed(String(chars), p + 1)
    [] At(s, p) \in LineTerminators \cup {End} -> Failed
    [] At(s, p) = "\\" -> ParseEscape(s, p + 1, quote, chars)
    [] OTHER -> ParseString(s, p + 1, quote, Append(chars, At(s, p)))

\* What ParseFloat takes: digits with a point anywhere, and an exponent.
IsDigits(s) == s # <<>> /\ Range(s) \subseteq Digits
IsMantissa(s) == IsDigits(SelectSeq(s, LAMBDA c : c # ".")) /\ Len(SelectSeq(s, LAMBDA c : c = ".")) <= 1
IsExponent(s) == IsDigits(s) \/ (s # <<>> /\ Head(s) \in {"+", "-"} /\ IsDigits(Tail(s)))
IsFloat(s) ==
  \/ IsMantissa(s)
  \/ \E i \in DOMAIN s : s[i] = "e" /\ IsMantissa(SubSeq(s, 1, i - 1)) /\ IsExponent(SubSeq(s, i + 1, Len(s)))

\* The place after the lexemes of this kind that begin at p.
EndOf(s, p, lexemes) ==
  CHOOSE q \in p..Len(s) + 1 : At(s, q) \notin lexemes /\ \A r \in p..q - 1 : s[r] \in lexemes

\* The rest of parseNumber, after the sign.
ParseUnsigned(s, p, negative) ==
  LET hexEnd == EndOf(s, p + 1, HexDigits)
      end == EndOf(s, p, Digits \cup {".", "e", "+", "-"})
  IN  CASE At(s, p) \in {"Infinity", "NaN"} -> Parsed(Number(negative, <<s[p]>>), p + 1)
        [] At(s, p) = "0x" /\ hexEnd > p + 1 -> Parsed(Number(negative, SubSeq(s, p, hexEnd - 1)), hexEnd)
        [] At(s, p) # "0x" /\ IsFloat(SubSeq(s, p, end - 1)) -> Parsed(Number(negative, SubSeq(s, p, end - 1)), end)
        [] OTHER -> Failed

ParseNumber(s, p) ==
  IF At(s, p) \in {"+", "-"} THEN ParseUnsigned(s, p + 1, At(s, p) = "-") ELSE ParseUnsigned(s, p, FALSE)

RECURSIVE ParseValue(_, _)

\* parseArray, past what is to be ignored: an item, or the end.
RECURSIVE ParseItems(_, _, _)
ItemsGoOn(s, p, items) ==
  CASE At(s, p) = "," -> ParseItems(s, SkipIgnored(s, p + 1), items)
    [] At(s, p) = "]" -> Parsed(Array(items), p + 1)
    [] OTHER -> Failed

AfterItem(s, item, items) ==
  IF item.ok THEN ItemsGoOn(s, SkipIgnored(s, item.at), Append(items, item.value)) ELSE Failed

ParseItems(s, p, items) ==
  CASE At(s, p) = "]" -> Parsed(Array(items), p + 1)
    [] At(s, p) = End -> Failed
    [] OTHER -> AfterItem(s, ParseValue(s, p), items)

ParseObjectKey(s, p) ==
  CASE At(s, p) \in Quotes -> ParseString(s, p + 1, At(s, p), <<>>)
    [] ScanIdentifier(s, p) > p -> Parsed(String(SubSeq(s, p, ScanIdentifier(s, p) - 1)), ScanIdentifier(s, p))
    [] OTHER -> Failed

\* parseObject likewise; a key that comes again overrides.
RECURSIVE ParseMembers(_, _, _)
MembersGoOn(s, p, members) ==
  CASE At(s, p) = "," -> ParseMembers(s, SkipIgnored(s, p + 1), members)
    [] At(s, p) = "}" -> Parsed(Object(members), p + 1)
    [] OTHER -> Failed

AfterMember(s, key, member, members) ==
  IF member.ok THEN MembersGoOn(s, SkipIgnored(s, member.at), (key :> member.value) @@ members) ELSE Failed

AfterKey(s, key, p, members) ==
  IF At(s, p) = ":" THEN AfterMember(s, key.value.chars, ParseValue(s, SkipIgnored(s, p + 1)), members) ELSE Failed

MemberOf(s, key, members) == IF key.ok THEN AfterKey(s, key, SkipIgnored(s, key.at), members) ELSE Failed

ParseMembers(s, p, members) ==
  CASE At(s, p) = "}" -> Parsed(Object(members), p + 1)
    [] At(s, p) = End -> Failed
    [] OTHER -> MemberOf(s, ParseObjectKey(s, p), members)

ParseValue(s, p) ==
  CASE At(s, p) = End -> Failed
    [] At(s, p) = "{" -> ParseMembers(s, SkipIgnored(s, p + 1), <<>>)
    [] At(s, p) = "[" -> ParseItems(s, SkipIgnored(s, p + 1), <<>>)
    [] At(s, p) \in Quotes -> ParseString(s, p + 1, At(s, p), <<>>)
    [] At(s, p) \in {"+", "-", ".", "0x"} \cup Digits -> ParseNumber(s, p)
    [] OTHER -> ParseLiteralName(s, p)

\* parseJSON5: one value, and nothing after it.
Document(s, value) ==
  IF value.ok /\ SkipIgnored(s, value.at) = Len(s) + 1 THEN [ok |-> TRUE, value |-> value.value] ELSE Failed

ParseJson5(s) == Document(s, ParseValue(s, SkipIgnored(s, 1)))

-----------------------------------------------------------------------------
(* JSON5, as its grammar has it                                            *)

Part(s, from, to) == SubSeq(s, from, to)
After(s, i) == SubSeq(s, i + 1, Len(s))

\* Spaces and comments, // up to the end of its line.
RECURSIVE IsBlank(_)
IsBlank(s) ==
  \/ s = <<>>
  \/ Head(s) \in Spaces /\ IsBlank(Tail(s))
  \/ Head(s) = "//" /\ \E i \in DOMAIN s :
       /\ s[i] \in LineTerminators /\ Range(Part(s, 1, i - 1)) \cap LineTerminators = {}
       /\ IsBlank(After(s, i))
  \/ Head(s) = "/*" /\ \E i \in DOMAIN s :
       s[i] = "*/" /\ "*/" \notin Range(Part(s, 1, i - 1)) /\ IsBlank(After(s, i))

\* What may stand in a string, and the code units it is for.
IsEscape(unit, letter, digits) ==
  Len(unit) = digits + 2 /\ unit[1] = "\\" /\ unit[2] = letter /\ Range(After(unit, 2)) \subseteq HexDigits

Char(c) == [k |-> "char", is |-> c]
Unit(code) ==
  CASE code \in HighSurrogates -> [k |-> "high", is |-> code]
    [] code \in LowSurrogates -> [k |-> "low", is |-> code]
    [] OTHER -> Char(Character(code))

UnitMeans(unit) ==
  CASE Len(unit) = 1 /\ unit[1] # "\\" /\ unit[1] \notin LineTerminators -> {<<Char(unit[1])>>}
    [] Len(unit) = 2 /\ unit[1] = "\\" /\ unit[2] \in DOMAIN NamedEscapes -> {<<Char(NamedEscapes[unit[2]])>>}
    [] Len(unit) = 2 /\ unit[1] = "\\" /\ unit[2] \in LineTerminators -> {<<>>}
    [] Len(unit) = 2 /\ unit[1] = "\\"
         /\ unit[2] \notin Digits \cup {"x", "u"} \cup DOMAIN NamedEscapes \cup LineTerminators -> {<<Char(unit[2])>>}
    [] Len(unit) = 3 /\ unit[1] = "\\" /\ unit[2] = "\r" /\ unit[3] = "\n" -> {<<>>}
    [] IsEscape(unit, "x", 2) \/ IsEscape(unit, "u", 4) -> {<<Unit(CodeOf(After(unit, 2)))>>}
    [] OTHER -> {}

RECURSIVE UnitsOf(_, _)
UnitsOf(s, quote) ==
  IF s = <<>> THEN {<<>>}
  ELSE UNION {{first \o rest : first \in UnitMeans(Part(s, 1, i)), rest \in UnitsOf(After(s, i), quote)} :
                i \in {j \in 1..6 : j <= Len(s) /\ Part(s, 1, j) # <<quote>>}}

\* Code units as text: two halves make one character, one half none.
RECURSIVE TextOfUnits(_)
TextOfUnits(units) ==
  CASE units = <<>> -> <<>>
    [] Len(units) >= 2 /\ units[1].k = "high" /\ units[2].k = "low" ->
         <<Character(65536 + 1024 * (units[1].is - 55296) + units[2].is - 56320)>> \o TextOfUnits(After(units, 2))
    [] OTHER -> <<IF units[1].k = "char" THEN units[1].is ELSE "U+FFFD">> \o TextOfUnits(Tail(units))

NumberMeans(s) ==
  LET signed == s # <<>> /\ Head(s) \in {"+", "-"}
      digits == IF signed THEN Tail(s) ELSE s
  IN  IF \/ digits \in {<<"Infinity">>, <<"NaN">>} \/ IsFloat(digits)
         \/ Len(digits) > 1 /\ Head(digits) = "0x" /\ Range(Tail(digits)) \subseteq HexDigits
      THEN {Number(signed /\ Head(s) = "-", digits)} ELSE {}

RECURSIVE Means(_)

\* Where a text begins and ends that has spaces and comments around it.
Cores(s) ==
  {c \in (DOMAIN s) \X (DOMAIN s) :
     c[1] <= c[2] /\ IsBlank(Part(s, 1, c[1] - 1)) /\ IsBlank(After(s, c[2]))}

Inside(s) == UNION {Means(Part(s, c[1], c[2])) : c \in Cores(s)}

KeyMeans(s) ==
  IF s # <<>> /\ Head(s) \in IdentifierStart /\ Range(s) \subseteq IdentifierPart THEN {String(s)}
  ELSE {v \in Means(s) : v.k = "string"}

Keys(s) == UNION {KeyMeans(Part(s, c[1], c[2])) : c \in Cores(s)}

MemberMeans(s) ==
  UNION {{key.chars :> value : key \in Keys(Part(s, 1, i - 1)), value \in Inside(After(s, i))} :
           i \in {j \in DOMAIN s : s[j] = ":"}}

\* A list between brackets or braces: nothing, or entries with commas between
\* them, and perhaps one at the end.
Entries(s, isObject) == IF isObject THEN MemberMeans(s) ELSE Inside(s)

RECURSIVE Lists(_, _)
Lists(s, isObject) ==
  (IF IsBlank(s) THEN {<<>>} ELSE {<<entry>> : entry \in Entries(s, isObject)})
    \cup UNION {{<<entry>> \o rest : entry \in Entries(Part(s, 1, i - 1), isObject),
                                     rest \in Lists(After(s, i), isObject)} :
                  i \in {j \in DOMAIN s : s[j] = ","}}

RECURSIVE Merged(_)
Merged(entries) == IF entries = <<>> THEN <<>> ELSE Last(entries) @@ Merged(Front(entries))

Means(s) ==
  CASE s \in {<<"null">>} -> {Null}
    [] s \in {<<"true">>, <<"false">>} -> {Boolean(s = <<"true">>)}
    [] Len(s) > 1 /\ s[1] \in Quotes /\ Last(s) = s[1] ->
         {String(TextOfUnits(units)) : units \in UnitsOf(Part(s, 2, Len(s) - 1), s[1])}
    [] Len(s) > 1 /\ s[1] = "[" /\ Last(s) = "]" -> {Array(l) : l \in Lists(Part(s, 2, Len(s) - 1), FALSE)}
    [] Len(s) > 1 /\ s[1] = "{" /\ Last(s) = "}" -> {Object(Merged(l)) : l \in Lists(Part(s, 2, Len(s) - 1), TRUE)}
    [] OTHER -> NumberMeans(s)

\* All that a text can mean; none if it is no JSON5.
DocumentMeans(s) == Inside(Append(s, "\n"))

\* What JSON5 leaves out and the parser takes: numbers with zeros before them
\* and the escapes \1 and the like.
HasLegacyDigits(s) ==
  \E i \in 1..Len(s) - 1 :
    \/ s[i] = "0" /\ s[i + 1] \in Digits /\ (i = 1 \/ s[i - 1] \notin HexDigits \cup {".", "0x", "x", "u"})
    \/ s[i] = "\\" /\ s[i + 1] \in Digits \ {"0"}

\* The lexemes that may follow: two of them never make up another one, and where
\* digits in base 16 are read no word begins with one.
CanFollow(s, c) ==
  s # <<>> =>
    /\ Last(s) = "0" => c # "x"
    /\ Last(s) = "/*" => c \notin {"/*", "//"}
    /\ Last(s) = "\\" => c \notin Words \cup {"//", "/*", "*/", "0x"}
    /\ {"\\", "0x"} \cap Range(s) # {} => c \notin {"0x", "false"}
=============================================================================
