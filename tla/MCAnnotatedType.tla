---------------------------- MODULE MCAnnotatedType ----------------------------
(***************************************************************************)
(* Texts of tags and comments grown by up to three lexemes from different  *)
(* beginnings, four members that inherit from one another, and types of    *)
(* two layers of annotations.                                              *)
(***************************************************************************)
EXTENDS AnnotatedType

Tag(name, t) == [name |-> name, text |-> Fixed(t), of |-> None]
ParamTag(of, t) == [name |-> "param", text |-> Fixed(t), of |-> of]
WrittenTag(name) == [name |-> name, text |-> Written, of |-> None]
Comment(summary, tags) == [summary |-> Fixed(summary), tags |-> tags]
Declaration(kind, locations) == [kind |-> kind, name |-> "x", locations |-> locations, host |-> <<>>]
Documented(kind, tags) == <<Declaration(kind, << <<Comment(<<>>, tags)>> >>)>>
Words1 == <<"a", " ", "n">>
Words2 == <<"n", "\n", "a">>

MCSymbols ==
  LET members == [s \in {"A", "B", "C", "D"} |->
        CASE s = "C" -> <<Declaration("member", << <<Comment(Words1, <<>>)>> >>)>>
          [] s = "D" -> <<Declaration("member", <<>>),
                          Declaration("member", << <<Comment(Words1, <<>>), Comment(Words2, <<>>)>> >>)>>
          [] OTHER -> <<Declaration("member", <<>>)>>]
      written == [s \in {"value", "comment"} |->
        IF s = "value" THEN Documented("member", <<WrittenTag("default")>>)
        ELSE <<Declaration("member", << <<[summary |-> Written, tags |-> <<>>]>> >>)>>]
      inner == Documented("other", <<Tag("title", <<"a">>), Tag("minItems", <<"n">>), Tag("required", <<"x">>),
                                     Tag("enum", <<"[", "1", "]">>), Tag("unknown", <<"1">>)>>)
      outer == Documented("member", <<Tag("title", <<"a">>), Tag("title", <<"n">>), WrittenTag("minItems"),
                                      Tag("required", <<"[", "'", "a", "'", "]">>), Tag("enum", <<"null">>),
                                      Tag("description", <<"x">>)>>)
      typed == Documented("member", <<Tag("asType", <<"a">>), Tag("asType", <<"n">>), Tag("id", <<"x">>),
                                      Tag("example", <<"[">>), Tag("example", <<"1">>)>>)
      refs == Documented("other", <<Tag("ref", <<"a">>), Tag("deprecated", <<>>), Tag("comment", <<"n">>)>>)
      structure == Documented("other", <<Tag("if", <<"{", "}">>), WrittenTag("anyOf"), Tag("const", <<"null">>),
                                         Tag("default", <<"[", "-", "0", ",", "Infinity", "]">>),
                                         Tag("examples", <<"1">>), Tag("example", <<"2">>)>>)
      several == <<Declaration("other", << <<>>, <<Comment(Words1, <<Tag("typedef", <<>>), Tag("title", <<"a">>)>>)>> >>),
                   Declaration("other", << <<Comment(Words1, <<Tag("title", <<"n">>)>>), Comment(Words2, <<>>)>>,
                                           <<Comment(Words2, <<Tag("format", <<"a">>)>>)>> >>)>>
      parameter == <<[kind |-> "parameter", name |-> "x", locations |-> << <<>> >>,
                      host |-> << <<Comment(Words2, <<ParamTag("y", Words2), ParamTag("x", Words1)>>)>> >>]>>
  IN  members @@ written @@ [s \in {"inner", "outer", "typed", "refs", "structure", "several", "parameter"} |->
         CASE s = "inner" -> inner [] s = "outer" -> outer [] s = "typed" -> typed [] s = "refs" -> refs
           [] s = "structure" -> structure [] s = "several" -> several [] OTHER -> parameter]

Node(symbol, base) ==
  [symbol |-> symbol, parent |-> None, child |-> None, base |-> base, lib |-> "no", argument |-> None]
PropertyNode(parent, child) == [Node(None, None) EXCEPT !.parent = parent, !.child = child]

MCNodes ==
  [n \in {"value", "comment", "A", "inner", "outer", "typed", "pointer", "structure", "several", "parameter",
          "refs", "ref", "lib", "Exclude"} |->
     CASE n \in {"value", "comment", "A", "several", "parameter"} -> Node(n, "string")
       [] n = "inner" -> Node("inner", "array")
       [] n = "outer" -> PropertyNode("outer", "inner")
       [] n = "pointer" -> Node(None, "reference")
       [] n = "typed" -> PropertyNode("typed", "pointer")
       [] n = "structure" -> Node("structure", "object")
       [] n = "refs" -> Node("refs", "array")
       [] n = "ref" -> PropertyNode("typed", "refs")
       [] n = "lib" -> [Node("typed", "string") EXCEPT !.lib = "lib"]
       [] OTHER -> [Node("typed", "array") EXCEPT !.lib = "Exclude", !.argument = "outer"]]

\* On amd64 the least integer there is.
MCInexactInt(value) == Number(TRUE, <<"9", "2", "2", "3", "3", "7", "2", "0", "3", "6", "8", "5", "4", "7", "7", "5", "8", "0", "8">>)

Sub(of) == [k |-> "schema", of |-> of]

MCBases ==
  [b \in {"string", "array", "object", "reference"} |->
     [AnyDefinition EXCEPT !.fields =
        CASE b = "string" -> "type" :> String(<<"string">>)
          [] b = "array" -> ("type" :> String(<<"array">>)) @@ ("items" :> Sub("items"))
                              @@ ("minItems" :> Number(FALSE, <<"2">>)) @@ ("enum" :> Array(<<Null>>))
          [] b = "object" -> ("properties" :> Sub("properties")) @@ ("if" :> Sub("if")) @@ ("anyOf" :> Sub("anyOf"))
                               @@ ("type" :> String(<<"object">>))
          [] OTHER -> "$ref" :> String(<<"a">>)]]

Nul == <<"0", "0", "0">>
High == <<"D", "8", "1", "e">>

Draft(of, begin, add) == [of |-> of, begin |-> begin, add |-> add]

MCDrafts ==
  LET lists == {"[", "]", ",", "null", "1", " ", "//", "\n", "/*", "*/"}
      records == {"{", "}", ",", ":", "a", "null", "'"}
      strings == {"'", "\"", "\\", "a", "n", "x", "u", "\r", "\n", "1"}
      escapes == {"0", "1", "D", "e", "'", "\\", "u", "n"}
      numbers == {"0", "1", ".", "e", "-", "+", "0x", "Infinity", "a"}
      begins == <<{<<>>, <<"[", "1">>, <<"[", "[", "null", ",">>, <<"/*", "]">>, <<"[", "1", "//", ",">>},
                  {<<"{">>, <<"{", "a", ":", "1">>, <<"{", "a", ":", "true", ",", "a", ":">>, <<"[", "{", "'", "a">>},
                  {<<"'">>, <<"'", "\\", "\r">>, <<"[", "\"", "\\">>},
                  {<<"'", "\\">> \o escape : escape \in
                     {<<"x">>, <<"u">> \o Nul, <<"u">> \o High, <<"u">> \o High \o <<"\\">>,
                      <<"u">> \o High \o <<"\\", "u", "D">>, <<"u">> \o High \o <<"\\", "u", "D", "e", "0">>,
                      <<"u">> \o High \o <<"\\", "u">> \o High, <<"u", "D", "e">>}},
                  {<<>>, <<"-">>, <<"1", ".">>, <<"[", "0x">>, <<"-", "0x", "0">>, <<"{", "e">>}>>
      adds == <<lists, records, strings, escapes, numbers>>
  IN  [n \in DOMAIN MCNodes \ {"inner", "pointer", "refs"} |->
         CASE n = "comment" -> {Draft("comment", {<<>>, <<"a">>, <<"\n", "a", "\r", "\n">>, <<"a", "\r", "\n", "\r", "\n">>}, {"a", "\n", "*", "-"})}
           [] n = "value" -> {Draft("value", begins[i], adds[i]) : i \in DOMAIN adds}
           [] n = "A" -> {Draft("heritage", {<<>>}, {})}
           [] n \in {"outer", "Exclude"} -> {Draft("tag", {<<>>, <<"1">>, <<"a">>}, {"1", "a", "."})}
           [] n = "structure" -> {Draft("tag", {<<>>, <<"{">>}, {"}"})}
           [] OTHER -> {Draft("tag", {<<>>}, {})}]

\* Two members without a comment, which inherit from any two or none, and two
\* that have one and may inherit from the first.
NoHeritage == [s \in DOMAIN MCSymbols |-> <<>>]
MCHeritages ==
  [n \in DOMAIN MCDrafts |->
     IF n # "A" THEN {NoHeritage}
     ELSE {[NoHeritage EXCEPT !["A"] = a, !["B"] = b, !["C"] = c] :
             a, b \in SeqOf({"A", "B", "C", "D"}, 2), c \in SeqOf({"A"}, 1)}]
=============================================================================
