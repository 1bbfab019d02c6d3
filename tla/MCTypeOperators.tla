--------------------------- MODULE MCTypeOperators ---------------------------
(***************************************************************************)
(* Two operators in a row over types with the properties p and q, enums    *)
(* and the types of small constants.                                       *)
(***************************************************************************)
EXTENDS TypeOperators

A == LiteralType("string", "p")
B == LiteralType("string", "q")
One == LiteralType("number", "1")
AorB == NewUnionType(<<A, B>>)
P(t) == Property("p", t, TRUE)
Q(t) == Property("q", t, TRUE)
Maybe(property) == [property EXCEPT !.required = FALSE]
Object(id, properties) == ObjectType(id, <<>>, properties)

\* type Keys = "p" | "q"; interface Base { p: string }; interface Sub extends
\* Base { q?: number | null }; type Choice = { p: Keys } | { q: 1 } | number
MCDeclarations ==
  LET keysOrOne == <<Object("kp", <<P(DefinitionType("Keys"))>>), Object("k1", <<Q(One)>>), NumberType>> IN
  [n \in {"Keys", "Base", "Sub", "Choice"} |->
     CASE n = "Keys" -> AorB
       [] n = "Base" -> Object("base", <<P(StringType)>>)
       [] n = "Sub" -> ObjectType("sub", <<DefinitionType("Base")>>,
                         <<Maybe(Q(NewUnionType(<<NumberType, NullType>>)))>>)
       [] OTHER -> NewUnionType(keysOrOne)]

MCOperands ==
  {StringType, NumberType, NeverType, A, AorB, DefinitionType("Keys"), DefinitionType("Choice"),
   EnumType("mixed", <<A, One>>), ArrayType(AorB), NewTupleType(<<A, RestType(ArrayType(One))>>),
   NewUnionType(<<AorB, One, NullType>>), NewUnionType(<<StringType, NullType>>),
   NewUnionType(<<DefinitionType("Base"), DefinitionType("Choice")>>),
   DefinitionType("Base"), DefinitionType("Sub"), Object("empty", <<>>),
   Object("maybe", <<Maybe(P(AorB)), Q(NewUnionType(<<One, UndefinedType>>))>>),
   Object("noted", <<P(AnnotatedType(NewUnionType(<<A, NullType>>), FALSE, NoTag)),
                     Q(NewUnionType(<<NumberType, AnnotatedType(NewUnionType(<<NullType, UndefinedType>>), FALSE, NoTag)>>))>>),
   WithIndex(Object("index", <<P(A)>>), StringType),
   IntersectionType(<<DefinitionType("Base"), Object("kq", <<Q(AorB)>>)>>)}

MCMembers ==
  {StringType, NumberType, A, AorB, NewUnionType(<<B, One>>), NewUnionType(<<StringType, NumberType>>),
   Object("empty", <<>>), DefinitionType("Choice"), DefinitionType("Base"), DefinitionType("Sub"),
   Object("letter", <<Maybe(P(AorB))>>), NewUnionType(<<Object("kp2", <<P(A)>>), Object("kq", <<Q(AorB)>>)>>)}

MCIndexes == {A, B, AorB, StringType, NumberType, One}

MCPartners == {NumberType, B, NeverType, NewUnionType(<<A, NullType>>)}
MCTexts == {"", "x"}

MCCaseOf ==
  LET Cases(upper, lower, capital, uncapital) ==
        [m \in CaseMappings |-> CASE m = "Uppercase" -> upper [] m = "Lowercase" -> lower
                                  [] m = "Capitalize" -> capital [] OTHER -> uncapital]
  IN  [w \in {"p", "q", "px", "xp", "x", "true", "false"} |->
         CASE w = "p" -> Cases("P", "p", "P", "p")
           [] w = "q" -> Cases("Q", "q", "Q", "q")
           [] w = "px" -> Cases("PX", "px", "Px", "px")
           [] w = "xp" -> Cases("XP", "xp", "Xp", "xp")
           [] w = "x" -> Cases("X", "x", "X", "x")
           [] w = "true" -> Cases("TRUE", w, "True", w)
           [] OTHER -> Cases("FALSE", w, "False", w)]

Text(value) == Literal("string", value)
Number(n) == Literal("number", ToString(n))
Const(init) == [const |-> TRUE, type |-> NoType, init |-> init]
Let(declared, init) == [const |-> FALSE, type |-> declared, init |-> init]
Parameter(name, declared, optional, init) == [name |-> name, type |-> declared, optional |-> optional, init |-> init]

\* const letter = "p"; const one = 1; let count = 2; let word: string = "q"; ...
MCVariables ==
  LET Id(name) == Identifier(name)
      none == [n \in {"unset"} |-> Let(NoType, NoInit)]
      atoms == [n \in {"letter", "one", "flag", "nothing", "count", "word"} |->
        CASE n = "letter" -> Const(Text("p")) [] n = "one" -> Const(As(Number(1)))
          [] n = "flag" -> Const(Prefix("!", Text("0"))) [] n = "nothing" -> Const(NullLiteral)
          [] n = "count" -> Let(NoType, Number(2)) [] OTHER -> Let(StringType, Text("q"))]
      numbers == [n \in {"minus", "plus", "nan", "tilde", "not", "loop"} |->
        CASE n = "minus" -> Const(Prefix("-", Id("one"))) [] n = "plus" -> Const(Prefix("+", Text("2")))
          [] n = "nan" -> Const(Prefix("+", Id("letter"))) [] n = "tilde" -> Const(Prefix("~", Prefix("-", Number(1))))
          [] n = "not" -> Const(Prefix("!", Text(""))) [] OTHER -> Const(Prefix("-", Id("count")))]
      sums == [n \in {"text", "total", "truths", "kept"} |->
        CASE n = "text" -> Const(Binary(Id("letter"), Id("one"))) [] n = "total" -> Const(Binary(Id("one"), Id("minus")))
          [] n = "truths" -> Const(Binary(Id("flag"), Id("not"))) [] OTHER -> Const(Binary(EnumMember("Count", 2), Id("one")))]
      lists == [n \in {"empty", "list", "longer"} |->
        CASE n = "empty" -> Const(ArrayLiteral(<<>>)) [] n = "list" -> Const(ArrayLiteral(<<Id("letter"), Number(1)>>))
          [] OTHER -> Const(ArrayLiteral(<<Spread(Id("list")), NullLiteral, Spread(Id("empty"))>>))]
      objects == [n \in {"object", "more", "p", "short", "method", "acts"} |->
        CASE n = "object" -> Const(ObjectLiteral(n, <<Assigned("p", Id("letter")), Assigned("q", Id("one"))>>, <<>>))
          [] n = "more" -> Const(ObjectLiteral(n, <<Assigned("q", NullLiteral)>>, <<Id("short")>>))
          [] n = "p" -> Const(Text("c"))
          [] n = "short" -> Const(ObjectLiteral(n, <<Shorthand("p")>>, <<>>))
          [] n = "method" -> Const(ObjectLiteral(n, <<[name |-> "p", how |-> "method", of |-> NoInit]>>, <<>>))
          [] OTHER -> Const(ObjectLiteral(n, <<Assigned("q", Function("arrow", <<>>, Prim("is")))>>, <<>>))]
  IN  none @@ atoms @@ numbers @@ sums @@ lists @@ objects

Member(name, init) == [name |-> name, init |-> init, hidden |-> FALSE]
HiddenMember(name, init) == [name |-> name, init |-> init, hidden |-> TRUE]
Enum(members) == [ambient |-> FALSE, members |-> members]

\* enum Count { p, q }; enum Letters { p = "p", q = "q" }; enum Down { p = -2, q };
\* enum Sum { p = 1 + 1, q }; enum Part { /** @hidden */ p, q = "c" };
\* declare enum Far { /** @hidden */ p, q, r = f(), s = null }
MCEnums ==
  LET all == <<Enum(<<Member("p", NoInit), Member("q", NoInit)>>),
               Enum(<<Member("p", Text("p")), Member("q", Text("q"))>>),
               Enum(<<Member("p", Prefix("-", Number(2))), Member("q", NoInit)>>),
               Enum(<<Member("p", Binary(Number(1), Number(1))), Member("q", NoInit)>>),
               Enum(<<HiddenMember("p", NoInit), Member("q", Text("c"))>>),
               [ambient |-> TRUE, members |->
                  <<HiddenMember("p", NoInit), Member("q", NoInit),
                    Member("r", Function("f", <<>>, NoType)), Member("s", As(NullLiteral))>>]>>
  IN  [n \in {"Count", "Letters", "Down", "Sum", "Part", "Far"} |->
         all[CASE n = "Count" -> 1 [] n = "Letters" -> 2 [] n = "Down" -> 3 [] n = "Sum" -> 4 [] n = "Part" -> 5 [] OTHER -> 6]]

MCQueries ==
  {Identifier(n) : n \in DOMAIN MCVariables} \cup {EnumObject(n) : n \in DOMAIN MCEnums}
    \cup {Function("f", <<Parameter("x", StringType, FALSE, NoInit), Parameter("y", NumberType, TRUE, NoInit),
                          Parameter("z", NumberType, FALSE, Number(1))>>, Prim("asserts")),
          Function("g", <<Parameter("x", NoType, FALSE, NoInit)>>, NoType),
          Function("h", <<Parameter("x", InferType("U"), FALSE, NoInit)>>, NumberType)}

Atoms == {Atom("string", "p"), Atom("string", "q"), Atom("string", "c"),
          Atom("number", "1"), Atom("number", "2"), Null}
Spellings == {Atom("string", s) : s \in {"", "P", "Q", "x", "xp", "XP", "px", "Px", "pp", "xpxp", "pq", "xqx", "1", "true"}}
MCValues ==
  Atoms \cup Spellings \cup {Undefined, Atom("boolean", "true"), Atom("boolean", "false"), Atom("number", "0")}
    \cup {ObjectValue(f) : f \in UNION {[ns -> Atoms] : ns \in SUBSET {"p", "q"}}}
    \cup {ObjectValue([n \in {"p", "c"} |-> Atom("string", "p")])}
    \cup {ArrayValue(s) : s \in SeqOf({Atom("string", "p"), Atom("number", "1"), Null}, 2)}
=============================================================================
