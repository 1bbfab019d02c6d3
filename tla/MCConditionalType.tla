-------------------------- MODULE MCConditionalType --------------------------
(***************************************************************************)
(* Conditional types over small types of every kind, and the values that   *)
(* tell these types apart.                                                 *)
(***************************************************************************)
EXTENDS ConditionalType

A == LiteralType("string", "a")
B == LiteralType("string", "b")
One == LiteralType("number", "1")
AorB == NewUnionType(<<A, B>>)
Array(item) == RestType(ArrayType(item))
Object(id, properties) == ObjectType(id, <<>>, properties)
P(type) == Property("p", type, TRUE)
Q(type) == Property("q", type, TRUE)
NextOf(name) == Property("next", DefinitionType(name), FALSE)
HasP == Object("p", <<P(StringType)>>)
HasQ == Object("q", <<Q(NumberType)>>)
HasBoth == Object("both", <<P(A), Q(NumberType)>>)
Extended == ObjectType("extended", <<HasP>>, <<Q(NumberType)>>)

\* type Letters = "a" | "b"; type Scalar = Letters | number | null;
\* enum Mixed { A = "a", One = 1 }; type Object = { p: string };
\* interface Node { p: string; next?: Node }; interface Chain { p: "a"; next?: Chain }
MCDeclarations ==
  [n \in {"Letters", "Scalar", "Mixed", "Object", "Node", "Chain"} |->
     CASE n = "Letters" -> AorB
       [] n = "Scalar" -> NewUnionType(<<DefinitionType("Letters"), NumberType, NullType>>)
       [] n = "Mixed" -> EnumType("mixed", <<A, One>>)
       [] n = "Object" -> HasP
       [] n = "Node" -> Object("node", <<P(StringType), NextOf("Node")>>)
       [] OTHER -> Object("chain", <<P(A), NextOf("Chain")>>)]

Plain ==
  {StringType, NumberType, NullType, UndefinedType, NeverType, A, One, AorB,
   DefinitionType("Letters"), DefinitionType("Scalar"), DefinitionType("Mixed"),
   NewUnionType(<<DefinitionType("Scalar"), UndefinedType>>),
   NewUnionType(<<StringType, One>>), NewUnionType(<<DefinitionType("Mixed"), B>>)}

Structures ==
  {ArrayType(StringType), ArrayType(DefinitionType("Letters")),
   NewTupleType(<<StringType>>), NewTupleType(<<A, NumberType>>),
   NewTupleType(<<StringType, OptionalType(NumberType)>>),
   NewTupleType(<<StringType, Array(NumberType)>>),
   NewTupleType(<<A, RestType(NewTupleType(<<One>>))>>),
   DefinitionType("Object"), DefinitionType("Node"), DefinitionType("Chain"), HasQ, HasBoth, Extended, NonPrimitive,
   Object("letter", <<P(AorB)>>), Object("any", <<P(AnyType)>>),
   IntersectionType(<<HasP, HasQ>>),
   NewUnionType(<<HasP, StringType>>), NewUnionType(<<HasBoth, HasQ, NullType>>)}

Placeheld ==
  {InferType("U"), ArrayType(InferType("U")), Object("infer", <<P(InferType("K"))>>),
   NewTupleType(<<StringType, RestType(InferType("U"))>>), NewTupleType(<<InferType("U"), InferType("T")>>),
   NewTupleType(<<InferType("U"), OptionalType(InferType("U"))>>)}

Functions1 ==
  {FunctionType(Object("args", <<Property("x", StringType, TRUE)>>), NumberType),
   FunctionType(NeverType, AorB)}

\* Left out: an optional member in the check where the target wants one, an empty
\* tuple as the target, and recursive types of which one comes round before the
\* other.  Their checks say yes to more than the target has.
MCCheckTypes ==
  Plain \cup Structures \cup Functions1
    \cup {AnyType, NewTupleType(<<>>), NewUnionType(<<ArrayType(A), NewTupleType(<<StringType, One>>)>>)}

MCExtendsTypes ==
  Plain \cup Structures \cup Placeheld
    \cup {AnyType, UnknownType, VoidType, Object("empty", <<>>),
          Object("optional", <<Property("p", StringType, FALSE)>>),
          Object("arraylike", <<Property("length", NumberType, TRUE)>>),
          Object("single", <<Property("length", LiteralType("number", "1"), TRUE)>>),
          FunctionType(Object("anys", <<Property("args", AnyType, TRUE)>>), InferType("U")),
          FunctionType(InferType("U"), AnyType)}

MCParentContext == <<Binding("K", NumberType), Binding("U", NullType)>>

Letter == Atom("string", "a")
Digit == Atom("number", "1")
Atoms == {Letter, Atom("string", "b"), Atom("string", "c"), Digit, Atom("number", "2"), Null, Undefined}
Fields(names) == UNION {[ns -> {Letter, Atom("string", "c"), Digit}] : ns \in SUBSET names}
MCValues ==
  Atoms \cup {ArrayValue(s) : s \in SeqOf({Letter, Atom("string", "c"), Digit, Null}, 2)}
    \cup {ObjectValue(f) : f \in Fields({"p", "q"})}
    \cup {ObjectValue([n \in {"p", "next"} |-> IF n = "p" THEN Letter ELSE ObjectValue(f)]) : f \in Fields({"p"})}
=============================================================================
