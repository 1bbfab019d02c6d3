------------------------------ MODULE Expressions ------------------------------
(***************************************************************************)
(* The parsers of value expressions and literals, which `typeof x`, enums  *)
(* and template literal types lead to: what type is made of an expression. *)
(* Beside it stands what JavaScript makes of the expression, which no code *)
(* here computes: the type is compared with that value.                    *)
(*                                                                         *)
(* Numbers are written as strings, as in Types; a panic is the type        *)
(* Panicked.  The TypeScript checker is external.                          *)
(***************************************************************************)
EXTENDS TypeUtils, Integers

CONSTANTS
  Variables,  \* name -> [const, type, init]: NoType or NoInit where there is none
  Enums,      \* name -> [ambient, members]; a member: [name, init, hidden]
  CaseOf,     \* word -> its spelling under each of CaseMappings; other words have no letters
  HideFunctions  \* BOOLEAN: --functions hide

CaseMappings == {"Uppercase", "Lowercase", "Capitalize", "Uncapitalize"}

ASSUME HideFunctionsAssumption == HideFunctions \in BOOLEAN
ASSUME CaseOfAssumption == \A w \in DOMAIN CaseOf : DOMAIN CaseOf[w] = CaseMappings

(* An expression is a record whose field e says which:                     *)
NoInit == [e |-> "none"]
Literal(prim, value) == [e |-> "literal", prim |-> prim, value |-> value]
NullLiteral == [e |-> "null"]
Identifier(name) == [e |-> "identifier", name |-> name]
Prefix(op, of) == [e |-> "prefix", op |-> op, of |-> of]
Binary(left, right) == [e |-> "+", left |-> left, right |-> right]
ArrayLiteral(elements) == [e |-> "array", of |-> elements]
Spread(of) == [e |-> "spread", of |-> of]
As(of) == [e |-> "as", of |-> of]
\* properties: [name, how, of], how is "assigned", "shorthand" or "method"
ObjectLiteral(id, properties, spreads) ==
  [e |-> "object", id |-> id, properties |-> properties, spreads |-> spreads]
Assigned(name, of) == [name |-> name, how |-> "assigned", of |-> of]
Shorthand(name) == [name |-> name, how |-> "shorthand", of |-> Identifier(name)]
\* parameters: [name, type, optional, init]; returns: a type, NoType, "is" or "asserts"
Function(id, parameters, returns) ==
  [e |-> "function", id |-> id, parameters |-> parameters, returns |-> returns]
EnumMember(enum, index) == [e |-> "member", enum |-> enum, index |-> index]
EnumObject(enum) == [e |-> "enum", enum |-> enum]

-----------------------------------------------------------------------------
(* Literal values *)

NaN == "NaN"
Numeric == {ToString(n) : n \in -99..99}
NumberOf(text) == CHOOSE n \in -99..99 : ToString(n) = text

\* jsToNumber of a literal: the text of the number.
JsToNumber(literal) ==
  CASE literal.prim = "boolean" -> IF literal.value = "true" THEN "1" ELSE "0"
    [] literal.prim = "string" /\ literal.value = "" -> "0"
    [] literal.prim # "boolean" /\ literal.value \in Numeric -> literal.value
    [] OTHER -> NaN

JsToBoolean(literal) ==
  CASE literal.prim = "boolean" -> literal.value = "true"
    [] literal.prim = "number" -> literal.value \notin {"0", NaN}
    [] OTHER -> literal.value # ""

Not(boolean) == IF boolean THEN "false" ELSE "true"

\* The operators +, - and ~ on the text of a number.
Signed(op, number) ==
  CASE number = NaN -> IF op = "~" THEN "-1" ELSE NaN
    [] number # NaN /\ op = "+" -> number
    [] number # NaN /\ op = "-" -> ToString(0 - NumberOf(number))
    [] OTHER -> ToString(0 - NumberOf(number) - 1)

\* Mutant of PrefixUnary: ! looks at the value as a number.
PrefixUnaryNumeric(op, operand) ==
  CASE ~Is(operand, "literal") -> Panicked
    [] Is(operand, "literal") /\ op = "!" -> LiteralType("boolean", Not(JsToNumber(operand) \notin {"0", NaN}))
    [] OTHER -> LiteralType("number", Signed(op, JsToNumber(operand)))

\* PrefixUnaryExpressionNodeParser: the operand has to be a literal.
PrefixUnary(op, operand) ==
  CASE ~Is(operand, "literal") -> Panicked
    [] Is(operand, "literal") /\ op = "!" -> LiteralType("boolean", Not(JsToBoolean(operand)))
    [] OTHER -> LiteralType("number", Signed(op, JsToNumber(operand)))

-----------------------------------------------------------------------------
(* BinaryExpressionNodeParser: every operator is taken for a +.            *)

RECURSIVE IsStringLike(_)
IsStringLike(t) ==
  \/ Is(t, "string")
  \/ Is(t, "literal") /\ t.prim = "string"
  \/ Is(t, "union") /\ \E m \in Range(t.types) : IsStringLike(m)

IsBooleanLike(t) == Is(t, "boolean") \/ (Is(t, "literal") /\ t.prim = "boolean")

RECURSIVE IsDefinitelyNumberLike(_)
IsDefinitelyNumberLike(t) ==
  \/ Is(t, "number")
  \/ Is(t, "literal") /\ t.prim = "number"
  \/ Is(t, "union") /\ \A m \in Range(t.types) : IsDefinitelyNumberLike(m)

BooleanType == Prim("boolean")

BinaryExpression(left, right) ==
  CASE AnyType \in {left, right} -> AnyType
    [] AnyType \notin {left, right} /\ (IsStringLike(left) \/ IsStringLike(right)) -> StringType
    [] AnyType \notin {left, right} /\ IsDefinitelyNumberLike(left) /\ IsDefinitelyNumberLike(right) -> NumberType
    [] IsBooleanLike(left) /\ IsBooleanLike(right) -> BooleanType
    [] OTHER -> StringType

-----------------------------------------------------------------------------
(* What the TypeScript checker says: the widened type of an expression, of *)
(* which it makes a type node, and the constant value of an enum member.   *)

RECURSIVE Widened(_)
Widened(type) ==
  CASE Is(type, "literal") -> Prim(type.prim)
    [] Is(type, "tuple") -> ArrayType(NewUnionType([i \in DOMAIN type.types |-> Widened(type.types[i])]))
    [] Is(type, "object") ->
         [type EXCEPT !.id = "widened", !.properties =
            [i \in DOMAIN @ |-> [@[i] EXCEPT !.type = Widened(@)]]]
    [] OTHER -> type

\* The number after this one, which a member without initializer has.
Successor(number) == IF number = NaN THEN NaN ELSE ToString(NumberOf(number) + 1)

-----------------------------------------------------------------------------
(* Functions *)

\* ParameterParser: a parameter without a type is a node no parser takes.
ParameterType(parameter) == IF parameter.type = NoType THEN Panicked ELSE parameter.type

\* GetNamedArguments
NamedArguments(id, parameters) ==
  IF parameters = <<>> THEN NeverType
  ELSE IF Len(parameters) = 1 /\ Is(ParameterType(parameters[1]), "infer") THEN ParameterType(parameters[1])
  ELSE ObjectType(id, <<>>, [i \in DOMAIN parameters |->
         Property(parameters[i].name, ParameterType(parameters[i]),
                  ~parameters[i].optional /\ parameters[i].init = NoInit)])

\* GetReturnType: predicates are boolean or nothing at run time.
ReturnType(returns) ==
  CASE returns = Prim("is") -> BooleanType
    [] returns = Prim("asserts") -> VoidType
    [] OTHER -> returns

\* FunctionNodeParser
CreateFunction(function) ==
  IF HideFunctions THEN NeverType
  ELSE FunctionType(NamedArguments(function.id, function.parameters), ReturnType(function.returns))

-----------------------------------------------------------------------------
(* What JavaScript makes of an expression *)

ToNumber(v) ==
  CASE v.k = "null" \/ v = Atom("boolean", "false") \/ v = Atom("string", "") -> "0"
    [] v = Atom("boolean", "true") -> "1"
    [] v.k = "number" \/ (v.k = "string" /\ v.value \in Numeric) -> v.value
    [] OTHER -> NaN

IsTruthy(v) ==
  v \notin {Null, Undefined, Atom("boolean", "false"), Atom("string", ""), Atom("number", "0"), Atom("number", NaN)}

\* As it is written in a template or a sum; what objects are called is left open.
TextOf(v) == CASE v.k \in {"string", "number", "boolean"} -> v.value [] v.k = "null" -> "null" [] OTHER -> "object"

Sum(v, w) ==
  CASE {v.k, w.k} \subseteq {"number", "boolean", "null"} ->
         Atom("number", IF NaN \in {ToNumber(v), ToNumber(w)} THEN NaN
                        ELSE ToString(NumberOf(ToNumber(v)) + NumberOf(ToNumber(w))))
    [] OTHER -> Atom("string", TextOf(v) \o TextOf(w))

Callable == [k |-> "callable"]

RECURSIVE Value(_)

\* Of an enum member, counted on from the last one that has an initializer.
RECURSIVE EnumValue(_, _)
EnumValue(members, i) ==
  CASE members[i].init # NoInit -> Value(members[i].init)
    [] members[i].init = NoInit /\ i = 1 -> Atom("number", "0")
    [] OTHER -> Atom("number", Successor(EnumValue(members, i - 1).value))

MembersNamed(members, name) == CHOOSE i \in DOMAIN members : members[i].name = name
NamesIn(members) == {m.name : m \in Range(members)}

\* Field lists from left to right: a later one overrides.
RECURSIVE Overlaid(_)
Overlaid(objects) == IF objects = <<>> THEN <<>> ELSE Last(objects) @@ Overlaid(Front(objects))

\* An element of an array, or what a spread puts there.
Elements(element) == IF element.e = "spread" THEN Value(element.of).items ELSE <<Value(element)>>

Value(e) ==
  CASE e.e = "literal" -> Atom(e.prim, e.value)
    [] e.e = "null" -> Null
    [] e.e = "identifier" -> Value(Variables[e.name].init)
    [] e.e = "prefix" /\ e.op = "!" -> Atom("boolean", Not(IsTruthy(Value(e.of))))
    [] e.e = "prefix" /\ e.op # "!" -> Atom("number", Signed(e.op, ToNumber(Value(e.of))))
    [] e.e = "+" -> Sum(Value(e.left), Value(e.right))
    [] e.e = "array" -> ArrayValue(FlattenSeq([i \in DOMAIN e.of |-> Elements(e.of[i])]))
    [] e.e = "as" -> Value(e.of)
    [] e.e = "object" ->
         ObjectValue(Overlaid(<<[n \in NamesIn(e.properties) |->
                                   Value(e.properties[MembersNamed(e.properties, n)].of)]>>
                              \o [i \in DOMAIN e.spreads |-> Value(e.spreads[i]).fields]))
    [] e.e = "function" -> Callable
    [] e.e = "member" -> EnumValue(Enums[e.enum].members, e.index)
    [] e.e = "enum" ->
         ObjectValue([n \in NamesIn(Enums[e.enum].members) |->
                        EnumValue(Enums[e.enum].members, MembersNamed(Enums[e.enum].members, n))])

-----------------------------------------------------------------------------
(* EnumNodeParser *)

\* What the checker computes at compile time; NoType where it does not.
RECURSIVE GetConstantValue(_, _)
GetConstantValue(enum, i) ==
  CASE enum.members[i].init # NoInit ->
         IF Value(enum.members[i].init).k \in {"string", "number"}
         THEN Value(enum.members[i].init) ELSE NoType
    [] enum.members[i].init = NoInit /\ enum.ambient -> NoType
    [] enum.members[i].init = NoInit /\ ~enum.ambient /\ i = 1 -> Atom("number", "0")
    [] OTHER -> IF GetConstantValue(enum, i - 1).k = "number"
                THEN Atom("number", Successor(GetConstantValue(enum, i - 1).value)) ELSE NoType

\* parseInitializer, for what the checker knows no constant of: anything but
\* true, false and null is taken by its text.
RECURSIVE ParseInitializer(_)
ParseInitializer(e) ==
  CASE e.e = "literal" -> LiteralType(e.prim, e.value)
    [] e.e = "null" -> NullType
    [] e.e = "as" -> ParseInitializer(e.of)
    [] OTHER -> LiteralType("string", e.e)

\* getMemberValue: index is the position among the members that are not hidden.
\* A template without spans has a constant value and never comes to the end.
MemberType(enum, i, index) ==
  CASE GetConstantValue(enum, i) # NoType ->
         LiteralType(GetConstantValue(enum, i).k, GetConstantValue(enum, i).value)
    [] GetConstantValue(enum, i) = NoType /\ enum.members[i].init = NoInit ->
         LiteralType("number", ToString(index))
    [] OTHER -> ParseInitializer(enum.members[i].init)

\* The places of members that are not hidden.
Shown(members) == SelectSeq([i \in DOMAIN members |-> i], LAMBDA i : ~members[i].hidden)

\* Mutant of CreateEnum: hidden members are numbered, and kept.
CreateEnumWithHidden(name) ==
  EnumType(name, [i \in DOMAIN Enums[name].members |-> MemberType(Enums[name], i, i - 1)])

CreateEnum(name) ==
  EnumType(name, [n \in DOMAIN Shown(Enums[name].members) |->
                    MemberType(Enums[name], Shown(Enums[name].members)[n], n - 1)])

CreateEnumMember(name, i) ==
  EnumType(name \o "." \o Enums[name].members[i].name,
           IF Enums[name].members[i].hidden THEN <<>> ELSE <<MemberType(Enums[name], i, 0)>>)

-----------------------------------------------------------------------------
(* The parsers of expressions *)

After(current) ==
  IF Is(current, "literal") /\ current.prim = "number" THEN LiteralType("number", Successor(current.value)) ELSE Panicked

RECURSIVE ParseExpression(_)

\* createObjectFromEnum counts by itself, from the types of the initializers.
RECURSIVE CurrentMember(_, _)
CurrentMember(members, i) ==
  CASE members[i].init # NoInit -> ParseExpression(members[i].init)
    [] members[i].init = NoInit /\ i = 1 -> LiteralType("number", "0")
    [] OTHER -> After(CurrentMember(members, i - 1))

CreateObjectFromEnum(name) ==
  ObjectType("typeof-" \o name, <<>>,
    [i \in DOMAIN Enums[name].members |->
       Property(Enums[name].members[i].name, CurrentMember(Enums[name].members, i), TRUE)])

\* The type of a property in an object literal.  A method is no node that the
\* function parser takes, nor any other.
ObjectPropertyType(property) ==
  CASE property.how = "assigned" -> ParseExpression(property.of)
    [] property.how = "shorthand" -> Widened(ParseExpression(property.of))
    [] property.how = "method" -> Panicked

ObjectOf(id, properties) ==
  ObjectType(id, <<>>, [i \in DOMAIN properties |->
    Property(properties[i].name, ObjectPropertyType(properties[i]), TRUE)])

\* ObjectLiteralExpressionNodeParser: what is spread is intersected with the
\* rest, in the type the checker gives it.
CreateObjectLiteral(e) ==
  IF e.spreads = <<>> THEN ObjectOf(e.id, e.properties)
  ELSE IntersectionType(<<ObjectOf(e.id, e.properties)>>
         \o [i \in DOMAIN e.spreads |-> Widened(ParseExpression(e.spreads[i]))])

\* IdentifierNodeParser: only constants are looked up.
IdentifierType(name) ==
  IF Variables[name].const /\ Variables[name].init # NoInit
  THEN ParseExpression(Variables[name].init) ELSE Panicked

ParseExpression(e) ==
  CASE e.e = "literal" -> LiteralType(e.prim, e.value)
    [] e.e = "null" -> NullType
    [] e.e = "identifier" -> IdentifierType(e.name)
    [] e.e = "prefix" -> PrefixUnary(e.op, ParseExpression(e.of))
    [] e.e = "+" -> BinaryExpression(ParseExpression(e.left), ParseExpression(e.right))
    [] e.e = "array" -> NewTupleType([i \in DOMAIN e.of |-> ParseExpression(e.of[i])])
    [] e.e = "spread" -> RestType(ParseExpression(e.of))
    [] e.e = "as" -> ParseExpression(e.of)
    [] e.e = "object" -> CreateObjectLiteral(e)
    [] e.e = "function" -> CreateFunction(e)
    [] e.e = "member" -> CreateEnumMember(e.enum, e.index)
    [] e.e = "enum" -> Panicked  \* an enum's name is no variable

\* TypeofNodeParser: typeof of an enum, of a variable with a declared type or an
\* initializer, constant or not, or of a function.  A property is like a variable;
\* classes, which are declarations, and globalThis are left out.
TypeOf(e) ==
  CASE e.e = "enum" -> CreateObjectFromEnum(e.enum)
    [] e.e = "identifier" ->
         IF Variables[e.name].type # NoType THEN Variables[e.name].type
         ELSE IF Variables[e.name].init # NoInit THEN ParseExpression(Variables[e.name].init)
         ELSE Panicked
    [] e.e = "function" -> FunctionType(NamedArguments(e.id, e.parameters), ReturnType(e.returns))

-----------------------------------------------------------------------------
(* Template literal types and the intrinsic string types                   *)

\* Stands for the UnknownLiteralTypeError, which no text equals.
Unlisted == "unknown literal type"

\* ExtractLiterals: the texts of all literals of a type, or that it has others.
RECURSIVE ExtractLiterals(_)
ExtractLiterals(type) ==
  CASE DerefType(type).k \in {"union", "enum"} ->
         FlattenSeq([i \in DOMAIN DerefType(type).types |-> ExtractLiterals(DerefType(type).types[i])])
    [] Is(DerefType(type), "literal") -> <<DerefType(type).value>>
    [] Is(DerefType(type), "boolean") -> <<"true", "false">>
    [] OTHER -> <<Unlisted>>

IsExpandable(literals) == Unlisted \notin Range(literals)

\* expandTemplateMatrix: one text of each row, the leftmost varying slowest.
RECURSIVE ExpandTemplateMatrix(_)
ExpandTemplateMatrix(matrix) ==
  IF Len(matrix) = 1 THEN matrix[1]
  ELSE FlattenSeq([i \in DOMAIN matrix[1] |->
         [j \in DOMAIN ExpandTemplateMatrix(Tail(matrix)) |->
            matrix[1][i] \o ExpandTemplateMatrix(Tail(matrix))[j]]])

LiteralTypes(texts) == [i \in DOMAIN texts |-> LiteralType("string", texts[i])]

\* Mutant of SpanRow: what follows a span is forgotten.
SpanRowBare(span) == ExtractLiterals(span.type)

\* A row of the matrix: the texts of a span, each with what follows it.
SpanRow(span) ==
  [i \in DOMAIN ExtractLiterals(span.type) |-> ExtractLiterals(span.type)[i] \o span.suffix]

\* StringTemplateLiteralNodeParser: a span that has no literals makes it a string.
CreateTemplate(prefix, spans) ==
  IF \A i \in DOMAIN spans : IsExpandable(ExtractLiterals(spans[i].type))
  THEN SingleOrUnion(LiteralTypes(ExpandTemplateMatrix(
         << <<prefix>> >> \o [i \in DOMAIN spans |-> SpanRow(spans[i])])))
  ELSE StringType

ChangeCase(method, word) == IF word \in DOMAIN CaseOf THEN CaseOf[word][method] ELSE word

\* IntrinsicNodeParser: here a type without literals is an error.
CreateIntrinsic(method, argument) ==
  IF ~IsExpandable(ExtractLiterals(argument))
     \/ (method \in {"Capitalize", "Uncapitalize"} /\ "" \in Range(ExtractLiterals(argument)))
  THEN Panicked
  ELSE SingleOrUnion(LiteralTypes([i \in DOMAIN ExtractLiterals(argument) |->
         ChangeCase(method, ExtractLiterals(argument)[i])]))

-----------------------------------------------------------------------------
(* Types that are written with types *)

\* UnionNodeParser
CreateUnion(types) ==
  CASE Len(SelectSeq(types, LAMBDA t : ~IsNeverLike(t))) = 0 -> NeverType
    [] OTHER -> SingleOrUnion(SelectSeq(types, LAMBDA t : ~IsNeverLike(t)))

\* Mutant of CreateTypeLiteral: any property that cannot be there makes it never.
CreateTypeLiteralNever(id, properties, additional) ==
  IF \E p \in Range(properties) : IsNeverLike(p.type) THEN NeverType
  ELSE WithIndex(ObjectType(id, <<>>, properties), additional)

\* TypeLiteralNodeParser: a property that must be there and cannot makes it
\* never; one that need not is left out.
CreateTypeLiteral(id, properties, additional) ==
  IF \E p \in Range(properties) : p.required /\ IsNeverLike(p.type) THEN NeverType
  ELSE WithIndex(ObjectType(id, <<>>, SelectSeq(properties, LAMBDA p : ~IsNeverLike(p.type))), additional)

\* NamedTupleMemberNodeParser: the name is a title; ... counts before an array
\* that has no name.
CreateNamedMember(type, dots) ==
  IF dots /\ Is(type, "array") THEN RestType(type) ELSE AnnotatedType(type, FALSE, NoTag)
=============================================================================
