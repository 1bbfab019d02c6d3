----------------------------- MODULE TypeOperators -----------------------------
(***************************************************************************)
(* The node parsers that make a type of types they have parsed, applied    *)
(* one after the other: unions, intersections, T[K], keyof T, mapped types, *)
(* template literals, object and tuple types.  Each step stands for        *)
(* CreateType of the outer node, whose children have been parsed; what a   *)
(* step makes is the operand of the next.  The first operand is a type     *)
(* given, an enum, or typeof of a variable.                                *)
(*                                                                         *)
(* PreserveLiterals of `string & {}`, which only words a schema, and the   *)
(* renaming of mapped keys are left out.                                   *)
(***************************************************************************)
EXTENDS Expressions

CONSTANTS
  Operands,     \* the types to begin with
  Queries,      \* the expressions typeof is asked of
  Members,      \* what they are intersected with
  Partners,     \* what they are united with, and put beside in objects and tuples
  Texts,        \* what templates begin and end with
  Indexes,      \* what they are indexed by
  Values,       \* the values types are compared by
  MaxOperators  \* bound on the operators applied

ASSUME MaxOperatorsAssumption == MaxOperators \in Nat

VARIABLES
  operand,   \* the type before the last step
  operator,  \* the operator applied by it
  type,      \* what came of it
  applied    \* number of operators applied

vars == <<operand, operator, type, applied>>

-----------------------------------------------------------------------------
\* A panic anywhere below is a panic of the operator.
Raise(made) == IF Panicked \in Parts(made) THEN Panicked ELSE made

IsEmptyObject(t) ==
  LET object == DerefType(t)
  IN  Is(object, "object") /\ object.additional = NeverType /\ object.properties = <<>>

\* `string & {}`, `"a" & {}` and the like: nothing but the other member.
AutocompleteHack(members) ==
  LET nonObjects == SelectSeq(members, LAMBDA t : ~IsEmptyObject(t))
      other == nonObjects[1]
  IN  IF Len(members) = 2 /\ Len(nonObjects) = 1
           /\ (other.k \in {"string", "literal"} \/ (Is(other, "union") /\ IsLiteralUnion(other)))
      THEN other ELSE NoType

\* IntersectionNodeParser
CreateIntersection(members) ==
  IF \E t \in Range(members) : IsNeverLike(t) THEN NeverType
  ELSE IF AutocompleteHack(members) # NoType THEN AutocompleteHack(members)
  ELSE Raise(Translate(members))

RECURSIVE GetTupleIndexTypes(_)
GetTupleIndexTypes(tuple) ==
  LET Contribution(member) ==
        LET m == DerefType(member)
            rest == DerefType(m.item)
        IN  CASE ~Is(m, "rest") -> <<member>>
              [] Is(m, "rest") /\ Is(rest, "array") -> <<rest.item>>
              [] Is(m, "rest") /\ Is(rest, "tuple") -> GetTupleIndexTypes(rest)
              [] OTHER -> <<m>>
  IN  FlattenSeq([i \in DOMAIN tuple.types |-> Contribution(tuple.types[i])])

\* found: the type the object has under the key, if any.
PropertyType(object, key, found) ==
  CASE key.k \notin {"literal", "string", "number"} -> Panicked
    [] key.k \in {"literal", "string", "number"} /\ found # NoType -> found
    [] found = NoType /\ Is(key, "number") /\ Is(object, "tuple") ->
         Normalize(NewUnionType(GetTupleIndexTypes(object)))
    [] found = NoType /\ Is(key, "literal") -> NeverType
    [] OTHER -> Panicked

PropertyTypes(object, keys) ==
  [k \in DOMAIN keys |-> PropertyType(object, keys[k], GetTypeByKey(object, keys[k]))]

\* IndexedAccessTypeNodeParser, past the syntactic fast path.  What it does with
\* a reference that is not set yet is MemberOf of NodeParser: no type here is one.
CreateIndexed(object, index) ==
  LET o == DerefType(object)
      i == DerefType(index)
  IN  IF IsNeverLike(o) \/ IsNeverLike(i) THEN NeverType
      ELSE Raise(SingleOrUnion(PropertyTypes(o, IF Is(i, "union") THEN i.types ELSE <<i>>)))

\* Without --additional-properties only `object` has others of no one type.
RECURSIVE HasTypedAdditionalProperties(_)
HasTypedAdditionalProperties(object) ==
  \/ object.additional # NeverType /\ ~object.nonPrimitive
  \/ \E b \in Range(object.types) :
       Is(DerefType(b), "object") /\ HasTypedAdditionalProperties(DerefType(b))

\* TypeOperatorNodeParser for readonly, which only stands before arrays and tuples.
CreateReadonly(of) == DerefType(of)

\* TypeOperatorNodeParser for keyof
CreateKeyOf(of) ==
  LET t == DerefType(of)
      keys == GetTypeKeys(of)
  IN  CASE Is(t, "array") -> NumberType
        [] Is(t, "object") /\ HasTypedAdditionalProperties(t) -> NewUnionType(Append(keys, StringType))
        [] OTHER -> SingleOrUnion(keys)

\* Mutant of IsMappedPropertyRequired: what may be undefined is required still.
IsMappedPropertyRequiredUnlessOptional(modifier, hasUndefined) == modifier # "?"

\* The optional modifier of the mapped type: none, ? or -?
IsMappedPropertyRequired(modifier, hasUndefined) ==
  CASE modifier = "none" -> ~hasUndefined
    [] modifier = "?" -> FALSE
    [] modifier = "-?" -> TRUE

\* The template of a mapped type, parsed with K bound to a key: T[K] or a type
\* that has no K in it.
ElementOf(object) == [is |-> "element", object |-> object]
Same(other) == [is |-> "same", type |-> other]

TemplateFor(template, key) ==
  IF template.is = "element" THEN CreateIndexed(template.object, key) ELSE template.type

\* The property a key is mapped to, whose template came to the value.
MappedProperty(key, value, modifier) ==
  LET plain == DerefAnnotatedType(value)
      without == RemoveUndefined(plain)
  IN  IF Is(plain, "union")
      THEN Property(key.value, PreserveAnnotation(value, without.type),
                    IsMappedPropertyRequired(modifier, without.removed))
      ELSE Property(key.value, PreserveAnnotation(value, plain), IsMappedPropertyRequired(modifier, FALSE))

LiteralKeys(union) == SelectSeq(UniqueTypes(FlattenedTypes(union, TRUE)), LAMBDA t : Is(t, "literal"))

\* The first key of a union that is no literal, however deep.
OtherKeys(union) ==
  LET others == SelectSeq(union.types, LAMBDA t : ~Is(DerefType(t), "literal"))
  IN  IF IsDeepLiteralUnion(union) \/ others = <<>> THEN <<>> ELSE <<others[1]>>

\* getValues passes over null.
NamedValues(enum) == SelectSeq(enum.types, LAMBDA t : ~Is(t, "null"))

\* What the template is parsed for, whose results the operators below have as `of`.
TemplateKeys(keys) ==
  CASE Is(keys, "union") -> LiteralKeys(keys) \o OtherKeys(keys)
    [] Is(keys, "enum") -> <<keys>> \o NamedValues(keys)
    [] OTHER -> <<keys>>

Templates(template, keys) == [i \in DOMAIN keys |-> TemplateFor(template, keys[i])]

MappedProperties(literals, of, modifier) ==
  [i \in DOMAIN literals |-> MappedProperty(literals[i], of[i], modifier)]

EnumProperties(enum, of, modifier) ==
  [i \in DOMAIN NamedValues(enum) |->
     Property(NamedValues(enum)[i].value, of[i + 1], IsMappedPropertyRequired(modifier, FALSE))]

Mapped(properties, additional) == Raise(WithIndex(ObjectType("indexed-type", <<>>, properties), additional))

\* Over keys that are listed, with an index signature for the last if it is no literal.
MappedOverListed(all, of, modifier) ==
  Mapped(MappedProperties(SelectSeq(all, LAMBDA t : Is(t, "literal")), of, modifier),
         IF all = <<>> \/ Is(Last(all), "literal") THEN NeverType ELSE Last(of))

MappedOverWide(constraint, keys, of, modifier) ==
  IF constraint = NumberType /\ Is(of[1], "union") THEN ArrayType(of[1])
  ELSE CASE keys.k \in {"string", "number", "symbol", "any"} -> Mapped(<<>>, of[1])
         [] Is(keys, "enum") -> Mapped(EnumProperties(keys, of, modifier), NeverType)
         [] Is(keys, "never") -> Mapped(<<>>, NeverType)
         [] OTHER -> Panicked

MappedOver(constraint, keys, of, modifier) ==
  CASE keys.k \in {"union", "literal"} -> MappedOverListed(TemplateKeys(keys), of, modifier)
    [] keys.k \notin {"union", "literal"} /\ of[1] = Panicked -> Panicked
    [] OTHER -> MappedOverWide(constraint, keys, of, modifier)

\* MappedTypeNodeParser: { [K in constraint]modifier: template }, without `as` and
\* without the propertyNames that an annotated constraint adds.
CreateMapped(constraint, template, modifier) ==
  MappedOver(constraint, DerefType(constraint), Templates(template, TemplateKeys(DerefType(constraint))), modifier)

-----------------------------------------------------------------------------
Init ==
  /\ applied = 0
  /\ \/ type \in Operands /\ operator = [is |-> "none"]
     \/ \E e \in Queries : type = Raise(TypeOf(e)) /\ operator = [is |-> "typeof", of |-> e]
     \/ \E name \in DOMAIN Enums : type = CreateEnum(name) /\ operator = [is |-> "enum", name |-> name]
  /\ operand = type

Apply(what, made) ==
  /\ applied < MaxOperators
  /\ type # Panicked
  /\ applied' = applied + 1
  /\ operand' = type
  /\ operator' = what
  /\ type' = made

Intersect == \E other \in Members :
  Apply([is |-> "&", other |-> other], CreateIntersection(<<type, other>>))

IndexedAccess == \E index \in Indexes :
  Apply([is |-> "[]", index |-> index], CreateIndexed(type, index))

KeyOf == Apply([is |-> "keyof"], CreateKeyOf(type))

ReadOnly ==
  /\ Is(DerefType(type), "array") \/ Is(DerefType(type), "tuple")
  /\ Apply([is |-> "readonly"], CreateReadonly(type))

\* { [K in keyof T]: T[K] }, which Partial, Required, Pick and Readonly are.
Map == \E modifier \in {"none", "?", "-?"} :
  Apply([is |-> "map", modifier |-> modifier],
        CreateMapped(CreateKeyOf(type), ElementOf(type), modifier))

\* Record<T, null>, for a T that is made of keys.
Record == Apply([is |-> "record"], CreateMapped(type, Same(NullType), "none"))

Unite == \E other \in Partners :
  Apply([is |-> "|", other |-> other], CreateUnion(<<type, other>>))

\* `${T}s` and `${T}s${T}s`, after the prefix
Template == \E prefix, suffix \in Texts, twice \in BOOLEAN :
  LET span == [type |-> type, suffix |-> suffix] IN
  Apply([is |-> "template", prefix |-> prefix, suffix |-> suffix, twice |-> twice],
        CreateTemplate(prefix, IF twice THEN <<span, span>> ELSE <<span>>))

Intrinsic == \E method \in CaseMappings :
  Apply([is |-> "intrinsic", method |-> method], CreateIntrinsic(method, type))

\* { p: T, q?: other }
PutInObject == \E other \in Partners :
  Apply([is |-> "object", other |-> other],
        CreateTypeLiteral("literal", <<Property("p", type, TRUE), Property("q", other, FALSE)>>, NeverType))

\* [p: other, ...q: T] and [p: T, q?: other]
PutInTuple == \E other \in Partners, dots \in BOOLEAN :
  Apply([is |-> "tuple", other |-> other, dots |-> dots],
        NewTupleType(IF dots THEN <<CreateNamedMember(other, FALSE), CreateNamedMember(type, TRUE)>>
                     ELSE <<CreateNamedMember(type, FALSE), OptionalType(other)>>))

Next ==
  \/ Intersect \/ IndexedAccess \/ KeyOf \/ ReadOnly \/ Map \/ Record
  \/ Unite \/ Template \/ Intrinsic \/ PutInObject \/ PutInTuple

Spec == Init /\ [][Next]_vars

-----------------------------------------------------------------------------
(* Properties *)

\* Undefined meets nothing, null only primitive types, these also {}.
Meets(combination) ==
  \A s, t \in Range(combination) :
    \/ s = t
    \/ /\ UndefinedType \notin {s, t}
       /\ IsPrimitive(s) => IsPrimitive(t) \/ IsEmptyObject(t)
       /\ Has(s, Null, FALSE) => IsPrimitive(t)

\* An intersection has the values all its members have, however unions are
\* nested in them; it panics only if there is none.
IntersectionMeans ==
  operator.is = "&" =>
    LET members == <<operand, operator.other>>
        variants == [i \in {1, 2} |-> DerefAndFlattenUnions(members[i])]
        Common(v) == Has(operand, v, FALSE) /\ Has(operator.other, v, FALSE)
    IN  (\A c \in Range(Combinations(variants)) : Meets(c)) =>
          IF type = Panicked THEN \A v \in Values : ~Common(v)
          ELSE \A v \in Values : Has(type, v, FALSE) <=> Common(v)

\* The objects a type has, by their declared names; none if it is no such type.
RECURSIVE KnownNames(_)
KnownNames(t) ==
  LET d == DerefType(t) IN
  CASE Is(d, "object") -> Names(d)
    [] Is(d, "intersection") -> UNION {KnownNames(m) : m \in Range(d.types)}
    [] OTHER -> {}

IsObjects(t) ==
  LET d == DerefType(t) IN
  \/ Is(d, "object")
  \/ Is(d, "intersection") /\ \A m \in Range(d.types) : Is(DerefType(m), "object")

\* Objects of which there are values with every property, each declared by one
\* member of an intersection only; keyof sees no index signature of a member.
HasSamples(t) ==
  /\ IsObjects(t)
  /\ \E v \in Values : v.k = "fields" /\ KnownNames(t) \subseteq DOMAIN v.fields /\ Has(t, v, TRUE)
  /\ Is(DerefType(t), "intersection") =>
       \A m, n \in Range(DerefType(t).types) :
         /\ m = n \/ KnownNames(m) \cap KnownNames(n) = {}
         /\ Additional(DerefType(m)) = NeverType

Index(name) == LiteralType("string", name)

FieldValues == UNION {Range(v.fields) : v \in {u \in Values : u.k = "fields"}}

\* T["p"] has what a property p of a T can be, an absent one read as undefined,
\* and nothing else.
IndexMeans ==
  operator.is = "[]" /\ HasSamples(operand) =>
    \A name \in KnownNames(operand) : operator.index = Index(name) =>
      /\ \A v \in Values : v.k = "fields" /\ Has(operand, v, FALSE) =>
           Has(type, IF name \in DOMAIN v.fields THEN v.fields[name] ELSE Undefined, FALSE)
      /\ \A w \in FieldValues : Has(type, w, FALSE) =>
           \E v \in Values : v.k = "fields" /\ name \in DOMAIN v.fields
                               /\ v.fields[name] = w /\ Has(operand, v, FALSE)

\* keyof T has the names of T's properties, inherited and in intersections too,
\* and indexing with one of them never fails.
KeysMean ==
  operator.is = "keyof" /\ IsObjects(operand) =>
    LET keys == IF Is(type, "union") THEN Range(type.types) ELSE {type} IN
    /\ {k.value : k \in {t \in keys : Is(t, "literal")}} = KnownNames(operand)
    /\ \A key \in keys : CreateIndexed(operand, key) \notin {Panicked, NeverType}

\* Intersection, T[K] and keyof T mean what TypeScript means by them, whatever
\* operator made the type they are applied to.
OperatorsMean == IntersectionMeans /\ IndexMeans /\ KeysMean

\* A mapped type over T without modifier has the values of T; with ? any part
\* of one; with -? those that have all properties.
MapMeans ==
  operator.is = "map" /\ HasSamples(operand) =>
    \A v \in Values : v.k = "fields" =>
      (Has(type, v, TRUE) <=>
         LET all == KnownNames(operand) IN
         CASE operator.modifier = "none" -> Has(operand, v, TRUE)
           [] operator.modifier = "?" ->
                \E w \in Values : /\ w.k = "fields" /\ Has(operand, w, TRUE)
                                  /\ DOMAIN v.fields \subseteq DOMAIN w.fields
                                  /\ \A n \in DOMAIN v.fields : v.fields[n] = w.fields[n]
           [] operator.modifier = "-?" -> all \subseteq DOMAIN v.fields /\ Has(operand, v, TRUE))

\* Types that are made of strings, as far as unions go, and enums of strings;
\* an enum in a union is taken for a key that is not listed.
RECURSIVE IsStrings(_)
IsStrings(t) ==
  LET d == DerefType(t) IN
  IF Is(d, "union") THEN \A m \in Range(d.types) : IsStrings(m)
  ELSE Is(d, "string") \/ (Is(d, "literal") /\ d.prim = "string")

IsKeys(t) ==
  LET d == DerefType(t) IN
  IF Is(d, "enum") THEN \A m \in Range(d.types) : IsStrings(m) ELSE IsStrings(d)

\* The names a type of keys spells out.
RECURSIVE Spelled(_)
Spelled(t) ==
  LET d == DerefType(t) IN
  CASE d.k \in {"union", "enum"} -> UNION {Spelled(m) : m \in Range(d.types)}
    [] Is(d, "literal") -> {d.value}
    [] OTHER -> {}

\* Record<K, null> has all names K spells out, and no others unless K has string.
RecordMeans ==
  operator.is = "record" /\ IsKeys(operand) =>
    \A v \in Values : v.k = "fields" =>
      (Has(type, v, TRUE) <=>
         /\ Spelled(operand) \subseteq DOMAIN v.fields
         /\ \A n \in DOMAIN v.fields : Has(operand, Atom("string", n), TRUE) /\ v.fields[n] = Null)

\* Mapped types of both kinds have the values TypeScript gives them.
MappedTypesMean == MapMeans /\ RecordMeans

\* What the property below is about: no functions, no key that is given twice,
\* and sums of strings, or of numbers that are no enum members: other sums the
\* parser takes for strings.
RECURSIVE IsPlainExpression(_)
IsPlainExpression(e) ==
  CASE e.e = "identifier" -> Variables[e.name].init # NoInit /\ IsPlainExpression(Variables[e.name].init)
    [] e.e \in {"prefix", "as", "spread"} -> IsPlainExpression(e.of)
    [] e.e = "+" ->
         /\ IsPlainExpression(e.left) /\ IsPlainExpression(e.right)
         /\ \/ ~({Value(e.left).k, Value(e.right).k} \subseteq {"number", "boolean", "null"})
            \/ {Value(e.left).k, Value(e.right).k} = {"number"} /\ "member" \notin {e.left.e, e.right.e}
    [] e.e = "array" -> \A element \in Range(e.of) : IsPlainExpression(element)
    [] e.e = "object" ->
         /\ \A p \in Range(e.properties) : IsPlainExpression(p.of)
         /\ \A s \in Range(e.spreads) :
              IsPlainExpression(s) /\ NamesIn(e.properties) \cap DOMAIN Value(s).fields = {}
    [] e.e = "enum" -> ~Enums[e.enum].ambient
    [] OTHER -> e.e \notin {"function", "none"}

\* Nothing in it is wider than its value: no sums, no types of the checker.
RECURSIVE IsLiteral(_)
IsLiteral(e) ==
  CASE e.e = "identifier" -> Variables[e.name].type = NoType /\ IsLiteral(Variables[e.name].init)
    [] e.e \in {"prefix", "as", "spread"} -> IsLiteral(e.of)
    [] e.e = "array" -> \A element \in Range(e.of) : IsLiteral(element)
    [] e.e = "object" -> e.spreads = <<>> /\ \A p \in Range(e.properties) : p.how = "assigned" /\ IsLiteral(p.of)
    [] e.e = "enum" -> \A m \in Range(Enums[e.enum].members) : m.init = NoInit \/ IsLiteral(m.init)
    [] OTHER -> e.e # "+"

QueriedValues == {Value(e) : e \in {q \in Queries : IsPlainExpression(q)}}

\* typeof x has the value x was given, through constants, spreads, enums and
\* operators, and if all of it was spelled out no other.
TypeofMeans ==
  operator.is = "typeof" /\ type # Panicked /\ IsPlainExpression(operator.of) =>
    /\ Has(type, Value(operator.of), TRUE)
    /\ IsLiteral(operator.of) => \A v \in QueriedValues : Has(type, v, TRUE) => v = Value(operator.of)

\* An enum has the values of its members at run time but for hidden ones, and
\* typeof of the enum agrees with it on each.
EnumsMean ==
  operator.is = "enum" /\ ~Enums[operator.name].ambient =>
    LET members == Enums[operator.name].members
        shown == {i \in DOMAIN members : ~members[i].hidden}
        object == TypeOf(EnumObject(operator.name)) IN
    /\ {Atom(t.prim, t.value) : t \in Range(type.types)} = {EnumValue(members, i) : i \in shown}
    /\ Panicked \notin Parts(object) =>
         \A i \in DOMAIN members : Has(DeclaredAs(object, members[i].name).type, EnumValue(members, i), TRUE)

\* The values of a type that has no others than atoms, and all of those that it
\* spells out.
LiteralsIn(t) == {Atom(l.prim, l.value) : l \in {p \in Parts(t) : Is(p, "literal")}}
AtomsOf(t) == {v \in Values \cup LiteralsIn(t) : Has(t, v, FALSE)}
IsSpelledOut(t) == IsExpandable(ExtractLiterals(t))

\* A template literal type has the texts that a value of the type in each of
\* its places makes, and at least those if there are too many to list.
TemplateMeans ==
  operator.is = "template" =>
    LET Texts1 == {TextOf(v) \o operator.suffix : v \in AtomsOf(operand)}
        texts == {operator.prefix \o t : t \in IF operator.twice THEN {t \o u : t, u \in Texts1} ELSE Texts1}
    IN  /\ \A text \in texts : Has(type, Atom("string", text), TRUE)
        /\ IsSpelledOut(operand) => \A v \in Values : Has(type, v, TRUE) => v.k = "string" /\ v.value \in texts

\* Uppercase<T> and the like have the changed texts and no others.
IntrinsicMeans ==
  operator.is = "intrinsic" /\ type # Panicked =>
    LET texts == {ChangeCase(operator.method, TextOf(v)) : v \in AtomsOf(operand)} IN
    /\ \A text \in texts : Has(type, Atom("string", text), TRUE)
    /\ \A v \in Values : Has(type, v, TRUE) => v.k = "string" /\ v.value \in texts

\* { p: T, q?: U } has the objects with these fields, also if T or U has no
\* values at all; [T, U?] and, for an array type T, [U, ...T] the arrays; T | U
\* what either has, readonly T what T has.
ComposedTypesMean ==
  CASE operator.is = "|" ->
         \A v \in Values : Has(type, v, FALSE) <=> Has(operand, v, FALSE) \/ Has(operator.other, v, FALSE)
    [] operator.is = "readonly" -> \A v \in Values : Has(type, v, TRUE) <=> Has(operand, v, TRUE)
    [] operator.is = "object" /\ ~Has(operand, Undefined, TRUE) ->
         \A v \in Values : v.k = "fields" =>
           (Has(type, v, TRUE) <=>
              /\ "p" \in DOMAIN v.fields /\ Has(operand, v.fields["p"], TRUE)
              /\ "q" \in DOMAIN v.fields => Has(operator.other, v.fields["q"], TRUE)
              /\ DOMAIN v.fields \subseteq {"p", "q"})
    [] operator.is = "tuple" /\ (operator.dots => Is(operand, "array")) ->
         \A v \in Values : v.k = "items" =>
           (Has(type, v, TRUE) <=>
              IF operator.dots
              THEN v.items # <<>> /\ Has(operator.other, Head(v.items), TRUE) /\ Has(operand, ArrayValue(Tail(v.items)), TRUE)
              ELSE /\ Len(v.items) \in {1, 2} /\ Has(operand, v.items[1], TRUE)
                   /\ Len(v.items) = 2 => Has(operator.other, v.items[2], TRUE))
    [] OTHER -> TRUE

\* What is written in the source, as an expression or as a type, has the values it is
\* written to have: of the literals in it, of its enums, templates and fields.
WrittenTypesMean == TypeofMeans /\ EnumsMean /\ TemplateMeans /\ IntrinsicMeans /\ ComposedTypesMean
=============================================================================
