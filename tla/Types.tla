--------------------------------- MODULE Types ---------------------------------
(***************************************************************************)
(* The intermediate types as the parsers compare and combine them: trees   *)
(* in which a reference names a declaration.  Two types with one ID are    *)
(* one tree, so ID() is the tree itself; an object carries the key of the  *)
(* node it was made from and that key stands for its pointer as well.      *)
(*                                                                         *)
(* The module also says which values a type has, which no code does: it is *)
(* what TypeScript means by the type, and what the algorithms over types   *)
(* are compared with.                                                      *)
(***************************************************************************)
EXTENDS Naturals, Sequences, SequencesExt, Functions

CONSTANT Declarations  \* name -> the type declared under it

Prim(kind) == [k |-> kind]
StringType == Prim("string")
NumberType == Prim("number")
NullType == Prim("null")
UndefinedType == Prim("undefined")
VoidType == Prim("void")
NeverType == Prim("never")
AnyType == Prim("any")
UnknownType == Prim("unknown")

\* prim is the primitive type of the value; numbers are written as strings too.
LiteralType(prim, value) == [k |-> "literal", prim |-> prim, value |-> value]
ArrayType(item) == [k |-> "array", item |-> item]
OptionalType(item) == [k |-> "optional", item |-> item]
RestType(item) == [k |-> "rest", item |-> item]
InferType(name) == [k |-> "infer", name |-> name]
\* tag: the property a @discriminator names and the comment it is in, or NoTag.
AnnotatedType(item, nullable, tag) ==
  [k |-> "annotated", item |-> item, nullable |-> nullable, tag |-> tag]
Tag(name, at) == [name |-> name, at |-> at]
NoTag == Tag("", "")
DefinitionType(name) == [k |-> "definition", name |-> name]
IntersectionType(types) == [k |-> "intersection", types |-> types]
EnumType(id, types) == [k |-> "enum", id |-> id, types |-> types]
\* args: an object or infer type, or NeverType for no argument list.
FunctionType(args, ret) == [k |-> "function", args |-> args, item |-> ret]

Property(name, type, required) == [name |-> name, type |-> type, required |-> required]
ObjectType(id, bases, properties) ==
  [k |-> "object", id |-> id, types |-> bases, properties |-> properties,
   additional |-> NeverType, nonPrimitive |-> FALSE]
\* AnyType as what else an object may have: any property at all.
NonPrimitive ==
  [ObjectType("object", <<>>, <<>>) EXCEPT !.nonPrimitive = TRUE, !.additional = AnyType]

\* The object type with an index signature for values of the type.
WithIndex(object, type) == [object EXCEPT !.additional = type]

Is(type, kind) == type.k = kind
IsNeverLike(type) == Is(type, "never")
IsPrimitive(type) == type.k \in {"string", "number", "boolean", "null", "symbol"}

RECURSIVE DerefType(_)
DerefType(type) ==
  CASE Is(type, "definition") -> DerefType(Declarations[type.name])
    [] Is(type, "annotated") -> DerefType(type.item)
    [] OTHER -> type

\* The first of every ID.
UniqueTypes(types) ==
  LET firsts[n \in 0..Len(types)] ==  \* among the first n
        IF n = 0 THEN <<>>
        ELSE firsts[n - 1] \o (IF \E i \in 1..n - 1 : types[i] = types[n] THEN <<>> ELSE <<types[n]>>)
  IN  firsts[Len(types)]

UnionMembers(t) ==
  IF Is(t, "union") THEN t.types ELSE IF IsNeverLike(t) THEN <<>> ELSE <<t>>

NewUnionType(types) ==
  [k |-> "union", types |-> UniqueTypes(FlattenSeq([i \in DOMAIN types |-> UnionMembers(types[i])]))]

\* UnionType.Normalize
RECURSIVE Normalize(_)
Normalize(union) ==
  IF union.types = <<>> THEN NeverType
  ELSE IF Len(union.types) = 1 THEN union.types[1]
  ELSE LET kept == NewUnionType(SelectSeq(union.types, LAMBDA t : ~IsNeverLike(DerefType(t))))
       IN  IF Len(kept.types) > 1 THEN kept ELSE Normalize(kept)

\* normalizeTupleMembers: a rest of a tuple is part of the tuple.
RECURSIVE TupleMembers(_)
TupleMembers(types) ==
  LET Flat(t) == IF Is(t, "rest") /\ Is(DerefType(t.item), "tuple")
                 THEN TupleMembers(DerefType(t.item).types) ELSE <<t>>
  IN  FlattenSeq([i \in DOMAIN types |-> Flat(types[i])])

NewTupleType(types) == [k |-> "tuple", types |-> TupleMembers(types)]

-----------------------------------------------------------------------------
(* What TypeScript means by a type: values are atoms, arrays and objects.  *)

Atom(prim, value) == [k |-> prim, value |-> value]
Null == [k |-> "null"]
Undefined == [k |-> "undefined"]
ArrayValue(items) == [k |-> "items", items |-> items]
ObjectValue(fields) == [k |-> "fields", fields |-> fields]

\* A property of an object, or the length of an array.
FieldsOf(v) ==
  CASE v.k = "fields" -> v.fields
    [] v.k = "items" -> [n \in {"length"} |-> Atom("number", ToString(Len(v.items)))]
    [] OTHER -> <<>>

\* The declared properties, an object's own before those of its bases.
RECURSIVE Declared(_)
Declared(object) ==
  object.properties \o FlattenSeq([i \in DOMAIN object.types |-> Declared(DerefType(object.types[i]))])

Names(object) == {p.name : p \in Range(Declared(object))}
DeclaredAs(object, name) == LET all == Declared(object)
  IN all[CHOOSE i \in DOMAIN all :
           all[i].name = name /\ \A j \in 1..i - 1 : all[j].name # name]

\* What the index signature of an object or its bases allows beside these.
RECURSIVE Additional(_)
Additional(object) ==
  IF Is(object.additional, "never") /\ object.types # <<>>
  THEN Additional(DerefType(object.types[1])) ELSE object.additional

\* A type and all it is written with.
RECURSIVE Parts(_)
Parts(type) == {type} \cup
  CASE type.k \in {"array", "optional", "rest", "annotated"} -> Parts(type.item)
    [] type.k \in {"union", "enum", "tuple", "intersection"} -> UNION {Parts(m) : m \in Range(type.types)}
    [] Is(type, "object") ->
         Parts(type.additional) \cup UNION {Parts(p.type) : p \in Range(type.properties)}
           \cup UNION {Parts(m) : m \in Range(type.types)}
    [] Is(type, "function") -> Parts(type.args) \cup Parts(type.item)
    [] OTHER -> {}

\* Is v a value of the type?  Exactly so if it is an object with no property but
\* those the type declares, as a literal or a JSON document is looked at.  A
\* property that is absent reads as undefined.
RECURSIVE Has(_, _, _)
Has(type, v, exactly) ==
  LET t == DerefType(type)
      Match[i \in Nat, j \in Nat] ==  \* tuple members from i on, items from j on
        IF i > Len(t.types) THEN j > Len(v.items)
        ELSE LET member == t.types[i] IN
          CASE Is(member, "rest") ->
                 Has(member.item, ArrayValue(SubSeq(v.items, j, Len(v.items))), exactly)
            [] Is(member, "optional") ->
                 j > Len(v.items) \/ (Has(member.item, v.items[j], exactly) /\ Match[i + 1, j + 1])
            [] OTHER -> j <= Len(v.items) /\ Has(member, v.items[j], exactly) /\ Match[i + 1, j + 1]
      Known(n) == \E m \in Range(t.types) :
        Is(DerefType(m), "object") => n \in Names(DerefType(m)) \/ Additional(DerefType(m)) # NeverType
  IN
  CASE Is(type, "annotated") -> (type.nullable /\ v = Null) \/ Has(type.item, v, exactly)
    [] Is(type, "definition") -> Has(Declarations[type.name], v, exactly)
    [] t.k \in {"string", "number", "boolean", "null", "undefined"} -> v.k = t.k
    [] Is(t, "void") -> v.k \in {"null", "undefined"}
    [] Is(t, "literal") -> v = Atom(t.prim, t.value)
    [] t.k \in {"any", "unknown"} -> TRUE
    [] t.k \in {"union", "enum"} -> \E m \in Range(t.types) : Has(m, v, exactly)
    [] Is(t, "intersection") ->
         /\ \A m \in Range(t.types) : Has(m, v, FALSE)
         /\ exactly =>
              /\ v.k = "fields" => \A n \in DOMAIN v.fields : Known(n)
              /\ v.k = "fields" \/ \E m \in Range(t.types) : ~Is(DerefType(m), "object")
    [] Is(t, "array") -> v.k = "items" /\ \A i \in DOMAIN v.items : Has(t.item, v.items[i], exactly)
    [] Is(t, "tuple") -> v.k = "items" /\ Match[1, 1]
    [] Is(t, "object") ->
         /\ v.k \notin {"null", "undefined"}
         /\ t.nonPrimitive => v.k \in {"items", "fields"}
         /\ exactly => v.k = "fields"
         /\ \A n \in Names(t) :
              LET p == DeclaredAs(t, n) IN
              IF n \in DOMAIN FieldsOf(v) THEN Has(p.type, FieldsOf(v)[n], exactly)
              ELSE ~p.required \/ Has(p.type, Undefined, exactly)
         /\ v.k = "fields" =>
              \A n \in DOMAIN v.fields \ Names(t) :
                \/ Additional(t) = NeverType /\ ~exactly
                \/ Has(Additional(t), v.fields[n], exactly)
    [] OTHER -> FALSE  \* never; functions, placeholders: not compared by value
=============================================================================
