------------------------------- MODULE TypeUtils -------------------------------
(***************************************************************************)
(* The algorithms over types that parsers and formatters share: members of *)
(* unions, intersections of unions, and the keys of types.                 *)
(***************************************************************************)
EXTENDS Types

\* Where the code has nil, and where it panics.
NoType == Prim("nil")
Panicked == Prim("panicked")

RECURSIVE DerefAnnotatedType(_)
DerefAnnotatedType(type) == IF Is(type, "annotated") THEN DerefAnnotatedType(type.item) ELSE type

\* The new type with the annotations of the original.
PreserveAnnotation(original, type) ==
  IF Is(original, "annotated") THEN [original EXCEPT !.item = type] ELSE type

RECURSIVE IsHiddenType(_)
IsHiddenType(type) ==
  CASE Is(type, "definition") -> IsHiddenType(Declarations[type.name])
    [] Is(type, "annotated") -> IsHiddenType(type.item)
    [] OTHER -> IsNeverLike(type)

\* UnionType.FlattenedTypes: members that are named or annotated are looked into
\* (DerefType), or taken as they are.
RECURSIVE FlattenedTypes(_, _)
FlattenedTypes(union, deref) ==
  LET Flat(m) == LET t == IF deref THEN DerefType(m) ELSE m IN
        CASE IsHiddenType(m) -> <<>>
          [] ~IsHiddenType(m) /\ Is(t, "union") -> FlattenedTypes(t, deref)
          [] OTHER -> <<t>>
  IN  FlattenSeq([i \in DOMAIN union.types |-> Flat(union.types[i])])

IsLiteralUnion(union) ==
  \A t \in Range(FlattenedTypes(union, FALSE)) : t.k \in {"literal", "null", "string", "enum"}

RECURSIVE IsDeepLiteralUnion(_)
IsDeepLiteralUnion(type) ==
  LET t == DerefType(type)
  IN  Is(t, "literal") \/ (Is(t, "union") /\ \A m \in Range(t.types) : IsDeepLiteralUnion(m))

SingleOrUnion(types) == IF Len(types) = 1 THEN types[1] ELSE NewUnionType(types)

\* A union without undefined, at any depth that has no name.
RECURSIVE RemoveUndefined(_)
RemoveUndefined(union) ==
  LET Without(t) ==
        LET d == DerefAnnotatedType(t) IN
        CASE Is(d, "undefined") -> [removed |-> TRUE, kept |-> <<>>]
          [] Is(d, "union") -> LET sub == RemoveUndefined(d)
                               IN  [removed |-> sub.removed, kept |-> <<PreserveAnnotation(t, sub.type)>>]
          [] OTHER -> [removed |-> FALSE, kept |-> <<t>>]
      members == [i \in DOMAIN union.types |-> Without(union.types[i])]
      kept == FlattenSeq([i \in DOMAIN members |-> members[i].kept])
  IN  [removed |-> \E m \in Range(members) : m.removed,
       type |-> IF kept = <<>> THEN UndefinedType ELSE SingleOrUnion(kept)]

\* The variants of a union, as deep as unions go.
RECURSIVE DerefAndFlattenUnions(_)
DerefAndFlattenUnions(type) ==
  LET t == DerefType(type)
  IN  IF Is(t, "union") THEN FlattenSeq([i \in DOMAIN t.types |-> DerefAndFlattenUnions(t.types[i])])
      ELSE <<type>>

\* One variant of each, the last one varying fastest.
RECURSIVE Combinations(_)
Combinations(unions) ==
  IF unions = <<>> THEN << <<>> >>
  ELSE LET rest == Combinations(Tail(unions))
           With(m) == [i \in DOMAIN rest |-> <<m>> \o rest[i]]
       IN  FlattenSeq([i \in DOMAIN unions[1] |-> With(unions[1][i])])

\* Mutant of Combine: of two primitives one is taken.
CombineFirstPrimitive(combination) ==
  LET all == UniqueTypes(combination)
      primitives == SelectSeq(all, IsPrimitive)
  IN  CASE Contains(all, UndefinedType) -> <<UndefinedType>>
        [] ~Contains(all, UndefinedType) /\ Len(primitives) >= 1 -> <<primitives[1]>>
        [] OTHER -> <<IF Len(all) = 1 THEN all[1] ELSE IntersectionType(all)>>

\* Mutant of Combine: a variant that is in it twice stays twice.
CombineWithDuplicates(combination) ==
  LET primitives == SelectSeq(combination, IsPrimitive)
  IN  CASE Contains(combination, UndefinedType) -> <<UndefinedType>>
        [] ~Contains(combination, UndefinedType) /\ Len(primitives) = 1 -> primitives
        [] ~Contains(combination, UndefinedType) /\ Len(primitives) > 1 -> <<>>
        [] OTHER -> <<IntersectionType(combination)>>

\* What one variant of each come to, nothing if that is impossible.
Combine(combination) ==
  LET all == UniqueTypes(combination)
      primitives == SelectSeq(all, IsPrimitive)
  IN  CASE Contains(all, UndefinedType) -> <<UndefinedType>>
        [] ~Contains(all, UndefinedType) /\ Len(primitives) = 1 -> primitives
        [] ~Contains(all, UndefinedType) /\ Len(primitives) > 1 -> <<>>
        [] OTHER -> <<IF Len(all) = 1 THEN all[1] ELSE IntersectionType(all)>>

\* An intersection of unions as a union of intersections.
Translate(memberTypes) ==
  LET members == UniqueTypes(memberTypes)
      unions == [i \in DOMAIN members |-> DerefAndFlattenUnions(members[i])]
      all == Combinations(unions)
      result == FlattenSeq([i \in DOMAIN all |-> Combine(all[i])])
  IN  IF Len(members) = 1 THEN members[1]
      ELSE IF result = <<>> THEN Panicked
      ELSE SingleOrUnion(result)

\* Mutant of GetTypeKeys: the base types have no keys.
GetTypeKeysOwn(type) ==
  LET t == DerefType(type) IN
  CASE Is(t, "object") -> [i \in DOMAIN t.properties |-> LiteralType("string", t.properties[i].name)]
    [] Is(t, "tuple") -> [i \in DOMAIN t.types |-> LiteralType("number", ToString(i - 1))]
    [] OTHER -> <<>>

RECURSIVE GetTypeKeys(_)
GetTypeKeys(type) ==
  LET t == DerefType(type) IN
  UniqueTypes(
    CASE t.k \in {"intersection", "union"} -> FlattenSeq([i \in DOMAIN t.types |-> GetTypeKeys(t.types[i])])
      [] Is(t, "tuple") -> [i \in DOMAIN t.types |-> LiteralType("number", ToString(i - 1))]
      [] Is(t, "object") ->
           [i \in DOMAIN t.properties |-> LiteralType("string", t.properties[i].name)]
             \o FlattenSeq([i \in DOMAIN t.types |-> GetTypeKeys(t.types[i])])
      [] OTHER -> <<>>)

\* Mutant of OptionalPropertyType: a union is taken to say so itself.
OptionalPropertyTypeOfOne(type) ==
  IF Is(type, "union") THEN type ELSE NewUnionType(<<type, UndefinedType>>)

\* The type of an optional property is undefined as well.
OptionalPropertyType(type) ==
  IF ~Is(type, "union") THEN NewUnionType(<<type, UndefinedType>>)
  ELSE IF Contains(type.types, UndefinedType) THEN type
  ELSE NewUnionType(Append(type.types, UndefinedType))

FirstOr(types, default) == IF types = <<>> THEN default ELSE types[1]

Found(types) == SelectSeq(types, LAMBDA t : t # NoType)

\* The type of a property as an indexed access has it.
TypeOfProperty(p) ==
  LET type == DerefAnnotatedType(p.type)
  IN  PreserveAnnotation(p.type, IF p.required THEN type ELSE OptionalPropertyType(type))

\* What the members of a union or an intersection have under one key, as one type.
Composed(kind, types) ==
  IF Len(types) < 2 THEN FirstOr(types, NoType)
  ELSE PreserveAnnotation(types[1], IF kind = "union" THEN NewUnionType(types) ELSE Translate(types))

\* The type of the property an index names; indexes are literals, string and number.
RECURSIVE GetTypeByKey(_, _)
GetTypeByKey(type, index) ==
  LET t == DerefType(type)
      OfMembers == Found([i \in DOMAIN t.types |-> GetTypeByKey(t.types[i], index)])
      Own == SelectSeq(t.properties, LAMBDA p : index = LiteralType("string", p.name))
  IN
  CASE t.k \in {"intersection", "union"} -> Composed(t.k, UniqueTypes(OfMembers))
    [] Is(t, "tuple") ->
         LET at == {i \in DOMAIN t.types : index = LiteralType("number", ToString(i - 1))}
         IN  IF at = {} THEN NoType ELSE t.types[CHOOSE i \in at : TRUE]
    [] Is(t, "array") -> IF Is(index, "number") THEN t.item ELSE NoType
    [] Is(t, "object") ->
         IF Own # <<>> THEN TypeOfProperty(Own[1])
         ELSE FirstOr(OfMembers, IF t.additional = NeverType THEN NoType ELSE t.additional)
    [] OTHER -> NoType
=============================================================================
