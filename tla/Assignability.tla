----------------------------- MODULE Assignability -----------------------------
(***************************************************************************)
(* IsAssignableTo: the structural check behind conditional types.  A check *)
(* that meets a placeholder (infer T) of the target writes what it stands  *)
(* for into a map that the caller keeps, whatever the check comes to; so   *)
(* every check takes the map and returns it with its verdict.              *)
(***************************************************************************)
EXTENDS Types

NoInferences == <<>>

\* InferMap.Set, and how a placeholder that is met again widens.
Infer(inferred, name, source) ==
  LET type == IF name \in DOMAIN inferred THEN NewUnionType(<<inferred[name], source>>) ELSE source
  IN  [n \in DOMAIN inferred \cup {name} |-> IF n = name THEN type ELSE inferred[n]]

Verdict(ok, inferred) == [ok |-> ok, inferred |-> inferred]
Yes(inferred) == Verdict(TRUE, inferred)
No(inferred) == Verdict(FALSE, inferred)

\* combineIntersectingTypes: the object types of an intersection as one.
Combined(intersection) ==
  LET objects == SelectSeq(intersection.types, LAMBDA t : Is(t, "object"))
      others == SelectSeq(intersection.types, LAMBDA t : ~Is(t, "object"))
  IN  IF Len(objects) > 1 THEN Append(others, ObjectType("combined", objects, <<>>))
      ELSE others \o objects

\* getObjectProperties
RECURSIVE ObjectProperties(_)
ObjectProperties(type) ==
  LET t == DerefType(type)
  IN  IF Is(t, "object") THEN t.properties \o FlattenSeq([i \in DOMAIN t.types |-> ObjectProperties(t.types[i])]) ELSE <<>>

\* membersByName: the first of a name.
MemberNamed(members, name) == SelectSeq(members, LAMBDA m : m.name = name)[1]
NamesOf(members) == {m.name : m \in Range(members)}

\* Every target is followed by what is to be checked against it.
AllOf(target, sources) == [i \in DOMAIN sources |-> <<target, sources[i]>>]
AnyOf(targets, source) == [i \in DOMAIN targets |-> <<targets[i], source>>]

\* A tuple against a tuple: for each target member in turn, the pairs of which
\* one has to be assignable.
TupleTests(target, source) ==
  LET n == Len(target.types)
      m == Len(source.types)
      Test(i) ==
        LET member == target.types[i] IN
        IF i = n /\ n <= m + 1 /\ Is(member, "rest")
          THEN << << <<member.item, NewTupleType(SubSeq(source.types, i, m))>> >> >>
        ELSE IF i = n /\ n < m THEN << <<>> >>
        ELSE IF Is(member, "optional")
          THEN IF i > m THEN <<>>
               ELSE << << <<member, source.types[i]>>, <<member.item, source.types[i]>> >> >>
        ELSE IF i > m THEN << <<>> >>
        ELSE << << <<member, source.types[i]>> >> >>
  IN  FlattenSeq([i \in 1..n |-> Test(i)])

\* Every member of the target is in the source, or is optional and they have
\* some other member in common.
MembersPresent(targetMembers, sourceMembers) ==
  LET inCommon == NamesOf(targetMembers) \cap NamesOf(sourceMembers) # {}
  IN  \A m \in Range(targetMembers) :
        m.name \notin NamesOf(sourceMembers) => inCommon /\ ~m.required

\* An array or tuple as an object: by its length alone.
LengthMatches(targetMembers, source) ==
  LET lengths == SelectSeq(targetMembers, LAMBDA m : m.name = "length" /\ m.required)
  IN  /\ lengths # <<>>
      /\ IF Is(source, "array") THEN lengths[1].type = NumberType
         ELSE lengths[1].type = LiteralType("number", ToString(Len(source.types)))

\* The primitive type of a literal.
GetPrimitiveType(literal) == Prim(literal.prim)

Nullish == NewUnionType(<<UndefinedType, NullType>>)

\* The objects a check is inside of; a combined object is made anew each time.
Enter(inside, source, target) == inside \cup {t \in {source, target} : t.id # "combined"}

\* (...args: any) accepts the parameters of every function.
AcceptsAny(parameters) == \A p \in Range(parameters) : DerefType(p.type) = AnyType

-----------------------------------------------------------------------------
RECURSIVE IsAssignable(_, _, _, _)

\* One pair after the other, up to the first that fails ...
RECURSIVE CheckAll(_, _, _)
CheckAll(pairs, inferred, inside) ==
  IF pairs = <<>> THEN Yes(inferred)
  ELSE LET first == IsAssignable(pairs[1][1], pairs[1][2], inferred, inside)
       IN  IF first.ok THEN CheckAll(Tail(pairs), first.inferred, inside) ELSE first

\* Mutant of CheckAny: only the first is tried.
CheckAnyFirst(pairs, inferred, inside) ==
  IF pairs = <<>> THEN No(inferred) ELSE IsAssignable(pairs[1][1], pairs[1][2], inferred, inside)

\* ... or the first that does not.
RECURSIVE CheckAny(_, _, _)
CheckAny(pairs, inferred, inside) ==
  IF pairs = <<>> THEN No(inferred)
  ELSE LET first == IsAssignable(pairs[1][1], pairs[1][2], inferred, inside)
       IN  IF first.ok THEN first ELSE CheckAny(Tail(pairs), first.inferred, inside)

RECURSIVE CheckTests(_, _, _)
CheckTests(tests, inferred, inside) ==
  IF tests = <<>> THEN Yes(inferred)
  ELSE LET first == CheckAny(tests[1], inferred, inside)
       IN  IF first.ok THEN CheckTests(Tail(tests), first.inferred, inside) ELSE first

FunctionAssignable(t, s, inferred, inside) ==
  LET arguments ==
        IF Is(t.args, "infer")
          THEN Yes(IsAssignable(t.args, s.args, inferred, inside).inferred)
        ELSE IF AcceptsAny(ObjectProperties(t.args)) THEN Yes(inferred)
        ELSE IsAssignable(t.args, s.args, inferred, inside)
  IN  IF arguments.ok THEN IsAssignable(t.item, s.item, arguments.inferred, inside) ELSE arguments

\* Mutant of ObjectAssignable: members are compared the wrong way round.
ObjectAssignableSwapped(t, s, inferred, inside) ==
  LET targetMembers == ObjectProperties(t)
      sourceMembers == ObjectProperties(s)
      common == SelectSeq(sourceMembers, LAMBDA m : m.name \in NamesOf(targetMembers))
  IN  IF ~MembersPresent(targetMembers, sourceMembers) THEN No(inferred)
      ELSE CheckAll([i \in DOMAIN common |-> <<common[i].type, MemberNamed(targetMembers, common[i].name).type>>],
               inferred, Enter(inside, s, t))

\* Objects: a member of the source against the target's of the same name.
ObjectAssignable(t, s, inferred, inside) ==
  LET targetMembers == ObjectProperties(t)
      sourceMembers == ObjectProperties(s)
      common == SelectSeq(sourceMembers, LAMBDA m : m.name \in NamesOf(targetMembers))
  IN  IF ~MembersPresent(targetMembers, sourceMembers) THEN No(inferred)
      ELSE CheckAll([i \in DOMAIN common |-> <<MemberNamed(targetMembers, common[i].name).type, common[i].type>>],
               inferred, Enter(inside, s, t))

\* Something against an object type.
ToObject(t, s, inferred, inside) ==
  IF t.nonPrimitive /\ s.k \in {"number", "string", "boolean"} THEN No(inferred)
  ELSE IF ObjectProperties(t) = <<>>
    THEN LET nullish == IsAssignable(Nullish, s, inferred, inside)
         IN  Verdict(~nullish.ok, nullish.inferred)
  ELSE IF Is(s, "object") THEN ObjectAssignable(t, s, inferred, inside)
  ELSE Verdict(s.k \in {"array", "tuple"} /\ LengthMatches(ObjectProperties(t), s), inferred)

\* isAssignableTo, with its early returns in their order.
IsAssignable(target, source, inferred, inside) ==
  LET s == DerefType(source)
      t == DerefType(target)
  IN
  IF IsNeverLike(s) THEN Yes(inferred)
  ELSE IF IsNeverLike(t) THEN No(inferred)
  ELSE IF Is(t, "infer") THEN Yes(Infer(inferred, t.name, s))
  ELSE IF Is(t, "function")
    THEN IF Is(s, "function") THEN FunctionAssignable(t, s, inferred, inside) ELSE No(inferred)
  ELSE IF s = t \/ s \in inside \/ t \in inside THEN Yes(inferred)
  ELSE IF Is(s, "any") \/ Is(t, "any") \/ Is(t, "unknown") THEN Yes(inferred)
  ELSE IF Is(t, "void") THEN Verdict(s.k \in {"null", "undefined"}, inferred)
  ELSE IF s.k \in {"union", "enum"} THEN CheckAll(AllOf(t, s.types), inferred, inside)
  ELSE IF Is(s, "intersection") THEN CheckAny(AllOf(t, Combined(s)), inferred, inside)
  ELSE IF Is(t, "array")
    THEN CASE Is(s, "array") -> IsAssignable(t.item, s.item, inferred, inside)
           [] Is(s, "tuple") -> IsAssignable(t.item, NewUnionType(s.types), inferred, inside)
           [] OTHER -> No(inferred)
  ELSE IF t.k \in {"union", "enum"} THEN CheckAny(AnyOf(t.types, s), inferred, inside)
  ELSE IF Is(t, "intersection") THEN CheckAll(AnyOf(Combined(t), s), inferred, inside)
  ELSE IF Is(s, "literal") THEN IsAssignable(t, GetPrimitiveType(s), inferred, {})
  ELSE IF Is(t, "object") THEN ToObject(t, s, inferred, inside)
  ELSE IF Is(t, "tuple") /\ Is(s, "tuple") THEN CheckTests(TupleTests(t, s), inferred, inside)
  ELSE No(inferred)

IsAssignableTo(target, source, inferred) == IsAssignable(target, source, inferred, {})
=============================================================================
