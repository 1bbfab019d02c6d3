----------------------------- MODULE TypeFormatter -----------------------------
(***************************************************************************)
(* From types to schemas: the type formatters behind the memo of           *)
(* CircularReferenceTypeFormatter, and the schema generator that formats   *)
(* the root types of a request and then every definition they refer to.    *)
(* One formatter serves all requests of a process (--outdir); the tags of  *)
(* @discriminator comments are written into the union types it shares.     *)
(*                                                                         *)
(* A formatter asks for the definitions of some types in order (Operands)  *)
(* and builds its own from them (Build); what panics makes the request     *)
(* fail.  Types are compared as trees here, which are as good as pointers  *)
(* where no two declarations write the same union; definitions are values, *)
(* and that the code hands out pointers to them is in Remembered only.  No *)
(* type is inside itself but through a $ref, so that the empty definition  *)
(* the memo has meanwhile is never met.  Functions and the                 *)
(* PreserveLiterals of `string & {}` are left out.                         *)
(***************************************************************************)
EXTENDS TypeUtils, Schemas

CONSTANTS
  Batches,  \* sequences of requests; a request is a sequence of root types
  Values    \* the JSON values schemas and types are compared by

VARIABLES
  discriminatorType,  \* the encoding of discriminated unions
  batch,        \* the requests of this process
  served,       \* the schemas of the requests served
  rootDefs,     \* definitions of the root types of the current request so far
  definitions,  \* definitions of their children so far, by name
  formatter     \* memo: definitions by type; tags: the discriminators of union
                \* types; spent: tags that were taken off; failed: why it panicked

vars == <<discriminatorType, batch, served, rootDefs, definitions, formatter>>

-----------------------------------------------------------------------------
(* What each formatter needs. *)

\* prepareObjectProperty: a property that may be undefined is not required, and
\* undefined is no type of it.
PrepareProperty(property) ==
  LET t == DerefType(property.type)
      without == RemoveUndefined(t)
  IN  CASE Is(t, "undefined") -> Property(property.name, property.type, FALSE)
        [] Is(t, "union") /\ without.removed ->
             Property(property.name, PreserveAnnotation(property.type, without.type), FALSE)
        [] OTHER -> property

\* An object without other properties does without those of type never.
Prepared(object) ==
  LET kept == IF object.additional = NeverType
              THEN SelectSeq(object.properties, LAMBDA p : ~IsNeverLike(DerefType(p.type)))
              ELSE object.properties
  IN  [i \in DOMAIN kept |-> PrepareProperty(kept[i])]

TypesOf(properties) == [i \in DOMAIN properties |-> properties[i].type]

HasTypedIndex(object) == object.additional.k \notin {"never", "any", "symbol"}

IsPrimitiveUnion(union) ==
  union.types # <<>> /\ \A t \in Range(union.types) : t.k \in {"string", "number", "boolean", "null"}

\* Unions that are listed instead of looked into.
IsListed(union) == IsPrimitiveUnion(union) \/ (union.types # <<>> /\ IsLiteralUnion(union))

NotHidden(types) == SelectSeq(types, LAMBDA t : ~IsNeverLike(DerefType(t)))

KindTypes(union, tag) ==
  LET members == NotHidden(union.types)
  IN  [i \in DOMAIN members |-> GetTypeByKey(members[i], LiteralType("string", tag))]

IsArrayLike(t) == t.k \in {"array", "tuple"}
NotArrayLike(types) == SelectSeq(types, LAMBDA t : ~IsArrayLike(t))

RequiredItems(tuple) ==
  SelectSeq(tuple.types, LAMBDA t : ~IsNeverLike(t) /\ t.k \notin {"optional", "rest"})
OptionalItems(tuple) == SelectSeq(tuple.types, LAMBDA t : Is(t, "optional"))
RestItems(tuple) ==  \* none or one: of several, the first
  LET rests == SelectSeq(tuple.types, LAMBDA t : Is(t, "rest"))
  IN  IF rests = <<>> THEN <<>> ELSE <<rests[1]>>

\* [A, A, A?] or [A, ...A[]]; a rest has an array in it, tuples are normalized.
IsUniform(tuple) ==
  LET items == RequiredItems(tuple) \o [i \in DOMAIN OptionalItems(tuple) |-> OptionalItems(tuple)[i].item]
  IN  /\ items # <<>>
      /\ \A t \in Range(items) : t = items[1]
      /\ \A r \in Range(RestItems(tuple)) : Is(r.item, "array") /\ r.item.item = items[1]

\* The types whose definitions make the definition of a type, in order.
Operands(type, tags) ==
  CASE type.k \in {"annotated", "optional", "rest", "array"} -> <<type.item>>
    [] Is(type, "object") ->
         TypesOf(Prepared(type))
           \o (IF HasTypedIndex(type) THEN <<type.additional>> ELSE <<>>)
           \o [i \in DOMAIN type.types |-> DerefType(type.types[i])]
    [] Is(type, "union") ->
         IF IsListed(type) THEN <<>>
         ELSE NotHidden(type.types)
                \o (IF type \in DOMAIN tags /\ discriminatorType = "json-schema"
                    THEN Found(KindTypes(type, tags[type])) ELSE <<>>)
    [] Is(type, "tuple") ->
         IF IsUniform(type) THEN <<Head(RequiredItems(type) \o OptionalItems(type))>>
         ELSE RequiredItems(type) \o OptionalItems(type) \o RestItems(type)
    [] Is(type, "intersection") ->
         SelectSeq(type.types, IsArrayLike)
           \o [i \in DOMAIN NotArrayLike(type.types) |-> DerefType(NotArrayLike(type.types)[i])]
    [] OTHER -> <<>>

-----------------------------------------------------------------------------
(* What each formatter builds. *)

\* The literals and enum values under a type name, once each.
ConstOrEnumOf(values) ==
  LET unique == UniqueTypes(values)
  IN  ("type" :> UniqueTypes([i \in DOMAIN unique |-> TypeName(unique[i])]))
        @@ IF Len(unique) = 1 THEN "const" :> unique[1] ELSE "enum" :> unique

ValuesOf(type) ==
  CASE Is(type, "enum") -> [i \in DOMAIN type.types |-> Atom(type.types[i].prim, type.types[i].value)]
    [] Is(type, "literal") -> <<Atom(type.prim, type.value)>>
    [] Is(type, "null") -> <<Null>>
    [] OTHER -> <<>>

PrimitiveUnionDefinition(union) == "type" :> UniqueTypes([i \in DOMAIN union.types |-> union.types[i].k])

LiteralUnionDefinition(union) ==
  LET members == FlattenedTypes(union, FALSE)
      hasString == Contains(members, StringType)
      allStrings == \A t \in Range(members) : Is(t, "literal") => t.prim = "string"
      listed == ConstOrEnumOf(FlattenSeq([i \in DOMAIN members |-> ValuesOf(members[i])]))
  IN  CASE hasString /\ allStrings ->
             "type" :> (<<"string">> \o IF Contains(members, NullType) THEN <<"null">> ELSE <<>>)
        [] hasString /\ ~allStrings -> "anyOf" :> <<TypeIs("string"), listed>>
        [] OTHER -> listed

\* A union in a union is one union.
UnionDefinition(defs) ==
  LET Flat(def) == IF DOMAIN def = {"anyOf"} THEN def["anyOf"] ELSE <<def>>
      all == FlattenSeq([i \in DOMAIN defs |-> Flat(defs[i])])
  IN  CASE all = <<>> -> Anything [] Len(all) = 1 -> all[1] [] OTHER -> "anyOf" :> all

\* The values the variants of a union say they are of, by their definitions.
KindValues(kinds) == FlattenSeq([i \in DOMAIN kinds |-> ConstOrEnum(kinds[i])])

DiscriminatedDefinition(tag, defs, kinds) ==
  "type" :> <<"object">> @@ "required" :> {tag}
    @@ "properties" :> (tag :> ("enum" :> KindValues(kinds)))
    @@ "allOf" :> [i \in DOMAIN defs |->
                     "if" :> ("properties" :> (tag :> kinds[i])) @@ "then" :> defs[i]]

OpenApiDefinition(tag, defs) ==
  "type" :> <<"object">> @@ "required" :> {tag} @@ "discriminator" :> tag @@ "oneOf" :> defs

\* own: definitions of the prepared properties; more: that of the index signature.
ObjectDefinition(object, properties, own, more) ==
  LET required == {p.name : p \in {p \in Range(properties) : p.required}}
      Latest(n) == CHOOSE i \in DOMAIN properties :
                   properties[i].name = n /\ \A j \in DOMAIN properties : properties[j].name = n => j <= i
      names == {p.name : p \in Range(properties)}
  IN  TypeIs("object")
        @@ If(names # {}, "properties" :> [n \in names |-> own[Latest(n)]])
        @@ If(required # {}, "required" :> required)
        @@ If(object.additional = NeverType, "additionalProperties" :> False)
        @@ If(more # <<>>, "additionalProperties" :> FirstOr(more, Anything))

TupleDefinition(tuple, defs) ==
  LET least == Len(RequiredItems(tuple))
      most == least + Len(OptionalItems(tuple))
      rest == RestItems(tuple)
      restItems == Said(Last(defs), "items", Nothing)
  IN
  CASE IsUniform(tuple) ->
         TypeIs("array") @@ "items" :> defs[1] @@ "minItems" :> least @@ If(rest = <<>>, "maxItems" :> most)
    [] ~IsUniform(tuple) /\ most > 0 ->
         TypeIs("array") @@ "tuple" :> SubSeq(defs, 1, most) @@ "minItems" :> least
           @@ (IF rest = <<>> THEN "maxItems" :> most ELSE "additionalItems" :> restItems)
    [] OTHER ->
         TypeIs("array") @@ "minItems" :> 0
           @@ (IF rest = <<>> THEN "maxItems" :> 0 ELSE "items" :> restItems)

\* Arrays are left apart, everything else is merged into one object.
IntersectionDefinition(type, defs) ==
  LET apart == Len(type.types) - Len(NotArrayLike(type.types))
      merged == MergeAll(TypeIs("object") @@ "additionalProperties" :> False,
                         SubSeq(defs, apart + 1, Len(defs)))
      all == SubSeq(defs, 1, apart) \o IF apart < Len(defs) THEN <<merged>> ELSE <<>>
  IN  IF Len(all) = 1 THEN all[1] ELSE "allOf" :> all

\* The chain of formatters; the first that supports a type makes its definition.
Build(type, tags, defs) ==
  CASE Is(type, "annotated") -> IF type.nullable THEN MakeNullable(defs[1]) ELSE defs[1]
    [] type.k \in {"string", "number", "boolean", "null"} -> TypeIs(type.k)
    [] type.k \in {"symbol", "any", "unknown"} -> Anything
    [] type.k \in {"undefined", "never"} -> Nothing
    [] Is(type, "void") -> TypeIs("null")
    [] Is(type, "literal") -> TypeIs(type.prim) @@ "const" :> Atom(type.prim, type.value)
    [] Is(type, "enum") -> ConstOrEnumOf(ValuesOf(type))
    [] Is(type, "definition") -> "$ref" :> type.name
    [] Is(type, "object") ->
         LET own == Len(Prepared(type))
             bases == Len(defs) - Len(type.types)
         IN  MergeAll(ObjectDefinition(type, Prepared(type), SubSeq(defs, 1, own), SubSeq(defs, own + 1, bases)),
                      SubSeq(defs, bases + 1, Len(defs)))
    [] Is(type, "union") ->
         LET members == Len(NotHidden(type.types))
             variants == SubSeq(defs, 1, members)
             kinds == SubSeq(defs, members + 1, Len(defs))
         IN (CASE IsPrimitiveUnion(type) -> PrimitiveUnionDefinition(type)
               [] ~IsPrimitiveUnion(type) /\ IsListed(type) -> LiteralUnionDefinition(type)
               [] ~IsListed(type) /\ type \notin DOMAIN tags -> UnionDefinition(variants)
               [] ~IsListed(type) /\ type \in DOMAIN tags ->
                    IF discriminatorType = "open-api" THEN OpenApiDefinition(tags[type], variants)
                    ELSE DiscriminatedDefinition(tags[type], variants, kinds))
    [] type.k \in {"optional", "rest"} -> defs[1]
    [] Is(type, "array") -> TypeIs("array") @@ "items" :> defs[1]
    [] Is(type, "tuple") -> TupleDefinition(type, defs)
    [] Is(type, "intersection") -> IntersectionDefinition(type, defs)

\* Why making the definition panics.
Objection(type, tags, defs) ==
  IF ~(Is(type, "union") /\ ~IsListed(type) /\ type \in DOMAIN tags /\ discriminatorType = "json-schema")
  THEN "none"
  ELSE LET members == Len(NotHidden(type.types))
           values == KindValues(SubSeq(defs, members + 1, Len(defs)))
       IN  CASE Len(defs) < 2 * members -> "no discriminator"
             [] Len(defs) = 2 * members /\ UniqueTypes(values) # values -> "duplicate discriminators"
             [] OTHER -> "none"

-----------------------------------------------------------------------------
(* The formatters at work: a state goes from one call to the next. *)

FreshFormatter == [memo |-> Anything, tags |-> Anything, spent |-> {}, failed |-> "none"]

\* A @discriminator goes into the union it stands before, wherever that is used.
Tagged(type, state) ==
  IF ~Is(type, "annotated") THEN state
  ELSE IF type.tag = NoTag \/ type.tag \in state.spent THEN state
  ELSE IF Is(DerefType(type), "union")
  THEN [state EXCEPT !.tags = (DerefType(type) :> type.tag.name) @@ @, !.spent = @ \cup {type.tag}]
  ELSE [state EXCEPT !.failed = "not a union"]

\* Mutant of Remembered: the definition an annotation stands before is changed with it.
RememberedShared(type, def, state) ==
  [state EXCEPT !.memo = (IF Is(type, "annotated") THEN type :> def @@ type.item :> def ELSE type :> def) @@ @]

Remembered(type, def, state) == [state EXCEPT !.memo = (type :> def) @@ @]

Failed(state) == state.failed # "none"
NoDefinition(state) == [def |-> Nothing, state |-> state]
Finished(type, def, state) == [def |-> def, state |-> Remembered(type, def, state)]

\* The definition of a type of which the operands are done.
Formatted(type, tags, operands) ==
  IF Failed(operands.state) THEN NoDefinition(operands.state)
  ELSE LET objection == Objection(type, tags, operands.defs)
       IN  IF objection = "none" THEN Finished(type, Build(type, tags, operands.defs), operands.state)
           ELSE NoDefinition([operands.state EXCEPT !.failed = objection])

\* Of some types in order, after those done; and of one.
RECURSIVE GetDefinitions(_, _)
RECURSIVE GetDefinition(_, _)
NoneDone(state) == [defs |-> <<>>, state |-> state]
AndOne(done, made) == [defs |-> Append(done.defs, made.def), state |-> made.state]
GetDefinitions(types, done) ==
  IF types = <<>> THEN done
  ELSE GetDefinitions(Tail(types), AndOne(done, GetDefinition(Head(types), done.state)))

Format(type, tagged) ==
  IF Failed(tagged) THEN NoDefinition(tagged)
  ELSE Formatted(type, tagged.tags, GetDefinitions(Operands(type, tagged.tags), NoneDone(tagged)))

GetDefinition(type, state) ==
  IF Failed(state) THEN NoDefinition(state)
  ELSE IF type \in DOMAIN state.memo THEN [def |-> state.memo[type], state |-> state]
  ELSE Format(type, Tagged(type, state))

\* Mutant of ChildTypes: what an index signature refers to is not collected.
ChildTypesWithoutIndex(type) ==
  CASE Is(type, "object") -> type.types \o [i \in DOMAIN type.properties |-> type.properties[i].type]
    [] type.k \in {"annotated", "optional", "rest", "array"} -> <<type.item>>
    [] type.k \in {"union", "tuple", "intersection"} -> type.types
    [] OTHER -> <<>>

\* GetChildren: the types in which a type may refer to definitions.
ChildTypes(type) ==
  CASE type.k \in {"annotated", "optional", "rest", "array"} -> <<type.item>>
    [] Is(type, "object") ->
         type.types \o <<type.additional>> \o [i \in DOMAIN type.properties |-> type.properties[i].type]
    [] Is(type, "union") -> IF IsListed(type) THEN <<>> ELSE type.types
    [] type.k \in {"tuple", "intersection"} -> type.types
    [] OTHER -> <<>>

\* The names of the definitions below types, first come first; ChildCollector
\* says how the memo of children finds them.
RECURSIVE ChildNames(_, _)
ChildNames(names, types) ==
  IF types = <<>> THEN names
  ELSE LET type == Head(types) IN
    IF ~Is(type, "definition") THEN ChildNames(names, ChildTypes(type) \o Tail(types))
    ELSE IF Contains(names, type.name) THEN ChildNames(names, Tail(types))
    ELSE ChildNames(Append(names, type.name), <<Declarations[type.name]>> \o Tail(types))

-----------------------------------------------------------------------------
Init ==
  /\ discriminatorType \in {"json-schema", "open-api"}
  /\ batch \in Batches
  /\ served = <<>>
  /\ rootDefs = <<>>
  /\ definitions = Anything
  /\ formatter = FreshFormatter

Running == Len(served) < Len(batch) /\ ~Failed(formatter)
Roots == batch[Len(served) + 1]

\* createSchemaFromNodes formats the root types first,
FormatRoot ==
  /\ Running
  /\ Len(rootDefs) < Len(Roots)
  /\ \E made \in {GetDefinition(Roots[Len(rootDefs) + 1], formatter)} :
       /\ formatter' = made.state
       /\ rootDefs' = Append(rootDefs, made.def)
  /\ UNCHANGED <<discriminatorType, batch, served, definitions>>

Missing == SelectSeq(ChildNames(<<>>, Roots), LAMBDA n : n \notin DOMAIN definitions)

\* then the definitions below them,
AppendRootChildDefinition ==
  /\ Running
  /\ Len(rootDefs) = Len(Roots)
  /\ Missing # <<>>
  /\ \E made \in {GetDefinition(Declarations[Missing[1]], formatter)} :
       /\ formatter' = made.state
       /\ definitions' = (Missing[1] :> made.def) @@ definitions
  /\ UNCHANGED <<discriminatorType, batch, served, rootDefs>>

\* and keeps what is reachable.
Serve ==
  /\ Running
  /\ Len(rootDefs) = Len(Roots)
  /\ Missing = <<>>
  /\ LET names == UNION {Reachable(root, definitions) : root \in Range(rootDefs)}
     IN  IF names \subseteq DOMAIN definitions
         THEN /\ served' = Append(served, [roots |-> rootDefs, definitions |-> Restrict(definitions, names)])
              /\ UNCHANGED formatter
         ELSE /\ formatter' = [formatter EXCEPT !.failed = "missing definition"]
              /\ UNCHANGED served
  /\ rootDefs' = <<>>
  /\ definitions' = Anything
  /\ UNCHANGED <<discriminatorType, batch>>

Next == FormatRoot \/ AppendRootChildDefinition \/ Serve

Spec == Init /\ [][Next]_vars
=============================================================================
