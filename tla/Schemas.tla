-------------------------------- MODULE Schemas --------------------------------
(***************************************************************************)
(* JSON Schema definitions: a definition is a function from the keywords   *)
(* it has to what they say.  "type" is a sequence of names, of length one  *)
(* where the code has a string; a list of "items" has the keyword "tuple"; *)
(* a $ref is the name of the definition.  Titles, descriptions and other   *)
(* annotations are left out.                                               *)
(*                                                                         *)
(* The module also says which JSON values a definition accepts, as a       *)
(* validator would.                                                        *)
(***************************************************************************)
EXTENDS Types, TLC

Anything == [keyword \in {} |-> {}]
Nothing == "not" :> Anything
False == "boolean" :> FALSE  \* what additionalProperties can be
TypeIs(name) == "type" :> <<name>>

Mentions(def, keyword) == keyword \in DOMAIN def
Said(def, keyword, default) == IF Mentions(def, keyword) THEN def[keyword] ELSE default
Without(def, keywords) == Restrict(def, DOMAIN def \ keywords)
If(condition, keywords) == IF condition THEN keywords ELSE Anything

-----------------------------------------------------------------------------
\* The definitions a definition is made of.
SubDefinitions(def) ==
  UNION {Range(Said(def, keyword, <<>>)) : keyword \in {"anyOf", "allOf", "oneOf", "tuple", "properties"}}
    \cup {def[keyword] : keyword \in DOMAIN def \cap
            {"not", "if", "then", "items", "additionalItems", "additionalProperties"}}

\* What RemoveUnreachable looks into: the first of these a definition has.
Visited(def) ==
  IF Mentions(def, "anyOf") THEN Range(def["anyOf"])
  ELSE IF Mentions(def, "allOf") THEN Range(def["allOf"])
  ELSE IF Mentions(def, "oneOf") THEN Range(def["oneOf"])
  ELSE IF Mentions(def, "not") THEN {def["not"]}
  ELSE IF Contains(Said(def, "type", <<>>), "object") THEN
    Range(Said(def, "properties", <<>>)) \cup
      {def[keyword] : keyword \in DOMAIN def \cap {"additionalProperties"}}
  ELSE IF Contains(Said(def, "type", <<>>), "array") THEN
    Range(Said(def, "tuple", <<>>)) \cup
      {def[keyword] : keyword \in DOMAIN def \cap {"items", "additionalItems"}}
  ELSE IF Mentions(def, "then") THEN {def["then"]}
  ELSE {}

\* The names referred to below definitions, with those known already.
RECURSIVE AddReachable(_, _, _)
AddReachable(defs, definitions, reachable) ==
  LET found == {d["$ref"] : d \in {d \in defs : Mentions(d, "$ref")}} \ reachable
      next == UNION {Visited(d) : d \in {d \in defs : ~Mentions(d, "$ref")}}
                \cup {definitions[n] : n \in found \cap DOMAIN definitions}
  IN  IF next = {} THEN reachable \cup found
      ELSE AddReachable(next, definitions, reachable \cup found)

\* A name that is reachable and has no definition makes RemoveUnreachable panic.
Reachable(root, definitions) == AddReachable({root}, definitions, {})

-----------------------------------------------------------------------------
\* The definition that allows null as well.
MakeNullable(def) ==
  LET HasNull(keyword) == Contains(Said(def, keyword, <<>>), TypeIs("null"))
      union == IF Mentions(def, "oneOf") THEN "oneOf" ELSE "anyOf"
  IN
  CASE Mentions(def, union) /\ ~HasNull(union) ->
         (union :> Append(def[union], TypeIs("null"))) @@ def
    [] (Mentions(def, union) => HasNull(union)) /\ Mentions(def, "type") /\ def["type"] # <<"object">> ->
         LET Add(list, x) == IF Contains(list, x) THEN list ELSE Append(list, x)
         IN  ("type" :> Add(def["type"], "null"))
               @@ If(Mentions(def, "enum"), "enum" :> Add(Said(def, "enum", <<>>), Null)) @@ def
    [] OTHER -> IF HasNull("anyOf") THEN def ELSE "anyOf" :> <<def, TypeIs("null")>>

-----------------------------------------------------------------------------
\* The values a definition is restricted to; "any" if it is not.
ConstOrEnum(def) ==
  IF Mentions(def, "const") THEN <<def["const"]>> ELSE Said(def, "enum", <<>>)
IsRestricted(def) == Mentions(def, "const") \/ Mentions(def, "enum")

\* mergeConstsAndEnums
MergeConstsAndEnums(a, b) ==
  CASE ~IsRestricted(a) -> ConstOrEnum(b)
    [] ~IsRestricted(b) -> ConstOrEnum(a)
    [] OTHER -> SelectSeq(ConstOrEnum(b), LAMBDA v : Contains(ConstOrEnum(a), v))

\* Mutant of DeepMergeProperties: of a property declared twice one is taken.
DeepMergePropertiesLast(a, b) == b @@ a

\* Mutant of DeepMergeProperties: the restriction b has stays beside the merged one.
DeepMergePropertiesBeside(a, b) ==
  LET Common(n) == n \in DOMAIN a /\ n \in DOMAIN b /\ IsRestricted(a[n]) /\ IsRestricted(b[n])
      Merged(n) ==
        LET values == MergeConstsAndEnums(a[n], b[n])
        IN  (IF Len(values) = 1 THEN "const" :> values[1] ELSE "enum" :> values) @@ b[n]
  IN  [n \in {n \in DOMAIN a \cup DOMAIN b : Common(n)} |-> Merged(n)] @@ b @@ a

\* Those of b come before those of a; of one in both, the restrictions hold.
DeepMergeProperties(a, b) ==
  LET Common(n) ==
        /\ n \in DOMAIN a /\ Mentions(a[n], "type")
        /\ n \in DOMAIN b /\ Mentions(b[n], "type")
        /\ a[n]["type"] = b[n]["type"] /\ Len(a[n]["type"]) = 1
        /\ IsRestricted(a[n]) \/ IsRestricted(b[n])
      Merged(n) ==
        LET values == MergeConstsAndEnums(a[n], b[n])
        IN  (IF Len(values) = 1 THEN "const" :> values[1] ELSE "enum" :> values)
              @@ Without(b[n], {"const", "enum"})
  IN  [n \in {n \in DOMAIN a \cup DOMAIN b : Common(n)} |-> Merged(n)] @@ b @@ a

\* addAdditionalProps: types by name, and definitions of no type.
Alternatives(props) == Said(props, "anyOf", <<props>>)
AdditionalTypes(props) ==
  LET all == IF props = False THEN <<>> ELSE Alternatives(props)
  IN  FlattenSeq([i \in DOMAIN all |-> Said(all[i], "type", <<>>)])
AdditionalProps(props) ==
  SelectSeq(IF props = False THEN <<>> ELSE Alternatives(props), LAMBDA d : ~Mentions(d, "type"))

\* Mutant of MergeAdditional: what one object excludes stays excluded.
MergeAdditionalFalse(definition, other) ==
  IF Mentions(definition, "additionalProperties")
  THEN "additionalProperties" :> definition["additionalProperties"] ELSE Anything

\* additionalProperties of two definitions as one: either may have more.
MergeAdditional(definition, other) ==
  LET props == <<Said(definition, "additionalProperties", Anything), Said(other, "additionalProperties", Anything)>>
      types == UniqueTypes(AdditionalTypes(props[1]) \o AdditionalTypes(props[2]))
      all == UniqueTypes(AdditionalProps(props[1]) \o AdditionalProps(props[2]))
               \o IF types = <<>> THEN <<>> ELSE <<"type" :> types>>
      merged == CASE all = <<>> -> False
                  [] Len(all) = 1 -> all[1]
                  [] OTHER -> "anyOf" :> all
      both == Mentions(definition, "additionalProperties") /\ Mentions(other, "additionalProperties")
  IN
  CASE both -> If(merged # Anything, "additionalProperties" :> merged)
    [] ~both /\ Mentions(definition, "additionalProperties") /\ props[1] # False ->
         "additionalProperties" :> props[1]
    [] OTHER -> Anything

\* getAllOfDefinitionReducer: the definition with what the other asks for as well.
MergeAllOf(definition, other) ==
  ("properties" :> DeepMergeProperties(Said(other, "properties", Anything), Said(definition, "properties", Anything)))
    @@ If(Mentions(other, "required"),
          "required" :> Said(definition, "required", {}) \cup Said(other, "required", {}))
    @@ MergeAdditional(definition, other)
    @@ Without(definition, {"additionalProperties"})

\* The definition with what all the others ask for, one after the other.
MergeAll(definition, others) ==
  LET merged[n \in 0..Len(others)] ==
        IF n = 0 THEN definition ELSE MergeAllOf(merged[n - 1], others[n])
  IN  merged[Len(others)]

-----------------------------------------------------------------------------
\* The name of the type a JSON value has.
TypeName(v) == CASE v.k = "fields" -> "object" [] v.k = "items" -> "array" [] OTHER -> v.k

\* Is the value valid against the definition?
RECURSIVE Accepts(_, _, _)
Accepts(def, definitions, v) ==
  LET Valid(d, w) == Accepts(d, definitions, w)
      Named(n) == n \in DOMAIN Said(def, "properties", Anything)
      Has1(keyword) == Mentions(def, keyword)
      Item(i) ==
        CASE Has1("items") -> Valid(def["items"], v.items[i])
          [] ~Has1("items") /\ Has1("tuple") /\ i <= Len(def["tuple"]) -> Valid(def["tuple"][i], v.items[i])
          [] ~Has1("items") /\ Has1("tuple") /\ i > Len(def["tuple"]) /\ Has1("additionalItems") ->
               Valid(def["additionalItems"], v.items[i])
          [] OTHER -> TRUE
  IN
  IF Has1("$ref") THEN Valid(definitions[def["$ref"]], v)
  ELSE
  /\ ~Has1("boolean")
  /\ Has1("type") => Contains(def["type"], TypeName(v))
  /\ Has1("const") => def["const"] = v
  /\ Has1("enum") => Contains(def["enum"], v)
  /\ Has1("not") => ~Valid(def["not"], v)
  /\ Has1("anyOf") => \E d \in Range(def["anyOf"]) : Valid(d, v)
  /\ Has1("allOf") => \A d \in Range(def["allOf"]) : Valid(d, v)
  /\ Has1("oneOf") => \E i \in DOMAIN def["oneOf"] : \A j \in DOMAIN def["oneOf"] :
                        Valid(def["oneOf"][j], v) <=> i = j
  /\ Has1("if") => (Valid(def["if"], v) => Valid(def["then"], v))
  /\ v.k = "fields" =>
       /\ Has1("required") => def["required"] \subseteq DOMAIN v.fields
       /\ \A n \in DOMAIN v.fields :
            IF Named(n) THEN Valid(def["properties"][n], v.fields[n])
            ELSE Has1("additionalProperties") => Valid(def["additionalProperties"], v.fields[n])
  /\ v.k = "items" =>
       /\ Has1("minItems") => Len(v.items) >= def["minItems"]
       /\ Has1("maxItems") => Len(v.items) <= def["maxItems"]
       /\ \A i \in DOMAIN v.items : Item(i)
=============================================================================
