------------------------- MODULE AnnotatedDefinition -------------------------
(***************************************************************************)
(* AnnotatedTypeFormatter: layers of annotations are laid over the         *)
(* definition of a type one keyword at a time, in the order Go gives a     *)
(* map's keys, which is any.                                               *)
(*                                                                         *)
(* A definition has a field for each keyword the formatters know, and the  *)
(* rest in Extra; both are functions here, and so is a layer.  Where the   *)
(* layers come from is left to AnnotatedType, which takes these actions.   *)
(***************************************************************************)
EXTENDS JsonValues

CONSTANTS
  InexactInt(_)  \* what int() makes of a number a float64 has no exact whole part of, or of none

VARIABLES
  annotatedType,  \* the definition of the type, and the layers around it, the innermost first
  laid,           \* number of layers that are laid over it
  pending,        \* the keywords of the next one that are still to come
  def             \* the definition so far

formatVars == <<annotatedType, laid, pending, def>>

-----------------------------------------------------------------------------
(* applyAnnotation                                                         *)

StringFields == {"$id", "$schema", "$ref", "$comment", "title", "format"}
RawFields == {"type", "const", "items", "additionalItems", "additionalProperties"}
CountFields == {"minItems", "maxItems"}
ListFields == {"enum", "required"}
StructuralFields ==
  {"not", "allOf", "anyOf", "oneOf", "if", "then", "else", "properties", "patternProperties",
   "propertyNames", "discriminator"}
Fields == StringFields \cup RawFields \cup CountFields \cup ListFields \cup StructuralFields

\* The one function over the other.
Over(f, g) == [key \in DOMAIN f \cup DOMAIN g |-> IF key \in DOMAIN f THEN f[key] ELSE g[key]]

Put(f, key, value) == [l \in DOMAIN f \cup {key} |-> IF l = key THEN value ELSE f[l]]

Without(f, key) == Restrict(f, DOMAIN f \ {key})

SetField(d, key, value) == [fields |-> Put(d.fields, key, value), extra |-> d.extra]
SetExtra(d, key, value) == [fields |-> d.fields, extra |-> Put(d.extra, key, value)]
ClearField(d, key) == [fields |-> Without(d.fields, key), extra |-> d.extra]

\* Mutant of ClearAndSetExtra: clearField is forgotten.
ClearAndSetExtraButField(d, key, value) == SetExtra(d, key, value)

\* What the field cannot hold goes to Extra, and the field is reset.
ClearAndSetExtra(d, key, value) == SetExtra(ClearField(d, key), key, value)

\* A float64 is exact to this many digits, and to 12 of base 16.
Places == 15
IsWhole(digits) ==
  /\ Len(digits) <= Places
  /\ \/ Range(digits) \subseteq Digits
     \/ Head(digits) = "0x" /\ Len(digits) <= Places - 2

\* A zero has no sign.
WholeNumber(negative, digits) == Number(negative /\ ~IsZero(digits), digits)

\* The digits before the point, where the exponent puts it.
WholePart(digits) ==
  IF PointAt(digits) <= 0 THEN <<"0">>
  ELSE [i \in 1..PointAt(digits) |-> IF i <= Len(Significant(digits)) THEN Significant(digits)[i] ELSE "0"]

\* toInt cuts off what comes after the point.
ToInt(value) ==
  CASE IsWhole(value.digits) -> WholeNumber(value.negative, value.digits)
    [] /\ ~IsWhole(value.digits) /\ Range(Significant(value.digits)) \subseteq Digits
       /\ Len(Significant(value.digits)) <= Places /\ PointAt(value.digits) <= Places ->
         WholeNumber(value.negative, WholePart(value.digits))
    [] OTHER -> InexactInt(value)

IsStringList(value) == value.k = "array" /\ \A i \in DOMAIN value.items : value.items[i].k = "string"

\* A string field that is empty is as good as not there, and so is a list of no
\* required properties, and null where there is one value for none.
IsUnset(key, value) ==
  \/ key \in StringFields /\ value = String(<<>>)
  \/ key = "required" /\ value = Array(<<>>)
  \/ key \in RawFields \ {"const"} /\ value = Null

Assign(d, key, value) ==
  IF IsUnset(key, value) THEN ClearField(d, key) ELSE SetField(d, key, value)

ApplyAnnotation(d, key, value) ==
  CASE key \in StringFields /\ value.k = "string" -> Assign(d, key, value)
    [] key \in RawFields -> Assign(d, key, value)
    [] key = "enum" /\ value.k = "array" -> Assign(d, key, value)
    [] key = "required" /\ IsStringList(value) -> Assign(d, key, value)
    [] key \in CountFields /\ value.k = "number" -> SetField(d, key, ToInt(value))
    [] OTHER -> IF key \in Fields THEN ClearAndSetExtra(d, key, value) ELSE SetExtra(d, key, value)

\* Mutant of WithoutRef: a type beside a $ref stays.
WithoutRefNever(d) == d

\* After all annotations of a layer: a type overrides a reference.
WithoutRef(d) ==
  IF {"$ref", "type"} \subseteq DOMAIN d.fields THEN ClearField(d, "$ref") ELSE d

\* Mutant of Clone: the other keywords are not copied.
CloneWithoutExtra(d) == [fields |-> d.fields, extra |-> <<>>]

\* Clone: a list without anything is none in the copy.
IsLost(key, value) == key \in {"enum", "required", "allOf", "anyOf", "oneOf"} /\ value = Array(<<>>)
Clone(d) ==
  [fields |-> Restrict(d.fields, {key \in DOMAIN d.fields : ~IsLost(key, d.fields[key])}), extra |-> d.extra]

\* What MarshalJSON writes: the fields, and of Extra what they do not have.
Marshalled(d) == Over(d.fields, d.extra)

-----------------------------------------------------------------------------
Keywords(type, n) == IF n < Len(type.layers) THEN DOMAIN type.layers[n + 1] ELSE {}

\* The layer around n others lays its annotations over a copy of what they gave.
Returned(type, n, d) == IF n < Len(type.layers) THEN Clone(d) ELSE d

\* GetDefinition: the innermost type has its definition.
Format(type) ==
  /\ annotatedType' = type
  /\ laid' = 0
  /\ pending' = Keywords(type, 0)
  /\ def' = Returned(type, 0, type.base)

\* One round of the loop over the annotations of a layer.
Apply ==
  /\ \E key \in pending :
       /\ def' = ApplyAnnotation(def, key, annotatedType.layers[laid + 1][key])
       /\ pending' = pending \ {key}
  /\ UNCHANGED <<annotatedType, laid>>

\* The definition is returned to the layer around.
NextLayer ==
  /\ laid < Len(annotatedType.layers)
  /\ pending = {}
  /\ def' = Returned(annotatedType, laid + 1, WithoutRef(def))
  /\ laid' = laid + 1
  /\ pending' = Keywords(annotatedType, laid + 1)
  /\ UNCHANGED annotatedType

Lay == Apply \/ NextLayer

-----------------------------------------------------------------------------
(* What the layers say: { ...definition, ...annotations } for each of them, *)
(* as the TypeScript generator has it.                                     *)

WithoutOverriddenRef(fields) ==
  IF {"$ref", "type"} \subseteq DOMAIN fields THEN Without(fields, "$ref") ELSE fields

Spread(annotations, fields) == WithoutOverriddenRef(Over(annotations, fields))

\* The first n layers, spread over the definition one after the other.
SpreadLayers(type) ==
  LET spread[n \in 0..Len(type.layers)] ==
        IF n = 0 THEN type.base.fields ELSE Spread(type.layers[n], spread[n - 1])
  IN  spread

Present(fields) == Restrict(fields, {key \in DOMAIN fields : ~IsUnset(key, fields[key])})

\* What formatters return as a definition without annotations.
IsBase(d) ==
  /\ d = [fields |-> d.fields, extra |-> d.extra]
  /\ d.fields = [key \in DOMAIN d.fields |-> d.fields[key]]
  /\ DOMAIN d.fields \subseteq Fields
  /\ DOMAIN d.extra = {}
  /\ \A key \in DOMAIN d.fields : ~IsUnset(key, d.fields[key])

\* Values whose keywords mean in Go what they mean in TypeScript: strings where
\* the field is one, whole numbers that are exact, and neither an empty list nor
\* null where Go takes it for no value.
IsFit(key, value) ==
  /\ key \in StringFields => value.k = "string"
  /\ key \in {"type", "required"} => ~IsUnset(key, value)
  /\ key \in CountFields /\ value.k = "number" =>
       /\ value = WholeNumber(value.negative, value.digits)
       /\ IsWhole(value.digits)

IsLayer(l) ==
  /\ l = [key \in DOMAIN l |-> l[key]]
  /\ \A key \in DOMAIN l : IsFit(key, l[key])

\* A copy has all its lists: no enum is empty but the outermost.
KeepsLists(type) ==
  \A i \in 0..Len(type.layers) - 1 :
    IF i = 0 THEN \A key \in DOMAIN type.base.fields : ~IsLost(key, type.base.fields[key])
    ELSE "enum" \in DOMAIN type.layers[i] => type.layers[i]["enum"] # Array(<<>>)

IsAnnotated(type) ==
  /\ IsBase(type.base)
  /\ KeepsLists(type)
  /\ type.layers \in Seq({type.layers[i] : i \in DOMAIN type.layers})
  /\ \A i \in 1..Len(type.layers) : IsLayer(type.layers[i])

FormatInit ==
  /\ IsAnnotated(annotatedType)
  /\ laid = 0
  /\ pending = Keywords(annotatedType, 0)
  /\ def = Returned(annotatedType, 0, annotatedType.base)

FormatSpec == FormatInit /\ [][Lay]_formatVars

\* Whatever the order within the layers, what is written at the end is what
\* spreading them over the definition gives, but for what counts as no value.
LayersAreSpread ==
  laid = Len(annotatedType.layers) =>
    Marshalled(def) = Present(SpreadLayers(annotatedType)[Len(annotatedType.layers)])
=============================================================================
