---------------------- MODULE AnnotatedDefinition_proofs ----------------------
(***************************************************************************)
(* The order in which Go ranges over a map of annotations does not matter: *)
(* whichever keyword is taken next, what is written so far is what         *)
(* spreading the keywords taken so far gives, keyword by keyword, whether  *)
(* its value went to a field or to Extra.                                  *)
(***************************************************************************)
EXTENDS AnnotatedDefinition, WellFoundedInduction, TLAPS

-----------------------------------------------------------------------------
(* Functions *)

IsFunction(f) == f = [key \in DOMAIN f |-> f[key]]

LEMMA SameFunction ==
  ASSUME NEW f, NEW g, IsFunction(f), IsFunction(g), DOMAIN f = DOMAIN g,
         \A key \in DOMAIN f : f[key] = g[key]
  PROVE  f = g
BY DEF IsFunction

LEMMA OverAt ==
  ASSUME NEW f, NEW g
  PROVE  /\ IsFunction(Over(f, g))
         /\ DOMAIN Over(f, g) = DOMAIN f \cup DOMAIN g
         /\ \A key \in DOMAIN f \cup DOMAIN g : Over(f, g)[key] = IF key \in DOMAIN f THEN f[key] ELSE g[key]
BY DEF Over, IsFunction

LEMMA PutAt ==
  ASSUME NEW f, NEW key, NEW value
  PROVE  /\ IsFunction(Put(f, key, value))
         /\ DOMAIN Put(f, key, value) = DOMAIN f \cup {key}
         /\ Put(f, key, value)[key] = value
         /\ \A l \in DOMAIN f : l # key => Put(f, key, value)[l] = f[l]
BY DEF Put, IsFunction

LEMMA RestrictAt ==
  ASSUME NEW f, NEW S
  PROVE  /\ IsFunction(Restrict(f, S))
         /\ DOMAIN Restrict(f, S) = S
         /\ \A key \in S : Restrict(f, S)[key] = f[key]
BY DEF Restrict, IsFunction

LEMMA WithoutAt ==
  ASSUME NEW f, NEW key
  PROVE  /\ IsFunction(Without(f, key))
         /\ DOMAIN Without(f, key) = DOMAIN f \ {key}
         /\ \A l \in DOMAIN f \ {key} : Without(f, key)[l] = f[l]
BY RestrictAt DEF Without

LEMMA PresentAt ==
  ASSUME NEW f
  PROVE  /\ IsFunction(Present(f))
         /\ DOMAIN Present(f) = {key \in DOMAIN f : ~IsUnset(key, f[key])}
         /\ \A key \in DOMAIN Present(f) : Present(f)[key] = f[key]
BY RestrictAt DEF Present

-----------------------------------------------------------------------------
(* One annotation *)

IsDefinition(d) ==
  /\ d = [fields |-> d.fields, extra |-> d.extra]
  /\ IsFunction(d.fields)
  /\ DOMAIN d.fields \subseteq Fields
  /\ DOMAIN d.extra \cap (StringFields \cup RawFields) = {}

MarshalledFacts(d) ==
  /\ IsFunction(Marshalled(d))
  /\ DOMAIN Marshalled(d) = DOMAIN d.fields \cup DOMAIN d.extra
  /\ \A l \in DOMAIN d.fields : Marshalled(d)[l] = d.fields[l]
  /\ \A l \in DOMAIN d.extra \ DOMAIN d.fields : Marshalled(d)[l] = d.extra[l]

LEMMA MarshalledAt == \A d : MarshalledFacts(d)
BY DEF Over, IsFunction, Marshalled, MarshalledFacts

\* What is written is changed at one keyword, and to its value.
Laid(d, e, key, value) ==
  /\ IsDefinition(e)
  /\ DOMAIN Marshalled(e) = (IF IsUnset(key, value) THEN DOMAIN Marshalled(d) \ {key}
                             ELSE DOMAIN Marshalled(d) \cup {key})
  /\ ~IsUnset(key, value) => Marshalled(e)[key] = value
  /\ \A l \in DOMAIN Marshalled(d) \ {key} : Marshalled(e)[l] = Marshalled(d)[l]

LEMMA FieldsAreApart ==
  /\ StringFields \cap RawFields = {} /\ "enum" \notin StringFields \cup RawFields \cup CountFields
  /\ "required" \notin StringFields \cup RawFields \cup CountFields /\ "enum" # "required"
  /\ CountFields \cap (StringFields \cup RawFields) = {}
  /\ "type" \in RawFields /\ "$ref" \in StringFields /\ "type" # "const" /\ "type" # "$ref"
  /\ StringFields \cup RawFields \cup CountFields \cup {"enum", "required"} \subseteq Fields
  /\ StructuralFields \cap (StringFields \cup RawFields) = {}
BY DEF StringFields, RawFields, CountFields, StructuralFields, ListFields, Fields

\* A field is set.
LEMMA SetFieldLays ==
  ASSUME NEW d, NEW key \in Fields, NEW value, IsDefinition(d), ~IsUnset(key, value)
  PROVE  Laid(d, SetField(d, key, value), key, value)
<1> DEFINE e == SetField(d, key, value)
<1>1. e.fields = Put(d.fields, key, value) /\ e.extra = d.extra /\ e = [fields |-> e.fields, extra |-> e.extra]
  BY DEF SetField
<1> HIDE DEF e
<1>4. /\ IsFunction(e.fields) /\ DOMAIN e.fields = DOMAIN d.fields \cup {key} /\ e.fields[key] = value
      /\ \A l \in DOMAIN d.fields : l # key => e.fields[l] = d.fields[l]
  BY <1>1 DEF Put, IsFunction
<1>2. IsDefinition(e)
  BY <1>1, <1>4 DEF IsDefinition
<1>5. MarshalledFacts(d) /\ MarshalledFacts(e)
  BY MarshalledAt
<1>3. /\ DOMAIN Marshalled(e) = DOMAIN Marshalled(d) \cup {key}
      /\ Marshalled(e)[key] = value
      /\ \A l \in DOMAIN Marshalled(d) \ {key} : Marshalled(e)[l] = Marshalled(d)[l]
  BY <1>1, <1>4, <1>5 DEF MarshalledFacts
<1>. QED
  BY <1>2, <1>3 DEF Laid, e

\* A field is reset, and Extra has nothing for it.
LEMMA ResetLays ==
  ASSUME NEW d, NEW key \in StringFields \cup RawFields, NEW value, IsDefinition(d), IsUnset(key, value)
  PROVE  Laid(d, ClearField(d, key), key, value)
<1> DEFINE e == ClearField(d, key)
<1>1. e.fields = Without(d.fields, key) /\ e.extra = d.extra /\ e = [fields |-> e.fields, extra |-> e.extra]
  BY DEF ClearField
<1> HIDE DEF e
<1>5. /\ IsFunction(e.fields) /\ DOMAIN e.fields = DOMAIN d.fields \ {key}
      /\ \A l \in DOMAIN e.fields : e.fields[l] = d.fields[l]
  BY <1>1 DEF Without, Restrict, IsFunction
<1>2. IsDefinition(e)
  BY <1>1, <1>5 DEF IsDefinition
<1>3. key \notin DOMAIN d.extra
  BY DEF IsDefinition
<1>6. MarshalledFacts(d) /\ MarshalledFacts(e)
  BY MarshalledAt
<1>4. /\ DOMAIN Marshalled(e) = DOMAIN Marshalled(d) \ {key}
      /\ \A l \in DOMAIN Marshalled(d) \ {key} : Marshalled(e)[l] = Marshalled(d)[l]
  BY <1>1, <1>3, <1>5, <1>6 DEF MarshalledFacts
<1>. QED
  BY <1>2, <1>4 DEF Laid, e

\* Extra is set, for a keyword whose field is not or is reset.
LEMMA SetExtraLays ==
  ASSUME NEW d, NEW e, NEW key, NEW value, IsDefinition(d), ~IsUnset(key, value),
         key \notin StringFields \cup RawFields,
         e = [fields |-> e.fields, extra |-> e.extra],
         e.extra = Put(d.extra, key, value),
         \/ e.fields = d.fields /\ key \notin DOMAIN d.fields
         \/ e.fields = Without(d.fields, key)
  PROVE  Laid(d, e, key, value)
<1>2. /\ IsFunction(e.fields) /\ DOMAIN e.fields = DOMAIN d.fields \ {key}
      /\ \A l \in DOMAIN e.fields : e.fields[l] = d.fields[l]
  <2>1. CASE e.fields = d.fields /\ key \notin DOMAIN d.fields
    BY <2>1 DEF IsDefinition
  <2>2. CASE e.fields = Without(d.fields, key)
    BY <2>2 DEF Without, Restrict, IsFunction
  <2>. QED
    BY <2>1, <2>2
<1>4. /\ DOMAIN e.extra = DOMAIN d.extra \cup {key} /\ e.extra[key] = value
      /\ \A l \in DOMAIN d.extra : l # key => e.extra[l] = d.extra[l]
  BY DEF Put
<1>1. IsDefinition(e)
  BY <1>2, <1>4 DEF IsDefinition
<1>5. MarshalledFacts(d) /\ MarshalledFacts(e)
  BY MarshalledAt
<1>3. /\ DOMAIN Marshalled(e) = DOMAIN Marshalled(d) \cup {key}
      /\ Marshalled(e)[key] = value
      /\ \A l \in DOMAIN Marshalled(d) \ {key} : Marshalled(e)[l] = Marshalled(d)[l]
  BY <1>2, <1>4, <1>5 DEF MarshalledFacts
<1>. QED
  BY <1>1, <1>3 DEF Laid

LEMMA CountsAreKept ==
  ASSUME NEW value, value = WholeNumber(value.negative, value.digits), IsWhole(value.digits)
  PROVE  ToInt(value) = value
BY DEF ToInt

LEMMA ApplyLays ==
  ASSUME NEW d, NEW key, NEW value, IsDefinition(d), IsFit(key, value)
  PROVE  Laid(d, ApplyAnnotation(d, key, value), key, value)
<1> DEFINE e == ApplyAnnotation(d, key, value)
<1>1. CASE key \in StringFields \cup RawFields
  <2>1. e = Assign(d, key, value)
    BY <1>1, FieldsAreApart DEF ApplyAnnotation, IsFit
  <2>2. key \in Fields
    BY <1>1, FieldsAreApart
  <2>. QED
    BY <1>1, <2>1, <2>2, SetFieldLays, ResetLays DEF Assign
<1>2. CASE key \notin StringFields \cup RawFields
  <2>1. ~IsUnset(key, value)
    BY <1>2 DEF IsUnset, IsFit
  <2>2. CASE (key = "enum" /\ value.k = "array") \/ (key = "required" /\ IsStringList(value))
    <3>1. e = SetField(d, key, value)
      BY <1>2, <2>1, <2>2, FieldsAreApart DEF ApplyAnnotation, Assign
    <3>2. key \in Fields
      BY <2>2, FieldsAreApart
    <3>. QED
      BY <2>1, <3>1, <3>2, SetFieldLays
  <2>3. CASE key \in CountFields /\ value.k = "number"
    <3>1. e = SetField(d, key, ToInt(value)) /\ ToInt(value) = value
      BY <1>2, <2>3, FieldsAreApart, CountsAreKept DEF ApplyAnnotation, IsFit
    <3>2. key \in Fields
      BY <2>3, FieldsAreApart
    <3>. QED
      BY <2>1, <3>1, <3>2, SetFieldLays
  <2>4. CASE /\ ~(key = "enum" /\ value.k = "array") /\ ~(key = "required" /\ IsStringList(value))
             /\ ~(key \in CountFields /\ value.k = "number")
    <3>1. e = IF key \in Fields THEN ClearAndSetExtra(d, key, value) ELSE SetExtra(d, key, value)
      BY <1>2, <2>4 DEF ApplyAnnotation
    <3>2. e = [fields |-> e.fields, extra |-> e.extra] /\ e.extra = Put(d.extra, key, value)
      BY <3>1 DEF ClearAndSetExtra, ClearField, SetExtra
    <3>3. \/ e.fields = d.fields /\ key \notin DOMAIN d.fields
          \/ e.fields = Without(d.fields, key)
      <4>1. key \notin Fields => key \notin DOMAIN d.fields
        BY DEF IsDefinition
      <4>. QED
        BY <3>1, <4>1 DEF ClearAndSetExtra, ClearField, SetExtra
    <3>. QED
      BY <1>2, <2>1, <3>2, <3>3, SetExtraLays
  <2>. QED
    BY <2>2, <2>3, <2>4
<1>. QED
  BY <1>1, <1>2

-----------------------------------------------------------------------------
(* The copy that a layer is laid over                                      *)

NothingLost(d) == \A key \in DOMAIN d.fields : ~IsLost(key, d.fields[key])

LEMMA CloneIsEqual ==
  ASSUME NEW d, IsDefinition(d), NothingLost(d)
  PROVE  Clone(d) = d
<1>1. {key \in DOMAIN d.fields : ~IsLost(key, d.fields[key])} = DOMAIN d.fields
  BY DEF NothingLost
<1>2. Restrict(d.fields, DOMAIN d.fields) = d.fields
  BY DEF Restrict, IsDefinition, IsFunction
<1>. QED
  BY <1>1, <1>2 DEF Clone, IsDefinition

\* An annotation sets no list that a copy loses, if no enum is empty.
LEMMA ApplyKeeps ==
  ASSUME NEW d, NEW key, NEW value, IsDefinition(d), NothingLost(d), key = "enum" => value # Array(<<>>)
  PROVE  NothingLost(ApplyAnnotation(d, key, value))
<1> DEFINE e == ApplyAnnotation(d, key, value)
<1>1. \/ e.fields = d.fields
      \/ e.fields = Without(d.fields, key)
      \/ e.fields = Put(d.fields, key, value) /\ ~IsLost(key, value)
      \/ e.fields = Put(d.fields, key, ToInt(value)) /\ key \in CountFields
  <2>1. CASE e = SetField(d, key, ToInt(value)) /\ key \in CountFields
    BY <2>1 DEF SetField
  <2>2. CASE e = Assign(d, key, value) /\ key \in StringFields \cup RawFields \cup ListFields
    <3>1. IsLost(key, value) => IsUnset(key, value)
      BY <2>2, FieldsAreApart DEF IsLost, IsUnset, StringFields, RawFields, ListFields
    <3>. QED
      BY <2>2, <3>1 DEF Assign, SetField, ClearField
  <2>3. CASE e = ClearAndSetExtra(d, key, value)
    BY <2>3 DEF ClearAndSetExtra, ClearField, SetExtra
  <2>4. CASE e = SetExtra(d, key, value)
    BY <2>4 DEF SetExtra
  <2>. QED
    BY <2>1, <2>2, <2>3, <2>4 DEF ApplyAnnotation, ListFields
<1> HIDE DEF e
<1>2. \A value2 : key \in CountFields => ~IsLost(key, value2)
  BY DEF CountFields, IsLost
<1>3. ASSUME NEW l \in DOMAIN e.fields PROVE ~IsLost(l, e.fields[l])
  BY <1>1, <1>2 DEF NothingLost, Put, Without, Restrict
<1>. QED
  BY <1>3 DEF NothingLost, e

LEMMA WithoutRefKeeps ==
  ASSUME NEW d, NothingLost(d)
  PROVE  NothingLost(WithoutRef(d))
BY DEF NothingLost, WithoutRef, ClearField, Without, Restrict

-----------------------------------------------------------------------------
(* What is written and what it should be                                   *)

\* What is written of d is what f says, but for what counts as no value.
Agree(d, f) ==
  /\ DOMAIN Marshalled(d) = {key \in DOMAIN f : ~IsUnset(key, f[key])}
  /\ \A key \in DOMAIN Marshalled(d) : Marshalled(d)[key] = f[key]

LEMMA AgreeIsPresent ==
  ASSUME NEW d, NEW f, Agree(d, f)
  PROVE  Marshalled(d) = Present(f)
BY MarshalledAt DEF Agree, MarshalledFacts, IsFunction, Present, Restrict

LEMMA ApplyAgrees ==
  ASSUME NEW d, NEW e, NEW f, NEW g, NEW key, NEW value, Agree(d, f), Laid(d, e, key, value),
         DOMAIN g = DOMAIN f \cup {key}, g[key] = value, \A l \in DOMAIN f \ {key} : g[l] = f[l]
  PROVE  Agree(e, g)
BY DEF Agree, Laid

LEMMA WithoutRefAgrees ==
  ASSUME NEW d, NEW f, IsDefinition(d), Agree(d, f),
         "type" \in DOMAIN f => ~IsUnset("type", f["type"])
  PROVE  IsDefinition(WithoutRef(d)) /\ Agree(WithoutRef(d), WithoutOverriddenRef(f))
<1>1. MarshalledFacts(d) /\ MarshalledFacts(WithoutRef(d))
  BY MarshalledAt
<1>2. "type" \notin DOMAIN d.extra /\ "$ref" \notin DOMAIN d.extra
  BY FieldsAreApart DEF IsDefinition
<1>3. "type" \in DOMAIN f <=> "type" \in DOMAIN d.fields
  BY <1>1, <1>2 DEF Agree, MarshalledFacts
<1>4. CASE {"$ref", "type"} \subseteq DOMAIN d.fields
  <2>1. WithoutRef(d) = ClearField(d, "$ref")
    BY <1>4 DEF WithoutRef
  <2>2. /\ WithoutRef(d).extra = d.extra
        /\ WithoutRef(d) = [fields |-> WithoutRef(d).fields, extra |-> WithoutRef(d).extra]
        /\ IsFunction(WithoutRef(d).fields)
        /\ DOMAIN WithoutRef(d).fields = DOMAIN d.fields \ {"$ref"}
        /\ \A l \in DOMAIN WithoutRef(d).fields : WithoutRef(d).fields[l] = d.fields[l]
    BY <2>1 DEF ClearField, Without, Restrict, IsFunction
  <2>3. {"$ref", "type"} \subseteq DOMAIN f
    BY <1>1, <1>4 DEF Agree, MarshalledFacts
  <2>4. /\ DOMAIN WithoutOverriddenRef(f) = DOMAIN f \ {"$ref"}
        /\ \A l \in DOMAIN f \ {"$ref"} : WithoutOverriddenRef(f)[l] = f[l]
    BY <2>3 DEF WithoutOverriddenRef, Without, Restrict
  <2>5. IsDefinition(WithoutRef(d))
    BY <2>2 DEF IsDefinition
  <2>. QED
    BY <1>1, <1>2, <2>2, <2>4, <2>5 DEF Agree, MarshalledFacts
<1>5. CASE ~({"$ref", "type"} \subseteq DOMAIN d.fields)
  <2>1. WithoutRef(d) = d
    BY <1>5 DEF WithoutRef
  <2>2. CASE {"$ref", "type"} \subseteq DOMAIN f
    <3>1. "$ref" \notin DOMAIN Marshalled(d)
      BY <1>1, <1>2, <1>3, <1>5, <2>2 DEF MarshalledFacts
    <3>2. /\ DOMAIN WithoutOverriddenRef(f) = DOMAIN f \ {"$ref"}
          /\ \A l \in DOMAIN f \ {"$ref"} : WithoutOverriddenRef(f)[l] = f[l]
      BY <2>2 DEF WithoutOverriddenRef, Without, Restrict
    <3>. QED
      BY <2>1, <3>1, <3>2 DEF Agree
  <2>3. CASE ~({"$ref", "type"} \subseteq DOMAIN f)
    BY <2>1, <2>3 DEF WithoutOverriddenRef
  <2>. QED
    BY <2>2, <2>3
<1>. QED
  BY <1>4, <1>5

-----------------------------------------------------------------------------
(* Spreading layer after layer                                             *)

SpreadBody(type, n, spread) ==
  IF n = 0 THEN type.base.fields ELSE Spread(type.layers[n], spread[n - 1])

LEMMA SpreadLayersExists ==
  ASSUME NEW type, Len(type.layers) \in Nat
  PROVE  SpreadLayers(type) = [n \in 0..Len(type.layers) |-> SpreadBody(type, n, SpreadLayers(type))]
<1> DEFINE last == Len(type.layers)
           Exists(n) == \E f : f = [k \in 0..n |-> SpreadBody(type, k, f)]
           Bad == {n \in 0..last : ~Exists(n)}
<1>1. Exists(0)
  <2> DEFINE e == [k \in 0..0 |-> type.base.fields]
  <2>1. e = [k \in 0..0 |-> SpreadBody(type, k, e)]
    BY DEF SpreadBody
  <2> HIDE DEF e
  <2>. QED
    BY <2>1
<1> HIDE DEF last
<1>2. ASSUME NEW n \in 1..last, Exists(n - 1) PROVE Exists(n)
  <2>1. PICK f : f = [k \in 0..n - 1 |-> SpreadBody(type, k, f)]
    BY <1>2
  <2> DEFINE g == [k \in 0..n |-> IF k = n THEN SpreadBody(type, n, f) ELSE f[k]]
  <2>2. ASSUME NEW k \in 0..n PROVE g[k] = SpreadBody(type, k, g)
    <3>1. k # 0 => k - 1 \in 0..n /\ k - 1 # n
      OBVIOUS
    <3>2. k # 0 => g[k - 1] = f[k - 1]
      BY <3>1
    <3>3. SpreadBody(type, k, f) = SpreadBody(type, k, g)
      BY <3>2 DEF SpreadBody
    <3>4. CASE k = n
      BY <3>3, <3>4
    <3>5. CASE k # n
      <4>1. k \in 0..n - 1
        BY <3>5
      <4>2. f[k] = SpreadBody(type, k, f)
        BY <2>1, <4>1
      <4>. QED
        BY <3>3, <3>5, <4>2
    <3>. QED
      BY <3>4, <3>5
  <2>3. g = [k \in 0..n |-> g[k]]
    OBVIOUS
  <2> HIDE DEF g
  <2>4. g = [k \in 0..n |-> SpreadBody(type, k, g)]
    BY <2>2, <2>3
  <2>. QED
    BY <2>4
<1> HIDE DEF Exists
<1>3. last \in Nat
  BY DEF last
<1>4. Bad = {}
  <2> SUFFICES ASSUME Bad # {} PROVE FALSE
    OBVIOUS
  <2>1. Bad \in SUBSET Nat
    BY <1>3
  <2>2. PICK m \in Bad : \A k \in Bad : ~(<<k, m>> \in OpToRel(<, Nat))
    BY <2>1, NatLessThanWellFounded, WFMin
  <2>6. m \in 0..last /\ ~Exists(m)
    OBVIOUS
  <2>7. m # 0
    BY <1>1, <2>6
  <2>3. m \in 1..last /\ m - 1 \in 0..last /\ m - 1 \in Nat /\ m \in Nat /\ m - 1 < m
    BY <1>3, <2>6, <2>7
  <2>4. <<m - 1, m>> \in OpToRel(<, Nat)
    BY <2>3 DEF OpToRel
  <2>5. Exists(m - 1)
    BY <2>2, <2>3, <2>4
  <2>. QED
    BY <1>2, <2>2, <2>3, <2>5
<1>5. Exists(last)
  BY <1>3, <1>4
<1>6. PICK f : f = [n \in 0..Len(type.layers) |-> SpreadBody(type, n, f)]
  BY <1>5 DEF Exists, last
<1>. QED
  BY <1>6 DEF SpreadLayers, SpreadBody

LEMMA SpreadLayersAt ==
  ASSUME NEW type, Len(type.layers) \in Nat
  PROVE  /\ SpreadLayers(type)[0] = type.base.fields
         /\ \A n \in 1..Len(type.layers) :
              SpreadLayers(type)[n] = Spread(type.layers[n], SpreadLayers(type)[n - 1])
<1>1. SpreadLayers(type) = [n \in 0..Len(type.layers) |-> SpreadBody(type, n, SpreadLayers(type))]
  BY SpreadLayersExists
<1>2. \A n \in 0..Len(type.layers) : SpreadLayers(type)[n] = SpreadBody(type, n, SpreadLayers(type))
  BY <1>1
<1>. QED
  BY <1>2 DEF SpreadBody

-----------------------------------------------------------------------------
(* The invariant *)

\* The layers that are laid, and the keywords taken of the next.
SoFar ==
  IF laid < Len(annotatedType.layers)
  THEN Over(Restrict(annotatedType.layers[laid + 1], DOMAIN annotatedType.layers[laid + 1] \ pending),
            SpreadLayers(annotatedType)[laid])
  ELSE SpreadLayers(annotatedType)[laid]

LaidInv ==
  /\ IsAnnotated(annotatedType)
  /\ laid \in 0..Len(annotatedType.layers)
  /\ pending \subseteq Keywords(annotatedType, laid)
  /\ IsDefinition(def)
  /\ LET spread == SpreadLayers(annotatedType)[laid] IN
     "type" \in DOMAIN spread => ~IsUnset("type", spread["type"])
  /\ Agree(def, SoFar)
  /\ laid + 1 < Len(annotatedType.layers) => NothingLost(def)

LEMMA LayersLength ==
  ASSUME NEW type, IsAnnotated(type)
  PROVE  Len(type.layers) \in Nat
BY DEF IsAnnotated

LEMMA LayerAt ==
  ASSUME LaidInv, laid < Len(annotatedType.layers)
  PROVE  /\ IsLayer(annotatedType.layers[laid + 1])
         /\ laid \in Nat /\ laid + 1 \in 1..Len(annotatedType.layers)
         /\ pending \subseteq DOMAIN annotatedType.layers[laid + 1]
<1>1. Len(annotatedType.layers) \in Nat /\ laid \in 0..Len(annotatedType.layers)
  BY LayersLength DEF LaidInv
<1>2. laid + 1 \in 1..Len(annotatedType.layers)
  BY <1>1
<1>. QED
  BY <1>1, <1>2 DEF LaidInv, IsAnnotated, Keywords

LEMMA BaseAgrees ==
  ASSUME NEW d, NEW f, IsBase(d), DOMAIN f = DOMAIN d.fields, \A key \in DOMAIN f : f[key] = d.fields[key]
  PROVE  IsDefinition(d) /\ Agree(d, f)
<1>1. IsDefinition(d)
  BY DEF IsBase, IsDefinition, IsFunction
<1>2. MarshalledFacts(d)
  BY MarshalledAt
<1>. QED
  BY <1>1, <1>2 DEF IsBase, Agree, MarshalledFacts

\* At the beginning of a layer nothing of it is taken.
LEMMA NothingTaken ==
  ASSUME NEW f, NEW g
  PROVE  /\ DOMAIN Over(Restrict(f, DOMAIN f \ DOMAIN f), g) = DOMAIN g
         /\ \A key \in DOMAIN g : Over(Restrict(f, DOMAIN f \ DOMAIN f), g)[key] = g[key]
BY DEF Over, Restrict

LEMMA LaidInit == FormatInit => LaidInv
<1> SUFFICES ASSUME FormatInit PROVE LaidInv
  OBVIOUS
<1>1. IsAnnotated(annotatedType) /\ laid = 0 /\ pending = Keywords(annotatedType, 0)
      /\ def = Returned(annotatedType, 0, annotatedType.base)
  BY DEF FormatInit
<1>2. Len(annotatedType.layers) \in Nat /\ 0 \in 0..Len(annotatedType.layers)
  BY <1>1, LayersLength
<1>3. SpreadLayers(annotatedType)[0] = annotatedType.base.fields
  BY <1>2, SpreadLayersAt
<1>8. IsBase(annotatedType.base)
  BY <1>1 DEF IsAnnotated
<1>9. 0 < Len(annotatedType.layers) => NothingLost(annotatedType.base)
  <2>1. 0 < Len(annotatedType.layers) => 0 \in 0..Len(annotatedType.layers) - 1
    BY <1>2
  <2>. QED
    BY <1>1, <2>1 DEF IsAnnotated, KeepsLists, NothingLost
<1>10. def = annotatedType.base
  <2>1. IsDefinition(annotatedType.base)
    BY <1>8 DEF IsBase, IsDefinition, IsFunction
  <2>. QED
    BY <1>1, <1>9, <2>1, CloneIsEqual DEF Returned
<1>4. IsBase(def)
  BY <1>8, <1>10
<1>5. "type" \in DOMAIN def.fields => ~IsUnset("type", def.fields["type"])
  BY <1>4 DEF IsBase
<1>6. DOMAIN SoFar = DOMAIN def.fields /\ \A key \in DOMAIN SoFar : SoFar[key] = def.fields[key]
  BY <1>1, <1>2, <1>3, <1>10, NothingTaken DEF SoFar, Keywords
<1>7. IsDefinition(def) /\ Agree(def, SoFar)
  BY <1>4, <1>6, BaseAgrees
<1>11. laid + 1 < Len(annotatedType.layers) => NothingLost(def)
  BY <1>1, <1>2, <1>9, <1>10
<1>. QED
  BY <1>1, <1>2, <1>3, <1>5, <1>7, <1>10, <1>11 DEF LaidInv

LEMMA ApplyStep == LaidInv /\ Apply => LaidInv'
<1> SUFFICES ASSUME LaidInv, Apply PROVE LaidInv'
  OBVIOUS
<1> DEFINE layer == annotatedType.layers[laid + 1]
           spread == SpreadLayers(annotatedType)[laid]
<1>1. PICK key \in pending : def' = ApplyAnnotation(def, key, layer[key]) /\ pending' = pending \ {key}
  BY DEF Apply
<1>2. annotatedType' = annotatedType /\ laid' = laid
  BY DEF Apply
<1>3. laid < Len(annotatedType.layers)
  BY <1>1 DEF LaidInv, Keywords
<1>4. IsLayer(layer) /\ pending \subseteq DOMAIN layer
  BY <1>3, LayerAt
<1>5. SoFar = Over(Restrict(layer, DOMAIN layer \ pending), spread)
  BY <1>3 DEF SoFar
<1>6. SoFar' = Over(Restrict(layer, DOMAIN layer \ (pending \ {key})), spread)
  BY <1>1, <1>2, <1>3 DEF SoFar
<1>7. IsFit(key, layer[key])
  BY <1>1, <1>4 DEF IsLayer
<1> DEFINE value == layer[key]
<1>8. key \in DOMAIN layer
  BY <1>1, <1>4
<1> HIDE DEF layer, spread
<1>9. /\ DOMAIN SoFar' = DOMAIN SoFar \cup {key}
      /\ SoFar'[key] = value
      /\ \A l \in DOMAIN SoFar \ {key} : SoFar'[l] = SoFar[l]
  BY <1>4, <1>5, <1>6, <1>8 DEF Over, Restrict
<1>10. Laid(def, def', key, value)
  BY <1>1, <1>7, ApplyLays DEF LaidInv
<1>11. Agree(def', SoFar')
  BY <1>9, <1>10, ApplyAgrees DEF LaidInv
<1>12. pending' \subseteq Keywords(annotatedType, laid)
  BY <1>1 DEF LaidInv
<1>13. IsDefinition(def')
  BY <1>10 DEF Laid
<1>14. laid + 1 < Len(annotatedType.layers) => NothingLost(def')
  <2> SUFFICES ASSUME laid + 1 < Len(annotatedType.layers) PROVE NothingLost(def')
    OBVIOUS
  <2>1. laid \in Nat /\ Len(annotatedType.layers) \in Nat
    BY <1>3, LayerAt, LayersLength DEF LaidInv
  <2>2. laid + 1 \in 0..Len(annotatedType.layers) - 1 /\ laid + 1 # 0
    BY <2>1
  <2>3. key = "enum" => value # Array(<<>>)
    BY <1>8, <2>2 DEF LaidInv, IsAnnotated, KeepsLists, layer
  <2>. QED
    BY <1>1, <2>3, ApplyKeeps DEF LaidInv
<1>. QED
  BY <1>2, <1>11, <1>12, <1>13, <1>14 DEF LaidInv

LEMMA NextLayerStep == LaidInv /\ NextLayer => LaidInv'
<1> SUFFICES ASSUME LaidInv, NextLayer PROVE LaidInv'
  OBVIOUS
<1> DEFINE layer == annotatedType.layers[laid + 1]
           spread == SpreadLayers(annotatedType)[laid]
           next == SpreadLayers(annotatedType)[laid + 1]
<1>1. /\ laid < Len(annotatedType.layers) /\ pending = {}
      /\ def' = Returned(annotatedType, laid + 1, WithoutRef(def))
      /\ laid' = laid + 1 /\ annotatedType' = annotatedType
      /\ pending' = Keywords(annotatedType, laid + 1)
  BY DEF NextLayer
<1>2. IsLayer(layer) /\ laid \in Nat /\ laid + 1 \in 1..Len(annotatedType.layers)
  BY <1>1, LayerAt
<1>3. Len(annotatedType.layers) \in Nat
  BY LayersLength DEF LaidInv
<1>4. next = WithoutOverriddenRef(Over(layer, spread))
  <2>1. next = Spread(layer, SpreadLayers(annotatedType)[(laid + 1) - 1])
    BY <1>2, <1>3, SpreadLayersAt
  <2>. QED
    BY <1>2, <2>1 DEF Spread
<1>5. SoFar = Over(Restrict(layer, DOMAIN layer \ {}), spread)
  BY <1>1 DEF SoFar
<1>6. SoFar' = IF laid + 1 < Len(annotatedType.layers)
               THEN Over(Restrict(annotatedType.layers[laid + 2],
                                  DOMAIN annotatedType.layers[laid + 2] \ DOMAIN annotatedType.layers[laid + 2]), next)
               ELSE next
  <2>1. (laid + 1) + 1 = laid + 2
    BY <1>2
  <2>. QED
    BY <1>1, <2>1 DEF SoFar, Keywords
<1> HIDE DEF layer, spread, next
<1>7. /\ DOMAIN SoFar' = DOMAIN next
      /\ \A key \in DOMAIN next : SoFar'[key] = next[key]
  BY <1>6, NothingTaken
<1>8. SoFar = Over(layer, spread)
  BY <1>5 DEF Over, Restrict
<1>9. "type" \in DOMAIN SoFar => ~IsUnset("type", SoFar["type"])
  <2>1. "type" \in DOMAIN layer => ~IsUnset("type", layer["type"])
    BY <1>2 DEF IsLayer, IsFit
  <2>2. "type" \in DOMAIN spread => ~IsUnset("type", spread["type"])
    BY DEF LaidInv, spread
  <2>. QED
    BY <1>8, <2>1, <2>2 DEF Over
<1>14. IsDefinition(WithoutRef(def)) /\ Agree(WithoutRef(def), next)
  BY <1>4, <1>8, <1>9, WithoutRefAgrees DEF LaidInv
<1>15. laid + 1 < Len(annotatedType.layers) => NothingLost(WithoutRef(def))
  BY WithoutRefKeeps DEF LaidInv
<1>16. def' = WithoutRef(def)
  BY <1>1, <1>14, <1>15, CloneIsEqual DEF Returned
<1>10. IsDefinition(def') /\ Agree(def', next)
  BY <1>14, <1>16
<1>17. (laid + 1) + 1 < Len(annotatedType.layers) => NothingLost(def')
  BY <1>2, <1>3, <1>15, <1>16
<1>11. "type" \in DOMAIN next => ~IsUnset("type", next["type"])
  BY <1>4, <1>8, <1>9, FieldsAreApart DEF WithoutOverriddenRef, Without, Restrict
<1>12. Agree(def', SoFar')
  BY <1>7, <1>10 DEF Agree
<1>13. laid + 1 \in 0..Len(annotatedType.layers)
  BY <1>2, <1>3
<1>. QED
  BY <1>1, <1>10, <1>11, <1>12, <1>13, <1>17 DEF LaidInv, next

LEMMA LaidSame == LaidInv /\ UNCHANGED formatVars => LaidInv'
BY DEF LaidInv, SoFar, NothingLost, formatVars

\* Whatever order Go takes the annotations of a layer in, and however many layers
\* there are, the definition that AnnotatedTypeFormatter returns (lines 45-56 of
\* annotated_type_formatter.go) is written like the spread of all annotations over
\* the definition: nothing is lost, written twice or taken from an inner layer.
THEOREM LayersAreSpreadInAnyOrder == FormatSpec => []LayersAreSpread
<1>1. LaidInv => LayersAreSpread
  <2> SUFFICES ASSUME LaidInv, laid = Len(annotatedType.layers)
               PROVE  Marshalled(def) = Present(SpreadLayers(annotatedType)[Len(annotatedType.layers)])
    BY DEF LayersAreSpread
  <2>1. SoFar = SpreadLayers(annotatedType)[laid]
    <3>1. laid \in Nat
      BY LayersLength DEF LaidInv
    <3>. QED
      BY <3>1 DEF SoFar
  <2>. QED
    BY <2>1, AgreeIsPresent DEF LaidInv
<1>2. LaidInv /\ [Lay]_formatVars => LaidInv'
  BY ApplyStep, NextLayerStep, LaidSame DEF Lay
<1>. QED
  BY <1>1, <1>2, LaidInit, PTL DEF FormatSpec
=============================================================================
