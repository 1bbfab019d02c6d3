--------------------------- MODULE MCSchemaGenerator ---------------------------
(***************************************************************************)
(* SchemaGenerator on programs of up to five declarations                  *)
(*                                                                         *)
(*   export interface A { 1: <slot>; 2: <slot> }                           *)
(*   [export] interface B { 1: <slot> }  or  type B = { 1: <slot> }        *)
(*   export interface G<T> { 1: <slot>; 2: T }                             *)
(*   export type X = <slot>                                                *)
(***************************************************************************)
EXTENDS SchemaGeneratorProperties, SmallPrograms

A == ReferenceTo("A", <<>>)
B == ReferenceTo("B", <<>>)
G(argument) == ReferenceTo("G", <<argument>>)
T == Parameter("T")

\* B as an exported interface, a hidden one, an exported alias of a literal.
DeclareB(form, b1) ==
  CASE form = "exported" -> Interface("B", <<>>, <<b1>>)
    [] form = "hidden"   -> Hide("B", Interface("B", <<>>, <<b1>>))
    [] form = "alias"    -> TypeAlias("B", <<>>, Literal(<<b1>>))

Program(a1, a2, form, b1, g1, x) ==
  Interface("A", <<>>, <<a1, a2>>) @@ DeclareB(form, b1)
  @@ Interface("G", <<"T">>, <<g1, T>>) @@ TypeAlias("X", <<>>, x)

Exported ==
  {Program(a[1], a[2], form, b1, g1, x) :
     a \in {<<B, G(A)>>, <<B, G(B)>>, <<G(A), B>>, <<Tuple(<<A, B>>), G(A)>>},
     form \in {"exported", "hidden", "alias"},
     b1 \in {A, G(B)},
     g1 \in {G(T), B},
     x \in {A, G(B)}}

\* The same with --expose none: every definition is made on the fly.
Unexposed ==
  {ExposeNone(Program(B, a2, form, b1, B, G(B))) :
     a2 \in {G(A), G(B)}, form \in {"exported", "alias"}, b1 \in {A, G(Tuple(<<A>>))}}

Broken ==
  {Program(B, a2, "exported", b1, g1, A) :
     a2 \in {String, G(A)}, b1 \in {Unresolved, G(String)}, g1 \in {String, Unresolved}}

\* Two declarations called D, in two files: A uses one, B the other or both.
Ambiguous ==
  LET d(n) == ReferenceTo(n, <<>>)
      declare(n, type) == [Interface(n, <<>>, <<type>>) EXCEPT ![n].name = "D", ![n].exported = FALSE]
  IN {Interface("A", <<>>, <<d("D1"), a2>>) @@ Interface("B", <<>>, <<d("D2")>>)
        @@ declare("D1", String) @@ declare("D2", Number) : a2 \in {String, d("D2"), B}}

\* Declarations that refer to themselves and to each other in pairs, for calls
\* that follow each other on one generator.
PairPrograms ==
  {Program(a[1], a[2], form, b1, g1, x) :
     a \in {<<B, G(String)>>, <<G(Number), B>>, <<Tuple(<<A, B>>), String>>},
     form \in {"exported", "hidden", "alias"},
     b1 \in {A, B, G(String)},
     g1 \in {B, G(T)},
     x \in {B, G(B)}}

\* interface A { 1: B }, interface B { 1: C }, interface C { 1: A }
RingPrograms ==
  {Interface("A", <<>>, <<B>>) @@ Interface("B", <<>>, <<ReferenceTo("C", <<>>)>>)
     @@ Interface("C", <<>>, <<A>>)}

-----------------------------------------------------------------------------
MCPrograms == Exported \cup Unexposed \cup Broken \cup Ambiguous \cup PairPrograms

Session(topRefValues, calls, types) == [topRefs |-> topRefValues, runs |-> calls, roots |-> types]

\* One call for two types, two calls for one each, or one for one.  A second
\* call for a ring (without a top-level $ref a pair is one), and a call for both
\* roots of an ambiguous program, have runs of their own.
MCSessions ==
  [p \in MCPrograms |->
     CASE p \in PairPrograms -> Session({TRUE}, 2, 1)
       [] p \in Broken \cup Ambiguous -> Session(BOOLEAN, 1, 1)
       [] OTHER -> Session(BOOLEAN, 1, 2)]

RingSessions == [p \in RingPrograms |-> Session({TRUE}, 2, 1)]
AmbiguousSessions == [p \in Ambiguous |-> Session({TRUE}, 1, 2)]
=============================================================================
