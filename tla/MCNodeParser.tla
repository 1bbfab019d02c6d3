----------------------------- MODULE MCNodeParser -----------------------------
(***************************************************************************)
(* NodeParser on every program of four declarations                        *)
(*                                                                         *)
(*   export interface A { 1: <slot>; 2: <slot> }                           *)
(*   [export] interface B { 1: <slot>; 2: string }                         *)
(*   export interface G<T> { 1: <slot>; 2: T }                             *)
(*   export type L<U> = { 1: <slot>; 2: U }                                *)
(*                                                                         *)
(* whose slots are filled from a menu of types.                            *)
(***************************************************************************)
EXTENDS NodeParserProperties, SmallPrograms

A == ReferenceTo("A", <<>>)
B == ReferenceTo("B", <<>>)
G(argument) == ReferenceTo("G", <<argument>>)
L(argument) == ReferenceTo("L", <<argument>>)
T == Parameter("T")
U == Parameter("U")

Program(a1, a2, b1, g1, l1, exportB) ==
  LET b == Interface("B", <<>>, <<b1, String>>)
  IN Interface("A", <<>>, <<a1, a2>>)
     @@ (IF exportB THEN b ELSE Hide("B", b))
     @@ Interface("G", <<"T">>, <<g1, T>>)
     @@ TypeAlias("L", <<"U">>, Literal(<<l1, U>>))

\* Declarations that refer to each other in every way, directly, through
\* tuples and as type arguments.
CyclicPrograms ==
  {Program(a1, a2, b1, g1, l1, exportB) :
     a1 \in {String, B, Tuple(<<A, B>>), G(String)},
     a2 \in {G(A), G(B), L(Number)},
     b1 \in {A, G(A), L(B), Tuple(<<G(B)>>), Index(L(A), 2), Index(G(String), 2)},
     g1 \in {A, G(T)},
     l1 \in {B, L(U)},
     exportB \in BOOLEAN}

\* G refers to L with its own parameter: one reference, and for every argument
\* of G another type.
NestedPrograms ==
  {Program(a1, a2, b1, L(T), l1, TRUE) :
     a1 \in {String, B, G(String)},
     a2 \in {G(A), G(B), L(Number)},
     b1 \in {G(A), L(B), Tuple(<<G(B)>>)},
     l1 \in {String, B, L(U)}}

\* A takes members of B, which does not lead back to A: of a declaration that is
\* still being parsed T["m"] is T.  L's parameter is not called T either, which
\* the fast path of T["m"] would mix up with G's.
IndexPrograms ==
  {Program(Index(B, 1), a2, b1, g1, l1, TRUE) :
     a2 \in {Index(B, 2), G(B), L(Number)},
     b1 \in {G(String), L(String), Tuple(<<L(String)>>), Index(L(G(String)), 2)},
     g1 \in {String, G(T), L(T)},
     l1 \in {String, G(U), L(U)}}

\* Members that can never be there, in A or B, and types nothing declares.
NeverPrograms ==
  {Program(a1, members[1], members[2], g1, String, exportB) :
     a1 \in {B, G(B), Index(B, 2), Unresolved},
     members \in ({NeverType} \X {A, G(String)})
                  \cup ({String, B, NeverType} \X {NeverType, Tuple(<<NeverType>>), Unresolved}),
     g1 \in {String, T},
     exportB \in BOOLEAN}

\* type L<U> = { 1: [{ 1: L<number>["1"] }]; 2: U }: on the fast path of A's
\* T["m"] the tuple is parsed before L, and once more within itself.
ReentrantPrograms ==
  {Program(a1, a2, b1, T, Tuple(<<Literal(<<Index(L(Number), 1)>>)>>), TRUE) :
     a1 \in {Index(L(String), 1), B, G(L(B))},
     a2 \in {L(Number), Index(L(B), 1)},
     b1 \in {String, A, Index(L(A), 2)}}

MCPrograms ==
  CyclicPrograms \cup NestedPrograms \cup IndexPrograms \cup NeverPrograms \cup ReentrantPrograms
=============================================================================
