------------------------- MODULE NodeParserProperties -------------------------
(***************************************************************************)
(* What the parsers are for: the types NodeParser builds are compared with *)
(* the meaning of the syntax, defined here by lexical scoping alone: no    *)
(* contexts, no cache, no references for what is still being parsed.       *)
(* Both are unfolded to the same depth, since they may be infinite.        *)
(***************************************************************************)
EXTENDS TypeIdentity, FiniteSetsExt, Functions, TLC

-----------------------------------------------------------------------------
(* The meaning of a node in a scope, which maps the type parameters in     *)
(* sight to closures [node, scope].                                        *)

Closure(n, scope) == [node |-> n, scope |-> scope]

\* A declaration's scope: its parameters and the arguments of the reference.
ScopeOf(n, scope) ==
  LET params == prog[prog[n].target].params
  IN [x \in Range(params) |->
        Closure(prog[n].kids[CHOOSE i \in 1..Len(params) : params[i] = x], scope)]

\* The object, tuple or primitive a node stands for: what is left when
\* references, aliases, parameters and indices are followed.
RECURSIVE Head0(_)
Head0(c) ==
  LET n == prog[c.node] IN
    CASE n.kind = "alias" -> Head0(Closure(n.kids[1], c.scope))
      [] n.kind = "ref"   -> Head0(Closure(n.target, ScopeOf(c.node, c.scope)))
      [] n.kind = "param" -> Head0(c.scope[n.name])
      [] n.kind = "index" ->
           LET object == Head0(Closure(n.kids[1], c.scope))
           IN Head0(Closure(prog[object.node].kids[n.name], object.scope))
      [] OTHER -> c

Cut == <<"...">>

RECURSIVE Meaning(_, _)
Meaning(c, depth) ==
  LET head == Head0(c)
      n == prog[head.node]
      parts == [i \in 1..Len(n.kids) |-> Meaning(Closure(n.kids[i], head.scope), depth - 1)]
  IN CASE n.kind = "prim" -> <<n.name>>
       [] n.kind # "prim" /\ depth = 0 -> Cut
       [] n.kind = "tuple" /\ depth # 0 -> <<"tuple", parts>>
       [] OTHER -> <<"object", parts>>

\* What a type in the heap says, references and names seen through.
RECURSIVE Shape(_, _)
Shape(p, depth) ==
  LET q == DerefType(heap, p)
      t == heap[q]
      parts == [i \in 1..Len(t.subs) |-> Shape(t.subs[i], depth - 1)]
  IN CASE t.kind = "prim" -> <<t.id[1].of>>
       [] t.kind # "prim" /\ depth = 0 -> Cut
       [] t.kind \in {"tuple", "object"} /\ depth # 0 -> <<t.kind, parts>>
       [] OTHER -> <<t.kind>>

\* What an impossible member makes of a declaration is the parsers' own matter;
\* the syntax is only compared with the types of programs without one.
HasMeaning == \A n \in Nodes : prog[n].kind # "never" /\ (prog[n].kind = "ref" => prog[n].target # NoNode)

-----------------------------------------------------------------------------
\* Every type handed to the generator says what its declaration says, to any
\* depth: whatever was cached by earlier roots, whatever was still being
\* parsed when a reference to it was needed, however generics were nested.
TypesMeanTheSource ==
  Idle /\ HasMeaning =>
    \A i \in 1..Len(returned) :
      Shape(returned[i], Depth) = Meaning(Closure(asked[i], <<>>), Depth)

\* Every call that was made returns, unless a parser panics.
EveryCallReturns == frames # <<>> ~> (Idle \/ panicked)
=============================================================================
