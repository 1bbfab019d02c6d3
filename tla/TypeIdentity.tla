----------------------------- MODULE TypeIdentity -----------------------------
(***************************************************************************)
(* What IDs and names are for: an ID is printed from the declaration and   *)
(* the IDs of its arguments, a name likewise, and the parser's caches, the  *)
(* definitions of a schema and the check for name conflicts all take two   *)
(* types that have one ID, or one name, for one type.                      *)
(***************************************************************************)
EXTENDS NodeParser

CONSTANT Depth  \* how many members or elements deep types are compared

ASSUME DepthAssumption == Depth \in Nat

\* The ID of a type without "def-", which comes and goes with definitions.
BareId(h, p) == StripDef(TypeId(h, p))

BareIds(h, ps) == [i \in 1..Len(ps) |-> BareId(h, ps[i])]

\* The programs without T["m"], which has the type of a member and no ID of its own.
IndexFree == \A n \in Nodes : prog[n].kind # "index"

DistinctNames == \A m, n \in Declarations : m # n => prog[m].name # prog[n].name

\* No declaration turned out to be never.  One that does loses the ID that the
\* references handed out while it was parsed had.
NothingIsNever ==
  \A p \in Pointers(heap) :
    heap[p].kind \in {"def", "ref"} /\ HasType(heap, p) => heap[heap[p].subs[1]].kind # "never"

-----------------------------------------------------------------------------
\* The ID of what a node stands for, by its syntax alone: args are the IDs of
\* the arguments of the declaration the node is written in.
NodeId(n, args) ==
  LET Argument(m) ==
        LET params == prog[prog[m].owner].params
            named == {i \in 1..Len(params) : params[i] = prog[m].name}
            first == {i \in named : \A j \in named : i <= j}
        IN IF first \cap (1..Len(args)) = {} THEN Id("unknown", "", <<>>)
           ELSE args[CHOOSE i \in first : TRUE]
      id[m \in Nodes] ==
        LET kids == [i \in 1..Len(prog[m].kids) |-> id[prog[m].kids[i]]]
        IN CASE prog[m].kind = "prim" -> Id("prim", prog[m].name, <<>>)
             [] prog[m].kind = "never" -> Id("never", "", <<>>)
             [] prog[m].kind = "tuple" -> Id("tuple", "", kids)
             [] prog[m].kind = "param" -> Argument(m)
             [] prog[m].kind = "ref" -> Id(prog[prog[m].target].kind, prog[m].target, kids)
             [] OTHER -> Id(prog[m].kind, m, args)
  IN id[n]

\* An object or alias is that of the node in its ID, for the arguments in its
\* ID, part by part: each has the ID that the member has, or the aliased type,
\* when the arguments are put for the parameters.  As an ID identifies a type this
\* says what the type is to any depth.
FollowsTheSource(p) ==
  LET n == Head(BareId(heap, p)).of
  IN \E args \in [1..Head(BareId(heap, p)).parts -> Pointers(heap)] :
       /\ BareId(heap, p) = Id(prog[n].kind, n, BareIds(heap, args))
       /\ Len(heap[p].subs) = Len(prog[n].kids)
       /\ \A i \in 1..Len(heap[p].subs) :
            BareId(heap, heap[p].subs[i]) = NodeId(prog[n].kids[i], BareIds(heap, args))

\* Every type the parsers make says what its declaration says, whatever was
\* cached for other arguments, was still being parsed or was parsed before.
TypesFollowTheSource ==
  IndexFree /\ NothingIsNever =>
    \A p \in Pointers(heap) : heap[p].kind \in {"object", "alias"} => FollowsTheSource(p)

\* The type itself: what a definition or a reference stands for.
Unwrap(p) == IF heap[p].kind = "def" THEN heap[p].subs[1] ELSE p

Proper(p) == IF heap[p].kind = "ref" /\ HasType(heap, p) THEN Unwrap(heap[p].subs[1]) ELSE Unwrap(p)

\* A type unfolded, aliases and all, to a depth, under its kind: two of different
\* kinds are never one.
Unfolding(p, depth) ==
  LET unfolded[d \in 0..depth] ==
        [q \in Pointers(heap) |->
           LET t == heap[Proper(q)]
               parts == [i \in 1..Len(t.subs) |-> unfolded[d - 1][t.subs[i]]]
           IN IF t.kind = "prim" THEN <<"prim", t.id>>
              ELSE IF d = 0 THEN <<t.kind>> ELSE <<t.kind, parts>>]
  IN unfolded[depth][p]

\* Two definitions of one name stand for one type, in whatever order and for
\* whichever roots they were made: appendRootChildDefinitions keeps one of them.
OneNameOneType ==
  Idle /\ DistinctNames /\ NothingIsNever =>
    \A p, q \in {d \in Pointers(heap) : heap[d].kind = "def"} :
      heap[p].name = heap[q].name => Unfolding(p, Depth) = Unfolding(q, Depth)

\* The ID of a type never changes but for "def-", so that a key made from the IDs
\* of arguments still fits them when the references in them have been set.
IdsAreFinal ==
  [][NothingIsNever' => \A p \in Pointers(heap) : BareId(heap', p) = BareId(heap, p)]_vars
=============================================================================
