------------------------------ MODULE NodeParser ------------------------------
(***************************************************************************)
(* From syntax to types: ChainNodeParser, which caches the type of a node  *)
(* per context, CircularReferenceNodeParser, which hands out a reference   *)
(* for a declaration that is being parsed, and the parsers between them.   *)
(* The recursion of CreateType is an explicit stack of calls, innermost    *)
(* first, one frame per node that was not in the cache.                    *)
(*                                                                         *)
(* A program is a function from nodes to                                   *)
(*   [kind, kids, target, name, params, exported, exposed, owner, height]  *)
(*   "interface"  kids: the types of its members                           *)
(*   "alias"      kids: the aliased type node                              *)
(*   "literal"    an inline object type; kids: the types of its members    *)
(*   "ref"        a type reference; target: the declaration, NoNode when   *)
(*                it cannot be resolved; kids: the type arguments          *)
(*   "param"      a reference to the type parameter called name            *)
(*   "tuple"      kids: the element types                                  *)
(*   "index"      T["m"]; kids: T; name: the position of the member m      *)
(*   "prim"       a primitive type called name                             *)
(*   "never"                                                               *)
(* Declarations carry their name, the names of their type parameters,      *)
(* whether they are exported, so that the generator finds them by name, and *)
(* whether they are exposed as definitions (the --expose option).  Every    *)
(* node has the declaration it is written in, its owner, which is itself   *)
(* for a declaration, and the height of its syntax tree.                   *)
(***************************************************************************)
EXTENDS TypeHeap

CONSTANTS
  Programs,  \* the programs to parse
  MaxCalls   \* bound on the root types asked for

NoNode == ""

\* A program as the parser takes it: kids and targets are nodes of the program,
\* what a reference resolves to is a declaration, an alias is of one type, only
\* declarations are exposed (isExportNode refuses literals), and what is below a
\* declaration is a tree, written in that declaration alone.
WellFormed(program) ==
  /\ NoNode \notin DOMAIN program
  /\ \A n \in DOMAIN program :
       /\ program[n].kids \in Seq(DOMAIN program)
       /\ program[n].kind = "ref" =>
            program[n].target = NoNode \/ program[program[n].target].kind \in {"interface", "alias"}
       /\ program[n].kind = "ref" => program[n].target \in DOMAIN program \cup {NoNode}
       /\ program[n].kind \in {"alias", "index"} => Len(program[n].kids) = 1
       /\ program[n].owner \in DOMAIN program /\ program[n].height \in Nat
       /\ program[n].kind \in {"interface", "alias"} => program[n].owner = n
       /\ program[n].exposed => program[n].kind \in {"interface", "alias"}
       /\ \A i \in 1..Len(program[n].kids) :
            LET kid == program[program[n].kids[i]] IN
            /\ kid.kind \notin {"interface", "alias"}
            /\ kid.owner = program[n].owner /\ kid.height < program[n].height

ASSUME ProgramsAssumption == \A program \in Programs : WellFormed(program)
ASSUME MaxCallsAssumption == MaxCalls \in Nat

VARIABLES
  prog,        \* the program: never changes
  heap,        \* every intermediate type made so far
  typeCaches,  \* ChainNodeParser.typeCaches: node and context key -> type
  circular,    \* CircularReferenceNodeParser.circular: node key -> reference
  frames,      \* the open CreateType calls, innermost first
  asked,       \* the root nodes asked for so far, latest last
  returned,    \* returned[i]: the type of asked[i], when it has returned
  panicked     \* a parser panicked: the call is abandoned

vars == <<prog, heap, typeCaches, circular, frames, asked, returned, panicked>>

Nodes == DOMAIN prog

Declarations == {n \in Nodes : prog[n].kind \in {"interface", "alias"}}

Roots == {n \in Declarations : prog[n].exported /\ prog[n].params = <<>>}

-----------------------------------------------------------------------------
(* Contexts and keys *)

\* The cache key names the reference the context was made for and its
\* arguments, with the IDs they had when the key was first asked for.
Context(ref, args, h) ==
  [ref |-> ref, args |-> args, params |-> <<>>,
   key |-> [ref |-> ref, args |-> TypeIds(h, args)]]

RootContext == Context(NoNode, <<>>, heap)

\* GetArgument: the argument of the first parameter of that name, if any.
GetArgument(ctx, name) ==
  LET positions == {i \in 1..Len(ctx.params) : ctx.params[i] = name}
      first == {i \in positions : \A j \in positions : i <= j}
  IN {ctx.args[i] : i \in first \cap (1..Len(ctx.args))}

\* Mutant of NodeKey: the arguments are left out.
NodeKeyWithoutArguments(n, ctx) == [node |-> n, args |-> <<>>]

\* GetNodeKey: the node and the IDs of the arguments, not the reference.
NodeKey(n, ctx) == [node |-> n, args |-> TypeIds(heap, ctx.args)]

\* Mutant of CacheKey: the arguments are left out.
CacheKeyWithoutArguments(n, ctx) == [node |-> n, ctx |-> ctx.key.ref]

CacheKey(n, ctx) == [node |-> n, ctx |-> ctx.key]

Put(f, k, v) == [x \in DOMAIN f \cup {k} |-> IF x = k THEN v ELSE f[x]]

Remove(f, k) == [x \in DOMAIN f \ {k} |-> f[x]]

IsCircular(n) == prog[n].kind \in {"interface", "alias", "literal"}

-----------------------------------------------------------------------------
(* What an open call asks for next *)

Top == Head(frames)

Call(n, ctx) == [node |-> n, ctx |-> ctx]

\* createIndexedType: T["m"] for T an alias of a literal with a member m is
\* the member's type node, parsed in the context of the index type.
FastMember(n) ==
  LET object == prog[n].kids[1]
      alias == prog[object].target
      literal == prog[alias].kids[1]
  IN IF prog[object].kind # "ref" \/ alias = NoNode THEN {}
     ELSE IF prog[alias].kind # "alias" \/ prog[literal].kind # "literal" THEN {}
     ELSE {prog[literal].kids[i] : i \in (1..Len(prog[literal].kids)) \cap {prog[n].name}}

IndexCalls(f) ==
  LET object == Call(prog[f.node].kids[1], f.ctx)
      fast == {Call(m, f.ctx) : m \in FastMember(f.node)}
  IN CASE f.vals = <<>> -> IF fast # {} THEN fast ELSE {object}
       [] Len(f.vals) = 1 -> IF fast # {} /\ heap[f.vals[1]].kind = "unknown" THEN {object} ELSE {}
       [] OTHER -> {}

\* The nodes a call parses in order; a type reference parses its arguments in
\* its own context and then the declaration in a context that holds them.
NextCall(f) ==
  LET n == prog[f.node]
      k == Len(f.vals)
  IN IF n.kind = "index" THEN IndexCalls(f)
     ELSE IF k < Len(n.kids) THEN {Call(n.kids[k + 1], f.ctx)}
     ELSE IF n.kind = "ref" /\ k = Len(n.kids) THEN {Call(n.target, Context(f.node, f.vals, heap))}
     ELSE {}

-----------------------------------------------------------------------------
(* Calls and returns *)

Init ==
  /\ prog \in Programs
  /\ heap = <<>>
  /\ typeCaches = <<>>
  /\ circular = <<>>
  /\ frames = <<>>
  /\ asked = <<>>
  /\ returned = <<>>
  /\ panicked = FALSE

Idle == frames = <<>>

\* A call returns p to the call that made it, or to the generator.
Deliver(p, callers) ==
  IF callers = <<>>
  THEN /\ frames' = <<>>
       /\ returned' = Append(returned, p)
  ELSE /\ frames' = <<[Head(callers) EXCEPT !.vals = Append(@, p)]>> \o Tail(callers)
       /\ UNCHANGED returned

\* The node is in the cache for this context.
UseCache(call, callers) ==
  /\ CacheKey(call.node, call.ctx) \in DOMAIN typeCaches
  /\ Deliver(typeCaches[CacheKey(call.node, call.ctx)], callers)
  /\ UNCHANGED <<heap, typeCaches, circular>>

\* Mutant of UseCircular: waits for a reference that is set.
UseCircularWhenSet(call, callers) ==
  /\ CacheKey(call.node, call.ctx) \notin DOMAIN typeCaches
  /\ IsCircular(call.node)
  /\ NodeKey(call.node, call.ctx) \in DOMAIN circular
  /\ HasType(heap, circular[NodeKey(call.node, call.ctx)])
  /\ Deliver(circular[NodeKey(call.node, call.ctx)], callers)
  /\ UNCHANGED <<heap, typeCaches, circular>>

\* The declaration is being parsed with the same arguments: its reference is
\* the answer, which the chain does not cache.
UseCircular(call, callers) ==
  /\ CacheKey(call.node, call.ctx) \notin DOMAIN typeCaches
  /\ IsCircular(call.node)
  /\ NodeKey(call.node, call.ctx) \in DOMAIN circular
  /\ Deliver(circular[NodeKey(call.node, call.ctx)], callers)
  /\ UNCHANGED <<heap, typeCaches, circular>>

DeclarationId(n, ctx) ==
  Id(prog[n].kind, n, TypeIds(heap, ctx.args))

\* Mutant of DeclarationName: every instance of a generic has the same name.
DeclarationNameWithoutArguments(n, ctx) == Id("name", prog[n].name, <<>>)

DeclarationName(n, ctx) ==
  Id("name", prog[n].name, TypeNames(heap, ctx.args))

\* The parser of a declaration or of an object literal enters a new reference
\* in circular, zips its parameters onto the arguments in the context and
\* gives the reference the ID and the name it has until SetType.
Enter(call, callers) ==
  LET n == call.node
      ctx == call.ctx
      key == NodeKey(n, ctx)
      id == DeclarationId(n, ctx)
      name == IF prog[n].kind = "alias" THEN DeclarationName(n, ctx) ELSE id
  IN /\ CacheKey(n, ctx) \notin DOMAIN typeCaches
     /\ IF IsCircular(n)
        THEN /\ key \notin DOMAIN circular
             /\ heap' = Append(heap, Reference(id, name))
             /\ circular' = Put(circular, key, Len(heap) + 1)
             /\ frames' = <<[node |-> n, key |-> key, ref |-> Len(heap) + 1, vals |-> <<>>,
                             ctx |-> [ctx EXCEPT !.params = IF prog[n].kind = "literal" THEN @
                                                            ELSE prog[n].params]]>> \o callers
        ELSE /\ frames' = <<[node |-> n, key |-> key, ref |-> 0, ctx |-> ctx, vals |-> <<>>]>> \o callers
             /\ UNCHANGED <<heap, circular>>
     /\ UNCHANGED <<typeCaches, returned>>

CreateType(call, callers) ==
  \/ UseCache(call, callers)
  \/ UseCircular(call, callers)
  \/ Enter(call, callers)

\* The generator asks for the type of a root node.
ParseRoot(n) ==
  /\ Idle
  /\ ~panicked
  /\ Len(asked) < MaxCalls
  /\ asked' = Append(asked, n)
  /\ CreateType(Call(n, RootContext), <<>>)
  /\ UNCHANGED <<prog, panicked>>

\* The innermost call parses the next node it needs.
ParseNext ==
  /\ frames # <<>>
  /\ ~panicked
  /\ \E call \in NextCall(Top) :
       /\ call.node # NoNode
       /\ CreateType(call, frames)
  /\ UNCHANGED <<prog, asked, panicked>>

\* A reference nothing resolves: the chain is handed a nil node and panics.
\* Nothing on the way up restores circular.
PanicOnNil ==
  /\ frames # <<>>
  /\ ~panicked
  /\ \E call \in NextCall(Top) : call.node = NoNode
  /\ panicked' = TRUE
  /\ UNCHANGED <<prog, heap, typeCaches, circular, frames, asked, returned>>

-----------------------------------------------------------------------------
(* The type a call makes when it has parsed all it needs *)

\* Mutant of Return: references are cached too.
ReturnCachingReferences(h, p) ==
  /\ heap' = h
  /\ typeCaches' = Put(typeCaches, CacheKey(Top.node, Top.ctx), p)
  /\ Deliver(p, Tail(frames))
  /\ UNCHANGED <<prog, asked, panicked>>

\* The innermost call returns p, which the chain caches unless it is a reference.
Return(h, p) ==
  /\ heap' = h
  /\ typeCaches' = IF h[p].kind = "ref" THEN typeCaches
                   ELSE Put(typeCaches, CacheKey(Top.node, Top.ctx), p)
  /\ Deliver(p, Tail(frames))
  /\ UNCHANGED <<prog, asked, panicked>>

ReturnNew(type) == Return(Append(heap, type), Len(heap) + 1)

Finished(kinds) ==
  /\ frames # <<>>
  /\ ~panicked
  /\ prog[Top.node].kind \in kinds
  /\ NextCall(Top) = {}

FinishLeaf ==
  /\ Finished({"prim", "never"})
  /\ ReturnNew(IF prog[Top.node].kind = "prim" THEN Prim(prog[Top.node].name) ELSE Never)
  /\ UNCHANGED circular

FinishTuple ==
  /\ Finished({"tuple"})
  /\ ReturnNew(TupleOf(Top.vals))
  /\ UNCHANGED circular

FinishParameter ==
  /\ Finished({"param"})
  /\ LET argument == GetArgument(Top.ctx, prog[Top.node].name) IN
       IF argument = {} THEN ReturnNew(Unknown)
       ELSE \E p \in argument : Return(heap, p)
  /\ UNCHANGED circular

\* A type reference is what its declaration was parsed to.
FinishReference ==
  /\ Finished({"ref"})
  /\ Return(heap, Top.vals[Len(Top.vals)])
  /\ UNCHANGED circular

\* The member m of an object, its alias seen through.
MemberOf(object, m) ==
  {p \in Pointers(heap) :
     \E i \in (1..Len(heap[object].subs)) \cap {m} : p = DerefAliasedType(heap, heap[object].subs[i])}

\* T["m"]: the fast path's type, or the member of the object T stands for.  A
\* T that is still being parsed has no members yet: the index type is then T.
FinishIndex ==
  /\ Finished({"index"})
  /\ LET last == Top.vals[Len(Top.vals)]
         fast == FastMember(Top.node) # {} /\ Len(Top.vals) = 1
     IN \/ fast /\ Return(heap, last)
        \/ ~fast /\ \E object \in Pointers(heap) :
             LET members == MemberOf(object, prog[Top.node].name) IN
             /\ object = DerefType(heap, last)
             /\ \/ heap[object].kind = "ref" /\ Return(heap, object)
                \/ heap[object].kind = "object" /\ \E p \in members : Return(heap, p)
                \/ heap[object].kind \notin {"ref", "object"} /\ ReturnNew(Never)
                \/ heap[object].kind = "object" /\ members = {} /\ ReturnNew(Never)
  /\ UNCHANGED circular

\* An interface, an alias or a literal: a member (or aliased type) that can
\* never be there makes it never; its ID is the one it had when it was entered;
\* an exposed declaration is wrapped in a definition, whose name is made now;
\* the reference handed out meanwhile is set.
FinishDeclaration ==
  /\ Finished({"interface", "alias", "literal"})
  /\ LET n == Top.node
         id == heap[Top.ref].id
         never == \E i \in 1..Len(Top.vals) : IsNeverLike(heap, Top.vals[i])
         inner == IF never THEN Never
                  ELSE IF prog[n].kind = "alias" THEN Alias(id, Top.vals[1])
                  ELSE Object(id, Top.vals)
         base == Append(heap, inner)
         exposed == IF prog[n].exposed
                    THEN Append(base, Definition(DeclarationName(n, Top.ctx), Len(base)))
                    ELSE base
     IN Return(SetType(exposed, Top.ref, Len(exposed)), Len(exposed))
  /\ circular' = Remove(circular, Top.key)

Finish ==
  \/ FinishLeaf
  \/ FinishTuple
  \/ FinishParameter
  \/ FinishReference
  \/ FinishIndex
  \/ FinishDeclaration

Step == ParseNext \/ PanicOnNil \/ Finish

Next == (\E n \in Roots : ParseRoot(n)) \/ Step

Spec == Init /\ [][Next]_vars

FairSpec == Spec /\ WF_vars(Step)

-----------------------------------------------------------------------------
(* Properties *)

\* A sequence, whatever it is of.
IsSequence(s) == s \in Seq({s[i] : i \in DOMAIN s})

Kinds == {"prim", "never", "unknown", "object", "tuple", "alias", "def", "ref"}

TypesOK ==
  /\ IsSequence(heap)
  /\ \A p \in Pointers(heap) :
       /\ heap[p] = NewType(heap[p].kind, heap[p].id, heap[p].name, heap[p].subs)
       /\ heap[p].kind \in Kinds
       /\ heap[p].subs \in Seq(Pointers(heap))

CachesOK ==
  /\ \A k \in DOMAIN typeCaches :
       typeCaches[k] \in Pointers(heap) /\ heap[typeCaches[k]].kind # "ref"
  /\ \A k \in DOMAIN circular :
       circular[k] \in Pointers(heap) /\ heap[circular[k]].kind = "ref"

FramesOK ==
  /\ IsSequence(frames)
  /\ \A i \in 1..Len(frames) :
       /\ frames[i] = [node |-> frames[i].node, key |-> frames[i].key, ref |-> frames[i].ref,
                       ctx |-> frames[i].ctx, vals |-> frames[i].vals]
       /\ frames[i].node \in Nodes
       /\ frames[i].vals \in Seq(Pointers(heap))
       /\ frames[i].ctx.args \in Seq(Pointers(heap))
       /\ frames[i].ref \in Pointers(heap) \cup {0}
       /\ frames[i].ref # 0 <=> IsCircular(frames[i].node)

\* The heap holds well-formed types only, the caches and the calls point into
\* it, and the chain's cache holds no reference: only what is final is cached.
TypeOK ==
  /\ TypesOK
  /\ CachesOK
  /\ FramesOK
  /\ asked \in Seq(Roots)
  /\ returned \in Seq(Pointers(heap))
  /\ panicked \in BOOLEAN

Unset == {p \in Pointers(heap) : heap[p].kind = "ref" /\ ~HasType(heap, p)}

OpenReferences == {frames[i].ref : i \in 1..Len(frames)} \ {0}

\* A reference is unset exactly while the call that made it is open: when the
\* generator gets its types, none of them hangs on a reference to nothing.
NoDanglingReference == ~panicked => Unset = OpenReferences

\* circular holds the references of the open calls and nothing else, so that a
\* later parse of the declaration cannot be handed a stale one.
CircularIsOpen ==
  /\ DOMAIN circular = {frames[i].key : i \in {j \in 1..Len(frames) : frames[j].ref # 0}}
  /\ \A i \in 1..Len(frames) : frames[i].ref # 0 => circular[frames[i].key] = frames[i].ref

OpenKeys == {CacheKey(frames[i].node, frames[i].ctx) : i \in 1..Len(frames)}

\* A type that has been cached is never changed and stays in the cache, so that
\* later roots see what earlier ones saw.  Only the entry of a call that is still
\* open may be replaced: a call that reaches its own node and context again
\* through T["m"] is answered twice, first by the inner call, last by itself.
CachedTypesAreFinal ==
  [][\A k \in DOMAIN typeCaches :
       /\ k \in DOMAIN typeCaches'
       /\ heap'[typeCaches[k]] = heap[typeCaches[k]]
       /\ k \notin OpenKeys => typeCaches'[k] = typeCaches[k]]_vars
=============================================================================
