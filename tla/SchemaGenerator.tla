--------------------------- MODULE SchemaGenerator ---------------------------
(***************************************************************************)
(* SchemaGenerator.CreateSchema, called once or, by --outdir, once per     *)
(* requested type on the same generator: the requested roots are parsed    *)
(* (NodeParser), the definitions below each of them are collected by the   *)
(* formatter (ChildCollector), named, and cut down to those the schema     *)
(* refers to.  Both the parser's caches and the formatter's memo outlive   *)
(* the call.                                                               *)
(*                                                                         *)
(* A definition of the schema is the pointer it is the GetDefinition of;   *)
(* its $refs are computed where the code reads them.                       *)
(***************************************************************************)
EXTENDS NodeParser, FiniteSets, Functions

CONSTANTS
  Sessions,  \* program -> the values of topRef to consider, and bounds on the
             \* CreateSchema calls (runs) and the types of one call (roots)
  MaxHeap    \* bound on the intermediate types

ASSUME SessionsAssumption ==
  Sessions \in [Programs -> [topRefs : SUBSET BOOLEAN, runs : Nat, roots : Nat]]
ASSUME MaxHeapAssumption == MaxHeap \in Nat

VARIABLES
  topRef,       \* BOOLEAN: a root type gets a top-level $ref (no --no-top-ref)
  request,      \* the root nodes of the present CreateSchema call
  before,       \* how many roots were parsed for earlier calls
  rootTypes,    \* what the parser chain made of them
  phase,        \* "idle", "parse" or "collect"
  definitions,  \* name -> the type the schema's definition of that name is of
  appended,     \* roots whose children were appended to definitions
  schemas,      \* the result of every call so far
  graph, known, children, stack, todo, acc, run, roots, pending, collected

collectorVars == <<graph, known, children, stack, todo, acc, run, roots, pending, collected>>

parserVars == vars

generatorVars == <<topRef, request, before, rootTypes, phase, definitions, appended, schemas>>

allVars == <<parserVars, collectorVars, generatorVars>>

-----------------------------------------------------------------------------
(* The graph of intermediate types as the formatter walks it.  A pointer   *)
(* to a DefinitionType is moved up by MaxHeap, and the DefinitionType the  *)
(* ReferenceTypeFormatter makes for an unexposed declaration by twice that. *)

Types == 1..3 * MaxHeap

Instance(p) == IF heap[p].kind = "def" THEN MaxHeap + p ELSE p

OnTheFly(ref) == 2 * MaxHeap + ref

Pointer(t) == IF t > 2 * MaxHeap THEN t - 2 * MaxHeap
              ELSE IF t > MaxHeap THEN t - MaxHeap ELSE t

Inner(d) == heap[Pointer(d)].subs[1]

\* Mutant of AsksFor: an unexposed declaration gets no definition of its own.
AsksForNoMadeDefinition(t) ==
  LET p == Pointer(t)
      subs == [i \in 1..Len(heap[p].subs) |-> Instance(heap[p].subs[i])]
  IN IF p \notin Pointers(heap) \/ (t <= 2 * MaxHeap /\ t # Instance(p)) THEN <<>>
     ELSE IF t > 2 * MaxHeap /\ heap[p].kind # "ref" THEN <<>>
     ELSE subs

\* The formatters that ask for children, and in which order.  A member that can
\* never be there is asked here as well, and has none.
AsksFor(t) ==
  LET p == Pointer(t)
      subs == [i \in 1..Len(heap[p].subs) |-> Instance(heap[p].subs[i])]
  IN IF p \notin Pointers(heap) \/ (t <= 2 * MaxHeap /\ t # Instance(p)) THEN <<>>
     ELSE IF t <= MaxHeap /\ heap[p].kind = "ref" /\ HasType(heap, p) /\ heap[Inner(p)].kind # "def"
          THEN <<OnTheFly(p)>>
     ELSE IF t > 2 * MaxHeap /\ heap[p].kind # "ref" THEN <<>>
     ELSE subs

\* The children that the formatter of each type asks for.
TypeGraph == [t \in Types |-> Range(AsksFor(t))]

Collector == INSTANCE ChildCollector WITH
  Types <- Types,
  Definitions <- MaxHeap + 1..3 * MaxHeap,
  Graphs <- [Types -> SUBSET Types],
  MaxRuns <- MaxCalls  \* every call that collects has parsed a root

-----------------------------------------------------------------------------
(* Names, IDs and references *)

NameOf(d) == heap[Pointer(d)].name

\* The names of the $refs in GetDefinition(p): a definition and a reference
\* become one, an object leaves out the members that can never be there.
RefsOf(p) ==
  LET refs[q \in Pointers(heap)] ==
        CASE heap[q].kind \in {"def", "ref"} -> {heap[q].name}
          [] heap[q].kind = "object" ->
               UNION {refs[s] : s \in {m \in Range(heap[q].subs) : ~IsNeverLike(heap, DerefType(heap, m))}}
          [] OTHER -> UNION {refs[s] : s \in Range(heap[q].subs)}
  IN refs[p]

\* addReachable, up to the first name that is not defined; to decode a $ref is
\* to have the name back it was encoded from.
ReachableNames(p) ==
  LET last == Cardinality(DOMAIN definitions)  \* by then no name is new
      reached[k \in 0..last] ==
        IF k = 0 THEN RefsOf(p)
        ELSE LET names == reached[k - 1]
             IN names \cup UNION {RefsOf(definitions[n]) : n \in names \cap DOMAIN definitions}
  IN reached[last]

-----------------------------------------------------------------------------
InitGenerator ==
  /\ Init
  /\ topRef \in Sessions[prog].topRefs
  /\ request = <<>>
  /\ before = 0
  /\ rootTypes = <<>>
  /\ phase = "idle"
  /\ definitions = <<>>
  /\ appended = 0
  /\ schemas = <<>>
  /\ graph = [t \in Types |-> {}]
  /\ known = {}
  /\ children = [t \in Types |-> {}]
  /\ stack = <<>>
  /\ todo = [t \in Types |-> {}]
  /\ acc = [t \in Types |-> {}]
  /\ run = 0
  /\ roots = {}
  /\ pending = {}
  /\ collected = {}

\* CreateSchema(fullNames), the nodes of the requested types being found.  An
\* error of the call before ends the program.
CreateSchema(nodes) ==
  /\ phase = "idle"
  /\ \A i \in 1..Len(schemas) : schemas[i].error = ""
  /\ Len(schemas) < Sessions[prog].runs
  /\ request' = nodes
  /\ before' = Len(asked)
  /\ rootTypes' = <<>>
  /\ phase' = "parse"
  /\ definitions' = <<>>
  /\ appended' = 0
  /\ UNCHANGED <<topRef, schemas, parserVars, collectorVars>>

ParseRequested ==
  /\ phase = "parse"
  /\ Len(rootTypes) < Len(request)
  /\ before + Len(rootTypes) = Len(asked)
  /\ ParseRoot(request[Len(rootTypes) + 1])
  /\ UNCHANGED <<collectorVars, generatorVars>>

Parse ==
  /\ phase = "parse"
  /\ Step
  /\ UNCHANGED <<collectorVars, generatorVars>>

\* TopRefNodeParser: with topRef a root type that is no definition becomes
\* one, under the requested name when there is a single one; without, a
\* definition is taken off.
WrapRoot ==
  /\ phase = "parse"
  /\ before + Len(rootTypes) < Len(returned)
  /\ LET p == returned[before + Len(rootTypes) + 1]
         fullName == IF Len(request) = 1 THEN Id("name", prog[request[1]].name, <<>>)
                     ELSE Id("def", "", <<TypeId(heap, p)>>)
         wrap == topRef /\ heap[p].kind # "def"
         unwrap == ~topRef /\ heap[p].kind = "def"
     IN /\ heap' = IF wrap THEN Append(heap, Definition(fullName, p)) ELSE heap
        /\ rootTypes' = Append(rootTypes, IF wrap THEN Len(heap) + 1
                                          ELSE IF unwrap THEN heap[p].subs[1] ELSE p)
  /\ UNCHANGED <<prog, typeCaches, circular, frames, asked, returned, panicked, collectorVars,
                 topRef, request, before, phase, definitions, appended, schemas>>

\* Mutant of StartCollecting: starts from what the call before collected.
StartCollectingFromLast ==
  /\ phase = "parse"
  /\ Len(rootTypes) = Len(request)
  /\ Len(heap) <= MaxHeap
  /\ phase' = "collect"
  /\ graph' = TypeGraph
  /\ run' = run + 1
  /\ roots' = {Instance(rootTypes[i]) : i \in 1..Len(rootTypes)}
  /\ pending' = roots'
  /\ UNCHANGED <<known, children, stack, todo, acc, collected, parserVars,
                 topRef, request, before, rootTypes, definitions, appended, schemas>>

\* All roots are parsed: the formatter will be asked for their children.
StartCollecting ==
  /\ phase = "parse"
  /\ Len(rootTypes) = Len(request)
  /\ Len(heap) <= MaxHeap
  /\ phase' = "collect"
  /\ graph' = TypeGraph
  /\ run' = run + 1
  /\ roots' = {Instance(rootTypes[i]) : i \in 1..Len(rootTypes)}
  /\ pending' = roots'
  /\ collected' = {}
  /\ UNCHANGED <<known, children, stack, todo, acc, parserVars,
                 topRef, request, before, rootTypes, definitions, appended, schemas>>

-----------------------------------------------------------------------------
(* The formatter's walk, in the order of its code *)

PresentRoot == Instance(rootTypes[appended + 1])

\* What the innermost call asks next: the first part it has not asked yet.
NextChild ==
  LET order == AsksFor(Head(stack))
      left == {i \in 1..Len(order) : order[i] \in todo[Head(stack)]}
  IN {order[i] : i \in {j \in left : \A k \in left : j <= k}}

Collect ==
  /\ phase = "collect"
  /\ \/ appended < Len(rootTypes) /\ (Collector!OpenRoot(PresentRoot) \/ Collector!ReuseRoot(PresentRoot))
     \/ stack # <<>> /\ \E s \in NextChild : Collector!OpenChild(s) \/ Collector!ReuseChild(s)
     \/ Collector!Close
  /\ UNCHANGED <<parserVars, generatorVars>>

Fail(error) ==
  /\ schemas' = Append(schemas, [error |-> error, roots |-> rootTypes, definitions |-> <<>>])
  /\ phase' = "idle"

\* Definitions of one name must have the same ID, nested "def-" prefixes aside.
Conflict(defs) ==
  \E c, d \in defs :
    /\ NameOf(c) = NameOf(d)
    /\ StripDef(TypeId(heap, Inner(c))) # StripDef(TypeId(heap, Inner(d)))

\* appendRootChildDefinitions: the first definition of a name is kept.
AppendRootChildDefinitions ==
  /\ phase = "collect"
  /\ stack = <<>>
  /\ appended < Len(rootTypes)
  /\ PresentRoot \notin pending
  /\ LET defs == children[PresentRoot]
         names == {NameOf(d) : d \in defs}
     IN IF Conflict(defs)
        THEN Fail("conflict") /\ UNCHANGED <<definitions, appended>>
        ELSE /\ definitions' = [n \in DOMAIN definitions \cup names |->
                                 IF n \in DOMAIN definitions THEN definitions[n]
                                 ELSE Inner(CHOOSE d \in defs : NameOf(d) = n)]
             /\ appended' = appended + 1
             /\ UNCHANGED <<schemas, phase>>
  /\ UNCHANGED <<topRef, request, before, rootTypes, parserVars, collectorVars>>

\* RemoveUnreachable: a $ref to a name without a definition is an error.
ReturnSchema ==
  /\ phase = "collect"
  /\ appended = Len(rootTypes)
  /\ LET reachable == UNION {ReachableNames(rootTypes[i]) : i \in 1..Len(rootTypes)}
     IN IF reachable \subseteq DOMAIN definitions
        THEN /\ schemas' = Append(schemas, [error |-> "", roots |-> rootTypes,
                                            definitions |-> Restrict(definitions, reachable)])
             /\ phase' = "idle"
        ELSE Fail("missing definition")
  /\ UNCHANGED <<topRef, request, before, rootTypes, definitions, appended, parserVars, collectorVars>>

\* Mutant of Recover: only a panic outside every parser is recovered.
RecoverWhenIdle ==
  /\ phase = "parse"
  /\ panicked
  /\ frames = <<>>
  /\ Fail("unresolved")
  /\ UNCHANGED <<topRef, request, before, rootTypes, definitions, appended, parserVars, collectorVars>>

\* CreateSchema recovers the panic of a parser and returns it as an error.
Recover ==
  /\ phase = "parse"
  /\ panicked
  /\ Fail("unresolved")
  /\ UNCHANGED <<topRef, request, before, rootTypes, definitions, appended, parserVars, collectorVars>>

Requests == {nodes \in UNION {[1..k -> Roots] : k \in 1..Sessions[prog].roots} : IsInjective(nodes)}

Generate ==
  \/ ParseRequested \/ Parse \/ WrapRoot
  \/ StartCollecting \/ Collect \/ AppendRootChildDefinitions
  \/ ReturnSchema \/ Recover

NextGenerator == (\E nodes \in Requests : CreateSchema(nodes)) \/ Generate

GeneratorSpec == InitGenerator /\ [][NextGenerator]_allVars

FairGeneratorSpec == GeneratorSpec /\ WF_allVars(Generate)

-----------------------------------------------------------------------------
(* Properties; those that compare with the source are in                   *)
(* SchemaGeneratorProperties.                                              *)

Latest == schemas[Len(schemas)]

Returned == phase = "idle" /\ schemas # <<>>

\* Collecting is what ChildCollector says: parsing for a later call, for one,
\* leaves the types the formatter has seen as they are.
CollectorSpec == Collector!Spec

\* RemoveUnreachable never meets a $ref to a definition nobody collected.
NoMissingDefinition ==
  \A i \in 1..Len(schemas) : schemas[i].error # "missing definition"

\* A name conflict is only reported for two declarations of that name: what a
\* name is printed from and what an ID is printed from never part.
ConflictsAreReal ==
  Returned /\ Latest.error = "conflict" =>
    \E m, n \in Declarations : m # n /\ prog[m].name = prog[n].name

\* The first call never does: what makes a later one fail is the memo of the
\* calls before it, and nothing else.
FirstCallMissesNothing == schemas # <<>> => schemas[1].error # "missing definition"
=============================================================================
