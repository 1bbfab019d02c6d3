----------------------- MODULE SchemaGenerator_proofs -----------------------
(***************************************************************************)
(* The generator implements the collection of definitions: under           *)
(* SchemaGenerator, which runs the parser, the formatter's walk and the    *)
(* appending of definitions call after call, the walk's variables behave   *)
(* as ChildCollector says, over the graph of the types the parser has made *)
(* (CollectorSpec).  That is no more than the projection of each step, but *)
(* for what a later call does to the graph: it adds types, wraps roots and *)
(* sets references, and the subtrees already walked must not change by it. *)
(* The invariant says what is known of them (KnownInv); the heap's typing  *)
(* and the finality of its types come from the parser's proofs.  What      *)
(* ChildCollector_proofs shows of any graph then holds of the generator's. *)
(***************************************************************************)
EXTENDS SchemaGenerator, NodeParser_proofs

-----------------------------------------------------------------------------
(* The invariant *)

\* Every root that was asked for has been returned, but for the one that is open.
CallsInv ==
  /\ Len(asked) = Len(returned) + (IF frames = <<>> THEN 0 ELSE 1)
  /\ Len(asked) <= MaxCalls

RequestInv ==
  /\ request \in Seq(Roots)
  /\ rootTypes \in Seq(Pointers(heap))
  /\ before \in Nat
  /\ appended \in Nat
  /\ run \in Nat
  /\ stack \in Seq(Types)
  /\ IsSequence(schemas)
  /\ phase \in {"idle", "parse", "collect"}

\* The roots of the call are asked for one by one, and made root types in turn.
ParseInv ==
  phase = "parse" =>
    /\ request # <<>>
    /\ appended = 0
    /\ run <= before
    /\ before + Len(rootTypes) <= Len(returned)
    /\ Len(asked) <= before + Len(request)
    /\ stack = <<>>
    /\ pending = {}

\* The formatter's walk is below the root whose definitions are appended next.
CollectInv ==
  phase = "collect" =>
    /\ frames = <<>>
    /\ run <= Len(asked)
    /\ graph = TypeGraph
    /\ Len(heap) <= MaxHeap
    /\ pending \subseteq {Instance(rootTypes[i]) : i \in appended + 1..Len(rootTypes)}
    /\ stack # <<>> => appended < Len(rootTypes)

Failed == \E i \in 1..Len(schemas) : schemas[i].error # ""

\* Between calls nothing is left to parse or to walk, unless the last one failed.
IdleInv ==
  phase = "idle" /\ ~Failed =>
    /\ frames = <<>>
    /\ stack = <<>>
    /\ pending = {}
    /\ run <= Len(asked)

\* What the formatter has a memo entry for asks for what it asked for then.
KnownInv ==
  \A t \in known :
    /\ t \in Types
    /\ Pointer(t) \in Pointers(heap)
    /\ Final(heap, Pointer(t))
    /\ graph[t] = Range(AsksFor(t))

ParserInv == Inv /\ Typed /\ CallsInv

GeneratorInv == RequestInv /\ ParseInv /\ CollectInv /\ IdleInv /\ KnownInv

-----------------------------------------------------------------------------
(* The parser below the generator *)

\* A node is answered at once or by a call that is open from then on.
LEMMA CreateTypeCalls ==
  ASSUME Typed, NEW call, NEW callers, IsSequence(callers), CreateType(call, callers)
  PROVE  \/ frames' # <<>> /\ returned' = returned
         \/ callers = <<>> /\ frames' = <<>> /\ Len(returned') = Len(returned) + 1
<1>1. ASSUME NEW x, NEW s, IsSequence(s), frames' = <<x>> \o s PROVE frames' # <<>>
  BY <1>1, PushOnSequence
<1>2. ASSUME NEW p, Deliver(p, callers)
      PROVE  \/ frames' # <<>> /\ returned' = returned
             \/ callers = <<>> /\ frames' = <<>> /\ Len(returned') = Len(returned) + 1
  <2>1. CASE callers = <<>>
    <3>1. frames' = <<>> /\ returned' = Append(returned, p)
      BY <1>2, <2>1 DEF Deliver
    <3>2. IsSequence(returned)
      BY SequenceOf DEF Typed
    <3>. QED
      BY <2>1, <3>1, <3>2, AppendToSequence
  <2>2. CASE callers # <<>>
    <3>1. IsSequence(Tail(callers))
      BY <2>2, TailOfSequence
    <3>2. returned' = returned /\ \E x : frames' = <<x>> \o Tail(callers)
      BY <1>2, <2>2 DEF Deliver
    <3>. QED
      BY <1>1, <3>1, <3>2
  <2>. QED
    BY <2>1, <2>2
<1>3. CASE UseCache(call, callers) \/ UseCircular(call, callers)
  <2>1. \E p : Deliver(p, callers)
    BY <1>3 DEF UseCache, UseCircular
  <2>. QED
    BY <1>2, <2>1
<1>4. CASE Enter(call, callers)
  <2>1. returned' = returned /\ \E x : frames' = <<x>> \o callers
    BY <1>4 DEF Enter
  <2>. QED
    BY <1>1, <2>1
<1>. QED
  BY <1>3, <1>4 DEF CreateType

LEMMA Lengths ==
  ASSUME Typed
  PROVE  Len(asked) \in Nat /\ Len(returned) \in Nat
BY DEF Typed

LEMMA ParseRootCalls ==
  ASSUME Inv, Typed, CallsInv, NEW n \in Roots, ParseRoot(n)
  PROVE  CallsInv' /\ Len(asked') = Len(asked) + 1 /\ Len(returned) <= Len(returned')
<1>1. /\ frames = <<>> /\ Len(asked) < MaxCalls /\ asked' = Append(asked, n)
      /\ CreateType(Call(n, RootContext), <<>>)
  BY DEF ParseRoot, Idle
<1>2. Len(asked') = Len(asked) + 1
  BY <1>1 DEF Typed
<1>3. IsSequence(<<>>)
  BY SequenceOf, <<>> \in Seq({})
<1>4. \/ frames' # <<>> /\ returned' = returned
      \/ frames' = <<>> /\ Len(returned') = Len(returned) + 1
  BY <1>1, <1>3, CreateTypeCalls
<1>. QED
  BY <1>1, <1>2, <1>4, Lengths, MaxCallsAssumption DEF CallsInv

LEMMA StepCalls ==
  ASSUME Inv, Typed, CallsInv, Step
  PROVE  CallsInv' /\ asked' = asked /\ Len(returned) <= Len(returned')
<1>1. CASE ParseNext
  <2>1. frames # <<>> /\ asked' = asked /\ \E call : CreateType(call, frames)
    BY <1>1 DEF ParseNext
  <2>2. frames' # <<>> /\ returned' = returned
    BY <2>1, CreateTypeCalls DEF Inv, FramesInv
  <2>. QED
    BY <2>1, <2>2, Lengths DEF CallsInv
<1>2. CASE PanicOnNil
  BY <1>2, Lengths DEF PanicOnNil, CallsInv
<1>3. CASE Finish
  <2>1. frames # <<>> /\ \E h, p : Return(h, p)
    BY <1>3 DEF Finish, FinishLeaf, FinishTuple, FinishParameter, FinishReference, FinishIndex,
                FinishDeclaration, Finished, ReturnNew
  <2>2. PICK p : Deliver(p, Tail(frames)) /\ asked' = asked
    BY <2>1 DEF Return
  <2>3. CASE Tail(frames) = <<>>
    <3>1. frames' = <<>> /\ returned' = Append(returned, p)
      BY <2>2, <2>3 DEF Deliver
    <3>2. IsSequence(returned)
      BY SequenceOf DEF Typed
    <3>3. Len(returned') = Len(returned) + 1
      BY <3>1, <3>2, AppendToSequence
    <3>. QED
      BY <2>1, <2>2, <3>1, <3>3, Lengths DEF CallsInv
  <2>4. CASE Tail(frames) # <<>>
    <3>1. IsSequence(Tail(Tail(frames)))
      BY <2>1, <2>4, TailOfSequence DEF Inv, FramesInv
    <3>2. returned' = returned /\ \E x : frames' = <<x>> \o Tail(Tail(frames))
      BY <2>2, <2>4 DEF Deliver
    <3>3. frames' # <<>>
      BY <3>1, <3>2, PushOnSequence
    <3>. QED
      BY <2>1, <2>2, <3>2, <3>3, Lengths DEF CallsInv
  <2>. QED
    BY <2>3, <2>4
<1>. QED
  BY <1>1, <1>2, <1>3 DEF Step

-----------------------------------------------------------------------------
(* The graph of the types *)

LEMMA HeapLength == ASSUME Inv PROVE Len(heap) \in Nat
BY AppendToSequence DEF Inv, HeapOK

\* A pointer and the type of the graph it stands for.
LEMMA PointerOf ==
  ASSUME Inv, Len(heap) <= MaxHeap, NEW p \in Pointers(heap)
  PROVE  /\ p \in Nat /\ p <= MaxHeap /\ Pointer(p) = p
         /\ Instance(p) \in Types /\ Pointer(Instance(p)) = p
         /\ heap[p].kind = "def" => Instance(p) = MaxHeap + p
         /\ heap[p].kind # "def" => Instance(p) = p
         /\ OnTheFly(p) \in Types /\ Pointer(OnTheFly(p)) = p /\ OnTheFly(p) = 2 * MaxHeap + p
BY HeapLength, MaxHeapAssumption DEF Pointers, Pointer, Instance, OnTheFly, Types

\* A formatter asks for types that are there.
LEMMA AsksForTypes ==
  ASSUME Inv, Typed, Len(heap) <= MaxHeap, NEW t \in Types
  PROVE  /\ AsksFor(t) \in Seq(Types)
         /\ \A i \in 1..Len(AsksFor(t)) :
              AsksFor(t)[i] \in Types /\ Pointer(AsksFor(t)[i]) \in Pointers(heap)
<1> DEFINE p == Pointer(t)
           subs == [i \in 1..Len(heap[p].subs) |-> Instance(heap[p].subs[i])]
<1>1. CASE p \notin Pointers(heap)
  BY <1>1 DEF AsksFor
<1>2. CASE p \in Pointers(heap)
  <2>1. heap[p].subs \in Seq(Pointers(heap))
    BY <1>2 DEF Typed, TypedHeap
  <2>2. /\ subs \in Seq(Types) /\ Len(subs) = Len(heap[p].subs)
        /\ \A i \in 1..Len(subs) : subs[i] \in Types /\ Pointer(subs[i]) \in Pointers(heap)
    BY <2>1, PointerOf
  <2>3. OnTheFly(p) \in Types /\ Pointer(OnTheFly(p)) \in Pointers(heap)
    BY <1>2, PointerOf
  <2>4. AsksFor(t) = <<>> \/ AsksFor(t) = <<OnTheFly(p)>> \/ AsksFor(t) = subs
    BY DEF AsksFor
  <2> HIDE DEF subs, p
  <2>5. CASE AsksFor(t) = <<>>
    BY <2>5
  <2>6. CASE AsksFor(t) = <<OnTheFly(p)>>
    BY <2>3, <2>6
  <2>7. CASE AsksFor(t) = subs
    BY <2>2, <2>7
  <2>. QED
    BY <2>4, <2>5, <2>6, <2>7
<1>. QED
  BY <1>1, <1>2

\* What a type asks for does not change once it is final.
LEMMA AsksForStays ==
  ASSUME Typed, Extends(heap', heap), NEW t \in Types, Pointer(t) \in Pointers(heap),
         Final(heap, Pointer(t))
  PROVE  Pointer(t) \in Pointers(heap') /\ Final(heap', Pointer(t)) /\ AsksFor(t)' = AsksFor(t)
<1> DEFINE p == Pointer(t)
           subs == [i \in 1..Len(heap[p].subs) |-> Instance(heap[p].subs[i])]
<1>1. p \in Pointers(heap) /\ p \in Pointers(heap') /\ heap'[p] = heap[p]
  BY DEF Extends
<1>2. heap[p].subs \in Seq(Pointers(heap))
  BY <1>1 DEF Typed, TypedHeap
<1>3. \A q \in Pointers(heap) : Instance(q)' = Instance(q) /\ heap'[q].kind = heap[q].kind
  BY DEF Extends, Instance
<1>4. subs' = subs
  BY <1>1, <1>2, <1>3
<1>5. ASSUME t <= MaxHeap, heap[p].kind = "ref", HasType(heap, p)
      PROVE  Inner(p)' = Inner(p) /\ heap'[Inner(p)].kind = heap[Inner(p)].kind
  <2>1. Pointer(p) = p
    BY <1>5, MaxHeapAssumption DEF Pointer, Types
  <2>2. Inner(p) = heap[p].subs[1] /\ Inner(p)' = heap[p].subs[1]
    BY <1>1, <2>1 DEF Inner, Pointer
  <2>3. heap[p].subs[1] \in Pointers(heap)
    BY <1>2, <1>5 DEF HasType
  <2>. QED
    BY <1>3, <2>2, <2>3
<1> DEFINE made == t <= MaxHeap /\ heap[p].kind = "ref" /\ HasType(heap, p) /\ heap[Inner(p)].kind # "def"
<1>6. made' <=> made
  <2>1. HasType(heap, p)' <=> HasType(heap, p)
    BY <1>1 DEF HasType, Pointer
  <2>. QED
    BY <1>1, <1>5, <2>1 DEF Pointer
<1> HIDE DEF made, subs
<1>7. AsksFor(t) = IF t <= 2 * MaxHeap /\ t # Instance(p) THEN <<>>
                   ELSE IF made THEN <<OnTheFly(p)>>
                   ELSE IF t > 2 * MaxHeap /\ heap[p].kind # "ref" THEN <<>> ELSE subs
  BY <1>1 DEF AsksFor, made, subs
<1>8. AsksFor(t)' = IF t <= 2 * MaxHeap /\ t # Instance(p) THEN <<>>
                    ELSE IF made THEN <<OnTheFly(p)>>
                    ELSE IF t > 2 * MaxHeap /\ heap[p].kind # "ref" THEN <<>> ELSE subs
  <2>1. Pointer(t)' = p
    BY DEF Pointer
  <2>2. Instance(Pointer(t))' = Instance(p) /\ OnTheFly(Pointer(t))' = OnTheFly(p)
    BY <1>1, <1>3, <2>1 DEF Instance, OnTheFly
  <2>. QED
    BY <1>1, <1>4, <1>6, <2>1, <2>2 DEF AsksFor, made, subs
<1>9. Final(heap', p)
  BY <1>1 DEF Final, HasType
<1>. QED
  BY <1>1, <1>7, <1>8, <1>9

\* Nothing is left to be set once the parser is done.
LEMMA Settled ==
  ASSUME Inv, frames = <<>>, NEW p \in Pointers(heap)
  PROVE  Final(heap, p)
<1>1. OpenReferences = {}
  BY DEF OpenReferences
<1>. QED
  BY <1>1 DEF Inv, UnsetInv, UnsetIn, Final

-----------------------------------------------------------------------------
(* What a step of the generator does to the parser *)

LEMMA SameParser ==
  ASSUME ParserInv, UNCHANGED vars
  PROVE  ParserInv' /\ Extends(heap', heap) /\ Roots' = Roots
<1>1. Inv' /\ Typed'
  BY InvStep, TypedStep DEF ParserInv
<1>2. CallsInv' /\ heap' = heap /\ prog' = prog
  BY DEF ParserInv, CallsInv, vars
<1>. QED
  BY <1>1, <1>2, SameExtends, TypedSame DEF ParserInv

LEMMA ParserStep ==
  ASSUME ParserInv, (\E n \in Roots : ParseRoot(n)) \/ Step
  PROVE  ParserInv' /\ Extends(heap', heap) /\ Roots' = Roots
<1>1. Next
  BY DEF Next
<1>2. Inv' /\ Typed' /\ Extends(heap', heap)
  BY <1>1, InvStep, TypedStep, StepExtends DEF ParserInv
<1>3. CallsInv'
  BY ParseRootCalls, StepCalls DEF ParserInv
<1>4. prog' = prog
  BY <1>1 DEF Next, ParseRoot, Step, ParseNext, PanicOnNil, Finish, FinishLeaf, FinishTuple, FinishParameter,
              FinishReference, FinishIndex, FinishDeclaration, ReturnNew, Return
<1>. QED
  BY <1>2, <1>3, <1>4, TypedSame DEF ParserInv

\* TopRefNodeParser adds a definition to the heap, or takes one off.
LEMMA WrapRootStep ==
  ASSUME ParserInv, RequestInv, ParseInv, WrapRoot
  PROVE  /\ ParserInv' /\ Extends(heap', heap) /\ Roots' = Roots
         /\ rootTypes' \in Seq(Pointers(heap')) /\ Len(rootTypes') = Len(rootTypes) + 1
<1> DEFINE k == before + Len(rootTypes) + 1
           p == returned[k]
           fullName == IF Len(request) = 1 THEN Id("name", prog[request[1]].name, <<>>)
                       ELSE Id("def", "", <<TypeId(heap, p)>>)
           type == Definition(fullName, p)
           q == IF topRef /\ heap[p].kind # "def" THEN Len(heap) + 1
                ELSE IF ~topRef /\ heap[p].kind = "def" THEN heap[p].subs[1] ELSE p
<1>1. /\ heap' = IF topRef /\ heap[p].kind # "def" THEN Append(heap, type) ELSE heap
      /\ rootTypes' = Append(rootTypes, q)
      /\ before + Len(rootTypes) < Len(returned)
      /\ UNCHANGED <<prog, typeCaches, circular, frames, asked, returned, panicked>>
  BY DEF WrapRoot
<1>2. p \in Pointers(heap)
  <2>1. before \in Nat /\ Len(rootTypes) \in Nat /\ Len(returned) \in Nat /\ returned \in Seq(Pointers(heap))
    BY DEF ParserInv, Typed, RequestInv
  <2>2. before + Len(rootTypes) < Len(returned)
    BY <1>1
  <2>3. k \in 1..Len(returned)
    BY <2>1, <2>2
  <2>. QED
    BY <2>1, <2>3
<1>3. TypeOver(type, heap) /\ IsType(type) /\ type.kind # "ref"
  BY <1>2, TypesOver, Constructors
<1> HIDE DEF type
<1>4. ~(topRef /\ heap[p].kind # "def") => q \in Pointers(heap)
  <2>1. heap[p].kind = "def" => heap[p].subs[1] \in Pointers(heap)
    BY <1>2 DEF ParserInv, Typed, TypedHeap
  <2>. QED
    BY <1>2, <2>1
<1>5. /\ HeapOK(heap') /\ UnsetIn(heap') = UnsetIn(heap) /\ TypedHeap(heap') /\ Contains(heap', heap)
      /\ Extends(heap', heap) /\ q \in Pointers(heap')
  <2>1. HeapOK(heap) /\ TypedHeap(heap)
    BY DEF ParserInv, Inv, Typed
  <2>2. CASE topRef /\ heap[p].kind # "def"
    <3> DEFINE g == Append(heap, type)
    <3>1. /\ HeapOK(g) /\ UnsetIn(g) = UnsetIn(heap) /\ TypedHeap(g) /\ Contains(g, heap)
          /\ Extends(g, heap) /\ Len(heap) + 1 \in Pointers(g)
      BY <1>3, <2>1, Grown, TypedGrown, AppendExtends
    <3>2. heap' = g /\ q = Len(heap) + 1
      BY <1>1, <2>2
    <3> HIDE DEF g, q
    <3>. QED
      BY <3>1, <3>2
  <2>3. CASE ~(topRef /\ heap[p].kind # "def")
    <3>1. heap' = heap
      BY <1>1, <2>3
    <3>2. q \in Pointers(heap)
      BY <1>4, <2>3
    <3> HIDE DEF q
    <3>. QED
      BY <2>1, <3>1, <3>2, SameExtends, ExtendsContains
  <2>. QED
    BY <2>2, <2>3
<1> HIDE DEF q
<1>6. Inv'
  <2>1. IsSequence(frames) /\ \A i \in 1..Len(frames) : IsFrame(frames[i])
    BY DEF ParserInv, Inv, FramesInv
  <2>2. Like(frames', frames)
    BY <1>1, <2>1 DEF Like
  <2>. QED
    BY <1>1, <1>5, <2>2, SameCalls DEF ParserInv
<1>7. Typed'
  <2>1. /\ TypedCache(typeCaches', heap') /\ returned' \in Seq(Pointers(heap'))
        /\ \A i \in 1..Len(frames') : TypedFrame(frames'[i], heap')
    BY <1>1, <1>5, TypedInLarger DEF ParserInv, Typed
  <2>. QED
    BY <1>1, <1>5, <2>1, TypedSame DEF ParserInv, Typed
<1>8. CallsInv'
  BY <1>1 DEF ParserInv, CallsInv
<1>9. rootTypes' \in Seq(Pointers(heap')) /\ Len(rootTypes') = Len(rootTypes) + 1
  <2>1. rootTypes \in Seq(Pointers(heap'))
    BY <1>5, TypedInLarger DEF RequestInv
  <2>. QED
    BY <1>1, <1>5, <2>1
<1>. QED
  BY <1>1, <1>5, <1>6, <1>7, <1>8, <1>9, TypedSame DEF ParserInv

LEMMA SameGraph ==
  ASSUME heap' = heap
  PROVE  /\ TypeGraph' = TypeGraph
         /\ \A t : AsksFor(t)' = AsksFor(t)
         /\ \A i : rootTypes' = rootTypes => Instance(rootTypes[i])' = Instance(rootTypes[i])
<1>1. \A t : AsksFor(t)' = AsksFor(t)
  BY DEF AsksFor, Instance, Inner, Pointer, OnTheFly, HasType, Pointers
<1>2. TypeGraph' = TypeGraph
  BY <1>1 DEF TypeGraph
<1>. QED
  BY <1>1, <1>2 DEF Instance

-----------------------------------------------------------------------------
(* What the formatter has seen *)

LEMMA KnownStays ==
  ASSUME ParserInv, KnownInv, Extends(heap', heap), known' = known, graph' = graph
  PROVE  KnownInv'
BY AsksForStays DEF ParserInv, KnownInv

\* In the walk over the types that are there, an entry more.
LEMMA KnownGrows ==
  ASSUME ParserInv, CollectInv, KnownInv, phase = "collect", heap' = heap, graph' = graph,
         \A t \in known' : t \in known \/ (t \in Types /\ Pointer(t) \in Pointers(heap))
  PROVE  KnownInv'
<1> SUFFICES ASSUME NEW t \in known'
             PROVE  /\ t \in Types /\ Pointer(t) \in Pointers(heap') /\ Final(heap', Pointer(t))
                    /\ graph'[t] = Range(AsksFor(t)')
  BY DEF KnownInv, Pointer
<1>1. t \in Types /\ Pointer(t) \in Pointers(heap)
  BY DEF KnownInv
<1>2. Final(heap, Pointer(t))
  BY <1>1, Settled DEF CollectInv, ParserInv
<1>3. graph[t] = Range(AsksFor(t))
  BY <1>1 DEF CollectInv, TypeGraph
<1>4. Extends(heap', heap)
  BY SameExtends
<1>. QED
  BY <1>1, <1>2, <1>3, <1>4, AsksForStays DEF ParserInv

-----------------------------------------------------------------------------
(* The steps that are none of the formatter's walk *)

LEMMA CreateSchemaStep ==
  ASSUME ParserInv, GeneratorInv, NEW nodes \in Requests, CreateSchema(nodes)
  PROVE  GeneratorInv'
<1>1. /\ phase = "idle" /\ phase' = "parse" /\ request' = nodes /\ before' = Len(asked)
      /\ rootTypes' = <<>> /\ appended' = 0 /\ schemas' = schemas
      /\ \A i \in 1..Len(schemas) : schemas[i].error = ""
      /\ UNCHANGED vars /\ UNCHANGED collectorVars
  BY DEF CreateSchema, parserVars
<1>2. heap' = heap /\ returned' = returned /\ asked' = asked /\ Roots' = Roots
  BY <1>1, SameParser DEF vars
<1>3. nodes \in Seq(Roots) /\ nodes # <<>>
  <2>1. PICK k \in 1..Sessions[prog].roots : nodes \in [1..k -> Roots]
    BY DEF Requests
  <2>2. prog \in Programs
    BY DEF ParserInv, Typed
  <2>3. k \in Nat \ {0}
    BY <2>1, <2>2, SessionsAssumption
  <2>4. nodes \in Seq(Roots) /\ Len(nodes) = k
    BY <2>1, <2>3
  <2>. QED
    BY <2>3, <2>4
<1>4. RequestInv'
  <2>1. stack' = stack /\ run' = run
    BY <1>1 DEF collectorVars
  <2>2. <<>> \in Seq(Pointers(heap')) /\ Len(asked) \in Nat
    BY Lengths DEF ParserInv
  <2>. QED
    BY <1>1, <1>2, <1>3, <2>1, <2>2 DEF GeneratorInv, RequestInv
<1>5. ParseInv'
  <2>1. frames = <<>> /\ stack = <<>> /\ pending = {} /\ run <= Len(asked)
    BY <1>1 DEF GeneratorInv, IdleInv, Failed
  <2>2. Len(returned) \in Nat /\ Len(asked) \in Nat /\ Len(nodes) \in Nat /\ Len(<<>>) = 0
    BY <1>3, Lengths DEF ParserInv
  <2>3. Len(asked) = Len(returned)
    BY <2>1, <2>2 DEF ParserInv, CallsInv
  <2>4. stack' = stack /\ run' = run /\ pending' = pending
    BY <1>1 DEF collectorVars
  <2>5. before' + Len(rootTypes') <= Len(returned')
    <3>1. before' = Len(asked) /\ rootTypes' = <<>> /\ returned' = returned
      BY <1>1, <1>2
    <3>. QED
      BY <2>2, <2>3, <3>1
  <2>6. Len(asked') <= before' + Len(request')
    <3>1. before' = Len(asked) /\ request' = nodes /\ asked' = asked
      BY <1>1, <1>2
    <3>. QED
      BY <2>2, <3>1
  <2>7. request' # <<>> /\ run' <= before'
    BY <1>1, <1>3, <2>1, <2>4
  <2>. QED
    BY <1>1, <2>1, <2>4, <2>5, <2>6, <2>7 DEF ParseInv
<1>6. CollectInv' /\ IdleInv'
  BY <1>1 DEF CollectInv, IdleInv
<1>7. KnownInv'
  BY <1>1, <1>2, KnownStays, SameExtends DEF GeneratorInv, collectorVars
<1>. QED
  BY <1>4, <1>5, <1>6, <1>7 DEF GeneratorInv

\* The parser works while the call parses; the request stays.
LEMMA ParsingStep ==
  ASSUME ParserInv, GeneratorInv, ParseRequested \/ Parse
  PROVE  GeneratorInv'
<1>1. /\ phase = "parse" /\ UNCHANGED collectorVars /\ UNCHANGED generatorVars
      /\ (\E n \in Roots : ParseRoot(n)) \/ Step
  <2>1. CASE ParseRequested
    <3>1. Len(rootTypes) \in Nat /\ Len(rootTypes) < Len(request) /\ request \in Seq(Roots)
      BY <2>1 DEF ParseRequested, GeneratorInv, RequestInv
    <3>2. request[Len(rootTypes) + 1] \in Roots
      BY <3>1
    <3>. QED
      BY <2>1, <3>2 DEF ParseRequested
  <2>2. CASE Parse
    BY <2>2 DEF Parse
  <2>. QED
    BY <2>1, <2>2
<1>2. ParserInv' /\ Extends(heap', heap) /\ Roots' = Roots
  BY <1>1, ParserStep
<1>3. RequestInv'
  <2>1. rootTypes \in Seq(Pointers(heap'))
    BY <1>2, ExtendsContains, TypedInLarger DEF GeneratorInv, RequestInv
  <2>. QED
    BY <1>1, <1>2, <2>1 DEF GeneratorInv, RequestInv, collectorVars, generatorVars
<1>4. ParseInv'
  <2>1. /\ request # <<>> /\ appended = 0 /\ run <= before /\ stack = <<>> /\ pending = {}
        /\ before + Len(rootTypes) <= Len(returned) /\ Len(asked) <= before + Len(request)
    BY <1>1 DEF GeneratorInv, ParseInv
  <2>2. before \in Nat /\ Len(rootTypes) \in Nat /\ Len(request) \in Nat
    BY DEF GeneratorInv, RequestInv
  <2>3. Len(returned) \in Nat /\ Len(asked) \in Nat /\ Len(returned') \in Nat
    BY <1>2, Lengths DEF ParserInv, Typed
  <2>4. Len(returned) <= Len(returned') /\ Len(asked') <= before + Len(request)
    <3>1. CASE ParseRequested
      <4>1. /\ Len(rootTypes) < Len(request) /\ before + Len(rootTypes) = Len(asked)
            /\ \E n \in Roots : ParseRoot(n)
        <5>1. request[Len(rootTypes) + 1] \in Roots
          BY <2>2, <3>1 DEF ParseRequested, GeneratorInv, RequestInv
        <5>. QED
          BY <3>1, <5>1 DEF ParseRequested
      <4>2. Len(asked') = Len(asked) + 1 /\ Len(returned) <= Len(returned')
        BY <4>1, ParseRootCalls DEF ParserInv
      <4>. QED
        BY <2>2, <2>3, <4>1, <4>2
    <3>2. CASE Parse
      <4>1. asked' = asked /\ Len(returned) <= Len(returned')
        BY <3>2, StepCalls DEF Parse, ParserInv
      <4>. QED
        BY <2>1, <4>1
    <3>. QED
      BY <3>1, <3>2
  <2>. QED
    BY <1>1, <2>1, <2>2, <2>3, <2>4 DEF ParseInv, collectorVars, generatorVars
<1>5. CollectInv' /\ IdleInv'
  BY <1>1 DEF CollectInv, IdleInv, generatorVars
<1>6. KnownInv'
  BY <1>1, <1>2, KnownStays DEF GeneratorInv, collectorVars
<1>. QED
  BY <1>3, <1>4, <1>5, <1>6 DEF GeneratorInv

LEMMA WrapRootKeeps ==
  ASSUME ParserInv, GeneratorInv, WrapRoot
  PROVE  GeneratorInv'
<1>1. /\ phase = "parse" /\ phase' = "parse" /\ UNCHANGED collectorVars
      /\ UNCHANGED <<asked, returned, request, before, appended, schemas>>
      /\ before + Len(rootTypes) < Len(returned)
  BY DEF WrapRoot
<1>2. /\ Extends(heap', heap) /\ Roots' = Roots
      /\ rootTypes' \in Seq(Pointers(heap')) /\ Len(rootTypes') = Len(rootTypes) + 1
  BY WrapRootStep DEF GeneratorInv
<1>3. RequestInv'
  BY <1>1, <1>2 DEF GeneratorInv, RequestInv, collectorVars
<1>4. ParseInv'
  <2>1. /\ request # <<>> /\ appended = 0 /\ run <= before /\ stack = <<>> /\ pending = {}
        /\ Len(asked) <= before + Len(request)
    BY <1>1 DEF GeneratorInv, ParseInv
  <2>2. before \in Nat /\ Len(rootTypes) \in Nat /\ Len(returned) \in Nat
    BY Lengths DEF GeneratorInv, RequestInv, ParserInv
  <2>3. before + Len(rootTypes') <= Len(returned)
    BY <1>1, <1>2, <2>2
  <2>. QED
    BY <1>1, <2>1, <2>3 DEF ParseInv, collectorVars
<1>5. CollectInv' /\ IdleInv'
  BY <1>1 DEF CollectInv, IdleInv
<1>6. KnownInv'
  BY <1>1, <1>2, KnownStays DEF GeneratorInv, collectorVars
<1>. QED
  BY <1>3, <1>4, <1>5, <1>6 DEF GeneratorInv

LEMMA StartCollectingStep ==
  ASSUME ParserInv, GeneratorInv, StartCollecting
  PROVE  GeneratorInv' /\ Collector!StartRun
<1>1. /\ phase = "parse" /\ phase' = "collect" /\ Len(rootTypes) = Len(request) /\ Len(heap) <= MaxHeap
      /\ graph' = TypeGraph /\ run' = run + 1 /\ collected' = {}
      /\ roots' = {Instance(rootTypes[i]) : i \in 1..Len(rootTypes)} /\ pending' = roots'
      /\ UNCHANGED <<known, children, stack, todo, acc>> /\ UNCHANGED vars
      /\ UNCHANGED <<topRef, request, before, rootTypes, definitions, appended, schemas>>
  BY DEF StartCollecting, parserVars
<1>2. /\ request # <<>> /\ appended = 0 /\ run <= before /\ before + Len(rootTypes) <= Len(returned)
      /\ Len(asked) <= before + Len(request) /\ stack = <<>> /\ pending = {}
  BY <1>1 DEF GeneratorInv, ParseInv
<1>3. /\ before \in Nat /\ run \in Nat /\ Len(rootTypes) \in Nat /\ request \in Seq(Roots)
      /\ Len(asked) \in Nat /\ Len(returned) \in Nat
  BY Lengths DEF GeneratorInv, RequestInv, ParserInv
<1>4. Len(rootTypes) >= 1 /\ Len(request) >= 1
  BY <1>1, <1>2, <1>3
<1>5. frames = <<>> /\ Len(asked) = Len(returned) /\ Len(asked) <= MaxCalls
  BY <1>1, <1>2, <1>3 DEF ParserInv, CallsInv
<1>6. run < MaxCalls /\ run + 1 <= Len(asked)
  BY <1>2, <1>3, <1>4, <1>5, MaxCallsAssumption
<1>7. graph' \in [Types -> SUBSET Types]
  <2>1. ASSUME NEW t \in Types PROVE Range(AsksFor(t)) \subseteq Types
    BY <1>1, AsksForTypes DEF Range, ParserInv
  <2>. QED
    BY <1>1, <2>1 DEF TypeGraph
<1>8. \A t \in known : graph'[t] = graph[t]
  BY <1>1 DEF GeneratorInv, KnownInv, TypeGraph
<1>9. roots' \in SUBSET Types /\ roots' # {}
  <2>1. \A i \in 1..Len(rootTypes) : rootTypes[i] \in Pointers(heap)
    BY DEF GeneratorInv, RequestInv
  <2>2. \A i \in 1..Len(rootTypes) : Instance(rootTypes[i]) \in Types
    BY <1>1, <2>1, PointerOf DEF ParserInv
  <2>. QED
    BY <1>1, <1>3, <1>4, <2>2
<1>10. Collector!StartRun
  BY <1>1, <1>2, <1>6, <1>7, <1>8, <1>9 DEF Collector!StartRun, Collector!Idle
<1>11. UNCHANGED <<heap, asked, returned, frames>> /\ Roots' = Roots
  BY <1>1, SameParser DEF vars
<1>12. RequestInv'
  BY <1>1, <1>3, <1>11 DEF GeneratorInv, RequestInv
<1>13. ParseInv' /\ IdleInv'
  BY <1>1 DEF ParseInv, IdleInv
<1>14. CollectInv'
  <2>1. TypeGraph' = TypeGraph /\ \A i : Instance(rootTypes[i])' = Instance(rootTypes[i])
    BY <1>1, <1>11, SameGraph
  <2>2. pending' \subseteq {Instance(rootTypes[i])' : i \in appended' + 1..Len(rootTypes')}
    BY <1>1, <1>2, <2>1
  <2>. QED
    BY <1>1, <1>2, <1>3, <1>5, <1>6, <1>11, <2>1, <2>2 DEF CollectInv
<1>15. KnownInv'
  <2>1. graph' = TypeGraph /\ TypeGraph' = TypeGraph /\ \A t : AsksFor(t)' = AsksFor(t)
    BY <1>1, <1>11, SameGraph
  <2>. QED
    BY <1>1, <1>8, <1>11, <2>1 DEF GeneratorInv, KnownInv, Pointer, Final, HasType
<1>. QED
  BY <1>10, <1>12, <1>13, <1>14, <1>15 DEF GeneratorInv

-----------------------------------------------------------------------------
(* The formatter's walk *)

LEMMA PresentRootTyped ==
  ASSUME ParserInv, GeneratorInv, phase = "collect", appended < Len(rootTypes)
  PROVE  PresentRoot \in Types /\ Pointer(PresentRoot) \in Pointers(heap)
<1>1. appended \in Nat /\ rootTypes \in Seq(Pointers(heap)) /\ Len(heap) <= MaxHeap
  BY DEF GeneratorInv, RequestInv, CollectInv
<1>2. rootTypes[appended + 1] \in Pointers(heap)
  BY <1>1
<1>. QED
  BY <1>1, <1>2, PointerOf DEF ParserInv, PresentRoot

LEMMA NextChildTyped ==
  ASSUME ParserInv, GeneratorInv, phase = "collect", stack # <<>>, NEW s \in NextChild
  PROVE  s \in Types /\ Pointer(s) \in Pointers(heap)
<1>1. Head(stack) \in Types /\ Len(heap) <= MaxHeap
  BY DEF GeneratorInv, RequestInv, CollectInv
<1>2. PICK i \in 1..Len(AsksFor(Head(stack))) : s = AsksFor(Head(stack))[i]
  BY DEF NextChild
<1>. QED
  BY <1>1, <1>2, AsksForTypes DEF ParserInv

LEMMA CollectStep ==
  ASSUME ParserInv, GeneratorInv, Collect
  PROVE  GeneratorInv' /\ Collector!Walk
<1>1. phase = "collect" /\ UNCHANGED vars /\ UNCHANGED generatorVars
  BY DEF Collect, parserVars
<1>2. /\ phase' = phase /\ UNCHANGED <<heap, asked, returned, frames>> /\ Roots' = Roots
      /\ UNCHANGED <<request, before, rootTypes, appended, schemas>>
  BY <1>1, SameParser DEF vars, generatorVars
<1>3. stack \in Seq(Types) /\ run \in Nat
  BY DEF GeneratorInv, RequestInv
<1>4. /\ graph = TypeGraph /\ Len(heap) <= MaxHeap /\ run <= Len(asked) /\ frames = <<>>
      /\ pending \subseteq {Instance(rootTypes[i]) : i \in appended + 1..Len(rootTypes)}
      /\ stack # <<>> => appended < Len(rootTypes)
  BY <1>1 DEF GeneratorInv, CollectInv
<1>5. /\ Collector!Walk /\ graph' = graph /\ run' = run
      /\ stack' \in Seq(Types) /\ pending' \subseteq pending
      /\ stack' # <<>> => appended < Len(rootTypes)
      /\ \A t \in known' : t \in known \/ (t \in Types /\ Pointer(t) \in Pointers(heap))
  <2>1. ASSUME NEW t \in Types, Pointer(t) \in Pointers(heap), Collector!OpenRoot(t) \/ Collector!OpenChild(t),
               appended < Len(rootTypes)
        PROVE  <1>5
    <3>1. /\ stack' = <<t>> \o stack /\ graph' = graph /\ run' = run /\ pending' = pending
          /\ known' = known \cup {t}
      BY <2>1 DEF Collector!OpenRoot, Collector!OpenChild, Collector!Open
    <3>2. <<t>> \o stack \in Seq(Types)
      BY <1>3
    <3>3. Collector!Walk
      BY <2>1 DEF Collector!Walk
    <3>. QED
      BY <2>1, <3>1, <3>2, <3>3
  <2>2. ASSUME NEW t \in Types, Collector!ReuseRoot(t) \/ Collector!ReuseChild(t)
        PROVE  <1>5
    <3>1. stack' = stack /\ graph' = graph /\ run' = run /\ pending' \subseteq pending /\ known' = known
      BY <2>2 DEF Collector!ReuseRoot, Collector!ReuseChild
    <3>2. Collector!Walk
      BY <2>2 DEF Collector!Walk
    <3>. QED
      BY <1>3, <1>4, <3>1, <3>2
  <2>3. CASE Collector!Close
    <3>1. /\ stack # <<>> /\ stack' = Tail(stack) /\ graph' = graph /\ run' = run /\ known' = known
          /\ pending' \subseteq pending
      BY <2>3 DEF Collector!Close
    <3>2. Tail(stack) \in Seq(Types)
      BY <1>3, <3>1
    <3>3. Collector!Walk
      BY <2>3 DEF Collector!Walk
    <3>. QED
      BY <1>4, <3>1, <3>2, <3>3
  <2>4. CASE appended < Len(rootTypes) /\ (Collector!OpenRoot(PresentRoot) \/ Collector!ReuseRoot(PresentRoot))
    BY <1>1, <2>1, <2>2, <2>4, PresentRootTyped
  <2>5. CASE stack # <<>> /\ \E s \in NextChild : Collector!OpenChild(s) \/ Collector!ReuseChild(s)
    BY <1>1, <1>4, <2>1, <2>2, <2>5, NextChildTyped
  <2>. QED
    BY <2>3, <2>4, <2>5 DEF Collect
<1>6. RequestInv'
  BY <1>2, <1>3, <1>5 DEF GeneratorInv, RequestInv
<1>7. ParseInv' /\ IdleInv'
  BY <1>1, <1>2 DEF ParseInv, IdleInv
<1>8. CollectInv'
  <2>1. TypeGraph' = TypeGraph /\ \A i : Instance(rootTypes[i])' = Instance(rootTypes[i])
    BY <1>2, SameGraph
  <2>2. pending' \subseteq {Instance(rootTypes[i])' : i \in appended' + 1..Len(rootTypes')}
    BY <1>2, <1>4, <1>5, <2>1
  <2>. QED
    BY <1>2, <1>4, <1>5, <2>1, <2>2 DEF CollectInv
<1>9. KnownInv'
  BY <1>1, <1>2, <1>5, KnownGrows DEF GeneratorInv
<1>. QED
  BY <1>5, <1>6, <1>7, <1>8, <1>9 DEF GeneratorInv

LEMMA LastIndex == \A n \in Nat : n + 1 \in 1..n + 1
OBVIOUS

\* Failing ends the generator's work.
LEMMA Fails ==
  ASSUME RequestInv, NEW error, error # "", Fail(error)
  PROVE  phase' = "idle" /\ Failed' /\ IsSequence(schemas')
<1> DEFINE schema == [error |-> error, roots |-> rootTypes, definitions |-> <<>>]
<1>1. phase' = "idle" /\ schemas' = Append(schemas, schema) /\ schema.error = error
  BY DEF Fail
<1> HIDE DEF schema
<1>2. /\ IsSequence(schemas') /\ Len(schemas) \in Nat /\ Len(schemas') = Len(schemas) + 1
      /\ schemas'[Len(schemas) + 1] = schema
  BY <1>1, AppendToSequence DEF RequestInv
<1>3. Len(schemas) + 1 \in 1..Len(schemas')
  BY <1>2, LastIndex
<1>. QED
  BY <1>1, <1>2, <1>3 DEF Failed

LEMMA AppendStep ==
  ASSUME ParserInv, GeneratorInv, AppendRootChildDefinitions
  PROVE  GeneratorInv'
<1>1. /\ phase = "collect" /\ UNCHANGED vars /\ UNCHANGED collectorVars
      /\ UNCHANGED <<request, before, rootTypes>>
      /\ stack = <<>> /\ appended < Len(rootTypes) /\ PresentRoot \notin pending
      /\ \/ Fail("conflict") /\ appended' = appended
         \/ appended' = appended + 1 /\ schemas' = schemas /\ phase' = phase
  BY DEF AppendRootChildDefinitions, parserVars
<1>2. /\ UNCHANGED <<heap, asked, returned, frames>> /\ Roots' = Roots
      /\ UNCHANGED <<graph, stack, run, pending, known>>
  BY <1>1, SameParser DEF vars, collectorVars
<1>3. KnownInv'
  BY <1>1, <1>2, KnownStays, SameExtends DEF GeneratorInv
<1>4. RequestInv /\ appended \in Nat /\ Len(rootTypes) \in Nat
  BY DEF GeneratorInv, RequestInv
<1>5. CASE Fail("conflict") /\ appended' = appended
  <2>1. phase' = "idle" /\ Failed' /\ IsSequence(schemas')
    BY <1>4, <1>5, Fails
  <2>2. RequestInv'
    BY <1>1, <1>2, <1>4, <1>5, <2>1 DEF RequestInv
  <2>. QED
    BY <1>3, <2>1, <2>2 DEF GeneratorInv, ParseInv, CollectInv, IdleInv
<1>6. CASE appended' = appended + 1 /\ schemas' = schemas /\ phase' = phase
  <2>1. RequestInv'
    BY <1>1, <1>2, <1>4, <1>6 DEF RequestInv
  <2>2. /\ graph = TypeGraph /\ Len(heap) <= MaxHeap /\ run <= Len(asked) /\ frames = <<>>
        /\ pending \subseteq {Instance(rootTypes[i]) : i \in appended + 1..Len(rootTypes)}
    BY <1>1 DEF GeneratorInv, CollectInv
  <2>3. TypeGraph' = TypeGraph /\ \A i : Instance(rootTypes[i])' = Instance(rootTypes[i])
    BY <1>1, <1>2, SameGraph
  <2>4. pending' \subseteq {Instance(rootTypes[i])' : i \in appended' + 1..Len(rootTypes')}
    <3> SUFFICES ASSUME NEW t \in pending
                 PROVE  \E i \in appended + 2..Len(rootTypes) : t = Instance(rootTypes[i])
      BY <1>1, <1>2, <1>4, <1>6, <2>3
    <3>1. PICK i \in appended + 1..Len(rootTypes) : t = Instance(rootTypes[i])
      BY <2>2
    <3>2. i # appended + 1
      BY <1>1, <3>1 DEF PresentRoot
    <3>. QED
      BY <1>4, <3>1, <3>2
  <2>5. CollectInv'
    BY <1>1, <1>2, <2>2, <2>3, <2>4 DEF CollectInv
  <2>6. ParseInv' /\ IdleInv'
    BY <1>1, <1>6 DEF ParseInv, IdleInv
  <2>. QED
    BY <1>3, <2>1, <2>5, <2>6 DEF GeneratorInv
<1>. QED
  BY <1>1, <1>5, <1>6

LEMMA ReturnSchemaStep ==
  ASSUME ParserInv, GeneratorInv, ReturnSchema \/ Recover
  PROVE  GeneratorInv'
<1>1. /\ UNCHANGED vars /\ UNCHANGED collectorVars
      /\ UNCHANGED <<request, before, rootTypes, appended>>
      /\ \/ phase = "collect" /\ appended = Len(rootTypes) /\ \E schema : schemas' = Append(schemas, schema)
            /\ phase' = "idle"
         \/ Fail("unresolved") \/ Fail("missing definition")
  BY DEF ReturnSchema, Recover, parserVars
<1>2. /\ UNCHANGED <<heap, asked, returned, frames>> /\ Roots' = Roots
      /\ UNCHANGED <<graph, stack, run, pending, known>>
  BY <1>1, SameParser DEF vars, collectorVars
<1>3. KnownInv'
  BY <1>1, <1>2, KnownStays, SameExtends DEF GeneratorInv
<1>4. RequestInv
  BY DEF GeneratorInv
<1>5. phase' = "idle" /\ IsSequence(schemas') /\ IdleInv'
  <2>1. CASE phase = "collect" /\ appended = Len(rootTypes) /\ (\E schema : schemas' = Append(schemas, schema))
             /\ phase' = "idle"
    <3>1. IsSequence(schemas')
      BY <1>4, <2>1, AppendToSequence DEF RequestInv
    <3>2. frames = <<>> /\ stack = <<>> /\ pending = {} /\ run <= Len(asked)
      BY <1>4, <2>1 DEF GeneratorInv, CollectInv, RequestInv
    <3>. QED
      BY <1>2, <2>1, <3>1, <3>2 DEF IdleInv
  <2>2. CASE Fail("unresolved") \/ Fail("missing definition")
    BY <1>4, <2>2, Fails DEF IdleInv
  <2>. QED
    BY <1>1, <2>1, <2>2
<1>6. RequestInv'
  BY <1>1, <1>2, <1>4, <1>5 DEF RequestInv
<1>7. ParseInv' /\ CollectInv'
  BY <1>5 DEF ParseInv, CollectInv
<1>. QED
  BY <1>3, <1>5, <1>6, <1>7 DEF GeneratorInv

-----------------------------------------------------------------------------
(* The invariant is inductive *)

LEMMA GeneratorInit == InitGenerator => ParserInv /\ GeneratorInv /\ Collector!Init
<1> SUFFICES ASSUME InitGenerator PROVE ParserInv /\ GeneratorInv /\ Collector!Init
  OBVIOUS
<1>1. Init /\ frames = <<>> /\ asked = <<>> /\ returned = <<>>
  BY DEF InitGenerator, Init
<1>2. ParserInv
  BY <1>1, InvInit, TypedInit, MaxCallsAssumption DEF ParserInv, CallsInv
<1>3. RequestInv
  <2>1. /\ request = <<>> /\ rootTypes = <<>> /\ before = 0 /\ appended = 0 /\ run = 0 /\ stack = <<>>
        /\ schemas = <<>> /\ phase = "idle"
    BY DEF InitGenerator
  <2>2. <<>> \in Seq(Roots) /\ <<>> \in Seq(Pointers(heap)) /\ <<>> \in Seq(Types) /\ <<>> \in Seq({})
    OBVIOUS
  <2>. QED
    BY <2>1, <2>2, SequenceOf DEF RequestInv
<1>4. ParseInv /\ CollectInv /\ IdleInv /\ KnownInv
  BY <1>1 DEF InitGenerator, ParseInv, CollectInv, IdleInv, KnownInv
<1>5. Collector!Init
  BY DEF InitGenerator, Collector!Init, Types
<1>. QED
  BY <1>2, <1>3, <1>4, <1>5 DEF GeneratorInv

LEMMA GeneratorStep ==
  ParserInv /\ GeneratorInv /\ [NextGenerator]_allVars
    => (ParserInv /\ GeneratorInv)' /\ [Collector!Next]_collectorVars /\ Extends(heap', heap)
<1> SUFFICES ASSUME ParserInv, GeneratorInv, [NextGenerator]_allVars
             PROVE  ParserInv' /\ GeneratorInv' /\ [Collector!Next]_collectorVars /\ Extends(heap', heap)
  OBVIOUS
<1>1. ASSUME NEW nodes \in Requests, CreateSchema(nodes)
      PROVE  ParserInv' /\ GeneratorInv' /\ UNCHANGED collectorVars /\ Extends(heap', heap)
  BY <1>1, CreateSchemaStep, SameParser DEF CreateSchema, parserVars
<1>2. CASE ParseRequested \/ Parse
  <2>1. UNCHANGED collectorVars
    BY <1>2 DEF ParseRequested, Parse
  <2>2. (\E n \in Roots : ParseRoot(n)) \/ Step
    <3>1. CASE ParseRequested
      <4>1. Len(rootTypes) \in Nat /\ Len(rootTypes) < Len(request) /\ request \in Seq(Roots)
        BY <3>1 DEF ParseRequested, GeneratorInv, RequestInv
      <4>2. request[Len(rootTypes) + 1] \in Roots
        BY <4>1
      <4>. QED
        BY <3>1, <4>2 DEF ParseRequested
    <3>. QED
      BY <1>2, <3>1 DEF Parse
  <2>3. ParserInv' /\ Extends(heap', heap)
    BY <2>2, ParserStep
  <2>. QED
    BY <1>2, <2>1, <2>3, ParsingStep
<1>3. CASE WrapRoot
  <2>1. UNCHANGED collectorVars
    BY <1>3 DEF WrapRoot
  <2>. QED
    BY <1>3, <2>1, WrapRootStep, WrapRootKeeps DEF GeneratorInv
<1>4. CASE StartCollecting
  <2>1. UNCHANGED vars
    BY <1>4 DEF StartCollecting, parserVars
  <2>. QED
    BY <1>4, <2>1, StartCollectingStep, SameParser DEF Collector!Next
<1>5. CASE Collect
  <2>1. UNCHANGED vars
    BY <1>5 DEF Collect, parserVars
  <2>. QED
    BY <1>5, <2>1, CollectStep, SameParser DEF Collector!Next
<1>6. CASE AppendRootChildDefinitions \/ ReturnSchema \/ Recover
  <2>1. UNCHANGED vars /\ UNCHANGED collectorVars
    BY <1>6 DEF AppendRootChildDefinitions, ReturnSchema, Recover, parserVars
  <2>. QED
    BY <1>6, <2>1, AppendStep, ReturnSchemaStep, SameParser
<1>7. CASE UNCHANGED allVars
  <2>1. UNCHANGED vars /\ UNCHANGED collectorVars /\ UNCHANGED generatorVars
    BY <1>7 DEF allVars, parserVars
  <2>2. ParserInv' /\ UNCHANGED <<heap, asked, returned, frames>> /\ Roots' = Roots /\ Extends(heap', heap)
    BY <2>1, SameParser DEF vars
  <2>3. /\ TypeGraph' = TypeGraph /\ \A t : AsksFor(t)' = AsksFor(t)
        /\ \A i : Instance(rootTypes[i])' = Instance(rootTypes[i])
    BY <2>1, <2>2, SameGraph DEF generatorVars
  <2>4. RequestInv' /\ ParseInv' /\ IdleInv'
    BY <2>1, <2>2 DEF GeneratorInv, RequestInv, ParseInv, IdleInv, Failed, generatorVars, collectorVars
  <2>5. CollectInv'
    BY <2>1, <2>2, <2>3 DEF GeneratorInv, CollectInv, generatorVars, collectorVars
  <2>6. KnownInv'
    BY <2>1, <2>2, KnownStays, SameExtends DEF GeneratorInv, collectorVars
  <2>. QED
    BY <2>1, <2>2, <2>4, <2>5, <2>6 DEF GeneratorInv
<1>. QED
  BY <1>1, <1>2, <1>3, <1>4, <1>5, <1>6, <1>7 DEF NextGenerator, Generate

LEMMA GeneratorIsInductive == GeneratorSpec => [](ParserInv /\ GeneratorInv)
BY GeneratorInit, GeneratorStep, PTL DEF GeneratorSpec

\* A CreateSchema call collects its definitions the way ChildCollector says,
\* however many calls came before it: types that are added, wrapped or set for a
\* later call leave the graph the formatter has walked as it was.
THEOREM GeneratorCollects == GeneratorSpec => CollectorSpec
<1>1. collectorVars = Collector!vars
  BY DEF collectorVars, Collector!vars
<1>2. [Collector!Next]_collectorVars => [Collector!Next]_(Collector!vars)
  BY DEF collectorVars, Collector!vars
<1>. QED
  BY <1>2, GeneratorInit, GeneratorStep, GeneratorIsInductive, PTL
     DEF GeneratorSpec, CollectorSpec, Collector!Spec

-----------------------------------------------------------------------------
(* What ChildCollector_proofs shows of the collector, of this one *)

CollectorProofs == INSTANCE ChildCollector_proofs WITH
  Types <- Types,
  Definitions <- MaxHeap + 1..3 * MaxHeap,
  Graphs <- [Types -> SUBSET Types],
  MaxRuns <- MaxCalls

LEMMA CollectorAssumptions ==
  /\ MaxHeap + 1..3 * MaxHeap \subseteq Types
  /\ [Types -> SUBSET Types] \subseteq [Types -> SUBSET Types]
  /\ MaxCalls \in Nat
BY MaxHeapAssumption, MaxCallsAssumption DEF Types

LEMMA SameCollector == GeneratorSpec => CollectorProofs!Spec
<1>1. Collector!Init => CollectorProofs!Init
  BY DEF Collector!Init, CollectorProofs!Init
<1>2. [Collector!Next]_(Collector!vars) => [CollectorProofs!Next]_(CollectorProofs!vars)
  BY DEF Collector!vars, Collector!Next, Collector!StartRun, Collector!Walk, Collector!Idle,
         Collector!OpenRoot, Collector!OpenChild, Collector!Open,
         Collector!ReuseRoot, Collector!ReuseChild, Collector!Close,
         CollectorProofs!vars, CollectorProofs!Next, CollectorProofs!StartRun, CollectorProofs!Walk,
         CollectorProofs!OpenRoot, CollectorProofs!OpenChild, CollectorProofs!Open,
         CollectorProofs!ReuseRoot, CollectorProofs!ReuseChild, CollectorProofs!Close, CollectorProofs!Idle
<1>3. CollectorSpec => CollectorProofs!Spec
  BY <1>1, <1>2, PTL DEF CollectorSpec, Collector!Spec, CollectorProofs!Spec
<1>. QED
  BY <1>3, GeneratorCollects, PTL

LEMMA CollectorInvariants ==
  GeneratorSpec => [](CollectorProofs!TypeOK /\ CollectorProofs!CompleteInv /\ CollectorProofs!SoundInv)
<1>1. /\ MaxHeap + 1..3 * MaxHeap \subseteq Types
      /\ [Types -> SUBSET Types] \subseteq [Types -> SUBSET Types]
      /\ MaxCalls \in Nat
  BY CollectorAssumptions
<1>. QED
  BY <1>1, SameCollector, CollectorProofs!AllInvariants, PTL

\* Under the generator, too, the first call collects every definition its roots
\* lead to, and no call collects any other.
THEOREM GeneratorCollectsRight ==
  GeneratorSpec => [](Collector!FirstRunComplete /\ Collector!CollectsOnlyReachable)
<1>1. /\ MaxHeap + 1..3 * MaxHeap \subseteq Types
      /\ [Types -> SUBSET Types] \subseteq [Types -> SUBSET Types]
      /\ MaxCalls \in Nat
  BY CollectorAssumptions
<1>2. CollectorProofs!Spec => [](CollectorProofs!FirstRunComplete /\ CollectorProofs!CollectsOnlyReachable)
  BY <1>1, CollectorProofs!FirstRunIsComplete, CollectorProofs!CollectionIsSound, PTL
<1>3. CollectorProofs!FirstRunComplete => Collector!FirstRunComplete
  BY DEF CollectorProofs!FirstRunComplete, CollectorProofs!Idle, CollectorProofs!Reachable, CollectorProofs!Closed,
         Collector!FirstRunComplete, Collector!Idle, Collector!Reachable, Collector!Closed
<1>4. CollectorProofs!CollectsOnlyReachable => Collector!CollectsOnlyReachable
  BY DEF CollectorProofs!CollectsOnlyReachable, CollectorProofs!Reachable, CollectorProofs!Closed,
         Collector!CollectsOnlyReachable, Collector!Reachable, Collector!Closed
<1>. QED
  BY <1>2, <1>3, <1>4, SameCollector, PTL

LEMMA GeneratorCacheStep == ParserInv /\ GeneratorInv /\ [NextGenerator]_allVars => CacheKept
<1> SUFFICES ASSUME ParserInv, GeneratorInv, [NextGenerator]_allVars
             PROVE  CacheKept
  OBVIOUS
<1>1. Extends(heap', heap)
  BY GeneratorStep
<1>2. CASE ParseRequested \/ Parse
  <2>1. Next
    <3>1. CASE ParseRequested
      <4>1. Len(rootTypes) \in Nat /\ Len(rootTypes) < Len(request) /\ request \in Seq(Roots)
        BY <3>1 DEF ParseRequested, GeneratorInv, RequestInv
      <4>. QED
        BY <3>1, <4>1 DEF ParseRequested, Next
    <3>. QED
      BY <1>2, <3>1 DEF Parse, Next
  <2>. QED
    BY <2>1, CacheStep DEF ParserInv
<1>3. ASSUME typeCaches' = typeCaches PROVE CacheKept
  BY <1>1, <1>3, CachedIsFinal DEF CacheKept, ParserInv
<1>4. CASE (\E nodes \in Requests : CreateSchema(nodes)) \/ WrapRoot \/ StartCollecting \/ Collect
  <2>1. typeCaches' = typeCaches
    BY <1>4 DEF CreateSchema, WrapRoot, StartCollecting, Collect, parserVars, vars
  <2>. QED
    BY <1>3, <2>1
<1>5. CASE AppendRootChildDefinitions \/ ReturnSchema \/ Recover
  <2>1. typeCaches' = typeCaches
    BY <1>5 DEF AppendRootChildDefinitions, ReturnSchema, Recover, parserVars, vars
  <2>. QED
    BY <1>3, <2>1
<1>6. CASE UNCHANGED allVars
  <2>1. typeCaches' = typeCaches
    BY <1>6 DEF allVars, parserVars, vars
  <2>. QED
    BY <1>3, <2>1
<1>. QED
  BY <1>2, <1>4, <1>5, <1>6 DEF NextGenerator, Generate

\* The parser keeps its types under the generator as well, TopRefNodeParser's
\* wrapping included: between two calls no reference is left unset, what a call
\* has made stays as it is for the calls that follow, and so does the cache that
\* hands it to them.
THEOREM GeneratorKeepsTypes ==
  GeneratorSpec => [](TypeOK /\ NoDanglingReference) /\ TypesAreFinal /\ CachedTypesAreFinal
<1>1. ParserInv => TypeOK /\ NoDanglingReference
  BY TypedIsTypeOK, NothingDangles DEF ParserInv
<1>2. ParserInv /\ GeneratorInv /\ [NextGenerator]_allVars => [Extends(heap', heap)]_vars
  BY GeneratorStep
<1>3. ParserInv /\ GeneratorInv /\ [NextGenerator]_allVars => [CacheKept]_vars
  BY GeneratorCacheStep
<1>. QED
  BY <1>1, <1>2, <1>3, GeneratorIsInductive, PTL DEF GeneratorSpec, TypesAreFinal, CachedTypesAreFinal, CacheKept
=============================================================================
