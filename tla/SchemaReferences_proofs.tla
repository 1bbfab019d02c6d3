------------------------ MODULE SchemaReferences_proofs ------------------------
(***************************************************************************)
(* How the definitions of a schema meet their names.  The first call of a  *)
(* generator never fails for a $ref without a definition, whatever the     *)
(* program, the roots and the order the formatter walks in: every name     *)
(* RemoveUnreachable meets is the name of a definition below the roots (by *)
(* induction on the heap: a type is made of older ones), the first call    *)
(* collects all of those (ChildCollector), and what was collected has been *)
(* appended when the schema is returned.  And no call reports a conflict   *)
(* without one: a name says what the ID says (TypeIdentity_proofs), that   *)
(* of a wrapped root included.  For the same reason a $ref means the type  *)
(* it was put for, whichever definition of its name was kept.              *)
(***************************************************************************)
EXTENDS SchemaIdentity, SchemaGenerator_proofs, TypeIdentity_proofs, FiniteSetTheorems

-----------------------------------------------------------------------------
(* The invariant *)

\* A call that has not failed is one collection.
RunsInv ==
  /\ phase = "parse" => definitions = <<>> /\ run = Len(schemas)
  /\ phase = "collect" => run = Len(schemas) + 1
                          /\ roots = {Instance(rootTypes[i]) : i \in 1..Len(rootTypes)}
  /\ phase = "idle" /\ ~Failed => run = Len(schemas)

\* What was collected of the present root and is appended with its definitions.
JustCollected(d) ==
  /\ stack = <<>>
  /\ appended < Len(rootTypes)
  /\ PresentRoot \notin pending
  /\ d \in children[PresentRoot]

Below == CollectorProofs!Reachable(roots) \cap (MaxHeap + 1..3 * MaxHeap)

WalkInv ==
  phase = "collect" =>
    /\ stack # <<>> => stack[Len(stack)] = PresentRoot
    /\ \A d \in collected : NameOf(d) \in DOMAIN definitions \/ JustCollected(d)
    /\ \A n \in DOMAIN definitions : \E d \in Below : NameOf(d) = n /\ definitions[n] = Inner(d)

CollectorInv == CollectorProofs!TypeOK /\ CollectorProofs!CompleteInv /\ CollectorProofs!SoundInv

\* The types there are: a definition stands for its pointer, and only an
\* unexposed declaration has a definition made on the fly.
Standing ==
  {t \in Types : LET p == Pointer(t) IN
     /\ p \in Pointers(heap)
     /\ t <= 2 * MaxHeap => t = Instance(p)
     /\ t > 2 * MaxHeap => heap[p].kind = "ref"}

Names == {NameOf(d) : d \in Below}

Collecting == ParserInv /\ GeneratorInv /\ RunsInv /\ phase = "collect"

Reached == CollectorProofs!Reachable(roots)

-----------------------------------------------------------------------------
(* What the formatter reaches *)

LEMMA InCollect ==
  ASSUME Collecting
  PROVE  /\ Inv /\ Typed /\ Len(heap) <= MaxHeap /\ graph = TypeGraph /\ frames = <<>>
         /\ rootTypes \in Seq(Pointers(heap)) /\ appended \in Nat
         /\ roots = {Instance(rootTypes[i]) : i \in 1..Len(rootTypes)}
BY DEF Collecting, ParserInv, GeneratorInv, CollectInv, RequestInv, RunsInv

LEMMA InstanceStanding ==
  ASSUME Collecting, NEW p \in Pointers(heap)
  PROVE  /\ Instance(p) \in Standing
         /\ heap[p].kind = "ref" => OnTheFly(p) \in Standing
<1>1. /\ p \in Nat /\ p >= 1 /\ p <= MaxHeap /\ Instance(p) \in Types /\ Pointer(Instance(p)) = p
      /\ OnTheFly(p) \in Types /\ Pointer(OnTheFly(p)) = p /\ OnTheFly(p) = 2 * MaxHeap + p
  BY InCollect, PointerOf DEF Pointers
<1>2. Instance(p) <= 2 * MaxHeap /\ ~(OnTheFly(p) <= 2 * MaxHeap)
  BY <1>1, MaxHeapAssumption DEF Instance
<1>. QED
  BY <1>1, <1>2, MaxHeapAssumption DEF Standing, Types

LEMMA AsksForStanding ==
  ASSUME Collecting, NEW t \in Types
  PROVE  Range(AsksFor(t)) \subseteq Standing
<1> DEFINE p == Pointer(t)
           subs == [i \in 1..Len(heap[p].subs) |-> Instance(heap[p].subs[i])]
<1>1. CASE p \notin Pointers(heap)
  <2>1. AsksFor(t) = <<>>
    BY <1>1 DEF AsksFor
  <2>. QED
    BY <2>1 DEF Range
<1>2. CASE p \in Pointers(heap)
  <2>1. heap[p].subs \in Seq(Pointers(heap))
    BY <1>2, InCollect DEF Typed, TypedHeap
  <2>2. \A i \in DOMAIN subs : subs[i] \in Standing
    BY <2>1, InstanceStanding
  <2>3. \/ AsksFor(t) = <<>>
        \/ AsksFor(t) = <<OnTheFly(p)>> /\ heap[p].kind = "ref"
        \/ AsksFor(t) = subs
    BY DEF AsksFor
  <2>4. heap[p].kind = "ref" => OnTheFly(p) \in Standing
    BY <1>2, InstanceStanding
  <2> HIDE DEF subs, p
  <2>. QED
    BY <2>2, <2>3, <2>4 DEF Range
<1>. QED
  BY <1>1, <1>2

LEMMA ReachedStanding ==
  ASSUME Collecting
  PROVE  Reached \subseteq Standing
<1>1. Standing \in SUBSET Types
  BY DEF Standing
<1>2. roots \subseteq Standing
  BY InCollect, InstanceStanding
<1>3. \A t \in Standing : graph[t] \subseteq Standing
  BY InCollect, AsksForStanding, <1>1 DEF TypeGraph
<1>. QED
  BY <1>1, <1>2, <1>3 DEF Reached, CollectorProofs!Reachable, CollectorProofs!Closed

LEMMA ReachedAsks ==
  ASSUME Collecting, NEW t \in Reached
  PROVE  Range(AsksFor(t)) \subseteq Reached
<1>1. t \in Types /\ graph[t] = Range(AsksFor(t))
  BY InCollect DEF TypeGraph, Reached, CollectorProofs!Reachable
<1>2. Range(AsksFor(t)) \subseteq Types
  BY <1>1, AsksForStanding DEF Standing
<1>. QED
  BY <1>1, <1>2 DEF Reached, CollectorProofs!Reachable, CollectorProofs!Closed

LEMMA ReachedRoots ==
  ASSUME Collecting, NEW i \in 1..Len(rootTypes)
  PROVE  Instance(rootTypes[i]) \in Reached
<1>1. Instance(rootTypes[i]) \in roots /\ roots \subseteq Types
  BY InCollect, InstanceStanding DEF Standing
<1>. QED
  BY <1>1 DEF Reached, CollectorProofs!Reachable

\* Whatever a type is made of is reached with it, a reference aside.
LEMMA ReachedParts ==
  ASSUME Collecting, NEW p \in Pointers(heap), Instance(p) \in Reached, heap[p].kind # "ref",
         NEW i \in 1..Len(heap[p].subs)
  PROVE  heap[p].subs[i] \in Pointers(heap) /\ Instance(heap[p].subs[i]) \in Reached
<1> DEFINE subs == [j \in 1..Len(heap[p].subs) |-> Instance(heap[p].subs[j])]
<1>1. heap[p].subs \in Seq(Pointers(heap))
  BY InCollect DEF Typed, TypedHeap
<1>2. Pointer(Instance(p)) = p
  BY InCollect, PointerOf
<1>3. ~(Instance(p) > 2 * MaxHeap)
  <2>1. p \in Nat /\ p <= MaxHeap
    BY InCollect, PointerOf
  <2>. QED
    BY <2>1, MaxHeapAssumption DEF Instance
<1>4. AsksFor(Instance(p)) = subs
  BY <1>2, <1>3 DEF AsksFor
<1>5. subs[i] \in Range(subs)
  BY <1>1 DEF Range
<1>. QED
  BY <1>1, <1>4, <1>5, ReachedAsks

\* A definition is reached with the type it defines.
LEMMA ReachedInner ==
  ASSUME Collecting, NEW d \in Below
  PROVE  /\ Pointer(d) \in Pointers(heap) /\ Inner(d) \in Pointers(heap)
         /\ Instance(Inner(d)) \in Reached
         /\ heap[Pointer(d)].kind \in {"def", "ref"} /\ HasType(heap, Pointer(d))
<1> DEFINE p == Pointer(d)
           subs == [i \in 1..Len(heap[p].subs) |-> Instance(heap[p].subs[i])]
<1>1. /\ d \in Reached /\ d \in Standing /\ d \in Types /\ d > MaxHeap /\ d \in Nat
      /\ p \in Pointers(heap)
  BY ReachedStanding, MaxHeapAssumption DEF Below, Reached, Standing, Types
<1>2. heap[p].kind \in {"def", "ref"}
  <2>1. CASE d <= 2 * MaxHeap
    <3>1. d = Instance(p) /\ p \in Nat /\ p <= MaxHeap
      BY <1>1, <2>1, InCollect, PointerOf DEF Standing
    <3>. QED
      BY <1>1, <3>1, MaxHeapAssumption DEF Instance
  <2>2. CASE ~(d <= 2 * MaxHeap)
    <3>1. d > 2 * MaxHeap
      BY <1>1, <2>2, MaxHeapAssumption
    <3>. QED
      BY <1>1, <3>1 DEF Standing
  <2>. QED
    BY <2>1, <2>2
<1>3. heap[p].subs \in Seq(Pointers(heap)) /\ heap[p].subs # <<>>
  <2>1. heap[p].subs \in Seq(Pointers(heap)) /\ (heap[p].kind = "def" => heap[p].subs # <<>>)
    BY <1>1, InCollect DEF Typed, TypedHeap
  <2>2. Final(heap, p)
    BY <1>1, InCollect, Settled
  <2>. QED
    BY <1>2, <2>1, <2>2 DEF Final, HasType
<1>4. AsksFor(d) = subs
  <2>1. d > 2 * MaxHeap => heap[p].kind = "ref"
    BY <1>1 DEF Standing
  <2>2. d <= 2 * MaxHeap => d = Instance(p)
    BY <1>1 DEF Standing
  <2>. QED
    BY <1>1, <2>1, <2>2, MaxHeapAssumption DEF AsksFor
<1>5. Inner(d) = heap[p].subs[1] /\ 1 \in 1..Len(heap[p].subs)
  BY <1>3 DEF Inner
<1>6. subs[1] \in Range(subs)
  BY <1>5 DEF Range
<1>. QED
  BY <1>1, <1>2, <1>3, <1>4, <1>5, <1>6, ReachedAsks DEF HasType

\* The name a reached definition or reference goes by is a definition's below.
LEMMA ReachedName ==
  ASSUME Collecting, NEW p \in Pointers(heap), Instance(p) \in Reached, heap[p].kind \in {"def", "ref"}
  PROVE  heap[p].name \in Names
<1>1. /\ p \in Nat /\ p >= 1 /\ p <= MaxHeap /\ Pointer(p) = p /\ Pointer(Instance(p)) = p
      /\ Pointer(OnTheFly(p)) = p /\ OnTheFly(p) = 2 * MaxHeap + p /\ OnTheFly(p) \in Types
      /\ heap[p].kind = "def" => Instance(p) = MaxHeap + p
      /\ heap[p].kind # "def" => Instance(p) = p
  BY InCollect, PointerOf DEF Pointers
<1>2. CASE heap[p].kind = "def"
  <2>1. Instance(p) \in MaxHeap + 1..3 * MaxHeap
    BY <1>1, <1>2, MaxHeapAssumption
  <2>2. NameOf(Instance(p)) = heap[p].name
    BY <1>1 DEF NameOf
  <2>. QED
    BY <2>1, <2>2 DEF Names, Below, Reached
<1>3. CASE heap[p].kind = "ref"
  <2>1. /\ HasType(heap, p) /\ heap[p].subs[1] \in Pointers(heap) /\ NamesAgree(heap, p)
        /\ 1 \in 1..Len(heap[p].subs)
    <3>1. Final(heap, p) /\ heap[p].subs \in Seq(Pointers(heap)) /\ NamesAgree(heap, p)
      BY <1>3, InCollect, Settled DEF Typed, TypedHeap
    <3>. QED
      BY <1>3, <3>1 DEF Final, HasType
  <2> DEFINE q == heap[p].subs[1]
             subs == [i \in 1..Len(heap[p].subs) |-> Instance(heap[p].subs[i])]
  <2>2. Inner(p) = q
    BY <1>1 DEF Inner
  <2>3. CASE heap[q].kind # "def"
    <3>1. AsksFor(p) = <<OnTheFly(p)>>
      BY <1>1, <1>3, <2>1, <2>2, <2>3, MaxHeapAssumption DEF AsksFor
    <3>2. OnTheFly(p) \in Range(AsksFor(p))
      BY <3>1 DEF Range
    <3>3. OnTheFly(p) \in Reached
      BY <1>1, <1>3, <3>2, ReachedAsks
    <3>4. OnTheFly(p) \in MaxHeap + 1..3 * MaxHeap
      BY <1>1, MaxHeapAssumption
    <3>5. NameOf(OnTheFly(p)) = heap[p].name
      BY <1>1 DEF NameOf
    <3>. QED
      BY <3>3, <3>4, <3>5 DEF Names, Below, Reached
  <2>4. CASE heap[q].kind = "def"
    <3>1. AsksFor(p) = subs
      BY <1>1, <1>3, <2>1, <2>2, <2>4, MaxHeapAssumption DEF AsksFor
    <3>2. Instance(q) \in Range(AsksFor(p))
      BY <2>1, <3>1 DEF Range
    <3>3. Instance(q) \in Reached
      BY <1>1, <1>3, <3>2, ReachedAsks
    <3>4. /\ q \in Nat /\ q >= 1 /\ q <= MaxHeap /\ Instance(q) = MaxHeap + q /\ Pointer(Instance(q)) = q
      BY <2>1, <2>4, InCollect, PointerOf DEF Pointers
    <3>5. Instance(q) \in MaxHeap + 1..3 * MaxHeap
      BY <3>4, MaxHeapAssumption
    <3>6. NameOf(Instance(q)) = heap[p].name
      BY <2>1, <2>4, <3>4 DEF NameOf, NamesAgree
    <3>. QED
      BY <3>3, <3>5, <3>6 DEF Names, Below, Reached
  <2>. QED
    BY <2>3, <2>4
<1>. QED
  BY <1>2, <1>3

-----------------------------------------------------------------------------
(* Recursion over the heap *)

\* The recursive function of RefsOf, its equation apart.
RefsBody(q, refs) ==
  CASE heap[q].kind \in {"def", "ref"} -> {heap[q].name}
    [] heap[q].kind = "object" ->
         UNION {refs[s] : s \in {m \in Range(heap[q].subs) : ~IsNeverLike(heap, DerefType(heap, m))}}
    [] OTHER -> UNION {refs[s] : s \in Range(heap[q].subs)}

Refs == CHOOSE refs : refs = [q \in Pointers(heap) |-> RefsBody(q, refs)]

LEMMA RefsOfIsRefs == \A p : RefsOf(p) = Refs[p]
BY DEF Refs, RefsOf, RefsBody

\* The names in a definition only hang on the names in older types.
LEMMA RefsBodyOlder ==
  ASSUME Typed, NEW q \in Pointers(heap), NEW f, NEW g,
         \A s \in Pointers(heap) : s < q => f[s] = g[s]
  PROVE  RefsBody(q, f) = RefsBody(q, g)
<1>1. CASE heap[q].kind \in {"def", "ref"}
  BY <1>1 DEF RefsBody
<1>2. CASE heap[q].kind \notin {"def", "ref"}
  <2>1. \A s \in Range(heap[q].subs) : s \in Pointers(heap) /\ s < q
    BY <1>2 DEF Typed, TypedHeap, Range
  <2>2. \A s \in Range(heap[q].subs) : f[s] = g[s]
    BY <2>1
  <2>3. {f[s] : s \in Range(heap[q].subs)} = {g[s] : s \in Range(heap[q].subs)}
    BY <2>2
  <2> DEFINE kept == {m \in Range(heap[q].subs) : ~IsNeverLike(heap, DerefType(heap, m))}
  <2>4. {f[s] : s \in kept} = {g[s] : s \in kept}
    BY <2>2
  <2> HIDE DEF kept
  <2>5. RefsBody(q, f) = IF heap[q].kind = "object" THEN UNION {f[s] : s \in kept}
                         ELSE UNION {f[s] : s \in Range(heap[q].subs)}
    BY <1>2 DEF RefsBody, kept
  <2>6. RefsBody(q, g) = IF heap[q].kind = "object" THEN UNION {g[s] : s \in kept}
                         ELSE UNION {g[s] : s \in Range(heap[q].subs)}
    BY <1>2 DEF RefsBody, kept
  <2>. QED
    BY <2>3, <2>4, <2>5, <2>6
<1>. QED
  BY <1>1, <1>2

\* There is such a function: on the first n pointers, for every n.
LEMMA RefsExists ==
  ASSUME Inv, Typed
  PROVE  Refs = [q \in Pointers(heap) |-> RefsBody(q, Refs)]
<1> DEFINE Holds(n) == \E f : f = [q \in 1..n |-> RefsBody(q, f)]
           Bad == {n \in 0..Len(heap) : ~Holds(n)}
<1>1. Len(heap) \in Nat
  BY HeapLength
<1>2. Holds(0)
  <2> DEFINE e == [q \in 1..0 |-> {}]
  <2>1. e = [q \in 1..0 |-> RefsBody(q, e)]
    OBVIOUS
  <2>. QED
    BY <2>1
<1>3. ASSUME NEW n \in 1..Len(heap), Holds(n - 1) PROVE Holds(n)
  <2>1. PICK f : f = [q \in 1..n - 1 |-> RefsBody(q, f)]
    BY <1>3
  <2> DEFINE g == [q \in 1..n |-> IF q = n THEN RefsBody(n, f) ELSE f[q]]
  <2>2. ASSUME NEW q \in 1..n PROVE g[q] = RefsBody(q, g)
    <3>1. q \in Pointers(heap) /\ n \in Nat
      BY <1>1 DEF Pointers
    <3>2. \A s \in Pointers(heap) : s < q => f[s] = g[s]
      BY <1>1, <3>1 DEF Pointers
    <3>3. RefsBody(q, f) = RefsBody(q, g)
      BY <3>1, <3>2, RefsBodyOlder
    <3>4. CASE q = n
      BY <3>3, <3>4
    <3>5. CASE q # n
      <4>1. q \in 1..n - 1
        BY <1>1, <3>5
      <4>2. f[q] = RefsBody(q, f)
        BY <2>1, <4>1
      <4>. QED
        BY <3>3, <3>5, <4>2
    <3>. QED
      BY <3>4, <3>5
  <2>3. g = [q \in 1..n |-> g[q]]
    OBVIOUS
  <2> HIDE DEF g
  <2>4. g = [q \in 1..n |-> RefsBody(q, g)]
    BY <2>2, <2>3
  <2>. QED
    BY <2>4
<1> HIDE DEF Holds
<1>4. Bad = {}
  <2> SUFFICES ASSUME Bad # {} PROVE FALSE
    OBVIOUS
  <2>1. Bad \in SUBSET Nat
    OBVIOUS
  <2>2. PICK m \in Bad : \A k \in Bad : m <= k
    BY <2>1, Least
  <2>3. m \in 1..Len(heap) /\ m - 1 \in 0..Len(heap) /\ m - 1 < m
    BY <1>1, <1>2, <2>2
  <2>4. Holds(m - 1)
    BY <2>2, <2>3
  <2>. QED
    BY <1>3, <2>2, <2>3, <2>4
<1>5. Holds(Len(heap))
  BY <1>1, <1>4
<1>6. PICK f : f = [q \in Pointers(heap) |-> RefsBody(q, f)]
  BY <1>5 DEF Holds, Pointers
<1>. QED
  BY <1>6 DEF Refs

\* Every name in what is reached is the name of a definition below the roots.
LEMMA RefsAreBelow ==
  ASSUME Collecting, NEW p \in Pointers(heap), Instance(p) \in Reached
  PROVE  RefsOf(p) \subseteq Names
<1> DEFINE Bad == {q \in Pointers(heap) : Instance(q) \in Reached /\ ~(Refs[q] \subseteq Names)}
<1>1. Bad = {}
  <2> SUFFICES ASSUME Bad # {} PROVE FALSE
    OBVIOUS
  <2>1. Bad \in SUBSET Nat
    BY DEF Pointers
  <2>2. PICK q \in Bad : \A k \in Bad : q <= k
    BY <2>1, Least
  <2>3. q \in Pointers(heap) /\ Instance(q) \in Reached /\ ~(Refs[q] \subseteq Names)
    OBVIOUS
  <2> HIDE DEF Bad
  <2>4. Refs[q] = RefsBody(q, Refs)
    BY <2>3, InCollect, RefsExists
  <2>5. CASE heap[q].kind \in {"def", "ref"}
    <3>1. Refs[q] = {heap[q].name}
      BY <2>4, <2>5 DEF RefsBody
    <3>. QED
      BY <2>3, <2>5, <3>1, ReachedName
  <2>6. CASE heap[q].kind \notin {"def", "ref"}
    <3>1. ASSUME NEW s \in Range(heap[q].subs) PROVE Refs[s] \subseteq Names
      <4>1. PICK i \in 1..Len(heap[q].subs) : s = heap[q].subs[i]
        BY <2>3, InCollect DEF Range, Typed, TypedHeap
      <4>2. s \in Pointers(heap) /\ Instance(s) \in Reached
        BY <2>3, <2>6, <4>1, ReachedParts
      <4>3. s < q
        <5>1. TypedHeap(heap)
          BY InCollect DEF Typed
        <5>. QED
          BY <2>3, <2>6, <4>1, <5>1 DEF TypedHeap
      <4>4. s \in Nat /\ q \in Nat
        BY <2>3, <4>2 DEF Pointers
      <4>5. s \notin Bad
        BY <2>2, <4>3, <4>4
      <4>. QED
        BY <4>2, <4>5 DEF Bad
    <3>2. Refs[q] \subseteq UNION {Refs[s] : s \in Range(heap[q].subs)}
      BY <2>4, <2>6 DEF RefsBody
    <3>. QED
      BY <2>3, <3>1, <3>2
  <2>. QED
    BY <2>5, <2>6
<1>2. p \notin Bad
  BY <1>1
<1>. QED
  BY <1>2, RefsOfIsRefs

-----------------------------------------------------------------------------
(* addReachable *)

LastStep == Cardinality(DOMAIN definitions)

\* The recursive function of ReachableNames, its equation apart.
NamesBody(p, k, f) ==
  IF k = 0 THEN RefsOf(p)
  ELSE LET names == f[k - 1]
       IN names \cup UNION {RefsOf(definitions[n]) : n \in names \cap DOMAIN definitions}

NamesMet(p) == CHOOSE f : f = [k \in 0..LastStep |-> NamesBody(p, k, f)]

LEMMA ReachableNamesIsNamesMet == \A p : ReachableNames(p) = NamesMet(p)[LastStep]
BY DEF ReachableNames, NamesMet, NamesBody, LastStep

LEMMA NamesMetExists ==
  ASSUME NEW p, LastStep \in Nat
  PROVE  NamesMet(p) = [k \in 0..LastStep |-> NamesBody(p, k, NamesMet(p))]
<1> DEFINE Holds(n) == \E f : f = [k \in 0..n |-> NamesBody(p, k, f)]
           Bad == {n \in 0..LastStep : ~Holds(n)}
<1>1. Holds(0)
  <2> DEFINE e == [k \in 0..0 |-> RefsOf(p)]
  <2>1. e = [k \in 0..0 |-> NamesBody(p, k, e)]
    BY DEF NamesBody
  <2> HIDE DEF e
  <2>. QED
    BY <2>1
<1>2. ASSUME NEW n \in 1..LastStep, Holds(n - 1) PROVE Holds(n)
  <2>1. PICK f : f = [k \in 0..n - 1 |-> NamesBody(p, k, f)]
    BY <1>2
  <2> DEFINE g == [k \in 0..n |-> IF k = n THEN NamesBody(p, n, f) ELSE f[k]]
  <2>2. ASSUME NEW k \in 0..n PROVE g[k] = NamesBody(p, k, g)
    <3>1. k # 0 => k - 1 \in 0..n /\ k - 1 # n
      OBVIOUS
    <3>2. k # 0 => g[k - 1] = f[k - 1]
      BY <3>1
    <3>3. NamesBody(p, k, f) = NamesBody(p, k, g)
      BY <3>2 DEF NamesBody
    <3>4. CASE k = n
      BY <3>3, <3>4
    <3>5. CASE k # n
      <4>1. k \in 0..n - 1
        BY <3>5
      <4>2. f[k] = NamesBody(p, k, f)
        BY <2>1, <4>1
      <4>. QED
        BY <3>3, <3>5, <4>2
    <3>. QED
      BY <3>4, <3>5
  <2>3. g = [k \in 0..n |-> g[k]]
    OBVIOUS
  <2> HIDE DEF g
  <2>4. g = [k \in 0..n |-> NamesBody(p, k, g)]
    BY <2>2, <2>3
  <2>. QED
    BY <2>4
<1> HIDE DEF Holds
<1>3. Bad = {}
  <2> SUFFICES ASSUME Bad # {} PROVE FALSE
    OBVIOUS
  <2>1. Bad \in SUBSET Nat
    OBVIOUS
  <2>2. PICK m \in Bad : \A k \in Bad : m <= k
    BY <2>1, Least
  <2>3. m \in 1..LastStep /\ m - 1 \in 0..LastStep /\ m - 1 < m
    BY <1>1, <2>2
  <2>4. Holds(m - 1)
    BY <2>2, <2>3
  <2>. QED
    BY <1>2, <2>2, <2>3, <2>4
<1>4. Holds(LastStep)
  BY <1>3
<1>5. PICK f : f = [k \in 0..LastStep |-> NamesBody(p, k, f)]
  BY <1>4 DEF Holds
<1>. QED
  BY <1>5 DEF NamesMet

LEMMA NamesAreFinite ==
  ASSUME Inv
  PROVE  IsFiniteSet({heap[p].name : p \in Pointers(heap)})
<1> DEFINE T == {heap[p].name : p \in Pointers(heap)}
           f == [p \in Pointers(heap) |-> heap[p].name]
<1>1. IsFiniteSet(Pointers(heap))
  <2>1. 1 \in Int /\ Len(heap) \in Int
    BY HeapLength
  <2>. QED
    BY <2>1, FS_Interval DEF Pointers
<1>2. f \in Surjection(Pointers(heap), T)
  BY DEF Surjection
<1>. QED
  BY <1>1, <1>2, FS_Surjection

\* addReachable meets no name but those of the definitions below the roots.
LEMMA MeetsNamesBelow ==
  ASSUME Collecting, WalkInv, NEW i \in 1..Len(rootTypes)
  PROVE  ReachableNames(rootTypes[i]) \subseteq Names
<1> DEFINE p == rootTypes[i]
           met == NamesMet(p)
           Bad == {k \in 0..LastStep : ~(met[k] \subseteq Names)}
<1>1. \A n \in DOMAIN definitions : \E d \in Below : NameOf(d) = n /\ definitions[n] = Inner(d)
  BY DEF Collecting, WalkInv
<1>2. LastStep \in Nat
  <2>1. DOMAIN definitions \subseteq {heap[q].name : q \in Pointers(heap)}
    <3> SUFFICES ASSUME NEW n \in DOMAIN definitions PROVE \E q \in Pointers(heap) : n = heap[q].name
      OBVIOUS
    <3>. QED
      BY <1>1, ReachedInner DEF NameOf
  <2>. QED
    BY <2>1, NamesAreFinite, InCollect, FS_Subset, FS_CardinalityType DEF LastStep
<1>3. p \in Pointers(heap) /\ Instance(p) \in Reached
  BY InCollect, ReachedRoots
<1> HIDE DEF p
<1>4. ASSUME NEW n \in DOMAIN definitions PROVE RefsOf(definitions[n]) \subseteq Names
  <2>1. PICK d \in Below : definitions[n] = Inner(d)
    BY <1>1
  <2>. QED
    BY <2>1, ReachedInner, RefsAreBelow
<1>5. \A k \in 0..LastStep : met[k] = NamesBody(p, k, met)
  <2>1. met = [k \in 0..LastStep |-> NamesBody(p, k, met)]
    BY <1>2, NamesMetExists
  <2> HIDE DEF met
  <2>. QED
    BY <2>1
<1> HIDE DEF met
<1>6. Bad = {}
  <2> SUFFICES ASSUME Bad # {} PROVE FALSE
    OBVIOUS
  <2>1. Bad \in SUBSET Nat
    BY <1>2
  <2>2. PICK k \in Bad : \A j \in Bad : k <= j
    BY <2>1, Least
  <2>3. k \in 0..LastStep /\ ~(met[k] \subseteq Names)
    OBVIOUS
  <2>4. CASE k = 0
    BY <1>3, <1>5, <2>3, <2>4, RefsAreBelow DEF NamesBody
  <2>5. CASE k # 0
    <3>1. k - 1 \in 0..LastStep /\ k - 1 < k /\ k \in Nat
      BY <1>2, <2>3, <2>5
    <3>2. met[k - 1] \subseteq Names
      BY <2>2, <3>1
    <3>3. met[k] = met[k - 1] \cup UNION {RefsOf(definitions[n]) : n \in met[k - 1] \cap DOMAIN definitions}
      BY <1>5, <2>3, <2>5 DEF NamesBody
    <3>. QED
      BY <1>4, <2>3, <3>2, <3>3
  <2>. QED
    BY <2>4, <2>5
<1>7. met[LastStep] \subseteq Names
  BY <1>2, <1>6
<1>. QED
  BY <1>7, ReachableNamesIsNamesMet DEF met, p

\* When the first call returns its schema, each of them has its definition.
LEMMA AllDefined ==
  ASSUME Collecting, WalkInv, CollectorInv, Len(schemas) = 0, appended = Len(rootTypes)
  PROVE  Names \subseteq DOMAIN definitions
<1>1. run = 1
  BY DEF Collecting, RunsInv
<1>2. stack = <<>> /\ pending = {}
  <2>1. /\ pending \subseteq {Instance(rootTypes[i]) : i \in appended + 1..Len(rootTypes)}
        /\ stack # <<>> => appended < Len(rootTypes)
    BY DEF Collecting, GeneratorInv, CollectInv
  <2>. QED
    BY <2>1, InCollect
<1>3. CollectorProofs!FirstRunComplete
  <2>1. /\ MaxHeap + 1..3 * MaxHeap \subseteq Types
        /\ [Types -> SUBSET Types] \subseteq [Types -> SUBSET Types]
        /\ MaxCalls \in Nat
    BY CollectorAssumptions
  <2>. QED
    BY <2>1, CollectorProofs!CompleteInvImplies DEF CollectorInv
<1>4. Below \subseteq collected
  BY <1>1, <1>2, <1>3 DEF CollectorProofs!FirstRunComplete, CollectorProofs!Idle, Below
<1>5. \A d \in collected : NameOf(d) \in DOMAIN definitions
  <2>1. ~(appended < Len(rootTypes))
    BY InCollect
  <2>. QED
    BY <2>1 DEF Collecting, WalkInv, JustCollected
<1>. QED
  BY <1>4, <1>5 DEF Names

-----------------------------------------------------------------------------
(* The invariant is inductive *)

SchemaInv == RunsInv /\ WalkInv /\ FirstCallMissesNothing

\* Names and definitions are read in a heap that stays as it is.
LEMMA SameNames ==
  ASSUME heap' = heap
  PROVE  /\ \A d : NameOf(d)' = NameOf(d) /\ Inner(d)' = Inner(d)
         /\ rootTypes' = rootTypes => \A i : Instance(rootTypes[i])' = Instance(rootTypes[i])
         /\ roots' = roots /\ graph' = graph => Below' = Below
BY DEF NameOf, Inner, Pointer, Instance, Below, CollectorProofs!Reachable, CollectorProofs!Closed

LEMMA OnlyOne ==
  ASSUME NEW S, NEW s \in Seq(S), s # <<>>, Tail(s) = <<>>
  PROVE  Len(s) = 1 /\ Head(s) = s[1]
<1>1. Len(Tail(s)) = Len(s) - 1 /\ Head(s) = s[1] /\ Len(s) \in Nat
  OBVIOUS
<1>2. Len(<<>>) = 0
  OBVIOUS
<1>3. Len(Tail(s)) = 0
  BY <1>2, Zenon
<1>. QED
  BY <1>1, <1>3

LEMMA AppendedFirst ==
  ASSUME NEW s, IsSequence(s), s # <<>>, NEW x
  PROVE  Append(s, x)[1] = s[1]
<1>1. Len(s) \in Nat /\ Len(s) >= 1 /\ \A i \in 1..Len(s) : Append(s, x)[i] = s[i]
  BY AppendToSequence DEF IsSequence
<1>. QED
  BY <1>1

LEMMA SchemaInvInit == InitGenerator => SchemaInv
BY DEF InitGenerator, SchemaInv, RunsInv, WalkInv, FirstCallMissesNothing, Failed

\* A call begins with no definition; the parser and TopRefNodeParser make none.
LEMMA SchemaInvParse ==
  ASSUME ParserInv, GeneratorInv, SchemaInv,
         (\E nodes \in Requests : CreateSchema(nodes)) \/ ParseRequested \/ Parse \/ WrapRoot
  PROVE  SchemaInv'
<1>1. /\ phase' = "parse" /\ schemas' = schemas /\ run' = run
      /\ (phase = "parse" /\ definitions' = definitions)
           \/ (phase = "idle" /\ definitions' = <<>> /\ \A i \in 1..Len(schemas) : schemas[i].error = "")
  BY DEF CreateSchema, ParseRequested, Parse, WrapRoot, collectorVars, generatorVars
<1>2. definitions' = <<>> /\ run = Len(schemas)
  BY <1>1 DEF SchemaInv, RunsInv, Failed
<1>. QED
  BY <1>1, <1>2 DEF SchemaInv, RunsInv, WalkInv, FirstCallMissesNothing

LEMMA SchemaInvStart ==
  ASSUME ParserInv, GeneratorInv, SchemaInv, CollectorInv, StartCollecting
  PROVE  SchemaInv'
<1>1. /\ phase = "parse" /\ phase' = "collect" /\ run' = run + 1 /\ collected' = {} /\ stack' = stack
      /\ roots' = {Instance(rootTypes[i]) : i \in 1..Len(rootTypes)} /\ UNCHANGED vars
      /\ UNCHANGED <<rootTypes, definitions, schemas>>
  BY DEF StartCollecting, parserVars
<1>2. definitions' = <<>> /\ run = Len(schemas) /\ stack = <<>>
  BY <1>1 DEF SchemaInv, RunsInv, GeneratorInv, ParseInv
<1>3. \A i : Instance(rootTypes[i])' = Instance(rootTypes[i])
  BY <1>1, SameNames DEF vars
<1>4. RunsInv'
  BY <1>1, <1>2, <1>3 DEF RunsInv
<1>5. WalkInv'
  BY <1>1, <1>2 DEF WalkInv
<1>. QED
  BY <1>1, <1>4, <1>5 DEF SchemaInv, FirstCallMissesNothing

LEMMA SchemaInvCollect ==
  ASSUME ParserInv, GeneratorInv, SchemaInv, CollectorInv, Collect
  PROVE  SchemaInv'
<1>1. /\ phase = "collect" /\ UNCHANGED vars /\ UNCHANGED generatorVars
  BY DEF Collect, parserVars
<1>2. /\ phase' = phase /\ heap' = heap
      /\ UNCHANGED <<rootTypes, appended, schemas, definitions>>
  BY <1>1 DEF vars, generatorVars
<1>3. /\ stack \in Seq(Types)
      /\ stack # <<>> => stack[Len(stack)] = PresentRoot /\ appended < Len(rootTypes)
      /\ \A d \in collected : NameOf(d) \in DOMAIN definitions \/ JustCollected(d)
      /\ \A n \in DOMAIN definitions : \E d \in Below : NameOf(d) = n /\ definitions[n] = Inner(d)
  BY <1>1 DEF SchemaInv, WalkInv, GeneratorInv, RequestInv, CollectInv
<1>4. /\ \A d : NameOf(d)' = NameOf(d) /\ Inner(d)' = Inner(d)
      /\ \A i : Instance(rootTypes[i])' = Instance(rootTypes[i])
      /\ PresentRoot' = PresentRoot
  BY <1>2, SameNames DEF PresentRoot
<1>5. /\ roots' = roots /\ graph' = graph /\ run' = run
      /\ stack' # <<>> => stack'[Len(stack')] = PresentRoot
      /\ \A d \in collected' : NameOf(d) \in DOMAIN definitions \/ JustCollected(d)'
  <2>1. ASSUME NEW t \in Types, Collector!OpenRoot(t) \/ Collector!OpenChild(t),
               stack = <<>> => t = PresentRoot
        PROVE  <1>5
    <3>1. /\ stack' = <<t>> \o stack /\ graph' = graph /\ run' = run /\ roots' = roots /\ pending' = pending
          /\ collected' = collected
          /\ stack = <<>> => t \in pending
      BY <2>1 DEF Collector!OpenRoot, Collector!OpenChild, Collector!Open
    <3>2. stack'[Len(stack')] = PresentRoot
      <4>1. CASE stack = <<>>
        BY <2>1, <3>1, <4>1
      <4>2. CASE stack # <<>>
        <5>1. (<<t>> \o stack)[Len(<<t>> \o stack)] = stack[Len(stack)]
          BY <1>3, <4>2
        <5>. QED
          BY <1>3, <3>1, <4>2, <5>1
      <4>. QED
        BY <4>1, <4>2
    <3>3. \A d \in collected : NameOf(d) \in DOMAIN definitions
      BY <1>3, <2>1, <3>1 DEF JustCollected
    <3>4. \A d \in collected' : NameOf(d) \in DOMAIN definitions
      BY <3>1, <3>3
    <3>5. /\ roots' = roots /\ graph' = graph /\ run' = run
          /\ stack' # <<>> => stack'[Len(stack')] = PresentRoot
      BY <3>1, <3>2
    <3>. QED
      BY <3>4, <3>5
  <2>2. ASSUME NEW t \in Types, Collector!ReuseRoot(t), t = PresentRoot, appended < Len(rootTypes)
        PROVE  <1>5
    <3>1. /\ stack = <<>> /\ stack' = <<>> /\ graph' = graph /\ run' = run /\ roots' = roots
          /\ t \in pending /\ pending' = pending \ {t} /\ children' = children
          /\ collected' = collected \cup children[t]
      BY <2>2 DEF Collector!ReuseRoot
    <3>2. \A d \in collected : NameOf(d) \in DOMAIN definitions
      BY <1>3, <2>2, <3>1 DEF JustCollected
    <3>3. \A d \in children[t] : JustCollected(d)'
      BY <1>2, <1>4, <2>2, <3>1 DEF JustCollected
    <3>. QED
      BY <3>1, <3>2, <3>3
  <2>3. ASSUME NEW t \in Types, Collector!ReuseChild(t)
        PROVE  <1>5
    <3>1. /\ stack # <<>> /\ stack' = stack /\ graph' = graph /\ run' = run /\ roots' = roots
          /\ collected' = collected
      BY <2>3 DEF Collector!ReuseChild
    <3>. QED
      BY <1>3, <3>1 DEF JustCollected
  <2>4. CASE Collector!Close
    <3>1. /\ stack # <<>> /\ stack' = Tail(stack) /\ graph' = graph /\ run' = run /\ roots' = roots
          /\ children' = [children EXCEPT ![Head(stack)] = acc[Head(stack)]]
          /\ IF Tail(stack) = <<>> THEN /\ pending' = pending \ {Head(stack)}
                                        /\ collected' = collected \cup acc[Head(stack)]
             ELSE collected' = collected
      BY <2>4 DEF Collector!Close
    <3>2. \A d \in collected : NameOf(d) \in DOMAIN definitions
      BY <1>3, <3>1 DEF JustCollected
    <3>3. CASE Tail(stack) = <<>>
      <4>1. Head(stack) = PresentRoot
        <5>1. Len(stack) = 1 /\ Head(stack) = stack[1]
          BY <1>3, <3>1, <3>3, OnlyOne
        <5>. QED
          BY <1>3, <3>1, <5>1
      <4>2. Head(stack) \in DOMAIN children
        BY <1>3, <3>1 DEF CollectorInv, CollectorProofs!TypeOK
      <4>3. \A d \in acc[Head(stack)] : JustCollected(d)'
        BY <1>2, <1>3, <1>4, <3>1, <3>3, <4>1, <4>2 DEF JustCollected
      <4>. QED
        BY <3>1, <3>2, <3>3, <4>3
    <3>4. CASE Tail(stack) # <<>>
      <4>1. Tail(stack)[Len(Tail(stack))] = stack[Len(stack)]
        BY <1>3, <3>1, <3>4
      <4>. QED
        BY <1>3, <3>1, <3>2, <3>4, <4>1
    <3>. QED
      BY <3>3, <3>4
  <2>5. CASE appended < Len(rootTypes) /\ (Collector!OpenRoot(PresentRoot) \/ Collector!ReuseRoot(PresentRoot))
    BY <1>1, <2>1, <2>2, <2>5, PresentRootTyped
  <2>6. CASE stack # <<>> /\ \E s \in NextChild : Collector!OpenChild(s) \/ Collector!ReuseChild(s)
    BY <1>1, <2>1, <2>3, <2>6, NextChildTyped
  <2>. QED
    BY <2>4, <2>5, <2>6 DEF Collect
<1>6. RunsInv'
  BY <1>1, <1>2, <1>4, <1>5 DEF SchemaInv, RunsInv
<1>7. Below' = Below
  BY <1>2, <1>5, SameNames
<1>8. WalkInv'
  BY <1>2, <1>3, <1>4, <1>5, <1>7 DEF WalkInv
<1>. QED
  BY <1>2, <1>6, <1>8 DEF SchemaInv, FirstCallMissesNothing

\* What was collected of the present root is below the roots of the call.
LEMMA ChildrenAreBelow ==
  ASSUME Collecting, CollectorInv, appended < Len(rootTypes)
  PROVE  children[PresentRoot] \subseteq Below
<1> DEFINE defs == children[PresentRoot]
<1>1. PresentRoot \in Types /\ PresentRoot \in roots
  <2>1. appended + 1 \in 1..Len(rootTypes)
    BY InCollect
  <2>. QED
    BY <2>1, InCollect, PresentRootTyped DEF Collecting, PresentRoot
<1>2. defs \subseteq MaxHeap + 1..3 * MaxHeap
  BY <1>1 DEF CollectorInv, CollectorProofs!TypeOK
<1>3. defs \subseteq CollectorProofs!Reachable({PresentRoot})
  BY <1>1 DEF CollectorInv, CollectorProofs!SoundInv, CollectorProofs!EntriesSound,
              CollectorProofs!UnknownEmpty
<1>4. CollectorProofs!Reachable({PresentRoot}) \subseteq CollectorProofs!Reachable(roots)
  BY <1>1 DEF CollectorProofs!Reachable
<1>. QED
  BY <1>2, <1>3, <1>4 DEF Below

\* A definition is appended under its name, the first of a name for all.
LEMMA SchemaInvAppend ==
  ASSUME ParserInv, GeneratorInv, SchemaInv, CollectorInv, AppendRootChildDefinitions
  PROVE  SchemaInv'
<1> DEFINE defs == children[PresentRoot]
           names == {NameOf(d) : d \in defs}
           larger == [n \in DOMAIN definitions \cup names |->
                       IF n \in DOMAIN definitions THEN definitions[n]
                       ELSE Inner(CHOOSE d \in defs : NameOf(d) = n)]
<1>1. /\ phase = "collect" /\ heap' = heap
      /\ stack = <<>> /\ appended < Len(rootTypes) /\ PresentRoot \notin pending
      /\ UNCHANGED <<rootTypes, run, roots, graph, stack, pending, collected>>
      /\ \/ Fail("conflict")
         \/ definitions' = larger /\ schemas' = schemas /\ phase' = phase
  BY DEF AppendRootChildDefinitions, parserVars, vars, collectorVars
<1>2. Collecting
  BY <1>1 DEF Collecting, SchemaInv
<1>3. CASE Fail("conflict")
  <2>1. phase' = "idle" /\ Failed'
    BY <1>3, Fails DEF GeneratorInv
  <2>2. FirstCallMissesNothing'
    <3> DEFINE schema == [error |-> "conflict", roots |-> rootTypes, definitions |-> <<>>]
    <3>1. schemas' = Append(schemas, schema) /\ schema.error = "conflict"
      BY <1>3 DEF Fail
    <3> HIDE DEF schema
    <3>2. IsSequence(schemas)
      BY DEF GeneratorInv, RequestInv
    <3>3. schemas # <<>> => schemas'[1] = schemas[1]
      BY <3>1, <3>2, AppendedFirst
    <3>4. schemas = <<>> => schemas'[1] = schema
      BY <3>1
    <3>. QED
      BY <3>1, <3>3, <3>4 DEF SchemaInv, FirstCallMissesNothing
  <2>. QED
    BY <2>1, <2>2 DEF SchemaInv, RunsInv, WalkInv
<1>4. CASE definitions' = larger /\ schemas' = schemas /\ phase' = phase
  <2>1. /\ \A d : NameOf(d)' = NameOf(d) /\ Inner(d)' = Inner(d)
        /\ \A i : Instance(rootTypes[i])' = Instance(rootTypes[i])
        /\ Below' = Below
    BY <1>1, SameNames
  <2>2. defs \subseteq Below
    BY <1>1, <1>2, ChildrenAreBelow
  <2>3. \A n \in DOMAIN larger : \E d \in Below : NameOf(d) = n /\ larger[n] = Inner(d)
    <3> SUFFICES ASSUME NEW n \in DOMAIN larger
                 PROVE  \E d \in Below : NameOf(d) = n /\ larger[n] = Inner(d)
      OBVIOUS
    <3>1. CASE n \in DOMAIN definitions
      <4>1. larger[n] = definitions[n]
        BY <3>1
      <4>. QED
        BY <1>1, <3>1, <4>1 DEF SchemaInv, WalkInv
    <3>2. CASE n \notin DOMAIN definitions
      <4>1. n \in names /\ larger[n] = Inner(CHOOSE d \in defs : NameOf(d) = n)
        BY <3>2
      <4>2. \E d \in defs : NameOf(d) = n
        BY <4>1
      <4>. QED
        BY <2>2, <4>1, <4>2
    <3>. QED
      BY <3>1, <3>2
  <2>4. \A d \in collected : NameOf(d) \in DOMAIN larger
    BY <1>1 DEF SchemaInv, WalkInv, JustCollected
  <2> HIDE DEF larger
  <2>5. RunsInv'
    BY <1>1, <1>4, <2>1 DEF SchemaInv, RunsInv
  <2>6. WalkInv'
    BY <1>1, <1>4, <2>1, <2>3, <2>4 DEF WalkInv
  <2>. QED
    BY <1>4, <2>5, <2>6 DEF SchemaInv, FirstCallMissesNothing
<1>. QED
  BY <1>1, <1>3, <1>4

LEMMA SchemaInvReturn ==
  ASSUME ParserInv, GeneratorInv, SchemaInv, CollectorInv, ReturnSchema \/ Recover
  PROVE  SchemaInv'
<1>1. IsSequence(schemas)
  BY DEF GeneratorInv, RequestInv
<1>2. PICK schema : schemas' = Append(schemas, schema) /\ phase' = "idle"
  BY DEF ReturnSchema, Recover, Fail
<1>3. ~Failed' => run' = Len(schemas')
  <2>1. CASE Recover
    <3>1. Failed'
      BY <2>1, Fails DEF Recover, GeneratorInv
    <3>. QED
      BY <3>1
  <2>2. CASE ReturnSchema
    <3>1. run' = run /\ phase = "collect"
      BY <2>2 DEF ReturnSchema, collectorVars
    <3>2. run = Len(schemas) + 1
      BY <3>1 DEF SchemaInv, RunsInv
    <3>3. Len(schemas') = Len(schemas) + 1
      BY <1>1, <1>2, AppendToSequence
    <3>. QED
      BY <3>1, <3>2, <3>3
  <2>. QED
    BY <2>1, <2>2
<1>4. FirstCallMissesNothing'
  <2>1. CASE schemas # <<>>
    <3>1. schemas'[1] = schemas[1]
      BY <1>1, <1>2, <2>1, AppendedFirst
    <3>. QED
      BY <2>1, <3>1 DEF SchemaInv, FirstCallMissesNothing
  <2>2. CASE schemas = <<>> /\ Recover
    <3> DEFINE failure == [error |-> "unresolved", roots |-> rootTypes, definitions |-> <<>>]
    <3>1. schemas' = Append(schemas, failure) /\ failure.error = "unresolved"
      BY <2>2 DEF Recover, Fail
    <3> HIDE DEF failure
    <3>2. schemas'[1] = failure
      BY <2>2, <3>1
    <3>. QED
      BY <3>1, <3>2 DEF FirstCallMissesNothing
  <2>3. CASE schemas = <<>> /\ ReturnSchema
    <3> DEFINE reachable == UNION {ReachableNames(rootTypes[i]) : i \in 1..Len(rootTypes)}
               answer == [error |-> "", roots |-> rootTypes, definitions |-> Restrict(definitions, reachable)]
    <3>1. phase = "collect" /\ appended = Len(rootTypes)
      BY <2>3 DEF ReturnSchema
    <3>2. Collecting /\ WalkInv /\ Len(schemas) = 0
      BY <2>3, <3>1 DEF Collecting, SchemaInv
    <3>3. Names \subseteq DOMAIN definitions
      BY <3>1, <3>2, AllDefined
    <3>4. reachable \subseteq DOMAIN definitions
      BY <3>2, <3>3, MeetsNamesBelow
    <3>5. schemas' = Append(schemas, answer)
      BY <2>3, <3>4 DEF ReturnSchema
    <3>6. answer.error = ""
      OBVIOUS
    <3> HIDE DEF answer, reachable
    <3>7. schemas'[1] = answer
      BY <2>3, <3>5
    <3>. QED
      BY <3>6, <3>7 DEF FirstCallMissesNothing
  <2>. QED
    BY <2>1, <2>2, <2>3
<1>. QED
  BY <1>2, <1>3, <1>4 DEF SchemaInv, RunsInv, WalkInv

LEMMA SchemaInvStep ==
  ParserInv /\ GeneratorInv /\ CollectorInv /\ SchemaInv /\ [NextGenerator]_allVars => SchemaInv'
<1> SUFFICES ASSUME ParserInv, GeneratorInv, CollectorInv, SchemaInv, [NextGenerator]_allVars
             PROVE  SchemaInv'
  OBVIOUS
<1>1. CASE UNCHANGED allVars
  <2>1. UNCHANGED vars /\ UNCHANGED collectorVars /\ UNCHANGED generatorVars
    BY <1>1 DEF allVars, parserVars
  <2>2. /\ heap' = heap
        /\ UNCHANGED <<phase, definitions, run, schemas, roots, graph, rootTypes, stack, appended, pending,
                       children, collected>>
    BY <2>1 DEF vars, collectorVars, generatorVars
  <2>3. /\ \A d : NameOf(d)' = NameOf(d) /\ Inner(d)' = Inner(d)
        /\ \A i : Instance(rootTypes[i])' = Instance(rootTypes[i])
        /\ Below' = Below
    BY <2>2, SameNames
  <2>4. RunsInv'
    BY <2>2, <2>3 DEF SchemaInv, RunsInv, Failed
  <2>5. PresentRoot' = PresentRoot
    BY <2>2, <2>3 DEF PresentRoot
  <2>6. \A d : JustCollected(d)' <=> JustCollected(d)
    BY <2>2, <2>5 DEF JustCollected
  <2>7. WalkInv'
    BY <2>2, <2>3, <2>5, <2>6 DEF SchemaInv, WalkInv
  <2>. QED
    BY <2>2, <2>4, <2>7 DEF SchemaInv, FirstCallMissesNothing
<1>2. CASE NextGenerator
  BY <1>2, SchemaInvParse, SchemaInvStart, SchemaInvCollect, SchemaInvAppend, SchemaInvReturn
     DEF NextGenerator, Generate
<1>. QED
  BY <1>1, <1>2

LEMMA SchemaInvIsInductive == GeneratorSpec => []SchemaInv
<1>1. CollectorProofs!TypeOK /\ CollectorProofs!CompleteInv /\ CollectorProofs!SoundInv => CollectorInv
  BY DEF CollectorInv
<1>. QED
  BY <1>1, SchemaInvInit, SchemaInvStep, GeneratorIsInductive, CollectorInvariants, PTL DEF GeneratorSpec

-----------------------------------------------------------------------------
\* A call on a fresh generator never fails with a missing definition, whatever
\* the program and the roots: each name RemoveUnreachable follows is in the
\* definitions (generator.go:96-130, unreachable.go:13-35).
THEOREM FirstCallIsComplete == GeneratorSpec => []FirstCallMissesNothing
<1>1. SchemaInv => FirstCallMissesNothing
  BY DEF SchemaInv
<1>. QED
  BY <1>1, SchemaInvIsInductive, PTL

LEMMA SessionProgramStays == [NextGenerator]_allVars => prog' = prog
<1> SUFFICES ASSUME [NextGenerator]_allVars PROVE prog' = prog
  OBVIOUS
<1>1. CASE ParseRequested \/ Parse
  <2>1. (\E n : ParseRoot(n)) \/ Step
    BY <1>1 DEF ParseRequested, Parse
  <2>. QED
    BY <2>1 DEF ParseRoot, Step, ParseNext, PanicOnNil, Finish, FinishLeaf, FinishTuple, FinishParameter,
                FinishReference, FinishIndex, FinishDeclaration, ReturnNew, Return
<1>2. CASE WrapRoot
  BY <1>2 DEF WrapRoot
<1>3. CASE (\E nodes \in Requests : CreateSchema(nodes)) \/ StartCollecting \/ Collect
           \/ AppendRootChildDefinitions \/ ReturnSchema \/ Recover
  BY <1>3 DEF CreateSchema, StartCollecting, Collect, AppendRootChildDefinitions, ReturnSchema, Recover,
              parserVars, vars
<1>4. CASE UNCHANGED allVars
  BY <1>4 DEF allVars, parserVars, vars
<1>. QED
  BY <1>1, <1>2, <1>3, <1>4 DEF NextGenerator, Generate

\* A call that is under way is one of those the session has left.
SessionInv ==
  /\ Len(schemas) <= Sessions[prog].runs
  /\ phase # "idle" => Len(schemas) < Sessions[prog].runs

LEMMA SessionInvIsInductive == GeneratorSpec => []SessionInv
<1>1. InitGenerator => SessionInv
  <2> SUFFICES ASSUME InitGenerator PROVE SessionInv
    OBVIOUS
  <2>1. prog \in Programs /\ schemas = <<>> /\ phase = "idle"
    BY GeneratorInit DEF InitGenerator, ParserInv, Typed
  <2>2. Sessions[prog].runs \in Nat /\ Len(schemas) = 0
    BY <2>1, SessionsAssumption
  <2>. QED
    BY <2>1, <2>2 DEF SessionInv
<1>2. ParserInv /\ GeneratorInv /\ SessionInv /\ [NextGenerator]_allVars => SessionInv'
  <2> SUFFICES ASSUME ParserInv, GeneratorInv, SessionInv, [NextGenerator]_allVars PROVE SessionInv'
    OBVIOUS
  <2>1. prog' = prog
    BY SessionProgramStays
  <2>2. Sessions[prog].runs \in Nat /\ IsSequence(schemas) /\ Len(schemas) \in Nat
    <3>1. prog \in Programs /\ IsSequence(schemas)
      BY DEF ParserInv, Typed, GeneratorInv, RequestInv
    <3>. QED
      BY <3>1, SessionsAssumption, AppendToSequence
  <2>3. CASE schemas' = schemas /\ phase' = phase
    BY <2>1, <2>3 DEF SessionInv
  <2>4. CASE schemas' = schemas /\ phase # "idle"
    BY <2>1, <2>4 DEF SessionInv
  <2>5. CASE \E nodes \in Requests : CreateSchema(nodes)
    BY <2>1, <2>5 DEF CreateSchema, SessionInv
  <2>6. CASE phase # "idle" /\ phase' = "idle" /\ \E schema : schemas' = Append(schemas, schema)
    <3>1. Len(schemas') = Len(schemas) + 1
      BY <2>2, <2>6, AppendToSequence
    <3>. QED
      BY <2>1, <2>2, <2>6, <3>1 DEF SessionInv
  <2>7. \/ schemas' = schemas /\ (phase' = phase \/ phase # "idle")
        \/ \E nodes \in Requests : CreateSchema(nodes)
        \/ phase # "idle" /\ phase' = "idle" /\ \E schema : schemas' = Append(schemas, schema)
    BY DEF NextGenerator, Generate, ParseRequested, Parse, WrapRoot, StartCollecting, Collect,
           AppendRootChildDefinitions, ReturnSchema, Recover, Fail, generatorVars, allVars
  <2>. QED
    BY <2>3, <2>4, <2>5, <2>6, <2>7
<1>. QED
  BY <1>1, <1>2, GeneratorIsInductive, PTL DEF GeneratorSpec

\* So a program that calls CreateSchema once, as the command line does but for
\* --outdir (main.go:195-224), never meets that error.
THEOREM SingleCallIsComplete ==
  ASSUME \A program \in Programs : Sessions[program].runs <= 1
  PROVE  GeneratorSpec => []NoMissingDefinition
<1>1. ParserInv /\ GeneratorInv /\ SchemaInv /\ SessionInv => NoMissingDefinition
  <2> SUFFICES ASSUME ParserInv, GeneratorInv, SchemaInv, SessionInv, NEW i \in 1..Len(schemas)
               PROVE  schemas[i].error # "missing definition"
    BY DEF NoMissingDefinition
  <2>1. prog \in Programs /\ IsSequence(schemas)
    BY DEF ParserInv, Typed, GeneratorInv, RequestInv
  <2>2. Len(schemas) \in Nat /\ Sessions[prog].runs \in Nat /\ Sessions[prog].runs <= 1
    BY <2>1, SessionsAssumption, AppendToSequence
  <2>3. i = 1 /\ schemas # <<>>
    BY <2>2 DEF SessionInv
  <2>. QED
    BY <2>3 DEF SchemaInv, FirstCallMissesNothing
<1>. QED
  BY <1>1, SchemaInvIsInductive, SessionInvIsInductive, GeneratorIsInductive, PTL

-----------------------------------------------------------------------------
(* The type of a root is that of its declaration *)

IdOfRoot(n) == Id(prog[n].kind, n, <<>>)

\* A key without arguments is of a context without arguments.
Keyed(ctx) == ctx.key.args = <<>> => ctx.args = <<>>

\* The outermost call is that of the root asked for last.
Outermost ==
  frames # <<>> => frames[Len(frames)].node = asked[Len(asked)] /\ frames[Len(frames)].ctx.args = <<>>

KeyedFrames == \A i \in 1..Len(frames) : Keyed(frames[i].ctx)

RootCache(cache, h) ==
  \A k \in DOMAIN cache :
    k.node \in Declarations /\ k.ctx.args = <<>> => BareId(h, cache[k]) = IdOfRoot(k.node)

RootAnswers(answers, h) == \A i \in 1..Len(answers) : BareId(h, answers[i]) = IdOfRoot(asked[i])

RootsInv ==
  /\ Outermost
  /\ KeyedFrames
  /\ NeverFree(heap) => RootCache(typeCaches, heap) /\ RootAnswers(returned, heap)

LEMMA NoElements == ASSUME NEW s, IsSequence(s), Len(s) = 0 PROVE s = <<>>
BY DEF IsSequence

LEMMA Numbers ==
  /\ \A n \in Nat \ {0} : (n - 1 = 1 => n = 2) /\ (n - 1 = 0 => n = 1)
  /\ \A s : s = <<>> => Len(s) = 0
  /\ \A n \in Nat : n # 0 => n = 1 \/ n \in 2..n
OBVIOUS

LEMMA AskedKeyed ==
  ASSUME Inv, Typed, KeyedFrames, NEW call, Asked(call)
  PROVE  Keyed(call.ctx)
<1>1. CASE frames = <<>>
  BY <1>1 DEF Asked, RootContext, Context, Keyed
<1>2. CASE frames # <<>>
  <2>1. TypedFrame(Top, heap) /\ Keyed(Top.ctx) /\ call \in NextCall(Top)
    <3>1. Top = frames[1] /\ 1 \in 1..Len(frames)
      BY <1>2, TailOfSequence DEF Inv, FramesInv, Top
    <3>. QED
      BY <1>2, <3>1, TopTyped DEF Asked, KeyedFrames
  <2>2. call.ctx = Top.ctx \/ call.ctx = Context(Top.node, Top.vals, heap)
    BY <2>1 DEF NextCall, IndexCalls, Call
  <2>3. Keyed(Context(Top.node, Top.vals, heap))
    <3>1. Top.vals \in Seq(Pointers(heap))
      BY <2>1 DEF TypedFrame
    <3>2. TypeIds(heap, Top.vals) = <<>> => Len(Top.vals) = 0
      <4>1. Len(Top.vals) \in Nat /\ TypeIds(heap, Top.vals) = [i \in 1..Len(Top.vals) |-> TypeId(heap, Top.vals[i])]
        BY <3>1 DEF TypeIds
      <4>2. Len(Top.vals) # 0 => 1 \in DOMAIN TypeIds(heap, Top.vals)
        BY <4>1
      <4>. QED
        BY <4>2
    <3>. QED
      BY <3>1, <3>2 DEF Context, Keyed
  <2>. QED
    BY <2>1, <2>2, <2>3
<1>. QED
  BY <1>1, <1>2

LEMMA FramesKeyed ==
  ASSUME Inv, Typed, WellFormed(prog), KeyedFrames, Next
  PROVE  KeyedFrames'
<1>1. ASSUME NEW i \in 1..Len(frames') PROVE Keyed(frames'[i].ctx)
  <2>1. ASSUME NEW j \in 1..Len(frames), SameCall(frames'[i], frames[j]) PROVE Keyed(frames'[i].ctx)
    BY <2>1 DEF SameCall, KeyedFrames
  <2>2. ASSUME NEW call, Asked(call), JustOpened(frames'[i], call) PROVE Keyed(frames'[i].ctx)
    BY <2>2, AskedKeyed DEF JustOpened, Keyed
  <2>. QED
    BY <2>1, <2>2, OldCalls
<1>. QED
  BY <1>1 DEF KeyedFrames, Keyed

\* A call that ends leaves the outermost one alone, or was it.
LEMMA OutermostReturns ==
  ASSUME Inv, Outermost, frames # <<>>, NEW h, NEW p, Return(h, p)
  PROVE  Outermost'
<1>1. /\ IsSequence(frames') /\ Len(frames) \in Nat \ {0} /\ Len(frames') = Len(frames) - 1
      /\ \A i \in 2..Len(frames') : frames'[i] = frames[i + 1]
      /\ frames' # <<>> => SameCall(frames'[1], frames[2])
  BY Returning
<1>2. asked' = asked
  BY DEF Return
<1>3. CASE frames' # <<>>
  <2>1. Len(frames') \in Nat /\ Len(frames') # 0
    BY <1>1, <1>3, NoElements
  <2>2. CASE Len(frames') = 1
    <3>1. SameCall(frames'[1], frames[2])
      BY <1>1, <1>3
    <3>2. Len(frames) = 2
      BY <1>1, <2>2, Numbers
    <3>. QED
      BY <1>2, <2>2, <3>1, <3>2 DEF SameCall, Outermost
  <2>3. CASE Len(frames') # 1
    <3>1. Len(frames') \in 2..Len(frames') /\ Len(frames') + 1 = Len(frames)
      BY <1>1, <2>1, <2>3
    <3>2. frames'[Len(frames')] = frames[Len(frames)]
      BY <1>1, <3>1
    <3>. QED
      BY <1>2, <3>2 DEF Outermost
  <2>. QED
    BY <2>2, <2>3
<1>. QED
  BY <1>3 DEF Outermost

LEMMA OutermostEnters ==
  ASSUME Inv, Typed, WellFormed(prog), Outermost, NEW call, Asked(call), CreateType(call, frames),
         frames # <<>> => asked' = asked, frames = <<>> => asked' = Append(asked, call.node)
  PROVE  Outermost'
<1>1. /\ IsSequence(frames) /\ Len(frames) \in Nat /\ \A i \in 1..Len(frames) : IsFrame(frames[i])
      /\ TypedContext(call.ctx, heap) /\ asked \in Seq(Roots)
  BY AppendToSequence DEF Inv, FramesInv, Asked, Typed
<1>2. CASE Enter(call, frames)
  <2>1. /\ Len(frames') = Len(frames) + 1
        /\ \A i \in 2..Len(frames) + 1 : frames'[i] = frames[i - 1]
        /\ JustOpened(frames'[1], call)
    BY <1>1, <1>2, Entering
  <2>2. CASE frames = <<>>
    <3>1. asked' = Append(asked, call.node) /\ call.node \in Roots /\ call.ctx.args = <<>>
      BY <2>2 DEF Asked, RootContext, Context
    <3>2. asked'[Len(asked')] = call.node
      BY <1>1, <3>1
    <3>3. Len(frames') = 1
      BY <2>1, <2>2
    <3>. QED
      BY <2>1, <3>1, <3>2, <3>3 DEF JustOpened, Outermost
  <2>3. CASE frames # <<>>
    <3>1. Len(frames) # 0
      BY <1>1, <2>3, NoElements
    <3>2. Len(frames') \in 2..Len(frames) + 1 /\ Len(frames') - 1 = Len(frames)
      BY <1>1, <2>1, <3>1
    <3>3. frames'[Len(frames')] = frames[Len(frames)]
      BY <2>1, <3>2
    <3>. QED
      BY <2>3, <3>3 DEF Outermost
  <2>. QED
    BY <2>2, <2>3
<1>3. ASSUME NEW p, Deliver(p, frames) PROVE Outermost'
  <2>1. /\ IsSequence(frames') /\ Len(frames') = Len(frames)
        /\ \A i \in 2..Len(frames) : frames'[i] = frames[i]
        /\ frames = <<>> => frames' = <<>>
        /\ frames # <<>> => SameCall(frames'[1], frames[1])
    BY <1>1, <1>3, Delivery
  <2>2. CASE frames # <<>>
    <3>1. Len(frames) # 0 /\ asked' = asked
      BY <1>1, <2>2, NoElements
    <3>2. Len(frames) = 1 \/ Len(frames) \in 2..Len(frames)
      <4>1. Len(frames) \in Nat /\ Len(frames) # 0
        BY <1>1, <3>1
      <4>. QED
        BY <4>1, Numbers
    <3>3. SameCall(frames'[Len(frames')], frames[Len(frames)])
      BY <2>1, <2>2, <3>2 DEF SameCall
    <3>. QED
      BY <2>2, <3>1, <3>3 DEF Outermost, SameCall
  <2>. QED
    BY <2>1, <2>2 DEF Outermost
<1>. QED
  BY <1>2, <1>3 DEF CreateType, UseCache, UseCircular

LEMMA NoArguments == \A h : TypeIds(h, <<>>) = <<>>
BY DEF TypeIds

\* What a call returns for a declaration without arguments has its ID.
RootReturns(h, p) ==
  /\ Return(h, p)
  /\ Top.node \in Declarations /\ Top.ctx.args = <<>> => BareId(h, p) = IdOfRoot(Top.node)

LEMMA FinishReturns ==
  ASSUME Inv, Typed, WellFormed(prog), WordedHeap(heap), Finish, NeverFree(heap'),
         \A i \in 1..Len(frames) : NamedFrame(frames[i], heap)
  PROVE  frames # <<>> /\ \E h, p : RootReturns(h, p)
<1>1. CASE FinishDeclaration
  <2>1. PICK h, inner, p :
          /\ Return(h, p) /\ p \in Pointers(h)
          /\ NeverFree(h) => BareId(h, p) = BareId(heap, Top.ref)
    BY <1>1, Declared
  <2>2. NeverFree(h)
    BY <2>1 DEF Return
  <2>3. frames # <<>>
    BY <1>1 DEF FinishDeclaration, Finished
  <2>4. Top = frames[1] /\ 1 \in 1..Len(frames)
    BY <2>3, TailOfSequence DEF Inv, FramesInv, Top
  <2>5. Top.node \in Declarations => Top.ref # 0
    BY <2>3, TopCall DEF IsCircular, Declarations
  <2>6. Top.node \in Declarations /\ Top.ctx.args = <<>> => BareId(heap, Top.ref) = IdOfRoot(Top.node)
    BY <2>4, <2>5, NoIds DEF NamedFrame, IdOfRoot
  <2>. QED
    BY <2>1, <2>2, <2>3, <2>6 DEF RootReturns
<1>2. CASE FinishLeaf \/ FinishTuple \/ FinishParameter \/ FinishReference \/ FinishIndex
  <2>1. frames # <<>> /\ prog[Top.node].kind \notin {"interface", "alias"}
    BY <1>2 DEF FinishLeaf, FinishTuple, FinishParameter, FinishReference, FinishIndex, Finished
  <2>2. Top.node \notin Declarations
    BY <2>1 DEF Declarations
  <2>3. \E h, p : Return(h, p)
    BY <1>2 DEF FinishLeaf, FinishTuple, FinishParameter, FinishReference, FinishIndex, ReturnNew
  <2>. QED
    BY <2>1, <2>2, <2>3 DEF RootReturns
<1>. QED
  BY <1>1, <1>2 DEF Finish

\* What was known of roots before a step is known after it.
LEMMA RootsKept ==
  ASSUME Typed, SameIds(heap', heap), prog' = prog,
         RootCache(typeCaches, heap), RootAnswers(returned, heap)
  PROVE  /\ \A k \in DOMAIN typeCaches :
              k.node \in Declarations /\ k.ctx.args = <<>> => BareId(heap', typeCaches[k]) = IdOfRoot(k.node)
         /\ \A i \in 1..Len(returned) : BareId(heap', returned[i]) = IdOfRoot(asked[i])
<1>1. \A k \in DOMAIN typeCaches : BareId(heap', typeCaches[k]) = BareId(heap, typeCaches[k])
  BY DEF SameIds, Typed, TypedCache
<1>2. \A i \in 1..Len(returned) : BareId(heap', returned[i]) = BareId(heap, returned[i])
  BY DEF SameIds, Typed
<1>. QED
  BY <1>1, <1>2 DEF RootCache, RootAnswers

\* The answers of before, and one more for the root asked for last.
LEMMA OneMoreAnswer ==
  ASSUME Typed, NEW h, \A i \in 1..Len(returned) : BareId(h, returned[i]) = IdOfRoot(asked[i]),
         NEW p, BareId(h, p) = IdOfRoot(asked'[Len(asked')]), returned' = Append(returned, p),
         Len(asked') = Len(returned) + 1, \A i \in 1..Len(returned) : asked'[i] = asked[i]
  PROVE  \A i \in 1..Len(returned') : BareId(h, returned'[i]) = IdOfRoot(asked'[i])
<1>1. returned \in Seq(Pointers(heap))
  BY DEF Typed
<1>2. /\ Len(returned) \in Nat /\ Len(returned') = Len(returned) + 1
      /\ \A i \in 1..Len(returned) : returned'[i] = returned[i]
      /\ returned'[Len(returned) + 1] = p
  BY <1>1, SequenceOf, AppendToSequence
<1>3. SUFFICES ASSUME NEW i \in 1..Len(returned') PROVE BareId(h, returned'[i]) = IdOfRoot(asked'[i])
  OBVIOUS
<1>4. i \in 1..Len(returned) \/ i = Len(returned) + 1
  BY <1>2
<1>. QED
  BY <1>2, <1>4

LEMMA CallsAnswerRoots ==
  ASSUME ParserInv, WellFormed(prog), prog' = prog, NEW call, Asked(call), CreateType(call, frames),
         SameIds(heap', heap), RootCache(typeCaches, heap), RootAnswers(returned, heap),
         frames # <<>> => asked' = asked, frames = <<>> => asked' = Append(asked, call.node)
  PROVE  /\ typeCaches' = typeCaches
         /\ \A i \in 1..Len(returned') : BareId(heap', returned'[i]) = IdOfRoot(asked'[i])
<1>0. /\ Inv /\ Typed /\ CallsInv /\ asked \in Seq(Roots) /\ returned \in Seq(Pointers(heap))
      /\ Len(returned) \in Nat /\ Len(asked) \in Nat
  BY Lengths DEF ParserInv, Typed
<1>1. typeCaches' = typeCaches
  BY DEF CreateType, UseCache, UseCircular, Enter
<1>2. \A i \in 1..Len(returned) : BareId(heap', returned[i]) = IdOfRoot(asked[i])
  BY <1>0, RootsKept
<1>3. \A i \in 1..Len(returned) : asked'[i] = asked[i]
  <2>1. CASE frames = <<>>
    <3>1. asked' = Append(asked, call.node) /\ Len(asked) = Len(returned)
      BY <1>0, <2>1 DEF CallsInv
    <3>. QED
      BY <1>0, <3>1
  <2>2. CASE frames # <<>>
    BY <2>2
  <2>. QED
    BY <2>1, <2>2
<1>4. CASE returned' = returned
  BY <1>1, <1>2, <1>3, <1>4
<1>5. CASE frames = <<>> /\ UseCache(call, frames)
  <2> DEFINE key == CacheKey(call.node, call.ctx)
             p == typeCaches[key]
  <2>1. key \in DOMAIN typeCaches /\ returned' = Append(returned, p) /\ heap' = heap
    BY <1>5 DEF UseCache, Deliver
  <2>2. call.node \in Roots /\ call.ctx = RootContext
    BY <1>5 DEF Asked
  <2>3. key.node = call.node /\ key.ctx.args = <<>>
    BY <2>2, NoArguments DEF CacheKey, RootContext, Context
  <2>4. call.node \in Declarations
    BY <2>2 DEF Roots
  <2> HIDE DEF key
  <2>5. BareId(heap', p) = IdOfRoot(call.node)
    BY <2>1, <2>3, <2>4 DEF RootCache
  <2> HIDE DEF p
  <2>6. /\ asked' = Append(asked, call.node) /\ Len(asked) = Len(returned)
        /\ Len(asked') = Len(returned) + 1 /\ asked'[Len(asked')] = call.node
    <3>1. asked' = Append(asked, call.node) /\ Len(asked) = Len(returned)
      BY <1>0, <1>5 DEF CallsInv
    <3>. QED
      BY <1>0, <3>1
  <2>. QED
    BY <1>0, <1>1, <1>2, <1>3, <2>1, <2>5, <2>6, OneMoreAnswer
<1>6. CASE frames = <<>> /\ UseCircular(call, frames)
  <2>1. DOMAIN circular = {}
    <3>1. Len(frames) = 0
      BY <1>6
    <3>. QED
      BY <1>0, <3>1 DEF Inv, CircularIsOpen
  <2>. QED
    BY <1>6, <2>1 DEF UseCircular
<1>. QED
  BY <1>4, <1>5, <1>6 DEF CreateType, UseCache, UseCircular, Enter, Deliver

LEMMA ReturnsAnswerRoots ==
  ASSUME ParserInv, prog' = prog, Outermost, KeyedFrames, frames # <<>>, NEW h, NEW p, RootReturns(h, p),
         SameIds(heap', heap), RootCache(typeCaches, heap), RootAnswers(returned, heap)
  PROVE  /\ \A k \in DOMAIN typeCaches' :
              k.node \in Declarations /\ k.ctx.args = <<>> => BareId(heap', typeCaches'[k]) = IdOfRoot(k.node)
         /\ \A i \in 1..Len(returned') : BareId(heap', returned'[i]) = IdOfRoot(asked'[i])
<1>0. /\ Inv /\ Typed /\ CallsInv /\ asked \in Seq(Roots) /\ returned \in Seq(Pointers(heap))
      /\ Len(returned) \in Nat /\ Len(asked) = Len(returned) + 1 /\ asked' = asked /\ heap' = h
  BY Lengths DEF ParserInv, Typed, CallsInv, RootReturns, Return
<1>1. Top = frames[1] /\ 1 \in 1..Len(frames) /\ Len(frames) \in Nat \ {0}
      /\ IsSequence(Tail(frames)) /\ Len(Tail(frames)) = Len(frames) - 1
  BY <1>0, TailOfSequence DEF Inv, FramesInv, Top
<1>2. /\ \A k \in DOMAIN typeCaches :
           k.node \in Declarations /\ k.ctx.args = <<>> => BareId(heap', typeCaches[k]) = IdOfRoot(k.node)
      /\ \A i \in 1..Len(returned) : BareId(heap', returned[i]) = IdOfRoot(asked[i])
  BY <1>0, RootsKept
<1>3. ASSUME NEW k \in DOMAIN typeCaches', k.node \in Declarations, k.ctx.args = <<>>
      PROVE  BareId(heap', typeCaches'[k]) = IdOfRoot(k.node)
  <2> DEFINE key == CacheKey(Top.node, Top.ctx)
  <2>1. typeCaches' = typeCaches \/ typeCaches' = Put(typeCaches, key, p)
    BY DEF RootReturns, Return
  <2>2. CASE k = key
    <3>1. k.node = Top.node /\ Top.ctx.key.args = <<>>
      BY <1>3, <2>2 DEF CacheKey
    <3>2. Top.ctx.args = <<>>
      BY <1>1, <3>1 DEF KeyedFrames, Keyed
    <3>3. BareId(heap', p) = IdOfRoot(k.node)
      BY <1>0, <1>3, <3>1, <3>2 DEF RootReturns
    <3>. QED
      BY <1>2, <1>3, <2>1, <2>2, <3>3 DEF Put
  <2> HIDE DEF key
  <2>3. CASE k # key
    BY <1>2, <1>3, <2>1, <2>3 DEF Put
  <2>. QED
    BY <2>2, <2>3
<1>4. CASE Tail(frames) = <<>>
  <2>1. Len(frames) = 1
    <3>1. Len(Tail(frames)) = 0
      BY <1>4, Numbers
    <3>. QED
      BY <1>1, <3>1, Numbers
  <2>2. Top.node = asked[Len(asked)] /\ Top.ctx.args = <<>>
    BY <1>1, <2>1 DEF Outermost
  <2>3. Top.node \in Declarations
    BY <1>0, <2>2 DEF Roots
  <2>4. BareId(heap', p) = IdOfRoot(asked'[Len(asked')])
    BY <1>0, <2>2, <2>3 DEF RootReturns
  <2>5. returned' = Append(returned, p)
    BY <1>4 DEF RootReturns, Return, Deliver
  <2>. QED
    BY <1>0, <1>2, <1>3, <2>4, <2>5, OneMoreAnswer
<1>5. CASE Tail(frames) # <<>>
  <2>1. returned' = returned
    BY <1>5 DEF RootReturns, Return, Deliver
  <2>. QED
    BY <1>0, <1>2, <1>3, <2>1
<1>. QED
  BY <1>4, <1>5

LEMMA RootsStep ==
  ASSUME ParserInv, NamesInv, RootsInv, [Next]_vars
  PROVE  RootsInv'
<1>0. Inv /\ Typed /\ WellFormed(prog) /\ prog' = prog /\ WordedHeap(heap)
  BY ProgramStays, ProgramsAssumption DEF ParserInv, Typed, NamesInv
<1>1. Declarations' = Declarations /\ \A n : IdOfRoot(n)' = IdOfRoot(n)
  BY <1>0 DEF Declarations, Nodes, IdOfRoot
<1>2. CASE UNCHANGED vars
  <2>1. UNCHANGED <<heap, typeCaches, frames, asked, returned>>
    BY <1>2 DEF vars
  <2>. QED
    BY <1>0, <1>1, <2>1, NamedSame DEF RootsInv, Outermost, KeyedFrames, RootCache, RootAnswers
<1>3. CASE Next
  <2>1. KeyedFrames'
    BY <1>0, <1>3, FramesKeyed DEF RootsInv
  <2>2. \/ \E call : /\ Asked(call) /\ CreateType(call, frames)
                     /\ frames # <<>> => asked' = asked
                     /\ frames = <<>> => asked' = Append(asked, call.node)
        \/ PanicOnNil
        \/ Finish
    <3>1. ASSUME NEW n \in Roots, ParseRoot(n)
          PROVE  \E call : /\ Asked(call) /\ CreateType(call, frames) /\ frames = <<>>
                           /\ asked' = Append(asked, call.node)
      <4>1. frames = <<>> /\ asked' = Append(asked, n)
        BY <3>1 DEF ParseRoot, Idle
      <4>2. PICK call : Asked(call) /\ CreateType(call, frames) /\ call.node = n
        BY <1>0, <3>1, AskedAre
      <4>. QED
        BY <4>1, <4>2
    <3>2. CASE ParseNext
      <4>1. frames # <<>> /\ asked' = asked
        BY <3>2 DEF ParseNext
      <4>. QED
        BY <1>0, <3>2, <4>1, AskedAre
    <3>. QED
      BY <1>3, <3>1, <3>2 DEF Next, Step
  <2>3. NeverFree(heap') => /\ SameIds(heap', heap) /\ NeverFree(heap)
                            /\ \A i \in 1..Len(frames) : NamedFrame(frames[i], heap)
    <3>1. NothingIsNever' <=> NeverFree(heap')
      BY DEF NothingIsNever, NeverFree
    <3>2. NeverFree(heap') => NeverFree(heap)
      BY <1>0, <1>3, StepExtends, NeverFreeBefore DEF Typed
    <3>. QED
      BY <1>0, <3>1, <3>2, WordsStep DEF NamesInv
  <2>4. ASSUME Outermost',
               NeverFree(heap') =>
                 /\ \A k \in DOMAIN typeCaches' :
                      k.node \in Declarations /\ k.ctx.args = <<>> => BareId(heap', typeCaches'[k]) = IdOfRoot(k.node)
                 /\ \A i \in 1..Len(returned') : BareId(heap', returned'[i]) = IdOfRoot(asked'[i])
        PROVE  RootsInv'
    <3>1. NeverFree(heap)' <=> NeverFree(heap')
      BY DEF NeverFree, Pointers, HasType
    <3>2. NeverFree(heap') => RootCache(typeCaches, heap)' /\ RootAnswers(returned, heap)'
      BY <1>0, <1>1, <2>4 DEF RootCache, RootAnswers, IdOfRoot
    <3>. QED
      BY <2>1, <2>4, <3>1, <3>2 DEF RootsInv
  <2>5. ASSUME NEW call, Asked(call), CreateType(call, frames),
               frames # <<>> => asked' = asked, frames = <<>> => asked' = Append(asked, call.node)
        PROVE  RootsInv'
    <3>1. Outermost'
      BY <1>0, <2>5, OutermostEnters DEF RootsInv
    <3>2. ASSUME NeverFree(heap')
          PROVE  /\ typeCaches' = typeCaches
                 /\ \A i \in 1..Len(returned') : BareId(heap', returned'[i]) = IdOfRoot(asked'[i])
                 /\ \A k \in DOMAIN typeCaches : k.node \in Declarations /\ k.ctx.args = <<>> =>
                      BareId(heap', typeCaches[k]) = IdOfRoot(k.node)
      BY <1>0, <2>3, <2>5, <3>2, CallsAnswerRoots, RootsKept DEF RootsInv
    <3>. QED
      BY <2>4, <3>1, <3>2
  <2>6. CASE PanicOnNil
    <3>1. UNCHANGED <<heap, typeCaches, frames, asked, returned>>
      BY <2>6 DEF PanicOnNil
    <3>. QED
      BY <1>0, <1>1, <3>1, NamedSame DEF RootsInv, Outermost, KeyedFrames, RootCache, RootAnswers
  <2>7. CASE Finish
    <3>1. Outermost'
      <4>1. frames # <<>> /\ \E h, p : Return(h, p)
        BY <2>7 DEF Finish, FinishLeaf, FinishTuple, FinishParameter, FinishReference, FinishIndex,
                    FinishDeclaration, Finished, ReturnNew
      <4>. QED
        BY <1>0, <4>1, OutermostReturns DEF RootsInv
    <3>2. ASSUME NeverFree(heap')
          PROVE  /\ \A k \in DOMAIN typeCaches' :
                      k.node \in Declarations /\ k.ctx.args = <<>> => BareId(heap', typeCaches'[k]) = IdOfRoot(k.node)
                 /\ \A i \in 1..Len(returned') : BareId(heap', returned'[i]) = IdOfRoot(asked'[i])
      <4>1. frames # <<>> /\ \E h, p : RootReturns(h, p)
        BY <1>0, <2>3, <2>7, <3>2, FinishReturns
      <4>. QED
        BY <1>0, <2>3, <3>2, <4>1, ReturnsAnswerRoots DEF RootsInv
    <3>. QED
      BY <2>4, <3>1, <3>2
  <2>. QED
    BY <2>2, <2>5, <2>6, <2>7
<1>. QED
  BY <1>2, <1>3

-----------------------------------------------------------------------------
(* Names and IDs under the generator *)

\* The roots of the present call are asked for in the order they were requested.
AskedInv ==
  phase = "parse" =>
    \A i \in 1..Len(request) : before + i <= Len(asked) => asked[before + i] = request[i]

\* The root that is wrapped next.
NextRoot == returned[before + Len(rootTypes) + 1]

\* The name it gets.
FullName ==
  IF Len(request) = 1 THEN Id("name", prog[request[1]].name, <<>>) ELSE Id("def", "", <<TypeId(heap, NextRoot)>>)

LEMMA NextRootIs ==
  ASSUME ParserInv, GeneratorInv, WrapRoot
  PROVE  /\ NextRoot \in Pointers(heap) /\ request \in Seq(Roots) /\ request # <<>>
         /\ before + Len(rootTypes) + 1 \in 1..Len(returned)
         /\ Len(request) = 1 => Len(rootTypes) = 0 /\ before + 1 <= Len(asked)
<1>1. /\ before \in Nat /\ Len(rootTypes) \in Nat /\ Len(returned) \in Nat /\ Len(asked) \in Nat
      /\ returned \in Seq(Pointers(heap)) /\ request \in Seq(Roots)
  BY Lengths DEF ParserInv, Typed, GeneratorInv, RequestInv
<1>2. phase = "parse" /\ before + Len(rootTypes) < Len(returned)
  BY DEF WrapRoot
<1>3. before + Len(rootTypes) + 1 \in 1..Len(returned)
  BY <1>1, <1>2
<1>4. Len(asked) <= before + Len(request) /\ request # <<>> /\ Len(returned) <= Len(asked)
  BY <1>1, <1>2 DEF GeneratorInv, ParseInv, ParserInv, CallsInv
<1>5. Len(request) = 1 => Len(rootTypes) = 0 /\ before + 1 <= Len(asked)
  BY <1>1, <1>2, <1>4
<1>. QED
  BY <1>1, <1>3, <1>4, <1>5 DEF NextRoot

LEMMA FullNameIs ==
  ASSUME ParserInv, GeneratorInv, NamesInv, RootsInv, AskedInv, WrapRoot
  PROVE  /\ FullName \in Seq(Token)
         /\ NeverFree(heap) /\ DistinctNames => IdOfName(FullName) = BareId(heap, NextRoot)
<1>0. /\ NextRoot \in Pointers(heap) /\ request \in Seq(Roots) /\ request # <<>>
      /\ before + Len(rootTypes) + 1 \in 1..Len(returned)
      /\ Len(request) = 1 => Len(rootTypes) = 0 /\ before + 1 <= Len(asked)
  BY NextRootIs
<1>1. SoundHeap(heap) /\ WordedHeap(heap) /\ phase = "parse"
  BY DEF ParserInv, Inv, Typed, NamesInv, SoundHeap, WrapRoot
<1>2. CASE Len(request) = 1
  <2> DEFINE n == request[1]
  <2>1. n \in Roots /\ n \in Declarations /\ n \in Nodes
    BY <1>0, <1>2 DEF Roots, Declarations
  <2> HIDE DEF n
  <2>2. FullName = Id("name", prog[n].name, <<>>)
    BY <1>2 DEF FullName, n
  <2>3. <<>> \in Seq(Seq(Token)) /\ prog[n].name \in Words /\ "name" \in TypeTags \cup {"name"}
    <3>1. prog[n].name \in Words
      BY <2>1, SomeWords
    <3>2. <<>> \in Seq(Seq(Token))
      BY EmptySeq
    <3>. QED
      BY <3>1, <3>2
  <2>4. FullName \in Seq(Token)
    BY <2>2, <2>3, IdWords
  <2>5. DistinctNames => IdOfName(FullName) = IdOfRoot(n)
    <3>1. Each(<<>>, Renaming) = <<>>
      BY DEF Each
    <3>. QED
      BY <2>1, <2>2, <2>3, <3>1, DeclarationNames DEF IdOfRoot
  <2>6. NeverFree(heap) => BareId(heap, NextRoot) = IdOfRoot(n)
    <3>1. asked[before + 1] = n
      <4>1. 1 \in 1..Len(request)
        BY <1>2
      <4>. QED
        BY <1>0, <1>1, <1>2, <4>1 DEF AskedInv, n
    <3>2. before + Len(rootTypes) + 1 = before + 1
      BY <1>0, <1>2 DEF GeneratorInv, RequestInv
    <3>. QED
      BY <1>0, <3>1, <3>2 DEF RootsInv, RootAnswers, NextRoot
  <2>. QED
    BY <2>4, <2>5, <2>6
<1>3. CASE Len(request) # 1
  <2> DEFINE id == TypeId(heap, NextRoot)
  <2>1. id \in Seq(PlainToken) /\ id \in Seq(Token)
    BY <1>0, <1>1, TypeIdIsPlain, PlainTokens
  <2> HIDE DEF id
  <2>2. FullName = Id("def", "", <<id>>)
    BY <1>3 DEF FullName, id
  <2>3. <<id>> \in Seq(Seq(PlainToken)) /\ "" \in Words /\ "def" \in TypeTags
    <3>1. "" \in Words
      BY SomeWords
    <3>2. "def" \in TypeTags
      BY DEF TypeTags, Kinds
    <3>3. <<id>> \in Seq(Seq(PlainToken))
      BY <2>1
    <3>. QED
      BY <3>1, <3>2, <3>3
  <2>4. FullName \in Seq(PlainToken)
    BY <2>2, <2>3, IdWords
  <2>5. IdOfName(FullName) = StripDef(id)
    BY <2>1, <2>2, <2>4, PlainNames, StripDefinition
  <2>. QED
    BY <2>4, <2>5, PlainTokens DEF BareId, id
<1>. QED
  BY <1>2, <1>3

LEMMA WrapRootNames ==
  ASSUME ParserInv, GeneratorInv, NamesInv, RootsInv, AskedInv, WrapRoot
  PROVE  NamesInv' /\ RootsInv' /\ SameIds(heap', heap)
<1> DEFINE t == Definition(FullName, NextRoot)
           new == Len(heap) + 1
<1>0. /\ UNCHANGED <<prog, typeCaches, frames, asked, returned>> /\ (heap' = heap \/ heap' = Append(heap, t))
      /\ Inv /\ Typed
  BY DEF WrapRoot, NextRoot, FullName, ParserInv
<1>1. SoundHeap(heap) /\ WordedHeap(heap) /\ TypedHeap(heap)
  BY DEF ParserInv, Inv, Typed, NamesInv, SoundHeap
<1>2. TypeOver(t, heap) /\ WordedType(t)
  BY FullNameIs, NextRootIs, TypesOver, WordedTypes
<1>3. t.kind = "def" /\ t.name = FullName /\ t.subs = <<NextRoot>>
  BY DEF Definition, NewType
<1> HIDE DEF t
<1>4. /\ SoundHeap(heap') /\ WordedHeap(heap') /\ SameIds(heap', heap)
      /\ \A p \in Pointers(heap) : heap'[p] = heap[p]
      /\ heap' # heap => Len(heap) \in Nat /\ Len(heap') = new /\ heap'[new] = t
  <2>1. CASE heap' = heap
    BY <1>1, <2>1 DEF SameIds, Contains
  <2>2. CASE heap' = Append(heap, t)
    BY <1>1, <1>2, <2>2, IdentityGrown
  <2>. QED
    BY <1>0, <2>1, <2>2
<1>5. NeverFree(heap') => NeverFree(heap)
  BY <1>1, WrapRootStep, NeverFreeBefore DEF GeneratorInv
<1>6. ASSUME NeverFree(heap')
      PROVE  NamedHeap(heap') /\ \A i \in 1..Len(frames') : NamedFrame(frames'[i], heap')
  <2>1. NamedHeap(heap) /\ \A i \in 1..Len(frames) : NamedFrame(frames[i], heap)
    BY <1>5, <1>6 DEF NamesInv
  <2>2. ASSUME NEW p \in Pointers(heap') PROVE NamesFit(heap', p)
    <3>1. CASE p \in Pointers(heap)
      BY <1>1, <1>4, <2>1, <3>1, NamesKept DEF NamedHeap
    <3>2. CASE p \notin Pointers(heap)
      <4>1. p = new /\ heap'[p] = t
        BY <1>4, <3>2 DEF Pointers
      <4>2. BareId(heap', p) = BareId(heap', NextRoot)
        <5>1. heap'[p].kind = "def" /\ heap'[p].subs[1] = NextRoot
          BY <1>3, <4>1
        <5>. QED
          BY <1>4, <5>1, BareIdFrom
      <4>3. BareId(heap', NextRoot) = BareId(heap, NextRoot)
        BY <1>4, NextRootIs DEF SameIds
      <4>. QED
        BY <1>3, <1>5, <1>6, <4>1, <4>2, <4>3, FullNameIs DEF NamesFit
    <3>. QED
      BY <3>1, <3>2
  <2>3. ASSUME NEW i \in 1..Len(frames) PROVE NamedFrame(frames[i], heap')
    <3>1. frames[i].ctx.args \in Seq(Pointers(heap)) /\ (frames[i].ref # 0 => frames[i].ref \in Pointers(heap))
      BY <1>0 DEF Typed, TypedFrame, TypedContext, Inv, FramesInv, UnsetIn
    <3>. QED
      BY <1>4, <2>1, <3>1, FrameKept DEF SameCall
  <2>. QED
    BY <1>0, <2>2, <2>3 DEF NamedHeap
<1>7. NamesInv'
  <2>1. NeverFree(heap)' <=> NeverFree(heap')
    BY DEF NeverFree, Pointers, HasType
  <2>2. WordedHeap(heap)'
    BY <1>0, <1>4, WordsSame
  <2>3. NeverFree(heap') => NamedHeap(heap)' /\ (\A i \in 1..Len(frames) : NamedFrame(frames[i], heap))'
    BY <1>0, <1>6, NamedSame
  <2>. QED
    BY <2>1, <2>2, <2>3 DEF NamesInv
<1>8. RootsInv'
  <2>1. /\ NeverFree(heap)' <=> NeverFree(heap')
        /\ Declarations' = Declarations /\ \A n : IdOfRoot(n)' = IdOfRoot(n)
    BY <1>0 DEF NeverFree, Pointers, HasType, Declarations, Nodes, IdOfRoot
  <2>2. Outermost' /\ KeyedFrames'
    BY <1>0 DEF RootsInv, Outermost, KeyedFrames, Keyed
  <2>3. NeverFree(heap') => RootCache(typeCaches, heap)' /\ RootAnswers(returned, heap)'
    <3> SUFFICES ASSUME NeverFree(heap') PROVE RootCache(typeCaches, heap)' /\ RootAnswers(returned, heap)'
      OBVIOUS
    <3>1. /\ \A k \in DOMAIN typeCaches :
               k.node \in Declarations /\ k.ctx.args = <<>> => BareId(heap', typeCaches[k]) = IdOfRoot(k.node)
          /\ \A i \in 1..Len(returned) : BareId(heap', returned[i]) = IdOfRoot(asked[i])
      BY <1>0, <1>4, <1>5, RootsKept DEF RootsInv
    <3>. QED
      BY <1>0, <2>1, <3>1 DEF RootCache, RootAnswers
  <2>. QED
    BY <2>1, <2>2, <2>3 DEF RootsInv
<1>. QED
  BY <1>4, <1>7, <1>8

IdentityInv == NamesInv /\ RootsInv /\ AskedInv

LEMMA IdentityStep ==
  ASSUME ParserInv, GeneratorInv, IdentityInv, [NextGenerator]_allVars
  PROVE  IdentityInv' /\ (NothingIsNever' => SameIds(heap', heap))
<1>0. Inv /\ Typed /\ NamesInv /\ RootsInv /\ AskedInv /\ WordedHeap(heap)
  BY DEF ParserInv, IdentityInv, NamesInv
<1>1. ASSUME [Next]_vars PROVE NamesInv' /\ RootsInv' /\ (NothingIsNever' => SameIds(heap', heap))
  BY <1>0, <1>1, NamesStep, RootsStep, WordsStep
<1>2. CASE WrapRoot
  <2>1. AskedInv'
    BY <1>0, <1>2 DEF WrapRoot, AskedInv
  <2>. QED
    BY <1>0, <1>2, <2>1, WrapRootNames DEF IdentityInv
<1>3. CASE ParseRequested
  <2> DEFINE n == request[Len(rootTypes) + 1]
  <2>1. /\ phase = "parse" /\ Len(rootTypes) < Len(request) /\ before + Len(rootTypes) = Len(asked)
        /\ ParseRoot(n) /\ UNCHANGED <<request, before, phase>>
    BY <1>3 DEF ParseRequested, generatorVars
  <2>2. /\ request \in Seq(Roots) /\ Len(rootTypes) \in Nat /\ before \in Nat /\ asked \in Seq(Roots)
        /\ Len(asked) \in Nat
    BY <1>0, Lengths DEF GeneratorInv, RequestInv, Typed
  <2>3. n \in Roots
    BY <2>1, <2>2
  <2>4. asked' = Append(asked, n)
    BY <2>1 DEF ParseRoot
  <2>5. AskedInv'
    <3> SUFFICES ASSUME NEW i \in 1..Len(request), before + i <= Len(asked')
                 PROVE  asked'[before + i] = request[i]
      BY <2>1 DEF AskedInv
    <3>1. Len(asked') = Len(asked) + 1 /\ asked'[Len(asked) + 1] = n
          /\ \A j \in 1..Len(asked) : asked'[j] = asked[j]
      BY <2>2, <2>4, SequenceOf, AppendToSequence
    <3>2. CASE before + i <= Len(asked)
      <4>1. before + i \in 1..Len(asked)
        BY <2>2, <3>2
      <4>. QED
        BY <1>0, <2>1, <3>1, <3>2, <4>1 DEF AskedInv
    <3>3. CASE ~(before + i <= Len(asked))
      <4>1. before + i = Len(asked) + 1 /\ i = Len(rootTypes) + 1
        BY <2>1, <2>2, <3>1, <3>3
      <4>. QED
        BY <3>1, <4>1
    <3>. QED
      BY <3>2, <3>3
  <2>6. [Next]_vars
    BY <2>1, <2>3 DEF Next
  <2>. QED
    BY <1>1, <2>5, <2>6 DEF IdentityInv
<1>4. CASE Parse
  <2>1. Step /\ UNCHANGED <<request, before, phase>>
    BY <1>4 DEF Parse, generatorVars
  <2>2. asked' = asked
    BY <2>1, StepCalls DEF ParserInv
  <2>3. AskedInv'
    BY <1>0, <2>1, <2>2 DEF AskedInv
  <2>4. [Next]_vars
    BY <2>1 DEF Next
  <2>. QED
    BY <1>1, <2>3, <2>4 DEF IdentityInv
<1>5. ASSUME UNCHANGED vars, AskedInv' PROVE IdentityInv' /\ (NothingIsNever' => SameIds(heap', heap))
  BY <1>1, <1>5 DEF IdentityInv
<1>6. ASSUME NEW nodes \in Requests, CreateSchema(nodes)
      PROVE  IdentityInv' /\ (NothingIsNever' => SameIds(heap', heap))
  <2>1. UNCHANGED vars /\ asked' = asked /\ before' = Len(asked)
    BY <1>6 DEF CreateSchema, parserVars, vars
  <2>2. Len(asked) \in Nat
    BY <1>0, Lengths
  <2>3. AskedInv'
    BY <2>1, <2>2 DEF AskedInv
  <2>. QED
    BY <1>5, <2>1, <2>3
<1>7. CASE StartCollecting \/ Collect \/ AppendRootChildDefinitions \/ ReturnSchema \/ Recover
  <2>1. UNCHANGED vars /\ phase' # "parse"
    BY <1>7 DEF StartCollecting, Collect, AppendRootChildDefinitions, ReturnSchema, Recover, Fail,
                parserVars, generatorVars
  <2>2. AskedInv'
    BY <2>1 DEF AskedInv
  <2>. QED
    BY <1>5, <2>1, <2>2
<1>8. CASE UNCHANGED allVars
  <2>1. UNCHANGED vars /\ UNCHANGED <<phase, request, before>> /\ asked' = asked
    BY <1>8 DEF allVars, parserVars, generatorVars, vars
  <2>2. AskedInv'
    BY <1>0, <2>1 DEF AskedInv
  <2>. QED
    BY <1>5, <2>1, <2>2
<1>. QED
  BY <1>2, <1>3, <1>4, <1>6, <1>7, <1>8 DEF NextGenerator, Generate

LEMMA IdentityInit == InitGenerator => IdentityInv
<1> SUFFICES ASSUME InitGenerator PROVE IdentityInv
  OBVIOUS
<1>1. Init /\ phase = "idle"
  BY DEF InitGenerator
<1>2. NamesInv
  BY <1>1, NamesInit
<1>3. frames = <<>> /\ typeCaches = <<>> /\ returned = <<>>
  BY <1>1 DEF Init
<1>4. Len(frames) = 0 /\ DOMAIN typeCaches = {} /\ Len(returned) = 0
  BY <1>3
<1>. QED
  BY <1>1, <1>2, <1>3, <1>4 DEF IdentityInv, RootsInv, Outermost, KeyedFrames, RootCache, RootAnswers, AskedInv

\* A definition below the roots is named after the type it defines.
LEMMA NamesOfDefinitions ==
  ASSUME Collecting, NamesInv, NeverFree(heap), DistinctNames, NEW d \in Below
  PROVE  BareId(heap, Inner(d)) = IdOfName(NameOf(d))
<1> DEFINE p == Pointer(d)
<1>1. /\ p \in Pointers(heap) /\ heap[p].kind \in {"def", "ref"} /\ HasType(heap, p)
      /\ Inner(d) = heap[p].subs[1] /\ NameOf(d) = heap[p].name
  BY ReachedInner DEF Inner, NameOf
<1> HIDE DEF p
<1>2. NamesFit(heap, p)
  BY <1>1 DEF NamesInv, NamedHeap
<1>3. SoundHeap(heap) /\ WordedHeap(heap)
  BY InCollect DEF Inv, Typed, NamesInv, SoundHeap
<1>4. BareId(heap, Inner(d)) = BareId(heap, p)
  <2>1. CASE heap[p].kind = "def"
    BY <1>1, <1>3, <2>1, BareIdFrom
  <2>2. CASE heap[p].kind = "ref"
    BY <1>1, <1>2, <2>2 DEF NamesFit
  <2>. QED
    BY <1>1, <2>1, <2>2
<1>5. IdOfName(heap[p].name) = BareId(heap, p)
  BY <1>1, <1>2 DEF NamesFit
<1>. QED
  BY <1>1, <1>4, <1>5

LEMMA NoConflict ==
  ASSUME Collecting, CollectorInv, NamesInv, NeverFree(heap), DistinctNames, appended < Len(rootTypes)
  PROVE  ~Conflict(children[PresentRoot])
BY ChildrenAreBelow, NamesOfDefinitions DEF Conflict, BareId

ConflictInv ==
  NeverFree(heap) => \A i \in 1..Len(schemas) : schemas[i].error = "conflict" => ~DistinctNames

LEMMA ConflictStep ==
  ASSUME ParserInv, GeneratorInv, SchemaInv, CollectorInv, IdentityInv, ConflictInv, [NextGenerator]_allVars
  PROVE  ConflictInv'
<1>1. /\ prog' = prog /\ IsSequence(schemas)
      /\ NeverFree(heap)' => NeverFree(heap)
  <2>1. Extends(heap', heap) /\ TypedHeap(heap)
    BY GeneratorStep DEF ParserInv, Typed
  <2>2. NeverFree(heap)' <=> NeverFree(heap')
    BY DEF NeverFree, Pointers, HasType
  <2>. QED
    BY <2>1, <2>2, NeverFreeBefore, SessionProgramStays DEF GeneratorInv, RequestInv
<1>2. DistinctNames' <=> DistinctNames
  BY <1>1 DEF DistinctNames, Declarations, Nodes
<1>3. CASE schemas' = schemas
  BY <1>1, <1>2, <1>3 DEF ConflictInv
<1>4. ASSUME NEW schema, schemas' = Append(schemas, schema),
             schema.error = "conflict" /\ NeverFree(heap) => ~DistinctNames
      PROVE  ConflictInv'
  <2> SUFFICES ASSUME NeverFree(heap)', NEW i \in 1..Len(schemas'), schemas'[i].error = "conflict"
               PROVE  ~DistinctNames'
    BY DEF ConflictInv
  <2>1. /\ Len(schemas) \in Nat /\ Len(schemas') = Len(schemas) + 1
        /\ \A j \in 1..Len(schemas) : schemas'[j] = schemas[j]
        /\ schemas'[Len(schemas) + 1] = schema
    BY <1>1, <1>4, AppendToSequence
  <2>2. i \in 1..Len(schemas) \/ i = Len(schemas) + 1
    BY <2>1
  <2>. QED
    BY <1>1, <1>2, <1>4, <2>1, <2>2 DEF ConflictInv
<1>5. CASE AppendRootChildDefinitions
  <2>1. phase = "collect" /\ appended < Len(rootTypes)
        /\ (schemas' = schemas \/ (Conflict(children[PresentRoot]) /\ Fail("conflict")))
    BY <1>5 DEF AppendRootChildDefinitions
  <2>2. Collecting
    BY <2>1 DEF Collecting, SchemaInv
  <2>3. Conflict(children[PresentRoot]) /\ NeverFree(heap) => ~DistinctNames
    BY <2>1, <2>2, NoConflict DEF IdentityInv
  <2>. QED
    BY <1>3, <1>4, <2>1, <2>3 DEF Fail
<1>6. CASE ReturnSchema \/ Recover
  <2> DEFINE schema(error, defs) == [error |-> error, roots |-> rootTypes, definitions |-> defs]
  <2>1. \E error \in {"", "unresolved", "missing definition"} : \E defs : schemas' = Append(schemas, schema(error, defs))
    <3>1. CASE Recover
      BY <3>1 DEF Recover, Fail
    <3>2. CASE ReturnSchema
      BY <3>2 DEF ReturnSchema, Fail
    <3>. QED
      BY <1>6, <3>1, <3>2
  <2>2. \A error \in {"", "unresolved", "missing definition"} : \A defs : schema(error, defs).error # "conflict"
    OBVIOUS
  <2> HIDE DEF schema
  <2>. QED
    BY <1>4, <2>1, <2>2
<1>7. schemas' = schemas \/ AppendRootChildDefinitions \/ ReturnSchema \/ Recover
  BY DEF NextGenerator, Generate, CreateSchema, ParseRequested, Parse, WrapRoot, StartCollecting, Collect,
         generatorVars, allVars
<1>. QED
  BY <1>3, <1>5, <1>6, <1>7

LEMMA IdentityIsInductive == GeneratorSpec => [](ParserInv /\ GeneratorInv /\ IdentityInv)
<1>1. ParserInv /\ GeneratorInv /\ IdentityInv /\ [NextGenerator]_allVars => IdentityInv'
  BY IdentityStep
<1>. QED
  BY <1>1, IdentityInit, GeneratorIsInductive, PTL DEF GeneratorSpec

LEMMA ConflictIsInductive == GeneratorSpec => []ConflictInv
<1>1. InitGenerator => ConflictInv
  <2>1. InitGenerator => Len(schemas) = 0
    BY DEF InitGenerator
  <2>. QED
    BY <2>1 DEF ConflictInv
<1>2. CollectorProofs!TypeOK /\ CollectorProofs!CompleteInv /\ CollectorProofs!SoundInv => CollectorInv
  BY DEF CollectorInv
<1>3. ParserInv /\ GeneratorInv /\ SchemaInv /\ CollectorInv /\ IdentityInv /\ ConflictInv
        /\ [NextGenerator]_allVars => ConflictInv'
  BY ConflictStep
<1>. QED
  BY <1>1, <1>2, <1>3, IdentityIsInductive, SchemaInvIsInductive, CollectorInvariants, PTL DEF GeneratorSpec

\* The generator leaves the IDs alone that the parsers' caches are keyed by: what
\* TopRefNodeParser wraps a root in (chain.go:126-137) has the ID of the root.
THEOREM GeneratorKeepsIds == GeneratorSpec => IdsAreFinal
<1>1. ParserInv /\ GeneratorInv /\ IdentityInv /\ [NextGenerator]_allVars
        => [NothingIsNever' => \A p \in Pointers(heap) : BareId(heap', p) = BareId(heap, p)]_vars
  BY IdentityStep DEF SameIds
<1>. QED
  BY <1>1, IdentityIsInductive, PTL DEF GeneratorSpec, IdsAreFinal

\* A conflict of names is only reported when two declarations have one name
\* (generator.go:133-163), for every program in which no declaration is never:
\* two definitions of one name are of one ID, in whatever order the roots were
\* parsed, in this call or an earlier one.
THEOREM OnlyRealConflicts == GeneratorSpec => [](NothingIsNever => ConflictsAreReal)
<1>1. GeneratorInv /\ ConflictInv => (NothingIsNever => ConflictsAreReal)
  <2> SUFFICES ASSUME GeneratorInv, ConflictInv, NothingIsNever, Returned, Latest.error = "conflict"
               PROVE  \E m, n \in Declarations : m # n /\ prog[m].name = prog[n].name
    BY DEF ConflictsAreReal
  <2>1. Len(schemas) \in 1..Len(schemas)
    <3>1. IsSequence(schemas) /\ schemas # <<>>
      BY DEF GeneratorInv, RequestInv, Returned
    <3>. QED
      BY <3>1, AppendToSequence, NoElements
  <2>2. ~DistinctNames
    BY <2>1, NeverFreeIs DEF ConflictInv, Latest
  <2>. QED
    BY <2>2 DEF DistinctNames
<1>. QED
  BY <1>1, ConflictIsInductive, GeneratorIsInductive, PTL

-----------------------------------------------------------------------------
(* What a $ref is put for *)

\* What a root is parsed to is no reference.
RootTypes ==
  NeverFree(heap) => \A i \in 1..Len(returned) : heap[returned[i]].kind # "ref"

LEMMA RootTypesStep ==
  ASSUME ParserInv, NamesInv, RootsInv, RootTypes, [Next]_vars
  PROVE  RootTypes'
<1>0. Inv /\ Typed /\ CallsInv /\ WellFormed(prog) /\ prog' = prog /\ WordedHeap(heap)
  BY ProgramStays, ProgramsAssumption DEF ParserInv, Typed, NamesInv
<1>1. NeverFree(heap)' <=> NeverFree(heap')
  BY DEF NeverFree, Pointers, HasType
<1>2. CASE UNCHANGED vars
  <2>1. heap' = heap /\ returned' = returned
    BY <1>2 DEF vars
  <2>. QED
    BY <1>1, <2>1 DEF RootTypes
<1>3. CASE Next
  <2>0. Extends(heap', heap) /\ TypedHeap(heap) /\ IsSequence(returned) /\ returned \in Seq(Pointers(heap))
    BY <1>0, <1>3, StepExtends, SequenceOf DEF Typed
  <2> SUFFICES ASSUME NeverFree(heap') PROVE \A i \in 1..Len(returned') : heap'[returned'[i]].kind # "ref"
    BY <1>1 DEF RootTypes
  <2>1. NeverFree(heap)
    BY <2>0, NeverFreeBefore
  <2>2. ASSUME NEW i \in 1..Len(returned) PROVE heap'[returned[i]].kind # "ref"
    <3>1. returned[i] \in Pointers(heap) /\ heap[returned[i]].kind # "ref"
      BY <2>0, <2>1 DEF RootTypes
    <3>. QED
      BY <2>0, <3>1 DEF Extends
  <2>3. CASE returned' = returned
    BY <2>2, <2>3
  <2>4. ASSUME NEW p, returned' = Append(returned, p), heap'[p].kind # "ref"
        PROVE  \A i \in 1..Len(returned') : heap'[returned'[i]].kind # "ref"
    <3>1. /\ Len(returned) \in Nat /\ Len(returned') = Len(returned) + 1
          /\ \A i \in 1..Len(returned) : returned'[i] = returned[i]
          /\ returned'[Len(returned) + 1] = p
      BY <2>0, <2>4, AppendToSequence
    <3> SUFFICES ASSUME NEW i \in 1..Len(returned') PROVE heap'[returned'[i]].kind # "ref"
      OBVIOUS
    <3>2. i \in 1..Len(returned) \/ i = Len(returned) + 1
      BY <3>1
    <3>. QED
      BY <2>2, <2>4, <3>1, <3>2
  <2>5. ASSUME NEW call, Asked(call), CreateType(call, frames)
        PROVE  \A i \in 1..Len(returned') : heap'[returned'[i]].kind # "ref"
    <3>1. CASE UseCache(call, frames)
      <4> DEFINE p == typeCaches[CacheKey(call.node, call.ctx)]
      <4>1. p \in Pointers(heap) /\ heap[p].kind # "ref" /\ heap' = heap /\ Deliver(p, frames)
        BY <1>0, <3>1 DEF UseCache, Typed, TypedCache
      <4> HIDE DEF p
      <4>2. returned' = returned \/ returned' = Append(returned, p)
        BY <4>1 DEF Deliver
      <4>. QED
        BY <2>3, <2>4, <4>1, <4>2
    <3>2. CASE UseCircular(call, frames)
      <4>1. frames # <<>>
        <5> SUFFICES ASSUME frames = <<>> PROVE FALSE
          OBVIOUS
        <5>1. Len(frames) = 0
          OBVIOUS
        <5>2. DOMAIN circular = {}
          BY <1>0, <5>1 DEF Inv, CircularIsOpen
        <5>. QED
          BY <3>2, <5>2 DEF UseCircular
      <4>2. returned' = returned
        BY <3>2, <4>1 DEF UseCircular, Deliver
      <4>. QED
        BY <2>3, <4>2
    <3>3. CASE Enter(call, frames)
      BY <2>3, <3>3 DEF Enter
    <3>. QED
      BY <2>5, <3>1, <3>2, <3>3 DEF CreateType
  <2>6. CASE PanicOnNil
    BY <2>3, <2>6 DEF PanicOnNil
  <2>7. CASE Finish
    <3>1. PICK h, p : Return(h, p) /\ frames # <<>>
      BY <2>7 DEF Finish, FinishLeaf, FinishTuple, FinishParameter, FinishReference, FinishIndex,
                  FinishDeclaration, Finished, ReturnNew
    <3>2. CASE Tail(frames) # <<>>
      BY <2>3, <3>1, <3>2 DEF Return, Deliver
    <3>3. CASE Tail(frames) = <<>>
      <4>1. /\ Top = frames[1] /\ Len(frames) \in Nat \ {0} /\ IsSequence(Tail(frames))
            /\ Len(Tail(frames)) = Len(frames) - 1
        BY <1>0, <3>1, TailOfSequence DEF Inv, FramesInv, Top
      <4>2. Len(Tail(frames)) = 0
        BY <3>3, Numbers
      <4>3. Len(frames) = 1
        BY <4>1, <4>2, Numbers
      <4>4. asked \in Seq(Roots) /\ Len(asked) = Len(returned) + 1 /\ Len(returned) \in Nat
        BY <1>0, <2>0, <3>1, Lengths DEF Typed, CallsInv
      <4>5. Top.node \in Declarations
        <5>1. Top.node = asked[Len(asked)]
          BY <3>1, <4>1, <4>3 DEF RootsInv, Outermost
        <5>2. Len(asked) \in 1..Len(asked)
          BY <4>4
        <5>. QED
          BY <4>4, <5>1, <5>2 DEF Roots
      <4>6. FinishDeclaration
        BY <2>7, <4>5 DEF Declarations, Finish, FinishLeaf, FinishTuple, FinishParameter, FinishReference,
                          FinishIndex, Finished
      <4>7. PICK g, inner, q : /\ Return(g, q) /\ Declares(g, inner, q)
                               /\ NeverFree(g) => inner = InnerType
        BY <1>0, <4>6, Declared
      <4>8. g = heap' /\ inner = InnerType
        BY <4>7 DEF Return
      <4>9. InnerType.kind \in {"alias", "object"}
        BY DEF InnerType, Alias, Object, NewType
      <4>10. heap'[q].kind # "ref"
        <5>1. CASE q = Len(heap) + 1
          BY <4>7, <4>8, <4>9, <5>1 DEF Declares
        <5>2. CASE q # Len(heap) + 1
          <6>1. heap'[q] = Definition(DeclarationName(Top.node, Top.ctx), Len(heap) + 1)
            BY <4>7, <4>8, <5>2 DEF Declares
          <6>. QED
            BY <6>1 DEF Definition, NewType
        <5>. QED
          BY <5>1, <5>2
      <4>11. returned' = Append(returned, q)
        BY <3>3, <4>7 DEF Return, Deliver
      <4>. QED
        BY <2>4, <4>10, <4>11
    <3>. QED
      BY <3>2, <3>3
  <2>8. CASE (\E n \in Roots : ParseRoot(n)) \/ ParseNext
    BY <1>0, <2>5, <2>8, AskedAre
  <2>. QED
    BY <1>3, <2>6, <2>7, <2>8 DEF Next, Step
<1>. QED
  BY <1>2, <1>3

\* A root that is wrapped is an object or an alias.
LEMMA WrappedRoot ==
  ASSUME ParserInv, GeneratorInv, NamesInv, RootsInv, RootTypes, WrapRoot, NeverFree(heap), SourceHeap(heap),
         heap[NextRoot].kind # "def"
  PROVE  heap[NextRoot].kind \in {"object", "alias"}
<1> DEFINE k == before + Len(rootTypes) + 1
           n == asked[k]
<1>0. /\ Inv /\ Typed /\ CallsInv /\ NextRoot \in Pointers(heap) /\ k \in 1..Len(returned) /\ NextRoot = returned[k]
      /\ SoundHeap(heap) /\ WordedHeap(heap)
  BY NextRootIs DEF ParserInv, Inv, Typed, NamesInv, SoundHeap, NextRoot
<1>1. n \in Declarations /\ n \in Nodes
  <2>1. asked \in Seq(Roots) /\ Len(asked) \in Nat /\ Len(returned) \in Nat /\ Len(returned) <= Len(asked)
    BY <1>0, Lengths DEF Typed, CallsInv
  <2>2. k \in 1..Len(asked)
    BY <1>0, <2>1
  <2>3. n \in Roots
    BY <2>1, <2>2
  <2>. QED
    BY <2>3 DEF Roots, Declarations
<1>2. BareId(heap, NextRoot) = IdOfRoot(n) /\ heap[NextRoot].kind # "ref"
  BY <1>0 DEF RootsInv, RootAnswers, RootTypes
<1> HIDE DEF n, k
<1>3. PICK tag \in TypeTags, of \in Words : \E args \in Seq(Readable) : Describes(NextRoot, tag, of, args)
  BY <1>0, <1>2, Described
<1>4. PICK args \in Seq(Readable) : Describes(NextRoot, tag, of, args)
  BY <1>3
<1>5. prog[n].kind \in {"interface", "alias"} /\ prog[n].kind \in TypeTags /\ n \in Words
  BY <1>1, SomeWords DEF Declarations, IsCircular
<1> DEFINE none == <<>>
           tag2 == prog[n].kind
<1>6. none \in Seq(Readable) /\ Id(tag, of, args) = Id(tag2, n, none)
  BY <1>2, <1>4 DEF Describes, IdOfRoot
<1>7. tag2 \in TypeTags /\ n \in Words
  BY <1>5
<1> HIDE DEF none, tag2
<1>8. tag = tag2
  BY <1>6, <1>7, IdsReadBack
<1>. QED
  BY <1>4, <1>5, <1>8 DEF Describes, KindOf, tag2

LEMMA WrapRootSource ==
  ASSUME ParserInv, GeneratorInv, IdentityInv, RootTypes, SourceInv, WrapRoot
  PROVE  SourceInv' /\ RootTypes'
<1> DEFINE t == Definition(FullName, NextRoot)
           new == Len(heap) + 1
<1>0. /\ UNCHANGED <<prog, typeCaches, frames, asked, returned>>
      /\ heap' = heap \/ (heap' = Append(heap, t) /\ heap[NextRoot].kind # "def")
      /\ Inv /\ Typed /\ NamesInv /\ RootsInv /\ AskedInv
  BY DEF WrapRoot, NextRoot, FullName, ParserInv, IdentityInv
<1>1. SoundHeap(heap) /\ WordedHeap(heap) /\ TypedHeap(heap) /\ NextRoot \in Pointers(heap) /\ Extends(heap', heap)
  BY <1>0, NextRootIs, WrapRootStep DEF ParserInv, Inv, Typed, NamesInv, SoundHeap, GeneratorInv
<1>2. SameIds(heap', heap) /\ (NeverFree(heap') => NeverFree(heap))
  BY <1>0, <1>1, WrapRootNames, NeverFreeBefore
<1>3. t.kind = "def" /\ t.subs = <<NextRoot>>
  BY DEF Definition, NewType
<1> HIDE DEF t
<1>4. /\ \A p \in Pointers(heap) : heap'[p] = heap[p]
      /\ heap' # heap => Len(heap) \in Nat /\ Len(heap') = new /\ heap'[new] = t
  <2>1. TypeOver(t, heap) /\ WordedType(t)
    BY <1>0, <1>1, FullNameIs, TypesOver, WordedTypes DEF t
  <2>2. CASE heap' = heap
    BY <2>2
  <2>3. CASE heap' = Append(heap, t)
    BY <1>1, <2>1, <2>3, IdentityGrown
  <2>. QED
    BY <1>0, <2>2, <2>3
<1>5. SourceInv'
  <2> SUFFICES ASSUME IndexFree, NeverFree(heap')
               PROVE  SourceFrames(frames', heap') /\ SourceCache(typeCaches', heap') /\ SourceHeap(heap')
    BY <1>0, SourceSame, NamedSame DEF SourceInv
  <2>1. NeverFree(heap) /\ SourceFrames(frames, heap) /\ SourceCache(typeCaches, heap) /\ SourceHeap(heap)
    BY <1>2 DEF SourceInv
  <2>2. SourceCache(typeCaches', heap')
    BY <1>0, <1>1, <1>2, <2>1, SourceKept DEF Typed
  <2>3. SourceFrames(frames', heap')
    BY <1>0, <1>1, <1>2, <2>1, SourceKept DEF Typed, SourceFrames
  <2>4. ASSUME NEW p \in Pointers(heap')
        PROVE  Stands(heap', p) /\ (heap'[p].kind \in {"object", "alias"} => Follows(heap', p))
    <3>1. CASE p \in Pointers(heap)
      BY <1>1, <1>2, <1>4, <2>1, <3>1, SourceKept DEF SourceHeap
    <3>2. CASE p \notin Pointers(heap)
      <4>1. p = new /\ heap'[p] = t /\ heap[NextRoot].kind # "def"
        BY <1>0, <1>4, <3>2 DEF Pointers
      <4>2. heap[NextRoot].kind \in {"object", "alias"}
        BY <1>0, <2>1, <4>1, WrappedRoot
      <4>3. heap'[NextRoot] = heap[NextRoot]
        BY <1>1, <1>4
      <4>. QED
        BY <1>3, <4>1, <4>2, <4>3 DEF Stands
    <3>. QED
      BY <3>1, <3>2
  <2>. QED
    BY <2>2, <2>3, <2>4 DEF SourceHeap
<1>6. RootTypes'
  <2>1. NeverFree(heap)' <=> NeverFree(heap')
    BY DEF NeverFree, Pointers, HasType
  <2>2. \A i \in 1..Len(returned) : returned[i] \in Pointers(heap)
    BY <1>0 DEF Typed
  <2>. QED
    BY <1>0, <1>2, <1>4, <2>1, <2>2 DEF RootTypes
<1>. QED
  BY <1>5, <1>6

MeaningInv == RootTypes /\ SourceInv

LEMMA MeaningStep ==
  ASSUME ParserInv, GeneratorInv, IdentityInv, MeaningInv, [NextGenerator]_allVars
  PROVE  MeaningInv'
<1>0. Inv /\ Typed /\ NamesInv /\ RootsInv /\ RootTypes /\ SourceInv
  BY DEF ParserInv, IdentityInv, MeaningInv
<1>1. ASSUME [Next]_vars PROVE MeaningInv'
  BY <1>0, <1>1, RootTypesStep, SourceStep DEF MeaningInv
<1>2. CASE WrapRoot
  BY <1>0, <1>2, WrapRootSource DEF MeaningInv
<1>3. CASE ParseRequested
  <2>1. Len(rootTypes) < Len(request) /\ ParseRoot(request[Len(rootTypes) + 1])
    BY <1>3 DEF ParseRequested
  <2>2. request \in Seq(Roots) /\ Len(rootTypes) \in Nat
    BY Lengths DEF GeneratorInv, RequestInv
  <2>3. request[Len(rootTypes) + 1] \in Roots
    BY <2>1, <2>2
  <2>. QED
    BY <1>1, <2>1, <2>3 DEF Next
<1>4. CASE Parse
  BY <1>1, <1>4 DEF Parse, Next
<1>5. CASE UNCHANGED vars
  BY <1>1, <1>5
<1>6. (\E nodes \in Requests : CreateSchema(nodes)) \/ StartCollecting \/ Collect
        \/ AppendRootChildDefinitions \/ ReturnSchema \/ Recover \/ UNCHANGED allVars => UNCHANGED vars
  BY DEF CreateSchema, StartCollecting, Collect, AppendRootChildDefinitions, ReturnSchema, Recover, allVars,
         parserVars
<1>. QED
  BY <1>2, <1>3, <1>4, <1>5, <1>6 DEF NextGenerator, Generate

LEMMA MeaningIsInductive == GeneratorSpec => []MeaningInv
<1>1. InitGenerator => MeaningInv
  <2>1. InitGenerator => Init /\ Len(returned) = 0
    BY DEF InitGenerator, Init
  <2>. QED
    BY <2>1, SourceInit DEF MeaningInv, RootTypes
<1>. QED
  BY <1>1, MeaningStep, IdentityIsInductive, PTL DEF GeneratorSpec

\* Every definition of a schema that was returned has the ID its name says.
NamedSchemas ==
  NeverFree(heap) /\ DistinctNames =>
    \A i \in 1..Len(schemas) : \A n \in DOMAIN schemas[i].definitions :
      /\ schemas[i].definitions[n] \in Pointers(heap)
      /\ BareId(heap, schemas[i].definitions[n]) = IdOfName(n)

\* What is cut down to the reachable names was put under these names before.
LEMMA DefinitionsNamed ==
  ASSUME Collecting, NamesInv, WalkInv, NeverFree(heap), DistinctNames, NEW n \in DOMAIN definitions
  PROVE  definitions[n] \in Pointers(heap) /\ BareId(heap, definitions[n]) = IdOfName(n)
<1>1. PICK d \in Below : NameOf(d) = n /\ definitions[n] = Inner(d)
  BY DEF WalkInv, Collecting
<1>. QED
  BY <1>1, ReachedInner, NamesOfDefinitions

LEMMA NamedSchemasStep ==
  ASSUME ParserInv, GeneratorInv, SchemaInv, IdentityInv, NamedSchemas, [NextGenerator]_allVars
  PROVE  NamedSchemas'
<1>1. /\ prog' = prog /\ IsSequence(schemas) /\ Extends(heap', heap)
      /\ NeverFree(heap)' => NeverFree(heap) /\ SameIds(heap', heap)
  <2>1. Extends(heap', heap) /\ TypedHeap(heap)
    BY GeneratorStep DEF ParserInv, Typed
  <2>2. (NeverFree(heap)' <=> NeverFree(heap')) /\ (NothingIsNever' <=> NeverFree(heap)')
    BY DEF NeverFree, Pointers, HasType, NothingIsNever
  <2>. QED
    BY <2>1, <2>2, NeverFreeBefore, IdentityStep, SessionProgramStays DEF GeneratorInv, RequestInv
<1>2. DistinctNames' <=> DistinctNames
  BY <1>1 DEF DistinctNames, Declarations, Nodes
<1>3. \A n : IdOfName(n)' = IdOfName(n)
  BY <1>1, WordsSame DEF IdOfName, Renaming, Named, Declarations, Nodes, DeclarationToken
<1> SUFFICES ASSUME NeverFree(heap)', DistinctNames'
             PROVE  \A i \in 1..Len(schemas') : \A n \in DOMAIN schemas'[i].definitions :
                      /\ schemas'[i].definitions[n] \in Pointers(heap')
                      /\ BareId(heap', schemas'[i].definitions[n]) = IdOfName(n)
  BY <1>3 DEF NamedSchemas
<1>4. ASSUME NEW i \in 1..Len(schemas), NEW n \in DOMAIN schemas[i].definitions
      PROVE  /\ schemas[i].definitions[n] \in Pointers(heap')
             /\ BareId(heap', schemas[i].definitions[n]) = IdOfName(n)
  <2>1. /\ schemas[i].definitions[n] \in Pointers(heap)
        /\ BareId(heap, schemas[i].definitions[n]) = IdOfName(n)
    BY <1>1, <1>2 DEF NamedSchemas
  <2>. QED
    BY <1>1, <2>1 DEF SameIds, Contains
<1>5. CASE schemas' = schemas
  BY <1>4, <1>5
<1>6. ASSUME NEW error, NEW defs,
             schemas' = Append(schemas, [error |-> error, roots |-> rootTypes, definitions |-> defs]),
             \A n \in DOMAIN defs : defs[n] \in Pointers(heap') /\ BareId(heap', defs[n]) = IdOfName(n)
      PROVE  \A i \in 1..Len(schemas') : \A n \in DOMAIN schemas'[i].definitions :
               /\ schemas'[i].definitions[n] \in Pointers(heap')
               /\ BareId(heap', schemas'[i].definitions[n]) = IdOfName(n)
  <2> DEFINE schema == [error |-> error, roots |-> rootTypes, definitions |-> defs]
  <2>1. schema.definitions = defs /\ schemas' = Append(schemas, schema)
    BY <1>6
  <2> HIDE DEF schema
  <2>2. /\ Len(schemas) \in Nat /\ Len(schemas') = Len(schemas) + 1
        /\ \A j \in 1..Len(schemas) : schemas'[j] = schemas[j]
        /\ schemas'[Len(schemas) + 1] = schema
    BY <1>1, <2>1, AppendToSequence
  <2>3. \A i \in 1..Len(schemas') : i \in 1..Len(schemas) \/ i = Len(schemas) + 1
    BY <2>2
  <2>. QED
    BY <1>4, <1>6, <2>1, <2>2, <2>3
<1>7. CASE schemas' # schemas
  <2>1. PICK error, defs :
          /\ schemas' = Append(schemas, [error |-> error, roots |-> rootTypes, definitions |-> defs])
          /\ defs = <<>> \/ (phase = "collect" /\ heap' = heap /\ \E S \in SUBSET DOMAIN definitions : defs = Restrict(definitions, S))
    <3>1. AppendRootChildDefinitions \/ ReturnSchema \/ Recover
      BY <1>7 DEF NextGenerator, Generate, CreateSchema, ParseRequested, Parse, WrapRoot, StartCollecting,
                  Collect, generatorVars, allVars
    <3>2. CASE AppendRootChildDefinitions
      BY <1>7, <3>2 DEF AppendRootChildDefinitions, Fail
    <3>3. CASE Recover
      BY <3>3 DEF Recover, Fail
    <3>4. CASE ReturnSchema
      <4>1. heap' = heap /\ phase = "collect"
        BY <3>4 DEF ReturnSchema, parserVars, vars
      <4>. QED
        BY <3>4, <4>1 DEF ReturnSchema, Fail
    <3>. QED
      BY <3>1, <3>2, <3>3, <3>4
  <2>2. ASSUME NEW n \in DOMAIN defs
        PROVE  defs[n] \in Pointers(heap') /\ BareId(heap', defs[n]) = IdOfName(n)
    <3>1. defs # <<>>
      BY <2>2
    <3>2. PICK S \in SUBSET DOMAIN definitions : phase = "collect" /\ heap' = heap /\ defs = Restrict(definitions, S)
      BY <2>1, <3>1
    <3>3. n \in DOMAIN definitions /\ defs[n] = definitions[n]
      BY <2>2, <3>2 DEF Restrict
    <3>4. Collecting
      BY <3>2 DEF Collecting, SchemaInv
    <3>5. NeverFree(heap) /\ DistinctNames
      BY <1>1, <1>2
    <3>. QED
      BY <3>2, <3>3, <3>4, <3>5, DefinitionsNamed DEF SchemaInv, IdentityInv
  <2>. QED
    BY <1>6, <2>1, <2>2
<1>. QED
  BY <1>5, <1>7

LEMMA NamedSchemasAreInductive == GeneratorSpec => []NamedSchemas
<1>1. InitGenerator => NamedSchemas
  <2>1. InitGenerator => Len(schemas) = 0
    BY DEF InitGenerator
  <2>. QED
    BY <2>1 DEF NamedSchemas
<1>. QED
  BY <1>1, NamedSchemasStep, IdentityIsInductive, SchemaInvIsInductive, PTL DEF GeneratorSpec

\* A call that fails is the last one.
OnlyLastFails ==
  /\ phase # "idle" => \A i \in 1..Len(schemas) : schemas[i].error = ""
  /\ \A i \in 1..Len(schemas) - 1 : schemas[i].error = ""

LEMMA OnlyLastFailsStep ==
  ASSUME GeneratorInv, OnlyLastFails, [NextGenerator]_allVars
  PROVE  OnlyLastFails'
<1>0. IsSequence(schemas)
  BY DEF GeneratorInv, RequestInv
<1>1. CASE schemas' = schemas /\ phase' = phase
  BY <1>1 DEF OnlyLastFails
<1>2. CASE \E nodes \in Requests : CreateSchema(nodes)
  BY <1>2 DEF CreateSchema, OnlyLastFails
<1>3. CASE StartCollecting
  BY <1>3 DEF StartCollecting, OnlyLastFails
<1>4. ASSUME phase # "idle", phase' = "idle", NEW schema, schemas' = Append(schemas, schema)
      PROVE  OnlyLastFails'
  <2>1. /\ Len(schemas) \in Nat /\ Len(schemas') = Len(schemas) + 1
        /\ \A j \in 1..Len(schemas) : schemas'[j] = schemas[j]
    BY <1>0, <1>4, AppendToSequence
  <2>2. Len(schemas') - 1 = Len(schemas)
    BY <2>1
  <2>. QED
    BY <1>4, <2>1, <2>2 DEF OnlyLastFails
<1>5. CASE AppendRootChildDefinitions \/ ReturnSchema \/ Recover
  <2>1. phase # "idle"
    BY <1>5 DEF AppendRootChildDefinitions, ReturnSchema, Recover
  <2>2. \/ schemas' = schemas /\ phase' = phase
        \/ phase' = "idle" /\ \E schema : schemas' = Append(schemas, schema)
    <3>1. CASE AppendRootChildDefinitions
      BY <3>1 DEF AppendRootChildDefinitions, Fail
    <3>2. CASE ReturnSchema
      BY <3>2 DEF ReturnSchema, Fail
    <3>3. CASE Recover
      BY <3>3 DEF Recover, Fail
    <3>. QED
      BY <1>5, <3>1, <3>2, <3>3
  <2>. QED
    BY <1>1, <1>4, <2>1, <2>2
<1>6. UNCHANGED generatorVars => schemas' = schemas /\ phase' = phase
  BY DEF generatorVars
<1>7. ParseRequested \/ Parse \/ WrapRoot \/ Collect \/ UNCHANGED allVars => schemas' = schemas /\ phase' = phase
  BY <1>6 DEF ParseRequested, Parse, WrapRoot, Collect, allVars
<1>. QED
  BY <1>1, <1>2, <1>3, <1>5, <1>7 DEF NextGenerator, Generate

LEMMA OnlyTheLastFails == GeneratorSpec => []OnlyLastFails
<1>1. ASSUME InitGenerator PROVE OnlyLastFails
  <2>1. Len(schemas) = 0
    BY <1>1 DEF InitGenerator
  <2>. QED
    BY <2>1 DEF OnlyLastFails
<1>. QED
  BY <1>1, OnlyLastFailsStep, GeneratorIsInductive, PTL DEF GeneratorSpec

\* When a schema was returned, nothing is left to parse.
LEMMA LatestSucceeded ==
  ASSUME ParserInv, GeneratorInv, OnlyLastFails, Returned
  PROVE  Len(schemas) \in 1..Len(schemas) /\ (Latest.error = "" => UnsetIn(heap) = {})
<1>1. Len(schemas) \in Nat /\ Len(schemas) # 0
  <2>1. IsSequence(schemas) /\ schemas # <<>>
    BY DEF GeneratorInv, RequestInv, Returned
  <2>. QED
    BY <2>1, AppendToSequence, NoElements
<1>2. \A i \in 1..Len(schemas) : i = Len(schemas) \/ i \in 1..Len(schemas) - 1
  BY <1>1
<1>3. frames = <<>> => OpenReferences = {}
  <2>1. frames = <<>> => Len(frames) = 0
    OBVIOUS
  <2>. QED
    BY <2>1 DEF OpenReferences
<1>4. Len(schemas) \in 1..Len(schemas)
  BY <1>1
<1>5. Latest.error = "" => ~Failed
  BY <1>2 DEF OnlyLastFails, Latest, Failed
<1>6. ~Failed => frames = <<>>
  BY DEF GeneratorInv, IdleInv, Returned
<1>7. OpenReferences = {} => UnsetIn(heap) = {}
  BY DEF ParserInv, Inv, UnsetInv
<1>. QED
  BY <1>3, <1>4, <1>5, <1>6, <1>7

\* The members and aliased types are those of the declaration over all calls of a
\* generator: an earlier request leaves nothing in the caches that changes what a
\* later one gets, and wrapping roots (chain.go:126-137) does not either.
THEOREM GeneratorFollowsTheSource == GeneratorSpec => []TypesFollowTheSource
<1>1. ParserInv /\ MeaningInv => TypesFollowTheSource
  BY SourceIsFollowed DEF ParserInv, MeaningInv
<1>. QED
  BY <1>1, MeaningIsInductive, GeneratorIsInductive, PTL

\* In a schema that was returned, a name stands for the type of every definition and
\* every reference of that name, to any depth, made for this request or an earlier
\* one, of this root or another: it does not matter which of them
\* appendRootChildDefinitions kept (generator.go:133-175).  So it is for programs
\* without T["m"] whose declarations have names of their own, when no declaration
\* turned out to be never.
THEOREM SchemasMeanTheirTypes == GeneratorSpec => [](IndexFree => RefsMeanTheirTypes)
<1>1. ParserInv /\ GeneratorInv /\ IdentityInv /\ MeaningInv /\ NamedSchemas /\ OnlyLastFails
        => (IndexFree => RefsMeanTheirTypes)
  <2> SUFFICES ASSUME ParserInv, GeneratorInv, IdentityInv, MeaningInv, NamedSchemas, OnlyLastFails, IndexFree,
                      Returned, Latest.error = "", DistinctNames, NothingIsNever,
                      NEW p \in Pointers(heap), heap[p].kind \in {"def", "ref"},
                      heap[p].name \in DOMAIN Latest.definitions
               PROVE  Unfolding(p, Depth) = Unfolding(Latest.definitions[heap[p].name], Depth)
    BY DEF RefsMeanTheirTypes
  <2>1. NeverFree(heap) /\ Inv /\ Typed /\ NamesInv /\ SourceInv
    BY NeverFreeIs DEF ParserInv, IdentityInv, MeaningInv
  <2>2. SoundHeap(heap) /\ WordedHeap(heap) /\ SourceHeap(heap) /\ NamedHeap(heap)
    BY <2>1 DEF Inv, Typed, SoundHeap, NamesInv, SourceInv
  <2>3. Len(schemas) \in 1..Len(schemas) /\ UnsetIn(heap) = {}
    BY LatestSucceeded
  <2> DEFINE q == Latest.definitions[heap[p].name]
  <2>4. q \in Pointers(heap) /\ BareId(heap, q) = IdOfName(heap[p].name)
    BY <2>1, <2>3 DEF NamedSchemas, Latest
  <2>5. BareId(heap, p) = IdOfName(heap[p].name)
    BY <2>2 DEF NamedHeap, NamesFit
  <2> HIDE DEF q
  <2>6. Unfolding(p, Depth) = Unfolding(q, Depth)
    BY <2>2, <2>3, <2>4, <2>5, IdsIdentify, DepthAssumption
  <2>. QED
    BY <2>6 DEF q
<1>. QED
  BY <1>1, IdentityIsInductive, MeaningIsInductive, NamedSchemasAreInductive, OnlyTheLastFails, PTL
=============================================================================
