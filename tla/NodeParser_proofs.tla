---------------------------- MODULE NodeParser_proofs ----------------------------
(***************************************************************************)
(* For every program and any number of roots: circular holds exactly the   *)
(* references of the calls that are open, every other reference has been   *)
(* set, and what has been made or set is never changed.                    *)
(***************************************************************************)
EXTENDS NodeParser, TLAPS

-----------------------------------------------------------------------------
(* Sequences of whatever there is *)

LEMMA SequenceOf ==
  ASSUME NEW S, NEW s \in Seq(S)
  PROVE  IsSequence(s)
BY DEF IsSequence

LEMMA AppendToSequence ==
  ASSUME NEW s, IsSequence(s), NEW x
  PROVE  /\ IsSequence(Append(s, x))
         /\ Len(s) \in Nat /\ Len(Append(s, x)) = Len(s) + 1
         /\ \A i \in 1..Len(s) : Append(s, x)[i] = s[i]
         /\ Append(s, x)[Len(s) + 1] = x
<1> DEFINE S == {s[i] : i \in DOMAIN s} \cup {x}
<1>1. s \in Seq(S) /\ x \in S
  BY DEF IsSequence
<1> HIDE DEF S
<1>2. Append(s, x) \in Seq(S)
  BY <1>1
<1>3. Len(s) \in Nat /\ Len(Append(s, x)) = Len(s) + 1
  BY <1>1
<1>4. Append(s, x)[Len(s) + 1] = x /\ \A i \in 1..Len(s) : Append(s, x)[i] = s[i]
  BY <1>1
<1>. QED
  BY <1>2, <1>3, <1>4, SequenceOf

LEMMA PushOnSequence ==
  ASSUME NEW s, IsSequence(s), NEW x
  PROVE  /\ IsSequence(<<x>> \o s)
         /\ Len(s) \in Nat /\ Len(<<x>> \o s) = Len(s) + 1
         /\ (<<x>> \o s)[1] = x
         /\ \A i \in 2..Len(s) + 1 : (<<x>> \o s)[i] = s[i - 1]
<1> DEFINE S == {s[i] : i \in DOMAIN s} \cup {x}
<1>1. s \in Seq(S) /\ <<x>> \in Seq(S)
  BY DEF IsSequence
<1> HIDE DEF S
<1>2. <<x>> \o s \in Seq(S)
  BY <1>1
<1>3. Len(s) \in Nat /\ Len(<<x>> \o s) = Len(s) + 1
  BY <1>1
<1>4. (<<x>> \o s)[1] = x /\ \A i \in 2..Len(s) + 1 : (<<x>> \o s)[i] = s[i - 1]
  BY <1>1
<1>. QED
  BY <1>2, <1>3, <1>4, SequenceOf

LEMMA TailOfSequence ==
  ASSUME NEW s, IsSequence(s), s # <<>>
  PROVE  /\ IsSequence(Tail(s))
         /\ Len(s) \in Nat \ {0} /\ Len(Tail(s)) = Len(s) - 1
         /\ Head(s) = s[1]
         /\ \A i \in 1..Len(s) - 1 : Tail(s)[i] = s[i + 1]
<1> DEFINE S == {s[i] : i \in DOMAIN s}
<1>1. s \in Seq(S)
  BY DEF IsSequence
<1> HIDE DEF S
<1>2. Tail(s) \in Seq(S)
  BY <1>1
<1>3. Len(s) \in Nat \ {0} /\ Head(s) = s[1] /\ Len(Tail(s)) = Len(s) - 1
  BY <1>1
<1>4. \A i \in 1..Len(s) - 1 : Tail(s)[i] = s[i + 1]
  BY <1>1
<1>. QED
  BY <1>2, <1>3, <1>4, SequenceOf

-----------------------------------------------------------------------------
(* The inductive invariant. *)

\* Types are records; what they are made of does not matter here.
IsType(t) == t = NewType(t.kind, t.id, t.name, t.subs)

HeapOK(h) == IsSequence(h) /\ \A p \in Pointers(h) : IsType(h[p])

UnsetIn(h) == {p \in Pointers(h) : h[p].kind = "ref" /\ ~HasType(h, p)}

IsFrame(f) == f = [node |-> f.node, key |-> f.key, ref |-> f.ref, ctx |-> f.ctx, vals |-> f.vals]

\* A call that is open has a reference of its own, unset, if its node is one that
\* can be met again.
FramesInv ==
  /\ IsSequence(frames)
  /\ \A i \in 1..Len(frames) :
       /\ IsFrame(frames[i])
       /\ IsCircular(frames[i].node) <=> frames[i].ref # 0
       /\ frames[i].ref # 0 => frames[i].ref \in UnsetIn(heap)
       /\ \A j \in 1..Len(frames) : frames[i].ref = frames[j].ref /\ frames[i].ref # 0 => i = j

\* No other reference is unset.
UnsetInv == UnsetIn(heap) \subseteq OpenReferences

Inv == HeapOK(heap) /\ FramesInv /\ UnsetInv /\ CircularIsOpen

-----------------------------------------------------------------------------
(* The heap *)

\* A new type, last in the heap, is unset only if it is a reference to nothing.
LEMMA Grown ==
  ASSUME NEW h, HeapOK(h), NEW t, IsType(t)
  PROVE  /\ HeapOK(Append(h, t))
         /\ Len(h) \in Nat /\ Len(Append(h, t)) = Len(h) + 1
         /\ Append(h, t)[Len(h) + 1] = t
         /\ t.kind # "ref" => UnsetIn(Append(h, t)) = UnsetIn(h)
         /\ t.kind = "ref" /\ t.subs = <<>> => UnsetIn(Append(h, t)) = UnsetIn(h) \cup {Len(h) + 1}
         /\ Len(h) + 1 \notin UnsetIn(h)
<1> DEFINE g == Append(h, t)
<1>1. /\ IsSequence(g) /\ Len(h) \in Nat /\ Len(g) = Len(h) + 1 /\ g[Len(h) + 1] = t
      /\ \A i \in 1..Len(h) : g[i] = h[i]
  BY AppendToSequence DEF HeapOK
<1> HIDE DEF g
<1>2. Pointers(g) = Pointers(h) \cup {Len(h) + 1} /\ Len(h) + 1 \notin Pointers(h)
  BY <1>1 DEF Pointers
<1>3. HeapOK(g)
  BY <1>1, <1>2 DEF HeapOK, Pointers
<1>4. \A p \in Pointers(h) : p \in UnsetIn(g) <=> p \in UnsetIn(h)
  BY <1>1, <1>2 DEF UnsetIn, HasType, Pointers
<1>5. Len(h) + 1 \in UnsetIn(g) <=> t.kind = "ref" /\ t.subs = <<>>
  BY <1>1, <1>2 DEF UnsetIn, HasType
<1>6. UnsetIn(g) \subseteq Pointers(g) /\ UnsetIn(h) \subseteq Pointers(h)
  BY DEF UnsetIn
<1>7. t.kind # "ref" => UnsetIn(g) = UnsetIn(h)
  BY <1>2, <1>4, <1>5, <1>6
<1>8. t.kind = "ref" /\ t.subs = <<>> => UnsetIn(g) = UnsetIn(h) \cup {Len(h) + 1}
  BY <1>2, <1>4, <1>5, <1>6
<1>. QED
  BY <1>1, <1>2, <1>3, <1>6, <1>7, <1>8 DEF g

\* SetType sets the reference and leaves the other types alone.
LEMMA Set ==
  ASSUME NEW h, HeapOK(h), NEW r \in UnsetIn(h), NEW p
  PROVE  /\ HeapOK(SetType(h, r, p)) /\ UnsetIn(SetType(h, r, p)) = UnsetIn(h) \ {r}
         /\ Pointers(SetType(h, r, p)) = Pointers(h)
         /\ SetType(h, r, p)[r].kind = h[r].kind /\ SetType(h, r, p)[r].subs = <<p>>
         /\ SetType(h, r, p)[r].name = TypeName(h, p)
         /\ \A q \in Pointers(h) \ {r} : SetType(h, r, p)[q] = h[q]
<1> DEFINE id == TypeId(h, p)
           name == TypeName(h, p)
           type == NewType(h[r].kind, id, name, <<p>>)
           g == SetType(h, r, p)
           S == {h[i] : i \in DOMAIN h} \cup {type}
<1>1. r \in Pointers(h) /\ h[r] = NewType(h[r].kind, h[r].id, h[r].name, h[r].subs)
  BY DEF UnsetIn, HeapOK, IsType
<1>2. h \in Seq(S) /\ r \in DOMAIN h /\ DOMAIN h = Pointers(h) /\ type \in S
  BY <1>1 DEF HeapOK, IsSequence, Pointers
<1>3. g = [h EXCEPT ![r] = type]
  <2> HIDE DEF id, name
  <2>1. g = [h EXCEPT ![r].subs = <<p>>, ![r].id = id, ![r].name = name]
    BY DEF SetType, id, name
  <2>2. DOMAIN g = DOMAIN h /\ \A q \in DOMAIN h \ {r} : g[q] = h[q]
    BY <1>2, <2>1
  <2>3. g[r] = [[[h[r] EXCEPT !.subs = <<p>>] EXCEPT !.id = id] EXCEPT !.name = name]
    BY <1>2, <2>1
  <2>4. g[r] = type
    BY <1>1, <2>3 DEF NewType
  <2>5. g = [q \in DOMAIN g |-> g[q]]
    BY <2>1
  <2> HIDE DEF g, type
  <2>. QED
    BY <1>2, <2>2, <2>4, <2>5
<1> HIDE DEF g, type, S
<1>4. g \in Seq(S) /\ Pointers(g) = Pointers(h)
  BY <1>2, <1>3 DEF Pointers
<1>5. g[r] = type /\ \A q \in Pointers(h) \ {r} : g[q] = h[q]
  BY <1>2, <1>3
<1>6. /\ IsType(type) /\ type.kind = h[r].kind /\ type.name = name /\ type.subs = <<p>>
      /\ type.subs # <<>>
  BY DEF IsType, type, NewType
<1>7. HeapOK(g)
  BY <1>4, <1>5, <1>6, SequenceOf DEF HeapOK
<1>8. r \notin UnsetIn(g)
  BY <1>5, <1>6 DEF UnsetIn, HasType
<1>9. \A q \in Pointers(h) \ {r} : q \in UnsetIn(g) <=> q \in UnsetIn(h)
  BY <1>4, <1>5 DEF UnsetIn, HasType
<1>10. UnsetIn(g) = UnsetIn(h) \ {r}
  BY <1>4, <1>8, <1>9 DEF UnsetIn
<1>. QED
  BY <1>4, <1>5, <1>6, <1>7, <1>10 DEF g

-----------------------------------------------------------------------------
(* Calls and returns *)

\* The same calls, which have got another value at most.
Like(fs, gs) ==
  /\ IsSequence(fs)
  /\ Len(fs) = Len(gs)
  /\ \A i \in 1..Len(gs) :
       /\ IsFrame(fs[i])
       /\ fs[i].node = gs[i].node /\ fs[i].key = gs[i].key /\ fs[i].ref = gs[i].ref

\* Delivering a value leaves the calls that are open as they are.
LEMMA Delivered ==
  ASSUME NEW p, NEW callers, IsSequence(callers), \A i \in 1..Len(callers) : IsFrame(callers[i]),
         Deliver(p, callers)
  PROVE  Like(frames', callers)
<1>1. CASE callers = <<>>
  <2>1. frames' = <<>>
    BY <1>1 DEF Deliver
  <2>2. <<>> \in Seq({})
    OBVIOUS
  <2>3. IsSequence(<<>>) /\ Len(<<>>) = 0
    BY <2>2, SequenceOf
  <2>. QED
    BY <1>1, <2>1, <2>3 DEF Like
<1>2. CASE callers # <<>>
  <2> DEFINE top == [Head(callers) EXCEPT !.vals = Append(@, p)]
  <2>1. frames' = <<top>> \o Tail(callers)
    BY <1>2 DEF Deliver
  <2>2. /\ IsSequence(Tail(callers)) /\ Len(callers) \in Nat \ {0} /\ Len(Tail(callers)) = Len(callers) - 1
        /\ Head(callers) = callers[1]
        /\ \A i \in 1..Len(callers) - 1 : Tail(callers)[i] = callers[i + 1]
    BY <1>2, TailOfSequence
  <2>3. IsFrame(callers[1])
    BY <2>2
  <2>4. /\ IsFrame(top)
        /\ top.node = callers[1].node /\ top.key = callers[1].key /\ top.ref = callers[1].ref
    <3> DEFINE f == callers[1]
               v == Append(f.vals, p)
    <3>1. top = [f EXCEPT !.vals = v]
      BY <2>2
    <3> HIDE DEF top, v
    <3>2. top = [node |-> f.node, key |-> f.key, ref |-> f.ref, ctx |-> f.ctx, vals |-> v]
      BY <2>3, <3>1 DEF IsFrame
    <3>. QED
      BY <3>2 DEF IsFrame
  <2> HIDE DEF top
  <2>5. /\ IsSequence(frames') /\ Len(frames') = Len(callers) /\ frames'[1] = top
        /\ \A i \in 2..Len(callers) : frames'[i] = Tail(callers)[i - 1]
    <3>1. Len(Tail(callers)) + 1 = Len(callers)
      BY <2>2
    <3> DEFINE rest == Tail(callers)
    <3>2. IsSequence(rest)
      BY <2>2
    <3> HIDE DEF rest
    <3>3. /\ IsSequence(<<top>> \o rest) /\ Len(<<top>> \o rest) = Len(rest) + 1 /\ (<<top>> \o rest)[1] = top
          /\ \A i \in 2..Len(rest) + 1 : (<<top>> \o rest)[i] = rest[i - 1]
      BY <3>2, PushOnSequence
    <3>. QED
      BY <2>1, <3>1, <3>3 DEF rest
  <2>6. \A i \in 2..Len(callers) : frames'[i] = callers[i]
    BY <2>2, <2>5
  <2>7. \A i \in 1..Len(callers) : i = 1 \/ i \in 2..Len(callers)
    BY <2>2
  <2>. QED
    BY <2>4, <2>5, <2>6, <2>7 DEF Like
<1>. QED
  BY <1>1, <1>2

\* A step that opens and closes no declaration, and may add a type to the heap.
LEMMA SameCalls ==
  ASSUME Inv, prog' = prog, circular' = circular, HeapOK(heap'), UnsetIn(heap') = UnsetIn(heap),
         Like(frames', frames)
  PROVE  Inv'
<1>1. Len(frames) \in Nat /\ IsSequence(frames') /\ Len(frames') = Len(frames)
  BY AppendToSequence DEF Inv, FramesInv, Like
<1>2. \A i \in 1..Len(frames) :
        IsFrame(frames'[i]) /\ frames'[i].node = frames[i].node /\ frames'[i].key = frames[i].key
          /\ frames'[i].ref = frames[i].ref
  BY DEF Like
<1>3. FramesInv'
  BY <1>1, <1>2 DEF Inv, FramesInv, IsCircular
<1>4. OpenReferences' = OpenReferences
  BY <1>1, <1>2 DEF OpenReferences
<1>5. CircularIsOpen'
  <2>1. {frames'[i].key : i \in {j \in 1..Len(frames) : frames'[j].ref # 0}}
          = {frames[i].key : i \in {j \in 1..Len(frames) : frames[j].ref # 0}}
    BY <1>2
  <2>2. DOMAIN circular' = {frames'[i].key : i \in {j \in 1..Len(frames') : frames'[j].ref # 0}}
    BY <1>1, <2>1 DEF Inv, CircularIsOpen
  <2>3. \A i \in 1..Len(frames') : frames'[i].ref # 0 => circular'[frames'[i].key] = frames'[i].ref
    BY <1>1, <1>2 DEF Inv, CircularIsOpen
  <2>. QED
    BY <2>2, <2>3 DEF CircularIsOpen
<1>. QED
  BY <1>3, <1>4, <1>5 DEF Inv, UnsetInv

\* A call of a node that cannot be met again.
LEMMA Opened ==
  ASSUME Inv, prog' = prog, circular' = circular, heap' = heap,
         NEW f, IsFrame(f), f.ref = 0, ~IsCircular(f.node), frames' = <<f>> \o frames
  PROVE  Inv'
<1>1. /\ IsSequence(frames') /\ Len(frames) \in Nat /\ Len(frames') = Len(frames) + 1
      /\ frames'[1] = f /\ \A i \in 2..Len(frames) + 1 : frames'[i] = frames[i - 1]
  BY PushOnSequence DEF Inv, FramesInv
<1>2. \A i \in 1..Len(frames) : i + 1 \in 2..Len(frames) + 1 /\ frames'[i + 1] = frames[i]
  BY <1>1
<1>3. \A i \in 1..Len(frames') : i = 1 \/ (i \in 2..Len(frames) + 1 /\ i - 1 \in 1..Len(frames))
  BY <1>1
<1>4. FramesInv'
  BY <1>1, <1>3 DEF Inv, FramesInv, IsCircular
<1>5. OpenReferences \subseteq OpenReferences'
  BY <1>1, <1>2 DEF OpenReferences
<1>6. CircularIsOpen'
  <2>1. \A i \in 1..Len(frames') : frames'[i].ref # 0 =>
          /\ i - 1 \in 1..Len(frames)
          /\ frames'[i] = frames[i - 1] /\ frames[i - 1].ref # 0
    BY <1>1, <1>3
  <2>2. {frames'[i].key : i \in {j \in 1..Len(frames') : frames'[j].ref # 0}}
          = {frames[i].key : i \in {j \in 1..Len(frames) : frames[j].ref # 0}}
    <3>1. ASSUME NEW i \in 1..Len(frames'), frames'[i].ref # 0
          PROVE  \E j \in 1..Len(frames) : frames[j].ref # 0 /\ frames[j].key = frames'[i].key
      BY <2>1, <3>1
    <3>2. ASSUME NEW i \in 1..Len(frames), frames[i].ref # 0
          PROVE  \E j \in 1..Len(frames') : frames'[j].ref # 0 /\ frames'[j].key = frames[i].key
      <4>1. i + 1 \in 1..Len(frames')
        BY <1>1
      <4>. QED
        BY <1>2, <3>2, <4>1
    <3> DEFINE now == {frames'[i].key : i \in {j \in 1..Len(frames') : frames'[j].ref # 0}}
               before == {frames[i].key : i \in {j \in 1..Len(frames) : frames[j].ref # 0}}
    <3>3. now \subseteq before
      BY <3>1
    <3>4. before \subseteq now
      BY <3>2
    <3> HIDE DEF now, before
    <3>5. now = before
      BY <3>3, <3>4
    <3>. QED
      BY <3>5 DEF now, before
  <2>3. DOMAIN circular' = {frames'[i].key : i \in {j \in 1..Len(frames') : frames'[j].ref # 0}}
    BY <2>2 DEF Inv, CircularIsOpen
  <2>4. \A i \in 1..Len(frames') : frames'[i].ref # 0 => circular'[frames'[i].key] = frames'[i].ref
    BY <2>1 DEF Inv, CircularIsOpen
  <2>. QED
    BY <2>3, <2>4 DEF CircularIsOpen
<1>. QED
  BY <1>4, <1>5, <1>6 DEF Inv, UnsetInv
\* A declaration is entered: its reference is new, so is its key.
LEMMA Entered ==
  ASSUME Inv, prog' = prog,
         NEW f, IsFrame(f), IsCircular(f.node), f.ref = Len(heap) + 1,
         HeapOK(heap'), UnsetIn(heap') = UnsetIn(heap) \cup {f.ref}, f.ref \notin UnsetIn(heap),
         f.key \notin DOMAIN circular, circular' = Put(circular, f.key, f.ref),
         frames' = <<f>> \o frames
  PROVE  Inv'
<1>1. /\ IsSequence(frames') /\ Len(frames) \in Nat /\ Len(frames') = Len(frames) + 1
      /\ frames'[1] = f /\ \A i \in 2..Len(frames) + 1 : frames'[i] = frames[i - 1]
      /\ Len(heap) \in Nat /\ f.ref # 0
  <2>1. IsSequence(heap) /\ IsSequence(frames)
    BY DEF Inv, FramesInv, HeapOK
  <2>2. Len(heap) \in Nat /\ f.ref # 0
    BY <2>1, AppendToSequence
  <2>. QED
    BY <2>1, <2>2, PushOnSequence
<1>2. \A i \in 1..Len(frames) : i + 1 \in 2..Len(frames) + 1 /\ i + 1 \in 1..Len(frames') /\ frames'[i + 1] = frames[i]
  BY <1>1
<1>3. \A i \in 1..Len(frames') : i = 1 \/ (i \in 2..Len(frames) + 1 /\ i - 1 \in 1..Len(frames))
  BY <1>1
<1>4. \A i \in 1..Len(frames) : frames[i].ref # f.ref
  BY <1>1 DEF Inv, FramesInv
<1>5. FramesInv'
  <2>1. ASSUME NEW i \in 1..Len(frames')
        PROVE  /\ IsFrame(frames'[i])
               /\ IsCircular(frames[i].node)' <=> frames'[i].ref # 0
               /\ frames'[i].ref # 0 => frames'[i].ref \in UnsetIn(heap')
    BY <1>1, <1>3 DEF Inv, FramesInv, IsCircular
  <2>2. ASSUME NEW i \in 1..Len(frames'), NEW j \in 1..Len(frames'),
               frames'[i].ref = frames'[j].ref, frames'[i].ref # 0
        PROVE  i = j
    <3>1. CASE i = 1 \/ j = 1
      BY <1>1, <1>3, <1>4, <2>2, <3>1
    <3>2. CASE i # 1 /\ j # 1
      <4>1. i - 1 \in 1..Len(frames) /\ j - 1 \in 1..Len(frames) /\ frames'[i] = frames[i - 1] /\ frames'[j] = frames[j - 1]
        BY <1>1, <1>3, <3>2
      <4>2. i - 1 = j - 1
        BY <2>2, <4>1 DEF Inv, FramesInv
      <4>. QED
        BY <1>1, <4>2
    <3>. QED
      BY <3>1, <3>2
  <2>. QED
    BY <1>1, <2>1, <2>2 DEF FramesInv
<1>6. OpenReferences \cup {f.ref} \subseteq OpenReferences'
  <2>1. 1 \in 1..Len(frames')
    BY <1>1
  <2>. QED
    BY <1>1, <1>2, <2>1 DEF OpenReferences
<1>7. CircularIsOpen'
  <2>0. /\ DOMAIN circular = {frames[i].key : i \in {j \in 1..Len(frames) : frames[j].ref # 0}}
        /\ \A i \in 1..Len(frames) : frames[i].ref # 0 => circular[frames[i].key] = frames[i].ref
    BY DEF Inv, CircularIsOpen
  <2>1. {frames'[i].key : i \in {j \in 1..Len(frames') : frames'[j].ref # 0}} = DOMAIN circular \cup {f.key}
    <3>1. ASSUME NEW i \in 1..Len(frames'), frames'[i].ref # 0 PROVE frames'[i].key \in DOMAIN circular \cup {f.key}
      <4>1. CASE i = 1
        BY <1>1, <4>1
      <4>2. CASE i # 1
        <5>1. i - 1 \in 1..Len(frames) /\ frames'[i] = frames[i - 1]
          BY <1>1, <1>3, <4>2
        <5>. QED
          BY <2>0, <3>1, <5>1
      <4>. QED
        BY <4>1, <4>2
    <3>2. ASSUME NEW k \in DOMAIN circular \cup {f.key}
          PROVE  \E i \in 1..Len(frames') : frames'[i].ref # 0 /\ frames'[i].key = k
      <4>1. CASE k = f.key
        BY <1>1, <4>1
      <4>2. CASE k # f.key
        <5>1. PICK i \in 1..Len(frames) : frames[i].ref # 0 /\ frames[i].key = k
          BY <2>0, <4>2
        <5>. QED
          BY <1>2, <5>1
      <4>. QED
        BY <4>1, <4>2
    <3> DEFINE now == {frames'[i].key : i \in {j \in 1..Len(frames') : frames'[j].ref # 0}}
               before == DOMAIN circular \cup {f.key}
    <3>3. now \subseteq before
      BY <3>1
    <3> HIDE DEF before
    <3>4. before \subseteq now
      BY <3>2 DEF before
    <3> HIDE DEF now
    <3>5. now = before
      BY <3>3, <3>4
    <3>. QED
      BY <3>5 DEF now, before
  <2>2. /\ DOMAIN circular' = DOMAIN circular \cup {f.key}
        /\ circular'[f.key] = f.ref
        /\ \A k \in DOMAIN circular : circular'[k] = circular[k]
    BY DEF Put
  <2>3. ASSUME NEW i \in 1..Len(frames'), frames'[i].ref # 0 PROVE circular'[frames'[i].key] = frames'[i].ref
    <3>1. CASE i = 1
      BY <1>1, <2>2, <3>1
    <3>2. CASE i # 1
      <4>1. i - 1 \in 1..Len(frames) /\ frames'[i] = frames[i - 1]
        BY <1>1, <1>3, <3>2
      <4>2. frames[i - 1].key \in DOMAIN circular
        BY <2>0, <2>3, <4>1
      <4>3. circular'[frames'[i].key] = frames'[i].ref
        <5>1. circular'[frames[i - 1].key] = circular[frames[i - 1].key]
          BY <2>2, <4>2
        <5>2. circular[frames[i - 1].key] = frames[i - 1].ref
          BY <2>0, <2>3, <4>1
        <5>. QED
          BY <4>1, <5>1, <5>2
      <4>. QED
        BY <4>3
    <3>. QED
      BY <3>1, <3>2
  <2>. QED
    BY <2>1, <2>2, <2>3 DEF CircularIsOpen
<1>. QED
  BY <1>5, <1>6, <1>7 DEF Inv, UnsetInv

\* What is left of the calls when the innermost one returns.
LEMMA Popped ==
  ASSUME Inv, frames # <<>>, Like(frames', Tail(frames))
  PROVE  /\ IsSequence(frames') /\ Len(frames) \in Nat \ {0} /\ Len(frames') = Len(frames) - 1
         /\ Top = frames[1] /\ 1 \in 1..Len(frames)
         /\ \A i \in 1..Len(frames') :
              /\ IsFrame(frames'[i]) /\ i + 1 \in 1..Len(frames)
              /\ frames'[i].node = frames[i + 1].node /\ frames'[i].key = frames[i + 1].key
              /\ frames'[i].ref = frames[i + 1].ref
         /\ \A i \in 1..Len(frames) : i = 1 \/ i - 1 \in 1..Len(frames')
<1>1. /\ IsSequence(frames') /\ Len(frames) \in Nat \ {0} /\ Len(Tail(frames)) = Len(frames) - 1
      /\ Len(frames') = Len(Tail(frames)) /\ Top = frames[1]
      /\ \A i \in 1..Len(frames) - 1 : Tail(frames)[i] = frames[i + 1]
  BY TailOfSequence DEF Inv, FramesInv, Like, Top
<1>2. \A i \in 1..Len(Tail(frames)) :
        /\ IsFrame(frames'[i])
        /\ frames'[i].node = Tail(frames)[i].node /\ frames'[i].key = Tail(frames)[i].key
        /\ frames'[i].ref = Tail(frames)[i].ref
  BY DEF Like
<1>. QED
  BY <1>1, <1>2

\* The calls that stay open keep what is said of them, if their references do.
LEMMA PoppedFrames ==
  ASSUME Inv, frames # <<>>, Like(frames', Tail(frames)), prog' = prog,
         \A i \in 2..Len(frames) : frames[i].ref # 0 => frames[i].ref \in UnsetIn(heap')
  PROVE  FramesInv'
<1>1. ASSUME NEW i \in 1..Len(frames')
      PROVE  /\ IsFrame(frames'[i])
             /\ IsCircular(frames[i].node)' <=> frames'[i].ref # 0
             /\ frames'[i].ref # 0 => frames'[i].ref \in UnsetIn(heap')
  <2>1. i + 1 \in 2..Len(frames) /\ frames'[i].node = frames[i + 1].node /\ frames'[i].ref = frames[i + 1].ref
        /\ IsFrame(frames'[i])
    BY Popped
  <2>. QED
    BY <2>1 DEF Inv, FramesInv, IsCircular
<1>2. ASSUME NEW i \in 1..Len(frames'), NEW j \in 1..Len(frames'),
             frames'[i].ref = frames'[j].ref, frames'[i].ref # 0
      PROVE  i = j
  <2>1. /\ i + 1 \in 1..Len(frames) /\ j + 1 \in 1..Len(frames)
        /\ frames[i + 1].ref = frames[j + 1].ref /\ frames[i + 1].ref # 0
    BY <1>2, Popped
  <2>2. i + 1 = j + 1
    BY <2>1 DEF Inv, FramesInv
  <2>. QED
    BY <2>2
<1>. QED
  BY <1>1, <1>2, Popped DEF FramesInv

\* A call returns that has no reference.
LEMMA ReturnedHeap ==
  ASSUME Inv, frames # <<>>, Like(frames', Tail(frames)), prog' = prog, circular' = circular,
         Top.ref = 0, HeapOK(heap'), UnsetIn(heap') = UnsetIn(heap)
  PROVE  Inv'
<1>1. FramesInv'
  <2>1. \A i \in 2..Len(frames) : i \in 1..Len(frames)
    BY Popped
  <2>. QED
    BY <2>1, PoppedFrames DEF Inv, FramesInv
<1>2. ASSUME NEW i \in 1..Len(frames), frames[i].ref # 0
      PROVE  /\ i - 1 \in 1..Len(frames')
             /\ frames'[i - 1].key = frames[i].key /\ frames'[i - 1].ref = frames[i].ref
  BY <1>2, Popped
<1>3. OpenReferences \subseteq OpenReferences'
  BY <1>2 DEF OpenReferences
<1>4. CircularIsOpen'
  <2>1. {frames'[i].key : i \in {j \in 1..Len(frames') : frames'[j].ref # 0}}
          = {frames[i].key : i \in {j \in 1..Len(frames) : frames[j].ref # 0}}
    <3>1. ASSUME NEW i \in 1..Len(frames'), frames'[i].ref # 0
          PROVE  \E j \in 1..Len(frames) : frames[j].ref # 0 /\ frames[j].key = frames'[i].key
      BY <3>1, Popped
    <3>2. ASSUME NEW i \in 1..Len(frames), frames[i].ref # 0
          PROVE  \E j \in 1..Len(frames') : frames'[j].ref # 0 /\ frames'[j].key = frames[i].key
      BY <1>2, <3>2
    <3> DEFINE now == {frames'[i].key : i \in {j \in 1..Len(frames') : frames'[j].ref # 0}}
               before == {frames[i].key : i \in {j \in 1..Len(frames) : frames[j].ref # 0}}
    <3>3. now \subseteq before
      BY <3>1
    <3>4. before \subseteq now
      BY <3>2
    <3> HIDE DEF now, before
    <3>5. now = before
      BY <3>3, <3>4
    <3>. QED
      BY <3>5 DEF now, before
  <2>2. DOMAIN circular' = {frames'[i].key : i \in {j \in 1..Len(frames') : frames'[j].ref # 0}}
    BY <2>1 DEF Inv, CircularIsOpen
  <2>3. \A i \in 1..Len(frames') : frames'[i].ref # 0 => circular'[frames'[i].key] = frames'[i].ref
    BY Popped DEF Inv, CircularIsOpen
  <2>. QED
    BY <2>2, <2>3 DEF CircularIsOpen
<1>. QED
  BY <1>1, <1>3, <1>4 DEF Inv, UnsetInv

\* A declaration is done: its reference is set and taken out of circular.
LEMMA Closed ==
  ASSUME Inv, frames # <<>>, Like(frames', Tail(frames)), prog' = prog, Top.ref # 0,
         HeapOK(heap'), UnsetIn(heap') = UnsetIn(heap) \ {Top.ref}, circular' = Remove(circular, Top.key)
  PROVE  Inv'
<1>0. Top = frames[1] /\ 1 \in 1..Len(frames) /\ \A i \in 2..Len(frames) : i \in 1..Len(frames) /\ i # 1
  BY Popped
<1>1. \A i \in 2..Len(frames) : frames[i].ref # Top.ref
  BY <1>0 DEF Inv, FramesInv
<1>2. FramesInv'
  <2>1. \A i \in 2..Len(frames) : frames[i].ref # 0 => frames[i].ref \in UnsetIn(heap')
    BY <1>0, <1>1 DEF Inv, FramesInv
  <2>. QED
    BY <2>1, PoppedFrames
<1>3. ASSUME NEW i \in 2..Len(frames)
      PROVE  /\ i - 1 \in 1..Len(frames')
             /\ frames'[i - 1].key = frames[i].key /\ frames'[i - 1].ref = frames[i].ref
  BY Popped
<1>4. \A i \in 1..Len(frames) : i = 1 \/ i \in 2..Len(frames)
  BY Popped
<1>5. OpenReferences \ {Top.ref} \subseteq OpenReferences'
  BY <1>0, <1>3, <1>4 DEF OpenReferences
<1>6. CircularIsOpen'
  <2>0. /\ DOMAIN circular = {frames[i].key : i \in {j \in 1..Len(frames) : frames[j].ref # 0}}
        /\ \A i \in 1..Len(frames) : frames[i].ref # 0 => circular[frames[i].key] = frames[i].ref
    BY DEF Inv, CircularIsOpen
  <2>1. \A i \in 2..Len(frames) : frames[i].ref # 0 => frames[i].key # Top.key
    BY <1>0, <1>1, <2>0
  <2>2. /\ DOMAIN circular' = DOMAIN circular \ {Top.key}
        /\ \A k \in DOMAIN circular \ {Top.key} : circular'[k] = circular[k]
    BY DEF Remove
  <2>3. \A i \in 1..Len(frames') :
          i + 1 \in 2..Len(frames) /\ frames'[i].key = frames[i + 1].key /\ frames'[i].ref = frames[i + 1].ref
    BY Popped
  <2>4. {frames'[i].key : i \in {j \in 1..Len(frames') : frames'[j].ref # 0}} = DOMAIN circular \ {Top.key}
    <3>1. ASSUME NEW i \in 1..Len(frames'), frames'[i].ref # 0 PROVE frames'[i].key \in DOMAIN circular \ {Top.key}
      BY <1>0, <2>0, <2>1, <2>3, <3>1
    <3>2. ASSUME NEW k \in DOMAIN circular \ {Top.key}
          PROVE  \E i \in 1..Len(frames') : frames'[i].ref # 0 /\ frames'[i].key = k
      <4>1. PICK i \in 1..Len(frames) : frames[i].ref # 0 /\ frames[i].key = k
        BY <2>0
      <4>2. i \in 2..Len(frames)
        BY <1>0, <1>4, <4>1
      <4>. QED
        BY <1>3, <4>1, <4>2
    <3>. QED
      BY <3>1, <3>2
  <2>5. ASSUME NEW i \in 1..Len(frames'), frames'[i].ref # 0 PROVE circular'[frames'[i].key] = frames'[i].ref
    <3>1. frames'[i].key \in DOMAIN circular \ {Top.key}
      BY <2>4, <2>5
    <3>2. /\ i + 1 \in 1..Len(frames) /\ frames[i + 1].ref # 0
          /\ frames'[i].key = frames[i + 1].key /\ frames'[i].ref = frames[i + 1].ref
      BY <1>0, <2>3, <2>5
    <3>. QED
      BY <2>0, <2>2, <3>1, <3>2
  <2>. QED
    BY <2>2, <2>4, <2>5 DEF CircularIsOpen
<1>. QED
  BY <1>2, <1>5, <1>6 DEF Inv, UnsetInv
-----------------------------------------------------------------------------
(* The actions *)

LEMMA Constructors ==
  /\ \A kind, id, name, subs : IsType(NewType(kind, id, name, subs)) /\ NewType(kind, id, name, subs).kind = kind
  /\ \A name : IsType(Prim(name)) /\ Prim(name).kind # "ref"
  /\ IsType(Never) /\ Never.kind # "ref"
  /\ IsType(Unknown) /\ Unknown.kind # "ref"
  /\ \A subs : IsType(TupleOf(subs)) /\ TupleOf(subs).kind # "ref"
  /\ \A id, subs : IsType(Object(id, subs)) /\ Object(id, subs).kind # "ref"
  /\ \A id, inner : IsType(Alias(id, inner)) /\ Alias(id, inner).kind # "ref"
  /\ \A name, inner : IsType(Definition(name, inner)) /\ Definition(name, inner).kind # "ref"
  /\ \A id, name : /\ IsType(Reference(id, name))
                   /\ Reference(id, name).kind = "ref" /\ Reference(id, name).subs = <<>>
<1>1. \A kind, id, name, subs : IsType(NewType(kind, id, name, subs)) /\ NewType(kind, id, name, subs).kind = kind
                                /\ NewType(kind, id, name, subs).subs = subs
  BY DEF IsType, NewType
<1>. QED
  BY <1>1 DEF Prim, Never, Unknown, TupleOf, Object, Alias, Definition, Reference

\* A node is asked for: from the cache, as a reference, or by a new call.
LEMMA CreateTypeStep ==
  ASSUME Inv, prog' = prog, NEW call, CreateType(call, frames)
  PROVE  Inv'
<1>1. CASE UseCache(call, frames) \/ UseCircular(call, frames)
  <2>1. heap' = heap /\ circular' = circular /\ \E p : Deliver(p, frames)
    BY <1>1 DEF UseCache, UseCircular
  <2>2. Like(frames', frames)
    BY <2>1, Delivered DEF Inv, FramesInv
  <2>. QED
    BY <2>1, <2>2, SameCalls DEF Inv
<1>2. CASE Enter(call, frames)
  <2> DEFINE id == DeclarationId(call.node, call.ctx)
             name == IF prog[call.node].kind = "alias" THEN DeclarationName(call.node, call.ctx) ELSE id
             key == NodeKey(call.node, call.ctx)
             ctx == [call.ctx EXCEPT !.params = IF prog[call.node].kind = "literal" THEN @
                                                ELSE prog[call.node].params]
             declaration == [node |-> call.node, key |-> key, ref |-> Len(heap) + 1, vals |-> <<>>, ctx |-> ctx]
             other == [node |-> call.node, key |-> key, ref |-> 0, ctx |-> call.ctx, vals |-> <<>>]
  <2>1. CASE IsCircular(call.node)
    <3>1. /\ key \notin DOMAIN circular
          /\ heap' = Append(heap, Reference(id, name))
          /\ circular' = Put(circular, key, Len(heap) + 1)
          /\ frames' = <<declaration>> \o frames
      BY <1>2, <2>1 DEF Enter
    <3>2. /\ declaration.node = call.node /\ declaration.key = key /\ declaration.ref = Len(heap) + 1
          /\ IsFrame(declaration)
      BY DEF IsFrame
    <3> HIDE DEF id, name, key, declaration
    <3>3. /\ HeapOK(heap') /\ UnsetIn(heap') = UnsetIn(heap) \cup {Len(heap) + 1}
          /\ Len(heap) + 1 \notin UnsetIn(heap)
      <4> DEFINE new == Reference(id, name)
      <4>1. IsType(new) /\ new.kind = "ref" /\ new.subs = <<>> /\ heap' = Append(heap, new)
        BY <3>1, Constructors
      <4> HIDE DEF new
      <4>. QED
        BY <4>1, Grown DEF Inv
    <3>. QED
      BY <2>1, <3>1, <3>2, <3>3, Entered
  <2>2. CASE ~IsCircular(call.node)
    <3>1. heap' = heap /\ circular' = circular /\ frames' = <<other>> \o frames
      BY <1>2, <2>2 DEF Enter
    <3>2. other.node = call.node /\ other.ref = 0 /\ IsFrame(other)
      BY DEF IsFrame
    <3> HIDE DEF other
    <3>. QED
      BY <2>2, <3>1, <3>2, Opened
  <2>. QED
    BY <2>1, <2>2
<1>. QED
  BY <1>1, <1>2 DEF CreateType

\* The innermost call.
LEMMA TopCall ==
  ASSUME Inv, frames # <<>>
  PROVE  /\ IsSequence(Tail(frames)) /\ \A i \in 1..Len(Tail(frames)) : IsFrame(Tail(frames)[i])
         /\ IsCircular(Top.node) <=> Top.ref # 0
         /\ Top.ref # 0 => Top.ref \in UnsetIn(heap)
<1>1. /\ IsSequence(Tail(frames)) /\ Len(frames) \in Nat \ {0} /\ Len(Tail(frames)) = Len(frames) - 1
      /\ Top = frames[1] /\ \A i \in 1..Len(frames) - 1 : Tail(frames)[i] = frames[i + 1]
  BY TailOfSequence DEF Inv, FramesInv, Top
<1>2. 1 \in 1..Len(frames) /\ \A i \in 1..Len(frames) - 1 : i + 1 \in 1..Len(frames)
  BY <1>1
<1>. QED
  BY <1>1, <1>2 DEF Inv, FramesInv

\* A call that is no declaration returns a type, new or not.
LEMMA ReturnStep ==
  ASSUME Inv, frames # <<>>, ~IsCircular(Top.node), circular' = circular, NEW h, NEW p, Return(h, p),
         h = heap \/ \E t : IsType(t) /\ t.kind # "ref" /\ h = Append(heap, t)
  PROVE  Inv'
<1>1. heap' = h /\ prog' = prog /\ Deliver(p, Tail(frames))
  BY DEF Return
<1>2. Like(frames', Tail(frames))
  BY <1>1, TopCall, Delivered
<1>3. HeapOK(h) /\ UnsetIn(h) = UnsetIn(heap)
  <2>1. HeapOK(heap)
    BY DEF Inv
  <2>2. ASSUME NEW t, IsType(t), t.kind # "ref" PROVE HeapOK(Append(heap, t)) /\ UnsetIn(Append(heap, t)) = UnsetIn(heap)
    <3> DEFINE g == Append(heap, t)
    <3>1. HeapOK(g) /\ (t.kind # "ref" => UnsetIn(g) = UnsetIn(heap))
      BY <2>1, <2>2, Grown
    <3>. QED
      BY <2>2, <3>1
  <2>3. CASE h = heap
    BY <2>1, <2>3
  <2>4. CASE h # heap
    <3>1. PICK t : IsType(t) /\ t.kind # "ref" /\ h = Append(heap, t)
      BY <2>4
    <3>. QED
      BY <2>2, <3>1
  <2>. QED
    BY <2>3, <2>4
<1>4. Top.ref = 0
  BY TopCall
<1>. QED
  BY <1>1, <1>2, <1>3, <1>4, ReturnedHeap

LEMMA ReturnNewStep ==
  ASSUME Inv, frames # <<>>, ~IsCircular(Top.node), circular' = circular,
         NEW t, IsType(t), t.kind # "ref", ReturnNew(t)
  PROVE  Inv'
BY ReturnStep DEF ReturnNew

LEMMA FinishDeclarationStep == Inv /\ FinishDeclaration => Inv'
<1> SUFFICES ASSUME Inv, FinishDeclaration PROVE Inv'
  OBVIOUS
<1> DEFINE n == Top.node
           id == heap[Top.ref].id
           never == \E i \in 1..Len(Top.vals) : IsNeverLike(heap, Top.vals[i])
           inner == IF never THEN Never
                    ELSE IF prog[n].kind = "alias" THEN Alias(id, Top.vals[1])
                    ELSE Object(id, Top.vals)
           base == Append(heap, inner)
           exposed == IF prog[n].exposed
                      THEN Append(base, Definition(DeclarationName(n, Top.ctx), Len(base)))
                      ELSE base
           h == SetType(exposed, Top.ref, Len(exposed))
<1>1. /\ frames # <<>> /\ prog[n].kind \in {"interface", "alias", "literal"}
      /\ Return(h, Len(exposed)) /\ circular' = Remove(circular, Top.key)
  BY DEF FinishDeclaration, Finished
<1>2. IsType(inner) /\ inner.kind # "ref"
  BY Constructors
<1> HIDE DEF id, inner, never
<1>3. HeapOK(base) /\ UnsetIn(base) = UnsetIn(heap)
  BY <1>2, Grown DEF Inv
<1> HIDE DEF base
<1>4. HeapOK(exposed) /\ UnsetIn(exposed) = UnsetIn(heap)
  <2> DEFINE definition == Definition(DeclarationName(n, Top.ctx), Len(base))
  <2>1. IsType(definition) /\ definition.kind # "ref" /\ (exposed = base \/ exposed = Append(base, definition))
    BY Constructors
  <2> HIDE DEF definition, exposed
  <2>2. HeapOK(Append(base, definition)) /\ UnsetIn(Append(base, definition)) = UnsetIn(base)
    BY <1>3, <2>1, Grown
  <2>. QED
    BY <1>3, <2>1, <2>2
<1> HIDE DEF exposed
<1>5. Top.ref # 0 /\ Top.ref \in UnsetIn(heap)
  BY <1>1, TopCall DEF IsCircular
<1>6. HeapOK(h) /\ UnsetIn(h) = UnsetIn(heap) \ {Top.ref}
  BY <1>4, <1>5, Set
<1> HIDE DEF h
<1>7. heap' = h /\ prog' = prog /\ Deliver(Len(exposed), Tail(frames))
  BY <1>1 DEF Return
<1>8. Like(frames', Tail(frames))
  BY <1>1, <1>7, TopCall, Delivered
<1>. QED
  BY <1>1, <1>5, <1>6, <1>7, <1>8, Closed

LEMMA FinishStep == Inv /\ Finish => Inv'
<1> SUFFICES ASSUME Inv, Finish PROVE Inv'
  OBVIOUS
<1>other. ASSUME NEW kinds, Finished(kinds), kinds \cap {"interface", "alias", "literal"} = {}
          PROVE  frames # <<>> /\ ~IsCircular(Top.node)
  BY <1>other DEF Finished, IsCircular
<1>1. CASE FinishLeaf
  <2>1. frames # <<>> /\ ~IsCircular(Top.node) /\ circular' = circular
    BY <1>1, <1>other DEF FinishLeaf
  <2>2. \E name : ReturnNew(Prim(name)) \/ ReturnNew(Never)
    BY <1>1 DEF FinishLeaf
  <2>. QED
    BY <2>1, <2>2, Constructors, ReturnNewStep
<1>2. CASE FinishTuple
  BY <1>2, <1>other, Constructors, ReturnNewStep DEF FinishTuple
<1>3. CASE FinishParameter
  <2>1. frames # <<>> /\ ~IsCircular(Top.node) /\ circular' = circular
    BY <1>3, <1>other DEF FinishParameter
  <2>2. ReturnNew(Unknown) \/ \E p : Return(heap, p)
    BY <1>3 DEF FinishParameter
  <2>. QED
    BY <2>1, <2>2, Constructors, ReturnNewStep, ReturnStep
<1>4. CASE FinishReference
  <2>1. frames # <<>> /\ ~IsCircular(Top.node) /\ circular' = circular
    BY <1>4, <1>other DEF FinishReference
  <2>2. \E p : Return(heap, p)
    BY <1>4 DEF FinishReference
  <2>. QED
    BY <2>1, <2>2, ReturnStep
<1>5. CASE FinishIndex
  <2>1. frames # <<>> /\ ~IsCircular(Top.node) /\ circular' = circular
    BY <1>5, <1>other DEF FinishIndex
  <2>2. ReturnNew(Never) \/ \E p : Return(heap, p)
    BY <1>5 DEF FinishIndex
  <2>. QED
    BY <2>1, <2>2, Constructors, ReturnNewStep, ReturnStep
<1>6. CASE FinishDeclaration
  BY <1>6, FinishDeclarationStep
<1>. QED
  BY <1>1, <1>2, <1>3, <1>4, <1>5, <1>6 DEF Finish

LEMMA InvInit == Init => Inv
<1> SUFFICES ASSUME Init PROVE Inv
  OBVIOUS
<1>1. <<>> \in Seq({}) /\ heap = <<>> /\ frames = <<>> /\ circular = <<>>
  BY DEF Init
<1>2. IsSequence(<<>>) /\ Len(<<>>) = 0
  BY <1>1, SequenceOf
<1>3. DOMAIN circular = {}
  BY <1>1
<1>. QED
  BY <1>1, <1>2, <1>3 DEF Inv, HeapOK, FramesInv, UnsetInv, UnsetIn, CircularIsOpen, Pointers

LEMMA InvStep == Inv /\ [Next]_vars => Inv'
<1> SUFFICES ASSUME Inv, [Next]_vars PROVE Inv'
  OBVIOUS
<1>1. CASE \E n \in Roots : ParseRoot(n)
  <2>1. frames = <<>> /\ prog' = prog /\ \E call : CreateType(call, <<>>)
    BY <1>1 DEF ParseRoot, Idle
  <2>. QED
    BY <2>1, CreateTypeStep
<1>2. CASE ParseNext
  <2>1. prog' = prog /\ \E call : CreateType(call, frames)
    BY <1>2 DEF ParseNext
  <2>. QED
    BY <2>1, CreateTypeStep
<1>3. CASE PanicOnNil \/ UNCHANGED vars
  <2>1. prog' = prog /\ heap' = heap /\ circular' = circular /\ frames' = frames
    BY <1>3 DEF PanicOnNil, vars
  <2>. QED
    BY <2>1 DEF Inv, FramesInv, UnsetInv, CircularIsOpen, OpenReferences, IsCircular
<1>4. CASE Finish
  BY <1>4, FinishStep
<1>. QED
  BY <1>1, <1>2, <1>3, <1>4 DEF Next, Step

LEMMA Inductive == Spec => []Inv
BY InvInit, InvStep, PTL DEF Spec

\* circular has the reference of every call of a declaration that is open and no
\* other, whatever is called from within it, and whatever was parsed before
\* (chain.go:85-104).
THEOREM CircularHasOpenCalls == Spec => []CircularIsOpen
<1>1. Inv => CircularIsOpen
  BY DEF Inv
<1>. QED
  BY <1>1, Inductive, PTL

LEMMA NothingDangles == Inv => NoDanglingReference
<1> SUFFICES ASSUME Inv PROVE Unset = OpenReferences
  BY DEF NoDanglingReference
<1>1. Unset = UnsetIn(heap)
  BY DEF Unset, UnsetIn
<1>2. OpenReferences \subseteq UnsetIn(heap)
  BY DEF Inv, FramesInv, OpenReferences
<1>. QED
  BY <1>1, <1>2 DEF Inv, UnsetInv

\* A reference is unset exactly as long as the call that made it is open: the
\* generator never gets a type that hangs on a reference to nothing
\* (chain.go:91-104, types.go:475-479).
THEOREM ReferencesAreSet == Spec => []NoDanglingReference
BY NothingDangles, Inductive, PTL

-----------------------------------------------------------------------------
(* What has been made stays as it is *)

Final(h, p) == h[p].kind # "ref" \/ HasType(h, p)

Extends(g, h) ==
  /\ Pointers(h) \subseteq Pointers(g)
  /\ \A p \in Pointers(h) : g[p].kind = h[p].kind /\ (Final(h, p) => g[p] = h[p])

\* A type keeps its kind; one that is no reference is never changed, nor is a
\* reference that is set.
TypesAreFinal == [][Extends(heap', heap)]_vars

LEMMA AppendExtends ==
  ASSUME NEW h, HeapOK(h), NEW t
  PROVE  Extends(Append(h, t), h)
<1> DEFINE g == Append(h, t)
<1>1. Len(h) \in Nat /\ Len(g) = Len(h) + 1 /\ \A i \in 1..Len(h) : g[i] = h[i]
  BY AppendToSequence DEF HeapOK
<1> HIDE DEF g
<1>2. Extends(g, h)
  BY <1>1 DEF Extends, Pointers
<1>. QED
  BY <1>2 DEF g

LEMMA ExtendsTwice ==
  ASSUME NEW f, NEW g, NEW h, Extends(f, g), Extends(g, h)
  PROVE  Extends(f, h)
BY DEF Extends, Final, HasType

LEMMA SetExtends ==
  ASSUME NEW h, HeapOK(h), NEW r \in UnsetIn(h), NEW p
  PROVE  Extends(SetType(h, r, p), h)
<1> DEFINE g == SetType(h, r, p)
<1>1. /\ Pointers(g) = Pointers(h) /\ r \in Pointers(h) /\ ~Final(h, r) /\ g[r].kind = h[r].kind
      /\ \A q \in Pointers(h) \ {r} : g[q] = h[q]
  BY Set DEF Final, UnsetIn
<1> HIDE DEF g
<1>2. Extends(g, h)
  BY <1>1 DEF Extends
<1>. QED
  BY <1>2 DEF g

LEMMA SameExtends == \A h : Extends(h, h)
BY DEF Extends

LEMMA DeclarationExtends == Inv /\ FinishDeclaration => Extends(heap', heap)
<1> SUFFICES ASSUME Inv, FinishDeclaration PROVE Extends(heap', heap)
  OBVIOUS
<1> DEFINE n == Top.node
           id == heap[Top.ref].id
           never == \E i \in 1..Len(Top.vals) : IsNeverLike(heap, Top.vals[i])
           inner == IF never THEN Never
                    ELSE IF prog[n].kind = "alias" THEN Alias(id, Top.vals[1])
                    ELSE Object(id, Top.vals)
           base == Append(heap, inner)
           definition == Definition(DeclarationName(n, Top.ctx), Len(base))
           exposed == IF prog[n].exposed THEN Append(base, definition) ELSE base
           h == SetType(exposed, Top.ref, Len(exposed))
<1>1. frames # <<>> /\ prog[n].kind \in {"interface", "alias", "literal"} /\ heap' = h
  BY DEF FinishDeclaration, Finished, Return
<1>2. IsType(inner) /\ inner.kind # "ref"
  BY Constructors
<1>3. IsType(definition) /\ definition.kind # "ref"
  BY Constructors
<1>4. exposed = base \/ exposed = Append(base, definition)
  OBVIOUS
<1> HIDE DEF inner, definition
<1>5. HeapOK(base) /\ UnsetIn(base) = UnsetIn(heap) /\ Extends(base, heap)
  BY <1>2, Grown, AppendExtends DEF Inv
<1> HIDE DEF base, exposed
<1>6. HeapOK(Append(base, definition)) /\ UnsetIn(Append(base, definition)) = UnsetIn(base)
  BY <1>3, <1>5, Grown
<1>7. Extends(Append(base, definition), heap)
  BY <1>5, AppendExtends, ExtendsTwice
<1>8. HeapOK(exposed) /\ UnsetIn(exposed) = UnsetIn(heap) /\ Extends(exposed, heap)
  BY <1>4, <1>5, <1>6, <1>7
<1>9. Top.ref \in UnsetIn(heap)
  BY <1>1, TopCall DEF IsCircular
<1>10. Extends(h, exposed)
  BY <1>8, <1>9, SetExtends
<1>. QED
  BY <1>1, <1>8, <1>10, ExtendsTwice

\* What any step may do to the heap.
LEMMA StepExtends == Inv /\ Next => Extends(heap', heap)
<1> SUFFICES ASSUME Inv, Next PROVE Extends(heap', heap)
  OBVIOUS
<1>1. ASSUME NEW call, NEW callers, CreateType(call, callers) PROVE Extends(heap', heap)
  <2>1. heap' = heap \/ \E t : heap' = Append(heap, t)
    BY <1>1 DEF CreateType, UseCache, UseCircular, Enter
  <2>. QED
    BY <2>1, SameExtends, AppendExtends DEF Inv
<1>2. CASE \E n \in Roots : ParseRoot(n)
  BY <1>1, <1>2 DEF ParseRoot
<1>3. CASE ParseNext
  BY <1>1, <1>3 DEF ParseNext
<1>4. CASE PanicOnNil
  BY <1>4, SameExtends DEF PanicOnNil
<1>5. CASE FinishLeaf \/ FinishTuple \/ FinishParameter \/ FinishReference \/ FinishIndex
  <2>1. (\E t : ReturnNew(t)) \/ \E p : Return(heap, p)
    BY <1>5 DEF FinishLeaf, FinishTuple, FinishParameter, FinishReference, FinishIndex
  <2>2. heap' = heap \/ \E t : heap' = Append(heap, t)
    BY <2>1 DEF ReturnNew, Return
  <2>. QED
    BY <2>2, SameExtends, AppendExtends DEF Inv
<1>6. CASE FinishDeclaration
  BY <1>6, DeclarationExtends
<1>. QED
  BY <1>2, <1>3, <1>4, <1>5, <1>6 DEF Next, Step, Finish

\* What a parser has returned, what the chain has cached and what the formatter
\* has read of it is never rewritten: all that a step does to the heap is to add
\* types and to set a reference that was unset (types.go:475-479, chain.go:52-57).
THEOREM TypesNeverChange == Spec => TypesAreFinal
<1>1. Inv /\ [Next]_vars => [Extends(heap', heap)]_vars
  BY StepExtends
<1>. QED
  BY <1>1, Inductive, PTL DEF Spec, TypesAreFinal

-----------------------------------------------------------------------------
(***************************************************************************)
(* Type correctness, for every program and any number of roots: no step    *)
(* leaves the program or the heap.  The invariant above says where the     *)
(* references of the open calls are; this one says what the calls hold.    *)
(***************************************************************************)
(* The invariant *)

\* A reference to a definition goes by the definition's name.
NamesAgree(h, r) == HasType(h, r) /\ h[h[r].subs[1]].kind = "def" => h[r].name = h[h[r].subs[1]].name

\* A type is made of types that are there; all but a reference of older ones.
TypedHeap(h) ==
  \A p \in Pointers(h) :
    /\ h[p].kind \in Kinds
    /\ h[p].subs \in Seq(Pointers(h))
    /\ h[p].kind \in {"alias", "def"} => h[p].subs # <<>>
    /\ h[p].kind # "ref" => \A i \in 1..Len(h[p].subs) : h[p].subs[i] < p
    /\ h[p].kind = "ref" => NamesAgree(h, p)

TypedContext(ctx, h) ==
  /\ ctx = [ref |-> ctx.ref, args |-> ctx.args, params |-> ctx.params, key |-> ctx.key]
  /\ ctx.args \in Seq(Pointers(h))

TypedFrame(f, h) ==
  /\ f.node \in Nodes
  /\ f.vals \in Seq(Pointers(h))
  /\ TypedContext(f.ctx, h)

TypedCache(cache, h) ==
  \A k \in DOMAIN cache : cache[k] \in Pointers(h) /\ h[cache[k]].kind # "ref"

Typed ==
  /\ prog \in Programs
  /\ TypedHeap(heap)
  /\ TypedCache(typeCaches, heap)
  /\ \A i \in 1..Len(frames) : TypedFrame(frames[i], heap)
  /\ asked \in Seq(Roots)
  /\ returned \in Seq(Pointers(heap))
  /\ panicked \in BOOLEAN

-----------------------------------------------------------------------------
(* A larger heap *)

\* Every type of h is in g, and of the same kind.
Contains(g, h) ==
  /\ Pointers(h) \subseteq Pointers(g)
  /\ \A p \in Pointers(h) : g[p].kind = h[p].kind

LEMMA ExtendsContains ==
  ASSUME NEW g, NEW h, Extends(g, h)
  PROVE  Contains(g, h)
BY DEF Extends, Contains

LEMMA WiderSequences ==
  ASSUME NEW S, NEW T, S \subseteq T
  PROVE  Seq(S) \subseteq Seq(T)
OBVIOUS

LEMMA TypedInLarger ==
  ASSUME NEW g, NEW h, Contains(g, h)
  PROVE  /\ Seq(Pointers(h)) \subseteq Seq(Pointers(g))
         /\ \A ctx : TypedContext(ctx, h) => TypedContext(ctx, g)
         /\ \A f : TypedFrame(f, h) => TypedFrame(f, g)
         /\ \A cache : TypedCache(cache, h) => TypedCache(cache, g)
<1>1. Seq(Pointers(h)) \subseteq Seq(Pointers(g))
  BY WiderSequences DEF Contains
<1>2. \A ctx : TypedContext(ctx, h) => TypedContext(ctx, g)
  BY <1>1 DEF TypedContext
<1>3. \A f : TypedFrame(f, h) => TypedFrame(f, g)
  BY <1>1, <1>2 DEF TypedFrame
<1>4. \A cache : TypedCache(cache, h) => TypedCache(cache, g)
  BY DEF TypedCache, Contains
<1>. QED
  BY <1>1, <1>2, <1>3, <1>4

\* A type of parts that are there already.
TypeOver(t, h) ==
  /\ IsType(t)
  /\ t.kind \in Kinds
  /\ t.subs \in Seq(Pointers(h))
  /\ t.kind \in {"alias", "def"} => t.subs # <<>>
  /\ t.kind = "ref" => t.subs = <<>>

LEMMA TypedGrown ==
  ASSUME NEW h, HeapOK(h), TypedHeap(h), NEW t, TypeOver(t, h)
  PROVE  /\ TypedHeap(Append(h, t)) /\ Contains(Append(h, t), h)
         /\ Len(h) + 1 \in Pointers(Append(h, t)) /\ Append(h, t)[Len(h) + 1] = t
         /\ Len(Append(h, t)) = Len(h) + 1
<1> DEFINE g == Append(h, t)
<1>1. /\ Len(h) \in Nat /\ Len(g) = Len(h) + 1 /\ g[Len(h) + 1] = t
      /\ \A p \in Pointers(h) : g[p] = h[p]
  BY AppendToSequence DEF HeapOK, Pointers
<1> HIDE DEF g
<1>2. Pointers(g) = Pointers(h) \cup {Len(h) + 1}
  BY <1>1 DEF Pointers
<1>3. Contains(g, h)
  BY <1>1, <1>2 DEF Contains
<1>4. Seq(Pointers(h)) \subseteq Seq(Pointers(g))
  BY <1>3, TypedInLarger
<1>5. ASSUME NEW p \in Pointers(g)
      PROVE  /\ g[p].kind \in Kinds /\ g[p].subs \in Seq(Pointers(g))
             /\ g[p].kind \in {"alias", "def"} => g[p].subs # <<>>
             /\ g[p].kind # "ref" => \A i \in 1..Len(g[p].subs) : g[p].subs[i] < p
             /\ g[p].kind = "ref" => NamesAgree(g, p)
  <2>1. CASE p \in Pointers(h)
    <3>1. g[p] = h[p] /\ h[p].subs \in Seq(Pointers(h))
      BY <1>1, <2>1 DEF TypedHeap
    <3>2. g[p].kind = "ref" => NamesAgree(g, p)
      <4>1. HasType(h, p) => h[p].subs[1] \in Pointers(h)
        BY <3>1 DEF HasType
      <4>2. h[p].kind = "ref" => NamesAgree(h, p)
        BY <2>1 DEF TypedHeap
      <4>. QED
        BY <1>1, <3>1, <4>1, <4>2 DEF NamesAgree, HasType
    <3>. QED
      BY <1>4, <2>1, <3>1, <3>2 DEF TypedHeap
  <2>2. CASE p = Len(h) + 1
    <3>1. g[p] = t /\ t.subs \in Seq(Pointers(h))
      BY <1>1, <2>2 DEF TypeOver
    <3>2. \A i \in 1..Len(t.subs) : t.subs[i] < p
      BY <1>1, <2>2, <3>1 DEF Pointers
    <3>. QED
      BY <1>4, <3>1, <3>2 DEF TypeOver, NamesAgree, HasType
  <2>. QED
    BY <1>2, <2>1, <2>2
<1>6. TypedHeap(g)
  BY <1>5 DEF TypedHeap
<1>. QED
  BY <1>1, <1>2, <1>3, <1>6 DEF g

LEMMA TypedSet ==
  ASSUME NEW h, HeapOK(h), TypedHeap(h), NEW r \in UnsetIn(h), NEW p \in Pointers(h)
  PROVE  TypedHeap(SetType(h, r, p)) /\ Contains(SetType(h, r, p), h)
<1> DEFINE g == SetType(h, r, p)
<1>1. /\ Pointers(g) = Pointers(h) /\ g[r].kind = h[r].kind /\ g[r].subs = <<p>>
      /\ g[r].name = TypeName(h, p)
      /\ \A q \in Pointers(h) \ {r} : g[q] = h[q]
      /\ h[r].kind = "ref" /\ r \in Pointers(h)
  BY Set DEF UnsetIn
<1> HIDE DEF g
<1>2. <<p>> \in Seq(Pointers(h)) /\ <<p>> # <<>> /\ <<p>>[1] = p
  OBVIOUS
<1>3. NamesAgree(g, r)
  BY <1>1, <1>2 DEF NamesAgree, TypeName
<1>4. ASSUME NEW q \in Pointers(h) \ {r}, h[q].kind = "ref" PROVE NamesAgree(g, q)
  <2>1. h[q].subs \in Seq(Pointers(h)) /\ NamesAgree(h, q) /\ g[q] = h[q]
    BY <1>1, <1>4 DEF TypedHeap
  <2>2. HasType(h, q) => h[q].subs[1] \in Pointers(h)
    BY <2>1 DEF HasType
  <2>. QED
    BY <1>1, <2>1, <2>2 DEF NamesAgree, HasType
<1>5. TypedHeap(g)
  BY <1>1, <1>2, <1>3, <1>4 DEF TypedHeap
<1>6. Contains(g, h)
  BY <1>1 DEF Contains
<1>. QED
  BY <1>5, <1>6 DEF g

\* The types the parsers make.
LEMMA TypesOver ==
  ASSUME NEW h
  PROVE  /\ \A name : TypeOver(Prim(name), h)
         /\ TypeOver(Never, h) /\ TypeOver(Unknown, h)
         /\ \A subs \in Seq(Pointers(h)) : TypeOver(TupleOf(subs), h)
         /\ \A id : \A subs \in Seq(Pointers(h)) : TypeOver(Object(id, subs), h)
         /\ \A id : \A p \in Pointers(h) : TypeOver(Alias(id, p), h)
         /\ \A name : \A p \in Pointers(h) : TypeOver(Definition(name, p), h)
         /\ \A id, name : TypeOver(Reference(id, name), h)
<1>1. \A kind, id, name, subs :
        /\ IsType(NewType(kind, id, name, subs))
        /\ NewType(kind, id, name, subs).kind = kind /\ NewType(kind, id, name, subs).subs = subs
  BY DEF IsType, NewType
<1>2. <<>> \in Seq(Pointers(h)) /\ \A p \in Pointers(h) : <<p>> \in Seq(Pointers(h)) /\ <<p>> # <<>>
  OBVIOUS
<1>3. ASSUME NEW kind \in Kinds, NEW id, NEW name, NEW subs \in Seq(Pointers(h)),
             kind \in {"alias", "def"} => subs # <<>>, kind = "ref" => subs = <<>>
      PROVE  TypeOver(NewType(kind, id, name, subs), h)
  BY <1>1, <1>3 DEF TypeOver
<1>4. /\ "prim" \in Kinds /\ "never" \in Kinds /\ "unknown" \in Kinds /\ "object" \in Kinds
      /\ "tuple" \in Kinds /\ "alias" \in Kinds /\ "def" \in Kinds /\ "ref" \in Kinds
  BY DEF Kinds
<1>5. \A name : TypeOver(Prim(name), h)
  BY <1>2, <1>3, <1>4 DEF Prim
<1>6. TypeOver(Never, h) /\ TypeOver(Unknown, h)
  BY <1>2, <1>3, <1>4 DEF Never, Unknown
<1>7. \A subs \in Seq(Pointers(h)) : TypeOver(TupleOf(subs), h)
  BY <1>2, <1>3, <1>4 DEF TupleOf
<1>8. \A id : \A subs \in Seq(Pointers(h)) : TypeOver(Object(id, subs), h)
  BY <1>2, <1>3, <1>4 DEF Object
<1>9. \A id : \A p \in Pointers(h) : TypeOver(Alias(id, p), h)
  BY <1>2, <1>3, <1>4 DEF Alias
<1>10. \A name : \A p \in Pointers(h) : TypeOver(Definition(name, p), h)
  BY <1>2, <1>3, <1>4 DEF Definition
<1>11. \A id, name : TypeOver(Reference(id, name), h)
  BY <1>2, <1>3, <1>4 DEF Reference
<1>. QED
  BY <1>5, <1>6, <1>7, <1>8, <1>9, <1>10, <1>11

-----------------------------------------------------------------------------
(* Calls and returns *)

LEMMA TypedDelivery ==
  ASSUME NEW h, NEW p \in Pointers(h), NEW callers, IsSequence(callers), prog' = prog,
         \A i \in 1..Len(callers) : IsFrame(callers[i]) /\ TypedFrame(callers[i], h),
         returned \in Seq(Pointers(h)), Deliver(p, callers)
  PROVE  /\ returned' \in Seq(Pointers(h))
         /\ \A i \in 1..Len(frames') : TypedFrame(frames'[i], h)
<1>1. CASE callers = <<>>
  <2>1. frames' = <<>> /\ returned' = Append(returned, p)
    BY <1>1 DEF Deliver
  <2>. QED
    BY <2>1
<1>2. CASE callers # <<>>
  <2> DEFINE f == callers[1]
             v == Append(f.vals, p)
             top == [f EXCEPT !.vals = v]
             rest == Tail(callers)
  <2>1. /\ IsSequence(rest) /\ Len(callers) \in Nat \ {0} /\ Len(rest) = Len(callers) - 1
        /\ Head(callers) = f /\ \A i \in 1..Len(callers) - 1 : rest[i] = callers[i + 1]
    BY <1>2, TailOfSequence
  <2>2. IsFrame(f) /\ TypedFrame(f, h)
    BY <2>1
  <2>3. frames' = <<top>> \o rest /\ returned' = returned
    BY <1>2, <2>1 DEF Deliver
  <2>4. v \in Seq(Pointers(h))
    BY <2>2 DEF TypedFrame
  <2> HIDE DEF v
  <2>5. top = [node |-> f.node, key |-> f.key, ref |-> f.ref, ctx |-> f.ctx, vals |-> v]
    BY <2>2 DEF IsFrame
  <2>6. top.node = f.node /\ top.ctx = f.ctx /\ top.vals = v
    BY <2>5
  <2> HIDE DEF top
  <2>7. TypedFrame(top, h)
    BY <2>2, <2>4, <2>6 DEF TypedFrame
  <2> HIDE DEF rest
  <2>8. /\ Len(frames') = Len(rest) + 1 /\ frames'[1] = top
        /\ \A i \in 2..Len(rest) + 1 : frames'[i] = rest[i - 1]
    BY <2>1, <2>3, PushOnSequence
  <2>9. ASSUME NEW i \in 1..Len(frames') PROVE TypedFrame(frames'[i], h)
    <3>1. CASE i = 1
      BY <2>7, <2>8, <3>1
    <3>2. CASE i # 1
      <4>1. /\ i \in 2..Len(rest) + 1 /\ i - 1 \in 1..Len(callers) - 1
            /\ i \in 1..Len(callers) /\ (i - 1) + 1 = i
        BY <2>1, <2>8, <3>2
      <4>2. frames'[i] = callers[i]
        BY <2>1, <2>8, <4>1
      <4>. QED
        BY <4>1, <4>2
    <3>. QED
      BY <3>1, <3>2
  <2>. QED
    BY <2>3, <2>9
<1>. QED
  BY <1>1, <1>2

\* The program does not change, nor does what its nodes and roots are.
LEMMA TypedSame ==
  ASSUME prog' = prog
  PROVE  /\ Roots' = Roots
         /\ \A f, h : TypedFrame(f, h)' <=> TypedFrame(f, h)
BY DEF Roots, Declarations, Nodes, TypedFrame, TypedContext, Pointers

\* A node of the program is asked for, in a context over the heap.
LEMMA CreateTypeTyped ==
  ASSUME Inv, Typed, prog' = prog, asked' \in Seq(Roots), panicked' = panicked,
         NEW call, call.node \in Nodes, TypedContext(call.ctx, heap), CreateType(call, frames)
  PROVE  Typed'
<1>1. CASE UseCache(call, frames) \/ UseCircular(call, frames)
  <2>1. heap' = heap /\ typeCaches' = typeCaches
    BY <1>1 DEF UseCache, UseCircular
  <2>2. PICK p \in Pointers(heap) : Deliver(p, frames)
    <3>1. CASE UseCache(call, frames)
      BY <3>1 DEF UseCache, Typed, TypedCache
    <3>2. CASE UseCircular(call, frames)
      <4> DEFINE k == NodeKey(call.node, call.ctx)
      <4>1. k \in DOMAIN circular /\ Deliver(circular[k], frames)
        BY <3>2 DEF UseCircular
      <4> HIDE DEF k
      <4>2. PICK i \in 1..Len(frames) : frames[i].ref # 0 /\ frames[i].key = k
        BY <4>1 DEF Inv, CircularIsOpen
      <4>3. circular[k] = frames[i].ref /\ frames[i].ref \in UnsetIn(heap)
        BY <4>2 DEF Inv, CircularIsOpen, FramesInv
      <4>. QED
        BY <4>1, <4>3 DEF UnsetIn
    <3>. QED
      BY <1>1, <3>1, <3>2
  <2>3. /\ returned' \in Seq(Pointers(heap))
        /\ \A i \in 1..Len(frames') : TypedFrame(frames'[i], heap)
    BY <2>2, TypedDelivery DEF Inv, FramesInv, Typed
  <2>. QED
    BY <2>1, <2>3, TypedSame DEF Typed
<1>2. CASE Enter(call, frames)
  <2> DEFINE params == IF prog[call.node].kind = "literal" THEN call.ctx.params ELSE prog[call.node].params
             ctx == [call.ctx EXCEPT !.params = params]
             key == NodeKey(call.node, call.ctx)
             ref == Len(heap) + 1
  <2>1. /\ typeCaches' = typeCaches /\ returned' = returned
        /\ \/ /\ \E id, name : heap' = Append(heap, Reference(id, name))
              /\ frames' = <<[node |-> call.node, key |-> key, ref |-> ref, vals |-> <<>>, ctx |-> ctx]>> \o frames
           \/ /\ heap' = heap
              /\ frames' = <<[node |-> call.node, key |-> key, ref |-> 0, ctx |-> call.ctx, vals |-> <<>>]>> \o frames
    BY <1>2 DEF Enter
  <2> HIDE DEF params, key, ref
  <2>2. TypedHeap(heap') /\ Contains(heap', heap)
    <3>1. CASE heap' = heap
      BY <3>1 DEF Contains, Typed
    <3>2. ASSUME NEW id, NEW name, heap' = Append(heap, Reference(id, name))
          PROVE  TypedHeap(heap') /\ Contains(heap', heap)
      <4> DEFINE new == Reference(id, name)
      <4>1. TypeOver(new, heap)
        BY TypesOver
      <4> HIDE DEF new
      <4>2. TypedHeap(Append(heap, new)) /\ Contains(Append(heap, new), heap)
        BY <4>1, TypedGrown DEF Inv, Typed
      <4>. QED
        BY <3>2, <4>2 DEF new
    <3>. QED
      BY <2>1, <3>1, <3>2
  <2>3. TypedContext(ctx, heap)
    <3> DEFINE c == call.ctx
    <3>1. c = [ref |-> c.ref, args |-> c.args, params |-> c.params, key |-> c.key]
          /\ c.args \in Seq(Pointers(heap))
      BY DEF TypedContext
    <3>2. ctx = [c EXCEPT !.params = params]
      OBVIOUS
    <3> HIDE DEF c, ctx
    <3>3. ctx = [ref |-> c.ref, args |-> c.args, params |-> params, key |-> c.key]
      BY <3>1, <3>2
    <3>. QED
      BY <3>1, <3>3 DEF TypedContext
  <2> HIDE DEF ctx
  <2>4. PICK f : frames' = <<f>> \o frames /\ TypedFrame(f, heap)
    <3> DEFINE declaration == [node |-> call.node, key |-> key, ref |-> ref, vals |-> <<>>, ctx |-> ctx]
               other == [node |-> call.node, key |-> key, ref |-> 0, ctx |-> call.ctx, vals |-> <<>>]
    <3>1. <<>> \in Seq(Pointers(heap))
      OBVIOUS
    <3>2. TypedFrame(declaration, heap) /\ TypedFrame(other, heap)
      BY <2>3, <3>1 DEF TypedFrame
    <3>3. frames' = <<declaration>> \o frames \/ frames' = <<other>> \o frames
      BY <2>1
    <3> HIDE DEF declaration, other
    <3>. QED
      BY <3>2, <3>3
  <2>5. TypedFrame(f, heap')
    BY <2>2, <2>4, TypedInLarger
  <2>6. ASSUME NEW i \in 1..Len(frames') PROVE TypedFrame(frames'[i], heap')
    <3>1. /\ Len(frames) \in Nat /\ Len(frames') = Len(frames) + 1 /\ frames'[1] = f
          /\ \A j \in 2..Len(frames) + 1 : frames'[j] = frames[j - 1]
      BY <2>4, PushOnSequence DEF Inv, FramesInv
    <3>2. CASE i = 1
      BY <2>5, <3>1, <3>2
    <3>3. CASE i # 1
      <4>1. i - 1 \in 1..Len(frames) /\ frames'[i] = frames[i - 1]
        BY <3>1, <3>3
      <4>2. TypedFrame(frames[i - 1], heap)
        BY <4>1 DEF Typed
      <4>. QED
        BY <2>2, <4>1, <4>2, TypedInLarger
    <3>. QED
      BY <3>2, <3>3
  <2>7. TypedCache(typeCaches', heap') /\ returned' \in Seq(Pointers(heap'))
    BY <2>1, <2>2, TypedInLarger DEF Typed
  <2>. QED
    BY <2>2, <2>6, <2>7, TypedSame DEF Typed
<1>. QED
  BY <1>1, <1>2 DEF CreateType

-----------------------------------------------------------------------------
(* What a call asks for *)

LEMMA FastMemberTyped ==
  ASSUME WellFormed(prog), NEW n \in Nodes, prog[n].kind = "index"
  PROVE  FastMember(n) \subseteq Nodes
<1> DEFINE object == prog[n].kids[1]
           alias == prog[object].target
           literal == prog[alias].kids[1]
<1>1. object \in Nodes
  BY DEF WellFormed, Nodes
<1>2. CASE prog[object].kind # "ref" \/ alias = NoNode
  BY <1>2 DEF FastMember
<1>3. CASE prog[object].kind = "ref" /\ alias # NoNode
  <2>1. alias \in Nodes
    BY <1>1, <1>3 DEF WellFormed, Nodes
  <2>2. CASE prog[alias].kind # "alias" \/ prog[literal].kind # "literal"
    BY <1>3, <2>2 DEF FastMember
  <2>3. CASE prog[alias].kind = "alias" /\ prog[literal].kind = "literal"
    <3>1. literal \in Nodes
      BY <2>1, <2>3 DEF WellFormed, Nodes
    <3> DEFINE kids == prog[literal].kids
    <3>2. kids \in Seq(Nodes)
      BY <3>1 DEF WellFormed, Nodes
    <3>3. FastMember(n) = {kids[i] : i \in (1..Len(kids)) \cap {prog[n].name}}
      BY <1>3, <2>3 DEF FastMember
    <3> HIDE DEF kids
    <3>. QED
      BY <3>2, <3>3
  <2>. QED
    BY <2>2, <2>3
<1>. QED
  BY <1>2, <1>3

LEMMA NextCallTyped ==
  ASSUME WellFormed(prog), NEW f, TypedFrame(f, heap), NEW call \in NextCall(f)
  PROVE  /\ call.node \in Nodes \cup {NoNode}
         /\ TypedContext(call.ctx, heap)
<1> DEFINE n == prog[f.node]
           k == Len(f.vals)
<1>1. /\ f.node \in Nodes /\ n.kids \in Seq(Nodes) /\ k \in Nat /\ TypedContext(f.ctx, heap)
      /\ f.vals \in Seq(Pointers(heap))
  BY DEF TypedFrame, WellFormed, Nodes
<1>2. ASSUME NEW m \in Nodes \cup {NoNode}, call = Call(m, f.ctx)
      PROVE  call.node \in Nodes \cup {NoNode} /\ TypedContext(call.ctx, heap)
  BY <1>1, <1>2 DEF Call
<1>3. CASE n.kind = "index"
  <2>1. n.kids[1] \in Nodes /\ FastMember(f.node) \subseteq Nodes
    <3>1. Len(n.kids) = 1
      BY <1>1, <1>3 DEF WellFormed, Nodes
    <3>. QED
      BY <1>1, <1>3, <3>1, FastMemberTyped
  <2>2. NextCall(f) = IndexCalls(f)
    BY <1>3 DEF NextCall
  <2>3. call \in {Call(m, f.ctx) : m \in FastMember(f.node)} \cup {Call(n.kids[1], f.ctx)}
    BY <2>2 DEF IndexCalls
  <2>. QED
    BY <1>2, <2>1, <2>3
<1>4. CASE n.kind # "index" /\ k < Len(n.kids)
  <2>1. NextCall(f) = {Call(n.kids[k + 1], f.ctx)}
    BY <1>4 DEF NextCall
  <2>2. n.kids[k + 1] \in Nodes
    BY <1>1, <1>4
  <2>. QED
    BY <1>2, <2>1, <2>2
<1>5. CASE n.kind = "ref" /\ k = Len(n.kids)
  <2> DEFINE ctx == Context(f.node, f.vals, heap)
  <2>1. n.kind # "index" /\ ~(k < Len(n.kids))
    BY <1>1, <1>5
  <2>2. NextCall(f) = {Call(n.target, ctx)}
    BY <1>5, <2>1 DEF NextCall
  <2>3. n.target \in Nodes \cup {NoNode}
    BY <1>1, <1>5 DEF WellFormed, Nodes
  <2>4. TypedContext(ctx, heap)
    <3> DEFINE ids == [ref |-> f.node, args |-> TypeIds(heap, f.vals)]
    <3>1. ctx = [ref |-> f.node, args |-> f.vals, params |-> <<>>, key |-> ids]
      BY DEF Context
    <3> HIDE DEF ids, ctx
    <3>. QED
      BY <1>1, <3>1 DEF TypedContext
  <2> HIDE DEF ctx
  <2>5. call.node = n.target /\ call.ctx = ctx
    BY <2>2 DEF Call
  <2>. QED
    BY <2>3, <2>4, <2>5
<1>6. CASE n.kind # "index" /\ ~(k < Len(n.kids)) /\ ~(n.kind = "ref" /\ k = Len(n.kids))
  BY <1>6 DEF NextCall
<1>. QED
  BY <1>3, <1>4, <1>5, <1>6

\* A call that asks for nothing more has what its node is made of.
LEMMA HasParts ==
  ASSUME WellFormed(prog), NEW f, TypedFrame(f, heap), NextCall(f) = {},
         prog[f.node].kind \in {"ref", "index", "alias"}
  PROVE  /\ Len(f.vals) \in Nat \ {0}
         /\ f.vals[1] \in Pointers(heap) /\ f.vals[Len(f.vals)] \in Pointers(heap)
<1> DEFINE n == prog[f.node]
           k == Len(f.vals)
<1>1. f.node \in Nodes /\ n.kids \in Seq(Nodes) /\ k \in Nat /\ f.vals \in Seq(Pointers(heap))
  BY DEF TypedFrame, WellFormed, Nodes
<1>2. k # 0
  <2>1. CASE n.kind = "index"
    <3>1. IndexCalls(f) = {}
      BY <2>1 DEF NextCall
    <3>2. f.vals # <<>>
      BY <3>1 DEF IndexCalls
    <3>. QED
      BY <1>1, <3>2
  <2>2. CASE n.kind = "alias"
    <3>1. Len(n.kids) = 1
      BY <1>1, <2>2 DEF WellFormed, Nodes
    <3>2. ~(k < Len(n.kids))
      BY <2>2 DEF NextCall
    <3>. QED
      BY <3>1, <3>2
  <2>3. CASE n.kind = "ref"
    <3>1. ~(k < Len(n.kids)) /\ k # Len(n.kids)
      BY <2>3 DEF NextCall
    <3>. QED
      BY <1>1, <3>1
  <2>. QED
    BY <2>1, <2>2, <2>3
<1>. QED
  BY <1>1, <1>2

-----------------------------------------------------------------------------
(* The innermost call returns *)

LEMMA TopTyped ==
  ASSUME Inv, Typed, frames # <<>>
  PROVE  /\ TypedFrame(Top, heap)
         /\ \A i \in 1..Len(Tail(frames)) : TypedFrame(Tail(frames)[i], heap)
<1>1. /\ Len(frames) \in Nat \ {0} /\ Len(Tail(frames)) = Len(frames) - 1
      /\ Top = frames[1] /\ \A i \in 1..Len(frames) - 1 : Tail(frames)[i] = frames[i + 1]
  BY TailOfSequence DEF Inv, FramesInv, Top
<1>2. 1 \in 1..Len(frames) /\ \A i \in 1..Len(frames) - 1 : i + 1 \in 1..Len(frames)
  BY <1>1
<1>. QED
  BY <1>1, <1>2 DEF Typed

LEMMA ReturnTyped ==
  ASSUME Inv, Typed, frames # <<>>, NEW h, TypedHeap(h), Contains(h, heap), NEW p \in Pointers(h),
         Return(h, p)
  PROVE  Typed'
<1> DEFINE k == CacheKey(Top.node, Top.ctx)
<1>1. /\ heap' = h /\ prog' = prog /\ asked' = asked /\ panicked' = panicked /\ Deliver(p, Tail(frames))
      /\ \/ typeCaches' = typeCaches
         \/ h[p].kind # "ref" /\ typeCaches' = Put(typeCaches, k, p)
  BY DEF Return
<1> HIDE DEF k
<1>2. returned' \in Seq(Pointers(h)) /\ \A i \in 1..Len(frames') : TypedFrame(frames'[i], h)
  <2> DEFINE rest == Tail(frames)
  <2>1. IsSequence(rest) /\ \A i \in 1..Len(rest) : IsFrame(rest[i]) /\ TypedFrame(rest[i], heap)
    BY TopCall, TopTyped
  <2>2. returned \in Seq(Pointers(h)) /\ \A i \in 1..Len(rest) : TypedFrame(rest[i], h)
    BY <2>1, TypedInLarger DEF Typed
  <2> HIDE DEF rest
  <2>. QED
    BY <1>1, <2>1, <2>2, TypedDelivery DEF rest
<1>3. TypedCache(typeCaches', h)
  <2>1. TypedCache(typeCaches, h)
    BY TypedInLarger DEF Typed
  <2>2. CASE h[p].kind # "ref" /\ typeCaches' = Put(typeCaches, k, p)
    BY <2>1, <2>2 DEF TypedCache, Put
  <2>. QED
    BY <1>1, <2>1, <2>2
<1>. QED
  BY <1>1, <1>2, <1>3, TypedSame DEF Typed

LEMMA ReturnOldTyped ==
  ASSUME Inv, Typed, frames # <<>>, NEW p \in Pointers(heap), Return(heap, p)
  PROVE  Typed'
<1>1. TypedHeap(heap) /\ Contains(heap, heap)
  BY DEF Typed, Contains
<1>. QED
  BY <1>1, ReturnTyped

LEMMA ReturnNewTyped ==
  ASSUME Inv, Typed, frames # <<>>, NEW t, TypeOver(t, heap), ReturnNew(t)
  PROVE  Typed'
<1> DEFINE h == Append(heap, t)
           p == Len(heap) + 1
<1>1. TypedHeap(h) /\ Contains(h, heap) /\ p \in Pointers(h)
  BY TypedGrown DEF Inv, Typed
<1>2. Return(h, p)
  BY DEF ReturnNew
<1> HIDE DEF h, p
<1>. QED
  BY <1>1, <1>2, ReturnTyped

LEMMA FinishDeclarationTyped ==
  ASSUME Inv, Typed, WellFormed(prog), FinishDeclaration
  PROVE  Typed'
<1> DEFINE n == Top.node
           id == heap[Top.ref].id
           never == \E i \in 1..Len(Top.vals) : IsNeverLike(heap, Top.vals[i])
           inner == IF never THEN Never
                    ELSE IF prog[n].kind = "alias" THEN Alias(id, Top.vals[1])
                    ELSE Object(id, Top.vals)
           base == Append(heap, inner)
           definition == Definition(DeclarationName(n, Top.ctx), Len(base))
           exposed == IF prog[n].exposed THEN Append(base, definition) ELSE base
           h == SetType(exposed, Top.ref, Len(exposed))
<1>1. /\ frames # <<>> /\ prog[n].kind \in {"interface", "alias", "literal"} /\ NextCall(Top) = {}
      /\ Return(h, Len(exposed))
  BY DEF FinishDeclaration, Finished
<1>2. TypedFrame(Top, heap) /\ Top.ref \in UnsetIn(heap)
  BY <1>1, TopTyped, TopCall DEF IsCircular
<1>3. TypeOver(inner, heap) /\ inner.kind # "ref"
  <2>1. inner.kind # "ref"
    BY Constructors
  <2>2. TypeOver(Never, heap)
    BY TypesOver
  <2>3. prog[n].kind = "alias" => TypeOver(Alias(id, Top.vals[1]), heap)
    <3>1. prog[n].kind = "alias" => Top.vals[1] \in Pointers(heap)
      BY <1>1, <1>2, HasParts
    <3>. QED
      BY <3>1, TypesOver
  <2>4. TypeOver(Object(id, Top.vals), heap)
    BY <1>2, TypesOver DEF TypedFrame
  <2>. QED
    BY <2>1, <2>2, <2>3, <2>4
<1>4. (TypeOver(definition, base) /\ definition.kind # "ref") \/ Len(base) \notin Pointers(base)
  BY TypesOver, Constructors
<1>5. exposed = base \/ exposed = Append(base, definition)
  OBVIOUS
<1> HIDE DEF inner, definition
<1>6. /\ HeapOK(base) /\ UnsetIn(base) = UnsetIn(heap) /\ TypedHeap(base) /\ Contains(base, heap)
      /\ Len(base) \in Pointers(base)
  <2>1. TypedHeap(base) /\ Contains(base, heap) /\ Len(base) \in Pointers(base)
    BY <1>3, TypedGrown DEF Inv, Typed
  <2>. QED
    BY <1>3, <2>1, Grown DEF Inv, TypeOver
<1> HIDE DEF base, exposed
<1>7. /\ HeapOK(exposed) /\ UnsetIn(exposed) = UnsetIn(heap) /\ TypedHeap(exposed)
      /\ Contains(exposed, heap) /\ Len(exposed) \in Pointers(exposed)
  <2> DEFINE g == Append(base, definition)
  <2>1. TypeOver(definition, base) /\ definition.kind # "ref" /\ IsType(definition)
    BY <1>4, <1>6 DEF TypeOver
  <2>2. TypedHeap(g) /\ Contains(g, base) /\ Len(g) \in Pointers(g)
    BY <1>6, <2>1, TypedGrown
  <2>3. HeapOK(g) /\ UnsetIn(g) = UnsetIn(base)
    BY <1>6, <2>1, Grown
  <2> HIDE DEF g
  <2>4. Contains(g, heap)
    BY <1>6, <2>2 DEF Contains
  <2>. QED
    BY <1>5, <1>6, <2>2, <2>3, <2>4 DEF g
<1>8. TypedHeap(h) /\ Contains(h, heap) /\ Len(exposed) \in Pointers(h)
  <2>1. TypedHeap(h) /\ Contains(h, exposed)
    BY <1>2, <1>7, TypedSet
  <2> HIDE DEF h
  <2>. QED
    BY <1>7, <2>1 DEF Contains
<1> HIDE DEF h
<1>. QED
  BY <1>1, <1>8, ReturnTyped

LEMMA FinishTyped ==
  ASSUME Inv, Typed, WellFormed(prog), Finish
  PROVE  Typed'
<1>1. CASE FinishLeaf
  <2>1. frames # <<>> /\ ((\E name : ReturnNew(Prim(name))) \/ ReturnNew(Never))
    BY <1>1 DEF FinishLeaf, Finished
  <2>. QED
    BY <2>1, TypesOver, ReturnNewTyped
<1>2. CASE FinishTuple
  <2>1. frames # <<>> /\ ReturnNew(TupleOf(Top.vals))
    BY <1>2 DEF FinishTuple, Finished
  <2>2. Top.vals \in Seq(Pointers(heap))
    BY <2>1, TopTyped DEF TypedFrame
  <2>. QED
    BY <2>1, <2>2, TypesOver, ReturnNewTyped
<1>3. CASE FinishParameter
  <2> DEFINE name == prog[Top.node].name
  <2>1. frames # <<>> /\ (ReturnNew(Unknown) \/ \E p \in GetArgument(Top.ctx, name) : Return(heap, p))
    BY <1>3 DEF FinishParameter, Finished
  <2>2. GetArgument(Top.ctx, name) \subseteq Pointers(heap)
    BY <2>1, TopTyped DEF GetArgument, TypedFrame, TypedContext
  <2>. QED
    BY <2>1, <2>2, TypesOver, ReturnNewTyped, ReturnOldTyped
<1>4. CASE FinishReference
  <2>1. /\ frames # <<>> /\ NextCall(Top) = {} /\ prog[Top.node].kind = "ref"
        /\ Return(heap, Top.vals[Len(Top.vals)])
    BY <1>4 DEF FinishReference, Finished
  <2>2. Top.vals[Len(Top.vals)] \in Pointers(heap)
    BY <2>1, TopTyped, HasParts
  <2>. QED
    BY <2>1, <2>2, ReturnOldTyped
<1>5. CASE FinishIndex
  <2> DEFINE last == Top.vals[Len(Top.vals)]
  <2>1. frames # <<>> /\ NextCall(Top) = {} /\ prog[Top.node].kind = "index"
    BY <1>5 DEF FinishIndex, Finished
  <2>2. last \in Pointers(heap)
    BY <2>1, TopTyped, HasParts
  <2>3. Return(heap, last) \/ ReturnNew(Never) \/ \E p \in Pointers(heap) : Return(heap, p)
    <3>1. \A object : MemberOf(object, prog[Top.node].name) \subseteq Pointers(heap)
      BY DEF MemberOf
    <3>. QED
      BY <1>5, <3>1 DEF FinishIndex
  <2>. QED
    BY <2>1, <2>2, <2>3, TypesOver, ReturnNewTyped, ReturnOldTyped
<1>6. CASE FinishDeclaration
  BY <1>6, FinishDeclarationTyped
<1>. QED
  BY <1>1, <1>2, <1>3, <1>4, <1>5, <1>6 DEF Finish

-----------------------------------------------------------------------------
(* The theorem *)

LEMMA TypedInit == Init => Typed
<1> SUFFICES ASSUME Init PROVE Typed
  OBVIOUS
<1>1. /\ prog \in Programs /\ heap = <<>> /\ typeCaches = <<>> /\ frames = <<>>
      /\ asked = <<>> /\ returned = <<>> /\ panicked = FALSE
  BY DEF Init
<1>2. Pointers(heap) = {} /\ DOMAIN typeCaches = {} /\ 1..Len(frames) = {}
  BY <1>1 DEF Pointers
<1>3. asked \in Seq(Roots) /\ returned \in Seq(Pointers(heap))
  BY <1>1
<1>. QED
  BY <1>1, <1>2, <1>3 DEF Typed, TypedHeap, TypedCache

LEMMA TypedStep == Inv /\ Typed /\ [Next]_vars => Typed'
<1> SUFFICES ASSUME Inv, Typed, [Next]_vars PROVE Typed'
  OBVIOUS
<1>0. WellFormed(prog)
  BY ProgramsAssumption DEF Typed
<1>1. ASSUME NEW n \in Roots, ParseRoot(n) PROVE Typed'
  <2> DEFINE call == Call(n, RootContext)
             ctx == RootContext
  <2>1. frames = <<>> /\ prog' = prog /\ panicked' = panicked /\ asked' = Append(asked, n)
        /\ CreateType(call, frames)
    BY <1>1 DEF ParseRoot, Idle
  <2>2. asked' \in Seq(Roots) /\ n \in Nodes
    BY <2>1 DEF Typed, Roots, Declarations
  <2>3. TypedContext(ctx, heap)
    <3> DEFINE key == [ref |-> NoNode, args |-> TypeIds(heap, <<>>)]
    <3>1. ctx = [ref |-> NoNode, args |-> <<>>, params |-> <<>>, key |-> key]
      BY DEF RootContext, Context
    <3>2. <<>> \in Seq(Pointers(heap))
      OBVIOUS
    <3> HIDE DEF key, ctx
    <3>. QED
      BY <3>1, <3>2 DEF TypedContext
  <2>4. call.node = n /\ call.ctx = ctx
    BY DEF Call
  <2> HIDE DEF call, ctx
  <2>. QED
    BY <2>1, <2>2, <2>3, <2>4, CreateTypeTyped
<1>2. CASE ParseNext
  <2>1. /\ frames # <<>> /\ prog' = prog /\ asked' = asked /\ panicked' = panicked
        /\ \E call \in NextCall(Top) : call.node # NoNode /\ CreateType(call, frames)
    BY <1>2 DEF ParseNext
  <2>2. PICK call \in NextCall(Top) : call.node # NoNode /\ CreateType(call, frames)
    BY <2>1
  <2>3. call.node \in Nodes /\ TypedContext(call.ctx, heap)
    BY <1>0, <2>1, <2>2, TopTyped, NextCallTyped
  <2>4. asked' \in Seq(Roots)
    BY <2>1 DEF Typed
  <2>. QED
    BY <2>1, <2>2, <2>3, <2>4, CreateTypeTyped
<1>3. CASE PanicOnNil \/ UNCHANGED vars
  <2>1. /\ prog' = prog /\ heap' = heap /\ typeCaches' = typeCaches /\ frames' = frames
        /\ asked' = asked /\ returned' = returned /\ panicked' \in BOOLEAN
    BY <1>3 DEF PanicOnNil, vars, Typed
  <2>. QED
    BY <2>1, TypedSame DEF Typed
<1>4. CASE Finish
  BY <1>0, <1>4, FinishTyped
<1>. QED
  BY <1>1, <1>2, <1>3, <1>4 DEF Next, Step

LEMMA TypedIsInductive == Spec => [](Inv /\ Typed)
<1>1. Init => Inv /\ Typed
  BY InvInit, TypedInit
<1>2. (Inv /\ Typed) /\ [Next]_vars => (Inv /\ Typed)'
  BY InvStep, TypedStep
<1>. QED
  BY <1>1, <1>2, PTL DEF Spec

LEMMA TypedIsTypeOK == Inv /\ Typed => TypeOK
<1> SUFFICES ASSUME Inv, Typed PROVE TypeOK
  OBVIOUS
<1>1. TypesOK
  BY DEF TypesOK, Inv, HeapOK, IsType, Typed, TypedHeap
<1>2. CachesOK
  <2>1. ASSUME NEW k \in DOMAIN circular PROVE circular[k] \in Pointers(heap) /\ heap[circular[k]].kind = "ref"
    <3>1. PICK i \in 1..Len(frames) : frames[i].ref # 0 /\ frames[i].key = k
      BY DEF Inv, CircularIsOpen
    <3>2. circular[k] = frames[i].ref /\ frames[i].ref \in UnsetIn(heap)
      BY <3>1 DEF Inv, CircularIsOpen, FramesInv
    <3>. QED
      BY <3>2 DEF UnsetIn
  <2>. QED
    BY <2>1 DEF CachesOK, Typed, TypedCache
<1>3. FramesOK
  <2>1. ASSUME NEW i \in 1..Len(frames)
        PROVE  /\ frames[i].ref \in Pointers(heap) \cup {0}
               /\ frames[i].ref # 0 <=> IsCircular(frames[i].node)
    BY DEF Inv, FramesInv, UnsetIn
  <2>2. IsSequence(frames) /\ \A i \in 1..Len(frames) : IsFrame(frames[i])
    BY DEF Inv, FramesInv
  <2>3. \A i \in 1..Len(frames) :
          /\ frames[i].node \in Nodes /\ frames[i].vals \in Seq(Pointers(heap))
          /\ frames[i].ctx.args \in Seq(Pointers(heap))
    BY DEF Typed, TypedFrame, TypedContext
  <2>. QED
    BY <2>1, <2>2, <2>3 DEF FramesOK, IsFrame
<1>. QED
  BY <1>1, <1>2, <1>3 DEF TypeOK, Typed

\* Whatever the program and the roots, each call works on a node of the program
\* and holds pointers into the heap, every type is made of types that are there,
\* and the chain has cached no reference (chain.go:40-63): what an open call holds
\* is what it returns later, and no parser follows a pointer to nothing.
THEOREM ParserTypeOK == Spec => []TypeOK
BY TypedIsInductive, TypedIsTypeOK, PTL

-----------------------------------------------------------------------------
(* The cache *)

\* What a step of the parser leaves of the cache.
CacheKept ==
  \A k \in DOMAIN typeCaches :
    /\ k \in DOMAIN typeCaches'
    /\ heap'[typeCaches[k]] = heap[typeCaches[k]]
    /\ k \notin OpenKeys => typeCaches'[k] = typeCaches[k]

LEMMA CachedIsFinal ==
  ASSUME Typed, Extends(heap', heap), NEW k \in DOMAIN typeCaches
  PROVE  heap'[typeCaches[k]] = heap[typeCaches[k]]
BY DEF Typed, TypedCache, Extends, Final

LEMMA CacheStep == Inv /\ Typed /\ Next => CacheKept
<1> SUFFICES ASSUME Inv, Typed, Next PROVE CacheKept
  OBVIOUS
<1>1. Extends(heap', heap)
  BY StepExtends
<1>2. CASE typeCaches' = typeCaches
  BY <1>1, <1>2, CachedIsFinal DEF CacheKept
<1>3. ASSUME frames # <<>>, NEW h, NEW p, Return(h, p) PROVE CacheKept
  <2> DEFINE top == CacheKey(Top.node, Top.ctx)
  <2>1. top \in OpenKeys
    <3>1. 1 \in 1..Len(frames) /\ Top = frames[1]
      BY <1>3, TailOfSequence DEF Inv, FramesInv, Top
    <3>. QED
      BY <3>1 DEF OpenKeys
  <2>2. typeCaches' = typeCaches \/ typeCaches' = Put(typeCaches, top, p)
    BY <1>3 DEF Return
  <2> HIDE DEF top
  <2>3. \A k \in DOMAIN typeCaches :
          k \in DOMAIN typeCaches' /\ (k # top => typeCaches'[k] = typeCaches[k])
    BY <2>2 DEF Put
  <2>. QED
    BY <1>1, <2>1, <2>3, CachedIsFinal DEF CacheKept
<1>4. CASE (\E n \in Roots : ParseRoot(n)) \/ ParseNext \/ PanicOnNil
  <2>1. typeCaches' = typeCaches
    BY <1>4 DEF ParseRoot, ParseNext, PanicOnNil, CreateType, UseCache, UseCircular, Enter
  <2>. QED
    BY <1>2, <2>1
<1>5. CASE Finish
  <2>1. frames # <<>> /\ \E h, p : Return(h, p)
    BY <1>5 DEF Finish, FinishLeaf, FinishTuple, FinishParameter, FinishReference, FinishIndex,
                FinishDeclaration, Finished, ReturnNew
  <2>. QED
    BY <1>3, <2>1
<1>. QED
  BY <1>4, <1>5 DEF Next, Step

\* What the chain has cached is never rewritten, and once no call for it is open
\* it is the answer for good (chain.go:48-57): the roots of a later CreateSchema
\* share the types of the earlier ones.
THEOREM CachedTypesStay == Spec => CachedTypesAreFinal
<1>1. Inv /\ Typed /\ [Next]_vars => [CacheKept]_vars
  BY CacheStep
<1>. QED
  BY <1>1, TypedIsInductive, PTL DEF Spec, CachedTypesAreFinal, CacheKept
=============================================================================
