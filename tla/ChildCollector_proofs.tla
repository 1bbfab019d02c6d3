------------------------ MODULE ChildCollector_proofs ------------------------
(***************************************************************************)
(* Proofs about ChildCollector, for every set of types, every family of    *)
(* type graphs and any number of createSchema calls.                       *)
(***************************************************************************)
EXTENDS ChildCollector, TLAPS, SequenceTheorems

USE DefinitionsAssumption, GraphsAssumption, MaxRunsAssumption

-----------------------------------------------------------------------------
(* Lemmas about stacks *)

\* Pushing an element makes a sequence one longer and leaves the elements below it.
LEMMA PushProperties ==
  ASSUME NEW S, NEW s \in Seq(S), NEW x \in S
  PROVE  /\ <<x>> \o s \in Seq(S)
         /\ Len(<<x>> \o s) = Len(s) + 1
         /\ Head(<<x>> \o s) = x
         /\ <<x>> \o s # <<>>
         /\ (<<x>> \o s)[1] = x
         /\ \A i \in 2..Len(s) + 1 : (<<x>> \o s)[i] = s[i - 1]
  OBVIOUS

\* Popping leaves the elements below the last where they are.
LEMMA PopProperties ==
  ASSUME NEW S, NEW s \in Seq(S), s # <<>>
  PROVE  /\ Tail(s) \in Seq(S)
         /\ Len(s) >= 1
         /\ Len(Tail(s)) = Len(s) - 1
         /\ Head(s) = s[1]
         /\ Head(s) \in S
         /\ \A i \in 1..Len(s) - 1 : Tail(s)[i] = s[i + 1]
  OBVIOUS

-----------------------------------------------------------------------------
\* TypeOK holds in every reachable state.
THEOREM TypeCorrect == Spec => []TypeOK
<1>1. Init => TypeOK
  BY DEF Init, TypeOK
<1>2. TypeOK /\ [Next]_vars => TypeOK'
  <2> SUFFICES ASSUME TypeOK, [Next]_vars PROVE TypeOK'
    OBVIOUS
  <2> USE DEF TypeOK
  <2>1. CASE StartRun
    BY <2>1 DEF StartRun
  <2>2. ASSUME NEW t \in Types, Open(t),
               UNCHANGED <<graph, children, run, roots, pending, collected>>
        PROVE  TypeOK'
    <3>1. stack' \in Seq(Types)
      BY <2>2, PushProperties DEF Open
    <3>2. todo' \in [Types -> SUBSET Types] /\ acc' \in [Types -> SUBSET Definitions]
      BY <2>2 DEF Open
    <3>. QED  BY <2>2, <3>1, <3>2 DEF Open
  <2>3. ASSUME NEW r \in Types, ReuseRoot(r) PROVE TypeOK'
    BY <2>3 DEF ReuseRoot
  <2>4. ASSUME NEW s \in Types, ReuseChild(s) PROVE TypeOK'
    BY <2>4, PopProperties DEF ReuseChild
  <2>5. CASE Close
    BY <2>5, PopProperties DEF Close
  <2>6. CASE UNCHANGED vars
    BY <2>6 DEF vars
  <2>. QED
    BY <2>1, <2>2, <2>3, <2>4, <2>5, <2>6 DEF Next, Walk, OpenRoot, OpenChild
<1>. QED  BY <1>1, <1>2, PTL DEF Spec

-----------------------------------------------------------------------------
(***************************************************************************)
(* Completeness of the first call.  CompleteInv is inductive:              *)
(*  - a type whose call has returned has only known successors; one that   *)
(*    is being walked may have unknown ones, all still in its todo;        *)
(*  - in the first call, every definition met so far is on its way to the  *)
(*    generator: collected, or gathered by a call that is still open.      *)
(* The second part is what the warm memo of a later call breaks: there a   *)
(* definition may be known without ever having been passed up.             *)
(***************************************************************************)
OpenOnce == \A i, j \in 1..Len(stack) : stack[i] = stack[j] => i = j

WalkedIsClosed ==
  \A t \in known : \A s \in graph[t] : s \in known \/ (t \in Active /\ s \in todo[t])

RootsAccounted == roots \subseteq known \cup pending

OnItsWay ==
  run = 1 => \A d \in known \cap Definitions :
               d \in collected \/ \E u \in Active : d \in acc[u]

NothingBeforeFirst == run = 0 => known = {} /\ pending = {} /\ stack = <<>>

CompleteInv ==
  /\ OpenOnce
  /\ Active \subseteq known
  /\ WalkedIsClosed
  /\ RootsAccounted
  /\ OnItsWay
  /\ NothingBeforeFirst

\* Opening a call puts one more type on the stack.
LEMMA ActiveAfterOpen ==
  ASSUME TypeOK, NEW t \in Types, Open(t)
  PROVE  Active' = Active \cup {t}
<1>1. /\ Len(stack') = Len(stack) + 1
      /\ stack'[1] = t
      /\ \A i \in 2..Len(stack) + 1 : stack'[i] = stack[i - 1]
  BY PushProperties DEF Open, TypeOK
<1>2. Len(stack) \in Nat
  BY DEF TypeOK
<1>3. ASSUME NEW i \in 1..Len(stack) PROVE stack[i] \in Active'
  <2>1. i + 1 \in 2..Len(stack) + 1 /\ i + 1 \in 1..Len(stack')
    BY <1>1, <1>2
  <2>2. stack'[i + 1] = stack[i]
    BY <2>1, <1>1
  <2>. QED  BY <2>1, <2>2 DEF Active
<1>4. ASSUME NEW i \in 1..Len(stack') PROVE stack'[i] \in Active \cup {t}
  <2>1. CASE i = 1
    BY <2>1, <1>1
  <2>2. CASE i # 1
    <3>1. i \in 2..Len(stack) + 1 /\ i - 1 \in 1..Len(stack)
      BY <2>2, <1>1, <1>2
    <3>. QED  BY <3>1, <1>1 DEF Active
  <2>. QED  BY <2>1, <2>2
<1>5. t \in Active'
  BY <1>1, <1>2 DEF Active
<1>6. Active \cup {t} \subseteq Active'
  BY <1>3, <1>5 DEF Active
<1>7. Active' \subseteq Active \cup {t}
  BY <1>4 DEF Active
<1>. QED  BY <1>6, <1>7

\* Closing the innermost call takes its type off the stack.
LEMMA ActiveAfterClose ==
  ASSUME TypeOK, OpenOnce, Close
  PROVE  /\ Head(stack) \in Active
         /\ Head(stack) \in Types
         /\ Active' = Active \ {Head(stack)}
         /\ Tail(stack) # <<>> => Head(Tail(stack)) \in Active'
         /\ Tail(stack) = <<>> => Active' = {}
<1>1. /\ stack' = Tail(stack) /\ stack # <<>>
      /\ Len(stack) \in Nat
      /\ Len(stack) >= 1
      /\ Len(stack') = Len(stack) - 1
      /\ Head(stack) = stack[1]
      /\ Head(stack) \in Types
      /\ \A i \in 1..Len(stack) - 1 : stack'[i] = stack[i + 1]
  BY PopProperties DEF Close, TypeOK
<1>2. Head(stack) \in Active
  BY <1>1 DEF Active
<1>3. ASSUME NEW i \in 1..Len(stack') PROVE stack'[i] \in Active \ {Head(stack)}
  <2>1. i + 1 \in 1..Len(stack) /\ i + 1 # 1 /\ i \in 1..Len(stack) - 1
    BY <1>1
  <2>2. stack'[i] = stack[i + 1]
    BY <2>1, <1>1
  <2>3. 1 \in 1..Len(stack) /\ stack[i + 1] # stack[1]
    BY <2>1, <1>1 DEF OpenOnce
  <2>. QED  BY <2>1, <2>2, <2>3, <1>1 DEF Active
<1>4. ASSUME NEW i \in 1..Len(stack), stack[i] # Head(stack) PROVE stack[i] \in Active'
  <2>1. i # 1
    BY <1>1, <1>4
  <2>2. i - 1 \in 1..Len(stack) - 1 /\ i - 1 \in 1..Len(stack')
    BY <2>1, <1>1
  <2>3. stack'[i - 1] = stack[i]
    BY <2>2, <1>1
  <2>. QED  BY <2>2, <2>3 DEF Active
<1>5. Active' = Active \ {Head(stack)}
  BY <1>3, <1>4 DEF Active
<1>6. Tail(stack) # <<>> => Head(Tail(stack)) \in Active'
  <2>1. SUFFICES ASSUME stack' # <<>> PROVE Head(stack') \in Active'
    BY <1>1
  <2>2. stack' \in Seq(Types)
    BY <1>1 DEF TypeOK
  <2>3. Len(stack') >= 1 /\ Head(stack') = stack'[1]
    BY <2>1, <2>2, PopProperties
  <2>4. 1 \in 1..Len(stack')
    BY <2>3, <1>1
  <2>. QED  BY <2>3, <2>4, Zenon DEF Active
<1>7. Tail(stack) = <<>> => Active' = {}
  <2>1. SUFFICES ASSUME stack' = <<>> PROVE Active' = {}
    BY <1>1
  <2>2. 1..Len(stack') = {}
    BY <2>1
  <2>. QED  BY <2>2 DEF Active
<1>. QED  BY <1>1, <1>2, <1>5, <1>6, <1>7

\* Before the first call there is no entry, no frame and no collected definition.
LEMMA CompleteInvInit == Init => CompleteInv
BY DEF Init, CompleteInv, OpenOnce, Active, WalkedIsClosed, RootsAccounted,
       OnItsWay, NothingBeforeFirst

\* Beginning the walk of a type: its placeholder is excused by the frame that is
\* now open for it.
LEMMA CompleteInvOpen ==
  ASSUME TypeOK, CompleteInv, NEW t \in Types, Open(t), run # 0,
         UNCHANGED <<graph, children, run, roots, pending, collected>>
  PROVE  CompleteInv'
<1> USE DEF CompleteInv
<1>1. Active' = Active \cup {t} /\ t \notin Active
  BY ActiveAfterOpen DEF Open
<1>2. OpenOnce'
  <2>1. /\ Len(stack) \in Nat
        /\ Len(stack') = Len(stack) + 1
        /\ stack'[1] = t
        /\ \A i \in 2..Len(stack) + 1 : stack'[i] = stack[i - 1]
    BY PushProperties DEF Open, TypeOK
  <2>2. \A i \in 2..Len(stack) + 1 : i - 1 \in 1..Len(stack) /\ stack'[i] # t
    <3>1. TAKE i \in 2..Len(stack) + 1
    <3>2. i - 1 \in 1..Len(stack)
      BY <2>1
    <3>. QED  BY <3>2, <2>1, <1>1 DEF Active
  <2>3. SUFFICES ASSUME NEW i \in 1..Len(stack'), NEW j \in 1..Len(stack'),
                        stack'[i] = stack'[j]
                 PROVE  i = j
    BY DEF OpenOnce
  <2>4. CASE i = 1 /\ j = 1
    BY <2>4
  <2>5. CASE i = 1 /\ j # 1
    BY <2>1, <2>2, <2>3, <2>5
  <2>6. CASE i # 1 /\ j = 1
    BY <2>1, <2>2, <2>3, <2>6
  <2>7. CASE i # 1 /\ j # 1
    <3>1. i - 1 \in 1..Len(stack) /\ j - 1 \in 1..Len(stack)
      BY <2>1, <2>7
    <3>2. stack[i - 1] = stack[j - 1]
      BY <2>1, <2>3, <2>7
    <3>3. i - 1 = j - 1
      BY <3>1, <3>2 DEF OpenOnce
    <3>. QED  BY <3>3, <2>1
  <2>. QED  BY <2>4, <2>5, <2>6, <2>7
<1>3. (Active \subseteq known)'
  BY <1>1 DEF Open
<1>4. WalkedIsClosed'
  BY <1>1 DEF Open, WalkedIsClosed, TypeOK
<1>5. RootsAccounted'
  BY DEF Open, RootsAccounted
<1>6. OnItsWay'
  <2>1. SUFFICES ASSUME run = 1, NEW d \in known' \cap Definitions
                 PROVE  d \in collected' \/ \E u \in Active' : d \in acc'[u]
    BY DEF OnItsWay
  <2>2. CASE d = t
    BY <2>1, <2>2, <1>1 DEF Open, TypeOK
  <2>3. CASE d # t
    <3>1. d \in collected \/ \E u \in Active : d \in acc[u]
      BY <2>1, <2>3 DEF Open, OnItsWay
    <3>2. \A u \in Active : u \in Types /\ acc'[u] = acc[u]
      BY <1>1 DEF Open, TypeOK
    <3>. QED  BY <3>1, <3>2, <1>1
  <2>. QED  BY <2>2, <2>3
<1>7. NothingBeforeFirst'
  BY DEF NothingBeforeFirst
<1>. QED  BY <1>2, <1>3, <1>4, <1>5, <1>6, <1>7

\* The end of a walk: the entry is complete up to the types that are still open, or
\* the caller has been handed what is missing.
LEMMA CompleteInvClose ==
  ASSUME TypeOK, CompleteInv, Close
  PROVE  CompleteInv'
<1> USE DEF CompleteInv
<1> DEFINE t == Head(stack)
           p == Head(Tail(stack))
<1>1. /\ t \in Active
      /\ t \in Types
      /\ Active' = Active \ {t}
      /\ Tail(stack) # <<>> => p \in Active'
      /\ Tail(stack) = <<>> => Active' = {}
  BY ActiveAfterClose
<1>2. OpenOnce'
  <2>1. /\ Len(stack) \in Nat
        /\ Len(stack') = Len(stack) - 1
        /\ \A i \in 1..Len(stack) - 1 : stack'[i] = stack[i + 1]
    BY PopProperties DEF Close, TypeOK
  <2>2. SUFFICES ASSUME NEW i \in 1..Len(stack'), NEW j \in 1..Len(stack'),
                        stack'[i] = stack'[j]
                 PROVE  i = j
    BY DEF OpenOnce
  <2>3. i + 1 \in 1..Len(stack) /\ j + 1 \in 1..Len(stack) /\ stack[i + 1] = stack[j + 1]
    BY <2>1, <2>2
  <2>4. i + 1 = j + 1
    BY <2>3 DEF OpenOnce
  <2>. QED  BY <2>4, <2>1
<1>3. (Active \subseteq known)'
  BY <1>1 DEF Close
<1>4. WalkedIsClosed'
  <2>1. SUFFICES ASSUME NEW u \in known, NEW s \in graph[u], s \notin known
                 PROVE  u \in Active' /\ s \in todo'[u]
    BY DEF WalkedIsClosed, Close
  <2>2. u \in Active /\ s \in todo[u] /\ u \in Types
    BY <2>1 DEF WalkedIsClosed, TypeOK
  <2>3. u # t
    BY <2>2 DEF Close
  <2>4. s # t
    BY <2>1, <1>1
  <2>5. u \in Active'
    BY <2>2, <2>3, <1>1
  <2>6. s \in todo'[u]
    BY <2>2, <2>4 DEF Close, TypeOK
  <2>. QED  BY <2>5, <2>6
<1>5. RootsAccounted'
  BY <1>1 DEF Close, RootsAccounted
<1>6. OnItsWay'
  <2>1. SUFFICES ASSUME run = 1, NEW d \in known \cap Definitions
                 PROVE  d \in collected' \/ \E u \in Active' : d \in acc'[u]
    BY DEF OnItsWay, Close
  <2>2. CASE d \in collected
    BY <2>2 DEF Close
  <2>3. ASSUME NEW u \in Active, d \in acc[u]
        PROVE  d \in collected' \/ \E v \in Active' : d \in acc'[v]
    <3>1. u \in Types
      BY DEF TypeOK
    <3>2. CASE Tail(stack) = <<>>
      <4>1. u = t
        BY <1>1, <3>2
      <4>. QED  BY <4>1, <3>2, <2>3 DEF Close
    <3>3. CASE Tail(stack) # <<>>
      <4>1. p \in Active' /\ p \in Types
        BY <1>1, <3>3 DEF TypeOK
      <4>2. acc'[p] = acc[p] \cup acc[t] /\ \A v \in Types \ {p} : acc'[v] = acc[v]
        BY <4>1, <3>3 DEF Close, TypeOK
      <4>3. CASE u = t
        BY <4>1, <4>2, <4>3, <2>3
      <4>4. CASE u # t
        BY <4>1, <4>2, <4>4, <2>3, <1>1, <3>1
      <4>. QED  BY <4>3, <4>4
    <3>. QED  BY <3>2, <3>3
  <2>. QED  BY <2>1, <2>2, <2>3 DEF OnItsWay
<1>7. NothingBeforeFirst'
  BY DEF NothingBeforeFirst, Close
<1>. QED  BY <1>2, <1>3, <1>4, <1>5, <1>6, <1>7

\* Every step preserves the strengthened invariant.
LEMMA CompleteInvNext == TypeOK /\ CompleteInv /\ [Next]_vars => CompleteInv'
<1> SUFFICES ASSUME TypeOK, CompleteInv, [Next]_vars PROVE CompleteInv'
  OBVIOUS
<1>1. CASE StartRun
  <2>1. Active' = {} /\ Active = {} /\ run' # 0 /\ stack' = <<>>
    BY <1>1 DEF StartRun, Idle, Active, TypeOK
  <2>2. OpenOnce' /\ (Active \subseteq known)' /\ NothingBeforeFirst'
    BY <2>1 DEF OpenOnce, NothingBeforeFirst
  <2>3. WalkedIsClosed'
    BY <1>1, <2>1 DEF StartRun, WalkedIsClosed, CompleteInv
  <2>4. RootsAccounted'
    BY <1>1 DEF StartRun, RootsAccounted
  <2>5. OnItsWay'
    <3>1. run' = 1 => run = 0
      BY <1>1 DEF StartRun, TypeOK
    <3>2. run' = 1 => known' = {}
      BY <1>1, <3>1 DEF StartRun, CompleteInv, NothingBeforeFirst
    <3>. QED  BY <3>2 DEF OnItsWay
  <2>. QED  BY <2>2, <2>3, <2>4, <2>5 DEF CompleteInv
<1>2. ASSUME NEW t \in Types, OpenRoot(t) \/ OpenChild(t) PROVE CompleteInv'
  <2>1. run # 0
    BY <1>2 DEF OpenRoot, OpenChild, CompleteInv, NothingBeforeFirst
  <2>. QED  BY <1>2, <2>1, CompleteInvOpen DEF OpenRoot, OpenChild
<1>3. ASSUME NEW r \in Types, ReuseRoot(r) PROVE CompleteInv'
  <2>1. Active' = Active
    BY <1>3 DEF ReuseRoot, Active
  <2>2. OpenOnce' /\ (Active \subseteq known)' /\ WalkedIsClosed'
    BY <1>3, <2>1 DEF ReuseRoot, CompleteInv, OpenOnce, WalkedIsClosed
  <2>3. RootsAccounted' /\ OnItsWay' /\ NothingBeforeFirst'
    BY <1>3, <2>1 DEF ReuseRoot, CompleteInv, RootsAccounted, OnItsWay, NothingBeforeFirst
  <2>. QED  BY <2>2, <2>3 DEF CompleteInv
<1>4. ASSUME NEW s \in Types, ReuseChild(s) PROVE CompleteInv'
  <2>1. Active' = Active /\ Head(stack) \in Types
    BY <1>4, PopProperties DEF ReuseChild, Active, TypeOK
  <2>2. OpenOnce' /\ (Active \subseteq known)' /\ RootsAccounted' /\ NothingBeforeFirst'
    BY <1>4, <2>1 DEF ReuseChild, CompleteInv, OpenOnce, RootsAccounted, NothingBeforeFirst
  <2>3. WalkedIsClosed'
    BY <1>4, <2>1 DEF ReuseChild, CompleteInv, WalkedIsClosed, TypeOK
  <2>4. OnItsWay'
    <3>1. \A u \in Types : acc[u] \subseteq acc'[u]
      BY <1>4, <2>1 DEF ReuseChild, TypeOK
    <3>2. Active \subseteq Types
      BY DEF Active, TypeOK
    <3>. QED  BY <1>4, <2>1, <3>1, <3>2 DEF ReuseChild, CompleteInv, OnItsWay
  <2>. QED  BY <2>2, <2>3, <2>4 DEF CompleteInv
<1>5. CASE Close
  BY <1>5, CompleteInvClose
<1>6. CASE UNCHANGED vars
  BY <1>6 DEF vars, CompleteInv, OpenOnce, Active, WalkedIsClosed, RootsAccounted,
             OnItsWay, NothingBeforeFirst
<1>. QED  BY <1>1, <1>2, <1>3, <1>4, <1>5, <1>6 DEF Next, Walk

\* When the first call is over nothing is open, so what is known is closed
\* under graph and contains the roots: it contains all they reach, and each
\* definition in it has been collected.
LEMMA CompleteInvImplies == TypeOK /\ CompleteInv => FirstRunComplete
<1> SUFFICES ASSUME TypeOK, CompleteInv, run = 1, Idle,
                    NEW d \in Reachable(roots) \cap Definitions
             PROVE  d \in collected
  BY DEF FirstRunComplete
<1>1. Active = {}
  BY DEF Idle, Active
<1>2. Closed(known) /\ roots \subseteq known
  BY <1>1 DEF CompleteInv, WalkedIsClosed, RootsAccounted, Closed, Idle
<1>3. d \in known
  BY <1>2 DEF Reachable, TypeOK
<1>. QED  BY <1>1, <1>3 DEF CompleteInv, OnItsWay

\* The definitions of the first createSchema call of a generator are complete.
THEOREM FirstRunIsComplete == Spec => []FirstRunComplete
<1>1. Spec => []CompleteInv
  <2>1. TypeOK /\ CompleteInv /\ [Next]_vars => CompleteInv'
    BY CompleteInvNext
  <2>. QED  BY <2>1, CompleteInvInit, TypeCorrect, PTL DEF Spec
<1>. QED  BY <1>1, CompleteInvImplies, TypeCorrect, PTL

-----------------------------------------------------------------------------
(***************************************************************************)
(* Soundness, in every call: a memo entry holds nothing its type does not  *)
(* reach, a call that is open has gathered nothing its type does not       *)
(* reach, and each open call was asked for by the one below it.  That the  *)
(* entries stay right when a later call extends the graph needs the first  *)
(* part of CompleteInv: between calls the known types are a closed set.    *)
(***************************************************************************)
EntriesSound == \A t \in known : children[t] \subseteq Reachable({t})

OpenSound == \A t \in Active : acc[t] \subseteq Reachable({t}) /\ todo[t] \subseteq graph[t]

CallChain ==
  /\ \A i \in 1..Len(stack) - 1 : stack[i] \in graph[stack[i + 1]]
  /\ stack # <<>> => stack[Len(stack)] \in roots

CollectedSound == collected \subseteq Reachable(roots)

UnknownEmpty == \A u \in Types \ known : children[u] = {}

SoundInv ==
  /\ EntriesSound
  /\ UnknownEmpty
  /\ OpenSound
  /\ CallChain
  /\ CollectedSound
  /\ pending \subseteq roots

\* A type reaches itself.
LEMMA ReachableSelf ==
  ASSUME NEW t \in Types
  PROVE  t \in Reachable({t})
BY DEF Reachable

\* What a reached type asks for is reached.
LEMMA ReachableStep ==
  ASSUME NEW p \in Types, NEW t \in graph[p]
  PROVE  Reachable({t}) \subseteq Reachable({p})
BY DEF Reachable, Closed

\* What a root reaches, a larger set of roots reaches.
LEMMA ReachableRoot ==
  ASSUME NEW R, NEW r \in R
  PROVE  Reachable({r}) \subseteq Reachable(R)
BY DEF Reachable

\* A graph that agrees with the old one on a closed set reaches the same types
\* from inside it.
LEMMA ReachableExtend ==
  ASSUME NEW K \in SUBSET Types, Closed(K), \A u \in K : graph'[u] = graph[u], NEW t \in K
  PROVE  Reachable({t}) \subseteq Reachable({t})'
<1> SUFFICES ASSUME NEW d \in Reachable({t}), NEW C \in SUBSET Types, t \in C,
                    \A u \in C : graph'[u] \subseteq C
             PROVE  d \in C
  BY DEF Reachable, Closed
<1>1. C \cap K \in SUBSET Types /\ {t} \subseteq C \cap K /\ Closed(C \cap K)
  BY DEF Closed
<1>. QED  BY <1>1 DEF Reachable

\* Beginning the walk of a type adds nothing to what has been collected.
LEMMA SoundInvOpen ==
  ASSUME TypeOK, SoundInv, NEW t \in Types, Open(t),
         UNCHANGED <<graph, children, run, roots, pending, collected>>,
         \/ stack = <<>> /\ t \in roots
         \/ stack # <<>> /\ t \in graph[Head(stack)]
  PROVE  SoundInv'
<1> USE DEF SoundInv
<1>1. \A S : Reachable(S)' = Reachable(S)
  BY DEF Reachable, Closed
<1>2. EntriesSound' /\ UnknownEmpty'
  BY <1>1 DEF EntriesSound, UnknownEmpty, Open
<1>3. OpenSound'
  <2>1. Active' = Active \cup {t}
    BY ActiveAfterOpen
  <2>5. Active \subseteq Types
    BY DEF Active, TypeOK
  <2>2. acc'[t] \subseteq {t} /\ todo'[t] = graph[t]
    BY DEF Open, TypeOK
  <2>3. \A u \in Types \ {t} : acc'[u] = acc[u] /\ todo'[u] = todo[u]
    BY DEF Open, TypeOK
  <2>4. acc'[t] \subseteq Reachable({t})
    BY <2>2, ReachableSelf
  <2>. QED  BY <1>1, <2>1, <2>2, <2>3, <2>4, <2>5 DEF OpenSound
<1>4. CallChain'
  <2>1. /\ Len(stack) \in Nat
        /\ Len(stack') = Len(stack) + 1
        /\ stack'[1] = t
        /\ \A i \in 2..Len(stack) + 1 : stack'[i] = stack[i - 1]
        /\ stack' # <<>>
    BY PushProperties DEF Open, TypeOK
  <2>2. CASE stack = <<>>
    <3>1. Len(stack) = 0
      BY <2>2
    <3>. QED  BY <2>1, <2>2, <3>1 DEF CallChain
  <2>3. CASE stack # <<>>
    <3>1. Head(stack) = stack[1] /\ Len(stack) >= 1
      BY <2>3, PopProperties DEF TypeOK
    <3>2. ASSUME NEW i \in 1..Len(stack') - 1 PROVE stack'[i] \in graph[stack'[i + 1]]
      <4>1. stack'[i + 1] = stack[i]
        BY <2>1
      <4>2. CASE i = 1
        BY <4>1, <4>2, <3>1, <2>1, <2>3
      <4>3. CASE i # 1
        <5>1. stack'[i] = stack[i - 1] /\ i - 1 \in 1..Len(stack) - 1
          BY <4>3, <2>1
        <5>2. stack[i - 1] \in graph[stack[(i - 1) + 1]]
          BY <5>1 DEF CallChain
        <5>3. (i - 1) + 1 = i
          OBVIOUS
        <5>. QED  BY <5>1, <5>2, <5>3, <4>1
      <4>. QED  BY <4>2, <4>3
    <3>3. stack'[Len(stack')] = stack[Len(stack)]
      BY <2>1, <3>1
    <3>. QED  BY <2>3, <3>2, <3>3 DEF CallChain
  <2>. QED  BY <2>2, <2>3
<1>5. CollectedSound' /\ (pending \subseteq roots)'
  BY <1>1 DEF CollectedSound
<1>. QED  BY <1>2, <1>3, <1>4, <1>5

\* What a finished walk hands to its caller is below the caller too.
LEMMA SoundInvClose ==
  ASSUME TypeOK, CompleteInv, SoundInv, Close
  PROVE  SoundInv'
<1> USE DEF SoundInv
<1> DEFINE t == Head(stack)
           p == Head(Tail(stack))
<1>1. \A S : Reachable(S)' = Reachable(S)
  BY DEF Reachable, Closed, Close
<1>2. /\ t \in Active
      /\ t \in Types
      /\ Active' = Active \ {t}
      /\ Active \subseteq Types
  BY ActiveAfterClose DEF CompleteInv, Active, TypeOK
<1>3. /\ stack' = Tail(stack) /\ stack # <<>>
      /\ Len(stack) \in Nat /\ Len(stack) >= 1
      /\ Len(stack') = Len(stack) - 1
      /\ t = stack[1]
      /\ \A i \in 1..Len(stack) - 1 : stack'[i] = stack[i + 1]
      /\ stack' \in Seq(Types)
  BY PopProperties DEF Close, TypeOK
<1>4. acc[t] \subseteq Reachable({t})
  BY <1>2 DEF OpenSound
<1>5. EntriesSound' /\ UnknownEmpty'
  <2>1. ASSUME NEW u \in known PROVE children'[u] \subseteq Reachable({u})
    BY <1>4, <1>2 DEF Close, EntriesSound, TypeOK
  <2>2. t \in known
    BY <1>2 DEF CompleteInv
  <2>. QED  BY <2>1, <2>2, <1>1 DEF EntriesSound, UnknownEmpty, Close, TypeOK
<1>6. OpenSound'
  <2>1. CASE Tail(stack) = <<>>
    BY <2>1, <1>1, <1>2 DEF Close, OpenSound
  <2>2. CASE Tail(stack) # <<>>
    <3>1. p = stack[2] /\ 2 \in 1..Len(stack) /\ 1 \in 1..Len(stack) - 1
      <4>1. p = stack'[1] /\ Len(stack') >= 1
        BY <2>2, <1>3, PopProperties
      <4>. QED  BY <4>1, <1>3
    <3>2. p \in Types /\ p \in Active /\ t \in graph[p]
      <4>1. stack[1] \in graph[stack[1 + 1]]
        BY <3>1 DEF CallChain
      <4>2. p \in Active
        BY <3>1 DEF Active
      <4>. QED  BY <4>1, <4>2, <3>1, <1>2, <1>3
    <3>3. acc[t] \subseteq Reachable({p})
      BY <3>2, <1>4, ReachableStep
    <3>4. /\ acc'[p] = acc[p] \cup acc[t] /\ todo'[p] \subseteq todo[p]
          /\ \A u \in Types \ {p} : acc'[u] = acc[u] /\ todo'[u] = todo[u]
      BY <2>2, <3>2 DEF Close, TypeOK
    <3>5. graph' = graph
      BY DEF Close
    <3>. QED  BY <3>2, <3>3, <3>4, <3>5, <1>1, <1>2 DEF OpenSound
  <2>. QED  BY <2>1, <2>2
<1>7. CallChain'
  <2>1. ASSUME NEW i \in 1..Len(stack') - 1 PROVE stack'[i] \in graph[stack'[i + 1]]
    <3>1. i + 1 \in 1..Len(stack) - 1 /\ i \in 1..Len(stack) - 1
      BY <1>3
    <3>2. stack[i + 1] \in graph[stack[(i + 1) + 1]]
      BY <3>1 DEF CallChain
    <3>. QED  BY <3>1, <3>2, <1>3
  <2>2. stack' # <<>> => stack'[Len(stack')] \in roots
    <3>1. SUFFICES ASSUME stack' # <<>> PROVE stack'[Len(stack')] \in roots
      OBVIOUS
    <3>2. Len(stack') >= 1
      BY <3>1, <1>3, PopProperties
    <3>3. Len(stack') \in 1..Len(stack) - 1 /\ Len(stack') + 1 = Len(stack)
      BY <3>2, <1>3
    <3>4. stack'[Len(stack')] = stack[Len(stack)]
      BY <3>3, <1>3
    <3>. QED  BY <3>4, <1>3 DEF CallChain
  <2>3. roots' = roots /\ graph' = graph
    BY DEF Close
  <2>. QED  BY <2>1, <2>2, <2>3 DEF CallChain
<1>8. CollectedSound' /\ (pending \subseteq roots)'
  <2>1. CASE Tail(stack) = <<>>
    <3>1. Len(stack') = 0
      BY <2>1, <1>3
    <3>2. t \in roots
      BY <3>1, <1>3 DEF CallChain
    <3>3. acc[t] \subseteq Reachable(roots)
      BY <3>2, <1>4, ReachableRoot
    <3>. QED  BY <2>1, <3>3, <1>1 DEF Close, CollectedSound
  <2>2. CASE Tail(stack) # <<>>
    BY <2>2, <1>1 DEF Close, CollectedSound
  <2>. QED  BY <2>1, <2>2
<1>. QED  BY <1>5, <1>6, <1>7, <1>8

\* Every step preserves soundness.
LEMMA SoundInvNext == TypeOK /\ CompleteInv /\ SoundInv /\ [Next]_vars => SoundInv'
<1> SUFFICES ASSUME TypeOK, CompleteInv, SoundInv, [Next]_vars PROVE SoundInv'
  OBVIOUS
<1>1. CASE StartRun
  <2>1. Closed(known) /\ known \in SUBSET Types /\ \A u \in known : graph'[u] = graph[u]
    BY <1>1 DEF StartRun, Idle, Active, CompleteInv, WalkedIsClosed, Closed, TypeOK
  <2>2. \A u \in known : Reachable({u}) \subseteq Reachable({u})'
    BY <2>1, ReachableExtend
  <2>3. EntriesSound' /\ UnknownEmpty'
    BY <1>1, <2>2 DEF StartRun, SoundInv, EntriesSound, UnknownEmpty
  <2>4. OpenSound' /\ CallChain'
    BY <1>1 DEF StartRun, Idle, OpenSound, CallChain, Active
  <2>5. CollectedSound' /\ (pending \subseteq roots)'
    BY <1>1 DEF StartRun, CollectedSound
  <2>. QED  BY <2>3, <2>4, <2>5 DEF SoundInv
<1>2. ASSUME NEW r \in Types, OpenRoot(r) PROVE SoundInv'
  BY <1>2, SoundInvOpen DEF OpenRoot, SoundInv
<1>3. ASSUME NEW s \in Types, OpenChild(s) PROVE SoundInv'
  <2>1. s \in graph[Head(stack)]
    <3>1. Head(stack) \in Active
      BY <1>3, PopProperties DEF OpenChild, Active, TypeOK
    <3>. QED  BY <1>3, <3>1 DEF OpenChild, SoundInv, OpenSound
  <2>. QED  BY <1>3, <2>1, SoundInvOpen DEF OpenChild
<1>4. ASSUME NEW r \in Types, ReuseRoot(r) PROVE SoundInv'
  <2>1. \A S : Reachable(S)' = Reachable(S)
    BY <1>4 DEF Reachable, Closed, ReuseRoot
  <2>2. children[r] \subseteq Reachable(roots)
    BY <1>4, ReachableRoot DEF ReuseRoot, SoundInv, EntriesSound
  <2>3. Active' = Active
    BY <1>4 DEF ReuseRoot, Active
  <2>. QED  BY <1>4, <2>1, <2>2, <2>3
            DEF ReuseRoot, SoundInv, EntriesSound, UnknownEmpty, OpenSound, CallChain, CollectedSound
<1>5. ASSUME NEW s \in Types, ReuseChild(s) PROVE SoundInv'
  <2> DEFINE t == Head(stack)
  <2>1. \A S : Reachable(S)' = Reachable(S)
    BY <1>5 DEF Reachable, Closed, ReuseChild
  <2>2. Active' = Active /\ t \in Active /\ t \in Types
    BY <1>5, PopProperties DEF ReuseChild, Active, TypeOK
  <2>3. children[s] \subseteq Reachable({t})
    <3>1. children[s] \subseteq Reachable({s})
      BY <1>5 DEF ReuseChild, SoundInv, EntriesSound
    <3>2. s \in graph[t]
      BY <1>5, <2>2 DEF ReuseChild, SoundInv, OpenSound
    <3>. QED  BY <3>1, <3>2, <2>2, ReachableStep
  <2>4. OpenSound'
    <3>1. /\ acc'[t] = acc[t] \cup children[s] /\ todo'[t] \subseteq todo[t]
          /\ \A u \in Types \ {t} : acc'[u] = acc[u] /\ todo'[u] = todo[u]
          /\ graph' = graph
      BY <1>5, <2>2 DEF ReuseChild, TypeOK
    <3>2. Active \subseteq Types
      BY DEF Active, TypeOK
    <3>. QED  BY <3>1, <3>2, <2>1, <2>2, <2>3 DEF SoundInv, OpenSound
  <2>. QED  BY <1>5, <2>1, <2>4
            DEF ReuseChild, SoundInv, EntriesSound, UnknownEmpty, CallChain, CollectedSound
<1>6. CASE Close
  BY <1>6, SoundInvClose
<1>7. CASE UNCHANGED vars
  <2>1. \A S : Reachable(S)' = Reachable(S)
    BY <1>7 DEF Reachable, Closed, vars
  <2>2. Active' = Active
    BY <1>7 DEF Active, vars
  <2>. QED  BY <1>7, <2>1, <2>2
            DEF vars, SoundInv, EntriesSound, UnknownEmpty, OpenSound, CallChain, CollectedSound
<1>. QED  BY <1>1, <1>2, <1>3, <1>4, <1>5, <1>6, <1>7 DEF Next, Walk

LEMMA AllInvariants == Spec => [](TypeOK /\ CompleteInv /\ SoundInv)
<1>1. Init => SoundInv
  BY DEF Init, SoundInv, EntriesSound, UnknownEmpty, OpenSound, CallChain, CollectedSound, Active
<1>2. TypeOK /\ CompleteInv /\ [Next]_vars => CompleteInv'
  BY CompleteInvNext
<1>3. TypeOK /\ CompleteInv /\ SoundInv /\ [Next]_vars => SoundInv'
  BY SoundInvNext
<1>. QED  BY <1>1, <1>2, <1>3, CompleteInvInit, TypeCorrect, PTL DEF Spec

\* No createSchema call collects a definition that its roots do not reach.
THEOREM CollectionIsSound == Spec => []CollectsOnlyReachable
<1>1. TypeOK /\ SoundInv => CollectsOnlyReachable
  BY DEF TypeOK, SoundInv, CollectedSound, CollectsOnlyReachable
<1>. QED  BY <1>1, AllInvariants, PTL

\* No walk changes the memo entry of a type whose call has returned.
THEOREM EntriesNeverChange == Spec => EntriesAreFinal
<1>1. TypeOK /\ CompleteInv /\ [Next]_vars
      => [\A t \in known \ Active : t \in known' /\ children'[t] = children[t]]_vars
  <2> SUFFICES ASSUME TypeOK, CompleteInv, Next, NEW t \in known \ Active
               PROVE  t \in known' /\ children'[t] = children[t]
    OBVIOUS
  <2>1. CASE Close
    <3>1. Head(stack) \in Active
      BY <2>1, ActiveAfterClose DEF CompleteInv
    <3>. QED  BY <2>1, <3>1 DEF Close, TypeOK
  <2>2. CASE StartRun
    BY <2>2 DEF StartRun
  <2>3. ASSUME NEW s \in Types, OpenRoot(s) \/ ReuseRoot(s) \/ OpenChild(s) \/ ReuseChild(s)
        PROVE  t \in known' /\ children'[t] = children[t]
    BY <2>3 DEF OpenRoot, ReuseRoot, OpenChild, ReuseChild, Open
  <2>. QED  BY <2>1, <2>2, <2>3 DEF Next, Walk
<1>2. TypeOK /\ CompleteInv /\ [Next]_vars => CompleteInv'
  BY CompleteInvNext
<1>. QED  BY <1>1, <1>2, CompleteInvInit, TypeCorrect, PTL DEF Spec, EntriesAreFinal
=============================================================================
