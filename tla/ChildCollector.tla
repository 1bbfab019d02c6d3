---------------------------- MODULE ChildCollector ----------------------------
(***************************************************************************)
(* How the definitions of a schema are collected.  For every root type the *)
(* generator asks the outermost formatter, CircularReferenceTypeFormatter, *)
(* for the root's children; the formatter walks the graph of intermediate  *)
(* types depth first and memoises, per type instance, the DefinitionTypes  *)
(* it found below it.  A type that is being walked already has an (empty)  *)
(* memo entry, which is what ends the walk on a cyclic graph - and what    *)
(* makes the entries of the other types on that cycle incomplete.          *)
(*                                                                         *)
(* The memo lives as long as the generator: a second createSchema call, as *)
(* --outdir makes one per type, starts with the entries of the first.      *)
(***************************************************************************)
EXTENDS Naturals, Sequences

CONSTANTS
  Types,        \* every instance of an intermediate type
  Definitions,  \* those that are a *types.DefinitionType
  Graphs,       \* the type graphs the parser may have built, [Types -> SUBSET Types]
  MaxRuns       \* bound on the createSchema calls of one generator

ASSUME DefinitionsAssumption == Definitions \subseteq Types
ASSUME GraphsAssumption == Graphs \subseteq [Types -> SUBSET Types]
ASSUME MaxRunsAssumption == MaxRuns \in Nat

VARIABLES
  graph,      \* graph[t]: the types t's formatter asks the children of
  known,      \* the keys of the formatter's children map
  children,   \* children[t]: the value of key t, empty while t is walked
  stack,      \* the types whose GetChildren call is open, innermost first
  todo,       \* todo[t]: types the open call of t has not asked yet
  acc,        \* acc[t]: definitions the open call of t has gathered
  run,        \* number of createSchema calls so far
  roots,      \* the root types of the present call
  pending,    \* roots whose children were not asked yet
  collected   \* definitions handed to appendRootChildDefinitions in this call

vars == <<graph, known, children, stack, todo, acc, run, roots, pending, collected>>

-----------------------------------------------------------------------------
Closed(C) == \A t \in C : graph[t] \subseteq C

\* The types reachable from S: the least closed set around it.
Reachable(S) == {t \in Types : \A C \in SUBSET Types : S \subseteq C /\ Closed(C) => t \in C}

Active == {stack[i] : i \in 1..Len(stack)}

Idle == stack = <<>> /\ pending = {}

-----------------------------------------------------------------------------
Init ==
  /\ graph \in Graphs
  /\ known = {}
  /\ children = [t \in Types |-> {}]
  /\ stack = <<>>
  /\ todo = [t \in Types |-> {}]
  /\ acc = [t \in Types |-> {}]
  /\ run = 0
  /\ roots = {}
  /\ pending = {}
  /\ collected = {}

\* Mutant of StartRun: what the last call collected is still there.
StartRunKeepingCollected ==
  /\ Idle
  /\ run < MaxRuns
  /\ run' = run + 1
  /\ graph' \in Graphs
  /\ \A t \in known : graph'[t] = graph[t]
  /\ roots' \in (SUBSET Types) \ {{}}
  /\ pending' = roots'
  /\ UNCHANGED <<known, children, stack, todo, acc, collected>>

\* A createSchema call has parsed its roots.  Parsing may add types; it does
\* not touch those the formatter has seen, all of whose references are set.
StartRun ==
  /\ Idle
  /\ run < MaxRuns
  /\ run' = run + 1
  /\ graph' \in Graphs
  /\ \A t \in known : graph'[t] = graph[t]
  /\ roots' \in (SUBSET Types) \ {{}}
  /\ pending' = roots'
  /\ collected' = {}
  /\ UNCHANGED <<known, children, stack, todo, acc>>

\* Mutant of Open: every type is the first of its children.
OpenWithSelf(t) ==
  /\ t \notin known
  /\ known' = known \cup {t}
  /\ stack' = <<t>> \o stack
  /\ todo' = [todo EXCEPT ![t] = graph[t]]
  /\ acc' = [acc EXCEPT ![t] = {t}]

\* GetChildren(t) for a t without an entry: leave the empty placeholder, then
\* let t's own formatter ask on.  A definition is the first of its children.
Open(t) ==
  /\ t \notin known
  /\ known' = known \cup {t}
  /\ stack' = <<t>> \o stack
  /\ todo' = [todo EXCEPT ![t] = graph[t]]
  /\ acc' = [acc EXCEPT ![t] = {t} \cap Definitions]

OpenRoot(r) ==
  /\ stack = <<>>
  /\ r \in pending
  /\ Open(r)
  /\ UNCHANGED <<graph, children, run, roots, pending, collected>>

\* The root has an entry already: its children are whatever the entry holds.
ReuseRoot(r) ==
  /\ stack = <<>>
  /\ r \in pending
  /\ r \in known
  /\ pending' = pending \ {r}
  /\ collected' = collected \cup children[r]
  /\ UNCHANGED <<graph, known, children, stack, todo, acc, run, roots>>

OpenChild(s) ==
  /\ stack # <<>>
  /\ s \in todo[Head(stack)]
  /\ Open(s)
  /\ UNCHANGED <<graph, children, run, roots, pending, collected>>

\* Mutant of ReuseChild: the entry is appended to in place.
ReuseChildInPlace(s) ==
  /\ stack # <<>>
  /\ s \in todo[Head(stack)]
  /\ s \in known
  /\ LET t == Head(stack) IN
       /\ todo' = [todo EXCEPT ![t] = @ \ {s}]
       /\ acc' = [acc EXCEPT ![t] = @ \cup children[s]]
       /\ children' = [children EXCEPT ![s] = @ \cup acc[t]]
  /\ UNCHANGED <<graph, known, stack, run, roots, pending, collected>>

\* Mutant of ReuseChild: the placeholder of an open call does not count.
ReuseChildWhenClosed(s) ==
  /\ stack # <<>>
  /\ s \in todo[Head(stack)]
  /\ s \in known \ Active
  /\ LET t == Head(stack) IN
       /\ todo' = [todo EXCEPT ![t] = @ \ {s}]
       /\ acc' = [acc EXCEPT ![t] = @ \cup children[s]]
  /\ UNCHANGED <<graph, known, children, stack, run, roots, pending, collected>>

\* The child has an entry: a full one, or the empty one of a call still open.
ReuseChild(s) ==
  /\ stack # <<>>
  /\ s \in todo[Head(stack)]
  /\ s \in known
  /\ LET t == Head(stack) IN
       /\ todo' = [todo EXCEPT ![t] = @ \ {s}]
       /\ acc' = [acc EXCEPT ![t] = @ \cup children[s]]
  /\ UNCHANGED <<graph, known, children, stack, run, roots, pending, collected>>

\* Mutant of Close: the caller does not add what the call has gathered.
CloseWithoutCaller ==
  /\ stack # <<>>
  /\ todo[Head(stack)] = {}
  /\ LET t == Head(stack)
         rest == Tail(stack)
     IN  /\ children' = [children EXCEPT ![t] = acc[t]]
         /\ stack' = rest
         /\ IF rest = <<>>
            THEN /\ pending' = pending \ {t}
                 /\ collected' = collected \cup acc[t]
                 /\ UNCHANGED <<todo, acc>>
            ELSE /\ todo' = [todo EXCEPT ![Head(rest)] = @ \ {t}]
                 /\ UNCHANGED <<acc, pending, collected>>
  /\ UNCHANGED <<graph, known, run, roots>>

\* The innermost call returns to the one that made it, or to the generator.
Close ==
  /\ stack # <<>>
  /\ todo[Head(stack)] = {}
  /\ LET t == Head(stack)
         rest == Tail(stack)
     IN  /\ children' = [children EXCEPT ![t] = acc[t]]
         /\ stack' = rest
         /\ IF rest = <<>>
            THEN /\ pending' = pending \ {t}
                 /\ collected' = collected \cup acc[t]
                 /\ UNCHANGED <<todo, acc>>
            ELSE /\ todo' = [todo EXCEPT ![Head(rest)] = @ \ {t}]
                 /\ acc' = [acc EXCEPT ![Head(rest)] = @ \cup acc[t]]
                 /\ UNCHANGED <<pending, collected>>
  /\ UNCHANGED <<graph, known, run, roots>>

Walk ==
  \/ \E r \in Types : OpenRoot(r) \/ ReuseRoot(r)
  \/ \E s \in Types : OpenChild(s) \/ ReuseChild(s)
  \/ Close

Next == StartRun \/ Walk

Spec == Init /\ [][Next]_vars

\* The walk is one goroutine that never waits: it goes on while it can.
FairSpec == Spec /\ WF_vars(Walk)

-----------------------------------------------------------------------------
TypeOK ==
  /\ graph \in [Types -> SUBSET Types]
  /\ known \in SUBSET Types
  /\ children \in [Types -> SUBSET Definitions]
  /\ stack \in Seq(Types)
  /\ todo \in [Types -> SUBSET Types]
  /\ acc \in [Types -> SUBSET Definitions]
  /\ run \in Nat
  /\ roots \in SUBSET Types
  /\ pending \in SUBSET Types
  /\ collected \in SUBSET Definitions

\* The schema of the generator's first createSchema call has every definition
\* its roots lead to, whatever the shape of the type graph and the order of
\* the roots: no $ref of it can be left without its definition.
FirstRunComplete ==
  run = 1 /\ Idle => Reachable(roots) \cap Definitions \subseteq collected

\* No call, first or later, collects a definition its roots do not lead to.
CollectsOnlyReachable == collected \subseteq Reachable(roots) \cap Definitions

\* A memo entry is written once: after the call that made it has returned, no
\* later walk changes what the formatter will answer for that type.
EntriesAreFinal ==
  [][\A t \in known \ Active : t \in known' /\ children'[t] = children[t]]_vars

\* Every createSchema call gets through its roots, cyclic graph or not.
EveryRunEnds == pending # {} ~> Idle
=============================================================================
