---------------------------- MODULE ConditionalType ----------------------------
(***************************************************************************)
(* ConditionalTypeNodeParser.CreateType, for `Check extends Extends ?      *)
(* True : False` whose two operands are parsed: one branch is chosen, or,  *)
(* if Check is a type parameter, the check type is narrowed for each       *)
(* branch and both are followed as far as anything is left for them.       *)
(* What is inferred on the way is bound in the context of the branch.      *)
(***************************************************************************)
EXTENDS Assignability

CONSTANTS
  CheckTypes, ExtendsTypes,  \* the types on the two sides
  Values,                    \* the values the types are compared by
  ParentContext              \* of the conditional type but for its own parameter

CheckParameter == "T"

VARIABLES
  checkType, extendsType,
  isParameter,  \* BOOLEAN: Check is the type parameter T
  pc,
  inferred,     \* the InferMap of the true branch
  trueCheckType, falseCheckType,
  branches,     \* the branches followed: which, and in what context
  result

vars == <<checkType, extendsType, isParameter, pc, inferred, trueCheckType, falseCheckType,
          branches, result>>

-----------------------------------------------------------------------------
Narrowed(type, map) == [type |-> type, inferred |-> map]

\* Mutant of KeptAs: of several types left the first is taken.
KeptAsFirst(kept) == IF kept = <<>> THEN NeverType ELSE kept[1]

KeptAs(kept) ==
  CASE kept = <<>> -> NeverType
    [] Len(kept) = 1 -> kept[1]
    [] OTHER -> NewUnionType(kept)

\* Mutant of Remaining: a union is made anew even if nothing was taken away.
RemainingAnew(type, variants) == KeptAs(variants.kept)

Remaining(type, variants) == IF variants.changed THEN KeptAs(variants.kept) ELSE type

\* NarrowType with the predicate "is assignable to extends", or with the
\* opposite, which infers nothing.
RECURSIVE NarrowType(_, _, _, _)
NarrowType(type, extends, wanted, map) ==
  LET t == DerefType(type)
      Visit(so, sub) ==
        LET narrowed == NarrowType(DerefType(sub), extends, wanted, so.inferred) IN
        [kept |-> IF IsNeverLike(narrowed.type) THEN so.kept
                  ELSE Append(so.kept, IF narrowed.type = DerefType(sub) THEN sub ELSE narrowed.type),
         changed |-> so.changed \/ IsNeverLike(narrowed.type) \/ narrowed.type # DerefType(sub),
         inferred |-> narrowed.inferred]
      variants == FoldLeft(Visit, [kept |-> <<>>, changed |-> FALSE, inferred |-> map], t.types)
      one == IsAssignableTo(extends, t, IF wanted THEN map ELSE NoInferences)
  IN  IF t.k \in {"union", "enum"}
      THEN Narrowed(Remaining(type, variants), variants.inferred)
      ELSE Narrowed(IF one.ok = wanted THEN type ELSE NeverType, IF wanted THEN one.inferred ELSE map)

Binding(name, type) == [name |-> name, type |-> type]

\* A context is the sequence of its bindings; Context.GetArgument.
GetArgument(context, name) == SelectSeq(context, LAMBDA b : b.name = name)[1].type
Parent == IF isParameter THEN <<Binding(CheckParameter, checkType)>> \o ParentContext ELSE ParentContext

InferredBindings(map) == LET names == SetToSeq(DOMAIN map)
  IN [i \in DOMAIN names |-> Binding(names[i], map[names[i]])]

\* createSubContext: inferences, the narrowed check type, the parent's rest.
SubContext(map, check) ==
  InferredBindings(map) \o
  (IF isParameter
   THEN <<Binding(CheckParameter, check)>> \o SelectSeq(Parent, LAMBDA b : b.name # CheckParameter)
   ELSE Parent)

-----------------------------------------------------------------------------
\* Parsing a branch is the business of other parsers; here both branches are
\* Check itself, which a type parameter makes whatever it is bound to.
BranchType(context) == IF isParameter THEN GetArgument(context, CheckParameter) ELSE checkType

Init ==
  /\ checkType \in CheckTypes
  /\ extendsType \in ExtendsTypes
  /\ isParameter \in BOOLEAN
  /\ pc = "parsed"
  /\ inferred = NoInferences
  /\ trueCheckType = NeverType
  /\ falseCheckType = NeverType
  /\ branches = <<>>
  /\ result = NeverType

Follow(which, context) == branches' = Append(branches, [branch |-> which, context |-> context])

\* Check is no type parameter: nothing is narrowed.
Choose ==
  /\ pc = "parsed"
  /\ ~isParameter
  /\ LET check == IsAssignableTo(extendsType, checkType, NoInferences) IN
     IF check.ok
     THEN inferred' = check.inferred /\ Follow("true", SubContext(check.inferred, checkType))
     ELSE inferred' = NoInferences /\ Follow("false", SubContext(NoInferences, checkType))
  /\ result' = checkType
  /\ pc' = "done"
  /\ UNCHANGED <<checkType, extendsType, isParameter, trueCheckType, falseCheckType>>

NarrowForTrue ==
  /\ pc = "parsed"
  /\ isParameter
  /\ LET narrowed == NarrowType(checkType, extendsType, TRUE, NoInferences) IN
     trueCheckType' = narrowed.type /\ inferred' = narrowed.inferred
  /\ pc' = "true narrowed"
  /\ UNCHANGED <<checkType, extendsType, isParameter, falseCheckType, branches, result>>

NarrowForFalse ==
  /\ pc = "true narrowed"
  /\ falseCheckType' = NarrowType(checkType, extendsType, FALSE, NoInferences).type
  /\ pc' = "narrowed"
  /\ UNCHANGED <<checkType, extendsType, isParameter, inferred, trueCheckType, branches, result>>

FollowTrue ==
  /\ pc = "narrowed"
  /\ IF IsNeverLike(trueCheckType) THEN UNCHANGED branches
     ELSE Follow("true", SubContext(inferred, trueCheckType))
  /\ pc' = "true followed"
  /\ UNCHANGED <<checkType, extendsType, isParameter, inferred, trueCheckType, falseCheckType, result>>

\* Mutant of FollowFalse: the false branch is the exception.
FollowFalseOnlyAlone ==
  /\ pc = "true followed"
  /\ IF branches # <<>> \/ IsNeverLike(falseCheckType) THEN UNCHANGED branches
     ELSE Follow("false", SubContext(NoInferences, falseCheckType))
  /\ pc' = "false followed"
  /\ UNCHANGED <<checkType, extendsType, isParameter, inferred, trueCheckType, falseCheckType, result>>

FollowFalse ==
  /\ pc = "true followed"
  /\ IF IsNeverLike(falseCheckType) THEN UNCHANGED branches
     ELSE Follow("false", SubContext(NoInferences, falseCheckType))
  /\ pc' = "false followed"
  /\ UNCHANGED <<checkType, extendsType, isParameter, inferred, trueCheckType, falseCheckType, result>>

\* What the branches give is united.
Unite ==
  /\ pc = "false followed"
  /\ result' = Normalize(NewUnionType([i \in DOMAIN branches |-> BranchType(branches[i].context)]))
  /\ pc' = "done"
  /\ UNCHANGED <<checkType, extendsType, isParameter, inferred, trueCheckType, falseCheckType, branches>>

Next == Choose \/ NarrowForTrue \/ NarrowForFalse \/ FollowTrue \/ FollowFalse \/ Unite

Spec == Init /\ [][Next]_vars

-----------------------------------------------------------------------------
(* Properties *)

\* The placeholders of a type.
Placeholders(type) == {part.name : part \in {p \in Parts(type) : Is(p, "infer")}}

\* What TypeScript distributes a conditional type over.
RECURSIVE Variants(_)
Variants(type) ==
  LET t == DerefType(type)
  IN  IF t.k \in {"union", "enum"} THEN UNION {Variants(m) : m \in Range(t.types)} ELSE {t} \ {NeverType}

Fits(variant) == IsAssignableTo(extendsType, variant, NoInferences).ok

\* A type that is found assignable has no value that the target does not have
\* (any may be assigned to everything).
AssignableIsSound ==
  pc = "parsed" /\ Placeholders(extendsType) = {} /\ AnyType \notin Parts(checkType)
    /\ Fits(checkType) =>
    \A v \in Values : Has(checkType, v, TRUE) => Has(extendsType, v, FALSE)

RECURSIVE IsPlain(_)
IsPlain(type) ==
  LET t == DerefType(type)
  IN  IF t.k \in {"union", "enum"} THEN \A m \in Range(t.types) : IsPlain(m)
      ELSE t.k \in {"string", "number", "null", "undefined", "literal", "never"}

\* Between primitive types, literals and their unions and enums, however they
\* are nested and named, nothing that fits is turned down.
PlainIsComplete ==
  pc = "parsed" /\ IsPlain(checkType) /\ IsPlain(extendsType) =>
    ((\A v \in Values : Has(checkType, v, TRUE) => Has(extendsType, v, FALSE)) => Fits(checkType))

\* A conditional type over a type parameter distributes: each variant of the
\* check type, named or nested or not, goes to the branch its own check says.
Distributes ==
  pc = "done" /\ isParameter =>
    /\ Variants(trueCheckType) = {t \in Variants(checkType) : Fits(t)}
    /\ Variants(falseCheckType) = {t \in Variants(checkType) : ~Fits(t)}
    /\ \A which \in {"true", "false"} :
         (\E i \in DOMAIN branches : branches[i].branch = which) <=>
           (IF which = "true" THEN trueCheckType # NeverType ELSE falseCheckType # NeverType)

\* `T extends X ? T : T` is T: every value of the check type is in what one of
\* the branches gives, and no other (as long as no `infer T` hides it); a check
\* type of which nothing is taken away keeps its name there.
NothingIsLost ==
  pc = "done" =>
    /\ CheckParameter \notin DOMAIN inferred =>
         \A v \in Values : Has(result, v, TRUE) <=> Has(checkType, v, TRUE)
    /\ isParameter /\ Variants(checkType) # {} =>
         /\ (\A t \in Variants(checkType) : Fits(t)) => trueCheckType = checkType
         /\ (\A t \in Variants(checkType) : ~Fits(t)) => falseCheckType = checkType
=============================================================================
