-------------------------- MODULE MCChildCollector --------------------------
(***************************************************************************)
(* ChildCollector on the graphs the parser builds for small programs: two  *)
(* definitions, each of one object, and one circular reference.  Only a    *)
(* reference closes a cycle.                                               *)
(***************************************************************************)
EXTENDS ChildCollector

CONSTANTS d1, d2, o1, o2, ref

MCTypes == {d1, d2, o1, o2, ref}
MCDefinitions == {d1, d2}

\* A definition has one inner type, a reference one definition; the objects
\* have any members.  o1 -> d2 -> o2 -> d1 would be a cycle without a
\* reference on it, so o2 reaches d1 through ref alone.
MCGraphs ==
  {[t \in MCTypes |-> CASE t = d1 -> {o1}
                        [] t = d2 -> {o2}
                        [] t = ref -> {target}
                        [] t = o1 -> members1
                        [] t = o2 -> members2] :
     target \in {d1, d2}, members1 \in SUBSET {d2, o2, ref}, members2 \in SUBSET {ref}}
=============================================================================
