---------------------- MODULE SchemaGeneratorProperties ----------------------
(***************************************************************************)
(* What CreateSchema is for: its schemas mean what the requested           *)
(* declarations mean, and its errors are the program's, not its own.       *)
(***************************************************************************)
EXTENDS SchemaIdentity, NodeParserProperties

\* A schema read back the way a validator reads it: a $ref by its name in the
\* definitions, everything else in place.
RECURSIVE SchemaMeaning(_, _, _)
SchemaMeaning(p, defs, depth) ==
  LET t == heap[p]
      parts == [i \in 1..Len(t.subs) |-> SchemaMeaning(t.subs[i], defs, depth - 1)]
  IN CASE t.kind \in {"def", "ref"} -> SchemaMeaning(defs[t.name], defs, depth)
       [] t.kind = "alias" -> SchemaMeaning(t.subs[1], defs, depth)
       [] t.kind = "prim" -> <<t.id[1].of>>
       [] t.kind \notin {"def", "ref", "alias", "prim"} /\ depth = 0 -> Cut
       [] t.kind \in {"tuple", "object"} /\ depth # 0 -> <<t.kind, parts>>
       [] OTHER -> <<t.kind>>

\* The schema of every call describes the types that were asked for, read
\* through its own $refs: names identify definitions, whichever root, generic
\* instance or earlier call they come from.
SchemaMeansTheSource ==
  Returned /\ Latest.error = "" =>
    \A i \in 1..Len(request) :
      SchemaMeaning(Latest.roots[i], Latest.definitions, Depth) = Meaning(Closure(request[i], <<>>), Depth)

\* Every CreateSchema call returns, with a schema or an error.
EveryRequestReturns == phase # "idle" ~> phase = "idle"
=============================================================================
