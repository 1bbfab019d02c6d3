---------------------------- MODULE SchemaIdentity ----------------------------
(***************************************************************************)
(* What a $ref is put for: the formatter writes the name of a definition   *)
(* or of a reference in place of its type, and the schema has, under that  *)
(* name, the type that was the first to have it.                           *)
(***************************************************************************)
EXTENDS SchemaGenerator, TypeIdentity

\* Every $ref of a schema means the type it stands in for: whichever definition of
\* its name was kept by appendRootChildDefinitions, of whichever root, and
\* whichever instance of the type was parsed in this call or in an earlier one.
RefsMeanTheirTypes ==
  Returned /\ Latest.error = "" /\ DistinctNames /\ NothingIsNever =>
    \A p \in Pointers(heap) :
      /\ heap[p].kind \in {"def", "ref"}
      /\ heap[p].name \in DOMAIN Latest.definitions
      => Unfolding(p, Depth) = Unfolding(Latest.definitions[heap[p].name], Depth)
=============================================================================
