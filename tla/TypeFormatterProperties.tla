------------------------- MODULE TypeFormatterProperties -------------------------
(***************************************************************************)
(* What the schemas are for: they accept the values of the types.          *)
(***************************************************************************)
EXTENDS TypeFormatter

\* Definitions are well-formed, however they were merged: a const and an enum
\* never stand together, no choice is empty, and what an object without other
\* properties requires it has.
WellFormed(def) ==
  /\ ~(Mentions(def, "const") /\ Mentions(def, "enum"))
  /\ \A keyword \in {"anyOf", "oneOf", "allOf", "type"} : Said(def, keyword, <<{}>>) # <<>>
  /\ Said(def, "additionalProperties", Anything) = False =>
       Said(def, "required", {}) \subseteq DOMAIN Said(def, "properties", Anything)

\* The request that was served last, as long as no other is worked on.
Served == IF served # <<>> /\ rootDefs = <<>> THEN {Len(served)} ELSE {}
Schema(r) == served[r]
RootPairs(r) == {<<batch[r][i], Schema(r).roots[i]>> : i \in DOMAIN batch[r]}

\* A value of a root type is valid against the schema: nothing a program of the
\* types may produce is refused (the formatters and allOf merging together).
EveryValueAccepted ==
  \A r \in Served : \A pair \in RootPairs(r) : \A v \in Values :
    Has(pair[1], v, TRUE) => Accepts(pair[2], Schema(r).definitions, v)

\* And nothing else is valid.
NoOtherValueAccepted ==
  \A r \in Served : \A pair \in RootPairs(r) : \A v \in Values :
    Accepts(pair[2], Schema(r).definitions, v) => Has(pair[1], v, TRUE)

\* All definitions in these and in what they are made of.
RECURSIVE Within(_)
Within(defs) == IF defs = {} THEN {} ELSE defs \cup Within(UNION {SubDefinitions(d) : d \in defs})

\* A schema is well-formed however its parts were merged, and has the definitions
\* it refers to, at any depth and under any keyword, and no others; collecting them
\* never comes short of what RemoveUnreachable needs.
SchemasAreWellFormed ==
  /\ formatter.failed # "missing definition"
  /\ \A r \in Served :
       LET defs == Within(Range(Schema(r).roots) \cup Range(Schema(r).definitions))
       IN  /\ \A d \in defs : WellFormed(d)
           /\ {d["$ref"] : d \in {d \in defs : Mentions(d, "$ref")}} = DOMAIN Schema(r).definitions

\* The schema a new process makes of one request.
Pruned(roots, all) ==
  [roots |-> roots,
   definitions |-> Restrict(all, UNION {Reachable(root, all) : root \in Range(roots)})]

ByName(names, defs) == [n \in Range(names) |-> defs[CHOOSE i \in DOMAIN names : names[i] = n]]

WithBelow(names, first) ==
  Pruned(first.defs,
         ByName(names, GetDefinitions([i \in DOMAIN names |-> Declarations[names[i]]], NoneDone(first.state)).defs))

AloneServed(request) ==
  WithBelow(ChildNames(<<>>, request), GetDefinitions(request, NoneDone(FreshFormatter)))

\* Each request gets the schema it would get alone, whatever was formatted
\* before (README.md:54, of the files of --outdir).
SameAsAlone == \A r \in Served : Schema(r) = AloneServed(batch[r])
=============================================================================
