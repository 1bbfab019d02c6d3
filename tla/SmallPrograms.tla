----------------------------- MODULE SmallPrograms -----------------------------
(***************************************************************************)
(* Small TypeScript programs as NodeParser takes them: how a declaration   *)
(* and the types of its members are laid out as nodes, each named after    *)
(* its place ("A2.1" is the first part of the second member of A).         *)
(***************************************************************************)
EXTENDS Naturals, Sequences, FiniteSetsExt, TLC

Node(kind, kids, target, name) ==
  [kind |-> kind, kids |-> kids, target |-> target, name |-> name,
   params |-> <<>>, exported |-> FALSE, exposed |-> FALSE, owner |-> "", height |-> 0]

\* Types, with their parts in place of the nodes of their parts.
Primitive(name)                == Node("prim", <<>>, "", name)
String                         == Primitive("string")
Number                         == Primitive("number")
NeverType                      == Node("never", <<>>, "", "")
Parameter(name)                == Node("param", <<>>, "", name)
ReferenceTo(target, arguments) == Node("ref", arguments, target, "")
Unresolved                     == ReferenceTo("", <<>>)
Tuple(elements)                == Node("tuple", elements, "", "")
Index(object, m)               == Node("index", <<object>>, "", m)
Literal(members)               == Node("literal", members, "", "")

RECURSIVE HeightOf(_)
HeightOf(type) == 1 + Max({0} \cup {HeightOf(type.kids[i]) : i \in 1..Len(type.kids)})

RECURSIVE Layout(_, _, _)
Layout(owner, place, type) ==
  LET part(i) == place \o "." \o ToString(i)
      parts == {Layout(owner, part(i), type.kids[i]) : i \in 1..Len(type.kids)}
      node == [type EXCEPT !.kids = [i \in 1..Len(type.kids) |-> part(i)],
                           !.owner = owner, !.height = HeightOf(type)]
  IN FoldSet(LAMBDA f, g : f @@ g, place :> node, parts)

Declaration(kind, name, params, exported, exposed, parts) ==
  LET place(i) == name \o ToString(i)
      node == [Node(kind, [i \in 1..Len(parts) |-> place(i)], "", name)
                 EXCEPT !.params = params, !.exported = exported, !.exposed = exposed, !.owner = name,
                        !.height = HeightOf([kids |-> parts])]
  IN FoldSet(LAMBDA f, g : f @@ g, name :> node,
             {Layout(name, place(i), parts[i]) : i \in 1..Len(parts)})

\* interface name<params> { 1: ...; 2: ... }
Interface(name, params, members) ==
  Declaration("interface", name, params, TRUE, TRUE, members)

\* type name<params> = type
TypeAlias(name, params, type) ==
  Declaration("alias", name, params, TRUE, TRUE, <<type>>)

\* The declaration without the export in front of it, or with --expose none.
Hide(name, declaration) == [declaration EXCEPT ![name].exported = FALSE, ![name].exposed = FALSE]

ExposeNone(program) == [n \in DOMAIN program |-> [program[n] EXCEPT !.exposed = FALSE]]
=============================================================================
