--------------------------- MODULE MCTypeFormatter ---------------------------
(***************************************************************************)
(* Exported types with the properties p and q, asked for one or two at a   *)
(* time and in two requests of one process.                                *)
(***************************************************************************)
EXTENDS TypeFormatterProperties

A == LiteralType("string", "p")
B == LiteralType("string", "q")
One == LiteralType("number", "1")
P(t) == Property("p", t, TRUE)
Q(t) == Property("q", t, TRUE)
Maybe(property) == [property EXCEPT !.required = FALSE]
Object(id, properties) == ObjectType(id, <<>>, properties)
Union(types) == NewUnionType(types)
Ref(name) == DefinitionType(name)
Nullable(t) == AnnotatedType(t, TRUE, NoTag)
Kind(t, at) == AnnotatedType(t, FALSE, Tag("p", at))

MCDeclarations ==
  LET letters == Union(<<A, B>>) IN
  "Letters" :> letters
  @@ "Level" :> EnumType("level", <<One, LiteralType("number", "2")>>)
  @@ "Mixed" :> Union(<<StringType, One, NullType>>)
  @@ "Base" :> Object("base", <<P(StringType)>>)
  @@ "Sub" :> ObjectType("sub", <<Ref("Base")>>, <<Maybe(Q(Union(<<NumberType, NullType>>)))>>)
  @@ "Narrow" :> ObjectType("narrow", <<Ref("Base")>>, <<P(letters), Maybe(Q(VoidType))>>)
  @@ "Narrower" :> ObjectType("narrower", <<Ref("Narrow")>>, <<P(B)>>)
  @@ "Overlap" :> IntersectionType(<<Ref("Narrow"), Object("over", <<P(Union(<<B, LiteralType("string", "c")>>))>>)>>)
  @@ "Empty" :> Object("none", <<Maybe(P(UndefinedType)), Maybe(Q(NeverType))>>)
  @@ "Loose" :> Object("loose", <<Maybe(P(AnyType)), Q(Union(<<StringType, UndefinedType>>))>>)
  @@ "Dict" :> WithIndex(Object("dict", <<P(A)>>), Union(<<Ref("Letters"), One>>))
  @@ "SubDict" :> ObjectType("subdict", <<Ref("Dict")>>, <<Maybe(Q(A))>>)
  @@ "Both" :> IntersectionType(<<Ref("Base"), Object("both", <<P(A), Q(Ref("Level"))>>)>>)
  @@ "AndDict" :> IntersectionType(<<Ref("Base"), WithIndex(Object("and", <<>>), StringType)>>)
  @@ "Tree" :> Object("tree", <<P(Ref("Letters")), Maybe(Q(Ref("Tree")))>>)
  @@ "Pair" :> NewTupleType(<<Ref("Letters"), OptionalType(One)>>)
  @@ "Ones" :> NewTupleType(<<One, OptionalType(One), RestType(ArrayType(One))>>)
  @@ "Open" :> NewTupleType(<<A, RestType(ArrayType(Ref("Mixed")))>>)
  @@ "List" :> ArrayType(Union(<<Ref("Base"), Ref("Letters"), NullType>>))
  @@ "Nulls" :> Object("nulls", <<P(Nullable(Ref("Letters"))), Q(Nullable(letters))>>)
  @@ "MoreNulls" :> Object("morenulls", <<P(Nullable(StringType)), Q(Nullable(Union(<<Ref("Base"), One>>)))>>)
  @@ "Nested" :> Union(<<Ref("Dict"), AnnotatedType(Union(<<Ref("Pair"), NumberType>>), FALSE, NoTag)>>)
  @@ "Shape" :> Kind(Union(<<Object("s1", <<P(A), Maybe(Q(One))>>), Object("s2", <<P(B), Q(Ref("Letters"))>>)>>), "Shape")
  @@ "Holder" :> Object("holder", <<Q(Kind(Union(<<Object("h1", <<P(A)>>), Object("h2", <<P(One)>>)>>), "Holder.q"))>>)

\* Not in the batches below: a tag before a reference to a union that is asked for
\* by itself as well.  Nor is a literal that may be null, which keeps its const.
MoreDeclarations ==
  LET plain == Union(<<Object("pl1", <<P(A)>>), Object("pl2", <<P(One)>>)>>) IN
  "Plain" :> plain
  @@ "Owner" :> Object("owner", <<Q(Kind(Ref("Plain"), "Owner.q"))>>)
  @@ MCDeclarations
TagBatches == { << <<Ref("Owner")>>, <<Ref("Plain")>> >>, << <<Ref("Plain")>>, <<Ref("Owner")>> >> }

MCBatches ==
  {<< <<Ref(m)>>, <<Ref(n)>> >> : m \in DOMAIN MCDeclarations, n \in {"Tree", "List", "Both", "Shape"}}
    \cup {<< <<Ref(m), Ref("Tree")>>, <<MCDeclarations[m]>> >> : m \in DOMAIN MCDeclarations}

Atoms == {Atom("string", "p"), Atom("string", "q"), Atom("string", "c"),
          Atom("number", "1"), Atom("number", "2"), Null}
Flat(names, atoms) == {ObjectValue(f) : f \in [names -> atoms]}
Items == {Atom("string", "p"), Atom("number", "1"), Null}
MCValues ==
  Atoms \cup UNION {Flat(ns, Atoms) : ns \in SUBSET {"p", "q"}} \cup Flat({"p", "c"}, Items)
    \cup {ArrayValue(s) : s \in UNION {[1..n -> Items] : n \in 0..3}}
    \cup {ObjectValue("q" :> o) : o \in Flat({"p"}, Atoms) \cup Flat({"p", "q"}, Items)}
    \cup {ObjectValue("p" :> Atom("string", "p") @@ "q" :> o) : o \in Flat({"p"}, Atoms)}
    \cup {ArrayValue(<<o>>) : o \in Flat({"p"}, Atoms)}
=============================================================================
