-------------------------- MODULE TypeIdentity_proofs --------------------------
(***************************************************************************)
(* For every program and any number of roots: a type keeps its ID, a name  *)
(* says what the ID says, and an object or alias has the members that its  *)
(* declaration has for the arguments in its ID.  First, what the operators *)
(* that print and strip IDs do; then the IDs of types and of nodes; then   *)
(* the invariants, each with what a step does to it.                       *)
(***************************************************************************)
EXTENDS TypeIdentity, NodeParser_proofs, SequenceTheorems, WellFoundedInduction

-----------------------------------------------------------------------------
(* Induction, over sets in place of predicates *)

LEMMA Least ==
  ASSUME NEW T \in SUBSET Nat, T # {}
  PROVE  \E m \in T : \A k \in T : m <= k
<1> DEFINE R == OpToRel(<, Nat)
<1>1. \A a, b \in Nat : a < b => <<a, b>> \in R
  BY DEF OpToRel
<1>2. IsWellFoundedOn(R, Nat)
  BY NatLessThanWellFounded
<1> HIDE DEF R
<1>3. PICK x \in T : \A y \in T : ~ (<<y, x>> \in R)
  BY <1>2, WFMin, T \subseteq Nat
<1>4. ASSUME NEW y \in T PROVE x <= y
  <2>1. x \in Nat /\ y \in Nat
    OBVIOUS
  <2>2. ~(y < x)
    BY <1>1, <1>3, <2>1
  <2>. QED
    BY <2>1, <2>2
<1>. QED
  BY <1>4

LEMMA SequencesGrow ==
  ASSUME NEW S, NEW X, <<>> \in X,
         \A s \in Seq(S) : s \in X => \A e \in S : Append(s, e) \in X
  PROVE  Seq(S) \subseteq X
<1> DEFINE Bad == {s \in Seq(S) : s \notin X}
           Lengths == {Len(s) : s \in Bad}
<1> SUFFICES ASSUME Bad # {} PROVE FALSE
  OBVIOUS
<1>1. Lengths \in SUBSET Nat /\ Lengths # {}
  BY SMTT(30)
<1>2. PICK m \in Lengths : \A k \in Lengths : m <= k
  BY <1>1, Least
<1>3. PICK s \in Bad : Len(s) = m
  OBVIOUS
<1>4. s \in Seq(S) /\ s \notin X /\ s # <<>>
  OBVIOUS
<1>5. PICK t \in Seq(S), e \in S : s = Append(t, e)
  BY <1>4, SequenceEmptyOrAppend
<1>6. Len(s) = Len(t) + 1 /\ Len(t) \in Nat
  BY <1>5, AppendProperties
<1>7. t \notin Bad
  BY <1>2, <1>3, <1>6
<1>. QED
  BY <1>4, <1>5, <1>7

-----------------------------------------------------------------------------
(* FlattenSeq *)

Flatten(ss) == Ext!FlattenSeq(ss)

FlatBody(ss, i, f) == IF i = 1 THEN ss[i] ELSE f[i - 1] \o ss[i]

\* f is the recursive function of FlattenSeq, on the first n.
IsFlat(ss, n, f) == f = [i \in 1..n |-> FlatBody(ss, i, f)]

LEMMA FlattenIsFlat ==
  ASSUME NEW ss
  PROVE  Flatten(ss) = IF Len(ss) = 0 THEN ss ELSE (CHOOSE f : IsFlat(ss, Len(ss), f))[Len(ss)]
BY DEF Flatten, Ext!FlattenSeq, IsFlat, FlatBody

\* One more.
LEMMA FlatGrows ==
  ASSUME NEW ss, NEW n \in Nat, NEW f, IsFlat(ss, n, f)
  PROVE  LET g == [i \in 1..n + 1 |-> IF i = n + 1 THEN FlatBody(ss, n + 1, f) ELSE f[i]]
         IN IsFlat(ss, n + 1, g)
<1> DEFINE g == [i \in 1..n + 1 |-> IF i = n + 1 THEN FlatBody(ss, n + 1, f) ELSE f[i]]
<1>1. ASSUME NEW i \in 1..n + 1 PROVE g[i] = FlatBody(ss, i, g)
  <2>1. i # 1 => i - 1 \in 1..n /\ g[i - 1] = f[i - 1]
    OBVIOUS
  <2>2. FlatBody(ss, i, g) = FlatBody(ss, i, f)
    BY <2>1 DEF FlatBody
  <2>3. CASE i = n + 1
    BY <2>2, <2>3
  <2>4. CASE i # n + 1
    <3>1. i \in 1..n /\ g[i] = f[i]
      BY <2>4
    <3>2. f[i] = FlatBody(ss, i, f)
      BY <3>1 DEF IsFlat
    <3>. QED
      BY <2>2, <3>1, <3>2
  <2>. QED
    BY <2>3, <2>4
<1>2. g = [i \in 1..n + 1 |-> g[i]]
  OBVIOUS
<1> HIDE DEF g
<1>3. g = [i \in 1..n + 1 |-> FlatBody(ss, i, g)]
  BY <1>1, <1>2
<1>. QED
  BY <1>3 DEF IsFlat, g

LEMMA FlatExists ==
  ASSUME NEW ss, NEW n \in Nat
  PROVE  \E f : IsFlat(ss, n, f)
<1> DEFINE Bad == {k \in Nat : ~ \E f : IsFlat(ss, k, f)}
<1> SUFFICES ASSUME Bad # {} PROVE FALSE
  OBVIOUS
<1>1. PICK m \in Bad : \A k \in Bad : m <= k
  BY Least
<1>2. IsFlat(ss, 0, [i \in 1..0 |-> FALSE])
  BY DEF IsFlat
<1>3. m \in Nat /\ m # 0
  BY <1>2
<1>4. m - 1 \in Nat /\ m - 1 \notin Bad
  BY <1>1, <1>3
<1>5. PICK f : IsFlat(ss, m - 1, f)
  BY <1>4
<1>6. \E g : IsFlat(ss, (m - 1) + 1, g)
  BY <1>4, <1>5, FlatGrows
<1>. QED
  BY <1>3, <1>6

Agree(ss, tt, m) == \A i \in 1..m : ss[i] = tt[i]

\* There is one only, and what it says of the first ones hangs on these.
LEMMA FlatAgrees ==
  ASSUME NEW ss, NEW tt, NEW m \in Nat, NEW n \in Nat, m <= n, Agree(ss, tt, m),
         NEW f, NEW g, IsFlat(ss, m, f), IsFlat(tt, n, g)
  PROVE  \A i \in 1..m : f[i] = g[i]
<1> DEFINE Bad == {i \in 1..m : f[i] # g[i]}
<1> SUFFICES ASSUME Bad # {} PROVE FALSE
  OBVIOUS
<1>1. Bad \in SUBSET Nat
  OBVIOUS
<1>2. PICK i \in Bad : \A k \in Bad : i <= k
  BY <1>1, Least
<1>3. i \in 1..m /\ i \in 1..n /\ f[i] # g[i]
  OBVIOUS
<1>4. f[i] = FlatBody(ss, i, f) /\ g[i] = FlatBody(tt, i, g)
  BY <1>3 DEF IsFlat
<1>5. i # 1 => f[i - 1] = g[i - 1]
  <2>1. i # 1 => i - 1 \in 1..m /\ i - 1 < i
    BY <1>3
  <2>. QED
    BY <1>2, <2>1
<1>. QED
  BY <1>3, <1>4, <1>5 DEF FlatBody, Agree

LEMMA FlattenEmpty == Flatten(<<>>) = <<>>
BY DEF Flatten, Ext!FlattenSeq

LEMMA FlattenAppend ==
  ASSUME NEW S, NEW ss \in Seq(Seq(S)), NEW s \in Seq(S)
  PROVE  Flatten(Append(ss, s)) = Flatten(ss) \o s
<1> DEFINE n == Len(ss)
           tt == Append(ss, s)
<1>1. n \in Nat /\ Len(tt) = n + 1 /\ tt[n + 1] = s /\ \A i \in 1..n : tt[i] = ss[i]
  BY AppendProperties
<1> HIDE DEF tt
<1>2. PICK g : IsFlat(tt, n + 1, g) /\ Flatten(tt) = g[n + 1]
  <2>1. \E g : IsFlat(tt, n + 1, g)
    <3>1. n + 1 \in Nat
      BY <1>1
    <3>. QED
      BY <3>1, FlatExists
  <2>. QED
    BY <1>1, <2>1, FlattenIsFlat
<1>3. g[n + 1] = FlatBody(tt, n + 1, g)
  <2>1. n + 1 \in 1..n + 1
    BY <1>1
  <2>2. g = [i \in 1..n + 1 |-> FlatBody(tt, i, g)]
    BY <1>2 DEF IsFlat
  <2> HIDE DEF n
  <2>. QED
    BY <2>1, <2>2
<1>4. CASE n = 0
  <2>1. ss = <<>>
    BY <1>4
  <2>2. Flatten(tt) = s
    BY <1>1, <1>2, <1>3, <1>4 DEF FlatBody
  <2>. QED
    BY <2>1, <2>2, FlattenEmpty, ConcatEmptySeq DEF tt
<1>5. CASE n # 0
  <2>1. PICK f : IsFlat(ss, n, f) /\ Flatten(ss) = f[n]
    <3>1. \E f : IsFlat(ss, n, f)
      BY <1>1, FlatExists
    <3>. QED
      BY <1>1, <1>5, <3>1, FlattenIsFlat
  <2>2. \A i \in 1..n : f[i] = g[i]
    <3> DEFINE k == n + 1
    <3>1. n \in Nat /\ k \in Nat /\ n <= k
      BY <1>1
    <3>2. Agree(ss, tt, n)
      BY <1>1 DEF Agree
    <3>3. IsFlat(ss, n, f) /\ IsFlat(tt, k, g)
      BY <1>2, <2>1
    <3> HIDE DEF n, k
    <3>. QED
      BY <3>1, <3>2, <3>3, FlatAgrees
  <2>3. g[n] = f[n]
    BY <1>1, <1>5, <2>2
  <2>4. FlatBody(tt, n + 1, g) = g[n] \o s
    BY <1>1, <1>5 DEF FlatBody
  <2>. QED
    BY <1>2, <1>3, <2>1, <2>3, <2>4 DEF tt
<1>. QED
  BY <1>4, <1>5

LEMMA FlattenClosed ==
  ASSUME NEW S, NEW ss \in Seq(Seq(S))
  PROVE  Flatten(ss) \in Seq(S)
<1> DEFINE X == {tt \in Seq(Seq(S)) : Flatten(tt) \in Seq(S)}
<1>1. <<>> \in X
  <2>1. <<>> \in Seq(Seq(S)) /\ <<>> \in Seq(S)
    BY EmptySeq
  <2>. QED
    BY <2>1, FlattenEmpty
<1>2. ASSUME NEW tt \in Seq(Seq(S)), tt \in X, NEW s \in Seq(S)
      PROVE  Append(tt, s) \in X
  <2>1. Append(tt, s) \in Seq(Seq(S)) /\ Flatten(Append(tt, s)) = Flatten(tt) \o s
    BY FlattenAppend, AppendProperties
  <2>. QED
    BY <1>2, <2>1, ConcatProperties
<1> HIDE DEF X
<1>3. Seq(Seq(S)) \subseteq X
  BY <1>1, <1>2, SequencesGrow
<1>. QED
  BY <1>3 DEF X

LEMMA FlattenOne ==
  ASSUME NEW S, NEW s \in Seq(S)
  PROVE  Flatten(<<s>>) = s
<1>1. <<>> \in Seq(Seq(S)) /\ <<s>> = Append(<<>>, s)
  OBVIOUS
<1>2. Flatten(Append(<<>>, s)) = Flatten(<<>>) \o s
  BY <1>1, FlattenAppend
<1>. QED
  BY <1>1, <1>2, FlattenEmpty, ConcatEmptySeq

-----------------------------------------------------------------------------
(* Sequences rewritten element by element *)

\* Each element becomes the sequence that img has for it.
Images(s, img) == Flatten([i \in 1..Len(s) |-> img[s[i]]])

Each(ss, img) == [i \in 1..Len(ss) |-> Images(ss[i], img)]

LEMMA AppendMapped ==
  ASSUME NEW S, NEW s \in Seq(S), NEW e \in S, NEW f(_)
  PROVE  [i \in 1..Len(Append(s, e)) |-> f(Append(s, e)[i])] = Append([i \in 1..Len(s) |-> f(s[i])], f(e))
<1> DEFINE a == [i \in 1..Len(s) |-> f(s[i])]
           b == [i \in 1..Len(Append(s, e)) |-> f(Append(s, e)[i])]
           V == {f(s[i]) : i \in 1..Len(s)} \cup {f(e)}
<1>1. /\ Len(s) \in Nat /\ Len(Append(s, e)) = Len(s) + 1 /\ Append(s, e)[Len(s) + 1] = e
      /\ \A i \in 1..Len(s) : Append(s, e)[i] = s[i]
  BY AppendProperties
<1>2. a \in Seq(V) /\ Len(a) = Len(s) /\ f(e) \in V
  BY <1>1
<1>3. /\ Append(a, f(e)) \in Seq(V) /\ Len(Append(a, f(e))) = Len(s) + 1
      /\ Append(a, f(e))[Len(s) + 1] = f(e)
      /\ \A i \in 1..Len(s) : Append(a, f(e))[i] = f(s[i])
  BY <1>1, <1>2
<1>4. b \in Seq(V) /\ Len(b) = Len(s) + 1
  <2>1. ASSUME NEW i \in 1..Len(s) + 1 PROVE f(Append(s, e)[i]) \in V
    BY <1>1
  <2>2. b = [i \in 1..Len(s) + 1 |-> f(Append(s, e)[i])]
    BY <1>1
  <2> HIDE DEF V, b
  <2>. QED
    BY <1>1, <2>1, <2>2
<1>5. ASSUME NEW i \in 1..Len(s) + 1 PROVE b[i] = Append(a, f(e))[i]
  BY <1>1, <1>3
<1> HIDE DEF a, b, V
<1>6. b = Append(a, f(e))
  BY <1>1, <1>3, <1>4, <1>5, SeqEqual
<1>. QED
  BY <1>6 DEF a, b

LEMMA ImagesEmpty == ASSUME NEW img PROVE Images(<<>>, img) = <<>>
BY FlattenEmpty DEF Images

Rewrites(img, S) == img \in [S -> Seq(S)]

LEMMA ImagesAre ==
  ASSUME NEW S, NEW img, Rewrites(img, S), NEW s \in Seq(S)
  PROVE  [i \in 1..Len(s) |-> img[s[i]]] \in Seq(Seq(S))
BY DEF Rewrites

LEMMA ImagesAppend ==
  ASSUME NEW S, NEW img, Rewrites(img, S), NEW s \in Seq(S), NEW e \in S
  PROVE  Images(Append(s, e), img) = Images(s, img) \o img[e]
<1> DEFINE f(x) == img[x]
<1>1. [i \in 1..Len(Append(s, e)) |-> f(Append(s, e)[i])] = Append([i \in 1..Len(s) |-> f(s[i])], f(e))
  <2> HIDE DEF f
  <2>. QED
    BY AppendMapped
<1>2. [i \in 1..Len(s) |-> f(s[i])] \in Seq(Seq(S)) /\ f(e) \in Seq(S)
  BY DEF Rewrites
<1> HIDE DEF f
<1>3. Flatten([i \in 1..Len(Append(s, e)) |-> f(Append(s, e)[i])]) = Flatten([i \in 1..Len(s) |-> f(s[i])]) \o f(e)
  BY <1>1, <1>2, FlattenAppend
<1>. QED
  BY <1>3 DEF Images, f

LEMMA ImagesClosed ==
  ASSUME NEW S, NEW img, Rewrites(img, S), NEW s \in Seq(S)
  PROVE  Images(s, img) \in Seq(S)
<1> DEFINE ss == [i \in 1..Len(s) |-> img[s[i]]]
<1>1. ss \in Seq(Seq(S))
  BY ImagesAre
<1> HIDE DEF ss
<1>2. Flatten(ss) \in Seq(S)
  BY <1>1, FlattenClosed
<1>. QED
  BY <1>2 DEF Images, ss

LEMMA ImagesConcat ==
  ASSUME NEW S, NEW img, Rewrites(img, S), NEW s \in Seq(S), NEW t \in Seq(S)
  PROVE  Images(s \o t, img) = Images(s, img) \o Images(t, img)
<1> DEFINE X == {u \in Seq(S) : Images(s \o u, img) = Images(s, img) \o Images(u, img)}
<1>1. <<>> \in X
  <2>1. <<>> \in Seq(S) /\ s \o <<>> = s /\ Images(<<>>, img) = <<>>
    BY EmptySeq, ConcatEmptySeq, ImagesEmpty
  <2>2. Images(s, img) \in Seq(S)
    BY ImagesClosed
  <2>3. Images(s, img) \o <<>> = Images(s, img)
    BY <2>2, ConcatEmptySeq
  <2>. QED
    BY <2>1, <2>3
<1>2. ASSUME NEW u \in Seq(S), u \in X, NEW e \in S
      PROVE  Append(u, e) \in X
  <2>1. s \o Append(u, e) = Append(s \o u, e) /\ s \o u \in Seq(S) /\ Append(u, e) \in Seq(S)
    OBVIOUS
  <2>2. Images(Append(s \o u, e), img) = Images(s \o u, img) \o img[e]
    BY <2>1, ImagesAppend
  <2>3. Images(Append(u, e), img) = Images(u, img) \o img[e]
    BY ImagesAppend
  <2>4. (Images(s, img) \o Images(u, img)) \o img[e] = Images(s, img) \o (Images(u, img) \o img[e])
    <3>1. Images(s, img) \in Seq(S) /\ Images(u, img) \in Seq(S) /\ img[e] \in Seq(S)
      BY ImagesClosed DEF Rewrites
    <3> DEFINE a == Images(s, img)
               b == Images(u, img)
               c == img[e]
    <3> HIDE DEF a, b, c
    <3>2. a \in Seq(S) /\ b \in Seq(S) /\ c \in Seq(S)
      BY <3>1 DEF a, b, c
    <3>3. (a \o b) \o c = a \o (b \o c)
      BY <3>2, ConcatAssociative, SMTT(30)
    <3>. QED
      BY <3>3 DEF a, b, c
  <2>. QED
    BY <1>2, <2>1, <2>2, <2>3, <2>4 DEF Rewrites
<1> HIDE DEF X
<1>3. Seq(S) \subseteq X
  BY <1>1, <1>2, SequencesGrow
<1>. QED
  BY <1>3 DEF X

LEMMA ImagesFlatten ==
  ASSUME NEW S, NEW img, Rewrites(img, S), NEW ss \in Seq(Seq(S))
  PROVE  Images(Flatten(ss), img) = Flatten(Each(ss, img))
<1> DEFINE X == {tt \in Seq(Seq(S)) : Images(Flatten(tt), img) = Flatten(Each(tt, img))}
<1>1. <<>> \in X
  BY FlattenEmpty, ImagesEmpty DEF Each
<1>2. ASSUME NEW tt \in Seq(Seq(S)), tt \in X, NEW s \in Seq(S)
      PROVE  Append(tt, s) \in X
  <2>1. Append(tt, s) \in Seq(Seq(S)) /\ Flatten(Append(tt, s)) = Flatten(tt) \o s /\ Flatten(tt) \in Seq(S)
    BY FlattenAppend, AppendProperties, FlattenClosed
  <2>2. Images(Flatten(tt) \o s, img) = Images(Flatten(tt), img) \o Images(s, img)
    BY <2>1, ImagesConcat
  <2> DEFINE f(x) == Images(x, img)
  <2>3. Each(Append(tt, s), img) = Append(Each(tt, img), f(s))
    <3>1. [i \in 1..Len(Append(tt, s)) |-> f(Append(tt, s)[i])] = Append([i \in 1..Len(tt) |-> f(tt[i])], f(s))
      <4> HIDE DEF f
      <4>. QED
        BY AppendMapped
    <3>. QED
      BY <3>1 DEF Each
  <2>4. Each(tt, img) \in Seq(Seq(S)) /\ f(s) \in Seq(S)
    <3>1. ASSUME NEW i \in 1..Len(tt) PROVE Images(tt[i], img) \in Seq(S)
      <4>1. tt[i] \in Seq(S)
        OBVIOUS
      <4>. QED
        BY <4>1, ImagesClosed
    <3>2. Each(tt, img) = [i \in 1..Len(tt) |-> Images(tt[i], img)] /\ Len(tt) \in Nat
      BY DEF Each
    <3>3. Each(tt, img) \in Seq(Seq(S))
      BY <3>1, <3>2
    <3>4. f(s) \in Seq(S)
      BY ImagesClosed
    <3>. QED
      BY <3>3, <3>4
  <2>5. Flatten(Append(Each(tt, img), f(s))) = Flatten(Each(tt, img)) \o f(s)
    BY <2>4, FlattenAppend
  <2>. QED
    BY <1>2, <2>1, <2>2, <2>3, <2>5
<1> HIDE DEF X
<1>3. Seq(Seq(S)) \subseteq X
  BY <1>1, <1>2, SequencesGrow
<1>. QED
  BY <1>3 DEF X

-----------------------------------------------------------------------------
(* Tokens *)

TypeTags == Kinds \cup {"interface", "literal", ""}

Words == Nodes \cup {prog[n].name : n \in Nodes} \cup {""}

\* What IDs are printed from, and what names are.
PlainToken == [tag : TypeTags, of : Words, parts : Nat]

Token == [tag : TypeTags \cup {"name"}, of : Words, parts : Nat]

Stripping == [t \in Token |-> IF t.tag = "def" THEN <<>> ELSE <<t>>]

\* The IDs of a key without "def-".
Bare(ids) == [i \in 1..Len(ids) |-> StripDef(ids[i])]

LEMMA PlainTokens == PlainToken \subseteq Token /\ Seq(PlainToken) \subseteq Seq(Token)
<1>1. PlainToken \subseteq Token
  BY DEF PlainToken, Token
<1>. QED
  BY <1>1, WiderSequences

TokenOf(tag, of, args) == [tag |-> tag, of |-> of, parts |-> Len(args)]

LEMMA IdIs == \A tag, of, args : Id(tag, of, args) = <<TokenOf(tag, of, args)>> \o Flatten(args)
BY DEF Id, TokenOf, Flatten

LEMMA IdIn ==
  ASSUME NEW S, NEW tag, NEW of, NEW args \in Seq(Seq(S)), TokenOf(tag, of, args) \in S
  PROVE  Id(tag, of, args) \in Seq(S)
<1>1. <<TokenOf(tag, of, args)>> \in Seq(S)
  OBVIOUS
<1>2. Flatten(args) \in Seq(S)
  BY FlattenClosed
<1>. QED
  BY <1>1, <1>2, ConcatProperties, IdIs

LEMMA IdImages ==
  ASSUME NEW S, NEW img, Rewrites(img, S), NEW tag, NEW of, NEW args \in Seq(Seq(S)),
         TokenOf(tag, of, args) \in S
  PROVE  Images(Id(tag, of, args), img) = img[TokenOf(tag, of, args)] \o Flatten(Each(args, img))
<1> DEFINE token == TokenOf(tag, of, args)
<1>1. token \in S /\ <<token>> \in Seq(S) /\ <<>> \in Seq(S) /\ <<token>> = Append(<<>>, token)
  OBVIOUS
<1> HIDE DEF token
<1>2. Flatten(args) \in Seq(S)
  BY FlattenClosed
<1>3. Images(<<token>> \o Flatten(args), img) = Images(<<token>>, img) \o Images(Flatten(args), img)
  BY <1>1, <1>2, ImagesConcat
<1>4. Images(<<token>>, img) = img[token]
  <2>1. Images(Append(<<>>, token), img) = Images(<<>>, img) \o img[token]
    BY <1>1, ImagesAppend
  <2>2. img[token] \in Seq(S)
    BY <1>1 DEF Rewrites
  <2>3. <<>> \o img[token] = img[token]
    BY <2>2, ConcatEmptySeq
  <2>. QED
    BY <1>1, <2>1, <2>3, ImagesEmpty
<1>5. Images(Flatten(args), img) = Flatten(Each(args, img))
  BY ImagesFlatten
<1>. QED
  BY <1>3, <1>4, <1>5, IdIs DEF token

LEMMA StrippingIs == Rewrites(Stripping, Token)
<1>1. ASSUME NEW t \in Token PROVE (IF t.tag = "def" THEN <<>> ELSE <<t>>) \in Seq(Token)
  OBVIOUS
<1>. QED
  BY <1>1 DEF Stripping, Rewrites

LEMMA StripIsImages ==
  ASSUME NEW s \in Seq(Token)
  PROVE  StripDef(s) = Images(s, Stripping)
<1>1. \A i \in 1..Len(s) : (IF s[i].tag = "def" THEN <<>> ELSE <<s[i]>>) = Stripping[s[i]]
  BY DEF Stripping
<1>2. [i \in 1..Len(s) |-> IF s[i].tag = "def" THEN <<>> ELSE <<s[i]>>] = [i \in 1..Len(s) |-> Stripping[s[i]]]
  BY <1>1
<1>. QED
  BY <1>2 DEF StripDef, Images, Flatten

LEMMA StripClosed == ASSUME NEW s \in Seq(Token) PROVE StripDef(s) \in Seq(Token)
BY StripIsImages, StrippingIs, ImagesClosed

LEMMA BareIsEach ==
  ASSUME NEW ids \in Seq(Seq(Token))
  PROVE  /\ Each(ids, Stripping) = Bare(ids)
         /\ Bare(ids) \in Seq(Seq(Token)) /\ Len(Bare(ids)) = Len(ids)
<1>1. ASSUME NEW i \in 1..Len(ids)
      PROVE  StripDef(ids[i]) = Images(ids[i], Stripping) /\ StripDef(ids[i]) \in Seq(Token)
  <2>1. ids[i] \in Seq(Token)
    OBVIOUS
  <2>. QED
    BY <2>1, StripIsImages, StripClosed
<1>2. Each(ids, Stripping) = Bare(ids)
  BY <1>1 DEF Each, Bare
<1>3. Bare(ids) = [i \in 1..Len(ids) |-> StripDef(ids[i])] /\ Len(ids) \in Nat
  BY DEF Bare
<1>4. Bare(ids) \in Seq(Seq(Token)) /\ Len(Bare(ids)) = Len(ids)
  BY <1>1, <1>3
<1>. QED
  BY <1>2, <1>4

LEMMA StripId ==
  ASSUME NEW tag, NEW of, NEW args \in Seq(Seq(Token)), TokenOf(tag, of, args) \in Token
  PROVE  Images(Id(tag, of, args), Stripping)
           = Stripping[TokenOf(tag, of, args)] \o Flatten(Each(args, Stripping))
BY StrippingIs, IdImages

\* "def-" aside, an ID is printed from the IDs of its parts with theirs aside.
LEMMA StripParts ==
  ASSUME NEW tag \in TypeTags \cup {"name"}, tag # "def", NEW of \in Words, NEW args \in Seq(Seq(Token))
  PROVE  StripDef(Id(tag, of, args)) = Id(tag, of, Bare(args))
<1>1. TokenOf(tag, of, args) \in Token /\ Stripping[TokenOf(tag, of, args)] = <<TokenOf(tag, of, args)>>
  BY DEF Token, Stripping, TokenOf
<1>2. Id(tag, of, args) \in Seq(Token)
  BY <1>1, IdIn
<1>3. Images(Id(tag, of, args), Stripping)
        = Stripping[TokenOf(tag, of, args)] \o Flatten(Each(args, Stripping))
  BY <1>1, StripId
<1>4. Each(args, Stripping) = Bare(args) /\ Len(Bare(args)) = Len(args)
  BY BareIsEach
<1>5. TokenOf(tag, of, Bare(args)) = TokenOf(tag, of, args)
  BY <1>4 DEF TokenOf
<1>. QED
  BY <1>1, <1>2, <1>3, <1>4, <1>5, StripIsImages, IdIs

LEMMA StripDefinition ==
  ASSUME NEW s \in Seq(Token)
  PROVE  StripDef(Id("def", "", <<s>>)) = StripDef(s)
<1> DEFINE args == <<s>>
<1>1. args \in Seq(Seq(Token)) /\ Len(args) = 1 /\ args[1] = s
  OBVIOUS
<1> HIDE DEF args
<1>2. TokenOf("def", "", args) \in Token /\ Stripping[TokenOf("def", "", args)] = <<>>
  <2>1. "def" \in TypeTags /\ "" \in Words
    BY DEF TypeTags, Kinds, Words
  <2>2. TokenOf("def", "", args) \in Token
    <3>1. Len(args) \in Nat
      BY <1>1
    <3>. QED
      BY <2>1, <3>1 DEF Token, TokenOf
  <2>3. TokenOf("def", "", args).tag = "def"
    BY DEF TokenOf
  <2>. QED
    BY <2>2, <2>3 DEF Stripping
<1>3. Images(Id("def", "", args), Stripping)
        = Stripping[TokenOf("def", "", args)] \o Flatten(Each(args, Stripping))
  BY <1>1, <1>2, StripId
<1>4. Id("def", "", args) \in Seq(Token)
  BY <1>1, <1>2, IdIn
<1>5. Each(args, Stripping) = <<StripDef(s)>>
  <2>1. Each(args, Stripping) = Bare(args)
    BY <1>1, BareIsEach
  <2>2. Bare(args) = [i \in 1..1 |-> StripDef(args[i])]
    BY <1>1 DEF Bare
  <2>. QED
    BY <1>1, <2>1, <2>2
<1>6. StripDef(s) \in Seq(Token)
  BY StripClosed
<1>7. Flatten(<<StripDef(s)>>) = StripDef(s)
  BY <1>6, FlattenOne
<1>8. <<>> \o StripDef(s) = StripDef(s)
  BY <1>6, ConcatEmptySeq
<1>9. StripDef(Id("def", "", args)) = Images(Id("def", "", args), Stripping)
  BY <1>4, StripIsImages
<1>. QED
  BY <1>2, <1>3, <1>5, <1>7, <1>8, <1>9 DEF args

-----------------------------------------------------------------------------
(* IDs can be read back: an ID has its parts in one way only *)

\* What is printed from members of X is one.
Prints(X) ==
  \A tag \in TypeTags, of \in Words : \A args \in Seq(X) :
    (tag = "def" => of = "" /\ Len(args) = 1) => Id(tag, of, args) \in X

\* The IDs: what can be printed, from nothing on.
Readable == {s \in Seq(PlainToken) : \A X \in SUBSET Seq(PlainToken) : Prints(X) => s \in X}

LEMMA ReadableIsPlain == Readable \subseteq Seq(PlainToken) /\ Readable \subseteq Seq(Token)
BY PlainTokens DEF Readable

LEMMA ReadableIds ==
  ASSUME NEW tag \in TypeTags, NEW of \in Words, NEW args \in Seq(Readable),
         tag = "def" => of = "" /\ Len(args) = 1
  PROVE  Id(tag, of, args) \in Readable
<1>1. Id(tag, of, args) \in Seq(PlainToken)
  <2>1. args \in Seq(Seq(PlainToken))
    BY ReadableIsPlain, WiderSequences
  <2>2. TokenOf(tag, of, args) \in PlainToken
    <3>1. Len(args) \in Nat
      BY LenProperties
    <3>. QED
      BY <3>1 DEF TokenOf, PlainToken
  <2>. QED
    BY <2>1, <2>2, IdIn
<1>2. ASSUME NEW X \in SUBSET Seq(PlainToken), Prints(X) PROVE Id(tag, of, args) \in X
  <2>1. Readable \subseteq X
    BY <1>2 DEF Readable
  <2>2. args \in Seq(X)
    BY <2>1, WiderSequences
  <2>. QED
    BY <1>2, <2>2 DEF Prints
<1>. QED
  BY <1>1, <1>2 DEF Readable

\* Induction over what can be printed.
LEMMA ReadableGrow ==
  ASSUME NEW X, X \subseteq Readable,
         \A tag \in TypeTags, of \in Words : \A args \in Seq(X) :
           (tag = "def" => of = "" /\ Len(args) = 1) => Id(tag, of, args) \in X
  PROVE  Readable \subseteq X
<1>1. Prints(X)
  BY DEF Prints
<1>2. X \in SUBSET Seq(PlainToken)
  BY ReadableIsPlain
<1>. QED
  BY <1>1, <1>2 DEF Readable

IsPrinted(s, tag, of, args) ==
  s = Id(tag, of, args) /\ (tag = "def" => of = "" /\ Len(args) = 1)

LEMMA Printed ==
  ASSUME NEW s \in Readable
  PROVE  \E tag \in TypeTags, of \in Words : \E args \in Seq(Readable) : IsPrinted(s, tag, of, args)
<1> DEFINE X == {t \in Readable : \E tag \in TypeTags, of \in Words : \E args \in Seq(Readable) :
                                    IsPrinted(t, tag, of, args)}
<1>1. ASSUME NEW tag \in TypeTags, NEW of \in Words, NEW args \in Seq(X),
             tag = "def" => of = "" /\ Len(args) = 1
      PROVE  Id(tag, of, args) \in X
  <2>1. args \in Seq(Readable)
    <3>1. X \subseteq Readable
      OBVIOUS
    <3> HIDE DEF X
    <3>. QED
      BY <3>1, WiderSequences
  <2>2. Id(tag, of, args) \in Readable
    BY <1>1, <2>1, ReadableIds
  <2>3. IsPrinted(Id(tag, of, args), tag, of, args)
    BY <1>1 DEF IsPrinted
  <2>. QED
    BY <2>1, <2>2, <2>3
<1>2. X \subseteq Readable
  OBVIOUS
<1> HIDE DEF X
<1>3. Readable \subseteq X
  BY <1>1, <1>2, ReadableGrow
<1>. QED
  BY <1>3 DEF X

\* No other ID begins where s does.
ReadOnce(s) == \A t \in Readable : \A u, v \in Seq(PlainToken) : s \o u = t \o v => s = t

LEMMA Regroup == \A a, b, c \in Seq(PlainToken) : (a \o b) \o c = a \o (b \o c)
BY ConcatAssociative

LEMMA OneLess == \A m, n \in Nat : m + 1 = n + 1 => m = n
OBVIOUS

LEMMA Single == \A S : \A ss \in Seq(S) : Len(ss) = 1 => ss = <<ss[1]>> /\ 1 \in 1..Len(ss)
OBVIOUS

LEMMA ListsReadOnce ==
  ASSUME NEW S, S \subseteq Readable, \A s \in S : ReadOnce(s)
  PROVE  \A ss \in Seq(S), tt \in Seq(Readable) : \A u, v \in Seq(PlainToken) :
           Len(ss) = Len(tt) /\ Flatten(ss) \o u = Flatten(tt) \o v => ss = tt
<1> DEFINE X == {ss \in Seq(S) : \A tt \in Seq(Readable) : \A u, v \in Seq(PlainToken) :
                   Len(ss) = Len(tt) /\ Flatten(ss) \o u = Flatten(tt) \o v => ss = tt}
<1>1. <<>> \in X
  <2>1. <<>> \in Seq(S) /\ Len(<<>>) = 0
    OBVIOUS
  <2>2. \A tt \in Seq(Readable) : Len(tt) = 0 => tt = <<>>
    OBVIOUS
  <2>. QED
    BY <2>1, <2>2
<1>2. ASSUME NEW ss \in Seq(S), ss \in X, NEW s \in S PROVE Append(ss, s) \in X
  <2>1. ASSUME NEW tt \in Seq(Readable), NEW u \in Seq(PlainToken), NEW v \in Seq(PlainToken),
               Len(Append(ss, s)) = Len(tt), Flatten(Append(ss, s)) \o u = Flatten(tt) \o v
        PROVE  Append(ss, s) = tt
    <3>1. Len(ss) \in Nat /\ Len(Append(ss, s)) = Len(ss) + 1 /\ tt # <<>>
      BY <2>1, AppendProperties
    <3>2. PICK rr \in Seq(Readable), t \in Readable : tt = Append(rr, t)
      BY <3>1, SequenceEmptyOrAppend
    <3>3. Len(rr) = Len(ss)
      <4>1. Len(rr) \in Nat /\ Len(Append(rr, t)) = Len(rr) + 1
        BY AppendProperties, LenProperties
      <4>2. Len(rr) + 1 = Len(ss) + 1
        BY <2>1, <3>1, <3>2, <4>1, Zenon
      <4>. QED
        BY <3>1, <4>1, <4>2, OneLess
    <3>4. ss \in Seq(Seq(PlainToken)) /\ rr \in Seq(Seq(PlainToken)) /\ s \in Seq(PlainToken) /\ t \in Seq(PlainToken)
      BY ReadableIsPlain, WiderSequences
    <3>5. Flatten(ss) \in Seq(PlainToken) /\ Flatten(rr) \in Seq(PlainToken)
      BY <3>4, FlattenClosed
    <3>6. Flatten(Append(ss, s)) = Flatten(ss) \o s /\ Flatten(tt) = Flatten(rr) \o t
      BY <3>2, <3>4, FlattenAppend
    <3>7. s \o u \in Seq(PlainToken) /\ t \o v \in Seq(PlainToken)
      BY <3>4, ConcatProperties
    <3>8. Flatten(ss) \o (s \o u) = Flatten(rr) \o (t \o v)
      <4> HIDE DEF X
      <4>1. (Flatten(ss) \o s) \o u = Flatten(ss) \o (s \o u)
        BY <2>1, <3>4, <3>5, Regroup, ZenonT(40)
      <4>2. (Flatten(rr) \o t) \o v = Flatten(rr) \o (t \o v)
        BY <2>1, <3>4, <3>5, Regroup, ZenonT(40)
      <4>. QED
        BY <2>1, <3>6, <4>1, <4>2
    <3>9. ss = rr
      BY <1>2, <3>3, <3>7, <3>8
    <3>10. s \o u = t \o v
      BY <3>5, <3>7, <3>8, <3>9, ConcatSimplifications
    <3>11. s = t
      BY <3>10 DEF ReadOnce
    <3>. QED
      BY <3>2, <3>9, <3>11
  <2>2. Append(ss, s) \in Seq(S)
    BY AppendProperties
  <2>. QED
    BY <2>1, <2>2
<1> HIDE DEF X
<1>3. Seq(S) \subseteq X
  BY <1>1, <1>2, SequencesGrow
<1>. QED
  BY <1>3 DEF X

\* The token an ID begins with and the rest.
LEMMA IdHead ==
  ASSUME NEW tag \in TypeTags, NEW of \in Words, NEW args \in Seq(Readable)
  PROVE  /\ Flatten(args) \in Seq(PlainToken)
         /\ TokenOf(tag, of, args) \in PlainToken
         /\ Id(tag, of, args) = <<TokenOf(tag, of, args)>> \o Flatten(args)
         /\ Head(Id(tag, of, args)) = TokenOf(tag, of, args)
<1>1. args \in Seq(Seq(PlainToken))
  BY ReadableIsPlain, WiderSequences
<1>2. Flatten(args) \in Seq(PlainToken)
  BY <1>1, FlattenClosed
<1>3. TokenOf(tag, of, args) \in PlainToken
  BY DEF TokenOf, PlainToken
<1> DEFINE token == TokenOf(tag, of, args)
<1> HIDE DEF token
<1>4. \A r \in Seq(PlainToken) : Head(<<token>> \o r) = token
  OBVIOUS
<1>. QED
  BY <1>2, <1>3, <1>4, IdIs DEF token

LEMMA TokensSame ==
  ASSUME NEW x, NEW y, NEW r \in Seq(PlainToken), NEW q \in Seq(PlainToken),
         x \in PlainToken, y \in PlainToken, <<x>> \o r = <<y>> \o q
  PROVE  x = y /\ r = q
<1>1. Head(<<x>> \o r) = x /\ Head(<<y>> \o q) = y /\ Tail(<<x>> \o r) = r /\ Tail(<<y>> \o q) = q
  OBVIOUS
<1>. QED
  BY <1>1

LEMMA EveryIdReadOnce == \A s \in Readable : ReadOnce(s)
<1> DEFINE X == {s \in Readable : ReadOnce(s)}
<1>0. X \subseteq Readable /\ \A s \in X : ReadOnce(s)
  OBVIOUS
<1>1. ASSUME NEW tag \in TypeTags, NEW of \in Words, NEW args \in Seq(X),
             tag = "def" => of = "" /\ Len(args) = 1
      PROVE  Id(tag, of, args) \in X
  <2> HIDE DEF X
  <2>1. args \in Seq(Readable)
    BY <1>0, WiderSequences
  <2>2. Id(tag, of, args) \in Readable
    BY <1>1, <2>1, ReadableIds
  <2>3. ASSUME NEW t \in Readable, NEW u \in Seq(PlainToken), NEW v \in Seq(PlainToken),
               Id(tag, of, args) \o u = t \o v
        PROVE  Id(tag, of, args) = t
    <3>1. PICK tag2 \in TypeTags, of2 \in Words, brgs \in Seq(Readable) : IsPrinted(t, tag2, of2, brgs)
      BY Printed
    <3> DEFINE a == TokenOf(tag, of, args)
               b == TokenOf(tag2, of2, brgs)
    <3>2. /\ Flatten(args) \in Seq(PlainToken) /\ Flatten(brgs) \in Seq(PlainToken)
          /\ a \in PlainToken /\ b \in PlainToken
          /\ Id(tag, of, args) = <<a>> \o Flatten(args) /\ t = <<b>> \o Flatten(brgs)
      <4>1. Flatten(args) \in Seq(PlainToken) /\ a \in PlainToken /\ Id(tag, of, args) = <<a>> \o Flatten(args)
        BY <2>1, IdHead
      <4>2. Flatten(brgs) \in Seq(PlainToken) /\ b \in PlainToken /\ Id(tag2, of2, brgs) = <<b>> \o Flatten(brgs)
        BY <3>1, IdHead
      <4>3. t = Id(tag2, of2, brgs)
        BY <3>1 DEF IsPrinted
      <4> HIDE DEF a, b
      <4>. QED
        BY <4>1, <4>2, <4>3
    <3>3. a = b => tag = tag2 /\ of = of2 /\ Len(args) = Len(brgs)
      BY DEF TokenOf
    <3> HIDE DEF a, b
    <3>4. /\ (<<a>> \o Flatten(args)) \o u = <<a>> \o (Flatten(args) \o u)
          /\ (<<b>> \o Flatten(brgs)) \o v = <<b>> \o (Flatten(brgs) \o v)
      <4>1. <<a>> \in Seq(PlainToken) /\ <<b>> \in Seq(PlainToken)
        BY <3>2
      <4>. QED
        BY <3>2, <4>1, ConcatAssociative, SMTT(30)
    <3>5. Flatten(args) \o u \in Seq(PlainToken) /\ Flatten(brgs) \o v \in Seq(PlainToken)
      BY <3>2, ConcatProperties
    <3>6. a = b /\ Flatten(args) \o u = Flatten(brgs) \o v
      <4> DEFINE r == Flatten(args) \o u
                 q == Flatten(brgs) \o v
      <4>1. <<a>> \o r = <<b>> \o q
        BY <2>3, <3>2, <3>4
      <4>2. a \in PlainToken /\ b \in PlainToken /\ r \in Seq(PlainToken) /\ q \in Seq(PlainToken)
        BY <3>2, <3>5
      <4> HIDE DEF r, q
      <4>3. a = b /\ r = q
        BY <4>1, <4>2, TokensSame
      <4>. QED
        BY <4>3 DEF r, q
    <3>7. args = brgs
      BY <1>0, <3>3, <3>6, ListsReadOnce
    <3>. QED
      BY <3>2, <3>6, <3>7
  <2>4. ReadOnce(Id(tag, of, args))
    BY <2>3 DEF ReadOnce
  <2>. QED
    BY <2>2, <2>4 DEF X
<1> HIDE DEF X
<1>2. Readable \subseteq X
  BY <1>0, <1>1, ReadableGrow
<1>. QED
  BY <1>0, <1>2

\* Two IDs that print alike have the same parts.
LEMMA IdsReadBack ==
  ASSUME NEW tag \in TypeTags, NEW of \in Words, NEW args \in Seq(Readable),
         NEW tag2 \in TypeTags, NEW of2 \in Words, NEW brgs \in Seq(Readable),
         Id(tag, of, args) = Id(tag2, of2, brgs)
  PROVE  tag = tag2 /\ of = of2 /\ args = brgs
<1> DEFINE a == TokenOf(tag, of, args)
           b == TokenOf(tag2, of2, brgs)
<1>1. /\ Flatten(args) \in Seq(PlainToken) /\ Flatten(brgs) \in Seq(PlainToken)
      /\ a \in PlainToken /\ b \in PlainToken
      /\ <<a>> \o Flatten(args) = <<b>> \o Flatten(brgs)
  <2>1. Flatten(args) \in Seq(PlainToken) /\ a \in PlainToken /\ Id(tag, of, args) = <<a>> \o Flatten(args)
    BY IdHead
  <2>2. Flatten(brgs) \in Seq(PlainToken) /\ b \in PlainToken /\ Id(tag2, of2, brgs) = <<b>> \o Flatten(brgs)
    BY IdHead
  <2> HIDE DEF a, b
  <2>. QED
    BY <2>1, <2>2
<1>2. a = b => tag = tag2 /\ of = of2 /\ Len(args) = Len(brgs)
  BY DEF TokenOf
<1> HIDE DEF a, b
<1>3. a = b /\ Flatten(args) = Flatten(brgs)
  BY <1>1, TokensSame
<1>4. <<>> \in Seq(PlainToken) /\ Flatten(args) \o <<>> = Flatten(brgs) \o <<>>
  BY <1>1, <1>3
<1>5. args = brgs
  BY <1>2, <1>3, <1>4, EveryIdReadOnce, ListsReadOnce
<1>. QED
  BY <1>2, <1>3, <1>5

\* Without "def-" an ID is an ID.
LEMMA StripReadable == \A s \in Readable : StripDef(s) \in Readable
<1> DEFINE X == {s \in Readable : StripDef(s) \in Readable}
<1>0. X \subseteq Readable /\ \A s \in X : StripDef(s) \in Readable
  OBVIOUS
<1>1. ASSUME NEW tag \in TypeTags, NEW of \in Words, NEW args \in Seq(X),
             tag = "def" => of = "" /\ Len(args) = 1
      PROVE  Id(tag, of, args) \in X
  <2> HIDE DEF X
  <2>1. args \in Seq(Readable) /\ args \in Seq(Seq(Token)) /\ Len(args) \in Nat
    BY <1>0, ReadableIsPlain, WiderSequences
  <2>2. Id(tag, of, args) \in Readable
    BY <1>1, <2>1, ReadableIds
  <2>3. ASSUME NEW i \in 1..Len(args) PROVE args[i] \in X /\ StripDef(args[i]) \in Readable
    <3>1. args[i] \in X
      OBVIOUS
    <3>. QED
      BY <1>0, <3>1
  <2>4. CASE tag # "def"
    <3>1. StripDef(Id(tag, of, args)) = Id(tag, of, Bare(args))
      BY <2>1, <2>4, StripParts
    <3>2. Bare(args) \in Seq(Readable)
      BY <2>1, <2>3 DEF Bare
    <3>3. Id(tag, of, Bare(args)) \in Readable
      BY <2>4, <3>2, ReadableIds
    <3>. QED
      BY <2>2, <3>1, <3>3 DEF X
  <2>5. CASE tag = "def"
    <3>1. of = "" /\ args = <<args[1]>> /\ 1 \in 1..Len(args)
      <4>1. of = "" /\ Len(args) = 1
        BY <1>1, <2>5
      <4>. QED
        BY <4>1, Single, Zenon
    <3>2. args[1] \in Seq(Token)
      <4>1. \A ss \in Seq(Seq(Token)) : 1 \in 1..Len(ss) => ss[1] \in Seq(Token)
        OBVIOUS
      <4>. QED
        BY <2>1, <3>1, <4>1
    <3>3. StripDef(Id("def", "", <<args[1]>>)) = StripDef(args[1])
      BY <3>2, StripDefinition
    <3>4. StripDef(Id(tag, of, args)) \in Readable
      BY <2>3, <2>5, <3>1, <3>3
    <3>. QED
      BY <2>2, <3>4 DEF X
  <2>. QED
    BY <2>4, <2>5
<1> HIDE DEF X
<1>2. Readable \subseteq X
  BY <1>0, <1>1, ReadableGrow
<1>. QED
  BY <1>0, <1>2

-----------------------------------------------------------------------------
(* The IDs of types *)

Stored == {"prim", "object", "alias", "ref"}

\* The recursive function of TypeId, its equation apart.
IdBody(h, q, id) ==
  IF h[q].kind \in Stored THEN h[q].id
  ELSE Id(h[q].kind, "", [i \in 1..Len(h[q].subs) |-> id[h[q].subs[i]]])

IdsOf(h) == CHOOSE id : id = [q \in Pointers(h) |-> IdBody(h, q, id)]

LEMMA TypeIdIs == \A h, p : TypeId(h, p) = IdsOf(h)[p]
BY DEF TypeId, IdsOf, IdBody, Stored

SoundHeap(h) == HeapOK(h) /\ TypedHeap(h)

LEMMA HeapSize == ASSUME NEW h, SoundHeap(h) PROVE Len(h) \in Nat
BY SequenceOf DEF SoundHeap, HeapOK

LEMMA IdBodyOlder ==
  ASSUME NEW h, SoundHeap(h), NEW q \in Pointers(h), NEW f, NEW g,
         \A s \in Pointers(h) : s < q => f[s] = g[s]
  PROVE  IdBody(h, q, f) = IdBody(h, q, g)
<1>1. CASE h[q].kind \in Stored
  BY <1>1 DEF IdBody
<1>2. CASE h[q].kind \notin Stored
  <2>1. \A i \in 1..Len(h[q].subs) : f[h[q].subs[i]] = g[h[q].subs[i]]
    BY <1>2 DEF SoundHeap, TypedHeap, Stored
  <2>2. [i \in 1..Len(h[q].subs) |-> f[h[q].subs[i]]] = [i \in 1..Len(h[q].subs) |-> g[h[q].subs[i]]]
    BY <2>1
  <2>. QED
    BY <1>2, <2>2 DEF IdBody
<1>. QED
  BY <1>1, <1>2

\* There is such a function: on the first n pointers, for every n.
LEMMA IdsExist ==
  ASSUME NEW h, SoundHeap(h)
  PROVE  IdsOf(h) = [q \in Pointers(h) |-> IdBody(h, q, IdsOf(h))]
<1> DEFINE Holds(n) == \E f : f = [q \in 1..n |-> IdBody(h, q, f)]
           Bad == {n \in 0..Len(h) : ~Holds(n)}
<1>1. Len(h) \in Nat
  BY HeapSize
<1>2. Holds(0)
  <2> DEFINE e == [q \in 1..0 |-> {}]
  <2>1. e = [q \in 1..0 |-> IdBody(h, q, e)]
    OBVIOUS
  <2>. QED
    BY <2>1
<1>3. ASSUME NEW n \in 1..Len(h), Holds(n - 1) PROVE Holds(n)
  <2>1. PICK f : f = [q \in 1..n - 1 |-> IdBody(h, q, f)]
    BY <1>3
  <2> DEFINE g == [q \in 1..n |-> IF q = n THEN IdBody(h, n, f) ELSE f[q]]
  <2>2. ASSUME NEW q \in 1..n PROVE g[q] = IdBody(h, q, g)
    <3>1. q \in Pointers(h) /\ n \in Nat
      BY <1>1 DEF Pointers
    <3>2. \A s \in Pointers(h) : s < q => f[s] = g[s]
      BY <1>1, <3>1 DEF Pointers
    <3>3. IdBody(h, q, f) = IdBody(h, q, g)
      BY <3>1, <3>2, IdBodyOlder
    <3>4. CASE q = n
      BY <3>3, <3>4
    <3>5. CASE q # n
      <4>1. q \in 1..n - 1
        BY <1>1, <3>5
      <4>2. f[q] = IdBody(h, q, f)
        BY <2>1, <4>1
      <4>. QED
        BY <3>3, <3>5, <4>2
    <3>. QED
      BY <3>4, <3>5
  <2>3. g = [q \in 1..n |-> g[q]]
    OBVIOUS
  <2> HIDE DEF g
  <2>4. g = [q \in 1..n |-> IdBody(h, q, g)]
    BY <2>2, <2>3
  <2>. QED
    BY <2>4
<1> HIDE DEF Holds
<1>4. Bad = {}
  <2> SUFFICES ASSUME Bad # {} PROVE FALSE
    OBVIOUS
  <2>1. Bad \in SUBSET Nat
    OBVIOUS
  <2>2. PICK m \in Bad : \A k \in Bad : m <= k
    BY <2>1, Least
  <2>3. m \in 1..Len(h) /\ m - 1 \in 0..Len(h) /\ m - 1 < m
    BY <1>1, <1>2, <2>2
  <2>4. Holds(m - 1)
    BY <2>2, <2>3
  <2>. QED
    BY <1>3, <2>2, <2>3, <2>4
<1>5. Holds(Len(h))
  BY <1>1, <1>4
<1>6. PICK f : f = [q \in Pointers(h) |-> IdBody(h, q, f)]
  BY <1>5 DEF Holds, Pointers
<1>. QED
  BY <1>6 DEF IdsOf

\* An ID is stored, or printed from the IDs of the parts.
LEMMA TypeIdFrom ==
  ASSUME NEW h, SoundHeap(h), NEW p \in Pointers(h)
  PROVE  TypeId(h, p) = IF h[p].kind \in Stored THEN h[p].id ELSE Id(h[p].kind, "", TypeIds(h, h[p].subs))
<1>1. TypeId(h, p) = IdBody(h, p, IdsOf(h))
  BY IdsExist, TypeIdIs
<1>2. [i \in 1..Len(h[p].subs) |-> IdsOf(h)[h[p].subs[i]]] = TypeIds(h, h[p].subs)
  BY TypeIdIs DEF TypeIds
<1>. QED
  BY <1>1, <1>2 DEF IdBody

\* The ID of a primitive type is its name.
PrimNamed(t) == t.kind = "prim" => \E name \in Words : t.id = Id("prim", name, <<>>)

\* What is stored are IDs and names; a definition is of one type, an alias too.
WordedHeap(h) ==
  \A p \in Pointers(h) :
    /\ h[p].id \in Readable /\ PrimNamed(h[p])
    /\ h[p].name \in Seq(Token)
    /\ h[p].kind \in {"alias", "def"} => Len(h[p].subs) = 1

LEMMA TypeIdIsPlain ==
  ASSUME NEW h, SoundHeap(h), WordedHeap(h), NEW p \in Pointers(h)
  PROVE  TypeId(h, p) \in Readable /\ TypeId(h, p) \in Seq(PlainToken)
<1> DEFINE Bad == {q \in Pointers(h) : TypeId(h, q) \notin Readable}
<1>1. Bad = {}
  <2> SUFFICES ASSUME Bad # {} PROVE FALSE
    OBVIOUS
  <2>1. Bad \in SUBSET Nat
    BY DEF Pointers
  <2>2. PICK q \in Bad : \A k \in Bad : q <= k
    BY <2>1, Least
  <2>3. q \in Pointers(h) /\ TypeId(h, q) \notin Readable
    OBVIOUS
  <2>4. h[q].kind \notin Stored /\ TypeId(h, q) = Id(h[q].kind, "", TypeIds(h, h[q].subs))
    BY <2>3, TypeIdFrom DEF WordedHeap
  <2> DEFINE ids == TypeIds(h, h[q].subs)
  <2>5. ids \in Seq(Readable) /\ Len(ids) = Len(h[q].subs)
    <3>1. ASSUME NEW i \in 1..Len(h[q].subs) PROVE TypeId(h, h[q].subs[i]) \in Readable
      <4>1. h[q].subs[i] \in Pointers(h) /\ h[q].subs[i] < q
        <5>1. h[q].subs \in Seq(Pointers(h)) /\ h[q].kind # "ref"
          BY <2>3, <2>4 DEF SoundHeap, TypedHeap, Stored
        <5>. QED
          BY <2>3, <5>1 DEF SoundHeap, TypedHeap
      <4>2. h[q].subs[i] \notin Bad
        BY <2>2, <2>3, <4>1 DEF Pointers
      <4>. QED
        BY <4>1, <4>2
    <3>2. Len(h[q].subs) \in Nat
      BY <2>3 DEF SoundHeap, TypedHeap
    <3>. QED
      BY <3>1, <3>2 DEF TypeIds
  <2>6. h[q].kind \in TypeTags /\ "" \in Words /\ (h[q].kind = "def" => Len(ids) = 1)
    BY <2>3, <2>5 DEF SoundHeap, TypedHeap, TypeTags, Words, WordedHeap
  <2> HIDE DEF ids
  <2>7. Id(h[q].kind, "", ids) \in Readable
    BY <2>5, <2>6, ReadableIds
  <2>. QED
    BY <2>3, <2>4, <2>7 DEF ids
<1>. QED
  BY <1>1, ReadableIsPlain

LEMMA BareIdsAre ==
  ASSUME NEW h, NEW ps
  PROVE  Bare(TypeIds(h, ps)) = BareIds(h, ps)
BY DEF Bare, TypeIds, BareIds, BareId

LEMMA BareIdFrom ==
  ASSUME NEW h, SoundHeap(h), WordedHeap(h), NEW p \in Pointers(h)
  PROVE  /\ BareId(h, p) \in Seq(Token)
         /\ h[p].kind \in Stored => BareId(h, p) = StripDef(h[p].id)
         /\ h[p].kind = "def" => BareId(h, p) = BareId(h, h[p].subs[1])
         /\ h[p].kind \notin Stored \cup {"def"} =>
              BareId(h, p) = Id(h[p].kind, "", BareIds(h, h[p].subs))
<1>1. TypeId(h, p) = IF h[p].kind \in Stored THEN h[p].id ELSE Id(h[p].kind, "", TypeIds(h, h[p].subs))
  BY TypeIdFrom
<1>2. BareId(h, p) = StripDef(TypeId(h, p))
  BY DEF BareId
<1>3. BareId(h, p) \in Seq(Token)
  <2>1. TypeId(h, p) \in Seq(Token)
    BY TypeIdIsPlain, PlainTokens
  <2>. QED
    BY <1>2, <2>1, StripClosed
<1>4. h[p].subs \in Seq(Pointers(h)) /\ h[p].kind \in Kinds
  BY DEF SoundHeap, TypedHeap
<1>5. CASE h[p].kind = "def"
  <2>1. Len(h[p].subs) = 1 /\ h[p].subs[1] \in Pointers(h)
    BY <1>4, <1>5 DEF WordedHeap
  <2>2. TypeIds(h, h[p].subs) = <<TypeId(h, h[p].subs[1])>>
    BY <2>1 DEF TypeIds
  <2>3. TypeId(h, h[p].subs[1]) \in Seq(Token)
    BY <2>1, TypeIdIsPlain, PlainTokens
  <2>4. StripDef(Id("def", "", <<TypeId(h, h[p].subs[1])>>)) = StripDef(TypeId(h, h[p].subs[1]))
    BY <2>3, StripDefinition
  <2>5. BareId(h, p) = BareId(h, h[p].subs[1])
    BY <1>1, <1>2, <1>5, <2>2, <2>4 DEF BareId, Stored
  <2>. QED
    BY <1>3, <1>5, <2>5 DEF Stored
<1>6. CASE h[p].kind \notin Stored \cup {"def"}
  <2> DEFINE ids == TypeIds(h, h[p].subs)
  <2>1. ids \in Seq(Seq(Token))
    <3>1. ASSUME NEW i \in 1..Len(h[p].subs) PROVE TypeId(h, h[p].subs[i]) \in Seq(Token)
      <4>1. h[p].subs[i] \in Pointers(h)
        BY <1>4
      <4>. QED
        BY <4>1, TypeIdIsPlain, PlainTokens
    <3>2. Len(h[p].subs) \in Nat
      BY <1>4
    <3>. QED
      BY <3>1, <3>2 DEF TypeIds
  <2> HIDE DEF ids
  <2>2. h[p].kind \in TypeTags \cup {"name"} /\ "" \in Words /\ h[p].kind # "def"
    BY <1>4, <1>6 DEF TypeTags, Words
  <2>3. StripDef(Id(h[p].kind, "", ids)) = Id(h[p].kind, "", Bare(ids))
    BY <2>1, <2>2, StripParts
  <2>4. Bare(ids) = BareIds(h, h[p].subs)
    BY BareIdsAre DEF ids
  <2>. QED
    BY <1>1, <1>2, <1>3, <1>6, <2>3, <2>4 DEF ids
<1>7. CASE h[p].kind \in Stored
  <2>1. h[p].kind # "def"
    BY <1>7 DEF Stored
  <2>. QED
    BY <1>1, <1>2, <1>3, <1>7, <2>1
<1>. QED
  BY <1>5, <1>6, <1>7

\* g has what h has, some references with another ID that differs in "def-" only.
Renames(g, h) ==
  /\ Contains(g, h)
  /\ \A p \in Pointers(h) :
       IF h[p].kind = "ref" THEN StripDef(g[p].id) = StripDef(h[p].id) ELSE g[p] = h[p]

\* Then all types have the IDs they had, "def-" aside.
SameIds(g, h) == Contains(g, h) /\ \A p \in Pointers(h) : BareId(g, p) = BareId(h, p)

LEMMA RenamedIds ==
  ASSUME NEW h, SoundHeap(h), WordedHeap(h), NEW g, SoundHeap(g), WordedHeap(g), Renames(g, h)
  PROVE  SameIds(g, h)
<1> DEFINE Bad == {q \in Pointers(h) : BareId(g, q) # BareId(h, q)}
<1>1. Bad = {}
  <2> SUFFICES ASSUME Bad # {} PROVE FALSE
    OBVIOUS
  <2>1. Bad \in SUBSET Nat
    BY DEF Pointers
  <2>2. PICK q \in Bad : \A k \in Bad : q <= k
    BY <2>1, Least
  <2>3. q \in Pointers(h) /\ q \in Pointers(g) /\ BareId(g, q) # BareId(h, q) /\ g[q].kind = h[q].kind
    BY DEF Renames, Contains
  <2>4. CASE h[q].kind = "ref"
    <3>1. h[q].kind \in Stored /\ g[q].kind \in Stored
      BY <2>3, <2>4 DEF Stored
    <3>2. BareId(g, q) = StripDef(g[q].id) /\ BareId(h, q) = StripDef(h[q].id)
      BY <2>3, <3>1, BareIdFrom
    <3>. QED
      BY <2>3, <2>4, <3>2 DEF Renames
  <2>5. CASE h[q].kind # "ref"
    <3>1. g[q] = h[q] /\ h[q].subs \in Seq(Pointers(h)) /\ Len(h[q].subs) \in Nat
      BY <2>3, <2>5 DEF Renames, SoundHeap, TypedHeap
    <3>2. ASSUME NEW i \in 1..Len(h[q].subs) PROVE BareId(g, h[q].subs[i]) = BareId(h, h[q].subs[i])
      <4>1. h[q].subs[i] \in Pointers(h) /\ h[q].subs[i] < q
        BY <2>3, <2>5, <3>1 DEF SoundHeap, TypedHeap
      <4>2. h[q].subs[i] \notin Bad
        BY <2>2, <2>3, <4>1 DEF Pointers
      <4>. QED
        BY <4>1, <4>2
    <3>3. BareIds(g, g[q].subs) = BareIds(h, h[q].subs)
      BY <3>1, <3>2 DEF BareIds
    <3>4. CASE h[q].kind \in Stored
      <4>1. BareId(g, q) = StripDef(g[q].id) /\ BareId(h, q) = StripDef(h[q].id)
        BY <2>3, <3>4, BareIdFrom
      <4>. QED
        BY <2>3, <3>1, <4>1
    <3>5. CASE h[q].kind = "def"
      <4>1. BareId(g, q) = BareId(g, g[q].subs[1]) /\ BareId(h, q) = BareId(h, h[q].subs[1])
        BY <2>3, <3>5, BareIdFrom
      <4>2. 1 \in 1..Len(h[q].subs)
        <5>1. Len(h[q].subs) = 1
          BY <2>3, <3>5 DEF WordedHeap
        <5>. QED
          BY <5>1
      <4>. QED
        BY <2>3, <3>1, <3>2, <4>1, <4>2
    <3>6. CASE h[q].kind \notin Stored \cup {"def"}
      <4>1. BareId(g, q) = Id(g[q].kind, "", BareIds(g, g[q].subs))
        BY <2>3, <3>6, BareIdFrom
      <4>2. BareId(h, q) = Id(h[q].kind, "", BareIds(h, h[q].subs))
        BY <2>3, <3>6, BareIdFrom
      <4>. QED
        BY <2>3, <3>3, <4>1, <4>2
    <3>. QED
      BY <3>4, <3>5, <3>6
  <2>. QED
    BY <2>4, <2>5
<1>. QED
  BY <1>1 DEF SameIds, Renames

LEMMA SameLists ==
  ASSUME NEW g, NEW h, SameIds(g, h), NEW ps \in Seq(Pointers(h))
  PROVE  BareIds(g, ps) = BareIds(h, ps)
<1>1. \A i \in 1..Len(ps) : BareId(g, ps[i]) = BareId(h, ps[i])
  BY DEF SameIds
<1>. QED
  BY <1>1 DEF BareIds

-----------------------------------------------------------------------------
(* How the IDs evolve with the heap *)

WordedType(t) ==
  /\ t.id \in Readable /\ t.name \in Seq(Token) /\ PrimNamed(t)
  /\ t.kind \in {"alias", "def"} => Len(t.subs) = 1

LEMMA WordsSame ==
  ASSUME prog' = prog
  PROVE  /\ \A h : WordedHeap(h)' <=> WordedHeap(h)
         /\ PlainToken' = PlainToken /\ Token' = Token /\ Readable' = Readable
<1>1. PlainToken' = PlainToken /\ Token' = Token /\ Words' = Words
  BY DEF PlainToken, Token, Words, Nodes
<1>2. \A X : Prints(X)' <=> Prints(X)
  BY <1>1 DEF Prints
<1>3. Readable' = Readable
  BY <1>1, <1>2 DEF Readable
<1>4. \A t : PrimNamed(t)' <=> PrimNamed(t)
  BY <1>1 DEF PrimNamed
<1>. QED
  BY <1>1, <1>3, <1>4 DEF WordedHeap, Pointers

LEMMA IdentityGrown ==
  ASSUME NEW h, SoundHeap(h), WordedHeap(h), NEW t, TypeOver(t, h), WordedType(t)
  PROVE  /\ SoundHeap(Append(h, t)) /\ WordedHeap(Append(h, t)) /\ SameIds(Append(h, t), h)
         /\ Len(h) \in Nat /\ Len(Append(h, t)) = Len(h) + 1
         /\ Append(h, t)[Len(h) + 1] = t /\ \A p \in Pointers(h) : Append(h, t)[p] = h[p]
<1> DEFINE g == Append(h, t)
<1>1. /\ TypedHeap(g) /\ Contains(g, h)
      /\ Len(h) \in Nat /\ Len(g) = Len(h) + 1 /\ g[Len(h) + 1] = t
      /\ \A p \in Pointers(h) : g[p] = h[p]
  <2>1. TypedHeap(g) /\ Contains(g, h)
    BY TypedGrown DEF SoundHeap
  <2>2. /\ Len(h) \in Nat /\ Len(g) = Len(h) + 1 /\ g[Len(h) + 1] = t
        /\ \A p \in Pointers(h) : g[p] = h[p]
    BY AppendToSequence DEF SoundHeap, HeapOK, Pointers
  <2>. QED
    BY <2>1, <2>2
<1>2. HeapOK(g)
  BY Grown DEF SoundHeap, TypeOver
<1> HIDE DEF g
<1>3. Pointers(g) = Pointers(h) \cup {Len(h) + 1}
  BY <1>1 DEF Pointers
<1>4. WordedHeap(g)
  BY <1>1, <1>3 DEF WordedHeap, WordedType
<1>5. Renames(g, h)
  BY <1>1 DEF Renames
<1>6. SameIds(g, h)
  BY <1>1, <1>2, <1>4, <1>5, RenamedIds DEF SoundHeap
<1>. QED
  BY <1>1, <1>2, <1>4, <1>6 DEF g, SoundHeap

LEMMA TypeNameIs ==
  ASSUME NEW h, SoundHeap(h), WordedHeap(h), NEW p \in Pointers(h)
  PROVE  TypeName(h, p) \in Seq(Token)
<1>1. TypeId(h, p) \in Seq(Token)
  BY TypeIdIsPlain, PlainTokens
<1>. QED
  BY <1>1 DEF TypeName, WordedHeap

LEMMA IdentitySet ==
  ASSUME NEW h, SoundHeap(h), WordedHeap(h), NEW r \in UnsetIn(h), NEW p \in Pointers(h)
  PROVE  /\ SoundHeap(SetType(h, r, p)) /\ WordedHeap(SetType(h, r, p))
         /\ BareId(h, p) = BareId(h, r) => SameIds(SetType(h, r, p), h)
<1> DEFINE g == SetType(h, r, p)
<1>1. /\ HeapOK(g) /\ TypedHeap(g) /\ Contains(g, h) /\ Pointers(g) = Pointers(h)
      /\ g[r].kind = h[r].kind /\ g[r].subs = <<p>> /\ g[r].name = TypeName(h, p)
      /\ \A q \in Pointers(h) \ {r} : g[q] = h[q]
  BY Set, TypedSet DEF SoundHeap
<1>2. g[r].id = TypeId(h, p) /\ h[r].kind = "ref" /\ r \in Pointers(h)
  <2>1. h[r].kind = "ref" /\ r \in Pointers(h)
    BY DEF UnsetIn
  <2>2. IsType(h[r]) /\ IsSequence(h)
    BY <2>1 DEF SoundHeap, HeapOK
  <2> DEFINE id == TypeId(h, p)
             name == TypeName(h, p)
  <2>3. g = [h EXCEPT ![r].subs = <<p>>, ![r].id = id, ![r].name = name]
    BY DEF SetType
  <2> HIDE DEF g, id, name
  <2>4. g[r].id = id
    BY <2>1, <2>2, <2>3 DEF IsType, NewType, Pointers, IsSequence
  <2>. QED
    BY <2>1, <2>4 DEF id
<1> HIDE DEF g
<1>3. TypeId(h, p) \in Readable /\ TypeName(h, p) \in Seq(Token)
  BY TypeIdIsPlain, TypeNameIs
<1>4. WordedHeap(g)
  <2>1. PrimNamed(g[r])
    BY <1>1, <1>2 DEF PrimNamed
  <2>. QED
    BY <1>1, <1>2, <1>3, <2>1 DEF WordedHeap
<1>5. ASSUME BareId(h, p) = BareId(h, r) PROVE SameIds(g, h)
  <2>1. BareId(h, r) = StripDef(h[r].id)
    <3>1. h[r].kind \in Stored
      BY <1>2 DEF Stored
    <3>. QED
      BY <1>2, <3>1, BareIdFrom
  <2>2. StripDef(g[r].id) = StripDef(h[r].id)
    BY <1>2, <1>5, <2>1 DEF BareId
  <2>3. Renames(g, h)
    BY <1>1, <1>2, <2>2 DEF Renames
  <2>. QED
    BY <1>1, <1>4, <2>3, RenamedIds DEF SoundHeap
<1>. QED
  BY <1>1, <1>4, <1>5 DEF g, SoundHeap

LEMMA IdWords ==
  /\ \A tag \in TypeTags, of \in Words : \A args \in Seq(Seq(PlainToken)) : Id(tag, of, args) \in Seq(PlainToken)
  /\ \A tag \in TypeTags \cup {"name"}, of \in Words : \A args \in Seq(Seq(Token)) : Id(tag, of, args) \in Seq(Token)
<1>1. ASSUME NEW tag \in TypeTags, NEW of \in Words, NEW args \in Seq(Seq(PlainToken))
      PROVE  Id(tag, of, args) \in Seq(PlainToken)
  <2>1. TokenOf(tag, of, args) \in PlainToken
    BY DEF TokenOf, PlainToken
  <2>. QED
    BY <2>1, IdIn
<1>2. ASSUME NEW tag \in TypeTags \cup {"name"}, NEW of \in Words, NEW args \in Seq(Seq(Token))
      PROVE  Id(tag, of, args) \in Seq(Token)
  <2>1. TokenOf(tag, of, args) \in Token
    BY DEF TokenOf, Token
  <2>. QED
    BY <2>1, IdIn
<1>. QED
  BY <1>1, <1>2

LEMMA SomeWords ==
  /\ "" \in TypeTags /\ "prim" \in TypeTags /\ "" \in Words
  /\ \A n \in Nodes : n \in Words /\ prog[n].name \in Words /\ (IsCircular(n) => prog[n].kind \in TypeTags)
<1>1. "" \in TypeTags /\ "prim" \in TypeTags /\ "" \in Words
  BY DEF TypeTags, Kinds, Words
<1>2. ASSUME NEW n \in Nodes PROVE n \in Words /\ prog[n].name \in Words
  <2>1. prog[n].name \in {prog[m].name : m \in Nodes}
    OBVIOUS
  <2>. QED
    BY <2>1 DEF Words
<1>3. ASSUME NEW n \in Nodes, IsCircular(n) PROVE prog[n].kind \in TypeTags
  <2> DEFINE kind == prog[n].kind
  <2>1. kind \in {"interface", "alias", "literal"}
    BY <1>3 DEF IsCircular
  <2> HIDE DEF kind
  <2>2. kind \in TypeTags
    BY <2>1 DEF TypeTags, Kinds
  <2>. QED
    BY <2>2 DEF kind
<1>. QED
  BY <1>1, <1>2, <1>3

LEMMA NoIdIs == NoId \in Readable /\ NoId \in Seq(Token)
<1> DEFINE blank == ""
           none == <<>>
<1>1. blank \in TypeTags /\ blank \in Words
  BY SomeWords
<1>2. none \in Seq(Readable) /\ blank # "def"
  OBVIOUS
<1>3. NoId = Id(blank, blank, none)
  BY DEF NoId
<1> HIDE DEF blank, none
<1>4. NoId \in Readable
  BY <1>1, <1>2, <1>3, ReadableIds
<1>. QED
  BY <1>4, ReadableIsPlain

LEMMA WordedTypes ==
  /\ \A n \in Nodes : WordedType(Prim(prog[n].name))
  /\ WordedType(Never) /\ WordedType(Unknown)
  /\ \A subs : WordedType(TupleOf(subs))
  /\ \A id \in Readable : \A subs : WordedType(Object(id, subs))
  /\ \A id \in Readable : \A p : WordedType(Alias(id, p))
  /\ \A name \in Seq(Token) : \A p : WordedType(Definition(name, p))
  /\ \A id \in Readable, name \in Seq(Token) : WordedType(Reference(id, name))
<1>1. ASSUME NEW kind, NEW id \in Readable, NEW name \in Seq(Token), NEW subs,
             kind # "prim", kind \in {"alias", "def"} => Len(subs) = 1
      PROVE  WordedType(NewType(kind, id, name, subs))
  BY <1>1 DEF WordedType, NewType, PrimNamed
<1>2. \A p : Len(<<p>>) = 1
  OBVIOUS
<1>3. ASSUME NEW n \in Nodes PROVE WordedType(Prim(prog[n].name))
  <2> DEFINE tag == "prim"
             name == prog[n].name
             none == <<>>
  <2>1. tag \in TypeTags /\ name \in Words
    BY SomeWords
  <2>2. none \in Seq(Readable) /\ tag # "def"
    OBVIOUS
  <2>3. Id("prim", prog[n].name, <<>>) = Id(tag, name, none)
    OBVIOUS
  <2> HIDE DEF tag, name, none
  <2>4. Id("prim", prog[n].name, <<>>) \in Readable
    BY <2>1, <2>2, <2>3, ReadableIds
  <2> DEFINE t == Prim(prog[n].name)
  <2>5. t.kind = "prim" /\ t.id = Id("prim", prog[n].name, <<>>) /\ t.name = NoId
    BY DEF Prim, NewType
  <2> HIDE DEF t
  <2>6. PrimNamed(t)
    BY <2>1, <2>5 DEF PrimNamed, name
  <2>7. WordedType(t)
    BY <2>4, <2>5, <2>6, NoIdIs DEF WordedType
  <2>. QED
    BY <2>7 DEF t
<1>4. WordedType(Never) /\ WordedType(Unknown)
  BY <1>1, NoIdIs DEF Never, Unknown
<1>5. \A subs : WordedType(TupleOf(subs))
  BY <1>1, NoIdIs DEF TupleOf
<1>6. \A id \in Readable : \A subs : WordedType(Object(id, subs))
  BY <1>1, NoIdIs DEF Object
<1>7. \A id \in Readable : \A p : WordedType(Alias(id, p))
  BY <1>1, <1>2, NoIdIs DEF Alias
<1>8. \A name \in Seq(Token) : \A p : WordedType(Definition(name, p))
  BY <1>1, <1>2, NoIdIs DEF Definition
<1>9. \A id \in Readable, name \in Seq(Token) : WordedType(Reference(id, name))
  BY <1>1, NoIdIs DEF Reference
<1>. QED
  BY <1>3, <1>4, <1>5, <1>6, <1>7, <1>8, <1>9

\* The IDs and the names of declarations.
LEMMA ListsOfIds ==
  ASSUME SoundHeap(heap), WordedHeap(heap), NEW ps \in Seq(Pointers(heap))
  PROVE  /\ TypeIds(heap, ps) \in Seq(Readable) /\ Len(TypeIds(heap, ps)) = Len(ps)
         /\ TypeIds(heap, ps) \in Seq(Seq(Token))
         /\ TypeNames(heap, ps) \in Seq(Seq(Token)) /\ Len(TypeNames(heap, ps)) = Len(ps)
<1>1. ASSUME NEW i \in 1..Len(ps)
      PROVE  /\ TypeId(heap, ps[i]) \in Readable /\ TypeId(heap, ps[i]) \in Seq(Token)
             /\ TypeName(heap, ps[i]) \in Seq(Token)
  <2>1. ps[i] \in Pointers(heap)
    OBVIOUS
  <2>. QED
    BY <2>1, TypeIdIsPlain, TypeNameIs, PlainTokens
<1>2. Len(ps) \in Nat
  OBVIOUS
<1>3. TypeIds(heap, ps) \in Seq(Readable) /\ Len(TypeIds(heap, ps)) = Len(ps)
  BY <1>1, <1>2 DEF TypeIds
<1>4. TypeIds(heap, ps) \in Seq(Seq(Token))
  BY <1>1, <1>2 DEF TypeIds
<1>5. TypeNames(heap, ps) \in Seq(Seq(Token)) /\ Len(TypeNames(heap, ps)) = Len(ps)
  BY <1>1, <1>2 DEF TypeNames
<1>. QED
  BY <1>3, <1>4, <1>5

LEMMA DeclarationWords ==
  ASSUME SoundHeap(heap), WordedHeap(heap), NEW n \in Nodes, NEW ctx, ctx.args \in Seq(Pointers(heap))
  PROVE  /\ IsCircular(n) => DeclarationId(n, ctx) \in Readable
         /\ DeclarationName(n, ctx) \in Seq(Token)
<1>1. prog[n].name \in Words /\ n \in Words /\ "name" \in TypeTags \cup {"name"}
  BY SomeWords
<1>2. IsCircular(n) => prog[n].kind \in TypeTags /\ prog[n].kind # "def"
  BY SomeWords DEF IsCircular
<1>3. /\ TypeIds(heap, ctx.args) \in Seq(Readable)
      /\ TypeNames(heap, ctx.args) \in Seq(Seq(Token))
  BY ListsOfIds
<1>. QED
  BY <1>1, <1>2, <1>3, IdWords, ReadableIds DEF DeclarationId, DeclarationName

-----------------------------------------------------------------------------
(* What a declaration leaves in the heap *)

NeverFree(h) ==
  \A p \in Pointers(h) :
    h[p].kind \in {"def", "ref"} /\ HasType(h, p) => h[h[p].subs[1]].kind # "never"

LEMMA NeverFreeIs == NothingIsNever <=> NeverFree(heap)
BY DEF NothingIsNever, NeverFree

LEMMA SameIdsTwice ==
  ASSUME NEW f, NEW g, NEW h, SameIds(f, g), SameIds(g, h)
  PROVE  SameIds(f, h)
BY DEF SameIds, Contains

\* The type of the declaration that the innermost call parses.
InnerType ==
  IF prog[Top.node].kind = "alias" THEN Alias(heap[Top.ref].id, Top.vals[1])
  ELSE Object(heap[Top.ref].id, Top.vals)

\* The heap h has got the type inner, and p is what the declaration is: inner, or
\* if it is exposed the definition of inner.
Declares(h, inner, p) ==
  /\ Len(h) = p /\ h[Len(heap) + 1] = inner /\ Len(heap) + 1 \in Pointers(h)
  /\ \A q \in Pointers(heap) \ {Top.ref} : h[q] = heap[q]
  /\ h[Top.ref].kind = "ref" /\ h[Top.ref].subs = <<p>>
  /\ \/ ~prog[Top.node].exposed /\ p = Len(heap) + 1
     \/ /\ prog[Top.node].exposed /\ p = Len(heap) + 2
        /\ h[p] = Definition(DeclarationName(Top.node, Top.ctx), Len(heap) + 1)
  /\ h[Top.ref].name = IF prog[Top.node].exposed THEN h[p].name ELSE TypeId(h, p)

LEMMA TypeIdStays ==
  ASSUME NEW h, NEW g, SoundHeap(h), SoundHeap(g), NEW p, p \in Pointers(h), p \in Pointers(g),
         g[p] = h[p], h[p].kind \in Stored \/ h[p].subs = <<>>
  PROVE  TypeId(g, p) = TypeId(h, p)
<1>1. TypeId(h, p) = IF h[p].kind \in Stored THEN h[p].id ELSE Id(h[p].kind, "", TypeIds(h, h[p].subs))
  BY TypeIdFrom
<1>2. TypeId(g, p) = IF g[p].kind \in Stored THEN g[p].id ELSE Id(g[p].kind, "", TypeIds(g, g[p].subs))
  BY TypeIdFrom
<1>3. CASE h[p].kind \in Stored
  BY <1>1, <1>2, <1>3
<1>4. CASE h[p].kind \notin Stored
  <2>1. TypeIds(h, <<>>) = TypeIds(g, <<>>)
    BY DEF TypeIds
  <2>2. h[p].subs = <<>> /\ g[p].subs = <<>>
    BY <1>4
  <2>3. TypeId(h, p) = Id(h[p].kind, "", TypeIds(h, <<>>)) /\ TypeId(g, p) = Id(h[p].kind, "", TypeIds(g, <<>>))
    BY <1>1, <1>2, <1>4, <2>2
  <2>. QED
    BY <2>1, <2>3
<1>. QED
  BY <1>3, <1>4

LEMMA Declared ==
  ASSUME Inv, Typed, WellFormed(prog), WordedHeap(heap), FinishDeclaration
  PROVE  \E h, inner, p :
           /\ Return(h, p) /\ SoundHeap(h) /\ WordedHeap(h) /\ Contains(h, heap) /\ p \in Pointers(h)
           /\ Declares(h, inner, p)
           /\ NeverFree(h) =>
                /\ inner = InnerType /\ SameIds(h, heap)
                /\ BareId(h, Len(heap) + 1) = BareId(heap, Top.ref)
                /\ BareId(h, p) = BareId(heap, Top.ref)
<1> DEFINE n == Top.node
           id == heap[Top.ref].id
           never == \E i \in 1..Len(Top.vals) : IsNeverLike(heap, Top.vals[i])
           inner == IF never THEN Never
                    ELSE IF prog[n].kind = "alias" THEN Alias(id, Top.vals[1])
                    ELSE Object(id, Top.vals)
           base == Append(heap, inner)
           first == Len(heap) + 1
           definition == Definition(DeclarationName(n, Top.ctx), Len(base))
           exposed == IF prog[n].exposed THEN Append(base, definition) ELSE base
           h == SetType(exposed, Top.ref, Len(exposed))
           p == Len(exposed)
<1>1. /\ frames # <<>> /\ prog[n].kind \in {"interface", "alias", "literal"} /\ NextCall(Top) = {}
      /\ Return(h, p)
  BY DEF FinishDeclaration, Finished
<1>2. TypedFrame(Top, heap) /\ Top.ref \in UnsetIn(heap) /\ SoundHeap(heap)
  BY <1>1, TopTyped, TopCall DEF IsCircular, SoundHeap, Inv, Typed
<1>3. n \in Nodes /\ Top.vals \in Seq(Pointers(heap)) /\ Top.ctx.args \in Seq(Pointers(heap))
  BY <1>2 DEF TypedFrame, TypedContext
<1>4. Top.ref \in Pointers(heap) /\ heap[Top.ref].kind = "ref" /\ id \in Readable
  BY <1>2 DEF UnsetIn, WordedHeap
<1>5. inner = Never \/ inner = InnerType
  BY DEF InnerType
<1>6. TypeOver(InnerType, heap) /\ WordedType(InnerType) /\ InnerType.kind \in {"alias", "object"} /\ InnerType.id = id
  <2>1. prog[n].kind = "alias" => Top.vals[1] \in Pointers(heap)
    BY <1>1, <1>2, HasParts
  <2>2. prog[n].kind = "alias" => TypeOver(Alias(id, Top.vals[1]), heap)
    BY <2>1, TypesOver
  <2>3. TypeOver(Object(id, Top.vals), heap)
    BY <1>3, TypesOver
  <2>4. WordedType(Alias(id, Top.vals[1])) /\ WordedType(Object(id, Top.vals))
    BY <1>4, WordedTypes
  <2>5. /\ Alias(id, Top.vals[1]).kind = "alias" /\ Alias(id, Top.vals[1]).id = id
        /\ Object(id, Top.vals).kind = "object" /\ Object(id, Top.vals).id = id
    BY DEF Alias, Object, NewType
  <2>. QED
    BY <2>2, <2>3, <2>4, <2>5 DEF InnerType
<1>7. TypeOver(inner, heap) /\ WordedType(inner) /\ inner.kind \in {"alias", "object", "never"}
      /\ (inner.kind # "never" => inner = InnerType) /\ (inner.kind = "never" => inner.subs = <<>>)
  <2>1. TypeOver(Never, heap) /\ WordedType(Never) /\ Never.kind = "never" /\ Never.subs = <<>>
    BY TypesOver, WordedTypes DEF Never, NewType
  <2>. QED
    BY <1>5, <1>6, <2>1
<1> HIDE DEF inner
<1>8. /\ SoundHeap(base) /\ WordedHeap(base) /\ SameIds(base, heap)
      /\ Len(heap) \in Nat /\ Len(base) = first /\ base[first] = inner
      /\ \A q \in Pointers(heap) : base[q] = heap[q]
  BY <1>2, <1>7, IdentityGrown, ZenonT(40)
<1>9. Pointers(base) = Pointers(heap) \cup {first} /\ first \in Pointers(base)
  BY <1>8 DEF Pointers
<1>10. definition.kind = "def" /\ definition.name = DeclarationName(n, Top.ctx)
       /\ definition.subs = <<first>> /\ TypeOver(definition, base) /\ WordedType(definition)
  <2>1. definition = Definition(DeclarationName(n, Top.ctx), first)
    BY <1>8
  <2>2. TypeOver(definition, base)
    BY <1>9, <2>1, TypesOver
  <2>3. DeclarationName(n, Top.ctx) \in Seq(Token)
    BY <1>2, <1>3, DeclarationWords
  <2>4. WordedType(definition)
    BY <2>1, <2>3, WordedTypes
  <2>5. definition.kind = "def" /\ definition.name = DeclarationName(n, Top.ctx) /\ definition.subs = <<first>>
    BY <2>1 DEF Definition, NewType
  <2>. QED
    BY <2>2, <2>4, <2>5
<1>11. definition = Definition(DeclarationName(n, Top.ctx), first)
  BY <1>8
<1> HIDE DEF definition, base
<1>12. /\ SoundHeap(exposed) /\ WordedHeap(exposed) /\ SameIds(exposed, heap)
       /\ p \in Pointers(exposed) /\ first \in Pointers(exposed) /\ exposed[first] = inner
       /\ \A q \in Pointers(heap) : exposed[q] = heap[q]
       /\ \/ ~prog[n].exposed /\ p = first
          \/ prog[n].exposed /\ p = first + 1 /\ exposed[p] = definition
  <2>1. CASE prog[n].exposed
    <3> DEFINE g == Append(base, definition)
    <3>1. /\ SoundHeap(g) /\ WordedHeap(g) /\ SameIds(g, base)
          /\ Len(base) \in Nat /\ Len(g) = Len(base) + 1 /\ g[Len(base) + 1] = definition
          /\ \A q \in Pointers(base) : g[q] = base[q]
      <4>1. TypeOver(definition, base) /\ WordedType(definition) /\ SoundHeap(base) /\ WordedHeap(base)
        BY <1>8, <1>10
      <4> HIDE DEF h, p, exposed, first, never, id, n
      <4>. QED
        BY <4>1, IdentityGrown, ZenonT(40)
    <3>2. exposed = g
      BY <2>1
    <3> HIDE DEF g, exposed
    <3>3. SameIds(g, heap)
      BY <1>8, <3>1, SameIdsTwice
    <3>. QED
      BY <1>8, <1>9, <2>1, <3>1, <3>2, <3>3 DEF Pointers
  <2>2. CASE ~prog[n].exposed
    <3>1. exposed = base
      BY <2>2
    <3> HIDE DEF exposed
    <3>. QED
      BY <1>8, <1>9, <2>2, <3>1 DEF Pointers
  <2>. QED
    BY <2>1, <2>2
<1> HIDE DEF exposed
<1>13. Top.ref \in UnsetIn(exposed) /\ Top.ref \in Pointers(exposed) /\ Top.ref < first
  <2>1. exposed[Top.ref] = heap[Top.ref] /\ Top.ref \in Pointers(exposed)
    BY <1>4, <1>12 DEF SameIds, Contains
  <2>. QED
    BY <1>2, <1>4, <1>8, <2>1 DEF UnsetIn, HasType, Pointers
<1>14. /\ SoundHeap(h) /\ WordedHeap(h) /\ Contains(h, exposed) /\ Pointers(h) = Pointers(exposed) /\ Len(h) = Len(exposed)
       /\ h[Top.ref].kind = "ref" /\ h[Top.ref].subs = <<p>> /\ h[Top.ref].name = TypeName(exposed, p)
       /\ \A q \in Pointers(exposed) \ {Top.ref} : h[q] = exposed[q]
       /\ BareId(exposed, p) = BareId(exposed, Top.ref) => SameIds(h, exposed)
  <2>1. /\ SoundHeap(h) /\ WordedHeap(h)
        /\ BareId(exposed, p) = BareId(exposed, Top.ref) => SameIds(h, exposed)
    BY <1>12, <1>13, IdentitySet
  <2>2. /\ Pointers(h) = Pointers(exposed) /\ h[Top.ref].kind = exposed[Top.ref].kind
        /\ h[Top.ref].subs = <<p>> /\ h[Top.ref].name = TypeName(exposed, p)
        /\ \A q \in Pointers(exposed) \ {Top.ref} : h[q] = exposed[q]
    BY <1>12, <1>13, Set DEF SoundHeap
  <2>3. exposed[Top.ref].kind = "ref"
    BY <1>13 DEF UnsetIn
  <2>4. Contains(h, exposed)
    BY <1>12, <1>13, TypedSet DEF SoundHeap
  <2>5. Len(h) \in Nat /\ Len(exposed) \in Nat
    BY <1>12, <2>1, HeapSize
  <2> HIDE DEF h
  <2>6. Len(h) = Len(exposed)
    BY <2>2, <2>5 DEF Pointers
  <2>. QED
    BY <2>1, <2>2, <2>3, <2>4, <2>6
<1> HIDE DEF h
<1>15. /\ h[first] = inner /\ first \in Pointers(h) /\ p \in Pointers(h) /\ p # Top.ref /\ first # Top.ref
       /\ h[p] = exposed[p]
  BY <1>8, <1>4, <1>12, <1>13, <1>14
<1>16. h[Top.ref].name = IF prog[n].exposed THEN h[p].name ELSE TypeId(h, p)
  <2>1. CASE prog[n].exposed
    BY <1>10, <1>12, <1>14, <1>15, <2>1 DEF TypeName
  <2>2. CASE ~prog[n].exposed
    <3>1. exposed[p] = inner /\ h[p] = inner
      BY <1>12, <1>15, <2>2
    <3>2. inner.kind \notin {"def", "ref"} /\ (inner.kind \in Stored \/ inner.subs = <<>>)
      BY <1>7 DEF Stored
    <3>3. TypeName(exposed, p) = TypeId(exposed, p)
      BY <3>1, <3>2 DEF TypeName
    <3>4. TypeId(h, p) = TypeId(exposed, p)
      BY <1>12, <1>14, <1>15, <3>1, <3>2, TypeIdStays
    <3>. QED
      BY <1>14, <2>2, <3>3, <3>4
  <2>. QED
    BY <2>1, <2>2
<1>17. Declares(h, inner, p)
  <2>1. \A q \in Pointers(heap) \ {Top.ref} : h[q] = heap[q]
    BY <1>12, <1>14 DEF SameIds, Contains
  <2>2. \/ ~prog[n].exposed /\ p = first
        \/ prog[n].exposed /\ p = first + 1 /\ h[p] = Definition(DeclarationName(n, Top.ctx), first)
    BY <1>11, <1>12, <1>15
  <2>3. first + 1 = Len(heap) + 2
    BY <1>8
  <2>. QED
    BY <1>14, <1>15, <1>16, <2>1, <2>2, <2>3 DEF Declares
<1>18. ASSUME NeverFree(h)
       PROVE  /\ inner = InnerType /\ SameIds(h, heap)
              /\ BareId(h, first) = BareId(heap, Top.ref)
              /\ BareId(h, p) = BareId(heap, Top.ref)
  <2>1. h[p].kind # "never"
    <3>1. h[Top.ref].kind \in {"def", "ref"} /\ HasType(h, Top.ref) /\ h[Top.ref].subs[1] = p
      BY <1>14 DEF HasType
    <3>2. Top.ref \in Pointers(h)
      BY <1>13, <1>14
    <3>. QED
      BY <1>18, <3>1, <3>2 DEF NeverFree
  <2>2. inner.kind # "never"
    <3>1. CASE prog[n].exposed
      <4>1. h[p].kind = "def" /\ h[p].subs = <<first>>
        BY <1>10, <1>12, <1>15, <3>1
      <4>2. HasType(h, p) /\ h[p].subs[1] = first
        BY <4>1 DEF HasType
      <4>. QED
        BY <1>15, <1>18, <4>1, <4>2 DEF NeverFree
    <3>2. CASE ~prog[n].exposed
      BY <1>12, <1>15, <2>1, <3>2
    <3>. QED
      BY <3>1, <3>2
  <2>3. inner = InnerType /\ inner.kind \in Stored /\ inner.id = id
    BY <1>6, <1>7, <2>2 DEF Stored
  <2>4. BareId(exposed, first) = StripDef(id)
    <3>1. exposed[first].kind \in Stored /\ exposed[first].id = id
      BY <1>12, <2>3
    <3>2. SoundHeap(exposed) /\ WordedHeap(exposed) /\ first \in Pointers(exposed)
      BY <1>12
    <3>. QED
      BY <3>1, <3>2, BareIdFrom
  <2>5. BareId(exposed, Top.ref) = StripDef(id)
    <3>1. exposed[Top.ref].kind \in Stored /\ exposed[Top.ref].id = id
      BY <1>4, <1>12 DEF Stored
    <3>2. SoundHeap(exposed) /\ WordedHeap(exposed) /\ Top.ref \in Pointers(exposed)
      BY <1>12, <1>13
    <3>. QED
      BY <3>1, <3>2, BareIdFrom
  <2>6. BareId(exposed, p) = BareId(exposed, first)
    <3>1. CASE prog[n].exposed
      <4>1. exposed[p].kind = "def" /\ exposed[p].subs[1] = first
        BY <1>10, <1>12, <3>1
      <4>2. SoundHeap(exposed) /\ WordedHeap(exposed) /\ p \in Pointers(exposed)
        BY <1>12
      <4>. QED
        BY <4>1, <4>2, BareIdFrom
    <3>2. CASE ~prog[n].exposed
      BY <1>12, <3>2
    <3>. QED
      BY <3>1, <3>2
  <2>7. SameIds(h, exposed) /\ SameIds(h, heap)
    BY <1>12, <1>14, <2>4, <2>5, <2>6, SameIdsTwice
  <2>8. BareId(h, first) = BareId(exposed, first) /\ BareId(h, p) = BareId(exposed, p)
    BY <1>12, <2>7 DEF SameIds
  <2>9. BareId(heap, Top.ref) = BareId(exposed, Top.ref)
    BY <1>4, <1>12 DEF SameIds
  <2>. QED
    BY <2>3, <2>4, <2>5, <2>6, <2>7, <2>8, <2>9
<1>19. Contains(h, heap)
  BY <1>12, <1>14 DEF SameIds, Contains
<1>. QED
  BY <1>1, <1>14, <1>15, <1>17, <1>18, <1>19

-----------------------------------------------------------------------------
(* The steps of the parser *)

\* A call that a step may make.
Asked(call) ==
  /\ call.node \in Nodes /\ TypedContext(call.ctx, heap)
  /\ IF frames = <<>> THEN call.node \in Roots /\ call.ctx = RootContext ELSE call \in NextCall(Top)

LEMMA AskedAre ==
  ASSUME Inv, Typed, WellFormed(prog)
  PROVE  /\ \A n \in Roots : ParseRoot(n) =>
              \E call : Asked(call) /\ CreateType(call, frames) /\ call.node = n
         /\ ParseNext => \E call : Asked(call) /\ CreateType(call, frames)
<1>1. ASSUME NEW n \in Roots, ParseRoot(n)
      PROVE  \E call : Asked(call) /\ CreateType(call, frames) /\ call.node = n
  <2> DEFINE call == Call(n, RootContext)
  <2>1. call.node \in Nodes /\ call.node = n /\ call.ctx = RootContext
    BY DEF Call, Roots, Declarations
  <2>2. TypedContext(RootContext, heap)
    <3> DEFINE key == [ref |-> NoNode, args |-> TypeIds(heap, <<>>)]
               ctx == RootContext
    <3>1. ctx = [ref |-> NoNode, args |-> <<>>, params |-> <<>>, key |-> key]
      BY DEF RootContext, Context
    <3>2. <<>> \in Seq(Pointers(heap))
      OBVIOUS
    <3> HIDE DEF key, ctx
    <3>3. TypedContext(ctx, heap)
      BY <3>1, <3>2 DEF TypedContext
    <3>. QED
      BY <3>3 DEF ctx
  <2>3. CreateType(call, frames) /\ frames = <<>>
    BY <1>1 DEF ParseRoot, Idle
  <2> HIDE DEF call
  <2>. QED
    BY <2>1, <2>2, <2>3 DEF Asked
<1>2. ASSUME ParseNext PROVE \E call : Asked(call) /\ CreateType(call, frames)
  <2>1. frames # <<>> /\ \E call \in NextCall(Top) : call.node # NoNode /\ CreateType(call, frames)
    BY <1>2 DEF ParseNext
  <2>2. PICK call \in NextCall(Top) : call.node # NoNode /\ CreateType(call, frames)
    BY <2>1
  <2>3. call.node \in Nodes /\ TypedContext(call.ctx, heap)
    BY <2>1, <2>2, TopTyped, NextCallTyped
  <2>. QED
    BY <2>1, <2>2, <2>3 DEF Asked
<1>. QED
  BY <1>1, <1>2

\* The call of a declaration or of a literal is opened.
Opens(call) == Asked(call) /\ IsCircular(call.node) /\ Enter(call, frames)

ReferenceName(call) ==
  IF prog[call.node].kind = "alias" THEN DeclarationName(call.node, call.ctx)
  ELSE DeclarationId(call.node, call.ctx)

LEMMA OpensIs ==
  ASSUME SoundHeap(heap), WordedHeap(heap), NEW call, Opens(call)
  PROVE  /\ heap' = Append(heap, Reference(DeclarationId(call.node, call.ctx), ReferenceName(call)))
         /\ TypeOver(Reference(DeclarationId(call.node, call.ctx), ReferenceName(call)), heap)
         /\ WordedType(Reference(DeclarationId(call.node, call.ctx), ReferenceName(call)))
<1> DEFINE id == DeclarationId(call.node, call.ctx)
           name == ReferenceName(call)
<1>1. heap' = Append(heap, Reference(id, name))
  BY DEF Opens, Enter, ReferenceName
<1>2. call.node \in Nodes /\ IsCircular(call.node) /\ call.ctx.args \in Seq(Pointers(heap))
  BY DEF Opens, Asked, TypedContext
<1>3. id \in Readable /\ DeclarationName(call.node, call.ctx) \in Seq(Token)
  BY <1>2, DeclarationWords
<1>4. id \in Readable /\ name \in Seq(Token)
  BY <1>3, ReadableIsPlain DEF ReferenceName
<1> HIDE DEF id, name
<1>5. WordedType(Reference(id, name))
  BY <1>4, WordedTypes
<1>6. TypeOver(Reference(id, name), heap)
  BY TypesOver
<1>. QED
  BY <1>1, <1>5, <1>6 DEF id, name

\* A type is made that has no name.
Makes(t) ==
  /\ TypeOver(t, heap) /\ WordedType(t) /\ t.kind \notin {"def", "ref", "object", "alias"}
  /\ heap' = Append(heap, t)

\* Whatever else a step does, it leaves the heap as it was, or makes one type, or
\* opens or finishes a declaration.
LEMMA HeapStep ==
  ASSUME Inv, Typed, WellFormed(prog), WordedHeap(heap), Next
  PROVE  heap' = heap \/ (\E t : Makes(t)) \/ (\E call : Opens(call)) \/ FinishDeclaration
<1>1. ASSUME NEW call, Asked(call), CreateType(call, frames) PROVE heap' = heap \/ Opens(call)
  BY <1>1 DEF CreateType, UseCache, UseCircular, Enter, Opens
<1>2. ASSUME NEW t, TypeOver(t, heap), WordedType(t), t.kind \notin {"def", "ref", "object", "alias"},
             ReturnNew(t)
      PROVE  Makes(t)
  BY <1>2 DEF ReturnNew, Return, Makes
<1>3. /\ TypeOver(Never, heap) /\ WordedType(Never) /\ Never.kind \notin {"def", "ref", "object", "alias"}
      /\ TypeOver(Unknown, heap) /\ WordedType(Unknown)
      /\ Unknown.kind \notin {"def", "ref", "object", "alias"}
  <2>1. Never.kind = "never" /\ Unknown.kind = "unknown"
    BY DEF Never, Unknown, NewType
  <2>. QED
    BY <2>1, TypesOver, WordedTypes
<1>4. CASE FinishLeaf
  <2>1. frames # <<>> /\ (ReturnNew(Prim(prog[Top.node].name)) \/ ReturnNew(Never))
    BY <1>4 DEF FinishLeaf, Finished
  <2>2. Top.node \in Nodes
    BY <2>1, TopTyped DEF TypedFrame
  <2>3. /\ TypeOver(Prim(prog[Top.node].name), heap) /\ WordedType(Prim(prog[Top.node].name))
        /\ Prim(prog[Top.node].name).kind = "prim"
    BY <2>2, TypesOver, WordedTypes DEF Prim, NewType
  <2>. QED
    BY <1>2, <1>3, <2>1, <2>3
<1>5. CASE FinishTuple
  <2>1. frames # <<>> /\ ReturnNew(TupleOf(Top.vals))
    BY <1>5 DEF FinishTuple, Finished
  <2>2. Top.vals \in Seq(Pointers(heap))
    BY <2>1, TopTyped DEF TypedFrame
  <2>3. /\ TypeOver(TupleOf(Top.vals), heap) /\ WordedType(TupleOf(Top.vals))
        /\ TupleOf(Top.vals).kind = "tuple"
    BY <2>2, TypesOver, WordedTypes DEF TupleOf, NewType
  <2>. QED
    BY <1>2, <2>1, <2>3
<1>6. CASE FinishParameter
  <2>1. ReturnNew(Unknown) \/ heap' = heap
    BY <1>6 DEF FinishParameter, Return
  <2>. QED
    BY <1>2, <1>3, <2>1
<1>7. CASE FinishReference
  BY <1>7 DEF FinishReference, Return
<1>8. CASE FinishIndex
  <2>1. ReturnNew(Never) \/ heap' = heap
    BY <1>8 DEF FinishIndex, Return
  <2>. QED
    BY <1>2, <1>3, <2>1
<1>9. CASE PanicOnNil
  BY <1>9 DEF PanicOnNil
<1>10. CASE (\E n \in Roots : ParseRoot(n)) \/ ParseNext
  BY <1>1, <1>10, AskedAre
<1>. QED
  BY <1>4, <1>5, <1>6, <1>7, <1>8, <1>9, <1>10 DEF Next, Step, Finish

-----------------------------------------------------------------------------
(* IDs are final *)

LEMMA ProgramStays == [Next]_vars => prog' = prog
BY DEF Next, Step, ParseRoot, ParseNext, PanicOnNil, Finish, FinishLeaf, FinishTuple,
       FinishParameter, FinishReference, FinishIndex, FinishDeclaration, ReturnNew, Return, vars

LEMMA WordsStep ==
  ASSUME Inv, Typed, WordedHeap(heap), [Next]_vars
  PROVE  WordedHeap(heap)' /\ (NothingIsNever' => SameIds(heap', heap))
<1>0. SoundHeap(heap) /\ WellFormed(prog) /\ prog' = prog
  BY ProgramStays, ProgramsAssumption DEF SoundHeap, Inv, Typed
<1>1. SameIds(heap, heap)
  BY DEF SameIds, Contains
<1>2. WordedHeap(heap') /\ (NeverFree(heap') => SameIds(heap', heap))
  <2>1. CASE heap' = heap
    BY <1>1, <2>1
  <2>2. ASSUME NEW t, Makes(t) PROVE WordedHeap(heap') /\ SameIds(heap', heap)
    BY <1>0, <2>2, IdentityGrown DEF Makes
  <2>3. ASSUME NEW call, Opens(call) PROVE WordedHeap(heap') /\ SameIds(heap', heap)
    <3> DEFINE t == Reference(DeclarationId(call.node, call.ctx), ReferenceName(call))
    <3>1. heap' = Append(heap, t) /\ TypeOver(t, heap) /\ WordedType(t)
      BY <1>0, <2>3, OpensIs
    <3> HIDE DEF t
    <3>. QED
      BY <1>0, <3>1, IdentityGrown
  <2>4. CASE FinishDeclaration
    <3>1. PICK h, inner, p : Return(h, p) /\ WordedHeap(h) /\ (NeverFree(h) => SameIds(h, heap))
      BY <1>0, <2>4, Declared
    <3>2. heap' = h
      BY <3>1 DEF Return
    <3>. QED
      BY <3>1, <3>2
  <2>5. CASE UNCHANGED vars
    BY <1>1, <2>5 DEF vars
  <2>. QED
    BY <1>0, <2>1, <2>2, <2>3, <2>4, <2>5, HeapStep
<1>3. NothingIsNever' <=> NeverFree(heap')
  BY DEF NothingIsNever, NeverFree
<1>. QED
  BY <1>0, <1>2, <1>3, WordsSame

LEMMA WordsInit == Init => WordedHeap(heap)
<1>1. Init => Pointers(heap) = {}
  BY DEF Init, Pointers
<1>. QED
  BY <1>1 DEF WordedHeap

LEMMA WordsAreInductive == Spec => [](Inv /\ Typed /\ WordedHeap(heap))
<1>1. Init => Inv /\ Typed /\ WordedHeap(heap)
  BY InvInit, TypedInit, WordsInit
<1>2. (Inv /\ Typed /\ WordedHeap(heap)) /\ [Next]_vars => (Inv /\ Typed /\ WordedHeap(heap))'
  BY InvStep, TypedStep, WordsStep
<1>. QED
  BY <1>1, <1>2, PTL DEF Spec

\* As long as no declaration turns out to be never, whatever is parsed next leaves
\* every type with the ID it had, "def-" aside, also when SetType replaces the ID
\* of a reference (types.go): a key made from IDs goes on fitting the types it was
\* made for, and an ID inside another one is not outdated.
THEOREM IdsStay == Spec => IdsAreFinal
<1>1. Inv /\ Typed /\ WordedHeap(heap) /\ [Next]_vars
        => [NothingIsNever' => \A p \in Pointers(heap) : BareId(heap', p) = BareId(heap, p)]_vars
  BY WordsStep DEF SameIds
<1>. QED
  BY <1>1, WordsAreInductive, PTL DEF Spec, IdsAreFinal

-----------------------------------------------------------------------------
(* What a step does to the open calls *)

SameCall(f, g) == f.node = g.node /\ f.key = g.key /\ f.ref = g.ref /\ f.ctx = g.ctx

\* A value is delivered: to the generator, or to the innermost of the callers.
LEMMA Delivery ==
  ASSUME NEW p, NEW callers, IsSequence(callers), \A i \in 1..Len(callers) : IsFrame(callers[i]),
         Deliver(p, callers)
  PROVE  /\ IsSequence(frames') /\ Len(frames') = Len(callers) /\ Len(callers) \in Nat
         /\ \A i \in 2..Len(callers) : frames'[i] = callers[i]
         /\ callers = <<>> => frames' = <<>>
         /\ callers # <<>> => SameCall(frames'[1], callers[1]) /\ frames'[1].vals = Append(callers[1].vals, p)
<1>1. CASE callers = <<>>
  <2>1. frames' = <<>>
    BY <1>1 DEF Deliver
  <2>2. IsSequence(frames') /\ Len(frames') = Len(callers)
    BY <1>1, <2>1
  <2>. QED
    BY <1>1, <2>1, <2>2
<1>2. CASE callers # <<>>
  <2> DEFINE f == callers[1]
             v == Append(f.vals, p)
             top == [f EXCEPT !.vals = v]
             rest == Tail(callers)
  <2>1. /\ IsSequence(rest) /\ Len(callers) \in Nat \ {0} /\ Len(rest) = Len(callers) - 1
        /\ Head(callers) = f /\ \A i \in 1..Len(callers) - 1 : rest[i] = callers[i + 1]
    BY <1>2, TailOfSequence
  <2>2. IsFrame(f)
    BY <2>1
  <2>3. frames' = <<top>> \o rest
    BY <1>2, <2>1 DEF Deliver
  <2> HIDE DEF v
  <2>4. top = [node |-> f.node, key |-> f.key, ref |-> f.ref, ctx |-> f.ctx, vals |-> v]
    BY <2>2 DEF IsFrame
  <2>5. SameCall(top, f) /\ top.vals = v
    BY <2>4 DEF SameCall
  <2> HIDE DEF top, rest
  <2>6. /\ IsSequence(<<top>> \o rest) /\ Len(<<top>> \o rest) = Len(rest) + 1
        /\ (<<top>> \o rest)[1] = top
        /\ \A i \in 2..Len(rest) + 1 : (<<top>> \o rest)[i] = rest[i - 1]
    BY <2>1, PushOnSequence
  <2>7. ASSUME NEW i \in 2..Len(callers) PROVE frames'[i] = callers[i]
    <3>1. i - 1 \in 1..Len(callers) - 1 /\ (i - 1) + 1 = i /\ i \in 2..Len(rest) + 1
      BY <2>1
    <3>. QED
      BY <2>1, <2>3, <2>6, <3>1
  <2>. QED
    BY <1>2, <2>1, <2>3, <2>5, <2>6, <2>7 DEF v
<1>. QED
  BY <1>1, <1>2

\* What is known of a call when it has been opened.
JustOpened(f, call) ==
  /\ f.node = call.node /\ f.key = NodeKey(call.node, call.ctx) /\ f.vals = <<>>
  /\ f.ctx.args = call.ctx.args /\ f.ctx.key = call.ctx.key
  /\ f.ctx.params = IF prog[call.node].kind \in {"interface", "alias"} THEN prog[call.node].params
                    ELSE call.ctx.params
  /\ f.ref = IF IsCircular(call.node) THEN Len(heap) + 1 ELSE 0

LEMMA Entering ==
  ASSUME Inv, NEW call, TypedContext(call.ctx, heap), Enter(call, frames)
  PROVE  /\ IsSequence(frames') /\ Len(frames) \in Nat /\ Len(frames') = Len(frames) + 1
         /\ \A i \in 2..Len(frames) + 1 : frames'[i] = frames[i - 1]
         /\ JustOpened(frames'[1], call)
<1> DEFINE params == IF prog[call.node].kind = "literal" THEN call.ctx.params ELSE prog[call.node].params
           c == call.ctx
           ctx == [c EXCEPT !.params = params]
           key == NodeKey(call.node, call.ctx)
           ref == Len(heap) + 1
           declaration == [node |-> call.node, key |-> key, ref |-> ref, vals |-> <<>>, ctx |-> ctx]
           other == [node |-> call.node, key |-> key, ref |-> 0, ctx |-> c, vals |-> <<>>]
<1>1. IF IsCircular(call.node) THEN frames' = <<declaration>> \o frames ELSE frames' = <<other>> \o frames
  BY DEF Enter
<1>2. ctx.args = c.args /\ ctx.key = c.key /\ ctx.params = params
  <2> HIDE DEF params, c
  <2>1. c = [ref |-> c.ref, args |-> c.args, params |-> c.params, key |-> c.key]
    BY DEF TypedContext, c
  <2>2. ctx = [ref |-> c.ref, args |-> c.args, params |-> params, key |-> c.key]
    BY <2>1
  <2>. QED
    BY <2>2
<1>3. IsCircular(call.node) => JustOpened(declaration, call)
  <2> SUFFICES ASSUME IsCircular(call.node) PROVE JustOpened(declaration, call)
    OBVIOUS
  <2>1. params = IF prog[call.node].kind \in {"interface", "alias"} THEN prog[call.node].params
                 ELSE call.ctx.params
    BY DEF IsCircular
  <2> HIDE DEF params, ctx, key, ref
  <2>2. /\ declaration.node = call.node /\ declaration.key = key /\ declaration.vals = <<>>
        /\ declaration.ctx = ctx /\ declaration.ref = ref
    OBVIOUS
  <2> HIDE DEF declaration
  <2>. QED
    BY <1>2, <2>1, <2>2 DEF JustOpened, key, ref
<1>4. ~IsCircular(call.node) => JustOpened(other, call)
  <2> SUFFICES ASSUME ~IsCircular(call.node) PROVE JustOpened(other, call)
    OBVIOUS
  <2>1. c.params = IF prog[call.node].kind \in {"interface", "alias"} THEN prog[call.node].params
                   ELSE call.ctx.params
    BY DEF IsCircular
  <2> HIDE DEF key
  <2>2. /\ other.node = call.node /\ other.key = key /\ other.vals = <<>>
        /\ other.ctx = c /\ other.ref = 0
    OBVIOUS
  <2> HIDE DEF other
  <2>. QED
    BY <2>1, <2>2 DEF JustOpened, key
<1> HIDE DEF declaration, other
<1>5. PICK f : frames' = <<f>> \o frames /\ JustOpened(f, call)
  BY <1>1, <1>3, <1>4
<1>6. IsSequence(frames)
  BY DEF Inv, FramesInv
<1>. QED
  BY <1>5, <1>6, PushOnSequence

LEMMA Returning ==
  ASSUME Inv, frames # <<>>, NEW h, NEW p, Return(h, p)
  PROVE  /\ heap' = h /\ IsSequence(frames') /\ Len(frames) \in Nat \ {0} /\ Len(frames') = Len(frames) - 1
         /\ Top = frames[1]
         /\ \A i \in 2..Len(frames') : frames'[i] = frames[i + 1]
         /\ frames' # <<>> => /\ SameCall(frames'[1], frames[2])
                              /\ frames'[1].vals = Append(frames[2].vals, p)
<1> DEFINE rest == Tail(frames)
<1>1. /\ IsSequence(rest) /\ Len(frames) \in Nat \ {0} /\ Len(rest) = Len(frames) - 1
      /\ Top = frames[1] /\ \A i \in 1..Len(frames) - 1 : rest[i] = frames[i + 1]
  BY TailOfSequence DEF Inv, FramesInv, Top
<1>2. heap' = h /\ Deliver(p, rest)
  BY DEF Return
<1>3. \A i \in 1..Len(rest) : IsFrame(rest[i])
  BY TopCall
<1> HIDE DEF rest
<1>4. /\ IsSequence(frames') /\ Len(frames') = Len(rest) /\ \A i \in 2..Len(rest) : frames'[i] = rest[i]
      /\ rest = <<>> => frames' = <<>>
      /\ rest # <<>> => SameCall(frames'[1], rest[1]) /\ frames'[1].vals = Append(rest[1].vals, p)
  BY <1>1, <1>2, <1>3, Delivery
<1>5. ASSUME frames' # <<>> PROVE SameCall(frames'[1], frames[2]) /\ frames'[1].vals = Append(frames[2].vals, p)
  <2>1. rest # <<>>
    BY <1>4, <1>5
  <2>2. Len(rest) # 0
    BY <1>1, <2>1 DEF IsSequence
  <2>3. rest[1] = frames[1 + 1]
    BY <1>1, <2>2
  <2>. QED
    BY <1>4, <2>1, <2>3
<1>6. ASSUME NEW i \in 2..Len(frames') PROVE frames'[i] = frames[i + 1]
  <2>1. i \in 1..Len(frames) - 1 /\ i \in 2..Len(rest)
    BY <1>1, <1>4
  <2>. QED
    BY <1>1, <1>4, <2>1
<1>. QED
  BY <1>1, <1>2, <1>4, <1>5, <1>6

\* A call is an old one, or has just been opened.
LEMMA OldCalls ==
  ASSUME Inv, Typed, WellFormed(prog), Next, NEW i \in 1..Len(frames')
  PROVE  \/ \E j \in 1..Len(frames) : SameCall(frames'[i], frames[j])
         \/ \E call : Asked(call) /\ Enter(call, frames) /\ JustOpened(frames'[i], call)
<1>0. Len(frames) \in Nat /\ IsSequence(frames) /\ \A j \in 1..Len(frames) : IsFrame(frames[j])
  BY AppendToSequence DEF Inv, FramesInv
<1>1. \A f, g : f = g => SameCall(f, g)
  BY DEF SameCall
<1>2. ASSUME NEW call, Asked(call), CreateType(call, frames)
      PROVE  \/ \E j \in 1..Len(frames) : SameCall(frames'[i], frames[j])
             \/ \E c : Asked(c) /\ Enter(c, frames) /\ JustOpened(frames'[i], c)
  <2>1. ASSUME NEW p, Deliver(p, frames) PROVE \E j \in 1..Len(frames) : SameCall(frames'[i], frames[j])
    <3>1. /\ IsSequence(frames') /\ Len(frames') = Len(frames)
          /\ \A j \in 2..Len(frames) : frames'[j] = frames[j]
          /\ frames = <<>> => frames' = <<>>
          /\ frames # <<>> => SameCall(frames'[1], frames[1])
      BY <1>0, <2>1, Delivery
    <3>2. frames # <<>>
      BY <1>0, <3>1
    <3>3. i \in 1..Len(frames) /\ (i = 1 \/ i \in 2..Len(frames))
      BY <1>0, <3>1
    <3>. QED
      BY <1>1, <3>1, <3>2, <3>3
  <2>2. CASE Enter(call, frames)
    <3>1. /\ Len(frames') = Len(frames) + 1 /\ \A j \in 2..Len(frames) + 1 : frames'[j] = frames[j - 1]
          /\ JustOpened(frames'[1], call)
      BY <1>2, <2>2, Entering DEF Asked
    <3>2. i = 1 \/ (i \in 2..Len(frames) + 1 /\ i - 1 \in 1..Len(frames))
      BY <1>0, <3>1
    <3>3. CASE i = 1
      BY <1>2, <2>2, <3>1, <3>3
    <3>4. CASE i \in 2..Len(frames) + 1 /\ i - 1 \in 1..Len(frames)
      BY <1>1, <3>1, <3>4
    <3>. QED
      BY <3>2, <3>3, <3>4
  <2>. QED
    BY <1>2, <2>1, <2>2 DEF CreateType, UseCache, UseCircular
<1>3. ASSUME frames # <<>>, NEW h, NEW p, Return(h, p) PROVE \E j \in 1..Len(frames) : SameCall(frames'[i], frames[j])
  <2>1. /\ IsSequence(frames') /\ Len(frames') = Len(frames) - 1
        /\ \A j \in 2..Len(frames') : frames'[j] = frames[j + 1]
        /\ frames' # <<>> => SameCall(frames'[1], frames[2])
    BY <1>3, Returning
  <2>2. frames' # <<>> /\ i + 1 \in 1..Len(frames) /\ (i = 1 \/ i \in 2..Len(frames'))
    BY <1>0, <2>1
  <2>. QED
    BY <1>1, <2>1, <2>2
<1>4. CASE Finish
  <2>1. frames # <<>> /\ \E h, p : Return(h, p)
    BY <1>4 DEF Finish, FinishLeaf, FinishTuple, FinishParameter, FinishReference, FinishIndex,
                FinishDeclaration, Finished, ReturnNew
  <2>. QED
    BY <1>3, <2>1
<1>5. CASE PanicOnNil
  BY <1>1, <1>5 DEF PanicOnNil
<1>6. CASE (\E n \in Roots : ParseRoot(n)) \/ ParseNext
  BY <1>2, <1>6, AskedAre
<1>. QED
  BY <1>4, <1>5, <1>6 DEF Next, Step

-----------------------------------------------------------------------------
(* Names *)

\* A declaration of that name.
Named(name) == {d \in Declarations : prog[d].name = name}

DeclarationToken(d, parts) == [tag |-> prog[d].kind, of |-> d, parts |-> parts]

\* From the tokens of a name to those of the ID without "def-".
Renaming ==
  [t \in Token |->
     IF t.tag = "def" THEN <<>>
     ELSE IF t.tag = "name" /\ Named(t.of) # {}
          THEN <<DeclarationToken(CHOOSE d \in Named(t.of) : TRUE, t.parts)>>
     ELSE <<t>>]

IdOfName(name) == Images(name, Renaming)

LEMMA RenamingIs == Rewrites(Renaming, Token)
<1>1. ASSUME NEW t \in Token, NEW d \in Declarations PROVE DeclarationToken(d, t.parts) \in Token
  <2>1. d \in Nodes /\ IsCircular(d)
    BY DEF Declarations, IsCircular
  <2>2. prog[d].kind \in TypeTags /\ d \in Words
    BY <2>1, SomeWords
  <2>. QED
    BY <2>2 DEF DeclarationToken, Token
<1>2. ASSUME NEW t \in Token PROVE Renaming[t] \in Seq(Token)
  <2>1. CASE t.tag = "def"
    BY <2>1 DEF Renaming
  <2>2. CASE t.tag # "def" /\ t.tag = "name" /\ Named(t.of) # {}
    <3> DEFINE d == CHOOSE d \in Named(t.of) : TRUE
    <3>1. d \in Declarations
      BY <2>2 DEF Named
    <3>2. Renaming[t] = <<DeclarationToken(d, t.parts)>>
      BY <2>2 DEF Renaming
    <3> HIDE DEF d
    <3>3. DeclarationToken(d, t.parts) \in Token
      BY <1>1, <3>1
    <3>. QED
      BY <3>2, <3>3
  <2>3. CASE t.tag # "def" /\ ~(t.tag = "name" /\ Named(t.of) # {})
    BY <2>3 DEF Renaming
  <2>. QED
    BY <2>1, <2>2, <2>3
<1>3. Renaming = [t \in Token |-> Renaming[t]]
  BY DEF Renaming
<1>. QED
  BY <1>2, <1>3 DEF Rewrites

\* What has no name in it is an ID already.
LEMMA PlainNames ==
  ASSUME NEW s \in Seq(PlainToken)
  PROVE  IdOfName(s) = StripDef(s)
<1>1. s \in Seq(Token)
  BY PlainTokens
<1>2. ASSUME NEW i \in 1..Len(s) PROVE Renaming[s[i]] = Stripping[s[i]]
  <2>1. s[i] \in PlainToken /\ s[i] \in Token
    BY <1>1
  <2>2. s[i].tag # "name"
    BY <2>1 DEF PlainToken, TypeTags, Kinds
  <2>. QED
    BY <2>1, <2>2 DEF Renaming, Stripping
<1>3. [i \in 1..Len(s) |-> Renaming[s[i]]] = [i \in 1..Len(s) |-> Stripping[s[i]]]
  BY <1>2
<1>4. StripDef(s) = Images(s, Stripping)
  BY <1>1, StripIsImages
<1>. QED
  BY <1>3, <1>4 DEF Images, IdOfName

\* The name of a declaration is renamed to its ID.
LEMMA DeclarationNames ==
  ASSUME DistinctNames, NEW d \in Declarations, NEW args \in Seq(Seq(Token))
  PROVE  IdOfName(Id("name", prog[d].name, args))
           = Id(prog[d].kind, d, Each(args, Renaming))
<1> DEFINE name == prog[d].name
           token == TokenOf("name", name, args)
<1>1. d \in Nodes /\ "name" \in TypeTags \cup {"name"} /\ Len(args) \in Nat
  BY DEF Declarations
<1>2. token \in Token
  <2>1. name \in Words
    BY <1>1, SomeWords
  <2> HIDE DEF name
  <2>. QED
    BY <1>1, <2>1 DEF TokenOf, Token
<1>3. token.tag = "name" /\ token.of = name /\ token.parts = Len(args)
  BY DEF TokenOf
<1>4. Named(name) = {d}
  BY DEF Named, DistinctNames
<1>5. (CHOOSE c \in Named(name) : TRUE) = d
  BY <1>4
<1>6. Renaming[token] = <<DeclarationToken(d, Len(args))>>
  <2>1. Named(token.of) # {} /\ (CHOOSE c \in Named(token.of) : TRUE) = d
    BY <1>3, <1>4, <1>5
  <2> HIDE DEF token
  <2>. QED
    BY <1>2, <1>3, <2>1 DEF Renaming
<1>7. Images(Id("name", name, args), Renaming) = Renaming[token] \o Flatten(Each(args, Renaming))
  <2> HIDE DEF name
  <2>. QED
    BY <1>2, RenamingIs, IdImages
<1>8. DeclarationToken(d, Len(args)) = TokenOf(prog[d].kind, d, Each(args, Renaming))
  <2>1. Len(Each(args, Renaming)) = Len(args)
    BY <1>1 DEF Each
  <2>. QED
    BY <2>1 DEF DeclarationToken, TokenOf
<1> HIDE DEF token
<1>. QED
  BY <1>6, <1>7, <1>8, IdIs DEF IdOfName

-----------------------------------------------------------------------------
(* Names and IDs say the same *)

NamesFit(h, p) ==
  /\ DistinctNames /\ h[p].kind \in {"def", "ref"} => IdOfName(h[p].name) = BareId(h, p)
  /\ h[p].kind = "ref" /\ HasType(h, p) => BareId(h, h[p].subs[1]) = BareId(h, p)

NamedHeap(h) == \A p \in Pointers(h) : NamesFit(h, p)

\* The reference of an open call has the ID of the call's node and arguments.
NamedFrame(f, h) ==
  f.ref # 0 => BareId(h, f.ref) = Id(prog[f.node].kind, f.node, BareIds(h, f.ctx.args))

NamesInv ==
  /\ WordedHeap(heap)
  /\ NeverFree(heap) => NamedHeap(heap) /\ \A i \in 1..Len(frames) : NamedFrame(frames[i], heap)

LEMMA NamedSame ==
  ASSUME prog' = prog
  PROVE  /\ \A h : NamedHeap(h)' <=> NamedHeap(h)
         /\ \A f, h : NamedFrame(f, h)' <=> NamedFrame(f, h)
         /\ \A h : NeverFree(h)' <=> NeverFree(h)
<1>1. Renaming' = Renaming /\ (DistinctNames' <=> DistinctNames)
  BY WordsSame DEF Renaming, Named, DistinctNames, Declarations, Nodes, DeclarationToken
<1>2. \A h, p : NamesFit(h, p)' <=> NamesFit(h, p)
  BY <1>1 DEF NamesFit, IdOfName
<1>. QED
  BY <1>2 DEF NamedHeap, NamedFrame, NeverFree

\* The name of a type, whatever it is, fits its ID.
LEMMA TypeNamesFit ==
  ASSUME SoundHeap(heap), WordedHeap(heap), NamedHeap(heap), DistinctNames,
         NEW ps \in Seq(Pointers(heap))
  PROVE  Each(TypeNames(heap, ps), Renaming) = BareIds(heap, ps)
<1>1. ASSUME NEW i \in 1..Len(ps) PROVE IdOfName(TypeName(heap, ps[i])) = BareId(heap, ps[i])
  <2> DEFINE p == ps[i]
  <2>1. p \in Pointers(heap)
    OBVIOUS
  <2> HIDE DEF p
  <2> SUFFICES IdOfName(TypeName(heap, p)) = BareId(heap, p)
    BY DEF p
  <2>2. CASE heap[p].kind \in {"def", "ref"}
    BY <2>1, <2>2 DEF TypeName, NamedHeap, NamesFit
  <2>3. CASE heap[p].kind \notin {"def", "ref"}
    <3>1. TypeName(heap, p) = TypeId(heap, p) /\ TypeId(heap, p) \in Seq(PlainToken)
      BY <2>1, <2>3, TypeIdIsPlain DEF TypeName
    <3>. QED
      BY <3>1, PlainNames DEF BareId
  <2>. QED
    BY <2>2, <2>3
<1>2. /\ Len(TypeNames(heap, ps)) = Len(ps)
      /\ \A i \in 1..Len(ps) : TypeNames(heap, ps)[i] = TypeName(heap, ps[i])
  BY DEF TypeNames
<1>3. \A i \in 1..Len(ps) : Images(TypeNames(heap, ps)[i], Renaming) = BareId(heap, ps[i])
  BY <1>1, <1>2 DEF IdOfName
<1>. QED
  BY <1>2, <1>3 DEF Each, BareIds

LEMMA DeclarationFits ==
  ASSUME SoundHeap(heap), WordedHeap(heap), NEW n \in Nodes, IsCircular(n), NEW ctx,
         ctx.args \in Seq(Pointers(heap))
  PROVE  /\ StripDef(DeclarationId(n, ctx)) = Id(prog[n].kind, n, BareIds(heap, ctx.args))
         /\ IdOfName(DeclarationId(n, ctx)) = StripDef(DeclarationId(n, ctx))
         /\ n \in Declarations /\ DistinctNames /\ NamedHeap(heap) =>
              IdOfName(DeclarationName(n, ctx)) = Id(prog[n].kind, n, BareIds(heap, ctx.args))
<1>1. /\ TypeIds(heap, ctx.args) \in Seq(Seq(Token)) /\ TypeNames(heap, ctx.args) \in Seq(Seq(Token))
  BY ListsOfIds
<1>2. StripDef(DeclarationId(n, ctx)) = Id(prog[n].kind, n, BareIds(heap, ctx.args))
  <2> DEFINE ids == TypeIds(heap, ctx.args)
             kind == prog[n].kind
  <2>1. kind \in TypeTags \cup {"name"} /\ kind # "def" /\ n \in Words
    BY SomeWords DEF IsCircular
  <2>2. ids \in Seq(Seq(Token))
    BY <1>1
  <2>3. Bare(ids) = BareIds(heap, ctx.args)
    BY BareIdsAre
  <2>4. DeclarationId(n, ctx) = Id(kind, n, ids)
    BY DEF DeclarationId
  <2> HIDE DEF ids, kind
  <2>5. StripDef(Id(kind, n, ids)) = Id(kind, n, Bare(ids))
    BY <2>1, <2>2, StripParts
  <2>. QED
    BY <2>3, <2>4, <2>5 DEF kind
<1>3. IdOfName(DeclarationId(n, ctx)) = StripDef(DeclarationId(n, ctx))
  BY DeclarationWords, PlainNames, ReadableIsPlain
<1>4. ASSUME n \in Declarations, DistinctNames, NamedHeap(heap)
      PROVE  IdOfName(DeclarationName(n, ctx)) = Id(prog[n].kind, n, BareIds(heap, ctx.args))
  <2>1. Each(TypeNames(heap, ctx.args), Renaming) = BareIds(heap, ctx.args)
    BY <1>4, TypeNamesFit
  <2>2. IdOfName(Id("name", prog[n].name, TypeNames(heap, ctx.args)))
          = Id(prog[n].kind, n, Each(TypeNames(heap, ctx.args), Renaming))
    BY <1>1, <1>4, DeclarationNames
  <2>. QED
    BY <2>1, <2>2 DEF DeclarationName
<1>. QED
  BY <1>2, <1>3, <1>4

LEMMA NeverFreeBefore ==
  ASSUME NEW g, NEW h, Extends(g, h), TypedHeap(h), NeverFree(g)
  PROVE  NeverFree(h)
<1> SUFFICES ASSUME NEW p \in Pointers(h), h[p].kind \in {"def", "ref"}, HasType(h, p)
             PROVE  h[h[p].subs[1]].kind # "never"
  BY DEF NeverFree
<1>1. g[p] = h[p] /\ p \in Pointers(g) /\ Contains(g, h)
  BY ExtendsContains DEF Extends, Final
<1>2. h[p].subs[1] \in Pointers(h)
  BY DEF TypedHeap, HasType
<1>3. g[g[p].subs[1]].kind = h[h[p].subs[1]].kind
  BY <1>1, <1>2 DEF Contains
<1>. QED
  BY <1>1, <1>3 DEF NeverFree, HasType

LEMMA NamesKept ==
  ASSUME NEW g, NEW h, SameIds(g, h), TypedHeap(h), NEW p \in Pointers(h), g[p] = h[p], NamesFit(h, p)
  PROVE  NamesFit(g, p)
<1>1. BareId(g, p) = BareId(h, p)
  BY DEF SameIds
<1>2. HasType(h, p) => BareId(g, h[p].subs[1]) = BareId(h, h[p].subs[1])
  <2>1. HasType(h, p) => h[p].subs[1] \in Pointers(h)
    BY DEF TypedHeap, HasType
  <2>. QED
    BY <2>1 DEF SameIds
<1>. QED
  BY <1>1, <1>2 DEF NamesFit, HasType

LEMMA FrameKept ==
  ASSUME NEW g, NEW h, SameIds(g, h), NEW f, NEW e, SameCall(e, f), NamedFrame(f, h),
         f.ref # 0 => f.ref \in Pointers(h), f.ctx.args \in Seq(Pointers(h))
  PROVE  NamedFrame(e, g)
<1>1. BareIds(g, f.ctx.args) = BareIds(h, f.ctx.args)
  BY SameLists
<1>2. e.ref # 0 => BareId(g, e.ref) = BareId(h, f.ref)
  BY DEF SameIds, SameCall
<1>. QED
  BY <1>1, <1>2 DEF NamedFrame, SameCall

\* The types that a step has made.
LEMMA NewNames ==
  ASSUME Inv, Typed, WellFormed(prog), NamesInv, Next, WordedHeap(heap'), TypedHeap(heap'), HeapOK(heap'),
         NeverFree(heap'), SameIds(heap', heap), NamedHeap(heap),
         \A i \in 1..Len(frames) : NamedFrame(frames[i], heap)
  PROVE  NamedHeap(heap')
<1>0. SoundHeap(heap) /\ SoundHeap(heap') /\ WordedHeap(heap) /\ Len(heap) \in Nat
  BY HeapSize DEF SoundHeap, Inv, Typed, NamesInv
<1>1. CASE heap' = heap
  BY <1>1
<1>2. ASSUME NEW t, heap' = Append(heap, t), TypeOver(t, heap), WordedType(t), NamesFit(heap', Len(heap) + 1)
      PROVE  NamedHeap(heap')
  <2>1. Len(heap') = Len(heap) + 1 /\ \A p \in Pointers(heap) : heap'[p] = heap[p]
    BY <1>0, <1>2, IdentityGrown
  <2>2. ASSUME NEW p \in Pointers(heap') PROVE NamesFit(heap', p)
    <3>1. p \in Pointers(heap) \/ p = Len(heap) + 1
      BY <1>0, <2>1 DEF Pointers
    <3>2. p \in Pointers(heap) => NamesFit(heap, p) /\ TypedHeap(heap)
      BY <1>0 DEF NamedHeap, SoundHeap
    <3>. QED
      BY <1>2, <2>1, <3>1, <3>2, NamesKept
  <2>. QED
    BY <2>2 DEF NamedHeap
<1>3. ASSUME NEW t, Makes(t) PROVE NamedHeap(heap')
  <2>1. heap' = Append(heap, t) /\ TypeOver(t, heap) /\ WordedType(t) /\ t.kind \notin {"def", "ref"}
    BY <1>3 DEF Makes
  <2>2. heap'[Len(heap) + 1] = t
    BY <1>0, <2>1, IdentityGrown
  <2>3. NamesFit(heap', Len(heap) + 1)
    BY <2>1, <2>2 DEF NamesFit
  <2>. QED
    BY <1>2, <2>1, <2>3
<1>4. ASSUME NEW call, Opens(call) PROVE NamedHeap(heap')
  <2> DEFINE id == DeclarationId(call.node, call.ctx)
             name == ReferenceName(call)
             t == Reference(id, name)
             new == Len(heap) + 1
  <2>1. heap' = Append(heap, t) /\ TypeOver(t, heap) /\ WordedType(t)
    BY <1>0, <1>4, OpensIs
  <2>2. call.node \in Nodes /\ IsCircular(call.node) /\ call.ctx.args \in Seq(Pointers(heap))
    BY <1>4 DEF Opens, Asked, TypedContext
  <2>3. DistinctNames => IdOfName(name) = StripDef(id)
    <3>1. /\ StripDef(id) = Id(prog[call.node].kind, call.node, BareIds(heap, call.ctx.args))
          /\ IdOfName(id) = StripDef(id)
          /\ call.node \in Declarations /\ DistinctNames =>
               IdOfName(DeclarationName(call.node, call.ctx))
                 = Id(prog[call.node].kind, call.node, BareIds(heap, call.ctx.args))
      BY <1>0, <2>2, DeclarationFits
    <3>2. prog[call.node].kind = "alias" => call.node \in Declarations
      BY <2>2 DEF Declarations
    <3>. QED
      BY <3>1, <3>2 DEF ReferenceName
  <2>4. t.kind = "ref" /\ t.id = id /\ t.name = name /\ t.subs = <<>>
    BY DEF Reference, NewType
  <2> HIDE DEF id, name, t
  <2>5. heap'[new] = t /\ new \in Pointers(heap')
    <3>1. Len(heap') = Len(heap) + 1 /\ heap'[new] = t
      BY <1>0, <2>1, IdentityGrown
    <3>. QED
      BY <1>0, <3>1 DEF Pointers
  <2>6. BareId(heap', new) = StripDef(id)
    <3>1. heap'[new].kind \in Stored /\ heap'[new].id = id
      BY <2>4, <2>5 DEF Stored
    <3>. QED
      BY <1>0, <2>5, <3>1, BareIdFrom
  <2>7. NamesFit(heap', new)
    BY <2>3, <2>4, <2>5, <2>6 DEF NamesFit, HasType
  <2>. QED
    BY <1>2, <2>1, <2>7
<1>5. CASE FinishDeclaration
  <2>1. PICK h, inner, p :
          /\ Return(h, p) /\ p \in Pointers(h) /\ Declares(h, inner, p)
          /\ NeverFree(h) =>
                /\ inner = InnerType /\ BareId(h, p) = BareId(heap, Top.ref)
    BY <1>0, <1>5, Declared
  <2>2. h = heap'
    BY <2>1 DEF Return
  <2>3. /\ frames # <<>> /\ prog[Top.node].kind \in {"interface", "alias", "literal"}
        /\ TypedFrame(Top, heap) /\ NamedFrame(Top, heap)
    <3>1. frames # <<>> /\ prog[Top.node].kind \in {"interface", "alias", "literal"}
      BY <1>5 DEF FinishDeclaration, Finished
    <3>2. Top = frames[1] /\ 1 \in 1..Len(frames)
      BY <3>1, TailOfSequence DEF Inv, FramesInv, Top
    <3>. QED
      BY <3>1, <3>2, TopTyped
  <2>4. Top.ref # 0 /\ Top.ref \in Pointers(heap) /\ IsCircular(Top.node)
    BY <2>3, TopCall DEF IsCircular, UnsetIn
  <2>5. Top.node \in Nodes /\ Top.ctx.args \in Seq(Pointers(heap))
    BY <2>3 DEF TypedFrame, TypedContext
  <2>6. BareId(heap, Top.ref) = Id(prog[Top.node].kind, Top.node, BareIds(heap, Top.ctx.args))
    BY <2>3, <2>4 DEF NamedFrame
  <2>7. BareId(h, p) = BareId(heap, Top.ref) /\ BareId(h, Top.ref) = BareId(heap, Top.ref) /\ inner = InnerType
    BY <2>1, <2>2, <2>4 DEF SameIds
  <2>8. DistinctNames /\ prog[Top.node].exposed => IdOfName(h[p].name) = BareId(h, p)
    <3> SUFFICES ASSUME DistinctNames, prog[Top.node].exposed PROVE IdOfName(h[p].name) = BareId(h, p)
      OBVIOUS
    <3>1. h[p].name = DeclarationName(Top.node, Top.ctx)
      <4>1. h[p] = Definition(DeclarationName(Top.node, Top.ctx), Len(heap) + 1)
        BY <2>1 DEF Declares
      <4>. QED
        BY <4>1 DEF Definition, NewType
    <3>2. Top.node \in Declarations
      BY <2>5 DEF WellFormed, Declarations, Nodes
    <3>3. IdOfName(DeclarationName(Top.node, Top.ctx))
            = Id(prog[Top.node].kind, Top.node, BareIds(heap, Top.ctx.args))
      BY <1>0, <2>4, <2>5, <3>2, DeclarationFits
    <3>. QED
      BY <2>6, <2>7, <3>1, <3>3
  <2>9. ASSUME ~prog[Top.node].exposed PROVE IdOfName(TypeId(h, p)) = BareId(h, p)
    <3>1. TypeId(h, p) \in Seq(PlainToken)
      BY <1>0, <2>1, <2>2, TypeIdIsPlain
    <3>. QED
      BY <3>1, PlainNames DEF BareId
  <2>10. NamesFit(h, Top.ref)
    <3>1. h[Top.ref].kind = "ref" /\ h[Top.ref].subs = <<p>>
          /\ h[Top.ref].name = IF prog[Top.node].exposed THEN h[p].name ELSE TypeId(h, p)
      BY <2>1 DEF Declares
    <3>2. h[Top.ref].subs[1] = p
      BY <3>1
    <3>. QED
      BY <2>7, <2>8, <2>9, <3>1, <3>2 DEF NamesFit
  <2>11. NamesFit(h, Len(heap) + 1)
    <3>1. h[Len(heap) + 1] = InnerType
      BY <2>1, <2>7 DEF Declares
    <3>2. InnerType.kind \in {"alias", "object"}
      BY DEF InnerType, Alias, Object, NewType
    <3>. QED
      BY <3>1, <3>2 DEF NamesFit
  <2>12. NamesFit(h, p)
    <3>1. CASE prog[Top.node].exposed
      <4>1. h[p].kind = "def"
        BY <2>1, <3>1 DEF Declares, Definition, NewType
      <4>. QED
        BY <2>8, <3>1, <4>1 DEF NamesFit
    <3>2. CASE ~prog[Top.node].exposed
      BY <2>1, <2>11, <3>2 DEF Declares
    <3>. QED
      BY <3>1, <3>2
  <2>13. ASSUME NEW q \in Pointers(h) PROVE NamesFit(h, q)
    <3>1. q \in Pointers(heap) \/ q = Len(heap) + 1 \/ q = p
      BY <1>0, <2>1 DEF Declares, Pointers
    <3>2. CASE q \in Pointers(heap) /\ q # Top.ref
      <4>1. h[q] = heap[q]
        BY <2>1, <3>2 DEF Declares
      <4>2. NamesFit(heap, q) /\ TypedHeap(heap) /\ SameIds(h, heap)
        BY <1>0, <2>2, <3>2 DEF NamedHeap, SoundHeap
      <4>. QED
        BY <3>2, <4>1, <4>2, NamesKept
    <3>. QED
      BY <2>10, <2>11, <2>12, <3>1, <3>2
  <2>. QED
    BY <2>2, <2>13 DEF NamedHeap
<1>. QED
  BY <1>0, <1>1, <1>3, <1>4, <1>5, HeapStep

LEMMA NamedCalls ==
  ASSUME Inv, Typed, WellFormed(prog), NamesInv, Next, WordedHeap(heap'), TypedHeap(heap'), HeapOK(heap'),
         SameIds(heap', heap), \A i \in 1..Len(frames) : NamedFrame(frames[i], heap),
         NEW i \in 1..Len(frames')
  PROVE  NamedFrame(frames'[i], heap')
<1>0. SoundHeap(heap) /\ SoundHeap(heap') /\ WordedHeap(heap) /\ Len(heap) \in Nat
  BY HeapSize DEF SoundHeap, Inv, Typed, NamesInv
<1>1. ASSUME NEW j \in 1..Len(frames), SameCall(frames'[i], frames[j]) PROVE NamedFrame(frames'[i], heap')
  <2>1. frames[j].ctx.args \in Seq(Pointers(heap)) /\ NamedFrame(frames[j], heap)
    BY DEF Typed, TypedFrame, TypedContext
  <2>2. frames[j].ref # 0 => frames[j].ref \in Pointers(heap)
    BY DEF Inv, FramesInv, UnsetIn
  <2>. QED
    BY <1>1, <2>1, <2>2, FrameKept
<1>2. ASSUME NEW call, Asked(call), Enter(call, frames), JustOpened(frames'[i], call)
      PROVE  NamedFrame(frames'[i], heap')
  <2>1. CASE ~IsCircular(call.node)
    BY <1>2, <2>1 DEF JustOpened, NamedFrame
  <2>2. CASE IsCircular(call.node)
    <3> DEFINE id == DeclarationId(call.node, call.ctx)
               t == Reference(id, ReferenceName(call))
               new == Len(heap) + 1
    <3>1. heap' = Append(heap, t) /\ TypeOver(t, heap) /\ WordedType(t)
      BY <1>0, <1>2, <2>2, OpensIs DEF Opens
    <3>2. call.node \in Nodes /\ call.ctx.args \in Seq(Pointers(heap))
      BY <1>2 DEF Asked, TypedContext
    <3>3. StripDef(id) = Id(prog[call.node].kind, call.node, BareIds(heap, call.ctx.args))
      BY <1>0, <2>2, <3>2, DeclarationFits
    <3>4. t.kind \in Stored /\ t.id = id
      BY DEF Reference, NewType, Stored
    <3> HIDE DEF id, t
    <3>5. heap'[new] = t /\ new \in Pointers(heap')
      <4>1. Len(heap') = Len(heap) + 1 /\ heap'[new] = t
        BY <1>0, <3>1, IdentityGrown
      <4>. QED
        BY <1>0, <4>1 DEF Pointers
    <3>6. BareId(heap', new) = StripDef(id)
      <4>1. heap'[new].kind \in Stored /\ heap'[new].id = id
        BY <3>4, <3>5
      <4>. QED
        BY <1>0, <3>5, <4>1, BareIdFrom
    <3>7. BareIds(heap', call.ctx.args) = BareIds(heap, call.ctx.args)
      BY <3>2, SameLists
    <3>8. frames'[i].ref = new /\ frames'[i].node = call.node /\ frames'[i].ctx.args = call.ctx.args
      BY <1>2, <2>2 DEF JustOpened
    <3>. QED
      BY <3>3, <3>6, <3>7, <3>8 DEF NamedFrame
  <2>. QED
    BY <2>1, <2>2
<1>. QED
  BY <1>1, <1>2, OldCalls

LEMMA NamesStep ==
  ASSUME Inv, Typed, NamesInv, [Next]_vars
  PROVE  NamesInv'
<1>0. WellFormed(prog) /\ prog' = prog /\ WordedHeap(heap)
  BY ProgramStays, ProgramsAssumption DEF Typed, NamesInv
<1>1. CASE UNCHANGED vars
  <2>1. heap' = heap /\ frames' = frames
    BY <1>1 DEF vars
  <2>. QED
    BY <1>0, <2>1, NamedSame, WordsSame DEF NamesInv
<1>2. CASE Next
  <2>1. WordedHeap(heap') /\ (NeverFree(heap') => SameIds(heap', heap))
    <3>1. WordedHeap(heap)' /\ (NothingIsNever' => SameIds(heap', heap))
      BY <1>0, WordsStep
    <3>2. NothingIsNever' <=> NeverFree(heap')
      BY DEF NothingIsNever, NeverFree
    <3>. QED
      BY <1>0, <3>1, <3>2, WordsSame
  <2>2. HeapOK(heap') /\ TypedHeap(heap')
    <3>1. Inv' /\ Typed'
      BY <1>2, InvStep, TypedStep
    <3>. QED
      BY <3>1 DEF Inv, Typed, HeapOK, TypedHeap, IsType, NamesAgree, Pointers, HasType, IsSequence
  <2>3. ASSUME NeverFree(heap')
        PROVE  NamedHeap(heap') /\ \A i \in 1..Len(frames') : NamedFrame(frames'[i], heap')
    <3>1. NeverFree(heap)
      BY <1>2, <2>3, StepExtends, NeverFreeBefore DEF Typed
    <3>2. NamedHeap(heap) /\ \A i \in 1..Len(frames) : NamedFrame(frames[i], heap)
      BY <3>1 DEF NamesInv
    <3>3. NamedHeap(heap')
      BY <1>0, <1>2, <2>1, <2>2, <2>3, <3>2, NewNames
    <3>4. ASSUME NEW i \in 1..Len(frames') PROVE NamedFrame(frames'[i], heap')
      BY <1>0, <1>2, <2>1, <2>2, <2>3, <3>2, NamedCalls
    <3>. QED
      BY <3>3, <3>4
  <2>. QED
    BY <1>0, <2>1, <2>3, NamedSame, WordsSame DEF NamesInv
<1>. QED
  BY <1>1, <1>2

LEMMA NamesInit == Init => NamesInv
<1>1. Init => Pointers(heap) = {} /\ 1..Len(frames) = {}
  BY DEF Init, Pointers
<1>. QED
  BY <1>1, WordsInit DEF NamesInv, NamedHeap

LEMMA NamesAreInductive == Spec => [](Inv /\ Typed /\ NamesInv)
<1>1. Init => Inv /\ Typed /\ NamesInv
  BY InvInit, TypedInit, NamesInit
<1>2. (Inv /\ Typed /\ NamesInv) /\ [Next]_vars => (Inv /\ Typed /\ NamesInv)'
  BY InvStep, TypedStep, NamesStep
<1>. QED
  BY <1>1, <1>2, PTL DEF Spec

-----------------------------------------------------------------------------
(* The ID of what a node stands for *)

ArgumentAt(program, m, args) ==
  LET params == program[program[m].owner].params
      named == {i \in 1..Len(params) : params[i] = program[m].name}
      first == {i \in named : \A j \in named : i <= j}
  IN IF first \cap (1..Len(args)) = {} THEN Id("unknown", "", <<>>)
     ELSE args[CHOOSE i \in first : TRUE]

\* The recursive function of NodeId, its equation apart.
NodeIdBody(program, args, m, id) ==
  LET kids == [i \in 1..Len(program[m].kids) |-> id[program[m].kids[i]]]
  IN CASE program[m].kind = "prim" -> Id("prim", program[m].name, <<>>)
       [] program[m].kind = "never" -> Id("never", "", <<>>)
       [] program[m].kind = "tuple" -> Id("tuple", "", kids)
       [] program[m].kind = "param" -> ArgumentAt(program, m, args)
       [] program[m].kind = "ref" -> Id(program[program[m].target].kind, program[m].target, kids)
       [] OTHER -> Id(program[m].kind, m, args)

NodeIds(program, args) ==
  CHOOSE id : id = [m \in DOMAIN program |-> NodeIdBody(program, args, m, id)]

LEMMA NodeIdIs == \A n, args : NodeId(n, args) = NodeIds(prog, args)[n]
BY DEF NodeId, NodeIds, NodeIdBody, ArgumentAt, Nodes

LEMMA NodeIdStays == ASSUME prog' = prog PROVE \A n, args : NodeId(n, args)' = NodeId(n, args)
<1>1. \A n, args : NodeId(n, args)' = NodeIds(prog', args)[n]
  BY DEF NodeId, NodeIds, NodeIdBody, ArgumentAt, Nodes
<1>. QED
  BY <1>1, NodeIdIs

Body(args, m, f) == NodeIdBody(prog, args, m, f)

\* The nodes of small syntax trees, and f the IDs of these.
Low(k) == {n \in Nodes : prog[n].height < k}

AreIds(args, k, f) == f = [m \in Low(k) |-> Body(args, m, f)]

\* What the body says of a node hangs on the parts of the node only.
LEMMA BodyOfParts ==
  ASSUME NEW args, NEW m \in Nodes, NEW f, NEW g,
         \A i \in 1..Len(prog[m].kids) : f[prog[m].kids[i]] = g[prog[m].kids[i]]
  PROVE  Body(args, m, f) = Body(args, m, g)
<1>1. [i \in 1..Len(prog[m].kids) |-> f[prog[m].kids[i]]] = [i \in 1..Len(prog[m].kids) |-> g[prog[m].kids[i]]]
  OBVIOUS
<1>. QED
  BY <1>1 DEF Body, NodeIdBody

LEMMA Parts ==
  ASSUME WellFormed(prog), NEW m \in Nodes
  PROVE  /\ prog[m].kids \in Seq(Nodes) /\ Len(prog[m].kids) \in Nat
         /\ prog[m].height \in Nat
         /\ \A i \in 1..Len(prog[m].kids) :
              /\ prog[m].kids[i] \in Nodes /\ prog[prog[m].kids[i]].height \in Nat
              /\ prog[prog[m].kids[i]].height < prog[m].height
              /\ prog[prog[m].kids[i]].owner = prog[m].owner
              /\ prog[prog[m].kids[i]].kind \notin {"interface", "alias"}
<1>1. prog[m].kids \in Seq(Nodes) /\ prog[m].height \in Nat
  BY DEF WellFormed, Nodes
<1>2. Len(prog[m].kids) \in Nat
  BY <1>1
<1>3. ASSUME NEW i \in 1..Len(prog[m].kids)
      PROVE  /\ prog[m].kids[i] \in Nodes
             /\ prog[prog[m].kids[i]].height < prog[m].height
             /\ prog[prog[m].kids[i]].owner = prog[m].owner
             /\ prog[prog[m].kids[i]].kind \notin {"interface", "alias"}
  <2>1. prog[m].kids[i] \in Nodes
    BY <1>1
  <2>. QED
    BY <2>1 DEF WellFormed, Nodes
<1>4. \A n \in Nodes : prog[n].height \in Nat
  BY DEF WellFormed, Nodes
<1>. QED
  BY <1>1, <1>2, <1>3, <1>4

LEMMA PartsAreLow ==
  ASSUME WellFormed(prog), NEW m \in Nodes, NEW i \in 1..Len(prog[m].kids)
  PROVE  \A k \in Nat : m \in Low(k) => prog[m].kids[i] \in Low(k) /\ prog[m].kids[i] \in Low(prog[m].height)
BY Parts DEF Low

\* There is one function only, and what it says of a node hangs on its syntax.
LEMMA IdsAgree ==
  ASSUME WellFormed(prog), NEW args, NEW k \in Nat, NEW l \in Nat,
         NEW f, NEW g, AreIds(args, k, f), AreIds(args, l, g), NEW m \in Low(k) \cap Low(l)
  PROVE  f[m] = g[m]
<1> DEFINE Bad == {n \in Low(k) \cap Low(l) : f[n] # g[n]}
           Heights == {prog[n].height : n \in Bad}
<1> SUFFICES ASSUME Bad # {} PROVE FALSE
  OBVIOUS
<1>1. \A n \in Nodes : prog[n].height \in Nat
  BY Parts
<1>2. Heights \in SUBSET Nat /\ Heights # {}
  BY <1>1 DEF Low
<1> HIDE DEF Heights
<1>3. PICK h \in Heights : \A j \in Heights : h <= j
  BY <1>2, Least
<1>4. PICK n \in Bad : prog[n].height = h
  BY <1>3 DEF Heights
<1>5. n \in Nodes /\ n \in Low(k) /\ n \in Low(l) /\ f[n] # g[n]
  BY <1>4 DEF Low
<1>6. f[n] = Body(args, n, f) /\ g[n] = Body(args, n, g)
  BY <1>5 DEF AreIds
<1>7. ASSUME NEW i \in 1..Len(prog[n].kids) PROVE f[prog[n].kids[i]] = g[prog[n].kids[i]]
  <2> DEFINE kid == prog[n].kids[i]
  <2>1. kid \in Low(k) /\ kid \in Low(l) /\ prog[kid].height < h /\ prog[kid].height \in Nat /\ h \in Nat
    <3>1. prog[kid].height < h /\ prog[kid].height \in Nat /\ h \in Nat
      BY <1>4, <1>5, Parts
    <3>. QED
      BY <1>5, <3>1, PartsAreLow
  <2> HIDE DEF kid
  <2>2. kid \notin Bad
    <3>1. SUFFICES ASSUME kid \in Bad PROVE FALSE
      OBVIOUS
    <3>2. prog[kid].height \in Heights
      BY <3>1 DEF Heights
    <3>3. h <= prog[kid].height
      BY <1>3, <3>2
    <3>. QED
      BY <2>1, <3>3
  <2>3. f[kid] = g[kid]
    BY <2>1, <2>2
  <2>. QED
    BY <2>3 DEF kid
<1>. QED
  BY <1>5, <1>6, <1>7, BodyOfParts

LEMMA LowIdsExist ==
  ASSUME WellFormed(prog), NEW args, NEW k \in Nat
  PROVE  \E f : AreIds(args, k, f)
<1> DEFINE Bad == {j \in Nat : ~ \E f : AreIds(args, j, f)}
<1> SUFFICES ASSUME Bad # {} PROVE FALSE
  OBVIOUS
<1>1. PICK j \in Bad : \A i \in Bad : j <= i
  BY Least
<1>2. j \in Nat /\ ~ \E f : AreIds(args, j, f)
  OBVIOUS
<1> HIDE DEF Bad
<1>3. j # 0
  <2>1. Low(0) = {}
    BY Parts DEF Low
  <2>2. \A m \in Low(0) : FALSE
    BY <2>1
  <2> DEFINE e == [m \in {} |-> {}]
  <2>3. e = [m \in {} |-> Body(args, m, e)]
    OBVIOUS
  <2> HIDE DEF e
  <2>4. AreIds(args, 0, e)
    BY <2>1, <2>3 DEF AreIds
  <2>. QED
    BY <1>2, <2>4
<1>4. j - 1 \in Nat /\ j - 1 < j
  BY <1>2, <1>3
<1>5. PICK f : AreIds(args, j - 1, f)
  BY <1>1, <1>4 DEF Bad
<1> DEFINE g == [m \in Low(j) |-> Body(args, m, f)]
<1>6. ASSUME NEW m \in Low(j) PROVE g[m] = Body(args, m, g)
  <2>1. m \in Nodes /\ prog[m].height < j
    BY DEF Low
  <2>2. ASSUME NEW i \in 1..Len(prog[m].kids) PROVE f[prog[m].kids[i]] = g[prog[m].kids[i]]
    <3> DEFINE kid == prog[m].kids[i]
    <3>1. kid \in Nodes /\ prog[kid].height < prog[m].height /\ prog[kid].height \in Nat /\ prog[m].height \in Nat
      BY <2>1, Parts
    <3> HIDE DEF kid
    <3>2. kid \in Low(j) /\ kid \in Low(j - 1)
      BY <1>2, <2>1, <3>1 DEF Low
    <3>3. f[kid] = Body(args, kid, f)
      BY <1>5, <3>2 DEF AreIds
    <3>4. g[kid] = Body(args, kid, f)
      BY <3>2
    <3>. QED
      BY <3>3, <3>4 DEF kid
  <2>3. Body(args, m, f) = Body(args, m, g)
    <3> HIDE DEF g
    <3>. QED
      BY <2>1, <2>2, BodyOfParts
  <2>. QED
    BY <2>3
<1>7. g = [m \in Low(j) |-> g[m]]
  OBVIOUS
<1> HIDE DEF g
<1>8. AreIds(args, j, g)
  BY <1>6, <1>7 DEF AreIds
<1>. QED
  BY <1>2, <1>8

LEMMA NodeIdsExist ==
  ASSUME WellFormed(prog), NEW args
  PROVE  NodeIds(prog, args) = [m \in Nodes |-> Body(args, m, NodeIds(prog, args))]
<1> DEFINE some(k) == CHOOSE f : AreIds(args, k, f)
           up(m) == prog[m].height + 1
           id == [m \in Nodes |-> some(up(m))[m]]
<1>1. ASSUME NEW k \in Nat PROVE AreIds(args, k, some(k))
  BY LowIdsExist
<1> HIDE DEF some
<1>2. ASSUME NEW m \in Nodes PROVE id[m] = Body(args, m, id)
  <2>1. up(m) \in Nat /\ m \in Low(up(m)) /\ prog[m].height \in Nat
    BY Parts DEF Low
  <2>2. some(up(m))[m] = Body(args, m, some(up(m)))
    <3>1. AreIds(args, up(m), some(up(m)))
      BY <1>1, <2>1
    <3> HIDE DEF up
    <3>. QED
      BY <2>1, <3>1 DEF AreIds
  <2>3. ASSUME NEW i \in 1..Len(prog[m].kids) PROVE some(up(m))[prog[m].kids[i]] = id[prog[m].kids[i]]
    <3> DEFINE kid == prog[m].kids[i]
    <3>1. kid \in Nodes /\ kid \in Low(up(m))
      BY <2>1, Parts, PartsAreLow
    <3> HIDE DEF kid
    <3>2. up(kid) \in Nat /\ kid \in Low(up(kid))
      BY <3>1, Parts DEF Low
    <3>3. AreIds(args, up(m), some(up(m))) /\ AreIds(args, up(kid), some(up(kid)))
      BY <1>1, <2>1, <3>2
    <3>4. some(up(m))[kid] = some(up(kid))[kid]
      <4> HIDE DEF up
      <4>. QED
        BY <2>1, <3>1, <3>2, <3>3, IdsAgree
    <3>. QED
      BY <3>1, <3>4 DEF kid
  <2>4. Body(args, m, some(up(m))) = Body(args, m, id)
    <3> DEFINE f == some(up(m))
    <3>1. \A i \in 1..Len(prog[m].kids) : f[prog[m].kids[i]] = id[prog[m].kids[i]]
      BY <2>3
    <3> HIDE DEF f, id
    <3>2. Body(args, m, f) = Body(args, m, id)
      BY <3>1, BodyOfParts
    <3>. QED
      BY <3>2 DEF f
  <2>. QED
    BY <2>2, <2>4
<1>3. id = [m \in Nodes |-> id[m]]
  OBVIOUS
<1> HIDE DEF id
<1>4. id = [m \in Nodes |-> Body(args, m, id)]
  BY <1>2, <1>3
<1>5. id = [m \in DOMAIN prog |-> NodeIdBody(prog, args, m, id)]
  BY <1>4 DEF Nodes, Body
<1>6. NodeIds(prog, args) = [m \in DOMAIN prog |-> NodeIdBody(prog, args, m, NodeIds(prog, args))]
  BY <1>5 DEF NodeIds
<1>. QED
  BY <1>6 DEF Nodes, Body

KidIds(n, args) == [i \in 1..Len(prog[n].kids) |-> NodeId(prog[n].kids[i], args)]

\* NodeId, kind by kind.
LEMMA NodeIdFrom ==
  ASSUME WellFormed(prog), NEW n \in Nodes, NEW args
  PROVE  /\ prog[n].kind = "prim" => NodeId(n, args) = Id("prim", prog[n].name, <<>>)
         /\ prog[n].kind = "never" => NodeId(n, args) = Id("never", "", <<>>)
         /\ prog[n].kind = "tuple" => NodeId(n, args) = Id("tuple", "", KidIds(n, args))
         /\ prog[n].kind = "param" => NodeId(n, args) = ArgumentAt(prog, n, args)
         /\ prog[n].kind = "ref" =>
              NodeId(n, args) = Id(prog[prog[n].target].kind, prog[n].target, KidIds(n, args))
         /\ IsCircular(n) => NodeId(n, args) = Id(prog[n].kind, n, args)
<1>1. NodeId(n, args) = Body(args, n, NodeIds(prog, args))
  BY NodeIdsExist, NodeIdIs
<1>2. [i \in 1..Len(prog[n].kids) |-> NodeIds(prog, args)[prog[n].kids[i]]] = KidIds(n, args)
  BY NodeIdIs DEF KidIds
<1>3. NodeId(n, args)
        = CASE prog[n].kind = "prim" -> Id("prim", prog[n].name, <<>>)
            [] prog[n].kind = "never" -> Id("never", "", <<>>)
            [] prog[n].kind = "tuple" -> Id("tuple", "", KidIds(n, args))
            [] prog[n].kind = "param" -> ArgumentAt(prog, n, args)
            [] prog[n].kind = "ref" -> Id(prog[prog[n].target].kind, prog[n].target, KidIds(n, args))
            [] OTHER -> Id(prog[n].kind, n, args)
  BY <1>1, <1>2 DEF Body, NodeIdBody
<1>. QED
  BY <1>3 DEF IsCircular

-----------------------------------------------------------------------------
(* Types follow the source *)

KeyFits(ctx, h) == Bare(ctx.key.args) = BareIds(h, ctx.args)

\* What a call has got so far is what it asked for.
Filled(f, h) ==
  LET kids == prog[f.node].kids
      ids == BareIds(h, f.ctx.args)
  IN /\ Len(f.vals) <= Len(kids) + (IF prog[f.node].kind = "ref" THEN 1 ELSE 0)
     /\ \A j \in 1..Len(f.vals) : j <= Len(kids) => BareId(h, f.vals[j]) = NodeId(kids[j], ids)
     /\ Len(f.vals) = Len(kids) + 1 => BareId(h, f.vals[Len(f.vals)]) = NodeId(f.node, ids)

SourceFrame(f, h) ==
  /\ KeyFits(f.ctx, h)
  /\ f.ref # 0 => f.key.node = f.node /\ Bare(f.key.args) = BareIds(h, f.ctx.args)
  /\ f.ctx.params = prog[prog[f.node].owner].params
  /\ Filled(f, h)

\* A call asks for that node with these arguments.
Wants(f, node, args) ==
  LET n == prog[f.node]
  IN \/ Len(f.vals) < Len(n.kids) /\ node = n.kids[Len(f.vals) + 1] /\ args = f.ctx.args
     \/ n.kind = "ref" /\ Len(f.vals) = Len(n.kids) /\ node = n.target /\ args = f.vals

\* Each open call was made by the one around it.
Chained(fs) == \A i \in 1..Len(fs) - 1 : Wants(fs[i + 1], fs[i].node, fs[i].ctx.args)

SourceCache(cache, h) ==
  \A k \in DOMAIN cache : BareId(h, cache[k]) = NodeId(k.node, Bare(k.ctx.args))

\* The type is that of a declaration or of a literal with certain arguments.
Follows(h, p) ==
  \E n \in Nodes, args \in Seq(Pointers(h)) :
    /\ IsCircular(n) /\ (h[p].kind = "alias" <=> prog[n].kind = "alias")
    /\ BareId(h, p) = Id(prog[n].kind, n, BareIds(h, args))
    /\ Len(h[p].subs) = Len(prog[n].kids)
    /\ \A i \in 1..Len(h[p].subs) : BareId(h, h[p].subs[i]) = NodeId(prog[n].kids[i], BareIds(h, args))

\* Definitions and references are of declarations.
Stands(h, p) ==
  /\ h[p].kind = "def" => h[h[p].subs[1]].kind \in {"object", "alias"}
  /\ h[p].kind = "ref" /\ HasType(h, p) => h[h[p].subs[1]].kind \in {"def", "object", "alias"}

SourceHeap(h) ==
  \A p \in Pointers(h) : Stands(h, p) /\ (h[p].kind \in {"object", "alias"} => Follows(h, p))

SourceFrames(fs, h) == Chained(fs) /\ \A i \in 1..Len(fs) : SourceFrame(fs[i], h)

SourceInv ==
  IndexFree /\ NeverFree(heap) =>
    SourceFrames(frames, heap) /\ SourceCache(typeCaches, heap) /\ SourceHeap(heap)

LEMMA SourceSame ==
  ASSUME prog' = prog
  PROVE  /\ \A fs, h : SourceFrames(fs, h)' <=> SourceFrames(fs, h)
         /\ \A cache, h : SourceCache(cache, h)' <=> SourceCache(cache, h)
         /\ \A h : SourceHeap(h)' <=> SourceHeap(h)
         /\ IndexFree' <=> IndexFree
<1>1. \A n, args : NodeId(n, args)' = NodeId(n, args)
  BY NodeIdStays
<1>2. \A f, h : Filled(f, h)' <=> Filled(f, h)
  BY <1>1 DEF Filled
<1>3. \A f, h : SourceFrame(f, h)' <=> SourceFrame(f, h)
  BY <1>2 DEF SourceFrame, KeyFits
<1>4. \A fs : Chained(fs)' <=> Chained(fs)
  BY DEF Chained, Wants
<1>5. \A cache, h : SourceCache(cache, h)' <=> SourceCache(cache, h)
  BY <1>1 DEF SourceCache
<1>6. \A h, p : Follows(h, p)' <=> Follows(h, p)
  BY <1>1 DEF Follows, Nodes, IsCircular
<1>7. \A h, p : Stands(h, p)' <=> Stands(h, p)
  BY DEF Stands
<1>. QED
  BY <1>3, <1>4, <1>5, <1>6, <1>7 DEF SourceFrames, SourceHeap, IndexFree, Nodes

LEMMA FollowsIsFollows ==
  ASSUME SoundHeap(heap), NEW p \in Pointers(heap), Follows(heap, p)
  PROVE  FollowsTheSource(p)
<1>1. PICK n \in Nodes, args \in Seq(Pointers(heap)) :
        /\ BareId(heap, p) = Id(prog[n].kind, n, BareIds(heap, args))
        /\ Len(heap[p].subs) = Len(prog[n].kids)
        /\ \A i \in 1..Len(heap[p].subs) :
             BareId(heap, heap[p].subs[i]) = NodeId(prog[n].kids[i], BareIds(heap, args))
  BY DEF Follows
<1> DEFINE token == TokenOf(prog[n].kind, n, BareIds(heap, args))
           rest == Flatten(BareIds(heap, args))
<1>2. BareId(heap, p) = <<token>> \o rest
  BY <1>1, IdIs
<1>3. token.of = n /\ token.parts = Len(BareIds(heap, args))
  BY DEF TokenOf
<1>4. Len(BareIds(heap, args)) = Len(args)
  BY DEF BareIds
<1> HIDE DEF token
<1>5. Head(BareId(heap, p)) = token
  BY <1>2
<1>6. args \in [1..Len(args) -> Pointers(heap)]
  OBVIOUS
<1>. QED
  BY <1>1, <1>3, <1>4, <1>5, <1>6 DEF FollowsTheSource

\* All this survives a step that leaves the IDs as they are.
LEMMA SourceKept ==
  ASSUME NEW g, NEW h, SameIds(g, h), SoundHeap(h)
  PROVE  /\ \A f : TypedFrame(f, h) /\ SourceFrame(f, h) => SourceFrame(f, g)
         /\ \A cache : TypedCache(cache, h) /\ SourceCache(cache, h) => SourceCache(cache, g)
         /\ \A p \in Pointers(h) : Follows(h, p) /\ g[p] = h[p] => Follows(g, p)
         /\ \A p \in Pointers(h) : Stands(h, p) /\ g[p] = h[p] => Stands(g, p)
<1>1. ASSUME NEW f, TypedFrame(f, h), SourceFrame(f, h) PROVE SourceFrame(f, g)
  <2>1. f.ctx.args \in Seq(Pointers(h)) /\ f.vals \in Seq(Pointers(h))
    BY <1>1 DEF TypedFrame, TypedContext
  <2>2. BareIds(g, f.ctx.args) = BareIds(h, f.ctx.args)
    BY <2>1, SameLists
  <2>3. \A j \in 1..Len(f.vals) : BareId(g, f.vals[j]) = BareId(h, f.vals[j])
    BY <2>1 DEF SameIds
  <2>4. Len(f.vals) \in Nat
    BY <2>1
  <2>5. Filled(f, g)
    <3> DEFINE kids == prog[f.node].kids
               ids == BareIds(h, f.ctx.args)
    <3>1. /\ Len(f.vals) <= Len(kids) + (IF prog[f.node].kind = "ref" THEN 1 ELSE 0)
          /\ \A j \in 1..Len(f.vals) : j <= Len(kids) => BareId(h, f.vals[j]) = NodeId(kids[j], ids)
          /\ Len(f.vals) = Len(kids) + 1 => BareId(h, f.vals[Len(f.vals)]) = NodeId(f.node, ids)
      BY <1>1 DEF SourceFrame, Filled
    <3>2. \A j \in 1..Len(f.vals) : j <= Len(kids) => BareId(g, f.vals[j]) = NodeId(kids[j], ids)
      BY <2>3, <3>1
    <3>3. Len(f.vals) = Len(kids) + 1 => BareId(g, f.vals[Len(f.vals)]) = NodeId(f.node, ids)
      <4>1. CASE Len(f.vals) = 0
        <5>1. f.vals = <<>>
          BY <2>1, <4>1
        <5>2. Len(prog[f.node].kids) + 1 # 0
          BY <1>1, LenProperties DEF TypedFrame
        <5>. QED
          BY <4>1, <5>2
      <4>2. CASE Len(f.vals) # 0
        <5>1. Len(f.vals) \in 1..Len(f.vals)
          BY <2>4, <4>2
        <5>. QED
          BY <2>3, <3>1, <5>1
      <4>. QED
        BY <4>1, <4>2
    <3>. QED
      BY <2>2, <3>1, <3>2, <3>3 DEF Filled
  <2>. QED
    BY <1>1, <2>2, <2>5 DEF SourceFrame, KeyFits
<1>2. ASSUME NEW cache, TypedCache(cache, h), SourceCache(cache, h) PROVE SourceCache(cache, g)
  BY <1>2 DEF TypedCache, SourceCache, SameIds
<1>3. ASSUME NEW p \in Pointers(h), Follows(h, p), g[p] = h[p] PROVE Follows(g, p)
  <2>1. PICK n \in Nodes, args \in Seq(Pointers(h)) :
          /\ IsCircular(n) /\ (h[p].kind = "alias" <=> prog[n].kind = "alias")
          /\ BareId(h, p) = Id(prog[n].kind, n, BareIds(h, args))
          /\ Len(h[p].subs) = Len(prog[n].kids)
          /\ \A i \in 1..Len(h[p].subs) : BareId(h, h[p].subs[i]) = NodeId(prog[n].kids[i], BareIds(h, args))
    BY <1>3 DEF Follows
  <2>2. BareIds(g, args) = BareIds(h, args)
    BY SameLists
  <2>3. BareId(g, p) = BareId(h, p)
    BY DEF SameIds
  <2>4. args \in Seq(Pointers(g))
    <3>1. Pointers(h) \subseteq Pointers(g)
      BY DEF SameIds, Contains
    <3>. QED
      BY <3>1, WiderSequences
  <2>5. \A i \in 1..Len(h[p].subs) : BareId(g, h[p].subs[i]) = BareId(h, h[p].subs[i])
    <3>1. h[p].subs \in Seq(Pointers(h))
      BY DEF SoundHeap, TypedHeap
    <3>2. \A i \in 1..Len(h[p].subs) : h[p].subs[i] \in Pointers(h)
      BY <3>1
    <3>. QED
      BY <3>2 DEF SameIds
  <2>. QED
    BY <1>3, <2>1, <2>2, <2>3, <2>4, <2>5 DEF Follows
<1>4. ASSUME NEW p \in Pointers(h), Stands(h, p), g[p] = h[p] PROVE Stands(g, p)
  <2>1. h[p].kind = "def" \/ HasType(h, p) => h[p].subs[1] \in Pointers(h)
    BY DEF SoundHeap, TypedHeap, HasType
  <2>2. h[p].kind = "def" \/ HasType(h, p) => g[h[p].subs[1]].kind = h[h[p].subs[1]].kind
    BY <2>1 DEF SameIds, Contains
  <2>. QED
    BY <1>4, <2>2 DEF Stands, HasType
<1>. QED
  BY <1>1, <1>2, <1>3, <1>4

-----------------------------------------------------------------------------
(* What a step of the parser leaves of all this *)

\* A call is made for the next part of the node that the innermost call is about.
LEMMA AskedOf ==
  ASSUME Inv, Typed, WellFormed(prog), IndexFree, NEW call, Asked(call),
         frames # <<>> => SourceFrame(Top, heap)
  PROVE  /\ frames # <<>> => Wants(Top, call.node, call.ctx.args)
         /\ KeyFits(call.ctx, heap)
         /\ prog[call.node].kind \in {"interface", "alias"} \/ call.ctx.params = prog[prog[call.node].owner].params
<1>1. \A ref, args : LET ctx == Context(ref, args, heap) IN ctx.args = args /\ KeyFits(ctx, heap)
  <2> SUFFICES ASSUME NEW ref, NEW args
               PROVE  LET ctx == Context(ref, args, heap) IN ctx.args = args /\ KeyFits(ctx, heap)
    OBVIOUS
  <2> DEFINE ctx == Context(ref, args, heap)
  <2>1. ctx.args = args /\ ctx.key.args = TypeIds(heap, args)
    BY DEF Context
  <2>2. Bare(TypeIds(heap, args)) = BareIds(heap, args)
    BY BareIdsAre
  <2> HIDE DEF ctx
  <2>3. KeyFits(ctx, heap)
    BY <2>1, <2>2 DEF KeyFits
  <2>. QED
    BY <2>1, <2>3 DEF ctx
<1>2. CASE frames = <<>>
  <2>1. call.node \in Roots /\ call.ctx = RootContext
    BY <1>2 DEF Asked
  <2>. QED
    BY <1>1, <1>2, <2>1 DEF RootContext, Roots, Declarations
<1>3. CASE frames # <<>>
  <2>1. call \in NextCall(Top) /\ SourceFrame(Top, heap) /\ call.node \in Nodes
    BY <1>3 DEF Asked
  <2>2. TypedFrame(Top, heap)
    BY <1>3, TopTyped
  <2> DEFINE n == prog[Top.node]
             k == Len(Top.vals)
  <2>3. Top.node \in Nodes /\ k \in Nat /\ n.kind # "index"
    BY <2>2, LenProperties DEF TypedFrame, IndexFree
  <2>4. CASE k < Len(n.kids)
    <3>1. call = Call(n.kids[k + 1], Top.ctx)
      BY <2>1, <2>3, <2>4 DEF NextCall
    <3>2. call.node = n.kids[k + 1] /\ call.ctx = Top.ctx
      BY <3>1 DEF Call
    <3>3. k + 1 \in 1..Len(n.kids)
      BY <2>3, <2>4, Parts
    <3>4. prog[call.node].owner = n.owner
      BY <2>3, <3>2, <3>3, Parts
    <3>. QED
      BY <1>3, <2>1, <2>4, <3>2, <3>4 DEF Wants, SourceFrame
  <2>5. CASE ~(k < Len(n.kids))
    <3>1. n.kind = "ref" /\ k = Len(n.kids) /\ call = Call(n.target, Context(Top.node, Top.vals, heap))
      BY <2>1, <2>3, <2>5 DEF NextCall
    <3> DEFINE ctx == Context(Top.node, Top.vals, heap)
    <3>2. ctx.args = Top.vals /\ KeyFits(ctx, heap)
      BY <1>1
    <3> HIDE DEF ctx
    <3>3. call.node = n.target /\ call.ctx = ctx
      BY <3>1 DEF Call, ctx
    <3>4. prog[call.node].kind \in {"interface", "alias"}
      BY <2>1, <2>3, <3>1, <3>3 DEF WellFormed, Nodes
    <3>. QED
      BY <3>1, <3>2, <3>3, <3>4 DEF Wants
  <2>. QED
    BY <2>4, <2>5
<1>. QED
  BY <1>2, <1>3

\* The call that is opened has nothing yet.
LEMMA OpenedFits ==
  ASSUME WellFormed(prog), NEW call, call.node \in Nodes, call.ctx.args \in Seq(Pointers(heap)),
         KeyFits(call.ctx, heap),
         prog[call.node].kind \in {"interface", "alias"} \/ call.ctx.params = prog[prog[call.node].owner].params,
         NEW f, JustOpened(f, call), NEW g, SameIds(g, heap)
  PROVE  SourceFrame(f, g)
<1> DEFINE args == call.ctx.args
<1>1. BareIds(g, args) = BareIds(heap, args)
  BY SameLists
<1>2. f.node = call.node /\ f.vals = <<>> /\ f.ctx.args = args /\ f.ctx.key = call.ctx.key
  BY DEF JustOpened
<1>3. f.key.node = f.node /\ Bare(f.key.args) = BareIds(heap, args)
  <2>1. f.key.node = call.node /\ f.key.args = TypeIds(heap, args)
    BY DEF JustOpened, NodeKey
  <2>. QED
    BY <1>2, <2>1, BareIdsAre
<1>4. f.ctx.params = prog[prog[f.node].owner].params
  <2>1. prog[call.node].kind \in {"interface", "alias"} => prog[call.node].owner = call.node
    BY DEF WellFormed, Nodes
  <2>. QED
    BY <2>1 DEF JustOpened
<1>5. Filled(f, g)
  <2>1. Len(prog[f.node].kids) \in Nat
    BY <1>2, Parts
  <2>2. Len(f.vals) = 0
    BY <1>2
  <2> DEFINE kids == prog[f.node].kids
             more == IF prog[f.node].kind = "ref" THEN 1 ELSE 0
             most == Len(kids) + more
  <2>3. more \in {0, 1}
    OBVIOUS
  <2> HIDE DEF more
  <2>5. 0 <= most /\ 0 # Len(kids) + 1 /\ 1..0 = {}
    BY <2>1, <2>3
  <2> HIDE DEF most
  <2>4. Len(f.vals) <= most /\ Len(f.vals) # Len(kids) + 1 /\ 1..Len(f.vals) = {}
    BY <2>2, <2>5
  <2>. QED
    BY <2>4 DEF Filled, most, more
<1>. QED
  BY <1>1, <1>2, <1>3, <1>4, <1>5 DEF SourceFrame, KeyFits

\* A call is answered with what it asked for.
LEMMA AnswerFits ==
  ASSUME WellFormed(prog), NEW h, NEW f, TypedFrame(f, h), SourceFrame(f, h),
         NEW node \in Nodes, NEW args, Wants(f, node, args),
         NEW p, BareId(h, p) = NodeId(node, BareIds(h, args)),
         NEW e, SameCall(e, f), e.vals = Append(f.vals, p)
  PROVE  SourceFrame(e, h)
<1> DEFINE n == prog[f.node]
           k == Len(f.vals)
           ids == BareIds(h, f.ctx.args)
<1>1. f.node \in Nodes /\ f.vals \in Seq(Pointers(h)) /\ k \in Nat
  BY LenProperties DEF TypedFrame
<1>2. Len(n.kids) \in Nat
  BY <1>1, Parts
<1>3. e.node = f.node /\ e.key = f.key /\ e.ref = f.ref /\ e.ctx = f.ctx
  BY DEF SameCall
<1>4. Len(e.vals) = k + 1 /\ e.vals[k + 1] = p /\ \A j \in 1..k : e.vals[j] = f.vals[j]
  <2>1. IsSequence(f.vals)
    BY <1>1, SequenceOf
  <2>. QED
    BY <2>1, AppendToSequence
<1>5. /\ k <= Len(n.kids) + (IF n.kind = "ref" THEN 1 ELSE 0)
      /\ \A j \in 1..k : j <= Len(n.kids) => BareId(h, f.vals[j]) = NodeId(n.kids[j], ids)
  BY DEF SourceFrame, Filled
<1>6. CASE k < Len(n.kids) /\ node = n.kids[k + 1] /\ args = f.ctx.args
  <2>1. BareId(h, e.vals[k + 1]) = NodeId(n.kids[k + 1], ids)
    BY <1>4, <1>6
  <2>2. \A j \in 1..k + 1 : j <= Len(n.kids) => BareId(h, e.vals[j]) = NodeId(n.kids[j], ids)
    <3>1. \A j \in 1..k + 1 : j \in 1..k \/ j = k + 1
      BY <1>1
    <3>. QED
      BY <1>4, <1>5, <2>1, <3>1
  <2>3. Filled(e, h)
    <3> DEFINE more == IF n.kind = "ref" THEN 1 ELSE 0
               most == Len(n.kids) + more
    <3>0. more \in {0, 1}
      OBVIOUS
    <3> HIDE DEF more
    <3>1. k + 1 <= most /\ k + 1 # Len(n.kids) + 1
      BY <1>1, <1>2, <1>6, <3>0
    <3> HIDE DEF most
    <3>2. Len(e.vals) <= most /\ Len(e.vals) # Len(n.kids) + 1
      BY <1>4, <3>1
    <3>3. \A j \in 1..Len(e.vals) : j <= Len(n.kids) => BareId(h, e.vals[j]) = NodeId(n.kids[j], ids)
      BY <1>4, <2>2
    <3>. QED
      BY <1>3, <3>2, <3>3 DEF Filled, most, more
  <2>. QED
    BY <1>3, <2>3 DEF SourceFrame
<1>7. CASE n.kind = "ref" /\ k = Len(n.kids) /\ node = n.target /\ args = f.vals
  <2>1. prog[n.target].kind \in {"interface", "alias"}
    BY <1>1, <1>7 DEF WellFormed, Nodes
  <2>2. NodeId(node, BareIds(h, args)) = Id(prog[n.target].kind, n.target, BareIds(h, f.vals))
    <3>1. IsCircular(node)
      BY <1>7, <2>1 DEF IsCircular
    <3>. QED
      BY <1>7, <3>1, NodeIdFrom
  <2>3. NodeId(f.node, ids) = Id(prog[n.target].kind, n.target, KidIds(f.node, ids))
    BY <1>1, <1>7, NodeIdFrom
  <2>4. BareIds(h, f.vals) = KidIds(f.node, ids)
    <3>1. \A j \in 1..k : BareId(h, f.vals[j]) = NodeId(n.kids[j], ids)
      BY <1>1, <1>5, <1>7
    <3>. QED
      BY <1>7, <3>1 DEF BareIds, KidIds
  <2>5. BareId(h, e.vals[Len(e.vals)]) = NodeId(f.node, ids)
    BY <1>4, <2>2, <2>3, <2>4
  <2>6. \A j \in 1..k + 1 : j <= Len(n.kids) => BareId(h, e.vals[j]) = NodeId(n.kids[j], ids)
    <3>1. \A j \in 1..k + 1 : j <= Len(n.kids) => j \in 1..k
      BY <1>1, <1>7
    <3>. QED
      BY <1>4, <1>5, <3>1
  <2>7. Filled(e, h)
    <3>1. Len(e.vals) <= Len(n.kids) + 1
      BY <1>1, <1>2, <1>4, <1>7
    <3> HIDE DEF k
    <3>. QED
      BY <1>2, <1>3, <1>4, <1>7, <2>5, <2>6, <3>1 DEF Filled
  <2>. QED
    BY <1>3, <2>7 DEF SourceFrame
<1>. QED
  BY <1>6, <1>7 DEF Wants

\* What the cache or circular answers is what the call asks for.
LEMMA OldAnswers ==
  ASSUME Inv, Typed, WellFormed(prog), NEW call, call.node \in Nodes, KeyFits(call.ctx, heap),
         SourceFrames(frames, heap), SourceCache(typeCaches, heap),
         \A i \in 1..Len(frames) : NamedFrame(frames[i], heap)
  PROVE  /\ CacheKey(call.node, call.ctx) \in DOMAIN typeCaches =>
              BareId(heap, typeCaches[CacheKey(call.node, call.ctx)])
                = NodeId(call.node, BareIds(heap, call.ctx.args))
         /\ IsCircular(call.node) /\ NodeKey(call.node, call.ctx) \in DOMAIN circular =>
              BareId(heap, circular[NodeKey(call.node, call.ctx)])
                = NodeId(call.node, BareIds(heap, call.ctx.args))
<1>1. ASSUME CacheKey(call.node, call.ctx) \in DOMAIN typeCaches
      PROVE  BareId(heap, typeCaches[CacheKey(call.node, call.ctx)])
               = NodeId(call.node, BareIds(heap, call.ctx.args))
  <2> DEFINE k == CacheKey(call.node, call.ctx)
  <2>1. k.node = call.node /\ k.ctx = call.ctx.key
    BY DEF CacheKey
  <2> HIDE DEF k
  <2>2. k \in DOMAIN typeCaches
    BY <1>1 DEF k
  <2>3. BareId(heap, typeCaches[k]) = NodeId(call.node, BareIds(heap, call.ctx.args))
    BY <2>1, <2>2 DEF SourceCache, KeyFits
  <2>. QED
    BY <2>3 DEF k
<1>2. ASSUME IsCircular(call.node), NodeKey(call.node, call.ctx) \in DOMAIN circular
      PROVE  BareId(heap, circular[NodeKey(call.node, call.ctx)])
               = NodeId(call.node, BareIds(heap, call.ctx.args))
  <2> DEFINE key == NodeKey(call.node, call.ctx)
  <2>1. key.node = call.node /\ key.args = TypeIds(heap, call.ctx.args)
    BY DEF NodeKey
  <2>2. Bare(key.args) = BareIds(heap, call.ctx.args)
    BY <2>1, BareIdsAre
  <2> HIDE DEF key
  <2>3. PICK i \in 1..Len(frames) : frames[i].ref # 0 /\ frames[i].key = key /\ circular[key] = frames[i].ref
    BY <1>2 DEF Inv, CircularIsOpen, key
  <2>4. SourceFrame(frames[i], heap) /\ NamedFrame(frames[i], heap)
    BY DEF SourceFrames
  <2>5. frames[i].node = call.node /\ BareIds(heap, frames[i].ctx.args) = BareIds(heap, call.ctx.args)
    BY <2>1, <2>2, <2>3, <2>4 DEF SourceFrame
  <2>6. BareId(heap, circular[key]) = Id(prog[call.node].kind, call.node, BareIds(heap, call.ctx.args))
    BY <2>3, <2>4, <2>5 DEF NamedFrame
  <2>7. NodeId(call.node, BareIds(heap, call.ctx.args))
          = Id(prog[call.node].kind, call.node, BareIds(heap, call.ctx.args))
    BY <1>2, NodeIdFrom
  <2>. QED
    BY <2>6, <2>7 DEF key
<1>. QED
  BY <1>1, <1>2

\* The calls after a call has been made.
LEMMA CallsFollow ==
  ASSUME Inv, Typed, WellFormed(prog), IndexFree, NEW call, Asked(call), CreateType(call, frames),
         SoundHeap(heap), SameIds(heap', heap),
         SourceFrames(frames, heap), SourceCache(typeCaches, heap),
         \A i \in 1..Len(frames) : NamedFrame(frames[i], heap)
  PROVE  SourceFrames(frames', heap') /\ typeCaches' = typeCaches
<1>0. /\ Len(frames) \in Nat /\ IsSequence(frames) /\ \A j \in 1..Len(frames) : IsFrame(frames[j])
      /\ \A j \in 1..Len(frames) : TypedFrame(frames[j], heap) /\ SourceFrame(frames[j], heap)
      /\ \A j \in 1..Len(frames) - 1 : Wants(frames[j + 1], frames[j].node, frames[j].ctx.args)
  BY AppendToSequence DEF Inv, FramesInv, Typed, SourceFrames, Chained
<1>1. frames # <<>> => Top = frames[1] /\ 1 \in 1..Len(frames)
  BY TailOfSequence DEF Inv, FramesInv, Top
<1>2. /\ frames # <<>> => Wants(Top, call.node, call.ctx.args)
      /\ KeyFits(call.ctx, heap) /\ call.node \in Nodes /\ TypedContext(call.ctx, heap)
      /\ prog[call.node].kind \in {"interface", "alias"} \/ call.ctx.params = prog[prog[call.node].owner].params
  BY <1>0, <1>1, AskedOf DEF Asked
<1>3. \A j \in 1..Len(frames) : SourceFrame(frames[j], heap')
  BY <1>0, SourceKept
<1>4. ASSUME NEW p, BareId(heap, p) = NodeId(call.node, BareIds(heap, call.ctx.args)),
             heap' = heap, Deliver(p, frames)
      PROVE  SourceFrames(frames', heap')
  <2>1. /\ Len(frames') = Len(frames)
        /\ \A i \in 2..Len(frames) : frames'[i] = frames[i]
        /\ frames = <<>> => frames' = <<>>
        /\ frames # <<>> => SameCall(frames'[1], frames[1]) /\ frames'[1].vals = Append(frames[1].vals, p)
    BY <1>0, <1>4, Delivery
  <2>2. ASSUME NEW i \in 1..Len(frames') PROVE SourceFrame(frames'[i], heap')
    <3>1. CASE i = 1
      <4>1. frames # <<>> /\ TypedFrame(frames[1], heap) /\ SourceFrame(frames[1], heap)
        BY <1>0, <2>1
      <4>2. SourceFrame(frames'[1], heap)
        BY <1>1, <1>2, <1>4, <2>1, <4>1, AnswerFits
      <4>. QED
        BY <1>4, <3>1, <4>2
    <3>2. CASE i \in 2..Len(frames)
      BY <1>0, <1>3, <2>1, <3>2
    <3>. QED
      BY <1>0, <2>1, <3>1, <3>2
  <2>3. ASSUME NEW i \in 1..Len(frames') - 1 PROVE Wants(frames'[i + 1], frames'[i].node, frames'[i].ctx.args)
    <3>1. i + 1 \in 2..Len(frames) /\ i \in 1..Len(frames) - 1 /\ (i = 1 \/ i \in 2..Len(frames))
      BY <1>0, <2>1
    <3>2. frames'[i + 1] = frames[i + 1]
      BY <2>1, <3>1
    <3>3. frames # <<>>
      BY <1>0, <3>1
    <3>4. frames'[i].node = frames[i].node /\ frames'[i].ctx = frames[i].ctx
      BY <2>1, <3>1, <3>3 DEF SameCall
    <3>. QED
      BY <1>0, <3>1, <3>2, <3>4
  <2>. QED
    BY <2>2, <2>3 DEF SourceFrames, Chained
<1>5. ASSUME Enter(call, frames) PROVE SourceFrames(frames', heap')
  <2>1. /\ Len(frames') = Len(frames) + 1
        /\ \A i \in 2..Len(frames) + 1 : frames'[i] = frames[i - 1]
        /\ JustOpened(frames'[1], call)
    BY <1>2, <1>5, Entering
  <2>2. SourceFrame(frames'[1], heap')
    BY <1>2, <2>1, OpenedFits DEF TypedContext
  <2>3. ASSUME NEW i \in 1..Len(frames') PROVE SourceFrame(frames'[i], heap')
    <3>1. i = 1 \/ (i \in 2..Len(frames) + 1 /\ i - 1 \in 1..Len(frames))
      BY <1>0, <2>1
    <3>. QED
      BY <1>3, <2>1, <2>2, <3>1
  <2>4. ASSUME NEW i \in 1..Len(frames') - 1 PROVE Wants(frames'[i + 1], frames'[i].node, frames'[i].ctx.args)
    <3>1. i \in 1..Len(frames) /\ i + 1 \in 2..Len(frames) + 1 /\ (i + 1) - 1 = i
      BY <1>0, <2>1
    <3>2. frames'[i + 1] = frames[i]
      BY <2>1, <3>1
    <3>3. CASE i = 1
      <4>1. frames # <<>>
        BY <3>1
      <4>. QED
        BY <1>1, <1>2, <2>1, <3>2, <3>3, <4>1 DEF JustOpened
    <3>4. CASE i # 1
      <4>1. i \in 2..Len(frames) + 1 /\ i - 1 \in 1..Len(frames) - 1 /\ (i - 1) + 1 = i
        BY <1>0, <3>1, <3>4
      <4>2. frames'[i] = frames[i - 1]
        BY <2>1, <4>1
      <4>3. Wants(frames[(i - 1) + 1], frames[i - 1].node, frames[i - 1].ctx.args)
        BY <1>0, <4>1
      <4>. QED
        BY <3>2, <4>1, <4>2, <4>3
    <3>. QED
      BY <3>3, <3>4
  <2>. QED
    BY <2>3, <2>4 DEF SourceFrames, Chained
<1>6. CASE UseCache(call, frames)
  <2>1. CacheKey(call.node, call.ctx) \in DOMAIN typeCaches
        /\ Deliver(typeCaches[CacheKey(call.node, call.ctx)], frames) /\ heap' = heap /\ typeCaches' = typeCaches
    BY <1>6 DEF UseCache
  <2>. QED
    BY <1>2, <1>4, <2>1, OldAnswers
<1>7. CASE UseCircular(call, frames)
  <2>1. IsCircular(call.node) /\ NodeKey(call.node, call.ctx) \in DOMAIN circular
        /\ Deliver(circular[NodeKey(call.node, call.ctx)], frames) /\ heap' = heap /\ typeCaches' = typeCaches
    BY <1>7 DEF UseCircular
  <2>. QED
    BY <1>2, <1>4, <2>1, OldAnswers
<1>8. CASE Enter(call, frames)
  BY <1>5, <1>8 DEF Enter
<1>. QED
  BY <1>6, <1>7, <1>8 DEF CreateType

\* A type that has just been made has the ID that is stored, or one of its parts'.
LEMMA MadeHasId ==
  ASSUME SoundHeap(heap), WordedHeap(heap), NEW t, TypeOver(t, heap), WordedType(t), t.kind # "def"
  PROVE  LET h == Append(heap, t)
             p == Len(heap) + 1
         IN /\ p \in Pointers(h)
            /\ t.kind \in Stored => BareId(h, p) = StripDef(t.id)
            /\ t.kind \notin Stored => BareId(h, p) = Id(t.kind, "", BareIds(heap, t.subs))
<1> DEFINE h == Append(heap, t)
           p == Len(heap) + 1
<1>1. /\ SoundHeap(h) /\ WordedHeap(h) /\ SameIds(h, heap)
      /\ Len(heap) \in Nat /\ Len(h) = Len(heap) + 1 /\ h[p] = t
  BY IdentityGrown
<1>2. p \in Pointers(h)
  BY <1>1 DEF Pointers
<1>3. BareIds(h, t.subs) = BareIds(heap, t.subs)
  BY <1>1, SameLists DEF TypeOver
<1> HIDE DEF h, p
<1>4. /\ h[p].kind \in Stored => BareId(h, p) = StripDef(h[p].id)
      /\ h[p].kind \notin Stored \cup {"def"} => BareId(h, p) = Id(h[p].kind, "", BareIds(h, h[p].subs))
  BY <1>1, <1>2, BareIdFrom
<1>. QED
  BY <1>1, <1>2, <1>3, <1>4 DEF h, p

LEMMA NoIds == \A h : BareIds(h, <<>>) = <<>>
BY DEF BareIds

\* The innermost call returns p, which is what its node stands for.
Answers(h, p) ==
  Return(h, p) /\ p \in Pointers(h) /\ BareId(h, p) = NodeId(Top.node, BareIds(h, Top.ctx.args))

\* The same for a new type, or an old one.
LEMMA NewAnswer ==
  ASSUME SoundHeap(heap), WordedHeap(heap), NEW t, TypeOver(t, heap), WordedType(t), t.kind # "def",
         ReturnNew(t), SameIds(heap', heap), Top.ctx.args \in Seq(Pointers(heap)),
         IF t.kind \in Stored THEN StripDef(t.id) = NodeId(Top.node, BareIds(heap, Top.ctx.args))
         ELSE Id(t.kind, "", BareIds(heap, t.subs)) = NodeId(Top.node, BareIds(heap, Top.ctx.args))
  PROVE  \E h, p : Answers(h, p)
<1> DEFINE h == Append(heap, t)
           p == Len(heap) + 1
<1>1. /\ p \in Pointers(h)
      /\ t.kind \in Stored => BareId(h, p) = StripDef(t.id)
      /\ t.kind \notin Stored => BareId(h, p) = Id(t.kind, "", BareIds(heap, t.subs))
  BY MadeHasId
<1>2. Return(h, p)
  BY DEF ReturnNew
<1>3. h = heap'
  BY <1>2 DEF Return
<1> HIDE DEF h, p
<1>4. BareIds(h, Top.ctx.args) = BareIds(heap, Top.ctx.args)
  BY <1>3, SameLists
<1>. QED
  BY <1>1, <1>2, <1>4 DEF Answers

LEMMA LeafAnswers ==
  ASSUME SoundHeap(heap), WordedHeap(heap), WellFormed(prog), FinishLeaf, SameIds(heap', heap),
         TypedFrame(Top, heap)
  PROVE  \E h, p : Answers(h, p)
<1> DEFINE n == Top.node
<1>1. n \in Nodes /\ Top.ctx.args \in Seq(Pointers(heap))
  BY DEF TypedFrame, TypedContext
<1>2. prog[n].kind \in {"prim", "never"} /\ ReturnNew(IF prog[n].kind = "prim" THEN Prim(prog[n].name) ELSE Never)
  BY DEF FinishLeaf, Finished
<1>3. CASE prog[n].kind = "prim"
  <2> DEFINE t == Prim(prog[n].name)
             name == prog[n].name
             tag == "prim"
             none == <<>>
  <2>1. TypeOver(t, heap) /\ WordedType(t)
    BY <1>1, TypesOver, WordedTypes
  <2>2. t.kind = "prim" /\ t.id = Id(tag, name, none) /\ t.kind \in Stored /\ t.kind # "def"
    BY DEF Prim, NewType, Stored
  <2>3. tag \in TypeTags \cup {"name"} /\ tag # "def" /\ name \in Words
    BY <1>1, SomeWords
  <2>4. none \in Seq(Seq(Token)) /\ Bare(none) = none
    BY DEF Bare
  <2>5. NodeId(n, BareIds(heap, Top.ctx.args)) = Id(tag, name, none)
    BY <1>1, <1>3, NodeIdFrom
  <2> HIDE DEF t, tag, name, none
  <2>6. StripDef(t.id) = Id(tag, name, none)
    BY <2>2, <2>3, <2>4, StripParts
  <2>7. ReturnNew(t)
    BY <1>2, <1>3 DEF t
  <2>. QED
    BY <1>1, <2>1, <2>2, <2>5, <2>6, <2>7, NewAnswer
<1>4. CASE prog[n].kind = "never"
  <2> DEFINE t == Never
             ids == BareIds(heap, Top.ctx.args)
  <2>1. TypeOver(t, heap) /\ WordedType(t)
    BY TypesOver, WordedTypes
  <2>2. t.kind = "never" /\ t.subs = <<>> /\ t.kind \notin Stored /\ t.kind # "def"
    BY DEF Never, NewType, Stored
  <2>3. NodeId(n, ids) = Id("never", "", <<>>)
    BY <1>1, <1>4, NodeIdFrom
  <2> HIDE DEF t, ids
  <2>4. Id(t.kind, "", BareIds(heap, t.subs)) = NodeId(n, ids)
    BY <2>2, <2>3, NoIds
  <2>5. ReturnNew(t)
    BY <1>2, <1>4 DEF t
  <2>. QED
    BY <1>1, <2>1, <2>2, <2>4, <2>5, NewAnswer DEF ids
<1>. QED
  BY <1>2, <1>3, <1>4

LEMMA TupleAnswers ==
  ASSUME SoundHeap(heap), WordedHeap(heap), WellFormed(prog), FinishTuple, SameIds(heap', heap),
         TypedFrame(Top, heap), SourceFrame(Top, heap)
  PROVE  \E h, p : Answers(h, p)
<1> DEFINE n == Top.node
           t == TupleOf(Top.vals)
           ids == BareIds(heap, Top.ctx.args)
           k == Len(Top.vals)
<1>1. n \in Nodes /\ Top.ctx.args \in Seq(Pointers(heap)) /\ Top.vals \in Seq(Pointers(heap)) /\ k \in Nat
  BY LenProperties DEF TypedFrame, TypedContext
<1>2. prog[n].kind = "tuple" /\ NextCall(Top) = {} /\ ReturnNew(t)
  BY DEF FinishTuple, Finished
<1>3. TypeOver(t, heap) /\ WordedType(t)
  BY <1>1, TypesOver, WordedTypes
<1>4. t.kind = "tuple" /\ t.subs = Top.vals /\ t.kind \notin Stored /\ t.kind # "def"
  BY DEF TupleOf, NewType, Stored
<1>5. NodeId(n, ids) = Id("tuple", "", KidIds(n, ids))
  BY <1>1, <1>2, NodeIdFrom
<1>6. k = Len(prog[n].kids)
  <2>1. ~(k < Len(prog[n].kids))
    BY <1>2 DEF NextCall
  <2>2. k <= Len(prog[n].kids) + 0
    BY <1>2 DEF SourceFrame, Filled
  <2>3. Len(prog[n].kids) \in Nat
    BY <1>1, Parts
  <2>. QED
    BY <1>1, <2>1, <2>2, <2>3
<1>7. BareIds(heap, Top.vals) = KidIds(n, ids)
  <2>1. \A j \in 1..k : BareId(heap, Top.vals[j]) = NodeId(prog[n].kids[j], ids)
    BY <1>1, <1>6 DEF SourceFrame, Filled
  <2>. QED
    BY <1>6, <2>1 DEF BareIds, KidIds
<1> HIDE DEF t, ids, k
<1>8. Id(t.kind, "", BareIds(heap, t.subs)) = NodeId(n, ids)
  BY <1>4, <1>5, <1>7
<1>. QED
  BY <1>1, <1>2, <1>3, <1>4, <1>8, NewAnswer DEF ids

\* GetArgument finds the argument that the parameter stands for.
LEMMA ArgumentsAre ==
  ASSUME SoundHeap(heap), WordedHeap(heap), NEW ctx, ctx.args \in Seq(Pointers(heap)),
         NEW n \in Nodes, ctx.params = prog[prog[n].owner].params
  PROVE  /\ GetArgument(ctx, prog[n].name) = {} =>
              ArgumentAt(prog, n, BareIds(heap, ctx.args)) = Id("unknown", "", <<>>)
         /\ \A p \in GetArgument(ctx, prog[n].name) :
              p \in Pointers(heap) /\ ArgumentAt(prog, n, BareIds(heap, ctx.args)) = BareId(heap, p)
<1> DEFINE params == ctx.params
           args == ctx.args
           ids == BareIds(heap, args)
           named == {i \in 1..Len(params) : params[i] = prog[n].name}
           first == {i \in named : \A j \in named : i <= j}
           found == first \cap (1..Len(args))
<1>1. Len(args) \in Nat /\ \A i \in 1..Len(args) : args[i] \in Pointers(heap)
  OBVIOUS
<1>2. Len(ids) = Len(args) /\ \A i \in 1..Len(args) : ids[i] = BareId(heap, args[i])
  <2>1. \A i \in 1..Len(args) : BareId(heap, args[i]) \in Seq(Token)
    BY <1>1, BareIdFrom
  <2>2. ids \in Seq(Seq(Token))
    BY <1>1, <2>1 DEF BareIds
  <2>. QED
    BY <1>1, <2>2 DEF BareIds
<1>3. GetArgument(ctx, prog[n].name) = {args[i] : i \in found}
  BY DEF GetArgument
<1>4. ArgumentAt(prog, n, ids) = IF found = {} THEN Id("unknown", "", <<>>) ELSE ids[CHOOSE i \in first : TRUE]
  BY <1>2 DEF ArgumentAt
<1>5. ASSUME NEW i \in first, NEW j \in first PROVE i = j
  <2>1. i \in 1..Len(params) /\ j \in 1..Len(params)
    OBVIOUS
  <2>2. i <= j /\ j <= i
    OBVIOUS
  <2>3. \A a, b \in Int : a <= b /\ b <= a => a = b
    OBVIOUS
  <2>4. i \in Int /\ j \in Int
    BY <2>1
  <2> HIDE DEF first
  <2>. QED
    BY <2>2, <2>3, <2>4
<1> HIDE DEF ids, first
<1>6. ASSUME NEW i \in found PROVE ArgumentAt(prog, n, ids) = BareId(heap, args[i])
  <2>1. (CHOOSE j \in first : TRUE) = i
    BY <1>5
  <2>. QED
    BY <1>2, <1>4, <2>1
<1> HIDE DEF args, found
<1>7. \A i \in found : i \in 1..Len(args)
  BY DEF found
<1>. QED
  BY <1>1, <1>3, <1>4, <1>6, <1>7 DEF ids, args

LEMMA ParameterAnswers ==
  ASSUME SoundHeap(heap), WordedHeap(heap), WellFormed(prog), FinishParameter, SameIds(heap', heap),
         TypedFrame(Top, heap), SourceFrame(Top, heap)
  PROVE  \E h, p : Answers(h, p)
<1> DEFINE n == Top.node
           argument == GetArgument(Top.ctx, prog[n].name)
           ids == BareIds(heap, Top.ctx.args)
<1>1. n \in Nodes /\ Top.ctx.args \in Seq(Pointers(heap)) /\ Top.ctx.params = prog[prog[n].owner].params
  BY DEF TypedFrame, TypedContext, SourceFrame
<1>2. /\ prog[n].kind = "param"
      /\ IF argument = {} THEN ReturnNew(Unknown) ELSE \E p \in argument : Return(heap, p)
  BY DEF FinishParameter, Finished
<1>3. /\ argument = {} => ArgumentAt(prog, n, ids) = Id("unknown", "", <<>>)
      /\ \A p \in argument : p \in Pointers(heap) /\ ArgumentAt(prog, n, ids) = BareId(heap, p)
  BY <1>1, ArgumentsAre
<1>4. NodeId(n, ids) = ArgumentAt(prog, n, ids)
  BY <1>1, <1>2, NodeIdFrom
<1> HIDE DEF argument, ids
<1>5. CASE argument = {}
  <2> DEFINE t == Unknown
  <2>1. TypeOver(t, heap) /\ WordedType(t)
    BY TypesOver, WordedTypes
  <2>2. t.kind = "unknown" /\ t.subs = <<>> /\ t.kind \notin Stored /\ t.kind # "def"
    BY DEF Unknown, NewType, Stored
  <2>3. ReturnNew(t)
    BY <1>2, <1>5
  <2> HIDE DEF t
  <2>4. Id(t.kind, "", BareIds(heap, t.subs)) = NodeId(n, ids)
    BY <1>3, <1>4, <1>5, <2>2, NoIds
  <2>. QED
    BY <1>1, <2>1, <2>2, <2>3, <2>4, NewAnswer DEF ids
<1>6. CASE argument # {}
  BY <1>2, <1>3, <1>4, <1>6 DEF Answers, ids
<1>. QED
  BY <1>5, <1>6

LEMMA ReferenceAnswers ==
  ASSUME WellFormed(prog), FinishReference, TypedFrame(Top, heap), SourceFrame(Top, heap)
  PROVE  \E h, p : Answers(h, p)
<1> DEFINE n == prog[Top.node]
           k == Len(Top.vals)
<1>1. Top.node \in Nodes /\ Top.vals \in Seq(Pointers(heap)) /\ k \in Nat
  BY LenProperties DEF TypedFrame
<1>2. n.kind = "ref" /\ NextCall(Top) = {} /\ Return(heap, Top.vals[k])
  BY DEF FinishReference, Finished
<1>3. k = Len(n.kids) + 1
  <2>1. ~(k < Len(n.kids)) /\ k # Len(n.kids)
    BY <1>2 DEF NextCall
  <2>2. k <= Len(n.kids) + 1
    BY <1>2 DEF SourceFrame, Filled
  <2>3. Len(n.kids) \in Nat
    BY <1>1, Parts
  <2>. QED
    BY <1>1, <2>1, <2>2, <2>3
<1>4. BareId(heap, Top.vals[k]) = NodeId(Top.node, BareIds(heap, Top.ctx.args))
  BY <1>3 DEF SourceFrame, Filled
<1>5. Top.vals[k] \in Pointers(heap)
  BY <1>1, <1>2, HasParts
<1>. QED
  BY <1>2, <1>4, <1>5 DEF Answers

LEMMA DeclarationAnswers ==
  ASSUME Inv, Typed, WellFormed(prog), WordedHeap(heap), FinishDeclaration, NeverFree(heap'),
         SameIds(heap', heap), TypedFrame(Top, heap), NamedFrame(Top, heap)
  PROVE  \E h, p : Answers(h, p)
<1>1. PICK h, inner, p : Return(h, p) /\ p \in Pointers(h) /\ (NeverFree(h) => BareId(h, p) = BareId(heap, Top.ref))
  BY Declared
<1>2. h = heap'
  BY <1>1 DEF Return
<1>3. IsCircular(Top.node) /\ frames # <<>>
  BY DEF FinishDeclaration, Finished, IsCircular
<1>4. Top.ref # 0
  BY <1>3, TopCall
<1>5. Top.node \in Nodes /\ Top.ctx.args \in Seq(Pointers(heap))
  BY DEF TypedFrame, TypedContext
<1>6. NodeId(Top.node, BareIds(heap, Top.ctx.args))
        = Id(prog[Top.node].kind, Top.node, BareIds(heap, Top.ctx.args))
  BY <1>3, <1>5, NodeIdFrom
<1>7. BareIds(h, Top.ctx.args) = BareIds(heap, Top.ctx.args)
  BY <1>2, <1>5, SameLists
<1>. QED
  BY <1>1, <1>2, <1>4, <1>6, <1>7 DEF Answers, NamedFrame

LEMMA FinishAnswers ==
  ASSUME Inv, Typed, WellFormed(prog), WordedHeap(heap), IndexFree, Finish, NeverFree(heap'),
         SameIds(heap', heap), SourceFrames(frames, heap), \A i \in 1..Len(frames) : NamedFrame(frames[i], heap)
  PROVE  frames # <<>> /\ \E h, p : Answers(h, p)
<1>1. frames # <<>>
  BY DEF Finish, FinishLeaf, FinishTuple, FinishParameter, FinishReference, FinishIndex,
         FinishDeclaration, Finished
<1>2. Top = frames[1] /\ 1 \in 1..Len(frames)
  BY <1>1, TailOfSequence DEF Inv, FramesInv, Top
<1>3. TypedFrame(Top, heap) /\ SourceFrame(Top, heap) /\ NamedFrame(Top, heap) /\ SoundHeap(heap)
  BY <1>2 DEF Inv, Typed, SourceFrames, SoundHeap
<1>4. ~FinishIndex
  BY <1>3 DEF FinishIndex, Finished, IndexFree, TypedFrame
<1>. QED
  BY <1>1, <1>3, <1>4, LeafAnswers, TupleAnswers, ParameterAnswers, ReferenceAnswers, DeclarationAnswers
     DEF Finish

\* The calls and the cache after the innermost call has returned.
LEMMA ReturnFollows ==
  ASSUME Inv, Typed, WellFormed(prog), frames # <<>>, NEW h, NEW p, Answers(h, p), SoundHeap(heap),
         SameIds(h, heap), SourceFrames(frames, heap), SourceCache(typeCaches, heap)
  PROVE  SourceFrames(frames', heap') /\ SourceCache(typeCaches', heap')
<1>0. /\ Len(frames) \in Nat
      /\ \A j \in 1..Len(frames) : TypedFrame(frames[j], heap) /\ SourceFrame(frames[j], heap)
      /\ \A j \in 1..Len(frames) - 1 : Wants(frames[j + 1], frames[j].node, frames[j].ctx.args)
  BY AppendToSequence DEF Inv, FramesInv, Typed, SourceFrames, Chained
<1>1. /\ heap' = h /\ IsSequence(frames') /\ Len(frames) \in Nat \ {0} /\ Len(frames') = Len(frames) - 1
      /\ Top = frames[1]
      /\ \A i \in 2..Len(frames') : frames'[i] = frames[i + 1]
      /\ frames' # <<>> => /\ SameCall(frames'[1], frames[2])
                           /\ frames'[1].vals = Append(frames[2].vals, p)
  BY Returning DEF Answers
<1>2. \A j \in 1..Len(frames) : TypedFrame(frames[j], h) /\ SourceFrame(frames[j], h)
  BY <1>0, SourceKept, TypedInLarger DEF SameIds
<1>3. Top.node \in Nodes /\ Top.ctx.args \in Seq(Pointers(heap)) /\ KeyFits(Top.ctx, h)
  <2>1. 1 \in 1..Len(frames)
    BY <1>1
  <2>2. TypedFrame(Top, heap) /\ SourceFrame(Top, h)
    BY <1>0, <1>1, <1>2, <2>1
  <2>. QED
    BY <2>2 DEF TypedFrame, TypedContext, SourceFrame
<1>4. ASSUME NEW i \in 1..Len(frames') PROVE SourceFrame(frames'[i], h)
  <2>1. frames' # <<>> /\ i + 1 \in 1..Len(frames) /\ (i = 1 \/ i \in 2..Len(frames'))
    BY <1>1
  <2>2. CASE i = 1
    <3>1. Wants(frames[2], Top.node, Top.ctx.args)
      <4>1. 1 \in 1..Len(frames) - 1 /\ 1 + 1 = 2
        BY <1>1, <2>1, <2>2
      <4>. QED
        BY <1>0, <1>1, <4>1
    <3>2. TypedFrame(frames[2], h) /\ SourceFrame(frames[2], h)
      BY <1>2, <2>1, <2>2
    <3>3. BareId(h, p) = NodeId(Top.node, BareIds(h, Top.ctx.args))
      BY DEF Answers
    <3> DEFINE e == frames'[1]
               f == frames[2]
    <3>4. SameCall(e, f) /\ e.vals = Append(f.vals, p)
      BY <1>1, <2>1
    <3> HIDE DEF e, f
    <3>5. Wants(f, Top.node, Top.ctx.args) /\ TypedFrame(f, h) /\ SourceFrame(f, h)
      BY <3>1, <3>2 DEF f
    <3>6. SourceFrame(e, h)
      BY <1>3, <3>3, <3>4, <3>5, AnswerFits
    <3>. QED
      BY <2>2, <3>6 DEF e
  <2>3. CASE i \in 2..Len(frames')
    BY <1>1, <1>2, <2>1, <2>3
  <2>. QED
    BY <2>1, <2>2, <2>3
<1>5. ASSUME NEW i \in 1..Len(frames') - 1 PROVE Wants(frames'[i + 1], frames'[i].node, frames'[i].ctx.args)
  <2>1. /\ frames' # <<>> /\ i + 1 \in 1..Len(frames) - 1 /\ i + 1 \in 2..Len(frames')
        /\ (i = 1 \/ i \in 2..Len(frames'))
    BY <1>1
  <2>2. frames'[i + 1] = frames[(i + 1) + 1]
    BY <1>1, <2>1
  <2>3. frames'[i].node = frames[i + 1].node /\ frames'[i].ctx = frames[i + 1].ctx
    <3>1. CASE i = 1
      <4>1. frames[i + 1] = frames[2]
        BY <3>1
      <4>. QED
        BY <1>1, <2>1, <3>1, <4>1 DEF SameCall
    <3>2. CASE i \in 2..Len(frames')
      BY <1>1, <3>2
    <3>. QED
      BY <2>1, <3>1, <3>2
  <2>. QED
    BY <1>0, <2>1, <2>2, <2>3
<1>6. SourceFrames(frames', h)
  BY <1>4, <1>5 DEF SourceFrames, Chained
<1>7. SourceCache(typeCaches, h)
  BY SourceKept DEF Typed
<1>8. SourceCache(typeCaches', h)
  <2> DEFINE key == CacheKey(Top.node, Top.ctx)
  <2>1. typeCaches' = typeCaches \/ typeCaches' = Put(typeCaches, key, p)
    BY DEF Answers, Return
  <2>2. key.node = Top.node /\ key.ctx = Top.ctx.key
    BY DEF CacheKey
  <2> HIDE DEF key
  <2>3. BareId(h, p) = NodeId(key.node, Bare(key.ctx.args))
    BY <1>3, <2>2 DEF Answers, KeyFits
  <2>4. DOMAIN Put(typeCaches, key, p) = DOMAIN typeCaches \cup {key}
    BY DEF Put
  <2>5. \A x \in DOMAIN typeCaches \cup {key} : Put(typeCaches, key, p)[x] = IF x = key THEN p ELSE typeCaches[x]
    BY DEF Put
  <2>. QED
    BY <1>7, <2>1, <2>3, <2>4, <2>5 DEF SourceCache
<1>. QED
  BY <1>1, <1>6, <1>8

\* A declaration has the parts that its syntax says.
LEMMA DeclarationFollows ==
  ASSUME Inv, Typed, WellFormed(prog), WordedHeap(heap), FinishDeclaration, NeverFree(heap'),
         SameIds(heap', heap), SoundHeap(heap), SourceHeap(heap), SourceFrame(Top, heap), NamedFrame(Top, heap),
         TypedFrame(Top, heap)
  PROVE  SourceHeap(heap')
<1> DEFINE new == Len(heap) + 1
           args == Top.ctx.args
           n == prog[Top.node]
           k == Len(Top.vals)
<1>1. PICK h, inner, p :
        /\ Return(h, p) /\ Declares(h, inner, p)
        /\ NeverFree(h) => inner = InnerType /\ BareId(h, Len(heap) + 1) = BareId(heap, Top.ref)
  BY Declared
<1>2. h = heap' /\ inner = InnerType /\ BareId(h, new) = BareId(heap, Top.ref)
  BY <1>1 DEF Return
<1>3. n.kind \in {"interface", "alias", "literal"} /\ IsCircular(Top.node) /\ frames # <<>> /\ NextCall(Top) = {}
  BY DEF FinishDeclaration, Finished, IsCircular
<1>4. Top.ref # 0 /\ Top.ref \in Pointers(heap)
  BY <1>3, TopCall DEF UnsetIn
<1>5. Top.node \in Nodes /\ args \in Seq(Pointers(heap)) /\ Top.vals \in Seq(Pointers(heap)) /\ k \in Nat
  BY LenProperties DEF TypedFrame, TypedContext
<1>6. BareIds(h, args) = BareIds(heap, args)
  BY <1>2, <1>5, SameLists
<1>7. k = Len(n.kids)
  <2>1. n.kind # "ref" /\ n.kind # "index"
    BY <1>3
  <2>2. ~(k < Len(n.kids))
    BY <1>3, <2>1 DEF NextCall
  <2>3. k <= Len(n.kids) + 0
    BY <2>1 DEF SourceFrame, Filled
  <2>4. Len(n.kids) \in Nat
    BY <1>5, Parts
  <2>. QED
    BY <1>5, <2>2, <2>3, <2>4
<1>8. InnerType.subs = Top.vals
  <2>1. CASE n.kind = "alias"
    <3>1. k = 1
      BY <1>5, <1>7, <2>1 DEF WellFormed, Nodes
    <3>2. Top.vals = <<Top.vals[1]>>
      BY <1>5, <3>1
    <3>. QED
      BY <2>1, <3>2 DEF InnerType, Alias, NewType
  <2>2. CASE n.kind # "alias"
    BY <2>2 DEF InnerType, Object, NewType
  <2>. QED
    BY <2>1, <2>2
<1>9. h[new].kind = IF n.kind = "alias" THEN "alias" ELSE "object"
  <2>1. h[new] = InnerType
    BY <1>1, <1>2 DEF Declares
  <2>. QED
    BY <2>1 DEF InnerType, Alias, Object, NewType
<1>10. Follows(h, new)
  <2>1. h[new].subs = Top.vals
    BY <1>1, <1>2, <1>8 DEF Declares
  <2>2. args \in Seq(Pointers(h))
    BY <1>2, <1>5, TypedInLarger DEF SameIds
  <2>3. BareId(h, new) = Id(n.kind, Top.node, BareIds(h, args))
    BY <1>2, <1>4, <1>6 DEF NamedFrame
  <2>4. ASSUME NEW i \in 1..k PROVE BareId(h, Top.vals[i]) = NodeId(n.kids[i], BareIds(h, args))
    <3>1. Top.vals[i] \in Pointers(heap) /\ i <= Len(n.kids)
      BY <1>5, <1>7
    <3>2. BareId(heap, Top.vals[i]) = NodeId(n.kids[i], BareIds(heap, args))
      BY <3>1 DEF SourceFrame, Filled
    <3>. QED
      BY <1>2, <1>6, <3>1, <3>2 DEF SameIds
  <2> HIDE DEF new, args, k
  <2>5. /\ BareId(h, new) = Id(n.kind, Top.node, BareIds(h, args))
        /\ Len(h[new].subs) = Len(n.kids)
        /\ \A i \in 1..Len(h[new].subs) : BareId(h, h[new].subs[i]) = NodeId(n.kids[i], BareIds(h, args))
    BY <1>7, <2>1, <2>3, <2>4 DEF k
  <2>6. h[new].kind = "alias" <=> n.kind = "alias"
    BY <1>9 DEF new
  <2>. QED
    BY <1>3, <1>5, <2>2, <2>5, <2>6 DEF Follows
<1>11. ASSUME NEW q \in Pointers(h) PROVE q \in Pointers(heap) \/ q = new \/ q = p
  BY <1>1, <1>11, HeapSize DEF Declares, Pointers
<1>12. ASSUME NEW q \in Pointers(h), h[q].kind \in {"object", "alias"} PROVE Follows(h, q)
  <2>1. q \in Pointers(heap) \/ q = new \/ q = p
    BY <1>11, <1>12
  <2>2. CASE q \in Pointers(heap)
    <3>1. q # Top.ref
      BY <1>1, <1>12 DEF Declares
    <3>2. h[q] = heap[q]
      BY <1>1, <2>2, <3>1 DEF Declares
    <3>. QED
      BY <1>2, <1>12, <2>2, <3>2, SourceKept DEF SourceHeap
  <2>3. CASE q = p /\ q # new
    <3>1. h[p].kind = "def"
      BY <1>1, <2>3 DEF Declares, Definition, NewType
    <3>. QED
      BY <1>12, <2>3, <3>1
  <2>. QED
    BY <1>10, <2>1, <2>2, <2>3
<1>13. ASSUME NEW q \in Pointers(h) PROVE Stands(h, q)
  <2>1. h[p].kind \in {"def", "object", "alias"} /\ (p # new => h[p].kind = "def" /\ h[p].subs = <<new>>)
    <3>1. CASE p = new
      BY <1>9, <3>1
    <3>2. CASE p # new
      <4>1. h[p] = Definition(DeclarationName(Top.node, Top.ctx), new)
        BY <1>1, <3>2 DEF Declares
      <4>. QED
        BY <3>2, <4>1 DEF Definition, NewType
    <3>. QED
      BY <3>1, <3>2
  <2> HIDE DEF new
  <2>2. CASE q = Top.ref
    <3>1. h[q].kind = "ref" /\ h[q].subs = <<p>>
      BY <1>1, <2>2 DEF Declares
    <3>. QED
      BY <2>1, <3>1 DEF Stands
  <2>3. CASE q \in Pointers(heap) /\ q # Top.ref
    <3>1. h[q] = heap[q] /\ Stands(heap, q)
      BY <1>1, <2>3 DEF Declares, SourceHeap
    <3>. QED
      BY <1>2, <2>3, <3>1, SourceKept
  <2>4. CASE q = new
    BY <1>9, <2>4 DEF Stands
  <2>5. CASE q = p /\ p # new
    BY <1>9, <2>1, <2>5 DEF Stands
  <2>. QED
    BY <1>11, <2>2, <2>3, <2>4, <2>5
<1>. QED
  BY <1>2, <1>12, <1>13 DEF SourceHeap

LEMMA HeapFollows ==
  ASSUME Inv, Typed, WellFormed(prog), WordedHeap(heap), Next, NeverFree(heap'),
         SameIds(heap', heap), SourceHeap(heap), SourceFrames(frames, heap),
         \A i \in 1..Len(frames) : NamedFrame(frames[i], heap)
  PROVE  SourceHeap(heap')
<1>0. SoundHeap(heap)
  BY DEF Inv, Typed, SoundHeap
<1>1. ASSUME NEW t, heap' = Append(heap, t), t.kind \notin {"object", "alias", "def"},
             t.kind = "ref" => t.subs = <<>>
      PROVE  SourceHeap(heap')
  <2>1. /\ Len(heap) \in Nat /\ Len(heap') = Len(heap) + 1 /\ heap'[Len(heap) + 1] = t
        /\ \A p \in 1..Len(heap) : heap'[p] = heap[p]
    BY <1>0, <1>1, AppendToSequence DEF SoundHeap, HeapOK
  <2>2. ASSUME NEW q \in Pointers(heap'), heap'[q].kind \in {"object", "alias"} PROVE Follows(heap', q)
    <3>1. q \in Pointers(heap) /\ heap'[q] = heap[q]
      BY <1>1, <2>1, <2>2 DEF Pointers
    <3>. QED
      BY <1>0, <2>2, <3>1, SourceKept DEF SourceHeap
  <2>3. ASSUME NEW q \in Pointers(heap') PROVE Stands(heap', q)
    <3>1. CASE q \in Pointers(heap)
      BY <1>0, <2>1, <3>1, SourceKept DEF SourceHeap, Pointers
    <3>2. CASE q = Len(heap) + 1
      <4>1. heap'[q] = t
        BY <2>1, <3>2
      <4>. QED
        BY <1>1, <4>1 DEF Stands, HasType
    <3>. QED
      BY <2>1, <3>1, <3>2 DEF Pointers
  <2>. QED
    BY <2>2, <2>3 DEF SourceHeap
<1>2. CASE heap' = heap
  BY <1>2
<1>3. ASSUME NEW t, Makes(t) PROVE SourceHeap(heap')
  BY <1>1, <1>3 DEF Makes
<1>4. ASSUME NEW call, Opens(call) PROVE SourceHeap(heap')
  <2>1. heap' = Append(heap, Reference(DeclarationId(call.node, call.ctx), ReferenceName(call)))
    BY <1>0, <1>4, OpensIs
  <2>2. \A id, name : Reference(id, name).kind = "ref" /\ Reference(id, name).subs = <<>>
    BY DEF Reference, NewType
  <2>. QED
    BY <1>1, <2>1, <2>2
<1>5. CASE FinishDeclaration
  <2>1. frames # <<>>
    BY <1>5 DEF FinishDeclaration, Finished
  <2>2. Top = frames[1] /\ 1 \in 1..Len(frames)
    BY <2>1, TailOfSequence DEF Inv, FramesInv, Top
  <2>3. TypedFrame(Top, heap) /\ SourceFrame(Top, heap) /\ NamedFrame(Top, heap)
    BY <2>2 DEF Typed, SourceFrames
  <2>. QED
    BY <1>0, <1>5, <2>3, DeclarationFollows
<1>. QED
  BY <1>2, <1>3, <1>4, <1>5, HeapStep

LEMMA SourceStep ==
  ASSUME Inv, Typed, NamesInv, SourceInv, [Next]_vars
  PROVE  SourceInv'
<1>0. WellFormed(prog) /\ prog' = prog /\ WordedHeap(heap) /\ SoundHeap(heap)
  BY ProgramStays, ProgramsAssumption DEF Typed, NamesInv, Inv, SoundHeap
<1>1. CASE UNCHANGED vars
  <2>1. heap' = heap /\ frames' = frames /\ typeCaches' = typeCaches
    BY <1>1 DEF vars
  <2>. QED
    BY <1>0, <2>1, SourceSame, NamedSame DEF SourceInv
<1>2. CASE Next
  <2>1. SUFFICES ASSUME IndexFree, NeverFree(heap')
                 PROVE  SourceFrames(frames', heap') /\ SourceCache(typeCaches', heap') /\ SourceHeap(heap')
    BY <1>0, SourceSame, NamedSame DEF SourceInv
  <2>2. SameIds(heap', heap)
    <3>1. NothingIsNever' => SameIds(heap', heap)
      BY <1>0, WordsStep
    <3>2. NothingIsNever' <=> NeverFree(heap')
      BY DEF NothingIsNever, NeverFree
    <3>. QED
      BY <2>1, <3>1, <3>2
  <2>3. NeverFree(heap)
    BY <1>2, <2>1, StepExtends, NeverFreeBefore DEF Typed
  <2>4. /\ SourceFrames(frames, heap) /\ SourceCache(typeCaches, heap) /\ SourceHeap(heap)
        /\ \A i \in 1..Len(frames) : NamedFrame(frames[i], heap)
    BY <2>1, <2>3 DEF SourceInv, NamesInv
  <2>5. SourceHeap(heap')
    BY <1>0, <1>2, <2>1, <2>2, <2>4, HeapFollows
  <2>6. SourceCache(typeCaches, heap')
    BY <1>0, <2>2, <2>4, SourceKept DEF Typed
  <2>7. SourceFrames(frames', heap') /\ SourceCache(typeCaches', heap')
    <3>1. ASSUME NEW call, Asked(call), CreateType(call, frames)
          PROVE  SourceFrames(frames', heap') /\ SourceCache(typeCaches', heap')
      BY <1>0, <2>1, <2>2, <2>4, <2>6, <3>1, CallsFollow
    <3>2. CASE Finish
      <4>1. PICK h, p : frames # <<>> /\ Answers(h, p)
        BY <1>0, <2>1, <2>2, <2>4, <3>2, FinishAnswers
      <4>2. h = heap'
        BY <4>1 DEF Answers, Return
      <4>. QED
        BY <1>0, <2>2, <2>4, <4>1, <4>2, ReturnFollows
    <3>3. CASE PanicOnNil
      BY <2>4, <3>3 DEF PanicOnNil
    <3>4. CASE (\E n \in Roots : ParseRoot(n)) \/ ParseNext
      BY <1>0, <3>1, <3>4, AskedAre
    <3>. QED
      BY <1>2, <3>2, <3>3, <3>4 DEF Next, Step
  <2>. QED
    BY <2>5, <2>7
<1>. QED
  BY <1>1, <1>2

LEMMA SourceInit == Init => SourceInv
<1>1. Init => /\ Pointers(heap) = {} /\ 1..Len(frames) = {} /\ 1..Len(frames) - 1 = {}
              /\ DOMAIN typeCaches = {}
  BY DEF Init, Pointers
<1>. QED
  BY <1>1 DEF SourceInv, SourceFrames, Chained, SourceCache, SourceHeap

LEMMA SourceIsInductive == Spec => [](Inv /\ Typed /\ NamesInv /\ SourceInv)
<1>1. Init => Inv /\ Typed /\ NamesInv /\ SourceInv
  BY InvInit, TypedInit, NamesInit, SourceInit
<1>2. (Inv /\ Typed /\ NamesInv /\ SourceInv) /\ [Next]_vars => (Inv /\ Typed /\ NamesInv /\ SourceInv)'
  BY InvStep, TypedStep, NamesStep, SourceStep
<1>. QED
  BY <1>1, <1>2, PTL DEF Spec

LEMMA SourceIsFollowed == Inv /\ Typed /\ SourceInv => TypesFollowTheSource
<1> SUFFICES ASSUME Inv, Typed, SourceInv, IndexFree, NothingIsNever,
                    NEW p \in Pointers(heap), heap[p].kind \in {"object", "alias"}
             PROVE  FollowsTheSource(p)
  BY DEF TypesFollowTheSource
<1>1. SoundHeap(heap) /\ Follows(heap, p)
  BY NeverFreeIs DEF SourceInv, SourceHeap, Inv, Typed, SoundHeap
<1>. QED
  BY <1>1, FollowsIsFollows

\* Whatever the program, the roots and their order, an interface, an alias or an
\* object literal that has been parsed for some arguments has the members that its
\* declaration has for these: no member comes from the cache, or from circular,
\* with the type it has for other arguments (chain.go:40-63, 85-104).  So it is for
\* programs without T["m"] in which no declaration turned out to be never.
THEOREM ParsedTypesFollow == Spec => []TypesFollowTheSource
BY SourceIsFollowed, SourceIsInductive, PTL

-----------------------------------------------------------------------------
(* A type unfolded *)

\* The recursive function of Unfolding, its equation apart: one level from that below.
UnfoldType(q, d, below) ==
  LET t == heap[Proper(q)]
      parts == [i \in 1..Len(t.subs) |-> below[t.subs[i]]]
  IN IF t.kind = "prim" THEN <<"prim", t.id>>
     ELSE IF d = 0 THEN <<t.kind>> ELSE <<t.kind, parts>>

Level(d, f) == [q \in Pointers(heap) |-> UnfoldType(q, d, f[d - 1])]

Levels(depth) == CHOOSE f : f = [d \in 0..depth |-> Level(d, f)]

LEMMA UnfoldingIs == \A p, depth : Unfolding(p, depth) = Levels(depth)[depth][p]
BY DEF Unfolding, Levels, Level, UnfoldType

LEMMA LevelFromBelow ==
  ASSUME NEW d \in Nat, NEW f, NEW g, d # 0 => f[d - 1] = g[d - 1]
  PROVE  Level(d, f) = Level(d, g)
<1>1. CASE d # 0
  BY <1>1 DEF Level
<1>2. CASE d = 0
  <2>1. \A q, a, b : UnfoldType(q, d, a) = UnfoldType(q, d, b)
    BY <1>2 DEF UnfoldType
  <2> DEFINE u(h) == [q \in Pointers(heap) |-> UnfoldType(q, d, h[d - 1])]
  <2>2. \A q \in Pointers(heap) : UnfoldType(q, d, f[d - 1]) = UnfoldType(q, d, g[d - 1])
    BY <2>1
  <2>. QED
    BY <2>2 DEF Level
<1>. QED
  BY <1>1, <1>2

LEMMA LevelsExist ==
  ASSUME NEW depth \in Nat
  PROVE  Levels(depth) = [d \in 0..depth |-> Level(d, Levels(depth))]
<1> DEFINE Holds(n) == \E f : f = [d \in 0..n |-> Level(d, f)]
           Bad == {n \in Nat : ~Holds(n)}
<1>1. Holds(0)
  <2> DEFINE e == [d \in 0..0 |-> Level(0, {})]
  <2>1. \A d \in 0..0 : d = 0 /\ Level(0, e) = Level(0, {})
    BY LevelFromBelow
  <2>2. e = [d \in 0..0 |-> Level(d, e)]
    BY <2>1
  <2>. QED
    BY <2>2
<1>2. ASSUME NEW n \in Nat \ {0}, Holds(n - 1) PROVE Holds(n)
  <2>1. PICK f : f = [d \in 0..n - 1 |-> Level(d, f)]
    BY <1>2
  <2> DEFINE g == [d \in 0..n |-> IF d = n THEN Level(n, f) ELSE f[d]]
  <2>2. ASSUME NEW d \in 0..n PROVE g[d] = Level(d, g)
    <3>1. d # 0 => f[d - 1] = g[d - 1]
      OBVIOUS
    <3>2. g[d] = Level(d, f)
      <4>1. CASE d = n
        BY <4>1
      <4>2. CASE d # n
        <5>1. d \in 0..n - 1
          BY <4>2
        <5>2. f[d] = Level(d, f)
          BY <2>1, <5>1
        <5>. QED
          BY <4>2, <5>2
      <4>. QED
        BY <4>1, <4>2
    <3> HIDE DEF g
    <3>. QED
      BY <3>1, <3>2, LevelFromBelow
  <2>3. g = [d \in 0..n |-> g[d]]
    OBVIOUS
  <2> HIDE DEF g
  <2>4. g = [d \in 0..n |-> Level(d, g)]
    BY <2>2, <2>3
  <2>. QED
    BY <2>4
<1> HIDE DEF Holds
<1>3. Bad = {}
  <2> SUFFICES ASSUME Bad # {} PROVE FALSE
    OBVIOUS
  <2>1. PICK m \in Bad : \A k \in Bad : m <= k
    BY Least
  <2>2. m \in Nat \ {0} /\ m - 1 \in Nat /\ m - 1 < m /\ ~Holds(m)
    BY <1>1
  <2>3. Holds(m - 1)
    BY <2>1, <2>2
  <2>. QED
    BY <1>2, <2>2, <2>3
<1>4. Holds(depth)
  BY <1>3
<1>5. PICK f : f = [d \in 0..depth |-> Level(d, f)]
  BY <1>4 DEF Holds
<1>. QED
  BY <1>5 DEF Levels

\* What a proper type is, read from its ID: the tag says of what kind, and what is
\* printed after it says of what parts.
KindOf(tag) == IF tag \in {"interface", "literal"} THEN "object" ELSE tag

Describes(p, tag, of, args) ==
  LET t == heap[p] IN
  /\ BareId(heap, p) = Id(tag, of, args) /\ t.kind = KindOf(tag)
  /\ IF t.kind = "prim" THEN t.id = Id("prim", of, <<>>)
     ELSE IF t.kind \in {"object", "alias"}
     THEN /\ Len(t.subs) = Len(prog[of].kids)
          /\ \A i \in 1..Len(t.subs) : BareId(heap, t.subs[i]) = NodeId(prog[of].kids[i], args)
     ELSE BareIds(heap, t.subs) = args

LEMMA ReadableBareIds ==
  ASSUME SoundHeap(heap), WordedHeap(heap)
  PROVE  \A ps \in Seq(Pointers(heap)) : BareIds(heap, ps) \in Seq(Readable)
<1>1. \A p \in Pointers(heap) : BareId(heap, p) \in Readable
  BY TypeIdIsPlain, StripReadable DEF BareId
<1> SUFFICES ASSUME NEW ps \in Seq(Pointers(heap)) PROVE BareIds(heap, ps) \in Seq(Readable)
  OBVIOUS
<1>2. Len(ps) \in Nat /\ \A i \in 1..Len(ps) : ps[i] \in Pointers(heap)
  OBVIOUS
<1>. QED
  BY <1>1, <1>2 DEF BareIds

LEMMA Described ==
  ASSUME SoundHeap(heap), WordedHeap(heap), SourceHeap(heap), NEW p \in Pointers(heap),
         heap[p].kind \notin {"def", "ref"}
  PROVE  \E tag \in TypeTags, of \in Words : \E args \in Seq(Readable) : Describes(p, tag, of, args)
<1> DEFINE t == heap[p]
<1>1. t.kind \in Kinds /\ t.subs \in Seq(Pointers(heap))
  BY DEF SoundHeap, TypedHeap
<1>2. CASE t.kind = "prim"
  <2>1. PICK name \in Words : t.id = Id("prim", name, <<>>)
    BY <1>2 DEF WordedHeap, PrimNamed
  <2> DEFINE tag == "prim"
             none == <<>>
  <2>2. tag \in TypeTags /\ none \in Seq(Readable) /\ none \in Seq(Seq(Token)) /\ tag # "def"
    <3>1. tag \in TypeTags
      BY SomeWords
    <3>2. none \in Seq(Readable) /\ none \in Seq(Seq(Token)) /\ tag # "def"
      OBVIOUS
    <3>. QED
      BY <3>1, <3>2
  <2>3. BareId(heap, p) = StripDef(Id(tag, name, none))
    BY <1>2, <2>1, BareIdFrom DEF Stored
  <2>4. Bare(none) = none
    BY DEF Bare
  <2>5. t.kind = tag /\ KindOf(tag) = tag /\ t.id = Id("prim", name, <<>>)
    BY <1>2, <2>1 DEF KindOf
  <2>6. tag = "prim"
    OBVIOUS
  <2> HIDE DEF tag, none
  <2>7. StripDef(Id(tag, name, none)) = Id(tag, name, none)
    BY <2>2, <2>4, StripParts
  <2>8. Describes(p, tag, name, none)
    BY <2>3, <2>5, <2>6, <2>7 DEF Describes
  <2>. QED
    BY <2>2, <2>8
<1>3. CASE t.kind \in {"object", "alias"}
  <2>1. PICK n \in Nodes, args \in Seq(Pointers(heap)) :
          /\ IsCircular(n) /\ (t.kind = "alias" <=> prog[n].kind = "alias")
          /\ BareId(heap, p) = Id(prog[n].kind, n, BareIds(heap, args))
          /\ Len(t.subs) = Len(prog[n].kids)
          /\ \A i \in 1..Len(t.subs) : BareId(heap, t.subs[i]) = NodeId(prog[n].kids[i], BareIds(heap, args))
    BY <1>3 DEF SourceHeap, Follows
  <2>2. prog[n].kind \in TypeTags /\ n \in Words
    BY <2>1, SomeWords
  <2>3. BareIds(heap, args) \in Seq(Readable)
    BY ReadableBareIds
  <2>4. t.kind = KindOf(prog[n].kind) /\ t.kind # "prim"
    BY <1>3, <2>1 DEF IsCircular, KindOf
  <2>5. Describes(p, prog[n].kind, n, BareIds(heap, args))
    BY <1>3, <2>1, <2>4 DEF Describes
  <2>. QED
    BY <2>2, <2>3, <2>5
<1>4. CASE t.kind \in {"never", "unknown", "tuple"}
  <2> DEFINE blank == ""
  <2>1. t.kind \in TypeTags /\ blank \in Words
    BY <1>1, SomeWords DEF TypeTags
  <2>2. BareIds(heap, t.subs) \in Seq(Readable)
    BY <1>1, ReadableBareIds
  <2>3. BareId(heap, p) = Id(t.kind, blank, BareIds(heap, t.subs))
    BY <1>4, BareIdFrom DEF Stored
  <2>4. t.kind = KindOf(t.kind) /\ t.kind \notin {"prim", "object", "alias"}
    BY <1>4 DEF KindOf
  <2> HIDE DEF blank
  <2>5. Describes(p, t.kind, blank, BareIds(heap, t.subs))
    BY <2>3, <2>4 DEF Describes
  <2>. QED
    BY <2>1, <2>2, <2>5
<1>. QED
  BY <1>1, <1>2, <1>3, <1>4 DEF Kinds

\* Proper types with one ID are of one kind, and their parts have the same IDs.
LEMMA OneIdOneType ==
  ASSUME SoundHeap(heap), WordedHeap(heap), SourceHeap(heap),
         NEW p \in Pointers(heap), heap[p].kind \notin {"def", "ref"},
         NEW q \in Pointers(heap), heap[q].kind \notin {"def", "ref"},
         BareId(heap, p) = BareId(heap, q)
  PROVE  /\ heap[p].kind = heap[q].kind /\ (heap[p].kind = "prim" => heap[p].id = heap[q].id)
         /\ heap[p].kind # "prim" =>
              /\ Len(heap[p].subs) = Len(heap[q].subs)
              /\ \A i \in 1..Len(heap[p].subs) : BareId(heap, heap[p].subs[i]) = BareId(heap, heap[q].subs[i])
<1>1. PICK tag \in TypeTags, of \in Words : \E args \in Seq(Readable) : Describes(p, tag, of, args)
  BY Described
<1>2. PICK args \in Seq(Readable) : Describes(p, tag, of, args)
  BY <1>1
<1>3. PICK tag2 \in TypeTags, of2 \in Words : \E brgs \in Seq(Readable) : Describes(q, tag2, of2, brgs)
  BY Described
<1>4. PICK brgs \in Seq(Readable) : Describes(q, tag2, of2, brgs)
  BY <1>3
<1>5. Id(tag, of, args) = Id(tag2, of2, brgs)
  BY <1>2, <1>4 DEF Describes
<1>6. tag = tag2 /\ of = of2 /\ args = brgs
  BY <1>5, IdsReadBack
<1>7. Describes(q, tag, of, args)
  BY <1>4, <1>6
<1>8. heap[p].kind = heap[q].kind /\ (heap[p].kind = "prim" => heap[p].id = heap[q].id)
  BY <1>2, <1>7 DEF Describes
<1>9. CASE heap[p].kind \in {"object", "alias"}
  BY <1>2, <1>7, <1>8, <1>9 DEF Describes
<1>10. CASE heap[p].kind \notin {"object", "alias", "prim"}
  <2>1. BareIds(heap, heap[p].subs) = BareIds(heap, heap[q].subs)
    BY <1>2, <1>7, <1>8, <1>10 DEF Describes
  <2>2. \A ps : DOMAIN BareIds(heap, ps) = 1..Len(ps) /\ Len(BareIds(heap, ps)) = Len(ps)
    BY DEF BareIds
  <2>3. \A ps : \A i \in 1..Len(ps) : BareIds(heap, ps)[i] = BareId(heap, ps[i])
    BY DEF BareIds
  <2>4. Len(heap[p].subs) = Len(heap[q].subs)
    BY <2>1, <2>2
  <2>. QED
    BY <1>8, <2>1, <2>3, <2>4
<1>. QED
  BY <1>8, <1>9, <1>10

\* What a definition or a reference stands for has its ID.
LEMMA ProperTypes ==
  ASSUME SoundHeap(heap), WordedHeap(heap), SourceHeap(heap), NamedHeap(heap), UnsetIn(heap) = {},
         NEW p \in Pointers(heap)
  PROVE  /\ Proper(p) \in Pointers(heap) /\ heap[Proper(p)].kind \notin {"def", "ref"}
         /\ BareId(heap, Proper(p)) = BareId(heap, p)
<1>1. ASSUME NEW q \in Pointers(heap), heap[q].kind # "ref"
      PROVE  /\ Unwrap(q) \in Pointers(heap) /\ heap[Unwrap(q)].kind \notin {"def", "ref"}
             /\ BareId(heap, Unwrap(q)) = BareId(heap, q)
  <2>1. CASE heap[q].kind = "def"
    <3>1. heap[q].subs[1] \in Pointers(heap)
      BY <2>1 DEF SoundHeap, TypedHeap
    <3>2. heap[heap[q].subs[1]].kind \in {"object", "alias"}
      BY <2>1 DEF SourceHeap, Stands
    <3>3. BareId(heap, heap[q].subs[1]) = BareId(heap, q)
      BY <2>1, BareIdFrom
    <3>. QED
      BY <2>1, <3>1, <3>2, <3>3 DEF Unwrap
  <2>2. CASE heap[q].kind # "def"
    BY <1>1, <2>2 DEF Unwrap
  <2>. QED
    BY <2>1, <2>2
<1>2. CASE heap[p].kind # "ref"
  BY <1>1, <1>2 DEF Proper
<1>3. CASE heap[p].kind = "ref"
  <2>1. HasType(heap, p)
    BY <1>3 DEF UnsetIn
  <2> DEFINE q == heap[p].subs[1]
  <2>2. q \in Pointers(heap)
    BY <2>1 DEF SoundHeap, TypedHeap, HasType
  <2>3. heap[q].kind # "ref"
    BY <1>3, <2>1 DEF SourceHeap, Stands
  <2>4. BareId(heap, q) = BareId(heap, p)
    BY <1>3, <2>1 DEF NamedHeap, NamesFit
  <2>5. Proper(p) = Unwrap(q)
    BY <1>3, <2>1 DEF Proper
  <2> HIDE DEF q
  <2>. QED
    BY <1>1, <2>2, <2>3, <2>4, <2>5
<1>. QED
  BY <1>2, <1>3

\* Types with one ID are one type, to any depth.
LEMMA IdsIdentify ==
  ASSUME SoundHeap(heap), WordedHeap(heap), SourceHeap(heap), NamedHeap(heap), UnsetIn(heap) = {},
         NEW depth \in Nat, NEW p \in Pointers(heap), NEW q \in Pointers(heap),
         BareId(heap, p) = BareId(heap, q)
  PROVE  Unfolding(p, depth) = Unfolding(q, depth)
<1> DEFINE f == Levels(depth)
           Same(d) == \A r, s \in Pointers(heap) : BareId(heap, r) = BareId(heap, s) => f[d][r] = f[d][s]
           Bad == {d \in 0..depth : ~Same(d)}
<1>1. f = [d \in 0..depth |-> Level(d, f)]
  BY LevelsExist
<1>2. \A d \in 0..depth : \A r \in Pointers(heap) : f[d][r] = UnfoldType(r, d, f[d - 1])
  <2> HIDE DEF f
  <2>1. \A d \in 0..depth : f[d] = Level(d, f)
    BY <1>1
  <2>. QED
    BY <2>1 DEF Level
<1>3. Unfolding(p, depth) = f[depth][p] /\ Unfolding(q, depth) = f[depth][q]
  BY UnfoldingIs
<1> HIDE DEF f
<1>4. ASSUME NEW d \in 0..depth, d # 0 => Same(d - 1) PROVE Same(d)
  <2> SUFFICES ASSUME NEW r \in Pointers(heap), NEW s \in Pointers(heap), BareId(heap, r) = BareId(heap, s)
               PROVE  f[d][r] = f[d][s]
    OBVIOUS
  <2> DEFINE t == heap[Proper(r)]
             u == heap[Proper(s)]
             parts(v) == [i \in 1..Len(v.subs) |-> f[d - 1][v.subs[i]]]
  <2>1. /\ t.kind = u.kind /\ (t.kind = "prim" => t.id = u.id)
        /\ t.kind # "prim" =>
             /\ Len(t.subs) = Len(u.subs)
             /\ \A i \in 1..Len(t.subs) : BareId(heap, t.subs[i]) = BareId(heap, u.subs[i])
    <3> DEFINE a == Proper(r)
               b == Proper(s)
    <3>1. /\ a \in Pointers(heap) /\ heap[a].kind \notin {"def", "ref"}
          /\ b \in Pointers(heap) /\ heap[b].kind \notin {"def", "ref"}
          /\ BareId(heap, a) = BareId(heap, b)
      BY ProperTypes
    <3>2. t = heap[a] /\ u = heap[b]
      OBVIOUS
    <3> HIDE DEF a, b, t, u
    <3>. QED
      BY <3>1, <3>2, OneIdOneType
  <2>2. t.subs \in Seq(Pointers(heap)) /\ u.subs \in Seq(Pointers(heap))
    BY ProperTypes DEF SoundHeap, TypedHeap
  <2>3. f[d][r] = IF t.kind = "prim" THEN <<"prim", t.id>> ELSE IF d = 0 THEN <<t.kind>> ELSE <<t.kind, parts(t)>>
    BY <1>2 DEF UnfoldType
  <2>4. f[d][s] = IF u.kind = "prim" THEN <<"prim", u.id>> ELSE IF d = 0 THEN <<u.kind>> ELSE <<u.kind, parts(u)>>
    BY <1>2 DEF UnfoldType
  <2>5. ASSUME d # 0, t.kind # "prim" PROVE parts(t) = parts(u)
    <3>1. \A i \in 1..Len(t.subs) : f[d - 1][t.subs[i]] = f[d - 1][u.subs[i]]
      <4> SUFFICES ASSUME NEW i \in 1..Len(t.subs) PROVE f[d - 1][t.subs[i]] = f[d - 1][u.subs[i]]
        OBVIOUS
      <4>1. t.subs[i] \in Pointers(heap) /\ u.subs[i] \in Pointers(heap)
        BY <2>1, <2>2, <2>5
      <4>. QED
        BY <1>4, <2>1, <2>5, <4>1
    <3>. QED
      BY <2>1, <2>5, <3>1
  <2> HIDE DEF t, u, parts
  <2>. QED
    BY <2>1, <2>3, <2>4, <2>5
<1>5. Bad = {}
  <2> HIDE DEF Same
  <2> SUFFICES ASSUME Bad # {} PROVE FALSE
    OBVIOUS
  <2>1. Bad \in SUBSET Nat
    OBVIOUS
  <2>2. PICK m \in Bad : \A k \in Bad : m <= k
    BY <2>1, Least
  <2>3. m # 0 => m - 1 \in 0..depth /\ m - 1 < m
    OBVIOUS
  <2>4. m # 0 => Same(m - 1)
    BY <2>2, <2>3
  <2>5. m \in 0..depth /\ ~Same(m)
    OBVIOUS
  <2>. QED
    BY <1>4, <2>4, <2>5
<1>6. Same(depth)
  <2> HIDE DEF Same
  <2>. QED
    BY <1>5
<1>. QED
  BY <1>3, <1>6

LEMMA NamesIdentify ==
  Inv /\ Typed /\ NamesInv /\ SourceInv => (IndexFree => OneNameOneType)
<1> SUFFICES ASSUME Inv, Typed, NamesInv, SourceInv, IndexFree, Idle, DistinctNames, NothingIsNever,
                    NEW p \in Pointers(heap), heap[p].kind = "def",
                    NEW q \in Pointers(heap), heap[q].kind = "def",
                    heap[p].name = heap[q].name
             PROVE  Unfolding(p, Depth) = Unfolding(q, Depth)
  BY DEF OneNameOneType
<1>1. NeverFree(heap)
  BY NeverFreeIs
<1>2. SoundHeap(heap) /\ WordedHeap(heap) /\ SourceHeap(heap) /\ NamedHeap(heap)
  BY <1>1 DEF Inv, Typed, SoundHeap, NamesInv, SourceInv
<1>3. UnsetIn(heap) = {}
  <2>1. Len(frames) = 0
    BY DEF Idle
  <2>2. OpenReferences = {}
    BY <2>1 DEF OpenReferences
  <2>. QED
    BY <2>2 DEF Inv, UnsetInv
<1>4. BareId(heap, p) = BareId(heap, q)
  BY <1>2 DEF NamedHeap, NamesFit
<1>. QED
  BY <1>2, <1>3, <1>4, IdsIdentify, DepthAssumption

\* In a program without T["m"] whose declarations have names of their own, and in
\* which no declaration turned out to be never, the definitions of one name are of
\* one type, to any depth and for any number of roots: what a name is printed from
\* says which declaration it is of and for which arguments (GetName and GetID), and
\* appendRootChildDefinitions may keep whichever comes first (generator.go:147-175).
THEOREM OneNameIsOneType == Spec => [](IndexFree => OneNameOneType)
BY NamesIdentify, SourceIsInductive, PTL
=============================================================================
