----------------------------- MODULE AnnotatedType -----------------------------
(***************************************************************************)
(* From a comment that is being written to the keywords of the schema: the *)
(* readers make layers of annotations of it, AnnotatedDefinition lays them *)
(* over the definition of a type, and the definition is marshalled.        *)
(***************************************************************************)
EXTENDS Annotations, AnnotatedDefinition

CONSTANTS
  Drafts,     \* node -> drafts of its comment: what it is of, what it begins as, what is added
  Heritages,  \* what members of classes and interfaces may inherit from
  MaxAdded    \* bound on the lexemes added

ASSUME MaxAddedAssumption == MaxAdded \in Nat

VARIABLES
  node,     \* the node that is parsed and formatted
  draft,    \* the draft of its comment
  added,    \* number of lexemes added to its comment
  pc        \* "write", "format" or "done"

writingVars == <<text, heritage, node, draft, added>>

vars == <<writingVars, pc, formatVars>>

-----------------------------------------------------------------------------
(* MarshalJSON                                                             *)

\* jsonSafe: as JSON.stringify has it.
RECURSIVE JsonSafe(_)
JsonSafe(value) ==
  CASE value.k = "number" /\ value.digits \in {<<"Infinity">>, <<"NaN">>} -> Null
    [] value.k = "number" /\ value.digits \notin {<<"Infinity">>, <<"NaN">>} /\ IsZero(value.digits) -> Number(FALSE, value.digits)
    [] value.k = "array" -> Array([i \in DOMAIN value.items |-> JsonSafe(value.items[i])])
    [] value.k = "object" -> Object([key \in DOMAIN value.members |-> JsonSafe(value.members[key])])
    [] OTHER -> value

Pairs(f) == {<<key, JsonSafe(f[key])>> : key \in DOMAIN f}

\* Mutant of Emitted: what is in Extra is written whatever was written before.
EmittedTwice(d) == Pairs(d.fields) \cup Pairs(d.extra)

\* What is written, each keyword once.
Emitted(d) == Pairs(Marshalled(d))

-----------------------------------------------------------------------------
Init ==
  /\ node \in DOMAIN Drafts
  /\ heritage \in Heritages[node]
  /\ draft \in Drafts[node]
  /\ text \in draft.begin
  /\ added = 0
  /\ pc = "write"
  /\ annotatedType = Plain(AnyDefinition)
  /\ laid = 0
  /\ pending = {}
  /\ def = AnyDefinition

\* Somebody writes on.
Write ==
  /\ pc = "write"
  /\ added < MaxAdded
  /\ \E lexeme \in draft.add : CanFollow(text, lexeme) /\ text' = Append(text, lexeme)
  /\ added' = added + 1
  /\ UNCHANGED <<heritage, node, draft, pc, formatVars>>

\* CreateType, and the definition of the type without its annotations.
Parse ==
  /\ pc = "write"
  /\ pc' = "format"
  /\ \E type \in {CreateType(node)} : Format(type)
  /\ UNCHANGED writingVars

ApplyNext ==
  /\ pc = "format"
  /\ Apply
  /\ UNCHANGED <<writingVars, pc>>

ReturnLayer ==
  /\ pc = "format"
  /\ NextLayer
  /\ UNCHANGED <<writingVars, pc>>

Marshal ==
  /\ pc = "format"
  /\ laid = Len(annotatedType.layers)
  /\ pc' = "done"
  /\ UNCHANGED <<writingVars, formatVars>>

Next == Write \/ Parse \/ ApplyNext \/ ReturnLayer \/ Marshal

Spec == Init /\ [][Next]_vars

-----------------------------------------------------------------------------
(* Properties *)

\* What a text in a tag stands for: JSON5, and otherwise itself.
Stands(value, written, meanings) == IF meanings = {} THEN value = String(written) ELSE {value} = meanings


\* A text as Markdown has it: its characters, and between them spaces, or breaks
\* where a line is blank or begins an item of a list.
Visible(s) == SelectSeq([i \in DOMAIN s |-> i], LAMBDA i : s[i] \notin Spaces)

Gap(s, from, to) ==
  LET breaks == Cardinality({i \in from + 1..to - 1 : s[i] = "\n"}) IN
  CASE from = 0 \/ to = from + 1 -> "none"
    [] from # 0 /\ (breaks > 1 \/ (breaks = 1 /\ s[to] \in {"*", "-"})) -> "break"
    [] OTHER -> "space"

MarkdownOf(s, visible) ==
  [n \in DOMAIN visible |-> <<Gap(s, IF n = 1 THEN 0 ELSE visible[n - 1], visible[n]), s[visible[n]]>>]
Markdown(s) == MarkdownOf(s, Visible(s))

SaysTheSame(annotations) ==
  /\ Markdown(annotations["description"].chars) = Markdown(text)
  /\ "full" \in Descriptions => annotations["fullDescription"] = String(TrimSpace(text))

\* The description of a comment reads as the comment does, though its lines are
\* joined; the full description is the comment itself, without its stars.
CommentsAreRead ==
  pc = "write" /\ draft.of = "comment" =>
    IF Visible(text) = <<>> THEN GetAnnotations(AnnotatedSymbol(node)) = <<>>
    ELSE SaysTheSame(GetAnnotations(AnnotatedSymbol(node)))

\* The symbols whose comments a symbol may have: itself, and through those that
\* have none their bases.
RECURSIVE Ancestors(_, _, _)
Ancestors(found, comments, n) ==
  IF n = 0 THEN found
  ELSE Ancestors(found \cup UNION {Range(BasesOf(s)) : s \in {t \in found : comments[t] = <<>>}}, comments, n - 1)

AncestorsOf(symbol, comments) ==
  Ancestors({symbol}, comments, Cardinality({s \in DOMAIN heritage : heritage[s] # <<>>}))

\* A base nearer to the front goes first, with all it has itself inherited.
RECURSIVE FirstComment(_, _)
FirstComment(symbols, comments) ==
  CASE symbols = <<>> -> <<>>
    [] symbols # <<>> /\ comments[Head(symbols)] # <<>> -> comments[Head(symbols)]
    [] symbols # <<>> /\ comments[Head(symbols)] = <<>> /\ FirstComment(BasesOf(Head(symbols)), comments) # <<>> ->
         FirstComment(BasesOf(Head(symbols)), comments)
    [] OTHER -> FirstComment(Tail(symbols), comments)

IsAcyclic(symbol, comments) ==
  \A s \in AncestorsOf(symbol, comments) : \A b \in Range(BasesOf(s)) : s \notin AncestorsOf(b, comments)

IsInherited(symbol, comment, comments, heard) ==
  /\ comment = <<>> <=> heard = {}
  /\ heard # {} => comment \in heard
  /\ comments[symbol] # <<>> => comment = comments[symbol]
  /\ IsAcyclic(symbol, comments) => comment = FirstComment(<<symbol>>, comments)

\* A member is described if it or anything it inherits from is, by a comment of
\* its own before all others, and of its bases' in their order; also if the
\* heritage is circular.
CommentsAreInherited ==
  pc = "write" /\ draft.of = "heritage" =>
    \A symbol \in DOMAIN heritage :
      IsInherited(symbol, InheritedComment(<<symbol>>, {}, SymbolComments), SymbolComments,
                  {SymbolComment(s) : s \in AncestorsOf(symbol, SymbolComments)} \ {<<>>})

\* What the comments of a symbol say of a keyword, from most to least telling:
\* its last tag, the examples or the first @asType, and the text.
LastValue(tags, places) == ParseTag(tags[CHOOSE i \in places : \A j \in places : j <= i])

SaidInTags(tags, keys) ==
  [key \in keys |-> LastValue(tags, {i \in DOMAIN tags : IsKnown(tags[i]) /\ Keyword(tags[i]) = key})]

Said(tags, description) ==
  SaidInTags(tags, {Keyword(t) : t \in {u \in Range(tags) : IsKnown(u)}})
    @@ TypeAnnotation(tags) @@ ExampleAnnotation(tags) @@ description

RECURSIVE Expected(_)
ExpectedOf(n, said) ==
  CASE "$ref" \in DOMAIN said -> Spread(said, <<>>)
    [] "$ref" \notin DOMAIN said /\ Nodes[n].lib = "lib" -> Bases[Nodes[n].base].fields
    [] "$ref" \notin DOMAIN said /\ Nodes[n].lib = "Exclude" ->
         Spread(AnnotationsOf(CreateType(Nodes[n].argument)), Bases[Nodes[n].base].fields)
    [] OTHER ->
         Spread(said, IF Nodes[n].child = None THEN Bases[Nodes[n].base].fields ELSE Expected(Nodes[n].child))
Expected(n) == ExpectedOf(n, Said(SymbolTags(AnnotatedSymbol(n)), DescriptionAnnotation(AnnotatedSymbol(n))))

\* Counts are whole numbers.
AreCounts(fields) ==
  \A key \in DOMAIN fields \cap CountFields : fields[key].k = "number" => IsWhole(fields[key].digits)

IsWritten(expected) ==
  AreCounts(expected) =>
    Emitted(def) = Pairs(Restrict(expected, {key \in DOMAIN expected : ~IsUnset(key, expected[key])}))

\* The schema that is written is the definition with the annotations spread over
\* it, layer by layer: no keyword twice, none of an inner layer or of the type in
\* place of an outer one, whatever the order within a layer (an empty enum under
\* another layer is lost).
AnnotationsAreSpread == pc = "done" /\ KeepsLists(annotatedType) => IsWritten(Expected(node))
=============================================================================
