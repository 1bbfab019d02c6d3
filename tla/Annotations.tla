----------------------------- MODULE Annotations -----------------------------
(***************************************************************************)
(* From JSDoc comments to annotations of a type: the annotations readers   *)
(* find comments and tags of a declaration and of those it inherits from,  *)
(* and AnnotatedNodeParser puts them around the type, a layer per node.    *)
(*                                                                         *)
(* Where comments stand, and what symbol a node has, is external.  Links   *)
(* in comments are left out; nullable and what the discriminator tag does  *)
(* are in TypeFormatter.                                                   *)
(***************************************************************************)
EXTENDS Json5

CONSTANTS
  Nodes,       \* name -> a node, see below
  Symbols,     \* name -> its declarations, see below
  Bases,       \* name -> the definition of a type without annotations
  ExtraTags,   \* the names of --extra-tags
  Descriptions \* of "markdown" and "full": --markdown-description, --full-description

ASSUME DescriptionsAssumption == Descriptions \subseteq {"markdown", "full"}

(* A text is a sequence of lexemes, or the one that is being written:      *)
Written == [written |-> TRUE]
Fixed(t) == [written |-> FALSE, of |-> t]
(* a comment, a tag and a declaration are                                  *)
(*   [summary, tags]                                                       *)
(*   [name, text, of]    of: the parameter that a @param tag is for        *)
(*   [kind, name, locations, host]                                         *)
(*                       kind: "member", "parameter" or "other"; locations *)
(*                       have comments, the nearest first; host has those  *)
(*                       of a parameter's signature                        *)
(* and a node is                                                           *)
(*   [symbol, parent, child, base, lib, argument]                          *)
(* whose symbol, or its parent's if that is a property or the like, has    *)
(* the comments; child is the node that is parsed inside, or base the      *)
(* definition of its type; lib is "no", "lib" or "Exclude" with argument.  *)
None == "none"

VARIABLES
  text,      \* what is being written
  heritage   \* symbol -> the symbols of the same name in its bases, in order

-----------------------------------------------------------------------------
(* Tags                                                                    *)

Text(t) == IF t.written THEN text ELSE t.of

RequiresDollar == {"id", "comment", "ref"}

TextTags == {"title", "description", "id", "format", "pattern", "ref", "comment",
             "contentMediaType", "contentEncoding", "discriminator"}

JsonTags ==
  {"minimum", "exclusiveMinimum", "maximum", "exclusiveMaximum", "multipleOf", "minLength",
   "maxLength", "minProperties", "maxProperties", "minItems", "maxItems", "uniqueItems",
   "propertyNames", "contains", "const", "examples", "default", "required", "if", "then",
   "else", "readOnly", "writeOnly", "deprecated"}

\* The first of these, if there are any.
FirstOr(s, otherwise) == IF s = <<>> THEN otherwise ELSE s[1]

\* declarationJSDocTags: of the nearest location whose last comment has tags.
DeclarationTags(declaration) ==
  Last(FirstOr(SelectSeq(declaration.locations, LAMBDA l : l # <<>> /\ Last(l).tags # <<>>),
               <<[tags |-> <<>>]>>)).tags

\* A comment that defines another type says nothing about this one.
IsTypedef(tags) ==
  /\ \E t \in Range(tags) : t.name \in {"typedef", "callback"}
  /\ \A t \in Range(tags) : t.name \notin {"param", "return"}

TagsUnlessTypedef(tags) == IF IsTypedef(tags) THEN <<>> ELSE tags

\* symbolJSDocTags: of all declarations.
SymbolTags(symbol) ==
  IF symbol = None THEN <<>>
  ELSE FlattenSeq([i \in DOMAIN Symbols[symbol] |-> TagsUnlessTypedef(DeclarationTags(Symbols[symbol][i]))])

IsKnown(tag) == tag.name \in TextTags \cup JsonTags \cup ExtraTags

TagText(tag) == IF Text(tag.text) = <<>> THEN <<"true">> ELSE Text(tag.text)

\* Mutant of JsonOrText: a value that is null counts as none.
JsonOrTextUnlessNull(written, parsed) ==
  IF parsed.ok /\ parsed # [ok |-> TRUE, value |-> Null] THEN parsed.value ELSE String(written)

JsonOrText(written, parsed) == IF parsed.ok THEN parsed.value ELSE String(written)

\* parseJSDocTag, for a tag that is known: JSON5 if it is any, otherwise text.
ParseTag(tag) ==
  IF tag.name \in TextTags THEN String(Text(tag.text))
  ELSE JsonOrText(TagText(tag), ParseJson5(TagText(tag)))

Keyword(tag) == IF tag.name \in RequiresDollar THEN "$" \o tag.name ELSE tag.name

\* annotationsFromTags: a later tag overrides.
AnnotationsFromTags(tags) ==
  FoldLeft(LAMBDA annotations, tag : (Keyword(tag) :> ParseTag(tag)) @@ annotations,
           <<>>, SelectSeq(tags, IsKnown))

\* typeAnnotation: the first @asType.
TypeAnnotation(tags) ==
  FirstOr([i \in DOMAIN SelectSeq(tags, LAMBDA t : t.name = "asType") |->
             "type" :> String(Text(SelectSeq(tags, LAMBDA t : t.name = "asType")[i].text))], <<>>)

ExamplesOf(values) == IF values = <<>> THEN <<>> ELSE "examples" :> Array(values)

WithExample(values, parsed) == IF parsed.ok THEN Append(values, parsed.value) ELSE values

\* exampleAnnotation: those that are JSON5.
ExampleAnnotation(tags) ==
  ExamplesOf(FoldLeft(LAMBDA all, t : IF t.name = "example" THEN WithExample(all, ParseJson5(Text(t.text))) ELSE all,
                      <<>>, tags))

-----------------------------------------------------------------------------
(* Descriptions                                                            *)

TrimLeft(s) ==
  LET rest == {i \in DOMAIN s : s[i] \notin Spaces}
  IN  IF rest = {} THEN <<>> ELSE SubSeq(s, CHOOSE i \in rest : \A j \in rest : i <= j, Len(s))

TrimRight(s) == Reverse(TrimLeft(Reverse(s)))
TrimSpace(s) == TrimLeft(TrimRight(s))

\* Mutant of CollapseSingleNewlines: list items are joined too.
CollapseAllSingleNewlines(s) ==
  [i \in DOMAIN s |->
     IF s[i] = "\n" /\ i > 1 /\ s[i - 1] # "\n" /\ i < Len(s) /\ s[i + 1] # "\n"
     THEN " " ELSE s[i]]

CollapseSingleNewlines(s) ==
  [i \in DOMAIN s |->
     IF s[i] = "\n" /\ i > 1 /\ s[i - 1] # "\n" /\ i < Len(s) /\ s[i + 1] \notin {"\n", "*", "-"}
     THEN " " ELSE s[i]]

NoText == [text |-> Fixed(<<>>)]

\* parameterDocumentationComment: what @param tags say of it, the nearest first.
ParameterComment(declaration, comments) ==
  TrimRight(Text(FirstOr(SelectSeq(FlattenSeq([i \in DOMAIN comments |-> comments[i].tags]),
                                   LAMBDA t : t.name = "param" /\ t.of = declaration.name), NoText).text))

\* declarationDocumentationComment: of the nearest location that has comments.
DeclarationComment(declaration) ==
  IF declaration.kind = "parameter" THEN ParameterComment(declaration, FlattenSeq(declaration.host))
  ELSE TrimRight(Text(Last(FirstOr(SelectSeq(declaration.locations, LAMBDA l : l # <<>>),
                                   <<[summary |-> Fixed(<<>>)]>>)).summary))

Joined(lines) == FlattenSeq([i \in DOMAIN lines |-> IF i = 1 THEN lines[i] ELSE <<"\n">> \o lines[i]])

\* symbolDocumentationComment: those of all declarations, each once, on lines.
SymbolComment(symbol) ==
  Joined(FoldLeft(LAMBDA parts, comment :
                    IF comment = <<>> \/ Contains(parts, comment) THEN parts ELSE Append(parts, comment),
                  <<>>, [i \in DOMAIN Symbols[symbol] |-> DeclarationComment(Symbols[symbol][i])]))

\* Only members inherit.
BasesOf(symbol) == IF \E d \in Range(Symbols[symbol]) : d.kind = "member" THEN heritage[symbol] ELSE <<>>

\* Mutant of MoreToAsk: a base that says nothing ends the search.
MoreToAskOfFirst(symbols) == BasesOf(Head(symbols))

\* After a symbol without a comment: its bases, then the others.
MoreToAsk(symbols) == BasesOf(Head(symbols)) \o Tail(symbols)

\* symbolDocumentationCommentWithInheritance: depth first over the bases, each
\* once.  comments are those of the symbols.
RECURSIVE InheritedComment(_, _, _)
InheritedComment(symbols, seen, comments) ==
  CASE symbols = <<>> -> <<>>
    [] symbols # <<>> /\ Head(symbols) \in seen -> InheritedComment(Tail(symbols), seen, comments)
    [] symbols # <<>> /\ Head(symbols) \notin seen /\ comments[Head(symbols)] # <<>> -> comments[Head(symbols)]
    [] OTHER -> InheritedComment(MoreToAsk(symbols), seen \cup {Head(symbols)}, comments)

SymbolComments == [symbol \in DOMAIN Symbols |-> SymbolComment(symbol)]

RECURSIVE Lines(_)
Lines(s) ==
  IF "\n" \notin Range(s) THEN <<s>>
  ELSE <<SubSeq(s, 1, FirstOf(s, 1, {"\n"}) - 1)>> \o Lines(SubSeq(s, FirstOf(s, 1, {"\n"}) + 1, Len(s)))

\* The text of a comment in the source; how it is laid out is external.
Laid(lines) ==
  <<"/**", "\n">> \o FlattenSeq([i \in DOMAIN lines |-> <<" ", "*", " ">> \o lines[i] \o <<"\n">>]) \o <<" ", "*/">>

SourceOf(comment) ==
  Laid(Lines(Text(comment.summary))
         \o [i \in DOMAIN comment.tags |-> <<"@" \o comment.tags[i].name, " ">> \o Text(comment.tags[i].text)])

\* The markers of a comment: jsDocOpenPattern takes a line break with it, and
\* jsDocClosePattern the break and the blanks before it.
WithoutOpening(s) ==
  CASE At(s, 1) # "/**" -> s
    [] At(s, 1) = "/**" /\ At(s, EndOf(s, 2, Spaces \ {"\n"})) = "\n" ->
         SubSeq(s, EndOf(s, 2, Spaces \ {"\n"}) + 1, Len(s))
    [] OTHER -> SubSeq(s, EndOf(s, 2, Spaces \ {"\n"}), Len(s))

WithoutBreak(s) ==
  CASE At(s, Len(s)) # "\n" -> s
    [] At(s, Len(s)) = "\n" /\ At(s, Len(s) - 1) = "\r" -> SubSeq(s, 1, Len(s) - 2)
    [] OTHER -> Front(s)

WithoutClosing(s) ==
  IF At(s, Len(s)) # "*/" THEN s
  ELSE WithoutBreak(SubSeq(s, 1, Len(s) - EndOf(Reverse(s), 2, Spaces \ {"\n"}) + 1))

\* The end of a comment that is not the last begins with a star as well.
WithoutStar(line, trimmed) ==
  CASE At(trimmed, 1) = "*" -> SubSeq(trimmed, IF At(trimmed, 2) = " " THEN 3 ELSE 2, Len(trimmed))
    [] At(trimmed, 1) = "*/" -> <<"/">> \o Tail(trimmed)
    [] OTHER -> line

WithoutStars(lines) == Joined([i \in DOMAIN lines |-> WithoutStar(lines[i], TrimLeft(lines[i]))])

GetTextWithoutStars(s) == WithoutStars(Lines(WithoutClosing(WithoutOpening(s))))

\* jsDocCommentsOf: a parameter has its own only.
JsDocCommentsOf(declaration) ==
  IF declaration.kind = "parameter" THEN declaration.locations[1] ELSE FlattenSeq(declaration.locations)

\* GetFullDescription: of every comment that applies to the declaration.
FullDescriptionOf(comments) ==
  IF comments = <<>> THEN <<>>
  ELSE TrimSpace(GetTextWithoutStars(TrimSpace(
         FlattenSeq([i \in DOMAIN comments |-> SourceOf(comments[i]) \o <<"\n">>]))))

GetFullDescription(declaration) == FullDescriptionOf(JsDocCommentsOf(declaration))

DescriptionOf(markdown) ==
  ("description" :> String(TrimSpace(CollapseSingleNewlines(markdown))))
    @@ (IF "markdown" \in Descriptions THEN "markdownDescription" :> String(markdown) ELSE <<>>)

Described(comment, full) ==
  (IF comment = <<>> THEN <<>> ELSE DescriptionOf(TrimSpace(SelectSeq(comment, LAMBDA c : c # "\r"))))
    @@ (IF "full" \notin Descriptions \/ full = <<>> THEN <<>> ELSE "fullDescription" :> String(full))

\* descriptionAnnotation, of a node that is the first declaration of its symbol.
DescriptionAnnotation(symbol) ==
  IF symbol = None THEN <<>>
  ELSE Described(InheritedComment(<<symbol>>, {}, SymbolComments), GetFullDescription(Symbols[symbol][1]))

-----------------------------------------------------------------------------
(* ExtendedAnnotationsReader and AnnotatedNodeParser                       *)

\* Mutant of MergedAnnotations: what comes later does not override.
MergedKeepingFirst(description, tags) ==
  description @@ TypeAnnotation(tags) @@ ExampleAnnotation(tags) @@ AnnotationsFromTags(tags)

\* The tag of a keyword overrides what else says the same.
MergedAnnotations(description, tags) ==
  AnnotationsFromTags(tags) @@ ExampleAnnotation(tags) @@ TypeAnnotation(tags) @@ description

GetAnnotations(symbol) == MergedAnnotations(DescriptionAnnotation(symbol), SymbolTags(symbol))

\* getAnnotatedNode
AnnotatedSymbol(n) == IF Nodes[n].parent # None THEN Nodes[n].parent ELSE Nodes[n].symbol

AnyDefinition == [fields |-> <<>>, extra |-> <<>>]

\* A type: the definition it has without annotations, and layers of them, the
\* innermost first.
Plain(definition) == [base |-> definition, layers |-> <<>>]
Annotated(type, annotations) ==
  IF annotations = <<>> THEN type ELSE [type EXCEPT !.layers = Append(@, annotations)]

\* Exclude<T, U> has the annotations of T.  Types have no names and no undefined
\* here, which the code looks below first.
AnnotationsOf(type) == IF type.layers = <<>> THEN <<>> ELSE Last(type.layers)

RECURSIVE CreateType(_)
AnnotateType(n, annotations) ==
  CASE "$ref" \in DOMAIN annotations -> Annotated(Plain(AnyDefinition), annotations)
    [] "$ref" \notin DOMAIN annotations /\ Nodes[n].lib = "lib" -> Plain(Bases[Nodes[n].base])
    [] "$ref" \notin DOMAIN annotations /\ Nodes[n].lib = "Exclude" ->
         Annotated(Plain(Bases[Nodes[n].base]), AnnotationsOf(CreateType(Nodes[n].argument)))
    [] OTHER ->
         Annotated(IF Nodes[n].child = None THEN Plain(Bases[Nodes[n].base]) ELSE CreateType(Nodes[n].child), annotations)

\* CreateType: @ref stands for the whole type; what the libraries say is left out.
CreateType(n) == AnnotateType(n, GetAnnotations(AnnotatedSymbol(n)))
=============================================================================
