# A verification project for ts-json-schema-generator (Go)

The program turns TypeScript types into JSON Schema: it loads a TypeScript
program with the typescript-go compiler, parses the declarations that were asked
for into *intermediate types*, formats these into schema definitions, and writes
one schema, or with `--outdir` one per type. An npm package wraps the binary.

This directory has TLA+ modules that model it, TLC configurations that check
them on small instances, and TLAPS proofs about seven of them: the parser, the IDs and
names of types, the collection of definitions, the generator, the formatter of
annotations, the command line and the npm package. `PROJECT.json` lists
components, runs, mutants, theorems and hazards, and says for every definition
which lines of the source it stands for.

## 1. The system

The Go process is one goroutine. Its difficulty is not concurrency but state that
outlives the call that made it: caches of the parsers, references that are set
after they were handed out, the formatter's memo, types and definitions that are
shared by pointer. Real concurrency is at the edges: a process that can be killed
while it writes, and a child process whose streams, exit and errors node reports
in any order.

| component (source) | state it keeps | operations | what makes it correct |
|---|---|---|---|
| **Parser chain** `internal/parser/chain.go`, `parser.go`, `shared.go` | `typeCaches` (node and context key to type), `circular` (node key to reference), contexts with arguments and parameters | `CreateType`: cache, circular reference, first parser that supports the node; `TopRefNodeParser` | a cached or circular answer means what parsing anew would; every reference gets set; recursion ends |
| **Declaration parsers** interface, class, alias, literal, enum, expose | the reference of the declaration being parsed | make objects and aliases, set the reference, wrap in a definition | one name stands for one type; `never` spreads |
| **Type-operator parsers** type references, indexed access, tuples, unions, intersections, `keyof`, mapped and conditional types, assignability, narrowing | the infer map of a conditional type, sub-contexts | make a type from parsed types | the result has the values TypeScript gives it; a narrowed union loses nothing |
| **Expression and literal parsers** enums, `typeof`, object and array literals, unary and binary expressions, functions, templates, intrinsics, type literals, named tuple members | the counter of an enum's members | make a type from a value expression or a literal type | the type has the value the expression has at run time, or those TypeScript gives it |
| **JSDoc readers** `annotations_reader.go` and its kin, `json5.go` | position in a text; symbols seen while comments are inherited; the map of annotations | find comments and tags of a symbol, read values, merge, inherit, annotate a type | a value means what JSON5 says, a comment what was written; no annotation is lost or doubled on the way to the schema |
| **Intermediate types** `internal/types` | the types; `ReferenceType.SetType` changes one in place | IDs, names, dereferencing, union and key algorithms | an ID identifies a type; a reference is set before it is followed |
| **Definition collection** `formatter/formatter.go` and the definition, reference and alias formatters | `children` memo of `CircularReferenceTypeFormatter` | depth-first `GetChildren` | no reachable definition is missed, none is invented |
| **Type formatters**, **schema** | `definition` memo; discriminator tags written into union types; definitions changed in place | `GetDefinition` per kind of type, merging of `allOf`, nullability, `RemoveUnreachable` | the schema accepts exactly the values of the type; every `$ref` resolves |
| **Generator** `internal/generator` | parser and formatter, kept over calls | `CreateSchema`: find roots, parse, collect, detect name conflicts, cut down, recover panics | a schema means what the source means, whatever was asked before |
| **Factory**, **command line** `internal/factory`, `cmd` | flags, the type checker that must be released, files | check flags, load, generate, write, release, exit code | exit status 0 is never a lie; no half-written file counts as done |
| **npm wrapper** `npm/ts-json-schema-generator` | the child process, what was read from it | launcher, `generateSchema`, `generateSchemaSync` | the caller gets the whole schema or the whole error, once |
| **Compiler bindings**, **test support and tools** | – | generated shims, development tooling | – |

How they meet: the command line takes a checker through the factory and calls
the generator once, or once per `--outdir` type *on the same generator*. The
generator asks the parser chain for each root; parsers call the chain for every
node below. The formatter then walks the graph of types the parsers left in
memory. Parser caches, the heap of types and the formatter's memos are shared by
all calls; an error ends the process. The npm functions see only exit status,
signal and the two streams.

## 2. The modules

### Collecting definitions: `ChildCollector`

The abstract core: types form a graph, some are definitions, and a call of
`GetChildren` on a type leaves an empty memo entry (`Open`), asks the types below
it (`OpenChild`, or `ReuseChild` when there is an entry, full or still empty) and
fills its entry when it returns (`Close`). `StartRun` is a `createSchema` call:
it may come with a larger graph, but does not change what the formatter has seen.
`known`/`children` are the memo's keys and values, `stack`/`todo`/`acc` the open
Go calls with their loop position and local result. The order in which a type
asks its parts is left open, so what holds here holds for every formatter's order.

### Parsing: `TypeHeap`, `NodeParser`, `TypeIdentity`, `NodeParserProperties`, `SmallPrograms`

`TypeHeap` holds intermediate types as records in a sequence whose index is the Go
pointer; `SetType` changes one in place. An ID or a name is the sequence of tokens its
string is printed from, so two are equal exactly if they print alike (the 32-bit
hashing of IDs is left out).

`NodeParser` is the recursive `CreateType`. `frames` are the open Go calls, with
the node, the context, the reference entered in `circular` and the parts parsed
so far. `ParseRoot` and `ParseNext` make a call, which is answered from the cache
(`UseCache`), from `circular` (`UseCircular`) or opens a frame (`Enter`); the
`Finish…` actions are the rest of each parser after its last child; `PanicOnNil`
is the panic when a reference resolves to nothing. A program is a set of syntax
nodes (`prog`), laid out by `SmallPrograms`: a node knows the declaration it is written in
(`owner`), and is above the nodes it is made of (`height`).

`TypeIdentity` says what IDs and names are for: that an ID stays, that a type has, part by
part, what its declaration says for the arguments in its ID (`FollowsTheSource`, which
compares IDs and so needs no recursion over types), and that one name is one type.
`NodeParserProperties` gives the syntax a meaning of its own by lexical scoping –
no contexts, caches or references – and compares types with it by unfolding both
to a fixed depth, since both may be infinite. `NodeParser_proofs` has the proofs about
calls, references, types and the cache, `TypeIdentity_proofs` those about IDs, names and
members.

### Generating: `SchemaGenerator`, `SchemaIdentity`, `SchemaGeneratorProperties`

Extends `NodeParser` with `CreateSchema`: `ParseRequested`/`Parse`, `WrapRoot` (the
top-level `$ref`), `StartCollecting`, `Collect` (the actions of `ChildCollector`
in the order of the formatter's code), `AppendRootChildDefinitions` with its
conflict check, `ReturnSchema` with `RemoveUnreachable`, `Recover`. The graph
the collector walks is computed from the heap (`AsksFor`), including the
definition that `ReferenceTypeFormatter` makes on the fly for a reference to an
unexposed declaration. `CollectorSpec` is the refinement: seen through its
collector variables the generator is a `ChildCollector` (`INSTANCE … WITH`), so
what is proved about `ChildCollector` for every graph is about this code
(`SchemaGenerator_proofs`). `SchemaReferences_proofs` has why the schemas of the first
call lack no definition, why conflicts of names are real, and why a `$ref` means the type
it was put for (`SchemaIdentity`, which says so without recursion over syntax).

### What types mean: `Types`, `Assignability`, `ConditionalType`, `TypeUtils`, `TypeOperators`

Here types are trees that name declarations. `Has(type, value, …)` says which
values a type has, which no code does; it is what the algorithms are compared with.
`Assignability` is `IsAssignableTo` with its infer map passed in and out;
`ConditionalType` the conditional type parser, one action per step (`Choose`,
`NarrowForTrue`, `NarrowForFalse`, `FollowTrue`, `FollowFalse`, `Unite`). `TypeUtils`
has the shared algorithms (flattening, distribution over unions, key lookup);
`Expressions` has the parsers of value expressions and literal types, and beside each what
JavaScript makes of the expression (`Value`), which no code does: coercions of unary and
binary operators, the numbering of enum members, spreads, the rows of a template. The
TypeScript checker is external (`Widened`, `GetConstantValue`). `TypeOperators` applies
intersection, `T[K]`, `keyof`, mapped types, `Record`, templates, intrinsics, type literals
and tuples to each other's results, each step being the `CreateType` of one outer node.

### From types to schemas: `Schemas`, `TypeFormatter`, `TypeFormatterProperties`

`Schemas` has schema definitions as functions from keyword to content, the merging of
`allOf`, nullability, and `Accepts(definition, definitions, value)`, which is a
validator. `TypeFormatter` formats the roots of a request and then the definitions
below them (`FormatRoot`, `AppendRootChildDefinition`, `Serve`) through one
`formatter` record: the definition memo, the discriminator tags that were written into
shared unions, those that are spent, and a failure.

### From comments to keywords: `JsonValues`, `Json5`, `Annotations`, `AnnotatedDefinition`, `AnnotatedType`

A text is a sequence of lexemes, each a character or a word or marker that the readers look
for. `Json5` is the recursive-descent reader, with its position passed in and
out, next to a grammar-like account of what a text means; the digits of `\x`, `\u` and
`0x` are read one by one, the codes they make are numbers, and two halves of a pair
one character. Texts in which two lexemes would run into one are not written
(`CanFollow`). `Annotations` finds the comments and tags of a symbol, its
declarations and its parameters, looks comments up along base types (`InheritedComment`,
with the symbols seen so far), reads full and Markdown descriptions, merges what the four
readers found and puts the result around the type of a node, a layer per node.
`AnnotatedDefinition` lays layers of annotations over a definition: `Format` begins with
a copy of the definition of the type (`Clone`, which loses empty lists), `Apply` takes any annotation of the layer that is next (the
order of a Go map is random) and `NextLayer` goes on to the one around it.
`AnnotatedType` is one node on its way: `Write` adds a lexeme to the text of a comment
or a tag, `Parse` makes the layers, `ApplyNext` and `ReturnLayer` lay them, and
`Marshal` is what of the definition is written.

### The processes: `CommandLine`, `NpmPackage`

`CommandLine` is `run` from `flag.Parse` to the exit code, with `Kill` possible at any
moment, `OpenFile` (truncates) apart from `WriteFile` (may fail half way), stdout
written in pieces, and `Release` as the deferred call. A schema is represented by
the list of types it is for. `NpmPackage` extends it: the child's steps interleave
with reading its streams, `close`, `error`, the kill of `spawnSync` at `maxBuffer`
and the return of the launcher.

## 3. The runs

All passing runs explore their instances completely. `CHECK_DEADLOCK FALSE`
everywhere: each of these processes ends, or stops at a bound on its calls, and
that is not an error.

| run | instance and bounds | shows |
|---|---|---|
| `collect` | two definitions, their two objects, one reference; every graph of the family, every root set, two calls (`MaxRuns`) | the first call is complete in every order, no call invents a definition, entries are final, every call ends |
| `parse` | 959 programs of four declarations `A`, `B`, `G<T>`, `L<U>` whose members come from a menu of references, tuples, generic instances and indexed access, or can never be there; two roots (`MaxCalls`), types compared 4 levels deep (`Depth`); 76,595 states | the caches and circular references do not change what a type means, nor which members it has for its arguments (`TypesFollowTheSource`); references are unset exactly while open; names identify types; IDs and cached types stay as they are; every call returns |
| `generate` | 223 programs, exposed or not, with or without top-level `$ref`; one call for two roots, or two calls for one each (`Sessions`); 163,932 states | the schema means the source through its own `$ref`s, each `$ref` means the type it was put for (`RefsMeanTheirTypes`), no definition is missing, conflicts are real, errors are returned and end the request, and `CollectorSpec` |
| `conditional` | every pair of a check and an extends type from 38 and 48 types of every kind; 14,592 states | assignability is sound, and complete on plain types; narrowing splits without loss and keeps names |
| `operators` | operands of every kind, 26 variables whose initialisers take every form of expression, six enums, two operators in a row (`MaxOperators`); 73,044 states | each operator has the values TypeScript gives it, `typeof` and enums have the value the expression has at run time, and literals, templates and tuples the values that are written |
| `annotations` | texts of up to three lexemes after one of several beginnings, over alphabets that have every kind of token next to what confuses it; four members, two of which inherit from any two of the four or from none and a third from the first at most; types of up to two layers of annotations, over all orders of applying them; 164,891 states | values are read as JSON5 or else as text, comments say what was written and are inherited from the first base that has one, each annotation ends in one keyword, with the value of the outermost layer |
| `format` | 24 declarations; two requests per process, both encodings of discriminated unions; 2,322 states | the schema accepts the values of the type and no others, every `$ref` resolves, requests do not disturb each other |
| `npm` | up to three `--type` flags over three names, `*`, and a name with a slash; every combination of flags and of what fails around the process, through the launcher and, for one schema on stdout, both functions; `Chunks` 3 and `MaxBuffer` 2, so that a schema can be too large; 339,292 states | exit status 0 is never a lie, the files are whole up to where `--outdir` stopped, a refused command line leaves no trace, the checker is given back; the caller of a function is told the whole schema or the whole error and that of the launcher the status of the child (`CallerIsTold`), and every call settles (hence the child ends) |
| `ring`, `names`, `format_tags` | one or a few programs each | violations: section 5 |

Why these bounds suffice for what is asked: a memo or cache can only be wrong
through an entry another call left, so two calls show it; the longest cycle in
`parse` and `generate` passes through two declarations and a generic, which makes
every combination of open, circular and cached answers happen; recursion of
generics is regular after one instance; conflicts need two declarations; a
narrowing needs a union in a union; a reader looks one lexeme ahead, so that three after
any beginning reach every pair of its decisions; the `--outdir` loop has a first, a middle and a
last type with three flags; a stream read in three pieces has a beginning, a middle
and an end. Mutants, one or more per property, confirm that each property can fail
there: they drop a guard, forget part of a key, keep what should be reset, or
swap an order, in the definition they name.

### Fairness

The fair specifications of `ChildCollector`, `NodeParser` and `SchemaGenerator` assume
weak fairness of the steps of the running call only: the single goroutine never
waits for anything and goes on while it can. Nothing makes anyone *start* a call.
`NpmPackage` assumes it for the child's own steps and for node's event loop.
`Kill` is never fair. `ConditionalType`, `TypeOperators`, `AnnotatedType` and
`TypeFormatter` are checked for safety only, which assumes nothing.

## 4. What is proved

TLAPS proves, for every value of the constants:

* `ChildCollector_proofs`, from `DefinitionsAssumption`, `GraphsAssumption` and
  `MaxRunsAssumption` (any set of types, any family of graphs, any number of calls):
  * `TypeCorrect`: `Spec => []TypeOK`.
  * `FirstRunIsComplete`: `Spec => []FirstRunComplete`. That the collection
    contains what is reachable is not inductive: a returned type's entry is *not*
    complete. What is preserved (`CompleteInv`) is that everything known or still to
    be asked accounts for every edge (`WalkedIsClosed`: a type that is known and no
    longer open has only known successors; `RootsAccounted`), and that every
    definition met in the call is in what an open call has gathered or already in
    `collected` (`OnItsWay`). When the stack and `pending` are empty this says that the
    known types are closed under the graph and all their definitions collected.
    `NothingBeforeFirst` limits it to the first call, which is sharp: run `ring`
    violates it for the second.
  * `CollectionIsSound`: `Spec => []CollectsOnlyReachable`, from `SoundInv`: entries and
    what is gathered are below their type, and each open call is a child of the one
    under it (`CallChain`).
  * `EntriesNeverChange`: the action property `EntriesAreFinal`.
* `CommandLine_proofs`, from `InvocationsAssumption` and `ChunksAssumption`:
  * `CheckerGivenBack`: `Spec => []ReleasedBeforeExit`, for every command line and
    environment, by `CheckerInv` (which steps run with the checker held).
  * `SuccessIsTrue`: `Spec => []SuccessIsComplete` *assuming* `FilesAreApart` (no two type
    names share a file). The invariant adds `AllowedInv` (what was validated to get
    here), `LoopInv` (the files of the types before the current one are whole – kept
    because validation refused duplicates and files are apart, `TargetIsNew`) and
    `ReturnInv` (a nil error is only returned when everything was written).
  * `PrefixIsKept`: `Spec => []PrefixIsOnDisk`, under the same assumption, with
    `UntouchedInv` for the files the loop has not come to.
  * `RefusedCostsNothing`: `Spec => []RefusedIsHarmless`, without it: `AllowedInv`
    says that no step from the load on is reached by a command line that is refused.
* `NpmPackage_proofs`, which also needs `MaxBufferAssumption`:
  * `PackageRunsTheCommandLine`: `PackageSpec => Spec`. Each step of the package is a
    step of the command line or leaves its variables alone, so the theorems above hold
    of the child process as well.
  * `CallerIsToldAll`: `PackageSpec => []CallerIsTold`, for both functions and the launcher,
    by `OutcomeInv`: an outcome was made when the child had ended and its streams were
    empty, and neither changes after that (`EndIsFinal`); and `SentInv`: for the
    functions, no error means that all of the schema was written.
* `NodeParser_proofs`, from `ProgramsAssumption` (the layout of syntax nodes) and
  `MaxCallsAssumption`, for every program:
  * `CircularHasOpenCalls`: `Spec => []CircularIsOpen` (no run checks it: it says in general
    what `NoDanglingReference` needs), and
  * `ReferencesAreSet`: `Spec => []NoDanglingReference`. They hold only together. The
    invariant (`Inv`) adds that each open declaration has a reference of its own which is
    unset, so that setting one leaves the others unset and taking its key out
    of `circular` leaves theirs in; that it is a new one follows from the guard of
    `Enter`. What types are made of plays no part: the recursive functions of
    `TypeHeap` stay opaque.
  * `TypesNeverChange`: `Spec => TypesAreFinal`. A step adds types and sets a reference
    that was unset, by the same invariant, and changes nothing else that was made.
  * `ParserTypeOK`: `Spec => []TypeOK`. The invariant (`Typed`) adds that a type is made of
    *older* ones, all but a reference, and that a reference which has a type goes by
    its name. That following references ends in the heap is not part of it: `FinishIndex`
    takes a step only if it does, and that it never gets stuck there is the liveness
    property `EveryCallReturns`, which is model-checked.
  * `CachedTypesStay`: `Spec => CachedTypesAreFinal`. The first attempt failed, rightly:
    that an entry of the cache is never replaced, which the property said before, is
    false. On `type L<U> = { 1: [{ 1: L<number>["1"] }] }`, reached through
    `T["m"]`, a tuple is parsed again in the same context while it is open; the inner
    call caches its answer and the outer one replaces it (`chain.go:48-57` asks the
    cache once, before the call). No harm is done, since both are built alike, but
    they are different pointers. The property now says that the entry of a call that
    is still open may be replaced and no other; `parse` has the program
    (`ReentrantPrograms`).
* `TypeIdentity_proofs`, which also needs `DepthAssumption`: what IDs are for.
  `BareId` is the ID of a type without `def-`, which comes and goes with definitions. All
  three theorems are about programs in which no declaration turned out to be never
  (`NothingIsNever`), and are false without that: a reference that was handed out has the
  ID of its declaration, and the type it gets has `never`'s.
  * `IdsStay`: `Spec => IdsAreFinal`. What is printed is a sequence of tokens, so the lemmas
    are about printing (`IdIs`, `StripId`, `Flatten` and mapping token by token) and about the
    heap: the recursive function behind `TypeId` exists (`IdsExist`), hangs on older types
    only (`IdBodyOlder`), and a step that adds a type or sets a reference to a type of the same
    name leaves the others what they were (`IdentityGrown`, `IdentitySet`).
  * `ParsedTypesFollow`: `Spec => []TypesFollowTheSource`. The invariant (`SourceInv`) says of
    every open call, of every part it has been given, of the cache and of every reference that
    they have the ID that the syntax has for the arguments in the context (`NodeId`, by induction
    over `height`). Two facts carry it: a cache key that fits the context of a call fits what
    the node means there (`AnswerFits`), and what a `Finish…` action makes is what its
    node stands for (`FinishAnswers`). It needs `NamesInv`, below, for what `circular`
    answers, and programs without `T["m"]`, which has the type of a member and no ID
    of its own.
  * `OneNameIsOneType`: `Spec => [](IndexFree => OneNameOneType)`. Three steps. A name says what
    the ID says (`NamesInv`: the name of a definition or reference, read with the tags of IDs, is
    its ID, `DeclarationNames`). An ID can be read in one way only (`Readable`,
    `IdsReadBack`: from the printed tokens come the declaration and the IDs of the arguments,
    by induction over the length). And the ID of a type gives its kind and the IDs of its
    parts (`Described`, from `SourceInv`), so types with one ID are equal when
    unfolded to any depth (`IdsIdentify`). `IndexFree` is needed: `T["m"]` into a declaration
    that is still being parsed is `T` itself, so the members of a declaration then
    depend on the order of the roots (section 5). For programs with `T["m"]` that do not do
    this the property stays model-checked.
* `SchemaGenerator_proofs`, which also needs `SessionsAssumption` and `MaxHeapAssumption`:
  * `GeneratorCollects`: `GeneratorSpec => CollectorSpec`, the refinement, for every
    program, any roots and any number of calls. Steps of the walk project to steps of
    `ChildCollector`; what has to be shown is that the steps in between, which add types, wrap
    roots and set references, leave the part of the graph that was walked as it was, so
    that the graph of the next call extends the last (`KnownInv`). That rests on
    `Typed` and on types being final. The bookkeeping of requests is in `CallsInv`,
    `RequestInv`, `ParseInv`, `CollectInv` and `IdleInv`.
  * `GeneratorCollectsRight`: with it, `FirstRunComplete` and `CollectsOnlyReachable` hold of the
    generator (the theorems of `ChildCollector_proofs` through `INSTANCE`).
  * `GeneratorKeepsTypes`: the parser's `TypeOK`, `NoDanglingReference`, `TypesAreFinal` and
    `CachedTypesAreFinal` hold over all calls, although the generator wraps roots and calls
    the parser again and again.
* `SchemaReferences_proofs`, from the same assumptions and those of `TypeIdentity_proofs`:
  * `FirstCallIsComplete`: `GeneratorSpec => []FirstCallMissesNothing`. The first call never ends
    with "reference to a missing definition". Two facts meet. `WalkInv`: every
    definition collected is in `definitions` or still to be appended with the present
    root, and every one in `definitions` is below a root. `MeetsNamesBelow`: every
    name `RemoveUnreachable` meets, through any chain of `$ref`s, is that of a definition
    below the roots. `RefsOf` and `ReachableNames` are recursive functions; that they
    exist and where their values lie is shown by the least type, or the least number of
    rounds, for which it would fail (`Least`), since a type is made of older ones.
    `GeneratorCollectsRight` closes the gap: what is below the roots was collected.
  * `SingleCallIsComplete`: `GeneratorSpec => []NoMissingDefinition` *assuming* that
    every session has at most one call. This is what one run of the command line
    without `--outdir` does. It is sharp: run `ring` violates it for two.
  * `OnlyRealConflicts`: `GeneratorSpec => [](NothingIsNever => ConflictsAreReal)`, over any number of
    calls. Two definitions below the roots that go by one name are of types with one ID
    (`NamesOfDefinitions`), so that the check finds nothing to report when declarations have
    names of their own. What `WrapRoot` adds is the case that takes work: its name is
    made from the request and its ID from the type the parser gave, which must be that of
    the requested declaration. `RootsInv` says so of every answer and of the cache entries that
    answer roots, `AskedInv` that answers and requests go together. Without
    `NothingIsNever` it is false: section 5 has a program.
  * `GeneratorKeepsIds`: `GeneratorSpec => IdsAreFinal`, and
  * `GeneratorFollowsTheSource`: `GeneratorSpec => []TypesFollowTheSource`: the definitions wrapped
    around roots included. For `SourceInv` the wrapped root must be an object or an
    alias: it is no reference (`RootTypes`), and its ID is that of a declaration (`WrappedRoot`).
  * `SchemasMeanTheirTypes`: `GeneratorSpec => [](IndexFree => RefsMeanTheirTypes)`. Whatever was put under
    a name in `definitions` has the ID that the name says (`NamedSchemas`, kept by later
    calls because IDs are final), as has every definition and reference that goes by
    the name, and types with one ID are one type to any depth (`IdsIdentify`). For this all
    references have to be set, which they are when a schema was returned
    (`LatestSucceeded`: only the last call can have failed). `DistinctNames` is sharp: run
    `names` shows what happens without it.
* `AnnotatedDefinition_proofs`, which needs no assumption on constants:
  * `LayersAreSpreadInAnyOrder`: `FormatSpec => []LayersAreSpread`. Whatever order the
    keywords of a layer are taken in, the definition is written like the spread of the
    layers over it. The invariant (`LaidInv`) says it of the keywords taken so far, and
    rests on one lemma about `ApplyAnnotation` (`ApplyLays`): what is written changes at
    that keyword only and to its value, whether that goes to a field or to `Extra`. The
    states it starts from (`FormatInit`) have values that mean in Go what they mean in
    TypeScript (`IsFit`): strings for keywords that are string fields, counts that are whole
    and have at most 15 digits, no `type` that is null and no empty `required`; and no list
    that a copy loses stands under another layer (`KeepsLists`), so that every copy is equal
    to what it copies (`CloneIsEqual`). Other counts are cut off by `ToInt`, and what
    `int()` makes of `Infinity` or of too many digits is a constant without an
    assumption (`InexactInt`), because Go leaves it to the platform. What happens otherwise is
    among the known divergences. `FormatSpec` is the part of `AnnotatedType` from `Parse` to `Marshal`, which
    takes its actions from there; that the layers are those the comments ask for is what
    `AnnotationsAreSpread` checks.

Only model-checked:

* Every liveness property: fairness and `ENABLED` are beyond the prover.
* `NoMissingDefinition` over several calls, which is false in general (`ring`) and holds in
  `generate` for the programs listed there; likewise `SchemaMeansTheSource` (`names`).
* `TypesMeanTheSource` and `SchemaMeansTheSource`: they compare types and schemas with a meaning
  that is recursive over syntax and never ends, and hold for programs with `T["m"]` and with
  declarations that are never, where IDs do not tell. What can be said by IDs is proved.
* `OneNameOneType` for programs with `T["m"]` that never takes a member of a declaration in progress.
* Everything in `ConditionalType`, `TypeOperators`, `TypeFormatterProperties` and, but for
  the laying of annotations, `AnnotatedType`: their algorithms and what they are compared with are recursive
  over types, values, texts and schemas, and what a recursive definition computes for
  every input cannot be proved here.

## 5. Where the code and its documentation disagree

Each has a run that ends in a counterexample.

* **`ring`** (`internal/formatter/formatter.go:112`). The entry of a type on a cycle
  is final when its call returns, although types above it were still open. With
  `A {b: B}`, `B {c: C}`, `C {a: A}`, `--outdir d --type C --type A` fails for `A`
  with "reference to a missing definition … this is a bug"; `--type A` alone
  succeeds. With `--no-top-ref` two declarations are enough, because a root is then
  another instance than its definition; `generate` therefore makes second calls
  only with the top-level `$ref` and for cycles of two.
* **`names`** (`internal/generator/generator.go:170`). Definitions of one name are
  compared per root only; across roots the first silently wins.
* **`format_tags`** (`internal/formatter/annotated_type_formatter.go:30`). A
  `@discriminator` before a property is written into the exported union it refers to,
  whose own schema then depends on what was formatted before.

### Known divergences

Met while modelling; their instances are left out of the passing runs (the MC modules
say where), or are outside the properties' preconditions.

* `T["m"]` on an alias of a literal parses the member in the caller's context: with
  `interface G<T> {1: L<number>["2"]}` and `type L<T> = {1: string; 2: T}` the
  member is G's `T`, not `number` (`indexed_access_type_node_parser.go:62`).
* `T["m"]` while `T` is still being parsed is `T` itself, as in
  `interface A {1: B; 2: string}`, `interface B {1: A["2"]}` (`…:130`).
* Whether a member is never is asked before the reference to a declaration in progress is set,
  and answered no: with `interface A {1: L}`, `type L = {1: A; 2: never}` and
  `interface X {1: [L]; 2: L["1"]; 3: A}` one reference to `A` has `A`'s ID and another that of
  `never`, and the request for `X` fails with "type A has multiple definitions" though there is one
  (`interface_and_class_node_parser.go:44`, `generator.go:162`).
* Types `Spec` and `spec` are both accepted under `--outdir` and share a file where
  names ignore case: the theorem needs `FilesAreApart`.
* One map collects what all variants of a check type infer: what a variant inferred before its
  check failed widens the binding that the true branch sees. With
  `T extends {p: infer U; q: string} ? U : never` and `{p: "a"; q: 1} | {p: "b"; q: string}`
  for `T`, `U` is `"a" | "b"` (`conditional_type_node_parser.go:57`).
* Assignability says yes to `{p?: string}` for `{p: string}`, to any tuple for `[]`, to a
  tuple with an optional member for `{length: 2}`, and, as soon as one of two recursive
  types comes round, to whatever the other is; `unknown` is assignable to `{}` and
  function parameters are compared covariantly (`is_assignable_to.go`).
* `("p" | "q") & string` is `string`; `undefined & X` is `undefined`; `T & {}` keeps
  `null` (`typeutils.go:141`).
* `keyof` of an intersection ignores index signatures, of a union it has all keys; a
  mapped type does not distribute over a union, makes an object of an array or tuple,
  and fails for `{[K in E]: T[K]}` over an enum.
* A nullable literal keeps its `const`, which refuses `null` (`make_nullable.go:25`); a
  discriminator whose kind is a named type gives an empty `enum`; `string | E` with a
  numeric enum accepts only strings; a `void` property must be `null`; of two types for
  one property in an intersection the first wins; tuples lose `never` members.
* `typeof E` panics where a member of `E` without initializer follows one whose
  initializer is no number literal (`typeof_node_parser.go:96`); object literals panic on
  methods (`object_literal_expression_node_parser.go:67`).
* `typeof x` of a `let` has the literal type of its initializer; an object spread is an intersection, in
  which no member overrides another; every binary operator is a `+`, of which
  `true + true` is taken for a boolean and a sum with `null` or an enum for a
  string (`binary_expression_node_parser.go`).
* Members of an ambient enum are numbered by position after hidden ones were left out; a
  computed initializer counts by its source text (`enum_node_parser.go:44`, `:83`).
* A named rest member of a tuple whose type is an alias or a tuple loses its `...`, a
  named optional member is required (`named_tuple_member_node_parser.go`); a template
  over `never` is `string`, `Uppercase<string>` panics.
* An enum in a union of keys is not expanded by `Record` and mapped types.
* JSON5: numbers with leading zeros and escapes of digits (`\1`) are accepted, numbers out of range
  are text; `@minItems 1.5` is cut to 1 and `@minItems Infinity` is whatever `int()` gives; an empty `@title` or `@required []` is not
  written, and what an inner layer said stays; an empty list is not
  copied (`definition.go:344`), so that `enum: []` is lost under another layer; a blank line with white space in it does not end
  a paragraph (`json5.go`, `annotated_type_formatter.go:164`).

## 6. What is not modelled, and why

* Call expressions and `Promise`: both ask the TypeScript checker for a type and parse the
  node it makes of it.
* `typeof` of classes and of `globalThis`; mapped types with `as`, and the `propertyNames` that
  an annotated constraint adds; `Exclude<T, U>` for a `T` that is exported or optional.
* `{@link}` and `{@inheritDoc}` in comments: the services layer of the compiler makes their text.
* White space and key order of the output.
* Hashing of IDs (a collision would merge two cache keys; it takes concrete strings).
* The compiler, globs and tsconfig: external. `CommandLine` has whether they succeed.
* In `NodeParser`: base types, index signatures, classes, enums, unions, defaults of
  type parameters. `generator.inspectNode` is abstracted to the exported, non-generic
  declarations.
* `TypeOperators` and `NodeParser` are not composed: one has what an operator makes,
  the other how calls are cached.
* Bindings of the compiler (`src/shim`) are generated declarations without behaviour;
  `src/tools` and the test support are no part of the program that runs.

## 7. Plan

Done, in this order: `ChildCollector` and its proofs; `TypeHeap`, `NodeParser`;
`SchemaGenerator` with the refinement; `CommandLine` and its proofs, `NpmPackage`;
`Types`, `Assignability`, `ConditionalType`; `TypeUtils`, `TypeOperators`; `Schemas`,
`TypeFormatter`; `Expressions`; `Json5`, `Annotations`, `AnnotatedType`; the remaining invariants of
`CommandLine` and `NpmPackage` and the bookkeeping of `NodeParser` proved; the types and the
cache of `NodeParser`, the refinement, the completeness of the first call and the laying of
annotations proved; `TypeIdentity`, with the IDs, names and members of types and the
conflicts of the generator proved.

Next, the model:

1. `NodeParser`: base types, unions and enums; defaults of type parameters.
2. `inspectNode` and `rootNodes`: names of several files, default exports, `*`.
3. An abstract specification of a generator that answers each request alone, and
   `SchemaGenerator` and `TypeFormatter` against it where they keep it.
4. `TypeFormatter` over the `ChildCollector` memo, and with named discriminator kinds.

Next, the proofs:

1. `OneNameOneType` for programs whose `T["m"]` never meets a declaration in progress: a measure
   on the calls that are open.
2. The merging and the nullability of `Schemas`, as far as they are not recursive, the way
   `AnnotatedDefinition` was taken out of `AnnotatedType`.

## 8. Running

`tlc -config MCNodeParser.cfg MCNodeParser.tla` checks a run, `tlapm
ChildCollector_proofs.tla` a proof. The longest run takes two minutes with two
workers.
