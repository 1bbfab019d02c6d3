------------------------------- MODULE TypeHeap -------------------------------
(***************************************************************************)
(* The intermediate types the parsers build, as a heap: a sequence of      *)
(* records whose index is the Go pointer.  Types are compared by pointer,  *)
(* and distinct instances may have the same ID.                            *)
(*                                                                         *)
(*   kind   "prim" | "never" | "unknown" | "object" | "tuple" |            *)
(*          "alias" | "def" | "ref"                                        *)
(*   id     the stored ID of a primitive, an object, an alias, a reference  *)
(*   name   the stored name of a definition or a reference                 *)
(*   subs   the types it is made of; a reference has none until SetType    *)
(*                                                                         *)
(* An ID or a name is the sequence of the tokens its string is printed     *)
(* from: a tag with the declaration or the name it is about and the number *)
(* of the IDs or names inside it, then the tokens of these.                *)
(***************************************************************************)
EXTENDS Naturals, Sequences

Ext == INSTANCE SequencesExt

Id(tag, of, args) == <<[tag |-> tag, of |-> of, parts |-> Len(args)]>> \o Ext!FlattenSeq(args)

NoId == Id("", "", <<>>)

\* Mutant of StripDef: one prefix only.
StripOneDef(id) == IF Head(id).tag = "def" THEN Tail(id) ELSE id

\* Every "def-" is taken out of the ID, wherever it stands.
StripDef(id) ==
  Ext!FlattenSeq([i \in 1..Len(id) |-> IF id[i].tag = "def" THEN <<>> ELSE <<id[i]>>])

NewType(kind, id, name, subs) == [kind |-> kind, id |-> id, name |-> name, subs |-> subs]

Prim(name)              == NewType("prim", Id("prim", name, <<>>), NoId, <<>>)
Never                   == NewType("never", NoId, NoId, <<>>)
Unknown                 == NewType("unknown", NoId, NoId, <<>>)  \* with ErroredSource set
Object(id, subs)        == NewType("object", id, NoId, subs)
TupleOf(subs)           == NewType("tuple", NoId, NoId, subs)
Alias(id, inner)        == NewType("alias", id, NoId, <<inner>>)
Definition(name, inner) == NewType("def", NoId, name, <<inner>>)
Reference(id, name)     == NewType("ref", id, name, <<>>)

Pointers(heap) == 1..Len(heap)

HasType(heap, p) == heap[p].subs # <<>>

IsNeverLike(heap, p) == heap[p].kind = "never"

\* ID(): stored, or for a definition, a tuple, never and unknown put together
\* from the IDs the parts have now.
TypeId(heap, p) ==
  LET id[q \in Pointers(heap)] ==
        IF heap[q].kind \in {"prim", "object", "alias", "ref"}
        THEN heap[q].id
        ELSE Id(heap[q].kind, "", [i \in 1..Len(heap[q].subs) |-> id[heap[q].subs[i]]])
  IN id[p]

TypeIds(heap, ps) == [i \in 1..Len(ps) |-> TypeId(heap, ps[i])]

\* Name(): its own for a definition or a reference, the ID for the rest.
TypeName(heap, p) ==
  IF heap[p].kind \in {"def", "ref"} THEN heap[p].name ELSE TypeId(heap, p)

TypeNames(heap, ps) == [i \in 1..Len(ps) |-> TypeName(heap, ps[i])]

\* Mutant of SetType: the type itself is forgotten.
SetTypeIdAndName(heap, ref, p) ==
  [heap EXCEPT ![ref].id   = TypeId(heap, p),
               ![ref].name = TypeName(heap, p)]

\* Mutant of SetType: the name is taken for the ID.
SetTypeNameAsId(heap, ref, p) ==
  [heap EXCEPT ![ref].subs = <<p>>,
               ![ref].id   = TypeName(heap, p),
               ![ref].name = TypeName(heap, p)]

\* SetType: a reference takes over the ID and the name of what it refers to.
SetType(heap, ref, p) ==
  [heap EXCEPT ![ref].subs = <<p>>,
               ![ref].id   = TypeId(heap, p),
               ![ref].name = TypeName(heap, p)]

\* DerefType: through definitions, aliases and the references that are set.
DerefType(heap, p) ==
  LET deref[q \in Pointers(heap)] ==
        IF heap[q].kind \in {"def", "alias", "ref"} /\ HasType(heap, q)
        THEN deref[heap[q].subs[1]]
        ELSE q
  IN deref[p]

DerefAliasedType(heap, p) ==
  LET deref[q \in Pointers(heap)] ==
        IF heap[q].kind = "alias" THEN deref[heap[q].subs[1]] ELSE q
  IN deref[p]
=============================================================================
