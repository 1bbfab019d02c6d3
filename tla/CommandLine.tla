------------------------------ MODULE CommandLine ------------------------------
(***************************************************************************)
(* The process ts-json-schema-generator: flags are checked, the program is *)
(* loaded and a type checker taken, then one schema goes to stdout or to   *)
(* --out, or one per requested type to a file under --outdir.  The checker *)
(* is released by a deferred call on every way out of run.  The process    *)
(* can be killed at any time, and a write can fail half way.               *)
(*                                                                         *)
(* A schema is represented by the request it answers: the list of types.   *)
(***************************************************************************)
EXTENDS Naturals, Sequences, Functions

CONSTANTS
  Invocations,   \* command lines, see below
  Environments,  \* what the process meets, see below
  FileName,      \* type name -> the file <type>.schema.json is on this file system
  Chunks         \* number of writes the schema takes on its way to stdout

(* An invocation is a record of                                            *)
(*   flags     "ok", "help", "bad" (does not parse), "extra" (an argument  *)
(*             that is no flag), "version" or "choice" (no valid value)    *)
(*   types     the --type flags in order                                   *)
(*   out       BOOLEAN: --out is given                                     *)
(*   outdir    "none" (no flag), "empty", "file" (exists, no directory)    *)
(*             or "dir"                                                    *)
(* and an environment one of                                               *)
(*   loads     BOOLEAN: paths, tsconfig and the type check are fine        *)
(*   fails     the types CreateSchema returns an error for                 *)
(*   panics    the types whose parsing panics while TSJSG_DEBUG_PANIC is   *)
(*             set, so that CreateSchema does not recover                  *)
(*   readonly  the files that cannot be opened for writing                 *)

Star == "*"
Slash == "a/b"   \* a type name no file can have
OutFile == "out"

ASSUME ChunksAssumption == Chunks \in Nat \ {0}

ASSUME InvocationsAssumption ==
  \A a \in Invocations :
    /\ a.flags \in {"ok", "help", "bad", "extra", "version", "choice"}
    /\ a.types \in Seq(DOMAIN FileName \cup {Star, "", Slash})
    /\ a.out \in BOOLEAN

VARIABLES
  args,     \* the invocation
  env,      \* the environment
  pc,       \* where run is
  err,      \* what run returns
  checker,  \* "none", "held" or "released"
  done,     \* number of types the --outdir loop is through with
  files,    \* file -> the schema in it, Old, or Partial
  sent,     \* chunks written to stdout
  status    \* how the process ended, Running until then

vars == <<args, env, pc, err, checker, done, files, sent, status>>

Old == <<"old">>          \* what was there before, or nothing
Partial == <<"partial">>  \* truncated, and not yet written to the end
Running == 99
Killed == 98

Files == Range(FileName) \cup {OutFile}

-----------------------------------------------------------------------------
Init ==
  /\ args \in Invocations
  /\ env \in Environments
  /\ pc = "flags"
  /\ err = "nil"
  /\ checker = "none"
  /\ done = 0
  /\ files = [f \in Files |-> Old]
  /\ sent = 0
  /\ status = Running

Go(step) == pc' = step /\ UNCHANGED err

\* Mutant of ReturnWith: the release is the last statement, not deferred.
ReturnWithoutDefer(e) ==
  pc' = (IF checker = "held" /\ e = "nil" THEN "release" ELSE "exit") /\ err' = e

\* run returns; what is deferred by then is the release of the checker.
ReturnWith(e) == pc' = (IF checker = "held" THEN "release" ELSE "exit") /\ err' = e

\* Mutant of ParseFlags: an empty --outdir counts as none.
ParseFlagsByValue ==
  /\ pc = "flags"
  /\ CASE args.flags = "help" -> ReturnWith("help")
       [] args.flags = "bad" -> ReturnWith("flag")
       [] args.flags \in {"extra", "choice"} -> ReturnWith("error")
       [] args.flags = "version" -> ReturnWith("nil")
       [] OTHER -> Go(IF args.outdir \in {"none", "empty"} THEN "load" ELSE "validate")
  /\ UNCHANGED <<args, env, checker, done, files, sent, status>>

\* flag.Parse and what follows it up to the choices.
ParseFlags ==
  /\ pc = "flags"
  /\ CASE args.flags = "help" -> ReturnWith("help")
       [] args.flags = "bad" -> ReturnWith("flag")
       [] args.flags \in {"extra", "choice"} -> ReturnWith("error")
       [] args.flags = "version" -> ReturnWith("nil")
       [] OTHER -> Go(IF args.outdir = "none" THEN "load" ELSE "validate")
  /\ UNCHANGED <<args, env, checker, done, files, sent, status>>

HasDuplicate(s) == \E i, j \in 1..Len(s) : i # j /\ s[i] = s[j]

\* Mutant of OutdirFlagsValid: a type may be asked for twice.
OutdirFlagsValidButDuplicates(a) ==
  /\ a.outdir = "dir"
  /\ ~a.out
  /\ a.types # <<>>
  /\ {Star, "", Slash} \cap Range(a.types) = {}

\* validateOutdirFlags
OutdirFlagsValid(a) ==
  /\ a.outdir = "dir"
  /\ ~a.out
  /\ a.types # <<>>
  /\ {Star, "", Slash} \cap Range(a.types) = {}
  /\ ~HasDuplicate(a.types)

ValidateOutdirFlags ==
  /\ pc = "validate"
  /\ IF OutdirFlagsValid(args) THEN Go("load") ELSE ReturnWith("error")
  /\ UNCHANGED <<args, env, checker, done, files, sent, status>>

\* CreateGenerator: an error on the way leaves nothing to release.
CreateGenerator ==
  /\ pc = "load"
  /\ IF env.loads
     THEN Go("generate") /\ checker' = "held"
     ELSE ReturnWith("error") /\ UNCHANGED checker
  /\ UNCHANGED <<args, env, done, files, sent, status>>

Outdir == args.outdir = "dir"

\* The types of the schema that is next.
Request == IF Outdir THEN <<args.types[done + 1]>> ELSE args.types

Target == IF Outdir THEN FileName[args.types[done + 1]] ELSE OutFile

\* rootNodes: '*' cannot be mixed with names.
RequestFails ==
  \/ Star \in Range(Request) /\ Len(Request) > 1
  \/ Range(Request) \cap env.fails # {}

\* generateSchema; a panic that is not recovered still runs deferred calls.
GenerateSchema ==
  /\ pc = "generate"
  /\ CASE Range(Request) \cap env.panics # {} -> ReturnWith("panic")
       [] Range(Request) \cap env.panics = {} /\ RequestFails -> ReturnWith("error")
       [] OTHER -> Go(IF Outdir \/ args.out THEN "open" ELSE "stdout")
  /\ UNCHANGED <<args, env, checker, done, files, sent, status>>

\* writeSchemaFile: the directory is made and the file truncated ...
OpenFile ==
  /\ pc = "open"
  /\ IF Target \in env.readonly
     THEN ReturnWith("error") /\ UNCHANGED files
     ELSE Go("write") /\ files' = [files EXCEPT ![Target] = Partial]
  /\ UNCHANGED <<args, env, checker, done, sent, status>>

\* Mutant of NextType: the loop stops one type early.
NextTypeButLast ==
  IF Outdir /\ done + 2 < Len(args.types) THEN Go("generate") /\ done' = done + 1
  ELSE ReturnWith("nil") /\ done' = (IF Outdir THEN done + 1 ELSE done)

\* The --outdir loop goes on to the next type, or run returns.
NextType ==
  IF Outdir /\ done + 1 < Len(args.types) THEN Go("generate") /\ done' = done + 1
  ELSE ReturnWith("nil") /\ done' = (IF Outdir THEN done + 1 ELSE done)

\* ... then written, which may fail with some of it on the disk.
WriteFile ==
  /\ pc = "write"
  /\ \/ files' = [files EXCEPT ![Target] = Request] /\ NextType
     \/ ReturnWith("error") /\ UNCHANGED <<files, done>>
  /\ UNCHANGED <<args, env, checker, sent, status>>

\* The schema goes to stdout in pieces; a write may fail (a closed pipe).
WriteStdout ==
  /\ pc = "stdout"
  /\ \/ sent < Chunks /\ sent' = sent + 1 /\ Go("stdout")
     \/ sent < Chunks /\ ReturnWith("error") /\ UNCHANGED sent
     \/ sent = Chunks /\ ReturnWith("nil") /\ UNCHANGED sent
  /\ UNCHANGED <<args, env, checker, done, files, status>>

\* defer release()
Release ==
  /\ pc = "release"
  /\ checker = "held"
  /\ checker' = "released"
  /\ Go("exit")
  /\ UNCHANGED <<args, env, done, files, sent, status>>

\* exitCode; a process that panics exits with status 2.
ExitCode(e) ==
  CASE e \in {"nil", "help"} -> 0
    [] e \in {"flag", "panic"} -> 2
    [] OTHER -> 1

Exit ==
  /\ pc = "exit"
  /\ status = Running
  /\ status' = ExitCode(err)
  /\ UNCHANGED <<args, env, pc, err, checker, done, files, sent>>

Kill ==
  /\ status = Running
  /\ status' = Killed
  /\ pc' = "killed"
  /\ UNCHANGED <<args, env, err, checker, done, files, sent>>

Run ==
  \/ ParseFlags \/ ValidateOutdirFlags \/ CreateGenerator
  \/ GenerateSchema \/ OpenFile \/ WriteFile \/ WriteStdout
  \/ Release \/ Exit

Next == Run \/ Kill

Spec == Init /\ [][Next]_vars

-----------------------------------------------------------------------------
(* Properties *)

Ended == status # Running

\* A command line that asks for schemas, and may.
WantsSchemas == args.flags = "ok" /\ (args.outdir # "none" => OutdirFlagsValid(args))

\* Exit status 0 of a command line that asks for schemas means that every one
\* of them is where it was asked for: each type's schema in a file of its own
\* under --outdir, the one schema in --out, or all of it on stdout.
SuccessIsComplete ==
  status = 0 /\ args.flags = "ok" =>
    CASE args.outdir # "none" ->
           \A i \in 1..Len(args.types) : files[FileName[args.types[i]]] = <<args.types[i]>>
      [] args.outdir = "none" /\ args.out -> files[OutFile] = args.types
      [] OTHER -> sent = Chunks

\* However and whenever --outdir ends, killed or failed: the files of the
\* types before the one it was at are complete, those after it are untouched.
PrefixIsOnDisk ==
  WantsSchemas /\ Outdir =>
    /\ \A i \in 1..done : files[FileName[args.types[i]]] = <<args.types[i]>>
    /\ \A i \in done + 2..Len(args.types) : files[FileName[args.types[i]]] = Old

\* A command line that is refused costs nothing and leaves nothing behind.
RefusedIsHarmless ==
  ~WantsSchemas => checker = "none" /\ sent = 0 /\ \A f \in Files : files[f] = Old

\* The checker is never held when the process ends by itself, whatever went
\* wrong on the way: run releases it before it exits.
ReleasedBeforeExit == Ended /\ status # Killed => checker # "held"

=============================================================================
