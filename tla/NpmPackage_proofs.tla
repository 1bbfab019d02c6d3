---------------------------- MODULE NpmPackage_proofs ----------------------------
(***************************************************************************)
(* For every command line, environment, size of a schema and of a buffer:  *)
(* what the functions of the npm package tell their caller, and what the   *)
(* launcher tells a script.                                                *)
(***************************************************************************)
EXTENDS NpmPackage, CommandLine_proofs

-----------------------------------------------------------------------------
(* The package runs the command line: all that is proved of it holds here. *)

LEMMA PackageStep == [PackageNext]_packageVars => [Next]_vars
<1> SUFFICES ASSUME [PackageNext]_packageVars PROVE [Next]_vars
  OBVIOUS
<1>1. CASE Child
  BY <1>1 DEF Child, Next
<1>2. CASE KillChild \/ Overflow
  BY <1>2 DEF KillChild, Overflow, Next
<1>3. CASE Caller
  BY <1>3 DEF Caller, Start, ReadStdout, ReadStderr, OnError, OnClose, SpawnSyncReturns, LauncherReturns, vars
<1>4. CASE UNCHANGED packageVars
  BY <1>4 DEF packageVars
<1>. QED
  BY <1>1, <1>2, <1>3, <1>4 DEF PackageNext

\* Whatever node and the caller do in between, the child behaves as the
\* command line does by itself (index.js:119, bin/ts-json-schema-generator.js:20).
THEOREM PackageRunsTheCommandLine == PackageSpec => Spec
<1>1. PackageInit => Init
  BY DEF PackageInit
<1>. QED
  BY <1>1, PackageStep, PTL DEF PackageSpec, Spec

-----------------------------------------------------------------------------
(* The inductive invariant. *)

\* A child that has ended takes no more steps.
EndInv ==
  /\ status = Killed => pc = "killed"
  /\ Ended <=> pc = "killed" \/ status \in {0, 1, 2}

\* What the functions ask for: one schema, on stdout.
AskedInv ==
  /\ entry \in {"launcher", "generateSchema", "generateSchemaSync"}
  /\ entry # "launcher" => args.flags \in {"ok", "choice"} /\ ~args.out /\ args.outdir = "none"

\* For them, no error means that all of the schema was written.
SentInv ==
  /\ sent \in Nat
  /\ entry # "launcher" =>
       /\ err # "help" /\ pc \notin {"open", "write"}
       /\ pc \in {"release", "exit"} /\ err = "nil" => sent = Chunks
       /\ status = 0 => err = "nil"

\* The outcome is what the child left behind when it had ended, all of it.
OutcomeInv ==
  Settled /\ Spawned =>
    /\ Ended
    /\ entry = "generateSchema" => outcome = Result(Complains, sent)
    /\ entry = "generateSchemaSync" =>
         outcome = IF sent > MaxBuffer THEN Failure("spawn") ELSE Result(Complains, sent)
    /\ entry = "launcher" => outcome = ExitWith(IF status = Killed THEN 1 ELSE status)

\* Without a child there is only failure.
ChildInv ==
  /\ child \in {"none", "spawned", "failed"}
  /\ Settled /\ ~Spawned /\ entry = "launcher" => outcome = ExitWith(1)

PackageInv == CheckerInv /\ EndInv /\ AskedInv /\ SentInv /\ OutcomeInv /\ ChildInv

LEMMA CallerKeepsTheChild == Caller => UNCHANGED vars
BY DEF Caller, Start, ReadStdout, ReadStderr, OnError, OnClose, SpawnSyncReturns, LauncherReturns

\* After its end nothing of the child changes.
LEMMA EndIsFinal == PackageInv /\ Ended /\ [Next]_vars => UNCHANGED vars
<1> SUFFICES ASSUME PackageInv, Ended, [Next]_vars PROVE UNCHANGED vars
  OBVIOUS
<1>1. pc \in {"exit", "killed"} /\ status # Running
  BY DEF PackageInv, CheckerInv, EndInv, Ended
<1>. QED
  BY <1>1 DEF Next, Run, ParseFlags, ValidateOutdirFlags, CreateGenerator, GenerateSchema, OpenFile,
       WriteFile, WriteStdout, Release, Exit, Kill

\* The end of the child is one of the command line's steps.
LEMMA EndStep == CheckerInv /\ EndInv /\ [Next]_vars => EndInv'
<1> SUFFICES ASSUME CheckerInv, EndInv, [Next]_vars PROVE EndInv'
  OBVIOUS
<1> USE DEF CheckerInv, Steps, EndInv, Ended, Running, Killed
<1>1. CASE Run
  <2>1. status # Killed /\ pc # "killed"
    BY <1>1 DEF Run, ParseFlags, ValidateOutdirFlags, CreateGenerator, GenerateSchema, OpenFile, WriteFile,
         WriteStdout, Release, Exit
  <2>2. pc' # "killed" /\ (status' = status \/ status' \in {0, 1, 2})
    BY <1>1, <2>1 DEF Run, ParseFlags, ValidateOutdirFlags, CreateGenerator, GenerateSchema, OpenFile, WriteFile,
         NextType, WriteStdout, Release, Exit, Go, ReturnWith, ExitCode
  <2>. QED
    BY <2>1, <2>2
<1>2. CASE Kill
  BY <1>2 DEF Kill
<1>3. CASE UNCHANGED vars
  BY <1>3 DEF vars
<1>. QED
  BY <1>1, <1>2, <1>3 DEF Next

\* The arguments and the entry point stay.
LEMMA AskedStep == AskedInv /\ [PackageNext]_packageVars => AskedInv' /\ entry' = entry /\ args' = args
<1> SUFFICES ASSUME AskedInv, [PackageNext]_packageVars PROVE AskedInv' /\ entry' = entry /\ args' = args
  OBVIOUS
<1>1. args' = args
  BY PackageStep DEF Next, Run, ParseFlags, ValidateOutdirFlags, CreateGenerator, GenerateSchema, OpenFile,
       WriteFile, WriteStdout, Release, Exit, Kill, vars
<1>2. entry' = entry
  BY DEF PackageNext, Child, KillChild, Overflow, Caller, Start, ReadStdout, ReadStderr, OnError, OnClose,
       SpawnSyncReturns, LauncherReturns, callerVars, packageVars
<1>. QED
  BY <1>1, <1>2 DEF AskedInv

\* One schema on stdout is written to the end or is an error.
LEMMA SentStep == PackageInv /\ [PackageNext]_packageVars => SentInv'
<1>nat. ASSUME PackageInv, [PackageNext]_packageVars PROVE sent' \in Nat
  <2>1. sent' = sent \/ sent' = sent + 1
    BY <1>nat, PackageStep DEF Next, Run, ParseFlags, ValidateOutdirFlags, CreateGenerator, GenerateSchema, OpenFile,
         WriteFile, WriteStdout, Release, Exit, Kill, vars
  <2>. QED
    BY <1>nat, <2>1 DEF PackageInv, SentInv
<1> SUFFICES ASSUME PackageInv, [PackageNext]_packageVars, entry # "launcher" PROVE SentInv'
  BY <1>nat, AskedStep DEF PackageInv, SentInv
<1>0. /\ entry' = entry /\ [Next]_vars /\ CheckerInv
      /\ args.flags \in {"ok", "choice"} /\ ~args.out /\ args.outdir = "none"
      /\ err # "help" /\ pc \notin {"open", "write"}
      /\ pc \in {"release", "exit"} /\ err = "nil" => sent = Chunks
      /\ status = 0 => err = "nil"
  BY AskedStep, PackageStep DEF PackageInv, AskedInv, SentInv
<1>running. pc \notin {"exit", "killed"} => status # 0
  BY <1>0 DEF CheckerInv
<1> USE <1>nat DEF SentInv, Go, ReturnWith, Outdir
<1>1. CASE ParseFlags
  BY <1>0, <1>1, <1>running DEF ParseFlags
<1>2. CASE ValidateOutdirFlags \/ CreateGenerator
  BY <1>0, <1>2, <1>running DEF ValidateOutdirFlags, CreateGenerator
<1>3. CASE GenerateSchema
  BY <1>0, <1>3, <1>running DEF GenerateSchema
<1>4. CASE OpenFile \/ WriteFile
  BY <1>0, <1>4 DEF OpenFile, WriteFile
<1>5. CASE WriteStdout
  BY <1>0, <1>5, <1>running DEF WriteStdout
<1>6. CASE Release
  BY <1>0, <1>6, <1>running DEF Release
<1>7. CASE Exit
  BY <1>0, <1>7 DEF Exit, ExitCode
<1>8. CASE Kill
  BY <1>0, <1>8 DEF Kill, Killed
<1>9. CASE UNCHANGED vars
  BY <1>0, <1>9 DEF vars
<1>. QED
  BY <1>0, <1>1, <1>2, <1>3, <1>4, <1>5, <1>6, <1>7, <1>8, <1>9 DEF Next, Run

\* A promise is settled with all there was to read, and once.
LEMMA OutcomeStep == PackageInv /\ [PackageNext]_packageVars => OutcomeInv'
<1> SUFFICES ASSUME PackageInv, [PackageNext]_packageVars, Settled', Spawned'
             PROVE  OutcomeInv'
  BY DEF OutcomeInv
<1>0. entry' = entry /\ args' = args /\ [Next]_vars
  BY AskedStep, PackageStep DEF PackageInv
<1>1. CASE outcome' = outcome /\ child' = child
  <2>1. Settled /\ Spawned
    BY <1>1 DEF Settled, Spawned
  <2>2. Ended /\ UNCHANGED vars
    BY <1>0, <2>1, EndIsFinal DEF PackageInv, OutcomeInv
  <2>. QED
    BY <1>0, <1>1, <2>1, <2>2 DEF PackageInv, OutcomeInv, vars, Ended, Complains, Result, Failed
<1>2. CASE Start
  BY <1>2 DEF Start, Settled, Spawned
<1>3. CASE OnError
  BY <1>3 DEF OnError, Spawned
<1>4. CASE OnClose
  <2>1. CASE outcome = Pending
    <3>1. /\ entry = "generateSchema" /\ Ended
          /\ outcome' = Result(Complains, sent)
      BY <1>4, <2>1 DEF OnClose, Settle
    <3>. QED
      BY <1>0, <1>4, <3>1, CallerKeepsTheChild DEF OutcomeInv, Caller, vars, Ended, Complains, Result, Failed
  <2>2. CASE outcome # Pending
    BY <1>1, <1>4, <2>2 DEF OnClose, Settle
  <2>. QED
    BY <2>1, <2>2
<1>5. CASE SpawnSyncReturns
  <2>1. /\ entry = "generateSchemaSync" /\ Ended /\ child = "spawned" /\ UNCHANGED vars
        /\ outcome' = IF sent > MaxBuffer THEN Failure("spawn") ELSE Result(Complains, sent)
    BY <1>5 DEF SpawnSyncReturns, Spawned
  <2>. QED
    BY <1>0, <2>1 DEF OutcomeInv, vars, Ended, Complains, Result, Failed
<1>6. CASE LauncherReturns
  <2>1. /\ entry = "launcher" /\ Ended /\ UNCHANGED vars
        /\ outcome' = ExitWith(IF status = Killed THEN 1 ELSE status)
    BY <1>6 DEF LauncherReturns, Spawned
  <2>. QED
    BY <1>0, <2>1 DEF OutcomeInv, vars, Ended
<1>7. CASE Child \/ KillChild \/ Overflow \/ ReadStdout \/ ReadStderr \/ UNCHANGED packageVars
  BY <1>1, <1>7 DEF Child, KillChild, Overflow, ReadStdout, ReadStderr, packageVars, callerVars
<1>. QED
  BY <1>2, <1>3, <1>4, <1>5, <1>6, <1>7 DEF PackageNext, Caller

\* A child that could not be run is a failure.
LEMMA ChildStep == PackageInv /\ [PackageNext]_packageVars => ChildInv'
<1> SUFFICES ASSUME PackageInv, [PackageNext]_packageVars PROVE ChildInv'
  OBVIOUS
<1>0. ChildInv /\ entry' = entry
  BY AskedStep DEF PackageInv
<1> USE DEF ChildInv, Settled, Spawned
<1>1. CASE Start
  BY <1>0, <1>1 DEF Start
<1>2. CASE OnError \/ OnClose \/ SpawnSyncReturns
  BY <1>0, <1>2 DEF OnError, OnClose, SpawnSyncReturns
<1>3. CASE LauncherReturns
  BY <1>0, <1>3 DEF LauncherReturns
<1>4. CASE Child \/ KillChild \/ Overflow \/ ReadStdout \/ ReadStderr \/ UNCHANGED packageVars
  BY <1>0, <1>4 DEF Child, KillChild, Overflow, ReadStdout, ReadStderr, packageVars, callerVars
<1>. QED
  BY <1>1, <1>2, <1>3, <1>4 DEF PackageNext, Caller

LEMMA PackageInductive == PackageSpec => []PackageInv
<1>1. PackageInit => PackageInv
  BY DEF PackageInit, Init, PackageInv, CheckerInv, Steps, EndInv, AskedInv, SentInv, OutcomeInv, ChildInv,
       Ended, Settled, Running, Killed
<1>2. PackageInv /\ [PackageNext]_packageVars => PackageInv'
  BY PackageStep, CheckerStep, EndStep, AskedStep, SentStep, OutcomeStep, ChildStep DEF PackageInv
<1>. QED
  BY <1>1, <1>2, PTL DEF PackageSpec

\* The caller of either function is told the schema when the child succeeded, and
\* all it complained of when it failed, in whatever order the streams, the end of
\* the child and the events arrive (index.js:119-147).  The launcher ends
\* with the status the binary ended with, and with 0 only then
\* (bin/ts-json-schema-generator.js:14-24).
THEOREM CallerIsToldAll == PackageSpec => []CallerIsTold
<1>1. PackageInv => FunctionTells
  <2> SUFFICES ASSUME PackageInv, Settled, Spawned, entry # "launcher" PROVE FunctionTells
    BY DEF FunctionTells
  <2>1. /\ Ended /\ entry \in {"generateSchema", "generateSchemaSync"}
        /\ entry = "generateSchema" => outcome = Result(Complains, sent)
        /\ entry = "generateSchemaSync" =>
             outcome = IF sent > MaxBuffer THEN Failure("spawn") ELSE Result(Complains, sent)
    BY DEF PackageInv, OutcomeInv, AskedInv
  <2>2. status = 0 => sent = Chunks
    BY DEF PackageInv, SentInv, CheckerInv
  <2>3. status = 0 => Result(Complains, sent) = Schema(args.types)
    BY <2>2 DEF Result
  <2>4. status # 0 => Result(Complains, sent) = Failed(status, Complains)
    BY DEF Result
  <2>5. /\ \A s, t : Failed(s, t) # Schema(args.types)
        /\ Failure("spawn") # Schema(args.types)
    BY DEF Failed, Failure, Schema
  <2>6. status \in {1, 2} => Complains = TRUE
    BY DEF Complains
  <2>7. status \in {1, 2} => status # 0
    OBVIOUS
  <2>8. CASE entry = "generateSchema"
    BY <2>1, <2>3, <2>4, <2>5, <2>6, <2>7, <2>8 DEF FunctionTells
  <2>9. CASE entry = "generateSchemaSync" /\ sent > MaxBuffer
    <3>1. outcome = Failure("spawn")
      BY <2>1, <2>9
    <3>2. ~(sent <= MaxBuffer)
      BY <2>9, MaxBufferAssumption DEF PackageInv, SentInv
    <3>. QED
      BY <2>5, <2>9, <3>1, <3>2 DEF FunctionTells
  <2>10. CASE entry = "generateSchemaSync" /\ ~(sent > MaxBuffer)
    <3>1. sent <= MaxBuffer
      BY <2>10, MaxBufferAssumption DEF PackageInv, SentInv
    <3>. QED
      BY <3>1, <2>1, <2>3, <2>4, <2>5, <2>6, <2>7, <2>10 DEF FunctionTells
  <2>. QED
    BY <2>1, <2>8, <2>9, <2>10
<1>2. PackageInv => LauncherTells
  <2> SUFFICES ASSUME PackageInv, entry = "launcher", Settled PROVE LauncherTells
    BY DEF LauncherTells
  <2>1. CASE Spawned
    <3>1. Ended /\ outcome = ExitWith(IF status = Killed THEN 1 ELSE status)
      BY <2>1 DEF PackageInv, OutcomeInv
    <3>. QED
      BY <2>1, <3>1 DEF LauncherTells, ExitWith, Killed
  <2>2. CASE ~Spawned
    <3>1. outcome = ExitWith(1)
      BY <2>2 DEF PackageInv, ChildInv
    <3>. QED
      BY <2>2, <3>1 DEF LauncherTells, ExitWith
  <2>. QED
    BY <2>1, <2>2
<1>. QED
  BY <1>1, <1>2, PackageInductive, PTL DEF CallerIsTold
=============================================================================
