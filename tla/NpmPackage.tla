------------------------------- MODULE NpmPackage -------------------------------
(***************************************************************************)
(* The npm package around the binary: the launcher that npx runs, and the  *)
(* functions generateSchema and generateSchemaSync, which turn a config    *)
(* into flags, run CommandLine as a child process and read its streams.    *)
(* The child, the pipes and the caller take their steps independently.     *)
(*                                                                         *)
(* Node itself is external: 'close' comes when the child has ended and     *)
(* both of its streams were read to the end, 'error' when it could not be  *)
(* started; spawnSync kills a child that writes more than maxBuffer.       *)
(***************************************************************************)
EXTENDS CommandLine

CONSTANT MaxBuffer  \* of generateSchemaSync, in chunks

ASSUME MaxBufferAssumption == MaxBuffer \in Nat

VARIABLES
  entry,     \* "launcher", "generateSchema" or "generateSchemaSync"
  config,    \* BOOLEAN: every option of the config has a translation into flags
  binary,    \* "found", "broken" (cannot be run) or "missing"
  child,     \* "none", "spawned" or "failed"
  received,  \* chunks of stdout read
  message,   \* BOOLEAN: what the child wrote to stderr was read
  outcome    \* what the caller gets

callerVars == <<entry, config, binary, child, received, message, outcome>>

Pending == [is |-> "pending"]
Schema(types) == [is |-> "schema", of |-> types]
Failure(why) == [is |-> "failure", why |-> why]
\* failed(status, signal, stderr)
Failed(st, text) == [is |-> "failure", why |-> "child", status |-> st, stderr |-> text]
ExitWith(st) == [is |-> "exit", status |-> st]

-----------------------------------------------------------------------------
\* The functions ask for a schema on stdout and validate no choices; the
\* launcher hands on what it is given.
PackageInit ==
  /\ Init
  /\ entry \in {"launcher", "generateSchema", "generateSchemaSync"}
  /\ entry # "launcher" => args.flags \in {"ok", "choice"} /\ ~args.out /\ args.outdir = "none"
  /\ config \in BOOLEAN
  /\ entry = "launcher" => config
  /\ binary \in {"found", "broken", "missing"}
  /\ child = "none"
  /\ received = 0
  /\ message = FALSE
  /\ outcome = Pending

\* toArgs and resolveBinary fail before there is a child, or it is spawned.
Start ==
  /\ outcome = Pending
  /\ child = "none"
  /\ IF entry # "launcher" /\ ~config THEN outcome' = Failure("config") /\ UNCHANGED child
     ELSE IF binary = "missing" THEN
       /\ outcome' = IF entry = "launcher" THEN ExitWith(1) ELSE Failure("binary")
       /\ UNCHANGED child
     ELSE child' = (IF binary = "broken" THEN "failed" ELSE "spawned") /\ UNCHANGED outcome
  /\ UNCHANGED <<vars, entry, config, binary, received, message>>

Child ==
  /\ child = "spawned"
  /\ Run
  /\ UNCHANGED callerVars

KillChild ==
  /\ child = "spawned"
  /\ Kill
  /\ UNCHANGED callerVars

\* What the child wrote to stderr: nothing on success or when it is killed.
Complains == status \in {1, 2}

\* stdout.on("data") and stderr.on("data"), in either order.
ReadStdout ==
  /\ entry = "generateSchema"
  /\ received < sent
  /\ received' = received + 1
  /\ UNCHANGED <<vars, entry, config, binary, child, message, outcome>>

ReadStderr ==
  /\ entry = "generateSchema"
  /\ Complains
  /\ ~message
  /\ message' = TRUE
  /\ UNCHANGED <<vars, entry, config, binary, child, received, outcome>>

\* A promise keeps its first outcome.
Settle(o) == outcome' = IF outcome = Pending THEN o ELSE outcome

\* What becomes of a child that has ended: text and chunks are what was read.
Result(text, chunks) ==
  CASE status # 0 -> Failed(status, text)
    [] status = 0 /\ chunks = Chunks -> Schema(args.types)
    [] OTHER -> Failure("unparseable")

\* child.on("error")
OnError ==
  /\ entry = "generateSchema"
  /\ child = "failed"
  /\ Settle(Failure("spawn"))
  /\ UNCHANGED <<vars, entry, config, binary, child, received, message>>

\* Mutant of OnClose: child.on("exit"), which does not wait for the streams.
OnExit ==
  /\ entry = "generateSchema"
  /\ child = "spawned"
  /\ Ended
  /\ Settle(Result(message, received))
  /\ UNCHANGED <<vars, entry, config, binary, child, received, message>>

\* Mutant of OnClose: the signal is not looked at.
OnCloseIgnoringSignals ==
  /\ entry = "generateSchema"
  /\ child = "spawned"
  /\ Ended /\ status # Killed
  /\ received = sent
  /\ message = Complains
  /\ Settle(Result(message, received))
  /\ UNCHANGED <<vars, entry, config, binary, child, received, message>>

\* child.on("close")
OnClose ==
  /\ entry = "generateSchema"
  /\ child = "spawned"
  /\ Ended
  /\ received = sent
  /\ message = Complains
  /\ Settle(Result(message, received))
  /\ UNCHANGED <<vars, entry, config, binary, child, received, message>>

\* spawnSync: stops a child that has written too much ...
Overflow ==
  /\ entry = "generateSchemaSync"
  /\ child = "spawned"
  /\ sent > MaxBuffer
  /\ Kill
  /\ UNCHANGED callerVars

\* ... and returns when the child has ended, or did not start.
SpawnSyncReturns ==
  /\ entry = "generateSchemaSync"
  /\ outcome = Pending
  /\ child = "failed" \/ (child = "spawned" /\ Ended)
  /\ outcome' = IF child = "failed" \/ sent > MaxBuffer THEN Failure("spawn")
                ELSE Result(Complains, sent)
  /\ UNCHANGED <<vars, entry, config, binary, child, received, message>>

\* Mutant of LauncherReturns: any failure is exit status 1.
LauncherReturnsOne ==
  /\ entry = "launcher"
  /\ outcome = Pending
  /\ child = "failed" \/ (child = "spawned" /\ Ended)
  /\ outcome' = ExitWith(IF child = "failed" \/ status # 0 THEN 1 ELSE 0)
  /\ UNCHANGED <<vars, entry, config, binary, child, received, message>>

\* execFileSync with inherited streams: the child's status is the launcher's.
LauncherReturns ==
  /\ entry = "launcher"
  /\ outcome = Pending
  /\ child = "failed" \/ (child = "spawned" /\ Ended)
  /\ outcome' = ExitWith(IF child = "failed" \/ status = Killed THEN 1 ELSE status)
  /\ UNCHANGED <<vars, entry, config, binary, child, received, message>>

Caller ==
  \/ Start \/ ReadStdout \/ ReadStderr \/ OnError \/ OnClose
  \/ SpawnSyncReturns \/ LauncherReturns

PackageNext == Child \/ KillChild \/ Overflow \/ Caller

packageVars == <<vars, callerVars>>

PackageSpec == PackageInit /\ [][PackageNext]_packageVars

\* The child's own steps, and node's event loop, go on while they can.
FairPackageSpec == PackageSpec /\ WF_packageVars(Child) /\ WF_packageVars(Caller)

-----------------------------------------------------------------------------
(* Properties *)

Settled == outcome # Pending

Spawned == child = "spawned"

\* The caller of a function gets the schema exactly when the child succeeded, and
\* all the child had to say when it failed.
FunctionTells ==
  Settled /\ Spawned /\ entry # "launcher" =>
    LET fits == entry = "generateSchemaSync" => sent <= MaxBuffer IN
    /\ outcome = Schema(args.types) <=> status = 0 /\ fits
    /\ status \in {1, 2} /\ fits => outcome = Failed(status, TRUE)

\* A script sees the same exit status through the launcher as from the binary.
LauncherTells ==
  entry = "launcher" /\ Settled =>
    /\ outcome = ExitWith(0) => status = 0
    /\ Spawned /\ status \in {0, 1, 2} => outcome = ExitWith(status)

\* Whoever runs the binary is told what came of it: never a piece of a schema or
\* of a complaint, never an error because a stream was read too late, never a
\* success that was none.  A schema larger than maxBuffer is the one exception of
\* generateSchemaSync.
CallerIsTold == FunctionTells /\ LauncherTells

\* Once the child has ended, or could not be run, the caller is told.
EveryCallSettles == child # "none" ~> Settled
=============================================================================
