--------------------------- MODULE CommandLine_proofs ---------------------------
(***************************************************************************)
(* For every command line, environment and file system: what exit status 0 *)
(* promises, and that the checker is given back.                           *)
(***************************************************************************)
EXTENDS CommandLine, TLAPS

\* No two types share a file, so neither do two of one command line.
FilesAreApart == \A s, t \in DOMAIN FileName : FileName[s] = FileName[t] => s = t

-----------------------------------------------------------------------------
(* The inductive invariant. *)

Steps == {"flags", "validate", "load", "generate", "open", "write", "stdout", "release", "exit", "killed"}

\* The checker is held from the load on until it is released; only then does a
\* process exit by itself.
CheckerInv ==
  /\ pc \in Steps
  /\ checker \in {"none", "held", "released"}
  /\ pc \in {"flags", "validate", "load", "exit"} => checker # "held"
  /\ pc \in {"generate", "open", "write", "stdout", "release"} => checker = "held"
  /\ status \in {0, 1, 2, Running, Killed}
  /\ status \in {0, 1, 2} => pc = "exit"

\* A schema is only worked on for a command line that asks for one, and that may.
AllowedInv ==
  /\ done \in Nat
  /\ pc \in {"flags", "validate", "load"} => done = 0
  /\ pc \in {"validate", "load", "generate", "open", "write", "stdout"} => args.flags = "ok"
  /\ pc \in {"load", "generate", "open", "write", "stdout"} /\ args.outdir # "none" => OutdirFlagsValid(args)
  /\ pc \in {"generate", "open", "write", "stdout"} /\ args.outdir # "none" => done < Len(args.types)
  /\ pc \in {"open", "write"} => Outdir \/ args.out
  /\ pc = "stdout" => ~Outdir /\ ~args.out

\* The --outdir loop leaves finished files behind it.
LoopInv ==
  /\ DOMAIN files = Files
  /\ sent \in Nat
  /\ OutdirFlagsValid(args) => \A i \in 1..Len(args.types) : i <= done => files[FileName[args.types[i]]] = <<args.types[i]>>

Complete ==
  CASE args.outdir # "none" ->
         \A i \in 1..Len(args.types) : files[FileName[args.types[i]]] = <<args.types[i]>>
    [] args.outdir = "none" /\ args.out -> files[OutFile] = args.types
    [] OTHER -> sent = Chunks

\* run returns no error only when it is through.
ReturnInv ==
  /\ pc \in {"release", "exit"} /\ err = "nil" /\ args.flags = "ok" => Complete
  /\ err = "help" => args.flags = "help"
  /\ status = 0 => err \in {"nil", "help"}

\* A command line that is refused has done nothing.
RefusedInv == ~WantsSchemas => checker = "none" /\ sent = 0 /\ files = [f \in Files |-> Old]

\* The loop has not come to what is still untouched.
UntouchedInv ==
  OutdirFlagsValid(args) =>
    /\ done <= Len(args.types)
    /\ \A i \in 1..Len(args.types) : i > done + 1 => files[FileName[args.types[i]]] = Old

ControlInv == args \in Invocations /\ CheckerInv /\ AllowedInv

Inv == ControlInv /\ LoopInv /\ ReturnInv

\* What a sequence of types is good for.
LEMMA Lengths ==
  ASSUME NEW S, NEW s \in Seq(S)
  PROVE  /\ Len(s) \in Nat
         /\ s # <<>> => Len(s) > 0
         /\ \A i \in 1..Len(s) : s[i] \in S /\ s[i] \in Range(s)
BY DEF Range

\* The types of a command line, and those it may have under --outdir.
LEMMA Arguments ==
  ASSUME args \in Invocations
  PROVE  /\ Len(args.types) \in Nat /\ args.out \in BOOLEAN
         /\ OutdirFlagsValid(args) =>
              /\ Len(args.types) > 0 /\ args.outdir = "dir"
              /\ \A i \in 1..Len(args.types) :
                   args.types[i] \in DOMAIN FileName /\ FileName[args.types[i]] \in Files
              /\ \A i, j \in 1..Len(args.types) : args.types[i] = args.types[j] => i = j
<1> DEFINE S == DOMAIN FileName \cup {Star, "", Slash}
<1>1. args.types \in Seq(S) /\ args.out \in BOOLEAN
  BY InvocationsAssumption
<1> HIDE DEF S
<1>2. /\ Len(args.types) \in Nat
      /\ args.types # <<>> => Len(args.types) > 0
      /\ \A i \in 1..Len(args.types) : args.types[i] \in S /\ args.types[i] \in Range(args.types)
  BY <1>1, Lengths
<1>3. ASSUME OutdirFlagsValid(args), NEW i \in 1..Len(args.types)
      PROVE  args.types[i] \in DOMAIN FileName /\ FileName[args.types[i]] \in Files
  BY <1>2, <1>3 DEF OutdirFlagsValid, S, Files, Range
<1>4. ASSUME OutdirFlagsValid(args), NEW i \in 1..Len(args.types), NEW j \in 1..Len(args.types),
             args.types[i] = args.types[j]
      PROVE  i = j
  BY <1>4 DEF OutdirFlagsValid, HasDuplicate
<1>. QED
  BY <1>1, <1>2, <1>3, <1>4 DEF OutdirFlagsValid

\* The command line stays the same.
LEMMA ArgumentsStay == args \in Invocations /\ [Next]_vars => args' = args /\ env' = env
BY DEF Next, Run, ParseFlags, ValidateOutdirFlags, CreateGenerator, GenerateSchema, OpenFile,
       WriteFile, WriteStdout, Release, Exit, Kill, vars

\* The steps of run, as far as control goes: each keeps what is said of the checker.
LEMMA CheckerStep == CheckerInv /\ [Next]_vars => CheckerInv'
<1> SUFFICES ASSUME CheckerInv, [Next]_vars PROVE CheckerInv'
  OBVIOUS
<1> USE DEF CheckerInv, Steps, Go, ReturnWith, Running, Killed
<1>1. CASE ParseFlags
  BY <1>1 DEF ParseFlags
<1>2. CASE ValidateOutdirFlags
  BY <1>2 DEF ValidateOutdirFlags
<1>3. CASE CreateGenerator
  BY <1>3 DEF CreateGenerator
<1>4. CASE GenerateSchema
  BY <1>4 DEF GenerateSchema
<1>5. CASE OpenFile
  BY <1>5 DEF OpenFile
<1>6. CASE WriteFile
  BY <1>6 DEF WriteFile, NextType
<1>7. CASE WriteStdout
  BY <1>7 DEF WriteStdout
<1>8. CASE Release
  BY <1>8 DEF Release
<1>9. CASE Exit
  BY <1>9 DEF Exit, ExitCode
<1>10. CASE Kill
  BY <1>10 DEF Kill
<1>11. CASE UNCHANGED vars
  BY <1>11 DEF vars
<1>. QED
  BY <1>1, <1>2, <1>3, <1>4, <1>5, <1>6, <1>7, <1>8, <1>9, <1>10, <1>11 DEF Next, Run

\* The checker is never held when the process has ended by itself, whatever
\* error or panic ended it: run gives it back first (main.go:186-190).
THEOREM CheckerGivenBack == Spec => []ReleasedBeforeExit
<1>1. Init => CheckerInv
  BY DEF Init, CheckerInv, Steps, Running, Killed
<1>2. CheckerInv => ReleasedBeforeExit
  BY DEF CheckerInv, ReleasedBeforeExit, Ended, Running, Killed
<1>. QED
  BY <1>1, CheckerStep, <1>2, PTL DEF Spec

-----------------------------------------------------------------------------
\* What is asked for stays allowed, and --outdir stays within its types.
LEMMA AllowedStep == ControlInv /\ [Next]_vars => AllowedInv'
<1> SUFFICES ASSUME ControlInv, [Next]_vars PROVE AllowedInv'
  OBVIOUS
<1>0. args' = args
  BY ArgumentsStay DEF ControlInv
<1>types. Len(args.types) \in Nat /\ args.out \in BOOLEAN
  BY Arguments DEF ControlInv
<1>valid. OutdirFlagsValid(args) => Len(args.types) > 0 /\ args.outdir = "dir"
  BY Arguments DEF ControlInv
<1> USE DEF ControlInv, CheckerInv, Steps, AllowedInv, Go, ReturnWith, Outdir
<1>1. CASE ParseFlags
  <2>1. args.flags \in {"ok", "help", "bad", "extra", "version", "choice"}
    BY InvocationsAssumption
  <2>. QED
    BY <1>1, <1>0, <2>1 DEF ParseFlags
<1>2. CASE ValidateOutdirFlags
  BY <1>2, <1>0 DEF ValidateOutdirFlags
<1>3. CASE CreateGenerator
  BY <1>3, <1>0, <1>types, <1>valid DEF CreateGenerator
<1>4. CASE GenerateSchema
  BY <1>4, <1>0, <1>valid DEF GenerateSchema
<1>5. CASE OpenFile
  BY <1>5, <1>0, <1>types DEF OpenFile
<1>6. CASE WriteFile
  BY <1>6, <1>0, <1>types, <1>valid DEF WriteFile, NextType
<1>7. CASE WriteStdout
  BY <1>7, <1>0 DEF WriteStdout
<1>8. CASE Release
  BY <1>8, <1>0 DEF Release
<1>9. CASE Exit
  BY <1>9, <1>0 DEF Exit
<1>10. CASE Kill
  BY <1>10, <1>0 DEF Kill
<1>11. CASE UNCHANGED vars
  BY <1>11 DEF vars
<1>. QED
  BY <1>1, <1>2, <1>3, <1>4, <1>5, <1>6, <1>7, <1>8, <1>9, <1>10, <1>11 DEF Next, Run
-----------------------------------------------------------------------------
\* A file that is opened or written is none of those that are finished.
LEMMA TargetIsNew ==
  ASSUME FilesAreApart, Inv, pc \in {"open", "write"}, OutdirFlagsValid(args)
  PROVE  \A i \in 1..Len(args.types) : i <= done => FileName[args.types[i]] # Target
<1>1. done \in Nat /\ done < Len(args.types) /\ Outdir
  BY Arguments DEF Inv, ControlInv, AllowedInv, Outdir
<1>2. done + 1 \in 1..Len(args.types)
  BY <1>1, Arguments DEF Inv, ControlInv
<1>3. ASSUME NEW i \in 1..Len(args.types), i <= done, FileName[args.types[i]] = Target PROVE FALSE
  <2>1. FileName[args.types[i]] = FileName[args.types[done + 1]]
    BY <1>1, <1>3 DEF Target
  <2>2. args.types[i] = args.types[done + 1]
    BY <1>2, <2>1, Arguments DEF FilesAreApart, Inv, ControlInv
  <2>3. i = done + 1
    BY <1>2, <2>2, Arguments DEF Inv, ControlInv
  <2>. QED
    BY <1>1, <1>3, <2>3
<1>. QED
  BY <1>3

\* The file a step of writing is about is one of those there are.
LEMMA TargetIsFile ==
  ASSUME Inv, pc \in {"open", "write"}
  PROVE  Target \in Files
<1>1. CASE Outdir
  <2>1. OutdirFlagsValid(args) /\ done + 1 \in 1..Len(args.types)
    BY <1>1, Arguments DEF Inv, ControlInv, AllowedInv, Outdir
  <2>. QED
    BY <1>1, <2>1, Arguments DEF Target, Inv, ControlInv
<1>2. CASE ~Outdir
  BY <1>2 DEF Target, Files
<1>. QED
  BY <1>1, <1>2

\* Finished files stay finished, and one more is when the loop goes on.
LEMMA LoopStep == FilesAreApart /\ Inv /\ [Next]_vars => LoopInv'
<1> SUFFICES ASSUME FilesAreApart, Inv, [Next]_vars PROVE LoopInv'
  OBVIOUS
<1>0. args' = args
  BY ArgumentsStay DEF Inv, ControlInv
<1>types. /\ Len(args.types) \in Nat
          /\ OutdirFlagsValid(args) => args.outdir = "dir"
  BY Arguments DEF Inv, ControlInv
<1>inv. AllowedInv /\ LoopInv
  BY DEF Inv, ControlInv
<1>1. CASE OpenFile
  <2>1. Target \in Files
    BY <1>1, TargetIsFile DEF OpenFile
  <2>2. DOMAIN files' = Files /\ sent' \in Nat /\ done' = done
    BY <1>1, <1>inv DEF OpenFile, LoopInv
  <2>3. ASSUME OutdirFlagsValid(args), NEW i \in 1..Len(args.types), i <= done
        PROVE  files'[FileName[args.types[i]]] = <<args.types[i]>>
    <3>1. FileName[args.types[i]] # Target
      BY <1>1, <2>3, TargetIsNew DEF OpenFile
    <3>2. FileName[args.types[i]] \in DOMAIN files
      BY <2>3, <1>inv, Arguments DEF Inv, ControlInv, LoopInv
    <3>3. files[FileName[args.types[i]]] = <<args.types[i]>>
      BY <2>3, <1>inv DEF LoopInv
    <3>4. files' = files \/ files' = [files EXCEPT ![Target] = Partial]
      BY <1>1 DEF OpenFile
    <3>. QED
      BY <3>1, <3>2, <3>3, <3>4
  <2>. QED
    BY <1>0, <2>2, <2>3 DEF LoopInv, OutdirFlagsValid
<1>2. CASE WriteFile
  <2>1. Target \in Files
    BY <1>2, TargetIsFile DEF WriteFile
  <2>2. DOMAIN files' = Files /\ sent' \in Nat
    BY <1>2, <1>inv DEF WriteFile, LoopInv
  <2>3. ASSUME OutdirFlagsValid(args), NEW i \in 1..Len(args.types), i <= done'
        PROVE  files'[FileName[args.types[i]]] = <<args.types[i]>>
    <3>1. FileName[args.types[i]] \in DOMAIN files
      BY <2>3, <1>inv, Arguments DEF Inv, ControlInv, LoopInv
    <3>2. \/ files' = files /\ done' = done
          \/ files' = [files EXCEPT ![Target] = Request] /\ done' \in {done, done + 1}
      BY <1>2, <1>inv DEF WriteFile, NextType, AllowedInv
    <3>3. CASE i <= done
      <4>1. FileName[args.types[i]] # Target
        BY <1>2, <2>3, <3>3, TargetIsNew DEF WriteFile
      <4>2. files[FileName[args.types[i]]] = <<args.types[i]>>
        BY <2>3, <3>3, <1>inv DEF LoopInv
      <4>. QED
        BY <3>1, <3>2, <4>1, <4>2
    <3>4. CASE ~(i <= done)
      <4>1. i = done + 1 /\ files' = [files EXCEPT ![Target] = Request]
        BY <2>3, <3>2, <3>4, <1>inv DEF AllowedInv
      <4>2. Target = FileName[args.types[i]] /\ Request = <<args.types[i]>>
        BY <2>3, <4>1, <1>types DEF Target, Request, Outdir
      <4>. QED
        BY <3>1, <4>1, <4>2
    <3>. QED
      BY <3>3, <3>4
  <2>. QED
    BY <1>0, <2>2, <2>3 DEF LoopInv, OutdirFlagsValid
<1>3. CASE WriteStdout
  <2>1. files' = files /\ done' = done /\ sent' \in Nat
    BY <1>3, <1>inv DEF WriteStdout, LoopInv
  <2>. QED
    BY <1>0, <2>1, <1>inv DEF LoopInv, OutdirFlagsValid
<1>4. CASE ParseFlags \/ ValidateOutdirFlags \/ CreateGenerator \/ GenerateSchema \/ Release \/ Exit \/ Kill
  <2>1. files' = files /\ done' = done /\ sent' = sent
    BY <1>4 DEF ParseFlags, ValidateOutdirFlags, CreateGenerator, GenerateSchema, Release, Exit, Kill
  <2>. QED
    BY <1>0, <2>1, <1>inv DEF LoopInv, OutdirFlagsValid
<1>5. CASE UNCHANGED vars
  BY <1>5, <1>inv DEF vars, LoopInv, OutdirFlagsValid
<1>. QED
  BY <1>1, <1>2, <1>3, <1>4, <1>5 DEF Next, Run
\* run returns without an error only when what was asked for is there.
LEMMA ReturnStep == FilesAreApart /\ Inv /\ [Next]_vars => ReturnInv'
<1> SUFFICES ASSUME FilesAreApart, Inv, [Next]_vars PROVE ReturnInv'
  OBVIOUS
<1>0. args' = args
  BY ArgumentsStay DEF Inv, ControlInv
<1>valid. OutdirFlagsValid(args) => args.outdir = "dir"
  BY Arguments DEF Inv, ControlInv
<1>inv. CheckerInv /\ AllowedInv /\ LoopInv /\ ReturnInv /\ LoopInv'
  BY LoopStep DEF Inv, ControlInv
<1>1. CASE WriteFile
  <2>1. args.flags = "ok" /\ status # 0 /\ status' = status
    BY <1>1, <1>inv DEF WriteFile, CheckerInv, AllowedInv, Running, Killed
  <2>2. CASE Outdir
    <3>1. OutdirFlagsValid(args) /\ args.outdir = "dir" /\ done \in Nat /\ Len(args.types) \in Nat
      BY <1>1, <1>inv, <1>valid, <2>2, Arguments DEF WriteFile, AllowedInv, Outdir, Inv, ControlInv
    <3>2. pc' \in {"release", "exit"} /\ err' = "nil" => Len(args.types) <= done'
      BY <1>1, <3>1 DEF WriteFile, NextType, Go, ReturnWith, Outdir
    <3>3. \A i \in 1..Len(args.types) : i <= done' => files'[FileName[args.types[i]]] = <<args.types[i]>>
      BY <1>0, <1>inv, <3>1 DEF LoopInv, OutdirFlagsValid
    <3>4. done' \in Nat
      BY <1>1, <3>1 DEF WriteFile, NextType
    <3>5. ASSUME pc' \in {"release", "exit"}, err' = "nil" PROVE Complete'
      <4>1. \A i \in 1..Len(args.types) : i <= done'
        BY <3>1, <3>2, <3>4, <3>5
      <4>2. \A i \in 1..Len(args.types) : files'[FileName[args.types[i]]] = <<args.types[i]>>
        BY <3>3, <4>1
      <4>. QED
        BY <1>0, <3>1, <4>2 DEF Complete
    <3>6. err' = "help" => args.flags = "help"
      BY <1>1, <1>inv DEF WriteFile, NextType, Go, ReturnWith, ReturnInv
    <3>. QED
      BY <1>0, <2>1, <3>5, <3>6 DEF ReturnInv
  <2>3. CASE ~Outdir
    <3>1. args.outdir = "none" /\ args.out
      BY <1>1, <1>inv, <1>valid, <2>3 DEF WriteFile, AllowedInv, Outdir
    <3>2. Target = OutFile /\ Request = args.types /\ OutFile \in DOMAIN files
      BY <1>inv, <2>3 DEF Target, Request, LoopInv, Files
    <3>3. err' = "nil" /\ pc' \in {"release", "exit"} => files'[OutFile] = args.types
      BY <1>1, <3>2 DEF WriteFile, NextType, Go, ReturnWith
    <3>4. err' = "help" => args.flags = "help"
      BY <1>1, <1>inv DEF WriteFile, NextType, Go, ReturnWith, ReturnInv
    <3>. QED
      BY <1>0, <2>1, <3>1, <3>3, <3>4 DEF ReturnInv, Complete
  <2>. QED
    BY <2>2, <2>3
<1>2. CASE WriteStdout
  <2>1. /\ args.outdir = "none" /\ ~args.out
        /\ status # 0 /\ status' = status
    BY <1>2, <1>inv, <1>valid DEF WriteStdout, CheckerInv, AllowedInv, Outdir, Running, Killed
  <2>2. err' = "nil" /\ pc' \in {"release", "exit"} => sent' = Chunks
    BY <1>2 DEF WriteStdout, Go, ReturnWith
  <2>3. err' = "help" => args.flags = "help"
    BY <1>2, <1>inv DEF WriteStdout, Go, ReturnWith, ReturnInv
  <2>. QED
    BY <1>0, <2>1, <2>2, <2>3 DEF ReturnInv, Complete
<1>3. CASE ParseFlags \/ ValidateOutdirFlags \/ CreateGenerator \/ GenerateSchema \/ OpenFile
  BY <1>0, <1>3, <1>inv DEF ParseFlags, ValidateOutdirFlags, CreateGenerator, GenerateSchema, OpenFile,
       Go, ReturnWith, ReturnInv, CheckerInv, Running, Killed
<1>4. CASE Release \/ Exit \/ Kill
  <2>1. args' = args /\ files' = files /\ sent' = sent /\ err' = err
    BY <1>4 DEF Release, Exit, Kill, Go
  <2>2. Complete' <=> Complete
    BY <2>1 DEF Complete
  <2>3. pc' \in {"release", "exit"} => pc \in {"release", "exit"}
    BY <1>4 DEF Release, Exit, Kill, Go
  <2>4. status' = 0 => status = 0 \/ err \in {"nil", "help"}
    BY <1>4 DEF Release, Exit, Kill, ExitCode, Killed
  <2>. QED
    BY <1>inv, <2>1, <2>2, <2>3, <2>4 DEF ReturnInv
<1>5. CASE UNCHANGED vars
  BY <1>5, <1>inv DEF vars, ReturnInv, Complete
<1>. QED
  BY <1>1, <1>2, <1>3, <1>4, <1>5 DEF Next, Run

\* Exit status 0 means that every schema asked for is where it was asked for,
\* as long as no two types share a file (main.go:186-221, 37-63).  On a file
\* system that folds case they may, and then it does not.
THEOREM SuccessIsTrue == ASSUME FilesAreApart PROVE Spec => []SuccessIsComplete
<1>1. Init => Inv
  BY DEF Init, Inv, ControlInv, CheckerInv, AllowedInv, LoopInv, ReturnInv, Steps, Running, Killed
<1>2. Inv /\ [Next]_vars => Inv'
  BY CheckerStep, AllowedStep, LoopStep, ReturnStep, ArgumentsStay DEF Inv, ControlInv
<1>3. Inv => SuccessIsComplete
  BY DEF Inv, ControlInv, CheckerInv, ReturnInv, Complete, SuccessIsComplete
<1>. QED
  BY <1>1, <1>2, <1>3, PTL DEF Spec

-----------------------------------------------------------------------------
\* The files of types the loop has not come to are as they were.
LEMMA UntouchedStep == FilesAreApart /\ Inv /\ UntouchedInv /\ [Next]_vars => UntouchedInv'
<1> SUFFICES ASSUME FilesAreApart, Inv, UntouchedInv, [Next]_vars, OutdirFlagsValid(args)
             PROVE  UntouchedInv'
  BY ArgumentsStay DEF Inv, ControlInv, UntouchedInv, OutdirFlagsValid
<1>0. args' = args
  BY ArgumentsStay DEF Inv, ControlInv
<1>types. /\ Len(args.types) \in Nat /\ Outdir /\ done \in Nat /\ DOMAIN files = Files
          /\ \A i \in 1..Len(args.types) : FileName[args.types[i]] \in Files
  BY Arguments DEF Inv, ControlInv, AllowedInv, LoopInv, Outdir
<1>now. /\ done <= Len(args.types)
        /\ \A i \in 1..Len(args.types) : i > done + 1 => files[FileName[args.types[i]]] = Old
  BY DEF UntouchedInv
<1>1. CASE OpenFile \/ WriteFile
  <2>1. pc \in {"open", "write"}
    BY <1>1 DEF OpenFile, WriteFile
  <2>2. done < Len(args.types)
    BY <2>1, <1>types DEF Inv, ControlInv, AllowedInv, Outdir
  <2>3. done' \in {done, done + 1}
    BY <1>1 DEF OpenFile, WriteFile, NextType
  <2>4. ASSUME NEW i \in 1..Len(args.types), i > done + 1 PROVE files'[FileName[args.types[i]]] = Old
    <3>1. FileName[args.types[i]] # Target
      <4>1. done + 1 \in 1..Len(args.types) /\ i # done + 1 /\ Target = FileName[args.types[done + 1]]
        BY <1>types, <2>2, <2>4 DEF Target
      <4>. QED
        BY <4>1, Arguments DEF FilesAreApart, Inv, ControlInv
    <3>2. files' = files \/ \E s : files' = [files EXCEPT ![Target] = s]
      BY <1>1 DEF OpenFile, WriteFile
    <3>. QED
      BY <1>now, <1>types, <2>4, <3>1, <3>2
  <2>5. done' <= Len(args.types)
    BY <1>types, <2>2, <2>3
  <2>6. ASSUME NEW i \in 1..Len(args.types), i > done' + 1 PROVE files'[FileName[args.types[i]]] = Old
    <3>0. i \in Int /\ done \in Nat
      BY <1>types
    <3>1. i > done + 1
      <4>1. CASE done' = done
        BY <2>6, <4>1
      <4>2. CASE done' = done + 1
        BY <2>6, <3>0, <4>2
      <4>. QED
        BY <2>3, <4>1, <4>2
    <3>. QED
      BY <2>4, <3>1
  <2>. QED
    BY <1>0, <2>5, <2>6 DEF UntouchedInv
<1>2. CASE ParseFlags \/ ValidateOutdirFlags \/ CreateGenerator \/ GenerateSchema \/ Release \/ Exit \/ Kill
  <2>1. files' = files /\ done' = done
    BY <1>2 DEF ParseFlags, ValidateOutdirFlags, CreateGenerator, GenerateSchema, Release, Exit, Kill
  <2>. QED
    BY <1>0, <2>1, <1>now DEF UntouchedInv
<1>3. CASE WriteStdout
  BY <1>3, <1>types DEF WriteStdout, Inv, ControlInv, AllowedInv
<1>4. CASE UNCHANGED vars
  BY <1>4, <1>now DEF vars, UntouchedInv
<1>. QED
  BY <1>1, <1>2, <1>3, <1>4 DEF Next, Run

\* However and whenever --outdir ends: the schemas before the one it was at are
\* whole, those after it are untouched, as long as no two types share a file
\* (main.go:202-221).
THEOREM PrefixIsKept == ASSUME FilesAreApart PROVE Spec => []PrefixIsOnDisk
<1>1. Init => Inv /\ UntouchedInv
  <2> SUFFICES ASSUME Init PROVE Inv /\ UntouchedInv
    OBVIOUS
  <2>1. Inv
    BY DEF Init, Inv, ControlInv, CheckerInv, AllowedInv, LoopInv, ReturnInv, Steps, Running, Killed
  <2>2. UntouchedInv
    BY <2>1, Arguments DEF Init, Inv, ControlInv, UntouchedInv
  <2>. QED
    BY <2>1, <2>2
<1>2. Inv /\ UntouchedInv /\ [Next]_vars => (Inv /\ UntouchedInv)'
  BY CheckerStep, AllowedStep, LoopStep, ReturnStep, UntouchedStep, ArgumentsStay DEF Inv, ControlInv
<1>3. Inv /\ UntouchedInv => PrefixIsOnDisk
  <2> SUFFICES ASSUME Inv, UntouchedInv, WantsSchemas, Outdir PROVE PrefixIsOnDisk
    BY DEF PrefixIsOnDisk
  <2>1. OutdirFlagsValid(args)
    BY DEF WantsSchemas, Outdir
  <2>2. /\ done \in Nat /\ Len(args.types) \in Nat /\ done <= Len(args.types)
        /\ \A i \in 1..Len(args.types) : i <= done => files[FileName[args.types[i]]] = <<args.types[i]>>
        /\ \A i \in 1..Len(args.types) : i > done + 1 => files[FileName[args.types[i]]] = Old
    BY <2>1, Arguments DEF Inv, ControlInv, AllowedInv, LoopInv, UntouchedInv
  <2>3. \A i \in 1..done : i \in 1..Len(args.types) /\ i <= done
    BY <2>2
  <2>4. \A i \in done + 2..Len(args.types) : i \in 1..Len(args.types) /\ i > done + 1
    BY <2>2
  <2>. QED
    BY <2>2, <2>3, <2>4 DEF PrefixIsOnDisk
<1>. QED
  BY <1>1, <1>2, <1>3, PTL DEF Spec

-----------------------------------------------------------------------------
\* A command line that is refused ends before anything is loaded.
LEMMA RefusedStep == ControlInv /\ RefusedInv /\ [Next]_vars => RefusedInv'
<1> SUFFICES ASSUME ControlInv, RefusedInv, [Next]_vars, ~WantsSchemas PROVE RefusedInv'
  BY ArgumentsStay DEF ControlInv, RefusedInv, WantsSchemas, OutdirFlagsValid
<1>1. checker = "none" /\ sent = 0 /\ files = [f \in Files |-> Old]
  BY DEF RefusedInv
<1>2. pc \in {"flags", "validate", "exit", "killed"}
  BY <1>1 DEF ControlInv, CheckerInv, AllowedInv, Steps, WantsSchemas
<1>3. checker' = checker /\ sent' = sent /\ files' = files
  BY <1>2 DEF Next, Run, ParseFlags, ValidateOutdirFlags, CreateGenerator, GenerateSchema, OpenFile,
       WriteFile, WriteStdout, Release, Exit, Kill, vars
<1>. QED
  BY <1>1, <1>3 DEF RefusedInv

\* A command line that is refused takes no checker, writes nothing to stdout and
\* leaves the disk alone (main.go:140-185).
THEOREM RefusedCostsNothing == Spec => []RefusedIsHarmless
<1>1. Init => ControlInv /\ RefusedInv
  BY DEF Init, ControlInv, CheckerInv, AllowedInv, RefusedInv, Steps, Running, Killed
<1>2. ControlInv /\ RefusedInv /\ [Next]_vars => (ControlInv /\ RefusedInv)'
  BY CheckerStep, AllowedStep, RefusedStep, ArgumentsStay DEF ControlInv
<1>3. RefusedInv => RefusedIsHarmless
  BY DEF RefusedInv, RefusedIsHarmless
<1>. QED
  BY <1>1, <1>2, <1>3, PTL DEF Spec
=============================================================================
