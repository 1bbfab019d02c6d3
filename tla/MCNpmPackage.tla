----------------------------- MODULE MCNpmPackage -----------------------------
(***************************************************************************)
(* NpmPackage around CommandLine: up to three --type flags over the names  *)
(* "Spec" and "spec", '*' and a name with a slash, and every combination   *)
(* of what may fail in the process and around it.                          *)
(***************************************************************************)
EXTENDS NpmPackage, SequencesExt

TypeLists == SeqOf({"Spec", "spec", "Config"}, 3) \cup {<<Star>>, <<Star, "Spec">>, <<"Spec", Slash>>}

MCInvocations ==
  [flags : {"ok"}, types : TypeLists, out : BOOLEAN, outdir : {"none", "empty", "file", "dir"}]
    \cup [flags : {"help", "bad", "extra", "version", "choice"}, types : {<<"Spec">>},
          out : BOOLEAN, outdir : {"none", "dir"}]

MCEnvironments ==
  [loads : BOOLEAN, fails : {{}, {"spec"}, {"Config"}}, panics : {{}, {"spec"}},
   readonly : {{}, {"Config.schema.json"}, {OutFile}}]

\* A file system that tells upper from lower case.
CaseSensitive ==
  [t \in {"Spec", "spec", "Config"} |->
     CASE t = "Spec" -> "Spec.schema.json"
       [] t = "spec" -> "spec.schema.json"
       [] OTHER -> "Config.schema.json"]
=============================================================================
