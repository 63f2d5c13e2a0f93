----------------------------- MODULE MCStrings -----------------------------
(***************************************************************************)
(* What the library makes of strings for DOS, in one run: a behaviour      *)
(* builds a command tail (CommandTail), parses one for the default FCBs    *)
(* (DefaultFcbs), looks for a file along a path (PathSearch), makes a path *)
(* absolute (FullPath), takes paths apart and puts them together           *)
(* (PathParts), or hands an environment to a child (Environment); the      *)
(* other parts stay as they are.                                           *)
(***************************************************************************)
EXTENDS MCCommandTail, MCDefaultFcbs, MCPathSearch, MCFullPath, MCPathParts, Environment

VARIABLE subject

TailIdle == program = "other" /\ argv = <<>> /\ TailInit
FcbsIdle == fcb_tail = <<"cr">> /\ garbage = FALSE /\ FcbInit
SearchIdle == path = <<>> /\ dbcs = "given" /\ next_path = 0 /\ Init
FullIdle == /\ text = <<>> /\ drive = "good" /\ size = 1 /\ block = "caller"
            /\ fp_pc = "start" /\ FpInit
PartsIdle == whole = <<>> /\ asked = [first |-> "split", whole |-> <<>>] /\ PpInit
EnvIdle == envp = <<>> /\ osmajor = 2 /\ exe = <<"dig">> /\ EnvInit

\* Environments whose blocks end at, before and behind the end of a paragraph
SmallEnvs == {<<>>, <<<<"let">>>>, <<<<"let", "dig">>>>, <<<<"let">>, <<"dig", "let", "dig">>>>,
              <<<<"dig", "let">>, <<"let">>, <<"let", "lead", "dig">>>>}
SmallExePaths == {<<"dig">>, <<"let", "col", "bsl", "lead", "bsl", "dot", "let">>,
                  <<"bsl", "dig", "let", "dig", "let", "dot", "dig">>,
                  <<"let", "col", "bsl", "dig", "bsl", "let", "dig", "let", "dot", "let">>}

allVars == <<tailVars, fcbVars, vars, fpVars, ppVars, envVars>>

\* The idle parts first, once for all the states of the one that works
StringsInit ==
  \/ subject = "tail"   /\ FcbsIdle /\ SearchIdle /\ FullIdle /\ PartsIdle /\ EnvIdle /\ TailInit
  \/ subject = "fcbs"   /\ TailIdle /\ SearchIdle /\ FullIdle /\ PartsIdle /\ EnvIdle /\ FcbInit
  \/ subject = "search" /\ TailIdle /\ FcbsIdle /\ FullIdle /\ PartsIdle /\ EnvIdle /\ Init
  \/ subject = "full"   /\ TailIdle /\ FcbsIdle /\ SearchIdle /\ PartsIdle /\ EnvIdle /\ FpInit
  \/ subject = "parts"  /\ TailIdle /\ FcbsIdle /\ SearchIdle /\ FullIdle /\ EnvIdle /\ PpInit
  \/ subject = "env"    /\ TailIdle /\ FcbsIdle /\ SearchIdle /\ FullIdle /\ PartsIdle /\ EnvInit

StringsNext ==
  /\ UNCHANGED subject
  /\ \/ subject = "tail" /\ TailNext /\ UNCHANGED <<fcbVars, vars, fpVars, ppVars, envVars>>
     \/ subject = "fcbs" /\ FcbNext /\ UNCHANGED <<tailVars, vars, fpVars, ppVars, envVars>>
     \/ subject = "search" /\ Next /\ UNCHANGED <<tailVars, fcbVars, fpVars, ppVars, envVars>>
     \/ subject = "full" /\ FpNext /\ UNCHANGED <<tailVars, fcbVars, vars, ppVars, envVars>>
     \/ subject = "parts" /\ PpNext /\ UNCHANGED <<tailVars, fcbVars, vars, fpVars, envVars>>
     \/ subject = "env" /\ EnvNext /\ UNCHANGED <<tailVars, fcbVars, vars, fpVars, ppVars>>

StringsSpec == StringsInit /\ [][StringsNext]_<<subject, allVars>>
=============================================================================
