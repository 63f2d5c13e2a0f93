---------------------------- MODULE Environment ----------------------------
(***************************************************************************)
(* The environment on its way from a program to its child: make_env_blk    *)
(* sizes a block, gets memory for it from DOS and copies the strings into  *)
(* it; DOS copies the block and puts the child's path behind it; and in    *)
(* the child, __libi86_get_progname walks past the strings to find that    *)
(* path, and takes the program's name out of it with _splitpath.           *)
(***************************************************************************)
EXTENDS PathParts

CONSTANTS Envs,    \* the environments that programs pass to _spawnve
          ExePaths \* the paths of the programs they run, as DOS has them

VARIABLES env_pc,
          envp, exe,      \* the strings, and the program that is run
          pp,             \* the strings that have not been copied
          room, env_blk,  \* the bytes that the block has, and what is written to it
          osmajor,        \* the version of DOS
          env_seg,        \* what the child has in the segment at PSP:2C
          fp, fullname,   \* the walk through it, and the path it finds
          progname

parentVars == <<pp, room, env_blk>>
childVars == <<fp, fullname, progname>>
envVars == <<env_pc, envp, exe, parentVars, osmajor, env_seg, childVars>>

\* The bytes of a paragraph; PARA_SZ is smaller than in the code, so that short
\* environments fill one
PARA_SZ == 4

\* "nul" ends a string, and "one" is the low byte of the number of strings that DOS
\* puts behind an environment
EnvChars == PartChars \union {"nul", "one"}

ASSUME EnvironmentAssumption == /\ Envs \subseteq Seq(Seq(PartChars) \ {<<>>})
                                /\ ExePaths \subseteq Seq(PartChars)

EnvInit == /\ env_pc = "size" /\ envp \in Envs /\ exe \in ExePaths /\ osmajor \in {2, 3}
           /\ pp = envp /\ room = 0 /\ env_blk = <<>> /\ env_seg = <<>>
           /\ fp = 1 /\ fullname = <<>> /\ progname = <<>>

NulEnded(s) == Append(s, "nul")

-----------------------------------------------------------------------------
(* In the parent: make_env_blk.                                            *)

\* The bytes for each string and its null, and for the nulls that end the block
SizeOfStrings == LET size[n \in 0..Len(envp)] ==
                       IF n = 0 THEN 0 ELSE size[n - 1] + Len(envp[n]) + 1
                 IN  size[Len(envp)]
SizeForOneNull == 1 + SizeOfStrings
SizeOfEnv == 3 + SizeOfStrings

AllocateEnv ==
  /\ env_pc = "size"
  /\ \/ env_pc' = "copy" /\ room' = ((SizeOfEnv - 1) \div PARA_SZ + 1) * PARA_SZ
     \/ env_pc' = "ENOMEM" /\ UNCHANGED room
  /\ UNCHANGED <<envp, exe, pp, env_blk, osmajor, env_seg, childVars>>

CopyString == /\ env_pc = "copy" /\ pp # <<>> /\ pp' = Tail(pp)
              /\ env_blk' = env_blk \o NulEnded(Head(pp))
              /\ UNCHANGED <<env_pc, envp, exe, room, osmajor, env_seg, childVars>>

EndBlock == /\ env_pc = "copy" /\ pp = <<>> /\ env_pc' = "exec"
            /\ env_blk' = env_blk \o <<"nul", "nul", "nul">>
            /\ UNCHANGED <<envp, exe, pp, room, osmajor, env_seg, childVars>>

-----------------------------------------------------------------------------
(* DOS, which copies as far as the first two nulls in a row; from version  *)
(* 3 on, it adds a word of 1 and the program's path.                       *)

ExecCopy ==
  /\ env_pc = "exec" /\ env_pc' = "skip"
  /\ LET end == Min({i \in 2..Len(env_blk) : env_blk[i] = "nul" /\ env_blk[i - 1] = "nul"})
     IN  env_seg' = SubSeq(env_blk, 1, end)
                    \o (IF osmajor >= 3 THEN <<"one", "nul">> \o NulEnded(exe) ELSE <<>>)
  /\ UNCHANGED <<envp, exe, parentVars, osmajor, childVars>>

-----------------------------------------------------------------------------
(* In the child: __libi86_get_progname, a byte at a time.                  *)

\* A byte at fp is read, or none is
ReadOn == fp' = fp + 1 /\ UNCHANGED <<envp, exe, parentVars, osmajor, env_seg>>
StayThere == UNCHANGED <<fp, envp, exe, parentVars, osmajor, env_seg>>

NoPath == /\ env_pc = "skip" /\ osmajor < 3 /\ env_pc' = "split"
          /\ StayThere /\ UNCHANGED <<fullname, progname>>

\* The first byte of a string, or the null after the last one
StartString == /\ env_pc = "skip" /\ osmajor >= 3
               /\ env_pc' = IF env_seg[fp] = "nul" THEN "count" ELSE "string"
               /\ ReadOn /\ UNCHANGED <<fullname, progname>>

SkipString == /\ env_pc = "string"
              /\ env_pc' = IF env_seg[fp] = "nul" THEN "skip" ELSE "string"
              /\ ReadOn /\ UNCHANGED <<fullname, progname>>

SkipCount == /\ env_pc = "count" /\ env_pc' = "path" /\ fp' = fp + 2
             /\ UNCHANGED <<envp, exe, parentVars, osmajor, env_seg, fullname, progname>>

CopyPath == /\ env_pc = "path"
            /\ IF env_seg[fp] # "nul" /\ Len(fullname) # WholeMax - 1
               THEN fullname' = Append(fullname, env_seg[fp]) /\ UNCHANGED env_pc
               ELSE env_pc' = "split" /\ UNCHANGED fullname
            /\ ReadOn /\ UNCHANGED progname

SplitName == /\ env_pc = "split" /\ env_pc' = "done" /\ progname' = SplitOf(fullname).fname
             /\ StayThere /\ UNCHANGED fullname

EnvNext == \/ AllocateEnv \/ CopyString \/ EndBlock \/ ExecCopy
           \/ NoPath \/ StartString \/ SkipString \/ SkipCount \/ CopyPath \/ SplitName

EnvSpec == EnvInit /\ [][EnvNext]_envVars

-----------------------------------------------------------------------------
(* Correctness.                                                            *)

\* The strings that a segment holds, each ended by a null, and all of them by another: what
\* is known of them after a byte more, and after them all
Nothing == [strings |-> <<>>, string |-> <<>>, ended |-> FALSE]
ReadByte(r, c) ==
  IF r.ended THEN r
  ELSE IF c # "nul" THEN [r EXCEPT !.string = Append(@, c)]
  ELSE IF r.string = <<>> THEN [r EXCEPT !.ended = TRUE]
  ELSE [r EXCEPT !.strings = Append(@, r.string), !.string = <<>>]
Read(blk) ==
  LET read[i \in 0..Len(blk)] == IF i = 0 THEN Nothing ELSE ReadByte(read[i - 1], blk[i])
  IN  read[Len(blk)]

\* The block that make_env_blk sized in one pass holds all that it writes in another;
\* the child has the strings that the parent passed, reads nothing behind them but the
\* path that DOS put there, and knows itself by the name in that path, cut where the
\* path or the name is too long.  What the child of an empty environment reads depends
\* on how DOS ends one, and is left out.
EnvironmentArrives ==
  /\ Len(env_blk) <= room
  /\ env_seg # <<>> /\ envp # <<>> =>
       Read(env_seg) = [strings |-> envp, string |-> <<>>, ended |-> TRUE]
  /\ osmajor >= 3 /\ env_seg # <<>> /\ envp # <<>> => fp <= Len(env_seg) + 1
  /\ env_pc = "done" /\ osmajor < 3 => progname = <<>>
  /\ env_pc = "done" /\ osmajor >= 3 /\ envp # <<>> =>
       progname = SplitOf(SubSeq(exe, 1, Min({Len(exe), WholeMax - 1}))).fname
=============================================================================
