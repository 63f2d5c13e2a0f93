------------------------------- MODULE Spawn -------------------------------
(***************************************************************************)
(* Running a child program: _spawnvpe and its search along PATH, _spawnve  *)
(* and its search for an extension, and the two spawners, direct_spawn and *)
(* comspec_spawn.  A step is what the library does between two places      *)
(* where DOS or the C library may fail.  Strings are abstracted to what    *)
(* the control depends on: the place a path name is in (0: the path as     *)
(* given; d: the d-th directory of PATH), its extension, and whether it    *)
(* fits in its buffer.                                                     *)
(***************************************************************************)
EXTENDS Integers, Sequences

CONSTANTS NDirs,       \* number of directories in PATH
          Worlds,      \* what is on the disk: see WorldType
          Requests,    \* the calls the program makes: see RequestType
          ErrnoCleared \* _dos_freemem stores its result in errno even when it
                       \* is 0 (the GCC build does, the ACK build does not)

Places == 0..NDirs
Shells == {"BAT", "BTM"}
Binaries == {"COM", "EXE"}
Exts == Shells \union Binaries \union {"TXT", ""}
Errors == {"0", "ENOENT", "EPATH", "EACCES", "ENOMEM", "E2BIG", "EINVAL", "ENAMETOOLONG"}

\* files: the files of the wanted name; missing: PATH directories that do not
\* exist; room: whether a path name with 4 more characters, or only without,
\* fits in _MAX_PATH; comspec: whether the command interpreter is there
WorldType == [files : SUBSET (Places \X Exts), missing : SUBSET (Places \ {0}),
              room : [Places -> {"fits", "tight", "long"}], comspec : BOOLEAN]

\* ok: path, argv and mode are valid; ext: the extension in the path, if any;
\* pathed: _spawnvpe or _spawnve; specific: the path names a drive or directory
RequestType == [ok : BOOLEAN, pathed : BOOLEAN, specific : BOOLEAN,
                restrict : BOOLEAN, interp : BOOLEAN, ext : Exts]

ASSUME SpawnAssumption == /\ NDirs \in Nat
                          /\ Worlds \subseteq WorldType
                          /\ Requests \subseteq RequestType
                          /\ ErrnoCleared \in BOOLEAN

VARIABLES world, req,
          pc,
          place,    \* where _spawnvpe is in its search
          left,     \* the extensions _spawnve has yet to try
          found,    \* the extension of the file it found
          via,      \* the spawner running it
          env_blk,  \* whether an environment block is allocated
          new_argv, \* whether comspec_spawn's argument vector is allocated
          errno, res,
          ran       \* the programs that ran during the call

vars == <<world, req, pc, place, left, found, via, env_blk, new_argv, errno, res, ran>>

inputs == <<world, req>>
search == <<place, left, found>>
memory == <<env_blk, new_argv>>

Init == /\ world \in Worlds /\ req \in Requests
        /\ pc = "done" /\ place = 0 /\ left = <<>> /\ found = "" /\ via = "direct"
        /\ env_blk = FALSE /\ new_argv = FALSE
        /\ errno = "0" /\ res = "none" /\ ran = <<>>

\* The program calls, with errno as the last call left it
Call == /\ pc = "done"
        /\ req' \in Requests
        /\ pc' = "enter" /\ place' = 0 /\ res' = "none" /\ ran' = <<>>
        /\ UNCHANGED <<world, left, found, via, memory, errno>>

\* _spawnve gives up before it has allocated anything
Fail(e) == /\ errno' = e /\ res' = "failed" /\ pc' = "returned"
           /\ UNCHANGED <<inputs, search, via, memory, ran>>

\* What a call of _spawnve knew is gone when it returns
Forget == left' = <<>> /\ found' = "" /\ via' = "direct"

-----------------------------------------------------------------------------
(* _spawnve: find a file to run.                                           *)

\* The extensions to try for a path that has none
Probes == IF req.restrict THEN <<"COM", "EXE", "BAT", "BTM">>
          ELSE <<"COM", "EXE", "BAT", "BTM", "">>

AsNamed == req.interp \/ req.ext # ""

Enter ==
  /\ pc = "enter"
  /\ \/ ~req.ok /\ Fail("EINVAL")
     \/ req.ok /\ ~AsNamed /\ world.room[place] # "fits" /\ Fail("ENAMETOOLONG")
     \/ /\ req.ok /\ (AsNamed \/ world.room[place] = "fits")
        /\ left' = IF AsNamed THEN <<req.ext>> ELSE Probes
        /\ pc' = "probe"
        /\ UNCHANGED <<inputs, place, found, via, memory, errno, res, ran>>

\* _dos_getfileattr on the next candidate
Probe ==
  /\ pc = "probe"
  /\ UNCHANGED <<inputs, place, via, memory, ran>>
  /\ IF <<place, Head(left)>> \in world.files
     THEN found' = Head(left) /\ pc' = "chosen" /\ UNCHANGED <<left, errno, res>>
     ELSE /\ errno' = IF place \in world.missing THEN "EPATH" ELSE "ENOENT"
          /\ left' = Tail(left)
          /\ IF Tail(left) = <<>> THEN pc' = "returned" /\ res' = "failed"
                                  ELSE UNCHANGED <<pc, res>>
          /\ UNCHANGED found

SpawnerIgnoringRestrict(ext) ==
  IF ext \in Shells /\ ~req.interp THEN "comspec" ELSE "direct"

\* find_spawner
Spawner(ext) ==
  CASE ext \in Shells   -> IF req.interp THEN "direct" ELSE "comspec"
    [] ext \in Binaries -> "direct"
    [] OTHER            -> IF req.restrict THEN "error" ELSE "direct"

\* The file name may not parse; otherwise it goes to its spawner
Choose ==
  /\ pc = "chosen"
  /\ \/ Fail("EINVAL")
     \/ Spawner(found) = "error" /\ Fail("EACCES")
     \/ /\ Spawner(found) # "error"
        /\ via' = Spawner(found) /\ pc' = via'
        /\ UNCHANGED <<inputs, search, memory, errno, res, ran>>

-----------------------------------------------------------------------------
(* The spawners.                                                           *)

\* comspec_spawn, up to its call of direct_spawn
Comspec ==
  /\ pc = "comspec"
  /\ \/ world.room[place] # "fits" /\ Fail("ENAMETOOLONG")
     \/ \E e \in {"EINVAL", "ENOMEM"} : Fail(e)
     \/ /\ new_argv' = TRUE /\ pc' = "direct"
        /\ UNCHANGED <<inputs, search, via, env_blk, errno, res, ran>>

\* Where direct_spawn returns to
Caller == IF new_argv THEN "free_argv" ELSE "returned"

\* direct_spawn, up to its call of _dos_spawn
Direct ==
  /\ pc = "direct"
  /\ UNCHANGED <<inputs, search, via, new_argv, ran>>
  /\ \/ /\ errno' \in {"E2BIG", "ENOMEM"} /\ res' = "failed" /\ pc' = Caller
        /\ UNCHANGED env_blk
     \/ env_blk' = TRUE /\ pc' = "exec" /\ UNCHANGED <<errno, res>>

\* The child runs to its end, or DOS refuses
Exec ==
  /\ pc = "exec" /\ pc' = "free_env"
  /\ UNCHANGED <<inputs, search, via, memory>>
  /\ \/ /\ errno' \in {"EACCES", "ENOMEM"} /\ res' = "failed" /\ UNCHANGED ran
     \/ /\ via = "comspec" /\ ~world.comspec
        /\ errno' = "ENOENT" /\ res' = "failed" /\ UNCHANGED ran
     \/ /\ via = "direct" \/ world.comspec
        /\ ran' = Append(ran, [place |-> place, ext |-> found, via |-> via])
        /\ res' = "child" /\ UNCHANGED errno

\* free_env_blk, whatever became of the child
FreeEnvOnSuccess == /\ pc = "free_env" /\ pc' = Caller
                    /\ env_blk' = (env_blk /\ res = "failed")
                    /\ UNCHANGED <<inputs, search, via, new_argv, errno, res, ran>>
FreeEnvResult == /\ pc = "free_env" /\ pc' = Caller
                 /\ env_blk' = FALSE /\ errno' = "0"
                 /\ UNCHANGED <<inputs, search, via, new_argv, res, ran>>
FreeEnv == /\ pc = "free_env" /\ pc' = Caller
           /\ env_blk' = FALSE
           /\ errno' = IF ErrnoCleared THEN "0" ELSE errno
           /\ UNCHANGED <<inputs, search, via, new_argv, res, ran>>

FreeArgv == /\ pc = "free_argv" /\ pc' = "returned"
            /\ new_argv' = FALSE
            /\ UNCHANGED <<inputs, search, via, env_blk, errno, res, ran>>

-----------------------------------------------------------------------------
(* _spawnvpe: go on along PATH.                                            *)

FinishedByErrnoOnly == ~req.pathed \/ errno # "ENOENT" \/ (place = 0 /\ req.specific)
Finished == \/ ~req.pathed
            \/ res = "child" \/ errno # "ENOENT"
            \/ place = 0 /\ req.specific

Return == /\ pc = "returned" /\ Finished
          /\ pc' = "done" /\ Forget
          /\ UNCHANGED <<inputs, place, memory, errno, res, ran>>

NextPlaceAgain == /\ pc = "returned" /\ ~Finished
                  /\ pc' = "enter"
                  /\ UNCHANGED <<inputs, search, via, memory, errno, res, ran>>
NextPlaceNotLast ==
  /\ pc = "returned" /\ ~Finished /\ Forget
  /\ UNCHANGED <<inputs, memory, errno, res, ran>>
  /\ IF place + 1 >= NDirs THEN pc' = "done" /\ UNCHANGED place
     ELSE place' = place + 1 /\ pc' = "enter"

\* __libi86_msdos_pathed_next
NextPlace ==
  /\ pc = "returned" /\ ~Finished /\ Forget
  /\ UNCHANGED <<inputs, memory, res, ran>>
  /\ IF place = NDirs
     THEN errno' = "ENOENT" /\ pc' = "done" /\ UNCHANGED place
     ELSE IF world.room[place + 1] = "long"
     THEN errno' = "ENAMETOOLONG" /\ pc' = "done" /\ UNCHANGED place
     ELSE place' = place + 1 /\ pc' = "enter" /\ UNCHANGED errno

Work == \/ Enter \/ Probe \/ Choose \/ Comspec \/ Direct \/ Exec
        \/ FreeEnv \/ FreeArgv \/ Return \/ NextPlace

Next == Call \/ Work

\* The library and the child run until they are done; the program may never call
Spec == Init /\ [][Next]_vars /\ WF_vars(Work)

-----------------------------------------------------------------------------
(* Correctness.                                                            *)

TypeOK == /\ world \in WorldType /\ req \in RequestType
          /\ pc \in {"done", "enter", "probe", "chosen", "comspec", "direct", "exec",
                     "free_env", "free_argv", "returned"}
          /\ place \in Places /\ left \in Seq(Exts) /\ found \in Exts
          /\ via \in {"direct", "comspec"}
          /\ env_blk \in BOOLEAN /\ new_argv \in BOOLEAN
          /\ errno \in Errors /\ res \in {"none", "child", "failed"}
          /\ ran \in Seq([place : Places, ext : Exts, via : {"direct", "comspec"}])

\* Whatever fails, no environment block and no argument vector outlives the
\* attempt it was made for: the search along PATH does not pile them up.
NothingLeaks == pc \in {"returned", "enter", "done"} => ~env_blk /\ ~new_argv

\* A script whose command interpreter is not there looks like a file not found
Unrunnable(f) == f[2] \in Shells /\ ~req.interp /\ ~world.comspec

\* Files in the order of the search: by place, then by extension
Index(e) == CHOOSE i \in 1..5 : <<"COM", "EXE", "BAT", "BTM", "">>[i] = e
Earlier(f, g) == f[1] < g[1] \/ (f[1] = g[1] /\ ~AsNamed /\ Index(f[2]) < Index(g[2]))

\* The files the call may run
Eligible == {f \in world.files : /\ f[1] # 0 => req.pathed /\ ~req.specific
                                 /\ IF AsNamed THEN f[2] = req.ext
                                    ELSE f[2] # "TXT" /\ (req.restrict => f[2] # "")}

\* A script without its interpreter makes the search leave the directory it is in
OutOfReach(f) ==
  \E g \in Eligible : g[1] = f[1] /\ Unrunnable(g) /\ (g = f \/ Earlier(g, f))

\* At most one program runs, and it is the first the search order offers: a
\* failed attempt never lets a later program of the same name run instead, nor
\* a successful one a second program.
FirstMatchRuns ==
  /\ Len(ran) <= 1
  /\ \A r \in {ran[i] : i \in DOMAIN ran} :
       /\ <<r.place, r.ext>> \in Eligible
       /\ \A f \in Eligible : Earlier(f, <<r.place, r.ext>>) => OutOfReach(f)

\* "File not found" is only reported when the whole search found no file that
\* could have run.
NotFoundIsTrue ==
  pc = "done" /\ res = "failed" /\ errno = "ENOENT"
    => \A f \in Eligible : OutOfReach(f)

\* With _P_RESTRICT_EXT, what runs has an extension of a known kind; scripts are
\* handed to the command interpreter, and only they are.
RunsAsItsKind ==
  \A r \in {ran[i] : i \in DOMAIN ran} :
    /\ req.restrict => r.ext \in Shells \union Binaries
    /\ r.via = "comspec" <=> r.ext \in Shells /\ ~req.interp

\* A call that fails leaves the reason in errno.
FailureHasReason == pc = "done" /\ res = "failed" => errno # "0"

\* Every call returns.
CallsReturn == pc = "enter" ~> pc = "done"
=============================================================================
