---------------------------- MODULE SpawnProofs -----------------------------
(***************************************************************************)
(* Proofs about Spawn, for every PATH, every disk, every call and every    *)
(* failure: what is allocated is freed, what runs runs as its kind, a      *)
(* failure has a reason where _dos_freemem leaves errno alone, what runs   *)
(* is the first file that could, nothing runs after it, and "not found" is *)
(* only said when it is true.                                              *)
(***************************************************************************)
EXTENDS Spawn, TLAPS

\* Memory is held only between its allocation and its release.
Held == /\ env_blk => pc \in {"exec", "free_env"}
        /\ new_argv => pc \in {"direct", "exec", "free_env", "free_argv"}

\* A file under way was given a spawner, which is the one running it.
Routed == /\ pc = "comspec" => via = "comspec"
          /\ pc \in {"comspec", "direct", "exec"} => via = Spawner(found)

\* What ran was routed that way.
Ran == \A i \in DOMAIN ran : ran[i].via = Spawner(ran[i].ext)

\* There is an extension to try while _spawnve tries them.
Trying == pc = "probe" => left # <<>>

IInv == TypeOK /\ Held /\ Routed /\ Ran /\ Trying

-----------------------------------------------------------------------------
(* The invariant is inductive.                                             *)

LEMMA FourOrFive ==
  ASSUME NEW S, NEW a \in S, NEW b \in S, NEW c \in S, NEW d \in S, NEW e \in S
  PROVE  /\ <<a, b, c, d>> \in Seq(S) /\ <<a, b, c, d>> # <<>>
         /\ <<a, b, c, d, e>> \in Seq(S) /\ <<a, b, c, d, e>> # <<>>
  OBVIOUS

LEMMA ProbesType == Probes \in Seq(Exts) /\ Probes # <<>>
  <1>1. "COM" \in Exts /\ "EXE" \in Exts /\ "BAT" \in Exts /\ "BTM" \in Exts /\ "" \in Exts
    BY DEF Exts, Shells, Binaries
  <1>2. QED
    BY <1>1, FourOrFive, Zenon DEF Probes

LEMMA Empty == ASSUME NEW S PROVE <<>> \in Seq(S) /\ \A i \in DOMAIN <<>> : FALSE
  OBVIOUS

\* An element of a sequence, and of a sequence with one more element.
LEMMA Element == ASSUME NEW S, NEW s \in Seq(S), NEW i \in DOMAIN s PROVE s[i] \in S
  OBVIOUS

LEMMA AppendType == ASSUME NEW S, NEW s \in Seq(S), NEW x \in S PROVE Append(s, x) \in Seq(S)
  OBVIOUS

LEMMA AppendElement ==
  ASSUME NEW S, NEW s \in Seq(S), NEW x \in S, NEW i \in DOMAIN Append(s, x)
  PROVE  Append(s, x)[i] = x \/ (i \in DOMAIN s /\ Append(s, x)[i] = s[i])
  OBVIOUS

LEMMA InitInvariant == Init => IInv
  <1> SUFFICES ASSUME Init PROVE IInv
    OBVIOUS
  <1>1. "" \in Exts /\ "0" \in Errors /\ 0 \in Places
    BY SpawnAssumption DEF Exts, Shells, Binaries, Errors, Places
  <1>2. left \in Seq(Exts) /\ ran \in Seq([place : Places, ext : Exts, via : {"direct", "comspec"}])
    BY Empty, Zenon DEF Init
  <1>3. TypeOK
    BY <1>1, <1>2, SpawnAssumption DEF Init, TypeOK
  <1>4. Held /\ Routed /\ Trying
    BY DEF Init, Held, Routed, Trying
  <1>5. Ran
    BY Empty, Zenon DEF Init, Ran
  <1>6. QED
    BY <1>3, <1>4, <1>5 DEF IInv

\* Giving up early keeps the invariant, if nothing is allocated.
LEMMA FailInvariant ==
  ASSUME IInv, NEW e \in Errors, Fail(e), ~env_blk, ~new_argv
  PROVE  IInv'
  <1>1. TypeOK'
    BY DEF Fail, IInv, TypeOK, inputs, search, memory
  <1>2. Held' /\ Routed' /\ Trying'
    BY DEF Fail, Held, Routed, Trying, memory
  <1>3. Ran'
    BY DEF Fail, IInv, Ran, Spawner, inputs
  <1>4. QED
    BY <1>1, <1>2, <1>3 DEF IInv

LEMMA CallInvariant == ASSUME IInv, Call PROVE IInv'
  <1>1. TypeOK'
    BY SpawnAssumption DEF Call, IInv, TypeOK, memory, Places
  <1>2. Held' /\ Routed' /\ Trying' /\ Ran'
    BY DEF Call, IInv, Held, Routed, Trying, Ran, memory
  <1>3. QED
    BY <1>1, <1>2 DEF IInv

LEMMA SearchInvariant == ASSUME IInv, Enter \/ Probe \/ Choose PROVE IInv'
  <1>1. CASE Enter
    <2>1. CASE \E e \in Errors : Fail(e)
      BY <1>1, <2>1, FailInvariant DEF Enter, IInv, Held
    <2>2. CASE /\ left' = IF AsNamed THEN <<req.ext>> ELSE Probes
               /\ pc' = "probe"
               /\ UNCHANGED <<inputs, place, found, via, memory, errno, res, ran>>
      <3>1. req.ext \in Exts
        BY SpawnAssumption DEF IInv, TypeOK, RequestType
      <3>2. left' \in Seq(Exts) /\ left' # <<>>
        BY <2>2, <3>1, ProbesType
      <3>3. TypeOK'
        BY <2>2, <3>2 DEF IInv, TypeOK, inputs, memory
      <3>4. Held' /\ Routed' /\ Trying'
        BY <1>1, <2>2, <3>2 DEF Enter, IInv, Held, Routed, Trying, memory
      <3>5. Ran'
        BY <2>2 DEF IInv, Ran, Spawner, inputs
      <3>6. QED
        BY <3>3, <3>4, <3>5 DEF IInv
    <2>3. QED
      BY <1>1, <2>1, <2>2 DEF Enter, Errors
  <1>2. CASE Probe
    <2>1. left \in Seq(Exts) /\ left # <<>>
      BY <1>2 DEF Probe, IInv, TypeOK, Trying
    <2>2. Tail(left) \in Seq(Exts)
      BY <2>1
    <2>3. <<place, Head(left)>> \in world.files => Head(left) \in Exts
      BY <2>1
    <2>4. TypeOK'
      BY <1>2, <2>2, <2>3 DEF Probe, IInv, TypeOK, inputs, memory, Errors
    <2>5. Held' /\ Routed' /\ Trying'
      BY <1>2, <2>1 DEF Probe, IInv, Held, Routed, Trying, memory
    <2>6. Ran'
      BY <1>2 DEF Probe, IInv, Ran, Spawner, inputs
    <2>7. QED
      BY <2>4, <2>5, <2>6 DEF IInv
  <1>3. CASE Choose
    <2>1. CASE \E e \in Errors : Fail(e)
      BY <1>3, <2>1, FailInvariant DEF Choose, IInv, Held
    <2>2. CASE /\ Spawner(found) # "error"
               /\ via' = Spawner(found) /\ pc' = via'
               /\ UNCHANGED <<inputs, search, memory, errno, res, ran>>
      <3>1. via' \in {"direct", "comspec"}
        BY <2>2 DEF Spawner
      <3>2. TypeOK'
        BY <2>2, <3>1 DEF IInv, TypeOK, inputs, search, memory
      <3>3. Held' /\ Trying'
        BY <1>3, <2>2, <3>1 DEF Choose, IInv, Held, Trying, memory
      <3>4. Routed'
        BY <2>2, <3>1 DEF Routed, Spawner, inputs, search
      <3>5. Ran'
        BY <2>2 DEF IInv, Ran, Spawner, inputs
      <3>6. QED
        BY <3>2, <3>3, <3>4, <3>5 DEF IInv
    <2>3. QED
      BY <1>3, <2>1, <2>2 DEF Choose, Errors
  <1>4. QED
    BY <1>1, <1>2, <1>3

LEMMA SpawnerInvariant == ASSUME IInv, Comspec \/ Direct \/ Exec PROVE IInv'
  <1>1. CASE Comspec
    <2>1. CASE \E e \in Errors : Fail(e)
      BY <1>1, <2>1, FailInvariant DEF Comspec, IInv, Held
    <2>2. CASE /\ new_argv' = TRUE /\ pc' = "direct"
               /\ UNCHANGED <<inputs, search, via, env_blk, errno, res, ran>>
      <3>1. TypeOK'
        BY <2>2 DEF IInv, TypeOK, inputs, search
      <3>2. Held' /\ Trying'
        BY <1>1, <2>2 DEF Comspec, IInv, Held, Trying
      <3>3. Routed' /\ Ran'
        BY <1>1, <2>2 DEF Comspec, IInv, Routed, Ran, Spawner, inputs, search
      <3>4. QED
        BY <3>1, <3>2, <3>3 DEF IInv
    <2>3. QED
      BY <1>1, <2>1, <2>2 DEF Comspec, Errors
  <1>2. CASE Direct
    <2>1. TypeOK'
      BY <1>2 DEF Direct, Caller, IInv, TypeOK, inputs, search, Errors
    <2>2. Held' /\ Trying'
      BY <1>2 DEF Direct, Caller, IInv, Held, Trying, TypeOK
    <2>3. Routed' /\ Ran'
      BY <1>2 DEF Direct, Caller, IInv, Routed, Ran, Spawner, inputs, search
    <2>4. QED
      BY <2>1, <2>2, <2>3 DEF IInv
  <1>3. CASE Exec
    <2> DEFINE new == [place |-> place, ext |-> found, via |-> via]
               Programs == [place : Places, ext : Exts, via : {"direct", "comspec"}]
    <2>1. new \in Programs /\ ran \in Seq(Programs)
      BY DEF IInv, TypeOK
    <2>2. ran' = ran \/ ran' = Append(ran, new)
      BY <1>3 DEF Exec
    <2>3. ran' \in Seq(Programs)
      BY <2>1, <2>2, AppendType, ZenonT(60)
    <2>4. TypeOK'
      BY <1>3, <2>3 DEF Exec, IInv, TypeOK, inputs, search, memory, Errors
    <2>5. Held' /\ Trying' /\ Routed'
      BY <1>3 DEF Exec, IInv, Held, Trying, Routed, memory
    <2>6. new.via = Spawner(new.ext)
      BY <1>3 DEF Exec, IInv, Routed
    <2>7. \A i \in DOMAIN ran' : ran'[i] = new \/ (i \in DOMAIN ran /\ ran'[i] = ran[i])
      BY <2>1, <2>2, AppendElement
    <2>8. Ran'
      <3>1. req' = req
        BY <1>3 DEF Exec, inputs
      <3>2. \A i \in DOMAIN ran' : ran'[i].via = Spawner(ran'[i].ext)
        BY <2>6, <2>7 DEF IInv, Ran
      <3>3. QED
        BY <3>1, <3>2 DEF Ran, Spawner
    <2>9. QED
      BY <2>4, <2>5, <2>8 DEF IInv
  <1>4. QED
    BY <1>1, <1>2, <1>3

LEMMA ReturnInvariant ==
  ASSUME IInv, FreeEnv \/ FreeArgv \/ Return \/ NextPlace
  PROVE  IInv'
  <1>1. place + 1 \in Places \/ place = NDirs
    BY SpawnAssumption DEF IInv, TypeOK, Places
  <1>2. <<>> \in Seq(Exts) /\ "" \in Exts
    BY DEF Exts
  <1>3. TypeOK'
    BY <1>1, <1>2 DEF FreeEnv, FreeArgv, Return, NextPlace, Forget, Caller, IInv, TypeOK,
                      inputs, search, memory, Errors
  <1>4. Held' /\ Trying'
    BY DEF FreeEnv, FreeArgv, Return, NextPlace, Caller, IInv, Held, Trying, TypeOK, memory
  <1>5. Routed' /\ Ran'
    BY DEF FreeEnv, FreeArgv, Return, NextPlace, Caller, IInv, Routed, Ran, Spawner, inputs
  <1>6. QED
    BY <1>3, <1>4, <1>5 DEF IInv

LEMMA StepInvariant == IInv /\ [Next]_vars => IInv'
  <1> SUFFICES ASSUME IInv, [Next]_vars PROVE IInv'
    OBVIOUS
  <1>1. CASE UNCHANGED vars
    BY <1>1 DEF vars, IInv, TypeOK, Held, Routed, Ran, Trying, Spawner
  <1>2. CASE Next
    BY <1>2, CallInvariant, SearchInvariant, SpawnerInvariant, ReturnInvariant
    DEF Next, Work
  <1>3. QED
    BY <1>1, <1>2

LEMMA AlwaysInvariant == Spec => []IInv
  BY InitInvariant, StepInvariant, PTL DEF Spec

-----------------------------------------------------------------------------
(* The theorems.                                                           *)

\* Whatever fails, wherever, every environment block and argument vector is
\* freed before _spawnve returns, and so before _spawnvpe tries again.
THEOREM SpawnFreesAll == Spec => []NothingLeaks
  <1>1. IInv => NothingLeaks
    BY DEF IInv, Held, NothingLeaks
  <1>2. QED
    BY <1>1, AlwaysInvariant, PTL

\* A program only ever runs through the spawner for its kind of file, and with
\* _P_RESTRICT_EXT only if it is of a known kind.
THEOREM SpawnRoutes == Spec => []RunsAsItsKind
  <1>1. ASSUME IInv PROVE RunsAsItsKind
    <2> SUFFICES ASSUME NEW i \in DOMAIN ran
                 PROVE  /\ req.restrict => ran[i].ext \in Shells \union Binaries
                        /\ ran[i].via = "comspec" <=> ran[i].ext \in Shells /\ ~req.interp
      BY DEF RunsAsItsKind
    <2> DEFINE Programs == [place : Places, ext : Exts, via : {"direct", "comspec"}]
    <2>1. ran \in Seq(Programs)
      BY <1>1 DEF IInv, TypeOK
    <2>2. ran[i] \in Programs
      BY <2>1, Element
    <2>3. ran[i].via = Spawner(ran[i].ext) /\ ran[i].via \in {"direct", "comspec"}
      BY <1>1, <2>2 DEF IInv, Ran
    <2>4. QED
      BY <2>3 DEF Spawner, Shells, Binaries
  <1>2. QED
    BY <1>1, AlwaysInvariant, PTL

\* Where _dos_freemem leaves errno alone on success (the ACK build), a call that
\* fails says why in errno.
Reason == res = "failed" => errno # "0"

THEOREM FailureExplained == ASSUME ~ErrnoCleared PROVE Spec => []FailureHasReason
  <1>1. Init => Reason
    BY DEF Init, Reason
  <1>2. Reason /\ [Next]_vars => Reason'
    <2> SUFFICES ASSUME Reason, [Next]_vars PROVE Reason'
      OBVIOUS
    <2>1. UNCHANGED <<errno, res>> => Reason'
      BY DEF Reason
    <2>2. errno' # "0" => Reason'
      BY DEF Reason
    <2>3. QED
      BY <2>1, <2>2
      DEF Reason, Next, Work, vars, Call, Enter, Probe, Choose, Comspec, Direct, Exec, FreeEnv,
          FreeArgv, Return, NextPlace, Fail
  <1>3. Reason => FailureHasReason
    BY DEF Reason, FailureHasReason
  <1>4. QED
    BY <1>1, <1>2, <1>3, PTL DEF Spec

-----------------------------------------------------------------------------
(* The order of the search.                                                *)

\* The files in the directories behind, and in the present one, cannot be run.
Behind   == \A f \in Eligible : f[1] < place => OutOfReach(f)
HereGone == \A f \in Eligible : f[1] = place => OutOfReach(f)

\* An extension that the call may run
Allowed(e) == IF AsNamed THEN e = req.ext ELSE e # "TXT" /\ (req.restrict => e # "")

\* What is still to be tried has all of the present directory's files, in order.
StillThere ==
  /\ \A f \in Eligible : f[1] = place => \E i \in DOMAIN left : left[i] = f[2]
  /\ \A i \in DOMAIN left : Allowed(left[i])
  /\ \A i, j \in DOMAIN left : i < j => ~AsNamed /\ Index(left[i]) < Index(left[j])

\* The file that was found is the first of the present directory.
FoundFirst ==
  /\ <<place, found>> \in Eligible
  /\ \A f \in Eligible : f[1] = place => f = <<place, found>> \/ Earlier(<<place, found>>, f)

Running == {"chosen", "comspec", "direct", "exec"}
Ended   == {"free_env", "free_argv", "returned"}

\* Where the search is: nothing behind it could run, and all that could is still
\* to come.
Search == /\ Behind
          /\ place # 0 => req.pathed /\ ~req.specific
          /\ pc = "probe" => StillThere
          /\ pc \in Running => FoundFirst

\* What it has come to: a program ran, or none did and the reason is true.
Outcome == /\ pc \in Ended /\ res = "failed" /\ errno = "ENOENT" => HereGone
           /\ pc \in Ended => res # "none"
           /\ pc \in {"enter", "probe"} \union Running => ran = <<>>
           /\ pc \in Ended /\ res # "child" => ran = <<>>

-----------------------------------------------------------------------------
(* Facts about the search order.                                           *)

\* The numbers of the extensions in the search order.
LEMMA InFive == 1 \in 1..5 /\ 2 \in 1..5 /\ 3 \in 1..5 /\ 4 \in 1..5 /\ 5 \in 1..5
  OBVIOUS

LEMMA Indices ==
  /\ Index("COM") = 1 /\ Index("EXE") = 2 /\ Index("BAT") = 3 /\ Index("BTM") = 4
  /\ Index("") = 5
  <1> DEFINE t == <<"COM", "EXE", "BAT", "BTM", "">>
  <1>1. /\ t[1] = "COM" /\ t[2] = "EXE" /\ t[3] = "BAT" /\ t[4] = "BTM" /\ t[5] = ""
        /\ \A i \in 1..5 : i = 1 \/ i = 2 \/ i = 3 \/ i = 4 \/ i = 5
    OBVIOUS
  <1>2. ASSUME NEW e, NEW n \in 1..5, t[n] = e PROVE Index(e) \in 1..5 /\ t[Index(e)] = e
    BY <1>2, Zenon DEF Index
  <1>3. 1 \in 1..5 /\ 2 \in 1..5 /\ 3 \in 1..5 /\ 4 \in 1..5 /\ 5 \in 1..5
    BY InFive
  <1> HIDE DEF t
  <1>4. ASSUME NEW e, NEW n \in 1..5, t[n] = e, \A i \in 1..5 : t[i] = e => i = n
        PROVE  Index(e) = n
    BY <1>2, <1>4
  <1>5. /\ \A i \in 1..5 : t[i] = "COM" => i = 1
        /\ \A i \in 1..5 : t[i] = "EXE" => i = 2
        /\ \A i \in 1..5 : t[i] = "BAT" => i = 3
        /\ \A i \in 1..5 : t[i] = "BTM" => i = 4
        /\ \A i \in 1..5 : t[i] = "" => i = 5
    BY <1>1
  <1>6. QED
    BY <1>1, <1>3, <1>4, <1>5

\* A file that the call may run.
LEMMA EligibleFile ==
  ASSUME TypeOK, NEW f \in Eligible
  PROVE  /\ f \in world.files /\ f = <<f[1], f[2]>>
         /\ f[1] \in Places /\ f[2] \in Exts /\ f[1] \in Nat
         /\ Allowed(f[2]) /\ (f[1] # 0 => req.pathed /\ ~req.specific)
  <1>1. f \in world.files /\ world.files \subseteq Places \X Exts
    BY DEF TypeOK, WorldType, Eligible
  <1>2. f[1] \in Places /\ f[2] \in Exts /\ f = <<f[1], f[2]>>
    BY <1>1
  <1>3. f[1] \in Nat
    BY <1>2, SpawnAssumption DEF Places
  <1>4. Allowed(f[2]) /\ (f[1] # 0 => req.pathed /\ ~req.specific)
    BY Zenon DEF Eligible, Allowed
  <1>5. QED
    BY <1>1, <1>2, <1>3, <1>4

\* What may be run, and in which order, stays what it is while a call goes on.
LEMMA Kept ==
  ASSUME UNCHANGED <<world, req>>
  PROVE  /\ Eligible' = Eligible /\ AsNamed' = AsNamed
         /\ \A f, g : Earlier(f, g)' = Earlier(f, g)
         /\ \A f : OutOfReach(f)' = OutOfReach(f)
         /\ \A e : Allowed(e)' = Allowed(e)
  <1>1. Eligible' = Eligible /\ AsNamed' = AsNamed
    BY DEF Eligible, AsNamed
  <1>2. \A f, g : Earlier(f, g)' = Earlier(f, g)
    BY <1>1 DEF Earlier
  <1>3. \A f : OutOfReach(f)' = OutOfReach(f)
    BY <1>1, <1>2 DEF OutOfReach, Unrunnable
  <1>4. \A e : Allowed(e)' = Allowed(e)
    BY <1>1 DEF Allowed
  <1>5. QED
    BY <1>1, <1>2, <1>3, <1>4

LEMMA MatchKept ==
  ASSUME UNCHANGED <<world, req, ran>>, FirstMatchRuns
  PROVE  FirstMatchRuns'
  BY Kept DEF FirstMatchRuns

LEMMA LeftKept ==
  ASSUME UNCHANGED <<world, req, place>>,
         \A f \in Eligible : f[1] = place => \E i \in DOMAIN left' : left'[i] = f[2],
         \A i \in DOMAIN left' : Allowed(left'[i]),
         \A i, j \in DOMAIN left' : i < j => ~AsNamed /\ Index(left'[i]) < Index(left'[j])
  PROVE  StillThere'
  <1>1. \A f \in Eligible' : f[1] = place' => \E i \in DOMAIN left' : left'[i] = f[2]
    <2>1. Eligible' = Eligible /\ place' = place
      BY Kept
    <2>2. QED
      BY <2>1
  <1>2. \A i \in DOMAIN left' : IF AsNamed' THEN left'[i] = req'.ext
                                ELSE left'[i] # "TXT" /\ (req'.restrict => left'[i] # "")
    <2>1. AsNamed' = AsNamed /\ req' = req
      BY Kept
    <2>2. QED
      BY <2>1, Zenon DEF Allowed
  <1>3. \A i, j \in DOMAIN left' : i < j => ~AsNamed' /\ Index(left'[i]) < Index(left'[j])
    <2>1. AsNamed' = AsNamed
      BY Kept
    <2>2. QED
      BY <2>1, Zenon
  <1>4. QED
    BY <1>1, <1>2, <1>3, Zenon DEF StillThere, Allowed

LEMMA HereKept == ASSUME UNCHANGED <<world, req, place>>, HereGone PROVE HereGone'
  BY Kept DEF HereGone

\* What is known to be in a set of extensions differs from those outside it.
LEMMA NamedApart ==
  ASSUME NEW e
  PROVE  /\ e \in {"COM", "EXE", "BAT", "BTM"} => e # "TXT" /\ e # ""
         /\ e \in {"COM", "EXE", "BAT", "BTM", ""} => e # "TXT"
  OBVIOUS

\* All that may be tried: the extensions of a path name that has none, in order.
LEMMA ProbesInOrder ==
  ASSUME TypeOK, ~AsNamed
  PROVE  /\ \A e \in Exts : Allowed(e) => \E i \in DOMAIN Probes : Probes[i] = e
         /\ \A i \in DOMAIN Probes : Allowed(Probes[i])
         /\ \A i, j \in DOMAIN Probes : i < j => Index(Probes[i]) < Index(Probes[j])
  <1> DEFINE P4 == <<"COM", "EXE", "BAT", "BTM">>
             P5 == <<"COM", "EXE", "BAT", "BTM", "">>
  <1>1. /\ DOMAIN P4 = 1..4 /\ P4[1] = "COM" /\ P4[2] = "EXE" /\ P4[3] = "BAT" /\ P4[4] = "BTM"
        /\ DOMAIN P5 = 1..5 /\ P5[1] = "COM" /\ P5[2] = "EXE" /\ P5[3] = "BAT" /\ P5[4] = "BTM"
        /\ P5[5] = ""
    OBVIOUS
  <1>2. Probes = IF req.restrict THEN P4 ELSE P5
    BY DEF Probes
  <1> HIDE DEF P4, P5
  <1>3. ASSUME NEW e \in Exts, Allowed(e) PROVE \E i \in DOMAIN Probes : Probes[i] = e
    <2>1. e \in {"COM", "EXE", "BAT", "BTM", ""} /\ (req.restrict => e # "")
      BY <1>3 DEF Allowed, Exts, Shells, Binaries
    <2>2. CASE req.restrict
      <3>1. Probes = P4 /\ e \in {"COM", "EXE", "BAT", "BTM"}
        BY <1>2, <2>1, <2>2
      <3>2. 1 \in 1..4 /\ 2 \in 1..4 /\ 3 \in 1..4 /\ 4 \in 1..4
        OBVIOUS
      <3>3. QED
        BY <1>1, <3>1, <3>2
    <2>3. CASE ~req.restrict
      <3>1. Probes = P5
        BY <1>2, <2>3
      <3>2. QED
        BY <1>1, <2>1, <3>1, InFive
    <2>4. QED
      BY <2>2, <2>3
  <1>4. ASSUME NEW i \in DOMAIN Probes 
        PROVE  Allowed(Probes[i]) /\ i \in 1..5 /\ Index(Probes[i]) = i
    <2>1. CASE req.restrict
      <3>1. Probes = P4 /\ i \in 1..4
        BY <1>1, <1>2, <1>4, <2>1
      <3>2. i = 1 \/ i = 2 \/ i = 3 \/ i = 4
        BY <3>1
      <3>3. Probes[i] \in {"COM", "EXE", "BAT", "BTM"} /\ Index(Probes[i]) = i
        BY <1>1, <3>1, <3>2, Indices
      <3>4. Probes[i] # "TXT" /\ Probes[i] # ""
        BY <3>3, NamedApart, Zenon
      <3>5. QED
        BY <3>2, <3>3, <3>4, InFive, Zenon DEF Allowed
    <2>2. CASE ~req.restrict
      <3>1. Probes = P5 /\ i \in 1..5
        BY <1>1, <1>2, <1>4, <2>2
      <3>2. i = 1 \/ i = 2 \/ i = 3 \/ i = 4 \/ i = 5
        BY <3>1
      <3>3. Probes[i] \in {"COM", "EXE", "BAT", "BTM", ""} /\ Index(Probes[i]) = i
        BY <1>1, <3>1, <3>2, Indices
      <3>4. Probes[i] # "TXT"
        BY <3>3, NamedApart, Zenon
      <3>5. QED
        BY <2>2, <3>1, <3>3, <3>4, Zenon DEF Allowed
    <2>3. QED
      BY <2>1, <2>2
  <1>5. QED
    BY <1>3, <1>4

\* The head of what is left to try, and the rest.
LEMMA HeadAndTail ==
  ASSUME NEW S, NEW s \in Seq(S), s # <<>>
  PROVE  /\ 1 \in DOMAIN s /\ Head(s) = s[1]
         /\ \A i \in DOMAIN s :
              i = 1 \/ (i > 1 /\ i - 1 \in DOMAIN Tail(s) /\ Tail(s)[i - 1] = s[i])
         /\ \A i \in DOMAIN Tail(s) : i + 1 \in DOMAIN s /\ i \in Nat /\ Tail(s)[i] = s[i + 1]
         /\ Tail(s) \in Seq(S)
  OBVIOUS

-----------------------------------------------------------------------------
(* The order is kept.                                                      *)

\* A step that leaves the search where it is.
LEMMA SearchKept ==
  ASSUME Search, UNCHANGED <<world, req, place, found>>,
         pc' # "probe", pc' \in Running => pc \in Running
  PROVE  Search'
  <1>1. Behind'
    BY Kept DEF Behind, Search
  <1>2. FoundFirst => FoundFirst'
    BY Kept DEF FoundFirst
  <1>3. QED
    BY <1>1, <1>2 DEF Search, Running

LEMMA FailOrder ==
  ASSUME Search, Outcome, NEW e, e # "ENOENT", Fail(e), ran = <<>>
  PROVE  Search' /\ Outcome'
  <1>1. Search'
    BY SearchKept DEF Fail, inputs, search, Running
  <1>2. Outcome'
    BY DEF Fail, Outcome, Ended, Running
  <1>3. QED
    BY <1>1, <1>2

LEMMA CallOrder == ASSUME IInv, IInv', Call PROVE Search' /\ Outcome' /\ FirstMatchRuns'
  <1>1. \A f \in Eligible' : f[1] \in Nat
    <2>1. world' \in WorldType
      BY DEF IInv, TypeOK
    <2>2. Eligible' \subseteq world'.files
      BY DEF Eligible
    <2>3. world'.files \subseteq Places \X Exts
      BY <2>1 DEF WorldType
    <2>4. QED
      BY <2>2, <2>3, SpawnAssumption DEF Places
  <1>2. Behind'
    BY <1>1 DEF Call, Behind
  <1>3. Search' /\ Outcome'
    BY <1>2 DEF Call, Search, Outcome, Running, Ended
  <1>4. ran' = <<>>
    BY DEF Call
  <1>5. FirstMatchRuns'
    BY <1>4 DEF FirstMatchRuns
  <1>6. QED
    BY <1>3, <1>5

LEMMA EnterOrder == ASSUME IInv, Search, Outcome, Enter PROVE Search' /\ Outcome'
  <1>1. ran = <<>>
    BY DEF Enter, Outcome
  <1>2. CASE \E e : e # "ENOENT" /\ Fail(e)
    BY <1>1, <1>2, FailOrder
  <1>3. CASE /\ left' = IF AsNamed THEN <<req.ext>> ELSE Probes
             /\ pc' = "probe"
             /\ UNCHANGED <<inputs, place, found, via, memory, errno, res, ran>>
    <2>1. UNCHANGED <<world, req, place>>
      BY <1>3 DEF inputs
    <2>2. \A f \in Eligible : f[2] \in Exts /\ Allowed(f[2])
      BY EligibleFile DEF IInv
    <2>3. /\ \A f \in Eligible : \E i \in DOMAIN left' : left'[i] = f[2]
          /\ \A i \in DOMAIN left' : Allowed(left'[i])
          /\ \A i, j \in DOMAIN left' : i < j => ~AsNamed /\ Index(left'[i]) < Index(left'[j])
      <3>1. CASE AsNamed
        <4>1. DOMAIN left' = {1} /\ left'[1] = req.ext
          BY <1>3, <3>1
        <4>2. \A e : Allowed(e) <=> e = req.ext
          BY <3>1, Zenon DEF Allowed
        <4>3. QED
          BY <2>2, <4>1, <4>2
      <3>2. CASE ~AsNamed
        <4>1. left' = Probes
          BY <1>3, <3>2
        <4>2. QED
          BY <2>2, <3>2, <4>1, ProbesInOrder, Zenon DEF IInv
      <3>3. QED
        BY <3>1, <3>2
    <2>4. StillThere'
      BY <2>1, <2>3, LeftKept
    <2>5. Behind'
      BY <2>1, Kept DEF Behind, Search
    <2>6. Search'
      BY <1>3, <2>1, <2>4, <2>5 DEF Search, Running
    <2>7. Outcome'
      BY <1>1, <1>3 DEF Outcome, Ended, Running
    <2>8. QED
      BY <2>6, <2>7
  <1>4. QED
    BY <1>2, <1>3 DEF Enter

LEMMA ProbeOrder == ASSUME IInv, Search, Outcome, Probe PROVE Search' /\ Outcome'
  <1>1. /\ UNCHANGED <<world, req, place, ran>> /\ StillThere /\ ran = <<>>
        /\ left \in Seq(Exts) /\ left # <<>>
    BY DEF Probe, inputs, Search, Outcome, IInv, TypeOK, Trying
  <1>2. Behind'
    BY <1>1, Kept DEF Behind, Search
  <1>3. \A f \in Eligible : f \in world.files /\ f = <<f[1], f[2]>>
    BY EligibleFile DEF IInv
  <1>4. CASE <<place, Head(left)>> \in world.files
    <2>1. found' = Head(left) /\ pc' = "chosen"
      BY <1>4 DEF Probe
    <2>2. <<place, Head(left)>> \in Eligible
      <3>1. Allowed(Head(left))
        BY <1>1, HeadAndTail DEF StillThere
      <3>2. place # 0 => req.pathed /\ ~req.specific
        BY DEF Search
      <3>3. QED
        BY <1>4, <3>1, <3>2 DEF Eligible, Allowed
    <2>3. ASSUME NEW f \in Eligible, f[1] = place, f # <<place, Head(left)>>
          PROVE  Earlier(<<place, Head(left)>>, f)
      <3>1. PICK i \in DOMAIN left : left[i] = f[2]
        BY <1>1, <2>3 DEF StillThere
      <3>2. i # 1
        BY <1>1, <1>3, <2>3, <3>1, HeadAndTail
      <3>3. 1 \in DOMAIN left /\ 1 < i /\ left[1] = Head(left)
        BY <1>1, <3>1, <3>2, HeadAndTail
      <3>4. ~AsNamed /\ Index(Head(left)) < Index(f[2])
        BY <1>1, <3>1, <3>3 DEF StillThere
      <3>5. QED
        BY <2>3, <3>4 DEF Earlier
    <2>4. FoundFirst'
      BY <1>1, <2>1, <2>2, <2>3, Kept, Zenon DEF FoundFirst
    <2>5. QED
      BY <1>1, <1>2, <2>1, <2>4 DEF Search, Outcome, Running, Ended
  <1>5. CASE <<place, Head(left)>> \notin world.files
    <2>1. left' = Tail(left)
      BY <1>5 DEF Probe
    <2>2. /\ \A f \in Eligible : f[1] = place => \E i \in DOMAIN left' : left'[i] = f[2]
          /\ \A i \in DOMAIN left' : Allowed(left'[i])
          /\ \A i, j \in DOMAIN left' : i < j => ~AsNamed /\ Index(left'[i]) < Index(left'[j])
      <3>1. ASSUME NEW f \in Eligible, f[1] = place
            PROVE  \E i \in DOMAIN left' : left'[i] = f[2]
        <4>1. PICK i \in DOMAIN left : left[i] = f[2]
          BY <1>1, <3>1 DEF StillThere
        <4>2. i # 1
          BY <1>1, <1>3, <1>5, <3>1, <4>1, HeadAndTail
        <4>3. i - 1 \in DOMAIN left' /\ left'[i - 1] = f[2]
          BY <1>1, <2>1, <4>1, <4>2, HeadAndTail
        <4>4. QED
          BY <4>3
      <3>2. \A i \in DOMAIN left' : Allowed(left'[i])
        BY <1>1, <2>1, HeadAndTail DEF StillThere
      <3>3. ASSUME NEW i \in DOMAIN left', NEW j \in DOMAIN left', i < j
            PROVE  ~AsNamed /\ Index(left'[i]) < Index(left'[j])
        <4>1. /\ i + 1 \in DOMAIN left /\ j + 1 \in DOMAIN left /\ i + 1 < j + 1
              /\ left'[i] = left[i + 1] /\ left'[j] = left[j + 1]
          BY <1>1, <2>1, <3>3, HeadAndTail
        <4>2. QED
          BY <1>1, <4>1 DEF StillThere
      <3>4. QED
        BY <3>1, <3>2, <3>3
    <2>3. StillThere'
      BY <1>1, <2>2, LeftKept
    <2>4. CASE Tail(left) = <<>>
      <3>1. DOMAIN left' = {}
        BY <2>1, <2>4
      <3>2. \A f \in Eligible : f[1] # place
        BY <2>2, <3>1, Zenon
      <3>3. HereGone'
        BY <1>1, <3>2, Kept DEF HereGone
      <3>4. pc' = "returned" /\ res' = "failed"
        BY <1>5, <2>4 DEF Probe
      <3>5. QED
        BY <1>1, <1>2, <3>3, <3>4 DEF Search, Outcome, Running, Ended
    <2>5. CASE Tail(left) # <<>>
      <3>1. pc' = "probe"
        BY <1>5, <2>5 DEF Probe
      <3>2. QED
        BY <1>1, <1>2, <2>3, <3>1 DEF Search, Outcome, Running, Ended
    <2>6. QED
      BY <2>4, <2>5
  <1>6. QED
    BY <1>4, <1>5

LEMMA ChooseOrder ==
  ASSUME Search, Outcome, Choose \/ Comspec \/ Direct
  PROVE  Search' /\ Outcome'
  <1>1. ran = <<>>
    BY DEF Choose, Comspec, Direct, Outcome, Running
  <1>2. CASE \E e : e # "ENOENT" /\ Fail(e)
    BY <1>1, <1>2, FailOrder
  <1>3. CASE Choose /\ Spawner(found) # "error" /\ pc' = Spawner(found)
             /\ UNCHANGED <<inputs, search, memory, errno, res, ran>>
    <2>1. pc \in Running /\ pc' \in Running /\ pc' # "probe" /\ pc' \notin Ended
      BY <1>3 DEF Choose, Spawner, Running, Ended
    <2>2. Search'
      BY <1>3, <2>1, SearchKept DEF inputs, search
    <2>3. Outcome'
      BY <1>1, <1>3, <2>1 DEF Outcome
    <2>4. QED
      BY <2>2, <2>3
  <1>4. CASE Comspec /\ pc' = "direct"
             /\ UNCHANGED <<inputs, search, via, env_blk, errno, res, ran>>
    <2>1. Search'
      BY <1>4, SearchKept DEF Comspec, Running, inputs, search
    <2>2. Outcome'
      BY <1>1, <1>4 DEF Outcome, Running, Ended
    <2>3. QED
      BY <2>1, <2>2
  <1>5. CASE Direct
    <2>1. pc' \in Ended \/ pc' = "exec"
      BY <1>5 DEF Direct, Caller, Ended
    <2>2. Search'
      BY <1>5, <2>1, SearchKept DEF Direct, Running, Ended, inputs, search
    <2>3. Outcome'
      BY <1>1, <1>5, <2>1 DEF Direct, Outcome, Running, Ended
    <2>4. QED
      BY <2>2, <2>3
  <1>6. QED
    BY <1>2, <1>3, <1>4, <1>5 DEF Choose, Comspec

\* The place of an extension in the order, for one that may be run.
LEMMA IndexNumber ==
  ASSUME NEW e \in Exts, Allowed(e), ~AsNamed
  PROVE  Index(e) \in Nat
  <1>1. e \in {"COM", "EXE", "BAT", "BTM", ""}
    BY DEF Allowed, Exts, Shells, Binaries
  <1>2. Index(e) \in {1, 2, 3, 4, 5}
    BY <1>1, Indices, Zenon
  <1>3. QED
    BY <1>2

LEMMA ExecOrder ==
  ASSUME IInv, Search, Outcome, Exec, FirstMatchRuns
  PROVE  Search' /\ Outcome' /\ FirstMatchRuns'
  <1>1. /\ UNCHANGED <<world, req, place, found>> /\ pc' = "free_env"
        /\ ran = <<>> /\ FoundFirst /\ Behind
    BY DEF Exec, inputs, search, Search, Outcome, Running
  <1>2. Search'
    BY <1>1, SearchKept DEF Running
  <1>3. CASE errno' \in {"EACCES", "ENOMEM"} /\ res' = "failed" /\ UNCHANGED ran
    BY <1>1, <1>2, <1>3, MatchKept DEF Outcome, Ended, Running
  <1>4. CASE via = "comspec" /\ ~world.comspec /\ res' = "failed" /\ UNCHANGED ran
    <2>1. found \in Shells /\ ~req.interp
      BY <1>4 DEF Exec, IInv, Routed, Spawner
    <2>2. Unrunnable(<<place, found>>)
      BY <1>4, <2>1 DEF Unrunnable
    <2>3. ASSUME NEW f \in Eligible, f[1] = place PROVE OutOfReach(f)
      BY <1>1, <2>2, <2>3 DEF FoundFirst, OutOfReach
    <2>4. HereGone
      BY <2>3 DEF HereGone
    <2>5. HereGone'
      BY <1>1, <2>4, HereKept
    <2>6. QED
      BY <1>1, <1>2, <1>4, <2>5, MatchKept DEF Outcome, Ended, Running
  <1>5. CASE /\ ran' = Append(ran, [place |-> place, ext |-> found, via |-> via])
             /\ res' = "child"
    <2> DEFINE new == [place |-> place, ext |-> found, via |-> via]
               first == <<place, found>>
    <2>1. first \in Eligible /\ new.place = place /\ new.ext = found
      BY <1>1 DEF FoundFirst
    <2>2. ASSUME NEW f \in Eligible, Earlier(f, first) PROVE OutOfReach(f)
      <3>1. CASE f[1] < place
        BY <1>1, <3>1 DEF Behind
      <3>2. CASE f[1] = place /\ ~AsNamed /\ Index(f[2]) < Index(found)
        <4>1. Index(f[2]) \in Nat /\ place \in Nat
          BY <3>2, EligibleFile, IndexNumber, SpawnAssumption DEF IInv, TypeOK, Places
        <4>2. found \in Exts /\ Allowed(found)
          BY <2>1, EligibleFile DEF IInv
        <4>3. Index(found) \in Nat
          BY <3>2, <4>2, IndexNumber
        <4>4. f # first /\ ~Earlier(first, f)
          BY <3>2, <4>1, <4>3 DEF Earlier
        <4>5. QED
          BY <1>1, <3>2, <4>4 DEF FoundFirst
      <3>3. QED
        BY <2>2, <3>1, <3>2 DEF Earlier
    <2> HIDE DEF new
    <2>3. Len(ran') = 1 /\ \A r \in {ran'[i] : i \in DOMAIN ran'} : r = new
      BY <1>1, <1>5 DEF new
    <2>4. \A r \in {ran'[i] : i \in DOMAIN ran'} :
             /\ <<r.place, r.ext>> \in Eligible
             /\ \A f \in Eligible : Earlier(f, <<r.place, r.ext>>) => OutOfReach(f)
      BY <2>1, <2>2, <2>3
    <2>5. FirstMatchRuns'
      BY <1>1, <2>3, <2>4, Kept DEF FirstMatchRuns
    <2>6. Outcome'
      BY <1>1, <1>5 DEF Outcome, Ended, Running
    <2>7. QED
      BY <1>2, <2>5, <2>6
  <1>6. QED
    BY <1>3, <1>4, <1>5 DEF Exec

LEMMA FreeOrder ==
  ASSUME Search, Outcome, FreeEnv \/ FreeArgv
  PROVE  Search' /\ Outcome'
  <1>1. /\ UNCHANGED <<world, req, place, found, res, ran>>
        /\ pc \in Ended /\ pc' \in Ended
        /\ errno' = "ENOENT" => errno = "ENOENT"
    BY DEF FreeEnv, FreeArgv, Caller, Ended, inputs, search
  <1>2. Search'
    BY <1>1, SearchKept DEF Ended, Running
  <1>3. HereGone => HereGone'
    BY <1>1, HereKept
  <1>4. Outcome'
    BY <1>1, <1>3 DEF Outcome, Ended, Running
  <1>5. QED
    BY <1>2, <1>4

\* When the search ends, either here or with the last directory.
LEMMA ReturnOrder ==
  ASSUME IInv, Search, Outcome, Return \/ NextPlace
  PROVE  Search' /\ Outcome' /\ NotFoundIsTrue'
  <1>1. /\ UNCHANGED <<world, req, ran, res>> /\ pc = "returned"
        /\ place \in Places /\ place \in Nat /\ Behind
    BY SpawnAssumption DEF Return, NextPlace, inputs, Search, IInv, TypeOK, Places
  <1>2. \A f \in Eligible : /\ f[1] \in Places /\ f[1] \in Nat
                            /\ f[1] # 0 => req.pathed /\ ~req.specific
    BY EligibleFile DEF IInv
  <1>3. CASE Return
    <2>1. pc' = "done" /\ place' = place /\ errno' = errno
      BY <1>3 DEF Return
    <2>2. Behind'
      BY <1>1, <2>1, Kept DEF Behind
    <2>3. Search' /\ Outcome'
      BY <1>1, <2>1, <2>2 DEF Search, Outcome, Running, Ended
    <2>4. ASSUME res = "failed", errno = "ENOENT" PROVE \A f \in Eligible : OutOfReach(f)
      <3>1. ~req.pathed \/ req.specific
        BY <1>3, <2>4 DEF Return, Finished
      <3>2. place = 0 /\ \A f \in Eligible : f[1] = 0
        BY <1>2, <3>1 DEF Search
      <3>3. HereGone
        BY <1>1, <2>4 DEF Outcome, Ended
      <3>4. QED
        BY <3>2, <3>3 DEF HereGone
    <2>5. NotFoundIsTrue'
      BY <1>1, <2>1, <2>4, Kept DEF NotFoundIsTrue
    <2>6. QED
      BY <2>3, <2>5
  <1>4. CASE NextPlace
    <2>1. res # "child" /\ errno = "ENOENT" /\ req.pathed /\ ~(place = 0 /\ req.specific)
      BY <1>4 DEF NextPlace, Finished
    <2>2. res = "failed" /\ ran = <<>> /\ HereGone
      BY <1>1, <2>1 DEF Outcome, Ended, IInv, TypeOK
    <2>3. req.pathed /\ ~req.specific
      BY <2>1 DEF Search
    <2>4. \A f \in Eligible : f[1] < place + 1 => OutOfReach(f)
      BY <1>1, <1>2, <2>2 DEF Behind, HereGone
    <2>5. CASE pc' = "done" /\ place' = place /\ (place = NDirs \/ errno' # "ENOENT")
      <3>1. Behind'
        BY <1>1, <2>5, Kept DEF Behind
      <3>2. Search' /\ Outcome'
        BY <1>1, <2>3, <2>5, <3>1 DEF Search, Outcome, Running, Ended
      <3>3. place = NDirs => \A f \in Eligible : OutOfReach(f)
        BY <1>2, <2>4, SpawnAssumption DEF Places
      <3>4. NotFoundIsTrue'
        BY <1>1, <2>5, <3>3, Kept DEF NotFoundIsTrue
      <3>5. QED
        BY <3>2, <3>4
    <2>6. CASE pc' = "enter" /\ place' = place + 1
      <3>1. Behind'
        BY <1>1, <2>4, <2>6, Kept DEF Behind
      <3>2. QED
        BY <1>1, <2>2, <2>3, <2>6, <3>1 DEF Search, Outcome, NotFoundIsTrue, Running, Ended
    <2>7. QED
      BY <1>4, <2>5, <2>6 DEF NextPlace
  <1>5. QED
    BY <1>3, <1>4

\* The whole invariant, beside IInv.
Order == Search /\ Outcome /\ FirstMatchRuns /\ NotFoundIsTrue

LEMMA InitOrder == Init => Order
  <1> SUFFICES ASSUME Init PROVE Order
    OBVIOUS
  <1>1. TypeOK
    BY InitInvariant DEF IInv
  <1>2. Behind
    <2>1. \A f \in Eligible : f[1] \in Nat
      BY <1>1, EligibleFile
    <2>2. place = 0
      BY DEF Init
    <2>3. \A f \in Eligible : ~(f[1] < place)
      BY <2>1, <2>2
    <2>4. QED
      BY <2>3, Zenon DEF Behind
  <1>3. ran = <<>> /\ FirstMatchRuns
    <2>1. ran = <<>>
      BY DEF Init
    <2>2. Len(ran) <= 1 /\ {ran[i] : i \in DOMAIN ran} = {}
      BY <2>1
    <2>3. QED
      BY <2>1, <2>2 DEF FirstMatchRuns
  <1>4. QED
    BY <1>2, <1>3 DEF Init, Order, Search, Outcome, NotFoundIsTrue, Running, Ended

LEMMA StepOrder == IInv /\ IInv' /\ Order /\ [Next]_vars => Order'
  <1> SUFFICES ASSUME IInv, IInv', Order, [Next]_vars PROVE Order'
    OBVIOUS
  <1>1. CASE Call
    <2>1. pc' = "enter"
      BY <1>1 DEF Call
    <2>2. QED
      BY <1>1, <2>1, CallOrder DEF Order, NotFoundIsTrue
  <1>2. CASE Enter \/ Probe
    <2>1. UNCHANGED <<world, req, ran>> /\ pc' # "done"
      BY <1>2 DEF Enter, Probe, Fail, inputs
    <2>2. QED
      BY <1>2, <2>1, EnterOrder, ProbeOrder, MatchKept DEF Order, NotFoundIsTrue
  <1>3. CASE Choose \/ Comspec \/ Direct
    <2>1. UNCHANGED <<world, req, ran>> /\ pc' # "done"
      BY <1>3 DEF Choose, Comspec, Direct, Fail, Spawner, Caller, inputs
    <2>2. QED
      BY <1>3, <2>1, ChooseOrder, MatchKept DEF Order, NotFoundIsTrue
  <1>4. CASE Exec
    <2>1. pc' # "done"
      BY <1>4 DEF Exec
    <2>2. QED
      BY <1>4, <2>1, ExecOrder DEF Order, NotFoundIsTrue
  <1>5. CASE FreeEnv \/ FreeArgv
    <2>1. UNCHANGED <<world, req, ran>> /\ pc' # "done"
      BY <1>5 DEF FreeEnv, FreeArgv, Caller, inputs
    <2>2. QED
      BY <1>5, <2>1, FreeOrder, MatchKept DEF Order, NotFoundIsTrue
  <1>6. CASE Return \/ NextPlace
    <2>1. UNCHANGED <<world, req, ran>>
      BY <1>6 DEF Return, NextPlace, inputs
    <2>2. QED
      BY <1>6, <2>1, ReturnOrder, MatchKept DEF Order
  <1>7. CASE UNCHANGED vars
    <2>1. UNCHANGED <<world, req, place, left, found, pc, errno, res, ran>>
      BY <1>7 DEF vars
    <2>2. Search' /\ Outcome' /\ FirstMatchRuns'
      <3>1. StillThere => StillThere'
        BY <2>1, Kept DEF StillThere, Allowed
      <3>2. /\ Behind => Behind'
            /\ HereGone => HereGone'
            /\ FoundFirst => FoundFirst'
        BY <2>1, Kept, HereKept DEF Behind, FoundFirst
      <3>3. QED
        BY <2>1, <3>1, <3>2, MatchKept DEF Order, Search, Outcome
    <2>3. NotFoundIsTrue'
      BY <2>1, Kept DEF Order, NotFoundIsTrue
    <2>4. QED
      BY <2>2, <2>3 DEF Order
  <1>8. QED
    BY <1>1, <1>2, <1>3, <1>4, <1>5, <1>6, <1>7 DEF Next, Work

LEMMA AlwaysOrder == Spec => []Order
  BY InitOrder, StepOrder, AlwaysInvariant, PTL DEF Spec

-----------------------------------------------------------------------------
(* The theorems.                                                           *)

\* At most one program runs in a call of _spawnvpe, and it is the first that the
\* order of the search offers, whatever failed on the way to it.
THEOREM FirstMatchAlwaysRuns == Spec => []FirstMatchRuns
  <1>1. Order => FirstMatchRuns
    BY DEF Order
  <1>2. QED
    BY <1>1, AlwaysOrder, PTL

\* _spawnvpe only reports ENOENT when none of the files it could have run was
\* within its reach.
THEOREM NotFoundAlwaysTrue == Spec => []NotFoundIsTrue
  <1>1. Order => NotFoundIsTrue
    BY DEF Order
  <1>2. QED
    BY <1>1, AlwaysOrder, PTL
=============================================================================
