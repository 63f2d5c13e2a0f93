--------------------------- MODULE LibraryProofs ----------------------------
(***************************************************************************)
(* Proofs about what the library asks of DOS and of the extender: that     *)
(* what a call says of DOS is so, that what a program uses in protected    *)
(* mode is what DOS has in real mode, that a module is copied whole or not *)
(* at all, that the background comes back as it was, that far memory is    *)
(* moved byte for byte, that numbers come back as they went in, and that a *)
(* routine that raises an interrupt gives the stack back.  They hold of    *)
(* every sequence of calls and of everything DOS may answer.  Each         *)
(* inductive invariant says, for each place in a call, what the call has   *)
(* found out so far; it is given where the part begins.                    *)
(***************************************************************************)
EXTENDS Extender, DosCalls, Lz4Tool, Palette, FarMemory, Conversions, Interrupts,
        Induction, SequenceTheorems, FiniteSetTheorems, TLAPS

-----------------------------------------------------------------------------
(* DosCalls: what a call returns is what DOS did.                          *)

\* What the last call returned and left in errno is true.
Answered == \/ last.done = TRUE /\ last.ret = 0
            \/ /\ last.done = FALSE /\ last.ret \in Int \ {0} /\ errno_val # 0
               /\ last.ret > 0 => errno_val = last.ret

LEMMA AnsweredIsTrue ==
  ASSUME Answered
  PROVE  /\ (last.ret = 0) = last.done
         /\ last.ret > 0 => errno_val = last.ret
         /\ last.ret # 0 => errno_val # 0
  <1>1. CASE last.done = TRUE /\ last.ret = 0
    <2>1. (last.ret = 0) = last.done
      BY <1>1, Zenon
    <2>2. QED
      BY <1>1, <2>1
  <1>2. CASE last.done = FALSE /\ last.ret # 0
    <2>1. (last.ret = 0) = last.done
      BY <1>2, Zenon
    <2>2. last.ret # 0 /\ errno_val # 0 /\ (last.ret > 0 => errno_val = last.ret)
      BY <1>2 DEF Answered
    <2>3. QED
      BY <2>1, <2>2
  <1>3. QED
    BY <1>1, <1>2 DEF Answered

\* The blocks lie in memory, hold what was asked for and keep apart.
ArenaGood ==
  /\ DOMAIN arena \subseteq 1..ArenaParas
  /\ \A s \in DOMAIN arena : arena[s] \in Nat /\ s + arena[s] <= ArenaParas
  /\ DOMAIN asked_of = DOMAIN arena
  /\ \A s \in DOMAIN arena : asked_of[s] \in Nat /\ arena[s] * ParaSize >= asked_of[s]
  /\ \A s, t \in DOMAIN arena : s < t => s + arena[s] < t

FilesGood == tree = meant /\ DOMAIN tree = Paths /\ tree \in [Paths -> {"none", "file", "dir"}]
             /\ opened.asked = opened.want

DosInv == lib_modes \in LibModes /\ Answered /\ ArenaGood /\ FilesGood /\ searches = wanted

\* The paragraphs that _fmalloc asks for hold the bytes.
LEMMA ParasHold ==
  ASSUME NEW size \in Requested
  PROVE  size \in Nat /\ ParasOf(size) \in Nat /\ ParasOf(size) * ParaSize >= size
  <1>1. size \in Nat /\ ParaSize \in Nat \ {0}
    BY DosAssumption
  <1>2. CASE size = 0
    BY <1>1, <1>2 DEF ParasOf
  <1>3. CASE size # 0
    <2> DEFINE q == (size - 1) \div ParaSize
               r == (size - 1) % ParaSize
    <2>1. q \in Int /\ r \in 0..ParaSize - 1 /\ size - 1 = ParaSize * q + r
      BY <1>1
    <2>2. q >= 0
      BY <1>1, <1>3
    <2>3. ParasOf(size) = q + 1
      BY <1>3 DEF ParasOf
    <2> HIDE DEF q, r
    <2>4. (q + 1) * ParaSize = ParaSize * q + ParaSize
      BY <1>1, <2>1
    <2>5. QED
      BY <1>1, <2>1, <2>2, <2>3, <2>4
  <1>4. QED
    BY <1>2, <1>3

LEMMA DoneAnswers == ASSUME NEW v, Answered, Done(v) PROVE Answered'
  BY DEF Answered, Done

LEMMA ErrnoAnswers ==
  ASSUME NEW e \in Nat \ {0}, NEW ret \in {e, -1}, NEW v, ReallySetErrno(e, ret, v)
  PROVE  Answered'
  BY DEF Answered, ReallySetErrno

LEMMA RefusedAnswers == ASSUME NEW e \in Nat \ {0}, Refused(e) PROVE Answered'
  BY ErrnoAnswers DEF Refused

\* A block put where there is room, or in the place of one that may have its size,
\* keeps the blocks apart.
LEMMA PutKeeps ==
  ASSUME ArenaGood, NEW s \in 1..ArenaParas, NEW size \in Requested,
         s + ParasOf(size) <= ArenaParas,
         \A t \in DOMAIN arena \ {s} : t + arena[t] < s \/ s + ParasOf(size) < t,
         arena' = Put(arena, s, ParasOf(size)), asked_of' = Put(asked_of, s, size)
  PROVE  ArenaGood'
  <1> DEFINE n == ParasOf(size)
  <1>1. size \in Nat /\ n \in Nat /\ n * ParaSize >= size
    BY ParasHold
  <1> HIDE DEF n
  <1>2. /\ DOMAIN arena' = DOMAIN arena \union {s} /\ DOMAIN asked_of' = DOMAIN arena \union {s}
        /\ \A t \in DOMAIN arena' : arena'[t] = IF t = s THEN n ELSE arena[t]
        /\ \A t \in DOMAIN arena' : asked_of'[t] = IF t = s THEN size ELSE asked_of[t]
    BY DEF Put, n, ArenaGood
  <1>3. ArenaParas \in Nat /\ ParaSize \in Nat
    BY DosAssumption
  <1>4. DOMAIN arena' \subseteq 1..ArenaParas
    BY <1>2 DEF ArenaGood
  <1>5. \A t \in DOMAIN arena' : arena'[t] \in Nat /\ t + arena'[t] <= ArenaParas
    BY <1>1, <1>2 DEF ArenaGood, n
  <1>6. \A t \in DOMAIN arena' : asked_of'[t] \in Nat /\ arena'[t] * ParaSize >= asked_of'[t]
    BY <1>1, <1>2 DEF ArenaGood
  <1>7. ASSUME NEW t \in DOMAIN arena', NEW u \in DOMAIN arena', t < u
        PROVE  t + arena'[t] < u
    <2>1. t \in 1..ArenaParas /\ u \in 1..ArenaParas
      BY <1>4
    <2>2. CASE t = s
      <3>1. u \in DOMAIN arena \ {s} /\ arena[u] \in Nat
        BY <1>2, <1>7, <2>1, <2>2 DEF ArenaGood
      <3>2. s + n < u
        BY <1>7, <2>1, <2>2, <3>1 DEF n
      <3>3. QED
        BY <1>2, <2>2, <3>2
    <2>3. CASE u = s
      <3>1. t \in DOMAIN arena \ {s} /\ arena[t] \in Nat
        BY <1>2, <1>7, <2>1, <2>3 DEF ArenaGood
      <3>2. t + arena[t] < s
        BY <1>1, <1>7, <2>1, <2>3, <3>1 DEF n
      <3>3. QED
        BY <1>2, <1>7, <2>1, <2>3, <3>2
    <2>4. CASE t # s /\ u # s
      BY <1>2, <1>7, <2>4 DEF ArenaGood
    <2>5. QED
      BY <2>2, <2>3, <2>4
  <1>8. QED
    BY <1>2, <1>4, <1>5, <1>6, <1>7 DEF ArenaGood

LEMMA MemoryStep ==
  ASSUME DosInv, AllocMem \/ SetBlock \/ FreeMem
  PROVE  DosInv'
  <1>1. ArenaParas \in Nat /\ ParaSize \in Nat
    BY DosAssumption
  <1>2. \A size \in Requested : ParasOf(size) \in Nat
    BY ParasHold
  <1>3. (FilesGood /\ searches = wanted /\ lib_modes \in LibModes)'
    BY DEF DosInv, AllocMem, SetBlock, FreeMem, FilesGood, fileVars, searchVars
  <1>4. CASE AllocMem
    <2>1. PICK size \in Requested :
            \/ \E s \in Free(ParasOf(size)) :
                 /\ arena' = Put(arena, s, ParasOf(size)) /\ asked_of' = Put(asked_of, s, size)
                 /\ Done("segment")
            \/ UNCHANGED memoryVars /\ ReallySetErrno(8, 8, "largest")
      BY <1>4 DEF AllocMem
    <2>2. CASE UNCHANGED memoryVars /\ ReallySetErrno(8, 8, "largest")
      <3>1. Answered'
        BY <2>2, ErrnoAnswers
      <3>2. QED
        BY <1>3, <2>2, <3>1 DEF DosInv, ArenaGood, memoryVars
    <2>3. CASE \E s \in Free(ParasOf(size)) :
                 /\ arena' = Put(arena, s, ParasOf(size)) /\ asked_of' = Put(asked_of, s, size)
                 /\ Done("segment")
      <3>1. PICK s \in Free(ParasOf(size)) :
                 /\ arena' = Put(arena, s, ParasOf(size)) /\ asked_of' = Put(asked_of, s, size)
                 /\ Done("segment")
        BY <2>3
      <3>2. s \in 1..ArenaParas - ParasOf(size)
            /\ \A t \in DOMAIN arena : Block(t) \intersect s..s + ParasOf(size) = {}
        BY DEF Free
      <3>3. s \in 1..ArenaParas /\ s + ParasOf(size) <= ArenaParas
        BY <1>1, <1>2, <3>2
      <3>4. ASSUME NEW t \in DOMAIN arena
            PROVE  t + arena[t] < s \/ s + ParasOf(size) < t
        <4>1. t \in Nat /\ arena[t] \in Nat /\ ParasOf(size) \in Nat
          BY <1>2, <3>4 DEF DosInv, ArenaGood
        <4>2. s \notin Block(t) /\ t \notin s..s + ParasOf(size)
          <5>1. s \in s..s + ParasOf(size) /\ t \in Block(t)
            BY <3>3, <4>1 DEF Block
          <5>2. QED
            BY <3>2, <5>1
        <4>3. QED
          BY <3>3, <4>1, <4>2 DEF Block
      <3>5. ArenaGood'
        BY <3>1, <3>3, <3>4, PutKeeps DEF DosInv
      <3>6. Answered'
        BY <3>1, DoneAnswers DEF DosInv
      <3>7. QED
        BY <1>3, <3>5, <3>6 DEF DosInv
    <2>4. QED
      BY <2>1, <2>2, <2>3
  <1>5. CASE SetBlock
    <2>1. PICK s \in DOMAIN arena, size \in Requested :
            \/ UNCHANGED memoryVars /\ ReallySetErrno(8, 8, "largest")
            \/ /\ s + ParasOf(size) <= ArenaParas
               /\ \A t \in DOMAIN arena \ {s} : t \notin s..s + ParasOf(size)
               /\ arena' = Put(arena, s, ParasOf(size)) /\ asked_of' = Put(asked_of, s, size)
               /\ Done("nothing")
      <3>1. \A s \in DOMAIN arena, size \in Requested :
              ~(s + ParasOf(size) > ArenaParas) => s + ParasOf(size) <= ArenaParas
        BY <1>1, <1>2 DEF DosInv, ArenaGood
      <3>2. QED
        BY <1>5, <3>1 DEF SetBlock
    <2>2. CASE UNCHANGED memoryVars /\ ReallySetErrno(8, 8, "largest")
      <3>1. Answered'
        BY <2>2, ErrnoAnswers
      <3>2. QED
        BY <1>3, <2>2, <3>1 DEF DosInv, ArenaGood, memoryVars
    <2>3. CASE /\ s + ParasOf(size) <= ArenaParas
               /\ \A t \in DOMAIN arena \ {s} : t \notin s..s + ParasOf(size)
               /\ arena' = Put(arena, s, ParasOf(size)) /\ asked_of' = Put(asked_of, s, size)
               /\ Done("nothing")
      <3>1. s \in 1..ArenaParas /\ ParasOf(size) \in Nat
        BY <1>2 DEF DosInv, ArenaGood
      <3>2. ASSUME NEW t \in DOMAIN arena \ {s}
            PROVE  t + arena[t] < s \/ s + ParasOf(size) < t
        <4>1. t \in 1..ArenaParas /\ (t < s => t + arena[t] < s)
          BY <3>2 DEF DosInv, ArenaGood
        <4>2. t \notin s..s + ParasOf(size)
          BY <2>3, <3>2
        <4>3. QED
          BY <3>1, <3>2, <4>1, <4>2
      <3>3. ArenaGood'
        BY <2>3, <3>1, <3>2, PutKeeps DEF DosInv
      <3>4. Answered'
        BY <2>3, DoneAnswers DEF DosInv
      <3>5. QED
        BY <1>3, <3>3, <3>4 DEF DosInv
    <2>4. QED
      BY <2>1, <2>2, <2>3
  <1>6. CASE FreeMem
    <2>1. PICK s \in 1..ArenaParas :
            \/ UNCHANGED memoryVars /\ Refused(NoSuchBlock)
            \/ /\ arena' = Drop(arena, s) /\ asked_of' = Drop(asked_of, s)
               /\ last' = [done |-> TRUE, ret |-> 0, stored |-> "nothing"] /\ errno_val' = 0
      BY <1>6 DEF FreeMem
    <2>2. CASE UNCHANGED memoryVars /\ Refused(NoSuchBlock)
      <3>1. Answered'
        BY <2>2, RefusedAnswers DEF NoSuchBlock
      <3>2. QED
        BY <1>3, <2>2, <3>1 DEF DosInv, ArenaGood, memoryVars
    <2>3. CASE /\ arena' = Drop(arena, s) /\ asked_of' = Drop(asked_of, s)
               /\ last' = [done |-> TRUE, ret |-> 0, stored |-> "nothing"] /\ errno_val' = 0
      <3>1. Answered'
        BY <2>3 DEF Answered
      <3>2. ArenaGood'
        BY <2>3 DEF ArenaGood, DosInv, Drop
      <3>3. QED
        BY <1>3, <3>1, <3>2 DEF DosInv
    <2>4. QED
      BY <2>1, <2>2, <2>3
  <1>7. QED
    BY <1>4, <1>5, <1>6

\* A request that DOS does, and that changes what is at the path as the program means.
LEMMA BdosKeeps ==
  ASSUME FilesGood, Answered, NEW function, NEW p \in Paths, NEW rc \in BOOLEAN, NEW v, NEW result,
         AfterAt(function, p) = [tree EXCEPT ![p] = result], result \in {"none", "file", "dir"},
         Bdos(function, p, rc, v, result)
  PROVE  /\ Answered'
         /\ tree' = meant' /\ DOMAIN tree' = Paths /\ tree' \in [Paths -> {"none", "file", "dir"}]
         /\ last'.done \/ UNCHANGED fileVars
  <1> DEFINE Fails(e) == /\ ReallySetErrno(e, IF rc THEN e ELSE -1, "nothing")
                         /\ UNCHANGED fileVars
  <1>1. ASSUME NEW e \in Nat \ {0}, Fails(e)
        PROVE  Answered' /\ UNCHANGED fileVars
    <2>1. (IF rc THEN e ELSE -1) \in {e, -1}
      OBVIOUS
    <2>2. Answered'
      BY <1>1, <2>1, ErrnoAnswers
    <2>3. QED
      BY <1>1, <2>2
  <1>2. CASE Fails(IF function = 91 THEN FileExists ELSE 3) \/ \E e \in ErrorCodes : Fails(e)
    <2>1. (IF function = 91 THEN FileExists ELSE 3) \in Nat \ {0} /\ ErrorCodes \subseteq Nat \ {0}
      BY DEF FileExists, ErrorCodes
    <2> HIDE DEF Fails
    <2>2. Answered' /\ UNCHANGED fileVars
      BY <1>1, <1>2, <2>1
    <2>3. QED
      BY <2>2 DEF FilesGood, fileVars
  <1>3. CASE /\ tree' = AfterAt(function, p) /\ meant' = [meant EXCEPT ![p] = result]
             /\ Done(v)
    <2>1. Answered' /\ last'.done = TRUE
      BY <1>3, DoneAnswers DEF Done
    <2>2. tree' = [tree EXCEPT ![p] = result] /\ meant' = [tree EXCEPT ![p] = result]
      BY <1>3 DEF FilesGood
    <2>3. DOMAIN tree' = Paths /\ tree' \in [Paths -> {"none", "file", "dir"}]
      BY <2>2 DEF FilesGood
    <2>4. QED
      BY <2>1, <2>2, <2>3
  <1>4. QED
    BY <1>2, <1>3 DEF Bdos

LEMMA FileStep ==
  ASSUME DosInv, \/ Creat \/ CreatNew \/ MkDir \/ RmDir \/ ChDir \/ GetCwd \/ Open \/ Read \/ Write
                 \/ GetDiskFree
  PROVE  DosInv'
  <1>1. FilesGood /\ Answered /\ ErrorCodes \subseteq Nat \ {0} /\ EINVAL \in Nat \ {0}
        /\ ERANGE \in Nat \ {0} /\ BadAccess \in Nat \ {0}
    BY DEF DosInv, ErrorCodes, EINVAL, ERANGE, BadAccess
  <1>2. FileCall
    BY DEF Creat, CreatNew, MkDir, RmDir, ChDir, GetCwd, Open, Read, Write, ReadOrWrite, GetDiskFree
  <1>3. (ArenaGood /\ searches = wanted /\ lib_modes \in LibModes)'
    BY <1>2 DEF DosInv, FileCall, ArenaGood, memoryVars, searchVars
  <1>4. ASSUME Answered', FilesGood' PROVE DosInv'
    BY <1>3, <1>4 DEF DosInv
  <1>5. \A p \in Paths : /\ AfterAt(60, p) = [tree EXCEPT ![p] = "file"]
                         /\ AfterAt(91, p) = [tree EXCEPT ![p] = "file"]
                         /\ AfterAt(57, p) = [tree EXCEPT ![p] = "dir"]
                         /\ AfterAt(58, p) = [tree EXCEPT ![p] = "none"]
                         /\ AfterAt(59, p) = [tree EXCEPT ![p] = meant[p]]
                         /\ AfterAt(61, p) = [tree EXCEPT ![p] = meant[p]]
                         /\ meant[p] \in {"none", "file", "dir"}
    BY <1>1 DEF AfterAt, FilesGood
  <1>6. CASE Creat \/ CreatNew \/ MkDir \/ RmDir \/ ChDir
    <2>1. /\ Answered' /\ UNCHANGED opened
          /\ tree' = meant' /\ DOMAIN tree' = Paths /\ tree' \in [Paths -> {"none", "file", "dir"}]
      <3>1. CASE Creat
        <4>1. PICK p \in Paths : Bdos(60, p, TRUE, "handle", "file") /\ UNCHANGED opened
          BY <3>1 DEF Creat
        <4>2. AfterAt(60, p) = [tree EXCEPT ![p] = "file"] /\ "file" \in {"none", "file", "dir"}
          BY <1>5
        <4>3. TRUE \in BOOLEAN
          OBVIOUS
        <4>4. QED
          BY <1>1, <4>1, <4>2, <4>3, BdosKeeps, ZenonT(60)
      <3>2. CASE CreatNew
        <4>1. PICK p \in Paths : Bdos(91, p, TRUE, "handle", "file") /\ UNCHANGED opened
          BY <3>2 DEF CreatNew
        <4>2. AfterAt(91, p) = [tree EXCEPT ![p] = "file"] /\ "file" \in {"none", "file", "dir"}
          BY <1>5
        <4>3. QED
          BY <1>1, <4>1, <4>2, BdosKeeps, ZenonT(60)
      <3>3. CASE MkDir
        <4>1. PICK p \in Paths : Bdos(57, p, FALSE, "nothing", "dir") /\ UNCHANGED opened
          BY <3>3 DEF MkDir
        <4>2. AfterAt(57, p) = [tree EXCEPT ![p] = "dir"] /\ "dir" \in {"none", "file", "dir"}
          BY <1>5
        <4>3. FALSE \in BOOLEAN
          OBVIOUS
        <4>4. QED
          BY <1>1, <4>1, <4>2, <4>3, BdosKeeps, ZenonT(60)
      <3>4. CASE RmDir
        <4>1. PICK p \in Paths : Bdos(58, p, FALSE, "nothing", "none") /\ UNCHANGED opened
          BY <3>4 DEF RmDir
        <4>2. AfterAt(58, p) = [tree EXCEPT ![p] = "none"] /\ "none" \in {"none", "file", "dir"}
          BY <1>5
        <4>3. FALSE \in BOOLEAN
          OBVIOUS
        <4>4. QED
          BY <1>1, <4>1, <4>2, <4>3, BdosKeeps, ZenonT(60)
      <3>5. CASE ChDir
        <4>1. PICK p \in Paths : Bdos(59, p, FALSE, "nothing", meant[p]) /\ UNCHANGED opened
          BY <3>5 DEF ChDir
        <4>2. AfterAt(59, p) = [tree EXCEPT ![p] = meant[p]] /\ meant[p] \in {"none", "file", "dir"}
          BY <1>5
        <4>3. FALSE \in BOOLEAN
          OBVIOUS
        <4>4. QED
          BY <1>1, <4>1, <4>2, <4>3, BdosKeeps, ZenonT(60)
      <3>6. QED
        BY <1>6, <3>1, <3>2, <3>3, <3>4, <3>5
    <2>2. QED
      BY <1>1, <1>4, <2>1 DEF FilesGood
  <1>7. CASE GetCwd \/ GetDiskFree \/ Read \/ Write
    <2>1. Answered'
      BY <1>1, <1>7, DoneAnswers, ErrnoAnswers, RefusedAnswers
         DEF GetCwd, GetDiskFree, Read, Write, ReadOrWrite
    <2>2. FilesGood'
      BY <1>1, <1>7 DEF GetCwd, GetDiskFree, Read, Write, ReadOrWrite, FilesGood, fileVars
    <2>3. QED
      BY <1>4, <2>1, <2>2
  <1>8. CASE Open
    <2> DEFINE Mode(want) == CASE want = 0 -> lib_modes.rd
                               [] want = 1 -> lib_modes.wr
                               [] want = 2 -> lib_modes.rw
    <2>1. PICK want \in 0..2, fits \in BOOLEAN, p \in Paths :
            IF ~fits THEN Refused(BadAccess) /\ UNCHANGED fileVars
            ELSE /\ Bdos(61, p, TRUE, "handle", meant[p])
                 /\ opened' = IF last'.done
                              THEN [handle |-> TRUE, asked |-> ModeForDos(Mode(want)), want |-> want]
                              ELSE opened
      BY <1>8 DEF Open
    <2>2. CASE Refused(BadAccess) /\ UNCHANGED fileVars
      BY <1>1, <1>4, <2>2, RefusedAnswers DEF FilesGood, fileVars
    <2>3. CASE /\ Bdos(61, p, TRUE, "handle", meant[p])
               /\ opened' = IF last'.done
                            THEN [handle |-> TRUE, asked |-> ModeForDos(Mode(want)), want |-> want]
                            ELSE opened
      <3>1. ModeForDos(Mode(want)) = want
        <4>1. lib_modes \in [rd : 0..3, wr : 0..3, rw : 0..3]
              /\ lib_modes.rd # lib_modes.wr /\ lib_modes.rd # lib_modes.rw
              /\ lib_modes.wr # lib_modes.rw
          BY DosAssumption DEF DosInv
        <4>2. QED
          BY <4>1 DEF ModeForDos
      <3>2. /\ Answered'
            /\ tree' = meant' /\ DOMAIN tree' = Paths /\ tree' \in [Paths -> {"none", "file", "dir"}]
        BY <1>1, <1>5, <2>3, BdosKeeps, ZenonT(60)
      <3>3. opened'.asked = opened'.want
        BY <1>1, <2>3, <3>1 DEF FilesGood
      <3>4. QED
        BY <1>4, <3>2, <3>3 DEF FilesGood
    <2>4. QED
      BY <2>1, <2>2, <2>3
  <1>9. QED
    BY <1>6, <1>7, <1>8

LEMMA SearchStep ==
  ASSUME DosInv, FindFirst \/ FindNext \/ DtaTaken
  PROVE  DosInv'
  <1>1. (ArenaGood /\ FilesGood /\ lib_modes \in LibModes)'
    BY DEF DosInv, FindFirst, FindNext, FindNextWith, DtaTaken, ArenaGood, FilesGood, memoryVars,
           fileVars
  <1>2. Answered /\ searches = wanted /\ ErrorCodes \subseteq Nat \ {0} /\ 18 \in Nat \ {0}
    BY DEF DosInv, ErrorCodes
  <1>3. CASE FindFirst
    <2>1. Answered'
      BY <1>2, <1>3, DoneAnswers, RefusedAnswers DEF FindFirst
    <2>2. (searches = wanted)'
      BY <1>2, <1>3 DEF FindFirst
    <2>3. QED
      BY <1>1, <2>1, <2>2 DEF DosInv
  <1>4. CASE FindNext
    <2>1. PICK b \in Buffers :
            \/ searches' = [searches EXCEPT ![b].at = @ + 1]
               /\ wanted' = [wanted EXCEPT ![b].at = @ + 1] /\ Done("found")
            \/ UNCHANGED <<searches, wanted>> /\ Refused(18)
      BY <1>4 DEF FindNext, FindNextWith, NextIn
    <2>2. Answered'
      BY <1>2, <2>1, DoneAnswers, RefusedAnswers
    <2>3. (searches = wanted)'
      BY <1>2, <2>1
    <2>4. QED
      BY <1>1, <2>2, <2>3 DEF DosInv
  <1>5. CASE DtaTaken
    BY <1>1, <1>5 DEF DosInv, DtaTaken, Answered
  <1>6. QED
    BY <1>3, <1>4, <1>5

LEMMA DosInvInit == DosInit => DosInv
  <1> SUFFICES ASSUME DosInit PROVE DosInv
    OBVIOUS
  <1>1. Answered
    BY DEF DosInit, Answered
  <1>2. ArenaGood
    BY DEF DosInit, ArenaGood
  <1>3. FilesGood
    BY DEF DosInit, FilesGood
  <1>4. QED
    BY <1>1, <1>2, <1>3 DEF DosInit, DosInv

LEMMA DosInvNext == DosInv /\ [DosNext]_dosVars => DosInv'
  <1> SUFFICES ASSUME DosInv, [DosNext]_dosVars PROVE DosInv'
    OBVIOUS
  <1>1. CASE UNCHANGED dosVars
    BY <1>1 DEF DosInv, dosVars, Answered, ArenaGood, FilesGood, memoryVars, fileVars, searchVars
  <1>2. CASE DosNext
    BY <1>2, MemoryStep, FileStep, SearchStep DEF DosNext
  <1>3. QED
    BY <1>1, <1>2

LEMMA DosInvImplies == DosInv => AnswersAreTrue
  <1> SUFFICES ASSUME DosInv PROVE AnswersAreTrue
    OBVIOUS
  <1>1. /\ (last.ret = 0) = last.done
        /\ last.ret > 0 => errno_val = last.ret
        /\ last.ret # 0 => errno_val # 0
    BY AnsweredIsTrue DEF DosInv
  <1>2. \A s \in DOMAIN arena : arena[s] * ParaSize >= asked_of[s]
    BY DEF DosInv, ArenaGood
  <1>3. ASSUME NEW s \in DOMAIN arena, NEW t \in DOMAIN arena, s # t
        PROVE  Block(s) \intersect Block(t) = {}
    <2>1. s \in Nat /\ t \in Nat /\ arena[s] \in Nat /\ arena[t] \in Nat
      BY DEF DosInv, ArenaGood
    <2>2. s + arena[s] < t \/ t + arena[t] < s
      BY <1>3, <2>1 DEF DosInv, ArenaGood
    <2>3. QED
      BY <2>1, <2>2 DEF Block
  <1>4. tree = meant /\ opened.asked = opened.want /\ searches = wanted
    BY DEF DosInv, FilesGood
  <1>5. QED
    BY <1>1, <1>2, <1>3, <1>4 DEF AnswersAreTrue

\* What a call returns, errno and the caller's variables say what DOS did; memory
\* blocks hold what was asked for and keep apart.
THEOREM DosAnswersAreTrue == DosSpec => []AnswersAreTrue
  BY DosInvInit, DosInvNext, DosInvImplies, PTL DEF DosSpec

-----------------------------------------------------------------------------
(* Lz4Tool: all of the module or none of it.                               *)

\* What has been read or written up to some place, and the next of it.
LEMMA NextPart ==
  ASSUME NEW S, NEW s \in Seq(S), NEW n \in 0..Len(s), NEW r \in 0..Len(s) - n
  PROVE  /\ SubSeq(s, 1, n) \in Seq(S) /\ Len(SubSeq(s, 1, n)) = n
         /\ SubSeq(s, 1, n) \o SubSeq(s, n + 1, n + r) = SubSeq(s, 1, n + r)
         /\ SubSeq(s, 1, Len(s)) = s
  <1>1. /\ n \in Nat /\ r \in Nat /\ Len(s) \in Nat /\ n <= Len(s) /\ n + r <= Len(s)
    OBVIOUS
  <1>2. SubSeq(s, 1, n) \in Seq(S) /\ Len(SubSeq(s, 1, n)) = n
    BY <1>1
  <1>3. SubSeq(s, 1, n) \o SubSeq(s, n + 1, n + r) = SubSeq(s, 1, n + r)
    <2>1. 1 \in 1..Len(s) + 1 /\ n \in 1 - 1..Len(s) /\ n + r \in n..Len(s)
      BY <1>1
    <2>2. QED
      BY <2>1, ConcatAdjacentSubSeq
  <1>4. SubSeq(s, 1, Len(s)) = s
    OBVIOUS
  <1>5. QED
    BY <1>2, <1>3, <1>4

\* What the header said, once it has been seen to be good.
AfterHdr   == {"xlen", "hc", "blk_sz", "malloc", "blk", "cksum", "blk2_sz", "length", "open out",
               "write"}
AfterXlen  == AfterHdr \ {"xlen"}
AfterSize  == AfterXlen \ {"hc", "blk_sz"}
AfterBlock == {"cksum", "blk2_sz", "length", "open out", "write"}
AfterMore  == {"length", "open out", "write"}
Ends       == {"ouch", "exited"}

Judged == /\ lz_pc \in AfterHdr => HeaderIsGood
          /\ lz_pc \in AfterXlen => frame.xlen # "large"
          /\ lz_pc \in AfterSize => frame.size = "fits"
          /\ lz_pc \in AfterMore => ~frame.more

\* The block's buffer has what has been read of the block.
BlockRead ==
  /\ left \in Nat
  /\ lz_pc \notin AfterBlock \union Ends \union {"blk"} => blk = <<>>
  /\ lz_pc = "blk" => /\ left <= Len(frame.block)
                      /\ blk = SubSeq(frame.block, 1, Len(frame.block) - left)
  /\ lz_pc \in AfterBlock => blk = frame.block

\* The output file has what has been written, and is touched only by writing.
WrittenSoFar ==
  IF lz_pc = "write"
  THEN /\ left \in 0..Len(ModuleText)
       /\ IF left = Len(ModuleText) THEN out_file \in Untouched
          ELSE out_file = SubSeq(ModuleText, 1, Len(ModuleText) - left)
  ELSE /\ lz_pc \notin Ends => out_file \in Untouched
       /\ lz_pc = "ouch" /\ out_fd = "failed" => out_file \in Untouched

LzInv == /\ frame \in Frames
         /\ lz_pc \in {"options", "open in", "hdr"} \union AfterHdr \union Ends
         /\ lz_pc \in AfterHdr \union {"options", "open in", "hdr"} => out_fd # "failed"
         /\ Judged /\ BlockRead /\ WrittenSoFar /\ AllOrNothing

LEMMA FieldsDef ==
  /\ DOMAIN Field = {"hdr", "xlen", "hc", "blk_sz", "blk", "cksum", "blk2_sz"}
  /\ Field.hdr = 2 /\ Field.xlen = 2 /\ Field.hc = 1 /\ Field.blk_sz = 2 /\ Field.cksum = 2
  /\ Field.blk2_sz = 2 /\ Field.blk = Len(frame.block)
  BY DEF Field

LEMMA AfterDef ==
  /\ After.hdr = IF ~HeaderIsGood THEN "ouch" ELSE IF frame.xlen = "none" THEN "hc" ELSE "xlen"
  /\ After.xlen = IF frame.xlen = "large" THEN "ouch" ELSE "hc"
  /\ After.hc = "blk_sz"
  /\ After.blk_sz = IF frame.size # "fits" THEN "ouch" ELSE "malloc"
  /\ After.blk = IF frame.cksum THEN "cksum" ELSE "blk2_sz"
  /\ After.cksum = "blk2_sz"
  /\ After.blk2_sz = IF frame.more THEN "ouch" ELSE "length"
  BY DEF After

LEMMA FrameType == ASSUME frame \in Frames PROVE frame.block \in Seq(Nat) /\ Len(frame.block) \in Nat
  BY Lz4Assumption

LEMMA Singleton ==
  ASSUME NEW S, NEW x \in S
  PROVE  <<x>> \in Seq(S) /\ Len(<<x>>) = 1 /\ <<x>>[1] = x
  OBVIOUS

LEMMA ModuleType ==
  ASSUME blk \in Seq(Nat)
  PROVE  /\ ModuleText \in Seq(Nat \union {"head", "end"}) /\ Len(ModuleText) = Len(blk) + 2
         /\ Len(ModuleText) \in Nat \ {0} /\ ModuleText[1] = "head"
  <1> DEFINE S == Nat \union {"head", "end"}
  <1>1. "head" \in S /\ "end" \in S /\ Nat \subseteq S
    OBVIOUS
  <1> HIDE DEF S
  <1>2. <<"head">> \in Seq(S) /\ <<"end">> \in Seq(S) /\ Len(<<"head">>) = 1 /\ Len(<<"end">>) = 1
        /\ <<"head">>[1] = "head"
    BY <1>1, Singleton
  <1>3. blk \in Seq(S)
    BY <1>1, SeqMonotonic
  <1>4. <<"head">> \o blk \in Seq(S) /\ Len(<<"head">> \o blk) = 1 + Len(blk)
        /\ (<<"head">> \o blk)[1] = "head" /\ Len(blk) \in Nat
    BY <1>2, <1>3, ConcatProperties
  <1>5. QED
    BY <1>2, <1>4, ConcatProperties DEF ModuleText, S

LEMMA LzInvInit == LzInit => LzInv
  <1> SUFFICES ASSUME LzInit PROVE LzInv
    OBVIOUS
  <1>1. out_file \in Untouched /\ out_fd # "failed"
    BY DEF LzInit, Untouched
  <1>2. QED
    BY <1>1 DEF LzInit, LzInv, Judged, BlockRead, WrittenSoFar, AllOrNothing, AfterHdr, AfterXlen,
                AfterSize, AfterBlock, AfterMore, Ends

\* The program fails before anything is written.
LEMMA FatalStep ==
  ASSUME LzInv, lz_pc \in {"open in", "hdr"} \union (AfterHdr \ {"write"}), Fatal,
         UNCHANGED <<frame, output, blk, out_fd, out_file>>
  PROVE  LzInv'
  <1>1. lz_pc' = "ouch" /\ left' = left /\ left \in Nat /\ out_file' = out_file
        /\ out_file \in Untouched
    BY DEF Fatal, LzInv, BlockRead, WrittenSoFar, AfterHdr, Ends
  <1>2. Judged'
    BY <1>1 DEF Judged, AfterHdr, AfterXlen, AfterSize, AfterMore
  <1>3. BlockRead'
    BY <1>1 DEF BlockRead, AfterBlock, Ends
  <1>4. WrittenSoFar' /\ AllOrNothing'
    BY <1>1 DEF WrittenSoFar, AllOrNothing
  <1>5. QED
    BY <1>1, <1>2, <1>3, <1>4 DEF LzInv, AfterHdr, Ends

\* The program goes on, and writes nothing yet.
LEMMA GoOn ==
  ASSUME LzInv, lz_pc \notin Ends \union {"write"}, Judged', BlockRead',
         lz_pc' \in {"open in", "hdr"} \union (AfterHdr \ {"write"}),
         UNCHANGED <<frame, output, out_fd, out_file>>
  PROVE  LzInv'
  <1>1. out_file' \in Untouched /\ out_fd' # "failed"
    BY DEF LzInv, WrittenSoFar
  <1>2. lz_pc' \notin Ends \union {"write"}
    BY DEF AfterHdr, Ends
  <1>3. WrittenSoFar' /\ AllOrNothing'
    BY <1>1, <1>2 DEF WrittenSoFar, AllOrNothing, Ends
  <1>4. QED
    BY <1>1, <1>3 DEF LzInv

\* The steps before the output is opened.
LEMMA ReadingStep ==
  ASSUME LzInv, Options \/ OpenIn \/ InputFails \/ Malloc \/ Length
  PROVE  LzInv'
  <1>1. frame \in Frames /\ frame.block \in Seq(Nat) /\ Len(frame.block) \in Nat
    BY FrameType DEF LzInv
  <1>2. CASE Options
    <2>1. CASE lz_pc' = "open in"
      <3>1. Judged' /\ BlockRead'
        BY <1>2, <2>1 DEF Options, LzInv, Judged, BlockRead, AfterHdr, AfterXlen, AfterSize, AfterMore,
                   AfterBlock, Ends
      <3>2. QED
        BY <1>2, <2>1, <3>1, GoOn DEF Options, Ends
    <2>2. CASE lz_pc' = "exited" /\ status' = 1
      <3>1. Judged' /\ BlockRead'
        BY <1>2, <2>2 DEF Options, LzInv, Judged, BlockRead, AfterHdr, AfterXlen, AfterSize, AfterMore,
                   AfterBlock, Ends
      <3>2. WrittenSoFar' /\ AllOrNothing'
        BY <1>2, <2>2 DEF Options, LzInv, WrittenSoFar, AllOrNothing, Ends
      <3>3. QED
        BY <1>2, <2>2, <3>1, <3>2 DEF Options, LzInv, AfterHdr, Ends
    <2>3. CASE lz_pc' = "ouch" /\ UNCHANGED status
      <3>1. Judged' /\ BlockRead'
        BY <1>2, <2>3 DEF Options, LzInv, Judged, BlockRead, AfterHdr, AfterXlen, AfterSize, AfterMore,
                   AfterBlock, Ends
      <3>2. WrittenSoFar' /\ AllOrNothing'
        BY <1>2, <2>3 DEF Options, LzInv, WrittenSoFar, AllOrNothing, Ends
      <3>3. QED
        BY <1>2, <2>3, <3>1, <3>2 DEF Options, LzInv, AfterHdr, Ends
    <2>4. QED
      BY <1>2, <2>1, <2>2, <2>3 DEF Options
  <1>3. CASE OpenIn
    <2>1. CASE Fatal
      BY <1>3, <2>1, FatalStep DEF OpenIn
    <2>2. CASE ReadNext("hdr")
      <3>1. lz_pc = "open in" /\ lz_pc' = "hdr" /\ left' = 2
        BY <1>3, <2>2, FieldsDef DEF OpenIn, ReadNext
      <3>2. Judged'
        BY <3>1 DEF Judged, AfterHdr, AfterXlen, AfterSize, AfterMore
      <3>3. BlockRead'
        BY <1>3, <3>1 DEF OpenIn, LzInv, BlockRead, AfterBlock, Ends
      <3>4. QED
        BY <1>3, <3>1, <3>2, <3>3, GoOn DEF OpenIn, Ends
    <2>3. QED
      BY <1>3, <2>1, <2>2 DEF OpenIn
  <1>4. CASE InputFails
    BY <1>4, FatalStep, FieldsDef DEF InputFails, AfterHdr
  <1>5. CASE Malloc
    <2>1. CASE Fatal
      BY <1>5, <2>1, FatalStep DEF Malloc, AfterHdr
    <2>2. CASE ReadNext("blk")
      <3>1. Judged'
        BY <1>5, <2>2 DEF Malloc, ReadNext, LzInv, Judged, HeaderIsGood, AfterHdr, AfterXlen, AfterSize,
                          AfterMore
      <3>2. SubSeq(frame.block, 1, 0) = <<>>
        BY <1>1
      <3>3. lz_pc = "malloc" /\ blk = <<>> /\ lz_pc' = "blk" /\ blk' = blk /\ frame' = frame
            /\ left' = Len(frame.block)
        BY <1>5, <2>2, FieldsDef DEF Malloc, ReadNext, LzInv, BlockRead, AfterBlock, Ends
      <3>4. BlockRead'
        BY <1>1, <3>2, <3>3 DEF BlockRead, AfterBlock
      <3>5. QED
        BY <1>5, <3>1, <3>3, <3>4, GoOn DEF Malloc, AfterHdr, Ends
    <2>3. QED
      BY <1>5, <2>1, <2>2 DEF Malloc
  <1>6. CASE Length
    <2>1. CASE Fatal
      BY <1>6, <2>1, FatalStep DEF Length, AfterHdr
    <2>2. CASE lz_pc' = "open out" /\ UNCHANGED left
      <3>1. Judged'
        BY <1>6, <2>2 DEF Length, LzInv, Judged, HeaderIsGood, AfterHdr, AfterXlen, AfterSize, AfterMore
      <3>2. BlockRead'
        BY <1>6, <2>2 DEF Length, LzInv, BlockRead, AfterBlock, Ends
      <3>3. QED
        BY <1>6, <2>2, <3>1, <3>2, GoOn DEF Length, AfterHdr, Ends
    <2>3. QED
      BY <1>6, <2>1, <2>2 DEF Length
  <1>7. QED
    BY <1>2, <1>3, <1>4, <1>5, <1>6

\* A read takes the next part of the block.
LEMMA InputStep ==
  ASSUME LzInv, Input
  PROVE  LzInv'
  <1>1. frame \in Frames /\ frame.block \in Seq(Nat) /\ Len(frame.block) \in Nat /\ left \in Nat
    BY FrameType DEF LzInv, BlockRead
  <1>2. PICK r \in 1..left :
          left' = left - r
          /\ blk' = IF lz_pc # "blk" THEN blk
                    ELSE blk \o SubSeq(frame.block, Len(blk) + 1, Len(blk) + r)
    BY DEF Input
  <1>3. lz_pc' = lz_pc /\ lz_pc \in DOMAIN Field /\ frame' = frame /\ left' \in Nat
        /\ UNCHANGED <<output, out_fd, out_file>>
    BY <1>1, <1>2 DEF Input
  <1>4. Judged'
    BY <1>3 DEF LzInv, Judged, HeaderIsGood
  <1>5. BlockRead'
    <2>1. CASE lz_pc # "blk"
      BY <1>2, <1>3, <2>1 DEF LzInv, BlockRead
    <2>2. CASE lz_pc = "blk"
      <3> DEFINE n == Len(frame.block) - left
      <3>1. n \in 0..Len(frame.block) /\ r \in 0..Len(frame.block) - n
            /\ blk = SubSeq(frame.block, 1, n)
        BY <1>1, <2>2 DEF LzInv, BlockRead
      <3>2. n + r = Len(frame.block) - left' /\ left' <= Len(frame.block)
        BY <1>1, <1>2, <2>2 DEF LzInv, BlockRead
      <3> HIDE DEF n
      <3>3. Len(blk) = n
            /\ blk \o SubSeq(frame.block, n + 1, n + r) = SubSeq(frame.block, 1, n + r)
        BY <1>1, <3>1, NextPart, SMTT(30)
      <3>4. blk' = SubSeq(frame.block, 1, n + r)
        BY <1>2, <2>2, <3>3
      <3>5. QED
        BY <1>3, <2>2, <3>2, <3>4 DEF BlockRead, AfterBlock, Ends
    <2>3. QED
      BY <2>1, <2>2
  <1>6. lz_pc \notin Ends \union {"write"} /\ lz_pc \in {"open in", "hdr"} \union (AfterHdr \ {"write"})
    BY <1>3, FieldsDef DEF Ends, AfterHdr
  <1>7. QED
    BY <1>3, <1>4, <1>5, <1>6, GoOn

\* A field that has been read is judged.
LEMMA CheckStep ==
  ASSUME LzInv, Check
  PROVE  LzInv'
  <1>1. frame \in Frames /\ frame.block \in Seq(Nat) /\ Len(frame.block) \in Nat /\ left = 0
    BY FrameType DEF LzInv, Check
  <1>2. /\ lz_pc \in {"hdr", "xlen", "hc", "blk_sz", "blk", "cksum", "blk2_sz"}
        /\ lz_pc' = After[lz_pc] /\ UNCHANGED <<frame, output, blk, out_fd, out_file>>
        /\ left' = IF After[lz_pc] \in DOMAIN Field THEN Field[After[lz_pc]] ELSE 0
    BY FieldsDef DEF Check
  <1>3. frame.xlen \in {"none", "zero", "fits", "large"}
        /\ {frame.more, frame.cksum} \subseteq BOOLEAN
    BY <1>1, Lz4Assumption
  <1>4. blk = frame.block \/ lz_pc \notin {"blk", "cksum", "blk2_sz"}
    <2>1. SubSeq(frame.block, 1, Len(frame.block) - left) = frame.block
      BY <1>1
    <2>2. QED
      BY <1>1, <2>1 DEF LzInv, BlockRead, AfterBlock
  <1>5. blk = <<>> \/ lz_pc \notin {"hdr", "xlen", "hc", "blk_sz"}
    BY DEF LzInv, BlockRead, AfterBlock, Ends
  <1>6. left' \in Nat /\ lz_pc' # "blk"
    BY <1>2, FieldsDef, AfterDef
  <1>7. Judged'
    BY <1>2, <1>3, AfterDef DEF LzInv, Judged, HeaderIsGood, AfterHdr, AfterXlen, AfterSize, AfterMore
  <1>8. BlockRead'
    BY <1>2, <1>4, <1>5, <1>6, AfterDef DEF BlockRead, AfterBlock, Ends
  <1>9. CASE lz_pc' = "ouch"
    <2>1. out_file' \in Untouched
      BY <1>2 DEF LzInv, WrittenSoFar, Ends
    <2>2. WrittenSoFar' /\ AllOrNothing'
      BY <1>9, <2>1 DEF WrittenSoFar, AllOrNothing
    <2>3. QED
      BY <1>2, <1>7, <1>8, <1>9, <2>2 DEF LzInv, AfterHdr, Ends
  <1>10. CASE lz_pc' # "ouch"
    <2>1. lz_pc' \in {"open in", "hdr"} \union (AfterHdr \ {"write"})
      BY <1>2, <1>10, AfterDef DEF AfterHdr
    <2>2. lz_pc \notin Ends \union {"write"}
      BY <1>2 DEF Ends
    <2>3. QED
      BY <1>2, <1>7, <1>8, <2>1, <2>2, GoOn
  <1>11. QED
    BY <1>9, <1>10

\* Opening the output, and the writes, each of the next part of the module.
LEMMA WritingStep ==
  ASSUME LzInv, OpenOut \/ OutputFd \/ OutputFails \/ CloseOut \/ Ouch
  PROVE  LzInv'
  <1>1. frame \in Frames /\ frame.block \in Seq(Nat) /\ Len(frame.block) \in Nat /\ left \in Nat
        /\ frame' = frame /\ output' = output /\ blk' = blk
    BY FrameType DEF LzInv, BlockRead, OpenOut, OutputFd, OutputFails, CloseOut, Ouch
  <1> DEFINE m == ModuleText
             S == Nat \union {"head", "end"}
  <1>2. lz_pc \in {"open out", "write"} =>
          /\ blk = frame.block /\ m = <<"head">> \o frame.block \o <<"end">>
          /\ m \in Seq(S) /\ Len(m) \in Nat \ {0} /\ m[1] = "head" /\ ModuleText' = ModuleText
    <2>1. lz_pc \in {"open out", "write"} => blk = frame.block
      BY DEF LzInv, BlockRead, AfterBlock
    <2>2. ModuleText' = ModuleText
      BY <1>1 DEF ModuleText
    <2>3. QED
      BY <1>1, <2>1, <2>2, ModuleType DEF ModuleText
  <1> HIDE DEF S
  <1>3. CASE OpenOut
    <2>1. CASE Fatal
      <3>1. /\ lz_pc = "open out" /\ lz_pc' = "ouch" /\ left' = left /\ out_file' \in Untouched
        BY <1>3, <2>1 DEF OpenOut, Fatal, LzInv, WrittenSoFar, Ends
      <3>2. Judged' /\ BlockRead'
        BY <1>1, <3>1 DEF Judged, BlockRead, AfterHdr, AfterXlen, AfterSize, AfterMore, AfterBlock, Ends
      <3>3. WrittenSoFar' /\ AllOrNothing'
        BY <3>1 DEF WrittenSoFar, AllOrNothing
      <3>4. QED
        BY <1>1, <3>1, <3>2, <3>3 DEF LzInv, AfterHdr, Ends
    <2>2. CASE ~Fatal
      <3>1. /\ lz_pc = "open out" /\ lz_pc' = "write" /\ left' = Len(m) /\ out_file' = out_file
            /\ out_file \in Untouched /\ out_fd' # "failed"
        BY <1>3, <2>2 DEF OpenOut, LzInv, WrittenSoFar, Ends
      <3>2. Judged'
        BY <1>1, <3>1 DEF LzInv, Judged, HeaderIsGood, AfterHdr, AfterXlen, AfterSize, AfterMore
      <3>3. BlockRead'
        BY <1>1, <1>2, <3>1 DEF BlockRead, AfterBlock, Ends
      <3>4. WrittenSoFar'
        <4>1. left' = Len(ModuleText') /\ Len(ModuleText') \in Nat
          BY <1>2, <3>1
        <4>2. left' \in 0..Len(ModuleText')
          BY <4>1
        <4>3. QED
          BY <3>1, <4>1, <4>2 DEF WrittenSoFar
      <3>5. AllOrNothing'
        BY <3>1 DEF AllOrNothing
      <3>6. QED
        BY <1>1, <3>1, <3>2, <3>3, <3>4, <3>5 DEF LzInv, AfterHdr
    <2>3. QED
      BY <2>1, <2>2
  <1>4. CASE OutputFd
    <2>1. lz_pc = "write" /\ lz_pc' = "write" /\ left > 0 /\ out_fd' = out_fd /\ out_fd # "failed"
      BY <1>4 DEF OutputFd, LzInv, AfterHdr
    <2>2. PICK r \in 1..left :
            /\ left' = left - r
            /\ out_file' = Written \o SubSeq(m, Len(Written) + 1, Len(Written) + r)
      BY <1>4 DEF OutputFd
    <2> DEFINE n == Len(m) - left
    <2>3. Len(m) \in Nat /\ n \in 0..Len(m) /\ r \in 0..Len(m) - n /\ left <= Len(m)
      BY <1>1, <1>2, <2>1 DEF LzInv, WrittenSoFar
    <2>4. n + r = Len(m) - left' /\ left' \in 0..Len(m) /\ left' # Len(m)
      BY <1>1, <2>2, <2>3
    <2>5. Written = SubSeq(m, 1, n)
      <3>1. CASE left = Len(m)
        <4>1. Written = <<>>
          BY <2>1, <3>1 DEF Written, LzInv, WrittenSoFar
        <4>2. SubSeq(m, 1, 0) = <<>> /\ n = 0
          BY <1>2, <2>1, <2>3, <3>1
        <4>3. QED
          BY <4>1, <4>2
      <3>2. CASE left # Len(m)
        <4>1. out_file = SubSeq(m, 1, n) /\ n >= 1
          BY <2>1, <2>3, <3>2 DEF LzInv, WrittenSoFar
        <4>2. SubSeq(m, 1, n)[1] = "head"
          BY <1>2, <2>1, <2>3, <4>1
        <4>3. out_file \notin Untouched
          <5>1. \A x \in Untouched : x[1] # "head"
            BY DEF Untouched
          <5>2. QED
            BY <4>1, <4>2, <5>1
        <4>4. QED
          BY <4>1, <4>3 DEF Written
      <3>3. QED
        BY <3>1, <3>2
    <2> HIDE DEF m, n
    <2>6. out_file' = SubSeq(m, 1, n + r)
      <3>1. m \in Seq(S)
        BY <1>2, <2>1
      <3>2. Len(Written) = n /\ Written \o SubSeq(m, n + 1, n + r) = SubSeq(m, 1, n + r)
        BY <2>3, <2>5, <3>1, NextPart
      <3>3. QED
        BY <2>2, <3>2
    <2>7. Judged'
      BY <1>1, <2>1 DEF LzInv, Judged, HeaderIsGood
    <2>8. BlockRead'
      BY <1>1, <1>2, <2>1, <2>4 DEF LzInv, BlockRead, AfterBlock, Ends
    <2>9. WrittenSoFar' /\ AllOrNothing'
      BY <1>2, <2>1, <2>4, <2>6 DEF WrittenSoFar, AllOrNothing, m
    <2>10. QED
      BY <1>1, <2>1, <2>7, <2>8, <2>9 DEF LzInv
  <1>5. CASE OutputFails \/ (CloseOut /\ Fatal)
    <2>1. lz_pc = "write" /\ lz_pc' = "ouch" /\ left' = left /\ out_fd' # "failed"
      BY <1>5 DEF OutputFails, CloseOut, Fatal, LzInv, AfterHdr
    <2>2. Judged' /\ BlockRead' /\ WrittenSoFar' /\ AllOrNothing'
      BY <1>1, <2>1 DEF Judged, BlockRead, WrittenSoFar, AllOrNothing, AfterHdr, AfterXlen, AfterSize,
                        AfterMore, AfterBlock, Ends
    <2>3. QED
      BY <1>1, <2>1, <2>2 DEF LzInv, AfterHdr, Ends
  <1>6. CASE CloseOut /\ ~Fatal
    <2>1. lz_pc = "write" /\ lz_pc' = "exited" /\ left' = left /\ left = 0 /\ status' = 0
          /\ out_file' = out_file
      BY <1>6 DEF CloseOut
    <2>2. out_file = m
      <3>1. 0 # Len(m) /\ out_file = SubSeq(m, 1, Len(m) - 0)
        BY <1>2, <2>1 DEF LzInv, WrittenSoFar
      <3>2. QED
        BY <1>2, <2>1, <3>1
    <2>3. Acceptable
      BY <2>1 DEF LzInv, Judged, Acceptable, AfterHdr, AfterXlen, AfterSize, AfterMore
    <2>4. Acceptable'
      BY <1>1, <2>3 DEF Acceptable, HeaderIsGood
    <2>5. Judged' /\ BlockRead' /\ WrittenSoFar'
      BY <1>1, <2>1 DEF Judged, BlockRead, WrittenSoFar, AfterHdr, AfterXlen, AfterSize,
                        AfterMore, AfterBlock, Ends
    <2>6. AllOrNothing'
      BY <1>1, <1>2, <2>1, <2>2, <2>4 DEF AllOrNothing
    <2>7. QED
      BY <1>1, <2>1, <2>5, <2>6 DEF LzInv, AfterHdr, Ends
  <1>7. CASE Ouch
    <2>1. lz_pc = "ouch" /\ lz_pc' = "exited" /\ left' = left /\ status' = 2
          /\ (output # "stdout" => out_file' \in Untouched)
      <3>1. <<"absent">> \in Untouched
        BY DEF Untouched
      <3>2. QED
        BY <1>7, <3>1 DEF Ouch, LzInv, WrittenSoFar, Ends
    <2>2. Judged' /\ BlockRead' /\ WrittenSoFar' /\ AllOrNothing'
      BY <1>1, <2>1 DEF Judged, BlockRead, WrittenSoFar, AllOrNothing, AfterHdr, AfterXlen, AfterSize,
                        AfterMore, AfterBlock, Ends
    <2>3. QED
      BY <1>1, <2>1, <2>2 DEF LzInv, AfterHdr, Ends
  <1>8. QED
    BY <1>3, <1>4, <1>5, <1>6, <1>7

LEMMA LzInvNext == LzInv /\ [LzNext]_lzVars => LzInv'
  <1> SUFFICES ASSUME LzInv, [LzNext]_lzVars PROVE LzInv'
    OBVIOUS
  <1>1. CASE UNCHANGED lzVars
    <2>1. ModuleText' = ModuleText
      BY <1>1 DEF lzVars, ModuleText
    <2>2. Acceptable' = Acceptable /\ HeaderIsGood' = HeaderIsGood
      BY <1>1, Zenon DEF lzVars, Acceptable, HeaderIsGood
    <2>3. QED
      BY <1>1, <2>1, <2>2 DEF LzInv, lzVars, Judged, BlockRead, WrittenSoFar, AllOrNothing
  <1>2. CASE LzNext
    BY <1>2, ReadingStep, InputStep, CheckStep, WritingStep DEF LzNext
  <1>3. QED
    BY <1>1, <1>2

\* lz4mi86 writes all of a module from a frame that it may take, or leaves none.
THEOREM ModuleIsWhole == LzSpec => []AllOrNothing
  <1>1. LzInv => AllOrNothing
    BY DEF LzInv
  <1>2. QED
    BY <1>1, LzInvInit, LzInvNext, PTL DEF LzSpec

-----------------------------------------------------------------------------
(* Extender: what is used in protected mode is what DOS has in real mode.  *)

TablePcs == {"simulate", "read", "compare", "translate", "clear", "store rm", "store pm", "return"}
FcbPcs == {"allocate", "parse", "free"}
Rms == Segments \union {"none"}
Pms == {NoSel} \union {Sel(s) : s \in Rms}
CallsInProgress == [f : TableCalls \union {"makefcb"}, pc : TablePcs \union FcbPcs, rm : Rms, pm : Pms,
                    torn : BOOLEAN, blk : 0..MaxBlocks]

\* What a call in progress knows, of the tables as DOS has them (d) and of the cache (k):
\* DOS moves no table while it is in progress, so that calls of one function agree.
CallIsSound(c, d, k) ==
  IF c.f = "makefcb" THEN c.pc \in FcbPcs
  ELSE /\ c.pc \in TablePcs
       /\ c.pc # "simulate" => c.rm = d[c.f].seg /\ c.rm # "none"
       /\ c.pc \in {"clear", "store rm", "store pm"} => c.pm = Sel(c.rm)
       /\ c.pc = "return" => (c.torn = TRUE <=> c.pm # Sel(c.rm))
       /\ c.pc # "return" /\ ~Stale(c) => c.torn = FALSE
       /\ Stale(c) => (c.torn = TRUE <=> k[c.f].rm = c.rm)
       /\ c.pc \in {"store rm", "store pm"} => k[c.f].pm \in {NoSel, Sel(d[c.f].seg)}
       /\ c.pc = "store pm" => k[c.f].rm = d[c.f].seg

CallsSound == /\ calls \in Seq(CallsInProgress)
              /\ dos \in [TableCalls -> [seg : Rms, empty : BOOLEAN]]
              /\ cache \in [TableCalls -> [pm : Pms, rm : Rms]]
              /\ \A i \in 1..Len(calls) : CallIsSound(calls[i], dos, cache)
              /\ \A f \in TableCalls : cache[f].pm # NoSel => cache[f].pm = Sel(cache[f].rm)

ReturnedSound ==
  /\ returned.f \in TableCalls /\ returned.ptr # NoSel =>
       (returned.torn = TRUE <=> returned.ptr # Sel(returned.rm))
  /\ returned.torn \in BOOLEAN
  /\ returned.f = "real" => returned.ptr = IF returned.rm = "table" THEN Sel("table") ELSE NoSel

\* Each call that holds a block holds one of its own.
BlocksSound == /\ blocks \subseteq 1..MaxBlocks /\ refused \in Nat
               /\ Cardinality(blocks) = Cardinality(Holders) + refused
               /\ \A i \in Holders : calls[i].blk \in blocks
               /\ \A i, j \in Holders : i # j => calls[i].blk # calls[j].blk

Descriptors == [base : Int \X Int, limit : Int \X Int, ar : 0..1]
ToldDescriptors == [base : Int, limit : Int, ar : 0..1]
LdtSound == /\ DOMAIN ldt = DOMAIN told
            /\ ldt \in [DOMAIN ldt -> Descriptors] /\ told \in [DOMAIN ldt -> ToldDescriptors]
            /\ \A sel \in DOMAIN told : GetDescriptor(sel) = told[sel]

\* The program knows the blocks of memory by their handles, which are addresses.
MemorySound == xmem = xmem_told /\ DOMAIN xmem \subseteq Addresses

ExInv == CallsSound /\ ReturnedSound /\ BlocksSound /\ LdtSound /\ MemorySound

\* The calls change at the top only: one is added, ends, or takes a step.
LEMMA Pushed ==
  ASSUME NEW S, NEW s \in Seq(S), NEW c \in S
  PROVE  /\ Append(s, c) \in Seq(S) /\ Len(Append(s, c)) = Len(s) + 1 /\ Len(s) \in Nat
         /\ \A i \in 1..Len(s) : Append(s, c)[i] = s[i]
         /\ Append(s, c)[Len(s) + 1] = c
  OBVIOUS

LEMMA Popped ==
  ASSUME NEW S, NEW s \in Seq(S), s # <<>>
  PROVE  /\ Len(s) \in Nat \ {0} /\ s[Len(s)] \in S
         /\ SubSeq(s, 1, Len(s) - 1) \in Seq(S) /\ Len(SubSeq(s, 1, Len(s) - 1)) = Len(s) - 1
         /\ \A i \in 1..Len(s) - 1 : SubSeq(s, 1, Len(s) - 1)[i] = s[i]
  <1>1. Len(s) \in Nat \ {0} /\ s[Len(s)] \in S /\ \A i \in 1..Len(s) - 1 : s[i] \in S
    OBVIOUS
  <1> DEFINE n == Len(s) - 1
  <1>2. n \in Nat /\ \A i \in 1..n : 1 + i - 1 = i
    BY <1>1
  <1> HIDE DEF n
  <1>3. /\ SubSeq(s, 1, n) \in Seq(S) /\ Len(SubSeq(s, 1, n)) = n
        /\ \A i \in 1..n : SubSeq(s, 1, n)[i] = s[i]
    <2>1. \A i \in 1..n : s[i] \in S
      BY <1>1 DEF n
    <2>2. n - 1 + 1 = n /\ (1 <= n \/ n = 0)
      BY <1>2
    <2>3. QED
      BY <1>2, <2>1, <2>2, SubSeqProperties
  <1>4. QED
    BY <1>1, <1>3 DEF n

\* s with e at its end instead.
ChangedTop(s, e, t) == /\ Len(t) = Len(s) /\ t[Len(s)] = e
                       /\ \A i \in 1..Len(s) : i # Len(s) => t[i] = s[i]

LEMMA Stepped ==
  ASSUME NEW S, NEW s \in Seq(S), s # <<>>, NEW e \in S
  PROVE  /\ [s EXCEPT ![Len(s)] = e] \in Seq(S)
         /\ ChangedTop(s, e, [s EXCEPT ![Len(s)] = e])
  <1>1. Len(s) \in Nat \ {0} /\ DOMAIN s = 1..Len(s)
    OBVIOUS
  <1> DEFINE t == [s EXCEPT ![Len(s)] = e]
  <1>2. /\ t \in Seq(S) /\ Len(t) = Len(s)
        /\ \A j \in 1..Len(s) : t[j] = IF j = Len(s) THEN e ELSE s[j]
    <2>1. Len(s) \in 1..Len(s)
      BY <1>1
    <2>2. QED
      BY <2>1, ExceptSeq
  <1> HIDE DEF t
  <1>3. t \in Seq(S) /\ ChangedTop(s, e, t)
    <2> DEFINE n == Len(s)
    <2>1. n \in Nat \ {0} /\ Len(t) = n /\ \A j \in 1..n : t[j] = IF j = n THEN e ELSE s[j]
      BY <1>1, <1>2
    <2> HIDE DEF n
    <2>2. t[n] = e /\ \A j \in 1..n : j # n => t[j] = s[j]
      BY <2>1
    <2>3. QED
      BY <1>2, <2>1, <2>2 DEF ChangedTop, n
  <1>4. QED
    BY <1>3 DEF t

\* The calls that hold blocks, of a sequence of calls.
HoldersOf(s) == {i \in 1..Len(s) : s[i].pc \in {"parse", "free"}}

LEMMA HoldersDef == Holders = HoldersOf(calls) /\ Holders' = HoldersOf(calls')
  BY DEF Holders, HoldersOf

LEMMA TopType ==
  ASSUME CallsSound, calls # <<>>
  PROVE  /\ Len(calls) \in Nat \ {0} /\ Top \in CallsInProgress
         /\ Top.f \in TableCalls \union {"makefcb"} /\ Top.pc \in TablePcs \union FcbPcs
         /\ Top.rm \in Rms /\ Top.pm \in Pms /\ Top.torn \in BOOLEAN /\ Top.blk \in 0..MaxBlocks
         /\ CallIsSound(Top, dos, cache)
  <1>1. Len(calls) \in Nat \ {0} /\ Top \in CallsInProgress
    BY DEF CallsSound, Top
  <1>2. CallIsSound(Top, dos, cache)
    BY <1>1 DEF CallsSound, Top
  <1>3. QED
    BY <1>1, <1>2 DEF CallsInProgress

\* A call that begins.
LEMMA PushKeeps ==
  ASSUME CallsSound, BlocksSound, NEW c \in CallsInProgress, CallIsSound(c, dos, cache),
         c.pc \notin {"parse", "free"}, calls' = Append(calls, c),
         UNCHANGED <<dos, cache, blocks, refused>>
  PROVE  CallsSound' /\ BlocksSound'
  <1>1. /\ calls' \in Seq(CallsInProgress) /\ Len(calls') = Len(calls) + 1 /\ Len(calls) \in Nat
        /\ \A i \in 1..Len(calls) : calls'[i] = calls[i]
        /\ calls'[Len(calls) + 1] = c
    BY Pushed DEF CallsSound
  <1>2. \A i \in 1..Len(calls') : i \in 1..Len(calls) \/ i = Len(calls) + 1
    BY <1>1
  <1>3. CallsSound'
    BY <1>1, <1>2 DEF CallsSound
  <1>4. HoldersOf(calls') = HoldersOf(calls)
    BY <1>1, <1>2 DEF HoldersOf
  <1>5. \A i \in Holders : i \in 1..Len(calls)
    BY DEF Holders
  <1>6. QED
    BY <1>1, <1>3, <1>4, <1>5, HoldersDef DEF BlocksSound

\* A call that ends.
LEMMA PopCalls ==
  ASSUME CallsSound, calls # <<>>, calls' = SubSeq(calls, 1, Len(calls) - 1),
         UNCHANGED <<dos, cache>>
  PROVE  /\ CallsSound' /\ Holders' = Holders \ {Len(calls)}
         /\ \A i \in Holders' : calls'[i] = calls[i]
  <1>1. /\ Len(calls) \in Nat \ {0} /\ calls' \in Seq(CallsInProgress)
        /\ Len(calls') = Len(calls) - 1
        /\ \A i \in 1..Len(calls) - 1 : calls'[i] = calls[i]
    BY Popped DEF CallsSound
  <1>2. \A i \in 1..Len(calls) : i \in 1..Len(calls') <=> i # Len(calls)
    BY <1>1
  <1>3. 1..Len(calls') \subseteq 1..Len(calls)
    BY <1>1
  <1>4. CallsSound'
    BY <1>1, <1>3 DEF CallsSound
  <1>5. HoldersOf(calls') = HoldersOf(calls) \ {Len(calls)}
    BY <1>1, <1>2, <1>3 DEF HoldersOf
  <1>6. QED
    BY <1>1, <1>4, <1>5, HoldersDef DEF HoldersOf

\* A call that takes a step and keeps its hold, or lack of one.
LEMMA StepKeeps ==
  ASSUME CallsSound, BlocksSound, calls # <<>>, NEW e \in CallsInProgress,
         calls' = [calls EXCEPT ![Len(calls)] = e], CallIsSound(e, dos, cache),
         (e.pc \in {"parse", "free"}) <=> (Top.pc \in {"parse", "free"}), e.blk = Top.blk,
         UNCHANGED <<dos, cache, blocks, refused>>
  PROVE  CallsSound' /\ BlocksSound'
  <1>1. calls' \in Seq(CallsInProgress) /\ ChangedTop(calls, e, calls')
    BY Stepped DEF CallsSound
  <1>2. CallsSound'
    BY <1>1 DEF CallsSound, ChangedTop
  <1>3. HoldersOf(calls') = HoldersOf(calls)
    BY <1>1 DEF HoldersOf, ChangedTop, Top
  <1>4. \A i \in Holders : calls'[i].blk = calls[i].blk
    BY <1>1 DEF Holders, ChangedTop, Top
  <1>5. QED
    BY <1>2, <1>3, <1>4, HoldersDef DEF BlocksSound

\* A call that holds no block ends.
LEMMA ReturnKeeps ==
  ASSUME CallsSound, BlocksSound, calls # <<>>, Top.pc \notin {"parse", "free"}, NEW p, Return(p),
         UNCHANGED <<dos, cache, blocks, refused>>
  PROVE  CallsSound' /\ BlocksSound'
  <1>1. /\ CallsSound' /\ Holders' = Holders \ {Len(calls)}
        /\ \A i \in Holders' : calls'[i] = calls[i]
    BY PopCalls DEF Return
  <1>2. Holders' = Holders
    BY <1>1 DEF Holders, Top
  <1>3. QED
    BY <1>1, <1>2 DEF BlocksSound

LEMMA TableStep ==
  ASSUME CallsSound, BlocksSound, ReturnedSound,
         Simulate \/ ReadCachedPm \/ Compare \/ Translate \/ ReturnPointer
  PROVE  CallsSound' /\ BlocksSound' /\ ReturnedSound'
  <1>1. calls # <<>> /\ UNCHANGED <<dos, cache, blocks, refused>>
    BY DEF Simulate, ReadCachedPm, Compare, Translate, ReturnPointer, At, startVars, hostVars
  <1>2. /\ Len(calls) \in Nat \ {0} /\ Top \in CallsInProgress
        /\ Top.f \in TableCalls \union {"makefcb"} /\ Top.pc \in TablePcs \union FcbPcs
        /\ Top.rm \in Rms /\ Top.pm \in Pms /\ Top.torn \in BOOLEAN /\ Top.blk \in 0..MaxBlocks
        /\ CallIsSound(Top, dos, cache) /\ calls[Len(calls)] = Top
    BY <1>1, TopType DEF Top
  <1>3. Top.pc \notin FcbPcs => Top.f \in TableCalls /\ Top.pc \in TablePcs
    BY <1>2 DEF CallIsSound
  <1>4. ASSUME NEW e, e \in CallsInProgress, calls' = [calls EXCEPT ![Len(calls)] = e],
               CallIsSound(e, dos, cache), e.pc \notin {"parse", "free"},
               Top.pc \notin {"parse", "free"}, e.blk = Top.blk, returned' = returned
        PROVE  CallsSound' /\ BlocksSound' /\ ReturnedSound'
    <2>1. CallsSound' /\ BlocksSound'
      BY <1>1, <1>4, StepKeeps
    <2>2. QED
      BY <1>4, <2>1 DEF ReturnedSound
  <1>5. CASE Simulate
    <2>1. Top.pc = "simulate" /\ Top.f \in TableCalls
      BY <1>3, <1>5 DEF Simulate, At, FcbPcs
    <2>2. CASE UNCHANGED <<calls, returned>>
      BY <1>1, <2>2 DEF CallsSound, BlocksSound, ReturnedSound, Holders
    <2>3. CASE Return(NoSel)
      <3>1. CallsSound' /\ BlocksSound'
        BY <1>1, <2>1, <2>3, ReturnKeeps
      <3>2. returned'.f = Top.f /\ returned'.ptr = NoSel /\ returned'.torn = Top.torn
        BY <2>3 DEF Return
      <3>3. returned'.f \in TableCalls /\ returned'.f # "real" /\ returned'.torn \in BOOLEAN
        BY <1>2, <2>1, <3>2 DEF TableCalls
      <3>4. ReturnedSound'
        BY <3>2, <3>3, Zenon DEF ReturnedSound
      <3>5. QED
        BY <3>1, <3>4
    <2>4. CASE /\ dos[Top.f].seg # "none" /\ UNCHANGED <<stage, returned>>
               /\ calls' = [calls EXCEPT ![Len(calls)].pc = "read",
                                         ![Len(calls)].rm = dos[Top.f].seg]
      <3> DEFINE e == [Top EXCEPT !.pc = "read", !.rm = dos[Top.f].seg]
      <3>1. calls' = [calls EXCEPT ![Len(calls)] = e]
        BY <1>2, <2>4
      <3>2. dos[Top.f].seg \in Rms
        BY <2>1 DEF CallsSound
      <3>3. e \in CallsInProgress /\ e.blk = Top.blk /\ e.pc = "read" /\ e.f = Top.f
            /\ e.rm = dos[Top.f].seg /\ e.torn = Top.torn
        BY <1>2, <3>2 DEF CallsInProgress, TablePcs
      <3> HIDE DEF e
      <3>4. CallIsSound(e, dos, cache)
        <4>1. Top.torn = FALSE
          BY <1>2, <2>1 DEF CallIsSound, TableCalls, Stale
        <4>2. QED
          BY <2>1, <2>4, <3>3, <4>1 DEF CallIsSound, TableCalls, TablePcs, Stale
      <3>5. QED
        BY <1>4, <2>1, <2>4, <3>1, <3>3, <3>4
    <2>5. QED
      BY <1>5, <2>2, <2>3, <2>4 DEF Simulate
  <1>6. CASE ReadCachedPm
    <2>1. Top.pc = "read" /\ Top.f \in TableCalls /\ cache[Top.f].pm \in Pms /\ returned' = returned
      BY <1>3, <1>6 DEF ReadCachedPm, At, FcbPcs, CallsSound
    <2> DEFINE e == [Top EXCEPT !.pc = "compare", !.pm = cache[Top.f].pm]
    <2>2. calls' = [calls EXCEPT ![Len(calls)] = e]
      BY <1>2, <1>6 DEF ReadCachedPm
    <2>3. e \in CallsInProgress /\ e.blk = Top.blk /\ e.pc = "compare" /\ e.f = Top.f
          /\ e.rm = Top.rm /\ e.pm = cache[Top.f].pm /\ e.torn = Top.torn
      BY <1>2, <2>1 DEF CallsInProgress, TablePcs
    <2> HIDE DEF e
    <2>4. CallIsSound(e, dos, cache)
      <3>1. Top.torn = FALSE /\ Top.rm = dos[Top.f].seg /\ Top.rm # "none"
        BY <1>2, <2>1 DEF CallIsSound, TableCalls, Stale
      <3>2. Stale(e) => cache[Top.f].rm # Top.rm
        BY <2>1, <2>3 DEF CallsSound, Stale
      <3>3. QED
        BY <2>1, <2>3, <3>1, <3>2 DEF CallIsSound, TableCalls, TablePcs, Stale
    <2>5. QED
      BY <1>4, <2>1, <2>2, <2>3, <2>4
  <1>7. CASE Compare
    <2> DEFINE pc == IF Top.pm = NoSel \/ Top.rm # cache[Top.f].rm THEN "translate" ELSE "return"
               e == [Top EXCEPT !.pc = pc]
    <2>1. Top.pc = "compare" /\ Top.f \in TableCalls /\ returned' = returned
      BY <1>3, <1>7 DEF Compare, At, FcbPcs
    <2>2. calls' = [calls EXCEPT ![Len(calls)] = e]
      BY <1>2, <1>7 DEF Compare, Goto
    <2>3. e \in CallsInProgress /\ e.blk = Top.blk /\ e.pc = pc /\ e.f = Top.f
          /\ e.rm = Top.rm /\ e.pm = Top.pm /\ e.torn = Top.torn
      BY <1>2, <2>1 DEF CallsInProgress, TablePcs
    <2>4. /\ pc = "return" => (Top.torn = TRUE <=> Top.pm # Sel(Top.rm))
          /\ pc = "translate" => Top.torn = FALSE
          /\ Top.rm = dos[Top.f].seg /\ Top.rm # "none"
      <3>1. /\ ~Stale(Top) => Top.torn = FALSE
            /\ Stale(Top) => (Top.torn = TRUE <=> cache[Top.f].rm = Top.rm)
            /\ Stale(Top) <=> Top.pm # NoSel /\ Top.pm # Sel(Top.rm)
            /\ Top.rm = dos[Top.f].seg /\ Top.rm # "none"
        BY <1>2, <2>1 DEF CallIsSound, TableCalls, Stale
      <3>2. Top.torn \in BOOLEAN
        BY <1>2
      <3>3. QED
        BY <3>1, <3>2
    <2>5. pc \in {"translate", "return"}
      OBVIOUS
    <2> HIDE DEF e, pc
    <2>6. CallIsSound(e, dos, cache)
      BY <1>2, <2>1, <2>3, <2>4, <2>5 DEF CallIsSound, TableCalls, TablePcs, Stale
    <2>7. QED
      BY <1>4, <2>1, <2>2, <2>3, <2>5, <2>6
  <1>8. CASE Translate
    <2>1. Top.pc = "translate" /\ Top.f \in TableCalls /\ returned' = returned
      BY <1>3, <1>8 DEF Translate, At, FcbPcs
    <2>2. CASE UNCHANGED calls
      BY <1>1, <2>1, <2>2 DEF CallsSound, BlocksSound, ReturnedSound, Holders
    <2>3. CASE calls' = [calls EXCEPT ![Len(calls)].pc = "clear", ![Len(calls)].pm = Sel(Top.rm)]
      <3> DEFINE e == [Top EXCEPT !.pc = "clear", !.pm = Sel(Top.rm)]
      <3>1. calls' = [calls EXCEPT ![Len(calls)] = e]
        BY <1>2, <2>3
      <3>2. Sel(Top.rm) \in Pms
        BY <1>2 DEF Pms
      <3>3. e \in CallsInProgress /\ e.blk = Top.blk /\ e.pc = "clear" /\ e.f = Top.f
            /\ e.rm = Top.rm /\ e.pm = Sel(Top.rm) /\ e.torn = Top.torn
        BY <1>2, <3>2 DEF CallsInProgress, TablePcs
      <3> HIDE DEF e
      <3>4. CallIsSound(e, dos, cache)
        <4>1. Top.torn = FALSE /\ Top.rm = dos[Top.f].seg /\ Top.rm # "none"
          BY <1>2, <2>1 DEF CallIsSound, TableCalls, Stale
        <4>2. QED
          BY <2>1, <3>3, <4>1 DEF CallIsSound, TableCalls, TablePcs, Stale
      <3>5. QED
        BY <1>4, <2>1, <3>1, <3>3, <3>4
    <2>4. QED
      BY <1>8, <2>2, <2>3 DEF Translate
  <1>9. CASE ReturnPointer
    <2>1. Top.pc = "return" /\ Top.f \in TableCalls
      BY <1>9 DEF ReturnPointer, At
    <2>2. PICK p \in {NoSel, Top.pm} : Return(p)
      BY <1>9 DEF ReturnPointer
    <2>3. CallsSound' /\ BlocksSound'
      BY <1>1, <2>1, <2>2, ReturnKeeps
    <2>4. ReturnedSound'
      <3>1. (Top.torn = TRUE <=> Top.pm # Sel(Top.rm)) /\ Top.torn \in BOOLEAN
        BY <1>2, <2>1 DEF CallIsSound, TableCalls
      <3>2. returned' = [f |-> Top.f, rm |-> Top.rm, ptr |-> p, torn |-> Top.torn]
        BY <2>2 DEF Return
      <3>3. returned'.f = Top.f /\ returned'.f # "real" /\ returned'.rm = Top.rm
            /\ returned'.ptr = p /\ returned'.torn = Top.torn
        BY <2>1, <3>2 DEF TableCalls
      <3>4. QED
        BY <2>2, <3>1, <3>3, Zenon DEF ReturnedSound
    <2>5. QED
      BY <2>3, <2>4
  <1>10. QED
    BY <1>5, <1>6, <1>7, <1>8, <1>9

LEMMA SameInterval == ASSUME NEW m \in Nat, NEW n \in Nat, 1..m = 1..n PROVE m = n
  <1>1. m \in 1..m \/ m = 0
    OBVIOUS
  <1>2. n \in 1..n \/ n = 0
    OBVIOUS
  <1>3. QED
    BY <1>1, <1>2

\* A store to the cache, which tears the calls that have read half of it.
LEMMA StoreStep ==
  ASSUME CallsSound, BlocksSound, ReturnedSound,
         ClearCachedPm \/ StoreCachedRm \/ StoreCachedPm
  PROVE  CallsSound' /\ BlocksSound' /\ ReturnedSound'
  <1>1. calls # <<>> /\ UNCHANGED <<dos, blocks, refused, returned>>
    BY DEF ClearCachedPm, StoreCachedRm, StoreCachedPm, Store, At, startVars, hostVars
  <1>2. /\ Len(calls) \in Nat \ {0} /\ Top \in CallsInProgress
        /\ Top.f \in TableCalls \union {"makefcb"} /\ Top.pc \in TablePcs \union FcbPcs
        /\ Top.rm \in Rms /\ Top.pm \in Pms /\ Top.torn \in BOOLEAN /\ Top.blk \in 0..MaxBlocks
        /\ CallIsSound(Top, dos, cache) /\ calls[Len(calls)] = Top
    BY <1>1, TopType DEF Top
  <1>3. PICK pc, k, next :
          /\ pc \in {"clear", "store rm", "store pm"} /\ Top.pc = pc
          /\ cache' = [cache EXCEPT ![Top.f] = k]
          /\ calls' = IF pc = "store rm" THEN Tear([calls EXCEPT ![Len(calls)].pc = next], Top.f)
                      ELSE [calls EXCEPT ![Len(calls)].pc = next]
          /\ \/ pc = "clear" /\ next = "store rm" /\ k = [cache[Top.f] EXCEPT !.pm = NoSel]
             \/ pc = "store rm" /\ next = "store pm" /\ k = [cache[Top.f] EXCEPT !.rm = Top.rm]
             \/ pc = "store pm" /\ next = "return" /\ k = [cache[Top.f] EXCEPT !.pm = Top.pm]
    BY DEF ClearCachedPm, StoreCachedRm, StoreCachedPm, Store, At, Goto
  <1>4. /\ Top.torn = FALSE
        /\ Top.f \in TableCalls /\ Top.rm = dos[Top.f].seg /\ Top.rm # "none"
        /\ Top.pm = Sel(Top.rm)
        /\ pc # "clear" => cache[Top.f].pm \in {NoSel, Sel(dos[Top.f].seg)}
        /\ pc = "store pm" => cache[Top.f].rm = dos[Top.f].seg
    <2>1. pc \in TablePcs /\ pc \notin FcbPcs /\ pc # "simulate"
      BY <1>3 DEF TablePcs, FcbPcs
    <2>2. QED
      BY <1>2, <1>3, <2>1 DEF CallIsSound, Stale
  <1>5. cache[Top.f] \in [pm : Pms, rm : Rms] /\ NoSel \in Pms
    BY <1>4 DEF CallsSound, Pms
  <1>6. /\ k \in [pm : Pms, rm : Rms] /\ next \in {"store rm", "store pm", "return"}
        /\ k.pm \in {NoSel, Sel(Top.rm)}
        /\ next \in {"store pm", "return"} => k.rm = Top.rm
        /\ next = "store rm" => k.pm = NoSel
    BY <1>2, <1>3, <1>4, <1>5
  <1>7. \A f \in TableCalls : cache'[f] = IF f = Top.f THEN k ELSE cache[f]
    BY <1>3 DEF CallsSound
  <1>8. /\ cache' \in [TableCalls -> [pm : Pms, rm : Rms]]
        /\ \A f \in TableCalls : cache'[f].pm # NoSel => cache'[f].pm = Sel(cache'[f].rm)
    <2>1. cache' \in [TableCalls -> [pm : Pms, rm : Rms]]
      BY <1>3, <1>6 DEF CallsSound
    <2>2. k.pm # NoSel => k.pm = Sel(k.rm)
      BY <1>6
    <2>3. QED
      BY <1>7, <2>1, <2>2 DEF CallsSound
  <1> DEFINE e == [Top EXCEPT !.pc = next]
             mid == [calls EXCEPT ![Len(calls)] = e]
  <1>9. calls' = IF pc = "store rm" THEN Tear(mid, Top.f) ELSE mid
    BY <1>2, <1>3
  <1>10. e \in CallsInProgress /\ e.blk = Top.blk /\ e.pc = next /\ e.f = Top.f
         /\ e.rm = Top.rm /\ e.pm = Top.pm /\ e.torn = Top.torn
    BY <1>2, <1>6 DEF CallsInProgress, TablePcs
  <1> HIDE DEF e
  <1>11. mid \in Seq(CallsInProgress) /\ ChangedTop(calls, e, mid)
    BY <1>1, <1>10, Stepped DEF CallsSound
  <1> HIDE DEF mid
  <1>12. \A i \in 1..Len(calls) : mid[i] \in CallsInProgress
    <2>1. Len(mid) = Len(calls)
      BY <1>11 DEF ChangedTop
    <2>2. \A i \in 1..Len(mid) : mid[i] \in CallsInProgress
      BY <1>11, ElementOfSeq
    <2>3. QED
      BY <2>1, <2>2
  <1> DEFINE Hit(c) == pc = "store rm" /\ c.f = Top.f /\ Stale(c)
             Torn(c) == IF Hit(c) THEN [c EXCEPT !.torn = TRUE] ELSE c
  <1>13. ASSUME NEW c \in CallsInProgress
         PROVE  /\ Torn(c) \in CallsInProgress /\ Torn(c).f = c.f /\ Torn(c).pc = c.pc
                /\ Torn(c).rm = c.rm /\ Torn(c).pm = c.pm /\ Torn(c).blk = c.blk
                /\ Torn(c).torn = IF Hit(c) THEN TRUE ELSE c.torn
    <2> HIDE DEF Hit
    <2>1. CASE Hit(c)
      <3>1. Torn(c) = [c EXCEPT !.torn = TRUE]
        BY <2>1
      <3>2. TRUE \in BOOLEAN
        OBVIOUS
      <3>3. QED
        BY <2>1, <3>1, <3>2 DEF CallsInProgress
    <2>2. CASE ~Hit(c)
      BY <2>2
    <2>3. QED
      BY <2>1, <2>2
  <1>14. /\ calls' \in Seq(CallsInProgress) /\ Len(calls') = Len(calls)
          /\ \A i \in 1..Len(calls) : calls'[i] = Torn(mid[i])
    <2> DEFINE n == Len(calls)
    <2>1. Len(mid) = n /\ n \in Nat
      BY <1>2, <1>11 DEF ChangedTop
    <2>2. calls' = [i \in 1..n |-> Torn(mid[i])]
      <3>1. CASE pc = "store rm"
        <4>1. calls' = Tear(mid, Top.f)
          BY <1>9, <3>1
        <4>2. QED
          BY <2>1, <3>1, <4>1 DEF Tear
      <3>2. CASE pc # "store rm"
        <4>1. calls' = mid /\ \A i \in 1..n : Torn(mid[i]) = mid[i]
          BY <1>9, <3>2
        <4>2. mid = [i \in 1..n |-> mid[i]]
          BY <1>11, <2>1
        <4>3. QED
          BY <4>1, <4>2
      <3>3. QED
        BY <3>1, <3>2
    <2> HIDE DEF n, Torn
    <2>3. calls' \in [1..n -> CallsInProgress] /\ \A i \in 1..n : calls'[i] = Torn(mid[i])
      <3>1. \A i \in 1..n : Torn(mid[i]) \in CallsInProgress
        BY <1>12, <1>13 DEF n
      <3>2. QED
        BY <2>2, <3>1
    <2>4. calls' \in Seq(CallsInProgress)
      BY <2>1, <2>3, SeqDef
    <2>5. Len(calls') = n
      <3>1. DOMAIN calls' = 1..n /\ DOMAIN calls' = 1..Len(calls') /\ Len(calls') \in Nat
        BY <2>3, <2>4, LenProperties
      <3>2. QED
        BY <2>1, <3>1, SameInterval
    <2>6. QED
      BY <2>3, <2>4, <2>5 DEF n
  <1> HIDE DEF Torn, Hit
  <1>15. \A i \in 1..Len(calls) :
           /\ calls'[i] \in CallsInProgress /\ calls'[i].f = mid[i].f /\ calls'[i].pc = mid[i].pc
           /\ calls'[i].rm = mid[i].rm /\ calls'[i].pm = mid[i].pm /\ calls'[i].blk = mid[i].blk
           /\ calls'[i].torn = IF Hit(mid[i]) THEN TRUE ELSE mid[i].torn
    BY <1>12, <1>13, <1>14, ZenonT(60)
  <1>16. ASSUME NEW i \in 1..Len(calls) PROVE CallIsSound(calls'[i], dos, cache')
    <2>1. CASE i = Len(calls)
      <3>1. mid[i] = e
        BY <1>11, <2>1 DEF ChangedTop
      <3>2. /\ calls'[i].f = Top.f /\ calls'[i].pc = next /\ calls'[i].rm = Top.rm
            /\ calls'[i].pm = Top.pm /\ calls'[i].torn = FALSE
        <4>1. ~Hit(e)
          BY <1>6, <1>10 DEF Hit, Stale
        <4>2. QED
          BY <1>4, <1>10, <1>15, <3>1, <4>1
      <3>3. cache'[Top.f].pm \in {NoSel, Sel(Top.rm)}
            /\ (next = "store pm" => cache'[Top.f].rm = Top.rm)
        BY <1>4, <1>6, <1>7
      <3>4. QED
        BY <1>4, <1>6, <3>2, <3>3 DEF CallIsSound, TableCalls, TablePcs, Stale
    <2>2. CASE i # Len(calls)
      <3>1. mid[i] = calls[i] /\ CallIsSound(calls[i], dos, cache)
        BY <1>11, <2>2 DEF ChangedTop, CallsSound
      <3> DEFINE c == calls[i]
                 d == calls'[i]
      <3>2. /\ d.f = c.f /\ d.pc = c.pc /\ d.rm = c.rm /\ d.pm = c.pm
            /\ d.torn = IF Hit(c) THEN TRUE ELSE c.torn
            /\ c.f \in TableCalls \union {"makefcb"} /\ CallIsSound(c, dos, cache)
        <4>1. c \in CallsInProgress
          BY <1>12, <3>1
        <4>2. c.f \in TableCalls \union {"makefcb"}
          BY <4>1 DEF CallsInProgress
        <4>3. QED
          BY <1>15, <3>1, <4>2
      <3> SUFFICES CallIsSound(d, dos, cache')
        OBVIOUS
      <3> HIDE DEF c, d
      <3>3. CASE c.f = "makefcb"
        BY <3>2, <3>3 DEF CallIsSound
      <3>4. CASE c.f # "makefcb" /\ c.f # Top.f
        <4>1. cache'[c.f] = cache[c.f]
          BY <1>7, <3>2, <3>4
        <4>2. ~Hit(c)
          BY <3>4 DEF Hit
        <4>3. QED
          BY <3>2, <3>4, <4>1, <4>2 DEF CallIsSound, Stale
      <3>5. CASE c.f # "makefcb" /\ c.f = Top.f
        <4>1. cache'[c.f] = k
          BY <1>4, <1>7, <3>5
        <4>2. /\ c.pc \in TablePcs
              /\ c.pc # "simulate" => c.rm = dos[c.f].seg /\ c.rm # "none"
              /\ c.pc \in {"clear", "store rm", "store pm"} => c.pm = Sel(c.rm)
              /\ c.pc = "return" => (c.torn = TRUE <=> c.pm # Sel(c.rm))
              /\ c.pc # "return" /\ ~Stale(c) => c.torn = FALSE
              /\ Stale(c) => (c.torn = TRUE <=> cache[c.f].rm = c.rm)
              /\ c.pc = "store pm" => cache[c.f].rm = dos[c.f].seg
          BY <3>2, <3>5 DEF CallIsSound
        <4>3. k.pm \in {NoSel, Sel(dos[c.f].seg)}
          BY <1>4, <1>6, <3>5
        <4>4. c.pc = "store pm" => k.rm = dos[c.f].seg
          <5>1. CASE pc = "clear"
            <6>1. c.pc = "store pm" => cache[c.f].rm = dos[c.f].seg
              BY <4>2
            <6>2. k.rm = cache[c.f].rm
              BY <1>3, <1>5, <3>5, <5>1
            <6>3. QED
              BY <6>1, <6>2
          <5>2. CASE pc # "clear"
            BY <1>3, <1>4, <1>6, <3>5, <5>2
          <5>3. QED
            BY <5>1, <5>2
        <4>5. /\ d.pc = "return" => (d.torn = TRUE <=> d.pm # Sel(d.rm))
              /\ d.pc # "return" /\ ~Stale(d) => d.torn = FALSE
              /\ Stale(d) => (d.torn = TRUE <=> k.rm = d.rm)
          <5>1. Stale(d) <=> Stale(c)
            BY <3>2 DEF Stale
          <5>2. CASE Hit(c)
            <6>1. k.rm = c.rm /\ Stale(c) /\ c.pc # "return"
              <7>1. pc = "store rm" /\ Stale(c) /\ c.pc = "compare"
                BY <5>2 DEF Hit, Stale
              <7>2. k.rm = Top.rm /\ Top.rm = dos[c.f].seg /\ c.rm = dos[c.f].seg
                BY <1>3, <1>4, <1>6, <3>5, <4>2, <7>1
              <7>3. QED
                BY <7>1, <7>2
            <6>2. QED
              BY <3>2, <5>1, <5>2, <6>1
          <5>3. CASE ~Hit(c)
            <6>1. d.torn = c.torn
              BY <3>2, <5>3
            <6>2. Stale(c) => k.rm = cache[c.f].rm
              <7>1. Stale(c) => pc # "store rm"
                BY <3>5, <5>3 DEF Hit
              <7>2. QED
                BY <1>3, <1>5, <3>5, <7>1
            <6>3. QED
              BY <3>2, <4>2, <5>1, <6>1, <6>2
          <5>4. QED
            BY <5>2, <5>3
        <4>6. QED
          BY <3>2, <3>5, <4>1, <4>2, <4>3, <4>4, <4>5 DEF CallIsSound
      <3>6. QED
        BY <3>2, <3>3, <3>4, <3>5
    <2>3. QED
      BY <2>1, <2>2
  <1>17. CallsSound'
    BY <1>1, <1>8, <1>14, <1>16 DEF CallsSound
  <1>18. /\ HoldersOf(calls') = HoldersOf(calls)
         /\ \A i \in Holders : calls'[i].blk = calls[i].blk
    <2>1. ASSUME NEW i \in 1..Len(calls)
          PROVE  /\ calls'[i].pc \in {"parse", "free"} <=> calls[i].pc \in {"parse", "free"}
                 /\ i # Len(calls) => calls'[i].blk = calls[i].blk
      <3>1. calls'[i].pc = mid[i].pc /\ calls'[i].blk = mid[i].blk
        BY <1>15
      <3>2. CASE i = Len(calls)
        <4>1. mid[i] = e
          BY <1>11, <3>2 DEF ChangedTop
        <4>2. QED
          BY <1>2, <1>3, <1>6, <1>10, <3>1, <3>2, <4>1
      <3>3. CASE i # Len(calls)
        <4>1. mid[i] = calls[i]
          BY <1>11, <3>3 DEF ChangedTop
        <4>2. QED
          BY <3>1, <3>3, <4>1
      <3>4. QED
        BY <3>2, <3>3
    <2>2. Len(calls) \notin HoldersOf(calls)
      BY <1>2, <1>3 DEF HoldersOf
    <2>3. QED
      BY <1>14, <2>1, <2>2, HoldersDef DEF HoldersOf
  <1>19. BlocksSound'
    <2>1. Holders' = Holders /\ blocks' = blocks /\ refused' = refused
      BY <1>1, <1>18, HoldersDef
    <2>2. \A i \in Holders : calls'[i].blk = calls[i].blk
      BY <1>18
    <2>3. \A i \in Holders' : calls'[i].blk \in blocks'
      BY <2>1, <2>2 DEF BlocksSound
    <2>4. ASSUME NEW i \in Holders', NEW j \in Holders', i # j
          PROVE  calls'[i].blk # calls'[j].blk
      <3>1. i \in Holders /\ j \in Holders
        BY <2>1
      <3>2. calls[i].blk # calls[j].blk
        BY <2>4, <3>1 DEF BlocksSound
      <3>3. calls'[i].blk = calls[i].blk /\ calls'[j].blk = calls[j].blk
        BY <2>2, <3>1
      <3>4. QED
        BY <3>2, <3>3
    <2>5. Cardinality(blocks') = Cardinality(Holders') + refused'
      BY <2>1 DEF BlocksSound
    <2>6. QED
      BY <2>1, <2>3, <2>4, <2>5 DEF BlocksSound
  <1>20. QED
    BY <1>1, <1>17, <1>19 DEF ReturnedSound

LEMMA BeginStep ==
  ASSUME CallsSound, BlocksSound, ReturnedSound, Call \/ MakeFcb
  PROVE  CallsSound' /\ BlocksSound' /\ ReturnedSound'
  <1>1. UNCHANGED <<dos, cache, blocks, refused, returned>>
    BY DEF Call, MakeFcb, startVars, hostVars
  <1>2. PICK c : /\ calls' = Append(calls, c)
                 /\ \/ \E f \in TableCalls : c = [f |-> f, pc |-> "simulate", rm |-> "none",
                                                  pm |-> NoSel, torn |-> FALSE, blk |-> 0]
                    \/ c = [f |-> "makefcb", pc |-> "allocate", rm |-> "none",
                            pm |-> NoSel, torn |-> FALSE, blk |-> 0]
    BY DEF Call, MakeFcb
  <1>3. c \in CallsInProgress /\ c.pc \in {"simulate", "allocate"}
        /\ (c.f = "makefcb" => c.pc = "allocate") /\ (c.f # "makefcb" => c.pc = "simulate")
    <2>1. "none" \in Rms /\ NoSel \in Pms /\ FALSE \in BOOLEAN /\ 0 \in 0..MaxBlocks
          /\ "simulate" \in TablePcs /\ "allocate" \in FcbPcs
      BY ExtenderAssumption DEF Rms, Pms, TablePcs, FcbPcs
    <2>2. ASSUME NEW f \in TableCalls,
                 c = [f |-> f, pc |-> "simulate", rm |-> "none", pm |-> NoSel, torn |-> FALSE,
                      blk |-> 0]
          PROVE  c \in CallsInProgress /\ c.pc = "simulate" /\ c.f # "makefcb"
      <3>1. f \in TableCalls \union {"makefcb"} /\ "simulate" \in TablePcs \union FcbPcs
            /\ f # "makefcb"
        BY <2>1 DEF TableCalls
      <3>2. QED
        BY <2>1, <2>2, <3>1 DEF CallsInProgress
    <2>3. ASSUME c = [f |-> "makefcb", pc |-> "allocate", rm |-> "none", pm |-> NoSel,
                      torn |-> FALSE, blk |-> 0]
          PROVE  c \in CallsInProgress /\ c.pc = "allocate" /\ c.f = "makefcb"
      <3>1. "makefcb" \in TableCalls \union {"makefcb"} /\ "allocate" \in TablePcs \union FcbPcs
        BY <2>1
      <3>2. QED
        BY <2>1, <2>3, <3>1 DEF CallsInProgress
    <2>4. QED
      BY <1>2, <2>2, <2>3
  <1>4. CallIsSound(c, dos, cache)
    <2>1. c.torn = FALSE
      BY <1>2
    <2>2. QED
      BY <1>3, <2>1 DEF CallIsSound, TablePcs, FcbPcs, Stale
  <1>5. CallsSound' /\ BlocksSound'
    BY <1>1, <1>2, <1>3, <1>4, PushKeeps
  <1>6. QED
    BY <1>1, <1>5 DEF ReturnedSound

LEMMA FiniteBlocks ==
  ASSUME CallsSound, BlocksSound
  PROVE  /\ IsFiniteSet(blocks) /\ IsFiniteSet(Holders)
         /\ Cardinality(blocks) \in Nat /\ Cardinality(Holders) \in Nat
  <1>1. MaxBlocks \in Nat /\ Len(calls) \in Nat
    BY ExtenderAssumption DEF CallsSound
  <1>2. IsFiniteSet(1..MaxBlocks) /\ IsFiniteSet(1..Len(calls))
    BY <1>1, FS_Interval
  <1>3. blocks \subseteq 1..MaxBlocks /\ Holders \subseteq 1..Len(calls)
    BY DEF BlocksSound, Holders
  <1>4. IsFiniteSet(blocks) /\ IsFiniteSet(Holders)
    BY <1>2, <1>3, FS_Subset
  <1>5. QED
    BY <1>4, FS_CardinalityType

LEMMA FcbStep ==
  ASSUME CallsSound, BlocksSound, ReturnedSound,
         AllocateBlock \/ ParseRefused \/ Parse \/ FreeBlock
  PROVE  CallsSound' /\ BlocksSound' /\ ReturnedSound'
  <1>1. calls # <<>> /\ UNCHANGED <<dos, cache>>
    BY DEF AllocateBlock, ParseRefused, Parse, FreeBlock, At, startVars, hostVars
  <1>2. /\ Len(calls) \in Nat \ {0} /\ Top \in CallsInProgress
        /\ Top.f \in TableCalls \union {"makefcb"} /\ Top.pc \in TablePcs \union FcbPcs
        /\ Top.torn \in BOOLEAN /\ CallIsSound(Top, dos, cache) /\ calls[Len(calls)] = Top
    BY <1>1, TopType DEF Top
  <1>3. Top.pc \in FcbPcs /\ Top.f = "makefcb"
    <2>1. Top.pc \in FcbPcs /\ Top.pc \notin TablePcs
      BY DEF AllocateBlock, ParseRefused, Parse, FreeBlock, At, FcbPcs, TablePcs
    <2>2. QED
      BY <1>2, <2>1 DEF CallIsSound
  <1>4. /\ IsFiniteSet(blocks) /\ IsFiniteSet(Holders)
        /\ Cardinality(blocks) \in Nat /\ Cardinality(Holders) \in Nat
    BY FiniteBlocks
  <1>5. ASSUME NEW v, Return(v) PROVE ReturnedSound'
    <2>1. returned'.f = "makefcb" /\ returned'.torn = Top.torn
      BY <1>3, <1>5 DEF Return
    <2>2. returned'.f \notin TableCalls /\ returned'.f # "real" /\ returned'.torn \in BOOLEAN
      BY <1>2, <2>1 DEF TableCalls
    <2>3. QED
      BY <2>2, Zenon DEF ReturnedSound
  <1>6. Top.pc \in {"parse", "free"} => Len(calls) \in Holders /\ Top.blk \in blocks
    BY <1>2 DEF Holders, BlocksSound
  <1>7. CASE AllocateBlock
    <2>1. Top.pc = "allocate"
      BY <1>7 DEF AllocateBlock, At
    <2>2. PICK carry \in BOOLEAN, b \in 1..MaxBlocks :
            /\ carry \/ b \notin blocks
            /\ blocks' = IF carry THEN blocks ELSE blocks \union {b}
            /\ \/ DosBlock(carry, b) = 0 /\ Return(<<"failed">>)
               \/ /\ DosBlock(carry, b) # 0 /\ UNCHANGED returned
                  /\ calls' = [calls EXCEPT ![Len(calls)].pc = "parse",
                                            ![Len(calls)].blk = DosBlock(carry, b)]
      BY <1>7 DEF AllocateBlock
    <2>3. UNCHANGED refused
      BY <1>7 DEF AllocateBlock
    <2>4. CASE carry
      <3>1. DosBlock(carry, b) = 0 /\ blocks' = blocks
        BY <2>2, <2>4 DEF DosBlock
      <3>2. Return(<<"failed">>)
        BY <2>2, <3>1
      <3>3. CallsSound' /\ BlocksSound'
        BY <1>1, <2>1, <2>3, <3>1, <3>2, ReturnKeeps
      <3>4. QED
        BY <1>5, <3>2, <3>3
    <2>5. CASE ~carry
      <3>1. DosBlock(carry, b) = b /\ b # 0 /\ b \notin blocks /\ blocks' = blocks \union {b}
        BY <2>2, <2>5 DEF DosBlock
      <3> DEFINE e == [Top EXCEPT !.pc = "parse", !.blk = b]
      <3>2. calls' = [calls EXCEPT ![Len(calls)] = e] /\ UNCHANGED returned
        BY <1>2, <2>2, <3>1
      <3>3. e \in CallsInProgress /\ e.blk = b /\ e.pc = "parse" /\ e.f = "makefcb"
        <4>1. b \in 0..MaxBlocks /\ "parse" \in FcbPcs
          BY DEF FcbPcs
        <4>2. QED
          BY <1>2, <1>3, <4>1 DEF CallsInProgress
      <3> HIDE DEF e
      <3>4. calls' \in Seq(CallsInProgress) /\ ChangedTop(calls, e, calls')
        BY <1>1, <3>2, <3>3, Stepped DEF CallsSound
      <3>5. CallIsSound(e, dos, cache)
        BY <3>3 DEF CallIsSound, FcbPcs
      <3>6. CallsSound'
        BY <1>1, <3>4, <3>5 DEF CallsSound, ChangedTop
      <3>7. HoldersOf(calls') = HoldersOf(calls) \union {Len(calls)} /\ Len(calls) \notin Holders
        BY <1>2, <2>1, <3>3, <3>4 DEF HoldersOf, ChangedTop, Holders
      <3>8. Holders' = Holders \union {Len(calls)}
        BY <3>7, HoldersDef
      <3>9. Cardinality(Holders') = Cardinality(Holders) + 1
            /\ Cardinality(blocks') = Cardinality(blocks) + 1
        BY <1>4, <3>1, <3>7, <3>8, FS_AddElement
      <3>10. \A i \in Holders : i \in 1..Len(calls) /\ i # Len(calls) /\ calls'[i].blk = calls[i].blk
        BY <3>4, <3>7 DEF ChangedTop, Holders
      <3>11. calls'[Len(calls)].blk = b
        BY <3>3, <3>4 DEF ChangedTop
      <3>12. \A i \in Holders' : calls'[i].blk \in blocks'
        BY <3>1, <3>8, <3>10, <3>11 DEF BlocksSound
      <3>13. ASSUME NEW i \in Holders', NEW j \in Holders', i # j
             PROVE  calls'[i].blk # calls'[j].blk
        <4>1. \A h \in Holders : calls'[h].blk = calls[h].blk /\ calls[h].blk \in blocks
          BY <3>10 DEF BlocksSound
        <4>2. CASE i \in Holders /\ j \in Holders
          <5>1. calls[i].blk # calls[j].blk
            BY <3>13, <4>2 DEF BlocksSound
          <5>2. QED
            BY <4>1, <4>2, <5>1
        <4>3. CASE i = Len(calls) \/ j = Len(calls)
          BY <3>1, <3>8, <3>11, <3>13, <4>1, <4>3
        <4>4. QED
          BY <3>8, <4>2, <4>3
      <3>14. Cardinality(blocks') = Cardinality(Holders') + refused' /\ refused' = refused
        BY <1>4, <2>3, <3>9 DEF BlocksSound
      <3>15. BlocksSound'
        BY <3>1, <3>12, <3>13, <3>14 DEF BlocksSound
      <3>16. QED
        BY <3>2, <3>6, <3>15 DEF ReturnedSound
    <2>6. QED
      BY <2>4, <2>5
  <1>8. CASE ParseRefused \/ FreeBlock
    <2>1. Top.pc \in {"parse", "free"}
      BY <1>8 DEF ParseRefused, FreeBlock, At
    <2>2. PICK v : Return(v)
      BY <1>8 DEF ParseRefused, FreeBlock
    <2>3. /\ CallsSound' /\ Holders' = Holders \ {Len(calls)}
          /\ \A i \in Holders' : calls'[i] = calls[i]
      BY <1>1, <2>2, PopCalls DEF Return
    <2>4. Cardinality(Holders') = Cardinality(Holders) - 1
      BY <1>4, <1>6, <2>1, <2>3, FS_RemoveElement
    <2>5. \A i \in Holders' : i \in Holders /\ i # Len(calls)
                              /\ calls'[i].blk \in blocks /\ calls'[i].blk # Top.blk
      <3>1. ASSUME NEW i \in Holders' PROVE calls'[i].blk # Top.blk
        <4>1. i \in Holders /\ i # Len(calls) /\ calls'[i].blk = calls[i].blk
          BY <2>3
        <4>2. calls[i].blk # calls[Len(calls)].blk
          BY <1>6, <2>1, <4>1 DEF BlocksSound
        <4>3. QED
          BY <1>2, <4>1, <4>2
      <3>2. QED
        BY <2>3, <3>1 DEF BlocksSound
    <2>6. ASSUME NEW i \in Holders', NEW j \in Holders', i # j
          PROVE  calls'[i].blk # calls'[j].blk
      <3>1. calls[i].blk # calls[j].blk
        BY <2>5, <2>6 DEF BlocksSound
      <3>2. QED
        BY <2>3, <3>1
    <2>7. CASE ParseRefused
      <3>1. blocks' = blocks /\ refused' = refused + 1
        BY <2>7 DEF ParseRefused
      <3>2. Cardinality(blocks') = Cardinality(Holders') + refused' /\ refused' \in Nat
        BY <1>4, <2>4, <3>1 DEF BlocksSound
      <3>3. BlocksSound'
        BY <2>5, <2>6, <3>1, <3>2 DEF BlocksSound
      <3>4. QED
        BY <1>5, <2>2, <2>3, <3>3
    <2>8. CASE FreeBlock
      <3>1. blocks' = blocks \ {Top.blk} /\ refused' = refused
        BY <2>8 DEF FreeBlock
      <3>2. Cardinality(blocks') = Cardinality(blocks) - 1
        BY <1>4, <1>6, <2>1, <3>1, FS_RemoveElement
      <3>3. Cardinality(blocks') = Cardinality(Holders') + refused' /\ refused' \in Nat
        BY <1>4, <2>4, <3>1, <3>2 DEF BlocksSound
      <3>4. BlocksSound'
        BY <2>5, <2>6, <3>1, <3>3 DEF BlocksSound
      <3>5. QED
        BY <1>5, <2>2, <2>3, <3>4
    <2>9. QED
      BY <1>8, <2>7, <2>8
  <1>9. CASE Parse
    <2>1. Top.pc = "parse" /\ UNCHANGED <<blocks, refused, returned>>
      BY <1>9 DEF Parse, At, hostVars
    <2> DEFINE e == [Top EXCEPT !.pc = "free"]
    <2>2. calls' = [calls EXCEPT ![Len(calls)] = e]
      BY <1>2, <1>9 DEF Parse, Goto
    <2>3. e \in CallsInProgress /\ e.blk = Top.blk /\ e.pc = "free" /\ e.f = "makefcb"
      BY <1>2, <1>3 DEF CallsInProgress, FcbPcs
    <2> HIDE DEF e
    <2>4. CallIsSound(e, dos, cache)
      BY <2>3 DEF CallIsSound, FcbPcs
    <2>5. CallsSound' /\ BlocksSound'
      BY <1>1, <2>1, <2>2, <2>3, <2>4, StepKeeps
    <2>6. QED
      BY <2>1, <2>5 DEF ReturnedSound
  <1>10. QED
    BY <1>7, <1>8, <1>9

-----------------------------------------------------------------------------
(* The descriptors.                                                        *)

LEMMA WordsJoin ==
  ASSUME NEW a \in Addresses
  PROVE  /\ a \in Nat /\ Words(a) \in Int \X Int
         /\ Words(a)[1] = Hi(a) /\ Words(a)[2] = Lo(a)
         /\ Join(Hi(a), Lo(a)) = a
  <1>1. a \in Nat /\ ExW \in Nat \ {0}
    BY ExtenderAssumption
  <1>2. Hi(a) \in Int /\ Lo(a) \in Int /\ a = ExW * Hi(a) + Lo(a)
    BY <1>1 DEF Hi, Lo
  <1>3. Hi(a) * ExW = ExW * Hi(a)
    BY <1>1, <1>2
  <1>4. QED
    BY <1>1, <1>2, <1>3 DEF Words, Join

\* A descriptor, as the host has it, says what the program was told.
SaysSo(d, t) == /\ Join(d.base[1], d.base[2]) = t.base
                /\ Join(d.limit[1], d.limit[2]) = t.limit
                /\ d.ar = t.ar

LEMMA SaysSoDef ==
  ASSUME LdtSound \/ (DOMAIN ldt = DOMAIN told /\ told \in [DOMAIN ldt -> ToldDescriptors]),
         NEW sel \in DOMAIN told
  PROVE  SaysSo(ldt[sel], told[sel]) <=> GetDescriptor(sel) = told[sel]
  <1>1. told[sel] \in ToldDescriptors
    BY DEF LdtSound
  <1>2. told[sel] = [base |-> told[sel].base, limit |-> told[sel].limit, ar |-> told[sel].ar]
    BY <1>1 DEF ToldDescriptors
  <1> DEFINE g == GetDescriptor(sel)
  <1>3. g = [base |-> Join(ldt[sel].base[1], ldt[sel].base[2]),
             limit |-> Join(ldt[sel].limit[1], ldt[sel].limit[2]), ar |-> ldt[sel].ar]
    BY DEF GetDescriptor, GetBase
  <1> HIDE DEF g
  <1>4. g = told[sel] <=> /\ Join(ldt[sel].base[1], ldt[sel].base[2]) = told[sel].base
                          /\ Join(ldt[sel].limit[1], ldt[sel].limit[2]) = told[sel].limit
                          /\ ldt[sel].ar = told[sel].ar
    BY <1>2, <1>3
  <1>5. QED
    BY <1>4 DEF SaysSo, g

\* What both know of the descriptors, in one predicate.
Agree(l, t) == /\ DOMAIN l = DOMAIN t
               /\ l \in [DOMAIN l -> Descriptors] /\ t \in [DOMAIN l -> ToldDescriptors]
               /\ \A sel \in DOMAIN t : SaysSo(l[sel], t[sel])

LEMMA LdtAgrees == LdtSound <=> Agree(ldt, told)
  BY SaysSoDef DEF LdtSound, Agree

LEMMA LdtAgreesNext == Agree(ldt', told') => LdtSound'
  <1>1. LdtSound' <=> Agree(ldt, told)'
    BY LdtAgrees, PTL
  <1>2. QED
    BY <1>1

\* A descriptor of both is changed alike.
LEMMA BothChange ==
  ASSUME Agree(ldt, told), NEW sel \in DOMAIN told, NEW d \in Descriptors,
         NEW t \in ToldDescriptors, SaysSo(d, t),
         ldt' = [ldt EXCEPT ![sel] = d], told' = [told EXCEPT ![sel] = t]
  PROVE  LdtSound'
  <1>1. DOMAIN ldt = DOMAIN told /\ ldt \in [DOMAIN ldt -> Descriptors]
        /\ told \in [DOMAIN ldt -> ToldDescriptors]
    BY DEF Agree
  <1>2. DOMAIN ldt' = DOMAIN ldt /\ DOMAIN told' = DOMAIN told
    OBVIOUS
  <1>3. /\ \A i \in DOMAIN ldt : ldt'[i] = IF i = sel THEN d ELSE ldt[i]
        /\ \A i \in DOMAIN told : told'[i] = IF i = sel THEN t ELSE told[i]
    OBVIOUS
  <1>4. ldt' \in [DOMAIN ldt -> Descriptors] /\ told' \in [DOMAIN ldt -> ToldDescriptors]
    BY <1>1
  <1>5. \A i \in DOMAIN told : SaysSo(ldt'[i], told'[i])
    BY <1>1, <1>3 DEF Agree
  <1>6. Agree(ldt', told')
    BY <1>1, <1>2, <1>4, <1>5 DEF Agree
  <1>7. QED
    BY <1>6, LdtAgreesNext

\* A descriptor is added to both.
LEMMA BothGrow ==
  ASSUME Agree(ldt, told), NEW sel, sel \notin DOMAIN ldt, NEW d \in Descriptors,
         NEW t \in ToldDescriptors, SaysSo(d, t),
         ldt' = [i \in DOMAIN ldt \union {sel} |-> IF i = sel THEN d ELSE ldt[i]],
         told' = [i \in DOMAIN told \union {sel} |-> IF i = sel THEN t ELSE told[i]]
  PROVE  LdtSound'
  <1>1. DOMAIN ldt = DOMAIN told /\ ldt \in [DOMAIN ldt -> Descriptors]
        /\ told \in [DOMAIN ldt -> ToldDescriptors]
    BY DEF Agree
  <1>2. DOMAIN ldt' = DOMAIN ldt \union {sel} /\ DOMAIN told' = DOMAIN ldt \union {sel}
    BY <1>1
  <1>3. ldt' \in [DOMAIN ldt' -> Descriptors] /\ told' \in [DOMAIN ldt' -> ToldDescriptors]
    BY <1>1, <1>2
  <1>4. \A i \in DOMAIN told' : SaysSo(ldt'[i], told'[i])
    BY <1>1, <1>2 DEF Agree
  <1>5. Agree(ldt', told')
    BY <1>2, <1>3, <1>4 DEF Agree
  <1>6. QED
    BY <1>5, LdtAgreesNext

LEMMA LdtStep ==
  ASSUME LdtSound, \/ AllocateDescriptor \/ FreeDescriptor \/ SetBase \/ SetLimit
                   \/ SetAccessRights \/ CopyDescriptor
  PROVE  LdtSound'
  <1>1. Agree(ldt, told) /\ DOMAIN ldt = DOMAIN told
        /\ ldt \in [DOMAIN ldt -> Descriptors] /\ told \in [DOMAIN ldt -> ToldDescriptors]
    BY LdtAgrees DEF LdtSound
  <1>2. \A sel \in DOMAIN told : ldt[sel] \in Descriptors /\ told[sel] \in ToldDescriptors
                                 /\ SaysSo(ldt[sel], told[sel])
    BY <1>1 DEF Agree
  <1>3. CASE AllocateDescriptor
    <2> DEFINE D(copied) == IF copied = 0 THEN Blank ELSE ldt[copied]
               K(copied) == IF copied = 0 THEN [base |-> 0, limit |-> 0, ar |-> 0] ELSE told[copied]
    <2>1. PICK sel \in Selectors \ DOMAIN ldt, carry \in BOOLEAN, copied \in {0} \union DOMAIN ldt :
            LET res == SelectorResult(carry, IF carry THEN ExW \div 2 ELSE sel)
                Knows(t) == IF copied = 0 THEN [base |-> 0, limit |-> 0, ar |-> 0] ELSE t[copied]
            IN  /\ ldt' = IF carry THEN ldt
                          ELSE [i \in DOMAIN ldt \union {sel} |-> IF i = sel THEN D(copied) ELSE ldt[i]]
                /\ told' = IF res < 0 THEN told
                           ELSE [i \in DOMAIN told \union {res} |-> IF i = res THEN Knows(told)
                                                                    ELSE told[i]]
      BY <1>3 DEF AllocateDescriptor
    <2>2. ExW \in Nat /\ ExW \div 2 \in Int /\ ExW \div 2 - ExW < 0 /\ sel \in Nat
      BY ExtenderAssumption DEF Selectors
    <2>3. CASE carry
      <3>1. ldt' = ldt /\ told' = told
        BY <2>1, <2>2, <2>3 DEF SelectorResult
      <3>2. QED
        BY <1>1, <3>1, LdtAgreesNext
    <2>4. CASE ~carry
      <3>1. ldt' = [i \in DOMAIN ldt \union {sel} |-> IF i = sel THEN D(copied) ELSE ldt[i]]
            /\ told' = [i \in DOMAIN told \union {sel} |-> IF i = sel THEN K(copied) ELSE told[i]]
        BY <2>1, <2>2, <2>4 DEF SelectorResult
      <3>2. D(copied) \in Descriptors /\ K(copied) \in ToldDescriptors /\ SaysSo(D(copied), K(copied))
        <4>1. CASE copied = 0
          <5>1. Blank \in Descriptors /\ [base |-> 0, limit |-> 0, ar |-> 0] \in ToldDescriptors
            BY DEF Blank, Descriptors, ToldDescriptors
          <5>2. ExW \in Int
            BY ExtenderAssumption
          <5>3. SaysSo(Blank, [base |-> 0, limit |-> 0, ar |-> 0])
            BY <5>2 DEF SaysSo, Blank, Join
          <5>4. QED
            BY <4>1, <5>1, <5>3
        <4>2. CASE copied # 0
          <5>1. copied \in DOMAIN told
            BY <1>1, <4>2
          <5>2. QED
            BY <1>2, <4>2, <5>1
        <4>3. QED
          BY <4>1, <4>2
      <3> HIDE DEF D, K
      <3>3. QED
        BY <1>1, <3>1, <3>2, BothGrow
    <2>5. QED
      BY <2>3, <2>4
  <1>4. CASE FreeDescriptor
    <2>1. PICK sel \in DOMAIN told : ldt' = Forget(sel, ldt) /\ told' = Forget(sel, told)
      BY <1>4 DEF FreeDescriptor
    <2>2. /\ DOMAIN ldt' = DOMAIN ldt \ {sel} /\ DOMAIN told' = DOMAIN ldt \ {sel}
          /\ \A i \in DOMAIN ldt \ {sel} : ldt'[i] = ldt[i] /\ told'[i] = told[i]
          /\ ldt' = [i \in DOMAIN ldt \ {sel} |-> ldt[i]]
          /\ told' = [i \in DOMAIN ldt \ {sel} |-> told[i]]
      BY <1>1, <2>1 DEF Forget
    <2>3. ldt' \in [DOMAIN ldt' -> Descriptors] /\ told' \in [DOMAIN ldt' -> ToldDescriptors]
      BY <1>1, <2>2
    <2>4. \A i \in DOMAIN told' : SaysSo(ldt'[i], told'[i])
      BY <1>1, <1>2, <2>2
    <2>5. Agree(ldt', told')
      BY <2>2, <2>3, <2>4 DEF Agree
    <2>6. QED
      BY <2>5, LdtAgreesNext
  <1>5. CASE SetBase
    <2>1. PICK sel \in DOMAIN told, a \in Addresses : /\ ldt' = [ldt EXCEPT ![sel].base = Words(a)]
                                                      /\ told' = [told EXCEPT ![sel].base = a]
      BY <1>5 DEF SetBase
    <2> DEFINE d == [ldt[sel] EXCEPT !.base = Words(a)]
               t == [told[sel] EXCEPT !.base = a]
    <2>2. ldt' = [ldt EXCEPT ![sel] = d] /\ told' = [told EXCEPT ![sel] = t]
      BY <2>1
    <2>3. ldt[sel] \in Descriptors /\ told[sel] \in ToldDescriptors /\ SaysSo(ldt[sel], told[sel])
      BY <1>2
    <2>4. d \in Descriptors /\ t \in ToldDescriptors
      BY <2>3, WordsJoin DEF Descriptors, ToldDescriptors
    <2>5. SaysSo(d, t)
      BY <2>3, WordsJoin DEF SaysSo, Descriptors, ToldDescriptors
    <2> HIDE DEF d, t
    <2>6. QED
      BY <1>1, <2>2, <2>4, <2>5, BothChange
  <1>6. CASE SetLimit
    <2>1. PICK sel \in DOMAIN told, a \in Addresses : /\ ldt' = [ldt EXCEPT ![sel].limit = Words(a)]
                                                      /\ told' = [told EXCEPT ![sel].limit = a]
      BY <1>6 DEF SetLimit
    <2> DEFINE d == [ldt[sel] EXCEPT !.limit = Words(a)]
               t == [told[sel] EXCEPT !.limit = a]
    <2>2. ldt' = [ldt EXCEPT ![sel] = d] /\ told' = [told EXCEPT ![sel] = t]
      BY <2>1
    <2>3. ldt[sel] \in Descriptors /\ told[sel] \in ToldDescriptors /\ SaysSo(ldt[sel], told[sel])
      BY <1>2
    <2>4. d \in Descriptors /\ t \in ToldDescriptors
      BY <2>3, WordsJoin DEF Descriptors, ToldDescriptors
    <2>5. SaysSo(d, t)
      BY <2>3, WordsJoin DEF SaysSo, Descriptors, ToldDescriptors
    <2> HIDE DEF d, t
    <2>6. QED
      BY <1>1, <2>2, <2>4, <2>5, BothChange
  <1>7. CASE SetAccessRights
    <2>1. PICK sel \in DOMAIN told, ar \in 0..1 : /\ ldt' = [ldt EXCEPT ![sel].ar = ar]
                                                  /\ told' = [told EXCEPT ![sel].ar = ar]
      BY <1>7 DEF SetAccessRights
    <2> DEFINE d == [ldt[sel] EXCEPT !.ar = ar]
               t == [told[sel] EXCEPT !.ar = ar]
    <2>2. ldt' = [ldt EXCEPT ![sel] = d] /\ told' = [told EXCEPT ![sel] = t]
      BY <2>1
    <2>3. ldt[sel] \in Descriptors /\ told[sel] \in ToldDescriptors /\ SaysSo(ldt[sel], told[sel])
      BY <1>2
    <2>4. d \in Descriptors /\ t \in ToldDescriptors
      BY <2>3 DEF Descriptors, ToldDescriptors
    <2>5. SaysSo(d, t)
      BY <2>3 DEF SaysSo, Descriptors, ToldDescriptors
    <2> HIDE DEF d, t
    <2>6. QED
      BY <1>1, <2>2, <2>4, <2>5, BothChange
  <1>8. CASE CopyDescriptor
    <2>1. PICK sel \in DOMAIN told, to \in DOMAIN told : /\ ldt' = [ldt EXCEPT ![to] = ldt[sel]]
                                                         /\ told' = [told EXCEPT ![to] = told[sel]]
      BY <1>8 DEF CopyDescriptor
    <2>2. QED
      BY <1>1, <1>2, <2>1, BothChange
  <1>9. QED
    BY <1>3, <1>4, <1>5, <1>6, <1>7, <1>8

-----------------------------------------------------------------------------
(* The invariant is inductive.                                             *)

\* The look-up in real mode.
LEMMA RealModeStep == ASSUME LookUpInRealMode PROVE ReturnedSound'
  <1>1. PICK reply \in Replies, osmajor \in 2..3 :
          /\ osmajor >= 3 => reply # "ignored"
          /\ \E r \in AnswerTo(reply, osmajor) :
               LET known == IF osmajor < 3 THEN ~r.carry ELSE r.al = 0
                   found == known /\ r.si # "0xffff" /\ r.si # "empty"
               IN  returned' = [f |-> "real", rm |-> reply, torn |-> FALSE,
                                ptr |-> IF found THEN Sel(r.si) ELSE NoSel]
    BY DEF LookUpInRealMode
  <1> DEFINE Found(r) == /\ IF osmajor < 3 THEN ~r.carry ELSE r.al = 0
                         /\ r.si # "0xffff" /\ r.si # "empty"
  <1>2. PICK r \in AnswerTo(reply, osmajor) :
          returned' = [f |-> "real", rm |-> reply, torn |-> FALSE,
                       ptr |-> IF Found(r) THEN Sel(r.si) ELSE NoSel]
    BY <1>1
  <1>3. Found(r) <=> reply = "table"
    <2>1. CASE reply = "ignored"
      <3>1. r = [carry |-> TRUE, al |-> 0, si |-> "0xffff"]
        BY <1>2, <2>1 DEF AnswerTo, Before
      <3>2. QED
        BY <2>1, <3>1
    <2>2. CASE reply = "refused"
      <3>1. r = [carry |-> TRUE, al |-> 1, si |-> "0xffff"]
        BY <1>2, <2>2 DEF AnswerTo
      <3>2. QED
        BY <2>2, <3>1
    <2>3. CASE reply = "no table"
      <3>1. r = [carry |-> FALSE, al |-> 0, si |-> "0xffff"]
        BY <1>2, <2>3 DEF AnswerTo
      <3>2. QED
        BY <2>3, <3>1
    <2>4. CASE reply \in {"empty", "table"}
      <3>1. \E c \in IF osmajor < 3 THEN {FALSE} ELSE BOOLEAN :
              r = [carry |-> c, al |-> 0, si |-> reply]
        BY <1>2, <2>4 DEF AnswerTo
      <3>2. PICK c \in IF osmajor < 3 THEN {FALSE} ELSE BOOLEAN :
              r = [carry |-> c, al |-> 0, si |-> reply]
        BY <3>1
      <3>3. r.al = 0 /\ r.si = reply /\ (osmajor < 3 => r.carry = FALSE)
        BY <3>2
      <3>4. QED
        BY <2>4, <3>3
    <2>5. QED
      BY <2>1, <2>2, <2>3, <2>4 DEF Replies
  <1>4. ASSUME reply = "table" PROVE r.si = "table"
    <2>1. \E c \in IF osmajor < 3 THEN {FALSE} ELSE BOOLEAN :
            r = [carry |-> c, al |-> 0, si |-> reply]
      BY <1>2, <1>4 DEF AnswerTo
    <2>2. QED
      BY <1>4, <2>1
  <1> HIDE DEF Found
  <1>5. returned'.f = "real" /\ returned'.rm = reply /\ returned'.torn \in BOOLEAN
        /\ returned'.ptr = IF Found(r) THEN Sel(r.si) ELSE NoSel
    BY <1>2
  <1>6. returned'.f \notin TableCalls
    BY <1>5 DEF TableCalls
  <1>7. returned'.ptr = IF returned'.rm = "table" THEN Sel("table") ELSE NoSel
    BY <1>3, <1>4, <1>5
  <1>8. QED
    BY <1>5, <1>6, <1>7, Zenon DEF ReturnedSound

LEMMA ExInvInit == ExInit => ExInv
  <1> SUFFICES ASSUME ExInit PROVE ExInv
    OBVIOUS
  <1>1. CallsSound
    <2>1. NoSel \in Pms /\ "none" \in Rms /\ FALSE \in BOOLEAN /\ calls = <<>>
      BY DEF Pms, Rms, ExInit
    <2>2. cache = [f \in TableCalls |-> [pm |-> NoSel, rm |-> "none"]]
          /\ dos \in [TableCalls -> [seg : Segments \union {"none"}, empty : {FALSE}]]
      BY DEF ExInit
    <2>3. dos \in [TableCalls -> [seg : Rms, empty : BOOLEAN]]
      BY <2>1, <2>2 DEF Rms
    <2>4. cache \in [TableCalls -> [pm : Pms, rm : Rms]]
          /\ \A f \in TableCalls : cache[f].pm = NoSel
      BY <2>1, <2>2
    <2>5. QED
      BY <2>1, <2>3, <2>4 DEF CallsSound
  <1>2. ReturnedSound
    BY DEF ExInit, NoAnswer, ReturnedSound, TableCalls
  <1>3. BlocksSound
    <2>1. blocks = {} /\ refused = 0 /\ Holders = {} /\ Cardinality({}) = 0
      BY FS_EmptySet DEF ExInit, Holders
    <2>2. QED
      BY <2>1 DEF BlocksSound
  <1>4. LdtSound
    <2>1. DOMAIN ldt = {} /\ DOMAIN told = {} /\ ldt = [i \in {} |-> 0] /\ told = [i \in {} |-> 0]
      BY DEF ExInit
    <2>2. QED
      BY <2>1 DEF LdtSound
  <1>5. MemorySound
    <2>1. xmem = <<>> /\ xmem_told = <<>> /\ DOMAIN <<>> = {}
      BY DEF ExInit
    <2>2. QED
      BY <2>1 DEF MemorySound
  <1>6. QED
    BY <1>1, <1>2, <1>3, <1>4, <1>5 DEF ExInv

LEMMA ExInvNext == ExInv /\ [ExNext]_exVars => ExInv'
  <1> SUFFICES ASSUME ExInv, [ExNext]_exVars PROVE ExInv'
    OBVIOUS
  <1>1. CallsSound /\ ReturnedSound /\ BlocksSound /\ LdtSound /\ MemorySound
    BY DEF ExInv
  <1>2. UNCHANGED <<dos, cache, calls>> => CallsSound'
    BY <1>1 DEF CallsSound
  <1>3. UNCHANGED returned => ReturnedSound'
    BY <1>1 DEF ReturnedSound
  <1>4. UNCHANGED <<calls, blocks, refused>> => BlocksSound'
    BY <1>1 DEF BlocksSound, Holders
  <1>5. UNCHANGED <<ldt, told>> => LdtSound'
    BY <1>1 DEF LdtSound, GetDescriptor, GetBase
  <1>6. UNCHANGED <<xmem, xmem_told>> => MemorySound'
    BY <1>1 DEF MemorySound
  <1>7. CASE UNCHANGED exVars
    BY <1>1, <1>2, <1>3, <1>4, <1>5, <1>6, <1>7 DEF ExInv, exVars, ldtVars
  <1>8. CASE \/ Simulate \/ ReadCachedPm \/ Compare \/ Translate \/ ReturnPointer \/ Call \/ MakeFcb
             \/ ClearCachedPm \/ StoreCachedRm \/ StoreCachedPm
             \/ AllocateBlock \/ ParseRefused \/ Parse \/ FreeBlock
    <2>1. CallsSound' /\ BlocksSound' /\ ReturnedSound'
      BY <1>1, <1>8, TableStep, StoreStep, BeginStep, FcbStep
    <2>2. UNCHANGED <<ldt, told, xmem, xmem_told>>
      BY <1>8 DEF Simulate, ReadCachedPm, Compare, Translate, ReturnPointer, Call, MakeFcb,
                  ClearCachedPm, StoreCachedRm, StoreCachedPm, Store, AllocateBlock, ParseRefused,
                  Parse, FreeBlock, ldtVars
    <2>3. QED
      BY <1>1, <1>5, <1>6, <2>1, <2>2 DEF ExInv
  <1>9. CASE \/ AllocateDescriptor \/ FreeDescriptor \/ SetBase \/ SetLimit \/ SetAccessRights
             \/ CopyDescriptor
    <2>1. LdtSound'
      BY <1>1, <1>9, LdtStep
    <2>2. UNCHANGED <<dos, cache, calls, returned, blocks, refused, xmem, xmem_told>>
      BY <1>9 DEF AllocateDescriptor, FreeDescriptor, SetBase, SetLimit, SetAccessRights,
                  CopyDescriptor, HostVars, startVars, hostVars
    <2>3. QED
      BY <1>1, <1>2, <1>3, <1>4, <1>6, <2>1, <2>2 DEF ExInv
  <1>10. CASE AllocateMemory \/ FreeMemory
    <2>1. UNCHANGED <<dos, cache, calls, returned, blocks, refused, ldt, told>>
      BY <1>10 DEF AllocateMemory, FreeMemory, MemVars, startVars, hostVars
    <2>2. MemorySound'
      <3>1. CASE AllocateMemory
        <4>1. PICK handle \in Addresses \ DOMAIN xmem, size \in Addresses :
                /\ xmem' = [h \in DOMAIN xmem \union {handle} |->
                              IF h = handle THEN Join(Words(size)[1], Words(size)[2]) ELSE xmem[h]]
                /\ xmem_told' = [h \in DOMAIN xmem_told
                                         \union {Join(Words(handle)[1], Words(handle)[2])} |->
                                   IF h = Join(Words(handle)[1], Words(handle)[2]) THEN size
                                   ELSE xmem_told[h]]
          BY <3>1 DEF AllocateMemory
        <4>2. Join(Words(size)[1], Words(size)[2]) = size
              /\ Join(Words(handle)[1], Words(handle)[2]) = handle
          BY WordsJoin
        <4>3. xmem' = xmem_told' /\ DOMAIN xmem' = DOMAIN xmem \union {handle}
          BY <1>1, <4>1, <4>2 DEF MemorySound
        <4>4. QED
          BY <1>1, <4>3 DEF MemorySound
      <3>2. CASE FreeMemory
        <4>1. PICK handle \in DOMAIN xmem_told :
                /\ xmem_told' = Forget(handle, xmem_told)
                /\ xmem' = Forget(Join(Words(handle)[1], Words(handle)[2]), xmem)
          BY <3>2 DEF FreeMemory
        <4>2. Join(Words(handle)[1], Words(handle)[2]) = handle
          <5>1. handle \in Addresses
            BY <1>1 DEF MemorySound
          <5>2. QED
            BY <5>1, WordsJoin
        <4>3. xmem' = xmem_told' /\ DOMAIN xmem' = DOMAIN xmem \ {handle}
          BY <1>1, <4>1, <4>2 DEF MemorySound, Forget
        <4>4. QED
          BY <1>1, <4>3 DEF MemorySound
      <3>3. QED
        BY <1>10, <3>1, <3>2
    <2>3. QED
      BY <1>2, <1>3, <1>4, <1>5, <2>1, <2>2 DEF ExInv
  <1>11. CASE BdaSegInit \/ TableMoves \/ LookUpInRealMode
    <2>1. UNCHANGED <<cache, calls, blocks, refused, ldt, told, xmem, xmem_told>>
      BY <1>11 DEF BdaSegInit, TableMoves, LookUpInRealMode, hostVars, ldtVars
    <2>2. ReturnedSound'
      BY <1>3, <1>11, RealModeStep DEF BdaSegInit, TableMoves
    <2>3. CallsSound'
      <3>1. CASE BdaSegInit \/ LookUpInRealMode
        BY <1>2, <2>1, <3>1 DEF BdaSegInit, LookUpInRealMode, startVars
      <3>2. CASE TableMoves
        <4>1. calls' = <<>> /\ UNCHANGED cache
          BY <3>2 DEF TableMoves
        <4>2. PICK f \in TableCalls, s \in Segments \union {"none"}, e \in BOOLEAN :
                dos' = [dos EXCEPT ![f] = [seg |-> s, empty |-> e /\ f = "dbcs"]]
          BY <3>2 DEF TableMoves
        <4>3. (e /\ f = "dbcs") \in BOOLEAN
          OBVIOUS
        <4>4. dos' \in [TableCalls -> [seg : Rms, empty : BOOLEAN]]
          BY <1>1, <4>2, <4>3 DEF CallsSound, Rms
        <4>5. QED
          BY <1>1, <4>1, <4>4 DEF CallsSound
      <3>3. QED
        BY <1>11, <3>1, <3>2
    <2>4. QED
      BY <1>1, <1>4, <1>5, <1>6, <2>1, <2>2, <2>3 DEF ExInv
  <1>12. QED
    BY <1>7, <1>8, <1>9, <1>10, <1>11 DEF ExNext

\* What the library uses in protected mode is what DOS and the host have.  A look-up gives
\* the selector of another segment exactly when it was torn, and the blocks of base memory
\* lost are as many as the interrupts refused.
THEOREM ExtenderIsSound == ExSpec => []ProtectedMeansReal
  <1>1. ExInv => ProtectedMeansReal
    BY DEF ExInv, ReturnedSound, BlocksSound, LdtSound, MemorySound, ProtectedMeansReal
  <1>2. QED
    BY <1>1, ExInvInit, ExInvNext, PTL DEF ExSpec

-----------------------------------------------------------------------------
(* Palette: a background that is given back is the background there was.   *)

\* The bits of a number, of its sum.
LEMMA Bits ==
  ASSUME NEW a \in 0..1, NEW b \in 0..1, NEW c \in 0..1, NEW d \in 0..1, NEW e \in 0..1,
         NEW f \in 0..1
  PROVE  LET n == a + 2 * b + 4 * c + 8 * d + 16 * e + 32 * f
         IN  /\ n \in 0..63 /\ n % 64 = n
             /\ (n \div 1) % 2 = a /\ (n \div 2) % 2 = b /\ (n \div 4) % 2 = c
             /\ (n \div 8) % 2 = d /\ (n \div 16) % 2 = e /\ (n \div 32) % 2 = f
  <1> DEFINE n == a + 2 * b + 4 * c + 8 * d + 16 * e + 32 * f
  <1>1. n \in 0..63 /\ n % 64 = n
    OBVIOUS
  <1>2. (n \div 1) % 2 = a /\ (n \div 2) % 2 = b /\ (n \div 4) % 2 = c
    OBVIOUS
  <1>3. (n \div 8) % 2 = d /\ (n \div 16) % 2 = e /\ (n \div 32) % 2 = f
    OBVIOUS
  <1>4. QED
    BY <1>1, <1>2, <1>3

\* A component of a triplet and its two high bits.
LEMMA Components ==
  ASSUME NEW v \in Int
  PROVE  /\ Red(v) \in 0..63 /\ Green(v) \in 0..63 /\ Blue(v) \in 0..63
  BY DEF Red, Green, Blue

LEMMA HighLow ==
  ASSUME NEW c \in 0..63
  PROVE  High(c) \in 0..1 /\ Low(c) \in 0..1 /\ 2 * High(c) + Low(c) = c \div 16
  BY DEF High, Low

LEMMA EgaColourBits ==
  ASSUME NEW v \in Int
  PROVE  /\ EgaColour(v) \in 0..63 /\ EgaColour(v) % 64 = EgaColour(v)
         /\ LET bit(k) == (EgaColour(v) \div k) % 2
            IN  /\ Level(bit(4), bit(32)) = Red(v) \div 16
                /\ Level(bit(2), bit(16)) = Green(v) \div 16
                /\ Level(bit(1), bit(8)) = Blue(v) \div 16
  <1> DEFINE r == Red(v)
             g == Green(v)
             b == Blue(v)
  <1>1. r \in 0..63 /\ g \in 0..63 /\ b \in 0..63
    BY Components
  <1> HIDE DEF r, g, b
  <1>2. /\ High(r) \in 0..1 /\ Low(r) \in 0..1 /\ 2 * High(r) + Low(r) = r \div 16
        /\ High(g) \in 0..1 /\ Low(g) \in 0..1 /\ 2 * High(g) + Low(g) = g \div 16
        /\ High(b) \in 0..1 /\ Low(b) \in 0..1 /\ 2 * High(b) + Low(b) = b \div 16
    BY <1>1, HighLow
  <1> DEFINE n == High(b) + 2 * High(g) + 4 * High(r) + 8 * Low(b) + 16 * Low(g) + 32 * Low(r)
  <1>3. EgaColour(v) = n
    BY <1>2 DEF EgaColour, r, g, b
  <1>4. /\ n \in 0..63 /\ n % 64 = n
        /\ (n \div 1) % 2 = High(b) /\ (n \div 2) % 2 = High(g) /\ (n \div 4) % 2 = High(r)
        /\ (n \div 8) % 2 = Low(b) /\ (n \div 16) % 2 = Low(g) /\ (n \div 32) % 2 = Low(r)
    BY <1>2, Bits
  <1> HIDE DEF n
  <1>5. QED
    BY <1>2, <1>3, <1>4 DEF Level, r, g, b

LEMMA CgaColours == \A i \in 1..64 : EgaToCga[i] \in 0..15
  BY DEF EgaToCga

LEMMA CgaOfType == ASSUME NEW v \in Int PROVE CgaOf(v) \in 0..15
  <1>1. EgaColour(v) + 1 \in 1..64
    BY EgaColourBits
  <1>2. QED
    BY <1>1, CgaColours DEF CgaOf

LEMMA ColoursNamed == NamesKept
  <1>1. ASSUME NEW r \in {0, 21, 42, 63}, NEW g \in {0, 21, 42, 63}, NEW b \in {0, 21, 42, 63}
        PROVE  /\ Rgb(r, g, b) \in Int
               /\ Red(Rgb(r, g, b)) = r /\ Green(Rgb(r, g, b)) = g /\ Blue(Rgb(r, g, b)) = b
    BY DEF Rgb, Red, Green, Blue, Black
  <1>2. /\ High(0) = 0 /\ Low(0) = 0 /\ High(21) = 0 /\ Low(21) = 1
        /\ High(42) = 1 /\ Low(42) = 0 /\ High(63) = 1 /\ Low(63) = 1
    BY DEF High, Low
  <1>3. ASSUME NEW r \in {0, 21, 42, 63}, NEW g \in {0, 21, 42, 63}, NEW b \in {0, 21, 42, 63}
        PROVE  EgaColour(Rgb(r, g, b)) =
                 High(b) + 8 * Low(b) + 2 * High(g) + 16 * Low(g) + 4 * High(r) + 32 * Low(r)
    BY <1>1 DEF EgaColour
  <1>4. /\ EgaColour(Rgb(0, 0, 0)) = 0 /\ EgaColour(Rgb(0, 0, 42)) = 1
        /\ EgaColour(Rgb(0, 42, 0)) = 2 /\ EgaColour(Rgb(0, 42, 42)) = 3
        /\ EgaColour(Rgb(42, 0, 0)) = 4 /\ EgaColour(Rgb(42, 0, 42)) = 5
        /\ EgaColour(Rgb(42, 21, 0)) = 20 /\ EgaColour(Rgb(42, 42, 42)) = 7
        /\ EgaColour(Rgb(21, 21, 21)) = 56 /\ EgaColour(Rgb(21, 21, 63)) = 57
        /\ EgaColour(Rgb(21, 63, 21)) = 58 /\ EgaColour(Rgb(21, 63, 63)) = 59
        /\ EgaColour(Rgb(63, 21, 21)) = 60 /\ EgaColour(Rgb(63, 21, 63)) = 61
        /\ EgaColour(Rgb(63, 63, 21)) = 62 /\ EgaColour(Rgb(63, 63, 63)) = 63
    BY <1>2, <1>3
  <1>5. QED
    BY <1>4 DEF NamesKept, CgaOf, NamedColours, EgaToCga

Registers == [cga : Int, pal : Int, dac : Int \X Int \X Int]

\* What the colour that _setbkcolor would return next makes of the palette register.
PalOf(v) == IF ~IsRgb(v) THEN v % 64
            ELSE IF board.low THEN CgaOf(v) % 64 ELSE EgaColour(v) % 64

\* The registers hold the colour that the library has kept.
Held == /\ board.adapter = "CGA" => bk_colr \in 0..255 /\ regs.cga = bk_colr % 256
        /\ board.adapter = "EGA" => regs.pal = PalOf(bk_colr)
        /\ board.adapter = "VGA" /\ indexed = FALSE =>
             /\ regs.pal = 0 /\ IsRgb(bk_colr)
             /\ regs.dac = <<Red(bk_colr), Green(bk_colr), Blue(bk_colr)>>

\* The history, in the terms of the last call.
Recalled ==
  /\ asked # -1 /\ IsRgb(asked) =>
       /\ board.adapter = "VGA" /\ indexed = FALSE =>
            Seen(regs) = <<Red(asked), Green(asked), Blue(asked)>>
       /\ board.adapter = "EGA" /\ ~board.low => regs.pal = EgaColour(asked)
  /\ prev # -1 /\ indexed = FALSE =>
       Seen(Painted(regs, Taken(prev))) = was /\ bk_colr = Taken(asked)

PalInv == /\ board \in Boards /\ regs \in Registers /\ bk_colr \in Int /\ asked \in Int
          /\ indexed \in BOOLEAN /\ (board.adapter = "MDPA" => prev = -1)
          /\ Held /\ Recalled

LEMMA TakenType ==
  ASSUME NEW v \in Int
  PROVE  /\ Taken(v) \in Int
         /\ board.adapter = "CGA" => ~IsRgb(Taken(v)) /\ (IsRgb(v) => Taken(v) \in 0..255)
         /\ board.adapter # "CGA" => Taken(v) = v
  BY CgaOfType DEF Taken, IsRgb

LEMMA NotRgb == ASSUME NEW v \in Int PROVE ~IsRgb(v) <=> v \in 0..255
  BY DEF IsRgb

\* What is painted, by adapter.
LEMMA PaintedType ==
  ASSUME NEW r \in Registers, NEW v \in Int, board \in Boards
  PROVE  /\ Painted(r, v) \in Registers
         /\ board.adapter = "CGA" /\ ~IsRgb(v) => Painted(r, v).cga = v % 256
         /\ board.adapter = "EGA" => Painted(r, v).pal = PalOf(v)
         /\ board.adapter = "VGA" /\ IsRgb(v) =>
              Painted(r, v).pal = r.pal /\ Painted(r, v).dac = <<Red(v), Green(v), Blue(v)>>
  <1>1. /\ v % 256 \in Int /\ v % 64 \in Int /\ CgaOf(v) % 64 \in Int /\ EgaColour(v) % 64 \in Int
        /\ Red(v) \in Int /\ Green(v) \in Int /\ Blue(v) \in Int
    <2>1. CgaOf(v) \in Int /\ EgaColour(v) \in Int
      BY CgaOfType, EgaColourBits
    <2>2. \A x \in Int : x % 64 \in Int /\ x % 256 \in Int
      OBVIOUS
    <2>3. Red(v) \in Int /\ Green(v) \in Int /\ Blue(v) \in Int
      BY Components
    <2>4. QED
      BY <2>1, <2>2, <2>3
  <1>2. CASE ~IsRgb(v)
    <2>1. Painted(r, v) = IF board.adapter = "CGA" THEN [r EXCEPT !.cga = v % 256]
                          ELSE [r EXCEPT !.pal = v % 64]
      BY <1>2 DEF Painted, PaintedIndex, SetPal
    <2>2. QED
      BY <1>1, <1>2, <2>1 DEF Registers, PalOf
  <1>3. CASE IsRgb(v)
    <2>1. CASE board.adapter = "VGA"
      <3>1. Painted(r, v) = [r EXCEPT !.dac = <<Red(v), Green(v), Blue(v)>>]
        BY <1>3, <2>1 DEF Painted, PaintedRgb, SetDac
      <3>2. QED
        BY <1>1, <1>3, <2>1, <3>1 DEF Registers
    <2>2. CASE board.adapter # "VGA"
      <3>1. Painted(r, v) = [r EXCEPT !.pal = PalOf(v)]
        BY <1>3, <2>2 DEF Painted, PaintedRgb, SetPal, PalOf
      <3>2. PalOf(v) \in Int
        BY <1>1 DEF PalOf
      <3>3. QED
        BY <1>1, <1>3, <2>2, <3>1, <3>2 DEF Registers
    <2>3. QED
      BY <2>1, <2>2
  <1>4. QED
    BY <1>2, <1>3

\* The kept colour, painted over whatever another has left, is seen again.
LEMMA GivenBack ==
  ASSUME board \in Boards, regs \in Registers, bk_colr \in Int, Held, board.adapter # "MDPA",
         NEW v \in Int, board.adapter = "VGA" => indexed = FALSE /\ IsRgb(v)
  PROVE  Seen(Painted(Painted(regs, Taken(v)), Taken(bk_colr))) = Seen(regs)
  <1> DEFINE r == Painted(regs, Taken(v))
             q == Painted(r, Taken(bk_colr))
  <1>1. Taken(v) \in Int /\ Taken(bk_colr) \in Int
    BY TakenType
  <1>2. r \in Registers
    BY <1>1, PaintedType
  <1>3. CASE board.adapter = "CGA"
    <2>1. Taken(bk_colr) = bk_colr /\ ~IsRgb(bk_colr)
      BY <1>3, NotRgb DEF Held, Taken
    <2> HIDE DEF r
    <2>2. q.cga = regs.cga
      BY <1>2, <1>3, <2>1, PaintedType DEF Held
    <2> HIDE DEF q
    <2>3. Seen(q) = Seen(regs)
      BY <1>3, <2>2 DEF Seen
    <2>4. QED
      BY <2>3 DEF q, r
  <1>4. CASE board.adapter = "EGA"
    <2>1. Taken(bk_colr) = bk_colr
      BY <1>4 DEF Taken
    <2> HIDE DEF r
    <2>2. q.pal = regs.pal
      BY <1>2, <1>4, <2>1, PaintedType DEF Held
    <2> HIDE DEF q
    <2>3. Seen(q) = Seen(regs)
      BY <1>4, <2>2 DEF Seen
    <2>4. QED
      BY <2>3 DEF q, r
  <1>5. CASE board.adapter = "VGA"
    <2>1. Taken(bk_colr) = bk_colr /\ Taken(v) = v /\ IsRgb(v) /\ IsRgb(bk_colr) /\ regs.pal = 0
          /\ regs.dac = <<Red(bk_colr), Green(bk_colr), Blue(bk_colr)>>
      BY <1>5 DEF Taken, Held
    <2>2. r.pal = 0
      <3>1. r = Painted(regs, v)
        BY <2>1
      <3>2. board.adapter = "VGA" /\ IsRgb(v)
        BY <1>5, <2>1
      <3> HIDE DEF r
      <3>3. r.pal = regs.pal
        BY <3>1, <3>2, PaintedType, ZenonT(60)
      <3>4. QED
        BY <2>1, <3>3
    <2> HIDE DEF r
    <2>3. q.pal = 0 /\ q.dac = regs.dac
      <3>1. q = Painted(r, bk_colr)
        BY <2>1
      <3> HIDE DEF q
      <3>2. q.pal = r.pal /\ q.dac = <<Red(bk_colr), Green(bk_colr), Blue(bk_colr)>>
        BY <1>2, <1>5, <2>1, <3>1, PaintedType, ZenonT(60)
      <3>3. QED
        BY <2>1, <2>2, <3>2
    <2> HIDE DEF q
    <2>4. Seen(q) = Seen(regs)
      BY <1>5, <2>1, <2>3 DEF Seen
    <2>5. QED
      BY <2>4 DEF q, r
  <1>6. QED
    BY <1>3, <1>4, <1>5 DEF Boards

\* After a mode change, or at the start.
LEMMA Fresh ==
  ASSUME board \in Boards, regs = [cga |-> 0, pal |-> 0, dac |-> <<0, 0, 0>>],
         bk_colr = FirstBkColr, asked = -1, prev = -1, indexed = FALSE
  PROVE  PalInv
  <1>1. /\ regs \in Registers /\ regs.pal = 0 /\ regs.cga = 0 /\ regs.dac = <<0, 0, 0>>
        /\ regs.dac[1] = 0 /\ regs.dac[2] = 0 /\ regs.dac[3] = 0
    BY DEF Registers
  <1>2. bk_colr = IF board.adapter = "VGA" THEN Black ELSE 0
    <2>1. GetPal(0) = 0 /\ GetDac(regs.dac) = Black
      BY <1>1 DEF GetPal, GetDac, Rgb, Black
    <2>2. QED
      BY <2>1 DEF FirstBkColr
  <1>3. Held
    <2>1. /\ IsRgb(Black) /\ Red(Black) = 0 /\ Green(Black) = 0 /\ Blue(Black) = 0
          /\ ~IsRgb(0)
      BY DEF IsRgb, Red, Green, Blue, Black
    <2>2. QED
      BY <1>1, <1>2, <2>1 DEF Held, PalOf
  <1>4. bk_colr \in Int
    BY <1>2 DEF Black
  <1>5. Recalled
    BY DEF Recalled
  <1>6. indexed \in BOOLEAN
    BY Zenon
  <1>7. QED
    BY <1>1, <1>3, <1>4, <1>5, <1>6 DEF PalInv

LEMMA FreshNext ==
  (/\ board \in Boards /\ regs = [cga |-> 0, pal |-> 0, dac |-> <<0, 0, 0>>]
   /\ bk_colr = FirstBkColr /\ asked = -1 /\ prev = -1 /\ indexed = FALSE)' => PalInv'
  <1>1. (/\ board \in Boards /\ regs = [cga |-> 0, pal |-> 0, dac |-> <<0, 0, 0>>]
         /\ bk_colr = FirstBkColr /\ asked = -1 /\ prev = -1 /\ indexed = FALSE) => PalInv
    BY Fresh
  <1>2. QED
    BY <1>1, PTL

\* A colour is set.
LEMMA SetStep ==
  ASSUME PalInv, NEW v \in BkColours, SetBackground(v)
  PROVE  PalInv'
  <1>1. /\ v \in Int /\ Taken(v) \in Int /\ board' = board /\ board \in Boards
        /\ regs \in Registers /\ regs' = Painted(regs, Taken(v)) /\ bk_colr' = Taken(v)
        /\ prev' = bk_colr /\ was' = Seen(regs) /\ asked' = v /\ bk_colr \in Int
        /\ board.adapter \in {"CGA", "EGA", "VGA"} /\ Held
    BY BkColourAssumption, TakenType DEF PalInv, SetBackground, Boards
  <1>2. indexed' = (indexed \/ (board.adapter = "VGA" /\ ~IsRgb(v))) /\ indexed \in BOOLEAN
    BY DEF PalInv, SetBackground
  <1>3. indexed' \in BOOLEAN
    BY <1>2, Zenon
  <1>4. indexed' = FALSE => indexed = FALSE /\ (board.adapter = "VGA" => IsRgb(v))
    BY <1>2, Zenon
  <1>5. regs' \in Registers
    BY <1>1, PaintedType
  <1>6. Held'
    <2>1. board.adapter = "CGA" => Taken(v) \in 0..255 /\ regs'.cga = Taken(v) % 256
      BY <1>1, TakenType, PaintedType, NotRgb, ZenonT(60)
    <2>2. board.adapter = "EGA" => regs'.pal = PalOf(Taken(v))
      BY <1>1, PaintedType
    <2>3. board.adapter = "VGA" /\ indexed' = FALSE =>
            /\ regs'.pal = 0 /\ IsRgb(Taken(v))
            /\ regs'.dac = <<Red(Taken(v)), Green(Taken(v)), Blue(Taken(v))>>
      <3>1. SUFFICES ASSUME board.adapter = "VGA", indexed' = FALSE
                     PROVE  /\ regs'.pal = 0 /\ IsRgb(Taken(v))
                            /\ regs'.dac = <<Red(Taken(v)), Green(Taken(v)), Blue(Taken(v))>>
        OBVIOUS
      <3>2. Taken(v) = v /\ IsRgb(v) /\ regs.pal = 0
        BY <1>1, <1>4, <3>1, TakenType DEF Held
      <3>3. QED
        BY <1>1, <3>1, <3>2, PaintedType
    <2>4. QED
      BY <1>1, <2>1, <2>2, <2>3 DEF Held, PalOf
  <1>7. Recalled'
    <2>1. ASSUME IsRgb(v), board.adapter = "VGA", indexed' = FALSE
          PROVE  Seen(regs)' = <<Red(v), Green(v), Blue(v)>>
      <3>1. Taken(v) = v
        BY <1>1, <2>1, TakenType
      <3>2. regs'.pal = 0 /\ regs'.dac = <<Red(v), Green(v), Blue(v)>>
        BY <1>1, <1>6, <2>1, <3>1 DEF Held
      <3>3. QED
        BY <1>1, <2>1, <3>2 DEF Seen
    <2>2. ASSUME IsRgb(v), board.adapter = "EGA", ~board.low
          PROVE  regs'.pal = EgaColour(v)
      <3>1. Taken(v) = v /\ regs'.pal = PalOf(v)
        BY <1>1, <2>2, TakenType, PaintedType
      <3>2. QED
        BY <1>1, <2>2, <3>1, EgaColourBits DEF PalOf
    <2>3. ASSUME indexed' = FALSE
          PROVE  Seen(Painted(regs, Taken(prev)))' = was' /\ bk_colr' = Taken(asked)'
      <3>1. Seen(Painted(Painted(regs, Taken(v)), Taken(bk_colr))) = Seen(regs)
        BY <1>1, <1>4, <2>3, GivenBack
      <3>2. Seen(Painted(regs, Taken(prev)))' = Seen(Painted(Painted(regs, Taken(v)), Taken(bk_colr)))
        BY <1>1 DEF Seen, Painted, PaintedRgb, PaintedIndex, Taken, SetPal, SetDac
      <3>3. Taken(asked)' = Taken(v)
        BY <1>1 DEF Taken
      <3>4. QED
        BY <1>1, <3>1, <3>2, <3>3
    <2>4. QED
      BY <1>1, <2>1, <2>2, <2>3 DEF Recalled
  <1>8. QED
    BY <1>1, <1>3, <1>5, <1>6, <1>7 DEF PalInv

LEMMA PalInvInit == PalInit => PalInv
  BY Fresh DEF PalInit

LEMMA PalInvNext == PalInv /\ [PalNext]_palVars => PalInv'
  <1> SUFFICES ASSUME PalInv, [PalNext]_palVars PROVE PalInv'
    OBVIOUS
  <1>1. CASE UNCHANGED palVars
    <2>1. Held' = Held /\ Recalled' = Recalled
      BY <1>1 DEF palVars, Held, PalOf, Recalled, Seen, Painted, PaintedRgb, PaintedIndex, Taken, SetPal,
                  SetDac
    <2>2. QED
      BY <1>1, <2>1 DEF palVars, PalInv
  <1>2. CASE \E b \in Boards : b.adapter = board.adapter /\ PalMode(b)
    BY <1>2, FreshNext DEF PalMode
  <1>3. CASE \E v \in BkColours : SetBackground(v)
    BY <1>3, SetStep
  <1>4. CASE \E v \in BkColours : BackgroundRefused(v)
    <2>1. PICK v \in BkColours : BackgroundRefused(v)
      BY <1>4
    <2>2. board.adapter = "MDPA" /\ prev' = -1 /\ asked' \in Int
          /\ UNCHANGED <<board, regs, bk_colr, was, indexed>>
      BY <2>1, BkColourAssumption DEF BackgroundRefused
    <2>3. Held' /\ Recalled'
      BY <2>2 DEF Held, Recalled
    <2>4. QED
      BY <2>2, <2>3 DEF PalInv
  <1>5. QED
    BY <1>1, <1>2, <1>3, <1>4 DEF PalNext

LEMMA PalInvImplies == PalInv => BackgroundGivenBack
  <1> SUFFICES ASSUME PalInv PROVE BackgroundGivenBack
    OBVIOUS
  <1>1. ~indexed <=> indexed = FALSE
    BY Zenon DEF PalInv
  <1>2. TripletSeen
    <2>1. ASSUME asked # -1, IsRgb(asked), board.adapter = "VGA", ~indexed
          PROVE  Seen(regs) = <<Red(asked), Green(asked), Blue(asked)>>
      BY <1>1, <2>1 DEF PalInv, Recalled
    <2>2. ASSUME asked # -1, IsRgb(asked), board.adapter = "EGA", ~board.low
          PROVE  LET n == regs.pal
                     bit(k) == (n \div k) % 2
                 IN  /\ Level(bit(4), bit(32)) = Red(asked) \div 16
                     /\ Level(bit(2), bit(16)) = Green(asked) \div 16
                     /\ Level(bit(1), bit(8)) = Blue(asked) \div 16
      <3>1. regs.pal = EgaColour(asked) /\ asked \in Int
        BY <2>2 DEF PalInv, Recalled
      <3>2. QED
        BY <3>1, EgaColourBits
    <2>3. QED
      BY <2>1, <2>2 DEF TripletSeen
  <1>3. QED
    BY <1>1, <1>2, ColoursNamed DEF PalInv, Recalled, BackgroundGivenBack

\* A background that is given back is seen again, and each named colour is its own.
THEOREM BackgroundComesBack == PalSpec => []BackgroundGivenBack
  BY PalInvInit, PalInvNext, PalInvImplies, PTL DEF PalSpec

-----------------------------------------------------------------------------
(* FarMemory: what is copied in turn.                                      *)

Memories == [HighAddresses -> Int]
Parts(n) == SUBSET (0..n - 1)

\* The bytes of done have been copied, and nothing else has changed.
HasCopied(v, d, s, done) ==
  /\ v \in Memories
  /\ \A a \in HighAddresses :
       IF \E i \in done : Byte(d, i) = Wire(a)
       THEN \E i \in done : Byte(d, i) = Wire(a) /\ v[a] = Byte(s, i)
       ELSE v[a] = Wire(a)

\* Byte i of s is on the wires at an address that Wire leaves alone.
OnWires(s, n) == \A i \in 0..n - 1 : Byte(s, i) \in HighAddresses /\ Wire(Byte(s, i)) = Byte(s, i)

LEMMA CopiedType ==
  ASSUME NEW v \in Memories, NEW d, NEW s, NEW n, OnWires(s, n), NEW is \in Parts(n)
  PROVE  Copied(v, d, s, is) \in Memories
  <1>1. DOMAIN v = HighAddresses /\ \A a \in HighAddresses : v[a] \in Int
    BY DEF Memories
  <1>2. ASSUME NEW a \in HighAddresses, \E i \in is : Byte(d, i) = Wire(a)
        PROVE  v[Byte(s, CHOOSE i \in is : Byte(d, i) = Wire(a))] \in Int
    <2> DEFINE c == CHOOSE i \in is : Byte(d, i) = Wire(a)
    <2>1. c \in is
      BY <1>2
    <2> HIDE DEF c
    <2>2. Byte(s, c) \in HighAddresses
      BY <2>1 DEF OnWires, Parts
    <2>3. v[Byte(s, c)] \in Int
      BY <1>1, <2>2
    <2>4. QED
      BY <2>3 DEF c
  <1>3. \A a \in HighAddresses :
          (IF \E i \in is : Byte(d, i) = Wire(a)
           THEN v[Byte(s, CHOOSE i \in is : Byte(d, i) = Wire(a))] ELSE v[a]) \in Int
    BY <1>1, <1>2, Zenon
  <1>4. QED
    BY <1>1, <1>3 DEF Copied, Memories

LEMMA CopiedOn ==
  ASSUME NEW d, NEW s, NEW n, OnWires(s, n), NEW done \in Parts(n),
         NEW v, HasCopied(v, d, s, done), NEW is \in Parts(n),
         \A i \in is : \A j \in done : Byte(d, j) # Byte(s, i)
  PROVE  HasCopied(Copied(v, d, s, is), d, s, done \union is)
  <1> DEFINE w == Copied(v, d, s, is)
  <1>1. v \in Memories /\ w \in Memories /\ DOMAIN v = HighAddresses
    BY CopiedType DEF HasCopied, Memories
  <1>2. ASSUME NEW a \in HighAddresses, NEW k \in is, Byte(d, k) = Wire(a)
        PROVE  \E i \in is : Byte(d, i) = Wire(a) /\ w[a] = Byte(s, i)
    <2> DEFINE c == CHOOSE i \in is : Byte(d, i) = Wire(a)
    <2>1. c \in is /\ Byte(d, c) = Wire(a)
      BY <1>2
    <2>2. w[a] = v[Byte(s, c)]
      BY <1>1, <1>2 DEF Copied
    <2> HIDE DEF c, w
    <2>3. Byte(s, c) \in HighAddresses /\ Wire(Byte(s, c)) = Byte(s, c)
      BY <2>1 DEF OnWires, Parts
    <2>4. v[Byte(s, c)] = Byte(s, c)
      BY <2>1, <2>3 DEF HasCopied
    <2>5. QED
      BY <2>1, <2>2, <2>4
  <1>3. ASSUME NEW a \in HighAddresses, ~\E i \in is : Byte(d, i) = Wire(a) PROVE w[a] = v[a]
    BY <1>1, <1>3 DEF Copied
  <1> HIDE DEF w
  <1>4. ASSUME NEW a \in HighAddresses
        PROVE  IF \E i \in done \union is : Byte(d, i) = Wire(a)
               THEN \E i \in done \union is : Byte(d, i) = Wire(a) /\ w[a] = Byte(s, i)
               ELSE w[a] = Wire(a)
    <2>1. CASE \E i \in is : Byte(d, i) = Wire(a)
      BY <1>2, <2>1, Zenon
    <2>2. CASE ~\E i \in is : Byte(d, i) = Wire(a)
      <3>1. w[a] = v[a]
        BY <1>3, <2>2, Zenon
      <3>2. QED
        BY <2>2, <3>1 DEF HasCopied
    <2>3. QED
      BY <2>1, <2>2
  <1>5. QED
    BY <1>1, <1>4 DEF HasCopied, w

Turns(moved, m, d, s, parts) ==
  /\ moved[0] = m
  /\ \A k \in 1..Len(parts) : moved[k] = Copied(moved[k - 1], d, s, parts[k])
  /\ CopiedInTurn(m, d, s, parts) = moved[Len(parts)]

LEMMA CopiedInTurnDef ==
  ASSUME NEW m \in Memories, NEW d, NEW s, NEW n, OnWires(s, n),
         NEW parts \in Seq(Parts(n))
  PROVE  \E moved : Turns(moved, m, d, s, parts)
  <1> DEFINE Part == Parts(n)
             step == [v \in Memories |-> [p \in Part |-> Copied(v, d, s, p)]]
             Good(g) == g = [k \in 0..Len(parts) |->
                               IF k = 0 THEN m ELSE Copied(g[k - 1], d, s, parts[k])]
             r == Reader(step, m, parts)
  <1>1. step \in [Memories -> [Part -> Memories]]
    <2>1. \A v \in Memories : [p \in Part |-> Copied(v, d, s, p)] \in [Part -> Memories]
      BY CopiedType
    <2>2. QED
      BY <2>1
  <1>2. Reads(Memories, Part, m, step)
    <2> HIDE DEF step, Part
    <2>1. QED
      BY <1>1 DEF Reads
  <1>3. /\ r[0] = m /\ \A k \in 1..Len(parts) : r[k] = step[r[k - 1]][parts[k]]
        /\ \A k \in 0..Len(parts) : r[k] \in Memories
    <2> HIDE DEF step, Part
    <2>1. Reads(Memories, Part, m, step) /\ parts \in Seq(Part)
      BY <1>2 DEF Part
    <2>2. QED
      BY ONLY <2>1, ReaderDef
  <1>4. \A k \in 1..Len(parts) : r[k] = Copied(r[k - 1], d, s, parts[k])
    <2> SUFFICES ASSUME NEW k \in 1..Len(parts) PROVE r[k] = Copied(r[k - 1], d, s, parts[k])
      OBVIOUS
    <2>1. k - 1 \in 0..Len(parts) /\ parts[k] \in Part
      OBVIOUS
    <2> HIDE DEF r
    <2>2. QED
      BY <1>3, <2>1
  <1>5. Good([k \in 0..Len(parts) |-> r[k]])
    <2> DEFINE g == [k \in 0..Len(parts) |-> r[k]]
    <2> HIDE DEF r
    <2>1. \A k \in 1..Len(parts) : k - 1 \in 0..Len(parts) /\ g[k - 1] = r[k - 1]
      OBVIOUS
    <2>2. \A k \in 0..Len(parts) : k # 0 => k \in 1..Len(parts)
      OBVIOUS
    <2>3. ASSUME NEW k \in 0..Len(parts)
          PROVE  r[k] = IF k = 0 THEN m ELSE Copied(g[k - 1], d, s, parts[k])
      BY <1>3, <1>4, <2>1, <2>2
    <2> DEFINE h == [k \in 0..Len(parts) |-> IF k = 0 THEN m ELSE Copied(g[k - 1], d, s, parts[k])]
    <2>4. g = h
      <3>1. \A k \in 0..Len(parts) : g[k] = h[k]
        BY <2>3
      <3>2. QED
        BY <3>1
    <2>5. QED
      BY <2>4
  <1> DEFINE q == CHOOSE g : Good(g)
  <1>6. Good(q)
    <2> HIDE DEF Good, r
    <2>1. QED
      BY <1>5
  <1>7. q[0] = m /\ \A k \in 1..Len(parts) : q[k] = Copied(q[k - 1], d, s, parts[k])
    <2> HIDE DEF q
    <2>1. 0 \in 0..Len(parts) /\ \A k \in 1..Len(parts) : k \in 0..Len(parts) /\ k # 0
      OBVIOUS
    <2>2. \A k \in 0..Len(parts) : q[k] = IF k = 0 THEN m ELSE Copied(q[k - 1], d, s, parts[k])
      BY <1>6, Zenon
    <2>3. QED
      BY <2>1, <2>2
  <1>8. CopiedInTurn(m, d, s, parts) = q[Len(parts)]
    BY DEF CopiedInTurn
  <1>9. QED
    <2> HIDE DEF q
    <2>1. QED
      BY <1>7, <1>8 DEF Turns

LEMMA InTurn ==
  ASSUME NEW m, NEW d, NEW s, NEW n, OnWires(s, n), NEW parts \in Seq(Parts(n)),
         NEW done, done[0] = {}, HasCopied(m, d, s, {}),
         \A k \in 1..Len(parts) :
           /\ done[k - 1] \in Parts(n) /\ done[k] = done[k - 1] \union parts[k]
           /\ \A i \in parts[k] : \A j \in done[k - 1] : Byte(d, j) # Byte(s, i)
  PROVE  HasCopied(CopiedInTurn(m, d, s, parts), d, s, done[Len(parts)])
  <1>1. m \in Memories /\ Len(parts) \in Nat
    BY DEF HasCopied
  <1>2. PICK moved : Turns(moved, m, d, s, parts)
    <2>1. m \in Memories /\ OnWires(s, n) /\ parts \in Seq(Parts(n))
      BY <1>1
    <2>2. QED
      BY ONLY <2>1, CopiedInTurnDef
  <1> DEFINE S == {k \in Int : HasCopied(moved[k], d, s, done[k])}
  <1>3. 0 \in S
    <2>1. moved[0] = m /\ done[0] = {} /\ HasCopied(m, d, s, {})
      BY <1>2 DEF Turns
    <2>2. HasCopied(moved[0], d, s, done[0])
      BY <2>1, Zenon
    <2>3. QED
      BY ONLY <2>2 DEF S
  <1>4. ASSUME NEW k \in 0..Len(parts) - 1, k \in S PROVE k + 1 \in S
    <2>1. k + 1 \in 1..Len(parts) /\ (k + 1) - 1 = k
      BY <1>1
    <2>2. parts[k + 1] \in Parts(n)
      BY <2>1
    <2>3. /\ done[k] \in Parts(n) /\ done[k + 1] = done[k] \union parts[k + 1]
          /\ \A i \in parts[k + 1] : \A j \in done[k] : Byte(d, j) # Byte(s, i)
          /\ moved[k + 1] = Copied(moved[k], d, s, parts[k + 1])
      BY <1>2, <2>1 DEF Turns
    <2>4. HasCopied(moved[k], d, s, done[k])
      BY <1>4
    <2>5. HasCopied(Copied(moved[k], d, s, parts[k + 1]), d, s, done[k] \union parts[k + 1])
      <3> DEFINE v == moved[k]
                 e == done[k]
                 p == parts[k + 1]
      <3>1. /\ e \in Parts(n) /\ p \in Parts(n) /\ OnWires(s, n)
            /\ \A i \in p : \A j \in e : Byte(d, j) # Byte(s, i)
            /\ HasCopied(v, d, s, e)
        BY <2>2, <2>3, <2>4
      <3> HIDE DEF v, e, p
      <3>2. HasCopied(Copied(v, d, s, p), d, s, e \union p)
        BY <3>1, CopiedOn
      <3>3. QED
        BY <3>2 DEF v, e, p
    <2>6. HasCopied(moved[k + 1], d, s, done[k + 1]) /\ k + 1 \in Int
      BY <2>1, <2>3, <2>5
    <2>7. QED
      BY ONLY <2>6 DEF S
  <1>5. \A k \in 0..Len(parts) : k \in S
    <2> HIDE DEF S
    <2>1. 0 \in Int /\ Len(parts) \in Int
      BY <1>1
    <2>2. QED
      BY <1>3, <1>4, <2>1, IntervalClosed
  <1>6. Len(parts) \in 0..Len(parts)
    BY <1>1
  <1>7. HasCopied(moved[Len(parts)], d, s, done[Len(parts)])
    BY <1>5, <1>6
  <1>8. QED
    BY <1>2, <1>7, Zenon DEF Turns

-----------------------------------------------------------------------------
(* FarMemory: the direction of a copy.                                     *)

LEMMA Least ==
  /\ SegStep \in Nat \ {0} /\ OffsetWidth \in Nat \ {0} /\ Megabyte \in Nat
  /\ 2 * OffsetWidth <= Megabyte
  BY FarAssumption

LEMMA TimesGrows ==
  ASSUME NEW a \in Nat, NEW b \in Nat, a <= b, NEW c \in Nat
  PROVE  a * c \in Nat /\ b * c \in Nat /\ a * c <= b * c
  <1>1. b - a \in Nat /\ b * c = a * c + (b - a) * c
    OBVIOUS
  <1>2. \A x, y \in Nat : x * y \in Nat
    OBVIOUS
  <1>3. (b - a) * c \in Nat /\ a * c \in Nat /\ b * c \in Nat
    BY <1>1, <1>2
  <1>4. QED
    BY <1>1, <1>3

\* A buffer of n bytes begins in the megabyte and stays below the highest address.
LEMMA LinearRange ==
  ASSUME NEW p \in Pointers, NEW n \in Nat, p.off + n <= OffsetWidth
  PROVE  /\ p.off \in Nat /\ p.seg \in Nat /\ LinearAddr(p) \in Nat
         /\ LinearAddr(p) + n <= Megabyte - SegStep + OffsetWidth
         /\ LinearAddr(p) = p.seg * SegStep + p.off /\ p.seg * SegStep \in Nat
  <1> DEFINE q == Megabyte \div SegStep
  <1>1. p.seg \in 0..q - 1 /\ p.off \in 0..OffsetWidth - 1 /\ q \in Int
    <2>1. p \in [seg : 0..q - 1, off : 0..OffsetWidth - 1]
      BY FarAssumption
    <2>2. QED
      BY <2>1, Least
  <1>2. Megabyte = SegStep * q
    <2>1. Megabyte % SegStep = 0
      BY FarAssumption
    <2>2. QED
      BY <2>1, Least
  <1> HIDE DEF q
  <1>3. p.seg \in Nat /\ q - 1 \in Nat /\ p.seg <= q - 1 /\ SegStep \in Nat
    BY <1>1, Least
  <1>4. p.seg * SegStep \in Nat /\ p.seg * SegStep <= (q - 1) * SegStep
    BY <1>3, TimesGrows
  <1>5. (q - 1) * SegStep = Megabyte - SegStep
    <2>1. q \in Int /\ SegStep \in Int /\ SegStep * q = q * SegStep
      BY <1>1, Least
    <2>2. (q - 1) * SegStep = q * SegStep - SegStep
      BY <2>1
    <2>3. QED
      BY <1>2, <2>1, <2>2
  <1>6. QED
    BY <1>1, <1>3, <1>4, <1>5, Least DEF LinearAddr

\* Address a is its own on the wires.
AsWired(a) == a20 = TRUE \/ a < Megabyte

LEMMA WireIs ==
  ASSUME NEW a \in 0..2 * Megabyte - 1
  PROVE  /\ AsWired(a) => Wire(a) = a
         /\ ~AsWired(a) => Wire(a) = a - Megabyte
  <1>1. a \in Int /\ Megabyte \in Nat \ {0} /\ a >= 0 /\ a < 2 * Megabyte
    BY Least
  <1>2. CASE a < Megabyte
    <2>1. a % Megabyte = a
      BY <1>1, <1>2
    <2>2. QED
      BY <1>2, <2>1 DEF Wire, AsWired
  <1>3. CASE ~(a < Megabyte)
    <2>1. a % Megabyte = a - Megabyte
      BY <1>1, <1>3
    <2>2. QED
      BY <1>3, <2>1 DEF Wire, AsWired
  <1>4. QED
    BY <1>2, <1>3

\* Where each byte of a buffer is.
LEMMA ByteIs ==
  ASSUME NEW p \in Pointers, NEW n \in Nat, p.off + n <= OffsetWidth, NEW i \in 0..n - 1
  PROVE  /\ AsWired(LinearAddr(p) + i) => Byte(p, i) = LinearAddr(p) + i
         /\ ~AsWired(LinearAddr(p) + i) => Byte(p, i) = LinearAddr(p) + i - Megabyte
         /\ LinearAddr(p) + i \in 0..Megabyte + OffsetWidth - 1
         /\ Byte(p, i) \in HighAddresses /\ Wire(Byte(p, i)) = Byte(p, i)
  <1> DEFINE a == LinearAddr(p) + i
             b == Wire(a)
  <1>1. LinearAddr(p) \in Nat /\ LinearAddr(p) + n <= Megabyte - SegStep + OffsetWidth
    BY LinearRange
  <1>2. Byte(p, i) = b
    BY DEF Byte
  <1>3. /\ a \in 0..2 * Megabyte - 1 /\ a \in 0..Megabyte + OffsetWidth - 1
        /\ a <= Megabyte - SegStep + OffsetWidth - 1
    BY <1>1, Least
  <1> HIDE DEF a
  <1>4. (AsWired(a) => b = a) /\ (~AsWired(a) => b = a - Megabyte)
    BY <1>3, WireIs
  <1> HIDE DEF b
  <1>5. b \in 0..Megabyte - SegStep + OffsetWidth - 1 /\ b \in 0..2 * Megabyte - 1 /\ AsWired(b)
    <2>1. CASE AsWired(a)
      BY <1>3, <1>4, <2>1, Least
    <2>2. CASE ~AsWired(a)
      <3>1. a >= Megabyte /\ b = a - Megabyte
        BY <1>3, <1>4, <2>2, Least DEF AsWired
      <3>2. b < Megabyte
        BY <1>3, <3>1, Least
      <3>3. QED
        BY <1>3, <3>1, <3>2, Least DEF AsWired
    <2>3. QED
      BY <2>1, <2>2
  <1>6. Wire(b) = b
    BY <1>5, WireIs
  <1>7. b \in HighAddresses
    BY <1>5 DEF HighAddresses
  <1>8. QED
    <2>1. /\ AsWired(a) => Byte(p, i) = a
          /\ ~AsWired(a) => Byte(p, i) = a - Megabyte
          /\ a \in 0..Megabyte + OffsetWidth - 1
          /\ Byte(p, i) \in HighAddresses /\ Wire(Byte(p, i)) = Byte(p, i)
      BY <1>2, <1>3, <1>4, <1>6, <1>7
    <2>2. a = LinearAddr(p) + i /\ LinearAddr(p) \in Nat /\ i \in Int /\ Megabyte \in Int
      BY <1>1, Least DEF a
    <2>3. QED
      BY <2>1, <2>2

LEMMA Remainder ==
  ASSUME NEW a \in Nat, a < 2 * Megabyte
  PROVE  a % Megabyte = IF a < Megabyte THEN a ELSE a - Megabyte
  BY Least

\* Two buffers that _fmemmove may be given.
Movable(d, s, n) ==
  /\ d \in Pointers /\ s \in Pointers /\ n \in Nat /\ d.off + n <= OffsetWidth
  /\ s.off + n <= OffsetWidth /\ ~Straddles(s, n)

LEMMA MovableIs ==
  ASSUME NEW d, NEW s, NEW n, Movable(d, s, n)
  PROVE  LET D == LinearAddr(d)
             S == LinearAddr(s)
         IN  /\ n \in Nat /\ D \in Nat /\ S \in Nat /\ d.off \in Nat /\ s.off \in Nat
             /\ D + n < Megabyte + OffsetWidth /\ S + n < Megabyte + OffsetWidth
             /\ n <= OffsetWidth /\ d.off + n <= OffsetWidth /\ s.off + n <= OffsetWidth
             /\ (a20 = TRUE \/ S >= Megabyte \/ S + n <= Megabyte)
             /\ (d.seg = s.seg => D - S = d.off - s.off)
             /\ D < 2 * Megabyte /\ S < 2 * Megabyte
             /\ (PastMegabyte(S) <=> S >= Megabyte) /\ (PastMegabyte(D) <=> D >= Megabyte)
  <1>1. /\ d \in Pointers /\ s \in Pointers /\ n \in Nat /\ d.off + n <= OffsetWidth
        /\ s.off + n <= OffsetWidth /\ ~Straddles(s, n)
    BY DEF Movable
  <1>2. /\ LinearAddr(d) \in Nat /\ d.off \in Nat /\ LinearAddr(d) = d.seg * SegStep + d.off
        /\ LinearAddr(d) + n <= Megabyte - SegStep + OffsetWidth /\ d.seg * SegStep \in Nat
    BY <1>1, LinearRange
  <1>3. /\ LinearAddr(s) \in Nat /\ s.off \in Nat /\ LinearAddr(s) = s.seg * SegStep + s.off
        /\ LinearAddr(s) + n <= Megabyte - SegStep + OffsetWidth /\ s.seg * SegStep \in Nat
    BY <1>1, LinearRange
  <1>4. d.seg = s.seg => LinearAddr(d) - LinearAddr(s) = d.off - s.off
    BY <1>2, <1>3
  <1>5. a20 = TRUE \/ LinearAddr(s) >= Megabyte \/ LinearAddr(s) + n <= Megabyte
    BY <1>1, <1>3, Least DEF Straddles
  <1>6. QED
    BY <1>1, <1>2, <1>3, <1>4, <1>5, Least DEF PastMegabyte

\* A forward copy reads each byte before it is overwritten.
LEMMA ForwardReadsFirst ==
  ASSUME NEW d, NEW s, NEW n, Movable(d, s, n), ~GoesBackward(d, s, n),
         NEW i \in 0..n - 1, NEW j \in 0..n - 1, j < i
  PROVE  Byte(d, j) # Byte(s, i)
  <1> SUFFICES ASSUME Byte(d, j) = Byte(s, i) PROVE FALSE
    OBVIOUS
  <1> DEFINE D == LinearAddr(d)
             S == LinearAddr(s)
  <1>1. /\ n \in Nat /\ D \in Nat /\ S \in Nat /\ d.off \in Nat /\ s.off \in Nat
        /\ D + n < Megabyte + OffsetWidth /\ S + n < Megabyte + OffsetWidth
        /\ n <= OffsetWidth /\ d.off + n <= OffsetWidth /\ s.off + n <= OffsetWidth
        /\ (a20 = TRUE \/ S >= Megabyte \/ S + n <= Megabyte)
        /\ (d.seg = s.seg => D - S = d.off - s.off)
        /\ D < 2 * Megabyte /\ S < 2 * Megabyte
        /\ (PastMegabyte(S) <=> S >= Megabyte) /\ (PastMegabyte(D) <=> D >= Megabyte)
    BY MovableIs
  <1>2. /\ (AsWired(D + j) => Byte(d, j) = D + j) /\ (~AsWired(D + j) => Byte(d, j) = D + j - Megabyte)
        /\ (AsWired(S + i) => Byte(s, i) = S + i) /\ (~AsWired(S + i) => Byte(s, i) = S + i - Megabyte)
    BY ByteIs DEF Movable
  <1>3. /\ D % Megabyte = IF D < Megabyte THEN D ELSE D - Megabyte
        /\ S % Megabyte = IF S < Megabyte THEN S ELSE S - Megabyte
    BY <1>1, Remainder
  <1>4. IF d.seg = s.seg THEN ~(d.off > s.off)
        ELSE /\ ~Precedes(S, D, n)
             /\ PastMegabyte(S) \/ PastMegabyte(D) => ~Precedes(S % Megabyte, D % Megabyte, n)
    BY DEF GoesBackward
  <1> HIDE DEF D, S
  <1>5. CASE D + j = S + i
    BY <1>1, <1>4, <1>5, Least DEF Precedes
  <1>6. CASE ~AsWired(S + i) /\ AsWired(D + j) /\ S + i = D + j + Megabyte
    <2>1. S >= Megabyte /\ D < Megabyte
      BY <1>1, <1>6, Least DEF AsWired
    <2>2. S - Megabyte < D /\ S - Megabyte + n > D
      BY <1>1, <1>6, Least DEF AsWired
    <2>3. d.seg # s.seg
      BY <1>1, <1>6, Least DEF AsWired
    <2>4. QED
      BY <1>1, <1>3, <1>4, <2>1, <2>2, <2>3, Least DEF Precedes
  <1>7. CASE AsWired(S + i) /\ ~AsWired(D + j) /\ S + i + Megabyte = D + j
    <2>1. D >= Megabyte /\ S < Megabyte
      BY <1>1, <1>7, Least DEF AsWired
    <2>2. S < D - Megabyte /\ S + n > D - Megabyte
      BY <1>1, <1>7, Least DEF AsWired
    <2>3. d.seg # s.seg
      BY <1>1, <1>7, Least DEF AsWired
    <2>4. QED
      BY <1>1, <1>3, <1>4, <2>1, <2>2, <2>3, Least DEF Precedes
  <1>8. QED
    BY <1>1, <1>2, <1>5, <1>6, <1>7, Least

\* And so does a backward copy.
LEMMA BackwardReadsFirst ==
  ASSUME NEW d, NEW s, NEW n, Movable(d, s, n), GoesBackward(d, s, n),
         NEW i \in 0..n - 1, NEW j \in 0..n - 1, i < j
  PROVE  Byte(d, j) # Byte(s, i)
  <1> SUFFICES ASSUME Byte(d, j) = Byte(s, i) PROVE FALSE
    OBVIOUS
  <1> DEFINE D == LinearAddr(d)
             S == LinearAddr(s)
  <1>1. /\ n \in Nat /\ D \in Nat /\ S \in Nat /\ d.off \in Nat /\ s.off \in Nat
        /\ D + n < Megabyte + OffsetWidth /\ S + n < Megabyte + OffsetWidth
        /\ n <= OffsetWidth /\ d.off + n <= OffsetWidth /\ s.off + n <= OffsetWidth
        /\ (a20 = TRUE \/ S >= Megabyte \/ S + n <= Megabyte)
        /\ (d.seg = s.seg => D - S = d.off - s.off)
        /\ D < 2 * Megabyte /\ S < 2 * Megabyte
        /\ (PastMegabyte(S) <=> S >= Megabyte) /\ (PastMegabyte(D) <=> D >= Megabyte)
    BY MovableIs
  <1>2. /\ (AsWired(D + j) => Byte(d, j) = D + j) /\ (~AsWired(D + j) => Byte(d, j) = D + j - Megabyte)
        /\ (AsWired(S + i) => Byte(s, i) = S + i) /\ (~AsWired(S + i) => Byte(s, i) = S + i - Megabyte)
    BY ByteIs DEF Movable
  <1>3. /\ D % Megabyte = IF D < Megabyte THEN D ELSE D - Megabyte
        /\ S % Megabyte = IF S < Megabyte THEN S ELSE S - Megabyte
    BY <1>1, Remainder
  <1>4. IF d.seg = s.seg THEN d.off > s.off
        ELSE \/ Precedes(S, D, n)
             \/ /\ PastMegabyte(S) \/ PastMegabyte(D)
                /\ Precedes(S % Megabyte, D % Megabyte, n)
    BY DEF GoesBackward
  <1> HIDE DEF D, S
  <1>5. CASE D + j = S + i
    BY <1>1, <1>3, <1>4, <1>5, Least DEF Precedes
  <1>6. CASE ~AsWired(S + i) /\ AsWired(D + j) /\ S + i = D + j + Megabyte
    BY <1>1, <1>3, <1>4, <1>6, Least DEF Precedes, AsWired
  <1>7. CASE AsWired(S + i) /\ ~AsWired(D + j) /\ S + i + Megabyte = D + j
    BY <1>1, <1>3, <1>4, <1>7, Least DEF Precedes, AsWired
  <1>8. QED
    BY <1>1, <1>2, <1>5, <1>6, <1>7, Least

-----------------------------------------------------------------------------
(* FarMemory: each call does what it says.                                 *)

\* The number of words in n bytes, with the odd byte.
LEMMA WordsIn ==
  ASSUME NEW n \in Nat
  PROVE  /\ (n + 1) \div 2 \in Nat /\ 2 * ((n + 1) \div 2) >= n
         /\ 2 * ((n + 1) \div 2) <= n + 1
  OBVIOUS

LEMMA BufferOnWires ==
  ASSUME NEW p \in Pointers, NEW n \in Nat, p.off + n <= OffsetWidth
  PROVE  OnWires(p, n)
  BY ByteIs DEF OnWires

LEMMA ForwardCopies ==
  ASSUME NEW m, NEW d, NEW s, NEW n, Movable(d, s, n), ~GoesBackward(d, s, n),
         HasCopied(m, d, s, {})
  PROVE  HasCopied(Forward(m, d, s, n), d, s, 0..n - 1)
  <1> DEFINE K == (n + 1) \div 2
             parts == [k \in 1..K |-> {2 * k - 2, 2 * k - 1} \intersect 0..n - 1]
             done == [k \in 0..K |-> {i \in 0..n - 1 : i < 2 * k}]
  <1>1. n \in Nat /\ OnWires(s, n)
    BY BufferOnWires DEF Movable
  <1>2. K \in Nat /\ 2 * K >= n
    BY <1>1, WordsIn
  <1>3. Forward(m, d, s, n) = CopiedInTurn(m, d, s, parts)
    BY DEF Forward
  <1> HIDE DEF K
  <1>4. parts \in Seq(Parts(n)) /\ Len(parts) = K
    <2>1. \A k \in 1..K : parts[k] \in Parts(n)
      BY DEF Parts
    <2>2. DOMAIN parts = 1..K
      OBVIOUS
    <2>3. parts \in [1..K -> Parts(n)]
      BY <2>1
    <2> HIDE DEF parts
    <2>4. QED
      BY <1>2, <2>2, <2>3
  <1>5. done[0] = {} /\ done[K] = 0..n - 1
    <2>1. 0 \in 0..K /\ K \in 0..K
      BY <1>2
    <2>2. \A i \in 0..n - 1 : ~(i < 2 * 0) /\ i < 2 * K
      BY <1>1, <1>2
    <2>3. QED
      BY <2>1, <2>2
  <1>6. ASSUME NEW k \in 1..K
        PROVE  /\ done[k - 1] \in Parts(n) /\ done[k] = done[k - 1] \union parts[k]
               /\ \A i \in parts[k] : \A j \in done[k - 1] : Byte(d, j) # Byte(s, i)
    <2>1. k - 1 \in 0..K /\ k \in 0..K /\ k \in Nat
      BY <1>2
    <2>2. /\ done[k - 1] = {i \in 0..n - 1 : i < 2 * (k - 1)}
          /\ done[k] = {i \in 0..n - 1 : i < 2 * k}
          /\ parts[k] = {2 * k - 2, 2 * k - 1} \intersect 0..n - 1
      BY <2>1
    <2> HIDE DEF done, parts
    <2>3. done[k] = done[k - 1] \union parts[k]
      <3>1. \A i \in 0..n - 1 : i < 2 * k <=> i < 2 * (k - 1) \/ i = 2 * k - 2 \/ i = 2 * k - 1
        BY <1>1, <2>1
      <3>2. QED
        BY <2>2, <3>1
    <2>4. ASSUME NEW i \in parts[k], NEW j \in done[k - 1] PROVE Byte(d, j) # Byte(s, i)
      <3>1. i \in 0..n - 1 /\ j \in 0..n - 1 /\ j < i
        BY <1>1, <2>1, <2>2
      <3>2. QED
        BY <3>1, ForwardReadsFirst
    <2>5. QED
      BY <2>2, <2>3, <2>4 DEF Parts
  <1> HIDE DEF parts, done
  <1>7. HasCopied(CopiedInTurn(m, d, s, parts), d, s, done[Len(parts)])
    <2>1. /\ OnWires(s, n) /\ parts \in Seq(Parts(n)) /\ done[0] = {} /\ HasCopied(m, d, s, {})
          /\ \A k \in 1..Len(parts) :
               /\ done[k - 1] \in Parts(n) /\ done[k] = done[k - 1] \union parts[k]
               /\ \A i \in parts[k] : \A j \in done[k - 1] : Byte(d, j) # Byte(s, i)
      BY <1>1, <1>4, <1>5, <1>6
    <2>2. QED
      BY ONLY <2>1, InTurn
  <1>8. QED
    BY <1>3, <1>4, <1>5, <1>7

LEMMA BackwardCopies ==
  ASSUME NEW m, NEW d, NEW s, NEW n, Movable(d, s, n), GoesBackward(d, s, n),
         HasCopied(m, d, s, {})
  PROVE  HasCopied(Backward(m, d, s, n), d, s, 0..n - 1)
  <1> DEFINE K == (n + 1) \div 2
             parts == [k \in 1..K |-> {n - 2 * k, n - 2 * k + 1} \intersect 0..n - 1]
             done == [k \in 0..K |-> {i \in 0..n - 1 : i >= n - 2 * k}]
  <1>1. n \in Nat /\ OnWires(s, n)
    BY BufferOnWires DEF Movable
  <1>2. K \in Nat /\ 2 * K >= n
    BY <1>1, WordsIn
  <1>3. Backward(m, d, s, n) = CopiedInTurn(m, d, s, parts)
    BY DEF Backward
  <1> HIDE DEF K
  <1>4. parts \in Seq(Parts(n)) /\ Len(parts) = K
    <2>1. \A k \in 1..K : parts[k] \in Parts(n)
      BY DEF Parts
    <2>2. DOMAIN parts = 1..K
      OBVIOUS
    <2>3. parts \in [1..K -> Parts(n)]
      BY <2>1
    <2> HIDE DEF parts
    <2>4. QED
      BY <1>2, <2>2, <2>3
  <1>5. done[0] = {} /\ done[K] = 0..n - 1
    <2>1. 0 \in 0..K /\ K \in 0..K
      BY <1>2
    <2>2. \A i \in 0..n - 1 : ~(i >= n - 2 * 0) /\ i >= n - 2 * K
      BY <1>1, <1>2
    <2>3. QED
      BY <2>1, <2>2
  <1>6. ASSUME NEW k \in 1..K
        PROVE  /\ done[k - 1] \in Parts(n) /\ done[k] = done[k - 1] \union parts[k]
               /\ \A i \in parts[k] : \A j \in done[k - 1] : Byte(d, j) # Byte(s, i)
    <2>1. k - 1 \in 0..K /\ k \in 0..K /\ k \in Nat
      BY <1>2
    <2>2. /\ done[k - 1] = {i \in 0..n - 1 : i >= n - 2 * (k - 1)}
          /\ done[k] = {i \in 0..n - 1 : i >= n - 2 * k}
          /\ parts[k] = {n - 2 * k, n - 2 * k + 1} \intersect 0..n - 1
      BY <2>1
    <2> HIDE DEF done, parts
    <2>3. done[k] = done[k - 1] \union parts[k]
      <3>1. \A i \in 0..n - 1 :
              i >= n - 2 * k <=> i >= n - 2 * (k - 1) \/ i = n - 2 * k \/ i = n - 2 * k + 1
        BY <1>1, <2>1
      <3>2. QED
        BY <2>2, <3>1
    <2>4. ASSUME NEW i \in parts[k], NEW j \in done[k - 1] PROVE Byte(d, j) # Byte(s, i)
      <3>1. i \in 0..n - 1 /\ j \in 0..n - 1 /\ i < j
        BY <1>1, <2>1, <2>2
      <3>2. QED
        BY <3>1, BackwardReadsFirst
    <2>5. QED
      BY <2>2, <2>3, <2>4 DEF Parts
  <1> HIDE DEF parts, done
  <1>7. HasCopied(CopiedInTurn(m, d, s, parts), d, s, done[Len(parts)])
    <2>1. /\ OnWires(s, n) /\ parts \in Seq(Parts(n)) /\ done[0] = {} /\ HasCopied(m, d, s, {})
          /\ \A k \in 1..Len(parts) :
               /\ done[k - 1] \in Parts(n) /\ done[k] = done[k - 1] \union parts[k]
               /\ \A i \in parts[k] : \A j \in done[k - 1] : Byte(d, j) # Byte(s, i)
      BY <1>1, <1>4, <1>5, <1>6
    <2>2. QED
      BY ONLY <2>1, InTurn
  <1>8. QED
    BY <1>3, <1>4, <1>5, <1>7

\* The characters, and what differs between two texts.
FarChars == {"a", "A", "b", "B"}

LEMMA LowerCodes ==
  /\ ToLower["nul"] = 0 /\ \A c \in FarChars : ToLower[c] \in {97, 98}
  BY DEF ToLower, FarChars

LEMMA Comparison ==
  ASSUME NEW s \in Seq(FarChars), NEW t \in Seq(FarChars), StrICmp, far_job.s1 = s, far_job.s2 = t
  PROVE  order' = 0 <=> Lower(s) = Lower(t)
  <1> DEFINE Difference(i) == ToLower[CharAt(s, i)] - ToLower[CharAt(t, i)]
             stop == {i \in 1..Len(s) + 1 : Difference(i) # 0 \/ CharAt(s, i) = "nul"}
             c == CHOOSE i \in stop : \A j \in stop : i <= j
  <1>1. order' = Difference(c)
    BY DEF StrICmp
  <1>2. Len(s) \in Nat /\ Len(t) \in Nat
    OBVIOUS
  <1>3. /\ \A i \in 1..Len(s) : s[i] \in FarChars /\ CharAt(s, i) = s[i]
        /\ \A i \in 1..Len(t) : t[i] \in FarChars /\ CharAt(t, i) = t[i]
        /\ CharAt(s, Len(s) + 1) = "nul"
        /\ \A i \in Nat : i > Len(t) => CharAt(t, i) = "nul"
    BY <1>2 DEF CharAt
  <1>4. \A x \in FarChars : x # "nul"
    BY DEF FarChars
  <1>5. \A i \in Nat \ {0} : ToLower[CharAt(s, i)] \in Int /\ ToLower[CharAt(t, i)] \in Int
    <2>1. ASSUME NEW i \in Nat \ {0} PROVE CharAt(s, i) \in FarChars \union {"nul"}
      BY <1>2, <1>3 DEF CharAt
    <2>2. ASSUME NEW i \in Nat \ {0} PROVE CharAt(t, i) \in FarChars \union {"nul"}
      BY <1>2, <1>3 DEF CharAt
    <2>3. \A x \in FarChars \union {"nul"} : ToLower[x] \in Int
      BY LowerCodes
    <2>4. QED
      BY <2>1, <2>2, <2>3
  <1>6. c \in stop /\ \A j \in stop : c <= j
    <2>1. stop \subseteq Nat /\ stop # {}
      <3>1. Len(s) + 1 \in stop
        BY <1>2, <1>3
      <3>2. QED
        BY <1>2, <3>1
    <2> HIDE DEF stop
    <2>2. \E i \in stop : \A j \in stop : i <= j
      BY <2>1, SmallestNat
    <2>3. QED
      BY <2>2
  <1> HIDE DEF c
  <1>7. c \in 1..Len(s) + 1 /\ (Difference(c) # 0 \/ CharAt(s, c) = "nul")
    BY <1>6
  <1>8. \A i \in 1..Len(s) : i < c => Difference(i) = 0
    BY <1>2, <1>6, <1>7
  <1> HIDE DEF stop
  <1>9. ASSUME Difference(c) = 0 PROVE Lower(s) = Lower(t)
    <2>1. c = Len(s) + 1
      BY <1>2, <1>3, <1>4, <1>7, <1>9
    <2>2. ~(Len(t) > Len(s))
      <3> SUFFICES ASSUME Len(t) > Len(s) PROVE FALSE
        OBVIOUS
      <3>1. c \in 1..Len(t)
        BY <1>2, <2>1
      <3>2. ToLower[CharAt(t, c)] \in {97, 98} /\ ToLower[CharAt(s, c)] = 0
        BY <1>3, <2>1, <3>1, LowerCodes
      <3>3. QED
        BY <1>9, <3>2
    <2>3. ~(Len(t) < Len(s))
      <3> SUFFICES ASSUME Len(t) < Len(s) PROVE FALSE
        OBVIOUS
      <3>1. Len(t) + 1 \in 1..Len(s) /\ Len(t) + 1 < c /\ Len(t) + 1 \in Nat /\ Len(t) + 1 > Len(t)
        BY <1>2, <2>1
      <3>2. ToLower[CharAt(s, Len(t) + 1)] \in {97, 98} /\ ToLower[CharAt(t, Len(t) + 1)] = 0
        BY <1>3, <3>1, LowerCodes
      <3>3. Difference(Len(t) + 1) = 0
        BY <1>8, <3>1
      <3>4. QED
        BY <3>2, <3>3
    <2>4. Len(s) = Len(t)
      BY <1>2, <2>2, <2>3
    <2>5. ASSUME NEW i \in 1..Len(s) PROVE ToLower[s[i]] = ToLower[t[i]]
      <3>1. i < c /\ i \in 1..Len(t) /\ i \in Nat \ {0}
        BY <1>2, <2>1, <2>4
      <3>2. ToLower[CharAt(s, i)] - ToLower[CharAt(t, i)] = 0
        BY <1>8, <3>1
      <3>3. CharAt(s, i) = s[i] /\ CharAt(t, i) = t[i]
        BY <1>3, <3>1
      <3>4. QED
        BY <1>5, <3>1, <3>2, <3>3
    <2>6. QED
      BY <2>4, <2>5 DEF Lower
  <1>10. ASSUME Lower(s) = Lower(t) PROVE Difference(c) = 0
    <2>1. DOMAIN Lower(s) = 1..Len(s) /\ DOMAIN Lower(t) = 1..Len(t)
      BY DEF Lower
    <2>2. Len(s) = Len(t)
      <3>1. 1..Len(s) = 1..Len(t)
        BY <1>10, <2>1
      <3>2. QED
        BY <1>2, <3>1
    <2>3. \A i \in 1..Len(s) : ToLower[s[i]] = ToLower[t[i]]
      <3>1. \A i \in 1..Len(s) : Lower(s)[i] = ToLower[s[i]] /\ Lower(t)[i] = ToLower[t[i]]
        BY <2>2 DEF Lower
      <3>2. QED
        BY <1>10, <3>1
    <2>4. CASE c = Len(s) + 1
      <3>1. CharAt(s, c) = "nul" /\ CharAt(t, c) = "nul"
        BY <1>2, <1>3, <2>2, <2>4
      <3>2. QED
        BY <3>1, LowerCodes
    <2>5. CASE c \in 1..Len(s)
      <3>1. CharAt(s, c) = s[c] /\ CharAt(t, c) = t[c] /\ c \in Nat \ {0}
        BY <1>3, <2>2, <2>5
      <3>2. ToLower[CharAt(s, c)] = ToLower[CharAt(t, c)] /\ ToLower[CharAt(s, c)] \in Int
        BY <1>5, <2>3, <2>5, <3>1
      <3>3. QED
        BY <3>2
    <2>6. QED
      BY <1>2, <1>7, <2>4, <2>5
  <1>11. QED
    BY <1>1, <1>9, <1>10

-----------------------------------------------------------------------------
(* FarMemory: the theorem.                                                 *)

\* Before a call, the job is one that the program may give, and each byte is where
\* it is.
FarInv ==
  /\ far_pc \in {"move", "compare", "moved", "compared"} /\ a20 \in BOOLEAN
  /\ far_pc = "move" =>
       /\ far_job.dest \in Pointers /\ far_job.src \in Pointers /\ far_job.n \in Nat
       /\ far_job.dest.off + far_job.n <= OffsetWidth
       /\ far_job.src.off + far_job.n <= OffsetWidth
       /\ memory = [a \in HighAddresses |-> Wire(a)]
  /\ far_pc = "compare" => far_job.s1 \in Seq(FarChars) /\ far_job.s2 \in Seq(FarChars)
  /\ MoveIsCopy

LEMMA FarInvInit == FarInit => FarInv
  <1> SUFFICES ASSUME FarInit PROVE FarInv
    OBVIOUS
  <1>1. memory = [a \in HighAddresses |-> Wire(a)] /\ a20 \in BOOLEAN
    BY DEF FarInit, Wire
  <1>2. CASE far_pc = "move"
    <2>1. /\ far_job \in [dest : Pointers, src : Pointers, n : Lengths]
          /\ far_job.dest.off + far_job.n <= OffsetWidth
          /\ far_job.src.off + far_job.n <= OffsetWidth
      BY <1>2 DEF FarInit
    <2>2. Lengths \subseteq Nat
      BY FarAssumption
    <2>3. QED
      BY <1>1, <1>2, <2>1, <2>2 DEF FarInv, MoveIsCopy
  <1>3. CASE far_pc = "compare"
    <2>1. far_job \in [s1 : Strings, s2 : Strings]
      BY <1>3 DEF FarInit
    <2>2. \A x \in Strings : x \in Seq(FarChars)
      BY FarAssumption DEF FarChars
    <2>3. QED
      BY <1>1, <1>3, <2>1, <2>2 DEF FarInv, MoveIsCopy
  <1>4. QED
    BY <1>2, <1>3 DEF FarInit

\* memory is what it was at the start: nothing is copied yet.
LEMMA NothingCopied ==
  ASSUME memory = [a \in HighAddresses |-> Wire(a)], NEW d, NEW s
  PROVE  HasCopied(memory, d, s, {})
  <1>1. ASSUME NEW a \in HighAddresses PROVE Wire(a) \in Int
    BY <1>1, Least DEF HighAddresses, Wire
  <1>2. memory \in Memories
    BY <1>1 DEF Memories
  <1>3. QED
    BY <1>2 DEF HasCopied

LEMMA MoveCopies == ASSUME FarInv, FMemMove PROVE FarInv'
  <1> DEFINE d == far_job.dest
             s == far_job.src
             n == far_job.n
  <1>1. /\ far_pc = "move" /\ far_pc' = "moved" /\ far_job' = far_job /\ a20' = a20
        /\ memory' = IF n = 0 \/ d = s THEN memory
                     ELSE IF GoesBackward(d, s, n) THEN Backward(memory, d, s, n)
                     ELSE Forward(memory, d, s, n)
    BY DEF FMemMove
  <1>2. /\ d \in Pointers /\ s \in Pointers /\ n \in Nat /\ d.off + n <= OffsetWidth
        /\ s.off + n <= OffsetWidth /\ memory = [a \in HighAddresses |-> Wire(a)]
    BY <1>1 DEF FarInv
  <1>3. ASSUME ~Straddles(s, n) PROVE HasCopied(memory', d, s, 0..n - 1)
    <2>1. Movable(d, s, n) /\ HasCopied(memory, d, s, {})
      BY <1>2, <1>3, NothingCopied DEF Movable
    <2> HIDE DEF d, s, n
    <2>2. CASE n = 0
      <3>1. 0..n - 1 = {}
        BY <2>2
      <3>2. QED
        BY <1>1, <2>1, <2>2, <3>1
    <2>3. CASE d = s
      <3>1. memory' = memory
        BY <1>1, <2>3
      <3>2. ASSUME NEW a \in HighAddresses, NEW i \in 0..n - 1, Byte(d, i) = Wire(a)
            PROVE  memory[a] = Byte(s, i)
        BY <1>2, <2>3, <3>2
      <3>3. \A a \in HighAddresses : memory[a] = Wire(a)
        BY <1>2
      <3>4. QED
        BY <2>1, <3>1, <3>2, <3>3 DEF HasCopied
    <2>4. CASE n # 0 /\ d # s /\ GoesBackward(d, s, n)
      <3>1. memory' = Backward(memory, d, s, n)
        BY <1>1, <2>4
      <3>2. HasCopied(Backward(memory, d, s, n), d, s, 0..n - 1)
        BY <2>1, <2>4, BackwardCopies
      <3>3. QED
        BY <3>1, <3>2
    <2>5. CASE n # 0 /\ d # s /\ ~GoesBackward(d, s, n)
      <3>1. memory' = Forward(memory, d, s, n)
        BY <1>1, <2>5
      <3>2. HasCopied(Forward(memory, d, s, n), d, s, 0..n - 1)
        BY <2>1, <2>5, ForwardCopies
      <3>3. QED
        BY <3>1, <3>2
    <2>6. QED
      BY <2>2, <2>3, <2>4, <2>5
  <1>4. MoveIsCopy'
    <2>1. /\ \A p, k : Straddles(p, k)' = Straddles(p, k)
          /\ \A p, k : Byte(p, k)' = Byte(p, k)
          /\ \A a : Wire(a)' = Wire(a)
      BY <1>1 DEF Straddles, Byte, Wire
    <2>2. ASSUME ~Straddles(s, n), NEW a \in HighAddresses
          PROVE  IF \E i \in 0..n - 1 : Byte(d, i) = Wire(a)
                 THEN \E i \in 0..n - 1 : Byte(d, i) = Wire(a) /\ memory'[a] = Byte(s, i)
                 ELSE memory'[a] = Wire(a)
      BY <1>3, <2>2 DEF HasCopied
    <2>3. QED
      BY <1>1, <2>1, <2>2 DEF MoveIsCopy
  <1>5. QED
    BY <1>1, <1>4 DEF FarInv

LEMMA CompareTells == ASSUME FarInv, StrICmp PROVE FarInv'
  <1>1. far_pc = "compare" /\ far_pc' = "compared" /\ far_job' = far_job /\ a20' = a20
    BY DEF StrICmp
  <1>2. far_job.s1 \in Seq(FarChars) /\ far_job.s2 \in Seq(FarChars)
    BY <1>1 DEF FarInv
  <1>3. order' = 0 <=> Lower(far_job.s1) = Lower(far_job.s2)
    BY <1>2, Comparison
  <1>4. MoveIsCopy'
    BY <1>1, <1>3 DEF MoveIsCopy
  <1>5. QED
    BY <1>1, <1>4 DEF FarInv

\* Whichever segments and offsets two buffers are given by, whether they overlap, and
\* whether memory wraps: after _fmemmove the destination holds what the source held and
\* nothing else has changed.  _stricmp tells texts that differ by more than their case.
THEOREM MovesAreCopies == FarSpec => []MoveIsCopy
  <1>1. FarInv /\ [FarNext]_farVars => FarInv'
    <2> SUFFICES ASSUME FarInv, [FarNext]_farVars PROVE FarInv'
      OBVIOUS
    <2>1. CASE FMemMove
      BY <2>1, MoveCopies
    <2>2. CASE StrICmp
      BY <2>2, CompareTells
    <2>3. CASE UNCHANGED farVars
      BY <2>3 DEF FarInv, farVars, MoveIsCopy, Straddles, Byte, Wire
    <2>4. QED
      BY <2>1, <2>2, <2>3 DEF FarNext
  <1>2. FarInv => MoveIsCopy
    BY DEF FarInv
  <1>3. QED
    BY <1>1, <1>2, FarInvInit, PTL DEF FarSpec

-----------------------------------------------------------------------------
(* Conversions: powers and quotients.                                      *)

\* A power is the one before it, times a word.
LEMMA PowerIs == /\ Power[0] = 1
                 /\ \A i \in 0..7 : Power[i + 1] = W * Power[i]
                 /\ \A i \in 0..8 : Power[i] \in Nat \ {0}
  <1> DEFINE D == [i \in 1..8 |-> [v \in Nat |-> W * v]]
             Good(g) == g = [n \in 0..8 |-> IF n = 0 THEN 1 ELSE W * g[n - 1]]
  <1>1. W \in Nat /\ W > 1
    BY ConversionsAssumption
  <1>2. D \in Steps(0, 8, Nat)
    <2>1. \A v \in Nat : W * v \in Nat
      BY <1>1
    <2>2. D \in [1..8 -> [Nat -> Nat]]
      BY <2>1
    <2> HIDE DEF D
    <2>3. QED
      BY <2>2, StepsFrom0
  <1>3. PICK g : g \in Obeying(0, 8, Nat, 1, D)
    <2> HIDE DEF D, Good
    <2>1. 0 \in Int /\ 8 \in Int /\ 1 \in Nat
      OBVIOUS
    <2>2. QED
      BY <1>2, <2>1, RecursionDefines, Zenon
  <1>4. Good(g)
    <2>1. g \in [0..8 -> Nat] /\ g[0] = 1 /\ \A i \in 1..8 : g[i] = D[i][g[i - 1]]
      BY <1>3 DEF Obeying
    <2>2. \A i \in 1..8 : g[i - 1] \in Nat
      BY <2>1
    <2>3. \A i \in 1..8 : g[i] = W * g[i - 1]
      BY <2>1, <2>2
    <2> HIDE DEF D
    <2>4. QED
      BY <2>1, <2>3
  <1>5. Good(Power)
    <2>1. Power = CHOOSE f : Good(f)
      BY DEF Power
    <2> HIDE DEF Good
    <2>2. QED
      BY <1>4, <2>1
  <1>6. Power[0] = 1 /\ \A i \in 1..8 : Power[i] = W * Power[i - 1]
    <2>1. \A i \in 0..8 : Power[i] = IF i = 0 THEN 1 ELSE W * Power[i - 1]
      BY <1>5, Zenon
    <2>2. 0 \in 0..8 /\ \A i \in 1..8 : i \in 0..8 /\ i # 0
      OBVIOUS
    <2>3. QED
      BY <2>1, <2>2
  <1>7. \A i \in 0..7 : Power[i + 1] = W * Power[i]
    <2>1. \A i \in 0..7 : i + 1 \in 1..8 /\ (i + 1) - 1 = i
      OBVIOUS
    <2>2. QED
      BY <1>6, <2>1
  <1>8. \A i \in 0..8 : Power[i] \in Nat \ {0}
    <2> DEFINE P == Nat \ {0}
    <2>1. \A i \in 1..8 : Power[i - 1] \in P => Power[i] \in P
      <3>1. \A v \in P : W * v \in P
        BY <1>1
      <3>2. QED
        BY <1>6, <3>1
    <2>2. Power[0] \in P /\ 8 \in Nat
      BY <1>6
    <2> HIDE DEF P
    <2>3. \A i \in 0..8 : Power[i] \in P
      BY <2>1, <2>2, TypedFrom0, Zenon
    <2>4. QED
      BY <2>3 DEF P
  <1>9. QED
    BY <1>6, <1>7, <1>8

-----------------------------------------------------------------------------
\* Quotients.
LEMMA Euclid ==
  ASSUME NEW x \in Int, NEW b \in Nat, b > 0
  PROVE  /\ x \div b \in Int /\ x % b \in 0..b - 1 /\ x - b * (x \div b) = x % b
         /\ x >= 0 => x \div b >= 0
  OBVIOUS

\* A quotient and a remainder that are one are the only ones.
LEMMA QuotientIs ==
  ASSUME NEW x \in Int, NEW b \in Nat, b > 0, NEW q \in Int, NEW m \in 0..b - 1, x - b * q = m
  PROVE  x \div b = q /\ x % b = m
  <1>1. b * q + m = x
    OBVIOUS
  <1>2. (b * q + m) \div b = q /\ (b * q + m) % b = m
    OBVIOUS
  <1>3. QED
    BY <1>1, <1>2

\* A quotient of a quotient.
LEMMA QuotientTwice ==
  ASSUME NEW x \in Int, NEW a \in Nat, a > 0, NEW b \in Nat, b > 0
  PROVE  (x \div a) \div b = x \div (a * b)
  <1> DEFINE q == x \div a
             m == x % a
             p == q \div b
             n == q % b
             c == a * b
  <1>1. q \in Int /\ m \in 0..a - 1 /\ x - a * q = m
    BY Euclid
  <1>2. p \in Int /\ n \in 0..b - 1 /\ q - b * p = n
    BY <1>1, Euclid
  <1>3. c \in Nat /\ c > 0
    OBVIOUS
  <1> DEFINE r == a * n + m
  <1>4. r \in 0..c - 1
    <2>1. a * n >= 0 /\ a * n + a <= a * b
      <3>1. a * (b - 1 - n) >= 0 /\ a * n >= 0
        BY <1>2
      <3>2. a * (b - 1 - n) = a * b - a - a * n
        BY <1>2
      <3>3. QED
        BY <3>1, <3>2, <1>2
    <2>2. QED
      BY <1>1, <1>2, <2>1
  <1>5. x - c * p = r
    <2>1. c * p = a * (b * p)
      BY <1>2
    <2>2. a * q - a * (b * p) = a * n
      BY <1>1, <1>2
    <2>3. QED
      BY <1>1, <1>2, <2>1, <2>2
  <1>6. x \div c = p
    <2> HIDE DEF q, m, p, n, c, r
    <2>1. QED
      BY <1>2, <1>3, <1>4, <1>5, QuotientIs
  <1>7. QED
    BY <1>6

\* A word more or less of power on either side.
LEMMA PowersMultiply ==
  \A i \in 0..8 : \A j \in 0..8 - i : Power[i + j] = Power[i] * Power[j]
  <1> TAKE i \in 0..8
  <1> DEFINE S == {j \in Nat : j <= 8 - i => Power[i + j] = Power[i] * Power[j]}
  <1>1. 0 \in S
    <2>1. i + 0 = i /\ Power[i] * 1 = Power[i]
      BY PowerIs
    <2>2. QED
      BY <2>1, PowerIs
  <1>2. ASSUME NEW j \in Nat, j \in S PROVE j + 1 \in S
    <2> SUFFICES ASSUME j + 1 <= 8 - i PROVE Power[i + (j + 1)] = Power[i] * Power[j + 1]
      OBVIOUS
    <2>1. Power[i + j] = Power[i] * Power[j]
      BY <1>2
    <2>2. i + j \in 0..7 /\ j \in 0..7 /\ (i + j) + 1 = i + (j + 1)
      OBVIOUS
    <2>3. Power[(i + j) + 1] = W * Power[i + j] /\ Power[j + 1] = W * Power[j]
      BY <2>2, PowerIs
    <2>4. W \in Nat /\ Power[i] \in Nat /\ Power[j] \in Nat
      BY <2>2, PowerIs, ConversionsAssumption
    <2>5. W * (Power[i] * Power[j]) = Power[i] * (W * Power[j])
      BY <2>4
    <2>6. QED
      BY <2>1, <2>2, <2>3, <2>5
  <1>3. \A j \in Nat : j \in S
    <2> HIDE DEF S
    <2>1. QED
      BY <1>1, <1>2, NatClosed
  <1>4. QED
    BY <1>3

-----------------------------------------------------------------------------
(* Conversions: octets.                                                    *)

Quot(x, i) == x \div Power[i]

\* The numbers that are left of x when it is shifted by a word, and by another.
LEMMA QuotientsAre ==
  ASSUME NEW x \in Nat
  PROVE  /\ Quot(x, 0) = x
         /\ \A i \in 0..8 : Quot(x, i) \in Nat
         /\ \A i \in 0..7 : /\ Quot(x, i + 1) = Quot(x, i) \div W
                            /\ Word(x, i) \in 0..W - 1
                            /\ Quot(x, i) - W * Quot(x, i + 1) = Word(x, i)
         /\ \A i \in 0..8 : x < Power[i] => Quot(x, i) = 0
  <1>1. W \in Nat /\ W > 0
    BY ConversionsAssumption
  <1>2. \A i \in 0..8 : Power[i] \in Nat /\ Power[i] > 0
    BY PowerIs
  <1>3. Quot(x, 0) = x
    <2>1. x - 1 * x = 0 /\ 0 \in 0..1 - 1 /\ x \in Int
      OBVIOUS
    <2>2. x \div 1 = x
      BY <2>1, QuotientIs
    <2>3. QED
      BY <2>2, PowerIs DEF Quot
  <1>4. \A i \in 0..8 : Quot(x, i) \in Nat
    <2> TAKE i \in 0..8
    <2> DEFINE p == Power[i]
    <2>1. p \in Nat /\ p > 0
      BY <1>2
    <2> HIDE DEF p
    <2>2. x \div p \in Nat
      BY <2>1, Euclid
    <2>3. QED
      BY <2>2 DEF Quot, p
  <1>5. ASSUME NEW i \in 0..7
        PROVE  /\ Quot(x, i + 1) = Quot(x, i) \div W
               /\ Word(x, i) \in 0..W - 1
               /\ Quot(x, i) - W * Quot(x, i + 1) = Word(x, i)
    <2> DEFINE p == Power[i]
               q == x \div p
    <2>1. p \in Nat /\ p > 0 /\ x \in Int
      BY <1>2
    <2>2. Power[i + 1] = p * W
      <3>1. Power[i + 1] = W * p /\ W * p = p * W
        BY <2>1, <1>1, PowerIs
      <3>2. QED
        BY <3>1
    <2> HIDE DEF p
    <2>3. q \div W = x \div (p * W)
      BY <2>1, <1>1, QuotientTwice
    <2>4. q \in Int
      BY <2>1, Euclid
    <2>5. q % W \in 0..W - 1 /\ q - W * (q \div W) = q % W
      <3> HIDE DEF q
      <3>1. QED
        BY <2>4, <1>1, Euclid
    <2>6. Quot(x, i) = q /\ Word(x, i) = q % W
      BY DEF p, Quot, Word
    <2>7. Quot(x, i + 1) = q \div W
      <3>1. Quot(x, i + 1) = x \div (p * W)
        BY <2>2 DEF Quot
      <3>2. QED
        BY <3>1, <2>3
    <2> HIDE DEF q
    <2>8. QED
      BY <2>5, <2>6, <2>7
  <1>6. ASSUME NEW i \in 0..8, x < Power[i] PROVE Quot(x, i) = 0
    <2> DEFINE p == Power[i]
    <2>1. p \in Nat /\ p > 0 /\ x \in 0..p - 1
      BY <1>2, <1>6
    <2> HIDE DEF p
    <2>2. x - p * 0 = x /\ x \in Int
      BY <2>1
    <2>3. x \div p = 0
      BY <2>1, <2>2, QuotientIs
    <2>4. QED
      BY <2>3 DEF p, Quot
  <1>7. QED
    BY <1>3, <1>4, <1>5, <1>6

\* A word is what is left of a number by its quotients.
LEMMA WordsAre ==
  ASSUME NEW x \in Nat, NEW n \in 0..8
  PROVE  /\ WordsOf(x, n) \in Seq(0..W - 1) /\ Len(WordsOf(x, n)) = n
         /\ \A i \in 1..n : WordsOf(x, n)[i] = Word(x, i - 1)
  <1>1. \A i \in 1..n : Word(x, i - 1) \in 0..W - 1
    <2>1. \A i \in 1..n : i - 1 \in 0..7
      OBVIOUS
    <2>2. \A i \in 0..7 : Word(x, i) \in 0..W - 1
      BY QuotientsAre
    <2>3. QED
      BY <2>1, <2>2
  <1>2. QED
    BY <1>1 DEF WordsOf

\* The recursions over octets.
LEMMA LehIs ==
  ASSUME NEW o \in Seq(0..W - 1), Len(o) <= 8
  PROVE  \E f \in [0..Len(o) -> Nat] :
           /\ f[0] = 0 /\ Leh(o) = f[Len(o)]
           /\ \A i \in 1..Len(o) : f[i] = f[i - 1] + o[i] * Power[i - 1]
  <1> DEFINE k == Len(o)
             E(i, v) == v + o[i] * Power[i - 1]
             D == [i \in 1..k |-> [v \in Nat |-> E(i, v)]]
             Good(g) == g = [i \in 0..k |-> IF i = 0 THEN 0 ELSE E(i, g[i - 1])]
  <1>1. \A i \in 1..k : \A v \in Nat : E(i, v) \in Nat
    <2> TAKE i \in 1..k
    <2>1. i - 1 \in 0..8 /\ k \in Nat
      OBVIOUS
    <2>2. Power[i - 1] \in Nat
      BY <2>1, PowerIs
    <2>3. o[i] \in Nat
      BY ConversionsAssumption
    <2>4. QED
      BY <2>2, <2>3
  <1>2. D \in Steps(0, k, Nat)
    <2> HIDE DEF E
    <2>1. D \in [1..k -> [Nat -> Nat]]
      BY <1>1
    <2> HIDE DEF D
    <2>2. QED
      BY <2>1, StepsFrom0
  <1>3. PICK g : g \in Obeying(0, k, Nat, 0, D)
    <2> HIDE DEF D, Good
    <2>1. 0 \in Int /\ k \in Int /\ 0 \in Nat
      OBVIOUS
    <2>2. QED
      BY <1>2, <2>1, RecursionDefines, Zenon
  <1>4. Good(g)
    <2> HIDE DEF E
    <2>0. k \in Nat
      OBVIOUS
    <2> HIDE DEF k
    <2>1. g \in [0..k -> Nat] /\ g[0] = 0 /\ \A i \in 1..k : g[i] = D[i][g[i - 1]]
      BY <1>3, <2>0 DEF Obeying
    <2>2. \A i \in 1..k : g[i - 1] \in Nat
      BY <2>0, <2>1
    <2>3. \A i \in 1..k : g[i] = E(i, g[i - 1])
      BY <2>1, <2>2
    <2> HIDE DEF D
    <2>4. QED
      BY <2>1, <2>3
  <1> DEFINE f == CHOOSE h : Good(h)
  <1>5. Good(f)
    <2> HIDE DEF Good
    <2>1. QED
      BY <1>4
  <1>6. Leh(o) = f[k]
    BY DEF Leh
  <1> HIDE DEF E, D, f
  <1>7. f[0] = 0 /\ \A i \in 1..k : f[i] = E(i, f[i - 1])
    <2>1. 0 \in 0..k /\ \A i \in 1..k : i \in 0..k /\ i # 0
      OBVIOUS
    <2>2. \A i \in 0..k : f[i] = IF i = 0 THEN 0 ELSE E(i, f[i - 1])
      BY <1>5, Zenon
    <2>3. QED
      BY <2>1, <2>2
  <1>8. \A i \in 0..k : f[i] \in Nat
    <2>1. k \in Nat /\ f[0] \in Nat
      BY <1>7
    <2>2. \A i \in 1..k : f[i - 1] \in Nat => f[i] \in Nat
      BY <1>1, <1>7
    <2> HIDE DEF k, Good
    <2>3. QED
      BY <2>1, <2>2, TypedFrom0, Zenon
  <1>9. f \in [0..k -> Nat]
    BY <1>5, <1>8
  <1>10. QED
    BY <1>6, <1>7, <1>9 DEF E

LEMMA FromMemoryIs ==
  ASSUME NEW o \in Seq(0..W - 1)
  PROVE  \E f \in [0..Len(o) -> Nat] :
           /\ f[0] = 0 /\ FromMemory(o) = f[Len(o)]
           /\ \A i \in 1..Len(o) : f[i] = f[i - 1] * W + o[Len(o) + 1 - i]
  <1> DEFINE k == Len(o)
             E(i, v) == v * W + o[k + 1 - i]
             D == [i \in 1..k |-> [v \in Nat |-> E(i, v)]]
             Good(g) == g = [i \in 0..k |-> IF i = 0 THEN 0 ELSE E(i, g[i - 1])]
  <1>1. \A i \in 1..k : \A v \in Nat : E(i, v) \in Nat
    <2> TAKE i \in 1..k
    <2>1. k + 1 - i \in 1..k
      OBVIOUS
    <2>2. o[k + 1 - i] \in Nat /\ W \in Nat
      BY <2>1, ConversionsAssumption
    <2>3. QED
      BY <2>2, SMTT(30)
  <1>2. D \in Steps(0, k, Nat)
    <2> HIDE DEF E
    <2>1. D \in [1..k -> [Nat -> Nat]]
      BY <1>1
    <2> HIDE DEF D
    <2>2. QED
      BY <2>1, StepsFrom0
  <1>3. PICK g : g \in Obeying(0, k, Nat, 0, D)
    <2> HIDE DEF D, Good
    <2>1. 0 \in Int /\ k \in Int /\ 0 \in Nat
      OBVIOUS
    <2>2. QED
      BY <1>2, <2>1, RecursionDefines, Zenon
  <1>4. Good(g)
    <2> HIDE DEF E
    <2>0. k \in Nat
      OBVIOUS
    <2> HIDE DEF k
    <2>1. g \in [0..k -> Nat] /\ g[0] = 0 /\ \A i \in 1..k : g[i] = D[i][g[i - 1]]
      BY <1>3, <2>0 DEF Obeying
    <2>2. \A i \in 1..k : g[i - 1] \in Nat
      BY <2>0, <2>1
    <2>3. \A i \in 1..k : g[i] = E(i, g[i - 1])
      BY <2>1, <2>2
    <2> HIDE DEF D
    <2>4. QED
      BY <2>1, <2>3
  <1> DEFINE f == CHOOSE h : Good(h)
  <1>5. Good(f)
    <2> HIDE DEF Good
    <2>1. QED
      BY <1>4
  <1>6. FromMemory(o) = f[k]
    BY DEF FromMemory
  <1> HIDE DEF E, D, f
  <1>7. f[0] = 0 /\ \A i \in 1..k : f[i] = E(i, f[i - 1])
    <2>1. 0 \in 0..k /\ \A i \in 1..k : i \in 0..k /\ i # 0
      OBVIOUS
    <2>2. \A i \in 0..k : f[i] = IF i = 0 THEN 0 ELSE E(i, f[i - 1])
      BY <1>5, Zenon
    <2>3. QED
      BY <2>1, <2>2
  <1>8. \A i \in 0..k : f[i] \in Nat
    <2>1. k \in Nat /\ f[0] \in Nat
      BY <1>7
    <2>2. \A i \in 1..k : f[i - 1] \in Nat => f[i] \in Nat
      BY <1>1, <1>7
    <2> HIDE DEF k, Good
    <2>3. QED
      BY <2>1, <2>2, TypedFrom0, Zenon
  <1>9. f \in [0..k -> Nat]
    BY <1>5, <1>8
  <1>10. QED
    BY <1>6, <1>7, <1>9 DEF E

LEMMA WIs == W \in Nat /\ W > 1
  BY ConversionsAssumption

\* Octets are read back to the number that they are of, as far as they reach.
LEMMA LehReads ==
  ASSUME NEW x \in Nat, NEW n \in 0..8
  PROVE  Leh(WordsOf(x, n)) = x - Power[n] * Quot(x, n)
  <1> DEFINE o == WordsOf(x, n)
  <1>1. o \in Seq(0..W - 1) /\ Len(o) = n /\ \A i \in 1..n : o[i] = Word(x, i - 1)
    BY WordsAre
  <1> HIDE DEF o
  <1>2. PICK f \in [0..Len(o) -> Nat] : /\ f[0] = 0 /\ Leh(o) = f[Len(o)]
                                        /\ \A i \in 1..Len(o) : f[i] = f[i - 1] + o[i] * Power[i - 1]
    <2>1. Len(o) <= 8
      BY <1>1
    <2>2. QED
      BY <1>1, <2>1, LehIs
  <1> DEFINE rest == [i \in 0..n |-> x - Power[i] * Quot(x, i)]
  <1>3. f[0] = rest[0]
    <2>1. Power[0] * Quot(x, 0) = x
      BY QuotientsAre, PowerIs
    <2>2. rest[0] = x - Power[0] * Quot(x, 0)
      OBVIOUS
    <2>3. QED
      BY <1>2, <2>1, <2>2
  <1>4. ASSUME NEW i \in 1..n, f[i - 1] = rest[i - 1] PROVE f[i] = rest[i]
    <2> DEFINE p == Power[i - 1]
               q == Quot(x, i - 1)
               r == Quot(x, i)
               w == Word(x, i - 1)
    <2>1. i - 1 \in 0..7 /\ i \in 0..8 /\ (i - 1) + 1 = i /\ i - 1 \in 0..n /\ i \in 0..n
      OBVIOUS
    <2>2. q - W * r = w /\ q \in Nat /\ r \in Nat /\ w \in Nat /\ W \in Nat
      <3>1. \A j \in 0..7 : Quot(x, j) - W * Quot(x, j + 1) = Word(x, j) /\ Word(x, j) \in 0..W - 1
        BY QuotientsAre
      <3>2. Quot(x, i - 1) - W * Quot(x, (i - 1) + 1) = w /\ w \in 0..W - 1
        BY <2>1, <3>1
      <3>3. \A j \in 0..8 : Quot(x, j) \in Nat
        BY QuotientsAre
      <3>4. i - 1 \in 0..8
        BY <2>1
      <3>5. Quot(x, (i - 1) + 1) = r
        BY <2>1
      <3>6. r \in Nat
        BY <2>1, <3>3
      <3>7. q \in Nat
        BY <3>3, <3>4
      <3> HIDE DEF q, r, w
      <3>8. q - W * r = w
        BY <3>2, <3>5 DEF q
      <3>9. QED
        BY <3>2, <3>6, <3>7, <3>8, WIs
    <2>3. Power[i] = W * p /\ p \in Nat
      <3>1. \A j \in 0..7 : Power[j + 1] = W * Power[j]
        BY PowerIs
      <3>2. Power[(i - 1) + 1] = W * Power[i - 1] /\ i - 1 \in 0..8
        BY <2>1, <3>1
      <3>3. Power[i] = W * p
        BY <2>1, <3>2
      <3>4. p \in Nat
        BY <3>2, PowerIs
      <3>5. QED
        BY <3>3, <3>4
    <2>4. f[i] = f[i - 1] + w * p
      BY <1>1, <1>2
    <2>5. rest[i - 1] = x - p * q /\ rest[i] = x - (W * p) * r
      BY <2>1, <2>3
    <2> HIDE DEF p, q, r, w, rest
    <2>6. w * p = (q - W * r) * p
      BY <2>2
    <2>7. (q - W * r) * p = p * q - (W * p) * r
      BY <2>2, <2>3
    <2>8. p * q \in Int /\ (W * p) * r \in Int
      BY <2>2, <2>3
    <2>9. QED
      BY <1>4, <2>4, <2>5, <2>6, <2>7, <2>8
  <1>5. f[n] = rest[n]
    <2> HIDE DEF rest
    <2>1. n \in Nat /\ n \in 0..n
      OBVIOUS
    <2>2. \A i \in 1..n : f[i - 1] = rest[i - 1] => f[i] = rest[i]
      BY <1>4
    <2>3. Alike(n, f, rest)
      BY <1>3, <2>2 DEF Alike
    <2>4. \A i \in 0..n : f[i] = rest[i]
      BY <2>1, <2>3, AlikeAgree
    <2>5. QED
      BY <2>1, <2>4
  <1>6. QED
    BY <1>1, <1>2, <1>5 DEF o

\* Octets read from the highest one down give the same.
LEMMA FromMemoryReads ==
  ASSUME NEW x \in Nat, NEW n \in 0..8, x < Power[n]
  PROVE  FromMemory(WordsOf(x, n)) = x
  <1> DEFINE o == WordsOf(x, n)
  <1>1. o \in Seq(0..W - 1) /\ Len(o) = n /\ \A i \in 1..n : o[i] = Word(x, i - 1)
    BY WordsAre
  <1> HIDE DEF o
  <1>2. PICK f \in [0..Len(o) -> Nat] : /\ f[0] = 0 /\ FromMemory(o) = f[Len(o)]
                                        /\ \A i \in 1..Len(o) :
                                             f[i] = f[i - 1] * W + o[Len(o) + 1 - i]
    BY <1>1, FromMemoryIs
  <1> DEFINE rest == [i \in 0..n |-> Quot(x, n - i)]
  <1>3. f[0] = rest[0]
    <2>1. Quot(x, n) = 0 /\ n - 0 = n
      <3>1. \A i \in 0..8 : x < Power[i] => Quot(x, i) = 0
        BY QuotientsAre
      <3>2. QED
        BY <3>1
    <2>2. rest[0] = Quot(x, n - 0)
      OBVIOUS
    <2>3. QED
      BY <1>2, <2>1, <2>2
  <1>4. ASSUME NEW i \in 1..n, f[i - 1] = rest[i - 1] PROVE f[i] = rest[i]
    <2> DEFINE j == n - i
               q == Quot(x, j)
               r == Quot(x, j + 1)
               w == Word(x, j)
    <2>1. j \in 0..7 /\ j \in 0..8 /\ j + 1 \in 0..8 /\ i - 1 \in 0..n /\ i \in 0..n
          /\ n - (i - 1) = j + 1 /\ n + 1 - i = j + 1 /\ j + 1 \in 1..n /\ (j + 1) - 1 = j
      OBVIOUS
    <2> HIDE DEF j
    <2>2. q - W * r = w /\ q \in Nat /\ r \in Nat /\ w \in Nat /\ W \in Nat
      <3>1. q - W * r = w /\ w \in 0..W - 1
        BY <2>1, QuotientsAre
      <3>2. \A k \in 0..8 : Quot(x, k) \in Nat
        BY QuotientsAre
      <3>3. q \in Nat /\ r \in Nat
        BY <2>1, <3>2
      <3> HIDE DEF q, r, w
      <3>4. QED
        BY <3>1, <3>3, WIs
    <2>3. f[i] = f[i - 1] * W + w
      <3>1. o[j + 1] = w
        BY <1>1, <2>1
      <3>2. QED
        BY <1>1, <1>2, <2>1, <3>1
    <2>4. rest[i - 1] = r
      BY <2>1
    <2>5. rest[i] = q
      BY <2>1 DEF j
    <2> HIDE DEF q, r, w, rest
    <2>6. r * W = W * r /\ r * W \in Nat
      BY <2>2
    <2>7. QED
      BY <1>4, <2>2, <2>3, <2>4, <2>5, <2>6
  <1>5. f[n] = rest[n]
    <2> HIDE DEF rest
    <2>1. n \in Nat /\ n \in 0..n
      OBVIOUS
    <2>2. \A i \in 1..n : f[i - 1] = rest[i - 1] => f[i] = rest[i]
      BY <1>4
    <2>3. Alike(n, f, rest)
      BY <1>3, <2>2 DEF Alike
    <2>4. \A i \in 0..n : f[i] = rest[i]
      BY <2>1, <2>3, AlikeAgree
    <2>5. QED
      BY <2>1, <2>4
  <1>6. rest[n] = x
    <2>1. n \in 0..n /\ n - n = 0
      OBVIOUS
    <2>2. QED
      BY <2>1, QuotientsAre
  <1>7. QED
    BY <1>1, <1>2, <1>5, <1>6 DEF o

\* The halves of octets are the octets of the halves.
LEMMA HalvesAre ==
  ASSUME NEW x \in Nat, NEW h \in 1..4
  PROVE  /\ SubSeq(WordsOf(x, 2 * h), 1, h) = WordsOf(x, h)
         /\ SubSeq(WordsOf(x, 2 * h), h + 1, 2 * h) = WordsOf(Quot(x, h), h)
         /\ Quot(x, h) \in Nat
         /\ x < Power[2 * h] => Quot(x, h) < Power[h]
         /\ x - Power[h] * Quot(x, h) = x % Power[h]
  <1> DEFINE o == WordsOf(x, 2 * h)
             q == Quot(x, h)
             p == Power[h]
  <1>1. h \in 0..8 /\ 2 * h \in 0..8 /\ h + h = 2 * h /\ h \in 0..8 - h /\ x \in Int
    OBVIOUS
  <1>2. q \in Nat /\ p \in Nat /\ p > 0
    <2>1. \A i \in 0..8 : Quot(x, i) \in Nat
      BY QuotientsAre
    <2>2. QED
      BY <1>1, <2>1, PowerIs
  <1>3. o \in Seq(0..W - 1) /\ Len(o) = 2 * h /\ \A i \in 1..2 * h : o[i] = Word(x, i - 1)
    BY <1>1, WordsAre
  <1> DEFINE s == SubSeq(o, 1, h)
             t == SubSeq(o, h + 1, 2 * h)
             u == WordsOf(x, h)
             v == WordsOf(q, h)
  <1>4. Len(u) = h /\ (\A i \in 1..h : u[i] = Word(x, i - 1)) /\ u \in Seq(0..W - 1)
    BY <1>1, WordsAre
  <1>5. Len(v) = h /\ (\A i \in 1..h : v[i] = Word(q, i - 1)) /\ v \in Seq(0..W - 1)
    <2> HIDE DEF q
    <2>1. QED
      BY <1>1, <1>2, WordsAre
  <1>6. \A i \in 1..h : Word(q, i - 1) = Word(x, h + i - 1)
    <2> TAKE i \in 1..h
    <2> DEFINE b == Power[i - 1]
    <2>1. i - 1 \in 0..8 - h /\ i - 1 \in 0..8 /\ h + (i - 1) = h + i - 1
      OBVIOUS
    <2>2. Power[h + i - 1] = p * b
      BY <1>1, <2>1, PowersMultiply
    <2>3. b \in Nat /\ b > 0
      BY <2>1, PowerIs
    <2> HIDE DEF b, p
    <2>4. (x \div p) \div b = x \div (p * b)
      BY <1>1, <1>2, <2>3, QuotientTwice
    <2>5. q = x \div p
      BY DEF Quot, p
    <2>6. Word(q, i - 1) = (q \div b) % W
      BY DEF Word, b
    <2>7. Word(x, h + i - 1) = (x \div (p * b)) % W
      BY <2>2 DEF Word
    <2> HIDE DEF q
    <2>8. QED
      BY <2>4, <2>5, <2>6, <2>7
  <1> HIDE DEF o, q, p, u, v
  <1>7. s = u
    <2>1. s \in Seq(0..W - 1) /\ Len(s) = h /\ \A i \in 1..h : s[i] = o[i]
      <3>1. h \in Nat /\ 1 <= h /\ h <= Len(o) /\ 1 - 1 = 0
        BY <1>3
      <3>2. \A i \in 1..h : o[i] \in 0..W - 1
        BY <1>3, <3>1, WIs
      <3>3. /\ SubSeq(o, 1, h) \in Seq(0..W - 1)
            /\ Len(SubSeq(o, 1, h)) = IF 1 <= h THEN h - 1 + 1 ELSE 0
            /\ \A i \in 1..h - 1 + 1 : SubSeq(o, 1, h)[i] = o[1 + i - 1]
        BY <3>1, <3>2, SubSeqProperties
      <3>4. \A i \in 1..h : i \in 1..h - 1 + 1 /\ 1 + i - 1 = i
        OBVIOUS
      <3>5. QED
        BY <3>1, <3>3, <3>4
    <2>2. \A i \in 1..h : s[i] = u[i]
      <3> HIDE DEF s
      <3> TAKE i \in 1..h
      <3>1. i \in 1..2 * h
        OBVIOUS
      <3>2. o[i] = Word(x, i - 1)
        BY <1>3, <3>1
      <3>3. QED
        BY <1>4, <2>1, <3>2
    <2> HIDE DEF s
    <2>3. QED
      BY <1>4, <2>1, <2>2, SeqEqual
  <1>8. t = v
    <2>1. t \in Seq(0..W - 1) /\ Len(t) = h /\ \A i \in 1..h : t[i] = o[h + i]
      <3>1. h \in Nat /\ 2 * h \in Nat /\ h + 1 \in Nat /\ 2 * h <= Len(o) /\ 1 <= h + 1
            /\ (2 * h - (h + 1)) + 1 = h
        BY <1>3
      <3>2. \A i \in h + 1..2 * h : o[i] \in 0..W - 1
        <4>1. \A i \in h + 1..2 * h : i \in 1..2 * h
          OBVIOUS
        <4>2. \A i \in 1..Len(o) : o[i] \in 0..W - 1
          BY <1>3, WIs
        <4>3. QED
          BY <1>3, <4>1, <4>2, Zenon
      <3>3. /\ SubSeq(o, h + 1, 2 * h) \in Seq(0..W - 1)
            /\ Len(SubSeq(o, h + 1, 2 * h)) = IF h + 1 <= 2 * h THEN 2 * h - (h + 1) + 1 ELSE 0
            /\ \A i \in 1..2 * h - (h + 1) + 1 :
                 SubSeq(o, h + 1, 2 * h)[i] = o[(h + 1) + i - 1]
        BY <3>1, <3>2, SubSeqProperties
      <3>4. h + 1 <= 2 * h /\ \A i \in 1..h : /\ i \in 1..2 * h - (h + 1) + 1
                                              /\ (h + 1) + i - 1 = h + i
        OBVIOUS
      <3>5. QED
        BY <3>1, <3>3, <3>4
    <2>2. \A i \in 1..h : t[i] = v[i]
      <3> TAKE i \in 1..h
      <3>1. h + i \in 1..2 * h
        OBVIOUS
      <3>2. o[h + i] = Word(x, h + i - 1)
        BY <1>3, <3>1
      <3>3. QED
        BY <1>5, <1>6, <2>1, <3>2
    <2> HIDE DEF t
    <2>3. QED
      BY <1>5, <2>1, <2>2, SeqEqual
  <1>9. x < Power[2 * h] => q < p
    <2> SUFFICES ASSUME x < Power[2 * h] PROVE q < p
      OBVIOUS
    <2>1. Quot(x, 2 * h) = 0
      BY <1>1, QuotientsAre
    <2>2. Power[2 * h] = p * p
      BY <1>1, PowersMultiply DEF p
    <2>3. (x \div p) \div p = x \div (p * p)
      BY <1>1, <1>2, QuotientTwice
    <2>4. q \div p = 0
      BY <2>1, <2>2, <2>3 DEF Quot, q, p
    <2>5. q % p \in 0..p - 1 /\ q - p * (q \div p) = q % p
      BY <1>2, Euclid
    <2>6. p * 0 = 0
      BY <1>2
    <2>7. q = q % p
      BY <1>2, <2>4, <2>5, <2>6
    <2>8. QED
      BY <1>2, <2>5, <2>7
  <1>10. x - p * q = x % p
    <2>1. x - p * (x \div p) = x % p
      BY <1>1, <1>2, Euclid
    <2>2. QED
      BY <2>1 DEF q, p, Quot
  <1>11. QED
    BY <1>2, <1>7, <1>8, <1>9, <1>10 DEF o, q, p, u, v

\* What becomes of a number in octets.
LEMMA OctetsComeBack ==
  ASSUME NEW x \in Nat, NEW n \in {2, 4, 8}, x < Power[n]
  PROVE  LET o == Hle(x, n)
             half == Power[n \div 2]
         IN  /\ o = InMemory(x, n) /\ Leh(o) = x /\ FromMemory(o) = x
             /\ LehLo(o) = x % half /\ LehHi(o) = x \div half
  <1> DEFINE o == WordsOf(x, n)
             h == n \div 2
  <1>1. h \in 1..4 /\ n = 2 * h /\ n \in 0..8 /\ h \in 0..8 /\ h <= 8
    <2>1. CASE n = 2
      BY <2>1
    <2>2. CASE n = 4
      BY <2>2
    <2>3. CASE n = 8
      BY <2>3
    <2>4. QED
      BY <2>1, <2>2, <2>3
  <1>2. o = Hle(x, n)
    BY DEF WordsOf, Hle
  <1>3. Len(o) = n
    BY <1>1, WordsAre
  <1>4. Leh(o) = x
    <2>1. Leh(o) = x - Power[n] * Quot(x, n)
      BY <1>1, LehReads
    <2>2. Quot(x, n) = 0 /\ Power[n] \in Nat
      BY <1>1, QuotientsAre, PowerIs
    <2>3. Power[n] * 0 = 0
      BY <2>2
    <2>4. QED
      BY <2>1, <2>2, <2>3
  <1>5. FromMemory(o) = x
    BY <1>1, FromMemoryReads
  <1> HIDE DEF h
  <1>6. /\ SubSeq(o, 1, h) = WordsOf(x, h) /\ SubSeq(o, h + 1, n) = WordsOf(Quot(x, h), h)
        /\ Quot(x, h) \in Nat /\ Quot(x, h) < Power[h]
        /\ x - Power[h] * Quot(x, h) = x % Power[h]
    BY <1>1, HalvesAre
  <1>7. LehLo(o) = x % Power[h]
    <2>1. LehLo(o) = Leh(SubSeq(o, 1, h))
      BY <1>3 DEF LehLo, h
    <2>2. Leh(WordsOf(x, h)) = x - Power[h] * Quot(x, h)
      BY <1>1, LehReads
    <2>3. QED
      BY <1>6, <2>1, <2>2
  <1>8. LehHi(o) = x \div Power[h]
    <2> DEFINE q == Quot(x, h)
    <2>1. LehHi(o) = Leh(SubSeq(o, h + 1, n))
      BY <1>3 DEF LehHi, h
    <2>2. q \in Nat /\ q < Power[h]
      BY <1>6
    <2> HIDE DEF q
    <2>3. Leh(WordsOf(q, h)) = q - Power[h] * Quot(q, h)
      BY <1>1, <2>2, LehReads
    <2>4. Quot(q, h) = 0 /\ Power[h] \in Nat
      BY <1>1, <2>2, QuotientsAre, PowerIs
    <2>5. Power[h] * 0 = 0
      BY <2>4
    <2>6. Leh(WordsOf(q, h)) = q
      BY <2>2, <2>3, <2>4, <2>5
    <2>7. q = x \div Power[h]
      BY DEF q, Quot
    <2>8. QED
      BY <1>6, <2>1, <2>6, <2>7 DEF q
  <1>9. o = InMemory(x, n)
    BY DEF InMemory
  <1> HIDE DEF o
  <1>10. QED
    BY <1>2, <1>4, <1>5, <1>7, <1>8, <1>9 DEF h

-----------------------------------------------------------------------------
(* Conversions: texts.                                                     *)

\* A text in radix r is read by a reader that knows the number so far.
Horner(r) == [v \in Nat |-> [d \in 0..r - 1 |-> v * r + d]]

LEMMA HornerReads == \A r \in 2..36 : \A v \in Nat : Reads(Nat, 0..r - 1, v, Horner(r))
  <1> TAKE r \in 2..36
  <1>1. r \in Nat
    OBVIOUS
  <1>2. \A v \in Nat, d \in 0..r - 1 : v * r + d \in Nat
    BY <1>1
  <1>3. Horner(r) \in [Nat -> [0..r - 1 -> Nat]]
    BY <1>2 DEF Horner
  <1>4. QED
    BY <1>3 DEF Reads

\* The number of a text is what its reader reads.
LEMMA NumberIsRead ==
  ASSUME NEW r \in 2..36, NEW t \in Seq(0..r - 1)
  PROVE  NumberOf(t, r) = AfterAll(Horner(r), 0, t)
  <1> DEFINE k == Len(t)
             Sums == Reader(Horner(r), 0, t)
             E(i, v) == v * r + t[i]
             Good(f) == f = [i \in 0..k |-> IF i = 0 THEN 0 ELSE E(i, f[i - 1])]
  <1>1. Reads(Nat, 0..r - 1, 0, Horner(r)) /\ r \in Nat
    <2>1. 0 \in Nat /\ r \in Nat
      OBVIOUS
    <2>2. QED
      BY <2>1, HornerReads, Zenon
  <1>2. /\ Sums[0] = 0
        /\ \A i \in 1..k : Sums[i] = Horner(r)[Sums[i - 1]][t[i]]
        /\ \A i \in 0..k : Sums[i] \in Nat
    <2>1. /\ Reader(Horner(r), 0, t)[0] = 0
          /\ \A i \in 1..Len(t) : Reader(Horner(r), 0, t)[i]
                                    = Horner(r)[Reader(Horner(r), 0, t)[i - 1]][t[i]]
          /\ \A i \in 0..Len(t) : Reader(Horner(r), 0, t)[i] \in Nat
      BY ONLY <1>1, t \in Seq(0..r - 1), ReaderDef, Zenon
    <2>2. QED
      BY <2>1, Zenon
  <1> HIDE DEF Sums
  <1>3. \A i \in 1..k : Sums[i] = E(i, Sums[i - 1])
    <2> TAKE i \in 1..k
    <2>1. i - 1 \in 0..k /\ i \in 1..k
      OBVIOUS
    <2>2. Sums[i - 1] \in Nat /\ t[i] \in 0..r - 1
      BY <1>2, <2>1
    <2>3. Horner(r)[Sums[i - 1]][t[i]] = Sums[i - 1] * r + t[i]
      BY <2>2 DEF Horner
    <2>4. QED
      BY <1>2, <2>3
  <1> DEFINE g == [i \in 0..k |-> Sums[i]]
             f == CHOOSE h : Good(h)
  <1>4. Good(g)
    <2> HIDE DEF E
    <2>1. g[0] = 0 /\ \A i \in 1..k : g[i] = Sums[i] /\ g[i - 1] = Sums[i - 1]
      BY <1>2
    <2>2. \A i \in 1..k : g[i] = E(i, g[i - 1])
      BY <1>3, <2>1
    <2>3. \A i \in 0..k : g[i] = IF i = 0 THEN 0 ELSE E(i, g[i - 1])
      <3> TAKE i \in 0..k
      <3>1. CASE i = 0
        BY <2>1, <3>1
      <3>2. CASE i # 0
        <4>1. i \in 1..k
          BY <3>2
        <4>2. QED
          BY <2>2, <3>2, <4>1
      <3>3. QED
        BY <3>1, <3>2
    <2>4. g = [i \in 0..k |-> g[i]]
      OBVIOUS
    <2> HIDE DEF g
    <2>5. [i \in 0..k |-> g[i]] = [i \in 0..k |-> IF i = 0 THEN 0 ELSE E(i, g[i - 1])]
      BY <2>3, Zenon
    <2>6. QED
      BY <2>4, <2>5
  <1>5. Good(f)
    <2> HIDE DEF Good, g
    <2>1. QED
      BY <1>4
  <1>6. NumberOf(t, r) = f[k]
    BY DEF NumberOf
  <1> HIDE DEF f, g
  <1>7. f[0] = 0 /\ \A i \in 1..k : f[i] = E(i, f[i - 1])
    <2> HIDE DEF E
    <2>1. 0 \in 0..k /\ \A i \in 1..k : i \in 0..k /\ i # 0
      OBVIOUS
    <2>2. \A i \in 0..k : f[i] = IF i = 0 THEN 0 ELSE E(i, f[i - 1])
      BY <1>5, Zenon
    <2>3. QED
      BY <2>1, <2>2
  <1>8. \A i \in 1..k : f[i - 1] = Sums[i - 1] => f[i] = Sums[i]
    <2> HIDE DEF E
    <2>1. QED
      BY <1>3, <1>7
  <1>9. f[0] = Sums[0] /\ k \in Nat /\ k \in 0..k
    BY <1>2, <1>7
  <1> HIDE DEF Good, E, k
  <1>10. \A i \in 0..k : f[i] = Sums[i]
    <2>1. Alike(k, f, Sums)
      BY <1>8, <1>9 DEF Alike
    <2>2. QED
      BY <1>9, <2>1, AlikeAgree, Zenon
  <1>11. QED
    BY <1>6, <1>9, <1>10 DEF AfterAll, Sums, k

\* A sequence that is turned round has the same members.
LEMMA Backwards ==
  ASSUME NEW S, NEW t \in Seq(S)
  PROVE  /\ Reverse(t) \in Seq(S) /\ Len(Reverse(t)) = Len(t)
         /\ \A i \in 1..Len(t) : Reverse(t)[i] = t[Len(t) - i + 1]
  <1>1. \A i \in 1..Len(t) : Len(t) - i + 1 \in 1..Len(t)
    <2>1. Len(t) \in Nat
      BY LenProperties
    <2>2. \A k \in Nat : \A i \in 1..k : k - i + 1 \in 1..k
      OBVIOUS
    <2>3. QED
      BY <2>1, <2>2, Zenon
  <1>2. \A i \in 1..Len(t) : t[Len(t) - i + 1] \in S
    <2> TAKE i \in 1..Len(t)
    <2>1. Len(t) - i + 1 \in 1..Len(t)
      BY <1>1
    <2>2. QED
      BY <2>1, ElementOfSeq, Zenon
  <1>3. Reverse(t) = [i \in 1..Len(t) |-> t[Len(t) - i + 1]]
    BY DEF Reverse
  <1>4. Len(t) \in Nat
    OBVIOUS
  <1> DEFINE k == Len(t)
             b == [i \in 1..k |-> t[k - i + 1]]
  <1>5. b \in Seq(S) /\ Len(b) = k /\ \A i \in 1..k : b[i] = t[k - i + 1]
    <2> HIDE DEF k
    <2>1. QED
      BY <1>2, <1>4 DEF k
  <1>6. QED
    BY <1>3, <1>5

\* The last digit that is kept is the first one that is written.
LEMMA LastIsFirst ==
  ASSUME NEW S, NEW t \in Seq(S), NEW x \in S
  PROVE  /\ Append(t, x) \in Seq(S) /\ Reverse(Append(t, x)) \in Seq(S)
         /\ Reverse(Append(t, x)) # <<>>
         /\ Head(Reverse(Append(t, x))) = x /\ Tail(Reverse(Append(t, x))) = Reverse(t)
  <1> DEFINE u == Append(t, x)
             b == Reverse(u)
             c == Reverse(t)
             k == Len(t)
  <1>1. u \in Seq(S) /\ Len(u) = k + 1 /\ u[k + 1] = x /\ \A i \in 1..k : u[i] = t[i]
    OBVIOUS
  <1>2. c \in Seq(S) /\ Len(c) = k /\ \A i \in 1..k : c[i] = t[k - i + 1]
    BY Backwards
  <1>3. b \in Seq(S) /\ Len(b) = k + 1 /\ \A i \in 1..k + 1 : b[i] = u[(k + 1) - i + 1]
    <2> HIDE DEF u
    <2>1. b \in Seq(S) /\ Len(b) = Len(u) /\ \A i \in 1..Len(u) : b[i] = u[Len(u) - i + 1]
      BY <1>1, Backwards
    <2>2. QED
      BY <1>1, <2>1
  <1>4. k \in Nat
    OBVIOUS
  <1> HIDE DEF u, b, c, k
  <1>5. b # <<>> /\ b[1] = x
    <2>1. 1 \in 1..k + 1 /\ (k + 1) - 1 + 1 = k + 1
      BY <1>4
    <2>2. QED
      BY <1>1, <1>3, <1>4, <2>1
  <1>6. /\ Head(b) = b[1] /\ Tail(b) \in Seq(S) /\ Len(Tail(b)) = k
        /\ \A i \in 1..k : Tail(b)[i] = b[i + 1]
    BY <1>3, <1>4, <1>5
  <1>7. Tail(b) = c
    <2>1. \A i \in 1..k : Tail(b)[i] = c[i]
      <3> TAKE i \in 1..k
      <3>1. i + 1 \in 1..k + 1 /\ (k + 1) - (i + 1) + 1 = k - i + 1 /\ k - i + 1 \in 1..k
        BY <1>4
      <3>2. QED
        BY <1>1, <1>2, <1>3, <1>6, <3>1, ZenonT(60)
    <2>2. QED
      BY <1>2, <1>6, <2>1, SeqEqual
  <1>8. QED
    BY <1>1, <1>3, <1>5, <1>6, <1>7 DEF u, b, c

-----------------------------------------------------------------------------
(* Conversions: a number of four words, divided.                           *)

\* The number that four words are.
Remaining(ws) == ((ws[4] * W + ws[3]) * W + ws[2]) * W + ws[1]
FourWords == [1..4 -> 0..W - 1]

\* What the words of four words are.
LEMMA FourAre ==
  ASSUME NEW ws \in FourWords
  PROVE  /\ Remaining(ws) \in Nat /\ \A j \in 1..4 : ws[j] \in Nat
         /\ (Remaining(ws) = 0) <=> (ws = Zero)
  <1> DEFINE a == ws[1]
             b == ws[2]
             c == ws[3]
             d == ws[4]
  <1>1. W \in Nat /\ W > 0
    BY WIs
  <1>2. a \in 0..W - 1 /\ b \in 0..W - 1 /\ c \in 0..W - 1 /\ d \in 0..W - 1
    BY DEF FourWords
  <1>3. a \in Nat /\ b \in Nat /\ c \in Nat /\ d \in Nat
    BY <1>1, <1>2
  <1>4. Remaining(ws) = ((d * W + c) * W + b) * W + a
    BY DEF Remaining
  <1>5. ws = Zero <=> a = 0 /\ b = 0 /\ c = 0 /\ d = 0
    <2>1. ws = Zero <=> \A j \in 1..4 : ws[j] = 0
      BY DEF FourWords, Zero
    <2>2. \A j : j \in 1..4 <=> j \in {1, 2, 3, 4}
      OBVIOUS
    <2>3. QED
      BY <2>1, <2>2
  <1>6. \A j \in 1..4 : ws[j] \in Nat
    BY <1>1 DEF FourWords
  <1> HIDE DEF a, b, c, d
  <1>7. \A m, n \in Nat : m * W + n \in Nat /\ (m * W + n = 0 <=> m = 0 /\ n = 0)
    <2> TAKE m, n \in Nat
    <2>1. m * W \in Nat
      BY <1>1
    <2>2. m # 0 => m * W > 0
      BY <1>1
    <2>3. m = 0 => m * W = 0
      BY <1>1
    <2> DEFINE p == m * W
    <2> HIDE DEF p
    <2>4. p \in Nat /\ (m # 0 => p > 0) /\ (m = 0 => p = 0)
      BY <2>1, <2>2, <2>3 DEF p
    <2>5. p + n \in Nat /\ (p + n = 0 <=> m = 0 /\ n = 0)
      BY <2>4
    <2>6. QED
      BY <2>5 DEF p
  <1> DEFINE x == d * W + c
             y == x * W + b
             z == y * W + a
  <1>8. x \in Nat /\ (x = 0 <=> d = 0 /\ c = 0)
    BY <1>3, <1>7
  <1> HIDE DEF x
  <1>9. y \in Nat /\ (y = 0 <=> x = 0 /\ b = 0)
    BY <1>3, <1>7, <1>8
  <1> HIDE DEF y
  <1>10. z \in Nat /\ (z = 0 <=> y = 0 /\ a = 0)
    BY <1>3, <1>7, <1>9
  <1> HIDE DEF z
  <1>11. Remaining(ws) = z
    BY <1>4 DEF x, y, z
  <1>12. QED
    BY <1>5, <1>6, <1>8, <1>9, <1>10, <1>11

\* A number of four words is what its words are.
LEMMA WordsRemain ==
  ASSUME NEW x \in Nat, x < Power[4]
  PROVE  WordsOf(x, 4) \in FourWords /\ Remaining(WordsOf(x, 4)) = x
  <1> DEFINE ws == WordsOf(x, 4)
             q == [i \in 0..4 |-> Quot(x, i)]
  <1>1. W \in Nat
    BY WIs
  <1>2. \A i \in 0..3 : Word(x, i) \in 0..W - 1 /\ Quot(x, i) - W * Quot(x, i + 1) = Word(x, i)
    <2>1. \A i \in 0..3 : i \in 0..7
      OBVIOUS
    <2>2. \A i \in 0..7 : Word(x, i) \in 0..W - 1 /\ Quot(x, i) - W * Quot(x, i + 1) = Word(x, i)
      BY QuotientsAre
    <2>3. QED
      BY <2>1, <2>2, Zenon
  <1>3. \A i \in 1..4 : ws[i] = Word(x, i - 1) /\ i - 1 \in 0..3
    BY DEF WordsOf
  <1>4. ws \in FourWords
    BY <1>2, <1>3 DEF FourWords, WordsOf
  <1>5. q[0] = x /\ q[4] = 0 /\ \A i \in 0..4 : q[i] \in Nat
    <2>1. \A i \in 0..4 : i \in 0..8
      OBVIOUS
    <2>2. /\ Quot(x, 0) = x /\ \A i \in 0..8 : Quot(x, i) \in Nat
          /\ \A i \in 0..8 : x < Power[i] => Quot(x, i) = 0
      BY QuotientsAre
    <2>3. 4 \in 0..8 /\ 4 \in 0..4 /\ 0 \in 0..4
      OBVIOUS
    <2>4. Quot(x, 4) = 0
      BY <2>2, <2>3
    <2>5. QED
      BY <2>1, <2>2, <2>3, <2>4
  <1>6. /\ q[0] - W * q[1] = ws[1] /\ q[1] - W * q[2] = ws[2]
        /\ q[2] - W * q[3] = ws[3] /\ q[3] - W * q[4] = ws[4]
    <2>1. \A i \in 0..3 : q[i] - W * q[i + 1] = Word(x, i)
      <3>1. \A i \in 0..3 : i \in 0..4 /\ i + 1 \in 0..4
        OBVIOUS
      <3>2. QED
        BY <1>2, <3>1
    <2>2. ws[1] = Word(x, 0) /\ ws[2] = Word(x, 1) /\ ws[3] = Word(x, 2) /\ ws[4] = Word(x, 3)
      BY <1>3
    <2> HIDE DEF q, ws
    <2>3. /\ q[0] - W * q[0 + 1] = Word(x, 0) /\ q[1] - W * q[1 + 1] = Word(x, 1)
          /\ q[2] - W * q[2 + 1] = Word(x, 2) /\ q[3] - W * q[3 + 1] = Word(x, 3)
      BY <2>1
    <2>4. QED
      BY <2>2, <2>3
  <1> DEFINE a == q[1]
             b == q[2]
             c == q[3]
  <1>7. a \in Nat /\ b \in Nat /\ c \in Nat
    BY <1>5
  <1>8. ws[4] = c /\ ws[3] = b - W * c /\ ws[2] = a - W * b /\ ws[1] = x - W * a
    <2> HIDE DEF q, ws
    <2>1. W * q[4] = 0 /\ W * c \in Nat /\ W * b \in Nat /\ W * a \in Nat
      BY <1>1, <1>5, <1>7
    <2>2. QED
      BY <1>5, <1>6, <1>7, <2>1
  <1> HIDE DEF ws, q, a, b, c
  <1>9. c * W + (b - W * c) = b /\ b * W + (a - W * b) = a /\ a * W + (x - W * a) = x
    BY <1>1, <1>7
  <1>10. Remaining(ws) = ((c * W + (b - W * c)) * W + (a - W * b)) * W + (x - W * a)
    BY <1>8 DEF Remaining
  <1>11. QED
    BY <1>4, <1>9, <1>10 DEF ws

\* One division by words: as by hand, from the first word that is not zero.
LEMMA OneDivision ==
  ASSUME NEW m \in Nat, NEW w \in 0..W - 1, NEW r \in Nat, m < r
  PROVE  /\ (m * W + w) \div r \in 0..W - 1 /\ (m * W + w) % r \in 0..r - 1
         /\ m * W + w = r * ((m * W + w) \div r) + ((m * W + w) % r)
  <1> DEFINE x == m * W + w
             q == x \div r
             n == x % r
  <1>1. W \in Nat /\ W > 0
    BY WIs
  <1>2. x \in Int /\ x >= 0 /\ m * W \in Nat /\ w \in Nat
    BY <1>1
  <1>3. x < r * W
    <2>1. (r - 1 - m) * W >= 0
      BY <1>1
    <2>2. (r - 1 - m) * W = r * W - W - m * W
      BY <1>1
    <2>3. r * W \in Nat
      BY <1>1
    <2>4. QED
      BY <1>1, <1>2, <2>1, <2>2, <2>3
  <1> HIDE DEF x
  <1>4. q \in Int /\ n \in 0..r - 1 /\ x - r * q = n /\ q >= 0
    BY <1>2, Euclid
  <1> HIDE DEF q, n
  <1>5. q <= W - 1
    <2> SUFFICES ASSUME q >= W PROVE FALSE
      BY <1>1, <1>4
    <2>1. r * (q - W) >= 0
      BY <1>1, <1>4
    <2>2. r * (q - W) = r * q - r * W /\ r * q \in Int /\ r * W \in Int
      BY <1>1, <1>4
    <2>3. QED
      BY <1>2, <1>3, <1>4, <2>1, <2>2
  <1>6. r * q \in Int
    BY <1>4
  <1>7. x = r * q + n
    BY <1>2, <1>4, <1>6
  <1>8. q \in 0..W - 1 /\ n \in 0..r - 1
    BY <1>1, <1>4, <1>5
  <1>9. QED
    BY <1>7, <1>8, Zenon DEF x, q, n

\* Words above the highest one that is not zero are left out of a division.
TopOf(ws) == Max({1} \union {j \in 1..4 : ws[j] # 0})

\* There is no word but zero above the highest one.
LEMMA TopIs ==
  ASSUME NEW ws \in FourWords
  PROVE  TopOf(ws) \in 1..4 /\ \A j \in 1..4 : j > TopOf(ws) => ws[j] = 0
  <1> DEFINE S == {1} \union {j \in 1..4 : ws[j] # 0}
  <1>1. \A j \in S : j \in 1..4
    OBVIOUS
  <1>2. \A j \in 1..4 : j = 1 \/ j = 2 \/ j = 3 \/ j = 4
    OBVIOUS
  <1>3. \E x \in S : \A y \in S : x >= y
    <2>1. CASE ws[4] # 0
      <3>1. 4 \in S /\ \A y \in S : 4 >= y
        BY <1>1, <2>1
      <3>2. QED
        BY <3>1
    <2>2. CASE ws[4] = 0 /\ ws[3] # 0
      <3>1. 3 \in S /\ \A y \in S : 3 >= y
        BY <1>2, <2>2
      <3>2. QED
        BY <3>1
    <2>3. CASE ws[4] = 0 /\ ws[3] = 0 /\ ws[2] # 0
      <3>1. 2 \in S /\ \A y \in S : 2 >= y
        BY <1>2, <2>3
      <3>2. QED
        BY <3>1
    <2>4. CASE ws[4] = 0 /\ ws[3] = 0 /\ ws[2] = 0
      <3>1. 1 \in S /\ \A y \in S : 1 >= y
        BY <1>2, <2>4
      <3>2. QED
        BY <3>1
    <2>5. QED
      BY <2>1, <2>2, <2>3, <2>4
  <1>4. TopOf(ws) = CHOOSE x \in S : \A y \in S : x >= y
    BY DEF TopOf, Max
  <1> DEFINE top == TopOf(ws)
  <1> HIDE DEF S, top
  <1>5. top \in S /\ \A y \in S : top >= y
    BY <1>3, <1>4 DEF top
  <1>6. \A j \in 1..4 : j > top => ws[j] = 0
    <2> SUFFICES ASSUME NEW j \in 1..4, j > top, ws[j] # 0 PROVE FALSE
      OBVIOUS
    <2>1. j \in S
      BY DEF S
    <2>2. top \in 1..4 /\ top >= j
      BY <1>1, <1>5, <2>1
    <2>3. QED
      BY <2>2
  <1>7. QED
    BY <1>1, <1>5, <1>6 DEF top

\* Each remainder is carried to the next lower word.
LEMMA UllDivIs ==
  ASSUME NEW ws \in FourWords, NEW r \in 2..36
  PROVE  LET d == UllDiv(ws, r)
         IN  \E m \in [1..5 -> 0..r - 1] :
               /\ m[5] = 0 /\ d.remainder = m[1] /\ d.quotient \in FourWords
               /\ \A j \in 1..4 : m[j + 1] * W + ws[j] = r * d.quotient[j] + m[j]
  <1> DEFINE top == TopOf(ws)
             E(j, v) == IF j > top THEN 0 ELSE (v * W + ws[j]) % r
             F(j, v) == IF j > top THEN 0 ELSE (v * W + ws[j]) \div r
             Good(g) == g = [j \in 1..5 |-> E(j, g[j + 1])]
  <1>1. top \in 1..4 /\ \A j \in 1..4 : j > top => ws[j] = 0
    BY TopIs
  <1>2. W \in Nat /\ W > 0 /\ r \in Nat /\ r > 0
    BY WIs
  <1>3. \A j \in 1..4 : ws[j] \in 0..W - 1
    BY DEF FourWords
  <1>4. UllDiv(ws, r) = LET rem == CHOOSE g : Good(g)
                        IN  [quotient |-> [j \in 1..4 |-> F(j, rem[j + 1])], remainder |-> rem[1]]
    BY DEF UllDiv, TopOf
  <1> HIDE DEF top
  <1>5. ASSUME NEW j \in 1..4, NEW v \in 0..r - 1, j < top \/ j = top \/ v = 0
        PROVE  /\ E(j, v) \in 0..r - 1 /\ F(j, v) \in 0..W - 1
               /\ v * W + ws[j] = r * F(j, v) + E(j, v)
    <2>1. CASE j > top
      <3>1. ws[j] = 0 /\ v = 0
        BY <1>1, <1>5, <2>1
      <3>2. E(j, v) = 0 /\ F(j, v) = 0
        BY <2>1
      <3> HIDE DEF E, F
      <3>3. 0 * W = 0 /\ r * 0 = 0
        BY <1>2
      <3>4. QED
        BY <1>2, <3>1, <3>2, <3>3
    <2>2. CASE ~(j > top)
      <3>1. E(j, v) = (v * W + ws[j]) % r /\ F(j, v) = (v * W + ws[j]) \div r
        BY <2>2
      <3> HIDE DEF E, F
      <3>2. v \in Nat /\ v < r /\ ws[j] \in 0..W - 1
        BY <1>2, <1>3
      <3> DEFINE w == ws[j]
      <3> HIDE DEF w
      <3>3. /\ (v * W + w) \div r \in 0..W - 1 /\ (v * W + w) % r \in 0..r - 1
            /\ v * W + w = r * ((v * W + w) \div r) + ((v * W + w) % r)
        BY <1>2, <3>2, OneDivision DEF w
      <3>4. QED
        BY <3>1, <3>3, Zenon DEF w
    <2>3. QED
      BY <2>1, <2>2
  <1> HIDE DEF F
  <1>6. \A v : E(5, v) = 0
    <2>1. 5 > top
      BY <1>1
    <2>2. QED
      BY <2>1
  <1>7. \A j \in 1..4 : \A v : j > top => E(j, v) = 0
    OBVIOUS
  <1> HIDE DEF E
  <1> DEFINE n4 == E(4, 0)
             n3 == E(3, n4)
             n2 == E(2, n3)
             n1 == E(1, n2)
             g == [j \in 1..5 |-> IF j = 5 THEN 0 ELSE IF j = 4 THEN n4 ELSE IF j = 3 THEN n3
                                  ELSE IF j = 2 THEN n2 ELSE n1]
  <1>8. \A j \in 1..5 : j = 1 \/ j = 2 \/ j = 3 \/ j = 4 \/ j = 5
    OBVIOUS
  <1>9. Good(g)
    <2>1. g[1] = n1 /\ g[2] = n2 /\ g[3] = n3 /\ g[4] = n4 /\ g[5] = 0
      OBVIOUS
    <2>2. g = [j \in 1..5 |-> g[j]]
      OBVIOUS
    <2> HIDE DEF g
    <2>3. /\ g[1] = E(1, g[2]) /\ g[2] = E(2, g[3]) /\ g[3] = E(3, g[4]) /\ g[4] = E(4, g[5])
          /\ g[5] = E(5, g[6])
      BY <1>6, <2>1
    <2>4. \A j \in 1..5 : g[j] = E(j, g[j + 1])
      <3>1. 1 + 1 = 2 /\ 2 + 1 = 3 /\ 3 + 1 = 4 /\ 4 + 1 = 5 /\ 5 + 1 = 6
        OBVIOUS
      <3>2. QED
        BY <1>8, <2>3, <3>1
    <2>5. [j \in 1..5 |-> g[j]] = [j \in 1..5 |-> E(j, g[j + 1])]
      BY <2>4, Zenon
    <2>6. QED
      BY <2>2, <2>5
  <1> DEFINE m == CHOOSE h : Good(h)
  <1>10. Good(m)
    <2> HIDE DEF Good, g
    <2>1. QED
      BY <1>9
  <1>11. UllDiv(ws, r) = [quotient |-> [j \in 1..4 |-> F(j, m[j + 1])], remainder |-> m[1]]
    BY <1>4, Zenon
  <1> HIDE DEF m, g
  <1>12. \A j \in 1..5 : m[j] = E(j, m[j + 1])
    BY <1>10, Zenon
  <1>13. m[5] = 0
    BY <1>6, <1>12
  <1>14. \A j \in 1..4 : j > top => m[j + 1] = 0
    <2> TAKE j \in 1..4
    <2> HAVE j > top
    <2>1. j = 4 \/ (j + 1 \in 1..4 /\ j + 1 > top /\ j + 1 \in 1..5)
      BY <1>1
    <2>2. CASE j = 4
      BY <1>13, <2>2
    <2>3. CASE j + 1 \in 1..4 /\ j + 1 > top /\ j + 1 \in 1..5
      BY <1>7, <1>12, <2>3
    <2>4. QED
      BY <2>1, <2>2, <2>3
  <1> HIDE DEF Good
  <1>15. ASSUME NEW j \in 1..4, m[j + 1] \in 0..r - 1
         PROVE  /\ m[j] \in 0..r - 1 /\ F(j, m[j + 1]) \in 0..W - 1
                /\ m[j + 1] * W + ws[j] = r * F(j, m[j + 1]) + m[j]
    <2> DEFINE v == m[j + 1]
    <2>1. j < top \/ j = top \/ v = 0
      BY <1>1, <1>14
    <2>2. m[j] = E(j, v)
      BY <1>12
    <2>3. v \in 0..r - 1
      BY <1>15
    <2> HIDE DEF v
    <2>4. /\ E(j, v) \in 0..r - 1 /\ F(j, v) \in 0..W - 1
          /\ v * W + ws[j] = r * F(j, v) + E(j, v)
      BY <1>5, <2>1, <2>3, Zenon
    <2>5. QED
      BY <2>2, <2>4, Zenon DEF v
  <1>16. \A j \in 1..4 : /\ m[j] \in 0..r - 1 /\ F(j, m[j + 1]) \in 0..W - 1
                         /\ m[j + 1] * W + ws[j] = r * F(j, m[j + 1]) + m[j]
    <2> DEFINE Divided(j) == /\ m[j] \in 0..r - 1 /\ F(j, m[j + 1]) \in 0..W - 1
                          /\ m[j + 1] * W + ws[j] = r * F(j, m[j + 1]) + m[j]
    <2>1. \A j \in 1..4 : m[j + 1] \in 0..r - 1 => m[j] \in 0..r - 1 /\ Divided(j)
      BY <1>15, Zenon
    <2> HIDE DEF Divided
    <2>2. m[5] \in 0..r - 1
      BY <1>2, <1>13
    <2>3. 1 + 1 = 2 /\ 2 + 1 = 3 /\ 3 + 1 = 4 /\ 4 + 1 = 5
      OBVIOUS
    <2>4. m[4] \in 0..r - 1 /\ Divided(4)
      BY <2>1, <2>2, <2>3
    <2>5. m[3] \in 0..r - 1 /\ Divided(3)
      BY <2>1, <2>3, <2>4
    <2>6. m[2] \in 0..r - 1 /\ Divided(2)
      BY <2>1, <2>3, <2>5
    <2>7. m[1] \in 0..r - 1 /\ Divided(1)
      BY <2>1, <2>3, <2>6
    <2>8. \A j \in 1..4 : j = 1 \/ j = 2 \/ j = 3 \/ j = 4
      OBVIOUS
    <2>9. \A j \in 1..4 : Divided(j)
      BY <2>4, <2>5, <2>6, <2>7, <2>8, Zenon
    <2>10. QED
      BY <2>9 DEF Divided
  <1>17. m \in [1..5 -> 0..r - 1]
    <2>1. \A j \in 1..5 : m[j] \in 0..r - 1
      <3>1. \A j \in 1..5 : j \in 1..4 \/ j = 5
        OBVIOUS
      <3>2. m[5] \in 0..r - 1
        BY <1>2, <1>13
      <3>3. QED
        BY <1>16, <3>1, <3>2, Zenon
    <2>2. m = [j \in 1..5 |-> E(j, m[j + 1])]
      BY <1>10 DEF Good
    <2>3. QED
      BY <2>1, <2>2
  <1> DEFINE d == UllDiv(ws, r)
  <1>18. /\ d.remainder = m[1] /\ d.quotient = [j \in 1..4 |-> F(j, m[j + 1])]
    BY <1>11
  <1> HIDE DEF d
  <1>19. d.quotient \in FourWords /\ \A j \in 1..4 : d.quotient[j] = F(j, m[j + 1])
    BY <1>16, <1>18 DEF FourWords
  <1>20. \A j \in 1..4 : m[j + 1] * W + ws[j] = r * d.quotient[j] + m[j]
    BY <1>16, <1>19, Zenon
  <1>21. QED
    BY <1>13, <1>17, <1>18, <1>19, <1>20, Zenon DEF d

\* One step of a division by hand.
LEMMA NextWord ==
  ASSUME NEW r \in Nat, NEW v \in Nat, NEW q \in Nat, NEW m \in Nat, v = r * q + m,
         NEW w \in Nat, NEW p \in Nat, NEW n \in Nat, m * W + w = r * p + n
  PROVE  v * W + w = r * (q * W + p) + n
  <1>1. W \in Nat
    BY WIs
  <1>2. (r * q + m) * W + w = r * (q * W) + (m * W + w)
    BY <1>1
  <1>3. r * (q * W + p) = r * (q * W) + r * p
    BY <1>1
  <1>4. r * (q * W) \in Nat /\ r * p \in Nat /\ m * W \in Nat
    BY <1>1
  <1>5. QED
    BY <1>2, <1>3, <1>4

\* The quotient and the remainder are those of the number the words are.
LEMMA DivisionIs ==
  ASSUME NEW ws \in FourWords, NEW r \in 2..36
  PROVE  LET d == UllDiv(ws, r)
         IN  /\ d.quotient \in FourWords /\ d.remainder \in 0..r - 1
             /\ Remaining(ws) = Remaining(d.quotient) * r + d.remainder
  <1> DEFINE d == UllDiv(ws, r)
             q == d.quotient
  <1>1. PICK m \in [1..5 -> 0..r - 1] :
               /\ m[5] = 0 /\ d.remainder = m[1] /\ d.quotient \in FourWords
               /\ \A j \in 1..4 : m[j + 1] * W + ws[j] = r * d.quotient[j] + m[j]
    BY UllDivIs, Zenon
  <1> HIDE DEF d
  <1>2. q \in FourWords
    BY <1>1
  <1> HIDE DEF q
  <1>3. \A j \in 1..4 : ws[j] \in Nat /\ q[j] \in Nat
    BY <1>2, FourAre
  <1>4. \A j \in 1..5 : m[j] \in Nat
    BY <1>1
  <1>5. /\ m[2] * W + ws[1] = r * q[1] + m[1] /\ m[3] * W + ws[2] = r * q[2] + m[2]
        /\ m[4] * W + ws[3] = r * q[3] + m[3] /\ m[5] * W + ws[4] = r * q[4] + m[4]
    <2>1. \A j \in 1..4 : m[j + 1] * W + ws[j] = r * q[j] + m[j]
      BY <1>1, Zenon DEF q
    <2>2. 1 + 1 = 2 /\ 2 + 1 = 3 /\ 3 + 1 = 4 /\ 4 + 1 = 5
      OBVIOUS
    <2>3. /\ m[1 + 1] * W + ws[1] = r * q[1] + m[1] /\ m[2 + 1] * W + ws[2] = r * q[2] + m[2]
          /\ m[3 + 1] * W + ws[3] = r * q[3] + m[3] /\ m[4 + 1] * W + ws[4] = r * q[4] + m[4]
      BY <2>1
    <2>4. QED
      BY <2>2, <2>3
  <1> DEFINE m1 == m[1]
             m2 == m[2]
             m3 == m[3]
             m4 == m[4]
             w1 == ws[1]
             w2 == ws[2]
             w3 == ws[3]
             w4 == ws[4]
             q1 == q[1]
             q2 == q[2]
             q3 == q[3]
             q4 == q[4]
  <1>6. /\ m1 \in Nat /\ m2 \in Nat /\ m3 \in Nat /\ m4 \in Nat
        /\ w1 \in Nat /\ w2 \in Nat /\ w3 \in Nat /\ w4 \in Nat
        /\ q1 \in Nat /\ q2 \in Nat /\ q3 \in Nat /\ q4 \in Nat
    BY <1>3, <1>4
  <1>7. W \in Nat /\ r \in Nat
    BY WIs
  <1>8. w4 = r * q4 + m4
    <2>1. 0 * W = 0
      BY <1>7
    <2>2. 0 * W + w4 = r * q4 + m4
      BY <1>1, <1>5
    <2>3. QED
      BY <1>6, <2>1, <2>2
  <1>9. /\ m4 * W + w3 = r * q3 + m3 /\ m3 * W + w2 = r * q2 + m2 /\ m2 * W + w1 = r * q1 + m1
    BY <1>5
  <1>10. Remaining(ws) = ((w4 * W + w3) * W + w2) * W + w1
    BY DEF Remaining
  <1>11. Remaining(q) = ((q4 * W + q3) * W + q2) * W + q1
    BY DEF Remaining
  <1> HIDE DEF m1, m2, m3, m4, w1, w2, w3, w4, q1, q2, q3, q4
  <1> DEFINE v3 == w4 * W + w3
             p3 == q4 * W + q3
             v2 == v3 * W + w2
             p2 == p3 * W + q2
             v1 == v2 * W + w1
             p1 == p2 * W + q1
  <1>12. v3 = r * p3 + m3 /\ v3 \in Nat /\ p3 \in Nat
    <2>1. v3 \in Nat /\ p3 \in Nat
      BY <1>6, <1>7
    <2>2. w4 * W + w3 = r * (q4 * W + q3) + m3
      BY <1>6, <1>7, <1>8, <1>9, NextWord
    <2>3. QED
      BY <2>1, <2>2
  <1> HIDE DEF v3, p3
  <1>13. v2 = r * p2 + m2 /\ v2 \in Nat /\ p2 \in Nat
    <2>1. v2 \in Nat /\ p2 \in Nat
      BY <1>6, <1>7, <1>12
    <2>2. v3 * W + w2 = r * (p3 * W + q2) + m2
      BY <1>6, <1>7, <1>9, <1>12, NextWord
    <2>3. QED
      BY <2>1, <2>2
  <1> HIDE DEF v2, p2
  <1>14. v1 = r * p1 + m1 /\ v1 \in Nat /\ p1 \in Nat
    <2>1. v1 \in Nat /\ p1 \in Nat
      BY <1>6, <1>7, <1>13
    <2>2. v2 * W + w1 = r * (p2 * W + q1) + m1
      BY <1>6, <1>7, <1>9, <1>13, NextWord
    <2>3. QED
      BY <2>1, <2>2
  <1>15. Remaining(ws) = v1 /\ Remaining(q) = p1
    BY <1>10, <1>11 DEF v1, v2, v3, p1, p2, p3
  <1> HIDE DEF v1, p1
  <1>16. r * p1 = p1 * r
    BY <1>7, <1>14
  <1>17. Remaining(ws) = Remaining(q) * r + m1
    BY <1>14, <1>15, <1>16
  <1>18. m1 \in 0..r - 1 /\ d.remainder = m1
    BY <1>1 DEF m1
  <1>19. QED
    BY <1>2, <1>17, <1>18 DEF q, d

-----------------------------------------------------------------------------
(* Conversions: the invariant, and its steps.                              *)

\* The number that is put into digits fits into four words, and its sign is kept apart.
LEMMA UnsignedFits ==
  ASSUME NEW j \in Texts2Radix
  PROVE  /\ Unsigned(j) \in Nat /\ Unsigned(j) < Power[4]
         /\ IF HasSign(j) THEN -Unsigned(j) = j.value
            ELSE Unsigned(j) = j.value % Power[Width(j.call)]
         /\ HasSign(j) \in BOOLEAN /\ j.radix \in Int
  <1> DEFINE n == Width(j.call)
             p == Power[n]
             v == j.value
             u == Unsigned(j)
  <1>1. /\ v \in Int /\ j.radix \in Int /\ n \in {2, 4} /\ -p <= 2 * v /\ v < p
    <2>1. j \in [call : {"ulltoa", "lltoa", "ultoa", "ltoa"}, value : Int, radix : Int]
      BY ConversionsAssumption
    <2>2. -Power[Width(j.call)] <= 2 * j.value /\ j.value < Power[Width(j.call)]
      BY ConversionsAssumption
    <2>3. n \in {2, 4}
      BY DEF Width
    <2>4. QED
      BY <2>1, <2>2, <2>3
  <1>2. p \in Nat /\ p > 0 /\ p <= Power[4] /\ Power[4] \in Nat
    <2>1. Power[2] \in Nat \ {0} /\ Power[4] \in Nat \ {0}
      <3>1. 2 \in 0..8 /\ 4 \in 0..8
        OBVIOUS
      <3>2. QED
        BY <3>1, PowerIs
    <2>2. Power[4] = Power[2] * Power[2]
      <3>1. 2 \in 0..8 /\ 2 \in 0..8 - 2 /\ 2 + 2 = 4
        OBVIOUS
      <3>2. Power[2 + 2] = Power[2] * Power[2]
        BY <3>1, PowersMultiply
      <3>3. QED
        BY <3>1, <3>2
    <2> DEFINE a == Power[2]
    <2> HIDE DEF a
    <2>3. a \in Nat /\ a > 0 /\ a * a = Power[4]
      BY <2>1, <2>2 DEF a
    <2>4. a <= a * a
      <3>1. a * (a - 1) >= 0 /\ a * (a - 1) = a * a - a
        BY <2>3
      <3>2. QED
        BY <2>3, <3>1
    <2>5. CASE n = 2
      BY <2>1, <2>3, <2>4, <2>5 DEF a
    <2>6. CASE n = 4
      BY <2>1, <2>6
    <2>7. QED
      BY <1>1, <2>5, <2>6
  <1>3. HasSign(j) \in BOOLEAN /\ (HasSign(j) => v < 0)
    BY DEF HasSign
  <1>4. CASE HasSign(j)
    <2>1. u = ((-(v + 1)) % p) + 1
      BY <1>4 DEF Unsigned, Magnitude
    <2> DEFINE w == -(v + 1)
    <2>2. w \in Int /\ w \in 0..p - 1 /\ w - p * 0 = w
      BY <1>1, <1>2, <1>3, <1>4
    <2> HIDE DEF p, v, w
    <2>3. w % p = w
      BY <1>2, <2>2, QuotientIs
    <2>4. u = w + 1
      BY <2>1, <2>3 DEF w
    <2> HIDE DEF u
    <2>5. u \in Nat /\ -u = v /\ u < p
      BY <1>1, <1>2, <1>3, <1>4, <2>2, <2>4 DEF w
    <2>6. u < Power[4]
      BY <1>2, <2>5
    <2>7. QED
      BY <1>1, <1>3, <1>4, <2>5, <2>6 DEF u, v
  <1>5. CASE ~HasSign(j)
    <2>1. u = v % p
      BY <1>5 DEF Unsigned
    <2> HIDE DEF p, v
    <2>2. v % p \in 0..p - 1
      BY <1>1, <1>2, Euclid
    <2> HIDE DEF u
    <2>3. u \in Nat /\ u < p
      BY <1>2, <2>1, <2>2
    <2>4. u < Power[4]
      BY <1>2, <2>3
    <2>5. QED
      BY <1>1, <1>3, <1>5, <2>1, <2>3, <2>4 DEF u, v, p
  <1>6. QED
    BY <1>3, <1>4, <1>5

-----------------------------------------------------------------------------
\* The digits so far, the least significant first, say by what the rest of the number
\* is to be continued; none of them is before a number that is all in digits.
SignOf(j) == IF HasSign(j) THEN <<Minus>> ELSE <<>>
DigitsSoFar(ds, v) ==
  /\ buffer = SignOf(job) \o ds
  /\ AfterAll(Horner(job.radix), v, Reverse(ds)) = Unsigned(job)
  /\ cv_pc = "digits" => (ds # <<>> => v # 0)
  /\ cv_pc = "reverse" => /\ v = 0 /\ ds # <<>>
                          /\ Len(ds) > 1 => ds[Len(ds)] # 0
Dividing ==
  /\ job \in Texts2Radix /\ job.radix \in 2..36 /\ value \in FourWords
  /\ \E ds \in Seq(0..job.radix - 1) : DigitsSoFar(ds, Remaining(value))

CvInv == \/ cv_pc = "text" /\ job \in Texts2Radix /\ buffer = <<>>
         \/ cv_pc \in {"digits", "reverse"} /\ Dividing
         \/ cv_pc = "octets" /\ job \in Octets
         \/ cv_pc = "disk" /\ job \in Places
         \/ cv_pc = "time" /\ job \in [time : Times]
         \/ cv_pc = "done" /\ ConversionsComeBack

\* Everything that a text is said to be.
TextIsRight ==
  IF job.radix \notin 2..36 THEN buffer = <<>>
  ELSE LET negative == buffer[1] = Minus
           digits == IF negative THEN Tail(buffer) ELSE buffer
           n == NumberOf(digits, job.radix)
       IN  /\ negative = HasSign(job)
           /\ IF negative THEN -n = job.value
              ELSE n = job.value % Power[Width(job.call)]
           /\ digits[1] = 0 => Len(digits) = 1
           /\ \A i \in 1..Len(digits) : digits[i] \in 0..job.radix - 1

\* A text that is right comes back.
LEMMA TextIsAll ==
  (job \in Texts2Radix /\ cv_pc = "done" /\ TextIsRight) => ConversionsComeBack
  <1> SUFFICES ASSUME job \in Texts2Radix, TextIsRight PROVE ConversionsComeBack
    OBVIOUS
  <1>1. "call" \in DOMAIN job
    BY ConversionsAssumption
  <1>2. QED
    BY <1>1 DEF ConversionsComeBack, TextIsRight

\* One lemma for each call that starts, and for each step of one.
LEMMA StartTextInv == ASSUME CvInv, StartText PROVE CvInv'
  <1>1. cv_pc = "text" /\ job \in Texts2Radix /\ buffer = <<>> /\ job' = job
    BY DEF StartText, CvInv
  <1>2. CASE job.radix \notin 2..36
    <2>1. cv_pc' = "done" /\ buffer' = <<>>
      BY <1>1, <1>2 DEF StartText
    <2>2. ConversionsComeBack'
      <3>1. "call" \in DOMAIN job
        BY <1>1, ConversionsAssumption
      <3>2. QED
        BY <1>1, <1>2, <2>1, <3>1 DEF ConversionsComeBack
    <2>3. QED
      BY <2>1, <2>2 DEF CvInv
  <1>3. CASE job.radix \in 2..36
    <2> DEFINE r == job.radix
               ds == <<>>
               u == Unsigned(job)
    <2>1. cv_pc' = "digits" /\ value' = WordsOf(u, 4) /\ buffer' = SignOf(job)
      BY <1>1, <1>3 DEF StartText, SignOf
    <2>2. u \in Nat /\ u < Power[4]
      BY <1>1, UnsignedFits
    <2> HIDE DEF u
    <2>3. value' \in FourWords /\ Remaining(value') = u
      BY <2>1, <2>2, WordsRemain
    <2>4. ds \in Seq(0..r - 1)
      OBVIOUS
    <2>5. AfterAll(Horner(r), u, Reverse(ds)) = u
      <3>1. Reverse(ds) \in Seq(0..r - 1) /\ Len(Reverse(ds)) = 0
        BY DEF Reverse
      <3>2. Reads(Nat, 0..r - 1, u, Horner(r))
        BY <1>3, <2>2, HornerReads, Zenon
      <3> HIDE DEF r, ds
      <3>3. QED
        BY <3>1, <3>2, AfterNone
    <2>6. SignOf(job) \o ds = SignOf(job)
      BY DEF SignOf
    <2>7. (DigitsSoFar(ds, u))'
      <3>1. buffer' = SignOf(job') \o ds
        BY <1>1, <2>1, <2>6, Zenon
      <3>2. AfterAll(Horner(job'.radix), u, Reverse(ds)) = Unsigned(job')
        BY <1>1, <2>5 DEF u
      <3>3. QED
        BY <1>1, <2>1, <3>1, <3>2 DEF DigitsSoFar, u
    <2>8. Dividing'
      BY <1>1, <1>3, <2>3, <2>4, <2>7 DEF Dividing, u
    <2>9. QED
      BY <2>1, <2>8 DEF CvInv
  <1>4. QED
    BY <1>2, <1>3

\* A sequence of members of a set is one of members of a larger set.
LEMMA Widened == ASSUME NEW S, NEW T, \A x \in S : x \in T, NEW t \in Seq(S) PROVE t \in Seq(T)
  <1>1. Len(t) \in Nat /\ t \in [1..Len(t) -> S]
    BY LenProperties
  <1>2. t \in [1..Len(t) -> T]
    BY <1>1
  <1>3. QED
    BY <1>1, <1>2, SeqDef

Appended(s, t, x) == Append(s \o t, x) = s \o Append(t, x)

LEMMA AppendBehind == \A S : \A s, t \in Seq(S) : \A x \in S : Appended(s, t, x)
  <1> SUFFICES ASSUME NEW S, NEW s \in Seq(S), NEW t \in Seq(S), NEW x \in S
               PROVE  Append(s \o t, x) = s \o Append(t, x)
    BY DEF Appended
  <1>1. QED
    OBVIOUS

\* A division goes on from the digits e.
LEMMA DividingNext ==
  ASSUME NEW e, job' \in Texts2Radix, job'.radix \in 2..36, value' \in FourWords,
         e \in Seq(0..job'.radix - 1), buffer' = SignOf(job') \o e,
         AfterAll(Horner(job'.radix), Remaining(value'), Reverse(e)) = Unsigned(job'),
         cv_pc' = "digits" => (e # <<>> => Remaining(value') # 0),
         cv_pc' = "reverse" => /\ Remaining(value') = 0 /\ e # <<>>
                               /\ Len(e) > 1 => e[Len(e)] # 0
  PROVE  Dividing'
  <1>1. DigitsSoFar(e, Remaining(value))'
    BY DEF DigitsSoFar
  <1>2. QED
    BY <1>1 DEF Dividing

LEMMA DigitInv == ASSUME CvInv, Digit PROVE CvInv'
  <1> DEFINE r == job.radix
             d == UllDiv(value, r)
             v == Remaining(value)
             q == Remaining(d.quotient)
             m == d.remainder
             H == Horner(r)
  <1>1. /\ cv_pc = "digits" /\ job' = job
        /\ value' = d.quotient /\ buffer' = Append(buffer, m)
        /\ cv_pc' = IF d.quotient = Zero THEN "reverse" ELSE "digits"
    BY DEF Digit
  <1>2. job \in Texts2Radix /\ r \in 2..36 /\ value \in FourWords
    BY <1>1 DEF CvInv, Dividing
  <1>3. PICK ds \in Seq(0..r - 1) : DigitsSoFar(ds, v)
    BY <1>1 DEF CvInv, Dividing
  <1>4. d.quotient \in FourWords /\ m \in 0..r - 1 /\ v = q * r + m
    BY <1>2, DivisionIs, Zenon
  <1> HIDE DEF d
  <1>5. q \in Nat /\ v \in Nat /\ (q = 0 <=> d.quotient = Zero)
    BY <1>2, <1>4, FourAre, Zenon
  <1> DEFINE e == Append(ds, m)
             b == Reverse(e)
  <1>6. /\ e \in Seq(0..r - 1) /\ b \in Seq(0..r - 1) /\ b # <<>>
        /\ Head(b) = m /\ Tail(b) = Reverse(ds)
    <2> DEFINE S == 0..r - 1
    <2>1. ds \in Seq(S) /\ m \in S
      BY <1>4
    <2> HIDE DEF r, m, S
    <2>2. /\ Append(ds, m) \in Seq(S) /\ Reverse(Append(ds, m)) \in Seq(S)
          /\ Reverse(Append(ds, m)) # <<>>
          /\ Head(Reverse(Append(ds, m))) = m /\ Tail(Reverse(Append(ds, m))) = Reverse(ds)
      BY <2>1, LastIsFirst
    <2>3. QED
      BY <2>2 DEF S
  <1> HIDE DEF b, q, v, m, H, r
  <1>7. AfterAll(H, q, b) = AfterAll(H, v, Reverse(ds))
    <2>1. Reads(Nat, 0..r - 1, q, H)
      BY <1>2, <1>5, HornerReads, Zenon DEF H
    <2>2. AfterAll(H, q, b) = AfterAll(H, H[q][Head(b)], Tail(b))
      <3> DEFINE S == 0..r - 1
      <3>1. b \in Seq(S) /\ b # <<>> /\ Reads(Nat, S, q, H)
        BY <1>6, <2>1
      <3> HIDE DEF S
      <3>2. QED
        BY <3>1, AfterFirst
    <2>3. H[q][m] = v
      BY <1>4, <1>5 DEF H, Horner
    <2>4. QED
      BY <1>6, <2>2, <2>3
  <1>8. buffer' = SignOf(job) \o e
    <2>1. buffer = SignOf(job) \o ds
      BY <1>3 DEF DigitsSoFar
    <2>2. SignOf(job) \in Seq(Int) /\ ds \in Seq(Int) /\ m \in Int
      <3>1. \A x \in 0..r - 1 : x \in Int
        BY <1>2 DEF r
      <3>2. ds \in Seq(Int)
        BY <1>3, <3>1, Widened
      <3>3. SignOf(job) \in Seq(Int)
        BY DEF SignOf, Minus
      <3>4. QED
        BY <1>4, <3>1, <3>2, <3>3
    <2> DEFINE sign == SignOf(job)
               Z == Int
    <2>3. sign \in Seq(Z) /\ ds \in Seq(Z) /\ m \in Z
      BY <2>2
    <2> HIDE DEF sign, Z
    <2>4. Appended(sign, ds, m)
      BY <2>3, AppendBehind, Zenon
    <2>5. Append(sign \o ds, m) = sign \o e
      BY <2>4 DEF Appended
    <2>6. QED
      BY <1>1, <2>1, <2>5 DEF sign
  <1>9. AfterAll(H, v, Reverse(ds)) = Unsigned(job) /\ (ds # <<>> => v # 0)
    BY <1>1, <1>3 DEF DigitsSoFar, H, r
  <1>10. Len(e) = Len(ds) + 1 /\ e # <<>> /\ e[Len(e)] = m
    BY <1>3
  <1>11. cv_pc' = "digits" => q # 0
    BY <1>1, <1>5
  <1>12. cv_pc' = "reverse" => q = 0 /\ (Len(e) > 1 => e[Len(e)] # 0)
    <2> SUFFICES ASSUME cv_pc' = "reverse" PROVE q = 0 /\ (Len(e) > 1 => m # 0)
      BY <1>10
    <2>1. q = 0
      BY <1>1, <1>5
    <2>2. v = m
      <3>1. r \in Nat
        BY <1>2
      <3>2. m \in Int
        BY <1>2, <1>4 DEF r
      <3>3. QED
        <4>1. \A k \in Int : 0 * r + k = k
          BY <3>1
        <4>2. v = 0 * r + m
          BY <1>4, <2>1, Zenon
        <4>3. QED
          BY <3>2, <4>1, <4>2, Zenon
    <2>3. Len(e) > 1 => ds # <<>>
      BY <1>10
    <2>4. QED
      BY <1>9, <2>1, <2>2, <2>3
  <1> HIDE DEF e
  <1>13. /\ buffer' = SignOf(job') \o e
         /\ AfterAll(Horner(job'.radix), q, Reverse(e)) = Unsigned(job')
         /\ cv_pc' = "digits" => (e # <<>> => q # 0)
         /\ cv_pc' = "reverse" => q = 0 /\ e # <<>> /\ (Len(e) > 1 => e[Len(e)] # 0)
    BY <1>1, <1>7, <1>8, <1>9, <1>10, <1>11, <1>12 DEF b, H, r
  <1>14. Remaining(value') = q
    BY <1>1 DEF q
  <1>15. e \in Seq(0..job'.radix - 1) /\ job' \in Texts2Radix /\ job'.radix \in 2..36
    BY <1>1, <1>2, <1>6 DEF r
  <1>16. value' \in FourWords
    BY <1>1, <1>4
  <1>17. /\ AfterAll(Horner(job'.radix), Remaining(value'), Reverse(e)) = Unsigned(job')
         /\ cv_pc' = "digits" => (e # <<>> => Remaining(value') # 0)
         /\ cv_pc' = "reverse" => /\ Remaining(value') = 0 /\ e # <<>>
                                  /\ Len(e) > 1 => e[Len(e)] # 0
    BY <1>13, <1>14, Zenon
  <1>18. Dividing'
    BY <1>13, <1>15, <1>16, <1>17, DividingNext
  <1>19. cv_pc' \in {"digits", "reverse"}
    BY <1>1
  <1>20. QED
    BY <1>18, <1>19, Zenon DEF CvInv

LEMMA ReverseInv == ASSUME CvInv, ReverseDigits PROVE CvInv'
  <1> DEFINE r == job.radix
             u == Unsigned(job)
  <1>1. /\ cv_pc = "reverse" /\ cv_pc' = "done" /\ job' = job
        /\ buffer' = IF HasSign(job) THEN <<Minus>> \o Reverse(Tail(buffer)) ELSE Reverse(buffer)
    BY DEF ReverseDigits
  <1>2. job \in Texts2Radix /\ r \in 2..36
    BY <1>1 DEF CvInv, Dividing
  <1>3. PICK ds \in Seq(0..r - 1) : DigitsSoFar(ds, Remaining(value))
    BY <1>1 DEF CvInv, Dividing
  <1>4. /\ buffer = SignOf(job) \o ds
        /\ AfterAll(Horner(r), Remaining(value), Reverse(ds)) = u
        /\ Remaining(value) = 0 /\ ds # <<>> /\ (Len(ds) > 1 => ds[Len(ds)] # 0)
    BY <1>1, <1>3 DEF DigitsSoFar
  <1> DEFINE t == Reverse(ds)
  <1>5. t \in Seq(0..r - 1) /\ Len(t) = Len(ds) /\ \A i \in 1..Len(ds) : t[i] = ds[Len(ds) - i + 1]
    BY <1>3, Backwards
  <1>6. NumberOf(t, r) = u
    <2> HIDE DEF r, t
    <2>1. NumberOf(t, r) = AfterAll(Horner(r), 0, t)
      BY <1>2, <1>5, NumberIsRead
    <2>2. QED
      BY <1>4, <2>1 DEF t
  <1>7. Len(t) >= 1 /\ Len(ds) >= 1 /\ t[1] = ds[Len(ds)]
    <2>1. Len(ds) \in Nat /\ Len(ds) # 0
      BY <1>3, <1>4
    <2>2. 1 \in 1..Len(ds) /\ Len(ds) - 1 + 1 = Len(ds)
      BY <2>1
    <2> HIDE DEF t
    <2>3. QED
      BY <1>5, <2>1, <2>2
  <1> HIDE DEF t
  <1>8. t[1] = 0 => Len(t) = 1
    BY <1>4, <1>5, <1>7
  <1>9. \A i \in 1..Len(t) : t[i] \in 0..r - 1
    BY <1>5, ElementOfSeq
  <1>10. /\ IF HasSign(job) THEN -u = job.value ELSE u = job.value % Power[Width(job.call)]
         /\ HasSign(job) \in BOOLEAN
    BY <1>2, UnsignedFits
  <1> DEFINE B == buffer'
             negative == B[1] = Minus
             digits == IF negative THEN Tail(B) ELSE B
  <1>11. (negative = HasSign(job)) /\ digits = t
    <2>1. CASE HasSign(job)
      <3>1. Tail(buffer) = ds
        <4>1. buffer = <<Minus>> \o ds
          BY <1>4, <2>1 DEF SignOf
        <4>2. ds \in Seq(Int) /\ Minus \in Int
          <5>1. \A x \in 0..r - 1 : x \in Int
            BY <1>2
          <5>2. ds \in Seq(Int)
            BY <1>3, <5>1, Widened
          <5>3. QED
            BY <5>2 DEF Minus
        <4>3. QED
          BY <4>1, <4>2
      <3>2. buffer' = <<Minus>> \o t
        BY <1>1, <2>1, <3>1 DEF t
      <3>3. t \in Seq(Int) /\ Minus \in Int
        <4>1. \A x \in 0..r - 1 : x \in Int
          BY <1>2
        <4>2. t \in Seq(Int)
          BY <1>5, <4>1, Widened
        <4>3. QED
          BY <4>2 DEF Minus
      <3> DEFINE w == <<Minus>> \o t
      <3>4. w[1] = Minus /\ Tail(w) = t
        BY <3>3
      <3> HIDE DEF w
      <3>5. B[1] = Minus /\ Tail(B) = t
        BY <3>2, <3>4 DEF w
      <3>6. QED
        BY <2>1, <3>5
    <2>2. CASE ~HasSign(job)
      <3>1. buffer = ds
        <4>1. buffer = <<>> \o ds
          BY <1>4, <2>2 DEF SignOf
        <4>2. QED
          BY <1>3, <4>1, ConcatEmptySeq
      <3>2. buffer' = t
        BY <1>1, <2>2, <3>1 DEF t
      <3>3. t[1] # Minus
        <4>1. t[1] \in 0..r - 1
          BY <1>7, <1>9
        <4>2. QED
          BY <1>2, <4>1 DEF Minus
      <3>4. QED
        BY <1>10, <2>2, <3>2, <3>3
    <2>3. QED
      BY <2>1, <2>2
  <1>12. TextIsRight'
    <2>1. /\ negative = HasSign(job)
          /\ IF negative THEN -NumberOf(digits, r) = job.value
             ELSE NumberOf(digits, r) = job.value % Power[Width(job.call)]
          /\ digits[1] = 0 => Len(digits) = 1
          /\ \A i \in 1..Len(digits) : digits[i] \in 0..r - 1
      <3> HIDE DEF digits, negative
      <3>1. QED
        BY <1>6, <1>8, <1>9, <1>10, <1>11
    <2>2. QED
      BY <1>1, <1>2, <2>1 DEF TextIsRight
  <1>13. (job \in Texts2Radix /\ cv_pc = "done" /\ TextIsRight)'
    BY <1>1, <1>2, <1>12
  <1>14. ((job \in Texts2Radix /\ cv_pc = "done" /\ TextIsRight) => ConversionsComeBack)'
    BY TextIsAll, PTL
  <1>15. QED
    BY <1>1, <1>13, <1>14 DEF CvInv

LEMMA ConvertOctetsInv == ASSUME CvInv, ConvertOctets PROVE CvInv'
  <1> DEFINE x == job.value
             n == job.octets
             o == Hle(x, n)
             half == Power[n \div 2]
  <1>1. /\ cv_pc = "octets" /\ cv_pc' = "done" /\ job' = job
        /\ answer' = [octets |-> o, back |-> Leh(o), lo |-> LehLo(o), hi |-> LehHi(o)]
    BY DEF ConvertOctets
  <1>2. job \in Octets
    BY <1>1 DEF CvInv
  <1>3. job \in [octets : {2, 4, 8}, value : Nat] /\ x < Power[n]
    BY <1>2, ConversionsAssumption
  <1>4. x \in Nat /\ n \in {2, 4, 8} /\ "octets" \in DOMAIN job /\ ~("call" \in DOMAIN job)
    BY <1>3
  <1>5. /\ o = InMemory(x, n) /\ Leh(o) = x /\ FromMemory(o) = x
        /\ LehLo(o) = x % half /\ LehHi(o) = x \div half
    BY <1>3, <1>4, OctetsComeBack, Zenon
  <1> HIDE DEF o
  <1>6. answer'.octets = o /\ answer'.back = Leh(o) /\ answer'.lo = LehLo(o) /\ answer'.hi = LehHi(o)
    BY <1>1
  <1>7. ConversionsComeBack'
    BY <1>1, <1>4, <1>5, <1>6 DEF ConversionsComeBack
  <1>8. QED
    BY <1>1, <1>7 DEF CvInv

LEMMA CallDiskInv == ASSUME CvInv, CallDisk PROVE CvInv'
  <1> DEFINE t == job.track
             s == job.sector
             hi == ((t \div 4) % 256) \div 64
  <1>1. /\ cv_pc = "disk" /\ cv_pc' = "done" /\ job' = job
        /\ answer' = DiskInfo(TrackLow(job), TrackHigh(job))
    BY DEF CallDisk
  <1>2. job \in [track : 0..1023, sector : 0..63]
    BY <1>1, ConversionsAssumption DEF CvInv
  <1>3. t \in 0..1023 /\ s \in 0..63
    BY <1>2
  <1>4. TrackLow(job) = t % 256 /\ TrackHigh(job) = s + 64 * hi
    BY DEF TrackLow, TrackHigh
  <1> HIDE DEF t, s
  <1>5. hi = t \div 256 /\ hi \in 0..3
    BY <1>3
  <1>6. (t % 256) + (t \div 256) * 256 = t
    BY <1>3
  <1>7. (s + 64 * hi) \div 64 = hi /\ (s + 64 * hi) % 64 = s
    <2> HIDE DEF hi
    <2>1. QED
      BY <1>3, <1>5
  <1> HIDE DEF hi
  <1>8. answer' = [track |-> t, sector |-> s]
    BY <1>1, <1>4, <1>5, <1>6, <1>7 DEF DiskInfo
  <1>9. job = [track |-> t, sector |-> s]
    BY <1>2 DEF t, s
  <1>10. ~("call" \in DOMAIN job) /\ ~("octets" \in DOMAIN job)
    BY <1>2
  <1>11. ConversionsComeBack'
    BY <1>1, <1>8, <1>9, <1>10 DEF ConversionsComeBack
  <1>12. QED
    BY <1>1, <1>11 DEF CvInv

LEMMA CallTimeInv == ASSUME CvInv, CallTime PROVE CvInv'
  <1> DEFINE t == job.time
  <1>1. /\ cv_pc = "time" /\ cv_pc' = "done" /\ job' = job
        /\ answer' = [time |-> (t \div W) * W + (t % W)]
    BY DEF CallTime
  <1>2. job \in [time : Times]
    BY <1>1 DEF CvInv
  <1>3. t \in Int /\ W \in Nat /\ W > 0
    <2>1. t \in Times /\ Times \subseteq 0..W * W - 1
      BY <1>2, ConversionsAssumption
    <2>2. \A x \in 0..W * W - 1 : x \in Int
      BY WIs
    <2> HIDE DEF t
    <2>3. QED
      BY <2>1, <2>2, WIs
  <1>4. (t \div W) * W + (t % W) = t
    <2> HIDE DEF t
    <2>1. t \div W \in Int /\ t - W * (t \div W) = t % W
      BY <1>3, Euclid
    <2> DEFINE q == t \div W
               m == t % W
    <2> HIDE DEF q, m
    <2>2. q \in Int /\ t - W * q = m
      BY <2>1 DEF q, m
    <2>3. q * W = W * q /\ W * q \in Int
      BY <1>3, <2>2
    <2>4. q * W + m = t
      BY <1>3, <2>2, <2>3
    <2>5. QED
      BY <2>4 DEF q, m
  <1>5. answer' = [time |-> t]
    BY <1>1, <1>4
  <1>6. job = [time |-> t] /\ ~("call" \in DOMAIN job) /\ ~("octets" \in DOMAIN job)
    BY <1>2
  <1>7. ConversionsComeBack'
    BY <1>1, <1>5, <1>6 DEF ConversionsComeBack
  <1>8. QED
    BY <1>1, <1>7 DEF CvInv

\* Nothing else changes what a conversion relies on.
LEMMA CvStutter == ASSUME CvInv, UNCHANGED cvVars PROVE CvInv'
  <1>1. cv_pc' = cv_pc /\ job' = job /\ value' = value /\ buffer' = buffer /\ answer' = answer
    BY DEF cvVars
  <1>2. ConversionsComeBack' <=> ConversionsComeBack
    BY <1>1 DEF ConversionsComeBack
  <1>3. Dividing' <=> Dividing
    BY <1>1 DEF Dividing, DigitsSoFar
  <1>4. QED
    BY <1>1, <1>2, <1>3 DEF CvInv

\* A text, octets, a place on a disk and a time come back as they went in.
THEOREM ConversionsAlwaysComeBack == CvSpec => []ConversionsComeBack
  <1>1. CvInit => CvInv
    BY DEF CvInit, CvInv
  <1>2. CvInv /\ [CvNext]_cvVars => CvInv'
    <2> SUFFICES ASSUME CvInv, [CvNext]_cvVars PROVE CvInv'
      OBVIOUS
    <2>1. CASE StartText
      BY <2>1, StartTextInv
    <2>2. CASE Digit
      BY <2>2, DigitInv
    <2>3. CASE ReverseDigits
      BY <2>3, ReverseInv
    <2>4. CASE ConvertOctets
      BY <2>4, ConvertOctetsInv
    <2>5. CASE CallDisk
      BY <2>5, CallDiskInv
    <2>6. CASE CallTime
      BY <2>6, CallTimeInv
    <2>7. CASE UNCHANGED cvVars
      BY <2>7, CvStutter
    <2>8. QED
      BY <2>1, <2>2, <2>3, <2>4, <2>5, <2>6, <2>7 DEF CvNext
  <1>3. CvInv => ConversionsComeBack
    BY DEF CvInv, ConversionsComeBack
  <1>4. QED
    BY <1>1, <1>2, <1>3, PTL DEF CvSpec

-----------------------------------------------------------------------------
(* Interrupts: how many words a routine has on the stack.                  *)

\* Registers that an instruction may change on its own; the stack's place, the code's
\* segment and the direction of copies are not among them.
FreeRegs == {"ax", "bx", "cx", "dx", "si", "di", "bp", "es", "ds", "flags", "errno"}
AllRegs == FreeRegs \union {"sp", "ss", "cs", "df"}
InWords == {"mem"} \X {"ds", "es", "ss"} \X {"bx", "si", "di", "bp"} \X Int
InFree == {"reg", "lo", "hi"} \X FreeRegs
Operands == ({"reg", "lo", "hi"} \X AllRegs) \union ({"imm"} \X Int) \union InWords

\* The instructions that the macros make, other than jumps and returns
Clears == {Mov(Imm(0), R("df"))}
Pushing == [op : {"push"}, src : Operands]
Popping == [op : {"pop"}, dst : InFree \union InWords]
Raising == {Op("int"), Op("thunk")}
Moving == [op : {"mov", "movb"}, src : Operands, dst : InFree \union InWords]
Swapping == [op : {"xchg"}, src : InFree, dst : InFree]
Loading == [op : {"lseg"}, seg : {"ds"}, src : InWords, dst : InFree]
Testing == [op : {"carry"}, src : InWords]
Lone == {Op("sbb cx"), Op("rep movs"), Op("int bdos"), Op("int dos"), Op("set errno")}
Neutral == Moving \union Swapping \union Loading \union Testing \union Lone
Jumps == [op : {"jc", "skip"}, skip : Nat]
Plain == Neutral \union Clears \union Pushing \union Popping \union Raising
Instructions == Plain \union Jumps

\* How many words a routine has pushed, and the direction flag
Levels == Int \X {0, 1}
WordsPushed(i) == IF i.op = "push" THEN 1 ELSE IF i.op = "pop" THEN -1
             ELSE IF i.op = "thunk" THEN -2 ELSE 0
Turned(i, df) == IF i \in Raising THEN 1 ELSE IF i \in Clears THEN 0 ELSE df
Then(i, l) == <<l[1] + WordsPushed(i), Turned(i, l[2])>>

StepsBy(d, s, i) ==
  \/ s[i] \in Plain /\ d[i + 1] = Then(s[i], d[i])
  \/ /\ s[i] \in Jumps /\ i + 1 + s[i].skip \in 1..Len(s) + 1 /\ d[i + 1 + s[i].skip] = d[i]
     /\ s[i].op = "jc" => d[i + 1] = d[i]
Runs(s, p, q) ==
  /\ s \in Seq(Instructions)
  /\ \E d \in [1..Len(s) + 1 -> Levels] :
       d[1] = p /\ d[Len(s) + 1] = q /\ \A i \in 1..Len(s) : StepsBy(d, s, i)

LEMMA ThenIsLevel == \A i \in Plain : \A l \in Levels : Then(i, l) \in Levels
  BY DEF Then, Levels, WordsPushed, Turned

\* Nothing runs from a level to itself, and two pieces of a routine run one after the other.
LEMMA RunsNone == \A p \in Levels : Runs(<<>>, p, p)
  <1> TAKE p \in Levels
  <1> DEFINE d == [i \in 1..Len(<<>>) + 1 |-> p]
  <1>1. d \in [1..Len(<<>>) + 1 -> Levels] /\ d[1] = p /\ d[Len(<<>>) + 1] = p
    OBVIOUS
  <1>2. \A i \in 1..Len(<<>>) : StepsBy(d, <<>>, i)
    OBVIOUS
  <1>3. <<>> \in Seq(Instructions)
    OBVIOUS
  <1>4. QED
    BY <1>1, <1>2, <1>3 DEF Runs

LEMMA RunsBoth ==
  ASSUME NEW s, NEW t, NEW p, NEW q, NEW r, Runs(s, p, q), Runs(t, q, r)
  PROVE  Runs(s \o t, p, r)
  <1> DEFINE u == s \o t
             m == Len(s)
             n == Len(t)
  <1>1. s \in Seq(Instructions) /\ t \in Seq(Instructions) /\ m \in Nat /\ n \in Nat
    BY LenProperties DEF Runs
  <1>2. /\ u \in Seq(Instructions) /\ Len(u) = m + n
        /\ \A i \in 1..m + n : u[i] = IF i <= m THEN s[i] ELSE t[i - m]
    BY <1>1, ConcatProperties
  <1>3. PICK d \in [1..m + 1 -> Levels] :
          d[1] = p /\ d[m + 1] = q /\ \A i \in 1..m : StepsBy(d, s, i)
    BY DEF Runs
  <1>4. PICK e \in [1..n + 1 -> Levels] :
          e[1] = q /\ e[n + 1] = r /\ \A i \in 1..n : StepsBy(e, t, i)
    BY DEF Runs
  <1> DEFINE g == [i \in 1..Len(u) + 1 |-> IF i <= m + 1 THEN d[i] ELSE e[i - m]]
  <1> HIDE DEF u, m, n
  <1>5. /\ \A i \in 1..m + 1 : g[i] = d[i]
        /\ \A i \in 1..n + 1 : g[m + i] = e[i]
    <2>1. \A i \in 1..m + 1 : i \in 1..Len(u) + 1 /\ i <= m + 1
      BY <1>1, <1>2
    <2>2. ASSUME NEW i \in 1..n + 1 PROVE g[m + i] = e[i]
      <3>1. m + i \in 1..Len(u) + 1 /\ (m + i) - m = i /\ (m + i <= m + 1 => i = 1)
        BY <1>1, <1>2
      <3>2. QED
        BY <1>3, <1>4, <3>1
    <2>3. QED
      BY <2>1, <2>2
  <1>6. g \in [1..Len(u) + 1 -> Levels]
    <2>1. ASSUME NEW i \in 1..Len(u) + 1 PROVE (IF i <= m + 1 THEN d[i] ELSE e[i - m]) \in Levels
      <3>1. CASE i <= m + 1
        BY <1>1, <3>1
      <3>2. CASE ~(i <= m + 1)
        <4>1. i - m \in 1..n + 1
          BY <1>1, <1>2, <3>2
        <4>2. QED
          BY <3>2, <4>1
      <3>3. QED
        BY <3>1, <3>2
    <2>2. QED
      BY <2>1
  <1>7. g[1] = p /\ g[Len(u) + 1] = r
    <2>1. 1 \in 1..m + 1 /\ n + 1 \in 1..n + 1 /\ m + (n + 1) = Len(u) + 1
      BY <1>1, <1>2
    <2>2. QED
      BY <1>3, <1>4, <1>5, <2>1
  <1> HIDE DEF g
  <1>8. ASSUME NEW i \in 1..Len(u) PROVE StepsBy(g, u, i)
    <2>1. CASE i <= m
      <3>1. i \in 1..m /\ i \in 1..m + 1 /\ i + 1 \in 1..m + 1 /\ u[i] = s[i]
        BY <1>1, <1>2, <2>1
      <3>2. g[i] = d[i] /\ g[i + 1] = d[i + 1] /\ StepsBy(d, s, i)
        BY <1>3, <1>5, <3>1
      <3>3. CASE s[i] \in Plain /\ d[i + 1] = Then(s[i], d[i])
        BY <3>1, <3>2, <3>3, Zenon DEF StepsBy
      <3>4. CASE /\ s[i] \in Jumps /\ i + 1 + s[i].skip \in 1..m + 1
                 /\ d[i + 1 + s[i].skip] = d[i]
                 /\ s[i].op = "jc" => d[i + 1] = d[i]
        <4>1. g[i + 1 + s[i].skip] = g[i]
          BY <1>5, <3>2, <3>4
        <4>2. i + 1 + s[i].skip \in 1..Len(u) + 1
          BY <1>1, <1>2, <3>4
        <4>3. QED
          BY <3>1, <3>2, <3>4, <4>1, <4>2, Zenon DEF StepsBy
      <3>5. QED
        BY <3>2, <3>3, <3>4, Zenon DEF StepsBy, m
    <2>2. CASE ~(i <= m)
      <3> DEFINE j == i - m
      <3>1. j \in 1..n /\ j \in 1..n + 1 /\ j + 1 \in 1..n + 1 /\ u[i] = t[j] /\ m + j = i
            /\ m + (j + 1) = i + 1
        BY <1>1, <1>2, <2>2
      <3>2. g[i] = e[j] /\ g[i + 1] = e[j + 1] /\ StepsBy(e, t, j)
        BY <1>4, <1>5, <3>1
      <3> HIDE DEF j
      <3>3. CASE t[j] \in Plain /\ e[j + 1] = Then(t[j], e[j])
        BY <3>1, <3>2, <3>3, Zenon DEF StepsBy
      <3>4. CASE /\ t[j] \in Jumps /\ j + 1 + t[j].skip \in 1..n + 1
                 /\ e[j + 1 + t[j].skip] = e[j]
                 /\ t[j].op = "jc" => e[j + 1] = e[j]
        <4> DEFINE k == t[j].skip
        <4>1. k \in Nat
          BY <3>4 DEF Jumps
        <4> HIDE DEF k
        <4>2. m + (j + 1 + k) = i + 1 + k
          BY <1>1, <3>1, <4>1
        <4>3. j + 1 + k \in 1..n + 1 /\ e[j + 1 + k] = e[j]
          BY <3>4 DEF k
        <4>4. g[i + 1 + k] = g[i] /\ i + 1 + k \in 1..Len(u) + 1
          BY <1>1, <1>2, <1>5, <3>2, <4>1, <4>2, <4>3
        <4>5. QED
          BY <3>1, <3>2, <3>4, <4>4, Zenon DEF StepsBy, k
      <3>5. QED
        BY <3>2, <3>3, <3>4, Zenon DEF StepsBy, n
    <2>3. QED
      BY <2>1, <2>2
  <1>9. QED
    BY <1>2, <1>6, <1>7, <1>8 DEF Runs, u

\* A piece of which each instruction pushes alike.
LEMMA RunsAlike ==
  ASSUME NEW s \in Seq(Plain), NEW k \in {-1, 0, 1}, NEW n \in Int, NEW f \in {0, 1},
         \A i \in 1..Len(s) : WordsPushed(s[i]) = k /\ s[i] \notin Raising \union Clears
  PROVE  Runs(s, <<n, f>>, <<n + k * Len(s), f>>)
  <1> DEFINE d == [i \in 1..Len(s) + 1 |-> <<n + k * (i - 1), f>>]
  <1>1. Len(s) \in Nat /\ \A i \in 1..Len(s) : s[i] \in Plain
    BY LenProperties
  <1>2. s \in Seq(Instructions)
    BY <1>1 DEF Instructions
  <1>3. \A i \in Int : k * i \in Int /\ n + k * i + k = n + k * (i + 1) /\ k * 0 = 0
    OBVIOUS
  <1>4. d \in [1..Len(s) + 1 -> Levels]
    <2>1. \A i \in 1..Len(s) + 1 : <<n + k * (i - 1), f>> \in Levels
      BY <1>1, <1>3 DEF Levels
    <2>2. QED
      BY <2>1
  <1>5. d[1] = <<n, f>> /\ d[Len(s) + 1] = <<n + k * Len(s), f>>
    <2>1. d[1] = <<n + k * (1 - 1), f>> /\ 1 - 1 = 0
      BY <1>1
    <2>2. d[Len(s) + 1] = <<n + k * ((Len(s) + 1) - 1), f>> /\ (Len(s) + 1) - 1 = Len(s)
      BY <1>1
    <2>3. n + k * 0 = n
      BY <1>3
    <2>4. QED
      BY <2>1, <2>2, <2>3
  <1>6. ASSUME NEW i \in 1..Len(s) PROVE StepsBy(d, s, i)
    <2>1. d[i] = <<n + k * (i - 1), f>> /\ d[i + 1] = <<n + k * ((i + 1) - 1), f>>
      BY <1>1
    <2>2. (i - 1) \in Int /\ (i - 1) + 1 = i /\ (i + 1) - 1 = i
      BY <1>1
    <2>3. n + k * (i - 1) + k = n + k * i
      BY <1>3, <2>2
    <2>4. Then(s[i], d[i]) = <<n + k * (i - 1) + k, f>>
      BY <2>1 DEF Then, Turned
    <2>5. QED
      BY <1>1, <2>1, <2>2, <2>3, <2>4, Zenon DEF StepsBy
  <1> HIDE DEF d
  <1>7. QED
    BY <1>2, <1>4, <1>5, <1>6 DEF Runs

-----------------------------------------------------------------------------
(* Interrupts: pieces of one kind of instruction.                          *)

LEMMA RunInTurn == \A s, t, p, q, r : Runs(s, p, q) /\ Runs(t, q, r) => Runs(s \o t, p, r)
  BY RunsBoth

LEMMA LoneIs == \A i \in Lone : i.op \in {"sbb cx", "rep movs", "int bdos", "int dos", "set errno"}
  <1>1. \A x : Op(x).op = x
    BY DEF Op
  <1>2. QED
    BY <1>1 DEF Lone

LEMMA NeutralIs ==
  \A i \in Neutral : WordsPushed(i) = 0 /\ i \in Plain /\ i \notin Raising \union Clears
  <1> TAKE i \in Neutral
  <1>1. i \in Plain
    BY DEF Plain
  <1>2. i.op \notin {"push", "pop", "thunk", "int"}
    <2>1. CASE i \in Moving
      BY <2>1 DEF Moving
    <2>2. CASE i \in Swapping
      BY <2>2 DEF Swapping
    <2>3. CASE i \in Loading
      BY <2>3 DEF Loading
    <2>4. CASE i \in Testing
      BY <2>4 DEF Testing
    <2>5. CASE i \in Lone
      BY <2>5, LoneIs
    <2>6. QED
      BY <2>1, <2>2, <2>3, <2>4, <2>5 DEF Neutral
  <1>3. WordsPushed(i) = 0 /\ i \notin Raising
    BY <1>2 DEF WordsPushed, Raising, Op
  <1>4. i \notin Clears
    <2> SUFFICES ASSUME i = Mov(Imm(0), R("df")) PROVE FALSE
      BY DEF Clears
    <2>1. i.op = "mov" /\ i.dst = <<"reg", "df">>
      BY DEF Mov, R
    <2>2. i.dst \in InFree \union InWords
      <3>2. i \notin Lone
        BY <2>1, LoneIs
      <3>3. i \notin Swapping /\ i \notin Loading /\ i \notin Testing
        BY <2>1 DEF Swapping, Loading, Testing
      <3>4. i \in Moving
        BY <3>2, <3>3 DEF Neutral
      <3>5. QED
        BY <3>4 DEF Moving
    <2>3. <<"reg", "df">> \notin InFree
      BY DEF InFree, FreeRegs
    <2>4. <<"reg", "df">> \notin InWords
      BY DEF InWords
    <2>5. QED
      BY <2>1, <2>2, <2>3, <2>4
  <1>5. QED
    BY <1>1, <1>3, <1>4

\* Pieces of one kind.
LEMMA RunsQuiet == \A s \in Seq(Neutral) : \A l \in Levels : Runs(s, l, l)
  <1> TAKE s \in Seq(Neutral)
  <1> TAKE l \in Levels
  <1>1. PICK n \in Int, f \in {0, 1} : l = <<n, f>>
    BY DEF Levels
  <1>2. Len(s) \in Nat /\ \A i \in 1..Len(s) : s[i] \in Neutral
    BY LenProperties
  <1>3. s \in Seq(Plain)
    BY <1>2, NeutralIs
  <1>4. \A i \in 1..Len(s) : WordsPushed(s[i]) = 0 /\ s[i] \notin Raising \union Clears
    BY <1>2, NeutralIs
  <1>5. 0 * Len(s) = 0 /\ n + 0 = n
    BY <1>2
  <1>6. Runs(s, <<n, f>>, <<n + 0 * Len(s), f>>)
    BY <1>3, <1>4, RunsAlike
  <1>7. QED
    BY <1>1, <1>5, <1>6

LEMMA RunsPush ==
  \A i \in Pushing : \A n \in Int, f \in {0, 1} : Runs(<<i>>, <<n, f>>, <<n + 1, f>>)
  <1> TAKE i \in Pushing
  <1> TAKE n \in Int, f \in {0, 1}
  <1>1. i \in Plain /\ i.op = "push"
    BY DEF Plain, Pushing
  <1>2. WordsPushed(i) = 1 /\ i \notin Raising \union Clears
    BY <1>1 DEF WordsPushed, Raising, Clears, Op, Mov
  <1>3. <<i>> \in Seq(Plain) /\ Len(<<i>>) = 1 /\ \A j \in 1..1 : <<i>>[j] = i
    BY <1>1
  <1>4. Runs(<<i>>, <<n, f>>, <<n + 1 * Len(<<i>>), f>>)
    BY <1>2, <1>3, RunsAlike
  <1>5. 1 * Len(<<i>>) = 1
    BY <1>3
  <1>6. QED
    BY <1>4, <1>5

LEMMA RunsPop == \A i \in Popping : \A n \in Int, f \in {0, 1} : Runs(<<i>>, <<n, f>>, <<n - 1, f>>)
  <1> TAKE i \in Popping
  <1> TAKE n \in Int, f \in {0, 1}
  <1>1. i \in Plain /\ i.op = "pop"
    BY DEF Plain, Popping
  <1>2. WordsPushed(i) = -1 /\ i \notin Raising \union Clears
    BY <1>1 DEF WordsPushed, Raising, Clears, Op, Mov
  <1>3. <<i>> \in Seq(Plain) /\ Len(<<i>>) = 1 /\ \A j \in 1..1 : <<i>>[j] = i
    BY <1>1
  <1>4. Runs(<<i>>, <<n, f>>, <<n + (-1) * Len(<<i>>), f>>)
    BY <1>2, <1>3, RunsAlike
  <1>5. n + (-1) * Len(<<i>>) = n - 1
    BY <1>3
  <1>6. QED
    BY <1>4, <1>5

\* One instruction of any kind.
LEMMA RunsOne == \A i \in Plain : \A l \in Levels : Runs(<<i>>, l, Then(i, l))
  <1> TAKE i \in Plain
  <1> TAKE l \in Levels
  <1> DEFINE m == Then(i, l)
             d == [j \in 1..Len(<<i>>) + 1 |-> IF j = 1 THEN l ELSE m]
  <1>1. m \in Levels
    BY ThenIsLevel
  <1>2. <<i>> \in Seq(Instructions) /\ Len(<<i>>) = 1 /\ \A j \in 1..1 : <<i>>[j] = i /\ j = 1
    BY DEF Instructions
  <1> HIDE DEF m
  <1>3. d \in [1..Len(<<i>>) + 1 -> Levels]
    BY <1>1
  <1>4. d[1] = l /\ d[1 + 1] = m
    BY <1>2
  <1>5. \A j \in 1..Len(<<i>>) : StepsBy(d, <<i>>, j)
    <2> HIDE DEF d
    <2> TAKE j \in 1..Len(<<i>>)
    <2>1. j = 1 /\ <<i>>[j] = i
      BY <1>2
    <2>2. d[j + 1] = Then(i, d[j])
      BY <1>4, <2>1 DEF m
    <2>3. QED
      BY <2>1, <2>2 DEF StepsBy
  <1> HIDE DEF d
  <1>6. QED
    BY <1>2, <1>3, <1>4, <1>5 DEF Runs, m

LEMMA RunsInt == \A n \in Int, f \in {0, 1} : /\ Runs(<<Op("int")>>, <<n, f>>, <<n, 1>>)
                                              /\ Runs(<<Op("thunk")>>, <<n, f>>, <<n - 2, 1>>)
                                              /\ Runs(Cld, <<n, f>>, <<n, 0>>)
  <1> TAKE n \in Int, f \in {0, 1}
  <1> DEFINE l == <<n, f>>
  <1>1. l \in Levels /\ l[1] = n /\ l[2] = f
    BY DEF Levels
  <1>2. Op("int") \in Plain /\ Op("thunk") \in Plain /\ Mov(Imm(0), R("df")) \in Plain
    BY DEF Plain, Raising, Clears
  <1>3. Mov(Imm(0), R("df")) \notin Raising
    BY DEF Raising, Mov, Op
  <1>4. WordsPushed(Op("int")) = 0 /\ WordsPushed(Op("thunk")) = -2 /\ WordsPushed(Mov(Imm(0), R("df"))) = 0
    BY DEF WordsPushed, Op, Mov
  <1>5. Turned(Op("int"), f) = 1 /\ Turned(Op("thunk"), f) = 1
        /\ Turned(Mov(Imm(0), R("df")), f) = 0
    BY <1>3 DEF Turned, Raising, Clears
  <1> HIDE DEF l
  <1>6. Then(Op("int"), l) = <<n, 1>> /\ Then(Op("thunk"), l) = <<n - 2, 1>>
        /\ Then(Mov(Imm(0), R("df")), l) = <<n, 0>>
    BY <1>1, <1>4, <1>5 DEF Then
  <1>7. QED
    BY <1>1, <1>2, <1>6, RunsOne, Zenon DEF Cld, l

\* A tuple is its first and the others.
LEMMA RunsTuple ==
  /\ \A a, b, p, q, r : Runs(<<a>>, p, q) /\ Runs(<<b>>, q, r) => Runs(<<a, b>>, p, r)
  /\ \A a, b, c, p, q, r : Runs(<<a>>, p, q) /\ Runs(<<b, c>>, q, r) => Runs(<<a, b, c>>, p, r)
  /\ \A a, b, c, d, p, q, r :
       Runs(<<a>>, p, q) /\ Runs(<<b, c, d>>, q, r) => Runs(<<a, b, c, d>>, p, r)
  <1>1. \A a, b : <<a, b>> = <<a>> \o <<b>>
    <2> TAKE a, b
    <2> DEFINE S == {a, b}
    <2>1. <<a>> \in Seq(S) /\ <<b>> \in Seq(S) /\ Len(<<a>>) = 1 /\ Len(<<b>>) = 1
      OBVIOUS
    <2>2. <<a, b>> \in Seq(S) /\ Len(<<a, b>>) = 2
      OBVIOUS
    <2>3. Len(<<a>> \o <<b>>) = 2 /\ (<<a>> \o <<b>>)[1] = a /\ (<<a>> \o <<b>>)[2] = b
          /\ <<a>> \o <<b>> \in Seq(S)
      BY <2>1, ConcatProperties
    <2> HIDE DEF S
    <2>4. \A i \in 1..2 : <<a, b>>[i] = (<<a>> \o <<b>>)[i]
      BY <2>3
    <2>5. QED
      BY <2>2, <2>3, <2>4, SeqEqual
  <1>2. \A a, b, c : <<a, b, c>> = <<a>> \o <<b, c>>
    OBVIOUS
  <1>3. \A a, b, c, d : <<a, b, c, d>> = <<a>> \o <<b, c, d>>
    OBVIOUS
  <1>4. \A a, b, p, q, r : Runs(<<a>>, p, q) /\ Runs(<<b>>, q, r) => Runs(<<a, b>>, p, r)
    <2> TAKE a, b, p, q, r
    <2>1. Runs(<<a>>, p, q) /\ Runs(<<b>>, q, r) => Runs(<<a>> \o <<b>>, p, r)
      BY RunInTurn, Zenon
    <2>2. QED
      BY <1>1, <2>1, Zenon
  <1>5. \A a, b, c, p, q, r : Runs(<<a>>, p, q) /\ Runs(<<b, c>>, q, r) => Runs(<<a, b, c>>, p, r)
    <2> TAKE a, b, c, p, q, r
    <2>1. Runs(<<a>>, p, q) /\ Runs(<<b, c>>, q, r) => Runs(<<a>> \o <<b, c>>, p, r)
      BY RunInTurn, Zenon
    <2>2. QED
      BY <1>2, <2>1, Zenon
  <1>6. \A a, b, c, d, p, q, r :
          Runs(<<a>>, p, q) /\ Runs(<<b, c, d>>, q, r) => Runs(<<a, b, c, d>>, p, r)
    <2> TAKE a, b, c, d, p, q, r
    <2>1. Runs(<<a>>, p, q) /\ Runs(<<b, c, d>>, q, r) => Runs(<<a>> \o <<b, c, d>>, p, r)
      BY RunInTurn, Zenon
    <2>2. QED
      BY <1>3, <2>1, Zenon
  <1>7. QED
    BY <1>4, <1>5, <1>6, Zenon

-----------------------------------------------------------------------------
(* Interrupts: the operands and instructions that the macros make.         *)

\* Operands.
LEMMA RegIs == \A r \in AllRegs : R(r) \in Operands /\ R(r)[2] = r
  BY DEF R, Operands
LEMMA FreeIs ==
  \A r \in FreeRegs : R(r) \in InFree /\ R(r) \in Operands /\ R(r) \in InFree \union InWords
  BY DEF R, Operands, InFree, AllRegs
LEMMA ByteOperandIs == \A r \in FreeRegs : LowByte(r) \in InFree /\ HighByte(r) \in InFree
                                /\ LowByte(r) \in Operands /\ HighByte(r) \in Operands
  BY DEF LowByte, HighByte, Operands, InFree, AllRegs
LEMMA MemIs == \A s \in {"ds", "es", "ss"}, b \in {"bx", "si", "di", "bp"}, n \in Int :
                 Mem(s, b, n) \in InWords /\ Mem(s, b, n) \in Operands
  BY DEF Mem, InWords, Operands
LEMMA ImmIs == \A n \in Int : Imm(n) \in Operands
  BY DEF Imm, Operands

\* Instructions.
LEMMA MovIs ==
  \A s \in Operands, d \in InFree \union InWords : Mov(s, d) \in Neutral /\ MovB(s, d) \in Neutral
  BY DEF Mov, MovB, Neutral, Moving
LEMMA MovToReg == \A s \in Operands, r \in FreeRegs : Mov(s, R(r)) \in Neutral
  BY FreeIs, MovIs
LEMMA XchgIs == \A r, t \in FreeRegs : Xchg(R(r), R(t)) \in Neutral
  <1> TAKE r, t \in FreeRegs
  <1>1. R(r) \in InFree /\ R(t) \in InFree
    BY FreeIs
  <1>2. QED
    BY <1>1 DEF Xchg, Neutral, Swapping
LEMMA LsegIs == \A s \in InWords, r \in FreeRegs : Lseg("ds", s, R(r)) \in Neutral
  <1> TAKE s \in InWords, r \in FreeRegs
  <1>1. R(r) \in InFree
    BY FreeIs
  <1>2. QED
    BY <1>1 DEF Lseg, Neutral, Loading
LEMMA PushIs == \A s \in Operands : Push(s) \in Pushing
  BY DEF Push, Pushing
LEMMA PopIs == \A d \in InFree \union InWords : Pop(d) \in Popping
  BY DEF Pop, Popping
LEMMA LoneOp ==
  \A x \in {"sbb cx", "rep movs", "int bdos", "int dos", "set errno"} : Op(x) \in Neutral
  BY DEF Neutral, Lone

LEMMA OneQuiet == \A i \in Neutral : <<i>> \in Seq(Neutral)
  OBVIOUS
LEMMA NoneQuiet == <<>> \in Seq(Neutral)
  OBVIOUS
LEMMA BothQuiet == \A s, t \in Seq(Neutral) : s \o t \in Seq(Neutral)
  BY ConcatProperties

\* The macros of call-cvt.h.
LEMMA RegArgsIs == \A b, two : RegArgs(b, two) \in {0, 2, 3} /\ FarAdj(b) \in {0, 1}
                               /\ (two = TRUE => RegArgs(b, two) <= 2)
  BY DEF RegArgs, FarAdj
LEMMA ArgRegIs == \A k \in 0..2 : ArgRegs[k + 1] \in {"ax", "dx", "cx"}
  BY DEF ArgRegs
LEMMA ArgIs == \A b, two : \A k \in 0..4 : /\ ArgW(b, k, two) \in Operands
                                           /\ ~(k < RegArgs(b, two)) => ArgW(b, k, two) \in InWords
  <1> TAKE b, two
  <1> TAKE k \in 0..4
  <1> DEFINE n == RegArgs(b, two)
             m == FarAdj(b)
  <1>1. n \in {0, 2, 3} /\ m \in {0, 1}
    BY RegArgsIs
  <1>2. CASE k < n
    <2>1. k \in 0..2
      BY <1>1, <1>2
    <2>2. ArgRegs[k + 1] \in AllRegs
      BY <2>1, ArgRegIs DEF AllRegs, FreeRegs
    <2>3. ArgW(b, k, two) = R(ArgRegs[k + 1])
      BY <1>2 DEF ArgW
    <2>4. QED
      BY <1>2, <2>2, <2>3, RegIs
  <1>3. CASE ~(k < n)
    <2>1. ArgW(b, k, two) = Mem("ds", "bx", m + 1 + k - n)
      BY <1>3 DEF ArgW
    <2>2. m + 1 + k - n \in Int
      BY <1>1
    <2> HIDE DEF m, n
    <2>3. QED
      BY <2>1, <2>2, MemIs
  <1>4. QED
    BY <1>2, <1>3

LEMMA EnterIs == \A b, n, two : EnterBx(b, n, two) \in Seq(Neutral)
  <1>1. Mov(R("sp"), R("bx")) \in Neutral
    BY RegIs, MovToReg DEF AllRegs, FreeRegs
  <1>2. QED
    BY <1>1, OneQuiet, NoneQuiet DEF EnterBx

LEMMA MovArgIs == \A b, two : \A k \in 0..4, r \in FreeRegs : MovArg(b, k, two, r) \in Seq(Neutral)
  BY ArgIs, MovToReg, OneQuiet, NoneQuiet DEF MovArg

LEMMA MovArgBIs == \A b : \A k \in 0..4, d \in InFree : MovArgB(b, k, d) \in Seq(Neutral)
  <1> TAKE b
  <1> TAKE k \in 0..4, d \in InFree
  <1>1. MovB(ArgW(b, k, FALSE), d) \in Neutral
    BY ArgIs, MovIs
  <1>2. QED
    BY <1>1, OneQuiet, NoneQuiet DEF MovArgB

LEMMA MovArgClobberIs == \A b : \A k \in 0..2, r \in FreeRegs : MovArgClobber(b, k, r) \in Seq(Neutral)
  <1> TAKE b
  <1> TAKE k \in 0..2, r \in FreeRegs
  <1>1. MovArg(b, k, FALSE, r) \in Seq(Neutral)
    <2>1. k \in 0..4
      OBVIOUS
    <2>2. QED
      BY <2>1, MovArgIs
  <1>2. ArgRegs[k + 1] \in FreeRegs /\ "ax" \in FreeRegs
    BY ArgRegIs DEF FreeRegs
  <1>3. Xchg(R("ax"), R(IF k = 0 THEN r ELSE ArgRegs[k + 1])) \in Neutral
    BY <1>2, XchgIs
  <1>4. QED
    BY <1>1, <1>3, OneQuiet DEF MovArgClobber

\* A layout has the fields that are loaded from it and stored into it.
Fields == {"ax", "bx", "cx", "dx", "si", "di", "bp", "cflag", "flags", "es", "cs", "ss", "ds"}
FieldsOf(layout) == {layout[i] : i \in DOMAIN layout}
LEMMA FieldIs == \A layout \in Seq(Fields) : \A f \in FieldsOf(layout) : FieldAt(layout, f) \in Int
  <1> TAKE layout \in Seq(Fields)
  <1> TAKE f \in FieldsOf(layout)
  <1>1. DOMAIN layout \subseteq Nat
    OBVIOUS
  <1>2. \E i \in DOMAIN layout : layout[i] = f
    BY DEF FieldsOf
  <1>3. (CHOOSE i \in DOMAIN layout : layout[i] = f) \in DOMAIN layout
    BY <1>2
  <1>4. QED
    BY <1>1, <1>3 DEF FieldAt

LEMMA LayoutsAre ==
  /\ WordRegs \in Seq(Fields) /\ SRegs \in Seq(Fields) /\ RegPack \in Seq(Fields)
  /\ {"ax", "bx", "cx", "dx", "si", "di", "bp", "cflag", "flags"} \subseteq FieldsOf(WordRegs)
  /\ {"es", "cs", "ss", "ds"} \subseteq FieldsOf(SRegs)
  /\ {"ax", "bx", "cx", "dx", "bp", "si", "di", "ds", "es", "flags"} \subseteq FieldsOf(RegPack)
  <1>1. WordRegs \in Seq(Fields)
        /\ {"ax", "bx", "cx", "dx", "si", "di", "bp", "cflag", "flags"} \subseteq FieldsOf(WordRegs)
    <2>1. WordRegs \in Seq(Fields) /\ Len(WordRegs) = 9
      BY DEF WordRegs, Fields
    <2>2. /\ WordRegs[1] = "ax" /\ WordRegs[2] = "bx" /\ WordRegs[3] = "cx"
          /\ WordRegs[4] = "dx" /\ WordRegs[5] = "si" /\ WordRegs[6] = "di"
          /\ WordRegs[7] = "bp" /\ WordRegs[8] = "cflag" /\ WordRegs[9] = "flags"
      BY DEF WordRegs, Fields
    <2>3. \A i \in 1..9 : WordRegs[i] \in FieldsOf(WordRegs)
      BY <2>1 DEF FieldsOf
    <2>4. /\ 1 \in 1..9 /\ 2 \in 1..9 /\ 3 \in 1..9 /\ 4 \in 1..9
          /\ 5 \in 1..9 /\ 6 \in 1..9 /\ 7 \in 1..9 /\ 8 \in 1..9
          /\ 9 \in 1..9
      OBVIOUS
    <2>5. QED
      BY <2>1, <2>2, <2>3, <2>4
  <1>2. SRegs \in Seq(Fields) /\ {"es", "cs", "ss", "ds"} \subseteq FieldsOf(SRegs)
    <2>1. SRegs \in Seq(Fields) /\ Len(SRegs) = 4
      BY DEF SRegs, Fields
    <2>2. /\ SRegs[1] = "es" /\ SRegs[2] = "cs" /\ SRegs[3] = "ss"
          /\ SRegs[4] = "ds"
      BY DEF SRegs, Fields
    <2>3. \A i \in 1..4 : SRegs[i] \in FieldsOf(SRegs)
      BY <2>1 DEF FieldsOf
    <2>4. /\ 1 \in 1..4 /\ 2 \in 1..4 /\ 3 \in 1..4 /\ 4 \in 1..4
      OBVIOUS
    <2>5. QED
      BY <2>1, <2>2, <2>3, <2>4
  <1>3. RegPack \in Seq(Fields)
        /\ {"ax", "bx", "cx", "dx", "bp", "si", "di", "ds", "es", "flags"} \subseteq FieldsOf(RegPack)
    <2>1. RegPack \in Seq(Fields) /\ Len(RegPack) = 10
      BY DEF RegPack, Fields
    <2>2. /\ RegPack[1] = "ax" /\ RegPack[2] = "bx" /\ RegPack[3] = "cx"
          /\ RegPack[4] = "dx" /\ RegPack[5] = "bp" /\ RegPack[6] = "si"
          /\ RegPack[7] = "di" /\ RegPack[8] = "ds" /\ RegPack[9] = "es"
          /\ RegPack[10] = "flags"
      BY DEF RegPack, Fields
    <2>3. \A i \in 1..10 : RegPack[i] \in FieldsOf(RegPack)
      BY <2>1 DEF FieldsOf
    <2>4. /\ 1 \in 1..10 /\ 2 \in 1..10 /\ 3 \in 1..10 /\ 4 \in 1..10
          /\ 5 \in 1..10 /\ 6 \in 1..10 /\ 7 \in 1..10 /\ 8 \in 1..10
          /\ 9 \in 1..10 /\ 10 \in 1..10
      OBVIOUS
    <2>5. QED
      BY <2>1, <2>2, <2>3, <2>4
  <1>4. QED
    BY <1>1, <1>2, <1>3

LEMMA LoadsAre ==
  \A layout \in Seq(Fields), b \in {"bx", "si", "di", "bp"} :
    \A rs \in Seq(FreeRegs \intersect FieldsOf(layout)) : Loads(layout, b, rs) \in Seq(Neutral)
  <1> TAKE layout \in Seq(Fields), b \in {"bx", "si", "di", "bp"}
  <1> TAKE rs \in Seq(FreeRegs \intersect FieldsOf(layout))
  <1>1. \A i \in DOMAIN rs : rs[i] \in FreeRegs /\ rs[i] \in FieldsOf(layout)
    OBVIOUS
  <1>2. \A i \in DOMAIN rs : Mov(Mem("ds", b, FieldAt(layout, rs[i])), R(rs[i])) \in Neutral
    BY <1>1, FieldIs, MemIs, MovToReg
  <1>3. DOMAIN rs = 1..Len(rs) /\ Len(rs) \in Nat
    OBVIOUS
  <1>4. QED
    BY <1>2, <1>3 DEF Loads

LEMMA StoresAre ==
  \A layout \in Seq(Fields), s \in {"ds", "es", "ss"}, b \in {"bx", "si", "di", "bp"} :
    \A rs \in Seq(AllRegs \intersect FieldsOf(layout)) : Stores(layout, s, b, rs) \in Seq(Neutral)
  <1> TAKE layout \in Seq(Fields), s \in {"ds", "es", "ss"}, b \in {"bx", "si", "di", "bp"}
  <1> TAKE rs \in Seq(AllRegs \intersect FieldsOf(layout))
  <1>1. \A i \in DOMAIN rs : rs[i] \in AllRegs /\ rs[i] \in FieldsOf(layout)
    OBVIOUS
  <1>2. \A i \in DOMAIN rs : Mov(R(rs[i]), Mem(s, b, FieldAt(layout, rs[i]))) \in Neutral
    BY <1>1, FieldIs, MemIs, MovIs, RegIs
  <1>3. DOMAIN rs = 1..Len(rs) /\ Len(rs) \in Nat
    OBVIOUS
  <1>4. QED
    BY <1>2, <1>3 DEF Stores

-----------------------------------------------------------------------------
(* Interrupts: the macros.                                                 *)

\* Levels, and a quiet piece at one of them.
LEMMA LevelIs == \A n \in Int, f \in {0, 1} : <<n, f>> \in Levels
  BY DEF Levels

LEMMA QuietRuns == \A s \in Seq(Neutral) : \A n \in Int, f \in {0, 1} : Runs(s, <<n, f>>, <<n, f>>)
  BY LevelIs, RunsQuiet

LEMMA PushesRun == \A rs \in Seq(AllRegs) : \A n \in Int, f \in {0, 1} :
                     Runs(Pushes(rs), <<n, f>>, <<n + Len(rs), f>>)
  <1> TAKE rs \in Seq(AllRegs)
  <1> TAKE n \in Int, f \in {0, 1}
  <1> DEFINE s == Pushes(rs)
  <1>1. Len(rs) \in Nat /\ DOMAIN rs = 1..Len(rs) /\ \A i \in DOMAIN rs : rs[i] \in AllRegs
    OBVIOUS
  <1>2. \A i \in DOMAIN rs : Push(R(rs[i])) \in Pushing
    BY <1>1, RegIs, PushIs
  <1>3. \A i \in Pushing : i \in Plain /\ WordsPushed(i) = 1 /\ i \notin Raising \union Clears
    <2> TAKE i \in Pushing
    <2>1. i.op = "push" /\ i \in Plain
      BY DEF Pushing, Plain
    <2>2. QED
      BY <2>1 DEF WordsPushed, Raising, Clears, Op, Mov
  <1>4. s = [i \in 1..Len(rs) |-> Push(R(rs[i]))]
    BY <1>1 DEF Pushes
  <1>5. \A i \in 1..Len(rs) : s[i] \in Pushing /\ s[i] \in Plain
    BY <1>1, <1>2, <1>3, <1>4
  <1>6. s \in Seq(Plain) /\ Len(s) = Len(rs)
    BY <1>1, <1>4, <1>5
  <1> HIDE DEF s
  <1>7. Runs(s, <<n, f>>, <<n + 1 * Len(s), f>>)
    BY <1>3, <1>5, <1>6, RunsAlike
  <1>8. n + 1 * Len(s) = n + Len(rs)
    BY <1>1, <1>6
  <1>9. QED
    BY <1>7, <1>8 DEF s

LEMMA PopsRun == \A rs \in Seq(FreeRegs) : \A n \in Int, f \in {0, 1} :
                   Runs(Pops(rs), <<n, f>>, <<n - Len(rs), f>>)
  <1> TAKE rs \in Seq(FreeRegs)
  <1> TAKE n \in Int, f \in {0, 1}
  <1> DEFINE s == Pops(rs)
  <1>1. Len(rs) \in Nat /\ DOMAIN rs = 1..Len(rs) /\ \A i \in DOMAIN rs : rs[i] \in FreeRegs
    OBVIOUS
  <1>2. \A i \in DOMAIN rs : Pop(R(rs[i])) \in Popping
    BY <1>1, FreeIs, PopIs
  <1>3. \A i \in Popping : i \in Plain /\ WordsPushed(i) = -1 /\ i \notin Raising \union Clears
    <2> TAKE i \in Popping
    <2>1. i.op = "pop" /\ i \in Plain
      BY DEF Popping, Plain
    <2>2. QED
      BY <2>1 DEF WordsPushed, Raising, Clears, Op, Mov
  <1>4. s = [i \in 1..Len(rs) |-> Pop(R(rs[i]))]
    BY <1>1 DEF Pops
  <1>5. \A i \in 1..Len(rs) : s[i] \in Popping /\ s[i] \in Plain
    BY <1>1, <1>2, <1>3, <1>4
  <1>6. s \in Seq(Plain) /\ Len(s) = Len(rs)
    BY <1>1, <1>4, <1>5
  <1> HIDE DEF s
  <1>7. Runs(s, <<n, f>>, <<n + (-1) * Len(s), f>>)
    BY <1>3, <1>5, <1>6, RunsAlike
  <1>8. n + (-1) * Len(s) = n - Len(rs)
    BY <1>1, <1>6
  <1>9. QED
    BY <1>7, <1>8 DEF s

LEMMA PushRuns == \A o \in Operands : \A n \in Int, f \in {0, 1} :
                    Runs(<<Push(o)>>, <<n, f>>, <<n + 1, f>>)
  BY PushIs, RunsPush
LEMMA PopRuns == \A o \in InFree \union InWords : \A n \in Int, f \in {0, 1} :
                   Runs(<<Pop(o)>>, <<n, f>>, <<n - 1, f>>)
  BY PopIs, RunsPop

LEMMA PushImmRuns == \A b : \A c \in Int, r \in FreeRegs : \A n \in Int, f \in {0, 1} :
                       Runs(PushImmVia(b, c, r), <<n, f>>, <<n + 1, f>>)
  <1> TAKE b
  <1> TAKE c \in Int, r \in FreeRegs
  <1> TAKE n \in Int, f \in {0, 1}
  <1>1. Runs(<<Push(Imm(c))>>, <<n, f>>, <<n + 1, f>>)
    BY ImmIs, PushRuns
  <1>2. Runs(<<Mov(Imm(c), R(r))>>, <<n, f>>, <<n, f>>)
    BY ImmIs, MovToReg, OneQuiet, QuietRuns
  <1>3. Runs(<<Push(R(r))>>, <<n, f>>, <<n + 1, f>>)
    BY FreeIs, PushRuns
  <1>4. Runs(<<Mov(Imm(c), R(r)), Push(R(r))>>, <<n, f>>, <<n + 1, f>>)
    BY <1>2, <1>3, RunsTuple, Zenon
  <1>5. QED
    BY <1>1, <1>4, Zenon DEF PushImmVia

\* The macros of struc.h.
LEMMA LoadRegsIs == LoadUnionRegsBx \in Seq(Neutral)
  <1>1. FieldAt(WordRegs, "cflag") \in Int
    BY LayoutsAre, FieldIs
  <1>2. [op |-> "carry", src |-> Mem("ds", "bx", FieldAt(WordRegs, "cflag"))] \in Neutral
    BY <1>1, MemIs DEF Neutral, Testing
  <1>3. <<[op |-> "carry", src |-> Mem("ds", "bx", FieldAt(WordRegs, "cflag"))]>> \in Seq(Neutral)
    BY <1>2, OneQuiet, Zenon
  <1> DEFINE rs == <<"ax", "cx", "dx", "si", "di", "bp", "bx">>
  <1>4. rs \in Seq(FreeRegs \intersect FieldsOf(WordRegs))
    BY LayoutsAre DEF FreeRegs
  <1> HIDE DEF rs
  <1>5. Loads(WordRegs, "bx", rs) \in Seq(Neutral)
    BY <1>4, LoadsAre, LayoutsAre
  <1>6. QED
    BY <1>3, <1>5, BothQuiet, Zenon DEF LoadUnionRegsBx, rs

LEMMA LoadPackIs == LoadUnionRegPackDi \in Seq(Neutral)
  <1>1. FieldAt(RegPack, "di") \in Int
    BY LayoutsAre, FieldIs
  <1>2. Lseg("ds", Mem("ds", "di", FieldAt(RegPack, "di")), R("di")) \in Neutral
    BY <1>1, MemIs, LsegIs DEF FreeRegs
  <1>3. <<Lseg("ds", Mem("ds", "di", FieldAt(RegPack, "di")), R("di"))>> \in Seq(Neutral)
    BY <1>2, OneQuiet, Zenon
  <1> DEFINE rs == <<"ax", "bx", "cx", "dx", "bp", "si", "es">>
  <1>4. rs \in Seq(FreeRegs \intersect FieldsOf(RegPack))
    BY LayoutsAre DEF FreeRegs
  <1> HIDE DEF rs
  <1>5. Loads(RegPack, "di", rs) \in Seq(Neutral)
    BY <1>4, LoadsAre, LayoutsAre
  <1>6. QED
    BY <1>3, <1>5, BothQuiet, Zenon DEF LoadUnionRegPackDi, rs

\* The flags are pushed and popped into memory.
LEMMA FlagsRun == \A m \in InWords : \A n \in Int, f \in {0, 1} :
                    Runs(<<Push(R("flags")), Pop(m)>>, <<n, f>>, <<n, f>>)
  <1> TAKE m \in InWords
  <1> TAKE n \in Int, f \in {0, 1}
  <1>1. Runs(<<Push(R("flags"))>>, <<n, f>>, <<n + 1, f>>)
    BY FreeIs, PushRuns DEF FreeRegs
  <1>2. n + 1 \in Int /\ (n + 1) - 1 = n
    OBVIOUS
  <1>3. Runs(<<Pop(m)>>, <<n + 1, f>>, <<(n + 1) - 1, f>>)
    BY <1>2, PopRuns
  <1>4. Runs(<<Pop(m)>>, <<n + 1, f>>, <<n, f>>)
    BY <1>2, <1>3
  <1>5. QED
    BY <1>1, <1>4, RunsTuple, Zenon

LEMMA StoreRegsRun == \A b : \A n \in Int, f \in {0, 1} :
                        Runs(StoreUnionRegsBx(b), <<n, f>>, <<n - 1, f>>)
  <1> TAKE b
  <1> TAKE n \in Int, f \in {0, 1}
  <1> DEFINE A == <<Mov(R("ax"), Mem("ds", "bx", 0)), Pop(Mem("ds", "bx", 1))>>
             B == IF b.host = "ack" /\ b.bc THEN Loads(WordRegs, "bx", <<"cx">>)
                  ELSE Stores(WordRegs, "ds", "bx", <<"cx">>)
             C == Stores(WordRegs, "ds", "bx", <<"dx", "si", "di", "bp">>)
             D == IF b.bc
                  THEN <<Push(R("flags")), Pop(Mem("ds", "bx", FieldAt(WordRegs, "flags")))>>
                  ELSE <<>>
             E == <<Op("sbb cx"), Mov(R("cx"), Mem("ds", "bx", FieldAt(WordRegs, "cflag")))>>
             p == <<n, f>>
             q == <<n - 1, f>>
  <1>1. Runs(A, p, q)
    <2>1. Mem("ds", "bx", 0) \in InWords /\ Mem("ds", "bx", 1) \in InWords
      BY MemIs
    <2>2. Mov(R("ax"), Mem("ds", "bx", 0)) \in Neutral
      BY <2>1, FreeIs, MovIs DEF FreeRegs
    <2>3. Runs(<<Mov(R("ax"), Mem("ds", "bx", 0))>>, p, p)
      BY <2>2, OneQuiet, QuietRuns
    <2>4. Runs(<<Pop(Mem("ds", "bx", 1))>>, p, q)
      BY <2>1, PopRuns
    <2>5. QED
      BY <2>3, <2>4, RunsTuple, Zenon
  <1>2. n - 1 \in Int
    OBVIOUS
  <1>3. Runs(B, q, q)
    <2>1. <<"cx">> \in Seq(FreeRegs \intersect FieldsOf(WordRegs))
          /\ <<"cx">> \in Seq(AllRegs \intersect FieldsOf(WordRegs))
      BY LayoutsAre DEF FreeRegs, AllRegs
    <2>2. Loads(WordRegs, "bx", <<"cx">>) \in Seq(Neutral)
      BY <2>1, LoadsAre, LayoutsAre
    <2>3. Stores(WordRegs, "ds", "bx", <<"cx">>) \in Seq(Neutral)
      BY <2>1, StoresAre, LayoutsAre
    <2>4. B \in Seq(Neutral)
      BY <2>2, <2>3, Zenon
    <2> HIDE DEF B
    <2>5. QED
      BY <1>2, <2>4, QuietRuns
  <1>4. Runs(C, q, q)
    <2> DEFINE rs == <<"dx", "si", "di", "bp">>
    <2>1. rs \in Seq(AllRegs \intersect FieldsOf(WordRegs))
      BY LayoutsAre DEF FreeRegs, AllRegs
    <2> HIDE DEF rs
    <2>2. Stores(WordRegs, "ds", "bx", rs) \in Seq(Neutral)
      BY <2>1, StoresAre, LayoutsAre
    <2>3. QED
      BY <1>2, <2>2, QuietRuns DEF rs
  <1>5. Runs(D, q, q)
    <2>1. Mem("ds", "bx", FieldAt(WordRegs, "flags")) \in InWords
      BY LayoutsAre, FieldIs, MemIs
    <2>2. Runs(<<Push(R("flags")), Pop(Mem("ds", "bx", FieldAt(WordRegs, "flags")))>>, q, q)
      BY <1>2, <2>1, FlagsRun
    <2>3. Runs(<<>>, q, q)
      BY <1>2, LevelIs, RunsNone
    <2>4. QED
      BY <2>2, <2>3, Zenon
  <1>6. Runs(E, q, q)
    <2>1. Mem("ds", "bx", FieldAt(WordRegs, "cflag")) \in InWords
      BY LayoutsAre, FieldIs, MemIs
    <2>2. Mov(R("cx"), Mem("ds", "bx", FieldAt(WordRegs, "cflag"))) \in Neutral
      BY <2>1, FreeIs, MovIs DEF FreeRegs
    <2>3. Op("sbb cx") \in Neutral
      BY LoneOp
    <2>4. Runs(<<Op("sbb cx")>>, q, q)
      BY <1>2, <2>3, OneQuiet, QuietRuns
    <2>5. Runs(<<Mov(R("cx"), Mem("ds", "bx", FieldAt(WordRegs, "cflag")))>>, q, q)
      BY <1>2, <2>2, OneQuiet, QuietRuns
    <2>6. QED
      BY <2>4, <2>5, RunsTuple, Zenon
  <1>7. StoreUnionRegsBx(b) = A \o B \o C \o D \o E
    BY DEF StoreUnionRegsBx
  <1> HIDE DEF A, B, C, D, E, p, q
  <1>8. Runs(A \o B, p, q)
    BY <1>1, <1>3, RunInTurn, Zenon
  <1>9. Runs(A \o B \o C, p, q)
    BY <1>4, <1>8, RunInTurn, Zenon
  <1>10. Runs(A \o B \o C \o D, p, q)
    BY <1>5, <1>9, RunInTurn, Zenon
  <1>11. Runs(A \o B \o C \o D \o E, p, q)
    BY <1>6, <1>10, RunInTurn, Zenon
  <1>12. QED
    BY <1>7, <1>11, Zenon DEF p, q

LEMMA StorePackRuns == \A n \in Int, f \in {0, 1} :
                         Runs(StoreUnionRegPackBp, <<n, f>>, <<n - 1, f>>)
  <1> TAKE n \in Int, f \in {0, 1}
  <1> DEFINE A == Stores(RegPack, "ss", "bp", <<"ax", "bx", "cx", "dx">>)
             B == <<Pop(Mem("ss", "bp", FieldAt(RegPack, "bp")))>>
             C == Stores(RegPack, "ss", "bp", <<"si", "di", "ds", "es">>)
             D == <<Push(R("flags")), Pop(Mem("ss", "bp", FieldAt(RegPack, "flags")))>>
             p == <<n, f>>
             q == <<n - 1, f>>
  <1>1. n - 1 \in Int
    OBVIOUS
  <1>2. Runs(A, p, p)
    <2> DEFINE rs == <<"ax", "bx", "cx", "dx">>
    <2>1. rs \in Seq(AllRegs \intersect FieldsOf(RegPack))
      BY LayoutsAre DEF FreeRegs, AllRegs
    <2> HIDE DEF rs
    <2>2. Stores(RegPack, "ss", "bp", rs) \in Seq(Neutral)
      BY <2>1, StoresAre, LayoutsAre
    <2>3. QED
      BY <2>2, QuietRuns DEF rs
  <1>3. Runs(B, p, q)
    BY LayoutsAre, FieldIs, MemIs, PopRuns
  <1>4. Runs(C, q, q)
    <2> DEFINE rs == <<"si", "di", "ds", "es">>
    <2>1. rs \in Seq(AllRegs \intersect FieldsOf(RegPack))
      BY LayoutsAre DEF FreeRegs, AllRegs
    <2> HIDE DEF rs
    <2>2. Stores(RegPack, "ss", "bp", rs) \in Seq(Neutral)
      BY <2>1, StoresAre, LayoutsAre
    <2>3. QED
      BY <1>1, <2>2, QuietRuns DEF rs
  <1>5. Runs(D, q, q)
    <2>1. Mem("ss", "bp", FieldAt(RegPack, "flags")) \in InWords
      BY LayoutsAre, FieldIs, MemIs
    <2>2. QED
      BY <1>1, <2>1, FlagsRun
  <1>6. StoreUnionRegPackBp = A \o B \o C \o D
    BY DEF StoreUnionRegPackBp
  <1> HIDE DEF A, B, C, D, p, q
  <1>7. Runs(A \o B, p, q)
    BY <1>2, <1>3, RunInTurn, Zenon
  <1>8. Runs(A \o B \o C, p, q)
    BY <1>4, <1>7, RunInTurn, Zenon
  <1>9. Runs(A \o B \o C \o D, p, q)
    BY <1>5, <1>8, RunInTurn, Zenon
  <1>10. QED
    BY <1>6, <1>9, Zenon DEF p, q

-----------------------------------------------------------------------------
(* Interrupts: each routine comes down to where it started.                *)

\* The same of levels that are given one by one.
Goes(s, n, f, m, g) == Runs(s, <<n, f>>, <<m, g>>)

LEMMA GoesOn == \A s, t, n, f, m, g, k, h :
                  Goes(s, n, f, m, g) /\ Goes(t, m, g, k, h) => Goes(s \o t, n, f, k, h)
  BY RunInTurn, Zenon DEF Goes
LEMMA QuietGoes == \A s \in Seq(Neutral) : \A n \in Int, f \in {0, 1} : Goes(s, n, f, n, f)
  BY QuietRuns DEF Goes
LEMMA OneGoes == \A i \in Neutral : \A n \in Int, f \in {0, 1} : Goes(<<i>>, n, f, n, f)
  BY OneQuiet, QuietGoes
LEMMA PushGoes == \A o \in Operands : \A n, m \in Int, f \in {0, 1} :
                    m = n + 1 => Goes(<<Push(o)>>, n, f, m, f)
  BY PushRuns DEF Goes
LEMMA PopGoes == \A o \in InFree \union InWords : \A n, m \in Int, f \in {0, 1} :
                   m = n - 1 => Goes(<<Pop(o)>>, n, f, m, f)
  BY PopRuns DEF Goes
LEMMA PushesGo == \A rs \in Seq(AllRegs) : \A n, m \in Int, f \in {0, 1} :
                    m = n + Len(rs) => Goes(Pushes(rs), n, f, m, f)
  BY PushesRun DEF Goes
LEMMA PopsGo == \A rs \in Seq(FreeRegs) : \A n, m \in Int, f \in {0, 1} :
                  m = n - Len(rs) => Goes(Pops(rs), n, f, m, f)
  BY PopsRun DEF Goes
LEMMA PushImmGoes == \A b : \A c \in Int, r \in FreeRegs : \A n, m \in Int, f \in {0, 1} :
                       m = n + 1 => Goes(PushImmVia(b, c, r), n, f, m, f)
  BY PushImmRuns DEF Goes
LEMMA RaisingGoes == \A n, m \in Int, f \in {0, 1} :
                       /\ Goes(<<Op("int")>>, n, f, n, 1)
                       /\ m = n - 2 => Goes(<<Op("thunk")>>, n, f, m, 1)
                       /\ Goes(Cld, n, f, n, 0)
  BY RunsInt DEF Goes
LEMMA StorePackGoes ==
  \A n, m \in Int, f \in {0, 1} : m = n - 1 => Goes(StoreUnionRegPackBp, n, f, m, f)
  BY StorePackRuns DEF Goes
LEMMA TupleGoes ==
  /\ \A a, b, n, f, m, g, k, h :
       Goes(<<a>>, n, f, m, g) /\ Goes(<<b>>, m, g, k, h) => Goes(<<a, b>>, n, f, k, h)
  /\ \A a, b, c, n, f, m, g, k, h :
       Goes(<<a>>, n, f, m, g) /\ Goes(<<b, c>>, m, g, k, h) => Goes(<<a, b, c>>, n, f, k, h)
  /\ \A a, b, c, d, n, f, m, g, k, h :
       Goes(<<a>>, n, f, m, g) /\ Goes(<<b, c, d>>, m, g, k, h) => Goes(<<a, b, c, d>>, n, f, k, h)
  <1>1. \A a, b, n, f, m, g, k, h :
          Goes(<<a>>, n, f, m, g) /\ Goes(<<b>>, m, g, k, h) => Goes(<<a, b>>, n, f, k, h)
    <2> TAKE a, b, n, f, m, g, k, h
    <2>1. QED
      BY RunsTuple, Zenon DEF Goes
  <1>2. \A a, b, c, n, f, m, g, k, h :
          Goes(<<a>>, n, f, m, g) /\ Goes(<<b, c>>, m, g, k, h) => Goes(<<a, b, c>>, n, f, k, h)
    <2> TAKE a, b, c, n, f, m, g, k, h
    <2>1. QED
      BY RunsTuple, Zenon DEF Goes
  <1>3. \A a, b, c, d, n, f, m, g, k, h :
          Goes(<<a>>, n, f, m, g) /\ Goes(<<b, c, d>>, m, g, k, h) =>
            Goes(<<a, b, c, d>>, n, f, k, h)
    <2> TAKE a, b, c, d, n, f, m, g, k, h
    <2>1. QED
      BY RunsTuple, Zenon DEF Goes
  <1>4. QED
    BY <1>1, <1>2, <1>3, Zenon

\* Names and numbers that the routines use.
LEMMA FreeNames == /\ "ax" \in FreeRegs /\ "bx" \in FreeRegs /\ "cx" \in FreeRegs /\ "dx" \in FreeRegs
                   /\ "si" \in FreeRegs /\ "di" \in FreeRegs /\ "bp" \in FreeRegs /\ "es" \in FreeRegs
                   /\ "ds" \in FreeRegs /\ "flags" \in FreeRegs
  BY DEF FreeRegs
LEMMA AllNames == /\ "sp" \in AllRegs /\ "ss" \in AllRegs /\ \A r \in FreeRegs : r \in AllRegs
  BY DEF AllRegs
LEMMA SmallOnes == 0 \in 0..4 /\ 1 \in 0..4 /\ 2 \in 0..4 /\ 3 \in 0..4 /\ 4 \in 0..4
             /\ 0 \in 0..2 /\ 1 \in 0..2 /\ 2 \in 0..2
  OBVIOUS

\* A routine runs down to where it started, and returns.
Program(c, b, n, two) ==
  \E body : Goes(body, 0, 0, 0, 0) /\ c = body \o Ret(b, n, two)

LEMMA LikeIs == EsLikeDs \in Seq(Neutral) /\ DsLikeSs \in Seq(Neutral)
                /\ <<Mov(R("ss"), R("bx")), Mov(R("bx"), R("ds"))>> \in Seq(Neutral)
  <1>1. /\ Mov(R("ds"), R("si")) \in Neutral /\ Mov(R("si"), R("es")) \in Neutral
        /\ Mov(R("ss"), R("ds")) \in Neutral /\ Mov(R("ss"), R("bx")) \in Neutral
        /\ Mov(R("bx"), R("ds")) \in Neutral
    BY RegIs, MovToReg DEF AllRegs, FreeRegs
  <1>2. QED
    BY <1>1 DEF EsLikeDs, DsLikeSs

LEMMA StoreOutRun ==
  \A b : \A n, m \in Int, f \in {0, 1} : m = n - 1 => Goes(StoreOutRegs(b), n, f, m, f)
  <1> TAKE b
  <1> TAKE n, m \in Int, f \in {0, 1}
  <1> HAVE m = n - 1
  <1> DEFINE A == <<Mov(R("sp"), R("bx")), Mov(Mem("ds", "bx", 1), R("bx"))>>
             B == StoreUnionRegsBx(b)
  <1>1. Mov(R("sp"), R("bx")) \in Neutral /\ Mov(Mem("ds", "bx", 1), R("bx")) \in Neutral
    BY RegIs, MemIs, MovToReg DEF AllRegs, FreeRegs
  <1>2. A \in Seq(Neutral)
    BY <1>1
  <1> HIDE DEF A, B
  <1>3. Goes(A, n, f, n, f)
    BY <1>2, QuietGoes
  <1>4. Goes(B, n, f, m, f)
    BY StoreRegsRun DEF B, Goes
  <1>5. QED
    BY <1>3, <1>4, GoesOn, Zenon DEF StoreOutRegs, A, B

LEMMA StoreSegIs == StoreSegRegs \in Seq(Neutral)
  <1> DEFINE A == <<Mov(R("sp"), R("bx")), Mov(Mem("ss", "bx", 2), R("bx"))>>
             B == Stores(SRegs, "ss", "bx", <<"ds">>)
             C == Stores(SRegs, "ds", "bx", <<"es", "cs", "ss">>)
  <1>1. Mov(R("sp"), R("bx")) \in Neutral /\ Mov(Mem("ss", "bx", 2), R("bx")) \in Neutral
    BY RegIs, MemIs, MovToReg DEF AllRegs, FreeRegs
  <1>2. A \in Seq(Neutral)
    BY <1>1
  <1>3. B \in Seq(Neutral)
    <2>1. <<"ds">> \in Seq(AllRegs \intersect FieldsOf(SRegs))
      BY LayoutsAre DEF AllRegs, FreeRegs
    <2>2. QED
      BY <2>1, LayoutsAre, StoresAre
  <1>4. C \in Seq(Neutral)
    <2> DEFINE rs == <<"es", "cs", "ss">>
    <2>1. rs \in Seq(AllRegs \intersect FieldsOf(SRegs))
      BY LayoutsAre DEF AllRegs, FreeRegs
    <2> HIDE DEF rs
    <2>2. Stores(SRegs, "ds", "bx", rs) \in Seq(Neutral)
      BY <2>1, LayoutsAre, StoresAre
    <2>3. QED
      BY <2>2 DEF rs
  <1> HIDE DEF A, B, C
  <1>5. QED
    BY <1>2, <1>3, <1>4, LikeIs, BothQuiet, Zenon DEF StoreSegRegs, A, B, C

LEMMA SavedRun == \A f \in {0, 1} : /\ Goes(Pushes(Saved), 0, f, 4, f)
                                    /\ Goes(Restored, 4, f, 0, f)
  <1> DEFINE rs == <<"es", "di", "si", "bp">>
  <1>1. Saved \in Seq(AllRegs) /\ Len(Saved) = 4
    BY DEF Saved, AllRegs, FreeRegs
  <1>2. rs \in Seq(FreeRegs) /\ Len(rs) = 4
    BY DEF FreeRegs
  <1>3. Restored = Pops(rs)
    BY DEF Restored
  <1> HIDE DEF rs
  <1>4. 4 = 0 + Len(Saved) /\ 0 = 4 - Len(rs)
    BY <1>1, <1>2
  <1>5. 0 \in Int /\ 4 \in Int
    OBVIOUS
  <1>6. QED
    BY <1>1, <1>2, <1>3, <1>4, <1>5, PushesGo, PopsGo, Zenon

LEMMA SetErrnoRuns ==
  \A c, b, n : (Goes(c, 0, 0, 0, 0) => Program(c \o RetSetErrno(b, n), b, n, FALSE))
  <1> TAKE c, b, n
  <1> SUFFICES ASSUME Goes(c, 0, 0, 0, 0) PROVE Program(c \o RetSetErrno(b, n), b, n, FALSE)
    OBVIOUS
  <1> DEFINE s == <<Op("set errno")>>
             t == Ret(b, n, FALSE)
             i == [op |-> "ret", args |-> PopsArgs(b, n, FALSE)]
             S == Instructions \union {i}
  <1>1. Goes(s, 0, 0, 0, 0)
    <2> DEFINE o == Op("set errno")
    <2>1. o \in Neutral
      BY LoneOp
    <2> HIDE DEF o
    <2>2. Goes(<<o>>, 0, 0, 0, 0)
      BY <2>1, OneGoes
    <2>3. QED
      BY <2>2, Zenon DEF o, s
  <1>2. Goes(c \o s, 0, 0, 0, 0)
    BY <1>1, GoesOn, Zenon
  <1>3. c \in Seq(S) /\ s \in Seq(S)
    <2> HIDE DEF s
    <2>1. c \in Seq(Instructions) /\ s \in Seq(Instructions)
      BY <1>1 DEF Runs, Goes
    <2> HIDE DEF i
    <2>2. \A x \in Instructions : x \in S
      OBVIOUS
    <2> HIDE DEF S
    <2>3. QED
      BY <2>1, <2>2, Widened
  <1>4. t \in Seq(S)
    BY DEF Ret
  <1> HIDE DEF s, t, S
  <1>5. c \o (s \o t) = (c \o s) \o t
    BY <1>3, <1>4, ConcatAssociative, SMTT(30)
  <1>6. RetSetErrno(b, n) = s \o t
    BY DEF RetSetErrno, s, t
  <1>7. QED
    BY <1>2, <1>5, <1>6, Zenon DEF Program, t

LEMMA LdsArgIs == \A b : LdsArg(b, 2, TRUE, "si") \in Seq(Neutral)
  <1> TAKE b
  <1>1. ~(2 < RegArgs(b, TRUE)) /\ ArgW(b, 2, TRUE) \in InWords
    <2>1. ~(2 < RegArgs(b, TRUE))
      BY DEF RegArgs
    <2>2. QED
      BY <2>1, ArgIs, SmallOnes
  <1>2. Lseg("ds", ArgW(b, 2, TRUE), R("si")) \in Neutral
    BY <1>1, LsegIs DEF FreeRegs
  <1>3. QED
    BY <1>1, <1>2, OneQuiet DEF LdsArg

\* Either way of _dos_getftime's branch pops what is left of two addresses.
FtimesCode == <<Op("int dos"), Pop(R("bx")), Jc(4), Mov(R("cx"), Mem("ds", "bx", 0)), Pop(R("bx")),
                Mov(R("dx"), Mem("ds", "bx", 0)), [op |-> "skip", skip |-> 1], Pop(R("bx"))>>
LEMMA FtimesRun == Runs(FtimesCode, <<2, 0>>, <<0, 0>>)
  <1> DEFINE s == FtimesCode
             two == <<2, 0>>
             one == <<1, 0>>
             none == <<0, 0>>
             d == [i \in 1..9 |-> IF i <= 2 THEN two ELSE IF i \in {6, 7, 9} THEN none ELSE one]
             pop == Pop(R("bx"))
             cx == Mov(R("cx"), Mem("ds", "bx", 0))
             dx == Mov(R("dx"), Mem("ds", "bx", 0))
             skip == [op |-> "skip", skip |-> 1]
             jc == Jc(4)
             raise == Op("int dos")
  <1>1. /\ raise \in Neutral /\ cx \in Neutral /\ dx \in Neutral
        /\ pop \in Popping /\ jc \in Jumps /\ skip \in Jumps
    <2>1. Mem("ds", "bx", 0) \in InWords
      BY MemIs
    <2>2. cx \in Neutral /\ dx \in Neutral
      BY <2>1, RegIs, MovIs DEF AllRegs, FreeRegs
    <2>3. pop \in Popping
      BY FreeIs, PopIs DEF FreeRegs
    <2>4. jc \in Jumps /\ skip \in Jumps
      BY DEF Jc, Jumps
    <2>5. QED
      BY <2>2, <2>3, <2>4, LoneOp
  <1>2. \A i \in Neutral : i \in Plain /\ i \in Instructions /\ \A l \in Levels : Then(i, l) = l
    <2> TAKE i \in Neutral
    <2>1. i \in Plain /\ i \in Instructions /\ WordsPushed(i) = 0 /\ i \notin Raising \union Clears
      BY NeutralIs DEF Instructions
    <2>2. ASSUME NEW l \in Levels PROVE Then(i, l) = l
      <3>1. PICK n \in Int, f \in {0, 1} : l = <<n, f>>
        BY DEF Levels
      <3>2. QED
        BY <2>1, <3>1 DEF Then, Turned
    <2>3. QED
      BY <2>1, <2>2
  <1>3. /\ pop \in Plain /\ pop \in Instructions
        /\ Then(pop, two) = one /\ Then(pop, one) = none
    <2>1. pop \in Plain /\ pop \in Instructions
      BY <1>1 DEF Plain, Instructions
    <2>2. WordsPushed(pop) = -1 /\ pop \notin Raising \union Clears
      BY DEF Pop, WordsPushed, Raising, Clears, Op, Mov
    <2> HIDE DEF pop
    <2>3. QED
      BY <2>1, <2>2 DEF Then, Turned
  <1>4. jc.op = "jc" /\ jc.skip = 4 /\ skip.op = "skip" /\ skip.skip = 1
    BY DEF Jc
  <1>16. Len(s) = 8
    BY DEF FtimesCode
  <1>5. /\ s[1] = raise /\ s[2] = pop /\ s[3] = jc /\ s[4] = cx
        /\ s[5] = pop /\ s[6] = dx /\ s[7] = skip /\ s[8] = pop
    BY DEF FtimesCode
  <1>6. s \in Seq(Instructions)
    <2> HIDE DEF pop, cx, dx, skip, jc, raise
    <2>1. s = <<raise, pop, jc, cx, pop, dx, skip, pop>>
      BY DEF FtimesCode, pop, cx, dx, skip, jc, raise
    <2>2. /\ raise \in Instructions /\ cx \in Instructions /\ dx \in Instructions
          /\ pop \in Instructions /\ jc \in Instructions /\ skip \in Instructions
      BY <1>1, <1>2, <1>3 DEF Instructions
    <2> HIDE DEF s
    <2>3. <<raise, pop, jc, cx, pop, dx, skip, pop>> \in Seq(Instructions)
      BY <2>2
    <2>4. QED
      BY <2>1, <2>3, Zenon
  <1>7. d \in [1..Len(s) + 1 -> Levels]
    <2>1. two \in Levels /\ one \in Levels /\ none \in Levels
      BY DEF Levels
    <2> HIDE DEF two, one, none
    <2> HIDE DEF s
    <2>2. QED
      BY <1>16, <2>1
  <1>8. /\ d[1] = two /\ d[2] = two /\ d[3] = one /\ d[4] = one
        /\ d[5] = one /\ d[6] = none /\ d[7] = none /\ d[8] = one
        /\ d[9] = none
    OBVIOUS
  <1>9. two \in Levels /\ one \in Levels /\ none \in Levels
    BY DEF Levels
  <1> HIDE DEF s, d, pop, cx, dx, skip, jc, raise, two, one, none
  <1>10. StepsBy(d, s, 1) /\ StepsBy(d, s, 4) /\ StepsBy(d, s, 6)
    <2>1. Then(raise, two) = two /\ Then(cx, one) = one
          /\ Then(dx, none) = none
      BY <1>1, <1>2, <1>9
    <2>2. 1 + 1 = 2 /\ 4 + 1 = 5 /\ 6 + 1 = 7
      OBVIOUS
    <2>3. QED
      BY <1>1, <1>2, <1>5, <1>8, <2>1, <2>2 DEF StepsBy
  <1>11. StepsBy(d, s, 2) /\ StepsBy(d, s, 5) /\ StepsBy(d, s, 8)
    <2>2. 2 + 1 = 3 /\ 5 + 1 = 6 /\ 8 + 1 = 9
      OBVIOUS
    <2>3. QED
      BY <1>3, <1>5, <1>8, <2>2 DEF StepsBy
  <1>12. StepsBy(d, s, 3) /\ StepsBy(d, s, 7)
    <2>1. 3 + 1 = 4 /\ 3 + 1 + 4 = 8 /\ 7 + 1 + 1 = 9 /\ 8 \in 1..Len(s) + 1 /\ 9 \in 1..Len(s) + 1
      BY <1>16
    <2>2. QED
      BY <1>1, <1>4, <1>5, <1>8, <2>1 DEF StepsBy
  <1>13. \A i \in 1..Len(s) : StepsBy(d, s, i)
    <2>1. \A i \in 1..Len(s) : i \in {1, 4, 6} \/ i \in {2, 5, 8} \/ i \in {3, 7}
      BY <1>16
    <2>2. QED
      BY <1>10, <1>11, <1>12, <2>1
  <1>14. d[1] = two /\ d[Len(s) + 1] = none
    BY <1>16, <1>8
  <1>15. QED
    BY <1>6, <1>7, <1>13, <1>14, <1>16 DEF Runs, s, two, none

LEMMA IntdosRuns == \A b : Program(Intdos(b), b, 2, FALSE)
  <1> TAKE b
  <1> DEFINE P1 == EnterBx(b, 2, FALSE)
             P2 == Pushes(Saved)
             P3 == EsLikeDs
             P4 == <<Push(ArgW(b, 1, FALSE))>>
             P5 == MovArg(b, 0, FALSE, "bx")
             P6 == LoadUnionRegsBx
             P7 == <<Op("int")>>
             P8 == <<Push(R("bx"))>>
             P9 == <<Mov(R("ss"), R("bx")), Mov(R("bx"), R("ds"))>>
             P10 == StoreOutRegs(b)
             P11 == <<Pop(R("cx"))>>
             P12 == Cld
             P13 == Restored
  <1>1. Goes(P1, 0, 0, 0, 0)
    <2>1. P1 \in Seq(Neutral)
      BY EnterIs
    <2> HIDE DEF P1
    <2>2. QED
      BY <2>1, QuietGoes
  <1>2. Goes(P2, 0, 0, 4, 0)
    BY SavedRun
  <1>3. Goes(P3, 4, 0, 4, 0)
    <2>1. P3 \in Seq(Neutral)
      BY LikeIs
    <2> HIDE DEF P3
    <2>2. QED
      BY <2>1, QuietGoes
  <1>4. Goes(P4, 4, 0, 5, 0)
    <2> DEFINE o == ArgW(b, 1, FALSE)
    <2>1. o \in Operands
      BY ArgIs, SmallOnes
    <2> HIDE DEF o
    <2>2. Goes(<<Push(o)>>, 4, 0, 5, 0)
      BY <2>1, PushGoes
    <2>3. QED
      BY <2>2, Zenon DEF o, P4
  <1>5. Goes(P5, 5, 0, 5, 0)
    <2>1. P5 \in Seq(Neutral)
      BY MovArgIs, FreeNames, SmallOnes
    <2> HIDE DEF P5
    <2>2. QED
      BY <2>1, QuietGoes
  <1>6. Goes(P6, 5, 0, 5, 0)
    <2>1. P6 \in Seq(Neutral)
      BY LoadRegsIs
    <2> HIDE DEF P6
    <2>2. QED
      BY <2>1, QuietGoes
  <1>7. Goes(P7, 5, 0, 5, 1)
    BY RaisingGoes
  <1>8. Goes(P8, 5, 1, 6, 1)
    BY RegIs, FreeNames, AllNames, PushGoes
  <1>9. Goes(P9, 6, 1, 6, 1)
    <2>1. P9 \in Seq(Neutral)
      BY LikeIs
    <2> HIDE DEF P9
    <2>2. QED
      BY <2>1, QuietGoes
  <1>10. Goes(P10, 6, 1, 5, 1)
    BY StoreOutRun
  <1>11. Goes(P11, 5, 1, 4, 1)
    BY FreeIs, FreeNames, PopGoes
  <1>12. Goes(P12, 4, 1, 4, 0)
    BY RaisingGoes
  <1>13. Goes(P13, 4, 0, 0, 0)
    BY SavedRun
  <1> DEFINE Q2 == P1 \o P2
             Q3 == Q2 \o P3
             Q4 == Q3 \o P4
             Q5 == Q4 \o P5
             Q6 == Q5 \o P6
             Q7 == Q6 \o P7
             Q8 == Q7 \o P8
             Q9 == Q8 \o P9
             Q10 == Q9 \o P10
             Q11 == Q10 \o P11
             Q12 == Q11 \o P12
             Q13 == Q12 \o P13
  <1> HIDE DEF P1, P2, P3, P4, P5, P6, P7, P8, P9, P10, P11, P12, P13
  <1>14. Goes(Q2, 0, 0, 4, 0)
    BY <1>1, <1>2, GoesOn
  <1>15. Goes(Q3, 0, 0, 4, 0)
    BY <1>14, <1>3, GoesOn
  <1>16. Goes(Q4, 0, 0, 5, 0)
    BY <1>15, <1>4, GoesOn
  <1>17. Goes(Q5, 0, 0, 5, 0)
    BY <1>16, <1>5, GoesOn
  <1>18. Goes(Q6, 0, 0, 5, 0)
    BY <1>17, <1>6, GoesOn
  <1>19. Goes(Q7, 0, 0, 5, 1)
    BY <1>18, <1>7, GoesOn
  <1>20. Goes(Q8, 0, 0, 6, 1)
    BY <1>19, <1>8, GoesOn
  <1>21. Goes(Q9, 0, 0, 6, 1)
    BY <1>20, <1>9, GoesOn
  <1>22. Goes(Q10, 0, 0, 5, 1)
    BY <1>21, <1>10, GoesOn
  <1>23. Goes(Q11, 0, 0, 4, 1)
    BY <1>22, <1>11, GoesOn
  <1>24. Goes(Q12, 0, 0, 4, 0)
    BY <1>23, <1>12, GoesOn
  <1>25. Goes(Q13, 0, 0, 0, 0)
    BY <1>24, <1>13, GoesOn
  <1>26. Intdos(b) = Q13 \o Ret(b, 2, FALSE)
    BY DEF Intdos, P1, P2, P3, P4, P5, P6, P7, P8, P9, P10, P11, P12, P13
  <1>27. QED
    BY <1>25, <1>26, Zenon DEF Program

LEMMA IntdosxRuns == \A b : Program(Intdosx(b), b, 3, FALSE)
  <1> TAKE b
  <1> DEFINE P1 == EnterBx(b, 3, FALSE)
             P2 == Pushes(Saved)
             P3 == MovArg(b, 2, FALSE, "si")
             P4 == <<Push(R("si")), Mov(Mem("ds", "si", FieldAt(SRegs, "es")), R("es")),
                     Push(ArgW(b, 1, FALSE)), Push(Mem("ds", "si", FieldAt(SRegs, "ds")))>>
             P5 == MovArg(b, 0, FALSE, "bx")
             P6 == LoadUnionRegsBx
             P7 == <<Pop(R("ds")), Op("int"), Push(R("bx"))>>
             P8 == StoreSegRegs
             P9 == StoreOutRegs(b)
             P10 == Pops(<<"cx", "cx">>)
             P11 == Cld
             P12 == Restored
  <1>1. Goes(P1, 0, 0, 0, 0)
    <2>1. P1 \in Seq(Neutral)
      BY EnterIs
    <2> HIDE DEF P1
    <2>2. QED
      BY <2>1, QuietGoes
  <1>2. Goes(P2, 0, 0, 4, 0)
    BY SavedRun
  <1>3. Goes(P3, 4, 0, 4, 0)
    <2>1. P3 \in Seq(Neutral)
      BY MovArgIs, FreeNames, SmallOnes
    <2> HIDE DEF P3
    <2>2. QED
      BY <2>1, QuietGoes
  <1>4. Goes(P4, 4, 0, 7, 0)
    <2>1. Goes(<<Push(R("si"))>>, 4, 0, 5, 0)
      BY RegIs, FreeNames, AllNames, PushGoes
    <2>2. Goes(<<Mov(Mem("ds", "si", FieldAt(SRegs, "es")), R("es"))>>, 5, 0, 5, 0)
      <3>1. Mov(Mem("ds", "si", FieldAt(SRegs, "es")), R("es")) \in Neutral
        BY LayoutsAre, FieldIs, MemIs, MovToReg, FreeNames
      <3>2. QED
        BY <3>1, OneGoes
    <2>3. Goes(<<Push(ArgW(b, 1, FALSE))>>, 5, 0, 6, 0)
      <3> DEFINE o == ArgW(b, 1, FALSE)
      <3>1. o \in Operands
        BY ArgIs, SmallOnes
      <3> HIDE DEF o
      <3>2. Goes(<<Push(o)>>, 5, 0, 6, 0)
        BY <3>1, PushGoes
      <3>3. QED
        BY <3>2, Zenon DEF o
    <2>4. Goes(<<Push(Mem("ds", "si", FieldAt(SRegs, "ds")))>>, 6, 0, 7, 0)
      <3> DEFINE o == Mem("ds", "si", FieldAt(SRegs, "ds"))
      <3>1. o \in Operands
        BY LayoutsAre, FieldIs, MemIs
      <3> HIDE DEF o
      <3>2. Goes(<<Push(o)>>, 6, 0, 7, 0)
        BY <3>1, PushGoes
      <3>3. QED
        BY <3>2, Zenon DEF o
    <2>5. Goes(<<Push(ArgW(b, 1, FALSE)),
                Push(Mem("ds", "si", FieldAt(SRegs, "ds")))>>, 5, 0, 7, 0)
      BY <2>3, <2>4, TupleGoes, Zenon
    <2>6. Goes(<<Mov(Mem("ds", "si", FieldAt(SRegs, "es")), R("es")), Push(ArgW(b, 1, FALSE)),
                Push(Mem("ds", "si", FieldAt(SRegs, "ds")))>>, 5, 0, 7, 0)
      BY <2>2, <2>5, TupleGoes, Zenon
    <2>7. QED
      BY <2>1, <2>6, TupleGoes, Zenon
  <1>5. Goes(P5, 7, 0, 7, 0)
    <2>1. P5 \in Seq(Neutral)
      BY MovArgIs, FreeNames, SmallOnes
    <2> HIDE DEF P5
    <2>2. QED
      BY <2>1, QuietGoes
  <1>6. Goes(P6, 7, 0, 7, 0)
    <2>1. P6 \in Seq(Neutral)
      BY LoadRegsIs
    <2> HIDE DEF P6
    <2>2. QED
      BY <2>1, QuietGoes
  <1>7. Goes(P7, 7, 0, 7, 1)
    <2>1. Goes(<<Pop(R("ds"))>>, 7, 0, 6, 0)
      BY FreeIs, FreeNames, PopGoes
    <2>2. Goes(<<Op("int")>>, 6, 0, 6, 1)
      BY RaisingGoes
    <2>3. Goes(<<Push(R("bx"))>>, 6, 1, 7, 1)
      BY RegIs, FreeNames, AllNames, PushGoes
    <2>4. Goes(<<Op("int"), Push(R("bx"))>>, 6, 0, 7, 1)
      BY <2>2, <2>3, TupleGoes, Zenon
    <2>5. QED
      BY <2>1, <2>4, TupleGoes, Zenon
  <1>8. Goes(P8, 7, 1, 7, 1)
    <2>1. P8 \in Seq(Neutral)
      BY StoreSegIs
    <2> HIDE DEF P8
    <2>2. QED
      BY <2>1, QuietGoes
  <1>9. Goes(P9, 7, 1, 6, 1)
    BY StoreOutRun
  <1>10. Goes(P10, 6, 1, 4, 1)
    <2> DEFINE rs == <<"cx", "cx">>
    <2>1. rs \in Seq(FreeRegs) /\ 4 = 6 - Len(rs)
      BY DEF AllRegs, FreeRegs
    <2> HIDE DEF rs
    <2>2. Goes(Pops(rs), 6, 1, 4, 1)
      BY <2>1, 6 \in Int, 4 \in Int, 1 \in {0, 1}, PopsGo, Zenon
    <2>3. QED
      BY <2>2 DEF rs
  <1>11. Goes(P11, 4, 1, 4, 0)
    BY RaisingGoes
  <1>12. Goes(P12, 4, 0, 0, 0)
    BY SavedRun
  <1> DEFINE Q2 == P1 \o P2
             Q3 == Q2 \o P3
             Q4 == Q3 \o P4
             Q5 == Q4 \o P5
             Q6 == Q5 \o P6
             Q7 == Q6 \o P7
             Q8 == Q7 \o P8
             Q9 == Q8 \o P9
             Q10 == Q9 \o P10
             Q11 == Q10 \o P11
             Q12 == Q11 \o P12
  <1> HIDE DEF P1, P2, P3, P4, P5, P6, P7, P8, P9, P10, P11, P12
  <1>13. Goes(Q2, 0, 0, 4, 0)
    BY <1>1, <1>2, GoesOn
  <1>14. Goes(Q3, 0, 0, 4, 0)
    BY <1>13, <1>3, GoesOn
  <1>15. Goes(Q4, 0, 0, 7, 0)
    BY <1>14, <1>4, GoesOn
  <1>16. Goes(Q5, 0, 0, 7, 0)
    BY <1>15, <1>5, GoesOn
  <1>17. Goes(Q6, 0, 0, 7, 0)
    BY <1>16, <1>6, GoesOn
  <1>18. Goes(Q7, 0, 0, 7, 1)
    BY <1>17, <1>7, GoesOn
  <1>19. Goes(Q8, 0, 0, 7, 1)
    BY <1>18, <1>8, GoesOn
  <1>20. Goes(Q9, 0, 0, 6, 1)
    BY <1>19, <1>9, GoesOn
  <1>21. Goes(Q10, 0, 0, 4, 1)
    BY <1>20, <1>10, GoesOn
  <1>22. Goes(Q11, 0, 0, 4, 0)
    BY <1>21, <1>11, GoesOn
  <1>23. Goes(Q12, 0, 0, 0, 0)
    BY <1>22, <1>12, GoesOn
  <1>24. Intdosx(b) = Q12 \o Ret(b, 3, FALSE)
    BY DEF Intdosx, P1, P2, P3, P4, P5, P6, P7, P8, P9, P10, P11, P12
  <1>25. QED
    BY <1>23, <1>24, Zenon DEF Program

LEMMA Int86DoRuns == \A b : Program(Int86Do(b), b, 3, FALSE)
  <1> TAKE b
  <1> DEFINE P1 == EnterBx(b, 3, FALSE)
             P2 == Pushes(Saved)
             P3 == EsLikeDs
             P4 == <<Push(ArgW(b, 2, FALSE))>>
             P5 == PushImmVia(b, DoneLabel, "si")
             P6 == <<Push(ArgW(b, 0, FALSE))>>
             P7 == MovArg(b, 1, FALSE, "bx")
             P8 == LoadUnionRegsBx
             P9 == <<Op("thunk"), Push(R("bx"))>>
             P10 == <<Mov(R("ss"), R("bx")), Mov(R("bx"), R("ds"))>>
             P11 == StoreOutRegs(b)
             P12 == <<Pop(R("cx"))>>
             P13 == Cld
             P14 == Restored
  <1>1. Goes(P1, 0, 0, 0, 0)
    <2>1. P1 \in Seq(Neutral)
      BY EnterIs
    <2> HIDE DEF P1
    <2>2. QED
      BY <2>1, QuietGoes
  <1>2. Goes(P2, 0, 0, 4, 0)
    BY SavedRun
  <1>3. Goes(P3, 4, 0, 4, 0)
    <2>1. P3 \in Seq(Neutral)
      BY LikeIs
    <2> HIDE DEF P3
    <2>2. QED
      BY <2>1, QuietGoes
  <1>4. Goes(P4, 4, 0, 5, 0)
    <2> DEFINE o == ArgW(b, 2, FALSE)
    <2>1. o \in Operands
      BY ArgIs, SmallOnes
    <2> HIDE DEF o
    <2>2. Goes(<<Push(o)>>, 4, 0, 5, 0)
      BY <2>1, PushGoes
    <2>3. QED
      BY <2>2, Zenon DEF o, P4
  <1>5. Goes(P5, 5, 0, 6, 0)
    BY PushImmGoes, FreeNames DEF DoneLabel
  <1>6. Goes(P6, 6, 0, 7, 0)
    <2> DEFINE o == ArgW(b, 0, FALSE)
    <2>1. o \in Operands
      BY ArgIs, SmallOnes
    <2> HIDE DEF o
    <2>2. Goes(<<Push(o)>>, 6, 0, 7, 0)
      BY <2>1, PushGoes
    <2>3. QED
      BY <2>2, Zenon DEF o, P6
  <1>7. Goes(P7, 7, 0, 7, 0)
    <2>1. P7 \in Seq(Neutral)
      BY MovArgIs, FreeNames, SmallOnes
    <2> HIDE DEF P7
    <2>2. QED
      BY <2>1, QuietGoes
  <1>8. Goes(P8, 7, 0, 7, 0)
    <2>1. P8 \in Seq(Neutral)
      BY LoadRegsIs
    <2> HIDE DEF P8
    <2>2. QED
      BY <2>1, QuietGoes
  <1>9. Goes(P9, 7, 0, 6, 1)
    <2>1. Goes(<<Op("thunk")>>, 7, 0, 5, 1)
      BY RaisingGoes
    <2>2. Goes(<<Push(R("bx"))>>, 5, 1, 6, 1)
      BY RegIs, FreeNames, AllNames, PushGoes
    <2>3. QED
      BY <2>1, <2>2, TupleGoes, Zenon
  <1>10. Goes(P10, 6, 1, 6, 1)
    <2>1. P10 \in Seq(Neutral)
      BY LikeIs
    <2> HIDE DEF P10
    <2>2. QED
      BY <2>1, QuietGoes
  <1>11. Goes(P11, 6, 1, 5, 1)
    BY StoreOutRun
  <1>12. Goes(P12, 5, 1, 4, 1)
    BY FreeIs, FreeNames, PopGoes
  <1>13. Goes(P13, 4, 1, 4, 0)
    BY RaisingGoes
  <1>14. Goes(P14, 4, 0, 0, 0)
    BY SavedRun
  <1> DEFINE Q2 == P1 \o P2
             Q3 == Q2 \o P3
             Q4 == Q3 \o P4
             Q5 == Q4 \o P5
             Q6 == Q5 \o P6
             Q7 == Q6 \o P7
             Q8 == Q7 \o P8
             Q9 == Q8 \o P9
             Q10 == Q9 \o P10
             Q11 == Q10 \o P11
             Q12 == Q11 \o P12
             Q13 == Q12 \o P13
             Q14 == Q13 \o P14
  <1> HIDE DEF P1, P2, P3, P4, P5, P6, P7, P8, P9, P10, P11, P12, P13, P14
  <1>15. Goes(Q2, 0, 0, 4, 0)
    BY <1>1, <1>2, GoesOn
  <1>16. Goes(Q3, 0, 0, 4, 0)
    BY <1>15, <1>3, GoesOn
  <1>17. Goes(Q4, 0, 0, 5, 0)
    BY <1>16, <1>4, GoesOn
  <1>18. Goes(Q5, 0, 0, 6, 0)
    BY <1>17, <1>5, GoesOn
  <1>19. Goes(Q6, 0, 0, 7, 0)
    BY <1>18, <1>6, GoesOn
  <1>20. Goes(Q7, 0, 0, 7, 0)
    BY <1>19, <1>7, GoesOn
  <1>21. Goes(Q8, 0, 0, 7, 0)
    BY <1>20, <1>8, GoesOn
  <1>22. Goes(Q9, 0, 0, 6, 1)
    BY <1>21, <1>9, GoesOn
  <1>23. Goes(Q10, 0, 0, 6, 1)
    BY <1>22, <1>10, GoesOn
  <1>24. Goes(Q11, 0, 0, 5, 1)
    BY <1>23, <1>11, GoesOn
  <1>25. Goes(Q12, 0, 0, 4, 1)
    BY <1>24, <1>12, GoesOn
  <1>26. Goes(Q13, 0, 0, 4, 0)
    BY <1>25, <1>13, GoesOn
  <1>27. Goes(Q14, 0, 0, 0, 0)
    BY <1>26, <1>14, GoesOn
  <1>28. Int86Do(b) = Q14 \o Ret(b, 3, FALSE)
    BY DEF Int86Do, P1, P2, P3, P4, P5, P6, P7, P8, P9, P10, P11, P12, P13, P14
  <1>29. QED
    BY <1>27, <1>28, Zenon DEF Program

LEMMA Int86xDoRuns == \A b : Program(Int86xDo(b), b, 4, FALSE)
  <1> TAKE b
  <1> DEFINE P1 == EnterBx(b, 4, FALSE)
             P2 == Pushes(Saved)
             P3 == MovArg(b, 3, FALSE, "si")
             P4 == <<Push(R("si")), Mov(Mem("ds", "si", FieldAt(SRegs, "es")), R("es")),
                     Push(ArgW(b, 2, FALSE))>>
             P5 == PushImmVia(b, DoneLabel, "di")
             P6 == <<Push(ArgW(b, 0, FALSE)), Push(Mem("ds", "si", FieldAt(SRegs, "ds")))>>
             P7 == MovArg(b, 1, FALSE, "bx")
             P8 == LoadUnionRegsBx
             P9 == <<Pop(R("ds")), Op("thunk"), Push(R("bx"))>>
             P10 == StoreSegRegs
             P11 == StoreOutRegs(b)
             P12 == Pops(<<"cx", "cx">>)
             P13 == Cld
             P14 == Restored
  <1>1. Goes(P1, 0, 0, 0, 0)
    <2>1. P1 \in Seq(Neutral)
      BY EnterIs
    <2> HIDE DEF P1
    <2>2. QED
      BY <2>1, QuietGoes
  <1>2. Goes(P2, 0, 0, 4, 0)
    BY SavedRun
  <1>3. Goes(P3, 4, 0, 4, 0)
    <2>1. P3 \in Seq(Neutral)
      BY MovArgIs, FreeNames, SmallOnes
    <2> HIDE DEF P3
    <2>2. QED
      BY <2>1, QuietGoes
  <1>4. Goes(P4, 4, 0, 6, 0)
    <2>1. Goes(<<Push(R("si"))>>, 4, 0, 5, 0)
      BY RegIs, FreeNames, AllNames, PushGoes
    <2>2. Goes(<<Mov(Mem("ds", "si", FieldAt(SRegs, "es")), R("es"))>>, 5, 0, 5, 0)
      <3>1. Mov(Mem("ds", "si", FieldAt(SRegs, "es")), R("es")) \in Neutral
        BY LayoutsAre, FieldIs, MemIs, MovToReg, FreeNames
      <3>2. QED
        BY <3>1, OneGoes
    <2>3. Goes(<<Push(ArgW(b, 2, FALSE))>>, 5, 0, 6, 0)
      <3> DEFINE o == ArgW(b, 2, FALSE)
      <3>1. o \in Operands
        BY ArgIs, SmallOnes
      <3> HIDE DEF o
      <3>2. Goes(<<Push(o)>>, 5, 0, 6, 0)
        BY <3>1, PushGoes
      <3>3. QED
        BY <3>2, Zenon DEF o
    <2>4. Goes(<<Mov(Mem("ds", "si", FieldAt(SRegs, "es")), R("es")),
                 Push(ArgW(b, 2, FALSE))>>, 5, 0, 6, 0)
      BY <2>2, <2>3, TupleGoes, Zenon
    <2>5. QED
      BY <2>1, <2>4, TupleGoes, Zenon
  <1>5. Goes(P5, 6, 0, 7, 0)
    BY PushImmGoes, FreeNames DEF DoneLabel
  <1>6. Goes(P6, 7, 0, 9, 0)
    <2>1. Goes(<<Push(ArgW(b, 0, FALSE))>>, 7, 0, 8, 0)
      <3> DEFINE o == ArgW(b, 0, FALSE)
      <3>1. o \in Operands
        BY ArgIs, SmallOnes
      <3> HIDE DEF o
      <3>2. Goes(<<Push(o)>>, 7, 0, 8, 0)
        BY <3>1, PushGoes
      <3>3. QED
        BY <3>2, Zenon DEF o
    <2>2. Goes(<<Push(Mem("ds", "si", FieldAt(SRegs, "ds")))>>, 8, 0, 9, 0)
      <3> DEFINE o == Mem("ds", "si", FieldAt(SRegs, "ds"))
      <3>1. o \in Operands
        BY LayoutsAre, FieldIs, MemIs
      <3> HIDE DEF o
      <3>2. Goes(<<Push(o)>>, 8, 0, 9, 0)
        BY <3>1, PushGoes
      <3>3. QED
        BY <3>2, Zenon DEF o
    <2>3. QED
      BY <2>1, <2>2, TupleGoes, Zenon
  <1>7. Goes(P7, 9, 0, 9, 0)
    <2>1. P7 \in Seq(Neutral)
      BY MovArgIs, FreeNames, SmallOnes
    <2> HIDE DEF P7
    <2>2. QED
      BY <2>1, QuietGoes
  <1>8. Goes(P8, 9, 0, 9, 0)
    <2>1. P8 \in Seq(Neutral)
      BY LoadRegsIs
    <2> HIDE DEF P8
    <2>2. QED
      BY <2>1, QuietGoes
  <1>9. Goes(P9, 9, 0, 7, 1)
    <2>1. Goes(<<Pop(R("ds"))>>, 9, 0, 8, 0)
      BY FreeIs, FreeNames, PopGoes
    <2>2. Goes(<<Op("thunk")>>, 8, 0, 6, 1)
      BY RaisingGoes
    <2>3. Goes(<<Push(R("bx"))>>, 6, 1, 7, 1)
      BY RegIs, FreeNames, AllNames, PushGoes
    <2>4. Goes(<<Op("thunk"), Push(R("bx"))>>, 8, 0, 7, 1)
      BY <2>2, <2>3, TupleGoes, Zenon
    <2>5. QED
      BY <2>1, <2>4, TupleGoes, Zenon
  <1>10. Goes(P10, 7, 1, 7, 1)
    <2>1. P10 \in Seq(Neutral)
      BY StoreSegIs
    <2> HIDE DEF P10
    <2>2. QED
      BY <2>1, QuietGoes
  <1>11. Goes(P11, 7, 1, 6, 1)
    BY StoreOutRun
  <1>12. Goes(P12, 6, 1, 4, 1)
    <2> DEFINE rs == <<"cx", "cx">>
    <2>1. rs \in Seq(FreeRegs) /\ 4 = 6 - Len(rs)
      BY DEF AllRegs, FreeRegs
    <2> HIDE DEF rs
    <2>2. Goes(Pops(rs), 6, 1, 4, 1)
      BY <2>1, 6 \in Int, 4 \in Int, 1 \in {0, 1}, PopsGo, Zenon
    <2>3. QED
      BY <2>2 DEF rs
  <1>13. Goes(P13, 4, 1, 4, 0)
    BY RaisingGoes
  <1>14. Goes(P14, 4, 0, 0, 0)
    BY SavedRun
  <1> DEFINE Q2 == P1 \o P2
             Q3 == Q2 \o P3
             Q4 == Q3 \o P4
             Q5 == Q4 \o P5
             Q6 == Q5 \o P6
             Q7 == Q6 \o P7
             Q8 == Q7 \o P8
             Q9 == Q8 \o P9
             Q10 == Q9 \o P10
             Q11 == Q10 \o P11
             Q12 == Q11 \o P12
             Q13 == Q12 \o P13
             Q14 == Q13 \o P14
  <1> HIDE DEF P1, P2, P3, P4, P5, P6, P7, P8, P9, P10, P11, P12, P13, P14
  <1>15. Goes(Q2, 0, 0, 4, 0)
    BY <1>1, <1>2, GoesOn
  <1>16. Goes(Q3, 0, 0, 4, 0)
    BY <1>15, <1>3, GoesOn
  <1>17. Goes(Q4, 0, 0, 6, 0)
    BY <1>16, <1>4, GoesOn
  <1>18. Goes(Q5, 0, 0, 7, 0)
    BY <1>17, <1>5, GoesOn
  <1>19. Goes(Q6, 0, 0, 9, 0)
    BY <1>18, <1>6, GoesOn
  <1>20. Goes(Q7, 0, 0, 9, 0)
    BY <1>19, <1>7, GoesOn
  <1>21. Goes(Q8, 0, 0, 9, 0)
    BY <1>20, <1>8, GoesOn
  <1>22. Goes(Q9, 0, 0, 7, 1)
    BY <1>21, <1>9, GoesOn
  <1>23. Goes(Q10, 0, 0, 7, 1)
    BY <1>22, <1>10, GoesOn
  <1>24. Goes(Q11, 0, 0, 6, 1)
    BY <1>23, <1>11, GoesOn
  <1>25. Goes(Q12, 0, 0, 4, 1)
    BY <1>24, <1>12, GoesOn
  <1>26. Goes(Q13, 0, 0, 4, 0)
    BY <1>25, <1>13, GoesOn
  <1>27. Goes(Q14, 0, 0, 0, 0)
    BY <1>26, <1>14, GoesOn
  <1>28. Int86xDo(b) = Q14 \o Ret(b, 4, FALSE)
    BY DEF Int86xDo, P1, P2, P3, P4, P5, P6, P7, P8, P9, P10, P11, P12, P13, P14
  <1>29. QED
    BY <1>27, <1>28, Zenon DEF Program

LEMMA IntrfDoRuns == \A b : Program(IntrfDo(b), b, 3, FALSE)
  <1> TAKE b
  <1> DEFINE P1 == EnterBx(b, 3, FALSE)
             P2 == Pushes(Saved)
             P3 == MovArg(b, 1, FALSE, "di")
             P4 == <<Push(R("di"))>>
             P5 == PushImmVia(b, DoneLabel, "si")
             P6 == <<Push(ArgW(b, 0, FALSE))>>
             P7 == MovArgB(b, 2, HighByte("ax"))
             P8 == <<MovB(HighByte("ax"), R("flags"))>>
             P9 == LoadUnionRegPackDi
             P10 == <<Op("thunk"), Push(R("bp"))>>
             P11 == <<Mov(R("sp"), R("bp")), Mov(Mem("ss", "bp", 1), R("bp"))>>
             P12 == StoreUnionRegPackBp
             P13 == <<Pop(R("ax"))>>
             P14 == Cld
             P15 == DsLikeSs
             P16 == Restored
  <1>1. Goes(P1, 0, 0, 0, 0)
    <2>1. P1 \in Seq(Neutral)
      BY EnterIs
    <2> HIDE DEF P1
    <2>2. QED
      BY <2>1, QuietGoes
  <1>2. Goes(P2, 0, 0, 4, 0)
    BY SavedRun
  <1>3. Goes(P3, 4, 0, 4, 0)
    <2>1. P3 \in Seq(Neutral)
      BY MovArgIs, FreeNames, SmallOnes
    <2> HIDE DEF P3
    <2>2. QED
      BY <2>1, QuietGoes
  <1>4. Goes(P4, 4, 0, 5, 0)
    BY RegIs, FreeNames, AllNames, PushGoes
  <1>5. Goes(P5, 5, 0, 6, 0)
    BY PushImmGoes, FreeNames DEF DoneLabel
  <1>6. Goes(P6, 6, 0, 7, 0)
    <2> DEFINE o == ArgW(b, 0, FALSE)
    <2>1. o \in Operands
      BY ArgIs, SmallOnes
    <2> HIDE DEF o
    <2>2. Goes(<<Push(o)>>, 6, 0, 7, 0)
      BY <2>1, PushGoes
    <2>3. QED
      BY <2>2, Zenon DEF o, P6
  <1>7. Goes(P7, 7, 0, 7, 0)
    <2>1. P7 \in Seq(Neutral)
      BY ByteOperandIs, MovArgBIs, FreeNames, SmallOnes
    <2> HIDE DEF P7
    <2>2. QED
      BY <2>1, QuietGoes
  <1>8. Goes(P8, 7, 0, 7, 0)
    <2>1. P8 \in Seq(Neutral)
      BY ByteOperandIs, FreeIs, MovIs, OneQuiet, FreeNames
    <2> HIDE DEF P8
    <2>2. QED
      BY <2>1, QuietGoes
  <1>9. Goes(P9, 7, 0, 7, 0)
    <2>1. P9 \in Seq(Neutral)
      BY LoadPackIs
    <2> HIDE DEF P9
    <2>2. QED
      BY <2>1, QuietGoes
  <1>10. Goes(P10, 7, 0, 6, 1)
    <2>1. Goes(<<Op("thunk")>>, 7, 0, 5, 1)
      BY RaisingGoes
    <2>2. Goes(<<Push(R("bp"))>>, 5, 1, 6, 1)
      BY RegIs, FreeNames, AllNames, PushGoes
    <2>3. QED
      BY <2>1, <2>2, TupleGoes, Zenon
  <1>11. Goes(P11, 6, 1, 6, 1)
    <2>1. Goes(<<Mov(R("sp"), R("bp"))>>, 6, 1, 6, 1)
      <3>1. Mov(R("sp"), R("bp")) \in Neutral
        BY RegIs, FreeNames, AllNames, MovToReg
      <3>2. QED
        BY <3>1, OneGoes
    <2>2. Goes(<<Mov(Mem("ss", "bp", 1), R("bp"))>>, 6, 1, 6, 1)
      <3>1. Mov(Mem("ss", "bp", 1), R("bp")) \in Neutral
        BY MemIs, MovToReg, FreeNames
      <3>2. QED
        BY <3>1, OneGoes
    <2>3. QED
      BY <2>1, <2>2, TupleGoes, Zenon
  <1>12. Goes(P12, 6, 1, 5, 1)
    BY StorePackGoes
  <1>13. Goes(P13, 5, 1, 4, 1)
    BY FreeIs, FreeNames, PopGoes
  <1>14. Goes(P14, 4, 1, 4, 0)
    BY RaisingGoes
  <1>15. Goes(P15, 4, 0, 4, 0)
    <2>1. P15 \in Seq(Neutral)
      BY LikeIs
    <2> HIDE DEF P15
    <2>2. QED
      BY <2>1, QuietGoes
  <1>16. Goes(P16, 4, 0, 0, 0)
    BY SavedRun
  <1> DEFINE Q2 == P1 \o P2
             Q3 == Q2 \o P3
             Q4 == Q3 \o P4
             Q5 == Q4 \o P5
             Q6 == Q5 \o P6
             Q7 == Q6 \o P7
             Q8 == Q7 \o P8
             Q9 == Q8 \o P9
             Q10 == Q9 \o P10
             Q11 == Q10 \o P11
             Q12 == Q11 \o P12
             Q13 == Q12 \o P13
             Q14 == Q13 \o P14
             Q15 == Q14 \o P15
             Q16 == Q15 \o P16
  <1> HIDE DEF P1, P2, P3, P4, P5, P6, P7, P8, P9, P10, P11, P12, P13, P14, P15, P16
  <1>17. Goes(Q2, 0, 0, 4, 0)
    BY <1>1, <1>2, GoesOn
  <1>18. Goes(Q3, 0, 0, 4, 0)
    BY <1>17, <1>3, GoesOn
  <1>19. Goes(Q4, 0, 0, 5, 0)
    BY <1>18, <1>4, GoesOn
  <1>20. Goes(Q5, 0, 0, 6, 0)
    BY <1>19, <1>5, GoesOn
  <1>21. Goes(Q6, 0, 0, 7, 0)
    BY <1>20, <1>6, GoesOn
  <1>22. Goes(Q7, 0, 0, 7, 0)
    BY <1>21, <1>7, GoesOn
  <1>23. Goes(Q8, 0, 0, 7, 0)
    BY <1>22, <1>8, GoesOn
  <1>24. Goes(Q9, 0, 0, 7, 0)
    BY <1>23, <1>9, GoesOn
  <1>25. Goes(Q10, 0, 0, 6, 1)
    BY <1>24, <1>10, GoesOn
  <1>26. Goes(Q11, 0, 0, 6, 1)
    BY <1>25, <1>11, GoesOn
  <1>27. Goes(Q12, 0, 0, 5, 1)
    BY <1>26, <1>12, GoesOn
  <1>28. Goes(Q13, 0, 0, 4, 1)
    BY <1>27, <1>13, GoesOn
  <1>29. Goes(Q14, 0, 0, 4, 0)
    BY <1>28, <1>14, GoesOn
  <1>30. Goes(Q15, 0, 0, 4, 0)
    BY <1>29, <1>15, GoesOn
  <1>31. Goes(Q16, 0, 0, 0, 0)
    BY <1>30, <1>16, GoesOn
  <1>32. IntrfDo(b) = Q16 \o Ret(b, 3, FALSE)
    BY DEF IntrfDo, P1, P2, P3, P4, P5, P6, P7, P8, P9, P10, P11, P12, P13, P14, P15, P16
  <1>33. QED
    BY <1>31, <1>32, Zenon DEF Program

LEMMA BdosCodeRuns == \A b : Program(BdosCode(b), b, 3, FALSE)
  <1> TAKE b
  <1> DEFINE P1 == EnterBx(b, 3, FALSE)
             P2 == Pushes(<<"si", "di", "es", "bp">>)
             P3 == MovArgB(b, 0, HighByte("ax"))
             P4 == MovArg(b, 1, FALSE, "dx")
             P5 == MovArgB(b, 2, LowByte("ax"))
             P6 == <<Op("int bdos")>>
             P7 == Pops(<<"bp", "es", "di", "si">>)
             P8 == DsLikeSs
  <1>1. Goes(P1, 0, 0, 0, 0)
    <2>1. P1 \in Seq(Neutral)
      BY EnterIs
    <2> HIDE DEF P1
    <2>2. QED
      BY <2>1, QuietGoes
  <1>2. Goes(P2, 0, 0, 4, 0)
    <2> DEFINE rs == <<"si", "di", "es", "bp">>
    <2>1. rs \in Seq(AllRegs) /\ 4 = 0 + Len(rs)
      BY DEF AllRegs, FreeRegs
    <2> HIDE DEF rs
    <2>2. Goes(Pushes(rs), 0, 0, 4, 0)
      BY <2>1, 0 \in Int, 4 \in Int, 0 \in {0, 1}, PushesGo, Zenon
    <2>3. QED
      BY <2>2 DEF rs
  <1>3. Goes(P3, 4, 0, 4, 0)
    <2>1. P3 \in Seq(Neutral)
      BY ByteOperandIs, MovArgBIs, FreeNames, SmallOnes
    <2> HIDE DEF P3
    <2>2. QED
      BY <2>1, QuietGoes
  <1>4. Goes(P4, 4, 0, 4, 0)
    <2>1. P4 \in Seq(Neutral)
      BY MovArgIs, FreeNames, SmallOnes
    <2> HIDE DEF P4
    <2>2. QED
      BY <2>1, QuietGoes
  <1>5. Goes(P5, 4, 0, 4, 0)
    <2>1. P5 \in Seq(Neutral)
      BY ByteOperandIs, MovArgBIs, FreeNames, SmallOnes
    <2> HIDE DEF P5
    <2>2. QED
      BY <2>1, QuietGoes
  <1>6. Goes(P6, 4, 0, 4, 0)
    <2>1. P6 \in Seq(Neutral)
      BY LoneOp, OneQuiet
    <2> HIDE DEF P6
    <2>2. QED
      BY <2>1, QuietGoes
  <1>7. Goes(P7, 4, 0, 0, 0)
    <2> DEFINE rs == <<"bp", "es", "di", "si">>
    <2>1. rs \in Seq(FreeRegs) /\ 0 = 4 - Len(rs)
      BY DEF AllRegs, FreeRegs
    <2> HIDE DEF rs
    <2>2. Goes(Pops(rs), 4, 0, 0, 0)
      BY <2>1, 4 \in Int, 0 \in Int, 0 \in {0, 1}, PopsGo, Zenon
    <2>3. QED
      BY <2>2 DEF rs
  <1>8. Goes(P8, 0, 0, 0, 0)
    <2>1. P8 \in Seq(Neutral)
      BY LikeIs
    <2> HIDE DEF P8
    <2>2. QED
      BY <2>1, QuietGoes
  <1> DEFINE Q2 == P1 \o P2
             Q3 == Q2 \o P3
             Q4 == Q3 \o P4
             Q5 == Q4 \o P5
             Q6 == Q5 \o P6
             Q7 == Q6 \o P7
             Q8 == Q7 \o P8
  <1> HIDE DEF P1, P2, P3, P4, P5, P6, P7, P8
  <1>9. Goes(Q2, 0, 0, 4, 0)
    BY <1>1, <1>2, GoesOn
  <1>10. Goes(Q3, 0, 0, 4, 0)
    BY <1>9, <1>3, GoesOn
  <1>11. Goes(Q4, 0, 0, 4, 0)
    BY <1>10, <1>4, GoesOn
  <1>12. Goes(Q5, 0, 0, 4, 0)
    BY <1>11, <1>5, GoesOn
  <1>13. Goes(Q6, 0, 0, 4, 0)
    BY <1>12, <1>6, GoesOn
  <1>14. Goes(Q7, 0, 0, 0, 0)
    BY <1>13, <1>7, GoesOn
  <1>15. Goes(Q8, 0, 0, 0, 0)
    BY <1>14, <1>8, GoesOn
  <1>16. BdosCode(b) = Q8 \o Ret(b, 3, FALSE)
    BY DEF BdosCode, P1, P2, P3, P4, P5, P6, P7, P8
  <1>17. QED
    BY <1>15, <1>16, Zenon DEF Program

LEMMA DosCloseRuns == \A b : Program(DosClose(b), b, 1, FALSE)
  <1> TAKE b
  <1> DEFINE P1 == EnterBx(b, 1, FALSE)
             P2 == MovArgClobber(b, 0, "bx")
             P3 == <<Op("int dos")>>
  <1>1. Goes(P1, 0, 0, 0, 0)
    <2>1. P1 \in Seq(Neutral)
      BY EnterIs
    <2> HIDE DEF P1
    <2>2. QED
      BY <2>1, QuietGoes
  <1>2. Goes(P2, 0, 0, 0, 0)
    <2>1. P2 \in Seq(Neutral)
      BY MovArgClobberIs, FreeNames, SmallOnes
    <2> HIDE DEF P2
    <2>2. QED
      BY <2>1, QuietGoes
  <1>3. Goes(P3, 0, 0, 0, 0)
    <2>1. P3 \in Seq(Neutral)
      BY LoneOp, OneQuiet
    <2> HIDE DEF P3
    <2>2. QED
      BY <2>1, QuietGoes
  <1> DEFINE Q2 == P1 \o P2
             Q3 == Q2 \o P3
  <1> HIDE DEF P1, P2, P3
  <1>4. Goes(Q2, 0, 0, 0, 0)
    BY <1>1, <1>2, GoesOn
  <1>5. Goes(Q3, 0, 0, 0, 0)
    BY <1>4, <1>3, GoesOn
  <1>6. DosClose(b) = Q3 \o RetSetErrno(b, 1)
    BY DEF DosClose, P1, P2, P3
  <1>7. QED
    BY <1>5, <1>6, SetErrnoRuns, Zenon

LEMMA DosGetFtimeRuns == \A b : Program(DosGetFtime(b), b, 3, FALSE)
  <1> TAKE b
  <1> DEFINE P1 == EnterBx(b, 3, FALSE)
             P2 == <<Push(ArgW(b, 1, FALSE)), Push(ArgW(b, 2, FALSE))>>
             P3 == MovArgClobber(b, 0, "bx")
             P4 == <<Op("int dos"), Pop(R("bx")), Jc(4), Mov(R("cx"), Mem("ds", "bx", 0)), Pop(R("bx")),
                   Mov(R("dx"), Mem("ds", "bx", 0)), [op |-> "skip", skip |-> 1], Pop(R("bx"))>>
  <1>1. Goes(P1, 0, 0, 0, 0)
    <2>1. P1 \in Seq(Neutral)
      BY EnterIs
    <2> HIDE DEF P1
    <2>2. QED
      BY <2>1, QuietGoes
  <1>2. Goes(P2, 0, 0, 2, 0)
    <2>1. Goes(<<Push(ArgW(b, 1, FALSE))>>, 0, 0, 1, 0)
      <3> DEFINE o == ArgW(b, 1, FALSE)
      <3>1. o \in Operands
        BY ArgIs, SmallOnes
      <3> HIDE DEF o
      <3>2. Goes(<<Push(o)>>, 0, 0, 1, 0)
        BY <3>1, PushGoes
      <3>3. QED
        BY <3>2, Zenon DEF o
    <2>2. Goes(<<Push(ArgW(b, 2, FALSE))>>, 1, 0, 2, 0)
      <3> DEFINE o == ArgW(b, 2, FALSE)
      <3>1. o \in Operands
        BY ArgIs, SmallOnes
      <3> HIDE DEF o
      <3>2. Goes(<<Push(o)>>, 1, 0, 2, 0)
        BY <3>1, PushGoes
      <3>3. QED
        BY <3>2, Zenon DEF o
    <2>3. QED
      BY <2>1, <2>2, TupleGoes, Zenon
  <1>3. Goes(P3, 2, 0, 2, 0)
    <2>1. P3 \in Seq(Neutral)
      BY MovArgClobberIs, FreeNames, SmallOnes
    <2> HIDE DEF P3
    <2>2. QED
      BY <2>1, QuietGoes
  <1>4. Goes(P4, 2, 0, 0, 0)
    BY FtimesRun DEF FtimesCode, Goes
  <1> DEFINE Q2 == P1 \o P2
             Q3 == Q2 \o P3
             Q4 == Q3 \o P4
  <1> HIDE DEF P1, P2, P3, P4
  <1>5. Goes(Q2, 0, 0, 2, 0)
    BY <1>1, <1>2, GoesOn
  <1>6. Goes(Q3, 0, 0, 2, 0)
    BY <1>5, <1>3, GoesOn
  <1>7. Goes(Q4, 0, 0, 0, 0)
    BY <1>6, <1>4, GoesOn
  <1>8. DosGetFtime(b) = Q4 \o RetSetErrno(b, 3)
    BY DEF DosGetFtime, P1, P2, P3, P4
  <1>9. QED
    BY <1>7, <1>8, SetErrnoRuns, Zenon

LEMMA PeekRuns == \A b : Program(Peek(b), b, 2, FALSE)
  <1> TAKE b
  <1> DEFINE P1 == EnterBx(b, 2, FALSE)
             P2 == <<Mov(R("es"), R("cx"))>>
             P3 == MovArg(b, 0, FALSE, "es")
             P4 == MovArgClobber(b, 1, "bx")
             P5 == <<Mov(Mem("es", "bx", 0), R("ax")), Mov(R("cx"), R("es"))>>
  <1>1. Goes(P1, 0, 0, 0, 0)
    <2>1. P1 \in Seq(Neutral)
      BY EnterIs
    <2> HIDE DEF P1
    <2>2. QED
      BY <2>1, QuietGoes
  <1>2. Goes(P2, 0, 0, 0, 0)
    <2>1. P2 \in Seq(Neutral)
      BY RegIs, FreeNames, AllNames, MovToReg, OneQuiet
    <2> HIDE DEF P2
    <2>2. QED
      BY <2>1, QuietGoes
  <1>3. Goes(P3, 0, 0, 0, 0)
    <2>1. P3 \in Seq(Neutral)
      BY MovArgIs, FreeNames, SmallOnes
    <2> HIDE DEF P3
    <2>2. QED
      BY <2>1, QuietGoes
  <1>4. Goes(P4, 0, 0, 0, 0)
    <2>1. P4 \in Seq(Neutral)
      BY MovArgClobberIs, FreeNames, SmallOnes
    <2> HIDE DEF P4
    <2>2. QED
      BY <2>1, QuietGoes
  <1>5. Goes(P5, 0, 0, 0, 0)
    <2>1. Goes(<<Mov(Mem("es", "bx", 0), R("ax"))>>, 0, 0, 0, 0)
      <3>1. Mov(Mem("es", "bx", 0), R("ax")) \in Neutral
        BY MemIs, MovToReg, FreeNames
      <3>2. QED
        BY <3>1, OneGoes
    <2>2. Goes(<<Mov(R("cx"), R("es"))>>, 0, 0, 0, 0)
      <3>1. Mov(R("cx"), R("es")) \in Neutral
        BY RegIs, FreeNames, AllNames, MovToReg
      <3>2. QED
        BY <3>1, OneGoes
    <2>3. QED
      BY <2>1, <2>2, TupleGoes, Zenon
  <1> DEFINE Q2 == P1 \o P2
             Q3 == Q2 \o P3
             Q4 == Q3 \o P4
             Q5 == Q4 \o P5
  <1> HIDE DEF P1, P2, P3, P4, P5
  <1>6. Goes(Q2, 0, 0, 0, 0)
    BY <1>1, <1>2, GoesOn
  <1>7. Goes(Q3, 0, 0, 0, 0)
    BY <1>6, <1>3, GoesOn
  <1>8. Goes(Q4, 0, 0, 0, 0)
    BY <1>7, <1>4, GoesOn
  <1>9. Goes(Q5, 0, 0, 0, 0)
    BY <1>8, <1>5, GoesOn
  <1>10. Peek(b) = Q5 \o Ret(b, 2, FALSE)
    BY DEF Peek, P1, P2, P3, P4, P5
  <1>11. QED
    BY <1>9, <1>10, Zenon DEF Program

LEMMA PokeRuns == \A b : Program(Poke(b), b, 3, FALSE)
  <1> TAKE b
  <1> DEFINE P1 == EnterBx(b, 3, FALSE)
             P2 == <<Push(R("es"))>>
             P3 == MovArg(b, 0, FALSE, "es")
             P4 == MovArgClobber(b, 2, "ax")
             P5 == MovArgClobber(b, 1, "bx")
             P6 == <<Mov(R("ax"), Mem("es", "bx", 0)), Pop(R("es"))>>
  <1>1. Goes(P1, 0, 0, 0, 0)
    <2>1. P1 \in Seq(Neutral)
      BY EnterIs
    <2> HIDE DEF P1
    <2>2. QED
      BY <2>1, QuietGoes
  <1>2. Goes(P2, 0, 0, 1, 0)
    BY RegIs, FreeNames, AllNames, PushGoes
  <1>3. Goes(P3, 1, 0, 1, 0)
    <2>1. P3 \in Seq(Neutral)
      BY MovArgIs, FreeNames, SmallOnes
    <2> HIDE DEF P3
    <2>2. QED
      BY <2>1, QuietGoes
  <1>4. Goes(P4, 1, 0, 1, 0)
    <2>1. P4 \in Seq(Neutral)
      BY MovArgClobberIs, FreeNames, SmallOnes
    <2> HIDE DEF P4
    <2>2. QED
      BY <2>1, QuietGoes
  <1>5. Goes(P5, 1, 0, 1, 0)
    <2>1. P5 \in Seq(Neutral)
      BY MovArgClobberIs, FreeNames, SmallOnes
    <2> HIDE DEF P5
    <2>2. QED
      BY <2>1, QuietGoes
  <1>6. Goes(P6, 1, 0, 0, 0)
    <2>1. Goes(<<Mov(R("ax"), Mem("es", "bx", 0))>>, 1, 0, 1, 0)
      <3>1. Mov(R("ax"), Mem("es", "bx", 0)) \in Neutral
        BY RegIs, FreeNames, AllNames, MemIs, MovIs
      <3>2. QED
        BY <3>1, OneGoes
    <2>2. Goes(<<Pop(R("es"))>>, 1, 0, 0, 0)
      BY FreeIs, FreeNames, PopGoes
    <2>3. QED
      BY <2>1, <2>2, TupleGoes, Zenon
  <1> DEFINE Q2 == P1 \o P2
             Q3 == Q2 \o P3
             Q4 == Q3 \o P4
             Q5 == Q4 \o P5
             Q6 == Q5 \o P6
  <1> HIDE DEF P1, P2, P3, P4, P5, P6
  <1>7. Goes(Q2, 0, 0, 1, 0)
    BY <1>1, <1>2, GoesOn
  <1>8. Goes(Q3, 0, 0, 1, 0)
    BY <1>7, <1>3, GoesOn
  <1>9. Goes(Q4, 0, 0, 1, 0)
    BY <1>8, <1>4, GoesOn
  <1>10. Goes(Q5, 0, 0, 1, 0)
    BY <1>9, <1>5, GoesOn
  <1>11. Goes(Q6, 0, 0, 0, 0)
    BY <1>10, <1>6, GoesOn
  <1>12. Poke(b) = Q6 \o Ret(b, 3, FALSE)
    BY DEF Poke, P1, P2, P3, P4, P5, P6
  <1>13. QED
    BY <1>11, <1>12, Zenon DEF Program

LEMMA FMemCpyRuns == \A b : Program(FMemCpy(b), b, 5, TRUE)
  <1> TAKE b
  <1> DEFINE P1 == EnterBx(b, 5, TRUE)
             P2 == Pushes(<<"ds", "es", "si", "di">>)
             P3 == MovArg(b, 4, TRUE, "cx")
             P4 == MovArg(b, 0, TRUE, "ax")
             P5 == MovArg(b, 1, TRUE, "dx")
             P6 == <<Mov(R("ax"), R("di")), Mov(R("dx"), R("es"))>>
             P7 == LdsArg(b, 2, TRUE, "si")
             P8 == <<Op("rep movs")>>
             P9 == Pops(<<"di", "si", "es", "ds">>)
  <1>1. Goes(P1, 0, 0, 0, 0)
    <2>1. P1 \in Seq(Neutral)
      BY EnterIs
    <2> HIDE DEF P1
    <2>2. QED
      BY <2>1, QuietGoes
  <1>2. Goes(P2, 0, 0, 4, 0)
    <2> DEFINE rs == <<"ds", "es", "si", "di">>
    <2>1. rs \in Seq(AllRegs) /\ 4 = 0 + Len(rs)
      BY DEF AllRegs, FreeRegs
    <2> HIDE DEF rs
    <2>2. Goes(Pushes(rs), 0, 0, 4, 0)
      BY <2>1, 0 \in Int, 4 \in Int, 0 \in {0, 1}, PushesGo, Zenon
    <2>3. QED
      BY <2>2 DEF rs
  <1>3. Goes(P3, 4, 0, 4, 0)
    <2>1. P3 \in Seq(Neutral)
      BY MovArgIs, FreeNames, SmallOnes
    <2> HIDE DEF P3
    <2>2. QED
      BY <2>1, QuietGoes
  <1>4. Goes(P4, 4, 0, 4, 0)
    <2>1. P4 \in Seq(Neutral)
      BY MovArgIs, FreeNames, SmallOnes
    <2> HIDE DEF P4
    <2>2. QED
      BY <2>1, QuietGoes
  <1>5. Goes(P5, 4, 0, 4, 0)
    <2>1. P5 \in Seq(Neutral)
      BY MovArgIs, FreeNames, SmallOnes
    <2> HIDE DEF P5
    <2>2. QED
      BY <2>1, QuietGoes
  <1>6. Goes(P6, 4, 0, 4, 0)
    <2>1. Goes(<<Mov(R("ax"), R("di"))>>, 4, 0, 4, 0)
      <3>1. Mov(R("ax"), R("di")) \in Neutral
        BY RegIs, FreeNames, AllNames, MovToReg
      <3>2. QED
        BY <3>1, OneGoes
    <2>2. Goes(<<Mov(R("dx"), R("es"))>>, 4, 0, 4, 0)
      <3>1. Mov(R("dx"), R("es")) \in Neutral
        BY RegIs, FreeNames, AllNames, MovToReg
      <3>2. QED
        BY <3>1, OneGoes
    <2>3. QED
      BY <2>1, <2>2, TupleGoes, Zenon
  <1>7. Goes(P7, 4, 0, 4, 0)
    <2>1. P7 \in Seq(Neutral)
      BY LdsArgIs
    <2> HIDE DEF P7
    <2>2. QED
      BY <2>1, QuietGoes
  <1>8. Goes(P8, 4, 0, 4, 0)
    <2>1. P8 \in Seq(Neutral)
      BY LoneOp, OneQuiet
    <2> HIDE DEF P8
    <2>2. QED
      BY <2>1, QuietGoes
  <1>9. Goes(P9, 4, 0, 0, 0)
    <2> DEFINE rs == <<"di", "si", "es", "ds">>
    <2>1. rs \in Seq(FreeRegs) /\ 0 = 4 - Len(rs)
      BY DEF AllRegs, FreeRegs
    <2> HIDE DEF rs
    <2>2. Goes(Pops(rs), 4, 0, 0, 0)
      BY <2>1, 4 \in Int, 0 \in Int, 0 \in {0, 1}, PopsGo, Zenon
    <2>3. QED
      BY <2>2 DEF rs
  <1> DEFINE Q2 == P1 \o P2
             Q3 == Q2 \o P3
             Q4 == Q3 \o P4
             Q5 == Q4 \o P5
             Q6 == Q5 \o P6
             Q7 == Q6 \o P7
             Q8 == Q7 \o P8
             Q9 == Q8 \o P9
  <1> HIDE DEF P1, P2, P3, P4, P5, P6, P7, P8, P9
  <1>10. Goes(Q2, 0, 0, 4, 0)
    BY <1>1, <1>2, GoesOn
  <1>11. Goes(Q3, 0, 0, 4, 0)
    BY <1>10, <1>3, GoesOn
  <1>12. Goes(Q4, 0, 0, 4, 0)
    BY <1>11, <1>4, GoesOn
  <1>13. Goes(Q5, 0, 0, 4, 0)
    BY <1>12, <1>5, GoesOn
  <1>14. Goes(Q6, 0, 0, 4, 0)
    BY <1>13, <1>6, GoesOn
  <1>15. Goes(Q7, 0, 0, 4, 0)
    BY <1>14, <1>7, GoesOn
  <1>16. Goes(Q8, 0, 0, 4, 0)
    BY <1>15, <1>8, GoesOn
  <1>17. Goes(Q9, 0, 0, 0, 0)
    BY <1>16, <1>9, GoesOn
  <1>18. FMemCpy(b) = Q9 \o Ret(b, 5, TRUE)
    BY DEF FMemCpy, P1, P2, P3, P4, P5, P6, P7, P8, P9
  <1>19. QED
    BY <1>17, <1>18, Zenon DEF Program

-----------------------------------------------------------------------------
(* Interrupts: what an instruction does to the stack.                      *)

\* Which instruction an operation is of.
LEMMA KindsAre ==
  ASSUME NEW i \in Plain
  PROVE  /\ i.op \notin {"ret", "jc", "skip"}
         /\ i.op \in {"mov", "movb"} => i \in Moving \union Clears
         /\ i.op = "xchg" => i \in Swapping
         /\ i.op = "push" => i \in Pushing
         /\ i.op = "pop" => i \in Popping
         /\ i.op = "lseg" => i \in Loading
         /\ i.op \in {"int", "thunk"} => i \in Raising
         /\ i.op \in {"carry", "sbb cx", "rep movs", "int bdos", "int dos", "set errno"} =>
              i \in Neutral
  <1>1. CASE i \in Moving
    <2>1. i.op \in {"mov", "movb"}
      BY <1>1 DEF Moving
    <2>2. QED
      BY <1>1, <2>1
  <1>2. CASE i \in Swapping
    <2>1. i.op = "xchg"
      BY <1>2 DEF Swapping
    <2>2. QED
      BY <1>2, <2>1
  <1>3. CASE i \in Loading
    <2>1. i.op = "lseg"
      BY <1>3 DEF Loading
    <2>2. QED
      BY <1>3, <2>1
  <1>4. CASE i \in Testing
    <2>1. i.op = "carry" /\ i \in Neutral
      BY <1>4 DEF Testing, Neutral
    <2>2. QED
      BY <2>1
  <1>5. CASE i \in Lone
    <2>1. i.op \in {"sbb cx", "rep movs", "int bdos", "int dos", "set errno"} /\ i \in Neutral
      BY <1>5, LoneIs DEF Neutral
    <2>2. QED
      BY <2>1
  <1>6. CASE i \in Clears
    <2>1. i.op = "mov"
      BY <1>6 DEF Clears, Mov
    <2>2. QED
      BY <1>6, <2>1
  <1>7. CASE i \in Pushing
    <2>1. i.op = "push"
      BY <1>7 DEF Pushing
    <2>2. QED
      BY <1>7, <2>1
  <1>8. CASE i \in Popping
    <2>1. i.op = "pop"
      BY <1>8 DEF Popping
    <2>2. QED
      BY <1>8, <2>1
  <1>9. CASE i \in Raising
    <2>1. i.op \in {"int", "thunk"}
      BY <1>9 DEF Raising, Op
    <2>2. QED
      BY <1>9, <2>1
  <1>10. QED
    BY <1>1, <1>2, <1>3, <1>4, <1>5, <1>6, <1>7, <1>8, <1>9 DEF Plain, Neutral

\* What a step does to the registers that a level is about.
Frame(pushed, df) ==
  /\ DOMAIN reg' = AllRegs
  /\ reg'["ss"] = reg["ss"] /\ reg'["cs"] = reg["cs"]
  /\ reg'["sp"] = reg["sp"] - pushed /\ reg'["df"] = df
Framed(i) == Frame(WordsPushed(i), Turned(i, reg["df"]))

LEMMA WordIsWord == \A o \in InFree \union InWords :
                      \/ o \in InWords /\ o[1] = "mem"
                      \/ o \in InFree /\ o[1] # "mem" /\ o[2] \in FreeRegs
  <1>1. \A o \in InWords : o[1] = "mem"
    BY DEF InWords
  <1>2. \A o \in InFree : o[1] # "mem" /\ o[2] \in FreeRegs
    BY DEF InFree
  <1>3. QED
    BY <1>1, <1>2

LEMMA FreeIsNot == \A r \in FreeRegs : r \in AllRegs /\ r \notin {"sp", "ss", "cs", "df"}
  BY DEF FreeRegs, AllRegs

LEMMA SameFrame ==
  ASSUME DOMAIN reg = AllRegs, reg["sp"] \in Int, reg' = reg PROVE Frame(0, reg["df"])
  BY DEF Frame

LEMMA OtherRegs ==
  ASSUME DOMAIN reg = AllRegs, reg["sp"] \in Int, NEW r \in FreeRegs, NEW v,
         reg' = [reg EXCEPT ![r] = v]
  PROVE  Frame(0, reg["df"])
  BY FreeIsNot DEF Frame

LEMMA TwoRegs ==
  ASSUME DOMAIN reg = AllRegs, reg["sp"] \in Int, NEW r \in FreeRegs, NEW v, NEW t \in FreeRegs, NEW w,
         reg' = [reg EXCEPT ![r] = v, ![t] = w]
  PROVE  Frame(0, reg["df"])
  <1>1. r \in AllRegs /\ r # "sp" /\ r # "ss" /\ r # "cs" /\ r # "df"
    BY FreeIsNot
  <1>2. t \in AllRegs /\ t # "sp" /\ t # "ss" /\ t # "cs" /\ t # "df"
    BY FreeIsNot
  <1>3. "sp" \in AllRegs /\ "ss" \in AllRegs /\ "cs" \in AllRegs /\ "df" \in AllRegs
    BY DEF AllRegs
  <1>4. DOMAIN reg' = AllRegs
    OBVIOUS
  <1>5. \A x \in AllRegs : x # r /\ x # t => reg'[x] = reg[x]
    OBVIOUS
  <1>6. reg'["sp"] = reg["sp"] /\ reg'["ss"] = reg["ss"] /\ reg'["cs"] = reg["cs"]
        /\ reg'["df"] = reg["df"]
    BY <1>1, <1>2, <1>3, <1>5
  <1>7. reg["sp"] - 0 = reg["sp"]
    OBVIOUS
  <1>8. QED
    BY <1>4, <1>6, <1>7 DEF Frame

LEMMA MoveFrames ==
  ASSUME DOMAIN reg = AllRegs, reg["sp"] \in Int, This \in Plain, Move PROVE Framed(This)
  <1> DEFINE i == This
  <1>1. i.op \in {"mov", "movb"}
    BY DEF Move, Is
  <1> HIDE DEF i
  <1>2. CASE i \in Moving
    <2>1. i.dst \in InFree \union InWords
      BY <1>2 DEF Moving
    <2>2. WordsPushed(i) = 0 /\ i \notin Raising \union Clears
      BY <1>2, NeutralIs DEF Neutral
    <2>3. \E v : PutAt(i.dst, v)
      BY DEF Move, i
    <2>4. PICK v : PutAt(i.dst, v)
      BY <2>3
    <2>5. Frame(0, reg["df"])
      <3>1. CASE i.dst[1] = "mem"
        <4>1. reg' = reg
          BY <2>4, <3>1 DEF PutAt
        <4>2. QED
          BY <4>1, SameFrame
      <3>2. CASE i.dst[1] # "mem" /\ i.dst[2] \in FreeRegs
        <4>1. reg' = [reg EXCEPT ![i.dst[2]] = Merge(i.dst, v)]
          BY <2>4, <3>2 DEF PutAt
        <4>2. QED
          BY <3>2, <4>1, OtherRegs
      <3>3. QED
        BY <2>1, <3>1, <3>2, WordIsWord
    <2>6. QED
      BY <2>2, <2>5 DEF Framed, Turned, i
  <1>3. CASE i \in Clears
    <2>1. i = Mov(Imm(0), R("df")) /\ i.op = "mov" /\ i.dst = R("df") /\ i.src = Imm(0)
      BY <1>3 DEF Clears, Mov
    <2>2. Value(i.src) = 0
      <3>1. Imm(0)[1] = "imm" /\ Imm(0)[2] = 0
        BY DEF Imm
      <3>2. QED
        BY <2>1, <3>1 DEF Value
    <2>3. Merge(R("df"), 0) = 0
      BY DEF Merge, R
    <2>4. PutAt(i.dst, Value(i.src))
      BY <2>1 DEF Move, Is, i
    <2>5. reg' = [reg EXCEPT !["df"] = 0]
      <3>1. R("df")[1] = "reg" /\ R("df")[2] = "df"
        BY DEF R
      <3>2. QED
        BY <2>1, <2>2, <2>3, <2>4, <3>1 DEF PutAt
    <2>6. Frame(0, 0)
      BY <2>5 DEF Frame, AllRegs
    <2>7. WordsPushed(i) = 0 /\ i \notin Raising
      BY <2>1 DEF WordsPushed, Raising, Op
    <2>8. QED
      BY <1>3, <2>6, <2>7 DEF Framed, Turned, i
  <1>4. QED
    BY <1>1, <1>2, <1>3, KindsAre DEF i

LEMMA QuietFrames ==
  ASSUME This \in Neutral, Frame(0, reg["df"]) PROVE Framed(This)
  <1>1. WordsPushed(This) = 0 /\ This \notin Raising \union Clears
    BY NeutralIs
  <1>2. QED
    BY <1>1 DEF Framed, Turned

LEMMA ExchangeFrames ==
  ASSUME DOMAIN reg = AllRegs, reg["sp"] \in Int, This \in Plain, Exchange PROVE Framed(This)
  <1> DEFINE i == This
  <1>1. i \in Swapping
    BY KindsAre DEF Exchange, Is
  <1>2. reg' = [reg EXCEPT ![i.src[2]] = Value(i.dst), ![i.dst[2]] = Value(i.src)]
    BY DEF Exchange
  <1> HIDE DEF i
  <1>3. i.src \in InFree /\ i.dst \in InFree /\ i \in Neutral
    BY <1>1 DEF Swapping, Neutral
  <1>4. i.src[2] \in FreeRegs /\ i.dst[2] \in FreeRegs
    BY <1>3 DEF InFree
  <1>5. Frame(0, reg["df"])
    BY <1>2, <1>4, TwoRegs
  <1>6. QED
    BY <1>3, <1>5, QuietFrames DEF i

LEMMA PushFrames ==
  ASSUME DOMAIN reg = AllRegs, reg["sp"] \in Int, This \in Plain, PushWord PROVE Framed(This)
  <1>1. This.op = "push"
    BY DEF PushWord, Is
  <1>2. WordsPushed(This) = 1 /\ This \notin Raising \union Clears
    BY <1>1 DEF WordsPushed, Raising, Clears, Op, Mov
  <1>3. reg' = [reg EXCEPT !["sp"] = reg["sp"] - 1]
    BY DEF PushWord
  <1>4. Frame(1, reg["df"])
    BY <1>3 DEF Frame, AllRegs
  <1>5. QED
    BY <1>2, <1>4 DEF Framed, Turned

LEMMA PopFrames ==
  ASSUME DOMAIN reg = AllRegs, reg["sp"] \in Int, This \in Plain, PopWord PROVE Framed(This)
  <1> DEFINE i == This
  <1>1. i.op = "pop" /\ i \in Popping
    BY KindsAre DEF PopWord, Is
  <1>2. WordsPushed(i) = -1 /\ i \notin Raising \union Clears
    BY <1>1 DEF WordsPushed, Raising, Clears, Op, Mov
  <1>3. i.dst \in InFree \union InWords
    BY <1>1 DEF Popping
  <1>4. IF i.dst[1] = "mem" THEN reg' = [reg EXCEPT !["sp"] = reg["sp"] + 1]
        ELSE reg' = [reg EXCEPT !["sp"] = reg["sp"] + 1, ![i.dst[2]] = Stack(0)]
    BY DEF PopWord
  <1> HIDE DEF i
  <1>5. Frame(-1, reg["df"])
    <2>1. CASE i.dst[1] = "mem"
      BY <1>4, <2>1 DEF Frame, AllRegs
    <2>2. CASE i.dst[1] # "mem" /\ i.dst[2] \in FreeRegs
      <3> DEFINE r == i.dst[2]
      <3>1. reg' = [reg EXCEPT !["sp"] = reg["sp"] + 1, ![r] = Stack(0)]
        BY <1>4, <2>2
      <3>2. r \in AllRegs /\ r \notin {"sp", "ss", "cs", "df"}
        BY <2>2, FreeIsNot
      <3> HIDE DEF r
      <3>3. "sp" \in AllRegs /\ "ss" \in AllRegs /\ "cs" \in AllRegs /\ "df" \in AllRegs
        BY DEF AllRegs
      <3>4. QED
        BY <3>1, <3>2, <3>3 DEF Frame
    <2>3. QED
      BY <1>3, <2>1, <2>2, WordIsWord
  <1>6. QED
    BY <1>2, <1>5 DEF Framed, Turned, i

LEMMA LoadFarFrames ==
  ASSUME DOMAIN reg = AllRegs, reg["sp"] \in Int, This \in Plain, LoadFar PROVE Framed(This)
  <1> DEFINE i == This
             from == mem[Segment(i.src)]
             a == Offset(i.src)
  <1>1. i \in Loading
    BY KindsAre DEF LoadFar, Is
  <1>2. reg' = [reg EXCEPT ![i.dst[2]] = from[a], ![i.seg] = from[a + 1]]
    BY DEF LoadFar
  <1> HIDE DEF i, from, a
  <1>3. i.dst \in InFree /\ i.seg = "ds" /\ i \in Neutral
    BY <1>1 DEF Loading, Neutral
  <1>4. i.dst[2] \in FreeRegs /\ i.seg \in FreeRegs
    BY <1>3, FreeNames DEF InFree
  <1>5. Frame(0, reg["df"])
    BY <1>2, <1>4, TwoRegs
  <1>6. QED
    BY <1>3, <1>5, QuietFrames DEF i

LEMMA FlagsFrames ==
  ASSUME DOMAIN reg = AllRegs, reg["sp"] \in Int, This \in Plain, Flags PROVE Framed(This)
  <1>1. This \in Neutral
    BY KindsAre DEF Flags, Is
  <1>2. Frame(0, reg["df"])
    <2>1. \/ \E v : reg' = [reg EXCEPT !["flags"] = v]
          \/ \E v : reg' = [reg EXCEPT !["cx"] = v]
      BY DEF Flags
    <2>2. QED
      BY <2>1, FreeNames, OtherRegs
  <1>3. QED
    BY <1>1, <1>2, QuietFrames

LEMMA CopyFrames ==
  ASSUME DOMAIN reg = AllRegs, reg["sp"] \in Int, This \in Plain, CopyWords PROVE Framed(This)
  <1>1. This \in Neutral
    BY KindsAre DEF CopyWords, Is
  <1>2. reg' = [reg EXCEPT !["si"] = reg["si"] + reg["cx"], !["di"] = reg["di"] + reg["cx"],
                               !["cx"] = 0]
    BY DEF CopyWords
  <1>3. Frame(0, reg["df"])
    BY <1>2 DEF Frame, AllRegs
  <1>4. QED
    BY <1>1, <1>3, QuietFrames

LEMMA SetErrnoFrames ==
  ASSUME DOMAIN reg = AllRegs, reg["sp"] \in Int, This \in Plain, SetErrno PROVE Framed(This)
  <1>1. This \in Neutral
    BY KindsAre DEF SetErrno, Is
  <1>2. reg' = [reg EXCEPT !["errno"] = reg["ax"]] \/ reg' = [reg EXCEPT !["ax"] = 0]
    BY DEF SetErrno
  <1>3. "errno" \in FreeRegs /\ "ax" \in FreeRegs
    BY DEF FreeRegs
  <1>4. Frame(0, reg["df"])
    BY <1>2, <1>3, OtherRegs
  <1>5. QED
    BY <1>1, <1>4, QuietFrames

\* The handler returns with as much of the stack popped as is said, and leaves the
\* direction flag as it was or set.
LEMMA HandlerFrames ==
  ASSUME DOMAIN reg = AllRegs, reg["sp"] \in Int, NEW n, NEW kept, NEW pops \in Int, NEW down \in Int,
         down + pops = 0, kept \intersect {"sp", "flags"} = {}, Handler(n, kept, pops)
  PROVE  Frame(down, IF "df" \in kept THEN reg["df"] ELSE 1)
  <1> DEFINE Is30(r) == 30 + reg.sp + (CHOOSE i \in 1..7 : WordRegs[i] = r)
  <1>1. PICK flags \in {4, 5} :
          reg' = [r \in DOMAIN reg |-> IF r = "flags" THEN flags ELSE IF r = "sp" THEN reg.sp + pops
                                       ELSE IF r = "df" /\ r \notin kept THEN 1
                                       ELSE IF r \in {"ds", "es"} \ kept THEN Other
                                       ELSE IF r \in kept \union {"ss", "cs", "errno"} THEN reg[r]
                                       ELSE Is30(r)]
    BY DEF Handler
  <1> HIDE DEF Is30
  <1>2. "sp" \in AllRegs /\ "ss" \in AllRegs /\ "cs" \in AllRegs /\ "df" \in AllRegs
    BY DEF AllRegs
  <1>3. DOMAIN reg' = AllRegs
    BY <1>1
  <1>4. reg'["sp"] = reg["sp"] + pops
    BY <1>1, <1>2
  <1>5. reg'["ss"] = reg["ss"] /\ reg'["cs"] = reg["cs"]
    BY <1>1, <1>2
  <1>6. reg'["df"] = IF "df" \in kept THEN reg["df"] ELSE 1
    BY <1>1, <1>2
  <1>7. reg["sp"] + pops = reg["sp"] - down
    OBVIOUS
  <1>8. QED
    BY <1>3, <1>4, <1>5, <1>6, <1>7 DEF Frame

LEMMA HandlerLeaves ==
  ASSUME DOMAIN reg = AllRegs, reg["sp"] \in Int, NEW n, NEW pops \in Int, NEW down \in Int,
         down + pops = 0, Handler(n, {}, pops)
  PROVE  Frame(down, 1)
  <1> DEFINE none == {}
  <1>1. none \intersect {"sp", "flags"} = {} /\ "df" \notin none
    OBVIOUS
  <1>2. Handler(n, none, pops)
    OBVIOUS
  <1> HIDE DEF none
  <1>3. Frame(down, IF "df" \in none THEN reg["df"] ELSE 1)
    BY <1>1, <1>2, HandlerFrames
  <1>4. (IF "df" \in none THEN reg["df"] ELSE 1) = 1
    BY <1>1
  <1>5. QED
    BY <1>3, <1>4, Zenon

LEMMA HandlerKeeps ==
  ASSUME DOMAIN reg = AllRegs, reg["sp"] \in Int, NEW n, NEW kept, NEW none, none = 0,
         kept \intersect {"sp", "flags"} = {}, "df" \in kept, Handler(n, kept, none)
  PROVE  Frame(0, reg["df"])
  <1>1. none \in Int /\ 0 \in Int /\ 0 + none = 0
    OBVIOUS
  <1>2. Frame(0, IF "df" \in kept THEN reg["df"] ELSE 1)
    BY <1>1, HandlerFrames
  <1>3. (IF "df" \in kept THEN reg["df"] ELSE 1) = reg["df"]
    OBVIOUS
  <1>4. QED
    BY <1>2, <1>3, Zenon

LEMMA InterruptFrames ==
  ASSUME DOMAIN reg = AllRegs, reg["sp"] \in Int, This \in Plain, Interrupt
  PROVE  \/ Framed(This) /\ at' = at + 1 /\ call' = call
         \/ at' = Lost /\ reg' = reg /\ call' = call
  <1> DEFINE i == This
  <1>1. CASE Is("int") /\ Handler(33, {}, 0)
    <2>1. i \in Raising /\ i.op = "int" /\ at' = at + 1 /\ call' = call
      BY <1>1, KindsAre DEF Is, Handler, Straight
    <2>2. Frame(0, 1)
      <3>1. 0 \in Int /\ 0 + 0 = 0
        OBVIOUS
      <3>2. QED
        BY <1>1, <3>1, HandlerLeaves
    <2> HIDE DEF i
    <2>3. WordsPushed(i) = 0 /\ Turned(i, reg["df"]) = 1
      <3>1. i.op # "push" /\ i.op # "pop" /\ i.op # "thunk"
        BY <2>1
      <3>2. WordsPushed(i) = 0
        BY <3>1 DEF WordsPushed
      <3>3. QED
        BY <2>1, <3>2 DEF Turned
    <2>4. Framed(i)
      BY <2>2, <2>3 DEF Framed
    <2>5. QED
      BY <2>1, <2>4 DEF i
  <1>2. CASE Is("int bdos") /\ Handler(33, {"df"}, 0)
    <2>1. i \in Neutral /\ at' = at + 1 /\ call' = call
      BY <1>2, KindsAre DEF Is, Handler, Straight
    <2> DEFINE kept == {"df"}
               none == 0
    <2>2. kept \intersect {"sp", "flags"} = {} /\ "df" \in kept /\ none = 0
      OBVIOUS
    <2>3. Handler(33, kept, none)
      BY <1>2
    <2> HIDE DEF kept, none
    <2>4. Frame(0, reg["df"])
      BY <2>2, <2>3, HandlerKeeps
    <2>5. QED
      BY <2>1, <2>4, QuietFrames
  <1>3. CASE Is("int dos") /\ Handler(33, {"bx", "si", "di", "bp", "ds", "es", "df"}, 0)
    <2>1. i \in Neutral /\ at' = at + 1 /\ call' = call
      BY <1>3, KindsAre DEF Is, Handler, Straight
    <2> DEFINE kept == {"bx", "si", "di", "bp", "ds", "es", "df"}
               none == 0
    <2>2. kept \intersect {"sp", "flags"} = {} /\ "df" \in kept /\ none = 0
      OBVIOUS
    <2>3. Handler(33, kept, none)
      BY <1>3
    <2> HIDE DEF kept, none
    <2>4. Frame(0, reg["df"])
      BY <2>2, <2>3, HandlerKeeps
    <2>5. QED
      BY <2>1, <2>4, QuietFrames
  <1>4. CASE /\ Is("thunk")
             /\ LET n == Stack(0) IN
                IF Stack(1) = DoneLabel THEN Handler(n, {}, 2 - LeftByDos(n) + PoppedByThunk(n))
                ELSE at' = Lost /\ UNCHANGED <<call, reg, mem, seen, given>>
    <2> DEFINE n == Stack(0)
    <2>1. i \in Raising /\ i.op = "thunk"
      BY <1>4, KindsAre DEF Is
    <2>2. (2 - LeftByDos(n)) + PoppedByThunk(n) = 2
      BY DEF LeftByDos, PoppedByThunk
    <2> HIDE DEF i
    <2>3. CASE Stack(1) = DoneLabel
      <3> HIDE DEF n
      <3>1. Handler(n, {}, 2)
        BY <1>4, <2>2, <2>3 DEF n
      <3>2. Frame(-2, 1)
        <4>1. 2 \in Int /\ -2 \in Int /\ -2 + 2 = 0
          OBVIOUS
        <4>2. QED
          BY <3>1, <4>1, HandlerLeaves
      <3>3. at' = at + 1 /\ call' = call
        BY <3>1 DEF Handler, Straight
      <3>4. WordsPushed(i) = -2 /\ Turned(i, reg["df"]) = 1
        BY <2>1 DEF WordsPushed, Turned
      <3>5. Framed(i)
        BY <3>2, <3>4 DEF Framed
      <3>6. QED
        BY <3>3, <3>5 DEF i
    <2>4. CASE Stack(1) # DoneLabel
      BY <1>4, <2>4
    <2>5. QED
      BY <2>3, <2>4
  <1>5. QED
    BY <1>1, <1>2, <1>3, <1>4 DEF Interrupt

-----------------------------------------------------------------------------
(* Interrupts: the calls.                                                  *)

\* How many words of arguments a routine has, and whether it takes only two in registers.
ArgWords(name) == CASE name = "_dos_close" -> 1
                 [] name \in {"intdos", "peek"} -> 2
                 [] name \in {"int86x"} -> 4
                 [] name = "_fmemcpy" -> 5
                 [] OTHER -> 3
TwoInRegs(name) == name = "_fmemcpy"

LEMMA RoutinesAre ==
  \A b \in Builds, name \in Names : Program(CodeOf[b][name], b, ArgWords(name), TwoInRegs(name))
  <1> TAKE b \in Builds, name \in Names
  <1> DEFINE c == CodeOf[b][name]
  <1>1. CASE name = "intdos"
    <2>1. c = Intdos(b) /\ ArgWords(name) = 2 /\ TwoInRegs(name) = FALSE
      BY <1>1 DEF CodeOf, ArgWords, TwoInRegs
    <2>2. QED
      BY <2>1, IntdosRuns
  <1>2. CASE name = "intdosx"
    <2>1. c = Intdosx(b) /\ ArgWords(name) = 3 /\ TwoInRegs(name) = FALSE
      BY <1>2 DEF CodeOf, ArgWords, TwoInRegs
    <2>2. QED
      BY <2>1, IntdosxRuns
  <1>3. CASE name = "int86"
    <2>1. c = Int86Do(b) /\ ArgWords(name) = 3 /\ TwoInRegs(name) = FALSE
      BY <1>3 DEF CodeOf, ArgWords, TwoInRegs
    <2>2. QED
      BY <2>1, Int86DoRuns
  <1>4. CASE name = "int86x"
    <2>1. c = Int86xDo(b) /\ ArgWords(name) = 4 /\ TwoInRegs(name) = FALSE
      BY <1>4 DEF CodeOf, ArgWords, TwoInRegs
    <2>2. QED
      BY <2>1, Int86xDoRuns
  <1>5. CASE name \in {"intr", "_intrf"}
    <2>1. c = IntrfDo(b) /\ ArgWords(name) = 3 /\ TwoInRegs(name) = FALSE
      BY <1>5 DEF CodeOf, ArgWords, TwoInRegs
    <2>2. QED
      BY <2>1, IntrfDoRuns
  <1>6. CASE name = "bdos"
    <2>1. c = BdosCode(b) /\ ArgWords(name) = 3 /\ TwoInRegs(name) = FALSE
      BY <1>6 DEF CodeOf, ArgWords, TwoInRegs
    <2>2. QED
      BY <2>1, BdosCodeRuns
  <1>7. CASE name = "_dos_close"
    <2>1. c = DosClose(b) /\ ArgWords(name) = 1 /\ TwoInRegs(name) = FALSE
      BY <1>7 DEF CodeOf, ArgWords, TwoInRegs
    <2>2. QED
      BY <2>1, DosCloseRuns
  <1>8. CASE name = "_dos_getftime"
    <2>1. c = DosGetFtime(b) /\ ArgWords(name) = 3 /\ TwoInRegs(name) = FALSE
      BY <1>8 DEF CodeOf, ArgWords, TwoInRegs
    <2>2. QED
      BY <2>1, DosGetFtimeRuns
  <1>9. CASE name = "peek"
    <2>1. c = Peek(b) /\ ArgWords(name) = 2 /\ TwoInRegs(name) = FALSE
      BY <1>9 DEF CodeOf, ArgWords, TwoInRegs
    <2>2. QED
      BY <2>1, PeekRuns
  <1>10. CASE name = "poke"
    <2>1. c = Poke(b) /\ ArgWords(name) = 3 /\ TwoInRegs(name) = FALSE
      BY <1>10 DEF CodeOf, ArgWords, TwoInRegs
    <2>2. QED
      BY <2>1, PokeRuns
  <1>11. CASE name = "_fmemcpy"
    <2>1. c = FMemCpy(b) /\ ArgWords(name) = 5 /\ TwoInRegs(name) = TRUE
      BY <1>11 DEF CodeOf, ArgWords, TwoInRegs
    <2>2. QED
      BY <2>1, FMemCpyRuns
  <1>12. QED
    BY <1>1, <1>2, <1>3, <1>4, <1>5, <1>6, <1>7, <1>8, <1>9, <1>10, <1>11
    DEF Names, Regs86, GccOnly

\* The arguments that a call passes.
LEMMA ThunkIs == \A b, n, constant : n \in Int => ThunkOf(b, n, constant) \in Int
  BY DEF ThunkOf, ByDigits, InTable, Dispatched

LEMMA ArgsAre ==
  \A name \in Names : \A thunk, out \in Int :
    ArgsOf(name, thunk, out) \in Seq(Int) /\ Len(ArgsOf(name, thunk, out)) = ArgWords(name)
  <1> TAKE name \in Names
  <1> TAKE thunk, out \in Int
  <1> USE DEF ArgsOf, ArgWords, InRegs, SegRegs, OutRegs, Pack, Flags16, Other, Ours,
              Int86Args, Int86xArgs, IntrArgs, IntrfArgs
  <1>1. CASE name = "intdos"
    BY <1>1
  <1>2. CASE name = "intdosx"
    BY <1>2
  <1>3. CASE name = "int86"
    BY <1>3
  <1>4. CASE name = "int86x"
    BY <1>4
  <1>5. CASE name = "intr"
    BY <1>5
  <1>6. CASE name = "_intrf"
    BY <1>6
  <1>7. CASE name = "bdos"
    BY <1>7
  <1>8. CASE name = "_dos_close"
    BY <1>8
  <1>9. CASE name = "_dos_getftime"
    BY <1>9
  <1>10. CASE name = "peek"
    BY <1>10
  <1>11. CASE name = "poke"
    BY <1>11
  <1>12. CASE name = "_fmemcpy"
    BY <1>12
  <1>13. QED
    BY <1>1, <1>2, <1>3, <1>4, <1>5, <1>6, <1>7, <1>8, <1>9, <1>10, <1>11, <1>12
    DEF Names, Regs86, GccOnly

CallIs ==
  /\ call.build \in Builds /\ call.name \in Names
  /\ call.args \in Seq(Int) /\ Len(call.args) = ArgWords(call.name)

LEMMA ArgWordsAre == \A name \in Names : ArgWords(name) \in 1..5 /\ (TwoInRegs(name) => ArgWords(name) = 5)
  BY DEF Names, ArgWords, TwoInRegs, Regs86, GccOnly

\* What the caller has pushed is what the routine pops, unless the caller pops it.
LEMMA ReturnPops ==
  ASSUME CallIs
  PROVE  /\ Len(OnStack) \in Nat /\ Len(Returns) \in Nat /\ EntrySp \in Int
         /\ EntrySp + Len(Returns) + PopsArgs(call.build, ArgWords(call.name), TwoInRegs(call.name)) =
              StackTop - (IF call.build.conv = "cdecl" THEN Len(OnStack) ELSE 0)
  <1> DEFINE n == ArgWords(call.name)
             k == InRegisters
             b == call.build
             pops == PopsArgs(b, n, TwoInRegs(call.name))
  <1>1. n \in 1..5 /\ (TwoInRegs(call.name) => n = 5)
    BY ArgWordsAre DEF CallIs
  <1>2. Len(call.args) = n /\ call.args \in Seq(Int)
    BY DEF CallIs
  <1>3. b.conv \in {"regparmcall", "stdcall", "cdecl"}
    BY InterruptsAssumption DEF CallIs
  <1>4. k = (IF b.conv # "regparmcall" THEN 0 ELSE IF TwoInRegs(call.name) THEN 2
               ELSE IF n < 3 THEN n ELSE 3)
    BY <1>2 DEF InRegisters, TwoInRegs
  <1>5. pops = (IF b.conv = "cdecl" THEN 0 ELSE n - k)
    <2>1. CASE b.conv = "cdecl"
      BY <2>1 DEF PopsArgs
    <2>2. CASE b.conv = "stdcall"
      BY <1>1, <1>4, <2>2 DEF PopsArgs, RegArgs
    <2>3. CASE b.conv = "regparmcall" /\ TwoInRegs(call.name)
      BY <1>1, <1>4, <2>3 DEF PopsArgs, RegArgs
    <2>4. CASE b.conv = "regparmcall" /\ ~TwoInRegs(call.name)
      BY <1>1, <1>4, <2>4 DEF PopsArgs, RegArgs
    <2>5. QED
      BY <1>3, <2>1, <2>2, <2>3, <2>4
  <1>6. k \in Nat /\ k <= n
    BY <1>1, <1>4
  <1> HIDE DEF n, k, pops
  <1>7. Len(OnStack) = n - k
    <2>1. Len(OnStack) = IF k + 1 <= n THEN n - (k + 1) + 1 ELSE 0
      BY <1>1, <1>2, <1>6, SubSeqProperties DEF OnStack, k
    <2>2. QED
      BY <1>1, <1>6, <2>1
  <1>8. Len(Returns) \in {1, 2}
    <2>1. Len(Back) = 2 /\ Back \in Seq(Int)
      BY DEF Back
    <2>2. Len(SubSeq(Back, 1, 1)) = 1
      BY <2>1, SubSeqProperties
    <2>3. QED
      BY <2>1, <2>2 DEF Returns
  <1>9. Len(OnStack) \in Nat /\ Len(Returns) \in Nat /\ StackTop \in Int
    BY <1>1, <1>6, <1>7, <1>8 DEF StackTop
  <1>10. EntrySp = StackTop - Len(OnStack) - Len(Returns) /\ EntrySp \in Int
    BY <1>9 DEF EntrySp
  <1>11. EntrySp + Len(Returns) + pops = StackTop - (IF b.conv = "cdecl" THEN Len(OnStack) ELSE 0)
    BY <1>1, <1>5, <1>6, <1>7, <1>9, <1>10
  <1>12. QED
    BY <1>9, <1>10, <1>11 DEF pops, n

-----------------------------------------------------------------------------
(* Interrupts: the stack is given back.                                    *)

\* A routine that has not returned is at a level of its own.
Levelled(s, d) ==
  /\ s \in Seq(Instructions) /\ d \in [1..Len(s) + 1 -> Levels]
  /\ d[1] = <<0, 0>> /\ d[Len(s) + 1] = <<0, 0>> /\ \A i \in 1..Len(s) : StepsBy(d, s, i)
OnLevel(s, d) ==
  /\ at \in 1..Len(s) + 1
  /\ reg["sp"] = EntrySp - d[at][1] /\ reg["df"] = d[at][2]
CodeIs(s) ==
  CodeOf[call.build][call.name] = s \o Ret(call.build, ArgWords(call.name), TwoInRegs(call.name))
OnCourse == \E s, d : Levelled(s, d) /\ CodeIs(s) /\ OnLevel(s, d)
CallInv ==
  /\ CallIs /\ DOMAIN reg = AllRegs /\ reg["ss"] = Ours /\ reg["cs"] = CodeSeg
  /\ FrameGivenBack /\ at \in Int
  /\ at \in {Lost, 0} \/ OnCourse

LEMMA CallStarts == IntInit => CallInv
  <1> SUFFICES ASSUME IntInit PROVE CallInv
    OBVIOUS
  <1>1. PICK b \in Builds, n \in Numbers, constant \in BOOLEAN, out \in {InRegs, OutRegs},
             name \in Names, carry \in {0, 246} :
          call = [build |-> b, name |-> name, number |-> n, out |-> out, carry |-> carry,
                  args |-> ArgsOf(name, ThunkOf(b, n, constant), out)]
    BY DEF IntInit
  <1>2. at = 1 /\ reg = EntryReg
    BY DEF IntInit
  <1>3. CallIs
    <2>1. ThunkOf(b, n, constant) \in Int /\ out \in Int
      BY InterruptsAssumption, ThunkIs DEF InRegs, OutRegs
    <2>2. ArgsOf(name, ThunkOf(b, n, constant), out) \in Seq(Int)
          /\ Len(ArgsOf(name, ThunkOf(b, n, constant), out)) = ArgWords(name)
      BY <2>1, ArgsAre
    <2>3. call.build = b /\ call.name = name
          /\ call.args = ArgsOf(name, ThunkOf(b, n, constant), out)
      BY <1>1
    <2>4. QED
      BY <2>2, <2>3 DEF CallIs
  <1>4. /\ DOMAIN reg = AllRegs /\ reg["ss"] = Ours /\ reg["cs"] = CodeSeg
        /\ reg["sp"] = EntrySp /\ reg["df"] = 0
    <2>1. DOMAIN EntryReg = AllRegs
      BY DEF EntryReg, AllRegs, FreeRegs
    <2>2. EntryReg["ss"] = Ours /\ EntryReg["cs"] = CodeSeg /\ EntryReg["sp"] = EntrySp
          /\ EntryReg["df"] = 0
      BY DEF EntryReg
    <2>3. QED
      BY <1>2, <2>1, <2>2
  <1>5. Program(CodeOf[call.build][call.name], call.build, ArgWords(call.name), TwoInRegs(call.name))
    BY <1>3, RoutinesAre DEF CallIs
  <1>6. PICK s : /\ Goes(s, 0, 0, 0, 0)
                 /\ CodeOf[call.build][call.name] =
                      s \o Ret(call.build, ArgWords(call.name), TwoInRegs(call.name))
    BY <1>5 DEF Program
  <1>7. PICK d : Levelled(s, d)
    BY <1>6, Zenon DEF Goes, Runs, Levelled
  <1>8. OnLevel(s, d)
    <2>1. Len(s) \in Nat
      BY <1>7, LenProperties DEF Levelled
    <2>2. d[1][1] = 0 /\ d[1][2] = 0
      BY <1>7 DEF Levelled
    <2>3. EntrySp - 0 = EntrySp
      BY <1>3, ReturnPops
    <2>4. at \in 1..Len(s) + 1
      BY <1>2, <2>1
    <2>5. QED
      BY <1>2, <1>4, <2>2, <2>3, <2>4 DEF OnLevel
  <1>9. OnCourse
    BY <1>6, <1>7, <1>8 DEF OnCourse, CodeIs
  <1>10. at \in Int /\ FrameGivenBack
    BY <1>2 DEF FrameGivenBack
  <1>11. QED
    BY <1>3, <1>4, <1>9, <1>10 DEF CallInv

\* The instruction to run is of the routine's body, or returns.
LEMMA InstructionIs ==
  ASSUME NEW s, NEW d, Levelled(s, d), CodeIs(s), OnLevel(s, d)
  PROVE  \/ at \in 1..Len(s) /\ This = s[at]
         \/ /\ at = Len(s) + 1 /\ This.op = "ret"
            /\ This.args = PopsArgs(call.build, ArgWords(call.name), TwoInRegs(call.name))
  <1> DEFINE r == [op |-> "ret", args |-> PopsArgs(call.build, ArgWords(call.name), TwoInRegs(call.name))]
             S == Instructions \union {r}
             t == <<r>>
  <1>1. s \in Seq(S) /\ t \in Seq(S) /\ Len(s) \in Nat /\ Len(t) = 1 /\ t[1] = r
    <2>1. s \in Seq(Instructions) /\ Len(s) \in Nat /\ \A i \in 1..Len(s) : s[i] \in Instructions
      BY LenProperties DEF Levelled
    <2>2. s \in Seq(S)
      BY <2>1
    <2>3. r \in S
      OBVIOUS
    <2> HIDE DEF S, r
    <2>4. QED
      BY <2>1, <2>2, <2>3
  <1>2. Ret(call.build, ArgWords(call.name), TwoInRegs(call.name)) = t
    BY DEF Ret
  <1>3. r.op = "ret" /\ r.args = PopsArgs(call.build, ArgWords(call.name), TwoInRegs(call.name))
    OBVIOUS
  <1> HIDE DEF S, r, t
  <1>4. Len(s \o t) = Len(s) + 1
        /\ \A i \in 1..Len(s) + 1 : (s \o t)[i] = IF i <= Len(s) THEN s[i] ELSE t[i - Len(s)]
    BY <1>1, ConcatProperties, SMTT(30)
  <1>5. This = (s \o t)[at]
    BY <1>2 DEF This, CodeIs
  <1>6. CASE at \in 1..Len(s)
    BY <1>1, <1>4, <1>5, <1>6
  <1>7. CASE at = Len(s) + 1
    <2>1. at \in 1..Len(s) + 1 /\ ~(at <= Len(s)) /\ at - Len(s) = 1
      BY <1>1, <1>7
    <2>2. This = r
      BY <1>1, <1>4, <1>5, <2>1
    <2>3. QED
      BY <1>3, <1>7, <2>2
  <1>8. QED
    BY <1>1, <1>6, <1>7 DEF OnLevel

\* A step of a piece's instruction leads to the piece's next level.
LEMMA CourseGoesOn ==
  ASSUME CallInv, NEW s, NEW d, Levelled(s, d), CodeIs(s), OnLevel(s, d),
         at \in 1..Len(s), s[at] \in Plain, This = s[at],
         Framed(This), at' = at + 1, call' = call
  PROVE  CallInv'
  <1> DEFINE i == s[at]
  <1>1. Len(s) \in Nat /\ at + 1 \in 1..Len(s) + 1 /\ at \in Int /\ at + 1 \in Int
    BY LenProperties DEF Levelled
  <1>2. d[at] \in Levels /\ d[at + 1] \in Levels
    BY <1>1 DEF Levelled
  <1>3. d[at + 1] = Then(i, d[at])
    <2>1. StepsBy(d, s, at)
      BY DEF Levelled
    <2>2. s[at] \notin Jumps
      BY KindsAre DEF Jumps
    <2>3. QED
      BY <2>1, <2>2 DEF StepsBy
  <1>4. d[at + 1][1] = d[at][1] + WordsPushed(i) /\ d[at + 1][2] = Turned(i, d[at][2])
    BY <1>3 DEF Then
  <1>5. d[at][1] \in Int /\ WordsPushed(i) \in Int /\ EntrySp \in Int
    BY <1>2, ReturnPops DEF Levels, WordsPushed, CallInv
  <1>6. /\ DOMAIN reg' = AllRegs /\ reg'["ss"] = Ours /\ reg'["cs"] = CodeSeg
        /\ reg'["sp"] = reg["sp"] - WordsPushed(i) /\ reg'["df"] = Turned(i, reg["df"])
    BY DEF Framed, Frame, CallInv
  <1>7. reg'["sp"] = EntrySp - d[at + 1][1] /\ reg'["df"] = d[at + 1][2]
    <2>1. reg["sp"] = EntrySp - d[at][1] /\ reg["df"] = d[at][2]
      BY DEF OnLevel
    <2> HIDE DEF i
    <2>2. QED
      BY <1>4, <1>5, <1>6, <2>1
  <1>8. EntrySp' = EntrySp
    BY DEF EntrySp, OnStack, InRegisters, Returns
  <1>9. OnLevel(s, d)' /\ CodeIs(s)' /\ Levelled(s, d)'
    BY <1>1, <1>7, <1>8 DEF OnLevel, CodeIs, Levelled
  <1>10. CallIs' /\ at' \in Int /\ at' # 0
    BY <1>1 DEF CallIs, CallInv
  <1>11. QED
    BY <1>6, <1>9, <1>10 DEF CallInv, OnCourse, FrameGivenBack

LEMMA JumpGoesOn ==
  ASSUME CallInv, NEW s, NEW d, Levelled(s, d), CodeIs(s), OnLevel(s, d),
         at \in 1..Len(s), This = s[at], Jump
  PROVE  CallInv'
  <1> DEFINE i == s[at]
  <1>1. Len(s) \in Nat /\ at + 1 \in 1..Len(s) + 1 /\ at \in Int /\ at + 1 \in Int
    BY LenProperties DEF Levelled
  <1>2. i.op \in {"jc", "skip"}
    BY DEF Jump, Is
  <1>3. i \in Jumps /\ at + 1 + i.skip \in 1..Len(s) + 1 /\ d[at + 1 + i.skip] = d[at]
        /\ (i.op = "jc" => d[at + 1] = d[at])
    <2>1. StepsBy(d, s, at)
      BY DEF Levelled
    <2>2. s[at] \notin Plain
      BY <1>2, KindsAre
    <2>3. QED
      BY <2>1, <2>2 DEF StepsBy
  <1>4. i.skip \in Nat
    BY <1>3 DEF Jumps
  <1>5. at' = at + 1 + i.skip \/ (i.op = "jc" /\ at' = at + 1)
    <2>1. \/ i.op = "jc" /\ at' = at + 1 + (IF Carry(reg.flags) THEN i.skip ELSE 0)
          \/ i.op = "skip" /\ at' = at + 1 + i.skip
      BY DEF Jump, Is
    <2> HIDE DEF i
    <2>2. at + 1 + 0 = at + 1
      BY <1>1
    <2>3. QED
      BY <2>1, <2>2
  <1>6. at' \in 1..Len(s) + 1 /\ d[at'] = d[at] /\ at' \in Int /\ at' # 0
    <2> HIDE DEF i
    <2>1. CASE at' = at + 1 + i.skip
      BY <1>1, <1>3, <2>1
    <2>2. CASE i.op = "jc" /\ at' = at + 1
      BY <1>1, <1>3, <2>2
    <2>3. QED
      BY <1>5, <2>1, <2>2
  <1>7. call' = call /\ reg' = reg
    BY DEF Jump
  <1>8. EntrySp' = EntrySp
    BY <1>7 DEF EntrySp, OnStack, InRegisters, Returns
  <1>9. OnLevel(s, d)' /\ CodeIs(s)' /\ Levelled(s, d)'
    BY <1>6, <1>7, <1>8 DEF OnLevel, CodeIs, Levelled
  <1>10. QED
    BY <1>6, <1>7, <1>9 DEF CallInv, CallIs, OnCourse, FrameGivenBack

LEMMA ReturnGoesOut ==
  ASSUME CallInv, NEW s, NEW d, Levelled(s, d), CodeIs(s), OnLevel(s, d),
         at = Len(s) + 1, This.args = PopsArgs(call.build, ArgWords(call.name), TwoInRegs(call.name)),
         ReturnFar
  PROVE  CallInv'
  <1> DEFINE pops == PopsArgs(call.build, ArgWords(call.name), TwoInRegs(call.name))
  <1>1. reg["sp"] = EntrySp /\ reg["df"] = 0
    <2>1. d[at][1] = 0 /\ d[at][2] = 0
      BY DEF Levelled
    <2>2. EntrySp - 0 = EntrySp
      BY ReturnPops DEF CallInv
    <2>3. QED
      BY <2>1, <2>2 DEF OnLevel
  <1>2. EntrySp + Len(Returns) + pops =
          StackTop - (IF call.build.conv = "cdecl" THEN Len(OnStack) ELSE 0)
    BY ReturnPops DEF CallInv
  <1> HIDE DEF pops
  <1>3. reg' = [reg EXCEPT !["sp"] = reg["sp"] + Len(Returns) + pops]
    BY DEF ReturnFar, pops
  <1>4. call' = call
    BY DEF ReturnFar
  <1>5. at' \in {0, Lost} /\ at' \in Int
    BY DEF ReturnFar, Lost
  <1>6. "sp" \in AllRegs /\ "ss" \in AllRegs /\ "cs" \in AllRegs /\ "df" \in AllRegs
    BY DEF AllRegs
  <1>7. /\ DOMAIN reg' = AllRegs /\ reg'["sp"] = EntrySp + Len(Returns) + pops
        /\ reg'["ss"] = Ours /\ reg'["cs"] = CodeSeg /\ reg'["df"] = 0
    BY <1>1, <1>3, <1>6 DEF CallInv
  <1>8. OnStack' = OnStack
    BY <1>4 DEF OnStack, InRegisters
  <1>9. FrameGivenBack'
    BY <1>2, <1>4, <1>7, <1>8 DEF FrameGivenBack
  <1>10. QED
    BY <1>4, <1>5, <1>7, <1>9 DEF CallInv, CallIs

LEMMA CallSteps == CallInv /\ [IntNext]_intVars => CallInv'
  <1> SUFFICES ASSUME CallInv, [IntNext]_intVars PROVE CallInv'
    OBVIOUS
  <1>1. CASE UNCHANGED intVars
    <2>1. call' = call /\ at' = at /\ reg' = reg
      BY <1>1 DEF intVars
    <2>2. EntrySp' = EntrySp /\ OnStack' = OnStack
      BY <2>1 DEF EntrySp, OnStack, InRegisters, Returns
    <2>3. CallIs' /\ FrameGivenBack'
      BY <2>1, <2>2 DEF CallInv, CallIs, FrameGivenBack
    <2>4. OnCourse => OnCourse'
      BY <2>1, <2>2 DEF OnCourse, OnLevel, CodeIs, Levelled
    <2>5. QED
      BY <2>1, <2>3, <2>4 DEF CallInv
  <1>2. CASE IntNext /\ ~UNCHANGED intVars
    <2>1. at > 0 /\ (\/ Move \/ Exchange \/ PushWord \/ PopWord \/ LoadFar \/ Flags \/ CopyWords
                     \/ Interrupt \/ Jump \/ SetErrno \/ ReturnFar)
      <3>1. ~Returned
        BY <1>2 DEF Returned
      <3>2. QED
        BY <1>2, <3>1 DEF IntNext, Move, Exchange, PushWord, PopWord, LoadFar, Flags, CopyWords,
                          Interrupt, Jump, SetErrno, ReturnFar, Is
    <2>2. at # 0 /\ at # Lost
      BY <2>1 DEF Lost
    <2>3. PICK s, d : Levelled(s, d) /\ CodeIs(s) /\ OnLevel(s, d)
      BY <2>2 DEF CallInv, OnCourse
    <2>4. reg["sp"] \in Int /\ DOMAIN reg = AllRegs
      <3>1. d[at] \in Levels /\ EntrySp \in Int
        BY <2>3, ReturnPops DEF Levelled, OnLevel, CallInv
      <3>2. d[at][1] \in Int
        BY <3>1 DEF Levels
      <3>3. QED
        BY <2>3, <3>1, <3>2 DEF OnLevel, CallInv
    <2>5. CASE at \in 1..Len(s) /\ This = s[at]
      <3>1. This \in Plain \/ This \in Jumps
        <4>1. StepsBy(d, s, at)
          BY <2>3, <2>5 DEF Levelled
        <4>2. QED
          BY <2>5, <4>1 DEF StepsBy
      <3>2. CASE Jump
        BY <2>3, <2>5, <3>2, JumpGoesOn
      <3>3. CASE ReturnFar
        <4>1. This.op = "ret"
          BY <3>3 DEF ReturnFar, Is
        <4>2. QED
          BY <3>1, <4>1, KindsAre DEF Jumps
      <3>4. CASE \/ Move \/ Exchange \/ PushWord \/ PopWord \/ LoadFar \/ Flags \/ CopyWords
                 \/ Interrupt \/ SetErrno
        <4>1. This.op \notin {"jc", "skip"}
          BY <3>4 DEF Move, Exchange, PushWord, PopWord, LoadFar, Flags, CopyWords, Interrupt,
                      SetErrno, Is
        <4>2. This \in Plain
          BY <3>1, <4>1 DEF Jumps
        <4>3. CASE Interrupt
          <5>1. CASE Framed(This) /\ at' = at + 1 /\ call' = call
            BY <2>3, <2>5, <4>2, <5>1, CourseGoesOn
          <5>2. CASE at' = Lost /\ reg' = reg /\ call' = call
            BY <5>2 DEF CallInv, CallIs, FrameGivenBack, Lost
          <5>3. QED
            BY <2>4, <4>2, <4>3, <5>1, <5>2, InterruptFrames
        <4>4. CASE Move \/ Exchange \/ PushWord \/ PopWord \/ LoadFar \/ Flags \/ CopyWords
                 \/ SetErrno
          <5>1. at' = at + 1 /\ call' = call
            BY <4>4 DEF Move, Exchange, PushWord, PopWord, LoadFar, Flags, CopyWords, SetErrno,
                        Straight
          <5>2. Framed(This)
            BY <2>4, <4>2, <4>4, MoveFrames, ExchangeFrames, PushFrames, PopFrames, LoadFarFrames,
               FlagsFrames, CopyFrames, SetErrnoFrames
          <5>3. QED
            BY <2>3, <2>5, <4>2, <5>1, <5>2, CourseGoesOn
        <4>5. QED
          BY <3>4, <4>3, <4>4
      <3>5. QED
        BY <2>1, <3>2, <3>3, <3>4
    <2>6. CASE /\ at = Len(s) + 1 /\ This.op = "ret"
               /\ This.args = PopsArgs(call.build, ArgWords(call.name), TwoInRegs(call.name))
      <3>1. ReturnFar
        BY <2>1, <2>6 DEF Move, Exchange, PushWord, PopWord, LoadFar, Flags, CopyWords, Interrupt,
                          SetErrno, Jump, Is
      <3>2. QED
        BY <2>3, <2>6, <3>1, ReturnGoesOut
    <2>7. QED
      BY <2>3, <2>5, <2>6, InstructionIs
  <1>3. QED
    BY <1>1, <1>2 DEF intVars

\* Every routine, however it is built and whatever interrupt it raises, returns with the
\* stack as its calling convention has it, and copies go upwards again.
THEOREM FramesComeBack == IntSpec => []FrameGivenBack
  <1>1. CallInv => FrameGivenBack
    BY DEF CallInv
  <1>2. QED
    BY <1>1, CallStarts, CallSteps, PTL DEF IntSpec
=============================================================================
