------------------------------ MODULE DosCalls ------------------------------
(***************************************************************************)
(* The calls that hand a request to DOS and its answer back, with errno:   *)
(* memory (_dos_allocmem, _dos_setblock, _dos_freemem, and _fmalloc and    *)
(* _ffree over them), files (_dos_open, _dos_creat, _dos_creatnew,         *)
(* _dos_read, _dos_write), directories (mkdir, rmdir, chdir), the disk's   *)
(* space and searches (_dos_findfirst, _dos_findnext).                     *)
(*                                                                         *)
(* DOS is external: it does what it is asked, or sets the carry flag and   *)
(* gives an error code.  A search lives in the buffer that was the disk    *)
(* transfer area (DTA) when it was begun, and goes on in the one that is.  *)
(***************************************************************************)
EXTENDS Integers, FiniteSets

CONSTANTS ArenaParas, ParaSize, \* the memory of DOS, in paragraphs of ParaSize bytes
          SizeWidth,            \* the values of a size_t
          Requested,            \* the sizes that programs ask for
          LibModes,             \* the C library's O_RDONLY, O_WRONLY and O_RDWR
          Paths,                \* paths of files and directories
          Patterns, Buffers,    \* the file names searched for, the struct find_t buffers
          MaxFound              \* bound: files that a pattern matches

ASSUME DosAssumption ==
  /\ ArenaParas \in Nat /\ {ParaSize, SizeWidth} \subseteq Nat \ {0}
  /\ Requested \subseteq 0..SizeWidth - 1 /\ MaxFound \in Nat
  /\ LibModes \subseteq [rd : 0..3, wr : 0..3, rw : 0..3]
  /\ \A m \in LibModes : m.rd # m.wr /\ m.rd # m.rw /\ m.wr # m.rw

VARIABLES topic,     \* what the program calls DOS for: memory, files or searches
          lib_modes, \* the member of LibModes that the library was built with
          errno_val,
          last,     \* the last call: whether DOS did it, what it returned, what it
                    \* stored by way of a pointer
          arena,    \* the memory blocks, where they start to their number of paragraphs
          asked_of, \* and the bytes that the program has asked of each
          tree,     \* what is at each path, and what the program takes to be there
          meant,
          cwd,
          opened,   \* the access that DOS was asked for, and that the program wanted
          dta,
          searches, \* the place that the search in each buffer has come to
          wanted    \* and the place where the program expects it

memoryVars == <<arena, asked_of>>
fileVars == <<tree, meant, cwd, opened>>
searchVars == <<dta, searches, wanted>>
dosVars == <<topic, lib_modes, errno_val, last, memoryVars, fileVars, searchVars>>

NoSearch == [pattern |-> "none", at |-> 0]
ErrorCodes == {5}        \* access denied; 8 is no memory, 18 no more files
EINVAL == 22
ERANGE == 34
NoSuchBlock == 9
BadAccess == 12
FileExists == 80

DosInit == /\ topic \in {"memory", "files", "searches"}
           /\ lib_modes \in LibModes /\ errno_val = 0
           /\ last = [done |-> TRUE, ret |-> 0, stored |-> "nothing"]
           /\ arena = [s \in {} |-> 0] /\ asked_of = [s \in {} |-> 0]
           /\ tree = [p \in Paths |-> "none"] /\ meant = tree /\ cwd = "root"
           /\ opened = [handle |-> FALSE, asked |-> 0, want |-> 0]
           /\ dta = "psp" /\ searches = [b \in Buffers |-> NoSearch]
           /\ wanted = [b \in Buffers |-> NoSearch]

\* A call that DOS does, and one that it refuses with code e: what the caller gets
Done(stored) == /\ last' = [done |-> TRUE, ret |-> 0, stored |-> stored]
                /\ UNCHANGED errno_val
ReallySetErrno(e, ret, stored) == /\ last' = [done |-> FALSE, ret |-> ret, stored |-> stored]
                                  /\ errno_val' = e
Refused(e) == ReallySetErrno(e, e, "nothing")

-----------------------------------------------------------------------------
(* Memory.                                                                 *)

\* The block at s: a paragraph that DOS keeps, and those of the program
Block(s) == s..s + arena[s]
Free(paras) == {s \in 1..ArenaParas - paras :
                  \A t \in DOMAIN arena : Block(t) \intersect s..s + paras = {}}
Put(f, s, v) == [t \in DOMAIN f \union {s} |-> IF t = s THEN v ELSE f[t]]
Drop(f, s) == [t \in DOMAIN f \ {s} |-> f[t]]

\* The paragraphs that _fmalloc asks for
ParasOf(size) == IF size = 0 THEN 0 ELSE (size - 1) \div ParaSize + 1

\* _fmalloc, and _dos_allocmem, which on failure stores the size of the largest block
AllocMem == /\ topic = "memory" /\ \E size \in Requested :
                 LET paras == ParasOf(size) IN
                 \/ \E s \in Free(paras) : /\ arena' = Put(arena, s, paras)
                                           /\ asked_of' = Put(asked_of, s, size)
                                           /\ Done("segment")
                 \/ /\ Free(paras) = {} /\ UNCHANGED memoryVars
                    /\ ReallySetErrno(8, 8, "largest")
            /\ UNCHANGED <<topic, lib_modes, fileVars, searchVars>>

\* _dos_setblock, with the paragraphs for a size
SetBlock == /\ topic = "memory" /\ \E s \in DOMAIN arena, size \in Requested :
                 LET paras == ParasOf(size) IN
                 IF \/ s + paras > ArenaParas
                    \/ \E t \in DOMAIN arena \ {s} : t \in s..s + paras
                 THEN UNCHANGED memoryVars /\ ReallySetErrno(8, 8, "largest")
                 ELSE /\ arena' = Put(arena, s, paras) /\ asked_of' = Put(asked_of, s, size)
                      /\ Done("nothing")
            /\ UNCHANGED <<topic, lib_modes, fileVars, searchVars>>

\* _ffree, and _dos_freemem, which sets errno to 0 when DOS frees the block; a segment
\* at which no block starts is refused
FreeMem == /\ topic = "memory" /\ \E s \in 1..ArenaParas :
                IF s \notin DOMAIN arena THEN UNCHANGED memoryVars /\ Refused(NoSuchBlock)
                ELSE /\ arena' = Drop(arena, s) /\ asked_of' = Drop(asked_of, s)
                     /\ last' = [done |-> TRUE, ret |-> 0, stored |-> "nothing"]
                     /\ errno_val' = 0
           /\ UNCHANGED <<topic, lib_modes, fileVars, searchVars>>

-----------------------------------------------------------------------------
(* Files, directories and disks.                                           *)

\* The access mode for DOS, of one in the C library's values
ModeForDos(mode) == IF lib_modes.rd # 0 /\ mode = lib_modes.rd THEN 0
                    ELSE IF lib_modes.wr # 1 /\ mode = lib_modes.wr THEN 1
                    ELSE IF lib_modes.rw # 2 /\ mode = lib_modes.rw THEN 2
                    ELSE mode

FileCall == /\ topic = "files" /\ UNCHANGED <<topic, lib_modes, memoryVars, searchVars>>

\* What DOS does at path p for a function, and when it can; it may refuse all the same
AfterAt(function, p) == CASE function \in {60, 91} -> [tree EXCEPT ![p] = "file"]
                          [] function = 57 -> [tree EXCEPT ![p] = "dir"]
                          [] function = 58 -> [tree EXCEPT ![p] = "none"]
                          [] OTHER -> tree
Able(function, p) == CASE function = 60 -> tree[p] # "dir"
                       [] function \in {91, 57} -> tree[p] = "none"
                       [] function = 61 -> tree[p] = "file"
                       [] function = 58 -> tree[p] = "dir" /\ cwd # p
                       [] function = 59 -> tree[p] = "dir"

\* __libi86_bdos_dsdxsz and its like: what the call returns when DOS refuses is its
\* error code, or -1.  The program means result to be at p if the call does not fail.
Bdos(function, p, returns_code, stored, result) ==
  LET Fails(e) == /\ ReallySetErrno(e, IF returns_code THEN e ELSE -1, "nothing")
                  /\ UNCHANGED fileVars
  IN  IF ~Able(function, p) THEN Fails(IF function = 91 THEN FileExists ELSE 3)
      ELSE \/ /\ tree' = AfterAt(function, p) /\ meant' = [meant EXCEPT ![p] = result]
              /\ cwd' = IF function = 59 THEN p ELSE cwd
              /\ Done(stored)
           \/ \E e \in ErrorCodes : Fails(e)

Creat == FileCall /\ \E p \in Paths : Bdos(60, p, TRUE, "handle", "file") /\ UNCHANGED opened
CreatNew == FileCall /\ \E p \in Paths : Bdos(91, p, TRUE, "handle", "file") /\ UNCHANGED opened
MkDir == FileCall /\ \E p \in Paths : Bdos(57, p, FALSE, "nothing", "dir") /\ UNCHANGED opened
RmDir == FileCall /\ \E p \in Paths : Bdos(58, p, FALSE, "nothing", "none") /\ UNCHANGED opened
ChDir == FileCall /\ \E p \in Paths : Bdos(59, p, FALSE, "nothing", meant[p]) /\ UNCHANGED opened

\* getcwd: with a buffer that is large enough or not
GetCwd == /\ FileCall /\ UNCHANGED fileVars
          /\ \/ Done(cwd) \/ ReallySetErrno(ERANGE, -1, "nothing")
             \/ \E e \in ErrorCodes : ReallySetErrno(e, -1, "nothing")

\* Reading, writing and both are 0, 1 and 2 to DOS; an open mode that does not fit a
\* byte never gets there
Open == /\ FileCall
        /\ \E want \in 0..2, fits \in BOOLEAN, p \in Paths :
             LET mode == CASE want = 0 -> lib_modes.rd
                           [] want = 1 -> lib_modes.wr
                           [] want = 2 -> lib_modes.rw
             IN  IF ~fits THEN Refused(BadAccess) /\ UNCHANGED fileVars
                 ELSE /\ Bdos(61, p, TRUE, "handle", meant[p])
                      /\ opened' = IF last'.done
                                   THEN [handle |-> TRUE, asked |-> ModeForDos(mode), want |-> want]
                                   ELSE opened

\* They store the number of bytes
ReadOrWrite(access) == /\ FileCall /\ opened.handle /\ UNCHANGED fileVars
                       /\ \/ opened.asked \in {access, 2} /\ Done("count")
                          \/ \E e \in ErrorCodes : Refused(e)
Read == ReadOrWrite(0)
Write == ReadOrWrite(1)

\* For a drive that there is, or is not
GetDiskFree == /\ FileCall /\ UNCHANGED fileVars
               /\ Done("space") \/ ReallySetErrno(EINVAL, -1, "nothing")

-----------------------------------------------------------------------------
(* Searches.                                                               *)

MsdosSetDta(b) == dta' = b

\* DOS begins a search in b, the new DTA
FindFirst == /\ topic = "searches" /\ \E b \in Buffers, p \in Patterns :
                  /\ MsdosSetDta(b)
                  /\ \/ /\ searches' = [searches EXCEPT ![b] = [pattern |-> p, at |-> 1]]
                        /\ wanted' = [wanted EXCEPT ![b] = [pattern |-> p, at |-> 1]]
                        /\ Done("found")
                     \/ \E e \in ErrorCodes : Refused(e) /\ UNCHANGED <<searches, wanted>>
             /\ UNCHANGED <<topic, lib_modes, memoryVars, fileVars>>

\* DOS goes on with the search in the DTA, to the next file that matches
NextIn(d) == IF d \in Buffers /\ searches[d].at < MaxFound
             THEN [searches EXCEPT ![d].at = @ + 1] ELSE searches

FindNextWith(d) ==
  /\ topic = "searches" /\ \E b \in Buffers :
       /\ searches[b] # NoSearch /\ MsdosSetDta(d[b])
       /\ IF d[b] \in Buffers /\ searches[d[b]].at < MaxFound
          THEN /\ searches' = NextIn(d[b]) /\ wanted' = [wanted EXCEPT ![b].at = @ + 1]
               /\ Done("found")
          ELSE UNCHANGED <<searches, wanted>> /\ Refused(18)
  /\ UNCHANGED <<topic, lib_modes, memoryVars, fileVars>>
FindNextInDta == FindNextWith([b \in Buffers |-> dta])
FindNext == FindNextWith([b \in Buffers |-> b])

\* Something else in the program takes the DTA
DtaTaken == /\ topic = "searches" /\ dta' = "psp" /\ UNCHANGED <<topic, lib_modes, errno_val>>
            /\ UNCHANGED <<last, memoryVars, fileVars, searches, wanted>>

DosNext == \/ AllocMem \/ SetBlock \/ FreeMem
           \/ Creat \/ CreatNew \/ MkDir \/ RmDir \/ ChDir \/ GetCwd \/ Open \/ Read \/ Write
           \/ GetDiskFree
           \/ FindFirst \/ FindNext \/ DtaTaken

DosSpec == DosInit /\ [][DosNext]_dosVars

-----------------------------------------------------------------------------
(* Correctness.                                                            *)

\* A program learns of a failure, and only of a failure, by what the call returns, and
\* errno then says why.  Blocks hold the bytes that were asked for and do not overlap;
\* the files and directories are those that the program made, a file is opened for what
\* was wanted; and searches do not disturb one another.
AnswersAreTrue ==
  /\ (last.ret = 0) = last.done
  /\ last.ret > 0 => errno_val = last.ret
  /\ last.ret # 0 => errno_val # 0
  /\ \A s \in DOMAIN arena : arena[s] * ParaSize >= asked_of[s]
  /\ \A s, t \in DOMAIN arena : s # t => Block(s) \intersect Block(t) = {}
  /\ tree = meant /\ opened.asked = opened.want
  /\ searches = wanted
=============================================================================
