----------------------------- MODULE Interrupts -----------------------------
(***************************************************************************)
(* The routines that carry a C call to a software interrupt and its answer *)
(* back: int86, int86x, intdos, intdosx, intr, _intrf, bdos, and some that *)
(* ask DOS for one thing or reach far memory (_dos_close, _dos_getftime,   *)
(* peek, poke, _fmemcpy).                                                  *)
(*                                                                         *)
(* They are written once, in assembly, over macros that turn them into     *)
(* code for three calling conventions, near and far calls, and two         *)
(* processors.  Here the macros of call-cvt.h and struc.h make a sequence  *)
(* of instructions, which a small 8086 runs: its words have two bytes of   *)
(* four bits, and an address is that of a word.  The compiler that calls   *)
(* the routine and the interrupt's handler are external.                   *)
(***************************************************************************)
EXTENDS Integers, Sequences, FiniteSets, SequencesExt

CONSTANTS Builds,   \* how a routine is built: for "gcc" or "ack", its calling convention,
                    \* far calls, for small size, for a processor that pushes constants,
                    \* compatible with Borland C
          Numbers   \* the interrupts that programs raise

ASSUME InterruptsAssumption ==
  /\ Builds \subseteq [host : {"gcc", "ack"}, conv : {"regparmcall", "stdcall", "cdecl"},
                       far : BOOLEAN, small : BOOLEAN, imm : BOOLEAN, bc : BOOLEAN]
  /\ Numbers \subseteq Int

VARIABLES call,     \* the routine, how it was built, what it was called for
          at,       \* the instruction to run next; 0 when it has returned
          reg, mem, \* the registers, flags among them, and memory by segment and address
          seen,     \* the registers as the interrupt found them, and its number
          given     \* and as it left them

intVars == <<call, at, reg, mem, seen, given>>

ByteBase == 16
Ours == 1       \* the segment of the program's data and stack, another, and that of
Other == 2      \* its code
CodeSeg == 3
StackTop == 60       \* the stack, as the caller has it
InRegs == 0     \* where the caller has its structures
OutRegs == 10
SegRegs == 20
Pack == 25
Lost == -1      \* where a return goes that finds no return address
DoneLabel == 250     \* the label .done, the return address of the caller
Back == <<240, 241>>

\* The fields of struct WORDREGS, struct SREGS and struct REGPACKW
WordRegs == <<"ax", "bx", "cx", "dx", "si", "di", "bp", "cflag", "flags">>
SRegs == <<"es", "cs", "ss", "ds">>
RegPack == <<"ax", "bx", "cx", "dx", "bp", "si", "di", "ds", "es", "flags">>
FieldAt(layout, f) == (CHOOSE i \in DOMAIN layout : layout[i] = f) - 1

-----------------------------------------------------------------------------
(* Operands and instructions.                                              *)

R(r) == <<"reg", r>>
LowByte(r) == <<"lo", r>>
HighByte(r) == <<"hi", r>>
Imm(n) == <<"imm", n>>
Mem(s, b, d) == <<"mem", s, b, d>>
Mov(src, dst) == [op |-> "mov", src |-> src, dst |-> dst]
MovB(src, dst) == [op |-> "movb", src |-> src, dst |-> dst]
Xchg(a, b) == [op |-> "xchg", src |-> a, dst |-> b]
Push(src) == [op |-> "push", src |-> src]
Pop(dst) == [op |-> "pop", dst |-> dst]
Lseg(s, src, dst) == [op |-> "lseg", seg |-> s, src |-> src, dst |-> dst]
Jc(skip) == [op |-> "jc", skip |-> skip]
Op(op) == [op |-> op]
Pops(rs) == [i \in DOMAIN rs |-> Pop(R(rs[i]))]
Pushes(rs) == [i \in DOMAIN rs |-> Push(R(rs[i]))]

-----------------------------------------------------------------------------
(* The macros of call-cvt.h, for a build b.  "two" tells of a function     *)
(* that has only two registers' worth of its arguments in registers.       *)

ArgRegs == <<"ax", "dx", "cx">>
RegArgs(b, two) == IF b.conv # "regparmcall" THEN 0 ELSE IF two THEN 2 ELSE 3
FarAdj(b) == IF b.far THEN 1 ELSE 0

\* ENTER_BX_ and ENTER2_BX_, for n words of arguments
EnterBx(b, n, two) == IF b.conv = "regparmcall" /\ n <= RegArgs(b, two) THEN <<>>
                      ELSE <<Mov(R("sp"), R("bx"))>>

\* ARG0W_BX_ and so on: the place of argument word k, the first being 0
ArgW(b, k, two) == IF k < RegArgs(b, two) THEN R(ArgRegs[k + 1])
                   ELSE Mem("ds", "bx", FarAdj(b) + 1 + k - RegArgs(b, two))
MovArg(b, k, two, r) == IF ArgW(b, k, two) = R(r) THEN <<>> ELSE <<Mov(ArgW(b, k, two), R(r))>>
MovArgB(b, k, dst) == IF k < RegArgs(b, FALSE) /\ dst = LowByte(ArgRegs[k + 1]) THEN <<>>
                      ELSE <<MovB(ArgW(b, k, FALSE), dst)>>
MovArgClobber(b, k, r) ==
  IF /\ b.conv = "regparmcall" /\ b.small /\ k < 3
     /\ ArgRegs[k + 1] # r /\ "ax" \in {r, ArgRegs[k + 1]}
  THEN <<Xchg(R("ax"), R(IF k = 0 THEN r ELSE ArgRegs[k + 1]))>>
  ELSE MovArg(b, k, FALSE, r)

\* LDS_ARG0W_BX_ and so on
LdsArg(b, k, two, r) ==
  IF k < RegArgs(b, two) THEN <<Mov(R(ArgRegs[k + 2]), R("ds"))>> \o MovArg(b, k, two, r)
  ELSE <<Lseg("ds", ArgW(b, k, two), R(r))>>

\* RET_ and RET2_, and TAIL_CALL_ to __libi86_ret_set_errno
PopsArgs(b, n, two) == CASE b.conv = "cdecl" \/ n < RegArgs(b, two) -> 0
                         [] OTHER -> n - RegArgs(b, two)
Ret(b, n, two) == <<[op |-> "ret", args |-> PopsArgs(b, n, two)]>>
RetSetErrno(b, n) == <<Op("set errno")>> \o Ret(b, n, FALSE)

\* PUSH_IMM_VIA_
PushImmVia(b, n, r) == IF b.imm THEN <<Push(Imm(n))>> ELSE <<Mov(Imm(n), R(r)), Push(R(r))>>

-----------------------------------------------------------------------------
(* The macros of struc.h.                                                  *)

Loads(layout, b, rs) == [i \in DOMAIN rs |-> Mov(Mem("ds", b, FieldAt(layout, rs[i])), R(rs[i]))]
Stores(layout, s, b, rs) == [i \in DOMAIN rs |-> Mov(R(rs[i]), Mem(s, b, FieldAt(layout, rs[i])))]

LoadUnionRegsBx == <<[op |-> "carry", src |-> Mem("ds", "bx", FieldAt(WordRegs, "cflag"))]>>
                   \o Loads(WordRegs, "bx", <<"ax", "cx", "dx", "si", "di", "bp", "bx">>)

\* In the ACK build for Borland C, the operands of the third instruction are the
\* other way round
StoreUnionRegsBx(b) ==
  <<Mov(R("ax"), Mem("ds", "bx", 0)), Pop(Mem("ds", "bx", 1))>>
  \o (IF b.host = "ack" /\ b.bc THEN Loads(WordRegs, "bx", <<"cx">>)
      ELSE Stores(WordRegs, "ds", "bx", <<"cx">>))
  \o Stores(WordRegs, "ds", "bx", <<"dx", "si", "di", "bp">>)
  \o (IF b.bc THEN <<Push(R("flags")), Pop(Mem("ds", "bx", FieldAt(WordRegs, "flags")))>> ELSE <<>>)
  \o <<Op("sbb cx"), Mov(R("cx"), Mem("ds", "bx", FieldAt(WordRegs, "cflag")))>>

LoadUnionRegPackDi == Loads(RegPack, "di", <<"ax", "bx", "cx", "dx", "bp", "si", "es">>)
                      \o <<Lseg("ds", Mem("ds", "di", FieldAt(RegPack, "di")), R("di"))>>
StoreUnionRegPackBp == Stores(RegPack, "ss", "bp", <<"ax", "bx", "cx", "dx">>)
                       \o <<Pop(Mem("ss", "bp", FieldAt(RegPack, "bp")))>>
                       \o Stores(RegPack, "ss", "bp", <<"si", "di", "ds", "es">>)
                       \o <<Push(R("flags")), Pop(Mem("ss", "bp", FieldAt(RegPack, "flags")))>>

-----------------------------------------------------------------------------
(* The routines.                                                           *)

Saved == <<"bp", "si", "di", "es">>
Restored == Pops(<<"es", "di", "si", "bp">>)
EsLikeDs == <<Mov(R("ds"), R("si")), Mov(R("si"), R("es"))>>
DsLikeSs == <<Mov(R("ss"), R("ds"))>>     \* by way of a register or the stack
Cld == <<Mov(Imm(0), R("df"))>>
\* Afterwards: out_regs is on the stack
StoreOutRegs(b) == <<Mov(R("sp"), R("bx")), Mov(Mem("ds", "bx", 1), R("bx"))>>
                   \o StoreUnionRegsBx(b)
\* And seg_regs above it
StoreSegRegs == <<Mov(R("sp"), R("bx")), Mov(Mem("ss", "bx", 2), R("bx"))>>
                \o Stores(SRegs, "ss", "bx", <<"ds">>) \o DsLikeSs
                \o Stores(SRegs, "ds", "bx", <<"es", "cs", "ss">>)

Intdos(b) ==
  EnterBx(b, 2, FALSE) \o Pushes(Saved) \o EsLikeDs \o <<Push(ArgW(b, 1, FALSE))>>
  \o MovArg(b, 0, FALSE, "bx") \o LoadUnionRegsBx \o <<Op("int")>> \o <<Push(R("bx"))>>
  \o <<Mov(R("ss"), R("bx")), Mov(R("bx"), R("ds"))>> \o StoreOutRegs(b) \o <<Pop(R("cx"))>>
  \o Cld \o Restored \o Ret(b, 2, FALSE)

Intdosx(b) ==
  EnterBx(b, 3, FALSE) \o Pushes(Saved) \o MovArg(b, 2, FALSE, "si")
  \o <<Push(R("si")), Mov(Mem("ds", "si", FieldAt(SRegs, "es")), R("es")), Push(ArgW(b, 1, FALSE)),
       Push(Mem("ds", "si", FieldAt(SRegs, "ds")))>>
  \o MovArg(b, 0, FALSE, "bx") \o LoadUnionRegsBx \o <<Pop(R("ds")), Op("int"), Push(R("bx"))>>
  \o StoreSegRegs \o StoreOutRegs(b) \o Pops(<<"cx", "cx">>) \o Cld \o Restored \o Ret(b, 3, FALSE)

Int86Do(b) ==
  EnterBx(b, 3, FALSE) \o Pushes(Saved) \o EsLikeDs \o <<Push(ArgW(b, 2, FALSE))>>
  \o PushImmVia(b, DoneLabel, "si") \o <<Push(ArgW(b, 0, FALSE))>> \o MovArg(b, 1, FALSE, "bx")
  \o LoadUnionRegsBx \o <<Op("thunk"), Push(R("bx"))>>
  \o <<Mov(R("ss"), R("bx")), Mov(R("bx"), R("ds"))>> \o StoreOutRegs(b) \o <<Pop(R("cx"))>>
  \o Cld \o Restored \o Ret(b, 3, FALSE)

Int86xDo(b) ==
  EnterBx(b, 4, FALSE) \o Pushes(Saved) \o MovArg(b, 3, FALSE, "si")
  \o <<Push(R("si")), Mov(Mem("ds", "si", FieldAt(SRegs, "es")), R("es")), Push(ArgW(b, 2, FALSE))>>
  \o PushImmVia(b, DoneLabel, "di")
  \o <<Push(ArgW(b, 0, FALSE)), Push(Mem("ds", "si", FieldAt(SRegs, "ds")))>>
  \o MovArg(b, 1, FALSE, "bx") \o LoadUnionRegsBx \o <<Pop(R("ds")), Op("thunk"), Push(R("bx"))>>
  \o StoreSegRegs \o StoreOutRegs(b) \o Pops(<<"cx", "cx">>) \o Cld \o Restored \o Ret(b, 4, FALSE)

IntrfDo(b) ==
  EnterBx(b, 3, FALSE) \o Pushes(Saved) \o MovArg(b, 1, FALSE, "di") \o <<Push(R("di"))>>
  \o PushImmVia(b, DoneLabel, "si") \o <<Push(ArgW(b, 0, FALSE))>> \o MovArgB(b, 2, HighByte("ax"))
  \o <<MovB(HighByte("ax"), R("flags"))>> \o LoadUnionRegPackDi \o <<Op("thunk"), Push(R("bp"))>>
  \o <<Mov(R("sp"), R("bp")), Mov(Mem("ss", "bp", 1), R("bp"))>> \o StoreUnionRegPackBp
  \o <<Pop(R("ax"))>> \o Cld \o DsLikeSs \o Restored \o Ret(b, 3, FALSE)

BdosCode(b) ==
  EnterBx(b, 3, FALSE) \o Pushes(<<"si", "di", "es", "bp">>) \o MovArgB(b, 0, HighByte("ax"))
  \o MovArg(b, 1, FALSE, "dx") \o MovArgB(b, 2, LowByte("ax")) \o <<Op("int bdos")>>
  \o Pops(<<"bp", "es", "di", "si">>) \o DsLikeSs \o Ret(b, 3, FALSE)

DosClose(b) == EnterBx(b, 1, FALSE) \o MovArgClobber(b, 0, "bx")
               \o <<Op("int dos")>> \o RetSetErrno(b, 1)

\* The first of the two ways pops, and skips the instruction that pops in the other
DosGetFtime(b) ==
  EnterBx(b, 3, FALSE) \o <<Push(ArgW(b, 1, FALSE)), Push(ArgW(b, 2, FALSE))>>
  \o MovArgClobber(b, 0, "bx")
  \o <<Op("int dos"), Pop(R("bx")), Jc(4), Mov(R("cx"), Mem("ds", "bx", 0)), Pop(R("bx")),
       Mov(R("dx"), Mem("ds", "bx", 0)), [op |-> "skip", skip |-> 1], Pop(R("bx"))>>
  \o RetSetErrno(b, 3)

Peek(b) == EnterBx(b, 2, FALSE) \o <<Mov(R("es"), R("cx"))>>
           \o MovArg(b, 0, FALSE, "es") \o MovArgClobber(b, 1, "bx")
           \o <<Mov(Mem("es", "bx", 0), R("ax")), Mov(R("cx"), R("es"))>> \o Ret(b, 2, FALSE)

\* A mutant: the offset is fetched before the value
PokeOffsetFirst(b) == EnterBx(b, 3, FALSE) \o <<Push(R("es"))>> \o MovArg(b, 0, FALSE, "es")
                      \o MovArgClobber(b, 1, "bx") \o MovArgClobber(b, 2, "ax")
                      \o <<Mov(R("ax"), Mem("es", "bx", 0)), Pop(R("es"))>> \o Ret(b, 3, FALSE)
Poke(b) == EnterBx(b, 3, FALSE) \o <<Push(R("es"))>> \o MovArg(b, 0, FALSE, "es")
           \o MovArgClobber(b, 2, "ax") \o MovArgClobber(b, 1, "bx")
           \o <<Mov(R("ax"), Mem("es", "bx", 0)), Pop(R("es"))>> \o Ret(b, 3, FALSE)

FMemCpy(b) ==
  EnterBx(b, 5, TRUE) \o Pushes(<<"ds", "es", "si", "di">>) \o MovArg(b, 4, TRUE, "cx")
  \o MovArg(b, 0, TRUE, "ax") \o MovArg(b, 1, TRUE, "dx")
  \o <<Mov(R("ax"), R("di")), Mov(R("dx"), R("es"))>> \o LdsArg(b, 2, TRUE, "si")
  \o <<Op("rep movs")>> \o Pops(<<"di", "si", "es", "ds">>) \o Ret(b, 5, TRUE)

-----------------------------------------------------------------------------
(* Calls.                                                                  *)

\* The routine that raises interrupt n: named by its octal digits if n is a constant,
\* found in a table (GCC) or at three bytes each (ACK) if it is not
ByDigits(n) == ((n \div 64) % 4) * 64 + ((n \div 8) % 8) * 8 + (n % 8)
InTable(n) == n % 256
Dispatched(n) == (3 * (n % 256)) \div 3
ThunkOf(b, n, constant) == IF b.host = "ack" THEN Dispatched(n)
                           ELSE IF constant THEN ByDigits(n) ELSE InTable(n)

Regs86 == {"int86", "int86x", "intdos", "intdosx"}
GccOnly == {"bdos", "_dos_close", "_dos_getftime", "peek", "poke", "_fmemcpy"}
Names == Regs86 \union GccOnly \union {"intr", "_intrf"}

CodeOf == [b \in Builds |-> [name \in Names |->
  CASE name = "intdos" -> Intdos(b)
    [] name = "intdosx" -> Intdosx(b)
    [] name = "int86" -> Int86Do(b)
    [] name = "int86x" -> Int86xDo(b)
    [] name \in {"intr", "_intrf"} -> IntrfDo(b)
    [] name = "bdos" -> BdosCode(b)
    [] name = "_dos_close" -> DosClose(b)
    [] name = "_dos_getftime" -> DosGetFtime(b)
    [] name = "peek" -> Peek(b)
    [] name = "poke" -> Poke(b)
    [] name = "_fmemcpy" -> FMemCpy(b)]]

\* The words of a routine's arguments; int86 and its kin look up the interrupt's
\* routine first
Flags16 == 90
Int86Args(thunk, out) == <<thunk, InRegs, out>>
Int86xArgs(thunk, out) == <<thunk, InRegs, out, SegRegs>>
IntrArgs(thunk) == <<thunk, Pack, 0>>
IntrfArgs(thunk) == <<thunk, Pack, Flags16>>
ArgsOf(name, thunk, out) ==
  CASE name = "intdos"  -> <<InRegs, out>>
    [] name = "intdosx" -> <<InRegs, out, SegRegs>>
    [] name = "int86"   -> Int86Args(thunk, out)
    [] name = "int86x"  -> Int86xArgs(thunk, out)
    [] name = "intr"    -> IntrArgs(thunk)
    [] name = "_intrf"  -> IntrfArgs(thunk)
    [] name = "bdos"    -> <<9, 33, 4>>
    [] name = "_dos_close"    -> <<7>>
    [] name = "_dos_getftime" -> <<7, OutRegs, OutRegs + 1>>
    [] name = "peek"    -> <<Other, 5>>
    [] name = "poke"    -> <<Other, 5, 77>>
    [] name = "_fmemcpy" -> <<OutRegs, Ours, 4, Other, 2>>

\* The compiler passes whole arguments in registers, as long as they fit: words, except
\* the far pointers of _fmemcpy
InRegisters == IF call.build.conv # "regparmcall" THEN 0
               ELSE IF call.name = "_fmemcpy" THEN 2
               ELSE IF Len(call.args) < 3 THEN Len(call.args) ELSE 3

OnStack == SubSeq(call.args, InRegisters + 1, Len(call.args))
Returns == IF call.build.far THEN Back ELSE SubSeq(Back, 1, 1)
EntrySp == StackTop - Len(OnStack) - Len(Returns)

EntryMem ==
  <<[a \in 0..StackTop |->
       IF a = InRegs + FieldAt(WordRegs, "cflag") THEN call.carry
       ELSE IF a \in {SegRegs + FieldAt(SRegs, f) : f \in {"es", "ds"}}
                     \union {Pack + FieldAt(RegPack, f) : f \in {"es", "ds"}} THEN Other
       ELSE IF a = Pack + FieldAt(RegPack, "flags") THEN Flags16
       ELSE IF a \in EntrySp..StackTop - 1 THEN (Returns \o OnStack)[a - EntrySp + 1]
       ELSE 100 + a],
    [a \in 0..7 |-> 170 + a]>>

EntryReg ==
  [ax |-> IF InRegisters > 0 THEN call.args[1] ELSE 201,
   dx |-> IF InRegisters > 1 THEN call.args[2] ELSE 202,
   cx |-> IF InRegisters > 2 THEN call.args[3] ELSE 203,
   bx |-> 204, si |-> 205, di |-> 206, bp |-> 207, es |-> Other, ds |-> Ours, ss |-> Ours,
   cs |-> CodeSeg, sp |-> EntrySp, flags |-> 2, df |-> 0, errno |-> 0]

IntInit ==
  /\ \E b \in Builds, n \in Numbers, constant \in BOOLEAN, out \in {InRegs, OutRegs},
        name \in Names, carry \in {0, 246} :
       /\ b.host = "ack" => name \notin GccOnly /\ ~constant
       /\ name \notin Regs86 => out = OutRegs /\ carry = 0
       /\ name \in GccOnly \union {"intdos", "intdosx"} => n = 33 /\ ~constant
       /\ call = [build |-> b, name |-> name, number |-> n, out |-> out, carry |-> carry,
                  args |-> ArgsOf(name, ThunkOf(b, n, constant), out)]
  /\ at = 1 /\ reg = EntryReg /\ mem = EntryMem
  /\ seen = [number |-> -1, reg |-> reg] /\ given = reg

-----------------------------------------------------------------------------
(* The processor.                                                          *)

This == CodeOf[call.build][call.name][at]
Is(op) == at > 0 /\ This.op = op
Segment(o) == reg[o[2]]
Offset(o) == reg[o[3]] + o[4]
Value(o) == CASE o[1] = "reg" -> reg[o[2]]
              [] o[1] = "lo" -> reg[o[2]] % ByteBase
              [] o[1] = "hi" -> reg[o[2]] \div ByteBase
              [] o[1] = "imm" -> o[2]
              [] o[1] = "mem" -> mem[Segment(o)][Offset(o)]
Merge(o, v) == CASE o[1] = "lo" -> (reg[o[2]] \div ByteBase) * ByteBase + v
                 [] o[1] = "hi" -> v * ByteBase + (reg[o[2]] % ByteBase)
                 [] OTHER -> v
PutAt(o, v) == IF o[1] = "mem"
               THEN mem' = [mem EXCEPT ![Segment(o)][Offset(o)] = v] /\ UNCHANGED reg
               ELSE reg' = [reg EXCEPT ![o[2]] = Merge(o, v)] /\ UNCHANGED mem
Carry(flags) == flags % 2 = 1
Stack(i) == mem[reg.ss][reg.sp + i]
Straight == at' = at + 1 /\ UNCHANGED call
NoInt == UNCHANGED <<seen, given>>

Move == /\ \/ Is("mov") /\ PutAt(This.dst, Value(This.src))
           \/ Is("movb") /\ PutAt(This.dst, Value(This.src) % ByteBase)
        /\ Straight /\ NoInt
Exchange == /\ Is("xchg")
            /\ reg' = [reg EXCEPT ![This.src[2]] = Value(This.dst),
                                  ![This.dst[2]] = Value(This.src)]
            /\ UNCHANGED mem /\ Straight /\ NoInt
PushWord == /\ Is("push") /\ mem' = [mem EXCEPT ![reg.ss][reg.sp - 1] = Value(This.src)]
            /\ reg' = [reg EXCEPT !.sp = @ - 1] /\ Straight /\ NoInt
PopWord == /\ Is("pop")
           /\ IF This.dst[1] = "mem"
              THEN /\ mem' = [mem EXCEPT ![Segment(This.dst)][Offset(This.dst)] = Stack(0)]
                   /\ reg' = [reg EXCEPT !.sp = @ + 1]
              ELSE reg' = [reg EXCEPT !.sp = @ + 1, ![This.dst[2]] = Stack(0)] /\ UNCHANGED mem
           /\ Straight /\ NoInt
LoadFar == /\ Is("lseg") /\ LET from == mem[Segment(This.src)]  a == Offset(This.src) IN
                reg' = [reg EXCEPT ![This.dst[2]] = from[a], ![This.seg] = from[a + 1]]
           /\ UNCHANGED mem /\ Straight /\ NoInt

\* cmpw $1, cflag and cmc; sbbw %cx, %cx
Flags == /\ \/ Is("carry") /\ reg' = [reg EXCEPT !.flags = IF Value(This.src) # 0 THEN 1 ELSE 0]
            \/ Is("sbb cx") /\ reg' = [reg EXCEPT !.cx = IF Carry(reg.flags) THEN 255 ELSE 0]
         /\ UNCHANGED mem /\ Straight /\ NoInt
CopyWords == /\ Is("rep movs")
             /\ mem' = [mem EXCEPT ![reg.es] = [a \in DOMAIN @ |->
                          IF a \in reg.di..reg.di + reg.cx - 1
                          THEN mem[reg.ds][reg.si + a - reg.di] ELSE @[a]]]
             /\ reg' = [reg EXCEPT !.si = @ + reg.cx, !.di = @ + reg.cx, !.cx = 0]
             /\ Straight /\ NoInt

\* The interrupt's handler leaves what it will in the registers; DOS leaves the
\* direction flag alone, and its functions for files most of the registers.  pops
\* is what the routine has off the stack by then.
Handler(n, kept, pops) ==
  /\ seen' = [number |-> n, reg |-> reg]
  /\ \E flags \in {4, 5} :
       reg' = [r \in DOMAIN reg |-> IF r = "flags" THEN flags ELSE IF r = "sp" THEN reg.sp + pops
                                    ELSE IF r = "df" /\ r \notin kept THEN 1
                                    ELSE IF r \in {"ds", "es"} \ kept THEN Other
                                    ELSE IF r \in kept \union {"ss", "cs", "errno"} THEN reg[r]
                                    ELSE 30 + reg.sp + (CHOOSE i \in 1..7 : WordRegs[i] = r)]
  /\ given' = reg' /\ UNCHANGED mem /\ Straight
\* Interrupts 0x25 and 0x26 of DOS leave the flags on the stack
LeftByDos(n) == IF n \in {37, 38} THEN 1 ELSE 0
PoppedByThunk(n) == IF n \in {37, 38} THEN 1 ELSE 0
Interrupt == \/ Is("int") /\ Handler(33, {}, 0)
             \/ Is("int bdos") /\ Handler(33, {"df"}, 0)
             \/ Is("int dos") /\ Handler(33, {"bx", "si", "di", "bp", "ds", "es", "df"}, 0)
             \/ /\ Is("thunk")
                /\ LET n == Stack(0) IN
                   IF Stack(1) = DoneLabel THEN Handler(n, {}, 2 - LeftByDos(n) + PoppedByThunk(n))
                   ELSE at' = Lost /\ UNCHANGED <<call, reg, mem, seen, given>>

Jump == /\ \/ Is("jc") /\ at' = at + 1 + (IF Carry(reg.flags) THEN This.skip ELSE 0)
           \/ Is("skip") /\ at' = at + 1 + This.skip
        /\ UNCHANGED <<call, reg, mem>> /\ NoInt

\* __libi86_ret_set_errno
SetErrno == /\ Is("set errno")
            /\ reg' = IF Carry(reg.flags) THEN [reg EXCEPT !.errno = reg.ax]
                      ELSE [reg EXCEPT !.ax = 0]
            /\ UNCHANGED mem /\ Straight /\ NoInt

ReturnFar == /\ Is("ret")
             /\ at' = IF \A i \in 1..Len(Returns) : Stack(i - 1) = Returns[i] THEN 0 ELSE Lost
             /\ reg' = [reg EXCEPT !.sp = @ + Len(Returns) + This.args]
             /\ UNCHANGED <<call, mem>> /\ NoInt
Returned == at = 0 /\ UNCHANGED intVars

IntNext == \/ Move \/ Exchange \/ PushWord \/ PopWord \/ LoadFar \/ Flags \/ CopyWords
           \/ Interrupt \/ Jump \/ SetErrno \/ ReturnFar \/ Returned

IntSpec == IntInit /\ [][IntNext]_intVars

-----------------------------------------------------------------------------
(* Correctness.                                                            *)

MemWord(s, a) == mem[s][a]
Was(s, a) == EntryMem[s][a]
Kept == {"si", "di", "bp", "ds", "es", "ss", "cs", "df"}
Holds(base, layout, from, fs) == \A f \in fs : MemWord(Ours, base + FieldAt(layout, f)) = from[f]

\* The interrupt that was asked for was raised, with the registers that were asked for
InRegsLoaded ==
  LET Loaded(base, layout, fs) == \A f \in fs : seen.reg[f] = Was(Ours, base + FieldAt(layout, f))
      General == {"ax", "bx", "cx", "dx", "si", "di", "bp"}
  IN  seen.number # -1 /\ at = 0 =>
        /\ seen.number = call.number % 256
        /\ call.name \in Regs86 =>
             /\ Loaded(InRegs, WordRegs, General)
             /\ Carry(seen.reg.flags) = (Was(Ours, InRegs + FieldAt(WordRegs, "cflag")) # 0)
        /\ call.name \in {"int86x", "intdosx"} => Loaded(SegRegs, SRegs, {"ds", "es"})
        /\ call.name \in {"intr", "_intrf"} =>
             /\ Loaded(Pack, RegPack, General \union {"ds", "es"})
             /\ seen.reg.flags = IF call.name = "intr" THEN 0 ELSE Flags16 % ByteBase
        /\ call.name = "bdos" => seen.reg.ax = 9 * ByteBase + 4 /\ seen.reg.dx = 33
        /\ call.name \in {"_dos_close", "_dos_getftime"} => seen.reg.bx = 7

\* What the interrupt answered is in the caller's structures
OutRegsStored ==
  at = 0 =>
    /\ call.name \in Regs86 =>
         /\ Holds(call.out, WordRegs, given, {"ax", "bx", "cx", "dx", "si", "di", "bp"})
         /\ (MemWord(Ours, call.out + FieldAt(WordRegs, "cflag")) # 0) = Carry(given.flags)
         /\ call.build.bc => Holds(call.out, WordRegs, given, {"flags"})
    /\ call.name \in {"int86x", "intdosx"} => Holds(SegRegs, SRegs, given, {"es", "cs", "ss", "ds"})
    /\ call.name \in {"intr", "_intrf"} =>
         Holds(Pack, RegPack, given, {RegPack[i] : i \in DOMAIN RegPack})

\* The other routines do what they are for
Answer ==
  CASE call.name \in Regs86 \union {"bdos"} -> reg.ax = given.ax
    [] call.name \in {"_dos_close", "_dos_getftime"} ->
         /\ reg.ax = IF Carry(given.flags) THEN given.ax ELSE 0
         /\ reg.errno = reg.ax
         /\ call.name = "_dos_getftime" /\ reg.ax = 0 =>
              MemWord(Ours, OutRegs) = given.dx /\ MemWord(Ours, OutRegs + 1) = given.cx
    [] call.name = "peek" -> reg.ax = Was(Other, 5)
    [] call.name = "poke" -> MemWord(Other, 5) = 77
    [] call.name = "_fmemcpy" -> /\ \A i \in {0, 1} : MemWord(Ours, OutRegs + i) = Was(Other, 4 + i)
                                 /\ reg.ax = OutRegs /\ reg.dx = Ours
    [] OTHER -> TRUE

\* What a routine may write: out_regs, seg_regs, *regs, the date and the time, a copy
Writable == CASE call.name \in Regs86 ->
                   {Ours} \X (call.out..call.out + 8 \union SegRegs..SegRegs + 3)
              [] call.name \in {"intr", "_intrf"} -> {Ours} \X (Pack..Pack + 9)
              [] call.name \in {"_dos_getftime", "_fmemcpy"} -> {Ours} \X (OutRegs..OutRegs + 1)
              [] call.name = "poke" -> {<<Other, 5>>}
              [] OTHER -> {}

\* A routine that has returned has popped what its calling convention says, and leaves the
\* segments of the stack and the code and the direction of copies as they were.
FrameGivenBack ==
  at = 0 => /\ reg.sp = StackTop - (IF call.build.conv = "cdecl" THEN Len(OnStack) ELSE 0)
            /\ reg.ss = Ours /\ reg.cs = CodeSeg /\ reg.df = 0

\* In every calling convention and memory model, a call raises the interrupt that was
\* asked for with the registers that were asked for, stores the answer, and returns to
\* its caller with the stack, the registers it must save and all other memory as they
\* were.
CallsAreTrue ==
  /\ at # Lost /\ InRegsLoaded /\ OutRegsStored /\ FrameGivenBack
  /\ at = 0 => /\ Answer
               /\ \A r \in Kept : reg[r] = EntryReg[r]
               /\ LET was == EntryMem  below == Pack + 10..EntrySp - 1  may == Writable
                  IN  \A s \in {Ours, Other} : \A a \in DOMAIN mem[s] :
                        mem[s][a] = was[s][a] \/ <<s, a>> \in may \/ (s = Ours /\ a \in below)
=============================================================================
