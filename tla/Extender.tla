------------------------------ MODULE Extender ------------------------------
(***************************************************************************)
(* A program in DPMI mode: the library's uses of the DPMI host (the BIOS   *)
(* data area, the cached selectors of _getsysvars and of the DBCS table,   *)
(* _makefcb's block of base memory) and the _DPMI... calls that it offers. *)
(* In real mode, the look-up of the DBCS table has no host to ask.         *)
(*                                                                         *)
(* A call may be interrupted at any step by a handler that makes another.  *)
(* DOS moves its tables only while no call is in progress.  The selector   *)
(* of a real mode segment s is <<s>>, and <<>> is none.  A word holds ExW  *)
(* values and a double word ExW * ExW.                                     *)
(***************************************************************************)
EXTENDS Integers, Sequences, FiniteSets

CONSTANTS Segments,    \* the real mode segments where DOS may have a table
          MaxDescs,    \* the descriptors that the host has
          MaxBlocks,   \* the blocks of base memory that the host has
          MaxMoves, MaxNest, \* bounds: moves of a table, calls in progress
          MaxRefused,  \* bound: interrupts that the host refuses
          MaxMemBlocks, \* bound: blocks of extended memory
          ExW, Addresses \* a word's values, and the addresses the program uses

ASSUME ExtenderAssumption ==
  /\ {MaxDescs, MaxBlocks, MaxMoves, MaxNest, MaxRefused, MaxMemBlocks} \subseteq Nat
  /\ ExW \in Nat \ {0, 1}
  /\ Addresses \subseteq 0..ExW * ExW - 1

VARIABLES program, \* what the program does: "tables", "fcbs" or "memory"; or "real"
          stage,   \* "constructors", "running" or "aborted"
          bda_seg,
          dos,     \* for each table: its segment or "none", whether it is empty
          moves,   \* times a table has moved
          descs,   \* segments that have a selector
          blocks,  \* blocks of base memory that are allocated
          refused, \* _makefcb's interrupts that the host has refused
          cache,   \* for each table: cached_seg_pm and cached_seg_rm
          calls,   \* the calls in progress, the innermost last
          returned,  \* the last call to return, with what it returned
          ldt,     \* the descriptors the program has allocated, as the host has them
          told,    \* and as the program knows them
          xmem,    \* the sizes of the blocks of extended memory, by their handles,
          xmem_told \* as the host has them, and as the program knows them

hostVars == <<descs, blocks, refused>>
ldtVars == <<ldt, told, xmem, xmem_told>>
startVars == <<program, bda_seg, dos, moves>>
exVars == <<program, stage, bda_seg, dos, moves, descs, blocks, refused, cache, calls, returned,
            ldtVars>>

TableCalls == {"getsysvars", "dbcs"}
Sel(s) == <<s>>
NoSel == <<>>
NoAnswer == [f |-> "none", rm |-> "none", ptr |-> NoSel, torn |-> FALSE]

ExInit == /\ program \in {"tables", "fcbs", "memory", "real"}
          /\ stage = IF program = "real" THEN "running" ELSE "constructors"
          /\ bda_seg = <<"paragraph", "0x40">>
          /\ dos \in [TableCalls -> [seg : Segments \union {"none"}, empty : {FALSE}]]
          /\ moves = 0 /\ descs = {} /\ blocks = {} /\ refused = 0
          /\ cache = [f \in TableCalls |-> [pm |-> NoSel, rm |-> "none"]]
          /\ calls = <<>> /\ returned = NoAnswer
          /\ ldt = <<>> /\ told = <<>> /\ xmem = <<>> /\ xmem_told = <<>>

Top == calls[Len(calls)]
At(pc) == stage = "running" /\ calls # <<>> /\ Top.pc = pc
Goto(pc) == calls' = [calls EXCEPT ![Len(calls)].pc = pc]
Abort == stage' = "aborted"

\* The innermost call returns p
Return(p) == /\ returned' = [f |-> Top.f, rm |-> Top.rm, ptr |-> p, torn |-> Top.torn]
             /\ calls' = SubSeq(calls, 1, Len(calls) - 1)

\* _DPMISegmentToDescriptor finds room for a descriptor of s (external)
HostHasRoom(s) == s \in descs \/ Cardinality(descs) < MaxDescs

\* Before main, and before the video state is read
BdaSegInit == /\ stage = "constructors"
              /\ \/ /\ HostHasRoom("0x40") /\ descs' = descs \union {"0x40"}
                    /\ bda_seg' = Sel("0x40") /\ stage' = "running"
                 \/ Abort /\ UNCHANGED <<bda_seg, descs>>
              /\ UNCHANGED <<program, dos, moves, blocks, refused, cache, calls, returned, ldtVars>>

\* DOS moves a table, or empties it: a change of code page, say
TableMoves == /\ stage = "running" /\ program = "tables" /\ calls = <<>> /\ moves < MaxMoves
              /\ \E f \in TableCalls, s \in Segments \union {"none"}, e \in BOOLEAN :
                   dos' = [dos EXCEPT ![f] = [seg |-> s, empty |-> e /\ f = "dbcs"]]
              /\ moves' = moves + 1
              /\ UNCHANGED <<program, stage, bda_seg, hostVars, cache, calls, returned, ldtVars>>

-----------------------------------------------------------------------------
(* _getsysvars, and __libi86_msdos_get_dbcs_lead_table in the same form.   *)

Call == /\ stage = "running" /\ program = "tables" /\ Len(calls) < MaxNest
        /\ \E f \in TableCalls :
             calls' = Append(calls, [f |-> f, pc |-> "simulate", rm |-> "none", pm |-> NoSel,
                                     torn |-> FALSE, blk |-> 0])
        /\ UNCHANGED <<startVars, stage, hostVars, cache, returned, ldtVars>>

\* DOS is asked for the table
Simulate ==
  /\ At("simulate")
  /\ \/ Abort /\ UNCHANGED <<calls, returned>>
     \/ /\ dos[Top.f].seg = "none" /\ Return(NoSel) /\ UNCHANGED stage
     \/ /\ dos[Top.f].seg # "none" /\ UNCHANGED <<stage, returned>>
        /\ calls' = [calls EXCEPT ![Len(calls)].pc = "read", ![Len(calls)].rm = dos[Top.f].seg]
  /\ UNCHANGED <<startVars, hostVars, cache, ldtVars>>

ReadCachedPm == /\ At("read")
                /\ calls' = [calls EXCEPT ![Len(calls)].pc = "compare",
                                          ![Len(calls)].pm = cache[Top.f].pm]
                /\ UNCHANGED <<startVars, stage, hostVars, cache, returned, ldtVars>>

CompareAlways == At("compare") /\ Goto(IF Top.pm = NoSel THEN "translate" ELSE "return")
                 /\ UNCHANGED <<startVars, stage, hostVars, cache, returned, ldtVars>>
Compare == /\ At("compare")
           /\ Goto(IF Top.pm = NoSel \/ Top.rm # cache[Top.f].rm THEN "translate" ELSE "return")
           /\ UNCHANGED <<startVars, stage, hostVars, cache, returned, ldtVars>>

Translate == /\ At("translate")
             /\ \/ /\ HostHasRoom(Top.rm) /\ descs' = descs \union {Top.rm} /\ UNCHANGED stage
                   /\ calls' = [calls EXCEPT ![Len(calls)].pc = "clear",
                                             ![Len(calls)].pm = Sel(Top.rm)]
                \/ Abort /\ UNCHANGED <<descs, calls>>
             /\ UNCHANGED <<startVars, blocks, refused, cache, returned, ldtVars>>

\* The three stores to the cache.  A call is torn if it has read the selector of
\* where the table was, and not yet cached_seg_rm, when another of the same function,
\* made by a handler, stores there where the table is.
Stale(c) == c.pc = "compare" /\ c.pm \notin {NoSel, Sel(c.rm)}
Tear(cs, f) == [i \in 1..Len(cs) |->
                  IF cs[i].f = f /\ Stale(cs[i]) THEN [cs[i] EXCEPT !.torn = TRUE] ELSE cs[i]]
Store(pc, c) == /\ At(pc) /\ cache' = [cache EXCEPT ![Top.f] = c]
                /\ UNCHANGED <<startVars, stage, hostVars, returned, ldtVars>>

ClearCachedPm == Store("clear", [cache[Top.f] EXCEPT !.pm = NoSel]) /\ Goto("store rm")
StoreCachedRm == /\ Store("store rm", [cache[Top.f] EXCEPT !.rm = Top.rm])
                 /\ calls' = Tear([calls EXCEPT ![Len(calls)].pc = "store pm"], Top.f)
StoreCachedPm == Store("store pm", [cache[Top.f] EXCEPT !.pm = Top.pm]) /\ Goto("return")

\* A null pointer for an empty DBCS table
ReturnPointer == /\ At("return") /\ Top.f \in TableCalls
                 /\ Return(IF dos[Top.f].empty THEN NoSel ELSE Top.pm)
                 /\ UNCHANGED <<startVars, stage, hostVars, cache, ldtVars>>

-----------------------------------------------------------------------------
(* _makefcb: the FCB and the command line, copied to a block of base       *)
(* memory, parsed by DOS there, and the FCB copied back.                   *)

MakeFcb == /\ stage = "running" /\ program = "fcbs" /\ Len(calls) < MaxNest
           /\ calls' = Append(calls, [f |-> "makefcb", pc |-> "allocate", rm |-> "none",
                                      pm |-> NoSel, torn |-> FALSE, blk |-> 0])
           /\ UNCHANGED <<startVars, stage, hostVars, cache, returned, ldtVars>>

\* _DPMIAllocateDOSMemoryBlock: the block that the host gives, or 0
DosBlock(carry, b) == IF carry THEN 0 ELSE b

AllocateBlock ==
  /\ At("allocate")
  /\ \E carry \in BOOLEAN, b \in 1..MaxBlocks :
       /\ carry \/ b \notin blocks
       /\ blocks' = IF carry THEN blocks ELSE blocks \union {b}
       /\ \/ DosBlock(carry, b) = 0 /\ Return(<<"failed">>)
          \/ /\ DosBlock(carry, b) # 0 /\ UNCHANGED returned
             /\ calls' = [calls EXCEPT ![Len(calls)].pc = "parse",
                                       ![Len(calls)].blk = DosBlock(carry, b)]
  /\ UNCHANGED <<startVars, stage, descs, refused, cache, ldtVars>>

\* The host refuses to simulate the interrupt: the block is kept for good
ParseRefused == /\ At("parse") /\ refused < MaxRefused
                /\ refused' = refused + 1 /\ Return(<<"failed">>)
                /\ UNCHANGED <<startVars, stage, descs, blocks, cache, ldtVars>>

Parse == At("parse") /\ Goto("free")
         /\ UNCHANGED <<startVars, stage, hostVars, cache, returned, ldtVars>>

FreeBlock == /\ At("free") /\ Return(<<"parsed">>)
             /\ blocks' = blocks \ {Top.blk}
             /\ UNCHANGED <<startVars, stage, descs, refused, cache, ldtVars>>

-----------------------------------------------------------------------------
(* __libi86_msdos_get_dbcs_lead_table in real mode.  DOS may not know the  *)
(* call, and leave the registers as they are; the carry flag says so up to *)
(* version 2, and AL from 3 on, where the flag may be left alone.          *)

\* What DOS has: no such call, none it will give, no table, an empty one or one
Replies == {"ignored", "refused", "no table", "empty", "table"}
Before == [carry |-> TRUE, al |-> 0, si |-> "0xffff"]
AnswerTo(reply, osmajor) ==
  CASE reply = "ignored"  -> {Before}
    [] reply = "refused"  -> {[carry |-> TRUE, al |-> 1, si |-> "0xffff"]}
    [] reply = "no table" -> {[carry |-> FALSE, al |-> 0, si |-> "0xffff"]}
    [] OTHER -> {[carry |-> c, al |-> 0, si |-> reply] :
                   c \in IF osmajor < 3 THEN {FALSE} ELSE BOOLEAN}

LookUpInRealMode ==
  /\ stage = "running" /\ program = "real"
  /\ \E reply \in Replies, osmajor \in 2..3 :
       /\ osmajor >= 3 => reply # "ignored"
       /\ \E r \in AnswerTo(reply, osmajor) :
            LET known == IF osmajor < 3 THEN ~r.carry ELSE r.al = 0
                found == known /\ r.si # "0xffff" /\ r.si # "empty"
            IN  returned' = [f |-> "real", rm |-> reply, torn |-> FALSE,
                             ptr |-> IF found THEN Sel(r.si) ELSE NoSel]
  /\ UNCHANGED <<startVars, stage, hostVars, cache, calls, ldtVars>>

-----------------------------------------------------------------------------
(* The _DPMI... calls on descriptors.  The host may refuse any of them,    *)
(* with the carry flag set and an error code of 0x8000 or more in AX; what *)
(* each call then returns is -1, or, where it returns a selector in 32     *)
(* bits, a negative number.                                                *)

HostVars == <<startVars, stage, hostVars, cache, calls, returned, xmem, xmem_told>>
InProgram == stage = "running" /\ program = "memory"
Hi(a) == a \div ExW
Lo(a) == a % ExW
Join(hi, lo) == hi * ExW + lo
Forget(s, t) == [i \in DOMAIN t \ {s} |-> t[i]]

\* (int32_t) res << 16 | sel, of a word's values
SelectorResult(carry, ax) == IF carry THEN ax - ExW ELSE ax

\* The host's selectors are words below ExW \div 2 here, and its error codes above
Selectors == 1..ExW \div 2 - 1
Blank == [base |-> <<0, 0>>, limit |-> <<0, 0>>, ar |-> 0]

\* _DPMIAllocateLDTDescriptors and _DPMICreateCodeSegmentAliasDescriptor; the program
\* knows of a descriptor if the result is not negative
AllocateDescriptor ==
  /\ InProgram
  /\ \E sel \in Selectors \ DOMAIN ldt, carry \in BOOLEAN, copied \in {0} \union DOMAIN ldt :
       LET d == IF copied = 0 THEN Blank ELSE ldt[copied]
           res == SelectorResult(carry, IF carry THEN ExW \div 2 ELSE sel)
           Knows(t) == IF copied = 0 THEN [base |-> 0, limit |-> 0, ar |-> 0] ELSE t[copied]
       IN  /\ ldt' = IF carry THEN ldt
                     ELSE [i \in DOMAIN ldt \union {sel} |-> IF i = sel THEN d ELSE ldt[i]]
           /\ told' = IF res < 0 THEN told
                      ELSE [i \in DOMAIN told \union {res} |-> IF i = res THEN Knows(told)
                                                               ELSE told[i]]
  /\ UNCHANGED HostVars

FreeDescriptor == /\ InProgram
                  /\ \E sel \in DOMAIN told :
                       ldt' = Forget(sel, ldt) /\ told' = Forget(sel, told)
                  /\ UNCHANGED HostVars

\* What is in CX and in DX for an address, and for a limit
Words(a) == <<Hi(a), Lo(a)>>

SetBase == /\ InProgram
           /\ \E sel \in DOMAIN told, a \in Addresses :
                /\ ldt' = [ldt EXCEPT ![sel].base = Words(a)]
                /\ told' = [told EXCEPT ![sel].base = a]
           /\ UNCHANGED HostVars

SetLimit == /\ InProgram
            /\ \E sel \in DOMAIN told, a \in Addresses :
                 /\ ldt' = [ldt EXCEPT ![sel].limit = Words(a)]
                 /\ told' = [told EXCEPT ![sel].limit = a]
            /\ UNCHANGED HostVars

SetAccessRights == /\ InProgram
                   /\ \E sel \in DOMAIN told, ar \in 0..1 :
                        /\ ldt' = [ldt EXCEPT ![sel].ar = ar]
                        /\ told' = [told EXCEPT ![sel].ar = ar]
                   /\ UNCHANGED HostVars

\* _DPMIGetDescriptor, and _DPMISetDescriptor of another with what it got
CopyDescriptor == /\ InProgram
                  /\ \E sel \in DOMAIN told, to \in DOMAIN told :
                       /\ ldt' = [ldt EXCEPT ![to] = ldt[sel]]
                       /\ told' = [told EXCEPT ![to] = told[sel]]
                  /\ UNCHANGED HostVars

\* _DPMIGetSegmentBaseAddress, of what the host puts in CX and in DX
GetBase(sel) == Join(ldt[sel].base[1], ldt[sel].base[2])

\* The bits of lim_0_15 and lim_16_19, and type and xtype, of the descriptor type
GetDescriptor(sel) == [base |-> GetBase(sel),
                       limit |-> Join(ldt[sel].limit[1], ldt[sel].limit[2]), ar |-> ldt[sel].ar]

\* _DPMIAllocateMemoryBlock: the size in BX and CX, and the handle in SI and DI
MemVars == <<startVars, stage, hostVars, cache, calls, returned, ldt, told>>
AllocateMemory ==
  /\ InProgram /\ Cardinality(DOMAIN xmem) < MaxMemBlocks
  /\ \E handle \in Addresses \ DOMAIN xmem, size \in Addresses :
       LET given == Join(Words(size)[1], Words(size)[2])
           got == Join(Words(handle)[1], Words(handle)[2])
       IN  /\ xmem' = [h \in DOMAIN xmem \union {handle} |-> IF h = handle THEN given ELSE xmem[h]]
           /\ xmem_told' = [h \in DOMAIN xmem_told \union {got} |-> IF h = got THEN size
                                                                ELSE xmem_told[h]]
  /\ UNCHANGED MemVars

FreeMemory == /\ InProgram
              /\ \E handle \in DOMAIN xmem_told :
                   /\ xmem_told' = Forget(handle, xmem_told)
                   /\ xmem' = Forget(Join(Words(handle)[1], Words(handle)[2]), xmem)
              /\ UNCHANGED MemVars

ExNext == \/ BdaSegInit \/ TableMoves \/ Call \/ Simulate \/ ReadCachedPm \/ Compare \/ Translate
          \/ ClearCachedPm \/ StoreCachedRm \/ StoreCachedPm \/ ReturnPointer
          \/ MakeFcb \/ AllocateBlock \/ ParseRefused \/ Parse \/ FreeBlock
          \/ AllocateDescriptor \/ FreeDescriptor \/ SetBase \/ SetLimit \/ SetAccessRights
          \/ CopyDescriptor \/ AllocateMemory \/ FreeMemory \/ LookUpInRealMode

ExSpec == ExInit /\ [][ExNext]_exVars

-----------------------------------------------------------------------------
(* Correctness.                                                            *)

\* The calls that hold a block of base memory
Holders == {i \in 1..Len(calls) : calls[i].pc \in {"parse", "free"}}

\* A pointer that a table call returns leads to the segment that DOS reported to it,
\* however calls were nested and the table moved, unless the call was torn: it then
\* leads elsewhere, and the next call is right again.  Base memory is held by the calls
\* in progress, and one block is lost for good with each interrupt that the host
\* refuses, and no other.  The program and the host agree on the descriptors and the
\* blocks of memory that exist and what they hold.  And in real mode a DBCS table is
\* used if and only if DOS has one, whatever its version does to say so.
ProtectedMeansReal ==
  /\ returned.f \in TableCalls /\ returned.ptr # NoSel =>
       (returned.torn <=> returned.ptr # Sel(returned.rm))
  /\ Cardinality(blocks) = Cardinality(Holders) + refused
  /\ DOMAIN ldt = DOMAIN told /\ \A sel \in DOMAIN told : GetDescriptor(sel) = told[sel]
  /\ xmem = xmem_told
  /\ returned.f = "real" => returned.ptr = IF returned.rm = "table" THEN Sel("table") ELSE NoSel
=============================================================================
