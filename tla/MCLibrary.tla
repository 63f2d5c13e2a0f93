----------------------------- MODULE MCLibrary -----------------------------
(***************************************************************************)
(* The parts of the library that stand alone, checked in one run: a        *)
(* behaviour is one of Interrupts, Extender, DosCalls, Conversions,        *)
(* FarMemory, Lz4Tool or Palette, and the others stay as they are.         *)
(***************************************************************************)
EXTENDS MCInterrupts, Extender, DosCalls, Conversions, FarMemory, Lz4Tool, Palette

\* The C library's access modes as in Newlib, and ones that DOS does not share
BothLibs == {[rd |-> 0, wr |-> 1, rw |-> 2], [rd |-> 1, wr |-> 2, rw |-> 3]}

\* Four words of two bits: every long long, nearly, and every long
SomeTexts == [call : {"ulltoa", "lltoa"}, value : -128..127, radix : {2, 10, 36}]
             \union [call : {"ultoa", "ltoa"}, value : -8..7, radix : {1, 2, 7, 10, 37}]
SomeOctets == [octets : {2}, value : 0..15] \union [octets : {4}, value : 0..255]
              \union [octets : {8}, value : {0, 1, 4660, 65535, 27030}]
SomePlaces == [track : {0, 255, 256, 767, 1023}, sector : {1, 63}]
SomeTimes == {0, 7, 15}

\* Buffers at the start, in the middle and at the end of memory
SomePointers == [seg : {0, 1, 3, 6, 7}, off : {0, 1, 3, 4, 7}]
SomeStrings == {<<>>, <<"a">>, <<"A">>, <<"b">>, <<"A", "b">>, <<"a", "B">>}

\* A good frame, a truncated one, and some that lz4mi86 does not take
GoodFrame == [magic |-> TRUE, version |-> TRUE, plain |-> TRUE, cksum |-> TRUE, more |-> FALSE,
              path |-> TRUE, xlen |-> "none", size |-> "fits", block |-> <<1, 2, 3>>, length |-> 14]
SomeFrames == {GoodFrame, [GoodFrame EXCEPT !.length = 8], [GoodFrame EXCEPT !.magic = FALSE],
               [GoodFrame EXCEPT !.more = TRUE], [GoodFrame EXCEPT !.xlen = "large"],
               [GoodFrame EXCEPT !.xlen = "fits", !.path = FALSE, !.cksum = FALSE],
               [GoodFrame EXCEPT !.size = "end"]}

\* Colours that tell the components and their bits apart, with bits that are unused
SomeColours == {1, 9, 255, Rgb(0, 0, 0), Rgb(42, 0, 21), Rgb(21, 63, 42), Rgb(255, 16, 32)}

VARIABLE subject

IntIdle == /\ call = [build |-> Ack(FALSE), name |-> "intdos", number |-> 33, out |-> InRegs,
                      carry |-> 0, args |-> <<InRegs, InRegs>>]
           /\ IntInit
ExIdle == program = "fcbs" /\ dos = [f \in TableCalls |-> [seg |-> "none", empty |-> FALSE]] /\ ExInit
DosIdle == topic = "memory" /\ lib_modes = [rd |-> 0, wr |-> 1, rw |-> 2] /\ DosInit
CvIdle == cv_pc = "time" /\ job = [time |-> 0] /\ CvInit
FarIdle == far_pc = "compare" /\ far_job = [s1 |-> <<>>, s2 |-> <<>>] /\ a20 = FALSE /\ FarInit
LzIdle == frame = GoodFrame /\ output = "stdout" /\ LzInit
PalIdle == board = [adapter |-> "MDPA", low |-> FALSE, readable |-> FALSE] /\ PalInit

LibraryInit ==
  \/ /\ subject = "interrupts"
     /\ ExIdle /\ DosIdle /\ CvIdle /\ FarIdle /\ LzIdle /\ PalIdle
     /\ IntInit
  \/ /\ subject = "extender"
     /\ IntIdle /\ DosIdle /\ CvIdle /\ FarIdle /\ LzIdle /\ PalIdle
     /\ ExInit
  \/ /\ subject = "dos"
     /\ IntIdle /\ ExIdle /\ CvIdle /\ FarIdle /\ LzIdle /\ PalIdle
     /\ DosInit
  \/ /\ subject = "conversions"
     /\ IntIdle /\ ExIdle /\ DosIdle /\ FarIdle /\ LzIdle /\ PalIdle
     /\ CvInit
  \/ /\ subject = "far memory"
     /\ IntIdle /\ ExIdle /\ DosIdle /\ CvIdle /\ LzIdle /\ PalIdle
     /\ FarInit
  \/ /\ subject = "lz4mi86"
     /\ IntIdle /\ ExIdle /\ DosIdle /\ CvIdle /\ FarIdle /\ PalIdle
     /\ LzInit
  \/ /\ subject = "palette"
     /\ IntIdle /\ ExIdle /\ DosIdle /\ CvIdle /\ FarIdle /\ LzIdle
     /\ PalInit

LibraryNext ==
  \/ /\ subject = "interrupts" /\ IntNext
     /\ UNCHANGED <<subject, exVars, dosVars, cvVars, farVars, lzVars, palVars>>
  \/ /\ subject = "extender" /\ ExNext
     /\ UNCHANGED <<subject, intVars, dosVars, cvVars, farVars, lzVars, palVars>>
  \/ /\ subject = "dos" /\ DosNext
     /\ UNCHANGED <<subject, intVars, exVars, cvVars, farVars, lzVars, palVars>>
  \/ /\ subject = "conversions" /\ CvNext
     /\ UNCHANGED <<subject, intVars, exVars, dosVars, farVars, lzVars, palVars>>
  \/ /\ subject = "far memory" /\ FarNext
     /\ UNCHANGED <<subject, intVars, exVars, dosVars, cvVars, lzVars, palVars>>
  \/ /\ subject = "lz4mi86" /\ LzNext
     /\ UNCHANGED <<subject, intVars, exVars, dosVars, cvVars, farVars, palVars>>
  \/ /\ subject = "palette" /\ PalNext
     /\ UNCHANGED <<subject, intVars, exVars, dosVars, cvVars, farVars, lzVars>>

libraryVars == <<subject, intVars, exVars, dosVars, cvVars, farVars, lzVars, palVars>>

LibrarySpec == LibraryInit /\ [][LibraryNext]_libraryVars
=============================================================================
