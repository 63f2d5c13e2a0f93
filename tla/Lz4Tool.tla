------------------------------ MODULE Lz4Tool ------------------------------
(***************************************************************************)
(* lz4mi86, which reads an LZ4 frame of one block and writes a C module    *)
(* that holds the block.  Reads and writes may be short, and each call may *)
(* fail; every failure ends the program by way of ouch.                    *)
(*                                                                         *)
(* A field of the frame is one or two pieces long, and a read or a write   *)
(* takes any number of them.  The frame is given by what the checks see.   *)
(***************************************************************************)
EXTENDS Integers, Sequences, FiniteSets

CONSTANTS NearBuf, \* NBUFSZ, the pieces that far_input reads at a time
          Frames,  \* the inputs
          Outputs  \* what the output is: "stdout", "new" (a path where no file is), or
                   \* "old" (one where a file is)

ASSUME Lz4Assumption ==
  /\ NearBuf \in Nat \ {0}
  /\ \A f \in Frames : /\ f.block \in Seq(Nat) /\ f.length \in Nat
                       /\ {f.magic, f.version, f.plain, f.cksum, f.more, f.path} \subseteq BOOLEAN
                       /\ f.xlen \in {"none", "zero", "fits", "large"}
                       /\ f.size \in {"uncompressed", "end", "large", "fits"}
  /\ Outputs \subseteq {"stdout", "new", "old"}

VARIABLES lz_pc, frame, output,
          left,   \* n in input, far_input and output_fd: the pieces still to come
          taken,  \* the pieces of the input read so far
          blk,    \* the block's buffer
          in_fd, out_fd, \* "none", "std", "file" or -1 as "failed"
          out_file,      \* what this program wrote to the output, or Untouched
          status

Untouched == {<<"old">>, <<"absent">>}

lzVars == <<lz_pc, frame, output, left, taken, blk, in_fd, out_fd, out_file, status>>

LzInit == /\ lz_pc = "options" /\ frame \in Frames /\ output \in Outputs
          /\ left = 0 /\ taken = 0 /\ blk = <<>>
          /\ in_fd = "std" /\ out_fd = "std" /\ status = -1
          /\ out_file = IF output = "old" THEN <<"old">> ELSE <<"absent">>

\* The fields of the frame, in the order they are read in, with their pieces
Field == [hdr |-> 2, xlen |-> 2, hc |-> 1, blk_sz |-> 2, blk |-> Len(frame.block), cksum |-> 2,
          blk2_sz |-> 2]

ReadNext(f) == lz_pc' = f /\ left' = Field[f]
Fatal == lz_pc' = "ouch" /\ UNCHANGED left

-----------------------------------------------------------------------------
(* Opening the input, and reading it.                                      *)

\* A wrong option, or too many arguments, end in usage, or in ouch where standard error
\* fails; the output may not have been named by then
Options == /\ lz_pc = "options"
           /\ \/ lz_pc' = "open in" /\ UNCHANGED <<output, status>>
              \/ lz_pc' = "exited" /\ status' = 1 /\ UNCHANGED output
              \/ lz_pc' = "ouch" /\ output' \in {output, "stdout"} /\ UNCHANGED status
           /\ UNCHANGED <<frame, left, taken, blk, in_fd, out_fd, out_file>>

OpenIn == /\ lz_pc = "open in"
          /\ \/ frame.path /\ in_fd' = "failed" /\ Fatal
             \/ in_fd' = (IF frame.path THEN "file" ELSE "std") /\ Fatal \* no binary mode
             \/ in_fd' = (IF frame.path THEN "file" ELSE "std") /\ ReadNext("hdr")
          /\ UNCHANGED <<frame, output, taken, blk, out_fd, out_file, status>>

\* One read; the block goes to far memory by way of the near buffer
Input == /\ lz_pc \in DOMAIN Field /\ left > 0
         /\ \E r \in 1..left :
              /\ taken + r <= frame.length /\ (lz_pc = "blk" => r <= NearBuf)
              /\ taken' = taken + r /\ left' = left - r
              /\ blk' = IF lz_pc # "blk" THEN blk
                        ELSE blk \o SubSeq(frame.block, Len(blk) + 1, Len(blk) + r)
         /\ UNCHANGED <<lz_pc, frame, output, in_fd, out_fd, out_file, status>>

\* The end of the input, or an error
InputFails == /\ lz_pc \in DOMAIN Field /\ left > 0 /\ Fatal
              /\ UNCHANGED <<frame, output, taken, blk, in_fd, out_fd, out_file, status>>

HeaderIsGood == frame.magic /\ frame.version /\ frame.plain

\* What main does with a field it has read: the next field, or "ouch"
After == [hdr |-> IF ~HeaderIsGood THEN "ouch" ELSE IF frame.xlen = "none" THEN "hc" ELSE "xlen",
          xlen |-> IF frame.xlen = "large" THEN "ouch" ELSE "hc",
          hc |-> "blk_sz",
          blk_sz |-> IF frame.size # "fits" THEN "ouch" ELSE "malloc",
          blk |-> IF frame.cksum THEN "cksum" ELSE "blk2_sz",
          cksum |-> "blk2_sz",
          blk2_sz |-> IF frame.more THEN "ouch" ELSE "length"]

Check == /\ lz_pc \in DOMAIN Field /\ left = 0
         /\ lz_pc' = After[lz_pc]
         /\ left' = IF After[lz_pc] \in DOMAIN Field THEN Field[After[lz_pc]] ELSE 0
         /\ UNCHANGED <<frame, output, taken, blk, in_fd, out_fd, out_file, status>>

\* _fmalloc, which may find no memory
Malloc == /\ lz_pc = "malloc" /\ (Fatal \/ ReadNext("blk"))
          /\ UNCHANGED <<frame, output, taken, blk, in_fd, out_fd, out_file, status>>

\* The input is closed, and the length found where the frame has none: _lz4len
\* gives 0 for one too large
Length == /\ lz_pc = "length"
          /\ in_fd' = IF frame.path THEN "none" ELSE in_fd
          /\ IF frame.xlen = "fits" THEN lz_pc' = "open out" /\ UNCHANGED left
             ELSE Fatal \/ (lz_pc' = "open out" /\ UNCHANGED left)
          /\ UNCHANGED <<frame, output, taken, blk, out_fd, out_file, status>>

-----------------------------------------------------------------------------
(* Opening the output, and writing it.                                     *)

\* What is written: the module's head, the bytes, and its end
ModuleText == <<"head">> \o blk \o <<"end">>

\* open is not asked to create a file, nor to truncate one
OpenOut == /\ lz_pc = "open out"
           /\ \/ output # "stdout" /\ out_fd' = "failed" /\ Fatal /\ UNCHANGED out_file
              \/ /\ output # "new" /\ out_fd' = (IF output = "old" THEN "file" ELSE "std")
                 /\ UNCHANGED out_file
                 /\ \/ Fatal \* no binary mode
                    \/ lz_pc' = "write" /\ left' = Len(ModuleText)
           /\ UNCHANGED <<frame, output, taken, blk, in_fd, status>>

Written == IF out_file \in Untouched THEN <<>> ELSE out_file

\* One write of output_fd
OutputFd == /\ lz_pc = "write" /\ left > 0
            /\ \E r \in 1..left :
                 /\ left' = left - r
                 /\ out_file' = Written \o SubSeq(ModuleText, Len(Written) + 1, Len(Written) + r)
            /\ UNCHANGED <<lz_pc, frame, output, taken, blk, in_fd, out_fd, status>>

OutputFails == /\ lz_pc = "write" /\ left > 0 /\ Fatal
               /\ UNCHANGED <<frame, output, taken, blk, in_fd, out_fd, out_file, status>>

\* close may find the disk full
CloseOut == /\ lz_pc = "write" /\ left = 0
            /\ \/ output # "stdout" /\ Fatal /\ UNCHANGED status
               \/ lz_pc' = "exited" /\ status' = 0 /\ UNCHANGED left
            /\ UNCHANGED <<frame, output, taken, blk, in_fd, out_fd, out_file>>

\* The message is written, or standard error fails: ouch does the same either way
OuchKeeping == /\ lz_pc = "ouch" /\ lz_pc' = "exited" /\ status' = 2
               /\ UNCHANGED <<frame, output, left, taken, blk, in_fd, out_fd, out_file>>
Ouch == /\ lz_pc = "ouch" /\ lz_pc' = "exited" /\ status' = 2
        /\ out_file' = IF output # "stdout" /\ out_fd # "failed" THEN <<"absent">> ELSE out_file
        /\ UNCHANGED <<frame, output, left, taken, blk, in_fd, out_fd>>

LzNext == \/ Options \/ OpenIn \/ Input \/ InputFails \/ Check \/ Malloc \/ Length \/ OpenOut
          \/ OutputFd \/ OutputFails \/ CloseOut \/ Ouch

LzSpec == LzInit /\ [][LzNext]_lzVars

-----------------------------------------------------------------------------
(* Correctness.                                                            *)

\* What a frame may hold for the program to take it
Acceptable == /\ HeaderIsGood /\ frame.size = "fits" /\ ~frame.more
              /\ frame.xlen # "large"

\* When the program says that all is well, the frame was acceptable and all of its
\* block, in order, has been written; and when it says that it is not, no part of a
\* module is left in the output file, whatever was read or written before.
AllOrNothing ==
  lz_pc = "exited" =>
    IF status = 0
    THEN Acceptable /\ out_file = <<"head">> \o frame.block \o <<"end">>
    ELSE output # "stdout" => out_file \in Untouched
=============================================================================
