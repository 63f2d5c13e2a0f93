---------------------------- MODULE DefaultFcbs ----------------------------
(***************************************************************************)
(* make_fcbs: the first two arguments of a command tail are parsed into    *)
(* the two default FCBs of the child, as command.com does.                 *)
(*                                                                         *)
(* Characters are those the code tells apart: "chr" (one of a file name),  *)
(* "dot" (dot and colon: a separator that a name may hold), "sep" (blank,  *)
(* comma, ... quote, bracket, redirection), "lead" (a DBCS lead byte),     *)
(* "cr" (a control character).  The two flags have no initial value: they  *)
(* start with what is on the stack.                                        *)
(***************************************************************************)
EXTENDS Integers, Sequences

CONSTANTS Tails \* the command tails direct_spawn may have made

FcbChars == {"chr", "dot", "sep", "lead", "cr"}
FcbSeparators == {"dot", "sep"}

\* A tail ends in a carriage return
Ended(t) == t # <<>> /\ t[Len(t)] = "cr"

ASSUME FcbsAssumption == \A t \in Tails : t \in Seq(FcbChars) /\ Ended(t)

VARIABLES fcb_tail, garbage, \* the tail; what the flags started with
          fcb_pc, fcb_p, mid,    \* mid: where the first _makefcb left off
          done_arg1, fcb_last_c_lead_p

fcbVars == <<fcb_tail, garbage, fcb_pc, fcb_p, mid, done_arg1, fcb_last_c_lead_p>>

FcbInit == /\ fcb_tail \in Tails /\ fcb_pc = "first" /\ fcb_p = 1 /\ mid = 1
           /\ done_arg1 \in BOOLEAN /\ fcb_last_c_lead_p \in BOOLEAN
           /\ garbage = (done_arg1 \/ fcb_last_c_lead_p)

\* A character of t begins at i, for a character that begins at i0
Boundary(t, i0, i) ==
  LET begins[j \in i0..i] ==
        IF j = i0 THEN TRUE ELSE ~begins[j - 1] \/ t[j - 1] # "lead" \/ t[j] = "cr"
  IN  begins[i]

\* int 0x21 function 0x29: skip separators, then take a name, or the part
\* of it that an FCB can hold
FcbParsed(i, j) ==
  \E k \in i..j :
    /\ \A l \in i..k - 1 : fcb_tail[l] \in FcbSeparators
    /\ k < j <=> fcb_tail[k] \in {"chr", "lead"}
    /\ \A l \in k..j - 1 : fcb_tail[l] # "cr" /\ (Boundary(fcb_tail, k, l) => fcb_tail[l] # "sep")
    /\ Boundary(fcb_tail, k, j)

First == /\ fcb_pc = "first"
         /\ \/ fcb_pc' = "ENOMEM" /\ UNCHANGED <<fcb_p, mid>>
            \/ \E j \in fcb_p..Len(fcb_tail) :
                 FcbParsed(fcb_p, j) /\ fcb_p' = j /\ mid' = j /\ fcb_pc' = "skip"
         /\ UNCHANGED <<fcb_tail, garbage, done_arg1, fcb_last_c_lead_p>>

SkipBytes ==
  /\ fcb_pc = "skip" /\ UNCHANGED <<fcb_tail, garbage, mid, fcb_last_c_lead_p>>
  /\ done_arg1' = (done_arg1 \/ fcb_tail[fcb_p] \in FcbSeparators \union {"cr"})
  /\ IF done_arg1' THEN fcb_pc' = "second" /\ UNCHANGED fcb_p
     ELSE fcb_p' = fcb_p + 1 /\ UNCHANGED fcb_pc

\* One turn of the loop over what is left of the first name; p goes back one
\* character when the loop ends
SkipOn ==
  /\ fcb_pc = "skip" /\ UNCHANGED <<fcb_tail, garbage, mid>>
  /\ \/ fcb_tail[fcb_p] = "cr" /\ done_arg1' = TRUE /\ UNCHANGED fcb_last_c_lead_p
     \/ /\ fcb_tail[fcb_p] # "cr" /\ fcb_last_c_lead_p
        /\ fcb_last_c_lead_p' = FALSE /\ UNCHANGED done_arg1
     \/ /\ fcb_tail[fcb_p] # "cr" /\ ~fcb_last_c_lead_p
        /\ fcb_last_c_lead_p' = (fcb_tail[fcb_p] = "lead")
        /\ done_arg1' = (done_arg1 \/ fcb_tail[fcb_p] \in FcbSeparators)
  /\ IF done_arg1' THEN fcb_pc' = "second" /\ UNCHANGED fcb_p
     ELSE fcb_p' = fcb_p + 1 /\ UNCHANGED fcb_pc

SecondFcb == /\ fcb_pc = "second" /\ fcb_pc' \in {"made", "ENOMEM"}
             /\ UNCHANGED <<fcb_tail, garbage, fcb_p, mid, done_arg1, fcb_last_c_lead_p>>

FcbNext == First \/ SkipOn \/ SecondFcb

FcbSpec == FcbInit /\ [][FcbNext]_fcbVars

-----------------------------------------------------------------------------
(* Correctness.                                                            *)

\* The loop stops at the carriage return at the latest, whatever the flags
\* started with and even after a lead byte without its second byte
StopsInTail == fcb_p \in 1..Len(fcb_tail)

\* Where the second argument starts: at the first delimiter that is a character
\* of its own.
Delimiter(i) == fcb_tail[i] = "cr" \/ (fcb_tail[i] \in FcbSeparators /\ Boundary(fcb_tail, mid, i))
AtSecond == Delimiter(fcb_p) /\ \A i \in mid..fcb_p - 1 : ~Delimiter(i)

\* The second FCB is parsed from what follows the first argument.
SecondFollowsFirst == fcb_pc = "made" => AtSecond

\* No byte after the tail is read; and the second FCB is parsed from what follows
\* the first argument if the two flags happen to start cleared.
FcbsFollowTail == StopsInTail /\ (~garbage => SecondFollowsFirst)
=============================================================================
