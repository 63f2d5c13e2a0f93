---------------------------- MODULE Conversions ----------------------------
(***************************************************************************)
(* The library's conversions of numbers: to text in a radix (_ulltoa,      *)
(* _lltoa, _ultoa, _ltoa), to and from little-endian octets (mzendian.h,   *)
(* in its two forms), into the BIOS's registers for a place on a disk      *)
(* (_bios_disk) and for the time (_bios_timeofday).                        *)
(*                                                                         *)
(* A machine word, or an octet, has W values; a long is two words and a    *)
(* long long four.  A place on a disk keeps its real widths.               *)
(***************************************************************************)
EXTENDS Integers, Sequences, SequencesExt, FiniteSetsExt

CONSTANTS W,
          Texts2Radix, \* numbers to be put into text: [call, value, radix]
          Octets,      \* numbers to be put into octets: [octets, value], of 2, 4 or 8
          Places,      \* places on a disk: [track, sector]
          Times        \* clock ticks, two words

\* What n words, or octets, have as their values
Power[n \in 0..8] == IF n = 0 THEN 1 ELSE W * Power[n - 1]

\* A long is two words, and a long long four; a signed one may be as low as -Power[n] / 2
Width(call) == IF call \in {"ltoa", "ultoa"} THEN 2 ELSE 4

ASSUME ConversionsAssumption ==
  /\ W \in Nat \ {0, 1}
  /\ Texts2Radix \subseteq [call : {"ulltoa", "lltoa", "ultoa", "ltoa"}, value : Int, radix : Int]
  /\ \A t \in Texts2Radix : /\ -Power[Width(t.call)] <= 2 * t.value
                            /\ t.value < Power[Width(t.call)]
  /\ Octets \subseteq [octets : {2, 4, 8}, value : Nat]
  /\ \A o \in Octets : o.value < Power[o.octets]
  /\ Places \subseteq [track : 0..1023, sector : 0..63]
  /\ Times \subseteq 0..W * W - 1

VARIABLES cv_pc, job,
          value,  \* what is left of the number, in words, the least significant first
          buffer, \* the digits, and the sign before them
          answer  \* the result of any other conversion

cvVars == <<cv_pc, job, value, buffer, answer>>

Word(x, i) == (x \div Power[i]) % W
WordsOf(x, n) == [i \in 1..n |-> Word(x, i - 1)]

CvInit == /\ \/ cv_pc = "text" /\ job \in Texts2Radix
             \/ cv_pc = "octets" /\ job \in Octets
             \/ cv_pc = "disk" /\ job \in Places
             \/ cv_pc = "time" /\ job \in [time : Times]
          /\ value = <<>> /\ buffer = <<>> /\ answer = <<>>

-----------------------------------------------------------------------------
(* Text in a radix.                                                        *)

\* The unsigned number that the loop is given.  _lltoa and _ltoa put a minus sign
\* before a negative number only in radix ten; _ltoa, in the GCC build, widens a long
\* with its sign then and without it otherwise.  A magnitude is found without
\* negating the least number, which has no negative.
Minus == -1
Signed(call) == call \in {"lltoa", "ltoa"}
Magnitude(v, n) == ((-(v + 1)) % Power[n]) + 1
HasSign(j) == Signed(j.call) /\ j.radix = 10 /\ j.value < 0
Unsigned(j) == IF HasSign(j) THEN Magnitude(j.value, Width(j.call))
               ELSE j.value % Power[Width(j.call)]

\* A bad radix makes an empty text
StartText == /\ cv_pc = "text" /\ UNCHANGED <<job, answer>>
             /\ IF job.radix \notin 2..36
                THEN cv_pc' = "done" /\ UNCHANGED <<value, buffer>>
                ELSE /\ cv_pc' = "digits" /\ value' = WordsOf(Unsigned(job), 4)
                     /\ buffer' = IF HasSign(job) THEN <<Minus>> ELSE <<>>

\* ulldiv, from the first word that is not zero: each division of a word is given the
\* remainder of the one before.  __libi86_ultoa_uldiv is the same for two words.
UllDiv(ws, radix) ==
  LET top == Max({1} \union {j \in 1..4 : ws[j] # 0})
      rem[j \in 1..5] == IF j > top THEN 0 ELSE (rem[j + 1] * W + ws[j]) % radix
  IN  [quotient |-> [j \in 1..4 |-> IF j > top THEN 0 ELSE (rem[j + 1] * W + ws[j]) \div radix],
       remainder |-> rem[1]]

Zero == [j \in 1..4 |-> 0]

\* One turn of the loop; the digits come out in reverse, and are reversed at the end
Digit == /\ cv_pc = "digits" /\ UNCHANGED <<job, answer>>
         /\ LET d == UllDiv(value, job.radix) IN
              /\ value' = d.quotient /\ buffer' = Append(buffer, d.remainder)
              /\ cv_pc' = IF d.quotient = Zero THEN "reverse" ELSE "digits"

ReverseDigits == /\ cv_pc = "reverse" /\ cv_pc' = "done" /\ UNCHANGED <<job, value, answer>>
                 /\ buffer' = IF HasSign(job) THEN <<Minus>> \o Reverse(Tail(buffer))
                              ELSE Reverse(buffer)

-----------------------------------------------------------------------------
(* Octets.                                                                 *)

\* _hle16, _hle32 and _hle64, where the machine is not known to be little-endian: each
\* octet is the number shifted right.  Where it is known to be, the number's own
\* octets are taken; an x86 machine keeps the least significant first (external).
HleBigEndian(x, n) == [i \in 1..n |-> Word(x, n - i)]
Hle(x, n) == [i \in 1..n |-> Word(x, i - 1)]
InMemory(x, n) == WordsOf(x, n)
FromMemory(o) ==
  LET from[i \in 0..Len(o)] == IF i = 0 THEN 0 ELSE from[i - 1] * W + o[Len(o) + 1 - i]
  IN  from[Len(o)]

\* _leh16, _leh32 and _leh64, which shift each octet left, and the lo and hi halves
Leh(o) ==
  LET leh[i \in 0..Len(o)] == IF i = 0 THEN 0 ELSE leh[i - 1] + o[i] * Power[i - 1]
  IN  leh[Len(o)]
LehLo(o) == Leh(SubSeq(o, 1, Len(o) \div 2))
LehHi(o) == Leh(SubSeq(o, Len(o) \div 2 + 1, Len(o)))

ConvertOctets == /\ cv_pc = "octets" /\ cv_pc' = "done" /\ UNCHANGED <<job, value, buffer>>
                 /\ LET o == Hle(job.value, job.octets)
                    IN  answer' = [octets |-> o, back |-> Leh(o), lo |-> LehLo(o), hi |-> LehHi(o)]

-----------------------------------------------------------------------------
(* The BIOS.                                                               *)

\* CH, and CL of which the track has the upper two bits
TrackLow(p) == p.track % 256
TrackHigh(p) == p.sector + 64 * (((p.track \div 4) % 256) \div 64)

\* What _DISK_DRIVEPARAMS makes of such registers
DiskInfo(ch, cl) == [track |-> ch + (cl \div 64) * 256, sector |-> cl % 64]

CallDisk == /\ cv_pc = "disk" /\ cv_pc' = "done" /\ UNCHANGED <<job, value, buffer>>
            /\ answer' = DiskInfo(TrackLow(job), TrackHigh(job))

\* The clock is set from CX and DX, and then read
CallTime == /\ cv_pc = "time" /\ cv_pc' = "done" /\ UNCHANGED <<job, value, buffer>>
            /\ LET cx == job.time \div W
                   dx == job.time % W
               IN  answer' = [time |-> cx * W + dx]

CvNext == StartText \/ Digit \/ ReverseDigits \/ ConvertOctets \/ CallDisk \/ CallTime

CvSpec == CvInit /\ [][CvNext]_cvVars

-----------------------------------------------------------------------------
(* Correctness.                                                            *)

\* The number that a text stands for, in radix r
NumberOf(text, r) ==
  LET number[i \in 0..Len(text)] == IF i = 0 THEN 0 ELSE number[i - 1] * r + text[i]
  IN  number[Len(text)]

\* A text in a radix, read in that radix, is the number (modulo the width, where there
\* is no sign), has no zero before it, and is empty for a radix that is none; octets
\* are the same in both builds, read back to the number, and fall into its halves; a
\* place on a disk and a time come back from the registers as they went in.
ConversionsComeBack ==
  cv_pc = "done" =>
    IF "call" \in DOMAIN job
    THEN IF job.radix \notin 2..36 THEN buffer = <<>>
         ELSE LET negative == buffer[1] = Minus
                  digits == IF negative THEN Tail(buffer) ELSE buffer
                  n == NumberOf(digits, job.radix)
              IN  /\ negative = HasSign(job)
                  /\ IF negative THEN -n = job.value
                     ELSE n = job.value % Power[Width(job.call)]
                  /\ digits[1] = 0 => Len(digits) = 1
                  /\ \A i \in 1..Len(digits) : digits[i] \in 0..job.radix - 1
    ELSE IF "octets" \in DOMAIN job
    THEN LET half == Power[job.octets \div 2]
         IN  /\ answer.octets = InMemory(job.value, job.octets)
             /\ answer.back = job.value /\ FromMemory(answer.octets) = job.value
             /\ answer.lo = job.value % half /\ answer.hi = job.value \div half
    ELSE answer = job
=============================================================================
