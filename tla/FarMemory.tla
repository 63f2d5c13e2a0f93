----------------------------- MODULE FarMemory -----------------------------
(***************************************************************************)
(* _fmemmove, which chooses the direction of its copy from the addresses   *)
(* of two far buffers, and the comparisons _stricmp and _fstricmp.         *)
(*                                                                         *)
(* A far pointer is a segment and an offset.  Segments start every         *)
(* SegStep bytes, and there are as many as reach a megabyte, of Megabyte   *)
(* bytes here.  The bytes past it are the first ones again unless the A20  *)
(* line is enabled.                                                        *)
(***************************************************************************)
EXTENDS Integers, Sequences

CONSTANTS SegStep, Megabyte, OffsetWidth, \* offsets are below OffsetWidth
          Pointers, \* the far pointers to buffers
          Lengths,  \* their lengths
          Strings   \* the texts to compare

ASSUME FarAssumption ==
  /\ {SegStep, OffsetWidth} \subseteq Nat \ {0} /\ Megabyte \in Nat /\ Megabyte % SegStep = 0
  /\ 2 * OffsetWidth <= Megabyte
  /\ Pointers \subseteq [seg : 0..Megabyte \div SegStep - 1, off : 0..OffsetWidth - 1]
  /\ Lengths \subseteq Nat /\ \A s \in Strings : s \in Seq({"a", "A", "b", "B"})

VARIABLES far_pc, far_job, a20,
          memory, \* each address and what is there
          order   \* what a comparison returns

farVars == <<far_pc, far_job, a20, memory, order>>

HighAddresses == 0..Megabyte - SegStep + OffsetWidth - 1

\* Every byte is a different one
FarInit == /\ \/ /\ far_pc = "move"
                 /\ far_job \in [dest : Pointers, src : Pointers, n : Lengths]
                 /\ far_job.dest.off + far_job.n <= OffsetWidth
                 /\ far_job.src.off + far_job.n <= OffsetWidth
              \/ far_pc = "compare" /\ far_job \in [s1 : Strings, s2 : Strings]
           /\ a20 \in BOOLEAN
           /\ memory = [a \in HighAddresses |-> IF a20 THEN a ELSE a % Megabyte]
           /\ order = 0

\* The address of byte i of a buffer
LinearAddr(p) == p.seg * SegStep + p.off
Wire(a) == IF a20 THEN a ELSE a % Megabyte
Byte(p, i) == Wire(LinearAddr(p) + i)

-----------------------------------------------------------------------------
(* _fmemmove.                                                              *)

\* The bytes of s that is has are copied to d, all of them read before one is written
Copied(m, d, s, is) == [a \in DOMAIN m |->
                          IF \E i \in is : Byte(d, i) = Wire(a)
                          THEN m[Byte(s, CHOOSE i \in is : Byte(d, i) = Wire(a))] ELSE m[a]]
CopiedInTurn(m, d, s, parts) ==
  LET moved[k \in 0..Len(parts)] == IF k = 0 THEN m ELSE Copied(moved[k - 1], d, s, parts[k])
  IN  moved[Len(parts)]

\* rep movsw over the first n \div 2 words, or the last ones, then the odd byte
Forward(m, d, s, n) ==
  CopiedInTurn(m, d, s, [k \in 1..(n + 1) \div 2 |->
                           {2 * k - 2, 2 * k - 1} \intersect 0..n - 1])
Backward(m, d, s, n) ==
  CopiedInTurn(m, d, s, [k \in 1..(n + 1) \div 2 |->
                           {n - 2 * k, n - 2 * k + 1} \intersect 0..n - 1])

\* Whether a forward copy would overwrite the source before it has been read
Precedes(s, d, n) == s < d /\ s + n > d
PastMegabyte(a) == a >= Megabyte

GoesBackwardUnwrapped(d, s, n) ==
  IF d.seg = s.seg THEN d.off > s.off ELSE Precedes(LinearAddr(s), LinearAddr(d), n)
GoesBackward(d, s, n) ==
  LET dl == LinearAddr(d)
      sl == LinearAddr(s)
  IN  IF d.seg = s.seg THEN d.off > s.off
      ELSE \/ Precedes(sl, dl, n)
           \/ /\ PastMegabyte(sl) \/ PastMegabyte(dl)
              /\ Precedes(sl % Megabyte, dl % Megabyte, n)

FMemMove == /\ far_pc = "move" /\ far_pc' = "moved"
            /\ LET d == far_job.dest
                   s == far_job.src
                   n == far_job.n
               IN  memory' = IF n = 0 \/ d = s THEN memory
                             ELSE IF GoesBackward(d, s, n) THEN Backward(memory, d, s, n)
                             ELSE Forward(memory, d, s, n)
            /\ UNCHANGED <<far_job, a20, order>>

-----------------------------------------------------------------------------
(* Strings: a text ends in "nul".                                          *)

ToLower == [c \in {"a", "A", "b", "B", "nul"} |->
              CASE c = "nul" -> 0 [] c \in {"a", "A"} -> 97 [] c \in {"b", "B"} -> 98]
CharAt(s, i) == IF i <= Len(s) THEN s[i] ELSE "nul"

\* _stricmp and _fstricmp: the first characters to differ in lower case, or the end
StrICmp == /\ far_pc = "compare" /\ far_pc' = "compared"
           /\ LET s == far_job.s1
                  t == far_job.s2
                  Difference(i) == ToLower[CharAt(s, i)] - ToLower[CharAt(t, i)]
                  stop == {i \in 1..Len(s) + 1 : Difference(i) # 0 \/ CharAt(s, i) = "nul"}
              IN  order' = Difference(CHOOSE i \in stop : \A j \in stop : i <= j)
           /\ UNCHANGED <<far_job, a20, memory>>

FarNext == FMemMove \/ StrICmp

FarSpec == FarInit /\ [][FarNext]_farVars

-----------------------------------------------------------------------------
(* Correctness.                                                            *)

\* With the A20 line disabled, a source from below a megabyte to beyond it is one that
\* _fmemmove does not look for
Straddles(p, n) == ~a20 /\ LinearAddr(p) < Megabyte /\ LinearAddr(p) + n > Megabyte

Lower(s) == [i \in 1..Len(s) |-> ToLower[s[i]]]

\* After a move the destination holds what the source held, and nothing else has
\* changed, whichever segments and offsets the buffers are given by and whether memory
\* wraps or not; and a comparison is 0 for texts that are the same but for case.
MoveIsCopy ==
  /\ far_pc = "moved" /\ ~Straddles(far_job.src, far_job.n)
       => \A a \in HighAddresses :
            IF \E i \in 0..far_job.n - 1 : Byte(far_job.dest, i) = Wire(a)
            THEN \E i \in 0..far_job.n - 1 :
                   Byte(far_job.dest, i) = Wire(a) /\ memory[a] = Byte(far_job.src, i)
            ELSE memory[a] = Wire(a)
  /\ far_pc = "compared" => (order = 0) = (Lower(far_job.s1) = Lower(far_job.s2))
=============================================================================
