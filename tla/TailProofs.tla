----------------------------- MODULE TailProofs -----------------------------
(***************************************************************************)
(* Proofs about what a program passes to its child.  Of CommandTail: the   *)
(* tail fits in its buffer, for every size of the buffer, unless the       *)
(* program is a DOS shell; a DOS shell finds no redirection outside of     *)
(* quotes; double-byte characters stay as they are; and a Unix shell takes *)
(* the arguments from it again.  Of DefaultFcbs: the FCBs are parsed from  *)
(* the tail, each from its argument.  Of Environment: the strings fit in   *)
(* their block, and the child reads them, and then its path, from what DOS *)
(* makes of it.  All this holds of arguments and strings of any number and *)
(* length.  What is made of a tail or a block is read by an automaton,     *)
(* character by character, and the invariants say that the code's          *)
(* variables agree with its state after what was written or read so far.   *)
(***************************************************************************)
EXTENDS CommandTail, DefaultFcbs, Environment, Induction, SequenceTheorems, TLAPS

-----------------------------------------------------------------------------
(* CommandTail: the buffer.                                                *)

\* TailFits is inductive together with the types.
IInv == TailTypeOK /\ TailFits

\* One use of a COPY macro keeps the tail in its buffer, if it checks for the room.
LEMMA CopyKeeps ==
  ASSUME IInv, NEW s \in Seq(TailChars), NEW fits \in BOOLEAN,
         ~dos_shell /\ fits => q + Len(s) <= Size - 1,
         NEW to \in {"next", "begin", "quoted"}, Copy(s, fits, to),
         program' = program
  PROVE  tail' \in Seq(TailChars) /\ TailFits' /\ tail_pc' \in {to, "E2BIG"}
  <1>1. tail \in Seq(TailChars) /\ Len(tail) \in Nat /\ Len(s) \in Nat
    BY DEF IInv, TailTypeOK
  <1>2. CASE fits
    <2>1. tail' = tail \o s /\ tail_pc' = to
      BY <1>2 DEF Copy
    <2>2. tail' \in Seq(TailChars) /\ Len(tail') = Len(tail) + Len(s)
      BY <1>1, <2>1
    <2>3. dos_shell' = dos_shell
      BY DEF dos_shell
    <2>4. QED
      BY <1>1, <1>2, <2>1, <2>2, <2>3, TailAssumption DEF TailFits, q
  <1>3. CASE ~fits
    BY <1>3 DEF Copy, IInv, TailTypeOK, TailFits, q, dos_shell
  <1>4. QED
    BY <1>2, <1>3

\* What the tests of the macros mean for a tail that fits so far.
LEMMA Room ==
  ASSUME IInv, ~dos_shell
  PROVE  /\ Copy1Fits => q + 1 <= Size - 1
         /\ Copy1TwiceFits => q + 2 <= Size - 1
         /\ \A n \in Nat : CopyFits(n) => q + n <= Size - 1
  <1>1. q \in Nat /\ q <= Size - 1 /\ Size \in Nat
    BY TailAssumption DEF IInv, TailTypeOK, TailFits, q
  <1>2. QED
    BY <1>1 DEF Copy1Fits, Copy1TwiceFits, CopyFits

-----------------------------------------------------------------------------
(* The invariant is inductive.                                             *)

\* Some facts about sequences.
LEMMA Parts ==
  ASSUME NEW S, NEW s \in Seq(S), s # <<>>
  PROVE  Head(s) \in S /\ Tail(s) \in Seq(S)
  OBVIOUS

LEMMA Empty == ASSUME NEW S PROVE <<>> \in Seq(S) /\ Len(<<>>) = 0
  OBVIOUS

LEMMA UpToThree ==
  ASSUME NEW S, NEW a \in S, NEW b \in S, NEW c \in S
  PROVE  /\ <<a>> \in Seq(S) /\ Len(<<a>>) = 1
         /\ <<a, b>> \in Seq(S) /\ Len(<<a, b>>) = 2
         /\ <<a, b, c>> \in Seq(S) /\ Len(<<a, b, c>>) = 3
  OBVIOUS

LEMMA InitInvariant == TailInit => IInv
  <1> SUFFICES ASSUME TailInit PROVE IInv
    OBVIOUS
  <1>1. argv \in Seq(Seq(TailChars)) /\ program \in Programs
    BY TailAssumption DEF TailInit
  <1>2. tail \in Seq(TailChars) /\ Len(tail) = 0 /\ arg \in Seq(TailChars)
    BY Empty, Zenon DEF TailInit
  <1>3. TailFits
    BY <1>2, TailAssumption DEF TailFits, q
  <1>4. args \in Seq(Seq(TailChars)) /\ arg = <<>>
    BY <1>1 DEF TailInit
  <1>5. TailTypeOK
    BY <1>1, <1>2, <1>4, Zenon DEF TailInit, TailTypeOK
  <1>6. QED
    BY <1>3, <1>5 DEF IInv

LEMMA ArgumentInvariant == ASSUME IInv, Space \/ Verbatim \/ OpenQuote \/ CloseQuote PROVE IInv'
  <1>1. program' = program /\ argv' = argv
    BY DEF Space, Verbatim, OpenQuote, CloseQuote, given
  <1>2. \A a \in TailChars : <<a>> \in Seq(TailChars) /\ Len(<<a>>) = 1
    BY UpToThree
  <1>3. "spc" \in TailChars /\ "quo" \in TailChars
    BY DEF TailChars
  <1>4. <<>> \in Seq(TailChars)
    BY Empty
  <1>5. (Copy1Fits \in BOOLEAN) /\ (dos_shell' <=> dos_shell)
    BY <1>1 DEF Copy1Fits, dos_shell
  <1>6. CASE Space
    <2>1. Head(args) \in Seq(TailChars) /\ Tail(args) \in Seq(Seq(TailChars))
      BY <1>6, Parts DEF Space, IInv, TailTypeOK
    <2>2. tail' \in Seq(TailChars) /\ TailFits' /\ tail_pc' \in {"begin", "E2BIG"}
      BY <1>1, <1>2, <1>3, <1>5, <1>6, CopyKeeps, Room DEF Space
    <2>3. TailTypeOK'
      BY <1>1, <1>5, <1>6, <2>1, <2>2 DEF Space, IInv, TailTypeOK
    <2>4. QED
      BY <2>2, <2>3 DEF IInv
  <1>7. CASE Verbatim
    <2>1. arg \in Seq(TailChars) /\ Len(arg) \in Nat
      BY DEF IInv, TailTypeOK
    <2>2. CopyFits(Len(arg)) \in BOOLEAN
      BY DEF CopyFits
    <2>3. ~dos_shell /\ CopyFits(Len(arg)) => q + Len(arg) <= Size - 1
      BY <2>1, Room
    <2>4. tail' \in Seq(TailChars) /\ TailFits' /\ tail_pc' \in {"next", "E2BIG"}
      BY <1>1, <1>7, <2>1, <2>2, <2>3, CopyKeeps DEF Verbatim
    <2>5. TailTypeOK'
      BY <1>1, <1>4, <1>5, <1>7, <2>4 DEF Verbatim, IInv, TailTypeOK
    <2>6. QED
      BY <2>4, <2>5 DEF IInv
  <1>8. CASE OpenQuote
    <2>1. tail' \in Seq(TailChars) /\ TailFits' /\ tail_pc' \in {"quoted", "E2BIG"}
      BY <1>1, <1>2, <1>3, <1>5, <1>8, CopyKeeps, Room DEF OpenQuote
    <2>2. TailTypeOK'
      BY <1>1, <1>5, <1>8, <2>1 DEF OpenQuote, IInv, TailTypeOK
    <2>3. QED
      BY <2>1, <2>2 DEF IInv
  <1>9. CASE CloseQuote
    <2>1. tail' \in Seq(TailChars) /\ TailFits' /\ tail_pc' \in {"next", "E2BIG"}
      BY <1>1, <1>2, <1>3, <1>5, <1>9, CopyKeeps, Room DEF CloseQuote
    <2>2. TailTypeOK'
      BY <1>1, <1>5, <1>9, <2>1 DEF CloseQuote, IInv, TailTypeOK
    <2>3. QED
      BY <2>1, <2>2 DEF IInv
  <1>10. QED
    BY <1>6, <1>7, <1>8, <1>9

LEMMA CharacterInvariant ==
  ASSUME IInv, NEW c \in TailChars,
         \/ ArgTrailByte(c) \/ Character(c) \/ DosQuote(c)
         \/ DosPercent(c) \/ DosRedirect(c) \/ DosOther(c)
  PROVE  IInv'
  <1>1. program' = program /\ argv' = argv /\ args' = args /\ tail_pc = "quoted" /\ arg' = Tail(arg)
    BY DEF ArgTrailByte, Character, DosQuote, DosPercent, DosRedirect, DosOther, Plain,
        Reading, given
  <1>2. arg' \in Seq(TailChars)
    BY <1>1, Parts
    DEF IInv, TailTypeOK, ArgTrailByte, Character, DosQuote, DosPercent, DosRedirect, DosOther,
        Plain, Reading
  <1>3. dos_shell' <=> dos_shell
    BY <1>1 DEF dos_shell
  <1>4. /\ tail_last_c_lead_p' \in BOOLEAN
        /\ outside_quote' \in BOOLEAN
        /\ (~dos_shell => outside_quote')
    BY DEF IInv, TailTypeOK, ArgTrailByte, Character, DosQuote, DosPercent, DosRedirect, DosOther,
           given, Plain
  <1>5. "quo" \in TailChars /\ "bsl" \in TailChars /\ "pct" \in TailChars
    BY DEF TailChars
  <1>6. tail' \in Seq(TailChars) /\ TailFits' /\ tail_pc' \in {"quoted", "E2BIG"}
    <2>1. PICK s \in Seq(TailChars), fits \in BOOLEAN :
            Copy(s, fits, "quoted") /\ (~dos_shell /\ fits => q + Len(s) <= Size - 1)
      <3>1. /\ Copy1Fits \in BOOLEAN /\ Copy1TwiceFits \in BOOLEAN
            /\ Copy2Fits \in BOOLEAN /\ Copy3Fits \in BOOLEAN
        BY DEF Copy1Fits, Copy1TwiceFits, Copy2Fits, Copy3Fits
      <3>2. CASE Copy(<<c>>, Copy1Fits, "quoted")
        <4>1. <<c>> \in Seq(TailChars) /\ Len(<<c>>) = 1
          BY UpToThree
        <4>2. QED
          BY <3>1, <3>2, <4>1, Room
      <3>3. CASE Copy(<<"bsl", c>>, Copy1TwiceFits, "quoted")
        <4>1. <<"bsl", c>> \in Seq(TailChars) /\ Len(<<"bsl", c>>) = 2
          BY <1>5, UpToThree, Zenon
        <4>2. QED
          BY <3>1, <3>3, <4>1, Room
      <3>4. CASE dos_shell /\ Copy(<<"bsl", "quo">>, Copy2Fits, "quoted")
        <4>1. <<"bsl", "quo">> \in Seq(TailChars)
          BY <1>5, UpToThree, Zenon
        <4>2. QED
          BY <3>1, <3>4, <4>1
      <3>5. CASE dos_shell /\ Copy(<<"pct", "pct">>, Copy2Fits, "quoted")
        <4>1. <<"pct", "pct">> \in Seq(TailChars)
          BY <1>5, UpToThree, Zenon
        <4>2. QED
          BY <3>1, <3>5, <4>1
      <3>6. CASE dos_shell /\ Copy(<<"quo", c, "quo">>, Copy3Fits, "quoted")
        <4>1. <<"quo", c, "quo">> \in Seq(TailChars)
          BY <1>5, UpToThree, Zenon
        <4>2. QED
          BY <3>1, <3>6, <4>1
      <3>7. QED
        BY <1>1, <3>2, <3>3, <3>4, <3>5, <3>6, Zenon
        DEF ArgTrailByte, Character, Escape, DosQuote, DosPercent, DosRedirect, DosOther, Plain
    <2>2. QED
      BY <1>1, <2>1, CopyKeeps
  <1>7. TailTypeOK'
    BY <1>1, <1>2, <1>3, <1>4, <1>6 DEF IInv, TailTypeOK
  <1>8. QED
    BY <1>6, <1>7 DEF IInv

LEMMA StepInvariant == IInv /\ [TailNext]_tailVars => IInv'
  <1> SUFFICES ASSUME IInv, [TailNext]_tailVars PROVE IInv'
    OBVIOUS
  <1>1. CASE UNCHANGED tailVars
    BY <1>1 DEF tailVars, IInv, TailTypeOK, TailFits, q, dos_shell
  <1>2. CASE FinishTail
    BY <1>2 DEF FinishTail, given, IInv, TailTypeOK, TailFits, q, dos_shell
  <1>3. QED
    BY <1>1, <1>2, ArgumentInvariant, CharacterInvariant DEF TailNext

\* Unless the program is a DOS shell, direct_spawn either fails with E2BIG or
\* leaves room in argb for the carriage return that ends the tail, at every point
\* and for arguments of any number and length.
THEOREM TailInBuffer == TailSpec => [](TailTypeOK /\ TailFits)
  <1>1. IInv => TailTypeOK /\ TailFits
    BY DEF IInv
  <1>2. QED
    BY <1>1, InitInvariant, StepInvariant, PTL DEF TailSpec

-----------------------------------------------------------------------------
(* Reading a text for its characters, and as a DOS shell does.             *)

\* Reading a text for its characters of two bytes: whether the next byte is the first
\* or the second of its character.
Places == {"first", "second"}
PlaceBy(p, c) == IF p = "first" /\ c = "lead" THEN "second" ELSE "first"
Place == [p \in Places |-> [c \in TailChars |-> PlaceBy(p, c)]]

\* Reading it as a DOS shell does: whether a quote is open, or a redirection was met
\* outside of quotes.
Shells == {"out", "out lead", "in", "in lead", "bare"}
ShellBy(s, c) ==
  IF s = "bare" THEN "bare"
  ELSE IF s = "out lead" THEN "out"
  ELSE IF s = "in lead" THEN "in"
  ELSE IF c = "lead" THEN IF s = "out" THEN "out lead" ELSE "in lead"
  ELSE IF c = "quo" THEN IF s = "out" THEN "in" ELSE "out"
  ELSE IF c = "redir" /\ s = "out" THEN "bare"
  ELSE s
Shell == [s \in Shells |-> [c \in TailChars |-> ShellBy(s, c)]]

\* Both are automata over the characters of a tail.
LEMMA PlaceReads == \A p \in Places : Reads(Places, TailChars, p, Place)
  BY DEF Reads, Places, Place, PlaceBy

LEMMA PlaceIs == \A p \in Places, c \in TailChars : Place[p][c] = PlaceBy(p, c)
  BY DEF Place

LEMMA ShellType == \A s \in Shells, c \in TailChars : ShellBy(s, c) \in Shells
  BY DEF Shells, ShellBy

LEMMA ShellReads == \A s \in Shells : Reads(Shells, TailChars, s, Shell)
  <1>1. Shell \in [Shells -> [TailChars -> Shells]]
    BY ShellType DEF Shell
  <1>2. QED
    BY <1>1 DEF Reads

LEMMA ShellIs == \A s \in Shells, c \in TailChars : Shell[s][c] = ShellBy(s, c)
  BY DEF Shell

LEMMA StringsIn == /\ "first" \in Places /\ "second" \in Places /\ "out" \in Shells
                   /\ "in" \in Shells /\ "out lead" \in Shells /\ "in lead" \in Shells
  BY DEF Places, Shells

\* The recursion of Trail defines what it says.
LEMMA TrailDef ==
  ASSUME NEW t \in Seq(TailChars)
  PROVE  /\ Trail(t)[0] = FALSE
         /\ \A i \in 1..Len(t) : Trail(t)[i] = (i > 1 /\ t[i - 1] = "lead" /\ ~Trail(t)[i - 1])
  <1> DEFINE E(i, b) == i > 1 /\ t[i - 1] = "lead" /\ ~b
             D == [i \in 1..Len(t) |-> [b \in BOOLEAN |-> E(i, b)]]
             Good(g) == g = [i \in 0..Len(t) |-> E(i, g[i - 1])]
  <1>1. D \in Steps(0, Len(t), BOOLEAN)
    <2>1. D \in [1..Len(t) -> [BOOLEAN -> BOOLEAN]]
      OBVIOUS
    <2> HIDE DEF D
    <2>2. QED
      BY <2>1, StepsFrom0
  <1>2. PICK g : g \in Obeying(0, Len(t), BOOLEAN, FALSE, D)
    <2> HIDE DEF D, Good
    <2>1. 0 \in Int /\ Len(t) \in Int /\ FALSE \in BOOLEAN
      OBVIOUS
    <2>2. QED
      BY <1>1, <2>1, RecursionDefines, Zenon
  <1>3. Good(g)
    <2>1. g \in [0..Len(t) -> BOOLEAN] /\ g[0] = FALSE
          /\ \A i \in 1..Len(t) : g[i] = D[i][g[i - 1]]
      BY <1>2 DEF Obeying
    <2>2. \A i \in 1..Len(t) : g[i - 1] \in BOOLEAN
      BY <2>1
    <2>3. \A i \in 1..Len(t) : g[i] = E(i, g[i - 1])
      BY <2>1, <2>2
    <2>4. \A i \in 0..Len(t) : i = 0 \/ i \in 1..Len(t)
      OBVIOUS
    <2>5. E(0, g[0 - 1]) = FALSE
      OBVIOUS
    <2> HIDE DEF D, E
    <2>6. \A i \in 0..Len(t) : g[i] = E(i, g[i - 1])
      BY <2>1, <2>3, <2>4, <2>5, Zenon
    <2>7. QED
      BY <2>1, <2>6
  <1> DEFINE r == Trail(t)
  <1>4. Good(r)
    <2> HIDE DEF D
    <2>1. r = CHOOSE f : Good(f)
      BY DEF Trail
    <2> HIDE DEF Good, r
    <2>2. QED
      BY <1>3, <2>1
  <1> HIDE DEF D, r
  <1>5. \A i \in 0..Len(t) : r[i] = E(i, r[i - 1])
    <2> HIDE DEF E
    <2>1. QED
      BY <1>4, Zenon
  <1>6. r[0] = FALSE
    <2>1. 0 \in 0..Len(t) /\ E(0, r[0 - 1]) = FALSE
      OBVIOUS
    <2> HIDE DEF E
    <2>2. QED
      BY <1>5, <2>1, Zenon
  <1>7. \A i \in 1..Len(t) : i \in 0..Len(t)
    OBVIOUS
  <1> HIDE DEF Good
  <1>8. QED
    BY <1>5, <1>6, <1>7, Zenon DEF r

\* The states of the two while they read t.
LEMMA PlaceAlong ==
  ASSUME NEW t \in Seq(TailChars)
  PROVE  /\ Reader(Place, "first", t)[0] = "first"
         /\ \A i \in 1..Len(t) :
              Reader(Place, "first", t)[i] = Place[Reader(Place, "first", t)[i - 1]][t[i]]
         /\ \A i \in 0..Len(t) : Reader(Place, "first", t)[i] \in Places
  <1> DEFINE c == "first"
  <1>1. Reads(Places, TailChars, c, Place)
    BY PlaceReads, StringsIn
  <1> HIDE DEF c
  <1>2. /\ Reader(Place, c, t)[0] = c
        /\ \A i \in 1..Len(t) : Reader(Place, c, t)[i] = Place[Reader(Place, c, t)[i - 1]][t[i]]
        /\ \A i \in 0..Len(t) : Reader(Place, c, t)[i] \in Places
    BY <1>1, ReaderDef, Zenon
  <1>3. QED
    BY <1>2 DEF c

LEMMA ShellAlong ==
  ASSUME NEW t \in Seq(TailChars)
  PROVE  /\ Reader(Shell, "out", t)[0] = "out"
         /\ \A i \in 1..Len(t) :
              Reader(Shell, "out", t)[i] = Shell[Reader(Shell, "out", t)[i - 1]][t[i]]
         /\ \A i \in 0..Len(t) : Reader(Shell, "out", t)[i] \in Shells
  <1> DEFINE c == "out"
  <1>1. Reads(Shells, TailChars, c, Shell)
    BY ShellReads, StringsIn
  <1> HIDE DEF c
  <1>2. /\ Reader(Shell, c, t)[0] = c
        /\ \A i \in 1..Len(t) : Reader(Shell, c, t)[i] = Shell[Reader(Shell, c, t)[i - 1]][t[i]]
        /\ \A i \in 0..Len(t) : Reader(Shell, c, t)[i] \in Shells
    BY <1>1, ReaderDef, Zenon
  <1>3. QED
    BY <1>2 DEF c

\* A byte is a second one where reading from the beginning says so.
LEMMA TrailIsPlace ==
  ASSUME NEW t \in Seq(TailChars)
  PROVE  \A i \in 1..Len(t) : Trail(t)[i] <=> Reader(Place, "first", t)[i - 1] = "second"
  <1> DEFINE R == Reader(Place, "first", t)
             n == Len(t)
             S == {i \in Int : Trail(t)[i] <=> R[i - 1] = "second"}
  <1>1. /\ R[0] = "first" /\ \A i \in 1..n : R[i] = Place[R[i - 1]][t[i]]
        /\ \A i \in 0..n : R[i] \in Places
    BY PlaceAlong
  <1>2. n \in Nat /\ \A i \in 1..n : t[i] \in TailChars
    OBVIOUS
  <1> HIDE DEF R, n
  <1>3. 1 <= n => 1 \in S
    <2>1. ASSUME 1 <= n PROVE ~Trail(t)[1]
      <3>1. 1 \in 1..Len(t) /\ ~(1 > 1)
        BY <1>2, <2>1 DEF n
      <3>2. QED
        BY <3>1, TrailDef
    <2>2. R[1 - 1] = "first"
      BY <1>1
    <2>3. QED
      BY <2>1, <2>2
  <1>4. ASSUME NEW i \in 1..n - 1, i \in S PROVE i + 1 \in S
    <2>1. i \in 1..n /\ i + 1 \in 1..n /\ (i + 1) - 1 = i /\ i + 1 > 1 /\ i - 1 \in 0..n
      BY <1>2
    <2>2. R[i] = PlaceBy(R[i - 1], t[i])
      BY <1>1, <1>2, <2>1, PlaceIs
    <2>3. Trail(t)[i + 1] <=> t[i] = "lead" /\ ~Trail(t)[i]
      <3>1. Trail(t)[i + 1] = (i + 1 > 1 /\ t[(i + 1) - 1] = "lead" /\ ~Trail(t)[(i + 1) - 1])
        BY <2>1, TrailDef DEF n
      <3>2. t[(i + 1) - 1] = t[i] /\ Trail(t)[(i + 1) - 1] = Trail(t)[i]
        BY <2>1
      <3>3. QED
        BY <2>1, <3>1, <3>2
    <2>4. R[i - 1] \in Places
      BY <1>1, <2>1
    <2>5. R[i] = "second" <=> R[i - 1] # "second" /\ t[i] = "lead"
      BY <2>2, <2>4 DEF PlaceBy, Places
    <2>6. QED
      BY <1>4, <2>1, <2>3, <2>5
  <1>5. \A i \in 1..n : i \in S
    <2> HIDE DEF S
    <2>1. 1 \in Int /\ n \in Int
      BY <1>2
    <2>2. QED
      BY <1>3, <1>4, <2>1, IntervalClosed
  <1>6. QED
    BY <1>5 DEF R, n

\* A text in which no character is cut off ends with a character.
LEMMA WellFormedEnds ==
  ASSUME NEW t \in Seq(TailChars), WellFormed(t)
  PROVE  AfterAll(Place, "first", t) = "first"
  <1> DEFINE R == Reader(Place, "first", t)
             n == Len(t)
  <1>1. /\ R[0] = "first" /\ \A i \in 1..n : R[i] = Place[R[i - 1]][t[i]]
        /\ \A i \in 0..n : R[i] \in Places
    BY PlaceAlong
  <1>2. n \in Nat /\ \A i \in 1..n : t[i] \in TailChars
    OBVIOUS
  <1>3. \A i \in 1..n : Trail(t)[i] <=> R[i - 1] = "second"
    BY TrailIsPlace
  <1>4. \A i \in 1..n : t[i] = "lead" /\ ~Trail(t)[i] => i < n
    BY DEF WellFormed
  <1>5. AfterAll(Place, "first", t) = R[n]
    BY DEF AfterAll
  <1> HIDE DEF R, n
  <1>6. CASE n = 0
    BY <1>1, <1>5, <1>6
  <1>7. CASE n # 0
    <2>1. n \in 1..n /\ n - 1 \in 0..n /\ ~(n < n)
      BY <1>2, <1>7
    <2>2. R[n] = PlaceBy(R[n - 1], t[n]) /\ R[n - 1] \in Places
      BY <1>1, <1>2, <2>1, PlaceIs
    <2>3. ~(t[n] = "lead" /\ R[n - 1] # "second")
      BY <1>3, <1>4, <2>1
    <2>4. QED
      BY <1>5, <2>2, <2>3 DEF PlaceBy, Places
  <1>8. QED
    BY <1>6, <1>7

\* The recursion of Quoted defines what it says.
LEMMA QuotedDef ==
  ASSUME NEW t \in Seq(TailChars)
  PROVE  /\ \A i \in 1..Len(t) :
              Quoted(t)[i] = IF i <= 1 THEN FALSE
                             ELSE IF t[i - 1] = "quo" /\ ~Trail(t)[i - 1]
                             THEN ~Quoted(t)[i - 1] ELSE Quoted(t)[i - 1]
         /\ \A i \in 0..Len(t) : Quoted(t)[i] \in BOOLEAN
  <1> DEFINE E(i, b) == IF i <= 1 THEN FALSE
                        ELSE IF t[i - 1] = "quo" /\ ~Trail(t)[i - 1] THEN ~b ELSE b
             D == [i \in 1..Len(t) |-> [b \in BOOLEAN |-> E(i, b)]]
             Good(g) == g = [i \in 0..Len(t) |-> E(i, g[i - 1])]
  <1>1. D \in Steps(0, Len(t), BOOLEAN)
    <2>1. \A i \in 1..Len(t) : \A b \in BOOLEAN : E(i, b) \in BOOLEAN
      OBVIOUS
    <2> HIDE DEF E
    <2>2. D \in [1..Len(t) -> [BOOLEAN -> BOOLEAN]]
      BY <2>1
    <2> HIDE DEF D
    <2>3. QED
      BY <2>2, StepsFrom0
  <1>2. PICK g : g \in Obeying(0, Len(t), BOOLEAN, FALSE, D)
    <2> HIDE DEF D, Good
    <2>1. 0 \in Int /\ Len(t) \in Int /\ FALSE \in BOOLEAN
      OBVIOUS
    <2>2. QED
      BY <1>1, <2>1, RecursionDefines, Zenon
  <1>3. Good(g)
    <2>1. E(0, g[0 - 1]) = FALSE
      OBVIOUS
    <2> HIDE DEF E
    <2>2. g \in [0..Len(t) -> BOOLEAN] /\ g[0] = FALSE
          /\ \A i \in 1..Len(t) : g[i] = D[i][g[i - 1]]
      BY <1>2 DEF Obeying
    <2>3. \A i \in 1..Len(t) : g[i - 1] \in BOOLEAN
      BY <2>2
    <2>4. \A i \in 1..Len(t) : g[i] = E(i, g[i - 1])
      BY <2>2, <2>3
    <2>5. \A i \in 0..Len(t) : i = 0 \/ i \in 1..Len(t)
      OBVIOUS
    <2> HIDE DEF D
    <2>6. \A i \in 0..Len(t) : g[i] = E(i, g[i - 1])
      BY <2>2, <2>4, <2>5, <2>1, Zenon
    <2>7. QED
      BY <2>2, <2>6
  <1> DEFINE r == Quoted(t)
  <1>4. Good(r)
    <2> HIDE DEF D
    <2>1. r = CHOOSE f : Good(f)
      BY DEF Quoted
    <2> HIDE DEF Good, r
    <2>2. QED
      BY <1>3, <2>1
  <1> HIDE DEF D, r
  <1>5. \A i \in 0..Len(t) : r[i] = E(i, r[i - 1])
    <2> HIDE DEF E
    <2>1. QED
      BY <1>4, Zenon
  <1>6. r[0] = FALSE
    <2>1. 0 \in 0..Len(t) /\ E(0, r[0 - 1]) = FALSE
      OBVIOUS
    <2> HIDE DEF E
    <2>2. QED
      BY <1>5, <2>1, Zenon
  <1>7. \A i \in 1..Len(t) : i \in 0..Len(t)
    OBVIOUS
  <1> HIDE DEF Good
  <1>8. \A i \in 0..Len(t) : r[i] \in BOOLEAN
    <2>1. \A i \in 1..Len(t) : \A b \in BOOLEAN : E(i, b) \in BOOLEAN
      OBVIOUS
    <2> HIDE DEF E
    <2>2. ASSUME NEW i \in 1..Len(t), r[i - 1] \in BOOLEAN PROVE r[i] \in BOOLEAN
      <3>1. r[i] = E(i, r[i - 1])
        BY <1>5, <1>7
      <3>2. E(i, r[i - 1]) \in BOOLEAN
        BY <2>1, <2>2
      <3>3. QED
        BY <3>1, <3>2, Zenon
    <2>3. Len(t) \in Nat
      OBVIOUS
    <2>4. r[0] \in BOOLEAN
      BY <1>6, Zenon
    <2>5. QED
      BY <2>2, <2>3, <2>4, TypedFrom0, Zenon
  <1>9. \A i \in 1..Len(t) : r[i] = E(i, r[i - 1])
    BY <1>5, <1>7, Zenon
  <1>10. QED
    BY <1>8, <1>9, Zenon DEF r

\* Where no redirection was met outside of quotes, each is in quotes.
LEMMA NoneBare ==
  ASSUME NEW t \in Seq(TailChars), AfterAll(Shell, "out", t) # "bare"
  PROVE  \A i \in 1..Len(t) : t[i] = "redir" /\ ~Trail(t)[i] => Quoted(t)[i]
  <1> DEFINE R == Reader(Shell, "out", t)
             n == Len(t)
             Q == Quoted(t)
             T == Trail(t)
             Inside == {"in", "in lead"}
             Within == {"out lead", "in lead"}
             Agree(i) == /\ T[i] <=> R[i - 1] \in Within
                         /\ Q[i] <=> R[i - 1] \in Inside
             S == {i \in Int : Agree(i)}
  <1>1. /\ R[0] = "out" /\ \A i \in 1..n : R[i] = Shell[R[i - 1]][t[i]]
        /\ \A i \in 0..n : R[i] \in Shells
    BY ShellAlong
  <1>2. n \in Nat /\ \A i \in 1..n : t[i] \in TailChars
    OBVIOUS
  <1>3. R[n] # "bare"
    BY DEF AfterAll
  <1>4. \A i \in 1..n : T[i] = (i > 1 /\ t[i - 1] = "lead" /\ ~T[i - 1])
    BY TrailDef
  <1>5. /\ \A i \in 1..n : Q[i] = IF i <= 1 THEN FALSE
                                  ELSE IF t[i - 1] = "quo" /\ ~T[i - 1]
                                  THEN ~Q[i - 1] ELSE Q[i - 1]
        /\ \A i \in 0..n : Q[i] \in BOOLEAN
    BY QuotedDef, Zenon
  <1> HIDE DEF R, n, Q, T
  <1>6. \A i \in 1..n : R[i] = ShellBy(R[i - 1], t[i]) /\ R[i - 1] \in Shells
    <2> TAKE i \in 1..n
    <2>1. i - 1 \in 0..n
      BY <1>2
    <2>2. QED
      BY <1>1, <1>2, <2>1, ShellIs
  <1>7. \A i \in 0..n : R[i] # "bare"
    <2> SUFFICES ASSUME NEW k \in 0..n, R[k] = "bare" PROVE FALSE
      OBVIOUS
    <2> DEFINE B == {i \in Int : R[i] = "bare"}
    <2>1. k <= n => k \in B
      OBVIOUS
    <2>2. ASSUME NEW i \in k..n - 1, i \in B PROVE i + 1 \in B
      <3>1. i + 1 \in 1..n /\ (i + 1) - 1 = i
        BY <1>2
      <3>2. R[i + 1] = ShellBy(R[i], t[i + 1])
        BY <1>6, <3>1
      <3>3. R[i] = "bare" /\ i + 1 \in Int
        BY <2>2
      <3>4. R[i + 1] = "bare"
        BY <3>2, <3>3 DEF ShellBy
      <3>5. QED
        BY <3>3, <3>4
    <2>3. \A i \in k..n : i \in B
      <3> HIDE DEF B
      <3>1. k \in Int /\ n \in Int
        BY <1>2
      <3>2. QED
        BY <2>1, <2>2, <3>1, IntervalClosed, Zenon
    <2>4. n \in k..n
      BY <1>2
    <2>5. QED
      BY <1>3, <2>3, <2>4
  <1>8. 1 <= n => 1 \in S
    <2>1. ASSUME 1 <= n PROVE ~T[1] /\ ~Q[1]
      <3>1. 1 \in 1..n /\ ~(1 > 1) /\ 1 <= 1
        BY <1>2, <2>1
      <3>2. T[1] = (1 > 1 /\ t[1 - 1] = "lead" /\ ~T[1 - 1])
        BY <1>4, <3>1
      <3>3. Q[1] = FALSE
        BY <1>5, <3>1
      <3>4. QED
        BY <3>1, <3>2, <3>3
    <2>2. R[1 - 1] = "out" /\ "out" \notin Within /\ "out" \notin Inside
      BY <1>1
    <2>3. R[1 - 1] \notin Within /\ R[1 - 1] \notin Inside
      BY <2>2, Zenon
    <2> HIDE DEF Within, Inside
    <2>4. 1 <= n => Agree(1)
      BY <2>1, <2>3, Zenon
    <2> HIDE DEF Agree
    <2>5. QED
      BY <2>4
  <1>9. ASSUME NEW i \in 1..n - 1, i \in S PROVE i + 1 \in S
    <2>1. i \in 1..n /\ i + 1 \in 1..n /\ (i + 1) - 1 = i /\ i + 1 > 1 /\ ~(i + 1 <= 1)
          /\ i \in 0..n
      BY <1>2
    <2>2. T[i + 1] <=> t[i] = "lead" /\ ~T[i]
      <3>1. T[i + 1] = (i + 1 > 1 /\ t[(i + 1) - 1] = "lead" /\ ~T[(i + 1) - 1])
        BY <1>4, <2>1
      <3>2. t[(i + 1) - 1] = t[i] /\ T[(i + 1) - 1] = T[i]
        BY <2>1
      <3>3. QED
        BY <2>1, <3>1, <3>2
    <2>3. Q[i + 1] <=> IF t[i] = "quo" /\ ~T[i] THEN ~Q[i] ELSE Q[i]
      <3>1. Q[i + 1] = IF t[(i + 1) - 1] = "quo" /\ ~T[(i + 1) - 1]
                       THEN ~Q[(i + 1) - 1] ELSE Q[(i + 1) - 1]
        BY <1>5, <2>1
      <3>2. /\ t[(i + 1) - 1] = t[i] /\ T[(i + 1) - 1] = T[i]
            /\ Q[(i + 1) - 1] = Q[i]
        BY <2>1
      <3>3. QED
        BY <3>1, <3>2
    <2>4. R[i] = ShellBy(R[i - 1], t[i]) /\ R[i - 1] \in Shells /\ R[i] # "bare"
      BY <1>6, <1>7, <2>1
    <2>5. /\ T[i] <=> R[i - 1] \in Within
          /\ Q[i] <=> R[i - 1] \in Inside
      BY <1>9
    <2>6. R[i] \in Within <=> t[i] = "lead" /\ R[i - 1] \notin Within
      BY <2>4 DEF ShellBy, Shells
    <2>7. R[i] \in Inside <=> IF t[i] = "quo" /\ R[i - 1] \notin Within
                              THEN R[i - 1] \notin Inside ELSE R[i - 1] \in Inside
      BY <2>4 DEF ShellBy, Shells
    <2>8. T[i + 1] <=> R[i] \in Within
      BY <2>2, <2>5, <2>6
    <2>9. Q[i + 1] <=> R[i] \in Inside
      BY <2>3, <2>5, <2>7
    <2>10. R[(i + 1) - 1] = R[i]
      BY <2>1
    <2> HIDE DEF Within, Inside
    <2>11. Agree(i + 1)
      BY <2>8, <2>9, <2>10, Zenon
    <2> HIDE DEF Agree
    <2>12. QED
      BY <2>11
  <1>10. \A i \in 1..n : i \in S
    <2> HIDE DEF S
    <2>1. 1 \in Int /\ n \in Int
      BY <1>2
    <2>2. QED
      BY <1>8, <1>9, <2>1, IntervalClosed, Zenon
  <1>11. \A i \in 1..n : t[i] = "redir" /\ ~T[i] => Q[i]
    <2> TAKE i \in 1..n
    <2>1. /\ T[i] <=> R[i - 1] \in Within
          /\ Q[i] <=> R[i - 1] \in Inside
      BY <1>10
    <2>2. R[i] = ShellBy(R[i - 1], t[i]) /\ R[i - 1] \in Shells /\ R[i] # "bare"
      BY <1>2, <1>6, <1>7
    <2>3. t[i] = "redir" /\ R[i - 1] \notin Within => R[i - 1] \in Inside
      BY <2>2 DEF ShellBy, Shells
    <2>4. QED
      BY <2>1, <2>3
  <1>12. QED
    BY <1>11 DEF n, T, Q

\* The texts whose characters end with them, when read from p
Sound(p, t) == AfterAll(Place, p, t) = "first"
PlaceOf(b) == IF b THEN "second" ELSE "first"

\* Reading nothing, and reading the first character
LEMMA PlaceOfType == \A b \in BOOLEAN : PlaceOf(b) \in Places
  BY DEF PlaceOf, Places

LEMMA SoundNone == ASSUME NEW p \in Places PROVE Sound(p, <<>>) <=> p = "first"
  <1> DEFINE t == <<>>
  <1>1. t \in Seq(TailChars) /\ Len(t) = 0
    BY Empty
  <1> HIDE DEF t
  <1>2. Reads(Places, TailChars, p, Place)
    BY PlaceReads
  <1>3. AfterAll(Place, p, t) = p
    BY <1>1, <1>2, AfterNone, Zenon
  <1>4. QED
    BY <1>3 DEF Sound, t

LEMMA SoundTail ==
  ASSUME NEW p \in Places, NEW t \in Seq(TailChars), t # <<>>
  PROVE  Sound(p, t) <=> Sound(PlaceBy(p, Head(t)), Tail(t))
  <1>1. Reads(Places, TailChars, p, Place)
    BY PlaceReads
  <1>2. AfterAll(Place, p, t) = AfterAll(Place, Place[p][Head(t)], Tail(t))
    BY <1>1, AfterFirst, SMT
  <1>3. Head(t) \in TailChars
    OBVIOUS
  <1>4. Place[p][Head(t)] = PlaceBy(p, Head(t))
    BY <1>3, PlaceIs
  <1>5. QED
    BY <1>2, <1>4 DEF Sound

-----------------------------------------------------------------------------
(* What each step reads and writes.                                        *)

\* No argument ends in the middle of a character.
WellFormedArgs == \A v \in ArgVectors : \A i \in 1..Len(v) : WellFormed(v[i])

\* What is left of the arguments, and of the one that is read, has whole characters.
SoundInv ==
  tail_pc # "E2BIG" =>
    /\ \A i \in 1..Len(args) : Sound("first", args[i])
    /\ tail_pc = "begin" => Sound("first", arg)
    /\ tail_pc = "quoted" => Sound(PlaceOf(tail_last_c_lead_p), arg)

LEMMA SoundInit == ASSUME WellFormedArgs, TailInit PROVE SoundInv
  <1>1. args = argv /\ argv \in ArgVectors /\ argv \in Seq(Seq(TailChars)) /\ tail_pc = "next"
    BY TailAssumption DEF TailInit
  <1>2. \A i \in 1..Len(args) : args[i] \in Seq(TailChars) /\ WellFormed(args[i])
    BY <1>1 DEF WellFormedArgs
  <1>3. QED
    BY <1>1, <1>2, WellFormedEnds DEF SoundInv, Sound

\* The program and its arguments stay what they are.
LEMMA Given == TailNext => UNCHANGED <<program, argv>>
  BY DEF TailNext, Space, Verbatim, OpenQuote, CloseQuote, FinishTail, ArgTrailByte, Character,
         DosQuote, DosPercent, DosRedirect, DosOther, Plain, given

\* One step for each character of a quoted argument, however it is copied
CharacterStep(c) == \/ ArgTrailByte(c) \/ Character(c) \/ DosQuote(c)
                    \/ DosPercent(c) \/ DosRedirect(c) \/ DosOther(c)

LEMMA CharacterReads ==
  ASSUME TailTypeOK, NEW c \in TailChars, CharacterStep(c)
  PROVE  /\ tail_pc = "quoted" /\ tail_pc' \in {"quoted", "E2BIG"}
         /\ arg # <<>> /\ c = Head(arg) /\ arg' = Tail(arg)
         /\ UNCHANGED <<program, argv, args>>
         /\ PlaceOf(tail_last_c_lead_p') = PlaceBy(PlaceOf(tail_last_c_lead_p), c)
  <1>1. /\ tail_pc = "quoted" /\ arg # <<>> /\ c = Head(arg) /\ arg' = Tail(arg)
        /\ UNCHANGED <<program, argv, args>>
    BY DEF CharacterStep, ArgTrailByte, Character, DosQuote, DosPercent, DosRedirect, DosOther,
           Plain, Reading, given
  <1>2. tail_pc' \in {"quoted", "E2BIG"}
    BY <1>1 DEF CharacterStep, ArgTrailByte, Character, DosQuote, DosPercent, DosRedirect, DosOther,
           Escape, Copy
  <1>3. tail_last_c_lead_p' <=> ~tail_last_c_lead_p /\ c = "lead"
    <2>1. CASE ArgTrailByte(c)
      BY <2>1 DEF ArgTrailByte
    <2>2. CASE Character(c) \/ DosOther(c)
      BY <2>2, Zenon DEF Character, DosOther, Plain
    <2>3. CASE DosQuote(c) \/ DosPercent(c) \/ DosRedirect(c)
      <3>1. c # "lead" /\ ~tail_last_c_lead_p /\ tail_last_c_lead_p' = tail_last_c_lead_p
        BY <2>3 DEF DosQuote, DosPercent, DosRedirect, Plain
      <3>2. QED
        BY <3>1, Zenon
    <2>4. QED
      BY <2>1, <2>2, <2>3 DEF CharacterStep
  <1>4. QED
    BY <1>1, <1>2, <1>3 DEF PlaceOf, PlaceBy

LEMMA TailOf ==
  ASSUME NEW S, NEW s \in Seq(S), s # <<>>
  PROVE  /\ Head(s) = s[1] /\ 1 \in 1..Len(s) /\ Tail(s) \in Seq(S)
         /\ \A i \in 1..Len(Tail(s)) : i + 1 \in 1..Len(s) /\ Tail(s)[i] = s[i + 1]
  OBVIOUS

LEMMA SoundStep == ASSUME TailTypeOK, SoundInv, TailNext PROVE SoundInv'
  <1> SUFFICES ASSUME tail_pc' # "E2BIG" PROVE SoundInv'
    BY DEF SoundInv
  <1>1. args \in Seq(Seq(TailChars)) /\ arg \in Seq(TailChars) /\ tail_last_c_lead_p \in BOOLEAN
    BY DEF TailTypeOK
  <1>2. CASE Space
    <2>1. tail_pc = "next" /\ args # <<>> /\ args' = Tail(args) /\ arg' = Head(args)
          /\ tail_pc' = "begin"
      BY <1>2 DEF Space, Copy
    <2>2. \A i \in 1..Len(args) : Sound("first", args[i])
      BY <2>1 DEF SoundInv
    <2>3. /\ Head(args) = args[1] /\ 1 \in 1..Len(args)
          /\ \A i \in 1..Len(Tail(args)) : i + 1 \in 1..Len(args) /\ Tail(args)[i] = args[i + 1]
      BY <1>1, <2>1, TailOf
    <2>4. QED
      BY <2>1, <2>2, <2>3 DEF SoundInv, Sound
  <1>3. CASE Verbatim \/ CloseQuote \/ FinishTail
    <2>1. args' = args /\ tail_pc # "E2BIG" /\ tail_pc' \in {"next", "made"}
      BY <1>3 DEF Verbatim, CloseQuote, FinishTail, Copy
    <2>2. QED
      BY <2>1 DEF SoundInv, Sound
  <1>4. CASE OpenQuote
    <2>1. args' = args /\ tail_pc = "begin" /\ tail_pc' = "quoted" /\ arg' = arg
          /\ tail_last_c_lead_p' = FALSE
      BY <1>4 DEF OpenQuote, Copy
    <2>2. QED
      BY <2>1 DEF SoundInv, Sound, PlaceOf
  <1>5. ASSUME NEW c \in TailChars, CharacterStep(c) PROVE SoundInv'
    <2>1. /\ tail_pc = "quoted" /\ tail_pc' = "quoted"
          /\ arg # <<>> /\ c = Head(arg) /\ arg' = Tail(arg) /\ args' = args
          /\ PlaceOf(tail_last_c_lead_p') = PlaceBy(PlaceOf(tail_last_c_lead_p), c)
      BY <1>5, CharacterReads
    <2>2. Sound(PlaceOf(tail_last_c_lead_p), arg)
      BY <2>1 DEF SoundInv
    <2>3. Sound(PlaceBy(PlaceOf(tail_last_c_lead_p), Head(arg)), Tail(arg))
      BY <1>1, <2>1, <2>2, PlaceOfType, SoundTail
    <2>4. QED
      BY <2>1, <2>3 DEF SoundInv, Sound
  <1>6. QED
    BY <1>2, <1>3, <1>4, <1>5 DEF TailNext, CharacterStep

-----------------------------------------------------------------------------
(* A DOS shell.  What it has made of the tail so far is known to the code: *)
(* outside_quote says whether a quote is open.                             *)

ShellAfter(t) == AfterAll(Shell, "out", t)
Outside(b) == IF b THEN "out" ELSE "in"
OutsideLead(b) == IF b THEN "out lead" ELSE "in lead"

\* Reading nothing, and one, two or three more characters
LEMMA ShellNone == ASSUME NEW t \in Seq(TailChars), Len(t) = 0 PROVE ShellAfter(t) = "out"
  <1> DEFINE c == "out"
  <1>1. Reads(Shells, TailChars, c, Shell)
    BY ShellReads, StringsIn
  <1> HIDE DEF c
  <1>2. AfterAll(Shell, c, t) = c
    BY <1>1, AfterNone, Zenon
  <1>3. QED
    BY <1>2 DEF c, ShellAfter

LEMMA ShellMore ==
  ASSUME NEW t \in Seq(TailChars), NEW x \in TailChars, NEW y \in TailChars
  PROVE  /\ ShellAfter(t) \in Shells
         /\ ShellAfter(t \o <<x>>) = ShellBy(ShellAfter(t), x)
         /\ ShellAfter(t \o <<x, y>>) = ShellBy(ShellBy(ShellAfter(t), x), y)
  <1> DEFINE c == "out"
  <1>1. Reads(Shells, TailChars, c, Shell)
    BY ShellReads, StringsIn
  <1> HIDE DEF c
  <1> DEFINE m == AfterAll(Shell, c, t)
  <1>2. m \in Shells /\ AfterAll(Shell, c, t \o <<x>>) = Shell[m][x]
    BY <1>1, AfterNext, SMT
  <1>3. AfterAll(Shell, c, t \o <<x, y>>) = Shell[Shell[m][x]][y]
    BY <1>1, AfterTwo, SMT
  <1> HIDE DEF m
  <1>4. Shell[m][x] = ShellBy(m, x) /\ ShellBy(m, x) \in Shells
    BY <1>2, ShellIs, ShellType
  <1>5. Shell[ShellBy(m, x)][y] = ShellBy(ShellBy(m, x), y) /\ ShellBy(ShellBy(m, x), y) \in Shells
    BY <1>4, ShellIs, ShellType
  <1>6. QED
    BY <1>2, <1>3, <1>4, <1>5 DEF m, c, ShellAfter

LEMMA ShellThree ==
  \A t \in Seq(TailChars) : \A x \in TailChars, y \in TailChars, z \in TailChars :
    ShellAfter(t \o <<x, y, z>>) = ShellBy(ShellBy(ShellBy(ShellAfter(t), x), y), z)
  <1> TAKE t \in Seq(TailChars)
  <1> TAKE x \in TailChars, y \in TailChars, z \in TailChars
  <1> DEFINE u == t \o <<x, y>>
  <1>1. u \in Seq(TailChars) /\ u \o <<z>> = t \o <<x, y, z>>
    BY ThreeOnTop, ZenonT(60)
  <1>2. ShellAfter(u) = ShellBy(ShellBy(ShellAfter(t), x), y)
    BY ShellMore
  <1> HIDE DEF u
  <1>3. ShellAfter(u \o <<z>>) = ShellBy(ShellAfter(u), z)
    BY <1>1, ShellMore
  <1>4. QED
    BY <1>1, <1>2, <1>3

\* Neither a quote nor a redirection in it: a shell reads it as anybody does.
LEMMA ShellVerbatim ==
  ASSUME NEW t \in Seq(TailChars), NEW u \in Seq(TailChars), NEW b \in BOOLEAN,
         ShellAfter(t) = Outside(b), Sound("first", u), ~HasOneOf(u, {"quo", "redir"})
  PROVE  ShellAfter(t \o u) = Outside(b)
  <1> DEFINE T == TailChars \ {"quo", "redir"}
             R == {<<Outside(b), "first">>, <<OutsideLead(b), "second">>}
             c == "out"
             d == Outside(b)
             p == "first"
  <1>1. /\ d \in Shells /\ p \in Places /\ <<d, p>> \in R /\ T \subseteq TailChars
    BY StringsIn DEF Outside
  <1>2. /\ Reads(Shells, TailChars, c, Shell) /\ Reads(Shells, TailChars, d, Shell)
        /\ Reads(Places, TailChars, p, Place)
    BY <1>1, ShellReads, PlaceReads, StringsIn
  <1>3. u \in Seq(T)
    <2>1. \A i \in 1..Len(u) : u[i] \in T
      BY DEF HasOneOf
    <2>2. QED
      BY <2>1
  <1>4. \A v \in Shells, w \in Places, x \in T :
          <<v, w>> \in R => <<Shell[v][x], Place[w][x]>> \in R
    <2> SUFFICES ASSUME NEW v \in Shells, NEW w \in Places, NEW x \in T, <<v, w>> \in R
                 PROVE  <<Shell[v][x], Place[w][x]>> \in R
      OBVIOUS
    <2>1. Shell[v][x] = ShellBy(v, x) /\ Place[w][x] = PlaceBy(w, x)
      BY ShellIs, PlaceIs
    <2>2. CASE v = Outside(b) /\ w = "first"
      BY <2>1, <2>2 DEF ShellBy, PlaceBy, Outside, OutsideLead
    <2>3. CASE v = OutsideLead(b) /\ w = "second"
      BY <2>1, <2>3 DEF ShellBy, PlaceBy, Outside, OutsideLead
    <2>4. QED
      BY <2>2, <2>3
  <1> HIDE DEF c, d, p, T, R
  <1>5. \A i \in 0..Len(u) : <<Reader(Shell, d, u)[i], Reader(Place, p, u)[i]>> \in R
    BY <1>1, <1>2, <1>3, <1>4, ReadAlike, SMT
  <1>6. <<AfterAll(Shell, d, u), AfterAll(Place, p, u)>> \in R
    <2>1. Len(u) \in 0..Len(u)
      OBVIOUS
    <2>2. QED
      BY <1>5, <2>1 DEF AfterAll
  <1>7. AfterAll(Place, p, u) = "first"
    BY DEF Sound, p
  <1>8. AfterAll(Shell, d, u) = Outside(b)
    BY <1>6, <1>7 DEF R
  <1>9. AfterAll(Shell, c, t) = d
    BY DEF ShellAfter, c, d
  <1>10. AfterAll(Shell, c, t \o u) = AfterAll(Shell, AfterAll(Shell, c, t), u)
    BY <1>2, AfterBoth, SMT
  <1>11. QED
    BY <1>8, <1>9, <1>10 DEF ShellAfter, c

\* No redirection was met outside of quotes, and the code knows where the shell is.
ShellInv ==
  program = "dos shell" =>
    /\ ShellAfter(tail) # "bare"
    /\ tail_pc # "E2BIG" =>
         ShellAfter(tail) = IF tail_pc = "quoted" /\ tail_last_c_lead_p
                            THEN OutsideLead(outside_quote) ELSE Outside(outside_quote)

LEMMA OutsideType == \A b \in BOOLEAN : Outside(b) # "bare" /\ OutsideLead(b) # "bare"
  BY DEF Outside, OutsideLead

\* Of the arguments to a DOS shell, what is copied as it is has neither.
LEMMA NothingToQuote ==
  ASSUME NEW t, program = "dos shell", ~NeedsQuotes(t)
  PROVE  ~HasOneOf(t, {"quo", "redir"})
  BY DEF NeedsQuotes, HasOneOf

LEMMA ShellInvInit == TailTypeOK /\ TailInit => ShellInv
  <1> SUFFICES ASSUME TailTypeOK, TailInit PROVE ShellInv
    OBVIOUS
  <1>1. tail \in Seq(TailChars) /\ Len(tail) = 0 /\ outside_quote = TRUE /\ tail_pc = "next"
    BY Empty DEF TailInit
  <1>2. ShellAfter(tail) = "out"
    BY <1>1, ShellNone
  <1>3. QED
    BY <1>1, <1>2 DEF ShellInv, Outside

LEMMA ShellArgument ==
  ASSUME TailTypeOK, SoundInv, ShellInv, program = "dos shell", program' = program,
         Space \/ Verbatim \/ OpenQuote \/ CloseQuote, tail_pc' # "E2BIG"
  PROVE  ShellInv'
  <1>1. tail \in Seq(TailChars) /\ arg \in Seq(TailChars) /\ outside_quote \in BOOLEAN /\ dos_shell
        /\ tail_last_c_lead_p \in BOOLEAN
    BY DEF TailTypeOK, dos_shell, DosShells
  <1>2. "spc" \in TailChars /\ "quo" \in TailChars
    BY DEF TailChars
  <1>3. \A x \in TailChars : ShellAfter(tail \o <<x>>) = ShellBy(ShellAfter(tail), x)
    BY <1>1, ShellMore
  <1>4. tail_pc # "E2BIG"
    BY DEF Space, Verbatim, OpenQuote, CloseQuote
  <1>5. CASE Space
    <2>1. /\ tail_pc = "next" /\ tail_pc' = "begin" /\ tail' = tail \o <<"spc">>
          /\ outside_quote' = outside_quote
      BY <1>5 DEF Space, Copy
    <2>2. ShellAfter(tail) = Outside(outside_quote)
      BY <2>1 DEF ShellInv
    <2>3. ShellAfter(tail') = ShellBy(Outside(outside_quote), "spc")
      BY <1>2, <1>3, <2>1, <2>2
    <2>4. ShellAfter(tail') = Outside(outside_quote')
      BY <2>1, <2>3 DEF ShellBy, Outside
    <2>5. QED
      BY <1>1, <2>1, <2>4, OutsideType DEF ShellInv, ShellAfter
  <1>6. CASE Verbatim
    <2>1. /\ tail_pc = "begin" /\ tail_pc' = "next" /\ tail' = tail \o arg
          /\ outside_quote' = outside_quote
      BY <1>6 DEF Verbatim, Copy
    <2>2. ShellAfter(tail) = Outside(outside_quote) /\ Sound("first", arg)
      BY <2>1 DEF ShellInv, SoundInv
    <2>3. ~HasOneOf(arg, {"quo", "redir"})
      BY <1>6, NothingToQuote DEF Verbatim
    <2>4. ShellAfter(tail') = Outside(outside_quote')
      BY <1>1, <2>1, <2>2, <2>3, ShellVerbatim
    <2>5. QED
      BY <1>1, <2>1, <2>4, OutsideType DEF ShellInv, ShellAfter
  <1>7. CASE OpenQuote
    <2>1. /\ tail_pc = "begin" /\ tail_pc' = "quoted" /\ tail' = tail \o <<"quo">>
          /\ outside_quote' = ~outside_quote /\ tail_last_c_lead_p' = FALSE
      BY <1>1, <1>7 DEF OpenQuote, Copy
    <2>2. ShellAfter(tail) = Outside(outside_quote)
      BY <2>1 DEF ShellInv
    <2>3. ShellAfter(tail') = ShellBy(Outside(outside_quote), "quo")
      BY <1>2, <1>3, <2>1, <2>2
    <2>4. ShellAfter(tail') = Outside(outside_quote')
      BY <1>1, <2>1, <2>3 DEF ShellBy, Outside
    <2>5. QED
      BY <1>1, <2>1, <2>4, OutsideType DEF ShellInv, ShellAfter
  <1>8. CASE CloseQuote
    <2>1. /\ tail_pc = "quoted" /\ tail_pc' = "next" /\ tail' = tail \o <<"quo">>
          /\ outside_quote' = ~outside_quote /\ arg = <<>>
      BY <1>1, <1>8 DEF CloseQuote, Copy
    <2>2. Sound(PlaceOf(tail_last_c_lead_p), arg)
      BY <2>1 DEF SoundInv
    <2>3. PlaceOf(tail_last_c_lead_p) = "first"
      BY <1>1, <2>1, <2>2, PlaceOfType, SoundNone
    <2>4. ~tail_last_c_lead_p
      BY <2>3 DEF PlaceOf
    <2>5. ShellAfter(tail) = Outside(outside_quote)
      BY <2>1, <2>4 DEF ShellInv
    <2>6. ShellAfter(tail') = ShellBy(Outside(outside_quote), "quo")
      BY <1>2, <1>3, <2>1, <2>5
    <2>7. ShellAfter(tail') = Outside(outside_quote')
      BY <1>1, <2>1, <2>6 DEF ShellBy, Outside
    <2>8. QED
      BY <1>1, <2>1, <2>7, OutsideType DEF ShellInv, ShellAfter
  <1>9. QED
    BY <1>5, <1>6, <1>7, <1>8

LEMMA ShellCharacter ==
  ASSUME TailTypeOK, ShellInv, program = "dos shell",
         NEW c \in TailChars, CharacterStep(c), tail_pc' # "E2BIG"
  PROVE  ShellInv'
  <1>1. tail \in Seq(TailChars) /\ outside_quote \in BOOLEAN /\ tail_last_c_lead_p \in BOOLEAN
        /\ dos_shell /\ tail_pc = "quoted" /\ tail_pc' = "quoted"
    BY CharacterReads DEF TailTypeOK, dos_shell, DosShells
  <1>2. "quo" \in TailChars /\ "bsl" \in TailChars /\ "pct" \in TailChars
    BY DEF TailChars
  <1> DEFINE m == ShellAfter(tail)
             n == ShellAfter(tail')
             Is(w, lead, out) == w = IF lead THEN OutsideLead(out) ELSE Outside(out)
  <1>3. Is(m, tail_last_c_lead_p, outside_quote)
    BY <1>1 DEF ShellInv
  <1>4. \A x \in TailChars, y \in TailChars, z \in TailChars :
          /\ ShellAfter(tail \o <<x>>) = ShellBy(m, x)
          /\ ShellAfter(tail \o <<x, y>>) = ShellBy(ShellBy(m, x), y)
          /\ ShellAfter(tail \o <<x, y, z>>) = ShellBy(ShellBy(ShellBy(m, x), y), z)
    <2>1. tail \in Seq(TailChars)
      BY <1>1
    <2> HIDE DEF n
    <2>2. \A x \in TailChars : ShellAfter(tail \o <<x>>) = ShellBy(m, x)
      BY <2>1, ShellMore
    <2>3. \A x \in TailChars, y \in TailChars :
            ShellAfter(tail \o <<x, y>>) = ShellBy(ShellBy(m, x), y)
      BY <2>1, ShellMore
    <2>4. \A x \in TailChars, y \in TailChars, z \in TailChars :
            ShellAfter(tail \o <<x, y, z>>) = ShellBy(ShellBy(ShellBy(m, x), y), z)
      BY <2>1, ShellThree, Zenon
    <2> HIDE DEF m
    <2>5. QED
      BY <2>2, <2>3, <2>4, ZenonT(60)
  <1>5. Is(n, tail_last_c_lead_p', outside_quote')
    <2>1. CASE ArgTrailByte(c)
      <3>1. /\ tail' = tail \o <<c>> /\ outside_quote' = outside_quote
            /\ tail_last_c_lead_p /\ ~tail_last_c_lead_p'
        BY <1>1, <2>1 DEF ArgTrailByte, Copy
      <3>2. n = ShellBy(m, c)
        BY <1>4, <3>1
      <3> HIDE DEF m, n
      <3>3. QED
        BY <1>3, <3>1, <3>2 DEF ShellBy, OutsideLead, Outside
    <2>2. CASE DosQuote(c)
      <3>1. /\ tail' = tail \o <<"bsl", "quo">> /\ outside_quote' = ~outside_quote
            /\ ~tail_last_c_lead_p /\ ~tail_last_c_lead_p'
        <4>1. tail_last_c_lead_p' = tail_last_c_lead_p /\ ~tail_last_c_lead_p
          BY <2>2 DEF DosQuote, Plain
        <4>2. tail' = tail \o <<"bsl", "quo">> /\ outside_quote' = ~outside_quote
          BY <1>1, <2>2 DEF DosQuote, Copy
        <4>3. QED
          BY <4>1, <4>2
      <3>2. n = ShellBy(ShellBy(m, "bsl"), "quo")
        BY <1>2, <1>4, <3>1
      <3> HIDE DEF m, n
      <3>3. QED
        BY <1>1, <1>3, <3>1, <3>2 DEF ShellBy, OutsideLead, Outside
    <2>3. CASE DosPercent(c)
      <3>1. /\ tail' = tail \o <<"pct", "pct">> /\ outside_quote' = outside_quote
            /\ ~tail_last_c_lead_p /\ tail_last_c_lead_p' = tail_last_c_lead_p
        BY <1>1, <2>3 DEF DosPercent, Copy, Plain
      <3>2. n = ShellBy(ShellBy(m, "pct"), "pct")
        BY <1>2, <1>4, <3>1
      <3> HIDE DEF m, n
      <3>3. QED
        BY <1>3, <3>1, <3>2 DEF ShellBy, OutsideLead, Outside
    <2>4. CASE DosRedirect(c)
      <3>1. /\ outside_quote' = outside_quote /\ c = "redir"
            /\ ~tail_last_c_lead_p /\ tail_last_c_lead_p' = tail_last_c_lead_p
        BY <1>1, <2>4 DEF DosRedirect, Plain
      <3>2. CASE outside_quote
        <4>1. tail' = tail \o <<"quo", c, "quo">>
          BY <1>1, <2>4, <3>2 DEF DosRedirect, Copy
        <4>2. n = ShellBy(ShellBy(ShellBy(m, "quo"), c), "quo")
          BY <1>2, <1>4, <4>1
        <4> HIDE DEF m, n
        <4>3. QED
          BY <1>3, <3>1, <3>2, <4>2 DEF ShellBy, OutsideLead, Outside
      <3>3. CASE ~outside_quote
        <4>1. tail' = tail \o <<c>>
          BY <1>1, <2>4, <3>3 DEF DosRedirect, Copy
        <4>2. n = ShellBy(m, c)
          BY <1>4, <4>1
        <4> HIDE DEF m, n
        <4>3. QED
          BY <1>3, <3>1, <3>3, <4>2 DEF ShellBy, OutsideLead, Outside
      <3>4. QED
        BY <3>2, <3>3
    <2>5. CASE DosOther(c)
      <3>1. /\ tail' = tail \o <<c>> /\ outside_quote' = outside_quote
            /\ c \notin {"quo", "pct", "redir"} /\ ~tail_last_c_lead_p
        BY <1>1, <2>5 DEF DosOther, Copy, Plain
      <3>2. tail_last_c_lead_p' <=> c = "lead"
        BY <2>5 DEF DosOther
      <3>3. n = ShellBy(m, c)
        BY <1>4, <3>1
      <3> HIDE DEF m, n
      <3>4. QED
        BY <1>3, <3>1, <3>2, <3>3 DEF ShellBy, OutsideLead, Outside
    <2>6. CASE Character(c)
      BY <1>1, <2>6 DEF Character
    <2>7. QED
      BY <2>1, <2>2, <2>3, <2>4, <2>5, <2>6 DEF CharacterStep
  <1>6. outside_quote' \in BOOLEAN
    BY <1>1
    DEF CharacterStep, ArgTrailByte, Character, DosQuote, DosPercent, DosRedirect, DosOther, Plain,
        given
  <1>7. QED
    BY <1>1, <1>5, <1>6, OutsideType DEF ShellInv, ShellAfter

\* A step that fails writes nothing.
LEMMA Fails ==
  ASSUME TailNext, tail_pc' = "E2BIG"
  PROVE  tail' = tail /\ UNCHANGED <<program, argv>>
  <1>1. UNCHANGED <<program, argv>>
    BY Given
  <1>2. tail_pc \in {"next", "begin", "quoted"}
    BY DEF TailNext, Space, Verbatim, OpenQuote, CloseQuote, FinishTail, ArgTrailByte, Character,
           DosQuote, DosPercent, DosRedirect, DosOther, Plain, Reading
  <1>3. CASE Space \/ Verbatim \/ OpenQuote \/ CloseQuote \/ FinishTail
    BY <1>1, <1>3 DEF Space, Verbatim, OpenQuote, CloseQuote, FinishTail, Copy
  <1>4. ASSUME NEW c \in TailChars, CharacterStep(c) PROVE tail' = tail
    BY <1>2, <1>4 DEF CharacterStep, ArgTrailByte, Character, DosQuote, DosPercent, DosRedirect,
                      DosOther, Escape, Copy
  <1>5. QED
    BY <1>1, <1>3, <1>4 DEF TailNext, CharacterStep

LEMMA ShellStep == ASSUME TailTypeOK, SoundInv, ShellInv, TailNext PROVE ShellInv'
  <1>1. UNCHANGED <<program, argv>>
    BY Given
  <1>2. CASE program # "dos shell"
    BY <1>1, <1>2 DEF ShellInv
  <1>3. CASE program = "dos shell" /\ tail_pc' = "E2BIG"
    <2>1. tail' = tail
      BY <1>3, Fails
    <2>2. QED
      BY <1>1, <1>3, <2>1 DEF ShellInv, ShellAfter
  <1>4. CASE program = "dos shell" /\ tail_pc' # "E2BIG"
    <2>1. CASE FinishTail
      BY <1>1, <2>1 DEF FinishTail, ShellInv, ShellAfter
    <2>2. QED
      BY <1>1, <1>4, <2>1, ShellArgument, ShellCharacter DEF TailNext, CharacterStep
  <1>5. QED
    BY <1>2, <1>3, <1>4

LEMMA QuotedAll == TailTypeOK /\ ShellInv => RedirQuoted
  <1> SUFFICES ASSUME TailTypeOK, ShellInv, program = "dos shell"
               PROVE  \A i \in 1..Len(tail) :
                        tail[i] = "redir" /\ ~Trail(tail)[i] => Quoted(tail)[i]
    BY DEF RedirQuoted
  <1>1. tail \in Seq(TailChars) /\ AfterAll(Shell, "out", tail) # "bare"
    BY DEF TailTypeOK, ShellInv, ShellAfter
  <1>2. QED
    BY <1>1, NoneBare

\* For arguments of any number and length, none of which ends in the middle of a
\* double-byte character: whatever quotes come before it, in the same argument or in
\* another, each character that could redirect is between quotes in the tail that
\* direct_spawn makes for a DOS shell.
THEOREM RedirectionsStayQuoted == ASSUME WellFormedArgs PROVE TailSpec => []RedirQuoted
  <1> DEFINE TextInv == IInv /\ SoundInv /\ ShellInv
  <1>1. TailInit => TextInv
    BY InitInvariant, SoundInit, ShellInvInit DEF IInv
  <1>2. TextInv /\ [TailNext]_tailVars => TextInv'
    <2> SUFFICES ASSUME TextInv, [TailNext]_tailVars PROVE TextInv'
      OBVIOUS
    <2>1. IInv'
      BY StepInvariant
    <2>2. CASE UNCHANGED tailVars
      BY <2>1, <2>2 DEF tailVars, SoundInv, ShellInv, Sound, ShellAfter
    <2>3. CASE TailNext
      BY <2>1, <2>3, SoundStep, ShellStep DEF IInv
    <2>4. QED
      BY <2>2, <2>3
  <1>3. TextInv => RedirQuoted
    BY QuotedAll DEF IInv
  <1> HIDE DEF TextInv
  <1>4. QED
    BY <1>1, <1>2, <1>3, PTL DEF TailSpec

-----------------------------------------------------------------------------
(* Double-byte characters.                                                 *)

\* Reading a text for its characters of two bytes, and keeping their second bytes
Wides == [at : Places, wide : Seq(TailChars)]
WideBy(s, c) == IF s.at = "second" THEN [at |-> "first", wide |-> Append(s.wide, c)]
                ELSE [at |-> IF c = "lead" THEN "second" ELSE "first", wide |-> s.wide]
WideStep == [s \in Wides |-> [c \in TailChars |-> WideBy(s, c)]]
NoWide == [at |-> "first", wide |-> <<>>]
WideAfter(t) == AfterAll(WideStep, NoWide, t)

LEMMA WideType == \A s \in Wides, c \in TailChars : WideBy(s, c) \in Wides
  <1> SUFFICES ASSUME NEW s \in Wides, NEW c \in TailChars PROVE WideBy(s, c) \in Wides
    OBVIOUS
  <1>1. s.at \in Places /\ s.wide \in Seq(TailChars)
    BY DEF Wides
  <1>2. Append(s.wide, c) \in Seq(TailChars)
    BY <1>1
  <1>3. QED
    BY <1>1, <1>2, StringsIn DEF Wides, WideBy

LEMMA WideReads == \A s \in Wides : Reads(Wides, TailChars, s, WideStep)
  <1>1. WideStep \in [Wides -> [TailChars -> Wides]]
    BY WideType DEF WideStep
  <1>2. QED
    BY <1>1 DEF Reads

LEMMA WideIs == \A s \in Wides, c \in TailChars : WideStep[s][c] = WideBy(s, c)
  BY DEF WideStep

LEMMA NoWideType == NoWide \in Wides
  <1>1. <<>> \in Seq(TailChars)
    BY Empty
  <1>2. QED
    BY <1>1, StringsIn DEF NoWide, Wides

\* The recursion of Wide.
WideAt(t) ==
  LET wide[i \in 0..Len(t)] ==
        IF i = 0 THEN <<>>
        ELSE IF Trail(t)[i] THEN Append(wide[i - 1], t[i]) ELSE wide[i - 1]
  IN  wide

LEMMA WideIsLast == \A t : Wide(t) = WideAt(t)[Len(t)]
  BY DEF Wide, WideAt

LEMMA WideDef ==
  ASSUME NEW t \in Seq(TailChars)
  PROVE  /\ WideAt(t)[0] = <<>>
         /\ \A i \in 1..Len(t) :
              WideAt(t)[i] = IF Trail(t)[i] THEN Append(WideAt(t)[i - 1], t[i])
                             ELSE WideAt(t)[i - 1]
  <1> DEFINE V == Seq(TailChars)
             e == <<>>
             E(i, v) == IF Trail(t)[i] THEN Append(v, t[i]) ELSE v
             D == [i \in 1..Len(t) |-> [v \in V |-> E(i, v)]]
             Good(g) == g = [i \in 0..Len(t) |-> IF i = 0 THEN e ELSE E(i, g[i - 1])]
  <1>1. e \in V
    BY Empty
  <1>2. \A i \in 1..Len(t) : \A v \in V : E(i, v) \in V
    OBVIOUS
  <1> HIDE DEF e
  <1>3. D \in Steps(0, Len(t), V)
    <2> HIDE DEF E, V
    <2>1. D \in [1..Len(t) -> [V -> V]]
      BY <1>2
    <2> HIDE DEF D
    <2>2. QED
      BY <2>1, StepsFrom0
  <1>4. PICK g : g \in Obeying(0, Len(t), V, e, D)
    <2> HIDE DEF D, Good
    <2>1. 0 \in Int /\ Len(t) \in Int
      OBVIOUS
    <2> HIDE DEF V
    <2>2. QED
      BY <1>1, <1>3, <2>1, RecursionDefines, Zenon
  <1>5. Good(g)
    <2> HIDE DEF E, V
    <2>1. \A i \in 1..Len(t) : i - 1 \in 0..Len(t)
      OBVIOUS
    <2>2. g \in [0..Len(t) -> V]
      BY <1>4 DEF Obeying
    <2>3. g[0] = e /\ \A i \in 1..Len(t) : g[i] = D[i][g[i - 1]]
      BY <1>4 DEF Obeying
    <2>4. \A i \in 1..Len(t) : g[i] = E(i, g[i - 1])
      BY <2>1, <2>2, <2>3
    <2> HIDE DEF D
    <2>5. QED
      BY <2>2, <2>3, <2>4
  <1> DEFINE r == WideAt(t)
  <1>6. Good(r)
    <2> HIDE DEF D, V
    <2>1. r = CHOOSE f : Good(f)
      BY DEF WideAt, e
    <2> HIDE DEF Good, r
    <2>2. QED
      BY <1>5, <2>1
  <1> HIDE DEF E, D, r, V
  <1>7. r[0] = e /\ \A i \in 1..Len(t) : r[i] = E(i, r[i - 1])
    <2>1. 0 \in 0..Len(t) /\ \A i \in 1..Len(t) : i \in 0..Len(t) /\ i # 0
      OBVIOUS
    <2>2. \A i \in 0..Len(t) : r[i] = IF i = 0 THEN e ELSE E(i, r[i - 1])
      BY <1>6, Zenon
    <2>3. QED
      BY <2>1, <2>2
  <1>8. QED
    BY <1>7 DEF E, r, e

\* The states of the reader, and what it keeps.
LEMMA WideAlong ==
  ASSUME NEW t \in Seq(TailChars)
  PROVE  /\ Reader(WideStep, NoWide, t)[0] = NoWide
         /\ \A i \in 1..Len(t) :
              Reader(WideStep, NoWide, t)[i] = WideBy(Reader(WideStep, NoWide, t)[i - 1], t[i])
         /\ \A i \in 0..Len(t) : Reader(WideStep, NoWide, t)[i] \in Wides
  <1>1. Reads(Wides, TailChars, NoWide, WideStep)
    BY WideReads, NoWideType
  <1>2. /\ Reader(WideStep, NoWide, t)[0] = NoWide
        /\ \A i \in 1..Len(t) :
             Reader(WideStep, NoWide, t)[i] = WideStep[Reader(WideStep, NoWide, t)[i - 1]][t[i]]
        /\ \A i \in 0..Len(t) : Reader(WideStep, NoWide, t)[i] \in Wides
    BY <1>1, ReaderDef, Zenon
  <1>3. \A i \in 1..Len(t) : t[i] \in TailChars /\ i - 1 \in 0..Len(t)
    OBVIOUS
  <1>4. QED
    BY <1>2, <1>3, WideIs

LEMMA WideIsRead == ASSUME NEW t \in Seq(TailChars) PROVE Wide(t) = WideAfter(t).wide
  <1> DEFINE R == Reader(WideStep, NoWide, t)
             P == Reader(Place, "first", t)
             W == WideAt(t)
             n == Len(t)
             Same(i) == R[i].wide = W[i] /\ R[i].at = P[i]
  <1>1. /\ R[0] = NoWide /\ \A i \in 1..n : R[i] = WideBy(R[i - 1], t[i])
        /\ \A i \in 0..n : R[i] \in Wides
    BY WideAlong
  <1>2. /\ P[0] = "first" /\ \A i \in 1..n : P[i] = Place[P[i - 1]][t[i]]
        /\ \A i \in 0..n : P[i] \in Places
    BY PlaceAlong
  <1>3. /\ W[0] = <<>>
        /\ \A i \in 1..n : W[i] = IF Trail(t)[i] THEN Append(W[i - 1], t[i]) ELSE W[i - 1]
    BY WideDef
  <1>4. \A i \in 1..n : Trail(t)[i] <=> P[i - 1] = "second"
    BY TrailIsPlace
  <1>5. n \in Nat /\ (\A i \in 1..n : t[i] \in TailChars)
    OBVIOUS
  <1>6. Wide(t) = W[n] /\ WideAfter(t) = R[n]
    BY WideIsLast DEF WideAfter, AfterAll
  <1> HIDE DEF R, P, W, n
  <1>7. Same(0)
    BY <1>1, <1>2, <1>3 DEF NoWide
  <1>8. ASSUME NEW i \in 1..n, Same(i - 1) PROVE Same(i)
    <2>1. i - 1 \in 0..n
      BY <1>5
    <2>2. R[i] = WideBy(R[i - 1], t[i]) /\ R[i - 1] \in Wides
      BY <1>1, <2>1
    <2>3. P[i] = PlaceBy(P[i - 1], t[i]) /\ P[i - 1] \in Places
      BY <1>2, <1>5, <2>1, PlaceIs
    <2>4. CASE P[i - 1] = "second"
      <3>1. R[i - 1].at = "second" /\ P[i - 1] = "second" /\ R[i - 1].wide = W[i - 1]
        BY <1>8, <2>4
      <3>2. R[i] = [at |-> "first", wide |-> Append(R[i - 1].wide, t[i])]
        BY <2>2, <3>1 DEF WideBy
      <3>3. P[i] = "first"
        BY <2>3, <3>1 DEF PlaceBy
      <3>4. W[i] = Append(W[i - 1], t[i])
        BY <1>3, <1>4, <3>1
      <3>5. QED
        BY <3>1, <3>2, <3>3, <3>4
    <2>5. CASE P[i - 1] # "second"
      <3>1. R[i - 1].at # "second" /\ P[i - 1] = "first" /\ R[i - 1].wide = W[i - 1]
        BY <1>8, <2>3, <2>5 DEF Places
      <3>2. R[i] = [at |-> IF t[i] = "lead" THEN "second" ELSE "first", wide |-> R[i - 1].wide]
        BY <2>2, <3>1 DEF WideBy
      <3>3. P[i] = IF t[i] = "lead" THEN "second" ELSE "first"
        BY <2>3, <3>1 DEF PlaceBy
      <3>4. W[i] = W[i - 1]
        BY <1>3, <1>4, <2>5
      <3>5. QED
        BY <3>1, <3>2, <3>3, <3>4
    <2>6. QED
      BY <2>4, <2>5
  <1> DEFINE S == {i \in Int : Same(i)}
  <1>9. \A i \in 0..n : i \in S
    <2>1. 0 <= n => 0 \in S
      BY <1>7
    <2>2. ASSUME NEW i \in 0..n - 1, i \in S PROVE i + 1 \in S
      <3>1. i + 1 \in 1..n /\ (i + 1) - 1 = i
        BY <1>5
      <3>2. Same((i + 1) - 1)
        BY <2>2, <3>1
      <3>3. Same(i + 1)
        BY <1>8, <3>1, <3>2
      <3>4. QED
        BY <3>3
    <2> HIDE DEF S
    <2>3. 0 \in Int /\ n \in Int
      BY <1>5
    <2>4. QED
      BY <2>1, <2>2, <2>3, IntervalClosed, Zenon
  <1>10. n \in 0..n
    BY <1>5
  <1>11. R[n].wide = W[n]
    BY <1>9, <1>10
  <1>12. QED
    BY <1>6, <1>11

\* The recursion of Joined.
JoinedTo(v) == LET join[i \in 0..Len(v)] == IF i = 0 THEN <<>> ELSE join[i - 1] \o v[i]
               IN  join

LEMMA JoinedIsLast == \A v : Joined(v) = JoinedTo(v)[Len(v)]
  BY DEF Joined, JoinedTo

LEMMA JoinedDef ==
  ASSUME NEW v \in Seq(Seq(TailChars))
  PROVE  /\ JoinedTo(v)[0] = <<>>
         /\ \A i \in 1..Len(v) : JoinedTo(v)[i] = JoinedTo(v)[i - 1] \o v[i]
         /\ \A i \in 0..Len(v) : JoinedTo(v)[i] \in Seq(TailChars)
  <1> DEFINE V == Seq(TailChars)
             e == <<>>
             E(i, u) == u \o v[i]
             D == [i \in 1..Len(v) |-> [u \in V |-> E(i, u)]]
             Good(g) == g = [i \in 0..Len(v) |-> IF i = 0 THEN e ELSE E(i, g[i - 1])]
  <1>1. e \in V
    BY Empty
  <1>2. \A i \in 1..Len(v) : \A u \in V : E(i, u) \in V
    <2> TAKE i \in 1..Len(v)
    <2> TAKE u \in V
    <2>1. v[i] \in Seq(TailChars)
      OBVIOUS
    <2>2. QED
      BY <2>1, ConcatProperties
  <1> HIDE DEF e
  <1>3. D \in Steps(0, Len(v), V)
    <2> HIDE DEF E, V
    <2>1. D \in [1..Len(v) -> [V -> V]]
      BY <1>2
    <2> HIDE DEF D
    <2>2. QED
      BY <2>1, StepsFrom0
  <1>4. PICK g : g \in Obeying(0, Len(v), V, e, D)
    <2> HIDE DEF D, Good
    <2>1. 0 \in Int /\ Len(v) \in Int
      OBVIOUS
    <2> HIDE DEF V
    <2>2. QED
      BY <1>1, <1>3, <2>1, RecursionDefines, Zenon
  <1>5. Good(g)
    <2> HIDE DEF E, V
    <2>1. \A i \in 1..Len(v) : i - 1 \in 0..Len(v)
      OBVIOUS
    <2>2. g \in [0..Len(v) -> V]
      BY <1>4 DEF Obeying
    <2>3. g[0] = e /\ \A i \in 1..Len(v) : g[i] = D[i][g[i - 1]]
      BY <1>4 DEF Obeying
    <2>4. \A i \in 1..Len(v) : g[i] = E(i, g[i - 1])
      BY <2>1, <2>2, <2>3
    <2> HIDE DEF D
    <2>5. QED
      BY <2>2, <2>3, <2>4
  <1> DEFINE r == JoinedTo(v)
  <1>6. Good(r)
    <2> HIDE DEF D, V
    <2>1. r = CHOOSE f : Good(f)
      BY DEF JoinedTo, e
    <2> HIDE DEF Good, r
    <2>2. QED
      BY <1>5, <2>1
  <1> HIDE DEF E, D, r, V
  <1>7. r[0] = e /\ \A i \in 1..Len(v) : r[i] = E(i, r[i - 1])
    <2>1. 0 \in 0..Len(v) /\ \A i \in 1..Len(v) : i \in 0..Len(v) /\ i # 0
      OBVIOUS
    <2>2. \A i \in 0..Len(v) : r[i] = IF i = 0 THEN e ELSE E(i, r[i - 1])
      BY <1>6, Zenon
    <2>3. QED
      BY <2>1, <2>2
  <1>8. \A i \in 0..Len(v) : r[i] \in V
    <2> HIDE DEF Good
    <2>1. \A i \in 1..Len(v) : r[i - 1] \in V => r[i] \in V
      BY <1>2, <1>7
    <2>2. Len(v) \in Nat /\ r[0] \in V
      BY <1>1, <1>7
    <2>3. QED
      BY <2>1, <2>2, TypedFrom0, Zenon
  <1>9. QED
    BY <1>7, <1>8 DEF E, r, e, V

\* Reading one argument after the other
ArgStep == [s \in Wides |-> [t \in Seq(TailChars) |-> AfterAll(WideStep, s, t)]]
ArgsAfter(s, v) == AfterAll(ArgStep, s, v)

LEMMA ArgReads == \A s \in Wides : Reads(Wides, Seq(TailChars), s, ArgStep)
  <1>1. \A s \in Wides, t \in Seq(TailChars) : AfterAll(WideStep, s, t) \in Wides
    BY WideReads, AfterAllType, Zenon
  <1> DEFINE S == Seq(TailChars)
  <1> HIDE DEF S
  <1>2. \A s \in Wides : [t \in S |-> AfterAll(WideStep, s, t)] \in [S -> Wides]
    BY <1>1 DEF S
  <1>3. ArgStep \in [Wides -> [S -> Wides]]
    BY <1>2 DEF ArgStep, S
  <1>4. QED
    BY <1>3 DEF Reads, S

LEMMA ArgIs ==
  \A s \in Wides, t \in Seq(TailChars) : ArgStep[s][t] = AfterAll(WideStep, s, t)
  BY DEF ArgStep

\* It is the same as reading them joined.
LEMMA ArgsJoined ==
  ASSUME NEW v \in Seq(Seq(TailChars))
  PROVE  WideAfter(Joined(v)) = ArgsAfter(NoWide, v)
  <1> DEFINE J == JoinedTo(v)
             R == Reader(ArgStep, NoWide, v)
             n == Len(v)
             S == Seq(TailChars)
             I == {i \in Int : WideAfter(J[i]) = R[i]}
  <1>1. /\ J[0] = <<>> /\ \A i \in 1..n : J[i] = J[i - 1] \o v[i]
        /\ \A i \in 0..n : J[i] \in Seq(TailChars)
    BY JoinedDef
  <1>2. Reads(Wides, TailChars, NoWide, WideStep) /\ Reads(Wides, S, NoWide, ArgStep)
    BY WideReads, ArgReads, NoWideType
  <1>3. /\ R[0] = NoWide /\ \A i \in 1..n : R[i] = ArgStep[R[i - 1]][v[i]]
        /\ \A i \in 0..n : R[i] \in Wides
    <2> HIDE DEF S
    <2>1. v \in Seq(S)
      BY DEF S
    <2>2. Reads(Wides, S, NoWide, ArgStep)
      BY <1>2
    <2>3. /\ Reader(ArgStep, NoWide, v)[0] = NoWide
          /\ \A i \in 1..Len(v) :
               Reader(ArgStep, NoWide, v)[i] = ArgStep[Reader(ArgStep, NoWide, v)[i - 1]][v[i]]
          /\ \A i \in 0..Len(v) : Reader(ArgStep, NoWide, v)[i] \in Wides
      BY <2>1, <2>2, ReaderDef, Zenon
    <2>4. QED
      BY <2>3
  <1>4. n \in Nat /\ \A i \in 1..n : v[i] \in S /\ i \in 0..n /\ i - 1 \in 0..n
    OBVIOUS
  <1>5. Joined(v) = J[n] /\ ArgsAfter(NoWide, v) = R[n]
    BY JoinedIsLast DEF ArgsAfter, AfterAll
  <1> HIDE DEF J, R, n
  <1>6. WideAfter(J[0]) = R[0]
    <2>1. J[0] = <<>>
      BY <1>1
    <2> DEFINE e == J[0]
    <2>2. e \in Seq(TailChars) /\ Len(e) = 0 /\ Reads(Wides, TailChars, NoWide, WideStep)
      BY <1>2, <2>1, Empty
    <2> HIDE DEF e
    <2>3. AfterAll(WideStep, NoWide, e) = NoWide
      BY <2>2, AfterNone, Zenon
    <2>4. QED
      BY <1>3, <2>3 DEF WideAfter, e
  <1>7. ASSUME NEW i \in 1..n, WideAfter(J[i - 1]) = R[i - 1] PROVE WideAfter(J[i]) = R[i]
    <2> DEFINE a == J[i - 1]
               b == v[i]
    <2>1. a \in Seq(TailChars) /\ b \in Seq(TailChars) /\ J[i] = a \o b /\ R[i - 1] \in Wides
      BY <1>1, <1>3, <1>4
    <2>2. R[i] = AfterAll(WideStep, R[i - 1], b)
      BY <1>3, <2>1, ArgIs
    <2>3. R[i - 1] = AfterAll(WideStep, NoWide, a)
      BY <1>7 DEF WideAfter
    <2> HIDE DEF a, b
    <2>4. AfterAll(WideStep, NoWide, a \o b) = AfterAll(WideStep, AfterAll(WideStep, NoWide, a), b)
      BY <1>2, <2>1, AfterBoth, SMT
    <2>5. QED
      BY <2>1, <2>2, <2>3, <2>4 DEF WideAfter
  <1>8. \A i \in 0..n : i \in I
    <2>1. 0 <= n => 0 \in I
      BY <1>6
    <2>2. ASSUME NEW i \in 0..n - 1, i \in I PROVE i + 1 \in I
      <3>1. i + 1 \in 1..n /\ (i + 1) - 1 = i
        BY <1>4
      <3>2. WideAfter(J[(i + 1) - 1]) = R[(i + 1) - 1]
        BY <2>2, <3>1
      <3>3. WideAfter(J[i + 1]) = R[i + 1]
        BY <1>7, <3>1, <3>2
      <3>4. QED
        BY <3>3
    <2> HIDE DEF I
    <2>3. 0 \in Int /\ n \in Int
      BY <1>4
    <2>4. QED
      BY <2>1, <2>2, <2>3, IntervalClosed, Zenon
  <1>9. n \in 0..n
    BY <1>4
  <1>10. QED
    BY <1>5, <1>8, <1>9

\* One, two and three more characters, and none
LEMMA WideMore ==
  ASSUME NEW t \in Seq(TailChars), NEW x \in TailChars, NEW y \in TailChars
  PROVE  /\ WideAfter(t) \in Wides
         /\ WideAfter(t \o <<x>>) = WideBy(WideAfter(t), x)
         /\ WideAfter(t \o <<x, y>>) = WideBy(WideBy(WideAfter(t), x), y)
  <1>1. Reads(Wides, TailChars, NoWide, WideStep)
    BY WideReads, NoWideType
  <1> DEFINE m == AfterAll(WideStep, NoWide, t)
  <1>2. m \in Wides /\ AfterAll(WideStep, NoWide, t \o <<x>>) = WideStep[m][x]
    BY <1>1, AfterNext, SMT
  <1>3. AfterAll(WideStep, NoWide, t \o <<x, y>>) = WideStep[WideStep[m][x]][y]
    BY <1>1, AfterTwo, SMT
  <1> HIDE DEF m
  <1>4. WideStep[m][x] = WideBy(m, x) /\ WideBy(m, x) \in Wides
    BY <1>2, WideIs, WideType
  <1>5. WideStep[WideBy(m, x)][y] = WideBy(WideBy(m, x), y)
    BY <1>4, WideIs
  <1>6. QED
    BY <1>2, <1>3, <1>4, <1>5 DEF m, WideAfter

LEMMA WideThree ==
  \A t \in Seq(TailChars) : \A x \in TailChars, y \in TailChars, z \in TailChars :
    WideAfter(t \o <<x, y, z>>) = WideBy(WideBy(WideBy(WideAfter(t), x), y), z)
  <1> TAKE t \in Seq(TailChars)
  <1> TAKE x \in TailChars, y \in TailChars, z \in TailChars
  <1> DEFINE u == t \o <<x, y>>
  <1>1. u \in Seq(TailChars) /\ u \o <<z>> = t \o <<x, y, z>>
    BY ThreeOnTop, ZenonT(60)
  <1>2. WideAfter(u) = WideBy(WideBy(WideAfter(t), x), y)
    BY WideMore
  <1> HIDE DEF u
  <1>3. WideAfter(u \o <<z>>) = WideBy(WideAfter(u), z)
    BY <1>1, WideMore
  <1>4. QED
    BY <1>1, <1>2, <1>3

\* What is put around a character is no lead byte, and nothing is put inside of one.
LEMMA CharacterWrites ==
  ASSUME TailTypeOK, NEW c \in TailChars, CharacterStep(c), tail_pc' # "E2BIG"
  PROVE  \/ tail' = tail \o <<c>>
         \/ /\ c # "lead" /\ ~tail_last_c_lead_p
            /\ \/ \E x \in {"bsl", "pct"} : tail' = tail \o <<x, c>>
               \/ tail' = tail \o <<"quo", c, "quo">>
  <1>1. tail_pc = "quoted"
    BY CharacterReads
  <1>2. CASE ArgTrailByte(c) \/ DosOther(c)
    BY <1>1, <1>2 DEF ArgTrailByte, DosOther, Copy
  <1>3. CASE Character(c)
    BY <1>1, <1>3 DEF Character, Escape, Copy, Plain
  <1>4. CASE DosQuote(c)
    BY <1>1, <1>4 DEF DosQuote, Copy, Plain
  <1>5. CASE DosPercent(c)
    BY <1>1, <1>5 DEF DosPercent, Copy, Plain
  <1>6. CASE DosRedirect(c)
    BY <1>1, <1>6 DEF DosRedirect, Copy, Plain
  <1>7. QED
    BY <1>2, <1>3, <1>4, <1>5, <1>6 DEF CharacterStep

\* Reading what is left of the arguments after what is in the tail is reading all of
\* them; and the code knows whether a character is open.
WideInv ==
  tail_pc # "E2BIG" =>
    /\ ArgsAfter(AfterAll(WideStep, WideAfter(tail), arg), args) = ArgsAfter(NoWide, argv)
    /\ WideAfter(tail).at = IF tail_pc = "quoted" THEN PlaceOf(tail_last_c_lead_p) ELSE "first"
    /\ tail_pc = "made" => args = <<>> /\ arg = <<>>

LEMMA WideNothing == \A s \in Wides : AfterAll(WideStep, s, <<>>) = s /\ ArgsAfter(s, <<>>) = s
  <1> TAKE s \in Wides
  <1> DEFINE e == <<>>
             S == Seq(TailChars)
  <1>1. e \in Seq(TailChars) /\ e \in Seq(S) /\ Len(e) = 0
    BY Empty
  <1>2. Reads(Wides, TailChars, s, WideStep) /\ Reads(Wides, S, s, ArgStep)
    BY WideReads, ArgReads
  <1> HIDE DEF e, S
  <1>3. AfterAll(WideStep, s, e) = s
    <2>1. e \in Seq(TailChars) /\ Len(e) = 0
      BY <1>1
    <2>2. Reads(Wides, TailChars, s, WideStep)
      BY <1>2
    <2>3. QED
      BY <2>1, <2>2, AfterNone, Zenon
  <1>4. AfterAll(ArgStep, s, e) = s
    <2>1. e \in Seq(S) /\ Len(e) = 0
      BY <1>1
    <2>2. Reads(Wides, S, s, ArgStep)
      BY <1>2
    <2>3. QED
      BY <2>1, <2>2, AfterNone, Zenon
  <1>5. QED
    BY <1>3, <1>4 DEF ArgsAfter, e

LEMMA WideInvInit == TailTypeOK /\ TailInit => WideInv
  <1> SUFFICES ASSUME TailTypeOK, TailInit PROVE WideInv
    OBVIOUS
  <1>1. tail = <<>> /\ arg = <<>> /\ args = argv /\ tail_pc = "next"
    BY DEF TailInit
  <1>2. WideAfter(<<>>) = NoWide
    BY WideNothing, NoWideType DEF WideAfter
  <1>3. AfterAll(WideStep, NoWide, <<>>) = NoWide
    BY WideNothing, NoWideType
  <1>4. NoWide.at = "first"
    BY DEF NoWide
  <1>5. QED
    BY <1>1, <1>2, <1>3, <1>4, Zenon DEF WideInv

\* Reading on with the first of the arguments, and with the first character of one.
LEMMA ArgsTail ==
  ASSUME NEW s \in Wides, NEW v \in Seq(Seq(TailChars)), v # <<>>
  PROVE  ArgsAfter(s, v) = ArgsAfter(AfterAll(WideStep, s, Head(v)), Tail(v))
  <1> DEFINE S == Seq(TailChars)
  <1>1. Reads(Wides, S, s, ArgStep)
    BY ArgReads
  <1>2. ArgStep[s][Head(v)] = AfterAll(WideStep, s, Head(v))
    BY ArgIs
  <1> HIDE DEF S
  <1>3. v \in Seq(S)
    BY DEF S
  <1>4. AfterAll(ArgStep, s, v) = AfterAll(ArgStep, ArgStep[s][Head(v)], Tail(v))
    BY <1>1, <1>3, AfterFirst, SMT
  <1>5. QED
    BY <1>2, <1>4 DEF ArgsAfter

LEMMA WideTail ==
  ASSUME NEW s \in Wides, NEW t \in Seq(TailChars), t # <<>>
  PROVE  AfterAll(WideStep, s, t) = AfterAll(WideStep, WideBy(s, Head(t)), Tail(t))
  <1>1. Reads(Wides, TailChars, s, WideStep)
    BY WideReads
  <1>2. Head(t) \in TailChars
    OBVIOUS
  <1>3. WideStep[s][Head(t)] = WideBy(s, Head(t))
    BY <1>2, WideIs
  <1>4. AfterAll(WideStep, s, t) = AfterAll(WideStep, WideStep[s][Head(t)], Tail(t))
    BY <1>1, AfterFirst, SMT
  <1>5. QED
    BY <1>3, <1>4

\* A reader of double-byte characters is at the place where a reader of places is.
LEMMA WideAlike ==
  ASSUME NEW s \in Wides, s.at = "first", NEW u \in Seq(TailChars)
  PROVE  \A i \in 0..Len(u) : Reader(WideStep, s, u)[i].at = Reader(Place, "first", u)[i]
  <1> DEFINE W == Reader(WideStep, s, u)
             P == Reader(Place, "first", u)
             B == {i \in 0..Len(u) : W[i].at = P[i]}
  <1>1. /\ W[0] = s
        /\ \A i \in 1..Len(u) : W[i] = WideStep[W[i - 1]][u[i]]
        /\ \A i \in 0..Len(u) : W[i] \in Wides
    <2>1. Reads(Wides, TailChars, s, WideStep)
      BY WideReads
    <2>2. QED
      BY <2>1, ReaderDef, Zenon
  <1>2. /\ P[0] = "first"
        /\ \A i \in 1..Len(u) : P[i] = Place[P[i - 1]][u[i]]
        /\ \A i \in 0..Len(u) : P[i] \in Places
    BY PlaceAlong
  <1> HIDE DEF W, P
  <1>3. 0 <= Len(u) => 0 \in B
    BY <1>1, <1>2
  <1>4. \A i \in 0..Len(u) - 1 : i \in B => i + 1 \in B
    <2> SUFFICES ASSUME NEW i \in 0..Len(u) - 1, i \in B PROVE i + 1 \in B
      OBVIOUS
    <2>1. i + 1 \in 1..Len(u) /\ i \in 0..Len(u) /\ i + 1 \in 0..Len(u) /\ (i + 1) - 1 = i
      OBVIOUS
    <2>2. u[i + 1] \in TailChars
      BY <2>1
    <2>3. W[i + 1] = WideStep[W[i]][u[i + 1]] /\ P[i + 1] = Place[P[i]][u[i + 1]]
      BY <1>1, <1>2, <2>1
    <2>4. WideStep[W[i]][u[i + 1]] = WideBy(W[i], u[i + 1])
      BY <1>1, <2>1, <2>2, WideIs
    <2>5. Place[P[i]][u[i + 1]] = PlaceBy(P[i], u[i + 1])
      BY <1>2, <2>1, <2>2, PlaceIs
    <2>6. W[i].at = P[i] /\ P[i] \in Places
      BY <1>2, <2>1
    <2>7. WideBy(W[i], u[i + 1]).at = PlaceBy(P[i], u[i + 1])
      BY <2>6 DEF WideBy, PlaceBy, Places
    <2>8. QED
      BY <2>1, <2>3, <2>4, <2>5, <2>7
  <1>5. 0 \in Int /\ Len(u) \in Int
    OBVIOUS
  <1>6. \A i \in 0..Len(u) : i \in B
    <2> HIDE DEF B
    <2>1. QED
      BY <1>3, <1>4, <1>5, IntervalClosed, Zenon
  <1>7. QED
    BY <1>6 DEF W, P

\* A whole argument leaves no character open.
LEMMA WideVerbatim ==
  ASSUME NEW t \in Seq(TailChars), NEW u \in Seq(TailChars), WideAfter(t).at = "first",
         Sound("first", u)
  PROVE  /\ WideAfter(t \o u) = AfterAll(WideStep, WideAfter(t), u)
         /\ WideAfter(t \o u).at = "first" /\ WideAfter(t \o u) \in Wides
  <1> DEFINE s == WideAfter(t)
  <1>1. s \in Wides
    <2>1. "quo" \in TailChars
      BY DEF TailChars
    <2>2. QED
      BY <2>1, WideMore
  <1>2. Reads(Wides, TailChars, NoWide, WideStep) /\ Reads(Wides, TailChars, s, WideStep)
    BY <1>1, WideReads, NoWideType
  <1>3. WideAfter(t \o u) = AfterAll(WideStep, s, u)
    <2>1. AfterAll(WideStep, NoWide, t \o u) = AfterAll(WideStep, AfterAll(WideStep, NoWide, t), u)
      BY <1>2, AfterBoth, SMT
    <2>2. QED
      BY <2>1 DEF WideAfter
  <1>4. AfterAll(WideStep, s, u) \in Wides
    <2> HIDE DEF s
    <2>1. QED
      BY <1>2, AfterAllType, Zenon
  <1>5. AfterAll(WideStep, s, u).at = "first"
    <2>1. s.at = "first" /\ Len(u) \in 0..Len(u)
      OBVIOUS
    <2> HIDE DEF s
    <2>2. Reader(WideStep, s, u)[Len(u)].at = Reader(Place, "first", u)[Len(u)]
      BY <1>1, <2>1, WideAlike
    <2>3. QED
      BY <2>2 DEF AfterAll, Sound
  <1>6. QED
    BY <1>3, <1>4, <1>5 DEF s

LEMMA WideArgument ==
  ASSUME TailTypeOK, SoundInv, WideInv, argv' = argv,
         Space \/ Verbatim \/ OpenQuote \/ CloseQuote, tail_pc' # "E2BIG"
  PROVE  WideInv'
  <1>1. tail \in Seq(TailChars) /\ arg \in Seq(TailChars) /\ args \in Seq(Seq(TailChars))
        /\ tail_last_c_lead_p \in BOOLEAN
    BY DEF TailTypeOK
  <1>2. "spc" \in TailChars /\ "quo" \in TailChars
    BY DEF TailChars
  <1>3. /\ WideAfter(tail) \in Wides
        /\ \A x \in TailChars : WideAfter(tail \o <<x>>) = WideBy(WideAfter(tail), x)
    BY <1>1, <1>2, WideMore
  <1>4. tail_pc # "E2BIG"
    BY DEF Space, Verbatim, OpenQuote, CloseQuote
  <1>5. /\ ArgsAfter(AfterAll(WideStep, WideAfter(tail), arg), args) = ArgsAfter(NoWide, argv)
        /\ WideAfter(tail).at = IF tail_pc = "quoted" THEN PlaceOf(tail_last_c_lead_p) ELSE "first"
    BY <1>4 DEF WideInv
  <1> DEFINE s == WideAfter(tail)
  <1>6. ASSUME NEW x \in {"spc", "quo"}, s.at = "first" PROVE WideBy(s, x) = s
    BY <1>3, <1>6 DEF WideBy, Wides
  <1>7. CASE Space
    <2>1. /\ tail_pc = "next" /\ tail_pc' = "begin" /\ tail' = tail \o <<"spc">> /\ args # <<>>
          /\ args' = Tail(args) /\ arg' = Head(args) /\ arg = <<>>
      BY <1>7 DEF Space, Copy, TailTypeOK
    <2>2. s.at = "first"
      BY <1>5, <2>1
    <2>3. WideAfter(tail') = s
      BY <1>2, <1>3, <1>6, <2>1, <2>2
    <2>4. AfterAll(WideStep, s, arg) = s
      BY <1>3, <2>1, WideNothing
    <2>5. ArgsAfter(s, args) = ArgsAfter(AfterAll(WideStep, s, Head(args)), Tail(args))
      BY <1>1, <1>3, <2>1, ArgsTail
    <2> HIDE DEF s
    <2>6. ArgsAfter(AfterAll(WideStep, s, arg'), args') = ArgsAfter(NoWide, argv)
      BY <1>5, <2>1, <2>4, <2>5 DEF s
    <2>7. QED
      BY <2>1, <2>2, <2>3, <2>6 DEF WideInv, WideAfter, ArgsAfter
  <1>8. CASE Verbatim
    <2>1. /\ tail_pc = "begin" /\ tail_pc' = "next" /\ tail' = tail \o arg
          /\ args' = args /\ arg' = <<>>
      BY <1>8 DEF Verbatim, Copy
    <2>2. s.at = "first" /\ Sound("first", arg)
      BY <1>5, <2>1 DEF SoundInv
    <2>3. /\ WideAfter(tail') = AfterAll(WideStep, s, arg)
          /\ WideAfter(tail').at = "first" /\ WideAfter(tail') \in Wides
      BY <1>1, <2>1, <2>2, WideVerbatim
    <2>4. AfterAll(WideStep, WideAfter(tail'), arg') = WideAfter(tail')
      BY <2>1, <2>3, WideNothing
    <2>5. ArgsAfter(AfterAll(WideStep, WideAfter(tail'), arg'), args') = ArgsAfter(NoWide, argv)
      BY <1>5, <2>1, <2>3, <2>4
    <2>6. QED
      BY <2>1, <2>3, <2>5 DEF WideInv, WideAfter, ArgsAfter
  <1>9. CASE OpenQuote
    <2>1. /\ tail_pc = "begin" /\ tail_pc' = "quoted" /\ tail' = tail \o <<"quo">>
          /\ args' = args /\ arg' = arg /\ tail_last_c_lead_p' = FALSE
      BY <1>9 DEF OpenQuote, Copy
    <2>2. s.at = "first"
      BY <1>5, <2>1
    <2>3. WideAfter(tail') = s
      BY <1>2, <1>3, <1>6, <2>1, <2>2
    <2>4. PlaceOf(tail_last_c_lead_p') = "first"
      BY <2>1 DEF PlaceOf
    <2>5. ArgsAfter(AfterAll(WideStep, WideAfter(tail'), arg'), args') = ArgsAfter(NoWide, argv)
      BY <1>5, <2>1, <2>3
    <2>6. WideAfter(tail').at = PlaceOf(tail_last_c_lead_p')
      BY <2>2, <2>3, <2>4
    <2>7. QED
      BY <2>1, <2>5, <2>6 DEF WideInv, WideAfter, ArgsAfter, PlaceOf
  <1>10. CASE CloseQuote
    <2>1. /\ tail_pc = "quoted" /\ tail_pc' = "next" /\ tail' = tail \o <<"quo">>
          /\ args' = args /\ arg' = arg /\ arg = <<>>
      BY <1>10 DEF CloseQuote, Copy
    <2>2. Sound(PlaceOf(tail_last_c_lead_p), arg)
      BY <2>1 DEF SoundInv
    <2>3. PlaceOf(tail_last_c_lead_p) = "first"
      BY <1>1, <2>1, <2>2, PlaceOfType, SoundNone
    <2>4. s.at = "first"
      BY <1>5, <2>1, <2>3
    <2>5. WideAfter(tail') = s
      BY <1>2, <1>3, <1>6, <2>1, <2>4
    <2>6. ArgsAfter(AfterAll(WideStep, WideAfter(tail'), arg'), args') = ArgsAfter(NoWide, argv)
      BY <1>5, <2>1, <2>5
    <2>7. QED
      BY <2>1, <2>4, <2>5, <2>6 DEF WideInv, WideAfter, ArgsAfter
  <1>11. QED
    BY <1>7, <1>8, <1>9, <1>10

LEMMA WideCharacter ==
  ASSUME TailTypeOK, WideInv, NEW c \in TailChars, CharacterStep(c), tail_pc' # "E2BIG"
  PROVE  WideInv'
  <1>1. /\ tail \in Seq(TailChars) /\ arg \in Seq(TailChars) /\ args \in Seq(Seq(TailChars))
        /\ tail_last_c_lead_p \in BOOLEAN
    BY DEF TailTypeOK
  <1>2. "quo" \in TailChars /\ "bsl" \in TailChars /\ "pct" \in TailChars
    BY DEF TailChars
  <1>3. /\ tail_pc = "quoted" /\ tail_pc' = "quoted"
        /\ arg # <<>> /\ c = Head(arg) /\ arg' = Tail(arg) /\ argv' = argv /\ args' = args
        /\ PlaceOf(tail_last_c_lead_p') = PlaceBy(PlaceOf(tail_last_c_lead_p), c)
    BY CharacterReads
  <1> DEFINE s == WideAfter(tail)
             p == PlaceOf(tail_last_c_lead_p)
  <1>4. /\ ArgsAfter(AfterAll(WideStep, s, arg), args) = ArgsAfter(NoWide, argv) /\ s.at = p
    BY <1>3 DEF WideInv
  <1>5. s \in Wides /\ s.at \in Places /\ s = [at |-> s.at, wide |-> s.wide]
    <2>1. s \in Wides
      BY <1>1, <1>2, WideMore
    <2> HIDE DEF s
    <2>2. QED
      BY <2>1 DEF Wides
  <1>6. WideAfter(tail') = WideBy(s, c)
    <2>1. CASE tail' = tail \o <<c>>
      BY <1>1, <2>1, WideMore
    <2>2. ASSUME c # "lead", ~tail_last_c_lead_p
          PROVE  /\ s.at = "first" /\ WideBy(s, c) = s
                 /\ \A x \in {"bsl", "pct", "quo"} : WideBy(s, x) = s
      <3>1. s.at = "first"
        BY <1>4, <2>2 DEF PlaceOf
      <3> HIDE DEF s
      <3>2. QED
        BY <1>5, <2>2, <3>1 DEF WideBy
    <2>3. ASSUME NEW x \in {"bsl", "pct"}, c # "lead", ~tail_last_c_lead_p,
                 tail' = tail \o <<x, c>>
          PROVE  WideAfter(tail') = WideBy(s, c)
      <3>1. x \in TailChars
        BY <1>2
      <3>2. WideAfter(tail') = WideBy(WideBy(s, x), c)
        BY <1>1, <2>3, <3>1, WideMore
      <3> HIDE DEF s
      <3>3. QED
        BY <2>2, <2>3, <3>2
    <2>4. CASE c # "lead" /\ ~tail_last_c_lead_p /\ tail' = tail \o <<"quo", c, "quo">>
      <3>1. WideAfter(tail') = WideBy(WideBy(WideBy(s, "quo"), c), "quo")
        BY <1>1, <1>2, <2>4, WideThree
      <3> HIDE DEF s
      <3>2. QED
        BY <2>2, <2>4, <3>1
    <2>5. QED
      BY <2>1, <2>3, <2>4, CharacterWrites
  <1>7. AfterAll(WideStep, s, arg) = AfterAll(WideStep, WideBy(s, c), Tail(arg))
    BY <1>1, <1>3, <1>5, WideTail
  <1>8. WideBy(s, c).at = PlaceOf(tail_last_c_lead_p')
    <2> HIDE DEF s
    <2>1. QED
      BY <1>3, <1>4, <1>5 DEF WideBy, PlaceBy, Places
  <1>9. ArgsAfter(AfterAll(WideStep, WideAfter(tail'), arg'), args') = ArgsAfter(NoWide, argv)
    BY <1>3, <1>4, <1>6, <1>7
  <1>10. WideAfter(tail').at = PlaceOf(tail_last_c_lead_p')
    BY <1>6, <1>8
  <1>11. QED
    BY <1>3, <1>9, <1>10 DEF WideInv, WideAfter, ArgsAfter, PlaceOf

LEMMA WideInvStep == ASSUME TailTypeOK, SoundInv, WideInv, TailNext PROVE WideInv'
  <1>1. argv' = argv
    BY Given
  <1>2. CASE tail_pc' = "E2BIG"
    BY <1>2 DEF WideInv
  <1>3. CASE tail_pc' # "E2BIG" /\ FinishTail
    <2>1. /\ tail_pc = "next" /\ tail_pc' = "made" /\ args = <<>>
          /\ UNCHANGED <<argv, args, arg, tail>> /\ arg = <<>>
      BY <1>3 DEF FinishTail, given, TailTypeOK
    <2>2. QED
      BY <2>1 DEF WideInv, WideAfter, ArgsAfter
  <1>4. QED
    BY <1>1, <1>2, <1>3, WideArgument, WideCharacter DEF TailNext, CharacterStep

LEMMA WideAllKept == TailTypeOK /\ WideInv => WideKept
  <1> SUFFICES ASSUME TailTypeOK, WideInv, tail_pc = "made"
               PROVE  Wide(tail) = Wide(Joined(argv))
    BY DEF WideKept
  <1>1. /\ tail \in Seq(TailChars) /\ argv \in Seq(Seq(TailChars)) /\ args = <<>> /\ arg = <<>>
        /\ ArgsAfter(AfterAll(WideStep, WideAfter(tail), arg), args) = ArgsAfter(NoWide, argv)
    BY DEF TailTypeOK, WideInv
  <1>2. WideAfter(tail) \in Wides
    <2>1. "quo" \in TailChars
      BY DEF TailChars
    <2>2. QED
      BY <1>1, <2>1, WideMore
  <1>3. WideAfter(tail) = ArgsAfter(NoWide, argv)
    BY <1>1, <1>2, WideNothing
  <1>4. WideAfter(tail) = WideAfter(Joined(argv))
    BY <1>1, <1>3, ArgsJoined
  <1>5. Joined(argv) \in Seq(TailChars)
    <2>1. Len(argv) \in 0..Len(argv)
      BY <1>1
    <2>2. QED
      BY <1>1, <2>1, JoinedIsLast, JoinedDef
  <1>6. QED
    BY <1>1, <1>4, <1>5, WideIsRead

\* For arguments none of which ends in the middle of a character: the second bytes of
\* the double-byte characters in a finished tail are those of the arguments, in order;
\* no quoting comes between the bytes of a character or changes the second, whatever
\* it looks like.
THEOREM WideCharactersKept == ASSUME WellFormedArgs PROVE TailSpec => []WideKept
  <1> DEFINE WInv == IInv /\ SoundInv /\ WideInv
  <1>1. TailInit => WInv
    BY InitInvariant, SoundInit, WideInvInit DEF IInv
  <1>2. WInv /\ [TailNext]_tailVars => WInv'
    <2> SUFFICES ASSUME WInv, [TailNext]_tailVars PROVE WInv'
      OBVIOUS
    <2>1. IInv'
      BY StepInvariant
    <2>2. CASE UNCHANGED tailVars
      BY <2>1, <2>2 DEF tailVars, SoundInv, WideInv, Sound, WideAfter, ArgsAfter
    <2>3. CASE TailNext
      BY <2>1, <2>3, SoundStep, WideInvStep DEF IInv
    <2>4. QED
      BY <2>2, <2>3
  <1>3. WInv => WideKept
    BY WideAllKept DEF IInv
  <1> HIDE DEF WInv
  <1>4. QED
    BY <1>1, <1>2, <1>3, PTL DEF TailSpec

-----------------------------------------------------------------------------
(* A Unix shell.  The words it has taken from the tail so far, the one it  *)
(* is reading and what is left of the arguments are the arguments.         *)

Splits == [words : Seq(Seq(TailChars)), word : Seq(TailChars),
           quoted : BOOLEAN, escaped : BOOLEAN, led : BOOLEAN]
SplitStep == [s \in Splits |-> [c \in TailChars |-> SplitBy(s, c)]]
SplitAfter(t) == AfterAll(SplitStep, NoWords, t)

LEMMA SplitType == \A s \in Splits, c \in TailChars : SplitBy(s, c) \in Splits
  <1> SUFFICES ASSUME NEW s \in Splits, NEW c \in TailChars PROVE SplitBy(s, c) \in Splits
    OBVIOUS
  <1>1. /\ s.words \in Seq(Seq(TailChars)) /\ s.word \in Seq(TailChars)
        /\ s.quoted \in BOOLEAN /\ s.escaped \in BOOLEAN /\ s.led \in BOOLEAN
    BY DEF Splits
  <1>2. Append(s.word, c) \in Seq(TailChars) /\ Append(s.words, s.word) \in Seq(Seq(TailChars))
    BY <1>1
  <1>3. <<>> \in Seq(TailChars)
    BY Empty
  <1>4. Taken(s, c) \in Splits /\ [Taken(s, c) EXCEPT !.led = TRUE] \in Splits
    BY <1>2 DEF Splits, Taken
  <1>5. /\ [s EXCEPT !.escaped = TRUE] \in Splits /\ [s EXCEPT !.quoted = TRUE] \in Splits
        /\ [s EXCEPT !.quoted = FALSE, !.words = Append(@, s.word), !.word = <<>>] \in Splits
    BY <1>2, <1>3 DEF Splits
  <1>6. QED
    BY <1>4, <1>5 DEF SplitBy

LEMMA NoWordsType == NoWords \in Splits
  <1>1. <<>> \in Seq(TailChars) /\ <<>> \in Seq(Seq(TailChars))
    BY Empty
  <1>2. QED
    BY <1>1 DEF NoWords, Splits

LEMMA SplitReads == Reads(Splits, TailChars, NoWords, SplitStep)
  <1>1. SplitStep \in [Splits -> [TailChars -> Splits]]
    BY SplitType DEF SplitStep
  <1>2. QED
    BY <1>1, NoWordsType DEF Reads

LEMMA SplitIs == \A s \in Splits, c \in TailChars : SplitStep[s][c] = SplitBy(s, c)
  BY DEF SplitStep

\* The recursion of SplitWords.
SplitAt(t) ==
  LET after[i \in 0..Len(t)] == IF i = 0 THEN NoWords ELSE SplitBy(after[i - 1], t[i]) IN after

LEMMA SplitIsLast == \A t : SplitWords(t) = SplitAt(t)[Len(t)].words
  BY DEF SplitWords, SplitAt

LEMMA SplitDef ==
  ASSUME NEW t \in Seq(TailChars)
  PROVE  /\ SplitAt(t)[0] = NoWords
         /\ \A i \in 1..Len(t) : SplitAt(t)[i] = SplitBy(SplitAt(t)[i - 1], t[i])
  <1> DEFINE V == Splits
             E(i, v) == SplitBy(v, t[i])
             D == [i \in 1..Len(t) |-> [v \in V |-> E(i, v)]]
             Good(g) == g = [i \in 0..Len(t) |-> IF i = 0 THEN NoWords ELSE E(i, g[i - 1])]
  <1>1. NoWords \in V
    BY NoWordsType
  <1>2. \A i \in 1..Len(t) : \A v \in V : E(i, v) \in V
    BY SplitType
  <1>3. D \in Steps(0, Len(t), V)
    <2> HIDE DEF E, V
    <2>1. D \in [1..Len(t) -> [V -> V]]
      BY <1>2
    <2> HIDE DEF D
    <2>2. QED
      BY <2>1, StepsFrom0
  <1>4. PICK g : g \in Obeying(0, Len(t), V, NoWords, D)
    <2> HIDE DEF D, Good
    <2>1. 0 \in Int /\ Len(t) \in Int
      OBVIOUS
    <2> HIDE DEF V
    <2>2. QED
      BY <1>1, <1>3, <2>1, RecursionDefines, Zenon
  <1>5. Good(g)
    <2> HIDE DEF E, V
    <2>1. \A i \in 1..Len(t) : i - 1 \in 0..Len(t)
      OBVIOUS
    <2>2. g \in [0..Len(t) -> V]
      BY <1>4 DEF Obeying
    <2>3. g[0] = NoWords /\ \A i \in 1..Len(t) : g[i] = D[i][g[i - 1]]
      BY <1>4 DEF Obeying
    <2>4. \A i \in 1..Len(t) : g[i] = E(i, g[i - 1])
      BY <2>1, <2>2, <2>3
    <2> HIDE DEF D
    <2>5. QED
      BY <2>2, <2>3, <2>4
  <1> DEFINE r == SplitAt(t)
  <1>6. Good(r)
    <2> HIDE DEF D, V
    <2>1. r = CHOOSE f : Good(f)
      BY DEF SplitAt
    <2> HIDE DEF Good, r
    <2>2. QED
      BY <1>5, <2>1
  <1> HIDE DEF E, D, r, V
  <1>7. r[0] = NoWords /\ \A i \in 1..Len(t) : r[i] = E(i, r[i - 1])
    <2>1. 0 \in 0..Len(t) /\ \A i \in 1..Len(t) : i \in 0..Len(t) /\ i # 0
      OBVIOUS
    <2>2. \A i \in 0..Len(t) : r[i] = IF i = 0 THEN NoWords ELSE E(i, r[i - 1])
      BY <1>6, Zenon
    <2>3. QED
      BY <2>1, <2>2
  <1>8. QED
    BY <1>7 DEF E, r

LEMMA SplitIsRead == ASSUME NEW t \in Seq(TailChars) PROVE SplitWords(t) = SplitAfter(t).words
  <1> DEFINE R == Reader(SplitStep, NoWords, t)
             W == SplitAt(t)
             n == Len(t)
  <1>1. /\ R[0] = NoWords /\ \A i \in 1..n : R[i] = SplitStep[R[i - 1]][t[i]]
        /\ \A i \in 0..n : R[i] \in Splits
    <2>1. /\ Reader(SplitStep, NoWords, t)[0] = NoWords
          /\ \A i \in 1..Len(t) : Reader(SplitStep, NoWords, t)[i]
                                  = SplitStep[Reader(SplitStep, NoWords, t)[i - 1]][t[i]]
          /\ \A i \in 0..Len(t) : Reader(SplitStep, NoWords, t)[i] \in Splits
      BY SplitReads, ReaderDef, Zenon
    <2>2. QED
      BY <2>1
  <1>2. W[0] = NoWords /\ \A i \in 1..n : W[i] = SplitBy(W[i - 1], t[i])
    BY SplitDef
  <1>3. n \in Nat /\ \A i \in 1..n : t[i] \in TailChars /\ i - 1 \in 0..n
    OBVIOUS
  <1>4. SplitWords(t) = W[n].words /\ SplitAfter(t) = R[n] /\ n \in 0..n
    BY SplitIsLast DEF SplitAfter, AfterAll
  <1> HIDE DEF R, W, n
  <1>5. \A i \in 0..n : R[i] = W[i]
    <2>1. ASSUME NEW i \in 1..n, R[i - 1] = W[i - 1] PROVE R[i] = W[i]
      BY <1>1, <1>2, <1>3, <2>1, SplitIs
    <2>2. R[0] = W[0]
      BY <1>1, <1>2
    <2>3. n \in Nat
      BY <1>3
    <2>4. Alike(n, R, W)
      BY <2>1, <2>2 DEF Alike
    <2>5. QED
      BY <2>3, <2>4, AlikeAgree, Zenon
  <1>6. QED
    BY <1>4, <1>5

LEMMA SplitMore ==
  ASSUME NEW t \in Seq(TailChars), NEW x \in TailChars, NEW y \in TailChars
  PROVE  /\ SplitAfter(t \o <<x>>) = SplitBy(SplitAfter(t), x)
         /\ SplitAfter(t \o <<x, y>>) = SplitBy(SplitBy(SplitAfter(t), x), y)
  <1>1. Reads(Splits, TailChars, NoWords, SplitStep)
    BY SplitReads
  <1> DEFINE m == AfterAll(SplitStep, NoWords, t)
  <1>2. m \in Splits /\ AfterAll(SplitStep, NoWords, t \o <<x>>) = SplitStep[m][x]
    BY <1>1, AfterNext, SMT
  <1>3. AfterAll(SplitStep, NoWords, t \o <<x, y>>) = SplitStep[SplitStep[m][x]][y]
    BY <1>1, AfterTwo, SMT
  <1> HIDE DEF m
  <1>4. SplitStep[m][x] = SplitBy(m, x) /\ SplitBy(m, x) \in Splits
    BY <1>2, SplitIs, SplitType
  <1>5. SplitStep[SplitBy(m, x)][y] = SplitBy(SplitBy(m, x), y)
    BY <1>4, SplitIs
  <1>6. QED
    BY <1>2, <1>3, <1>4, <1>5 DEF m, SplitAfter

\* Between two words, and inside of one in quotes
Between(ws) == [words |-> ws, word |-> <<>>, quoted |-> FALSE, escaped |-> FALSE, led |-> FALSE]
Within(ws, w, b) == [words |-> ws, word |-> w, quoted |-> TRUE, escaped |-> FALSE, led |-> b]

\* What the characters make of a word
LEMMA BetweenBlank == \A ws : SplitBy(Between(ws), "spc") = Between(ws)
  BY DEF SplitBy, Taken, Between

LEMMA WordBegins == \A ws : SplitBy(Between(ws), "quo") = Within(ws, <<>>, FALSE)
  BY DEF SplitBy, Taken, Between, Within

LEMMA WordEnds == \A ws, w : SplitBy(Within(ws, w, FALSE), "quo") = Between(Append(ws, w))
  <1> TAKE ws, w
  <1> DEFINE s == Within(ws, w, FALSE)
  <1>1. SplitBy(s, "quo")
        = [s EXCEPT !.quoted = FALSE, !.words = Append(s.words, s.word), !.word = <<>>]
    BY DEF SplitBy, Within
  <1>2. QED
    BY <1>1 DEF Between, Within

LEMMA SecondTaken == \A ws, w, c : SplitBy(Within(ws, w, TRUE), c) = Within(ws, Append(w, c), FALSE)
  <1> TAKE ws, w, c
  <1>1. SplitBy(Within(ws, w, TRUE), c) = Taken(Within(ws, w, TRUE), c)
    BY DEF SplitBy, Within
  <1>2. QED
    BY <1>1 DEF Taken, Within

LEMMA LeadTaken ==
  \A ws, w : SplitBy(Within(ws, w, FALSE), "lead") = Within(ws, Append(w, "lead"), TRUE)
  <1> TAKE ws, w
  <1>1. SplitBy(Within(ws, w, FALSE), "lead")
        = [Taken(Within(ws, w, FALSE), "lead") EXCEPT !.led = TRUE]
    BY DEF SplitBy, Within
  <1>2. QED
    BY <1>1 DEF Taken, Within

LEMMA OtherTaken ==
  \A ws, w, c : c \notin {"lead", "bsl", "quo"} =>
                 SplitBy(Within(ws, w, FALSE), c) = Within(ws, Append(w, c), FALSE)
  <1> TAKE ws, w, c
  <1> HAVE c \notin {"lead", "bsl", "quo"}
  <1>1. SplitBy(Within(ws, w, FALSE), c) = Taken(Within(ws, w, FALSE), c)
    BY DEF SplitBy, Within
  <1>2. QED
    BY <1>1 DEF Taken, Within

LEMMA EscapedTaken ==
  \A ws, w, c : SplitBy(SplitBy(Within(ws, w, FALSE), "bsl"), c) = Within(ws, Append(w, c), FALSE)
  <1> TAKE ws, w, c
  <1>1. SplitBy(Within(ws, w, FALSE), "bsl") = [Within(ws, w, FALSE) EXCEPT !.escaped = TRUE]
    BY DEF SplitBy, Within
  <1>2. QED
    BY <1>1 DEF SplitBy, Taken, Within

\* The first element of b may as well be the last of a.
LEMMA MoveHead ==
  ASSUME NEW S, NEW a \in Seq(S), NEW b \in Seq(S), b # <<>>
  PROVE  Append(a, Head(b)) \o Tail(b) = a \o b
  <1> DEFINE c == Append(a, Head(b))
             d == Tail(b)
             u == c \o d
             v == a \o b
             n == Len(a)
             m == Len(b)
  <1>1. /\ c \in Seq(S) /\ Len(c) = n + 1 /\ c[n + 1] = b[1] /\ \A i \in 1..n : c[i] = a[i]
    OBVIOUS
  <1>2. /\ d \in Seq(S) /\ Len(d) = m - 1 /\ \A i \in 1..m - 1 : d[i] = b[i + 1]
    OBVIOUS
  <1>3. n \in Nat /\ m \in Nat /\ m >= 1
    OBVIOUS
  <1>4. /\ v \in Seq(S) /\ Len(v) = n + m
        /\ \A i \in 1..n + m : v[i] = IF i <= n THEN a[i] ELSE b[i - n]
    BY ConcatProperties
  <1> HIDE DEF c, d
  <1>5. /\ u \in Seq(S) /\ Len(u) = Len(c) + Len(d)
        /\ \A i \in 1..Len(c) + Len(d) : u[i] = IF i <= Len(c) THEN c[i] ELSE d[i - Len(c)]
    BY <1>1, <1>2, ConcatProperties
  <1> HIDE DEF u, v, n, m
  <1>6. Len(u) = n + m
    BY <1>1, <1>2, <1>3, <1>5
  <1>7. \A i \in 1..n + m : u[i] = v[i]
    <2> TAKE i \in 1..n + m
    <2>1. i \in 1..Len(c) + Len(d)
      BY <1>1, <1>2, <1>3
    <2>2. CASE i <= n
      BY <1>1, <1>3, <1>4, <1>5, <2>1, <2>2
    <2>3. CASE i = n + 1
      <3>1. i - n = 1 /\ ~(i <= n) /\ i <= Len(c)
        BY <1>1, <1>3, <2>3
      <3>2. QED
        BY <1>1, <1>4, <1>5, <2>1, <2>3, <3>1
    <2>4. CASE i > n + 1
      <3>1. /\ ~(i <= Len(c)) /\ ~(i <= n) /\ i - Len(c) \in 1..m - 1 /\ (i - Len(c)) + 1 = i - n
        BY <1>1, <1>3, <2>4
      <3>2. QED
        BY <1>2, <1>4, <1>5, <2>1, <3>1
    <2>5. QED
      BY <1>3, <2>2, <2>3, <2>4
  <1>8. u = v
    BY <1>4, <1>5, <1>6, <1>7, SeqEqual
  <1>9. QED
    BY <1>8 DEF u, v, c, d

\* Arguments of the kind that is put in quotes
AllQuoted == \A i \in 1..Len(argv) : NeedsQuotes(argv[i])
Words == Seq(Seq(TailChars))
Text == Seq(TailChars)

\* The words taken, the word that is read and the rest are the arguments.
WordsInv ==
  program = "unix shell" /\ AllQuoted /\ tail_pc # "E2BIG" =>
    /\ tail_pc \in {"next", "made"} =>
         \E ws \in Words : SplitAfter(tail) = Between(ws) /\ ws \o args = argv
    /\ tail_pc = "made" => args = <<>>
    /\ tail_pc = "begin" =>
         \E ws \in Words : SplitAfter(tail) = Between(ws) /\ Append(ws, arg) \o args = argv
    /\ tail_pc = "quoted" =>
         \E ws \in Words : \E w \in Text :
           /\ SplitAfter(tail) = Within(ws, w, tail_last_c_lead_p)
           /\ Append(ws, w \o arg) \o args = argv

LEMMA WithNothing ==
  ASSUME NEW S, NEW s \in Seq(S)
  PROVE  s \o <<>> = s /\ <<>> \o s = s
  <1> DEFINE e == <<>>
  <1>1. e \in Seq(S) /\ Len(e) = 0
    BY Empty
  <1>2. Len(s) \in Nat
    OBVIOUS
  <1> HIDE DEF e
  <1>3. s \o e = s
    <2>1. /\ s \o e \in Seq(S) /\ Len(s \o e) = Len(s) + Len(e)
          /\ \A i \in 1..Len(s) + Len(e) :
               (s \o e)[i] = IF i <= Len(s) THEN s[i] ELSE e[i - Len(s)]
      BY <1>1, ConcatProperties
    <2>2. \A i \in 1..Len(s) : (s \o e)[i] = s[i]
      BY <1>1, <1>2, <2>1
    <2>3. QED
      BY <1>1, <1>2, <2>1, <2>2, SeqEqual
  <1>4. e \o s = s
    <2>1. /\ e \o s \in Seq(S) /\ Len(e \o s) = Len(e) + Len(s)
          /\ \A i \in 1..Len(e) + Len(s) :
               (e \o s)[i] = IF i <= Len(e) THEN e[i] ELSE s[i - Len(e)]
      BY <1>1, ConcatProperties
    <2>2. \A i \in 1..Len(s) : (e \o s)[i] = s[i]
      BY <1>1, <1>2, <2>1
    <2>3. QED
      BY <1>1, <1>2, <2>1, <2>2, SeqEqual
  <1>5. QED
    BY <1>3, <1>4 DEF e

\* The argument that follows ws is one of the arguments.
LEMMA IsArgument ==
  ASSUME NEW a \in Words, NEW x \in Text, NEW b \in Words
  PROVE  /\ Len(a) + 1 \in 1..Len(Append(a, x) \o b)
         /\ (Append(a, x) \o b)[Len(a) + 1] = x
  <1> DEFINE c == Append(a, x)
             n == Len(a)
             S == Text
  <1>1. a \in Seq(S) /\ x \in S /\ b \in Seq(S)
    BY DEF Words, Text
  <1> HIDE DEF S
  <1>2. c \in Seq(S) /\ Len(c) = n + 1 /\ c[n + 1] = x /\ n \in Nat /\ Len(b) \in Nat
    BY <1>1
  <1> HIDE DEF c
  <1>3. /\ Len(c \o b) = Len(c) + Len(b)
        /\ \A i \in 1..Len(c) + Len(b) : (c \o b)[i] = IF i <= Len(c) THEN c[i] ELSE b[i - Len(c)]
    BY <1>1, <1>2, ConcatProperties
  <1> HIDE DEF n
  <1>4. n + 1 \in 1..Len(c) + Len(b) /\ n + 1 <= Len(c)
    BY <1>2
  <1>5. (c \o b)[n + 1] = x
    BY <1>2, <1>3, <1>4
  <1>6. QED
    BY <1>3, <1>4, <1>5 DEF c, n

LEMMA AppendType == \A S : \A s \in Seq(S) : \A x \in S : Append(s, x) \in Seq(S)
  OBVIOUS

LEMMA WordsInvInit == TailTypeOK /\ TailInit => WordsInv
  <1> SUFFICES ASSUME TailTypeOK, TailInit PROVE WordsInv
    OBVIOUS
  <1>1. tail = <<>> /\ args = argv /\ tail_pc = "next" /\ argv \in Words
    BY DEF TailInit, TailTypeOK, Words
  <1> DEFINE e == <<>>
  <1>2. e \in Seq(TailChars) /\ Len(e) = 0 /\ e \in Words
    BY Empty DEF Words
  <1>3. e \o argv = argv
    BY <1>1, WithNothing DEF Words
  <1>4. NoWords = Between(e)
    BY DEF NoWords, Between
  <1>5. tail = e
    BY <1>1
  <1> HIDE DEF e
  <1>6. AfterAll(SplitStep, NoWords, e) = NoWords
    <2>1. e \in Seq(TailChars)
      BY <1>2
    <2>2. Len(e) = 0
      BY <1>2
    <2>3. QED
      BY <2>1, <2>2, SplitReads, AfterNone, Zenon
  <1>7. SplitAfter(tail) = Between(e) /\ e \o args = argv
    BY <1>1, <1>3, <1>4, <1>5, <1>6 DEF SplitAfter
  <1>8. QED
    BY <1>1, <1>2, <1>7 DEF WordsInv

LEMMA WordsArgument ==
  ASSUME TailTypeOK, SoundInv, WordsInv, program = "unix shell", AllQuoted,
         UNCHANGED <<program, argv>>,
         Space \/ Verbatim \/ OpenQuote \/ CloseQuote, tail_pc' # "E2BIG"
  PROVE  WordsInv'
  <1>1. /\ tail \in Seq(TailChars) /\ arg \in Seq(TailChars) /\ args \in Words
        /\ tail_last_c_lead_p \in BOOLEAN
    BY DEF TailTypeOK, Words
  <1>2. "spc" \in TailChars /\ "quo" \in TailChars
    BY DEF TailChars
  <1>3. \A x \in TailChars : SplitAfter(tail \o <<x>>) = SplitBy(SplitAfter(tail), x)
    BY <1>1, SplitMore
  <1>4. tail_pc # "E2BIG"
    BY DEF Space, Verbatim, OpenQuote, CloseQuote
  <1>5. CASE Space
    <2>1. /\ tail_pc = "next" /\ tail_pc' = "begin" /\ tail' = tail \o <<"spc">> /\ args # <<>>
          /\ args' = Tail(args) /\ arg' = Head(args)
      BY <1>5 DEF Space, Copy
    <2>2. PICK ws \in Words : SplitAfter(tail) = Between(ws) /\ ws \o args = argv
      BY <1>4, <2>1 DEF WordsInv
    <2>3. SplitAfter(tail') = Between(ws)
      BY <1>2, <1>3, <2>1, <2>2, BetweenBlank
    <2>4. Append(ws, arg') \o args' = argv
      <3>1. ws \in Words /\ args \in Words /\ args # <<>>
        BY <1>1, <2>1
      <3>2. Append(ws, Head(args)) \o Tail(args) = ws \o args
        BY <3>1, MoveHead DEF Words
      <3>3. QED
        BY <2>1, <2>2, <3>2
    <2>5. QED
      BY <2>1, <2>3, <2>4 DEF WordsInv, SplitAfter
  <1>6. CASE Verbatim
    <2>1. tail_pc = "begin" /\ ~NeedsQuotes(arg)
      BY <1>6 DEF Verbatim
    <2>2. PICK ws \in Words : Append(ws, arg) \o args = argv
      BY <1>4, <2>1 DEF WordsInv
    <2>3. \E i \in 1..Len(argv) : argv[i] = arg
      <3>1. ws \in Words /\ arg \in Text /\ args \in Words
        BY <1>1 DEF Text
      <3> DEFINE v == Append(ws, arg) \o args
      <3>2. Len(ws) + 1 \in 1..Len(v) /\ v[Len(ws) + 1] = arg
        BY <3>1, IsArgument
      <3> HIDE DEF v
      <3>3. v = argv
        BY <2>2 DEF v
      <3>4. QED
        BY <3>2, <3>3
    <2>4. QED
      BY <2>1, <2>3 DEF AllQuoted
  <1>7. CASE OpenQuote
    <2>1. /\ tail_pc = "begin" /\ tail_pc' = "quoted" /\ tail' = tail \o <<"quo">>
          /\ args' = args /\ arg' = arg /\ tail_last_c_lead_p' = FALSE
      BY <1>7 DEF OpenQuote, Copy
    <2>2. PICK ws \in Words : SplitAfter(tail) = Between(ws) /\ Append(ws, arg) \o args = argv
      BY <1>4, <2>1 DEF WordsInv
    <2>3. SplitAfter(tail') = Within(ws, <<>>, FALSE)
      BY <1>2, <1>3, <2>1, <2>2, WordBegins
    <2>4. <<>> \o arg = arg
      BY <1>1, WithNothing
    <2>5. <<>> \in Text
      BY Empty DEF Text
    <2>6. /\ SplitAfter(tail') = Within(ws, <<>>, tail_last_c_lead_p')
          /\ Append(ws, <<>> \o arg') \o args' = argv
      BY <2>1, <2>2, <2>3, <2>4
    <2>7. QED
      BY <2>1, <2>5, <2>6 DEF WordsInv, SplitAfter
  <1>8. CASE CloseQuote
    <2>1. /\ tail_pc = "quoted" /\ tail_pc' = "next" /\ tail' = tail \o <<"quo">>
          /\ args' = args /\ arg' = arg /\ arg = <<>>
      BY <1>8 DEF CloseQuote, Copy
    <2>2. Sound(PlaceOf(tail_last_c_lead_p), arg)
      BY <2>1 DEF SoundInv
    <2>3. PlaceOf(tail_last_c_lead_p) = "first"
      BY <1>1, <2>1, <2>2, PlaceOfType, SoundNone
    <2>4. tail_last_c_lead_p = FALSE
      BY <1>1, <2>3 DEF PlaceOf
    <2>5. PICK ws \in Words : \E w \in Text :
            /\ SplitAfter(tail) = Within(ws, w, tail_last_c_lead_p)
            /\ Append(ws, w \o arg) \o args = argv
      BY <1>4, <2>1 DEF WordsInv
    <2>6. PICK w \in Text : /\ SplitAfter(tail) = Within(ws, w, tail_last_c_lead_p)
                            /\ Append(ws, w \o arg) \o args = argv
      BY <2>5
    <2>7. w \o <<>> = w
      BY WithNothing DEF Text
    <2>8. SplitAfter(tail') = Between(Append(ws, w)) /\ Append(ws, w) \in Words
      <3>1. SplitAfter(tail') = SplitBy(Within(ws, w, FALSE), "quo")
        BY <1>2, <1>3, <2>1, <2>4, <2>6
      <3>2. SplitAfter(tail') = Between(Append(ws, w))
        BY <3>1, WordEnds, Zenon
      <3>3. Append(ws, w) \in Words
        BY AppendType DEF Words, Text
      <3>4. QED
        BY <3>2, <3>3
    <2>9. Append(ws, w) \o args' = argv
      BY <2>1, <2>6, <2>7
    <2>10. QED
      BY <2>1, <2>8, <2>9 DEF WordsInv, SplitAfter
  <1>9. QED
    BY <1>5, <1>6, <1>7, <1>8

LEMMA WordsCharacter ==
  ASSUME TailTypeOK, WordsInv, program = "unix shell", AllQuoted,
         NEW c \in TailChars, CharacterStep(c), tail_pc' # "E2BIG"
  PROVE  WordsInv'
  <1>1. tail \in Seq(TailChars) /\ arg \in Seq(TailChars) /\ tail_last_c_lead_p \in BOOLEAN
    BY DEF TailTypeOK
  <1>2. "quo" \in TailChars /\ "bsl" \in TailChars
    BY DEF TailChars
  <1>3. /\ tail_pc = "quoted" /\ tail_pc' = "quoted"
        /\ arg # <<>> /\ c = Head(arg) /\ arg' = Tail(arg)
        /\ program' = program /\ argv' = argv /\ args' = args
    BY CharacterReads
  <1>4. PICK ws \in Words : \E w \in Text :
          /\ SplitAfter(tail) = Within(ws, w, tail_last_c_lead_p)
          /\ Append(ws, w \o arg) \o args = argv
    BY <1>3 DEF WordsInv
  <1>5. PICK w \in Text : /\ SplitAfter(tail) = Within(ws, w, tail_last_c_lead_p)
                          /\ Append(ws, w \o arg) \o args = argv
    BY <1>4
  <1> DEFINE x == Append(w, c)
  <1>6. SplitAfter(tail') = Within(ws, x, tail_last_c_lead_p')
    <2>1. CASE ArgTrailByte(c)
      <3>1. tail' = tail \o <<c>> /\ tail_last_c_lead_p = TRUE /\ tail_last_c_lead_p' = FALSE
        BY <1>1, <1>3, <2>1 DEF ArgTrailByte, Copy
      <3>2. SplitAfter(tail') = SplitBy(Within(ws, w, TRUE), c)
        BY <1>1, <1>5, <3>1, SplitMore
      <3>3. SplitAfter(tail') = Within(ws, x, FALSE)
        BY <3>2, SecondTaken, Zenon
      <3>4. QED
        BY <3>1, <3>3
    <2>2. CASE Character(c)
      <3>1. tail_last_c_lead_p = FALSE /\ tail_last_c_lead_p' = (c = "lead")
        BY <1>1, <2>2 DEF Character, Plain
      <3>2. CASE c \in {"quo", "bsl"}
        <4>1. tail' = tail \o <<"bsl", c>>
          BY <1>3, <2>2, <3>2 DEF Character, Escape, Copy
        <4>2. SplitAfter(tail') = SplitBy(SplitBy(Within(ws, w, FALSE), "bsl"), c)
          <5>1. SplitAfter(tail \o <<"bsl", c>>) = SplitBy(SplitBy(SplitAfter(tail), "bsl"), c)
            BY <1>1, <1>2, SplitMore
          <5>2. SplitAfter(tail) = Within(ws, w, FALSE)
            BY <1>5, <3>1
          <5>3. QED
            BY <4>1, <5>1, <5>2
        <4>3. SplitAfter(tail') = Within(ws, x, FALSE)
          BY <4>2, EscapedTaken, Zenon
        <4>4. tail_last_c_lead_p' = FALSE
          BY <3>1, <3>2
        <4>5. QED
          BY <4>3, <4>4
      <3>3. CASE c \notin {"quo", "bsl"}
        <4>1. tail' = tail \o <<c>>
          BY <1>3, <2>2, <3>3 DEF Character, Copy
        <4>2. SplitAfter(tail') = SplitBy(Within(ws, w, FALSE), c)
          BY <1>1, <1>5, <3>1, <4>1, SplitMore
        <4>3. CASE c = "lead"
          <5>1. SplitAfter(tail') = Within(ws, x, TRUE)
            BY <4>2, <4>3, LeadTaken, Zenon
          <5>2. tail_last_c_lead_p' = TRUE
            BY <3>1, <4>3
          <5>3. QED
            BY <5>1, <5>2
        <4>4. CASE c # "lead"
          <5>1. c \notin {"lead", "bsl", "quo"}
            BY <3>3, <4>4
          <5>2. SplitAfter(tail') = Within(ws, x, FALSE)
            BY <4>2, <5>1, OtherTaken, Zenon
          <5>3. tail_last_c_lead_p' = FALSE
            BY <3>1, <4>4
          <5>4. QED
            BY <5>2, <5>3
        <4>5. QED
          BY <4>3, <4>4
      <3>4. QED
        BY <3>2, <3>3
    <2>3. CASE DosQuote(c) \/ DosPercent(c) \/ DosRedirect(c) \/ DosOther(c)
      BY <2>3 DEF DosQuote, DosPercent, DosRedirect, DosOther, dos_shell, DosShells
    <2>4. QED
      BY <2>1, <2>2, <2>3 DEF CharacterStep
  <1>7. x \o arg' = w \o arg /\ x \in Text
    <2>1. w \in Seq(TailChars)
      BY DEF Text
    <2>2. Append(w, Head(arg)) \o Tail(arg) = w \o arg
      BY <1>1, <1>3, <2>1, MoveHead
    <2>3. Append(w, c) \in Text
      BY AppendType DEF Text
    <2>4. x \o arg' = Append(w, Head(arg)) \o Tail(arg)
      BY <1>3
    <2>5. QED
      BY <2>2, <2>3, <2>4
  <1> HIDE DEF x
  <1>8. Append(ws, x \o arg') \o args' = argv
    BY <1>3, <1>5, <1>7
  <1>9. QED
    BY <1>3, <1>6, <1>7, <1>8 DEF WordsInv, SplitAfter

LEMMA WordsInvStep == ASSUME TailTypeOK, SoundInv, WordsInv, TailNext PROVE WordsInv'
  <1>1. UNCHANGED <<program, argv>>
    BY Given
  <1>2. (program = "unix shell" /\ AllQuoted) \/ WordsInv'
    <2>1. AllQuoted' => AllQuoted
      BY <1>1 DEF AllQuoted, NeedsQuotes
    <2>2. QED
      BY <1>1, <2>1 DEF WordsInv
  <1>3. CASE tail_pc' = "E2BIG"
    BY <1>3 DEF WordsInv
  <1>4. CASE FinishTail
    <2>1. /\ tail_pc = "next" /\ tail_pc' = "made" /\ args = <<>>
          /\ UNCHANGED <<program, argv, args, arg, tail>>
      BY <1>4 DEF FinishTail, given
    <2>2. AllQuoted' => AllQuoted
      BY <1>1 DEF AllQuoted, NeedsQuotes
    <2>3. QED
      BY <2>1, <2>2 DEF WordsInv, SplitAfter
  <1>5. QED
    BY <1>1, <1>2, <1>3, <1>4, WordsArgument, WordsCharacter DEF TailNext, CharacterStep

LEMMA AllWordsRecovered == TailTypeOK /\ WordsInv => WordsRecovered
  <1> SUFFICES ASSUME TailTypeOK, WordsInv, tail_pc = "made", program = "unix shell", AllQuoted
               PROVE  SplitWords(tail) = argv
    BY DEF WordsRecovered, AllQuoted
  <1>1. tail \in Seq(TailChars) /\ args = <<>>
    BY DEF TailTypeOK, WordsInv
  <1>2. PICK ws \in Words : SplitAfter(tail) = Between(ws) /\ ws \o args = argv
    BY DEF WordsInv
  <1>3. ws \o <<>> = ws
    BY WithNothing DEF Words
  <1>4. SplitWords(tail) = ws
    <2>1. SplitWords(tail) = Between(ws).words
      BY <1>1, <1>2, SplitIsRead
    <2>2. QED
      BY <2>1 DEF Between
  <1>5. QED
    BY <1>1, <1>2, <1>3, <1>4

\* A Unix shell takes exactly the arguments from a finished tail, when they are of the
\* kind that is quoted and none ends in the middle of a character: any number of any
\* length, with blanks, quotes and backslashes in them.
THEOREM ShellGetsTheArguments == ASSUME WellFormedArgs PROVE TailSpec => []WordsRecovered
  <1> DEFINE WInv == IInv /\ SoundInv /\ WordsInv
  <1>1. TailInit => WInv
    BY InitInvariant, SoundInit, WordsInvInit DEF IInv
  <1>2. WInv /\ [TailNext]_tailVars => WInv'
    <2> SUFFICES ASSUME WInv, [TailNext]_tailVars PROVE WInv'
      OBVIOUS
    <2>1. IInv'
      BY StepInvariant
    <2>2. CASE UNCHANGED tailVars
      BY <2>1, <2>2 DEF tailVars, SoundInv, WordsInv, Sound, SplitAfter, AllQuoted, NeedsQuotes
    <2>3. CASE TailNext
      BY <2>1, <2>3, SoundStep, WordsInvStep DEF IInv
    <2>4. QED
      BY <2>2, <2>3
  <1>3. WInv => WordsRecovered
    BY AllWordsRecovered DEF IInv
  <1> HIDE DEF WInv
  <1>4. QED
    BY <1>1, <1>2, <1>3, PTL DEF TailSpec

-----------------------------------------------------------------------------
(* DefaultFcbs: what the FCBs are parsed from.                             *)

\* The recursion of Boundary: where it begins, and each step.
BoundaryAt(t, j, b) == ~b \/ t[j - 1] # "lead" \/ t[j] = "cr"
Begins(t, i0, i) ==
  LET begins[j \in i0..i] == IF j = i0 THEN TRUE ELSE BoundaryAt(t, j, begins[j - 1])
  IN  begins

LEMMA BoundaryIsLast == \A t, i0, i : Boundary(t, i0, i) = Begins(t, i0, i)[i]
  BY DEF Boundary, Begins, BoundaryAt

\* It defines what it says.
LEMMA BeginsDef ==
  ASSUME NEW t, NEW i0 \in Int, NEW i \in Int, i0 <= i
  PROVE  /\ Begins(t, i0, i)[i0] = TRUE
         /\ \A j \in i0 + 1..i : Begins(t, i0, i)[j] = BoundaryAt(t, j, Begins(t, i0, i)[j - 1])
  <1> DEFINE E(j, b) == BoundaryAt(t, j, b)
             D == [j \in i0 + 1..i |-> [b \in BOOLEAN |-> E(j, b)]]
             Good(g) == g = [j \in i0..i |-> IF j = i0 THEN TRUE ELSE E(j, g[j - 1])]
  <1>1. D \in Steps(i0, i, BOOLEAN)
    <2>1. \A j \in i0 + 1..i : \A b \in BOOLEAN : E(j, b) \in BOOLEAN
      BY DEF BoundaryAt
    <2> HIDE DEF E
    <2>2. D \in [i0 + 1..i -> [BOOLEAN -> BOOLEAN]]
      BY <2>1
    <2> HIDE DEF D
    <2>3. QED
      BY <2>2 DEF Steps
  <1>2. PICK g : g \in Obeying(i0, i, BOOLEAN, TRUE, D)
    <2> HIDE DEF D, Good
    <2>1. TRUE \in BOOLEAN
      OBVIOUS
    <2>2. QED
      BY <1>1, <2>1, RecursionDefines, Zenon
  <1>3. Good(g)
    <2> HIDE DEF E
    <2>1. g \in [i0..i -> BOOLEAN] /\ g[i0] = TRUE
          /\ \A j \in i0 + 1..i : g[j] = D[j][g[j - 1]]
      BY <1>2 DEF Obeying
    <2>2. \A j \in i0 + 1..i : g[j - 1] \in BOOLEAN
      BY <2>1
    <2>3. \A j \in i0 + 1..i : g[j] = E(j, g[j - 1])
      BY <2>1, <2>2
    <2>4. \A j \in i0..i : j = i0 \/ j \in i0 + 1..i
      OBVIOUS
    <2> HIDE DEF D
    <2>5. QED
      BY <2>1, <2>3, <2>4
  <1> DEFINE r == Begins(t, i0, i)
  <1>4. Good(r)
    <2> HIDE DEF D, E
    <2>1. r = CHOOSE f : Good(f)
      BY DEF Begins, E
    <2> HIDE DEF Good, r
    <2>2. QED
      BY <1>3, <2>1
  <1> HIDE DEF E, D, r
  <1>5. r[i0] = TRUE /\ \A j \in i0 + 1..i : r[j] = E(j, r[j - 1])
    <2>1. i0 \in i0..i /\ \A j \in i0 + 1..i : j \in i0..i /\ j # i0
      OBVIOUS
    <2>2. \A j \in i0..i : r[j] = IF j = i0 THEN TRUE ELSE E(j, r[j - 1])
      BY <1>4, Zenon
    <2>3. QED
      BY <2>1, <2>2, Zenon
  <1>6. QED
    BY <1>5 DEF E, r

\* The same of Boundary, one byte further.
LEMMA BoundaryDef ==
  ASSUME NEW t, NEW i0 \in Int, NEW i \in Int, i0 <= i
  PROVE  /\ Boundary(t, i0, i0) = TRUE
         /\ Boundary(t, i0, i + 1) = BoundaryAt(t, i + 1, Boundary(t, i0, i))
  <1> DEFINE A == Begins(t, i0, i)
             B == Begins(t, i0, i + 1)
             C == Begins(t, i0, i0)
  <1>1. /\ A[i0] = TRUE /\ \A j \in i0 + 1..i : A[j] = BoundaryAt(t, j, A[j - 1])
        /\ B[i0] = TRUE /\ \A j \in i0 + 1..i + 1 : B[j] = BoundaryAt(t, j, B[j - 1])
        /\ C[i0] = TRUE
    <2>1. i + 1 \in Int /\ i0 <= i + 1 /\ i0 <= i0
      OBVIOUS
    <2>2. A[i0] = TRUE /\ \A j \in i0 + 1..i : A[j] = BoundaryAt(t, j, A[j - 1])
      BY BeginsDef
    <2>3. B[i0] = TRUE /\ \A j \in i0 + 1..i + 1 : B[j] = BoundaryAt(t, j, B[j - 1])
      BY <2>1, BeginsDef
    <2>4. C[i0] = TRUE
      BY <2>1, BeginsDef
    <2>5. QED
      BY <2>2, <2>3, <2>4
  <1> HIDE DEF A, B, C
  <1>2. \A j \in i0..i : A[j] = B[j]
    <2>1. i0 <= i => A[i0] = B[i0]
      BY <1>1
    <2>2. ASSUME NEW j \in i0 + 1..i, A[j - 1] = B[j - 1] PROVE A[j] = B[j]
      <3>1. j \in i0 + 1..i + 1
        OBVIOUS
      <3>2. QED
        BY <1>1, <2>2, <3>1
    <2>3. QED
      BY <2>1, <2>2, RecursionAgrees
  <1>3. B[i + 1] = BoundaryAt(t, i + 1, A[i])
    <2>1. i + 1 \in i0 + 1..i + 1 /\ (i + 1) - 1 = i /\ i \in i0..i
      OBVIOUS
    <2>2. QED
      BY <1>1, <1>2, <2>1
  <1>4. QED
    BY <1>1, <1>3, BoundaryIsLast DEF A, B, C

\* What was read of the first argument has no end of the tail in it and, if the flags
\* started cleared, no delimiter; then last_c_lead_p says whether the present byte is
\* the second of its character.
FcbInv ==
  /\ fcb_tail \in Tails /\ fcb_p \in 1..Len(fcb_tail) /\ mid \in 1..fcb_p
  /\ fcb_pc \in {"first", "skip", "second", "made", "ENOMEM"}
  /\ garbage \in BOOLEAN /\ done_arg1 \in BOOLEAN /\ fcb_last_c_lead_p \in BOOLEAN
  /\ \A i \in mid..fcb_p - 1 : fcb_tail[i] # "cr"
  /\ ~garbage =>
       /\ fcb_pc = "first" => ~done_arg1 /\ ~fcb_last_c_lead_p /\ mid = fcb_p
       /\ fcb_pc = "skip" =>
            /\ ~done_arg1
            /\ fcb_tail[fcb_p] # "cr" =>
                 (fcb_last_c_lead_p <=> ~Boundary(fcb_tail, mid, fcb_p))
            /\ \A i \in mid..fcb_p - 1 : ~Delimiter(i)
       /\ fcb_pc \in {"second", "made"} => AtSecond

LEMMA FcbInvInit == FcbInit => FcbInv
  <1> SUFFICES ASSUME FcbInit PROVE FcbInv
    OBVIOUS
  <1>1. fcb_tail \in Seq(FcbChars) /\ fcb_tail # <<>>
    BY FcbsAssumption DEF FcbInit, Ended
  <1>2. 1 \in 1..Len(fcb_tail) /\ 1 \in 1..1 /\ 1..1 - 1 = {}
    BY <1>1
  <1>3. garbage \in BOOLEAN /\ (~garbage => ~done_arg1 /\ ~fcb_last_c_lead_p)
    BY DEF FcbInit
  <1>4. QED
    BY <1>2, <1>3 DEF FcbInv, FcbInit

LEMMA FirstStep == FcbInv /\ First => FcbInv'
  <1> SUFFICES ASSUME FcbInv, First PROVE FcbInv'
    OBVIOUS
  <1>1. UNCHANGED <<fcb_tail, garbage, done_arg1, fcb_last_c_lead_p>> /\ fcb_pc = "first"
    BY DEF First
  <1>2. fcb_tail \in Seq(FcbChars)
    BY FcbsAssumption DEF FcbInv
  <1>3. CASE fcb_pc' = "ENOMEM" /\ UNCHANGED <<fcb_p, mid>>
    BY <1>1, <1>3 DEF FcbInv
  <1>4. CASE \E j \in fcb_p..Len(fcb_tail) :
               FcbParsed(fcb_p, j) /\ fcb_p' = j /\ mid' = j /\ fcb_pc' = "skip"
    <2> PICK j \in fcb_p..Len(fcb_tail) : fcb_p' = j /\ mid' = j /\ fcb_pc' = "skip"
      BY <1>4
    <2>1. j \in 1..Len(fcb_tail) /\ j \in 1..j /\ j..j - 1 = {} /\ j \in Int /\ j <= j
      BY <1>2 DEF FcbInv
    <2>2. Boundary(fcb_tail, j, j) = TRUE
      BY <2>1, BoundaryDef
    <2>3. QED
      BY <1>1, <2>1, <2>2 DEF FcbInv
  <1>5. QED
    BY <1>3, <1>4 DEF First

LEMMA SkipStep == FcbInv /\ SkipOn => FcbInv'
  <1> SUFFICES ASSUME FcbInv, SkipOn PROVE FcbInv'
    OBVIOUS
  <1>1. UNCHANGED <<fcb_tail, garbage, mid>> /\ fcb_pc = "skip"
    BY DEF SkipOn
  <1>2. /\ fcb_tail \in Seq(FcbChars) /\ Len(fcb_tail) \in Nat
        /\ fcb_tail[Len(fcb_tail)] = "cr" /\ fcb_p \in 1..Len(fcb_tail) /\ mid \in 1..fcb_p
    BY FcbsAssumption DEF FcbInv, Ended
  <1>3. done_arg1' \in BOOLEAN /\ fcb_last_c_lead_p' \in BOOLEAN
    BY DEF SkipOn, FcbInv
  <1>4. CASE done_arg1'
    <2>1. fcb_pc' = "second" /\ UNCHANGED fcb_p
      BY <1>4 DEF SkipOn
    <2>2. ~garbage => AtSecond
      BY <1>1, <1>4 DEF SkipOn, FcbInv, AtSecond, Delimiter
    <2>3. AtSecond => AtSecond'
      BY <1>1, <2>1 DEF AtSecond, Delimiter
    <2>4. QED
      BY <1>1, <1>3, <2>1, <2>2, <2>3 DEF FcbInv
  <1>5. CASE ~done_arg1'
    <2>1. fcb_pc' = "skip" /\ fcb_p' = fcb_p + 1 /\ ~done_arg1 /\ fcb_tail[fcb_p] # "cr"
      BY <1>1, <1>5 DEF SkipOn, FcbInv
    <2>2. fcb_p + 1 \in 1..Len(fcb_tail) /\ mid \in 1..fcb_p + 1
          /\ mid \in Int /\ fcb_p \in Int /\ mid <= fcb_p /\ (fcb_p + 1) - 1 = fcb_p
      BY <1>2, <2>1
    <2>3. \A i \in mid..fcb_p : fcb_tail[i] # "cr"
      BY <2>1, <2>2 DEF FcbInv
    <2>4. /\ Boundary(fcb_tail, mid, mid) = TRUE
          /\ Boundary(fcb_tail, mid, fcb_p + 1)
               = BoundaryAt(fcb_tail, fcb_p + 1, Boundary(fcb_tail, mid, fcb_p))
      BY <2>2, BoundaryDef
    <2>5. ASSUME ~garbage
          PROVE  /\ fcb_tail[fcb_p + 1] # "cr" =>
                      (fcb_last_c_lead_p' <=> ~Boundary(fcb_tail, mid, fcb_p + 1))
                 /\ \A i \in mid..fcb_p : ~Delimiter(i)
      <3>1. /\ fcb_last_c_lead_p <=> ~Boundary(fcb_tail, mid, fcb_p)
            /\ \A i \in mid..fcb_p - 1 : ~Delimiter(i)
        BY <1>1, <2>1, <2>5 DEF FcbInv
      <3>2. ~Delimiter(fcb_p)
        BY <1>5, <2>1, <3>1 DEF SkipOn, Delimiter
      <3>3. \A i \in mid..fcb_p : ~Delimiter(i)
        BY <2>2, <3>1, <3>2
      <3>4. fcb_last_c_lead_p' <=> ~fcb_last_c_lead_p /\ fcb_tail[fcb_p] = "lead"
        BY <2>1 DEF SkipOn
      <3>5. fcb_tail[fcb_p + 1] # "cr" =>
              (fcb_last_c_lead_p' <=> ~Boundary(fcb_tail, mid, fcb_p + 1))
        <4> DEFINE b == Boundary(fcb_tail, mid, fcb_p)
                   c == Boundary(fcb_tail, mid, fcb_p + 1)
        <4>1. c <=> (~b \/ fcb_tail[fcb_p] # "lead" \/ fcb_tail[fcb_p + 1] = "cr")
          <5>1. c <=> (~b \/ fcb_tail[(fcb_p + 1) - 1] # "lead" \/ fcb_tail[fcb_p + 1] = "cr")
            BY <2>4, Zenon DEF BoundaryAt
          <5>2. fcb_tail[(fcb_p + 1) - 1] = fcb_tail[fcb_p]
            BY <2>2
          <5> HIDE DEF b, c
          <5>3. QED
            BY <5>1, <5>2
        <4>2. fcb_last_c_lead_p <=> ~b
          BY <3>1
        <4> HIDE DEF b, c
        <4>3. fcb_tail[fcb_p + 1] # "cr" => (fcb_last_c_lead_p' <=> ~c)
          BY <3>4, <4>1, <4>2, Zenon
        <4>4. QED
          BY <4>3 DEF c
      <3>6. QED
        BY <3>3, <3>5
    <2>6. \A i : Delimiter(i)' <=> Delimiter(i)
      BY <1>1 DEF Delimiter
    <2>7. QED
      BY <1>1, <1>3, <1>5, <2>1, <2>2, <2>3, <2>5, <2>6 DEF FcbInv
  <1>6. QED
    BY <1>4, <1>5

LEMMA FcbInvNext == FcbInv /\ [FcbNext]_fcbVars => FcbInv'
  <1> SUFFICES ASSUME FcbInv, [FcbNext]_fcbVars PROVE FcbInv'
    OBVIOUS
  <1>1. CASE SecondFcb
    <2>1. fcb_pc = "second" /\ fcb_pc' \in {"made", "ENOMEM"}
          /\ UNCHANGED <<fcb_tail, garbage, fcb_p, mid, done_arg1, fcb_last_c_lead_p>>
      BY <1>1 DEF SecondFcb
    <2>2. QED
      BY <2>1 DEF FcbInv, AtSecond, Delimiter
  <1>2. CASE UNCHANGED fcbVars
    BY <1>2 DEF FcbInv, AtSecond, Delimiter, fcbVars
  <1>3. QED
    BY <1>1, <1>2, FirstStep, SkipStep DEF FcbNext

\* No byte after the tail is read; and the second FCB is parsed from what follows the
\* first argument if the two flags happen to start cleared.
THEOREM FcbsAlwaysFollowTail == FcbSpec => []FcbsFollowTail
  <1>1. FcbInv => FcbsFollowTail
    BY DEF FcbInv, FcbsFollowTail, StopsInTail, SecondFollowsFirst
  <1>2. QED
    BY <1>1, FcbInvInit, FcbInvNext, PTL DEF FcbSpec

-----------------------------------------------------------------------------
(* Environment: what is read of a block, byte by byte.                     *)

Names == Seq(PartChars) \ {<<>>}
Bytes == Seq(EnvChars)
Readings == [strings : Seq(Bytes), string : Bytes, ended : BOOLEAN]
ReadStep == [r \in Readings |-> [c \in EnvChars |-> ReadByte(r, c)]]
ReadAfter(r, blk) == AfterAll(ReadStep, r, blk)

\* After the strings w, and within the next of them, s; and after them all
Having(w, s) == [strings |-> w, string |-> s, ended |-> FALSE]
EndedWith(w) == [strings |-> w, string |-> <<>>, ended |-> TRUE]

LEMMA NoBytes == <<>> \in Bytes /\ <<>> \in Seq(Bytes) /\ Len(<<>>) = 0
  BY EmptySeq DEF Bytes

LEMMA OfBytes ==
  /\ \A b \in Bytes : Len(b) \in Nat /\ \A i \in 1..Len(b) : b[i] \in EnvChars
  /\ \A b \in Bytes, c \in EnvChars : Append(b, c) \in Bytes
  /\ \A w \in Seq(Bytes), b \in Bytes : Append(w, b) \in Seq(Bytes)
  BY DEF Bytes

LEMMA ReadType == \A r \in Readings, c \in EnvChars : ReadByte(r, c) \in Readings
  <1> SUFFICES ASSUME NEW r \in Readings, NEW c \in EnvChars PROVE ReadByte(r, c) \in Readings
    OBVIOUS
  <1>1. r.strings \in Seq(Bytes) /\ r.string \in Bytes /\ r.ended \in BOOLEAN
    BY DEF Readings
  <1>2. Append(r.string, c) \in Bytes /\ Append(r.strings, r.string) \in Seq(Bytes)
    BY <1>1, OfBytes
  <1>3. /\ [r EXCEPT !.string = Append(@, c)] \in Readings /\ [r EXCEPT !.ended = TRUE] \in Readings
        /\ [r EXCEPT !.strings = Append(@, r.string), !.string = <<>>] \in Readings
    BY <1>2, NoBytes DEF Readings
  <1>4. QED
    BY <1>3 DEF ReadByte

LEMMA NothingType == Nothing \in Readings
  BY NoBytes DEF Nothing, Readings

LEMMA ReadReads == \A r \in Readings : Reads(Readings, EnvChars, r, ReadStep)
  <1>1. ReadStep \in [Readings -> [EnvChars -> Readings]]
    BY ReadType DEF ReadStep
  <1>2. QED
    BY <1>1 DEF Reads

LEMMA ReadIs == \A r \in Readings, c \in EnvChars : ReadStep[r][c] = ReadByte(r, c)
  BY DEF ReadStep

\* The recursion of Read.
ReadAt(t) ==
  LET read[i \in 0..Len(t)] == IF i = 0 THEN Nothing ELSE ReadByte(read[i - 1], t[i]) IN read

LEMMA ReadIsLast == \A t : Read(t) = ReadAt(t)[Len(t)]
  BY DEF Read, ReadAt

LEMMA ReadDef ==
  ASSUME NEW t \in Bytes
  PROVE  /\ ReadAt(t)[0] = Nothing
         /\ \A i \in 1..Len(t) : ReadAt(t)[i] = ReadByte(ReadAt(t)[i - 1], t[i])
  <1> DEFINE V == Readings
             E(i, v) == ReadByte(v, t[i])
             D == [i \in 1..Len(t) |-> [v \in V |-> E(i, v)]]
             Good(g) == g = [i \in 0..Len(t) |-> IF i = 0 THEN Nothing ELSE E(i, g[i - 1])]
  <1>1. Nothing \in V
    BY NothingType
  <1>2. \A i \in 1..Len(t) : \A v \in V : E(i, v) \in V
    BY ReadType, OfBytes
  <1>3. D \in Steps(0, Len(t), V)
    <2> HIDE DEF E, V
    <2>1. D \in [1..Len(t) -> [V -> V]]
      BY <1>2
    <2> HIDE DEF D
    <2>2. QED
      BY <2>1, StepsFrom0
  <1>4. PICK g : g \in Obeying(0, Len(t), V, Nothing, D)
    <2> HIDE DEF D, Good
    <2>1. 0 \in Int /\ Len(t) \in Int
      BY OfBytes
    <2> HIDE DEF V
    <2>2. QED
      BY <1>1, <1>3, <2>1, RecursionDefines, Zenon
  <1>5. Good(g)
    <2> HIDE DEF E, V
    <2>1. \A i \in 1..Len(t) : i - 1 \in 0..Len(t)
      BY OfBytes
    <2>2. g \in [0..Len(t) -> V]
      BY <1>4 DEF Obeying
    <2>3. g[0] = Nothing /\ \A i \in 1..Len(t) : g[i] = D[i][g[i - 1]]
      BY <1>4, OfBytes DEF Obeying
    <2>4. \A i \in 1..Len(t) : g[i] = E(i, g[i - 1])
      BY <2>1, <2>2, <2>3
    <2> HIDE DEF D
    <2>5. \A i \in 0..Len(t) : i = 0 \/ i \in 1..Len(t)
      BY OfBytes
    <2>6. QED
      BY <2>2, <2>3, <2>4, <2>5
  <1> DEFINE r == ReadAt(t)
  <1>6. Good(r)
    <2> HIDE DEF D, V
    <2>1. r = CHOOSE f : Good(f)
      BY DEF ReadAt
    <2> HIDE DEF Good, r
    <2>2. QED
      BY <1>5, <2>1
  <1> HIDE DEF E, D, r, V
  <1>7. r[0] = Nothing /\ \A i \in 1..Len(t) : r[i] = E(i, r[i - 1])
    <2>1. 0 \in 0..Len(t) /\ \A i \in 1..Len(t) : i \in 0..Len(t) /\ i # 0
      BY OfBytes
    <2>2. \A i \in 0..Len(t) : r[i] = IF i = 0 THEN Nothing ELSE E(i, r[i - 1])
      BY <1>6, Zenon
    <2>3. QED
      BY <2>1, <2>2
  <1>8. QED
    BY <1>7 DEF E, r

\* A reading of t, position by position.
ReadTo(t) == Reader(ReadStep, Nothing, t)

LEMMA ReadToDef ==
  ASSUME NEW t \in Bytes
  PROVE  /\ ReadTo(t)[0] = Nothing
         /\ \A i \in 1..Len(t) : ReadTo(t)[i] = ReadByte(ReadTo(t)[i - 1], t[i])
         /\ \A i \in 0..Len(t) : ReadTo(t)[i] \in Readings
  <1>1. t \in Seq(EnvChars) /\ Reads(Readings, EnvChars, Nothing, ReadStep)
    BY ReadReads, NothingType DEF Bytes
  <1>2. /\ Reader(ReadStep, Nothing, t)[0] = Nothing
        /\ \A i \in 1..Len(t) : Reader(ReadStep, Nothing, t)[i]
                                = ReadStep[Reader(ReadStep, Nothing, t)[i - 1]][t[i]]
        /\ \A i \in 0..Len(t) : Reader(ReadStep, Nothing, t)[i] \in Readings
    BY <1>1, ReaderDef, Zenon
  <1>3. \A i \in 1..Len(t) : i - 1 \in 0..Len(t) /\ t[i] \in EnvChars
    BY <1>1
  <1>4. QED
    BY <1>2, <1>3, ReadIs DEF ReadTo

LEMMA ReadIsRead == ASSUME NEW t \in Bytes PROVE Read(t) = ReadTo(t)[Len(t)]
  <1> DEFINE R == ReadTo(t)
             W == ReadAt(t)
             n == Len(t)
  <1>1. R[0] = Nothing /\ \A i \in 1..n : R[i] = ReadByte(R[i - 1], t[i])
    BY ReadToDef
  <1>2. W[0] = Nothing /\ \A i \in 1..n : W[i] = ReadByte(W[i - 1], t[i])
    BY ReadDef
  <1>3. n \in Nat /\ n \in 0..n
    BY OfBytes
  <1>4. Read(t) = W[n]
    BY ReadIsLast
  <1> HIDE DEF R, W, n
  <1>5. \A i \in 0..n : R[i] = W[i]
    <2>1. \A i \in 1..n : R[i - 1] = W[i - 1] => R[i] = W[i]
      BY <1>1, <1>2
    <2>2. R[0] = W[0]
      BY <1>1, <1>2
    <2>3. Alike(n, R, W)
      BY <2>1, <2>2 DEF Alike
    <2>4. QED
      BY <1>3, <2>3, AlikeAgree, Zenon
  <1>6. QED
    BY <1>3, <1>4, <1>5 DEF R, n

LEMMA NameOfBytes ==
  ASSUME NEW s \in Names
  PROVE  /\ s \in Bytes /\ Len(s) \in Nat /\ Len(s) >= 1
         /\ \A i \in 1..Len(s) : s[i] \in EnvChars /\ s[i] # "nul"
         /\ NulEnded(s) \in Bytes /\ Len(NulEnded(s)) = Len(s) + 1
         /\ \A i \in 1..Len(s) : NulEnded(s)[i] = s[i]
         /\ NulEnded(s)[Len(s) + 1] = "nul"
  <1>1. s \in Seq(PartChars) /\ s # <<>> /\ PartChars \subseteq EnvChars
    BY DEF Names, EnvChars
  <1>2. s \in Bytes
    BY <1>1, SeqMonotonic DEF Bytes
  <1>3. Len(s) \in Nat /\ Len(s) >= 1 /\ \A i \in 1..Len(s) : s[i] \in PartChars
    BY <1>1
  <1>4. "nul" \in EnvChars /\ "nul" \notin PartChars
    BY DEF EnvChars, PartChars
  <1>5. /\ NulEnded(s) \in Bytes /\ Len(NulEnded(s)) = Len(s) + 1
        /\ \A i \in 1..Len(s) : NulEnded(s)[i] = s[i]
        /\ NulEnded(s)[Len(s) + 1] = "nul"
    BY <1>2, <1>4, AppendProperties DEF NulEnded, Bytes
  <1>6. QED
    BY <1>1, <1>2, <1>3, <1>4, <1>5

LEMMA OneMore ==
  ASSUME NEW t \in Bytes, NEW i \in 0..Len(t) - 1
  PROVE  Append(SubSeq(t, 1, i), t[i + 1]) = SubSeq(t, 1, i + 1)
  <1>1. t \in Seq(EnvChars) /\ Len(t) \in Nat /\ 1 \in 1..Len(t) /\ i + 1 \in 1..Len(t)
        /\ (i + 1) - 1 = i /\ t[i + 1] \in EnvChars
    BY DEF Bytes
  <1>2. SubSeq(t, 1, i + 1) = SubSeq(t, 1, (i + 1) - 1) \o <<t[i + 1]>>
    BY <1>1, SubSeqRecursiveSecond
  <1>3. SubSeq(t, 1, i) \in Seq(EnvChars)
    BY <1>1
  <1>4. QED
    BY <1>1, <1>2, <1>3, AppendIsConcat

LEMMA CharacterRead ==
  \A w, x, y : y # "nul" => ReadByte(Having(w, x), y) = Having(w, Append(x, y))
  <1> TAKE w, x, y
  <1> HAVE y # "nul"
  <1>1. ReadByte(Having(w, x), y) = [Having(w, x) EXCEPT !.string = Append(@, y)]
    BY DEF ReadByte, Having
  <1>2. QED
    BY <1>1 DEF Having

\* A string and its null are read as one string more.
LEMMA StringRead ==
  ASSUME NEW w \in Seq(Bytes), NEW s \in Names
  PROVE  ReadAfter(Having(w, <<>>), NulEnded(s)) = Having(Append(w, s), <<>>)
  <1> DEFINE c == Having(w, <<>>)
             R == Reader(ReadStep, c, s)
             n == Len(s)
             I == {i \in Int : R[i] = Having(w, SubSeq(s, 1, i))}
  <1>1. s \in Seq(EnvChars) /\ n \in Nat /\ n >= 1 /\ "nul" \in EnvChars
        /\ \A i \in 1..n : s[i] \in EnvChars /\ s[i] # "nul"
    BY NameOfBytes DEF Bytes, EnvChars
  <1>2. c \in Readings /\ Reads(Readings, EnvChars, c, ReadStep)
    BY NoBytes, ReadReads DEF Having, Readings
  <1>3. /\ R[0] = c /\ \A i \in 1..n : R[i] = ReadByte(R[i - 1], s[i])
        /\ \A i \in 0..n : R[i] \in Readings
    <2> HIDE DEF c
    <2>1. /\ Reader(ReadStep, c, s)[0] = c
          /\ \A i \in 1..Len(s) :
               Reader(ReadStep, c, s)[i] = ReadStep[Reader(ReadStep, c, s)[i - 1]][s[i]]
          /\ \A i \in 0..Len(s) : Reader(ReadStep, c, s)[i] \in Readings
      BY <1>1, <1>2, ReaderDef, Zenon
    <2>2. \A i \in 1..n : i - 1 \in 0..n
      BY <1>1
    <2>3. QED
      BY <1>1, <2>1, <2>2, ReadIs
  <1>4. 0 \in I
    <2>1. SubSeq(s, 1, 0) = <<>>
      BY <1>1, SubSeqEmpty
    <2> HIDE DEF R
    <2>2. R[0] = Having(w, SubSeq(s, 1, 0))
      BY <1>3, <2>1, Zenon
    <2>3. QED
      BY <2>2
  <1>5. ASSUME NEW i \in 0..n - 1, i \in I PROVE i + 1 \in I
    <2>1. i + 1 \in 1..n /\ (i + 1) - 1 = i /\ i + 1 \in Int
      BY <1>1
    <2>2. /\ R[i] = Having(w, SubSeq(s, 1, i)) /\ R[i + 1] = ReadByte(R[i], s[i + 1])
          /\ s[i + 1] # "nul"
      BY <1>1, <1>3, <1>5, <2>1
    <2> HIDE DEF R
    <2>3. R[i + 1] = Having(w, Append(SubSeq(s, 1, i), s[i + 1]))
      BY <2>2, CharacterRead
    <2>4. Append(SubSeq(s, 1, i), s[i + 1]) = SubSeq(s, 1, i + 1)
      BY NameOfBytes, OneMore
    <2>5. QED
      BY <2>1, <2>3, <2>4
  <1>6. n \in I
    <2>1. 0 \in Int /\ n \in Int /\ n \in 0..n
      BY <1>1
    <2> HIDE DEF I, n
    <2>2. \A i \in 0..n : i \in I
      BY <1>4, <1>5, <2>1, IntervalClosed
    <2>3. QED
      BY <2>1, <2>2
  <1>7. R[n] = Having(w, s)
    <2>1. SubSeq(s, 1, n) = s
      BY <1>1, SubSeqFull
    <2> HIDE DEF R, n
    <2>2. QED
      BY <1>6, <2>1
  <1>8. AfterAll(ReadStep, c, s) = Having(w, s)
    BY <1>7 DEF AfterAll
  <1> HIDE DEF c, R, n, I
  <1>9. /\ AfterAll(ReadStep, c, s \o <<"nul">>) = ReadStep[AfterAll(ReadStep, c, s)]["nul"]
        /\ AfterAll(ReadStep, c, s) \in Readings
    BY <1>1, <1>2, AfterNext, SMT
  <1>10. AfterAll(ReadStep, c, s \o <<"nul">>) = ReadByte(Having(w, s), "nul")
    BY <1>1, <1>8, <1>9, ReadIs
  <1>11. ReadByte(Having(w, s), "nul") = Having(Append(w, s), <<>>)
    BY DEF ReadByte, Having, Names
  <1>12. NulEnded(s) = s \o <<"nul">>
    BY <1>1, AppendIsConcat DEF NulEnded
  <1>13. QED
    BY <1>10, <1>11, <1>12 DEF ReadAfter, c

-----------------------------------------------------------------------------
(* Environment: the block.                                                 *)

BlockStep == [b \in Bytes |-> [s \in Names |-> b \o NulEnded(s)]]
BlockTo(t) == Reader(BlockStep, <<>>, t)
BlockOf(t) == BlockTo(t)[Len(t)]

LEMMA BlockToDef ==
  ASSUME NEW t \in Seq(Names)
  PROVE  /\ BlockTo(t)[0] = <<>>
         /\ \A i \in 1..Len(t) : BlockTo(t)[i] = BlockTo(t)[i - 1] \o NulEnded(t[i])
         /\ \A i \in 0..Len(t) : BlockTo(t)[i] \in Bytes
  <1>1. \A b \in Bytes, s \in Names : b \o NulEnded(s) \in Bytes
    <2> TAKE b \in Bytes, s \in Names
    <2>1. NulEnded(s) \in Bytes
      BY NameOfBytes
    <2>2. QED
      BY <2>1, ConcatProperties DEF Bytes
  <1>2. BlockStep \in [Bytes -> [Names -> Bytes]]
    <2> DEFINE B == Bytes
               N == Names
    <2> HIDE DEF B, N
    <2>1. BlockStep = [b \in B |-> [s \in N |-> b \o NulEnded(s)]]
      BY DEF BlockStep, B, N
    <2>2. \A b \in B, s \in N : b \o NulEnded(s) \in B
      BY <1>1 DEF B, N
    <2>3. \A b \in B : [s \in N |-> b \o NulEnded(s)] \in [N -> B]
      BY <2>2
    <2>4. BlockStep \in [B -> [N -> B]]
      BY <2>1, <2>3
    <2>5. QED
      BY <2>4 DEF B, N
  <1> DEFINE e == <<>>
  <1>3. Reads(Bytes, Names, e, BlockStep)
    BY <1>2, NoBytes DEF Reads
  <1> HIDE DEF e
  <1>4. /\ Reader(BlockStep, e, t)[0] = e
        /\ \A i \in 1..Len(t) : Reader(BlockStep, e, t)[i]
                                = BlockStep[Reader(BlockStep, e, t)[i - 1]][t[i]]
        /\ \A i \in 0..Len(t) : Reader(BlockStep, e, t)[i] \in Bytes
    BY <1>3, ReaderDef, Zenon
  <1>5. \A i \in 1..Len(t) : i - 1 \in 0..Len(t) /\ t[i] \in Names
    OBVIOUS
  <1>6. \A b \in Bytes, s \in Names : BlockStep[b][s] = b \o NulEnded(s)
    BY DEF BlockStep
  <1>7. QED
    BY <1>4, <1>5, <1>6 DEF BlockTo, e

\* What is read of the block are the strings.
LEMMA BlockRead ==
  ASSUME NEW t \in Seq(Names)
  PROVE  \A i \in 0..Len(t) : ReadAfter(Nothing, BlockTo(t)[i]) = Having(SubSeq(t, 1, i), <<>>)
  <1> DEFINE B == BlockTo(t)
             n == Len(t)
             I == {i \in Int : ReadAfter(Nothing, B[i]) = Having(SubSeq(t, 1, i), <<>>)}
  <1>1. /\ B[0] = <<>> /\ \A i \in 1..n : B[i] = B[i - 1] \o NulEnded(t[i])
        /\ \A i \in 0..n : B[i] \in Bytes
    BY BlockToDef
  <1>2. n \in Nat /\ \A i \in 1..n : t[i] \in Names
    OBVIOUS
  <1>3. Reads(Readings, EnvChars, Nothing, ReadStep)
    BY ReadReads, NothingType
  <1> HIDE DEF B
  <1>4. 0 \in I
    <2>1. SubSeq(t, 1, 0) = <<>>
      BY SubSeqEmpty
    <2> DEFINE e == B[0]
    <2>2. e \in Seq(EnvChars) /\ Len(e) = 0
      BY <1>1, NoBytes DEF Bytes
    <2> HIDE DEF e
    <2>3. AfterAll(ReadStep, Nothing, e) = Nothing
      BY <1>3, <2>2, AfterNone, Zenon
    <2>4. Nothing = Having(<<>>, <<>>)
      BY DEF Nothing, Having
    <2>5. ReadAfter(Nothing, B[0]) = Having(SubSeq(t, 1, 0), <<>>)
      BY <2>1, <2>3, <2>4, Zenon DEF e, ReadAfter
    <2>6. QED
      BY <2>5
  <1>5. ASSUME NEW i \in 0..n - 1, i \in I PROVE i + 1 \in I
    <2> DEFINE w == SubSeq(t, 1, i)
               s == t[i + 1]
               b == B[i]
               u == NulEnded(s)
    <2>1. i + 1 \in 1..n /\ (i + 1) - 1 = i /\ i + 1 \in Int /\ i \in 0..n
      BY <1>2
    <2>2. s \in Names /\ b \in Seq(EnvChars) /\ B[i + 1] = b \o u /\ u \in Seq(EnvChars)
      BY <1>1, <1>2, <2>1, NameOfBytes DEF Bytes
    <2>3. AfterAll(ReadStep, Nothing, b) = Having(w, <<>>)
      BY <1>5 DEF ReadAfter
    <2>4. w \in Seq(Names) /\ Append(w, s) = SubSeq(t, 1, i + 1)
      <3>1. 1 \in 1..n
        BY <1>2, <2>1
      <3>2. SubSeq(t, 1, i + 1) = SubSeq(t, 1, (i + 1) - 1) \o <<t[i + 1]>>
        BY <2>1, <3>1, SubSeqRecursiveSecond
      <3>3. w \in Seq(Names)
        BY <2>1
      <3>4. QED
        BY <2>1, <2>2, <3>2, <3>3, AppendIsConcat
    <2>5. w \in Seq(Bytes)
      <3>1. Names \subseteq Bytes
        BY NameOfBytes
      <3>2. QED
        BY <2>4, <3>1, SeqMonotonic
    <2> HIDE DEF w, s, b, u
    <2>6. AfterAll(ReadStep, Nothing, b \o u) = AfterAll(ReadStep, AfterAll(ReadStep, Nothing, b), u)
      BY <1>3, <2>2, AfterBoth, SMT
    <2>7. AfterAll(ReadStep, Having(w, <<>>), u) = Having(Append(w, s), <<>>)
      BY <2>2, <2>5, StringRead DEF u, ReadAfter
    <2>8. ReadAfter(Nothing, B[i + 1]) = Having(SubSeq(t, 1, i + 1), <<>>)
      BY <2>2, <2>3, <2>4, <2>6, <2>7 DEF ReadAfter
    <2>9. QED
      BY <2>1, <2>8
  <1>6. \A i \in 0..n : i \in I
    <2>1. 0 \in Int /\ n \in Int
      BY <1>2
    <2> HIDE DEF I, n
    <2>2. QED
      BY <1>4, <1>5, <2>1, IntervalClosed
  <1>7. QED
    BY <1>6 DEF B

\* The recursion of SizeOfStrings.
SizesTo(t) == LET size[n \in 0..Len(t)] == IF n = 0 THEN 0 ELSE size[n - 1] + Len(t[n]) + 1
              IN  size

LEMMA SizeIsLast == SizeOfStrings = SizesTo(envp)[Len(envp)]
  BY DEF SizeOfStrings, SizesTo

LEMMA SizesDef ==
  ASSUME NEW t \in Seq(Names)
  PROVE  /\ SizesTo(t)[0] = 0
         /\ \A i \in 1..Len(t) : SizesTo(t)[i] = SizesTo(t)[i - 1] + Len(t[i]) + 1
         /\ \A i \in 0..Len(t) : SizesTo(t)[i] \in Nat
  <1> DEFINE E(i, v) == v + Len(t[i]) + 1
             D == [i \in 1..Len(t) |-> [v \in Nat |-> E(i, v)]]
             Good(g) == g = [i \in 0..Len(t) |-> IF i = 0 THEN 0 ELSE E(i, g[i - 1])]
  <1>1. 0 \in Nat /\ Len(t) \in Nat
    OBVIOUS
  <1>2. \A i \in 1..Len(t) : \A v \in Nat : E(i, v) \in Nat
    <2> TAKE i \in 1..Len(t)
    <2> TAKE v \in Nat
    <2>1. t[i] \in Names
      OBVIOUS
    <2>2. Len(t[i]) \in Nat
      BY <2>1, NameOfBytes
    <2>3. QED
      BY <2>2
  <1>3. D \in Steps(0, Len(t), Nat)
    <2> HIDE DEF E
    <2>1. D \in [1..Len(t) -> [Nat -> Nat]]
      BY <1>2
    <2> HIDE DEF D
    <2>2. QED
      BY <2>1, StepsFrom0
  <1>4. PICK g : g \in Obeying(0, Len(t), Nat, 0, D)
    <2> HIDE DEF D, Good
    <2>1. 0 \in Int /\ Len(t) \in Int
      BY <1>1
    <2>2. QED
      BY <1>1, <1>3, <2>1, RecursionDefines, Zenon
  <1>5. Good(g)
    <2> HIDE DEF E
    <2>1. \A i \in 1..Len(t) : i - 1 \in 0..Len(t)
      BY <1>1
    <2>2. g \in [0..Len(t) -> Nat]
      BY <1>4 DEF Obeying
    <2>3. g[0] = 0 /\ \A i \in 1..Len(t) : g[i] = D[i][g[i - 1]]
      BY <1>1, <1>4 DEF Obeying
    <2>4. \A i \in 1..Len(t) : g[i] = E(i, g[i - 1])
      BY <2>1, <2>2, <2>3
    <2> HIDE DEF D
    <2>5. QED
      BY <1>1, <2>2, <2>3, <2>4
  <1> DEFINE r == SizesTo(t)
  <1>6. Good(r)
    <2> HIDE DEF D
    <2>1. r = CHOOSE f : Good(f)
      BY DEF SizesTo
    <2> HIDE DEF Good, r
    <2>2. QED
      BY <1>5, <2>1
  <1> HIDE DEF E, D, r
  <1>7. r[0] = 0 /\ \A i \in 1..Len(t) : r[i] = E(i, r[i - 1])
    <2>1. 0 \in 0..Len(t) /\ \A i \in 1..Len(t) : i \in 0..Len(t) /\ i # 0
      BY <1>1
    <2>2. \A i \in 0..Len(t) : r[i] = IF i = 0 THEN 0 ELSE E(i, r[i - 1])
      BY <1>6, Zenon
    <2>3. QED
      BY <2>1, <2>2
  <1>8. \A i \in 0..Len(t) : r[i] \in Nat
    <2> HIDE DEF Good
    <2>1. \A i \in 1..Len(t) : r[i - 1] \in Nat => r[i] \in Nat
      BY <1>2, <1>7
    <2>2. Len(t) \in Nat /\ r[0] \in Nat
      BY <1>1, <1>7
    <2>3. QED
      BY <2>1, <2>2, TypedFrom0, Zenon
  <1>9. QED
    BY <1>7, <1>8 DEF E, r

LEMMA LongerBy ==
  ASSUME NEW b \in Bytes, NEW s \in Names
  PROVE  b \o NulEnded(s) \in Bytes /\ Len(b \o NulEnded(s)) = Len(b) + Len(s) + 1
  <1> DEFINE u == NulEnded(s)
  <1>1. b \in Seq(EnvChars) /\ u \in Seq(EnvChars) /\ Len(u) = Len(s) + 1 /\ Len(s) \in Nat
    BY NameOfBytes DEF Bytes
  <1> HIDE DEF u
  <1>2. b \o u \in Seq(EnvChars) /\ Len(b \o u) = Len(b) + Len(u) /\ Len(b) \in Nat
    <2>1. b \in Seq(EnvChars) /\ u \in Seq(EnvChars)
      BY <1>1
    <2>2. b \o u \in Seq(EnvChars) /\ Len(b \o u) = Len(b) + Len(u)
      BY <2>1, ConcatProperties, Zenon
    <2>3. QED
      BY <2>1, <2>2
  <1>3. Len(b \o u) = Len(b) + Len(s) + 1
    BY <1>1, <1>2
  <1>4. b \o u \in Bytes
    BY <1>2 DEF Bytes
  <1>5. QED
    BY <1>3, <1>4, Zenon DEF u

\* The block is as long as the sizes add up to, and never longer than at the end.
LEMMA BlockSize ==
  ASSUME NEW t \in Seq(Names)
  PROVE  \A i \in 0..Len(t) : /\ Len(BlockTo(t)[i]) = SizesTo(t)[i]
                              /\ SizesTo(t)[i] <= SizesTo(t)[Len(t)]
  <1> DEFINE B == BlockTo(t)
             Z == SizesTo(t)
             n == Len(t)
             L == [i \in 0..n |-> Len(B[i])]
  <1>1. /\ B[0] = <<>> /\ \A i \in 1..n : B[i] = B[i - 1] \o NulEnded(t[i])
        /\ \A i \in 0..n : B[i] \in Bytes
    BY BlockToDef
  <1>2. /\ Z[0] = 0 /\ \A i \in 1..n : Z[i] = Z[i - 1] + Len(t[i]) + 1
        /\ \A i \in 0..n : Z[i] \in Nat
    BY SizesDef
  <1>3. n \in Nat /\ \A i \in 1..n : t[i] \in Names /\ i - 1 \in 0..n /\ i \in 0..n
    OBVIOUS
  <1>4. n \in 0..n /\ 0 \in 0..n
    BY <1>3
  <1> HIDE DEF B, Z
  <1>5. \A i \in 0..n : L[i] = Z[i]
    <2>1. L[0] = Z[0]
      BY <1>1, <1>2, <1>4, NoBytes
    <2>2. ASSUME NEW i \in 1..n, L[i - 1] = Z[i - 1] PROVE L[i] = Z[i]
      <3>1. i - 1 \in 0..n /\ i \in 0..n /\ t[i] \in Names
        BY <1>3
      <3>2. B[i - 1] \in Bytes /\ B[i] = B[i - 1] \o NulEnded(t[i])
        BY <1>1, <3>1
      <3>3. Len(B[i]) = Len(B[i - 1]) + Len(t[i]) + 1
        BY <3>1, <3>2, LongerBy
      <3>4. Len(B[i - 1]) = Z[i - 1] /\ Z[i] = Z[i - 1] + Len(t[i]) + 1
        BY <1>2, <2>2, <3>1
      <3>6. Len(B[i]) = Z[i]
        BY <3>3, <3>4, Zenon
      <3>7. QED
        BY <3>1, <3>6
    <2> HIDE DEF L, n
    <2>3. \A i \in 1..n : L[i - 1] = Z[i - 1] => L[i] = Z[i]
      BY <2>2, Zenon
    <2>4. n \in Nat
      BY <1>3
    <2>5. Alike(n, L, Z)
      BY <2>1, <2>3 DEF Alike
    <2>6. QED
      BY <2>4, <2>5, AlikeAgree, Zenon
  <1>6. ASSUME NEW i \in 0..n PROVE Z[i] <= Z[n]
    <2> DEFINE I == {j \in Int : Z[i] <= Z[j]}
    <2>1. i \in I
      BY <1>2
    <2>2. ASSUME NEW j \in i..n - 1, j \in I PROVE j + 1 \in I
      <3>1. j + 1 \in 1..n /\ (j + 1) - 1 = j /\ j \in 0..n /\ j + 1 \in 0..n
        BY <1>3
      <3>2. Len(t[j + 1]) \in Nat
        BY <1>3, <3>1, NameOfBytes
      <3>3. Z[j + 1] = Z[j] + Len(t[j + 1]) + 1
        BY <1>2, <3>1
      <3>4. Z[i] \in Nat /\ Z[j] \in Nat /\ Z[i] <= Z[j]
        BY <1>2, <2>2, <3>1
      <3>5. QED
        BY <3>1, <3>2, <3>3, <3>4
    <2>3. i \in Int /\ n \in Int /\ n \in i..n
      BY <1>3
    <2> HIDE DEF I
    <2>4. \A j \in i..n : j \in I
      BY <2>1, <2>2, <2>3, IntervalClosed
    <2>5. n \in I
      BY <2>3, <2>4
    <2>6. QED
      BY <2>5 DEF I
  <1>7. QED
    BY <1>5, <1>6 DEF B, Z

\* In the block of one string or more there is no null before the first string, one behind
\* the last, and never two in a row.
Compact(b) == /\ b # <<>> /\ b[1] # "nul" /\ b[Len(b)] = "nul"
              /\ \A i \in 2..Len(b) : ~(b[i] = "nul" /\ b[i - 1] = "nul")

LEMMA BlockCompact ==
  ASSUME NEW t \in Seq(Names), t # <<>>
  PROVE  Compact(BlockOf(t))
  <1> DEFINE B == BlockTo(t)
             n == Len(t)
             I == {i \in Int : Compact(B[i])}
  <1>1. /\ B[0] = <<>> /\ \A i \in 1..n : B[i] = B[i - 1] \o NulEnded(t[i])
        /\ \A i \in 0..n : B[i] \in Bytes
    BY BlockToDef
  <1>2. n \in Nat /\ n >= 1 /\ \A i \in 1..n : t[i] \in Names /\ i - 1 \in 0..n /\ i \in 0..n
    OBVIOUS
  <1> HIDE DEF B
  <1>3. ASSUME NEW i \in 1..n, i = 1 \/ Compact(B[i - 1]) PROVE Compact(B[i])
    <2> DEFINE b == B[i - 1]
               s == t[i]
               u == NulEnded(s)
               m == Len(b)
               k == Len(s)
    <2>1. /\ k \in Nat /\ k >= 1 /\ u \in Bytes /\ Len(u) = k + 1 /\ u[k + 1] = "nul"
          /\ \A j \in 1..k : u[j] # "nul"
      BY <1>2, NameOfBytes
    <2>2. b \in Bytes /\ m \in Nat /\ B[i] = b \o u
      BY <1>1, <1>2, OfBytes
    <2>3. /\ Len(b \o u) = m + (k + 1)
          /\ \A j \in 1..m + (k + 1) : (b \o u)[j] = IF j <= m THEN b[j] ELSE u[j - m]
      <3>1. b \in Seq(EnvChars) /\ u \in Seq(EnvChars)
        BY <2>1, <2>2 DEF Bytes
      <3> HIDE DEF b, u
      <3>2. /\ Len(b \o u) = Len(b) + Len(u)
            /\ \A j \in 1..Len(b) + Len(u) :
                 (b \o u)[j] = IF j <= Len(b) THEN b[j] ELSE u[j - Len(b)]
        BY <3>1, ConcatProperties
      <3>3. Len(u) = k + 1
        BY <2>1
      <3> HIDE DEF m, k
      <3>4. Len(b) = m
        BY DEF m
      <3>5. QED
        BY <3>2, <3>3, <3>4
    <2>4. i # 1 => m >= 1 /\ b[1] # "nul" /\ \A j \in 2..m : ~(b[j] = "nul" /\ b[j - 1] = "nul")
      BY <1>3, <2>2 DEF Compact, Bytes
    <2>5. i = 1 => m = 0
      BY <1>1, NoBytes
    <2> DEFINE w == b \o u
    <2> HIDE DEF b, s, u, m, k, w
    <2>6. Len(w) = m + k + 1 /\ \A j \in 1..m + k + 1 : w[j] = IF j <= m THEN b[j] ELSE u[j - m]
      BY <2>1, <2>2, <2>3 DEF w
    <2>7. w[1] # "nul"
      <3>1. 1 \in 1..m + k + 1 /\ 1 \in 1..k
        BY <2>1, <2>2
      <3>2. CASE m >= 1
        BY <2>4, <2>5, <2>6, <3>1, <3>2
      <3>3. CASE m = 0
        <4>1. 1 - m = 1
          BY <3>3
        <4>2. QED
          BY <2>1, <2>6, <3>1, <3>3, <4>1
      <3>4. QED
        BY <2>2, <3>2, <3>3
    <2>8. w[Len(w)] = "nul"
      <3>1. m + k + 1 \in 1..m + k + 1 /\ ~(m + k + 1 <= m) /\ (m + k + 1) - m = k + 1
        BY <2>1, <2>2
      <3>2. QED
        BY <2>1, <2>6, <3>1
    <2>9. ASSUME NEW j \in 2..m + k + 1 PROVE ~(w[j] = "nul" /\ w[j - 1] = "nul")
      <3>1. j \in 1..m + k + 1 /\ j - 1 \in 1..m + k + 1
        BY <2>1, <2>2
      <3>2. CASE j <= m
        <4>1. j - 1 <= m /\ j \in 2..m /\ i # 1
          BY <2>2, <2>5, <3>2
        <4>2. QED
          BY <2>4, <2>6, <3>1, <3>2, <4>1
      <3>3. CASE j = m + k + 1
        <4>1. ~(j - 1 <= m) /\ (j - 1) - m \in 1..k
          BY <2>1, <2>2, <3>3
        <4>2. w[j - 1] = u[(j - 1) - m]
          BY <2>6, <3>1, <4>1
        <4>3. QED
          BY <2>1, <4>1, <4>2
      <3>4. CASE j > m /\ j # m + k + 1
        <4>1. ~(j <= m) /\ j - m \in 1..k
          BY <2>1, <2>2, <3>4
        <4>2. w[j] = u[j - m]
          BY <2>6, <3>1, <4>1
        <4>3. QED
          BY <2>1, <4>1, <4>2
      <3>5. QED
        BY <2>1, <2>2, <3>2, <3>3, <3>4
    <2>10. w # <<>>
      <3>1. Len(w) # 0
        BY <2>1, <2>2, <2>6
      <3>2. QED
        BY <3>1, NoBytes
    <2>11. Compact(w)
      BY <2>6, <2>7, <2>8, <2>9, <2>10 DEF Compact
    <2>12. QED
      BY <2>2, <2>11 DEF w
  <1>4. 1 \in I
    BY <1>2, <1>3
  <1>5. ASSUME NEW i \in 1..n - 1, i \in I PROVE i + 1 \in I
    <2>1. i + 1 \in 1..n /\ (i + 1) - 1 = i /\ i + 1 \in Int
      BY <1>2
    <2>2. Compact(B[i])
      BY <1>5
    <2>3. Compact(B[i + 1])
      BY <1>3, <2>1, <2>2
    <2>4. QED
      BY <2>1, <2>3
  <1>6. n \in I
    <2>1. 1 \in Int /\ n \in Int /\ n \in 1..n
      BY <1>2
    <2> HIDE DEF I, n
    <2>2. \A i \in 1..n : i \in I
      BY <1>4, <1>5, <2>1, IntervalClosed
    <2>3. QED
      BY <2>1, <2>2
  <1>7. QED
    BY <1>6 DEF B, BlockOf

-----------------------------------------------------------------------------
(* Environment: the segment of the child, which begins with the block.     *)

\* What follows the strings: a null, and from version 3 on a word and the path.
Behind(v, x) == IF v >= 3 THEN <<"nul", "one", "nul">> \o NulEnded(x) ELSE <<"nul">>
Segment(t, v, x) == BlockOf(t) \o Behind(v, x)

\* Reading it: the strings, their end and nothing more.
LEMMA SegmentRead ==
  ASSUME NEW b \in Bytes, NEW w, ReadAfter(Nothing, b) = Having(w, <<>>),
         NEW r \in Bytes, Len(r) >= 1, r[1] = "nul"
  PROVE  /\ ReadTo(b \o r)[Len(b)] = Having(w, <<>>)
         /\ \A i \in 0..Len(b) : ReadTo(b \o r)[i].ended = FALSE
         /\ Read(b \o r) = EndedWith(w)
  <1> DEFINE s == b \o r
             n == Len(b)
             m == Len(r)
             R == ReadTo(s)
  <1>1. /\ b \in Seq(EnvChars) /\ r \in Seq(EnvChars) /\ n \in Nat /\ m \in Nat
        /\ s \in Bytes /\ Len(s) = n + m /\ s[n + 1] = "nul"
    <2>1. b \in Seq(EnvChars) /\ r \in Seq(EnvChars) /\ n \in Nat /\ m \in Nat
      BY DEF Bytes
    <2>2. /\ s \in Seq(EnvChars) /\ Len(s) = n + m
          /\ \A i \in 1..n + m : s[i] = IF i <= n THEN b[i] ELSE r[i - n]
      BY <2>1, ConcatProperties
    <2> HIDE DEF s, n, m
    <2>3. n + 1 \in 1..n + m /\ ~(n + 1 <= n) /\ (n + 1) - n = 1
      BY <2>1 DEF m
    <2>4. s[n + 1] = "nul"
      BY <2>2, <2>3
    <2>5. QED
      BY <2>1, <2>2, <2>4 DEF Bytes
  <1>2. /\ R[0] = Nothing /\ \A i \in 1..n + m : R[i] = ReadByte(R[i - 1], s[i])
        /\ \A i \in 0..n + m : R[i] \in Readings
    <2> HIDE DEF s
    <2>1. /\ ReadTo(s)[0] = Nothing
          /\ \A i \in 1..Len(s) : ReadTo(s)[i] = ReadByte(ReadTo(s)[i - 1], s[i])
          /\ \A i \in 0..Len(s) : ReadTo(s)[i] \in Readings
      BY <1>1, ReadToDef
    <2>2. Len(s) = n + m
      BY <1>1
    <2>3. QED
      BY <2>1, <2>2
  <1>3. R[n] = Having(w, <<>>)
    <2>1. Reads(Readings, EnvChars, Nothing, ReadStep)
      BY ReadReads, NothingType
    <2>2. \A i \in 0..Len(b) :
            Reader(ReadStep, Nothing, b \o r)[i] = Reader(ReadStep, Nothing, b)[i]
      BY <1>1, <2>1, ReadFurther, SMT
    <2>3. n \in 0..Len(b)
      BY <1>1
    <2>4. QED
      BY <2>2, <2>3 DEF ReadTo, ReadAfter, AfterAll
  <1>4. Read(s) = R[n + m]
    <2> HIDE DEF s
    <2>1. Read(s) = ReadTo(s)[Len(s)] /\ Len(s) = n + m
      BY <1>1, ReadIsRead
    <2>2. QED
      BY <2>1
  <1>5. m >= 1
    OBVIOUS
  <1> HIDE DEF s, n, m, R
  <1>6. R[n + 1] = EndedWith(w)
    <2>1. n + 1 \in 1..n + m /\ (n + 1) - 1 = n
      BY <1>1, <1>5
    <2>2. R[n + 1] = ReadByte(Having(w, <<>>), "nul")
      BY <1>1, <1>2, <1>3, <2>1
    <2>3. ReadByte(Having(w, <<>>), "nul") = EndedWith(w)
      BY DEF ReadByte, Having, EndedWith
    <2>4. QED
      BY <2>2, <2>3
  <1>7. \A i \in n + 1..n + m : R[i] = EndedWith(w)
    <2> DEFINE I == {i \in Int : R[i] = EndedWith(w)}
    <2>1. n + 1 \in I /\ n + 1 \in Int /\ n + m \in Int
      BY <1>1, <1>6
    <2>2. ASSUME NEW i \in n + 1..n + m - 1, i \in I PROVE i + 1 \in I
      <3>1. i + 1 \in 1..n + m /\ (i + 1) - 1 = i /\ i + 1 \in Int
        BY <1>1
      <3>2. R[i] = EndedWith(w)
        BY <2>2
      <3>3. R[i + 1] = ReadByte(EndedWith(w), s[i + 1])
        BY <1>2, <3>1, <3>2
      <3>4. R[i + 1] = EndedWith(w)
        BY <3>3 DEF ReadByte, EndedWith
      <3>5. QED
        BY <3>1, <3>4
    <2> HIDE DEF I
    <2>3. \A i \in n + 1..n + m : i \in I
      <3> DEFINE c == n + 1
                 d == n + m
      <3>1. c \in I /\ c \in Int /\ d \in Int
        BY <2>1
      <3>2. \A i \in c..d - 1 : i \in I => i + 1 \in I
        BY <1>1, <2>2
      <3> HIDE DEF c, d
      <3>3. \A i \in c..d : i \in I
        BY <3>1, <3>2, IntervalClosed
      <3>4. QED
        BY <3>3 DEF c, d
    <2>4. QED
      BY <2>3 DEF I
  <1>8. ASSUME NEW i \in 0..n, R[i].ended # FALSE PROVE FALSE
    <2> DEFINE I == {j \in Int : R[j].ended = TRUE}
    <2>1. i \in I
      <3>1. i \in 0..n + m
        BY <1>1
      <3>2. R[i].ended \in BOOLEAN
        BY <1>2, <3>1 DEF Readings
      <3>3. R[i].ended = TRUE
        BY <1>8, <3>2, Zenon
      <3>4. i \in Int
        OBVIOUS
      <3>5. QED
        BY <3>3, <3>4, Zenon
    <2>2. ASSUME NEW j \in i..n - 1, j \in I PROVE j + 1 \in I
      <3>1. j + 1 \in 1..n + m /\ (j + 1) - 1 = j /\ j + 1 \in Int
        BY <1>1
      <3>2. R[j].ended = TRUE
        BY <2>2
      <3>3. R[j + 1] = ReadByte(R[j], s[j + 1])
        BY <1>2, <3>1
      <3>4. R[j + 1] = R[j]
        BY <3>2, <3>3 DEF ReadByte
      <3>5. QED
        BY <3>1, <3>2, <3>4
    <2>3. i \in Int /\ n \in Int /\ n \in i..n
      BY <1>1
    <2> HIDE DEF I
    <2>4. \A j \in i..n : j \in I
      BY <2>1, <2>2, <2>3, IntervalClosed
    <2>5. n \in I
      BY <2>3, <2>4
    <2>6. R[n].ended = TRUE
      BY <2>5 DEF I
    <2>7. QED
      BY <1>3, <2>6 DEF Having
  <1>9. Read(s) = EndedWith(w)
    <2>1. n + m \in n + 1..n + m
      BY <1>1, <1>5
    <2>2. QED
      BY <1>4, <1>7, <2>1
  <1>10. QED
    BY <1>3, <1>8, <1>9 DEF s, n, R

LEMMA BehindType ==
  ASSUME NEW v \in {2, 3}, NEW x \in Seq(PartChars)
  PROVE  /\ Behind(v, x) \in Bytes /\ Len(Behind(v, x)) >= 1 /\ Behind(v, x)[1] = "nul"
         /\ Len(Behind(v, x)) \in Nat
         /\ v >= 3 => /\ Len(Behind(v, x)) = Len(x) + 4
                      /\ \A i \in 1..Len(x) : Behind(v, x)[3 + i] = x[i]
                      /\ Behind(v, x)[Len(x) + 4] = "nul"
  <1> DEFINE h == <<"nul", "one", "nul">>
             u == NulEnded(x)
             k == Len(x)
             w == h \o u
  <1>1. /\ h \in Seq(EnvChars) /\ Len(h) = 3 /\ h[1] = "nul" /\ <<"nul">> \in Seq(EnvChars)
        /\ Len(<<"nul">>) = 1 /\ <<"nul">>[1] = "nul"
    BY DEF EnvChars
  <1>2. x \in Seq(EnvChars) /\ k \in Nat /\ "nul" \in EnvChars
    <2>1. PartChars \subseteq EnvChars
      BY DEF EnvChars
    <2>2. QED
      BY <2>1, SeqMonotonic DEF EnvChars
  <1>3. u \in Seq(EnvChars) /\ Len(u) = k + 1 /\ u[k + 1] = "nul" /\ \A i \in 1..k : u[i] = x[i]
    BY <1>2, AppendProperties DEF NulEnded
  <1> HIDE DEF h, u
  <1>4. /\ w \in Seq(EnvChars) /\ Len(w) = Len(h) + Len(u)
        /\ \A i \in 1..Len(h) + Len(u) : w[i] = IF i <= Len(h) THEN h[i] ELSE u[i - Len(h)]
    BY <1>1, <1>3, ConcatProperties
  <1> HIDE DEF w, k
  <1>5. /\ w \in Seq(EnvChars) /\ Len(w) = k + 4
        /\ \A i \in 1..k + 4 : w[i] = IF i <= 3 THEN h[i] ELSE u[i - 3]
    BY <1>1, <1>2, <1>3, <1>4
  <1>6. w[1] = "nul" /\ w[k + 4] = "nul" /\ Len(w) \in Nat /\ Len(w) >= 1
    <2>1. 1 \in 1..k + 4 /\ k + 4 \in 1..k + 4 /\ ~(k + 4 <= 3) /\ (k + 4) - 3 = k + 1
      BY <1>2
    <2>2. QED
      BY <1>1, <1>2, <1>3, <1>5, <2>1
  <1>7. \A i \in 1..k : w[3 + i] = x[i]
    <2> TAKE i \in 1..k
    <2>1. 3 + i \in 1..k + 4 /\ ~(3 + i <= 3) /\ (3 + i) - 3 = i
      BY <1>2
    <2>2. QED
      BY <1>3, <1>5, <2>1
  <1>8. CASE v = 2
    <2>1. Behind(v, x) = <<"nul">> /\ ~(v >= 3)
      BY <1>8 DEF Behind
    <2>2. QED
      BY <1>1, <2>1 DEF Bytes
  <1>9. CASE v = 3
    <2>1. Behind(v, x) = w
      BY <1>9 DEF Behind, w, h, u
    <2>2. QED
      BY <1>5, <1>6, <1>7, <2>1 DEF Bytes, k
  <1>10. QED
    BY <1>8, <1>9

-----------------------------------------------------------------------------
(* Environment: the invariant.                                             *)

EnvTypeOK ==
  /\ env_pc \in {"size", "ENOMEM", "copy", "exec",
                 "skip", "string", "count", "path", "split", "done"}
  /\ envp \in Seq(Names) /\ exe \in Seq(PartChars) /\ osmajor \in {2, 3}

\* The parent: the block holds the strings that were copied, and the rest is in pp.
ThreeNuls == <<"nul", "nul", "nul">>
Enough == SizesTo(envp)[Len(envp)] + 3 <= room /\ room \in Nat
Held(k) == pp = SubSeq(envp, k + 1, Len(envp)) /\ env_blk = BlockTo(envp)[k]
Copying ==
  /\ env_pc \in {"size", "ENOMEM"} => pp = envp /\ room = 0 /\ env_blk = <<>>
  /\ env_pc = "copy" => Enough /\ \E k \in 0..Len(envp) : Held(k)
  /\ env_pc \notin {"size", "ENOMEM", "copy"} => Enough /\ env_blk = BlockOf(envp) \o ThreeNuls

\* The child: the walk knows where it is in the strings, and then in the path.
Before == {"size", "ENOMEM", "copy", "exec"}
At(i) == ReadTo(env_seg)[i]
Arriving == IF env_pc \in Before THEN env_seg = <<>> /\ fp = 1 /\ fullname = <<>>
            ELSE envp # <<>> => env_seg = Segment(envp, osmajor, exe)
Walking ==
  /\ osmajor < 3 => fullname = <<>> /\ env_pc \notin {"string", "count", "path"}
  /\ env_pc \in {"skip", "string", "count"} => fullname = <<>>
  /\ env_pc \in {"split", "done"} /\ osmajor < 3 => fp = 1
  /\ env_pc = "skip" /\ osmajor < 3 => fp = 1
  /\ env_pc = "done" => progname = SplitOf(fullname).fname
  /\ env_pc \in {"skip", "string"} /\ envp # <<>> =>
       /\ fp \in 1..Len(BlockOf(envp)) + 1 /\ At(fp - 1).ended = FALSE
       /\ env_pc = "skip" <=> At(fp - 1).string = <<>>
  /\ env_pc = "count" /\ envp # <<>> => fp = Len(BlockOf(envp)) + 2
  /\ env_pc = "path" /\ envp # <<>> =>
       /\ Len(fullname) \in 0..Len(exe) /\ Len(fullname) <= WholeMax - 1
       /\ fullname = SubSeq(exe, 1, Len(fullname)) /\ fp = Len(BlockOf(envp)) + 4 + Len(fullname)
  /\ env_pc \in {"split", "done"} /\ osmajor >= 3 /\ envp # <<>> =>
       /\ fullname = SubSeq(exe, 1, Min({Len(exe), WholeMax - 1}))
       /\ fp <= Len(env_seg) + 1

EnvInv == EnvTypeOK /\ Copying /\ Arriving /\ Walking

LEMMA EnvInvInit == EnvInit => EnvInv
  <1> SUFFICES ASSUME EnvInit PROVE EnvInv
    OBVIOUS
  <1>1. envp \in Seq(Names) /\ exe \in Seq(PartChars) /\ osmajor \in {2, 3} /\ env_pc = "size"
    BY EnvironmentAssumption DEF EnvInit, Names
  <1>2. pp = envp /\ room = 0 /\ env_blk = <<>> /\ env_seg = <<>> /\ fp = 1 /\ fullname = <<>>
    BY DEF EnvInit
  <1>3. EnvTypeOK
    BY <1>1 DEF EnvTypeOK
  <1>4. Copying
    BY <1>1, <1>2 DEF Copying
  <1>5. Arriving
    BY <1>1, <1>2 DEF Arriving, Before
  <1>6. Walking
    BY <1>1, <1>2 DEF Walking
  <1>7. QED
    BY <1>3, <1>4, <1>5, <1>6 DEF EnvInv

\* A reading is a function of the segment.
LEMMA SameWalk ==
  ASSUME Walking, env_pc' = env_pc, envp' = envp, exe' = exe, osmajor' = osmajor,
         env_seg' = env_seg, fp' = fp, fullname' = fullname, progname' = progname
  PROVE  Walking'
  <1>1. \A i : At(i)' = ReadTo(env_seg)[i]
    BY DEF At
  <1>2. QED
    BY <1>1 DEF Walking, At

LEMMA Paragraphs ==
  ASSUME NEW n \in Nat, n >= 1
  PROVE  /\ ((n - 1) \div PARA_SZ + 1) * PARA_SZ >= n
         /\ ((n - 1) \div PARA_SZ + 1) * PARA_SZ \in Nat
  <1> DEFINE d == (n - 1) \div 4
  <1>1. d \in Nat /\ 4 * d <= n - 1 /\ n - 1 < 4 * d + 4
    OBVIOUS
  <1> HIDE DEF d
  <1>2. (d + 1) * 4 = 4 * d + 4
    BY <1>1
  <1>3. QED
    BY <1>1, <1>2 DEF PARA_SZ, d

LEMMA AllocateStep == ASSUME EnvInv, AllocateEnv PROVE EnvInv'
  <1>1. /\ env_pc = "size" /\ envp' = envp /\ exe' = exe /\ pp' = pp /\ env_blk' = env_blk
        /\ osmajor' = osmajor /\ env_seg' = env_seg /\ fp' = fp /\ fullname' = fullname
        /\ env_pc' \in {"copy", "ENOMEM"}
    BY DEF AllocateEnv, childVars
  <1>2. EnvTypeOK'
    BY <1>1 DEF EnvInv, EnvTypeOK
  <1>3. Arriving'
    BY <1>1 DEF EnvInv, Arriving, Before
  <1>4. Walking'
    <2>1. (env_pc \in Before)' /\ (fullname = <<>>)'
      BY <1>1 DEF EnvInv, Arriving, Before
    <2>2. QED
      BY <2>1 DEF Walking, Before
  <1>5. Copying'
    <2>1. pp = envp /\ env_blk = <<>> /\ room = 0
      BY <1>1 DEF EnvInv, Copying
    <2>2. CASE env_pc' = "ENOMEM"
      <3>1. room' = room
        BY <1>1, <2>2 DEF AllocateEnv
      <3>2. QED
        BY <1>1, <2>1, <2>2, <3>1 DEF Copying
    <2>3. CASE env_pc' = "copy"
      <3> DEFINE n == SizesTo(envp)[Len(envp)] + 3
      <3>1. room' = ((SizeOfEnv - 1) \div PARA_SZ + 1) * PARA_SZ
        BY <1>1, <2>3 DEF AllocateEnv
      <3>2. /\ envp \in Seq(Names) /\ Len(envp) \in Nat
            /\ Len(envp) \in 0..Len(envp) /\ 0 \in 0..Len(envp)
        BY DEF EnvInv, EnvTypeOK
      <3>3. SizesTo(envp)[Len(envp)] \in Nat
        BY <3>2, SizesDef
      <3>4. SizeOfEnv = n /\ n \in Nat /\ n >= 1
        BY <3>3, SizeIsLast DEF SizeOfEnv
      <3>5. Enough'
        <4> HIDE DEF n
        <4>1. n <= room' /\ room' \in Nat
          BY <3>1, <3>4, Paragraphs
        <4>2. QED
          BY <1>1, <4>1 DEF Enough, n
      <3>6. SubSeq(envp, 0 + 1, Len(envp)) = envp /\ BlockTo(envp)[0] = <<>>
        <4>1. 0 + 1 = 1 /\ SubSeq(envp, 1, Len(envp)) = envp
          BY <3>2, SubSeqFull
        <4>2. BlockTo(envp)[0] = <<>>
          BY <3>2, BlockToDef
        <4>3. QED
          BY <4>1, <4>2
      <3>7. Held(0)'
        BY <1>1, <2>1, <3>6, Zenon DEF Held
      <3>8. 0 \in 0..Len(envp')
        BY <1>1, <3>2
      <3>9. QED
        BY <1>1, <2>3, <3>5, <3>7, <3>8 DEF Copying
    <2>4. QED
      BY <1>1, <2>2, <2>3
  <1>6. QED
    BY <1>2, <1>3, <1>4, <1>5 DEF EnvInv

LEMMA CopyStep == ASSUME EnvInv, CopyString PROVE EnvInv'
  <1>1. /\ env_pc = "copy" /\ env_pc' = env_pc /\ envp' = envp /\ exe' = exe /\ room' = room
        /\ osmajor' = osmajor /\ env_seg' = env_seg /\ fp' = fp /\ fullname' = fullname
        /\ progname' = progname
        /\ pp # <<>> /\ pp' = Tail(pp) /\ env_blk' = env_blk \o NulEnded(Head(pp))
    BY DEF CopyString, childVars
  <1>2. EnvTypeOK' /\ Arriving'
    BY <1>1 DEF EnvInv, EnvTypeOK, Arriving, Before
  <1>3. Walking'
    BY <1>1, SameWalk DEF EnvInv
  <1>4. Enough'
    BY <1>1 DEF EnvInv, Copying, Enough
  <1>5. PICK k \in 0..Len(envp) : pp = SubSeq(envp, k + 1, Len(envp)) /\ env_blk = BlockTo(envp)[k]
    BY <1>1 DEF EnvInv, Copying, Held
  <1>6. envp \in Seq(Names) /\ Len(envp) \in Nat
    BY DEF EnvInv, EnvTypeOK
  <1>7. k + 1 \in 1..Len(envp) /\ Len(envp) \in k + 1..Len(envp)
    <2>1. k # Len(envp)
      <3>1. Len(envp) < Len(envp) + 1 /\ Len(envp) + 1 \in Int /\ Len(envp) \in Int
        BY <1>6
      <3>2. SubSeq(envp, Len(envp) + 1, Len(envp)) = <<>>
        BY <3>1, SubSeqEmpty
      <3>3. QED
        BY <1>1, <1>5, <3>2
    <2>2. QED
      BY <1>6, <2>1
  <1>8. Head(pp) = envp[k + 1] /\ Tail(pp) = SubSeq(envp, (k + 1) + 1, Len(envp))
    BY <1>5, <1>6, <1>7, HeadTailOfSubSeq
  <1>9. /\ BlockTo(envp)[k + 1] = BlockTo(envp)[(k + 1) - 1] \o NulEnded(envp[k + 1])
        /\ (k + 1) - 1 = k
    <2>1. \A i \in 1..Len(envp) : BlockTo(envp)[i] = BlockTo(envp)[i - 1] \o NulEnded(envp[i])
      BY <1>6, BlockToDef
    <2>2. (k + 1) - 1 = k
      BY <1>7
    <2>3. QED
      BY <1>7, <2>1, <2>2
  <1>10. Held(k + 1)'
    <2>1. pp' = SubSeq(envp, (k + 1) + 1, Len(envp))
      BY <1>1, <1>8, Zenon
    <2>2. env_blk' = BlockTo(envp)[k + 1]
      BY <1>1, <1>5, <1>8, <1>9, Zenon
    <2>3. QED
      BY <1>1, <2>1, <2>2, Zenon DEF Held
  <1>11. k + 1 \in 0..Len(envp')
    <2>1. k + 1 \in 0..Len(envp)
      BY <1>6, <1>7
    <2>2. QED
      BY <1>1, <2>1, Zenon
  <1>12. Copying'
    <2>1. (\E j \in 0..Len(envp) : Held(j))'
      BY ONLY <1>10, <1>11
    <2>2. env_pc' = "copy"
      BY <1>1
    <2>3. QED
      BY <1>4, <2>1, <2>2 DEF Copying
  <1>13. QED
    BY <1>2, <1>3, <1>12 DEF EnvInv

LEMMA EndStep == ASSUME EnvInv, EndBlock PROVE EnvInv'
  <1>1. /\ env_pc = "copy" /\ env_pc' = "exec" /\ envp' = envp /\ exe' = exe /\ room' = room
        /\ osmajor' = osmajor /\ env_seg' = env_seg /\ fp' = fp /\ fullname' = fullname
        /\ pp = <<>> /\ env_blk' = env_blk \o ThreeNuls
    BY DEF EndBlock, childVars, ThreeNuls
  <1>2. EnvTypeOK' /\ Arriving'
    BY <1>1 DEF EnvInv, EnvTypeOK, Arriving, Before
  <1>3. Walking'
    <2>1. (env_pc \in Before)' /\ (fullname = <<>>)'
      BY <1>1 DEF EnvInv, Arriving, Before
    <2>2. QED
      BY <2>1 DEF Walking, Before
  <1>4. Enough'
    BY <1>1 DEF EnvInv, Copying, Enough
  <1>5. PICK k \in 0..Len(envp) : pp = SubSeq(envp, k + 1, Len(envp)) /\ env_blk = BlockTo(envp)[k]
    BY <1>1 DEF EnvInv, Copying, Held
  <1>6. envp \in Seq(Names) /\ Len(envp) \in Nat
    BY DEF EnvInv, EnvTypeOK
  <1>7. k = Len(envp)
    <2> SUFFICES ASSUME k # Len(envp) PROVE FALSE
      OBVIOUS
    <2>1. k + 1 \in 1..Len(envp) /\ Len(envp) \in k + 1..Len(envp)
      BY <1>6
    <2>2. SubSeq(envp, k + 1, Len(envp)) \in Seq(Names)
          /\ Len(SubSeq(envp, k + 1, Len(envp))) = Len(envp) - (k + 1) + 1
      <3>1. k + 1 \in Int /\ Len(envp) \in Int /\ \A i \in k + 1..Len(envp) : envp[i] \in Names
        BY <1>6, <2>1
      <3>2. k + 1 <= Len(envp)
        BY <2>1
      <3>3. QED
        BY <3>1, <3>2, SubSeqProperties
    <2>3. Len(pp) # 0
      <3>1. Len(envp) - (k + 1) + 1 # 0
        BY <1>6, <2>1
      <3>2. QED
        BY <1>5, <2>2, <3>1, Zenon
    <2>4. QED
      BY <1>1, <2>3, NoBytes
  <1>8. env_blk' = BlockOf(envp) \o ThreeNuls
    BY <1>1, <1>5, <1>7 DEF BlockOf
  <1>9. Copying'
    BY <1>1, <1>4, <1>8 DEF Copying
  <1>10. QED
    BY <1>2, <1>3, <1>9 DEF EnvInv

\* The null that DOS copies up to is the first behind the strings.
LEMMA BlockEnds ==
  ASSUME NEW b \in Bytes, Compact(b)
  PROVE  LET w == b \o ThreeNuls IN
         /\ Min({i \in 2..Len(w) : w[i] = "nul" /\ w[i - 1] = "nul"}) = Len(b) + 1
         /\ SubSeq(w, 1, Len(b) + 1) = b \o <<"nul">>
         /\ Len(w) = Len(b) + 3
  <1> DEFINE e == ThreeNuls
             o == <<"nul">>
             w == b \o e
             u == b \o o
             n == Len(b)
             S == {i \in 2..Len(w) : w[i] = "nul" /\ w[i - 1] = "nul"}
  <1>1. /\ b \in Seq(EnvChars) /\ n \in Nat /\ n >= 1 /\ b[n] = "nul"
        /\ \A i \in 2..n : ~(b[i] = "nul" /\ b[i - 1] = "nul")
    BY DEF Compact, Bytes
  <1>2. /\ e \in Seq(EnvChars) /\ Len(e) = 3 /\ e[1] = "nul"
        /\ o \in Seq(EnvChars) /\ Len(o) = 1 /\ o[1] = "nul"
    BY DEF ThreeNuls, EnvChars
  <1> HIDE DEF e, o
  <1>3. /\ w \in Seq(EnvChars) /\ Len(w) = Len(b) + Len(e)
        /\ \A i \in 1..Len(b) + Len(e) : w[i] = IF i <= Len(b) THEN b[i] ELSE e[i - Len(b)]
    BY <1>1, <1>2, ConcatProperties
  <1>4. /\ u \in Seq(EnvChars) /\ Len(u) = Len(b) + Len(o)
        /\ \A i \in 1..Len(b) + Len(o) : u[i] = IF i <= Len(b) THEN b[i] ELSE o[i - Len(b)]
    BY <1>1, <1>2, ConcatProperties
  <1> HIDE DEF w, u
  <1>5. /\ Len(w) = n + 3 /\ \A i \in 1..n : w[i] = b[i]
        /\ w[n + 1] = "nul"
        /\ Len(u) = n + 1 /\ u[n + 1] = "nul" /\ \A i \in 1..n : u[i] = b[i]
    <2>1. n + 1 \in 1..n + 3 /\ n + 1 \in 1..n + 1 /\ ~(n + 1 <= n) /\ (n + 1) - n = 1
      BY <1>1
    <2>2. \A i \in 1..n : i \in 1..n + 3 /\ i \in 1..n + 1 /\ i <= n
      BY <1>1
    <2> HIDE DEF n
    <2>3. Len(b) = n
      BY DEF n
    <2>4. QED
      BY <1>2, <1>3, <1>4, <2>1, <2>2, <2>3
  <1> HIDE DEF n
  <1>6. n + 1 \in S
    <2>1. n + 1 \in 2..n + 3 /\ (n + 1) - 1 = n /\ n \in 1..n
      BY <1>1
    <2>2. QED
      BY <1>1, <1>5, <2>1
  <1>7. \A i \in S : n + 1 <= i
    <2> SUFFICES ASSUME NEW i \in S, ~(n + 1 <= i) PROVE FALSE
      OBVIOUS
    <2>1. i \in 2..n + 3 /\ w[i] = "nul" /\ w[i - 1] = "nul"
      BY <1>5
    <2>2. i \in 2..n /\ i \in 1..n /\ i - 1 \in 1..n
      BY <1>1, <2>1
    <2>3. b[i] = "nul" /\ b[i - 1] = "nul"
      BY <1>5, <2>1, <2>2
    <2>4. QED
      BY <1>1, <2>2, <2>3
  <1>8. Min(S) = n + 1
    <2> DEFINE m == Min(S)
    <2>1. m \in S /\ \A y \in S : m =< y
      <3>1. \E x \in S : \A y \in S : x =< y
        BY <1>6, <1>7
      <3> HIDE DEF S
      <3>2. QED
        BY <3>1, Zenon DEF Min
    <2>2. m <= n + 1 /\ n + 1 <= m
      BY <1>6, <1>7, <2>1
    <2>3. m \in Int
      BY <2>1
    <2> HIDE DEF m
    <2>4. m = n + 1
      BY <1>1, <2>2, <2>3
    <2>5. QED
      BY <2>4 DEF m
  <1>9. SubSeq(w, 1, n + 1) = u
    <2> DEFINE v == SubSeq(w, 1, n + 1)
    <2>1. /\ 1 \in Int /\ n + 1 \in Int /\ 1 <= n + 1 /\ (n + 1) - 1 + 1 = n + 1
          /\ \A i \in 1..n + 1 : i \in 1..Len(w) /\ w[i] \in EnvChars
      BY <1>1, <1>3, <1>5
    <2>2. /\ v \in Seq(EnvChars) /\ Len(v) = (n + 1) - 1 + 1
          /\ \A i \in 1..(n + 1) - 1 + 1 : v[i] = w[1 + i - 1]
      BY <2>1, SubSeqProperties
    <2> HIDE DEF v
    <2>3. \A i \in 1..n + 1 : v[i] = w[i]
      <3> TAKE i \in 1..n + 1
      <3>1. 1 + i - 1 = i /\ i \in 1..(n + 1) - 1 + 1
        BY <2>1
      <3>2. QED
        BY <2>2, <3>1
    <2>4. \A i \in 1..n + 1 : w[i] = u[i]
      <3> TAKE i \in 1..n + 1
      <3>1. i = n + 1 \/ i \in 1..n
        BY <1>1
      <3>2. QED
        BY <1>5, <3>1
    <2>5. Len(v) = Len(u) /\ Len(v) = n + 1 /\ \A i \in 1..n + 1 : v[i] = u[i]
      BY <1>5, <2>1, <2>2, <2>3, <2>4
    <2>6. v = u
      BY <1>4, <2>2, <2>5, SeqEqual
    <2>7. QED
      BY <2>6 DEF v
  <1>10. QED
    BY <1>5, <1>8, <1>9 DEF w, u, n, e, o

LEMMA Copied ==
  ASSUME NEW b \in Bytes, NEW v \in {2, 3}, NEW x \in Seq(PartChars)
  PROVE  (b \o <<"nul">>) \o (IF v >= 3 THEN <<"one", "nul">> \o NulEnded(x) ELSE <<>>)
         = b \o Behind(v, x)
  <1> DEFINE o == <<"nul">>
             h == <<"one", "nul">>
             t == <<"nul", "one", "nul">>
             u == NulEnded(x)
             e == <<>>
  <1>1. /\ b \in Seq(EnvChars) /\ o \in Seq(EnvChars) /\ h \in Seq(EnvChars) /\ t \in Seq(EnvChars)
        /\ e \in Seq(EnvChars)
    BY EmptySeq DEF Bytes, EnvChars
  <1>2. u \in Seq(EnvChars)
    <2>1. PartChars \subseteq EnvChars /\ "nul" \in EnvChars
      BY DEF EnvChars
    <2>2. x \in Seq(EnvChars)
      BY <2>1, SeqMonotonic
    <2>3. QED
      BY <2>1, <2>2, AppendProperties DEF NulEnded
  <1>3. o \o h = t
    <2>1. Len(o) = 1 /\ Len(h) = 2 /\ Len(t) = 3 /\ o[1] = t[1] /\ h[1] = t[2] /\ h[2] = t[3]
      OBVIOUS
    <2> HIDE DEF o, h, t
    <2>2. /\ o \o h \in Seq(EnvChars) /\ Len(o \o h) = Len(o) + Len(h)
          /\ \A i \in 1..Len(o) + Len(h) : (o \o h)[i] = IF i <= Len(o) THEN o[i] ELSE h[i - Len(o)]
      BY <1>1, ConcatProperties
    <2>3. Len(o \o h) = 3 /\ \A i \in 1..3 : (o \o h)[i] = IF i <= 1 THEN o[i] ELSE h[i - 1]
      BY <2>1, <2>2
    <2>4. \A i \in 1..3 : (o \o h)[i] = t[i]
      <3> TAKE i \in 1..3
      <3>1. i = 1 \/ i = 2 \/ i = 3
        OBVIOUS
      <3>2. QED
        BY <2>1, <2>3, <3>1
    <2>5. QED
      BY <1>1, <2>1, <2>2, <2>3, <2>4, SeqEqual
  <1> HIDE DEF o, h, t, u, e
  <1>4. h \o u \in Seq(EnvChars) /\ b \o o \in Seq(EnvChars)
    BY <1>1, <1>2, ConcatProperties
  <1>5. CASE v >= 3
    <2>1. Regroups(b, o, h \o u) /\ Regroups(o, h, u)
      BY <1>1, <1>2, <1>4, AllRegroup, Zenon
    <2>2. (b \o o) \o (h \o u) = b \o (o \o (h \o u))
      BY <2>1, Zenon DEF Regroups
    <2>3. o \o (h \o u) = t \o u
      BY <1>3, <2>1, Zenon DEF Regroups
    <2>4. Behind(v, x) = t \o u
      BY <1>5 DEF Behind, t, u
    <2>5. (b \o o) \o (h \o u) = b \o Behind(v, x)
      BY <2>2, <2>3, <2>4, Zenon
    <2>6. QED
      BY <1>5, <2>5 DEF o, h, u
  <1>6. CASE ~(v >= 3)
    <2>1. (b \o o) \o e = b \o o
      BY <1>4, ConcatEmptySeq DEF e
    <2>2. Behind(v, x) = o
      BY <1>6 DEF Behind, o
    <2>3. QED
      BY <1>6, <2>1, <2>2 DEF o, e
  <1>7. QED
    BY <1>5, <1>6

\* What is known of a segment that begins with the strings t.
LEMMA InSegment ==
  ASSUME NEW t \in Seq(Names), t # <<>>, NEW v \in {2, 3}, NEW x \in Seq(PartChars)
  PROVE  LET b == BlockOf(t)
             s == Segment(t, v, x)
         IN  /\ b \in Bytes /\ Compact(b) /\ Len(b) \in Nat /\ Len(b) >= 1
             /\ s \in Bytes /\ Len(s) = Len(b) + Len(Behind(v, x)) /\ Len(s) \in Nat
             /\ \A i \in 1..Len(Behind(v, x)) : s[Len(b) + i] = Behind(v, x)[i]
             /\ ReadTo(s)[0] = Nothing
             /\ \A i \in 1..Len(s) : ReadTo(s)[i] = ReadByte(ReadTo(s)[i - 1], s[i])
             /\ \A i \in 0..Len(s) : ReadTo(s)[i] \in Readings
             /\ ReadTo(s)[Len(b)] = Having(t, <<>>)
             /\ \A i \in 0..Len(b) : ReadTo(s)[i].ended = FALSE
             /\ Read(s) = EndedWith(t)
  <1> DEFINE b == BlockOf(t)
             r == Behind(v, x)
             s == b \o r
  <1>1. Len(t) \in Nat /\ Len(t) \in 0..Len(t) /\ SubSeq(t, 1, Len(t)) = t
    BY SubSeqFull
  <1>2. b \in Bytes
    BY <1>1, BlockToDef DEF BlockOf
  <1>3. Compact(b)
    BY BlockCompact
  <1>4. ReadAfter(Nothing, b) = Having(t, <<>>)
    BY <1>1, BlockRead DEF BlockOf
  <1>5. r \in Bytes /\ Len(r) >= 1 /\ r[1] = "nul" /\ Len(r) \in Nat
    BY BehindType
  <1> HIDE DEF b, r
  <1>6. /\ ReadTo(b \o r)[Len(b)] = Having(t, <<>>)
        /\ \A i \in 0..Len(b) : ReadTo(b \o r)[i].ended = FALSE
        /\ Read(b \o r) = EndedWith(t)
    BY <1>2, <1>4, <1>5, SegmentRead
  <1>7. b \in Seq(EnvChars) /\ r \in Seq(EnvChars) /\ Len(b) \in Nat /\ Len(b) >= 1
    BY <1>2, <1>3, <1>5 DEF Bytes, Compact
  <1>8. /\ b \o r \in Seq(EnvChars) /\ Len(b \o r) = Len(b) + Len(r)
        /\ \A i \in 1..Len(b) + Len(r) : (b \o r)[i] = IF i <= Len(b) THEN b[i] ELSE r[i - Len(b)]
    BY <1>7, ConcatProperties
  <1> HIDE DEF s
  <1>9. s \in Bytes /\ Len(s) = Len(b) + Len(r) /\ Len(s) \in Nat
    <2>1. s \in Bytes /\ Len(s) = Len(b) + Len(r)
      BY <1>8 DEF s, Bytes
    <2>2. QED
      BY <1>5, <1>7, <2>1
  <1>10. \A i \in 1..Len(r) : s[Len(b) + i] = r[i]
    <2> TAKE i \in 1..Len(r)
    <2>1. Len(b) + i \in 1..Len(b) + Len(r) /\ ~(Len(b) + i <= Len(b)) /\ (Len(b) + i) - Len(b) = i
      BY <1>5, <1>7
    <2>2. QED
      BY <1>8, <2>1 DEF s
  <1>11. /\ ReadTo(s)[0] = Nothing
         /\ \A i \in 1..Len(s) : ReadTo(s)[i] = ReadByte(ReadTo(s)[i - 1], s[i])
         /\ \A i \in 0..Len(s) : ReadTo(s)[i] \in Readings
    BY <1>9, ReadToDef
  <1>12. Segment(t, v, x) = s
    BY DEF Segment, s, b, r
  <1>13. /\ ReadTo(s)[Len(b)] = Having(t, <<>>)
         /\ \A i \in 0..Len(b) : ReadTo(s)[i].ended = FALSE
         /\ Read(s) = EndedWith(t)
    BY <1>6 DEF s
  <1>14. QED
    BY <1>2, <1>3, <1>7, <1>9, <1>10, <1>11, <1>12, <1>13 DEF b, r

LEMMA ExecStep == ASSUME EnvInv, ExecCopy PROVE EnvInv'
  <1>1. /\ env_pc = "exec" /\ env_pc' = "skip" /\ envp' = envp /\ exe' = exe /\ room' = room
        /\ osmajor' = osmajor /\ fp' = fp /\ fullname' = fullname /\ pp' = pp /\ env_blk' = env_blk
    BY DEF ExecCopy, childVars, parentVars
  <1>2. envp \in Seq(Names) /\ exe \in Seq(PartChars) /\ osmajor \in {2, 3} /\ EnvTypeOK'
    BY <1>1 DEF EnvInv, EnvTypeOK
  <1>3. Enough' /\ env_blk = BlockOf(envp) \o ThreeNuls
    BY <1>1 DEF EnvInv, Copying, Enough
  <1>4. Copying'
    BY <1>1, <1>3 DEF Copying
  <1>5. fullname = <<>> /\ fp = 1
    BY <1>1 DEF EnvInv, Arriving, Before
  <1>6. ASSUME envp # <<>> PROVE env_seg' = Segment(envp, osmajor, exe)
    <2> DEFINE b == BlockOf(envp)
    <2>1. b \in Bytes /\ Compact(b)
      BY <1>2, <1>6, InSegment
    <2> DEFINE h == IF osmajor >= 3 THEN <<"one", "nul">> \o NulEnded(exe) ELSE <<>>
               w == b \o ThreeNuls
               e == Min({i \in 2..Len(w) : w[i] = "nul" /\ w[i - 1] = "nul"})
    <2>2. env_seg' = SubSeq(w, 1, e) \o h
      BY <1>3, Zenon DEF ExecCopy
    <2>3. SubSeq(w, 1, e) = b \o <<"nul">>
      BY <2>1, BlockEnds
    <2>4. (b \o <<"nul">>) \o h = b \o Behind(osmajor, exe)
      BY <1>2, <2>1, Copied
    <2> HIDE DEF b, h, w, e
    <2>5. env_seg' = b \o Behind(osmajor, exe)
      BY <2>2, <2>3, <2>4, Zenon
    <2>6. QED
      BY <2>5, Zenon DEF Segment, b
  <1>7. Arriving'
    BY <1>1, <1>6 DEF Arriving, Before
  <1>8. envp # <<>> =>
          /\ 1 \in 1..Len(BlockOf(envp)) + 1
          /\ ReadTo(env_seg')[0] = Nothing /\ Nothing.ended = FALSE /\ Nothing.string = <<>>
    <2> SUFFICES ASSUME envp # <<>>
                 PROVE  /\ 1 \in 1..Len(BlockOf(envp)) + 1
                        /\ ReadTo(env_seg')[0] = Nothing
                        /\ Nothing.ended = FALSE /\ Nothing.string = <<>>
      OBVIOUS
    <2>1. env_seg' = Segment(envp, osmajor, exe)
      BY <1>6
    <2>2. /\ Len(BlockOf(envp)) \in Nat /\ Len(BlockOf(envp)) >= 1
          /\ ReadTo(Segment(envp, osmajor, exe))[0] = Nothing
      BY <1>2, InSegment
    <2>3. 1 \in 1..Len(BlockOf(envp)) + 1
      BY <2>2
    <2>4. QED
      BY <2>1, <2>2, <2>3 DEF Nothing
  <1>9. Walking'
    <2>1. fp' - 1 = 0 /\ fp' = 1 /\ fullname' = <<>>
      BY <1>1, <1>5
    <2>2. envp' # <<>> => /\ fp' \in 1..Len(BlockOf(envp')) + 1
                          /\ ReadTo(env_seg')[fp' - 1].ended = FALSE
                          /\ ReadTo(env_seg')[fp' - 1].string = <<>>
      BY <1>1, <1>8, <2>1
    <2>3. QED
      BY <1>1, <2>1, <2>2 DEF Walking, At
  <1>10. QED
    BY <1>2, <1>4, <1>7, <1>9 DEF EnvInv

\* What the walk reads next.
LEMMA NextRead ==
  ASSUME NEW r \in Readings, r.ended = FALSE, NEW c
  PROVE  /\ c # "nul" => ReadByte(r, c).string # <<>>
         /\ c = "nul" /\ r.string = <<>> => ReadByte(r, c).ended # FALSE
         /\ c = "nul" /\ r.string # <<>> => ReadByte(r, c).string = <<>>
  <1>1. r.string \in Seq(EnvChars)
    BY DEF Readings, Bytes
  <1>2. CASE c # "nul"
    <2>1. ReadByte(r, c) = [r EXCEPT !.string = Append(@, c)]
      BY <1>2 DEF ReadByte
    <2>2. ReadByte(r, c).string = Append(r.string, c)
      BY <2>1 DEF Readings
    <2>3. Append(r.string, c) # <<>>
      BY <1>1
    <2>4. QED
      BY <1>2, <2>2, <2>3
  <1>3. CASE c = "nul" /\ r.string = <<>>
    <2>1. ReadByte(r, c) = [r EXCEPT !.ended = TRUE]
      BY <1>3 DEF ReadByte
    <2>2. ReadByte(r, c).ended = TRUE
      BY <2>1 DEF Readings
    <2>3. QED
      BY <1>3, <2>2
  <1>4. CASE c = "nul" /\ r.string # <<>>
    <2>1. ReadByte(r, c) = [r EXCEPT !.strings = Append(@, r.string), !.string = <<>>]
      BY <1>4 DEF ReadByte
    <2>2. ReadByte(r, c).string = <<>>
      BY <2>1 DEF Readings
    <2>3. QED
      BY <1>4, <2>2
  <1>5. QED
    BY <1>2, <1>3, <1>4

\* The walk through the strings.
LEMMA InStrings ==
  ASSUME EnvInv, envp # <<>>, env_pc \in {"skip", "string"}
  PROVE  LET n == Len(BlockOf(envp)) IN
         /\ n \in Nat /\ fp \in 1..n + 1
         /\ env_pc = "skip" /\ env_seg[fp] = "nul" => fp = n + 1
         /\ env_pc = "skip" /\ env_seg[fp] # "nul" =>
              fp \in 1..n /\ At(fp).ended = FALSE /\ At(fp).string # <<>>
         /\ env_pc = "string" =>
              /\ fp \in 1..n /\ At(fp).ended = FALSE
              /\ env_seg[fp] = "nul" <=> At(fp).string = <<>>
  <1> DEFINE n == Len(BlockOf(envp))
  <1>1. envp \in Seq(Names) /\ exe \in Seq(PartChars) /\ osmajor \in {2, 3}
    BY DEF EnvInv, EnvTypeOK
  <1>2. env_seg = Segment(envp, osmajor, exe)
    BY DEF EnvInv, Arriving, Before
  <1>3. /\ n \in Nat /\ n >= 1 /\ Len(env_seg) \in Nat /\ n <= Len(env_seg)
        /\ \A i \in 1..Len(env_seg) : At(i) = ReadByte(At(i - 1), env_seg[i])
        /\ \A i \in 0..Len(env_seg) : At(i) \in Readings
        /\ At(n).string = <<>>
        /\ \A i \in 0..n : At(i).ended = FALSE
    <2>1. /\ n \in Nat /\ n >= 1 /\ Len(env_seg) = n + Len(Behind(osmajor, exe))
          /\ \A i \in 1..Len(env_seg) : At(i) = ReadByte(At(i - 1), env_seg[i])
          /\ \A i \in 0..Len(env_seg) : At(i) \in Readings
          /\ At(n) = Having(envp, <<>>)
          /\ \A i \in 0..n : At(i).ended = FALSE
      BY <1>1, <1>2, InSegment DEF At
    <2>2. Len(Behind(osmajor, exe)) \in Nat
      BY <1>1, BehindType
    <2>3. At(n).string = <<>>
      BY <2>1 DEF Having
    <2>4. QED
      BY <2>1, <2>2, <2>3
  <1>4. env_seg[n + 1] = "nul"
    <2>1. 1 \in 1..Len(Behind(osmajor, exe)) /\ Behind(osmajor, exe)[1] = "nul"
      BY <1>1, BehindType
    <2>2. \A i \in 1..Len(Behind(osmajor, exe)) : env_seg[n + i] = Behind(osmajor, exe)[i]
      BY <1>1, <1>2, InSegment
    <2>3. QED
      BY <2>1, <2>2
  <1>5. fp \in 1..n + 1 /\ At(fp - 1).ended = FALSE /\ (env_pc = "skip" <=> At(fp - 1).string = <<>>)
    BY DEF EnvInv, Walking
  <1> HIDE DEF n
  <1>6. ASSUME fp \in 1..n
        PROVE  /\ At(fp - 1) \in Readings /\ At(fp) = ReadByte(At(fp - 1), env_seg[fp])
               /\ At(fp).ended = FALSE
    <2>1. fp \in 0..n /\ fp \in 1..Len(env_seg) /\ fp - 1 \in 0..Len(env_seg)
      BY <1>3, <1>6
    <2>2. QED
      BY <1>3, <2>1
  <1>7. fp = n + 1 \/ fp \in 1..n
    BY <1>3, <1>5
  <1>8. ASSUME env_pc = "skip", env_seg[fp] = "nul" PROVE fp = n + 1
    <2> SUFFICES ASSUME fp \in 1..n PROVE FALSE
      BY <1>7
    <2>1. /\ At(fp - 1) \in Readings /\ At(fp) = ReadByte(At(fp - 1), env_seg[fp])
          /\ At(fp).ended = FALSE /\ At(fp - 1).ended = FALSE /\ At(fp - 1).string = <<>>
      BY <1>5, <1>6, <1>8
    <2>2. At(fp).ended # FALSE
      BY <1>8, <2>1, NextRead
    <2>3. QED
      BY <2>1, <2>2
  <1>9. ASSUME env_pc = "skip", env_seg[fp] # "nul"
        PROVE  fp \in 1..n /\ At(fp).ended = FALSE /\ At(fp).string # <<>>
    <2>1. fp \in 1..n
      BY <1>4, <1>7, <1>9
    <2>2. /\ At(fp - 1) \in Readings /\ At(fp) = ReadByte(At(fp - 1), env_seg[fp])
          /\ At(fp).ended = FALSE /\ At(fp - 1).ended = FALSE
      BY <1>5, <1>6, <2>1
    <2>3. At(fp).string # <<>>
      BY <1>9, <2>2, NextRead
    <2>4. QED
      BY <2>1, <2>2, <2>3
  <1>10. ASSUME env_pc = "string"
         PROVE  /\ fp \in 1..n /\ At(fp).ended = FALSE
                /\ env_seg[fp] = "nul" <=> At(fp).string = <<>>
    <2>1. At(fp - 1).string # <<>>
      BY <1>5, <1>10
    <2>2. fp \in 1..n
      <3> SUFFICES ASSUME fp = n + 1 PROVE FALSE
        BY <1>7
      <3>1. fp - 1 = n
        BY <1>3
      <3>2. QED
        BY <1>3, <2>1, <3>1
    <2>3. /\ At(fp - 1) \in Readings /\ At(fp) = ReadByte(At(fp - 1), env_seg[fp])
          /\ At(fp).ended = FALSE /\ At(fp - 1).ended = FALSE
      BY <1>5, <1>6, <2>2
    <2>4. env_seg[fp] = "nul" <=> At(fp).string = <<>>
      BY <2>1, <2>3, NextRead
    <2>5. QED
      BY <2>2, <2>3, <2>4
  <1>11. QED
    BY <1>3, <1>5, <1>8, <1>9, <1>10 DEF n

\* The walk stays in the strings, or leaves them behind.
LEMMA StartStep == ASSUME EnvInv, StartString PROVE EnvInv'
  <1>1. /\ env_pc = "skip" /\ env_pc' \in {"count", "string"} /\ osmajor >= 3 /\ fp' = fp + 1
        /\ env_pc' = "count" <=> env_seg[fp] = "nul"
        /\ envp' = envp /\ exe' = exe /\ room' = room /\ osmajor' = osmajor
        /\ fullname' = fullname /\ pp' = pp /\ env_blk' = env_blk /\ env_seg' = env_seg
    BY DEF StartString, ReadOn, parentVars
  <1>2. EnvTypeOK' /\ Copying' /\ Arriving'
    BY <1>1 DEF EnvInv, EnvTypeOK, Copying, Enough, Arriving, Before
  <1>3. fullname = <<>>
    BY <1>1 DEF EnvInv, Walking
  <1>4. envp # <<>> =>
          /\ Len(BlockOf(envp)) \in Nat /\ fp \in 1..Len(BlockOf(envp)) + 1
          /\ env_pc' = "count" => fp' = Len(BlockOf(envp)) + 2
          /\ env_pc' = "string" =>
               /\ fp' \in 1..Len(BlockOf(envp)) + 1 /\ fp' - 1 = fp
               /\ At(fp).ended = FALSE /\ At(fp).string # <<>>
    <2> SUFFICES ASSUME envp # <<>>
                 PROVE  /\ Len(BlockOf(envp)) \in Nat /\ fp \in 1..Len(BlockOf(envp)) + 1
                        /\ env_pc' = "count" => fp' = Len(BlockOf(envp)) + 2
                        /\ env_pc' = "string" =>
                             /\ fp' \in 1..Len(BlockOf(envp)) + 1 /\ fp' - 1 = fp
                             /\ At(fp).ended = FALSE /\ At(fp).string # <<>>
      OBVIOUS
    <2> DEFINE n == Len(BlockOf(envp))
    <2>1. /\ n \in Nat /\ fp \in 1..n + 1
          /\ env_seg[fp] = "nul" => fp = n + 1
          /\ env_seg[fp] # "nul" => fp \in 1..n /\ At(fp).ended = FALSE /\ At(fp).string # <<>>
      BY <1>1, InStrings
    <2> HIDE DEF n
    <2>2. env_pc' = "count" => fp' = n + 2
      BY <1>1, <2>1
    <2>3. env_pc' = "string" => /\ fp' \in 1..n + 1 /\ fp' - 1 = fp
                                /\ At(fp).ended = FALSE /\ At(fp).string # <<>>
      BY <1>1, <2>1
    <2>4. QED
      BY <2>1, <2>2, <2>3 DEF n
  <1>5. Walking'
    <2>1. fullname' = <<>> /\ osmajor' >= 3 /\ env_pc' \in {"count", "string"}
      BY <1>1, <1>3
    <2>2. ~(osmajor' < 3)
      BY <1>1 DEF EnvInv, EnvTypeOK
    <2>3. env_pc' = "string" /\ envp' # <<>> =>
            /\ fp' \in 1..Len(BlockOf(envp')) + 1 /\ ReadTo(env_seg')[fp' - 1].ended = FALSE
            /\ ReadTo(env_seg')[fp' - 1].string # <<>>
      BY <1>1, <1>4 DEF At
    <2>4. env_pc' = "count" /\ envp' # <<>> => fp' = Len(BlockOf(envp')) + 2
      BY <1>1, <1>4
    <2>5. QED
      BY <2>1, <2>2, <2>3, <2>4 DEF Walking, At
  <1>6. QED
    BY <1>2, <1>5 DEF EnvInv

LEMMA SkipStringStep == ASSUME EnvInv, SkipString PROVE EnvInv'
  <1>1. /\ env_pc = "string" /\ env_pc' \in {"skip", "string"} /\ fp' = fp + 1
        /\ env_pc' = "skip" <=> env_seg[fp] = "nul"
        /\ envp' = envp /\ exe' = exe /\ room' = room /\ osmajor' = osmajor
        /\ fullname' = fullname /\ pp' = pp /\ env_blk' = env_blk /\ env_seg' = env_seg
    BY DEF SkipString, ReadOn, parentVars
  <1>2. EnvTypeOK' /\ Copying' /\ Arriving'
    BY <1>1 DEF EnvInv, EnvTypeOK, Copying, Enough, Arriving, Before
  <1>3. fullname = <<>> /\ ~(osmajor < 3)
    BY <1>1 DEF EnvInv, Walking
  <1>4. envp # <<>> =>
          /\ fp' \in 1..Len(BlockOf(envp)) + 1 /\ fp' - 1 = fp /\ At(fp).ended = FALSE
          /\ env_pc' = "skip" <=> At(fp).string = <<>>
    <2> SUFFICES ASSUME envp # <<>>
                 PROVE  /\ fp' \in 1..Len(BlockOf(envp)) + 1 /\ fp' - 1 = fp /\ At(fp).ended = FALSE
                        /\ env_pc' = "skip" <=> At(fp).string = <<>>
      OBVIOUS
    <2> DEFINE n == Len(BlockOf(envp))
    <2>1. /\ n \in Nat /\ fp \in 1..n /\ At(fp).ended = FALSE
          /\ env_seg[fp] = "nul" <=> At(fp).string = <<>>
      BY <1>1, InStrings
    <2> HIDE DEF n
    <2>2. fp' \in 1..n + 1 /\ fp' - 1 = fp
      BY <1>1, <2>1
    <2>3. QED
      BY <1>1, <2>1, <2>2 DEF n
  <1>5. Walking'
    <2>1. fullname' = <<>> /\ ~(osmajor' < 3) /\ env_pc' \in {"skip", "string"}
      BY <1>1, <1>3
    <2>2. envp' # <<>> =>
            /\ fp' \in 1..Len(BlockOf(envp')) + 1 /\ ReadTo(env_seg')[fp' - 1].ended = FALSE
            /\ env_pc' = "skip" <=> ReadTo(env_seg')[fp' - 1].string = <<>>
      BY <1>1, <1>4 DEF At
    <2>3. QED
      BY <2>1, <2>2 DEF Walking, At
  <1>6. QED
    BY <1>2, <1>5 DEF EnvInv

LEMMA CountStep == ASSUME EnvInv, SkipCount PROVE EnvInv'
  <1>1. /\ env_pc = "count" /\ env_pc' = "path" /\ fp' = fp + 2
        /\ envp' = envp /\ exe' = exe /\ room' = room /\ osmajor' = osmajor
        /\ fullname' = fullname /\ pp' = pp /\ env_blk' = env_blk /\ env_seg' = env_seg
    BY DEF SkipCount, parentVars
  <1>2. EnvTypeOK' /\ Copying' /\ Arriving'
    BY <1>1 DEF EnvInv, EnvTypeOK, Copying, Enough, Arriving, Before
  <1>3. fullname = <<>> /\ ~(osmajor < 3) /\ (envp # <<>> => fp = Len(BlockOf(envp)) + 2)
    BY <1>1 DEF EnvInv, Walking
  <1>4. exe \in Seq(PartChars) /\ Len(exe) \in Nat /\ envp \in Seq(Names)
    BY DEF EnvInv, EnvTypeOK
  <1>5. envp # <<>> => Len(BlockOf(envp)) \in Nat
    BY <1>4, InSegment DEF EnvInv, EnvTypeOK
  <1>6. SubSeq(exe, 1, 0) = <<>> /\ Len(<<>>) = 0
    BY SubSeqEmpty
  <1>7. 0 <= WholeMax - 1
    BY PartsAssumption
  <1>8. envp # <<>> => fp' = Len(BlockOf(envp)) + 4 + 0
    BY <1>1, <1>3, <1>5
  <1>9. Walking'
    <2>1. fullname' = <<>> /\ Len(fullname') = 0 /\ ~(osmajor' < 3) /\ env_pc' = "path"
      BY <1>1, <1>3, <1>6
    <2>2. 0 \in 0..Len(exe') /\ fullname' = SubSeq(exe', 1, 0)
      BY <1>1, <1>3, <1>4, <1>6
    <2>3. envp' # <<>> => fp' = Len(BlockOf(envp')) + 4 + 0
      BY <1>1, <1>8
    <2>4. QED
      BY <1>7, <2>1, <2>2, <2>3 DEF Walking
  <1>10. QED
    BY <1>2, <1>9 DEF EnvInv

\* The first of two numbers, unless the second is less.
LEMMA LesserOf ==
  ASSUME NEW a \in Int, NEW b \in Int, NEW l \in {a, b}, l <= a, l <= b
  PROVE  Min({a, b}) = l
  <1> DEFINE m == Min({a, b})
  <1>1. m \in {a, b} /\ \A y \in {a, b} : m =< y
    <2>1. \E x \in {a, b} : \A y \in {a, b} : x =< y
      OBVIOUS
    <2>2. QED
      BY <2>1, Zenon DEF Min
  <1> HIDE DEF m
  <1>2. m = l
    BY <1>1
  <1>3. QED
    BY <1>2 DEF m

\* What the walk reads of the path.
LEMMA InPath ==
  ASSUME EnvInv, envp # <<>>, env_pc = "path"
  PROVE  LET l == Len(fullname) IN
         /\ l \in 0..Len(exe) /\ Len(exe) \in Nat /\ Len(BlockOf(envp)) \in Nat
         /\ fp = Len(BlockOf(envp)) + 4 + l
         /\ Len(env_seg) = Len(BlockOf(envp)) + 4 + Len(exe)
         /\ env_seg[fp] = "nul" <=> l = Len(exe)
         /\ l # Len(exe) => Append(fullname, env_seg[fp]) = SubSeq(exe, 1, l + 1)
  <1> DEFINE l == Len(fullname)
             n == Len(BlockOf(envp))
             k == Len(exe)
  <1>1. envp \in Seq(Names) /\ exe \in Seq(PartChars) /\ osmajor \in {2, 3} /\ osmajor >= 3
    <2>1. ~(osmajor < 3)
      BY DEF EnvInv, Walking
    <2>2. QED
      BY <2>1 DEF EnvInv, EnvTypeOK
  <1>2. env_seg = Segment(envp, osmajor, exe)
    BY DEF EnvInv, Arriving, Before
  <1>3. k \in Nat /\ l \in 0..k /\ fp = n + 4 + l /\ fullname = SubSeq(exe, 1, l)
    BY <1>1 DEF EnvInv, Walking
  <1> DEFINE r == Behind(osmajor, exe)
  <1>4. Len(r) = k + 4 /\ r[k + 4] = "nul" /\ \A i \in 1..k : r[3 + i] = exe[i]
    BY <1>1, BehindType
  <1>5. n \in Nat /\ Len(env_seg) = n + Len(r) /\ \A i \in 1..Len(r) : env_seg[n + i] = r[i]
    BY <1>1, <1>2, InSegment
  <1> HIDE DEF r, n, k, l
  <1>6. 4 + l \in 1..k + 4 /\ n + (4 + l) = fp
    BY <1>3, <1>5
  <1>7. env_seg[fp] = r[4 + l]
    BY <1>4, <1>5, <1>6
  <1>8. Len(env_seg) = n + 4 + k
    BY <1>3, <1>4, <1>5
  <1>9. CASE l = k
    <2>1. env_seg[fp] = "nul"
      <3>1. 4 + l = k + 4
        BY <1>3, <1>9
      <3>2. QED
        BY <1>4, <1>7, <3>1
    <2>2. QED
      BY <1>3, <1>5, <1>8, <1>9, <2>1 DEF l, n, k
  <1>10. CASE l # k
    <2>1. l + 1 \in 1..k /\ 3 + (l + 1) = 4 + l
      BY <1>3, <1>10
    <2>2. env_seg[fp] = exe[l + 1]
      BY <1>4, <1>7, <2>1
    <2>3. exe[l + 1] \in PartChars
      BY <1>1, <2>1 DEF k
    <2>4. env_seg[fp] # "nul"
      BY <2>2, <2>3 DEF PartChars
    <2>5. Append(fullname, env_seg[fp]) = SubSeq(exe, 1, l + 1)
      <3>1. 1 \in 1..Len(exe) /\ l + 1 \in 1..Len(exe) /\ (l + 1) - 1 = l
        BY <1>3, <2>1 DEF k
      <3>2. SubSeq(exe, 1, l + 1) = SubSeq(exe, 1, (l + 1) - 1) \o <<exe[l + 1]>>
        BY <1>1, <3>1, SubSeqRecursiveSecond
      <3>3. fullname \in Seq(PartChars)
        BY <1>1, <1>3, <3>1
      <3>4. Append(fullname, exe[l + 1]) = fullname \o <<exe[l + 1]>>
        BY <2>3, <3>3, AppendIsConcat
      <3>5. QED
        BY <1>3, <2>2, <3>1, <3>2, <3>4
    <2>6. QED
      BY <1>3, <1>5, <1>8, <1>10, <2>4, <2>5 DEF l, n, k
  <1>11. QED
    BY <1>9, <1>10

LEMMA PathStep == ASSUME EnvInv, CopyPath PROVE EnvInv'
  <1>1. /\ env_pc = "path" /\ env_pc' \in {"path", "split"} /\ fp' = fp + 1
        /\ env_pc' = "path" <=> env_seg[fp] # "nul" /\ Len(fullname) # WholeMax - 1
        /\ env_pc' = "path" => fullname' = Append(fullname, env_seg[fp])
        /\ env_pc' = "split" => fullname' = fullname
        /\ envp' = envp /\ exe' = exe /\ room' = room /\ osmajor' = osmajor
        /\ pp' = pp /\ env_blk' = env_blk /\ env_seg' = env_seg
    BY DEF CopyPath, ReadOn, parentVars
  <1>2. EnvTypeOK' /\ Copying' /\ Arriving'
    BY <1>1 DEF EnvInv, EnvTypeOK, Copying, Enough, Arriving, Before
  <1>3. ~(osmajor < 3)
    BY <1>1 DEF EnvInv, Walking
  <1>4. ASSUME envp # <<>>, env_pc' = "path"
        PROVE  /\ Len(fullname') \in 0..Len(exe) /\ Len(fullname') <= WholeMax - 1
               /\ fullname' = SubSeq(exe, 1, Len(fullname'))
               /\ fp' = Len(BlockOf(envp)) + 4 + Len(fullname')
    <2> DEFINE l == Len(fullname)
               n == Len(BlockOf(envp))
               k == Len(exe)
    <2>1. /\ l \in 0..k /\ k \in Nat /\ n \in Nat /\ fp = n + 4 + l /\ l # k
          /\ fullname' = SubSeq(exe, 1, l + 1)
      BY <1>1, <1>4, InPath
    <2>2. l <= WholeMax - 1 /\ l # WholeMax - 1 /\ exe \in Seq(PartChars) /\ WholeMax \in Nat
      BY <1>1, <1>4, PartsAssumption DEF EnvInv, Walking, EnvTypeOK
    <2> HIDE DEF l, n
    <2>3. l + 1 \in 1..k /\ l + 1 <= WholeMax - 1 /\ fp + 1 = n + 4 + (l + 1)
      BY <2>1, <2>2
    <2>4. Len(fullname') = l + 1
      <3>1. \A j \in 1..Len(exe) : Len(SubSeq(exe, 1, j)) = j
        BY <2>2
      <3>2. QED
        BY <2>1, <2>3, <3>1
    <2>5. QED
      BY <1>1, <2>1, <2>3, <2>4 DEF n
  <1>5. ASSUME envp # <<>>, env_pc' = "split"
        PROVE  /\ fullname = SubSeq(exe, 1, Min({Len(exe), WholeMax - 1}))
               /\ fp + 1 <= Len(env_seg) + 1
    <2> DEFINE l == Len(fullname)
               n == Len(BlockOf(envp))
               k == Len(exe)
    <2>1. /\ l \in 0..k /\ k \in Nat /\ n \in Nat /\ fp = n + 4 + l /\ Len(env_seg) = n + 4 + k
          /\ env_seg[fp] = "nul" <=> l = k
      BY <1>1, <1>5, InPath
    <2>2. l <= WholeMax - 1 /\ fullname = SubSeq(exe, 1, l) /\ WholeMax \in Nat
      BY <1>1, <1>5, PartsAssumption DEF EnvInv, Walking
    <2>3. l = k \/ l = WholeMax - 1
      BY <1>1, <1>5, <2>1
    <2> DEFINE m == WholeMax - 1
    <2> HIDE DEF l, n, k
    <2>4. l \in {k, m} /\ l <= k /\ l <= m /\ k \in Int /\ m \in Int
      BY <2>1, <2>2, <2>3
    <2> HIDE DEF m
    <2>5. Min({k, m}) = l
      BY ONLY <2>4, LesserOf
    <2>6. fp + 1 <= Len(env_seg) + 1
      BY <2>1
    <2>7. QED
      BY <2>2, <2>5, <2>6 DEF k, m
  <1>6. Walking'
    <2>1. ~(osmajor' < 3) /\ env_pc' \in {"path", "split"}
      BY <1>1, <1>3
    <2>2. env_pc' = "path" /\ envp' # <<>> =>
            /\ Len(fullname') \in 0..Len(exe') /\ Len(fullname') <= WholeMax - 1
            /\ fullname' = SubSeq(exe', 1, Len(fullname'))
            /\ fp' = Len(BlockOf(envp')) + 4 + Len(fullname')
      BY <1>1, <1>4
    <2>3. env_pc' = "split" /\ envp' # <<>> =>
            /\ fullname' = SubSeq(exe', 1, Min({Len(exe'), WholeMax - 1}))
            /\ fp' <= Len(env_seg') + 1
      BY <1>1, <1>5
    <2>4. QED
      BY <2>1, <2>2, <2>3 DEF Walking
  <1>7. QED
    BY <1>2, <1>6 DEF EnvInv

LEMMA NameStep == ASSUME EnvInv, NoPath \/ SplitName PROVE EnvInv'
  <1>1. /\ fp' = fp /\ fullname' = fullname
        /\ envp' = envp /\ exe' = exe /\ room' = room /\ osmajor' = osmajor
        /\ pp' = pp /\ env_blk' = env_blk /\ env_seg' = env_seg
    BY DEF NoPath, SplitName, StayThere, parentVars
  <1>2. CASE NoPath
    <2>1. env_pc = "skip" /\ env_pc' = "split" /\ osmajor < 3
      BY <1>2 DEF NoPath
    <2>2. EnvTypeOK' /\ Copying' /\ Arriving'
      BY <1>1, <2>1 DEF EnvInv, EnvTypeOK, Copying, Enough, Arriving, Before
    <2>3. fullname' = <<>> /\ osmajor' < 3 /\ ~(osmajor' >= 3) /\ fp' = 1
      BY <1>1, <2>1 DEF EnvInv, Walking, EnvTypeOK
    <2>4. Walking'
      BY <2>1, <2>3 DEF Walking
    <2>5. QED
      BY <2>2, <2>4 DEF EnvInv
  <1>3. CASE SplitName
    <2>1. env_pc = "split" /\ env_pc' = "done" /\ progname' = SplitOf(fullname).fname
      BY <1>3 DEF SplitName
    <2>2. EnvTypeOK' /\ Copying' /\ Arriving'
      BY <1>1, <2>1 DEF EnvInv, EnvTypeOK, Copying, Enough, Arriving, Before
    <2>3. progname' = SplitOf(fullname').fname
      BY <1>1, <2>1
    <2>4. /\ osmajor' < 3 => fullname' = <<>> /\ fp' = 1
          /\ osmajor' >= 3 /\ envp' # <<>> =>
               /\ fullname' = SubSeq(exe', 1, Min({Len(exe'), WholeMax - 1}))
               /\ fp' <= Len(env_seg') + 1
      BY <1>1, <2>1 DEF EnvInv, Walking
    <2>5. Walking'
      BY <2>1, <2>3, <2>4 DEF Walking
    <2>6. QED
      BY <2>2, <2>5 DEF EnvInv
  <1>4. QED
    BY <1>2, <1>3

LEMMA EnvInvStep == EnvInv /\ [EnvNext]_envVars => EnvInv'
  <1> SUFFICES ASSUME EnvInv, [EnvNext]_envVars PROVE EnvInv'
    OBVIOUS
  <1>1. CASE AllocateEnv
    BY <1>1, AllocateStep
  <1>2. CASE CopyString
    BY <1>2, CopyStep
  <1>3. CASE EndBlock
    BY <1>3, EndStep
  <1>4. CASE ExecCopy
    BY <1>4, ExecStep
  <1>5. CASE NoPath \/ SplitName
    BY <1>5, NameStep
  <1>6. CASE StartString
    BY <1>6, StartStep
  <1>7. CASE SkipString
    BY <1>7, SkipStringStep
  <1>8. CASE SkipCount
    BY <1>8, CountStep
  <1>9. CASE CopyPath
    BY <1>9, PathStep
  <1>10. CASE UNCHANGED envVars
    <2>1. /\ env_pc' = env_pc /\ fp' = fp /\ fullname' = fullname /\ progname' = progname
          /\ envp' = envp /\ exe' = exe /\ room' = room /\ osmajor' = osmajor
          /\ pp' = pp /\ env_blk' = env_blk /\ env_seg' = env_seg
      BY <1>10 DEF envVars, parentVars, childVars
    <2>2. EnvTypeOK' /\ Arriving'
      BY <2>1 DEF EnvInv, EnvTypeOK, Arriving, Before
    <2>3. Copying'
      BY <2>1 DEF EnvInv, Copying, Enough, Held
    <2>4. Walking'
      BY <2>1, SameWalk DEF EnvInv
    <2>5. QED
      BY <2>2, <2>3, <2>4 DEF EnvInv
  <1>11. QED
    BY <1>1, <1>2, <1>3, <1>4, <1>5, <1>6, <1>7, <1>8, <1>9, <1>10 DEF EnvNext

\* There is no name in an empty path.
LEMMA EmptySplit == SplitOf(<<>>).fname = <<>>
  <1> DEFINE e == <<>>
  <1>1. Len(e) = 0 /\ SubSeq(e, 1, 0) = e
    BY SubSeqEmpty
  <1>2. \A S : LastSingle(e, S) = 0
    <2> TAKE S
    <2> DEFINE T == {0} \union {j \in 1..Len(e) : e[j] \in S /\ ~Second(e)[j]}
    <2>1. T = {0}
      BY <1>1
    <2> HIDE DEF T
    <2>2. Max(T) = 0
      BY <2>1 DEF Max
    <2>3. QED
      BY <2>2 DEF LastSingle, T
  <1>3. ~HasDriveSpec(e)
    BY <1>1 DEF HasDriveSpec
  <1>4. CopyComponent(e, FnameMax) = e
    <2>1. FnameMax - 1 \in Int /\ 0 <= FnameMax - 1
      BY PartsAssumption
    <2>2. Min({0, FnameMax - 1}) = 0
      BY <2>1, LesserOf
    <2>3. QED
      BY <1>1, <2>2 DEF CopyComponent
  <1> HIDE DEF e
  <1>5. SubSeq(e, 0 + 1, Len(e)) = e
    BY <1>1
  <1>6. SplitOf(e).fname = CopyComponent(e, FnameMax)
    BY <1>1, <1>2, <1>3, <1>5 DEF SplitOf
  <1>7. QED
    BY <1>4, <1>6 DEF e

\* The block has the room it needs.
LEMMA BlockFits == EnvInv => Len(env_blk) <= room
  <1> SUFFICES ASSUME EnvInv PROVE Len(env_blk) <= room
    OBVIOUS
  <1> DEFINE n == SizesTo(envp)[Len(envp)]
             b == BlockOf(envp)
  <1>1. envp \in Seq(Names) /\ Len(envp) \in Nat /\ Len(envp) \in 0..Len(envp)
    BY DEF EnvInv, EnvTypeOK
  <1>2. /\ \A i \in 0..Len(envp) : Len(BlockTo(envp)[i]) = SizesTo(envp)[i] /\ SizesTo(envp)[i] <= n
        /\ \A i \in 0..Len(envp) : SizesTo(envp)[i] \in Nat
    BY <1>1, BlockSize, SizesDef
  <1>3. n \in Nat /\ Len(b) = n /\ b \in Bytes
    BY <1>1, <1>2, BlockToDef DEF BlockOf
  <1>4. CASE env_pc \in {"size", "ENOMEM"}
    BY <1>4, NoBytes DEF EnvInv, Copying
  <1>5. CASE env_pc = "copy"
    <2>1. PICK k \in 0..Len(envp) : env_blk = BlockTo(envp)[k]
      BY <1>5 DEF EnvInv, Copying, Held
    <2>2. n + 3 <= room /\ room \in Nat
      BY <1>5 DEF EnvInv, Copying, Enough
    <2> HIDE DEF n
    <2>3. Len(env_blk) \in Nat /\ Len(env_blk) <= n
      BY <1>2, <2>1
    <2>4. QED
      BY <1>3, <2>2, <2>3
  <1>6. CASE env_pc \notin {"size", "ENOMEM", "copy"}
    <2> DEFINE e == ThreeNuls
    <2>1. n + 3 <= room /\ room \in Nat /\ env_blk = b \o e
      BY <1>6 DEF EnvInv, Copying, Enough
    <2>2. b \in Seq(EnvChars) /\ e \in Seq(EnvChars) /\ Len(e) = 3
      BY <1>3 DEF Bytes, ThreeNuls, EnvChars
    <2> HIDE DEF n, b, e
    <2>3. Len(b \o e) = Len(b) + Len(e)
      BY <2>2, ConcatProperties
    <2>4. QED
      BY <1>3, <2>1, <2>2, <2>3
  <1>7. QED
    BY <1>4, <1>5, <1>6

\* The walk never leaves the segment.
LEMMA WalkStays == EnvInv /\ osmajor >= 3 /\ env_seg # <<>> /\ envp # <<>> => fp <= Len(env_seg) + 1
  <1> SUFFICES ASSUME EnvInv, osmajor >= 3, env_seg # <<>>, envp # <<>>
               PROVE  fp <= Len(env_seg) + 1
    OBVIOUS
  <1> DEFINE n == Len(BlockOf(envp))
             k == Len(exe)
  <1>1. /\ envp \in Seq(Names) /\ exe \in Seq(PartChars) /\ osmajor \in {2, 3}
        /\ env_pc \notin Before /\ env_seg = Segment(envp, osmajor, exe)
    BY DEF EnvInv, EnvTypeOK, Arriving
  <1>2. n \in Nat /\ k \in Nat /\ Len(env_seg) = n + (k + 4)
    <2>1. n \in Nat /\ Len(env_seg) = n + Len(Behind(osmajor, exe))
      BY <1>1, InSegment
    <2>2. Len(Behind(osmajor, exe)) = k + 4
      BY <1>1, BehindType
    <2>3. k \in Nat
      BY <1>1
    <2>4. QED
      BY <2>1, <2>2, <2>3
  <1>3. /\ env_pc \in {"skip", "string"} => fp \in 1..n + 1
        /\ env_pc = "count" => fp = n + 2
        /\ env_pc = "path" => Len(fullname) \in 0..k /\ fp = n + 4 + Len(fullname)
        /\ env_pc \in {"split", "done"} => fp <= Len(env_seg) + 1
    BY DEF EnvInv, Walking
  <1>4. env_pc \in {"skip", "string", "count", "path", "split", "done"}
    BY <1>1 DEF EnvInv, EnvTypeOK, Before
  <1> HIDE DEF n, k
  <1>5. CASE env_pc \in {"skip", "string"}
    BY <1>2, <1>3, <1>5
  <1>6. CASE env_pc = "count"
    BY <1>2, <1>3, <1>6
  <1>7. CASE env_pc = "path"
    BY <1>2, <1>3, <1>7
  <1>8. QED
    BY <1>3, <1>4, <1>5, <1>6, <1>7

LEMMA EnvInvArrives == EnvInv => EnvironmentArrives
  <1> SUFFICES ASSUME EnvInv PROVE EnvironmentArrives
    OBVIOUS
  <1>1. env_seg # <<>> /\ envp # <<>> =>
          Read(env_seg) = [strings |-> envp, string |-> <<>>, ended |-> TRUE]
    <2> SUFFICES ASSUME env_seg # <<>>, envp # <<>>
                 PROVE  Read(env_seg) = [strings |-> envp, string |-> <<>>, ended |-> TRUE]
      OBVIOUS
    <2>1. /\ envp \in Seq(Names) /\ exe \in Seq(PartChars) /\ osmajor \in {2, 3}
          /\ env_seg = Segment(envp, osmajor, exe)
      BY DEF EnvInv, EnvTypeOK, Arriving
    <2>2. Read(Segment(envp, osmajor, exe)) = EndedWith(envp)
      BY <2>1, InSegment
    <2>3. QED
      BY <2>1, <2>2 DEF EndedWith
  <1>2. env_pc = "done" /\ osmajor < 3 => progname = <<>>
    BY EmptySplit DEF EnvInv, Walking
  <1>3. env_pc = "done" /\ osmajor >= 3 /\ envp # <<>> =>
          progname = SplitOf(SubSeq(exe, 1, Min({Len(exe), WholeMax - 1}))).fname
    BY DEF EnvInv, Walking
  <1>4. QED
    BY <1>1, <1>2, <1>3, BlockFits, WalkStays DEF EnvironmentArrives

\* The block that make_env_blk sizes in one pass holds what it writes in another, and the
\* child finds in its segment the strings that the parent passed, and then its own name.
THEOREM EnvironmentAlwaysArrives == EnvSpec => []EnvironmentArrives
  <1>1. EnvSpec => []EnvInv
    BY EnvInvInit, EnvInvStep, PTL DEF EnvSpec
  <1>2. QED
    BY <1>1, EnvInvArrives, PTL
=============================================================================
