--------------------------- MODULE ConsoleProofs ----------------------------
(***************************************************************************)
(* Proofs about the console.  Of LineInput: what a user types never runs   *)
(* past the end of the line buffer, what cgets shows is the line it        *)
(* returns, the line is what the keys say, no byte is lost or read twice,  *)
(* and no old password remains.  Of ConsoleFds: what a program writes goes *)
(* to the console and the keys it reads come from it, however it was       *)
(* started, but for the two cases in which one constructor takes the       *)
(* other's handle, and a text is written as it is or the call says that it *)
(* was not.  They hold for every length of the buffer and every sequence   *)
(* of keys, texts, redirections, read failures and pushed-back bytes.  The *)
(* line as the keys say it, and the text as it is written, are recursions: *)
(* Induction gives their steps.                                            *)
(***************************************************************************)
EXTENDS LineInput, ConsoleFds, Induction, SequenceTheorems, TLAPS

-----------------------------------------------------------------------------
(* LineInput: the buffers and the bytes.                                   *)

IInv == TypeOK /\ LineFits /\ EchoIsLine

LEMMA Empty == ASSUME NEW S PROVE <<>> \in Seq(S) /\ Len(<<>>) = 0
  OBVIOUS

LEMMA Parts ==
  ASSUME NEW S, NEW s \in Seq(S), s # <<>>
  PROVE  Head(s) \in S /\ Tail(s) \in Seq(S)
  OBVIOUS

LEMMA Longer ==
  ASSUME NEW S, NEW s \in Seq(S), NEW x \in S
  PROVE  Append(s, x) \in Seq(S) /\ Len(Append(s, x)) = Len(s) + 1 /\ Len(s) \in Nat
  OBVIOUS

LEMMA Shorter ==
  ASSUME NEW S, NEW s \in Seq(S), s # <<>>
  PROVE  Erased(s) \in Seq(S) /\ Len(Erased(s)) = Len(s) - 1
  <1> DEFINE n == Len(s) - 1
  <1>1. Len(s) \in Nat /\ Len(s) >= 1 /\ 1 \in Int /\ n \in Nat /\ n \in Int
    OBVIOUS
  <1>2. \A i \in 1..n : s[i] \in S
    BY <1>1
  <1> HIDE DEF n
  <1>3. SubSeq(s, 1, n) \in Seq(S) /\ Len(SubSeq(s, 1, n)) = IF 1 <= n THEN n - 1 + 1 ELSE 0
    BY <1>1, <1>2, SubSeqProperties
  <1>4. Len(SubSeq(s, 1, n)) = n
    BY <1>1, <1>3
  <1>5. QED
    BY <1>3, <1>4 DEF Erased, n

LEMMA InitInvariant == Init => IInv
  <1> SUFFICES ASSUME Init PROVE IInv
    OBVIOUS
  <1>1. input \in Seq(Bytes)
    BY InputAssumption DEF Init
  <1>2. /\ line \in Seq(Printing) /\ Len(line) = 0 /\ shown \in Seq(Printing)
        /\ keys \in Seq(Bytes \union {"EOF"})
    BY Empty, Zenon DEF Init
  <1>3. TypeOK
    BY <1>1, <1>2 DEF Init, TypeOK
  <1>4. LineFits /\ EchoIsLine
    BY <1>2 DEF Init, LineFits, EchoIsLine
  <1>5. QED
    BY <1>3, <1>4 DEF IInv

\* Reading a byte, or pushing one back, keeps the types of what they change.
LEMMA GetchType ==
  ASSUME TypeOK, NEW c, Getch(c)
  PROVE  /\ c \in Bytes \union {"EOF"}
         /\ input' \in Seq(Bytes) /\ ungetch_buf' \in Bytes \union {"none"}
  <1>1. CASE ungetch_buf # "none"
    BY <1>1 DEF Getch, TypeOK
  <1>2. CASE ungetch_buf = "none" /\ c = "EOF" /\ UNCHANGED <<input, ungetch_buf>>
    BY <1>2 DEF TypeOK
  <1>3. CASE input # <<>> /\ c = Head(input) /\ input' = Tail(input) /\ UNCHANGED ungetch_buf
    BY <1>3, Parts DEF TypeOK
  <1>4. QED
    BY <1>1, <1>2, <1>3 DEF Getch

LEMMA ByteInvariant ==
  ASSUME IInv, (\E c \in Bytes : Ungetch(c)) \/ ReadByte
  PROVE  IInv'
  <1>1. input' \in Seq(Bytes) /\ ungetch_buf' \in Bytes \union {"none"}
    <2>1. CASE \E c \in Bytes : Ungetch(c)
      BY <2>1 DEF Ungetch, IInv, TypeOK
    <2>2. CASE ReadByte
      BY <2>2, GetchType DEF ReadByte, IInv
    <2>3. QED
      BY <2>1, <2>2
  <1>2. UNCHANGED reader
    BY DEF Ungetch, ReadByte
  <1>3. QED
    BY <1>1, <1>2 DEF reader, IInv, TypeOK, LineFits, EchoIsLine

LEMMA CallInvariant ==
  ASSUME IInv, (\E n \in MaxLens : Cgets(n)) \/ Getpass
  PROVE  IInv'
  <1>1. /\ line' \in Seq(Printing) /\ Len(line') = 0 /\ shown' = line'
        /\ keys' \in Seq(Bytes \union {"EOF"})
    BY Empty, Zenon DEF Cgets, Getpass
  <1>2. len' \in Nat
    BY InputAssumption DEF Cgets, Getpass
  <1>3. TypeOK'
    BY <1>1, <1>2 DEF Cgets, Getpass, IInv, TypeOK
  <1>4. LineFits' /\ EchoIsLine'
    BY <1>1, <1>2 DEF LineFits, EchoIsLine
  <1>5. QED
    BY <1>3, <1>4 DEF IInv

\* A step of a reader that leaves a line and an echo that fit.
LEMMA ReadInvariant ==
  ASSUME IInv, NEW c, Read(c),
         line' \in Seq(Printing), shown' \in Seq(Printing), beyond' \subseteq Printing,
         pc' \in {"ready", pc}, scan' \in BOOLEAN, pc' = "ready" => ~scan',
         Len(line') <= len, pc = "cgets" => shown' = line'
  PROVE  IInv'
  <1>1. /\ c \in Bytes \union {"EOF"}
        /\ input' \in Seq(Bytes) /\ ungetch_buf' \in Bytes \union {"none"}
    BY GetchType DEF Read, IInv
  <1>2. keys' \in Seq(Bytes \union {"EOF"}) /\ len' = len /\ pc \in {"cgets", "getpass"}
    BY <1>1, Longer DEF Read, IInv, TypeOK
  <1>3. TypeOK'
    BY <1>1, <1>2 DEF IInv, TypeOK
  <1>4. LineFits' /\ EchoIsLine'
    BY <1>2 DEF LineFits, EchoIsLine
  <1>5. QED
    BY <1>3, <1>4 DEF IInv

LEMMA LineInvariant ==
  ASSUME IInv,
         \/ EndLine \/ Backspace \/ Extended \/ ScanCode
         \/ \E c \in Printing \union {"ctl"} : Character(c)
  PROVE  IInv'
  <1>1. /\ line \in Seq(Printing) /\ shown \in Seq(Printing) /\ beyond \subseteq Printing
        /\ Len(line) <= len /\ (pc = "cgets" => shown = line) /\ len \in Nat
        /\ scan \in BOOLEAN /\ Len(line) \in Nat
    BY DEF IInv, TypeOK, LineFits, EchoIsLine
  <1>2. CASE EndLine
    <2>1. {line[i] : i \in 1..Len(line)} \subseteq Printing
      BY <1>1
    <2>2. PICK c \in {"cr", "EOF"} : Key(c)
      BY <1>2 DEF EndLine
    <2>3. beyond' \subseteq Printing
      BY <1>1, <1>2, <2>1 DEF EndLine
    <2>4. QED
      BY <1>1, <1>2, <2>2, <2>3, ReadInvariant DEF EndLine, Key
  <1>3. CASE Backspace
    <2>1. Read("bs") /\ ~scan /\ pc \in {"cgets", "getpass"} /\ UNCHANGED <<pc, scan, beyond>>
      BY <1>3 DEF Backspace, Key, Read
    <2>2. CASE line = <<>>
      BY <1>1, <1>3, <2>1, <2>2, ReadInvariant DEF Backspace
    <2>3. CASE line # <<>>
      <3>1. line' = Erased(line) /\ shown' = IF pc = "cgets" THEN Erased(shown) ELSE shown
        BY <1>3, <2>3 DEF Backspace, Echo
      <3>2. line' \in Seq(Printing) /\ Len(line') <= len
        BY <1>1, <2>3, <3>1, Shorter
      <3>3. shown' \in Seq(Printing) /\ (pc = "cgets" => shown' = line')
        BY <1>1, <3>1, <3>2
      <3>4. QED
        BY <1>1, <2>1, <3>2, <3>3, ReadInvariant
    <2>4. QED
      BY <2>2, <2>3
  <1>4. CASE Extended
    <2>1. pc # "ready"
      BY <1>4 DEF Extended, Key, Read
    <2>2. QED
      BY <1>1, <1>4, <2>1, ReadInvariant DEF Extended, Key
  <1>5. CASE ScanCode
    <2>1. PICK c \in Bytes \union {"EOF"} : Read(c)
      BY <1>5 DEF ScanCode
    <2>2. QED
      BY <1>1, <1>5, <2>1, ReadInvariant DEF ScanCode
  <1>6. ASSUME NEW c \in Printing \union {"ctl"}, Character(c) PROVE IInv'
    <2>1. Read(c) /\ ~scan /\ pc \in {"cgets", "getpass"} /\ UNCHANGED <<pc, scan, beyond>>
      BY <1>6 DEF Character, Key, Read
    <2>2. CASE Len(line) < len /\ c \in Printing
      <3>1. line' = Append(line, c) /\ shown' = IF pc = "cgets" THEN Append(shown, c) ELSE shown
        BY <1>6, <2>2 DEF Character, Echo
      <3>2. line' \in Seq(Printing) /\ Len(line') <= len
        BY <1>1, <2>2, <3>1, Longer
      <3>3. shown' \in Seq(Printing) /\ (pc = "cgets" => shown' = line')
        BY <1>1, <3>1, <3>2
      <3>4. QED
        BY <1>1, <2>1, <3>2, <3>3, ReadInvariant
    <2>3. CASE ~(Len(line) < len /\ c \in Printing)
      BY <1>1, <1>6, <2>1, <2>3, ReadInvariant DEF Character
    <2>4. QED
      BY <2>2, <2>3
  <1>7. QED
    BY <1>2, <1>3, <1>4, <1>5, <1>6

LEMMA StepInvariant == IInv /\ [Next]_vars => IInv'
  <1> SUFFICES ASSUME IInv, [Next]_vars PROVE IInv'
    OBVIOUS
  <1>1. CASE UNCHANGED vars
    BY <1>1 DEF vars, IInv, TypeOK, LineFits, EchoIsLine
  <1>2. QED
    BY <1>1, ByteInvariant, CallInvariant, LineInvariant DEF Next

\* cgets and getpass never store past the room they have, and cgets shows what it
\* stores, whatever the user types and however reading fails.
THEOREM LineInBuffer == Spec => [](LineFits /\ EchoIsLine)
  <1>1. IInv => LineFits /\ EchoIsLine
    BY DEF IInv
  <1>2. QED
    BY <1>1, InitInvariant, StepInvariant, PTL DEF Spec

-----------------------------------------------------------------------------
(* Nothing but the line.                                                   *)

LEMMA PasswordStep == PasswordAlone /\ [Next]_vars => PasswordAlone'
  <1> SUFFICES ASSUME PasswordAlone, [Next]_vars PROVE PasswordAlone'
    OBVIOUS
  <1>1. CASE UNCHANGED vars
    BY <1>1 DEF vars, PasswordAlone
  <1>2. CASE (\E c \in Bytes : Ungetch(c)) \/ ReadByte
    BY <1>2 DEF Ungetch, ReadByte, reader, PasswordAlone
  <1>3. CASE \E n \in MaxLens : Cgets(n)
    BY <1>3 DEF Cgets, PasswordAlone
  <1>4. CASE Getpass
    BY <1>4 DEF Getpass, PasswordAlone
  <1>5. CASE EndLine
    BY <1>5 DEF EndLine, PasswordAlone
  <1>6. CASE Backspace \/ Extended \/ ScanCode
    BY <1>6 DEF Backspace, Extended, ScanCode, PasswordAlone
  <1>7. CASE \E c \in Printing \union {"ctl"} : Character(c)
    BY <1>7 DEF Character, PasswordAlone
  <1>8. QED
    BY <1>1, <1>2, <1>3, <1>4, <1>5, <1>6, <1>7 DEF Next

\* What cgets shows is the line, and getpass's static buffer holds nothing but the
\* password being typed, whatever passwords came before it.
THEOREM NothingElseRemains == Spec => []NothingButTheLine
  <1>1. Init => PasswordAlone
    BY DEF Init, PasswordAlone
  <1>2. IInv /\ PasswordAlone => NothingButTheLine
    BY DEF IInv, NothingButTheLine
  <1>3. QED
    BY <1>1, <1>2, InitInvariant, StepInvariant, PasswordStep, PTL DEF Spec

-----------------------------------------------------------------------------
(* The order of the bytes.                                                 *)

LEMMA PushedBack ==
  ASSUME NEW S, NEW s \in Seq(S), NEW x \in S
  PROVE  <<x>> \o s # <<>> /\ Tail(<<x>> \o s) = s /\ <<>> \o s = s
  <1>1. <<x>> \in Seq(S) /\ Len(<<x>>) = 1 /\ <<>> \in Seq(S)
    OBVIOUS
  <1>2. <<x>> \o s \in Seq(S) /\ Len(<<x>> \o s) = Len(s) + 1
    BY <1>1
  <1>3. <<x>> \o s # <<>>
    BY <1>2
  <1>4. Tail(<<x>> \o s) = s
    BY <1>1
  <1>5. <<>> \o s = s
    OBVIOUS
  <1>6. QED
    BY <1>3, <1>4, <1>5

InTurn == \/ Due' = Due
          \/ Due # <<>> /\ Due' = Tail(Due)
          \/ Due' # <<>> /\ Tail(Due') = Due

LEMMA GetchInTurn ==
  ASSUME TypeOK, NEW c, Getch(c)
  PROVE  InTurn
  <1>1. CASE ungetch_buf # "none"
    <2>1. ungetch_buf \in Bytes /\ input \in Seq(Bytes)
      BY <1>1 DEF TypeOK
    <2>2. Due = <<ungetch_buf>> \o input
      BY <1>1 DEF Due
    <2>3. Due' = <<>> \o input
      BY <1>1 DEF Due, Getch
    <2>4. QED
      BY <2>1, <2>2, <2>3, PushedBack, Zenon DEF InTurn
  <1>2. CASE ungetch_buf = "none" /\ UNCHANGED <<input, ungetch_buf>>
    BY <1>2 DEF InTurn, Due
  <1>3. CASE ungetch_buf = "none" /\ input # <<>> /\ input' = Tail(input) /\ UNCHANGED ungetch_buf
    <2>1. input \in Seq(Bytes) /\ input' \in Seq(Bytes)
      BY <1>3, Parts DEF TypeOK
    <2>2. <<>> \o input = input /\ <<>> \o input' = input'
      BY <2>1
    <2>3. Due = input /\ Due' = Tail(input)
      BY <1>3, <2>2 DEF Due
    <2>4. QED
      BY <1>3, <2>3 DEF InTurn
  <1>4. QED
    BY <1>1, <1>2, <1>3 DEF Getch

LEMMA StepInTurn ==
  ASSUME TypeOK, [Next]_vars
  PROVE  InTurn
  <1>1. CASE UNCHANGED vars
    BY <1>1 DEF vars, InTurn, Due
  <1>2. ASSUME NEW c \in Bytes, Ungetch(c) PROVE InTurn
    <2>1. c # "none" /\ input \in Seq(Bytes)
      BY InputAssumption DEF Bytes, TypeOK
    <2>2. Due = <<>> \o input /\ Due' = <<c>> \o input
      BY <1>2, <2>1 DEF Due, Ungetch
    <2>3. QED
      BY <2>1, <2>2, PushedBack, Zenon DEF InTurn
  <1>3. CASE (\E n \in MaxLens : Cgets(n)) \/ Getpass
    BY <1>3 DEF Cgets, Getpass, InTurn, Due
  <1>4. CASE ReadByte
    BY <1>4, GetchInTurn DEF ReadByte
  <1>5. CASE \/ EndLine \/ Backspace \/ Extended \/ ScanCode
             \/ \E c \in Printing \union {"ctl"} : Character(c)
    <2>1. PICK c : Read(c)
      BY <1>5 DEF EndLine, Backspace, Extended, ScanCode, Character, Key
    <2>2. QED
      BY <2>1, GetchInTurn DEF Read
  <1>6. QED
    BY <1>1, <1>2, <1>3, <1>4, <1>5 DEF Next

\* No byte that is typed or pushed back is lost, read twice or read out of turn,
\* whichever calls read and push back, and in whatever order.
THEOREM BytesAlwaysInTurn == Spec => BytesInTurn
  <1>1. IInv /\ [Next]_vars => [InTurn]_vars
    BY StepInTurn DEF IInv
  <1>2. QED
    BY <1>1, InitInvariant, StepInvariant, PTL DEF Spec, BytesInTurn, InTurn

-----------------------------------------------------------------------------
(* LineInput: the line is what the keys say.                               *)

\* Which bytes of k are the second ones of extended keys, as Edited has it.
Seconds(k) ==
  LET second[i \in 0..Len(k)] == IF i <= 1 THEN FALSE ELSE k[i - 1] = "nul" /\ ~second[i - 1]
  IN  second

\* What the byte c makes of the line l, and the lines that the bytes of k leave.
EditBy(l, c, second, n) ==
  IF second THEN l
  ELSE IF c = "bs" /\ l # <<>> THEN Erased(l)
  ELSE IF c \in Printing /\ Len(l) < n THEN Append(l, c)
  ELSE l
Edits(k, n) ==
  LET edit[i \in 0..Len(k)] ==
        IF i = 0 THEN <<>> ELSE EditBy(edit[i - 1], k[i], Seconds(k)[i], n)
  IN  edit

LEMMA EditedIsLast == \A k, n : Edited(k, n) = Edits(k, n)[Len(k)]
  BY DEF Edited, Edits, EditBy, Seconds

LEMMA SecondsDef ==
  ASSUME NEW S, NEW k \in Seq(S)
  PROVE  /\ Seconds(k) \in [0..Len(k) -> BOOLEAN]
         /\ \A i \in 0..Len(k) :
              Seconds(k)[i] = IF i <= 1 THEN FALSE ELSE k[i - 1] = "nul" /\ ~Seconds(k)[i - 1]
  <1> DEFINE D == [i \in 1..Len(k) |->
                     [v \in BOOLEAN |-> IF i <= 1 THEN FALSE ELSE k[i - 1] = "nul" /\ ~v]]
             Good(g) == g = [i \in 0..Len(k) |->
                               IF i <= 1 THEN FALSE ELSE k[i - 1] = "nul" /\ ~g[i - 1]]
  <1>1. D \in Steps(0, Len(k), BOOLEAN)
    <2>1. D \in [1..Len(k) -> [BOOLEAN -> BOOLEAN]]
      OBVIOUS
    <2> HIDE DEF D
    <2>2. QED
      BY <2>1, StepsFrom0
  <1>2. PICK g : g \in Obeying(0, Len(k), BOOLEAN, FALSE, D)
    <2> HIDE DEF D, Good
    <2>1. 0 \in Int /\ Len(k) \in Int /\ FALSE \in BOOLEAN
      OBVIOUS
    <2>2. QED
      BY <1>1, <2>1, RecursionDefines, Zenon
  <1>3. g \in [0..Len(k) -> BOOLEAN] /\ Good(g)
    <2>1. \A i \in 1..Len(k) : i - 1 \in 0..Len(k)
      OBVIOUS
    <2>2. g \in [0..Len(k) -> BOOLEAN]
      BY <1>2 DEF Obeying
    <2>3. g[0] = FALSE /\ \A i \in 1..Len(k) : g[i] = D[i][g[i - 1]]
      BY <1>2 DEF Obeying
    <2>4. QED
      BY <2>1, <2>2, <2>3
  <1>4. Good(Seconds(k))
    <2> HIDE DEF D
    <2>1. Seconds(k) = CHOOSE f : Good(f)
      BY DEF Seconds
    <2> HIDE DEF Good
    <2>2. QED
      BY <1>3, <2>1
  <1>5. \A i \in 0..Len(k) :
              Seconds(k)[i] = IF i <= 1 THEN FALSE ELSE k[i - 1] = "nul" /\ ~Seconds(k)[i - 1]
    BY <1>4
  <1>6. QED
    BY <1>4, <1>5

\* The same in three facts.
LEMMA SecondsSay ==
  ASSUME NEW S, NEW k \in Seq(S), NEW i \in 0..Len(k)
  PROVE  /\ Seconds(k)[i] \in BOOLEAN
         /\ i <= 1 => Seconds(k)[i] = FALSE
         /\ i > 1 => ((Seconds(k)[i] = TRUE) <=> (k[i - 1] = "nul" /\ Seconds(k)[i - 1] = FALSE))
  <1>1. Seconds(k)[i] \in BOOLEAN
    BY SecondsDef
  <1>2. i > 1 => i - 1 \in 0..Len(k)
    OBVIOUS
  <1>3. i > 1 => i - 1 \in 0..Len(k) /\ Seconds(k)[i - 1] \in BOOLEAN
    BY <1>2, SecondsDef
  <1>4. Seconds(k)[i] = IF i <= 1 THEN FALSE ELSE k[i - 1] = "nul" /\ ~Seconds(k)[i - 1]
    BY SecondsDef
  <1>5. CASE i <= 1
    BY <1>1, <1>4, <1>5
  <1>6. CASE ~(i <= 1)
    BY <1>1, <1>3, <1>4, <1>6
  <1>7. QED
    BY <1>1, <1>5, <1>6

LEMMA EditByType ==
  ASSUME NEW l \in Seq(Printing), NEW c, NEW second, NEW n
  PROVE  EditBy(l, c, second, n) \in Seq(Printing)
  <1>1. CASE c = "bs" /\ l # <<>>
    BY <1>1, Shorter DEF EditBy
  <1>2. CASE ~(c = "bs" /\ l # <<>>)
    BY <1>2, Longer DEF EditBy
  <1>3. QED
    BY <1>1, <1>2

LEMMA EditsDef ==
  ASSUME NEW S, NEW k \in Seq(S), NEW n
  PROVE  /\ \A i \in 0..Len(k) : Edits(k, n)[i] \in Seq(Printing)
         /\ Edits(k, n)[0] = <<>>
         /\ \A i \in 1..Len(k) :
              Edits(k, n)[i] = EditBy(Edits(k, n)[i - 1], k[i], Seconds(k)[i], n)
  <1> DEFINE V == Seq(Printing)
             E(i, l) == EditBy(l, k[i], Seconds(k)[i], n)
             D == [i \in 1..Len(k) |-> [l \in V |-> E(i, l)]]
             Good(g) == g = [i \in 0..Len(k) |-> IF i = 0 THEN <<>> ELSE E(i, g[i - 1])]
  <1>1. \A i \in 1..Len(k) : \A l \in V : E(i, l) \in V
    BY EditByType
  <1>2. <<>> \in V
    BY Empty, Zenon
  <1>3. D \in Steps(0, Len(k), V)
    <2> HIDE DEF E, V
    <2>1. D \in [1..Len(k) -> [V -> V]]
      BY <1>1
    <2> HIDE DEF D
    <2>2. QED
      BY <2>1, StepsFrom0
  <1>4. PICK g : g \in Obeying(0, Len(k), V, <<>>, D)
    <2> HIDE DEF D, Good, V
    <2>1. 0 \in Int /\ Len(k) \in Int
      OBVIOUS
    <2>2. QED
      BY <1>3, <1>2, <2>1, RecursionDefines, Zenon
  <1>5. g \in [0..Len(k) -> V] /\ Good(g)
    <2> HIDE DEF E, V
    <2>1. \A i \in 1..Len(k) : i - 1 \in 0..Len(k)
      OBVIOUS
    <2>2. g \in [0..Len(k) -> V]
      BY <1>4 DEF Obeying
    <2>3. g[0] = <<>> /\ \A i \in 1..Len(k) : g[i] = D[i][g[i - 1]]
      BY <1>4 DEF Obeying
    <2>4. QED
      BY <2>1, <2>2, <2>3
  <1>6. Good(Edits(k, n))
    <2> HIDE DEF D
    <2>1. Edits(k, n) = CHOOSE f : Good(f)
      BY DEF Edits
    <2> HIDE DEF Good
    <2>2. QED
      BY <1>5, <2>1
  <1> HIDE DEF E, D
  <1>7. /\ Edits(k, n)[0] = <<>>
        /\ \A i \in 1..Len(k) : Edits(k, n)[i] = E(i, Edits(k, n)[i - 1])
    BY <1>6
  <1>8. \A i \in 0..Len(k) : Edits(k, n)[i] \in V
    <2> HIDE DEF Good, V
    <2>1. \A i \in 1..Len(k) : Edits(k, n)[i - 1] \in V => Edits(k, n)[i] \in V
      BY <1>1, <1>7
    <2>2. Len(k) \in Nat /\ Edits(k, n)[0] \in V
      BY <1>2, <1>7
    <2>3. QED
      BY <2>1, <2>2, TypedFrom0, Zenon
  <1>9. QED
    BY <1>7, <1>8 DEF E

\* Whether the byte after the keys k is the second of an extended key.
AfterNul(k) == Len(k) # 0 /\ k[Len(k)] = "nul" /\ ~Seconds(k)[Len(k)]

LEMMA Appended ==
  ASSUME NEW S, NEW k \in Seq(S), NEW c \in S
  PROVE  /\ Append(k, c) \in Seq(S) /\ Len(Append(k, c)) = Len(k) + 1
         /\ Append(k, c)[Len(k) + 1] = c
         /\ \A i \in 1..Len(k) : Append(k, c)[i] = k[i]
  OBVIOUS

\* One more key edits the line as the key says.
LEMMA EditedOnce ==
  ASSUME NEW S, NEW k \in Seq(S), NEW c \in S, NEW n
  PROVE  /\ Edited(Append(k, c), n) = EditBy(Edited(k, n), c, AfterNul(k), n)
         /\ AfterNul(Append(k, c)) = (c = "nul" /\ ~AfterNul(k))
  <1> DEFINE m == Append(k, c)
             K == Len(k)
  <1>1. /\ m \in Seq(S) /\ Len(m) = K + 1 /\ m[K + 1] = c
        /\ \A i \in 1..K : m[i] = k[i]
    BY Appended
  <1>2. K \in Nat
    OBVIOUS
  <1> HIDE DEF m, K
  <1>3. \A i \in 0..K : Seconds(m)[i] = Seconds(k)[i]
    <2>1. ASSUME NEW i \in 1..K, Seconds(m)[i - 1] = Seconds(k)[i - 1]
          PROVE  Seconds(m)[i] = Seconds(k)[i]
      <3>1. i \in 0..Len(k) /\ i \in 0..Len(m) /\ (i > 1 => i - 1 \in 1..K) /\ (i <= 1 \/ i > 1)
        BY <1>1, <1>2 DEF K
      <3>2. /\ Seconds(m)[i] \in BOOLEAN /\ Seconds(k)[i] \in BOOLEAN
            /\ i <= 1 => Seconds(m)[i] = FALSE /\ Seconds(k)[i] = FALSE
        BY <1>1, <3>1, SecondsSay
      <3>3. i > 1 => ((Seconds(k)[i] = TRUE) <=> (k[i - 1] = "nul" /\ Seconds(k)[i - 1] = FALSE))
        BY <3>1, SecondsSay
      <3>4. i > 1 => ((Seconds(m)[i] = TRUE) <=> (m[i - 1] = "nul" /\ Seconds(m)[i - 1] = FALSE))
        BY <1>1, <3>1, SecondsSay
      <3>5. i > 1 => k[i - 1] = m[i - 1]
        BY <1>1, <3>1
      <3>6. QED
        BY <2>1, <3>1, <3>2, <3>3, <3>4, <3>5
    <2>2. K \in Nat /\ Seconds(m)[0] = Seconds(k)[0]
      <3>1. 0 \in 0..Len(k) /\ 0 \in 0..Len(m) /\ 0 <= 1
        BY <1>1, <1>2 DEF K
      <3>2. Seconds(m)[0] = FALSE /\ Seconds(k)[0] = FALSE
        BY <1>1, <3>1, SecondsSay, Zenon
      <3>3. QED
        BY <1>2, <3>2
    <2>3. Alike(K, Seconds(m), Seconds(k))
      BY <2>1, <2>2 DEF Alike
    <2>4. QED
      BY <2>2, <2>3, AlikeAgree, Zenon
  <1>4. AfterNul(k) \in BOOLEAN /\ AfterNul(m) \in BOOLEAN
    BY DEF AfterNul
  <1>5. Seconds(m)[K + 1] = AfterNul(k)
    <2>1. K + 1 \in 0..Len(m) /\ (K = 0 => K + 1 <= 1)
      BY <1>1, <1>2
    <2>2. /\ K + 1 \in 0..Len(m) /\ Seconds(m)[K + 1] \in BOOLEAN
          /\ K = 0 => Seconds(m)[K + 1] = FALSE
      BY <1>1, <2>1, SecondsSay, Zenon
    <2>3. CASE K = 0
      <3>1. Seconds(m)[K + 1] = FALSE
        BY <2>2, <2>3
      <3>2. QED
        BY <2>3, <3>1 DEF AfterNul, K
    <2>4. CASE K # 0
      <3>1. K \in 1..K /\ K \in 0..K /\ K + 1 > 1 /\ (K + 1) - 1 = K /\ K \in 0..Len(k)
        BY <1>2, <2>4 DEF K
      <3>2. (Seconds(m)[K + 1] = TRUE) <=> (m[K] = "nul" /\ Seconds(m)[K] = FALSE)
        BY <1>1, <2>2, <3>1, SecondsSay, ZenonT(60)
      <3>3. m[K] = k[K] /\ Seconds(m)[K] = Seconds(k)[K] /\ Seconds(k)[K] \in BOOLEAN
        BY <1>1, <1>3, <3>1, SecondsSay
      <3>4. AfterNul(k) = (k[K] = "nul" /\ Seconds(k)[K] = FALSE)
        BY <2>4, <3>3 DEF AfterNul, K
      <3>5. QED
        BY <1>4, <2>2, <3>2, <3>3, <3>4
    <2>5. QED
      BY <2>3, <2>4
  <1>6. AfterNul(m) = (c = "nul" /\ ~AfterNul(k))
    <2>1. K + 1 # 0
      BY <1>2
    <2>2. AfterNul(m) = (m[K + 1] = "nul" /\ ~Seconds(m)[K + 1])
      BY <1>1, <2>1 DEF AfterNul
    <2>3. QED
      BY <1>1, <1>5, <2>2
  <1>7. /\ Edits(k, n)[0] = <<>> /\ Edits(m, n)[0] = <<>>
        /\ \A i \in 1..K : Edits(k, n)[i] = EditBy(Edits(k, n)[i - 1], k[i], Seconds(k)[i], n)
        /\ \A i \in 1..K + 1 : Edits(m, n)[i] = EditBy(Edits(m, n)[i - 1], m[i], Seconds(m)[i], n)
    BY <1>1, EditsDef DEF K
  <1>8. \A i \in 0..K : Edits(m, n)[i] = Edits(k, n)[i]
    <2>1. \A i \in 1..K : Edits(m, n)[i - 1] = Edits(k, n)[i - 1] => Edits(m, n)[i] = Edits(k, n)[i]
      <3> SUFFICES ASSUME NEW i \in 1..K, Edits(m, n)[i - 1] = Edits(k, n)[i - 1]
                   PROVE  Edits(m, n)[i] = Edits(k, n)[i]
        OBVIOUS
      <3>1. i \in 0..K /\ i \in 1..K + 1
        BY <1>2
      <3>2. QED
        BY <1>1, <1>3, <1>7, <3>1
    <2>2. Edits(m, n)[0] = Edits(k, n)[0]
      BY <1>7
    <2>3. Alike(K, Edits(m, n), Edits(k, n))
      BY <2>1, <2>2 DEF Alike
    <2>4. QED
      BY <1>2, <2>3, AlikeAgree, Zenon
  <1>9. Edited(m, n) = EditBy(Edited(k, n), c, AfterNul(k), n)
    <2>1. K + 1 \in 1..K + 1 /\ K \in 0..K /\ (K + 1) - 1 = K
      BY <1>2
    <2>2. Edited(m, n) = EditBy(Edits(m, n)[K], c, AfterNul(k), n)
      BY <1>1, <1>5, <1>7, <2>1, EditedIsLast
    <2>3. Edited(k, n) = Edits(m, n)[K]
      BY <1>8, <2>1, EditedIsLast DEF K
    <2>4. QED
      BY <2>2, <2>3
  <1>10. QED
    BY <1>6, <1>9 DEF m

LEMMA EditedNone == \A n : Edited(<<>>, n) = <<>> /\ AfterNul(<<>>) = FALSE
  <1> TAKE n
  <1>1. <<>> \in Seq({}) /\ Len(<<>>) = 0
    OBVIOUS
  <1>2. Edited(<<>>, n) = <<>>
    BY <1>1, EditsDef, EditedIsLast
  <1>3. QED
    BY <1>1, <1>2 DEF AfterNul

\* The line follows from the keys, and so does whether the next byte is the second of a key.
EditInv == LineIsEdited /\ (pc # "ready" => scan = AfterNul(keys))

LEMMA EditInvInit == Init => EditInv
  BY EditedNone DEF Init, EditInv, LineIsEdited

\* A step of a reader that edits the line as the key says.
LEMMA EditStep ==
  ASSUME TypeOK, EditInv, NEW c, Read(c), line' = EditBy(line, c, scan, len),
         pc' # "ready" => scan' = (c = "nul" /\ ~scan)
  PROVE  EditInv'
  <1>1. keys \in Seq(Bytes \union {"EOF"}) /\ c \in Bytes \union {"EOF"}
    BY GetchType DEF TypeOK, Read
  <1>2. keys' = Append(keys, c) /\ len' = len /\ pc # "ready" /\ scan = AfterNul(keys)
    BY DEF Read, EditInv
  <1>3. /\ Edited(keys', len') = EditBy(Edited(keys, len), c, scan, len)
        /\ AfterNul(keys') = (c = "nul" /\ ~scan)
    BY <1>1, <1>2, EditedOnce
  <1>4. QED
    BY <1>2, <1>3 DEF EditInv, LineIsEdited

LEMMA EditInvNext == TypeOK /\ EditInv /\ [Next]_vars => EditInv'
  <1> SUFFICES ASSUME TypeOK, EditInv, [Next]_vars PROVE EditInv'
    OBVIOUS
  <1>1. CASE UNCHANGED vars
    BY <1>1 DEF vars, EditInv, LineIsEdited
  <1>2. CASE (\E c \in Bytes : Ungetch(c)) \/ ReadByte
    BY <1>2 DEF Ungetch, ReadByte, reader, EditInv, LineIsEdited
  <1>3. CASE (\E n \in MaxLens : Cgets(n)) \/ Getpass
    <2>1. line' = <<>> /\ keys' = <<>> /\ scan' = FALSE
      BY <1>3 DEF Cgets, Getpass, TypeOK
    <2>2. QED
      BY <2>1, EditedNone DEF EditInv, LineIsEdited
  <1>4. scan \in BOOLEAN /\ line \in Seq(Printing)
    BY DEF TypeOK
  <1>5. CASE EndLine
    <2>1. PICK c \in {"cr", "EOF"} : Key(c)
      BY <1>5 DEF EndLine
    <2>2. ~scan /\ Read(c) /\ line' = line /\ c \notin Printing /\ c # "bs" /\ pc' = "ready"
      BY <1>5, <2>1, InputAssumption DEF EndLine, Key
    <2>3. line' = EditBy(line, c, scan, len)
      BY <2>2 DEF EditBy
    <2>4. QED
      BY <2>2, <2>3, EditStep
  <1>6. CASE Backspace
    <2>1. ~scan /\ Read("bs") /\ scan' = scan /\ "bs" \notin Printing
      BY <1>6, InputAssumption DEF Backspace, Key
    <2>2. line' = EditBy(line, "bs", scan, len)
      BY <1>6, <2>1 DEF EditBy, Backspace
    <2>3. QED
      BY <1>4, <2>1, <2>2, EditStep
  <1>7. CASE Extended
    <2>1. ~scan /\ Read("nul") /\ scan' = TRUE /\ "nul" \notin Printing /\ line' = line
      BY <1>7, InputAssumption DEF Extended, Key
    <2>2. line' = EditBy(line, "nul", scan, len)
      BY <2>1 DEF EditBy
    <2>3. QED
      BY <1>4, <2>1, <2>2, EditStep
  <1>8. CASE ScanCode
    <2>1. PICK c : Read(c)
      BY <1>8 DEF ScanCode
    <2>2. scan /\ scan' = FALSE /\ line' = line
      BY <1>8 DEF ScanCode
    <2>3. line' = EditBy(line, c, scan, len)
      BY <2>2 DEF EditBy
    <2>4. QED
      BY <1>4, <2>1, <2>2, <2>3, EditStep
  <1>9. ASSUME NEW c \in Printing \union {"ctl"}, Character(c) PROVE EditInv'
    <2>1. ~scan /\ Read(c) /\ scan' = scan /\ c \notin {"bs", "nul"}
      BY <1>9, InputAssumption DEF Character, Key
    <2>2. line' = EditBy(line, c, scan, len)
      BY <1>9, <2>1 DEF EditBy, Character
    <2>3. QED
      BY <1>4, <2>1, <2>2, EditStep
  <1>10. QED
    BY <1>1, <1>2, <1>3, <1>5, <1>6, <1>7, <1>8, <1>9 DEF Next

THEOREM LineSaysWhatWasTyped == Spec => []LineIsEdited
  <1>1. EditInv => LineIsEdited
    BY DEF EditInv
  <1>2. IInv => TypeOK
    BY DEF IInv
  <1>3. QED
    BY <1>1, <1>2, InitInvariant, StepInvariant, EditInvInit, EditInvNext, PTL DEF Spec

-----------------------------------------------------------------------------
(* ConsoleFds: what is used is the console.                                *)

\* What may be behind a handle; where the handles, and what the program found, are.
Devices == {Console("both"), Console("read"), Console("write"), File, Closed}

HandlesAre == /\ build \in {"gcc", "elks", "ack"}
              /\ handles \in [Fds -> Devices] /\ con_in_fd \in Fds /\ con_out_fd \in Fds
              /\ started \in [0..1 -> {"con", "file", "none"}]

\* The constructors that are still to run are those that the build has.
ConstructorsLeft ==
  /\ build = "ack" => todo \in {{}, {"done"}} /\ ~saved
  /\ build # "ack" => todo \subseteq {"in", "out", "vid"} /\ (con_pc # "init" => todo = {})
  /\ build = "elks" => todo = {} \/ "vid" \in todo
  /\ con_pc = "init" => con_out_fp = -1 /\ key_source = "none"

\* Handles that were given stay as they were given; one that was not is free, or is
\* the console, opened by the constructor that ran before the one to come.
OutToCome == "out" \in todo \/ (build = "ack" /\ todo = {})
GivenKept == \A f \in 0..1 : /\ started[f] = "con" => handles[f] = Console("both")
                             /\ started[f] = "file" => handles[f] = File
InIsFree ==
  "in" \in todo /\ started[0] = "none" =>
    \/ handles[0] = Closed /\ con_out_fd # 0
    \/ handles[0] = Console("write") /\ con_out_fd = 0 /\ started[1] # "con"
OutIsFree ==
  OutToCome /\ started[1] = "none" =>
    \/ handles[1] = Closed /\ con_in_fd # 1
    \/ handles[1] = Console("read") /\ con_in_fd = 1 /\ started[0] = "file"

\* The handle for input, once its constructor has run, is the console, open the right
\* way but in one case; no constructor leaves the handle it looks at free.
InIsFound ==
  /\ "in" \in todo \/ build = "ack" => con_in_fd = 0 /\ ~saved
  /\ opens /\ build # "ack" /\ "in" \notin todo =>
       /\ IsConsole(con_in_fd) /\ (CanRead <=> ~KeysLost)
       /\ started[0] = "none" => handles[0] # Closed
  /\ saved => build = "elks" \/ con_in_fd # 0

\* The handle for output likewise.
OutIsFound ==
  /\ OutToCome => con_out_fd = 1
  /\ opens /\ ~OutToCome =>
       /\ IsConsole(con_out_fd) /\ (CanWrite <=> ~OutputLost)
       /\ started[1] = "none" /\ started[0] # "none" => handles[1] # Closed

FdInv == /\ HandlesAre /\ ConstructorsLeft /\ GivenKept /\ InIsFree /\ OutIsFree
         /\ InIsFound /\ OutIsFound
         /\ StreamIsOnIt /\ ModeGivenBack
         /\ build # "ack" /\ opens => key_source \in {"none", "con"}

LEMMA FdInvInit == ConInit => FdInv
  <1> SUFFICES ASSUME ConInit PROVE FdInv
    OBVIOUS
  <1>1. build \in {"gcc", "elks", "ack"} /\ started \in [0..1 -> {"con", "file", "none"}]
    BY ConAssumption DEF ConInit
  <1>2. started[0] \in {"con", "file", "none"} /\ started[1] \in {"con", "file", "none"}
    BY <1>1
  <1>3. \A f \in Fds : handles[f] = IF f = 2 THEN Console("both")
                                    ELSE IF f > 2 THEN Closed
                                    ELSE CASE started[f] = "con" -> Console("both")
                                           [] started[f] = "file" -> File
                                           [] started[f] = "none" -> Closed
    BY DEF ConInit
  <1>4. \A f \in Fds : handles[f] \in Devices
    <2> TAKE f \in Fds
    <2>1. f = 0 \/ f = 1 \/ f = 2 \/ f > 2
      BY DEF Fds
    <2>2. QED
      BY <1>2, <1>3, <2>1 DEF Devices
  <1>5. handles \in [Fds -> Devices]
    BY <1>4 DEF ConInit
  <1>6. 0 \in Fds /\ 1 \in Fds
    BY DEF Fds
  <1>7. HandlesAre
    BY <1>1, <1>5, <1>6 DEF HandlesAre, ConInit
  <1>8. ConstructorsLeft /\ InIsFound
    BY <1>1 DEF ConstructorsLeft, InIsFound, ConInit
  <1>9. GivenKept /\ (started[0] = "none" => handles[0] = Closed)
        /\ (started[1] = "none" => handles[1] = Closed)
    BY <1>3, <1>6 DEF GivenKept, Fds
  <1>10. OutToCome
    BY <1>1 DEF OutToCome, ConInit
  <1>11. OutIsFound /\ InIsFree /\ OutIsFree
    BY <1>1, <1>9, <1>10 DEF OutIsFound, InIsFree, OutIsFree, ConInit
  <1>12. QED
    BY <1>1, <1>7, <1>8, <1>9, <1>11 DEF FdInv, ConInit, StreamIsOnIt, ModeGivenBack

LEMMA Kinds ==
  /\ \A a, b : Console(a) = Console(b) => a = b
  /\ \A a : Console(a) # Closed /\ Console(a) # File /\ Console(a).dev = "con"
            /\ Console(a).access = a
  /\ File # Closed /\ File.dev # "con" /\ Closed.dev # "con"
  BY DEF Console, File, Closed

\* Opening the console takes the lowest free handle.
LEMMA OpenedKeeps ==
  ASSUME HandlesAre, NEW access \in {"read", "write"}, NEW f \in Fds, Opened(access, f)
  PROVE  /\ handles' \in [Fds -> Devices] /\ handles'[f] = Console(access) /\ opens
         /\ handles[f] = Closed /\ \A g \in Fds : g # f => handles'[g] = handles[g]
         /\ handles[0] = Closed => f = 0
         /\ handles[1] = Closed => f = 0 \/ f = 1
  <1>1. Console(access) \in Devices
    BY DEF Devices
  <1>2. 0 \in Fds /\ 1 \in Fds
    BY DEF Fds
  <1>3. handles[f] = Closed /\ (\A g \in Fds : handles[g] = Closed => f <= g) /\ opens
        /\ handles' = [handles EXCEPT ![f] = Console(access)]
    BY DEF Opened
  <1>4. (handles[0] = Closed => f <= 0) /\ (handles[1] = Closed => f <= 1) /\ f \in 0..4
    BY <1>2, <1>3 DEF Fds
  <1>5. QED
    BY <1>1, <1>3, <1>4 DEF HandlesAre

LEMMA NotConsole ==
  ASSUME HandlesAre, NEW f \in Fds
  PROVE  IsConsole(f) => handles[f] # Closed
  BY Kinds DEF IsConsole

\* What GivenKept says, handle by handle.
LEMMA Given ==
  FdInv => /\ 0 \in Fds /\ 1 \in Fds /\ started[0] \in {"con", "file", "none"}
           /\ started[1] \in {"con", "file", "none"}
           /\ started[0] = "con" => handles[0] = Console("both")
           /\ started[0] = "file" => handles[0] = File
           /\ started[1] = "con" => handles[1] = Console("both")
           /\ started[1] = "file" => handles[1] = File
  BY DEF FdInv, GivenKept, HandlesAre, Fds

\* A step after the constructors that leaves the handles alone.
LEMMA QuietStep ==
  ASSUME FdInv, UNCHANGED <<conSetup, conFds, todo>>, con_pc \notin {"init", "exit"},
         con_pc' \notin {"init", "exit"},
         key_source' \in {key_source, handles[con_in_fd].dev},
         con_out_fp' \in {con_out_fp, con_out_fd}
  PROVE  FdInv'
  <1>1. /\ UNCHANGED <<build, started, opens, handles, con_in_fd, con_out_fd, mode, mode0, saved>>
        /\ UNCHANGED <<todo, vid_is_console>>
    BY DEF conSetup, conFds
  <1>2. HandlesAre' /\ GivenKept' /\ InIsFree' /\ OutIsFree'
    BY <1>1 DEF FdInv, HandlesAre, GivenKept, InIsFree, OutIsFree, OutToCome
  <1>3. ConstructorsLeft'
    BY <1>1 DEF FdInv, ConstructorsLeft
  <1>4. InIsFound' /\ OutIsFound'
    BY <1>1 DEF FdInv, InIsFound, OutIsFound, OutToCome, IsConsole, CanWrite, CanRead, KeysLost,
                OutputLost
  <1>5. StreamIsOnIt' /\ ModeGivenBack'
    BY <1>1 DEF FdInv, StreamIsOnIt, ModeGivenBack
  <1>6. build # "ack" /\ opens => key_source' \in {"none", "con"}
    BY DEF FdInv, ConstructorsLeft, InIsFound, IsConsole
  <1>7. QED
    BY <1>1, <1>2, <1>3, <1>4, <1>5, <1>6 DEF FdInv

\* Finding the handle for output, with the handle for input left alone.
LEMMA FindOutStep ==
  ASSUME FdInv, FindOut, OutToCome, ~OutToCome', UNCHANGED <<build, started, opens, con_in_fd>>,
         "in" \in todo' <=> "in" \in todo, saved' = saved
  PROVE  HandlesAre' /\ GivenKept' /\ InIsFree' /\ OutIsFree' /\ InIsFound' /\ OutIsFound'
  <1>1. /\ HandlesAre /\ con_out_fd = 1 /\ con_in_fd \in Fds /\ handles[0] \in Devices
        /\ handles[1] \in Devices
    BY Given DEF FdInv, OutIsFound, HandlesAre
  <1>2. InIsFound /\ InIsFree /\ OutIsFree
    BY DEF FdInv
  <1>3. CASE ~IsConsole(1) /\ \E f \in Fds : Opened("write", f) /\ con_out_fd' = f
    <2>1. PICK f \in Fds : Opened("write", f) /\ con_out_fd' = f
      BY <1>3
    <2>2. /\ handles' \in [Fds -> Devices] /\ handles'[f] = Console("write") /\ opens
          /\ handles[f] = Closed /\ \A g \in Fds : g # f => handles'[g] = handles[g]
          /\ handles[0] = Closed => f = 0
          /\ handles[1] = Closed => f = 0 \/ f = 1
      BY <1>1, <2>1, OpenedKeeps
    <2>3. started[1] # "con" /\ handles[1] # Console("read")
      BY <1>3, Given, Kinds DEF IsConsole
    <2>4. \A g \in Fds : handles[g] # Closed => handles'[g] = handles[g]
      BY <2>2
    <2>5. HandlesAre' /\ GivenKept'
      <3>1. HandlesAre'
        BY <1>1, <2>1, <2>2 DEF HandlesAre
      <3>2. ASSUME NEW g \in 0..1
            PROVE  /\ started[g] = "con" => handles'[g] = Console("both")
                   /\ started[g] = "file" => handles'[g] = File
        <4>1. g \in Fds
          BY DEF Fds
        <4>2. /\ started[g] = "con" => handles[g] = Console("both")
              /\ started[g] = "file" => handles[g] = File
          BY DEF FdInv, GivenKept
        <4>3. QED
          BY <4>1, <4>2, <2>4, Kinds
      <3>3. QED
        BY <3>1, <3>2 DEF GivenKept
    <2>6. OutIsFree'
      BY DEF OutIsFree
    <2>7. InIsFree'
      <3>1. ASSUME "in" \in todo, started[0] = "none" PROVE f = 0
        BY <1>1, <1>2, <2>2, <3>1 DEF InIsFree
      <3>2. QED
        BY <2>1, <2>2, <2>3, <3>1 DEF InIsFree
    <2>8. OutIsFound'
      <3>1. handles'[con_out_fd'].dev = "con" /\ handles'[con_out_fd'].access = "write"
        BY <2>1, <2>2, Kinds
      <3>2. ~(started[0] = "file" /\ started[1] = "none" /\ con_in_fd = 1)
        <4>1. started[1] = "none" => con_in_fd # 1
          BY <1>2, <2>3 DEF OutIsFree
        <4>2. QED
          BY <4>1
      <3>3. started[1] = "none" /\ started[0] # "none" => handles'[1] # Closed
        <4>1. started[0] # "none" => handles[0] # Closed
          BY Given, Kinds
        <4>2. CASE handles[1] = Closed /\ started[0] # "none"
          BY <2>2, <4>1, <4>2, Kinds
        <4>3. CASE handles[1] # Closed
          BY <2>4, <4>3, Given
        <4>4. QED
          BY <4>2, <4>3
      <3>4. QED
        BY <3>1, <3>2, <3>3 DEF OutIsFound, IsConsole, CanWrite, OutputLost
    <2>9. InIsFound'
      <3>1. ASSUME build # "ack", "in" \notin todo
            PROVE  /\ handles'[con_in_fd].dev = "con"
                   /\ handles'[con_in_fd].access \in {"both", "read"}
                   /\ started[0] = "none" => handles'[0] # Closed /\ f # 0
        <4>1. IsConsole(con_in_fd) /\ CanRead /\ (started[0] = "none" => handles[0] # Closed)
          BY <1>1, <1>2, <2>2, <3>1 DEF InIsFound, KeysLost
        <4>2. handles'[con_in_fd] = handles[con_in_fd]
          BY <1>1, <2>4, <4>1, NotConsole
        <4>3. QED
          BY <2>2, <2>4, <4>1, <4>2, Given DEF IsConsole, CanRead
      <3>2. QED
        BY <1>2, <2>1, <2>2, <3>1 DEF InIsFound, IsConsole, CanRead, KeysLost
    <2>10. QED
      BY <2>5, <2>6, <2>7, <2>8, <2>9
  <1>4. CASE (IsConsole(1) \/ ~opens) /\ UNCHANGED <<handles, con_out_fd>>
    <2>1. HandlesAre' /\ GivenKept'
      BY <1>1, <1>4 DEF FdInv, HandlesAre, GivenKept
    <2>2. InIsFree' /\ OutIsFree'
      BY <1>1, <1>2, <1>4 DEF InIsFree, OutIsFree
    <2>3. InIsFound'
      BY <1>1, <1>2, <1>4 DEF InIsFound, IsConsole, CanRead, KeysLost
    <2>4. OutIsFound'
      <3>1. CASE opens /\ IsConsole(1)
        <4>1. started[1] # "file"
          BY <3>1, Given, Kinds DEF IsConsole
        <4>2. CASE started[1] = "con"
          BY <1>1, <1>4, <3>1, <4>2, Given, Kinds DEF OutIsFound, IsConsole, CanWrite, OutputLost
        <4>3. CASE started[1] = "none"
          <5>1. handles[1] = Console("read") /\ con_in_fd = 1 /\ started[0] = "file"
            BY <1>2, <3>1, <4>3, Kinds DEF OutIsFree, IsConsole
          <5>2. QED
            BY <1>1, <1>4, <4>3, <5>1, Kinds DEF OutIsFound, IsConsole, CanWrite, OutputLost
        <4>4. QED
          BY <4>1, <4>2, <4>3, Given
      <3>2. CASE ~opens
        BY <3>2 DEF OutIsFound
      <3>3. QED
        BY <1>4, <3>1, <3>2
    <2>5. QED
      BY <2>1, <2>2, <2>3, <2>4
  <1>5. QED
    BY <1>3, <1>4 DEF FindOut

\* Finding the handle for input, in the same way.
LEMMA FindInStep ==
  ASSUME FdInv, "in" \in todo, build # "ack", "in" \notin todo', OutToCome' <=> OutToCome,
         \/ ~IsConsole(0) /\ \E f \in Fds : Opened("read", f) /\ con_in_fd' = f
         \/ (IsConsole(0) \/ ~opens) /\ UNCHANGED <<handles, con_in_fd>>,
         UNCHANGED <<build, started, opens, con_out_fd>>, saved' => build = "elks" \/ con_in_fd' # 0
  PROVE  HandlesAre' /\ GivenKept' /\ InIsFree' /\ OutIsFree' /\ InIsFound' /\ OutIsFound'
  <1>1. /\ HandlesAre /\ con_in_fd = 0 /\ con_out_fd \in Fds /\ handles[0] \in Devices
        /\ handles[1] \in Devices
    BY Given DEF FdInv, InIsFound, HandlesAre
  <1>2. OutIsFound /\ InIsFree /\ OutIsFree
    BY DEF FdInv
  <1>3. InIsFree'
    BY DEF InIsFree
  <1>4. CASE ~IsConsole(0) /\ \E f \in Fds : Opened("read", f) /\ con_in_fd' = f
    <2>1. PICK f \in Fds : Opened("read", f) /\ con_in_fd' = f
      BY <1>4
    <2>2. /\ handles' \in [Fds -> Devices] /\ handles'[f] = Console("read") /\ opens
          /\ handles[f] = Closed /\ \A g \in Fds : g # f => handles'[g] = handles[g]
          /\ handles[0] = Closed => f = 0
          /\ handles[1] = Closed => f = 0 \/ f = 1
      BY <1>1, <2>1, OpenedKeeps
    <2>3. started[0] # "con" /\ handles[0] # Console("write")
      BY <1>4, Given, Kinds DEF IsConsole
    <2>4. \A g \in Fds : handles[g] # Closed => handles'[g] = handles[g]
      BY <2>2
    <2>5. started[0] = "none" => handles[0] = Closed /\ f = 0 /\ con_out_fd # 0
      BY <1>2, <2>2, <2>3 DEF InIsFree
    <2>6. HandlesAre' /\ GivenKept'
      <3>1. HandlesAre'
        BY <1>1, <2>1, <2>2 DEF HandlesAre
      <3>2. ASSUME NEW g \in 0..1
            PROVE  /\ started[g] = "con" => handles'[g] = Console("both")
                   /\ started[g] = "file" => handles'[g] = File
        <4>1. g \in Fds
          BY DEF Fds
        <4>2. /\ started[g] = "con" => handles[g] = Console("both")
              /\ started[g] = "file" => handles[g] = File
          BY DEF FdInv, GivenKept
        <4>3. QED
          BY <4>1, <4>2, <2>4, Kinds
      <3>3. QED
        BY <3>1, <3>2 DEF GivenKept
    <2>7. OutIsFree'
      <3>1. ASSUME OutToCome, started[1] = "none"
            PROVE  \/ handles'[1] = Closed /\ f # 1
                   \/ handles'[1] = Console("read") /\ f = 1 /\ started[0] = "file"
        <4>1. handles[1] = Closed
          BY <1>1, <1>2, <3>1 DEF OutIsFree
        <4>2. CASE started[0] = "file"
          <5>1. f = 1
            BY <2>2, <4>1, <4>2, Given, Kinds
          <5>2. QED
            BY <2>2, <4>2, <5>1
        <4>3. CASE started[0] = "none"
          BY <2>2, <2>5, <4>1, <4>3, Given
        <4>4. QED
          BY <2>3, <4>2, <4>3, Given
      <3>2. QED
        BY <2>1, <3>1 DEF OutIsFree
    <2>8. InIsFound'
      <3>1. handles'[con_in_fd'].dev = "con" /\ handles'[con_in_fd'].access = "read"
        BY <2>1, <2>2, Kinds
      <3>2. started[0] = "none" => handles'[0] # Closed /\ con_out_fd # 0
        BY <2>2, <2>5, Kinds
      <3>3. QED
        BY <3>1, <3>2 DEF InIsFound, IsConsole, CanRead, KeysLost
    <2>9. OutIsFound'
      <3>1. ASSUME ~OutToCome
            PROVE  /\ handles'[con_out_fd].dev = "con"
                   /\ handles'[con_out_fd].access \in {"both", "write"}
                   /\ started[1] = "none" /\ started[0] # "none" => handles'[1] # Closed /\ f # 1
        <4>1. /\ IsConsole(con_out_fd) /\ CanWrite
              /\ started[1] = "none" /\ started[0] # "none" => handles[1] # Closed
          BY <1>1, <1>2, <2>2, <3>1 DEF OutIsFound, OutputLost
        <4>2. handles'[con_out_fd] = handles[con_out_fd]
          BY <1>1, <2>4, <4>1, NotConsole
        <4>3. QED
          BY <2>2, <2>4, <4>1, <4>2, Given DEF IsConsole, CanWrite
      <3>2. QED
        BY <1>2, <2>1, <3>1 DEF OutIsFound, IsConsole, CanWrite, OutputLost
    <2>10. QED
      BY <1>3, <2>6, <2>7, <2>8, <2>9
  <1>5. CASE (IsConsole(0) \/ ~opens) /\ UNCHANGED <<handles, con_in_fd>>
    <2>1. HandlesAre' /\ GivenKept'
      BY <1>1, <1>5 DEF FdInv, HandlesAre, GivenKept
    <2>2. OutIsFree'
      BY <1>1, <1>2, <1>5 DEF OutIsFree
    <2>3. OutIsFound'
      BY <1>1, <1>2, <1>5 DEF OutIsFound, IsConsole, CanWrite, OutputLost
    <2>4. InIsFound'
      <3>1. CASE opens /\ IsConsole(0)
        <4>1. started[0] # "file"
          BY <3>1, Given, Kinds DEF IsConsole
        <4>2. CASE started[0] = "con"
          BY <1>1, <1>5, <3>1, <4>2, Given, Kinds DEF InIsFound, IsConsole, CanRead, KeysLost
        <4>3. CASE started[0] = "none"
          <5>1. handles[0] = Console("write") /\ con_out_fd = 0 /\ started[1] # "con"
            BY <1>2, <3>1, <4>3, Kinds DEF InIsFree, IsConsole
          <5>2. QED
            BY <1>1, <1>5, <4>3, <5>1, Kinds DEF InIsFound, IsConsole, CanRead, KeysLost
        <4>4. QED
          BY <4>1, <4>2, <4>3, Given
      <3>2. CASE ~opens
        BY <3>2 DEF InIsFound
      <3>3. QED
        BY <1>5, <3>1, <3>2
    <2>5. QED
      BY <1>3, <2>1, <2>2, <2>3, <2>4
  <1>6. QED
    BY <1>4, <1>5

\* The constructors, and the call of cputs in which ACK looks for its handle.
LEMMA InStep ==
  ASSUME FdInv, InInitDos \/ InInitElks
  PROVE  FdInv'
  <1>1. /\ con_pc = "init" /\ con_pc' = "init" /\ build # "ack" /\ "in" \in todo
        /\ todo' = todo \ {"in"} /\ con_in_fd = 0 /\ ~saved
        /\ UNCHANGED <<build, started, opens, con_out_fd, mode0, vid_is_console, con_out_fp>>
        /\ UNCHANGED key_source
    BY DEF InInitDos, InInitElks, conSetup, conCall, FdInv, InIsFound
  <1>2. /\ con_out_fp = -1 /\ key_source = "none"
        /\ todo \subseteq {"in", "out", "vid"} /\ (build = "elks" => "vid" \in todo)
        /\ build \in {"gcc", "elks"}
    BY <1>1 DEF FdInv, ConstructorsLeft, HandlesAre
  <1>3. \/ ~IsConsole(0) /\ \E f \in Fds : Opened("read", f) /\ con_in_fd' = f
        \/ (IsConsole(0) \/ ~opens) /\ UNCHANGED <<handles, con_in_fd>>
    BY DEF InInitDos, InInitElks
  <1>4. /\ saved' => build = "elks" \/ con_in_fd' # 0
        /\ mode' # mode0 => saved' = TRUE
    <2>1. mode # mode0 => saved
      BY DEF FdInv, ModeGivenBack
    <2>2. CASE InInitDos
      <3>1. CASE (IsConsole(0) \/ ~opens) /\ UNCHANGED <<handles, con_in_fd, saved, mode>>
        BY <1>1, <2>1, <3>1
      <3>2. CASE \E f \in Fds :
                   /\ con_in_fd' = f /\ saved' \in IF f = 0 THEN {FALSE} ELSE BOOLEAN
                   /\ mode' = IF saved' THEN "raw" ELSE mode
        BY <1>1, <2>1, <3>2
      <3>3. QED
        BY <2>2, <3>1, <3>2 DEF InInitDos
    <2>3. CASE InInitElks
      BY <1>1, <2>1, <2>3 DEF InInitElks
    <2>4. QED
      BY <2>2, <2>3
  <1>5. "in" \notin todo' /\ (OutToCome' <=> OutToCome)
    BY <1>1 DEF OutToCome
  <1>6. HandlesAre' /\ GivenKept' /\ InIsFree' /\ OutIsFree' /\ InIsFound' /\ OutIsFound'
    BY <1>1, <1>3, <1>4, <1>5, FindInStep
  <1>7. ConstructorsLeft'
    BY <1>1, <1>2 DEF ConstructorsLeft
  <1>8. StreamIsOnIt' /\ ModeGivenBack'
    BY <1>1, <1>2, <1>4 DEF StreamIsOnIt, ModeGivenBack
  <1>9. QED
    BY <1>1, <1>2, <1>6, <1>7, <1>8 DEF FdInv

LEMMA OutStep ==
  ASSUME FdInv, OutInit
  PROVE  FdInv'
  <1>1. /\ con_pc = "init" /\ con_pc' = "init" /\ "out" \in todo /\ todo' = todo \ {"out"}
        /\ UNCHANGED <<build, started, opens, con_in_fd, mode, mode0, saved, vid_is_console>>
        /\ UNCHANGED <<con_out_fp, key_source>> /\ FindOut
    BY DEF OutInit, conSetup, conCall
  <1>2. /\ con_out_fp = -1 /\ key_source = "none" /\ build \in {"gcc", "elks"}
        /\ todo \subseteq {"in", "out", "vid"} /\ (build = "elks" => "vid" \in todo)
    BY <1>1 DEF FdInv, ConstructorsLeft, HandlesAre
  <1>3. OutToCome /\ ~OutToCome' /\ ("in" \in todo' <=> "in" \in todo)
    BY <1>1, <1>2 DEF OutToCome
  <1>4. HandlesAre' /\ GivenKept' /\ InIsFree' /\ OutIsFree' /\ InIsFound' /\ OutIsFound'
    BY <1>1, <1>3, FindOutStep
  <1>5. ConstructorsLeft'
    BY <1>1, <1>2 DEF ConstructorsLeft
  <1>6. StreamIsOnIt' /\ ModeGivenBack'
    BY <1>1, <1>2 DEF FdInv, StreamIsOnIt, ModeGivenBack
  <1>7. QED
    BY <1>1, <1>2, <1>4, <1>5, <1>6 DEF FdInv

LEMMA FoundByCputs ==
  ASSUME FdInv, NEW t, CputsAck(t)
  PROVE  FdInv'
  <1>1. /\ build = "ack" /\ con_pc = "run" /\ con_pc' = "whole" /\ todo' = {"done"}
        /\ UNCHANGED <<build, started, opens, con_in_fd, mode, mode0, saved, vid_is_console>>
        /\ UNCHANGED <<con_out_fp, key_source>>
    BY DEF CputsAck, conSetup
  <1>2. ~saved /\ todo \in {{}, {"done"}} /\ mode = mode0
    BY <1>1 DEF FdInv, ConstructorsLeft, ModeGivenBack
  <1>3. HandlesAre' /\ GivenKept' /\ InIsFree' /\ OutIsFree' /\ InIsFound' /\ OutIsFound'
    <2>1. CASE todo = {}
      <3>1. FindOut /\ OutToCome /\ ~OutToCome' /\ ("in" \in todo' <=> "in" \in todo)
        BY <1>1, <2>1 DEF CputsAck, OutToCome
      <3>2. QED
        BY <1>1, <3>1, FindOutStep
    <2>2. CASE todo = {"done"}
      <3>1. UNCHANGED <<handles, con_out_fd, todo>>
        BY <1>1, <2>2 DEF CputsAck
      <3>2. HandlesAre' /\ GivenKept' /\ InIsFree' /\ OutIsFree'
        BY <1>1, <3>1 DEF FdInv, HandlesAre, GivenKept, InIsFree, OutIsFree, OutToCome
      <3>3. InIsFound' /\ OutIsFound'
        BY <1>1, <3>1 DEF FdInv, InIsFound, OutIsFound, OutToCome, IsConsole, CanRead, CanWrite,
                          KeysLost, OutputLost
      <3>4. QED
        BY <3>2, <3>3
    <2>3. QED
      BY <1>2, <2>1, <2>2
  <1>4. ConstructorsLeft'
    BY <1>1, <1>2 DEF ConstructorsLeft
  <1>5. StreamIsOnIt' /\ ModeGivenBack'
    BY <1>1, <1>2 DEF StreamIsOnIt, ModeGivenBack
  <1>6. QED
    BY <1>1, <1>3, <1>4, <1>5 DEF FdInv

\* Nothing that is said of the handles changes.
LEMMA HandlesStay ==
  ASSUME FdInv, UNCHANGED <<build, started, opens, handles, con_in_fd, con_out_fd, saved>>,
         "in" \in todo' <=> "in" \in todo, OutToCome' <=> OutToCome
  PROVE  HandlesAre' /\ GivenKept' /\ InIsFree' /\ OutIsFree' /\ InIsFound' /\ OutIsFound'
  <1>1. HandlesAre' /\ GivenKept' /\ InIsFree' /\ OutIsFree'
    BY DEF FdInv, HandlesAre, GivenKept, InIsFree, OutIsFree
  <1>2. InIsFound' /\ OutIsFound'
    BY DEF FdInv, InIsFound, OutIsFound, IsConsole, CanRead, CanWrite, KeysLost, OutputLost
  <1>3. QED
    BY <1>1, <1>2

LEMMA FdInvNext == FdInv /\ [ConNext]_conVars => FdInv'
  <1> SUFFICES ASSUME FdInv, [ConNext]_conVars PROVE FdInv'
    OBVIOUS
  <1>1. CASE UNCHANGED conVars
    <2>1. /\ UNCHANGED <<build, started, opens, handles, con_in_fd, con_out_fd, mode, mode0>>
          /\ UNCHANGED <<saved, con_pc, todo, con_out_fp, key_source>>
      BY <1>1 DEF conVars, conSetup, conFds, conCall
    <2>2. HandlesAre' /\ GivenKept' /\ InIsFree' /\ OutIsFree' /\ InIsFound' /\ OutIsFound'
      BY <2>1, HandlesStay DEF OutToCome
    <2>3. ConstructorsLeft' /\ StreamIsOnIt' /\ ModeGivenBack'
      BY <2>1 DEF FdInv, ConstructorsLeft, StreamIsOnIt, ModeGivenBack
    <2>4. QED
      BY <2>1, <2>2, <2>3 DEF FdInv
  <1>2. CASE InInitDos \/ InInitElks
    BY <1>2, InStep
  <1>3. CASE OutInit
    BY <1>3, OutStep
  <1>4. CASE VidIsConsole
    <2>1. /\ con_pc = "init" /\ con_pc' = "init" /\ todo = {"vid"} /\ todo' = {}
          /\ UNCHANGED <<build, started, opens, handles, con_in_fd, con_out_fd, mode, mode0>>
          /\ UNCHANGED <<saved, con_out_fp, key_source>>
      BY <1>4 DEF VidIsConsole, conSetup, conCall
    <2>2. build # "ack"
      BY <2>1 DEF FdInv, ConstructorsLeft
    <2>3. HandlesAre' /\ GivenKept' /\ InIsFree' /\ OutIsFree' /\ InIsFound' /\ OutIsFound'
      BY <2>1, <2>2, HandlesStay DEF OutToCome
    <2>4. ConstructorsLeft'
      BY <2>1, <2>2 DEF FdInv, ConstructorsLeft
    <2>5. StreamIsOnIt' /\ ModeGivenBack'
      BY <2>1 DEF FdInv, StreamIsOnIt, ModeGivenBack
    <2>6. QED
      BY <2>1, <2>3, <2>4, <2>5 DEF FdInv
  <1>5. CASE EnterMain
    <2>1. /\ con_pc = "init" /\ con_pc' = "run" /\ todo = {}
          /\ UNCHANGED <<build, started, opens, handles, con_in_fd, con_out_fd, mode, mode0>>
          /\ UNCHANGED <<saved, con_out_fp, key_source, todo, vid_is_console>>
      BY <1>5 DEF EnterMain, conSetup, conFds, conCall
    <2>2. HandlesAre' /\ GivenKept' /\ InIsFree' /\ OutIsFree' /\ InIsFound' /\ OutIsFound'
      BY <2>1, HandlesStay DEF OutToCome
    <2>3. ConstructorsLeft'
      BY <2>1 DEF FdInv, ConstructorsLeft
    <2>4. StreamIsOnIt' /\ ModeGivenBack'
      BY <2>1 DEF FdInv, StreamIsOnIt, ModeGivenBack
    <2>5. QED
      BY <2>1, <2>2, <2>3, <2>4 DEF FdInv
  <1>6. CASE GetchCon \/ Kbhit
    BY <1>6, QuietStep DEF GetchCon, Kbhit
  <1>7. CASE Vcprintf
    BY <1>7, QuietStep DEF Vcprintf
  <1>8. CASE Measure \/ Format
    BY <1>8, QuietStep DEF Measure, Format, WindowCall
  <1>9. CASE Piece \/ Crlf \/ Whole \/ Cr
    <2>1. DuringCall /\ con_pc \notin {"init", "exit"}
      BY <1>9 DEF Piece, Crlf, Whole, Cr
    <2>2. con_pc' \in {"run", "crlf", "piece", "whole"}
      BY <1>9 DEF Piece, Crlf, Whole, Cr, Write, WriteAll, WriteSome, WriteFails
    <2>3. QED
      BY <2>1, <2>2, QuietStep DEF DuringCall
  <1>10. CASE \E t \in ConTexts : Cputs(t) \/ Putch(t) \/ PutchAck(t) \/ BcVcprintf(t)
    <2>1. PICK t \in ConTexts : Cputs(t) \/ Putch(t) \/ PutchAck(t) \/ BcVcprintf(t)
      BY <1>10
    <2>2. PICK how \in {"piece", "cr", "whole", "measure"} :
            Call(how, t) /\ UNCHANGED <<handles, con_out_fd>>
      BY <2>1 DEF Cputs, Putch, PutchAck, BcVcprintf
    <2>3. QED
      BY <2>2, QuietStep DEF Call, conSetup, conFds
  <1>11. CASE \E t \in ConTexts : CputsAck(t)
    BY <1>11, FoundByCputs
  <1>12. CASE Exit
    <2>1. /\ con_pc = "run" /\ con_pc' = "exit"
          /\ UNCHANGED <<build, started, opens, handles, con_in_fd, con_out_fd, mode0, saved>>
          /\ UNCHANGED <<vid_is_console, todo, con_out_fp, key_source>>
          /\ mode' = IF saved /\ (con_in_fd # 0 \/ build = "elks") THEN mode0 ELSE mode
      BY <1>12 DEF Exit, conSetup, conCall
    <2>2. mode' = mode0
      BY <2>1 DEF FdInv, InIsFound, ModeGivenBack
    <2>3. HandlesAre' /\ GivenKept' /\ InIsFree' /\ OutIsFree' /\ InIsFound' /\ OutIsFound'
      BY <2>1, HandlesStay DEF OutToCome
    <2>4. ConstructorsLeft'
      BY <2>1 DEF FdInv, ConstructorsLeft
    <2>5. StreamIsOnIt' /\ ModeGivenBack'
      BY <2>1, <2>2 DEF FdInv, StreamIsOnIt, ModeGivenBack
    <2>6. QED
      BY <2>1, <2>3, <2>4, <2>5 DEF FdInv
  <1>13. QED
    BY <1>1, <1>2, <1>3, <1>4, <1>5, <1>6, <1>7, <1>8, <1>9, <1>10, <1>11, <1>12 DEF ConNext

LEMMA FdInvImplies == FdInv => ConsoleIsOurs
  <1> SUFFICES ASSUME FdInv, con_pc # "init"
               PROVE  WritesGoToIt /\ KeysComeFromIt /\ StreamIsOnIt /\ ModeGivenBack
    BY DEF ConsoleIsOurs
  <1>1. build # "ack" => todo = {}
    BY DEF FdInv, ConstructorsLeft
  <1>2. (build = "ack" => todo # {}) => ~OutToCome
    BY <1>1 DEF FdInv, ConstructorsLeft, OutToCome
  <1>3. WritesGoToIt
    BY <1>2 DEF FdInv, OutIsFound, WritesGoToIt
  <1>4. KeysComeFromIt
    BY <1>1 DEF FdInv, InIsFound, KeysComeFromIt
  <1>5. QED
    BY <1>3, <1>4 DEF FdInv

\* However a program was started, and whichever constructor ran first, what it writes
\* goes to the console and its keys come from it, by handles open the right way but
\* for the two cases told in ConsoleFds, and its mode is given back.
THEOREM TheConsoleIsOurs == ConSpec => []ConsoleIsOurs
  BY FdInvInit, FdInvNext, FdInvImplies, PTL DEF ConSpec

-----------------------------------------------------------------------------
(* ConsoleFds: all of the text is written.                                 *)

\* The characters of a text, and those that are written.
InChars == {"c", "lf"}
OutChars == {"c", "lf", "cr"}

\* What one character is written as.
Put(c) == IF c = "lf" THEN <<"cr", "lf">> ELSE <<c>>

\* What the beginnings of t are written as.
Made(t) ==
  LET made[n \in 0..Len(t)] == IF n = 0 THEN <<>> ELSE made[n - 1] \o Put(t[n])
  IN  made

LEMMA TranslatedIsLast == \A t : Translated(t) = Made(t)[Len(t)]
  BY DEF Translated, Made, Put

LEMMA PutType == \A c \in InChars : Put(c) \in Seq(OutChars)
  <1>1. <<"cr", "lf">> \in Seq(OutChars) /\ <<"c">> \in Seq(OutChars)
    BY DEF OutChars
  <1>2. QED
    BY <1>1 DEF Put, InChars

\* The recursion of Translated defines what it says.
LEMMA MadeDef ==
  ASSUME NEW t \in Seq(InChars)
  PROVE  /\ Made(t)[0] = <<>>
         /\ \A i \in 1..Len(t) : Made(t)[i] = Made(t)[i - 1] \o Put(t[i])
         /\ \A i \in 0..Len(t) : Made(t)[i] \in Seq(OutChars)
  <1> DEFINE V == Seq(OutChars)
             E(i, s) == s \o Put(t[i])
             D == [i \in 1..Len(t) |-> [s \in V |-> E(i, s)]]
             Good(g) == g = [i \in 0..Len(t) |-> IF i = 0 THEN <<>> ELSE E(i, g[i - 1])]
  <1>1. \A i \in 1..Len(t) : \A s \in V : E(i, s) \in V
    <2> SUFFICES ASSUME NEW i \in 1..Len(t), NEW s \in V PROVE E(i, s) \in V
      OBVIOUS
    <2>1. Put(t[i]) \in Seq(OutChars)
      BY PutType
    <2>2. QED
      BY <2>1, ConcatProperties
  <1>2. <<>> \in V
    OBVIOUS
  <1>3. D \in Steps(0, Len(t), V)
    <2> HIDE DEF E, V
    <2>1. D \in [1..Len(t) -> [V -> V]]
      BY <1>1
    <2> HIDE DEF D
    <2>2. QED
      BY <2>1, StepsFrom0
  <1>4. PICK g : g \in Obeying(0, Len(t), V, <<>>, D)
    <2> HIDE DEF D, Good, V
    <2>1. 0 \in Int /\ Len(t) \in Int
      OBVIOUS
    <2>2. QED
      BY <1>2, <1>3, <2>1, RecursionDefines, Zenon
  <1>5. Good(g)
    <2> HIDE DEF E, V
    <2>1. \A i \in 1..Len(t) : i - 1 \in 0..Len(t)
      OBVIOUS
    <2>2. g \in [0..Len(t) -> V]
      BY <1>4 DEF Obeying
    <2>3. g[0] = <<>> /\ \A i \in 1..Len(t) : g[i] = D[i][g[i - 1]]
      BY <1>4 DEF Obeying
    <2>4. \A i \in 1..Len(t) : g[i] = E(i, g[i - 1])
      BY <2>1, <2>2, <2>3
    <2> HIDE DEF D
    <2>5. QED
      BY <2>2, <2>3, <2>4
  <1>6. Good(Made(t))
    <2> HIDE DEF D
    <2>1. Made(t) = CHOOSE f : Good(f)
      BY DEF Made
    <2> HIDE DEF Good
    <2>2. QED
      BY <1>5, <2>1
  <1> HIDE DEF E, D
  <1>7. Made(t)[0] = <<>> /\ \A i \in 1..Len(t) : Made(t)[i] = E(i, Made(t)[i - 1])
    BY <1>6
  <1>8. \A i \in 0..Len(t) : Made(t)[i] \in V
    <2> HIDE DEF Good, V
    <2>1. \A i \in 1..Len(t) : Made(t)[i - 1] \in V => Made(t)[i] \in V
      BY <1>1, <1>7
    <2>2. Len(t) \in Nat /\ Made(t)[0] \in V
      BY <1>2, <1>7
    <2>3. QED
      BY <2>1, <2>2, TypedFrom0, Zenon
  <1>9. QED
    BY <1>7, <1>8 DEF E

LEMMA Regroup == \A a, b, c \in Seq(OutChars) : Regroups(a, b, c)
  BY AllRegroup, Zenon

LEMMA Joined == \A a, b \in Seq(OutChars) : a \o b \in Seq(OutChars)
  BY ConcatProperties

LEMMA TwoBytes == <<"cr">> \o <<"lf">> = <<"cr", "lf">>
  <1> DEFINE a == <<"cr">>
             b == <<"lf">>
             u == <<"cr", "lf">>
  <1>1. /\ a \in Seq(OutChars) /\ b \in Seq(OutChars) /\ u \in Seq(OutChars)
        /\ Len(a) = 1 /\ Len(b) = 1 /\ Len(u) = 2
        /\ a[1] = "cr" /\ b[1] = "lf" /\ u[1] = "cr" /\ u[2] = "lf"
    BY DEF OutChars
  <1> HIDE DEF a, b, u
  <1>2. /\ a \o b \in Seq(OutChars) /\ Len(a \o b) = 1 + 1
        /\ \A i \in 1..1 + 1 : (a \o b)[i] = IF i <= 1 THEN a[i] ELSE b[i - 1]
    BY <1>1, ConcatProperties
  <1>3. (a \o b)[1] = "cr" /\ (a \o b)[2] = "lf"
    BY <1>1, <1>2
  <1>4. \A i \in 1..2 : (a \o b)[i] = u[i]
    BY <1>1, <1>3
  <1>5. a \o b = u
    BY <1>1, <1>2, <1>4, SeqEqual
  <1>6. QED
    BY <1>5 DEF a, b, u

LEMMA TranslatedType == \A t \in Seq(InChars) : Translated(t) \in Seq(OutChars)
  <1> TAKE t \in Seq(InChars)
  <1>1. Len(t) \in 0..Len(t)
    OBVIOUS
  <1>2. QED
    BY <1>1, TranslatedIsLast, MadeDef

LEMMA TranslatedNone == Translated(<<>>) = <<>>
  <1>1. <<>> \in Seq(InChars) /\ Len(<<>>) = 0
    OBVIOUS
  <1>2. QED
    BY <1>1, TranslatedIsLast, MadeDef

LEMMA TranslatedOne == \A c \in InChars : Translated(<<c>>) = Put(c)
  <1> TAKE c \in InChars
  <1>1. <<c>> \in Seq(InChars) /\ Len(<<c>>) = 1 /\ <<c>>[1] = c
    OBVIOUS
  <1>2. 1 \in 1..1 /\ 1 - 1 = 0
    OBVIOUS
  <1>3. Made(<<c>>)[0] = <<>> /\ Made(<<c>>)[1] = Made(<<c>>)[0] \o Put(c)
    <2>1. \A i \in 1..1 : Made(<<c>>)[i] = Made(<<c>>)[i - 1] \o Put(<<c>>[i])
      BY <1>1, MadeDef
    <2>2. Made(<<c>>)[0] = <<>>
      BY <1>1, MadeDef
    <2>3. QED
      BY <1>1, <1>2, <2>1, <2>2
  <1>4. Put(c) \in Seq(OutChars)
    BY PutType
  <1>5. QED
    BY <1>1, <1>3, <1>4, TranslatedIsLast, ConcatEmptySeq

\* What follows is written after what comes before it.
LEMMA TranslatedParts ==
  ASSUME NEW a \in Seq(InChars), NEW b \in Seq(InChars)
  PROVE  Translated(a \o b) = Translated(a) \o Translated(b)
  <1> DEFINE t == a \o b
             A == Len(a)
             B == Len(b)
             g == [i \in 0..B |-> Made(t)[A + i]]
             h == [i \in 0..B |-> Translated(a) \o Made(b)[i]]
  <1>1. /\ t \in Seq(InChars) /\ Len(t) = A + B /\ A \in Nat /\ B \in Nat
        /\ \A i \in 1..A : t[i] = a[i]
        /\ \A i \in 1..B : t[A + i] = b[i]
    <2>1. \A i \in 1..A + B : t[i] = IF i <= A THEN a[i] ELSE b[i - A]
      BY ConcatProperties
    <2>2. \A i \in 1..B : A + i \in 1..A + B /\ ~(A + i <= A) /\ (A + i) - A = i
      OBVIOUS
    <2>3. \A i \in 1..A : i \in 1..A + B /\ i <= A
      OBVIOUS
    <2>4. t \in Seq(InChars) /\ Len(t) = A + B /\ A \in Nat /\ B \in Nat
      BY ConcatProperties
    <2> HIDE DEF t, A, B
    <2>5. QED
      BY <2>1, <2>2, <2>3, <2>4
  <1>2. A = Len(a) /\ B = Len(b)
    OBVIOUS
  <1> HIDE DEF t, A, B
  <1>3. \A i \in 0..A : Made(t)[i] = Made(a)[i]
    <2>1. ASSUME NEW i \in 1..A, Made(t)[i - 1] = Made(a)[i - 1]
          PROVE  Made(t)[i] = Made(a)[i]
      <3>1. i \in 1..Len(t) /\ t[i] = a[i]
        BY <1>1
      <3>2. QED
        <4>1. Made(t)[i] = Made(t)[i - 1] \o Put(t[i])
          BY <1>1, <3>1, MadeDef
        <4>2. Made(a)[i] = Made(a)[i - 1] \o Put(a[i])
          BY <1>2, MadeDef
        <4>3. QED
          BY <2>1, <3>1, <4>1, <4>2
    <2>2. Made(t)[0] = Made(a)[0]
      BY <1>1, MadeDef
    <2>3. A \in Nat
      BY <1>1
    <2>4. Alike(A, Made(t), Made(a))
      BY <2>1, <2>2 DEF Alike
    <2>5. QED
      BY <2>3, <2>4, AlikeAgree, Zenon
  <1>4. Translated(a) = Made(t)[A] /\ Translated(a) \in Seq(OutChars)
    <2>1. A \in 0..A
      BY <1>1
    <2>2. QED
      BY <1>3, <1>2, <2>1, TranslatedIsLast, TranslatedType
  <1>5. /\ \A i \in 1..A + B : Made(t)[i] = Made(t)[i - 1] \o Put(t[i])
        /\ Made(b)[0] = <<>> /\ \A i \in 1..B : Made(b)[i] = Made(b)[i - 1] \o Put(b[i])
        /\ \A i \in 0..B : Made(b)[i] \in Seq(OutChars)
    BY <1>1, <1>2, MadeDef
  <1>6. \A i \in 1..B : b[i] \in InChars
    BY <1>2
  <1>7. \A i \in 0..B : g[i] = h[i]
    <2>1. ASSUME NEW i \in 1..B, g[i - 1] = h[i - 1]
          PROVE  g[i] = h[i]
      <3>1. /\ i \in 0..B /\ i - 1 \in 0..B /\ A + i \in 1..Len(t) /\ (A + i) - 1 = A + (i - 1)
            /\ i \in 1..Len(b) /\ i - 1 \in 0..Len(b) /\ i \in 0..Len(b)
        BY <1>1, <1>2
      <3>2. g[i - 1] = Made(t)[A + (i - 1)] /\ h[i - 1] = Translated(a) \o Made(b)[i - 1]
        BY <3>1
      <3>3. g[i] = Made(t)[A + i] /\ h[i] = Translated(a) \o Made(b)[i]
        BY <3>1
      <3> HIDE DEF g, h
      <3>4. Made(t)[A + i] = Made(t)[A + (i - 1)] \o Put(b[i])
        <4>1. A + i \in 1..A + B
          BY <1>1
        <4>2. Made(t)[A + i] = Made(t)[(A + i) - 1] \o Put(t[A + i])
          BY <1>5, <4>1
        <4>3. QED
          BY <1>1, <3>1, <4>2
      <3>5. /\ Made(b)[i] = Made(b)[i - 1] \o Put(b[i]) /\ Made(b)[i - 1] \in Seq(OutChars)
            /\ Put(b[i]) \in Seq(OutChars)
        BY <1>5, <1>6, <3>1, PutType
      <3>6. (Translated(a) \o Made(b)[i - 1]) \o Put(b[i]) = Translated(a) \o Made(b)[i]
        <4>1. Regroups(Translated(a), Made(b)[i - 1], Put(b[i]))
          BY <1>4, <3>5, Regroup, Zenon
        <4>2. Made(b)[i - 1] \o Put(b[i]) = Made(b)[i]
          BY <3>5
        <4>3. QED
          BY <4>1, <4>2, Zenon DEF Regroups
      <3>7. QED
        BY <2>1, <3>2, <3>3, <3>4, <3>6
    <2>2. g[0] = h[0]
      <3>1. 0 \in 0..B /\ A + 0 = A
        BY <1>1
      <3>2. g[0] = Translated(a) /\ h[0] = Translated(a) \o Made(b)[0]
        BY <1>4, <3>1
      <3> HIDE DEF g, h
      <3>3. QED
        BY <1>5, <1>4, <3>2, ConcatEmptySeq
    <2>3. B \in Nat
      BY <1>1
    <2> HIDE DEF g, h
    <2>4. Alike(B, g, h)
      BY <2>1, <2>2 DEF Alike
    <2>5. QED
      BY <2>3, <2>4, AlikeAgree, Zenon
  <1>8. B \in 0..B /\ Len(t) = A + B
    BY <1>1
  <1>9. Translated(t) = g[B] /\ h[B] = Translated(a) \o Translated(b)
    BY <1>8, <1>2, TranslatedIsLast
  <1>10. QED
    BY <1>7, <1>8, <1>9 DEF t

\* Text without a line feed is written as it is.
LEMMA TranslatedAsIs ==
  ASSUME NEW t \in Seq(InChars), \A i \in 1..Len(t) : t[i] # "lf"
  PROVE  Translated(t) = t
  <1> DEFINE g == [i \in 0..Len(t) |-> SubSeq(t, 1, i)]
  <1>1. \A i \in 0..Len(t) : Made(t)[i] = g[i]
    <2>1. ASSUME NEW i \in 1..Len(t), Made(t)[i - 1] = g[i - 1]
          PROVE  Made(t)[i] = g[i]
      <3>1. i \in 0..Len(t) /\ i - 1 \in 0..Len(t) /\ Put(t[i]) = <<t[i]>> /\ 1 \in 1..Len(t)
            /\ i \in 1..Len(t)
        BY DEF Put
      <3>2. SubSeq(t, 1, i) = SubSeq(t, 1, i - 1) \o <<t[i]>>
        BY <3>1, SubSeqRecursiveSecond
      <3>3. QED
        BY <2>1, <3>1, <3>2, MadeDef
    <2>2. Made(t)[0] = g[0]
      <3>1. SubSeq(t, 1, 0) = <<>> /\ 0 \in 0..Len(t)
        BY SubSeqEmpty
      <3>2. Made(t)[0] = <<>>
        BY MadeDef, Zenon
      <3>3. g[0] = SubSeq(t, 1, 0)
        BY <3>1
      <3> HIDE DEF g
      <3>4. QED
        BY <3>1, <3>2, <3>3
    <2> DEFINE m == Made(t)
               n == Len(t)
    <2>3. n \in Nat
      OBVIOUS
    <2>4. m[0] = g[0] /\ \A i \in 1..n : m[i - 1] = g[i - 1] => m[i] = g[i]
      BY <2>1, <2>2
    <2> HIDE DEF g, m, n
    <2>5. Alike(n, m, g)
      BY <2>4 DEF Alike
    <2>6. \A i \in 0..n : m[i] = g[i]
      BY <2>3, <2>5, AlikeAgree
    <2>7. QED
      BY <2>6 DEF m, n
  <1>2. Len(t) \in 0..Len(t)
    OBVIOUS
  <1>3. QED
    BY <1>1, <1>2, TranslatedIsLast, SubSeqFull

\* What is to be written, and what of it is still to come.
DueText == IF build = "ack" \/ to_window THEN text ELSE Translated(text)
Pending == CASE con_pc = "piece" -> Translated(rest)
             [] con_pc = "crlf" -> <<"cr", "lf">> \o Translated(rest)
             [] con_pc = "cr" -> <<"cr">> \o rest
             [] con_pc = "whole" -> rest
Writing == con_pc \in {"piece", "crlf", "cr", "whole"}
\* The outcome that AllOrEof describes, and that it may be told of.
Outcome(due, s, a, e) ==
  /\ Len(s) <= Len(due) /\ s = SubSeq(due, 1, Len(s))
  /\ a = "ok" => s = due
  /\ e # "none" => a = "EOF" /\ (e = "EIO" => s # due)
\* What was written and what is to come make up the text.
TextInv ==
  /\ text \in Seq(InChars) /\ rest \in Seq(InChars) /\ sent \in Seq(OutChars)
  /\ con_pc \in {"init", "run", "piece", "crlf", "cr", "whole", "measure", "format", "exit"}
  /\ Writing => sent \o Pending = DueText /\ answer = "none" /\ con_errno = "none"
  /\ con_pc \in {"piece", "crlf"} => build # "ack" /\ ~to_window
  /\ con_pc \in {"measure", "format"} =>
       to_window /\ sent = <<>> /\ answer = "none" /\ con_errno = "none"
  /\ con_pc # "format" => ~buf
  /\ Outcome(DueText, sent, answer, con_errno)

LEMMA TextInvImplies == TextInv => AllOrEof
  BY DEF TextInv, AllOrEof, Outcome, DueText

LEMMA InAreOut == \A t \in Seq(InChars) : t \in Seq(OutChars)
  <1>1. InChars \subseteq OutChars
    BY DEF InChars, OutChars
  <1>2. QED
    BY <1>1, SeqMonotonic

LEMMA DueType == TextInv => DueText \in Seq(OutChars)
  BY InAreOut, TranslatedType DEF TextInv, DueText

LEMMA Front ==
  ASSUME NEW S, NEW s \in Seq(S), NEW r \in Seq(S)
  PROVE  /\ Len(s) <= Len(s \o r) /\ s = SubSeq(s \o r, 1, Len(s))
         /\ s = s \o r <=> r = <<>>
  <1>1. Len(s) \in Nat /\ Len(r) \in Nat /\ s \o r \in Seq(S) /\ Len(s \o r) = Len(s) + Len(r)
    BY ConcatProperties
  <1>2. s = SubSeq(s \o r, 1, Len(s))
    <2>1. CASE s = <<>>
      <3>1. SubSeq(s \o r, 1, 0) = <<>> /\ Len(s) = 0
        BY <2>1, SubSeqEmpty
      <3>2. QED
        BY <2>1, <3>1
    <2>2. CASE s # <<>>
      <3>1. 1 \in 1..Len(s) /\ Len(s) \in 1..Len(s)
        BY <2>2, EmptySeq
      <3>2. SubSeq(s \o r, 1, Len(s)) = SubSeq(s, 1, Len(s))
        BY <3>1, SubSeqOfConcat1
      <3>3. QED
        BY <3>2, SubSeqFull
    <2>3. QED
      BY <2>1, <2>2
  <1>3. s = s \o r <=> r = <<>>
    BY ConcatEqualIffEmpty
  <1>4. Len(s) <= Len(s) + Len(r)
    BY <1>1
  <1>5. QED
    BY <1>1, <1>2, <1>3, <1>4

LEMMA Cut ==
  ASSUME NEW S, NEW s \in Seq(S), NEW n \in 0..Len(s)
  PROVE  /\ SubSeq(s, 1, n) \in Seq(S) /\ SubSeq(s, n + 1, Len(s)) \in Seq(S)
         /\ s = SubSeq(s, 1, n) \o SubSeq(s, n + 1, Len(s))
         /\ n < Len(s) => SubSeq(s, n + 1, Len(s)) # <<>>
  <1>1. 1 \in Int /\ n \in Int /\ n + 1 \in Int /\ Len(s) \in Int /\ Len(s) \in Nat
    OBVIOUS
  <1>2. /\ \A i \in 1..n : s[i] \in S
        /\ \A i \in n + 1..Len(s) : s[i] \in S
    OBVIOUS
  <1>3. SubSeq(s, 1, n) \in Seq(S)
    BY <1>1, <1>2, SubSeqProperties
  <1>4. SubSeq(s, n + 1, Len(s)) \in Seq(S)
        /\ Len(SubSeq(s, n + 1, Len(s))) = IF n + 1 <= Len(s) THEN Len(s) - (n + 1) + 1 ELSE 0
    BY <1>1, <1>2, SubSeqProperties
  <1>5. ASSUME n < Len(s) PROVE SubSeq(s, n + 1, Len(s)) # <<>>
    <2>1. n + 1 <= Len(s) /\ Len(s) - (n + 1) + 1 > 0
      BY <1>1, <1>5
    <2> DEFINE q == SubSeq(s, n + 1, Len(s))
    <2>2. Len(q) > 0
      BY <1>4, <2>1
    <2> HIDE DEF q
    <2>3. q # <<>>
      BY <2>2
    <2>4. QED
      BY <2>3 DEF q
  <1>6. 1 \in 1..Len(s) + 1 /\ n \in 1 - 1..Len(s) /\ Len(s) \in n..Len(s)
    BY <1>1
  <1>7. SubSeq(s, 1, n) \o SubSeq(s, n + 1, Len(s)) = SubSeq(s, 1, Len(s))
    BY <1>6, ConcatAdjacentSubSeq
  <1>8. QED
    BY <1>3, <1>4, <1>5, <1>7, SubSeqFull

LEMMA OutcomeNow ==
  ASSUME TextInv, NEW r \in Seq(OutChars), NEW s \in Seq(OutChars), s \o r = DueText,
         NEW a, NEW e, a = "ok" => r = <<>>, e # "none" => a = "EOF" /\ (e = "EIO" => r # <<>>)
  PROVE  Outcome(DueText, s, a, e)
  <1>1. Len(s) <= Len(DueText) /\ s = SubSeq(DueText, 1, Len(s)) /\ (s = DueText <=> r = <<>>)
    BY Front
  <1>2. QED
    BY <1>1 DEF Outcome

\* One call of write () for cs, with r to be written after it.
LEMMA WriteStep ==
  ASSUME TextInv, Writing, DuringCall, NEW cs \in Seq(OutChars), NEW r \in Seq(OutChars),
         Pending = cs \o r, NEW next \in {"run", "piece", "crlf", "whole"},
         next = "run" => r = <<>>, Write(cs, next), rest' \in Seq(InChars),
         next = "crlf" => build # "ack" /\ ~to_window /\ r = <<"cr", "lf">> \o Translated(rest'),
         next = "piece" => build # "ack" /\ ~to_window /\ r = Translated(rest'),
         next = "whole" => r = rest'
  PROVE  TextInv'
  <1>1. /\ UNCHANGED <<build, opens, started, text, to_window, buf>>
        /\ sent \o (cs \o r) = DueText /\ answer = "none" /\ con_errno = "none" /\ ~buf
        /\ sent \in Seq(OutChars) /\ text \in Seq(InChars)
    BY DEF DuringCall, conSetup, conBuffer, TextInv, Writing
  <1>2. DueText' = DueText
    BY <1>1 DEF DueText
  <1>3. sent \o (cs \o r) = (sent \o cs) \o r /\ cs \o r \in Seq(OutChars)
    <2>1. Regroups(sent, cs, r)
      BY <1>1, Regroup, Zenon
    <2>2. cs \o r \in Seq(OutChars)
      BY Joined, Zenon
    <2>3. QED
      BY <2>1, <2>2, Zenon DEF Regroups
  <1>4. CASE WriteAll(cs, next)
    <2>1. /\ sent' = sent \o cs /\ con_pc' = next /\ con_errno' = con_errno
          /\ answer' = IF next = "run" THEN "ok" ELSE answer
      BY <1>4 DEF WriteAll
    <2>2. sent' \in Seq(OutChars) /\ sent' \o r = DueText
      BY <1>1, <1>3, <2>1, ConcatProperties
    <2>3. Outcome(DueText, sent', answer', con_errno')
      BY <1>1, <2>1, <2>2, OutcomeNow
    <2>4. Writing' => Pending' = r
      BY <2>1 DEF Writing, Pending
    <2>5. QED
      BY <1>1, <1>2, <2>1, <2>2, <2>3, <2>4 DEF TextInv, Writing
  <1>5. CASE WriteSome(cs)
    <2>1. PICK n \in 0..Len(cs) - 1 :
            /\ sent' = sent \o SubSeq(cs, 1, n) /\ con_pc' = "run"
            /\ answer' = "EOF" /\ con_errno' = "EIO"
      BY <1>5 DEF WriteSome
    <2> DEFINE p == SubSeq(cs, 1, n)
               q == SubSeq(cs, n + 1, Len(cs))
    <2>2. n \in 0..Len(cs) /\ n < Len(cs)
      OBVIOUS
    <2>3. p \in Seq(OutChars) /\ q \in Seq(OutChars) /\ cs = p \o q /\ q # <<>>
      BY <2>2, Cut
    <2>4. sent' = sent \o p
      BY <2>1
    <2> HIDE DEF p, q
    <2>5. sent' \in Seq(OutChars) /\ q \o r \in Seq(OutChars) /\ q \o r # <<>>
      BY <1>1, <2>3, <2>4, Joined, ConcatEqualIffEmpty
    <2>6. sent' \o (q \o r) = DueText
      <3>1. Regroups(p, q, r) /\ Regroups(sent, p, q \o r)
        BY <1>1, <2>3, <2>5, Regroup, Zenon
      <3>2. (p \o q) \o r = p \o (q \o r)
        BY <3>1, Zenon DEF Regroups
      <3>3. (sent \o p) \o (q \o r) = sent \o (p \o (q \o r))
        BY <3>1, Zenon DEF Regroups
      <3>4. sent \o (p \o (q \o r)) = DueText
        BY <1>1, <2>3, <3>2
      <3>5. QED
        BY <2>4, <3>3, <3>4
    <2>7. Outcome(DueText, sent', answer', con_errno')
      BY <2>1, <2>5, <2>6, OutcomeNow
    <2>8. QED
      BY <1>1, <1>2, <2>1, <2>5, <2>7 DEF TextInv, Writing
  <1>6. CASE WriteFails
    <2>1. sent' = sent /\ con_pc' = "run" /\ answer' = "EOF" /\ con_errno' = "dos"
      BY <1>6 DEF WriteFails
    <2>2. Outcome(DueText, sent', answer', con_errno')
      BY <1>1, <1>3, <2>1, OutcomeNow
    <2>3. QED
      BY <1>1, <1>2, <2>1, <2>2 DEF TextInv, Writing
  <1>7. QED
    BY <1>4, <1>5, <1>6 DEF Write

LEMMA PieceStep == ASSUME TextInv, Piece PROVE TextInv'
  <1> DEFINE n == FirstLf(rest)
             p == SubSeq(rest, 1, n - 1)
             q == SubSeq(rest, n + 1, Len(rest))
             next == IF n <= Len(rest) THEN "crlf" ELSE "run"
  <1>1. /\ con_pc = "piece" /\ DuringCall /\ Write(p, next) /\ rest' = q
        /\ rest \in Seq(InChars) /\ build # "ack" /\ ~to_window
    BY DEF Piece, TextInv
  <1>2. /\ n \in 1..Len(rest) + 1 /\ (n <= Len(rest) => rest[n] = "lf")
        /\ \A m \in 1..n - 1 : rest[m] # "lf"
    <2> DEFINE Is(i) == (i <= Len(rest) => rest[i] = "lf") /\ \A m \in 1..i - 1 : rest[m] # "lf"
    <2>1. \E i \in 1..Len(rest) + 1 : Is(i)
      <3>1. CASE \A m \in 1..Len(rest) : rest[m] # "lf"
        <4>1. Is(Len(rest) + 1)
          BY <3>1
        <4>2. Len(rest) + 1 \in 1..Len(rest) + 1
          BY <1>1
        <4>3. QED
          BY <4>1, <4>2
      <3>2. CASE \E m \in 1..Len(rest) : rest[m] = "lf"
        <4> DEFINE S == {m \in Nat : m \in 1..Len(rest) /\ rest[m] = "lf"}
        <4>1. \E m \in Nat : m \in S
          BY <3>2
        <4>2. PICK m \in S : \A i \in S : m <= i
          <5>1. S \subseteq Nat /\ S # {}
            BY <4>1
          <5> HIDE DEF S
          <5>2. QED
            BY <5>1, SmallestNat
        <4>3. Is(m) /\ m \in 1..Len(rest) + 1
          BY <4>2
        <4>4. QED
          BY <4>3
      <3>3. QED
        BY <3>1, <3>2
    <2>2. n = CHOOSE i \in 1..Len(rest) + 1 : Is(i)
      BY DEF FirstLf
    <2> HIDE DEF n
    <2>3. n \in 1..Len(rest) + 1 /\ Is(n)
      <3> HIDE DEF Is
      <3>1. QED
        BY <2>1, <2>2
    <2>4. QED
      BY <2>3
  <1> HIDE DEF n
  <1>3. n - 1 \in 0..Len(rest) /\ Len(rest) \in Nat /\ (n - 1) + 1 = n
    BY <1>1, <1>2
  <1>4. /\ p \in Seq(InChars) /\ SubSeq(rest, n, Len(rest)) \in Seq(InChars)
        /\ rest = p \o SubSeq(rest, n, Len(rest))
    BY <1>1, <1>3, Cut
  <1>5. Translated(p) = p
    <2>1. 1 \in Int /\ n - 1 \in Int /\ \A i \in 1..n - 1 : rest[i] \in InChars
      BY <1>1, <1>2
    <2>2. Len(p) = (IF 1 <= n - 1 THEN n - 1 - 1 + 1 ELSE 0)
          /\ \A i \in 1..n - 1 - 1 + 1 : p[i] = rest[1 + i - 1]
      BY <2>1, SubSeqProperties
    <2>3. \A i \in 1..Len(p) : p[i] # "lf"
      BY <1>2, <1>3, <2>2
    <2>4. QED
      BY <1>4, <2>3, TranslatedAsIs
  <1>6. CASE n <= Len(rest)
    <2>1. n \in 1..Len(rest) /\ Len(rest) \in n..Len(rest) /\ rest[n] = "lf"
      BY <1>2, <1>3, <1>6
    <2>2. SubSeq(rest, n, Len(rest)) = <<"lf">> \o q
      BY <1>1, <2>1, SubSeqRecursiveFirst
    <2>3. q \in Seq(InChars) /\ <<"lf">> \in Seq(InChars)
      <3>1. n \in 0..Len(rest)
        BY <1>3, <2>1
      <3>2. QED
        BY <1>1, <3>1, Cut DEF InChars
    <2> HIDE DEF p, q
    <2>4. Translated(<<"lf">>) = <<"cr", "lf">>
      BY TranslatedOne DEF InChars, Put
    <2>5. Translated(<<"lf">> \o q) = <<"cr", "lf">> \o Translated(q)
      BY <2>3, <2>4, TranslatedParts
    <2>6. Translated(rest) = p \o (<<"cr", "lf">> \o Translated(q))
      BY <1>4, <1>5, <2>2, <2>3, <2>5, TranslatedParts
    <2>7. <<"cr", "lf">> \o Translated(q) \in Seq(OutChars) /\ p \in Seq(OutChars)
      <3>1. <<"cr", "lf">> \in Seq(OutChars) /\ Translated(q) \in Seq(OutChars)
        BY <2>3, TranslatedType DEF OutChars
      <3>2. QED
        BY <1>4, <3>1, ConcatProperties, InAreOut
    <2>8. Pending = p \o (<<"cr", "lf">> \o Translated(q)) /\ Writing
      BY <1>1, <2>6 DEF Pending, Writing
    <2>9. QED
      BY <1>1, <1>6, <2>3, <2>7, <2>8, WriteStep
  <1>7. CASE n > Len(rest)
    <2>1. n = Len(rest) + 1
      BY <1>2, <1>3, <1>7
    <2>2. SubSeq(rest, n, Len(rest)) = <<>> /\ q = <<>>
      BY <1>3, <2>1, SubSeqEmpty
    <2>3. p = rest /\ q \in Seq(InChars) /\ <<>> \in Seq(OutChars)
      <3>1. <<>> \in Seq(InChars) /\ <<>> \in Seq(OutChars)
        OBVIOUS
      <3> HIDE DEF p, q
      <3>2. p \o <<>> = p
        BY <1>4, ConcatEmptySeq
      <3>3. QED
        BY <1>4, <2>2, <3>1, <3>2
    <2> HIDE DEF p, q
    <2>4. Pending = p \o <<>> /\ Writing /\ p \in Seq(OutChars)
      BY <1>1, <1>4, <1>5, <2>3, InAreOut, ConcatEmptySeq DEF Pending, Writing
    <2>5. next = "run"
      BY <1>3, <2>1
    <2>6. QED
      BY <1>1, <2>3, <2>4, <2>5, WriteStep
  <1>8. QED
    BY <1>2, <1>3, <1>6, <1>7

LEMMA PartStep == ASSUME TextInv, Crlf \/ Whole \/ Cr PROVE TextInv'
  <1>1. /\ rest \in Seq(InChars) /\ rest \in Seq(OutChars) /\ Translated(rest) \in Seq(OutChars)
        /\ <<"cr", "lf">> \in Seq(OutChars) /\ <<"cr">> \in Seq(OutChars) /\ <<>> \in Seq(OutChars)
    BY InAreOut, TranslatedType DEF TextInv, OutChars
  <1>2. CASE Crlf
    <2>1. /\ con_pc = "crlf" /\ DuringCall /\ Write(<<"cr", "lf">>, "piece") /\ rest' = rest
          /\ Writing /\ build # "ack" /\ ~to_window
          /\ Pending = <<"cr", "lf">> \o Translated(rest)
      BY <1>2 DEF Crlf, Writing, TextInv, Pending
    <2>2. QED
      BY <1>1, <2>1, WriteStep
  <1>3. CASE Whole
    <2>1. /\ con_pc = "whole" /\ DuringCall /\ Write(rest, "run") /\ rest' = rest
          /\ Writing /\ Pending = rest
      BY <1>3 DEF Whole, Writing, Pending
    <2>2. Pending = rest \o <<>>
      BY <1>1, <2>1, ConcatEmptySeq
    <2>3. QED
      BY <1>1, <2>1, <2>2, WriteStep
  <1>4. CASE Cr
    <2>1. /\ con_pc = "cr" /\ DuringCall /\ Write(<<"cr">>, "whole") /\ rest' = rest
          /\ Writing /\ Pending = <<"cr">> \o rest
      BY <1>4 DEF Cr, Writing, Pending
    <2>2. QED
      BY <1>1, <2>1, WriteStep
  <1>5. QED
    BY <1>2, <1>3, <1>4

\* A call that starts.
LEMMA StartStep ==
  ASSUME TextInv, NEW t \in Seq(InChars), text' = t, rest' = t, sent' = <<>>,
         answer' = "none", con_errno' = "none", UNCHANGED <<build, buf>>, con_pc = "run",
         \/ con_pc' = "piece" /\ build = "gcc" /\ ~to_window'
         \/ con_pc' = "cr" /\ build = "gcc" /\ t = <<"lf">> /\ ~to_window'
         \/ con_pc' = "whole" /\ build = "gcc" /\ Len(t) = 1 /\ t # <<"lf">> /\ ~to_window'
         \/ con_pc' = "whole" /\ build = "ack" /\ ~to_window'
         \/ con_pc' = "measure" /\ to_window'
  PROVE  TextInv'
  <1>1. DueText' \in Seq(OutChars) /\ sent' \in Seq(OutChars) /\ <<>> \in Seq(OutChars)
    BY InAreOut, TranslatedType DEF DueText
  <1>2. Writing' => Pending' = DueText' /\ ~to_window'
    <2>1. CASE con_pc' = "piece" /\ build = "gcc" /\ ~to_window'
      BY <2>1 DEF Pending, DueText
    <2>2. CASE con_pc' = "cr" /\ build = "gcc" /\ t = <<"lf">> /\ ~to_window'
      <3>1. Pending' = <<"cr">> \o <<"lf">> /\ DueText' = Translated(<<"lf">>)
        BY <2>2 DEF Pending, DueText
      <3>2. Translated(<<"lf">>) = <<"cr", "lf">>
        <4>1. "lf" \in InChars /\ Put("lf") = <<"cr", "lf">>
          BY DEF InChars, Put
        <4>2. QED
          BY <4>1, TranslatedOne
      <3>3. <<"cr">> \o <<"lf">> = <<"cr", "lf">>
        BY TwoBytes
      <3>4. QED
        BY <2>2, <3>1, <3>2, <3>3
    <2>3. CASE con_pc' = "whole" /\ build = "gcc" /\ Len(t) = 1 /\ t # <<"lf">> /\ ~to_window'
      <3>1. \A i \in 1..Len(t) : t[i] # "lf"
        <4>1. t = <<t[1]>>
          BY <2>3
        <4>2. QED
          BY <2>3, <4>1
      <3>2. Translated(t) = t
        BY <3>1, TranslatedAsIs
      <3>3. QED
        BY <2>3, <3>2 DEF Pending, DueText
    <2>4. CASE con_pc' = "whole" /\ build = "ack" /\ ~to_window'
      BY <2>4 DEF Pending, DueText
    <2>5. QED
      BY <2>1, <2>2, <2>3, <2>4 DEF Writing
  <1>3. Outcome(DueText', sent', answer', con_errno')
    <2>1. Len(<<>>) = 0 /\ Len(DueText') \in Nat /\ SubSeq(DueText', 1, 0) = <<>>
      BY <1>1, SubSeqEmpty
    <2>2. QED
      BY <2>1 DEF Outcome
  <1>4. Writing' => sent' \o Pending' = DueText'
    BY <1>1, <1>2, ConcatEmptySeq
  <1>5. QED
    BY <1>1, <1>2, <1>3, <1>4 DEF TextInv, Writing

LEMMA TextInvInit == ConInit => TextInv
  <1> SUFFICES ASSUME ConInit PROVE TextInv
    OBVIOUS
  <1>1. text = <<>> /\ rest = <<>> /\ sent = <<>> /\ answer = "none" /\ con_errno = "none"
        /\ con_pc = "init" /\ ~buf
    BY DEF ConInit
  <1>2. DueText = <<>>
    BY <1>1, TranslatedNone DEF DueText
  <1>3. Outcome(<<>>, <<>>, "none", "none")
    <2>1. Len(<<>>) = 0 /\ SubSeq(<<>>, 1, 0) = <<>>
      BY SubSeqEmpty
    <2>2. QED
      BY <2>1 DEF Outcome
  <1>4. QED
    BY <1>1, <1>2, <1>3 DEF TextInv, Writing

\* A step that leaves the text alone.
LEMMA TextStays ==
  ASSUME TextInv, UNCHANGED <<build, text, rest, sent, con_errno, to_window, buf>>,
         con_pc \in {"init", "run"}, con_pc' \in {"init", "run", "exit"},
         answer' \in {answer, "EOF"}
  PROVE  TextInv'
  <1>1. DueText' = DueText
    BY DEF DueText
  <1>2. Outcome(DueText, sent, answer', con_errno)
    BY DEF TextInv, Outcome
  <1>3. QED
    BY <1>1, <1>2 DEF TextInv, Writing

LEMMA TextInvNext == TextInv /\ [ConNext]_conVars => TextInv'
  <1> SUFFICES ASSUME TextInv, [ConNext]_conVars PROVE TextInv'
    OBVIOUS
  <1>1. \A t \in ConTexts : t \in Seq(InChars)
    BY ConAssumption DEF InChars
  <1>2. CASE UNCHANGED conVars
    BY <1>2 DEF conVars, conSetup, conCall, conBuffer, TextInv, Writing, Pending, DueText
  <1>3. CASE \/ InInitDos \/ InInitElks \/ OutInit \/ VidIsConsole \/ EnterMain \/ GetchCon
             \/ Kbhit \/ Exit \/ Vcprintf
    <2>1. /\ UNCHANGED <<build, text, rest, sent, con_errno, to_window, buf>>
          /\ con_pc \in {"init", "run"} /\ con_pc' \in {"init", "run", "exit"}
          /\ answer' \in {answer, "EOF"}
      <3>1. CASE InInitDos \/ InInitElks \/ OutInit \/ VidIsConsole \/ EnterMain
        BY <3>1 DEF InInitDos, InInitElks, OutInit, VidIsConsole, EnterMain, conSetup, conCall,
                    conBuffer
      <3>2. CASE GetchCon \/ Kbhit \/ Exit
        BY <3>2 DEF GetchCon, Kbhit, Exit, conSetup, conCall, conBuffer
      <3>3. CASE Vcprintf
        <4>1. /\ UNCHANGED <<build, text, rest, sent, con_errno, to_window, buf>>
              /\ con_pc = "run" /\ con_pc' = "run"
          BY <3>3 DEF Vcprintf, conSetup, conBuffer
        <4>2. answer' = answer \/ answer' = "EOF"
          BY <3>3 DEF Vcprintf
        <4>3. QED
          BY <4>1, <4>2
      <3>4. QED
        BY <1>3, <3>1, <3>2, <3>3
    <2>2. QED
      BY <2>1, TextStays
  <1>4. CASE Piece
    BY <1>4, PieceStep
  <1>5. CASE Crlf \/ Whole \/ Cr
    BY <1>5, PartStep
  <1>6. ASSUME NEW t \in ConTexts,
               Cputs(t) \/ Putch(t) \/ CputsAck(t) \/ PutchAck(t) \/ BcVcprintf(t)
        PROVE  TextInv'
    <2>1. /\ text' = t /\ rest' = t /\ sent' = <<>> /\ answer' = "none" /\ con_errno' = "none"
          /\ UNCHANGED <<build, buf>> /\ con_pc = "run"
      BY <1>6 DEF Cputs, Putch, CputsAck, PutchAck, BcVcprintf, Call, conSetup
    <2>2. \/ con_pc' = "piece" /\ build = "gcc" /\ ~to_window'
          \/ con_pc' = "cr" /\ build = "gcc" /\ t = <<"lf">> /\ ~to_window'
          \/ con_pc' = "whole" /\ build = "gcc" /\ Len(t) = 1 /\ t # <<"lf">> /\ ~to_window'
          \/ con_pc' = "whole" /\ build = "ack" /\ ~to_window'
          \/ con_pc' = "measure" /\ to_window'
      BY <1>6 DEF Cputs, Putch, CputsAck, PutchAck, BcVcprintf, Call
    <2>3. QED
      BY <1>1, <2>1, <2>2, StartStep
  <1>7. CASE Measure
    <2>1. /\ UNCHANGED <<build, text, rest, sent, con_errno, to_window>> /\ con_pc = "measure"
          /\ to_window /\ sent = <<>> /\ answer = "none" /\ con_errno = "none"
          /\ \/ con_pc' = "run" /\ answer' = "EOF" /\ UNCHANGED buf
             \/ con_pc' = "format" /\ UNCHANGED answer
      BY <1>7 DEF Measure, WindowCall, conSetup, TextInv
    <2>2. DueText' = DueText
      BY <2>1 DEF DueText
    <2>3. Outcome(DueText, sent, answer', con_errno)
      BY <2>1 DEF TextInv, Outcome
    <2>4. QED
      BY <2>1, <2>2, <2>3 DEF TextInv, Writing
  <1>8. CASE Format
    <2>1. /\ UNCHANGED <<build, text, rest, con_errno, to_window>> /\ con_pc' = "run" /\ ~buf'
          /\ to_window /\ sent = <<>> /\ answer = "none" /\ con_errno = "none"
          /\ \/ sent' = text /\ answer' = "ok"
             \/ UNCHANGED sent /\ answer' = "EOF"
      BY <1>8 DEF Format, WindowCall, conSetup, TextInv
    <2>2. DueText' = DueText /\ DueText = text /\ text \in Seq(OutChars) /\ text \in Seq(InChars)
      BY <2>1, InAreOut DEF DueText, TextInv
    <2>3. Outcome(DueText, sent', answer', con_errno) /\ sent' \in Seq(OutChars)
      <3>1. CASE sent' = text /\ answer' = "ok"
        <4>1. Len(text) \in Nat /\ SubSeq(text, 1, Len(text)) = text
          BY <2>2, SubSeqFull
        <4>2. QED
          BY <2>1, <2>2, <3>1, <4>1 DEF Outcome
      <3>2. CASE UNCHANGED sent /\ answer' = "EOF"
        BY <2>1, <3>2 DEF TextInv, Outcome
      <3>3. QED
        BY <2>1, <3>1, <3>2
    <2>4. QED
      BY <2>1, <2>2, <2>3 DEF TextInv, Writing
  <1>9. QED
    BY <1>2, <1>3, <1>4, <1>5, <1>6, <1>7, <1>8 DEF ConNext

THEOREM AllIsWritten == ConSpec => []AllOrEof
  BY TextInvInit, TextInvNext, TextInvImplies, PTL DEF ConSpec
=============================================================================
