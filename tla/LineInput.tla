----------------------------- MODULE LineInput -----------------------------
(***************************************************************************)
(* Console input: _getch with the one byte that _ungetch may push back,    *)
(* and the line readers over it, cgets (which echoes) and getpass (which   *)
(* does not).  One step reads one key, with what the reader does about it. *)
(*                                                                         *)
(* Bytes are those the code tells apart: "cr", "bs" (backspace), "nul"     *)
(* (the first byte of an extended key), "ctl" (another control character)  *)
(* and the printing characters.  "EOF" is what _getch returns when reading *)
(* the file descriptor of the console fails.                               *)
(***************************************************************************)
EXTENDS Integers, Sequences

CONSTANTS Printing, \* printing characters
          Typed,    \* the bytes that the user types
          MaxLens,  \* values of buf[0], how much room the caller of cgets has
          PassLen   \* sizeof (pass) - 1

Bytes == Printing \union {"cr", "bs", "nul", "ctl"}

ASSUME InputAssumption == /\ Printing \intersect {"cr", "bs", "nul", "ctl", "EOF", "none"} = {}
                          /\ Typed \subseteq Seq(Bytes)
                          /\ MaxLens \subseteq Nat /\ PassLen \in Nat

VARIABLES input,        \* what is typed and not yet read
          ungetch_buf,  \* the byte pushed back, or "none"
          pc,           \* the call in progress
          scan,         \* the next byte is the second of an extended key
          len,          \* the room there is for characters
          line,         \* buf + 2, or pass, up to i
          beyond,       \* the characters in pass, but for those in line
          shown,        \* what cgets has echoed, as it looks on the screen
          keys          \* the bytes the call has read

vars == <<input, ungetch_buf, pc, scan, len, line, beyond, shown, keys>>

Init == /\ input \in Typed /\ ungetch_buf = "none"
        /\ pc = "ready" /\ scan = FALSE /\ len = 0
        /\ line = <<>> /\ beyond = {} /\ shown = <<>> /\ keys = <<>>

reader == <<pc, scan, len, line, beyond, shown, keys>>

-----------------------------------------------------------------------------
(* Single bytes.                                                           *)

\* _getch returns c; reading may fail at any time if the input is redirected
Getch(c) ==
  IF ungetch_buf # "none" THEN c = ungetch_buf /\ ungetch_buf' = "none" /\ UNCHANGED input
  ELSE \/ c = "EOF" /\ UNCHANGED <<input, ungetch_buf>>
       \/ /\ input # <<>> /\ c = Head(input) /\ input' = Tail(input)
          /\ UNCHANGED ungetch_buf

UngetchOver(c) == /\ pc = "ready" /\ ungetch_buf' = c
                  /\ UNCHANGED <<input, reader>>

\* _ungetch fails when a byte is pushed back already
Ungetch(c) == /\ pc = "ready" /\ ungetch_buf = "none" /\ ungetch_buf' = c
              /\ UNCHANGED <<input, reader>>

\* The program reads a byte, with _getch or _getche
ReadByte == /\ pc = "ready"
            /\ \E c \in Bytes \union {"EOF"} : Getch(c)
            /\ UNCHANGED reader

-----------------------------------------------------------------------------
(* The line readers.                                                       *)

\* cgets: the room in buf is for its characters and a null
Cgets(n) == /\ pc = "ready" /\ n # 0
            /\ pc' = "cgets" /\ len' = n - 1
            /\ line' = <<>> /\ shown' = <<>> /\ keys' = <<>>
            /\ UNCHANGED <<input, ungetch_buf, scan, beyond>>

GetpassUncleared == /\ pc = "ready"
                    /\ pc' = "getpass" /\ len' = PassLen
                    /\ line' = <<>> /\ shown' = <<>> /\ keys' = <<>>
                    /\ UNCHANGED <<input, ungetch_buf, scan, beyond>>

\* getpass: pass is cleared of the last password first
Getpass == /\ pc = "ready"
           /\ pc' = "getpass" /\ len' = PassLen
           /\ line' = <<>> /\ shown' = <<>> /\ keys' = <<>> /\ beyond' = {}
           /\ UNCHANGED <<input, ungetch_buf, scan>>

\* The reader reads a byte
Read(c) == /\ pc \in {"cgets", "getpass"}
           /\ Getch(c) /\ keys' = Append(keys, c)
           /\ UNCHANGED len
Key(c) == ~scan /\ Read(c)

Echo(t) == shown' = IF pc = "cgets" THEN t ELSE shown

Erased(t) == SubSeq(t, 1, Len(t) - 1)

\* Carriage return or end of file: the line, as far as it goes
EndLine == /\ \E c \in {"cr", "EOF"} : Key(c)
           /\ pc' = "ready"
           /\ beyond' = IF pc = "getpass" THEN {line[i] : i \in 1..Len(line)} ELSE beyond
           /\ UNCHANGED <<scan, line, shown>>

BackspaceUnchecked == /\ Key("bs")
                      /\ line' = IF line = <<>> THEN line ELSE Erased(line)
                      /\ UNCHANGED <<pc, scan, beyond, shown>>

\* Take the last character back; getpass also clears it
Backspace == /\ Key("bs")
             /\ IF line = <<>> THEN UNCHANGED <<line, shown>>
                ELSE line' = Erased(line) /\ Echo(Erased(shown))
             /\ UNCHANGED <<pc, scan, beyond>>

\* An extended key is ignored: its first byte, and whatever comes second
ExtendedOneByte == Key("nul") /\ UNCHANGED <<pc, scan, line, beyond, shown>>
Extended == /\ Key("nul") /\ scan' = TRUE
            /\ UNCHANGED <<pc, line, beyond, shown>>
ScanCode == /\ scan /\ (\E c \in Bytes \union {"EOF"} : Read(c)) /\ scan' = FALSE
            /\ UNCHANGED <<pc, line, beyond, shown>>

CharacterPastEnd(c) == /\ Key(c)
                       /\ IF Len(line) <= len /\ c \in Printing
                          THEN line' = Append(line, c) /\ Echo(Append(shown, c))
                          ELSE UNCHANGED <<line, shown>>
                       /\ UNCHANGED <<pc, scan, beyond>>

\* A printing character, if there is room for it; control characters are ignored
Character(c) == /\ Key(c)
                /\ IF Len(line) < len /\ c \in Printing
                   THEN line' = Append(line, c) /\ Echo(Append(shown, c))
                   ELSE UNCHANGED <<line, shown>>
                /\ UNCHANGED <<pc, scan, beyond>>

Next == \/ \E c \in Bytes : Ungetch(c)
        \/ ReadByte
        \/ \E n \in MaxLens : Cgets(n)
        \/ Getpass
        \/ EndLine \/ Backspace \/ Extended \/ ScanCode
        \/ \E c \in Printing \union {"ctl"} : Character(c)

Spec == Init /\ [][Next]_vars

-----------------------------------------------------------------------------
(* Correctness.                                                            *)

TypeOK == /\ input \in Seq(Bytes) /\ ungetch_buf \in Bytes \union {"none"}
          /\ pc \in {"ready", "cgets", "getpass"} /\ scan \in BOOLEAN
          /\ (pc = "ready" => ~scan)
          /\ len \in Nat /\ line \in Seq(Printing) /\ shown \in Seq(Printing)
          /\ beyond \subseteq Printing /\ keys \in Seq(Bytes \union {"EOF"})

\* The line fits where it goes, with the null after it, whatever is typed.
LineFits == Len(line) <= len

\* What cgets shows on the screen is the line it will return, however it is edited.
EchoIsLine == pc = "cgets" => shown = line

\* Nothing of an earlier password, nor of characters taken back, is left in pass
\* after the password.
PasswordAlone == pc = "getpass" => beyond = {}

\* The line is all there is: nothing but it is on the screen, and nothing but it is
\* in the buffer of a password.
NothingButTheLine == EchoIsLine /\ PasswordAlone

\* The line is what the keys say: printing characters, less those taken back,
\* and no byte of an extended key, even when one of its bytes was pushed back
\* by the program or looks like a character, backspace or carriage return.
Edited(k, n) ==
  LET second[i \in 0..Len(k)] == IF i <= 1 THEN FALSE ELSE k[i - 1] = "nul" /\ ~second[i - 1]
      edit[i \in 0..Len(k)] ==
        IF i = 0 THEN <<>>
        ELSE LET l == edit[i - 1] IN
             IF second[i] THEN l
             ELSE IF k[i] = "bs" /\ l # <<>> THEN Erased(l)
             ELSE IF k[i] \in Printing /\ Len(l) < n THEN Append(l, k[i])
             ELSE l
  IN  edit[Len(k)]
LineIsEdited == line = Edited(keys, len)

\* No byte is lost or read out of turn: a step reads the byte that is due, or
\* pushes one back in front of it.
Due == (IF ungetch_buf = "none" THEN <<>> ELSE <<ungetch_buf>>) \o input
BytesInTurn == [][\/ Due' = Due
                  \/ Due # <<>> /\ Due' = Tail(Due)
                  \/ Due' # <<>> /\ Tail(Due') = Due]_vars
=============================================================================
