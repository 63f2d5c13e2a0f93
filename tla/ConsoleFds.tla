----------------------------- MODULE ConsoleFds -----------------------------
(***************************************************************************)
(* The handles that <conio.h> reads and writes the console by: how they    *)
(* are found or opened at start-up, the raw mode that reading by the key   *)
(* needs and that is undone at exit, and what putch, cputs and cprintf     *)
(* send to them.                                                           *)
(*                                                                         *)
(* Builds: "gcc" and "elks", where constructors find both handles, and     *)
(* "ack", where the first cputs finds the one for output.                  *)
(***************************************************************************)
EXTENDS Integers, Sequences

CONSTANTS Builds,
          ConTexts  \* what programs write: sequences of "c" and "lf"

ASSUME ConAssumption == /\ Builds \subseteq {"gcc", "elks", "ack"}
                        /\ ConTexts \subseteq Seq({"c", "lf"})

Fds == 0..4
Console(access) == [dev |-> "con", access |-> access]
File == [dev |-> "file", access |-> "both"]
Closed == [dev |-> "none", access |-> "none"]

VARIABLES build,
          started,     \* what handles 0 and 1 were when the program started
          opens,       \* the console can be opened
          handles,     \* what each handle is
          con_pc,      \* "init", "run", a write in progress, "exit"
          todo,        \* the constructors that have not run
          con_in_fd, con_out_fd,
          mode, mode0, \* the opened console's mode, now and when it was opened
          saved,       \* con_in_info_word, or reset_termios: mode0 is to be set again
          con_out_fp,  \* the handle below the stream of vcprintf, or -1 for NULL
          text, rest,  \* what putch or cputs was given, and what is to be written
          sent, answer, con_errno, \* what was written; the result, and errno
          key_source,  \* what the last key was read from, or asked for
          vid_is_console, \* what ELKS programs know of the terminal
          to_window, buf  \* the call writes to the text window; its buffer is allocated

conSetup == <<build, started, opens>>
conFds == <<handles, con_in_fd, con_out_fd, mode, mode0, saved, vid_is_console>>
conBuffer == <<to_window, buf>>
conCall == <<text, rest, sent, answer, con_errno, key_source, conBuffer>>
conVars == <<conSetup, conFds, con_pc, todo, con_out_fp, conCall>>

\* Handle 2 is in use, and two more are free.  The command interpreter may have
\* redirected or closed 0 and 1; a console of its own has both directions
ConInit ==
  /\ build \in Builds /\ opens \in BOOLEAN
  /\ started \in [0..1 -> {"con", "file", "none"}]
  /\ handles = [f \in Fds |-> IF f = 2 THEN Console("both")
                              ELSE IF f > 2 THEN Closed
                              ELSE CASE started[f] = "con" -> Console("both")
                                     [] started[f] = "file" -> File
                                     [] started[f] = "none" -> Closed]
  /\ con_pc = "init"
  /\ todo = CASE build = "ack" -> {} [] build = "gcc" -> {"in", "out"}
              [] build = "elks" -> {"in", "out", "vid"}
  /\ con_in_fd = 0 /\ con_out_fd = 1
  /\ mode0 \in {"cooked", "raw"} /\ mode = mode0 /\ saved = FALSE
  /\ con_out_fp = -1
  /\ text = <<>> /\ rest = <<>> /\ sent = <<>> /\ answer = "none" /\ con_errno = "none"
  /\ key_source = "none" /\ vid_is_console = FALSE /\ to_window = FALSE /\ buf = FALSE

\* (dw & 0x81) == 0x81, or (dw & 0x82) == 0x82, or isatty
IsConsole(f) == handles[f].dev = "con"

\* DOS, or ELKS, gives the lowest handle that is free
Opened(access, f) == /\ opens /\ handles[f] = Closed
                     /\ \A g \in Fds : handles[g] = Closed => f <= g
                     /\ handles' = [handles EXCEPT ![f] = Console(access)]

\* __libi86_con_in_fd_init of the GCC build.  DOS: only a handle opened here is
\* put in raw mode, if its device information can be had
InInitDos ==
  /\ con_pc = "init" /\ build = "gcc" /\ "in" \in todo /\ todo' = todo \ {"in"}
  /\ \/ /\ ~IsConsole(0)
        /\ \E f \in Fds :
             /\ Opened("read", f) /\ con_in_fd' = f
             /\ saved' \in IF f = 0 THEN {FALSE} ELSE BOOLEAN
             /\ mode' = IF saved' THEN "raw" ELSE mode
     \/ (IsConsole(0) \/ ~opens) /\ UNCHANGED <<handles, con_in_fd, saved, mode>>
  /\ UNCHANGED <<conSetup, con_pc, con_out_fd, mode0, vid_is_console, con_out_fp, conCall>>

\* ELKS: the terminal is put in raw mode whichever handle it is on
InInitElks ==
  /\ con_pc = "init" /\ build = "elks" /\ "in" \in todo /\ todo' = todo \ {"in"}
  /\ \/ /\ ~IsConsole(0)
        /\ \E f \in Fds : Opened("read", f) /\ con_in_fd' = f
     \/ (IsConsole(0) \/ ~opens) /\ UNCHANGED <<handles, con_in_fd>>
  /\ \/ handles'[con_in_fd'].dev = "con" /\ saved' = TRUE /\ mode' = "raw"
     \/ UNCHANGED <<saved, mode>>
  /\ UNCHANGED <<conSetup, con_pc, con_out_fd, mode0, vid_is_console, con_out_fp, conCall>>

FindOutForReading ==
  \/ ~IsConsole(1) /\ \E f \in Fds : Opened("read", f) /\ con_out_fd' = f
  \/ (IsConsole(1) \/ ~opens) /\ UNCHANGED <<handles, con_out_fd>>
\* What __libi86_con_out_fd_init does in every build
FindOut == \/ ~IsConsole(1) /\ \E f \in Fds : Opened("write", f) /\ con_out_fd' = f
           \/ (IsConsole(1) \/ ~opens) /\ UNCHANGED <<handles, con_out_fd>>

\* Constructors of one priority run in an order that the linker chooses
OutInit ==
  /\ con_pc = "init" /\ "out" \in todo /\ todo' = todo \ {"out"}
  /\ FindOut
  /\ UNCHANGED <<conSetup, con_pc, con_in_fd, mode, mode0, saved, vid_is_console, con_out_fp,
                 conCall>>

\* A constructor of a later priority takes the screen for graphics and gives it back,
\* or finds another program drawing.  A terminal that is not a screen cannot be
\* taken, nor can a file; and if giving it back fails, nothing is known
VidIsConsole ==
  /\ con_pc = "init" /\ todo = {"vid"} /\ todo' = {}
  /\ \/ IsConsole(con_out_fd) /\ vid_is_console' = TRUE
     \/ UNCHANGED vid_is_console
  /\ UNCHANGED <<conSetup, handles, con_in_fd, con_out_fd, mode, mode0, saved, con_pc, con_out_fp,
                 conCall>>

EnterMain ==
  /\ con_pc = "init" /\ todo = {} /\ con_pc' = "run"
  /\ UNCHANGED <<conSetup, conFds, todo, con_out_fp, conCall>>

-----------------------------------------------------------------------------
(* Reading and writing.                                                    *)

\* _getch, which ELKS programs do not have: handle 0 is read by DOS's own function
GetchCon ==
  /\ con_pc = "run" /\ build # "elks"
  /\ key_source' = handles[con_in_fd].dev
  /\ UNCHANGED <<conSetup, conFds, con_pc, todo, con_out_fp, text, rest, sent, answer, con_errno,
                 conBuffer>>

\* _kbhit: DOS tells of handle 0 by one call, and of any other by another
Kbhit ==
  /\ con_pc = "run" /\ build # "elks"
  /\ key_source' = IF con_in_fd = 0 THEN handles[0].dev ELSE handles[con_in_fd].dev
  /\ UNCHANGED <<conSetup, conFds, con_pc, todo, con_out_fp, text, rest, sent, answer, con_errno,
                 conBuffer>>

Call(how, t) ==
  /\ con_pc = "run" /\ con_pc' = how /\ to_window' = (how = "measure") /\ UNCHANGED buf
  /\ text' = t /\ rest' = t /\ sent' = <<>> /\ answer' = "none" /\ con_errno' = "none"
  /\ UNCHANGED <<conSetup, con_in_fd, mode, mode0, saved, vid_is_console, todo, con_out_fp,
                 key_source>>

\* In the ACK build, cputs finds the handle; the code patches itself, so that it
\* does so once (todo holds "done" then)
CputsAck(t) ==
  /\ con_pc = "run" /\ build = "ack" /\ con_pc' = "whole"
  /\ text' = t /\ rest' = t /\ sent' = <<>> /\ answer' = "none" /\ con_errno' = "none"
  /\ IF "done" \in todo THEN UNCHANGED <<handles, con_out_fd>> ELSE FindOut
  /\ todo' = {"done"} /\ to_window' = FALSE
  /\ UNCHANGED <<conSetup, con_in_fd, mode, mode0, saved, vid_is_console, con_out_fp, key_source,
                 buf>>
PutchAck(t) ==
  /\ build = "ack" /\ Len(t) = 1 /\ Call("whole", t) /\ UNCHANGED <<handles, con_out_fd>>
Cputs(t) == /\ build = "gcc" /\ Call("piece", t) /\ UNCHANGED <<handles, con_out_fd>>
\* putch writes a CR before a LF, and each by itself
Putch(t) ==
  /\ build = "gcc" /\ Len(t) = 1 /\ UNCHANGED <<handles, con_out_fd>>
  /\ Call(IF t = <<"lf">> THEN "cr" ELSE "whole", t)

\* write () on the console's handle writes n of cs, or fails; then the call
\* goes on at next, or it fails, with the errno of write () or with EIO
WriteAll(cs, next) ==
  /\ sent' = sent \o cs /\ con_pc' = next
  /\ answer' = IF next = "run" THEN "ok" ELSE answer
  /\ UNCHANGED con_errno
WriteSome(cs) == \E n \in 0..Len(cs) - 1 :
                   /\ sent' = sent \o SubSeq(cs, 1, n) /\ con_pc' = "run"
                   /\ answer' = "EOF" /\ con_errno' = "EIO"
WriteFails == /\ con_pc' = "run" /\ answer' = "EOF" /\ con_errno' = "dos"
              /\ UNCHANGED sent

CanWrite == handles[con_out_fd].access \in {"both", "write"}

WriteUnchecked(cs, next) ==
  \/ WriteFails
  \/ \E n \in 0..Len(cs) : CanWrite /\ WriteAll(SubSeq(cs, 1, n), next)
Write(cs, next) == \/ CanWrite /\ (WriteAll(cs, next) \/ WriteSome(cs))
                   \/ WriteFails

DuringCall == UNCHANGED <<conSetup, conFds, todo, con_out_fp, text, key_source, conBuffer>>

FirstLf(cs) == CHOOSE n \in 1..Len(cs) + 1 :
                 (n <= Len(cs) => cs[n] = "lf") /\ \A m \in 1..n - 1 : cs[m] # "lf"

\* The characters before the next LF, or the last ones
Piece ==
  /\ con_pc = "piece" /\ DuringCall
  /\ LET n == FirstLf(rest) IN
       /\ Write(SubSeq(rest, 1, n - 1), IF n <= Len(rest) THEN "crlf" ELSE "run")
       /\ rest' = SubSeq(rest, n + 1, Len(rest))
Crlf == con_pc = "crlf" /\ DuringCall /\ Write(<<"cr", "lf">>, "piece") /\ UNCHANGED rest

Whole == con_pc = "whole" /\ DuringCall /\ Write(rest, "run") /\ UNCHANGED rest

Cr == con_pc = "cr" /\ DuringCall /\ Write(<<"cr">>, "whole") /\ UNCHANGED rest

\* vcprintf: the stream is made from the handle at the first call
Vcprintf ==
  /\ con_pc = "run" /\ build # "elks"
  /\ \/ con_out_fp' = (IF con_out_fp = -1 THEN con_out_fd ELSE con_out_fp) /\ UNCHANGED answer
     \/ con_out_fp = -1 /\ answer' = "EOF" /\ UNCHANGED con_out_fp
  /\ UNCHANGED <<conSetup, conFds, con_pc, todo, text, rest, sent, con_errno, key_source,
                 conBuffer>>

\* __libi86_bc_vcprintf, whose text goes to the text window: formatted once for its
\* length, and again into a buffer, which the ACK build allocates
BcVcprintf(t) == build # "elks" /\ Call("measure", t) /\ UNCHANGED <<handles, con_out_fd>>
WindowCall == UNCHANGED <<conSetup, conFds, todo, con_out_fp, text, rest, con_errno, key_source,
                          to_window>>
Measure == /\ con_pc = "measure" /\ WindowCall /\ UNCHANGED sent
           /\ \/ con_pc' = "run" /\ answer' = "EOF" /\ UNCHANGED buf
              \/ con_pc' = "format" /\ buf' = (build = "ack") /\ UNCHANGED answer
Format == /\ con_pc = "format" /\ con_pc' = "run" /\ WindowCall /\ buf' = FALSE
          /\ \/ sent' = text /\ answer' = "ok"
             \/ UNCHANGED sent /\ answer' = "EOF"

Exit ==
  /\ con_pc = "run" /\ con_pc' = "exit"
  /\ mode' = IF saved /\ (con_in_fd # 0 \/ build = "elks") THEN mode0 ELSE mode
  /\ UNCHANGED <<conSetup, handles, con_in_fd, con_out_fd, mode0, saved, vid_is_console, todo,
                 con_out_fp, conCall>>

ConNext == \/ InInitDos \/ InInitElks \/ OutInit \/ VidIsConsole \/ EnterMain
           \/ GetchCon \/ Kbhit \/ Vcprintf \/ Measure \/ Format \/ Exit
           \/ \E t \in ConTexts : \/ Cputs(t) \/ Putch(t) \/ CputsAck(t) \/ PutchAck(t)
                                 \/ BcVcprintf(t)
           \/ Piece \/ Crlf \/ Whole \/ Cr

ConSpec == ConInit /\ [][ConNext]_conVars

-----------------------------------------------------------------------------
(* Correctness.                                                            *)

CanRead == handles[con_in_fd].access \in {"both", "read"}

\* Two constructors that look for a handle each, and may take what the other opened.
\* With input redirected and handle 1 closed, opening the console for input may give
\* handle 1, which the other one takes for the console's output; with handle 0
\* closed and output not the console, opening it for output may give handle 0, which
\* is taken for its input.  The first to run is not said.
OutputLost == started[0] = "file" /\ started[1] = "none" /\ con_in_fd = 1
KeysLost == started[0] = "none" /\ started[1] # "con" /\ con_out_fd = 0

\* Where the console can be opened, what a program writes goes to it, whatever its
\* handles were, unless the output is lost as above, when nothing can be written at
\* all; in the ACK build only once cputs has been called.
WritesGoToIt == opens /\ (build = "ack" => todo # {}) =>
                  IsConsole(con_out_fd) /\ (CanWrite <=> ~OutputLost)

\* In the builds with constructors, keys are read from the console itself, by a handle
\* that was opened for reading unless they are lost as above.
KeysComeFromIt == build # "ack" /\ opens =>
                    /\ key_source \in {"none", "con"}
                    /\ IsConsole(con_in_fd) /\ (CanRead <=> ~KeysLost)

\* cprintf writes to where cputs does, though it keeps a stream of its own
StreamIsOnIt == build # "ack" /\ con_out_fp # -1 => con_out_fp = con_out_fd

\* The console is left in the mode it was found in, and is in raw mode only if the
\* mode to go back to is noted
ModeGivenBack == /\ con_pc = "exit" => mode = mode0
                 /\ mode # mode0 => saved

\* From the call of main to exit the console is what the program reads from and
\* writes to, by every function of <conio.h> alike, whatever its handles were when
\* it started, but that in two cases, which are told exactly, the handle is open
\* the wrong way; and after exit the console is as it was.
ConsoleIsOurs == con_pc # "init" => /\ WritesGoToIt /\ KeysComeFromIt /\ StreamIsOnIt
                                    /\ ModeGivenBack

Translated(t) ==
  LET made[n \in 0..Len(t)] ==
        IF n = 0 THEN <<>>
        ELSE made[n - 1] \o IF t[n] = "lf" THEN <<"cr", "lf">> ELSE <<t[n]>>
  IN  made[Len(t)]

\* What is written is a beginning of what should be, with each line ended by CR
\* and LF in the GCC build (the text window is left to do so by itself).  A call that
\* says it succeeded has written all of it; one that ends with an errno says that it
\* failed, and with EIO only if something was left; and no buffer outlives its call.
AllOrEof ==
  LET due == IF build = "ack" \/ to_window THEN text ELSE Translated(text) IN
  /\ Len(sent) <= Len(due) /\ sent = SubSeq(due, 1, Len(sent))
  /\ answer = "ok" => sent = due
  /\ con_errno # "none" => answer = "EOF" /\ (con_errno = "EIO" => sent # due)
  /\ con_pc = "run" => ~buf
=============================================================================
