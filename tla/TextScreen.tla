----------------------------- MODULE TextScreen -----------------------------
(***************************************************************************)
(* The text screen shared by the Watcom-like <graph.h> calls and the       *)
(* Borland-like <conio.h> calls of libi86, between two changes of the      *)
(* video mode: the text window and the cursor state kept in                *)
(* __libi86_vid_state, the cursor the BIOS keeps, the characters on the    *)
(* screen and, in graphics modes, the software cursor XORed onto them.     *)
(* Every call is one action, except __libi86_vid_outmem_do: its loop takes *)
(* one step for each character, so that the position it carries (pxy) is   *)
(* visible between characters.                                             *)
(***************************************************************************)
EXTENDS Integers, Sequences

CONSTANTS MaxX, MaxY,  \* max_x, max_y: screen width and height, minus 1
          Graph,       \* graph_p: TRUE in a graphics mode
          HighColour,  \* TRUE in a graphics mode of more than 256 colours
          Chars,       \* printable characters
          Attrs,       \* colour attributes
          Outputs,     \* the output calls the program makes: [how, text]
          MaxRows,     \* bound on the argument of _scrolltextwindow
          InitScreens  \* what may be on the screen when the mode is entered

CR == "cr"
LF == "lf"
BEL == "bel"
BS == "bs"
Blank == "blank"
\* The callers of outmem_do: _outmem, _outtext, the Borland-like putch and cputs
Callers == {"outmem", "outtext", "bc"}
Glyphs == Chars \union {CR, LF, BEL, BS, Blank}

Cells == (0..MaxX) \X (0..MaxY)
Points == [x : 0..MaxX, y : 0..MaxY]

ASSUME ScreenAssumption == /\ MaxX \in Nat /\ MaxY \in Nat /\ MaxRows \in Nat
                           /\ Graph \in BOOLEAN /\ HighColour \in BOOLEAN
                           /\ HighColour => Graph
                           /\ Outputs \subseteq [how : Callers, text : Seq(Glyphs)]
                           /\ InitScreens \subseteq [Cells -> Glyphs]

VARIABLES win,        \* the text window: x1z, y1z, x2z, y2z
          cur,        \* the BIOS's idea of the cursor position
          screen,     \* the character in each cell
          overlay,    \* the attributes XORed onto the bottom line of each cell
          curs_p,     \* whether the cursor is supposed to be displayed
          attribute,  \* the current text attribute
          pc,         \* "loop" while an output call is under way
          how,        \* its caller, "none" when there is no call
          rest,       \* what is left of its text
          pxy         \* the position it carries

call == <<pc, how, rest, pxy>>
vars == <<win, cur, screen, overlay, curs_p, attribute, pc, how, rest, pxy>>

Cell(p) == <<p.x, p.y>>
Home(w) == [x |-> w.x1, y |-> w.y1]
Inside(w, p) == p.x >= w.x1 /\ p.x <= w.x2 /\ p.y >= w.y1 /\ p.y <= w.y2
Area(w) == (w.x1..w.x2) \X (w.y1..w.y2)
Whole == [x1 |-> 0, y1 |-> 0, x2 |-> MaxX, y2 |-> MaxY]

\* __libi86_vid_get_and_adjust_rccoord
Adjust(w, p) == IF Inside(w, p) THEN p ELSE Home(w)

-----------------------------------------------------------------------------
(* The video BIOS, and the software cursor.                                *)

\* int 0x10, functions 6 and 7: scroll an area by rows, or clear it when rows = 0
BiosScroll(s, area, rows, up, fill) ==
  [c \in Cells |->
     LET y == IF up THEN c[2] + rows ELSE c[2] - rows
     IN  IF c \notin Area(area) THEN s[c]
         ELSE IF rows # 0 /\ y \in area.y1..area.y2 THEN s[<<c[1], y>>]
         ELSE fill]

\* __libi86_vid_scroll: the characters move, and what is XORed onto them
VidScroll(area, rows, up) ==
  /\ screen' = BiosScroll(screen, area, rows, up, Blank)
  /\ overlay' = BiosScroll(overlay, area, rows, up, {})

\* The modes that have a software cursor: it is not drawn in modes of more than
\* 256 colours, where curs_p is kept and nothing shows it
Drawn == Graph /\ ~HighColour

\* __libi86_vid_xor_sw_cursor, with the BIOS cursor at p
XorUnadjusted(o, shown, w, p) ==
  IF ~(Drawn /\ shown) THEN o
  ELSE [o EXCEPT ![Cell(p)] = (@ \ {attribute}) \union ({attribute} \ @)]
Xor(o, shown, w, p) ==
  IF ~(Drawn /\ shown) THEN o
  ELSE [o EXCEPT ![Cell(Adjust(w, p))] = (@ \ {attribute}) \union ({attribute} \ @)]

-----------------------------------------------------------------------------
(* Output: __libi86_vid_outmem_do.                                         *)

CrLfP(h) == h \in {"outtext", "bc"}
BelBsP(h) == h = "bc"

\* _scrolltextwindow: the row count handed to the BIOS
BiosRowsClampEarly(rows) == IF rows >= win.y2 - win.y1 \/ rows <= win.y1 - win.y2 THEN 0
                            ELSE IF rows > 0 THEN rows ELSE -rows
BiosRows(rows) == LET hm1 == win.y2 - win.y1
                  IN  IF rows > hm1 \/ rows < -hm1 THEN 0
                      ELSE IF rows > 0 THEN rows ELSE -rows

\* __libi86_vid_next_line: the next position, and whether the window scrolls
NextLine(p) == [x |-> win.x1, y |-> IF p.y < win.y2 THEN p.y + 1 ELSE p.y]
ScrollIfLast(s, p, fill) ==
  IF p.y < win.y2 THEN s ELSE BiosScroll(s, win, BiosRows(1), TRUE, fill)

\* The cursor comes down and the call picks up its starting position
OutMem(out) ==
  /\ pc = "idle" /\ out.text # <<>>
  /\ pc' = "loop" /\ how' = out.how /\ rest' = out.text
  /\ overlay' = Xor(overlay, curs_p, win, cur)
  /\ pxy' = Adjust(win, cur)
  /\ UNCHANGED <<win, cur, screen, curs_p, attribute>>

Reading(ch) == pc = "loop" /\ rest # <<>> /\ Head(rest) = ch
Consume == rest' = Tail(rest) /\ UNCHANGED <<pc, how>>
Return == pc' = "idle" /\ how' = "none" /\ rest' = <<>> /\ pxy' = Home(Whole)

CarriageReturn ==
  /\ Reading(CR) /\ CrLfP(how)
  /\ pxy' = [pxy EXCEPT !.x = win.x1]
  /\ Consume
  /\ UNCHANGED <<win, cur, screen, overlay, curs_p, attribute>>

LineFeed ==
  /\ Reading(LF) /\ CrLfP(how)
  /\ pxy' = NextLine(pxy)
  /\ screen' = ScrollIfLast(screen, pxy, Blank)
  /\ overlay' = ScrollIfLast(overlay, pxy, {})
  /\ Consume
  /\ UNCHANGED <<win, cur, curs_p, attribute>>

\* The cursor is put back for the beep, and taken away again if there is more
\* text; a final BEL returns at once.
Bell ==
  /\ Reading(BEL) /\ BelBsP(how)
  /\ cur' = pxy
  /\ IF Tail(rest) = <<>>
     THEN Return /\ overlay' = Xor(overlay, curs_p, win, pxy)
     ELSE /\ Consume /\ pxy' = pxy
          /\ overlay' = Xor(Xor(overlay, curs_p, win, pxy), curs_p, win, pxy)
  /\ UNCHANGED <<win, screen, curs_p, attribute>>

BackspaceUnchecked(p) == [p EXCEPT !.x = @ - 1]
BackspaceTo(p) == IF p.x > win.x1 THEN [p EXCEPT !.x = @ - 1] ELSE p

Backspace ==
  /\ Reading(BS) /\ BelBsP(how)
  /\ pxy' = BackspaceTo(pxy)
  /\ Consume
  /\ UNCHANGED <<win, cur, screen, overlay, curs_p, attribute>>

Plain(ch) == /\ CrLfP(how) => ch \notin {CR, LF}
             /\ BelBsP(how) => ch \notin {BEL, BS}

\* Any other character: plotted at the position, which then moves on
Plot(ch) ==
  LET full == pxy.x >= win.x2
      onto(s, v, fill) == LET t == [s EXCEPT ![Cell(pxy)] = v]
                          IN  IF full THEN ScrollIfLast(t, pxy, fill) ELSE t
  IN /\ Reading(ch) /\ Plain(ch)
     /\ cur' = pxy
     /\ screen' = onto(screen, ch, Blank)
     /\ overlay' = onto(overlay, {}, {})
     /\ pxy' = IF full THEN NextLine(pxy) ELSE [pxy EXCEPT !.x = @ + 1]
     /\ Consume
     /\ UNCHANGED <<win, curs_p, attribute>>

Finish ==
  /\ pc = "loop" /\ rest = <<>>
  /\ cur' = pxy
  /\ overlay' = Xor(overlay, curs_p, win, pxy)
  /\ Return
  /\ UNCHANGED <<win, screen, curs_p, attribute>>

OutMemStep == \/ CarriageReturn \/ LineFeed \/ Bell \/ Backspace \/ Finish
              \/ \E ch \in Glyphs : Plot(ch)

-----------------------------------------------------------------------------
(* The other calls.                                                        *)

idle == pc = "idle" /\ UNCHANGED call

\* _gettextposition
ReportedZeroBased(w, p) == [col |-> Adjust(w, p).x - w.x1, row |-> Adjust(w, p).y - w.y1]
Reported(w, p) == IF Inside(w, p) THEN [col |-> p.x - w.x1 + 1, row |-> p.y - w.y1 + 1]
                  ELSE [col |-> 1, row |-> 1]

\* Where _settextposition would move the cursor, if the arguments are accepted
Accepted(w, row, col) == /\ row >= 1 /\ col >= 1
                         /\ row - 1 <= w.y2 - w.y1 /\ col - 1 <= w.x2 - w.x1
Target(w, row, col) == [x |-> col - 1 + w.x1, y |-> row - 1 + w.y1]

\* _settextposition, once the window is w and the cursor line shows o
Position(w, o, row, col) ==
  IF Accepted(w, row, col)
  THEN LET p == Target(w, row, col)
       IN  cur' = p /\ overlay' = Xor(Xor(o, curs_p, w, cur), curs_p, w, p)
  ELSE cur' = cur /\ overlay' = o

SetTextPosition(row, col) ==
  /\ idle
  /\ Position(win, overlay, row, col)
  /\ UNCHANGED <<win, screen, curs_p, attribute>>

WindowOk(y1, x1, y2, x2) == /\ x1 >= 1 /\ y1 >= 1 /\ x1 <= x2 /\ y1 <= y2
                            /\ x2 - 1 <= MaxX /\ y2 - 1 <= MaxY

SetTextWindow(y1, x1, y2, x2) ==
  /\ idle /\ WindowOk(y1, x1, y2, x2)
  /\ win' = [x1 |-> x1 - 1, y1 |-> y1 - 1, x2 |-> x2 - 1, y2 |-> y2 - 1]
  /\ Position(win', overlay, 1, 1)
  /\ UNCHANGED <<screen, curs_p, attribute>>

\* Direct calls scroll without taking the software cursor down
ScrollTextWindow(rows) ==
  /\ idle /\ rows # 0
  /\ VidScroll(win, BiosRows(rows), rows > 0)
  /\ UNCHANGED <<win, cur, curs_p, attribute>>

ClearAndHome(area) ==
  /\ screen' = BiosScroll(screen, area, 0, TRUE, Blank)
  /\ Position(win, BiosScroll(overlay, area, 0, TRUE, {}), 1, 1)

ClearScreen(area) ==
  /\ idle
  /\ \/ area = "window" /\ ClearAndHome(win)
     \/ area = "viewport" /\ Graph /\ VidScroll(Whole, 0, TRUE) /\ UNCHANGED cur
     \/ area = "screen" /\ ClearAndHome(Whole)
  /\ UNCHANGED <<win, curs_p, attribute>>

ClrEol ==
  /\ idle
  /\ LET p == Adjust(win, cur)
     IN  VidScroll([x1 |-> p.x, y1 |-> p.y, x2 |-> win.x2, y2 |-> p.y], 0, TRUE)
  /\ UNCHANGED <<win, cur, curs_p, attribute>>

FromCursorDownUnadjusted == [win EXCEPT !.y1 = cur.y]
FromCursorDown == [win EXCEPT !.y1 = Adjust(win, cur).y]

InsDelLine(del_p) ==
  /\ idle
  /\ VidScroll(FromCursorDown, 1, del_p)
  /\ UNCHANGED <<win, cur, curs_p, attribute>>

DisplayCursor(on) ==
  /\ idle /\ curs_p # on
  /\ curs_p' = on
  /\ overlay' = Xor(overlay, TRUE, win, cur)
  /\ UNCHANGED <<win, cur, screen, attribute>>

SetTextColor(a) ==
  /\ idle
  /\ attribute' = a
  /\ UNCHANGED <<win, cur, screen, overlay, curs_p>>

\* The program prints through DOS, or calls the BIOS itself
ElsewhereMoved(p) ==
  /\ idle
  /\ cur' = p
  /\ UNCHANGED <<win, screen, overlay, curs_p, attribute>>

-----------------------------------------------------------------------------
Init == /\ win = Whole
        /\ cur \in Points
        /\ screen \in InitScreens
        /\ overlay = [c \in Cells |-> {}]
        /\ curs_p \in IF Graph THEN {FALSE} ELSE BOOLEAN
        /\ attribute \in Attrs
        /\ pc = "idle" /\ how = "none" /\ rest = <<>> /\ pxy = Home(Whole)

\* Calls that take the software cursor down and put it back where it belongs
Bracketed ==
  \/ \E out \in Outputs : OutMem(out)
  \/ OutMemStep
  \/ \E row \in 0..MaxY + 2, col \in 0..MaxX + 2 : SetTextPosition(row, col)
  \/ \E on \in BOOLEAN : DisplayCursor(on)

\* Calls that do not
Unbracketed ==
  \/ \E y1, y2 \in 0..MaxY + 2, x1, x2 \in 0..MaxX + 2 : SetTextWindow(y1, x1, y2, x2)
  \/ \E rows \in -MaxRows..MaxRows : ScrollTextWindow(rows)
  \/ \E area \in {"window", "viewport", "screen"} : ClearScreen(area)
  \/ ClrEol
  \/ \E del_p \in BOOLEAN : InsDelLine(del_p)
  \/ \E a \in Attrs : SetTextColor(a)
  \/ \E p \in Points : ElsewhereMoved(p)

Next == Bracketed \/ Unbracketed

Spec == Init /\ [][Next]_vars

\* A program that hides the software cursor around the calls that do not
Careful == Bracketed \/ (~(Drawn /\ curs_p) /\ Unbracketed)
CarefulSpec == Init /\ [][Careful]_vars

-----------------------------------------------------------------------------
(* Correctness.                                                            *)

Windows == {w \in [x1 : 0..MaxX, y1 : 0..MaxY, x2 : 0..MaxX, y2 : 0..MaxY] :
              w.x1 <= w.x2 /\ w.y1 <= w.y2}

\* The text window is a non-empty rectangle of the physical screen, the BIOS
\* cursor is on the screen, and every other piece of state has its type,
\* whatever arguments _settextwindow and _settextposition are given.
TypeOK == /\ win \in Windows
          /\ cur \in Points
          /\ screen \in [Cells -> Glyphs]
          /\ overlay \in [Cells -> SUBSET Attrs]
          /\ curs_p \in BOOLEAN /\ attribute \in Attrs
          /\ pc \in {"idle", "loop"} /\ how \in Callers \union {"none"}
          /\ rest \in Seq(Glyphs) /\ pxy \in Points

\* The position outmem_do carries never leaves the text window, through
\* wrapping, scrolling, backspacing and a cursor that started outside it.
PositionInWindow == pc = "loop" => Inside(win, pxy)

\* No call changes a character outside the text window, unless it clears the
\* whole screen (_clearscreen of the viewport or of the screen).
OutsideUntouched ==
  [][(\E c \in Cells \ Area(win) : screen'[c] # screen[c])
       => screen' = [c \in Cells |-> Blank]]_vars

\* Moving to the position _gettextposition reports puts the cursor where the
\* next character will go, even when the BIOS cursor is outside the window.
ReportIsTarget ==
  LET r == Reported(win, cur)
  IN  Accepted(win, r.row, r.col) /\ Target(win, r.row, r.col) = Adjust(win, cur)

NoCursor == [c \in Cells |-> {}]
TheCursor == [NoCursor EXCEPT ![Cell(Adjust(win, cur))] = {attribute}]

\* In the modes that have one, the software cursor is displayed once, where the
\* next character will go, and exactly while it is supposed to be: not during
\* output.  Nothing is ever drawn in the others.
CursorShownOnce ==
  overlay = IF Drawn /\ curs_p /\ pc = "idle" THEN TheCursor ELSE NoCursor

\* The text window behaves as a terminal of its own size: while a text is written
\* each character does to the position and the rows what a terminal does, and
\* nothing but a change of the window shows other cells of the screen.
Width == win.x2 - win.x1 + 1
Height == win.y2 - win.y1 + 1
Term == INSTANCE Terminal WITH
  frame <- win,
  sheet <- screen,
  dim <- [w |-> Width, h |-> Height],
  grid <- [p \in (0..Width - 1) \X (0..Height - 1) |-> screen[<<win.x1 + p[1], win.y1 + p[2]>>]],
  pos <- LET p == IF pc = "loop" THEN pxy ELSE Adjust(win, cur)
         IN  [c |-> p.x - win.x1, r |-> p.y - win.y1],
  writing <- pc = "loop"
TermSpec == Term!TerminalSpec
=============================================================================
