-------------------------- MODULE TextScreenProofs --------------------------
(***************************************************************************)
(* Proofs about TextScreen, for every screen size, alphabet and set of     *)
(* output calls.  The inductive invariant is TypeOK /\ PositionInWindow:   *)
(* that the position carried by an output call is a point of the screen    *)
(* (and so that the cell it plots exists) follows only from its being in   *)
(* the window, and the window from the tests of _settextwindow.            *)
(*                                                                         *)
(* From it follow that a program that hides the software cursor where it   *)
(* has to sees it once at most, and that TextScreen implements Terminal:   *)
(* each write is one to the window's cell, and each scroll of the screen's *)
(* area a shift of the window's lines.                                     *)
(***************************************************************************)
EXTENDS TextScreen, TLAPS

IInv == TypeOK /\ PositionInWindow

-----------------------------------------------------------------------------
(* What the helpers return.                                                *)

\* Moving a position inside the window gives a position inside the window.
LEMMA AdjustInside ==
  ASSUME NEW w \in Windows, NEW p \in Points
  PROVE  Adjust(w, p) \in Points /\ Inside(w, Adjust(w, p))
  BY ScreenAssumption DEF Adjust, Inside, Home, Windows, Points

\* The BIOS scroll maps screens to screens, for any cell contents.
LEMMA BiosScrollType ==
  ASSUME NEW V, NEW s \in [Cells -> V], NEW fill \in V,
         NEW a \in Windows, NEW rows \in Nat, NEW up \in BOOLEAN
  PROVE  BiosScroll(s, a, rows, up, fill) \in [Cells -> V]
  <1> SUFFICES ASSUME NEW c \in Cells
               PROVE  BiosScroll(s, a, rows, up, fill)[c] \in V
    BY DEF BiosScroll
  <1> DEFINE y == IF up THEN c[2] + rows ELSE c[2] - rows
  <1>1. c \in Area(a) /\ y \in a.y1..a.y2 => <<c[1], y>> \in Cells
    BY ScreenAssumption DEF Cells, Windows, Area
  <1>2. QED
    BY <1>1 DEF BiosScroll

\* The software cursor only ever XORs the current attribute.
LEMMA XorType ==
  ASSUME TypeOK, NEW o \in [Cells -> SUBSET Attrs], NEW shown,
         NEW w \in Windows, NEW p \in Points
  PROVE  Xor(o, shown, w, p) \in [Cells -> SUBSET Attrs]
  <1>1. Cell(Adjust(w, p)) \in Cells
    BY AdjustInside DEF Cell, Cells, Points
  <1>2. QED
    BY <1>1 DEF Xor, TypeOK

\* The row count given to the BIOS is a natural number.
LEMMA BiosRowsType ==
  ASSUME TypeOK, NEW rows \in Int
  PROVE  BiosRows(rows) \in Nat
  BY DEF BiosRows, TypeOK, Windows

\* Wrapping keeps the position inside the window.
LEMMA NextLineInside ==
  ASSUME TypeOK, Inside(win, pxy)
  PROVE  NextLine(pxy) \in Points /\ Inside(win, NextLine(pxy))
  BY ScreenAssumption DEF NextLine, Inside, TypeOK, Windows, Points

LEMMA ScrollIfLastType ==
  ASSUME TypeOK, NEW V, NEW s \in [Cells -> V], NEW fill \in V, NEW p \in Points
  PROVE  ScrollIfLast(s, p, fill) \in [Cells -> V]
  <1>1. BiosRows(1) \in Nat
    BY BiosRowsType
  <1>2. BiosScroll(s, win, BiosRows(1), TRUE, fill) \in [Cells -> V]
    BY <1>1, BiosScrollType DEF TypeOK
  <1>3. QED
    BY <1>2 DEF ScrollIfLast

\* An accepted position of _settextposition is inside the window.
LEMMA TargetInside ==
  ASSUME NEW w \in Windows, NEW row \in Int, NEW col \in Int, Accepted(w, row, col)
  PROVE  Target(w, row, col) \in Points /\ Inside(w, Target(w, row, col))
  BY ScreenAssumption DEF Accepted, Target, Inside, Windows, Points

LEMMA PositionType ==
  ASSUME TypeOK, NEW w \in Windows, NEW o \in [Cells -> SUBSET Attrs],
         NEW row \in Int, NEW col \in Int, Position(w, o, row, col)
  PROVE  cur' \in Points /\ overlay' \in [Cells -> SUBSET Attrs]
  <1>1. CASE Accepted(w, row, col)
    <2> DEFINE p == Target(w, row, col)
    <2>1. p \in Points
      BY <1>1, TargetInside
    <2>2. Xor(o, curs_p, w, cur) \in [Cells -> SUBSET Attrs]
      BY XorType DEF TypeOK
    <2>3. Xor(Xor(o, curs_p, w, cur), curs_p, w, p) \in [Cells -> SUBSET Attrs]
      BY <2>1, <2>2, XorType
    <2>4. QED
      BY <1>1, <2>1, <2>3 DEF Position
  <1>2. CASE ~Accepted(w, row, col)
    BY <1>2 DEF Position, TypeOK
  <1>3. QED
    BY <1>1, <1>2

-----------------------------------------------------------------------------
(* The inductive invariant.                                                *)

\* The whole screen is a window of itself, and where every mode starts.
LEMMA WholeIsWindow == Whole \in Windows /\ Home(Whole) \in Points
  BY ScreenAssumption DEF Whole, Windows, Home, Points

LEMMA InitInvariant == Init => IInv
  <1> SUFFICES ASSUME Init PROVE IInv
    OBVIOUS
  <1>1. screen \in [Cells -> Glyphs]
    BY ScreenAssumption DEF Init
  <1>2. rest \in Seq(Glyphs)
    BY DEF Init
  <1>3. QED
    BY <1>1, <1>2, WholeIsWindow DEF Init, IInv, TypeOK, PositionInWindow

\* What is left of a text whose first character has been taken.
LEMMA TailType ==
  ASSUME NEW ch, TypeOK, Reading(ch)
  PROVE  Tail(rest) \in Seq(Glyphs) /\ ch \in Glyphs
  BY DEF TypeOK, Reading

\* Stepping back stops at the left margin.
LEMMA BackspaceInside ==
  ASSUME win \in Windows, NEW p \in Points, Inside(win, p)
  PROVE  BackspaceTo(p) \in Points /\ Inside(win, BackspaceTo(p))
  <1>1. p.x \in 0..MaxX /\ p.y \in 0..MaxY /\ win.x1 \in 0..MaxX
    BY DEF Windows, Points
  <1>2. CASE p.x > win.x1
    <2>1. p.x - 1 \in 0..MaxX /\ p.x - 1 >= win.x1 /\ p.x - 1 <= win.x2
      BY <1>1, <1>2, ScreenAssumption DEF Inside, Windows
    <2>2. BackspaceTo(p) = [x |-> p.x - 1, y |-> p.y]
      BY <1>2 DEF BackspaceTo, Points
    <2>3. QED
      BY <1>1, <2>1, <2>2 DEF Inside, Points
  <1>3. CASE ~(p.x > win.x1)
    BY <1>3 DEF BackspaceTo
  <1>4. QED
    BY <1>2, <1>3

LEMMA LeftInside ==
  ASSUME win \in Windows, NEW p \in Points, Inside(win, p)
  PROVE  [p EXCEPT !.x = win.x1] \in Points /\ Inside(win, [p EXCEPT !.x = win.x1])
  <1>1. win.x1 \in 0..MaxX /\ win.x1 <= win.x2
    BY DEF Windows
  <1>2. [p EXCEPT !.x = win.x1] = [x |-> win.x1, y |-> p.y] /\ p.y \in 0..MaxY
    BY DEF Points
  <1>3. win.x1 <= win.x1
    BY <1>1, ScreenAssumption
  <1>4. QED
    BY <1>1, <1>2, <1>3 DEF Inside, Points

\* Each step of an output call preserves the invariant.
LEMMA OutputInvariant ==
  ASSUME IInv, (\E out \in Outputs : OutMem(out)) \/ OutMemStep
  PROVE  IInv'
  <1> USE DEF IInv
  <1>0. pc = "loop" => Inside(win, pxy) /\ pxy \in Points
    BY DEF TypeOK, PositionInWindow
  <1>1. ASSUME NEW out \in Outputs, OutMem(out)
        PROVE  IInv'
    <2>1. out.how \in Callers /\ out.text \in Seq(Glyphs)
      BY ScreenAssumption
    <2>2. pxy' \in Points /\ Inside(win, pxy')
      BY <1>1, AdjustInside DEF OutMem, TypeOK
    <2>3. overlay' \in [Cells -> SUBSET Attrs]
      BY <1>1, XorType DEF OutMem, TypeOK
    <2>4. QED
      BY <1>1, <2>1, <2>2, <2>3 DEF OutMem, TypeOK, PositionInWindow, Inside
  <1>2. CASE CarriageReturn
    <2>1. pxy' \in Points /\ Inside(win, pxy')
      BY <1>0, <1>2, LeftInside DEF CarriageReturn, Reading, TypeOK
    <2>2. QED
      BY <1>2, <2>1, TailType DEF CarriageReturn, Consume, TypeOK, PositionInWindow, Inside
  <1>3. CASE LineFeed
    <2>1. pxy' \in Points /\ Inside(win, pxy')
      BY <1>0, <1>3, NextLineInside DEF LineFeed, Reading
    <2>2. screen' \in [Cells -> Glyphs] /\ overlay' \in [Cells -> SUBSET Attrs]
      BY <1>0, <1>3, ScrollIfLastType DEF LineFeed, Reading, TypeOK, Glyphs
    <2>3. QED
      BY <1>3, <2>1, <2>2, TailType DEF LineFeed, Consume, TypeOK, PositionInWindow, Inside
  <1>4. CASE Bell
    <2> DEFINE o == Xor(overlay, curs_p, win, pxy)
    <2>1. pxy \in Points /\ Inside(win, pxy)
      BY <1>0, <1>4 DEF Bell, Reading
    <2>2. o \in [Cells -> SUBSET Attrs]
      BY <2>1, XorType DEF TypeOK
    <2>3. Xor(o, curs_p, win, pxy) \in [Cells -> SUBSET Attrs]
      BY <2>1, <2>2, XorType DEF TypeOK
    <2>4. overlay' \in [Cells -> SUBSET Attrs]
      BY <1>4, <2>2, <2>3 DEF Bell
    <2>5. CASE Tail(rest) = <<>>
      BY <1>4, <2>1, <2>4, <2>5, WholeIsWindow DEF Bell, Return, TypeOK, PositionInWindow
    <2>6. CASE Tail(rest) # <<>>
      BY <1>4, <2>1, <2>4, <2>6, TailType
      DEF Bell, Consume, TypeOK, PositionInWindow, Inside
    <2>7. QED
      BY <2>5, <2>6
  <1>5. CASE Backspace
    <2>1. pxy' \in Points /\ Inside(win, pxy')
      BY <1>0, <1>5, BackspaceInside DEF Backspace, Reading, TypeOK
    <2>2. QED
      BY <1>5, <2>1, TailType DEF Backspace, Consume, TypeOK, PositionInWindow, Inside
  <1>6. CASE Finish
    <2>1. overlay' \in [Cells -> SUBSET Attrs]
      BY <1>0, <1>6, XorType DEF Finish, TypeOK
    <2>2. QED
      BY <1>0, <1>6, <2>1, WholeIsWindow DEF Finish, Return, TypeOK, PositionInWindow
  <1>7. ASSUME NEW ch \in Glyphs, Plot(ch)
        PROVE  IInv'
    <2>1. pxy \in Points /\ Inside(win, pxy)
      BY <1>0, <1>7 DEF Plot, Reading
    <2>2. pxy' \in Points /\ Inside(win, pxy')
      BY <2>1, <1>7, NextLineInside, ScreenAssumption
      DEF Plot, Inside, TypeOK, Windows, Points
    <2>3. /\ [screen EXCEPT ![Cell(pxy)] = ch] \in [Cells -> Glyphs]
          /\ [overlay EXCEPT ![Cell(pxy)] = {}] \in [Cells -> SUBSET Attrs]
      BY DEF TypeOK
    <2>4. screen' \in [Cells -> Glyphs]
      BY <1>7, <2>1, <2>3, ScrollIfLastType DEF Plot, Glyphs
    <2>5. overlay' \in [Cells -> SUBSET Attrs]
      BY <1>7, <2>1, <2>3, ScrollIfLastType DEF Plot
    <2>6. QED
      BY <1>7, <2>1, <2>2, <2>4, <2>5, TailType
      DEF Plot, Consume, TypeOK, PositionInWindow, Inside
  <1>8. QED
    BY <1>1, <1>2, <1>3, <1>4, <1>5, <1>6, <1>7 DEF OutMemStep

\* __libi86_vid_scroll of any window keeps the types.
LEMMA VidScrollType ==
  ASSUME TypeOK, NEW a \in Windows, NEW rows \in Nat, NEW up \in BOOLEAN,
         VidScroll(a, rows, up)
  PROVE  screen' \in [Cells -> Glyphs] /\ overlay' \in [Cells -> SUBSET Attrs]
  BY BiosScrollType DEF VidScroll, TypeOK, Glyphs

LEMMA ClearAndHomeType ==
  ASSUME TypeOK, NEW a \in Windows, ClearAndHome(a)
  PROVE  /\ screen' \in [Cells -> Glyphs]
         /\ overlay' \in [Cells -> SUBSET Attrs] /\ cur' \in Points
  <1>1. BiosScroll(overlay, a, 0, TRUE, {}) \in [Cells -> SUBSET Attrs]
    BY BiosScrollType DEF TypeOK
  <1>2. screen' \in [Cells -> Glyphs]
    BY BiosScrollType DEF ClearAndHome, TypeOK, Glyphs
  <1>3. win \in Windows /\ 1 \in Int
    BY DEF TypeOK
  <1>4. Position(win, BiosScroll(overlay, a, 0, TRUE, {}), 1, 1)
    BY DEF ClearAndHome
  <1>5. cur' \in Points /\ overlay' \in [Cells -> SUBSET Attrs]
    BY <1>1, <1>3, <1>4, PositionType
  <1>6. QED
    BY <1>2, <1>5

\* Every other call leaves the program idle, so only the types matter.
LEMMA CallInvariant ==
  ASSUME IInv,
         \/ \E row \in 0..MaxY + 2, col \in 0..MaxX + 2 : SetTextPosition(row, col)
         \/ \E on \in BOOLEAN : DisplayCursor(on)
         \/ Unbracketed
  PROVE  IInv'
  <1> USE DEF IInv
  <1>1. idle /\ TypeOK' => IInv'
    BY DEF idle, call, PositionInWindow
  <1>2. ASSUME NEW row \in 0..MaxY + 2, NEW col \in 0..MaxX + 2,
               SetTextPosition(row, col)
        PROVE  IInv'
    <2>1. row \in Int /\ col \in Int
      BY ScreenAssumption
    <2>2. cur' \in Points /\ overlay' \in [Cells -> SUBSET Attrs]
      BY <1>2, <2>1, PositionType DEF SetTextPosition, TypeOK
    <2>3. QED
      BY <1>1, <1>2, <2>2 DEF SetTextPosition, idle, call, TypeOK
  <1>3. ASSUME NEW on \in BOOLEAN, DisplayCursor(on)
        PROVE  IInv'
    <2>1. overlay' \in [Cells -> SUBSET Attrs]
      BY <1>3, XorType DEF DisplayCursor, TypeOK
    <2>2. QED
      BY <1>1, <1>3, <2>1 DEF DisplayCursor, idle, call, TypeOK
  <1>4. ASSUME NEW y1 \in 0..MaxY + 2, NEW y2 \in 0..MaxY + 2,
               NEW x1 \in 0..MaxX + 2, NEW x2 \in 0..MaxX + 2,
               SetTextWindow(y1, x1, y2, x2)
        PROVE  IInv'
    <2>1. win' \in Windows
      BY <1>4, ScreenAssumption DEF SetTextWindow, WindowOk, Windows
    <2>2. cur' \in Points /\ overlay' \in [Cells -> SUBSET Attrs]
      BY <1>4, <2>1, PositionType DEF SetTextWindow, TypeOK
    <2>3. QED
      BY <1>1, <1>4, <2>1, <2>2 DEF SetTextWindow, idle, call, TypeOK
  <1>5. ASSUME NEW rows \in -MaxRows..MaxRows, ScrollTextWindow(rows)
        PROVE  IInv'
    <2>1. rows \in Int
      BY ScreenAssumption
    <2>2. BiosRows(rows) \in Nat
      BY <2>1, BiosRowsType
    <2>3. (rows > 0) \in BOOLEAN /\ win \in Windows
      BY DEF TypeOK
    <2>4. screen' \in [Cells -> Glyphs] /\ overlay' \in [Cells -> SUBSET Attrs]
      BY <1>5, <2>2, <2>3, VidScrollType DEF ScrollTextWindow
    <2>5. QED
      BY <1>1, <1>5, <2>4 DEF ScrollTextWindow, idle, call, TypeOK
  <1>6. ASSUME NEW area \in {"window", "viewport", "screen"}, ClearScreen(area)
        PROVE  IInv'
    <2>1. win \in Windows /\ Whole \in Windows
      BY WholeIsWindow DEF TypeOK
    <2>2. /\ screen' \in [Cells -> Glyphs]
          /\ overlay' \in [Cells -> SUBSET Attrs] /\ cur' \in Points
      BY <1>6, <2>1, ClearAndHomeType, VidScrollType DEF ClearScreen, TypeOK
    <2>3. QED
      BY <1>1, <1>6, <2>2 DEF ClearScreen, idle, call, TypeOK
  <1>7. CASE ClrEol
    <2> DEFINE p == Adjust(win, cur)
               a == [x1 |-> p.x, y1 |-> p.y, x2 |-> win.x2, y2 |-> p.y]
    <2>1. p \in Points /\ Inside(win, p)
      BY AdjustInside DEF TypeOK
    <2>2. a \in Windows
      BY <2>1, ScreenAssumption DEF Inside, Windows, TypeOK, Points
    <2>3. screen' \in [Cells -> Glyphs] /\ overlay' \in [Cells -> SUBSET Attrs]
      BY <1>7, <2>2, VidScrollType DEF ClrEol
    <2>4. QED
      BY <1>1, <1>7, <2>3 DEF ClrEol, idle, call, TypeOK
  <1>8. ASSUME NEW del_p \in BOOLEAN, InsDelLine(del_p)
        PROVE  IInv'
    <2>1. FromCursorDown \in Windows
      BY AdjustInside, ScreenAssumption
      DEF FromCursorDown, Inside, Windows, TypeOK, Points
    <2>2. screen' \in [Cells -> Glyphs] /\ overlay' \in [Cells -> SUBSET Attrs]
      BY <1>8, <2>1, VidScrollType DEF InsDelLine
    <2>3. QED
      BY <1>1, <1>8, <2>2 DEF InsDelLine, idle, call, TypeOK
  <1>9. ASSUME NEW a \in Attrs, SetTextColor(a)
        PROVE  IInv'
    BY <1>1, <1>9 DEF SetTextColor, idle, call, TypeOK
  <1>10. ASSUME NEW p \in Points, ElsewhereMoved(p)
         PROVE  IInv'
    BY <1>1, <1>10 DEF ElsewhereMoved, idle, call, TypeOK
  <1>11. QED
    BY <1>2, <1>3, <1>4, <1>5, <1>6, <1>7, <1>8, <1>9, <1>10 DEF Unbracketed

LEMMA StepInvariant == IInv /\ [Next]_vars => IInv'
  <1> SUFFICES ASSUME IInv, [Next]_vars PROVE IInv'
    OBVIOUS
  <1>1. CASE UNCHANGED vars
    BY <1>1 DEF vars, IInv, TypeOK, PositionInWindow, Inside
  <1>2. CASE Next
    BY <1>2, OutputInvariant, CallInvariant DEF Next, Bracketed
  <1>3. QED
    BY <1>1, <1>2

LEMMA AlwaysInvariant == Spec => []IInv
  BY InitInvariant, StepInvariant, PTL DEF Spec

-----------------------------------------------------------------------------
(* The theorems.                                                           *)

\* Whatever the program calls, with whatever arguments, the text window stays a
\* non-empty rectangle of the screen and all state keeps its type.
THEOREM TypeCorrect == Spec => []TypeOK
  <1>1. IInv => TypeOK
    BY DEF IInv
  <1>2. QED
    BY <1>1, AlwaysInvariant, PTL

\* __libi86_vid_outmem_do never carries its position out of the text window.
THEOREM PositionSafe == Spec => []PositionInWindow
  <1>1. IInv => PositionInWindow
    BY DEF IInv
  <1>2. QED
    BY <1>1, AlwaysInvariant, PTL

\* _gettextposition and _settextposition agree on where the next character goes.
THEOREM ReportSafe == Spec => []ReportIsTarget
  <1>1. TypeOK => ReportIsTarget
    BY ScreenAssumption, SMTT(30)
    DEF TypeOK, ReportIsTarget, Reported, Accepted, Target, Adjust, Inside, Home,
        Windows, Points
  <1>2. QED
    BY <1>1, TypeCorrect, PTL

-----------------------------------------------------------------------------
(* Calls keep to the text window.                                          *)

KeepsOutside == \A c \in Cells \ Area(win) : screen'[c] = screen[c]
ClearsAll == screen' = [c \in Cells |-> Blank]

\* The BIOS scroll leaves what is outside its area alone.
LEMMA BiosScrollOutside ==
  ASSUME NEW s, NEW a, NEW rows, NEW up, NEW fill, NEW c \in Cells, c \notin Area(a)
  PROVE  BiosScroll(s, a, rows, up, fill)[c] = s[c]
  BY DEF BiosScroll

\* So scrolling the window, on a screen s that differs from this one only inside
\* the window, leaves what is outside.
LEMMA WindowScrollOutside ==
  ASSUME NEW s, \A c \in Cells \ Area(win) : s[c] = screen[c], NEW rows, NEW up,
         screen' = BiosScroll(s, win, rows, up, Blank)
  PROVE  KeepsOutside
  <1> SUFFICES ASSUME NEW c \in Cells, c \notin Area(win) PROVE screen'[c] = screen[c]
    BY DEF KeepsOutside
  <1>1. BiosScroll(s, win, rows, up, Blank)[c] = s[c]
    BY BiosScrollOutside
  <1>2. QED
    BY <1>1

\* Scrolling a part of the window keeps what is outside the window.
LEMMA ScrollWithin ==
  ASSUME NEW a, Area(a) \subseteq Area(win), NEW rows, NEW up, VidScroll(a, rows, up)
  PROVE  KeepsOutside
  BY BiosScrollOutside DEF VidScroll, KeepsOutside

\* The area from the cursor down is part of the window.
LEMMA CursorDownWithin == ASSUME TypeOK PROVE Area(FromCursorDown) \subseteq Area(win)
  <1>1. Inside(win, Adjust(win, cur)) /\ Adjust(win, cur) \in Points
    BY AdjustInside DEF TypeOK
  <1>2. FromCursorDown.x1 = win.x1 /\ FromCursorDown.x2 = win.x2 /\ FromCursorDown.y2 = win.y2
        /\ FromCursorDown.y1 = Adjust(win, cur).y
    BY DEF FromCursorDown, TypeOK, Windows
  <1>3. QED
    BY <1>1, <1>2, ScreenAssumption DEF Area, Inside, TypeOK, Windows, Points

\* Plotting a character in the window, and scrolling it, keep what is outside.
LEMMA PlotWithin ==
  ASSUME IInv, NEW ch, Plot(ch)
  PROVE  KeepsOutside
  <1> DEFINE t == [screen EXCEPT ![Cell(pxy)] = ch]
  <1>1. Inside(win, pxy) /\ pxy \in Points
    BY DEF Plot, Reading, IInv, PositionInWindow, TypeOK
  <1>2. Cell(pxy) \in Area(win)
    BY <1>1, ScreenAssumption DEF Cell, Area, Inside, IInv, TypeOK, Windows, Points
  <1>3. \A c \in Cells \ Area(win) : t[c] = screen[c]
    BY <1>2 DEF IInv, TypeOK
  <1>4. screen' = t \/ screen' = BiosScroll(t, win, BiosRows(1), TRUE, Blank)
    BY DEF Plot, ScrollIfLast
  <1>5. CASE screen' = t
    BY <1>3, <1>5 DEF KeepsOutside
  <1>6. CASE screen' = BiosScroll(t, win, BiosRows(1), TRUE, Blank)
    BY <1>3, <1>6, WindowScrollOutside
  <1>7. QED
    BY <1>4, <1>5, <1>6

\* Every step keeps what is outside the window, or clears the whole screen.
LEMMA StepOutside == IInv /\ [Next]_vars => KeepsOutside \/ ClearsAll
  <1> SUFFICES ASSUME IInv, [Next]_vars PROVE KeepsOutside \/ ClearsAll
    OBVIOUS
  <1>1. screen' = screen => KeepsOutside
    BY DEF KeepsOutside
  <1>2. CASE OutMemStep
    <2>1. CASE LineFeed
      <3>1. screen' = screen \/ screen' = BiosScroll(screen, win, BiosRows(1), TRUE, Blank)
        BY <2>1 DEF LineFeed, ScrollIfLast
      <3>2. QED
        BY <1>1, <3>1, WindowScrollOutside
    <2>2. ASSUME NEW ch \in Glyphs, Plot(ch) PROVE KeepsOutside
      BY <2>2, PlotWithin
    <2>3. QED
      BY <1>1, <1>2, <2>1, <2>2
      DEF OutMemStep, CarriageReturn, Bell, Backspace, Finish
  <1>3. ASSUME NEW rows, ScrollTextWindow(rows) PROVE KeepsOutside
    BY <1>3, ScrollWithin DEF ScrollTextWindow
  <1>4. ASSUME NEW area, ClearScreen(area) PROVE KeepsOutside \/ ClearsAll
    <2>1. Cells = Area(Whole)
      BY DEF Cells, Area, Whole
    <2>2. BiosScroll(screen, Whole, 0, TRUE, Blank) = [c \in Cells |-> Blank]
      BY <2>1 DEF BiosScroll
    <2>3. CASE screen' = BiosScroll(screen, win, 0, TRUE, Blank)
      BY <2>3, WindowScrollOutside
    <2>4. QED
      BY <1>4, <2>2, <2>3 DEF ClearScreen, ClearAndHome, VidScroll, ClearsAll
  <1>5. CASE ClrEol
    <2> DEFINE p == Adjust(win, cur)
               a == [x1 |-> p.x, y1 |-> p.y, x2 |-> win.x2, y2 |-> p.y]
    <2>1. Inside(win, p) /\ p \in Points
      BY AdjustInside DEF IInv, TypeOK
    <2>2. Area(a) \subseteq Area(win)
      BY <2>1, ScreenAssumption DEF Area, Inside, IInv, TypeOK, Windows, Points
    <2>3. QED
      BY <1>5, <2>2, ScrollWithin DEF ClrEol
  <1>6. ASSUME NEW del_p, InsDelLine(del_p) PROVE KeepsOutside
    BY <1>6, CursorDownWithin, ScrollWithin DEF InsDelLine, IInv
  <1>7. CASE UNCHANGED vars
    BY <1>1, <1>7 DEF vars
  <1>8. QED
    BY <1>1, <1>2, <1>3, <1>4, <1>5, <1>6, <1>7
    DEF Next, Bracketed, Unbracketed, OutMem, SetTextPosition, DisplayCursor,
        SetTextWindow, SetTextColor, ElsewhereMoved

\* No call writes outside the text window, except to clear the whole screen.
THEOREM OutsideSafe == Spec => OutsideUntouched
  <1> DEFINE A == (\E c \in Cells \ Area(win) : screen'[c] # screen[c])
                     => screen' = [c \in Cells |-> Blank]
  <1>1. IInv /\ [Next]_vars => [A]_vars
    BY StepOutside DEF KeepsOutside, ClearsAll
  <1>2. QED
    BY <1>1, AlwaysInvariant, PTL DEF Spec, OutsideUntouched

-----------------------------------------------------------------------------
(* The software cursor, in a program that hides it around the calls that   *)
(* do not take it down.                                                    *)

CursorAt(w, p) == [NoCursor EXCEPT ![Cell(Adjust(w, p))] = {attribute}]

\* XORing the cursor onto a screen without it shows it, and once more hides it.
LEMMA XorShows ==
  ASSUME Drawn, NEW w \in Windows, NEW p \in Points
  PROVE  /\ Xor(NoCursor, TRUE, w, p) = CursorAt(w, p)
         /\ Xor(CursorAt(w, p), TRUE, w, p) = NoCursor
  <1> DEFINE c == Cell(Adjust(w, p))
  <1>1. c \in Cells
    BY AdjustInside DEF Cell, Cells, Points
  <1>2. NoCursor[c] = {} /\ CursorAt(w, p)[c] = {attribute}
    BY <1>1 DEF NoCursor, CursorAt
  <1>3. ({} \ {attribute}) \union ({attribute} \ {}) = {attribute}
    OBVIOUS
  <1>4. ({attribute} \ {attribute}) \union ({attribute} \ {attribute}) = {}
    OBVIOUS
  <1>5. Xor(NoCursor, TRUE, w, p) = CursorAt(w, p)
    BY <1>2, <1>3 DEF Xor, CursorAt
  <1>6. Xor(CursorAt(w, p), TRUE, w, p) = [CursorAt(w, p) EXCEPT ![c] = {}]
    BY <1>2, <1>4 DEF Xor
  <1>7. [CursorAt(w, p) EXCEPT ![c] = {}] = NoCursor
    BY <1>1 DEF CursorAt, NoCursor
  <1>8. QED
    BY <1>5, <1>6, <1>7

LEMMA XorHidden ==
  ASSUME NEW shown, ~(Drawn /\ shown), NEW o, NEW w, NEW p
  PROVE  Xor(o, shown, w, p) = o
  BY DEF Xor

LEMMA AdjustIsSame == ASSUME NEW w, NEW p, Inside(w, p) PROVE Adjust(w, p) = p
  BY DEF Adjust

\* Scrolling pixels without a cursor line brings none.
LEMMA ScrollNone ==
  ASSUME NEW a \in Windows, NEW rows, NEW up
  PROVE  BiosScroll(NoCursor, a, rows, up, {}) = NoCursor
  <1> SUFFICES ASSUME NEW c \in Cells
               PROVE  BiosScroll(NoCursor, a, rows, up, {})[c] = {}
    BY DEF BiosScroll, NoCursor
  <1> DEFINE y == IF up THEN c[2] + rows ELSE c[2] - rows
  <1>1. c \in Area(a) /\ y \in a.y1..a.y2 => <<c[1], y>> \in Cells
    BY ScreenAssumption DEF Cells, Windows, Area
  <1>2. c \in Area(a) /\ y \in a.y1..a.y2 => NoCursor[<<c[1], y>>] = {}
    BY <1>1 DEF NoCursor
  <1>3. QED
    BY <1>2 DEF BiosScroll, NoCursor

LEMMA OutputCursor ==
  ASSUME IInv, CursorShownOnce, (\E out \in Outputs : OutMem(out)) \/ OutMemStep
  PROVE  CursorShownOnce'
  <1>1. /\ win \in Windows /\ cur \in Points /\ curs_p \in BOOLEAN
        /\ NoCursor' = NoCursor
        /\ pc = "loop" => pxy \in Points /\ Inside(win, pxy) /\ overlay = NoCursor
    BY DEF IInv, TypeOK, PositionInWindow, CursorShownOnce, NoCursor
  <1>2. UNCHANGED <<win, curs_p, attribute>>
    BY DEF OutMem, OutMemStep, CarriageReturn, LineFeed, Bell, Backspace, Finish, Plot
  <1>3. pc' = "loop" /\ overlay' = NoCursor => CursorShownOnce'
    BY <1>1 DEF CursorShownOnce
  <1>4. ASSUME pxy \in Points, Inside(win, pxy), overlay = NoCursor, cur' = pxy,
               overlay' = Xor(overlay, curs_p, win, pxy)
        PROVE  CursorShownOnce' \/ pc' # "idle"
    <2>1. CASE Drawn /\ curs_p
      <3>1. overlay' = CursorAt(win, pxy)
        BY <1>1, <1>4, <2>1, XorShows
      <3>2. TheCursor' = CursorAt(win, pxy)
        BY <1>1, <1>2, <1>4 DEF TheCursor, CursorAt, Cell, Adjust, Inside, Home
      <3>3. QED
        BY <1>2, <2>1, <3>1, <3>2 DEF CursorShownOnce
    <2>2. CASE ~(Drawn /\ curs_p)
      BY <1>1, <1>2, <1>4, <2>2, XorHidden DEF CursorShownOnce
    <2>3. QED
      BY <2>1, <2>2
  <1>5. ASSUME NEW out \in Outputs, OutMem(out) PROVE CursorShownOnce'
    <2>1. pc = "idle" /\ pc' = "loop" /\ overlay' = Xor(overlay, curs_p, win, cur)
      BY <1>5 DEF OutMem
    <2>2. CASE Drawn /\ curs_p
      <3>1. overlay = CursorAt(win, cur)
        BY <2>1, <2>2 DEF CursorShownOnce, TheCursor, CursorAt
      <3>2. overlay' = NoCursor
        BY <1>1, <2>1, <2>2, <3>1, XorShows
      <3>3. QED
        BY <1>3, <2>1, <3>2
    <2>3. CASE ~(Drawn /\ curs_p)
      <3>1. overlay' = overlay /\ overlay = NoCursor
        BY <2>1, <2>3, XorHidden DEF CursorShownOnce
      <3>2. QED
        BY <1>3, <2>1, <3>1
    <2>4. QED
      BY <2>2, <2>3
  <1>6. ScrollIfLast(NoCursor, pxy, {}) = NoCursor
    BY <1>1, ScrollNone DEF ScrollIfLast
  <1>7. CASE CarriageReturn \/ LineFeed \/ Backspace
    <2>1. pc = "loop" /\ pc' = "loop"
      BY <1>7 DEF CarriageReturn, LineFeed, Backspace, Reading, Consume
    <2>2. overlay' = NoCursor
      BY <1>1, <1>6, <1>7, <2>1 DEF CarriageReturn, LineFeed, Backspace
    <2>3. QED
      BY <1>3, <2>1, <2>2
  <1>8. CASE Bell
    <2>1. pc = "loop" /\ cur' = pxy
      BY <1>8 DEF Bell, Reading
    <2>2. CASE Tail(rest) = <<>>
      BY <1>1, <1>4, <1>8, <2>1, <2>2 DEF Bell, Return
    <2>3. CASE Tail(rest) # <<>>
      <3>1. pc' = "loop" /\ overlay' = Xor(Xor(NoCursor, curs_p, win, pxy), curs_p, win, pxy)
        BY <1>1, <1>8, <2>1, <2>3 DEF Bell, Consume
      <3>2. CASE Drawn /\ curs_p
        <4>1. overlay' = NoCursor
          BY <1>1, <2>1, <3>1, <3>2, XorShows
        <4>2. QED
          BY <1>3, <3>1, <4>1
      <3>3. CASE ~(Drawn /\ curs_p)
        <4>1. overlay' = NoCursor
          BY <3>1, <3>3, XorHidden
        <4>2. QED
          BY <1>3, <3>1, <4>1
      <3>4. QED
        BY <3>2, <3>3
    <2>4. QED
      BY <2>2, <2>3
  <1>9. CASE Finish
    BY <1>1, <1>4, <1>9 DEF Finish, Return
  <1>10. ASSUME NEW ch, Plot(ch) PROVE CursorShownOnce'
    <2>1. pc = "loop" /\ pc' = "loop"
      BY <1>10 DEF Plot, Reading, Consume
    <2>2. [NoCursor EXCEPT ![Cell(pxy)] = {}] = NoCursor
      BY DEF NoCursor
    <2>3. overlay' = NoCursor
      BY <1>1, <1>6, <1>10, <2>1, <2>2 DEF Plot
    <2>4. QED
      BY <1>3, <2>1, <2>3
  <1>11. QED
    BY <1>5, <1>7, <1>8, <1>9, <1>10 DEF OutMemStep

\* The calls that take the cursor down themselves, and put it back.
LEMMA PositionCursor ==
  ASSUME IInv, CursorShownOnce, pc = "idle",
         \/ \E row \in 0..MaxY + 2, col \in 0..MaxX + 2 : SetTextPosition(row, col)
         \/ \E on \in BOOLEAN : DisplayCursor(on)
  PROVE  CursorShownOnce'
  <1>1. /\ win \in Windows /\ cur \in Points /\ curs_p \in BOOLEAN
        /\ NoCursor' = NoCursor
        /\ overlay = IF Drawn /\ curs_p THEN CursorAt(win, cur) ELSE NoCursor
    BY DEF IInv, TypeOK, CursorShownOnce, NoCursor, TheCursor, CursorAt
  <1>2. ASSUME UNCHANGED <<win, attribute, cur>>
        PROVE  TheCursor' = CursorAt(win, cur)
    BY <1>1, <1>2 DEF TheCursor, CursorAt, Cell, Adjust, Inside, Home
  <1>3. ASSUME NEW row \in 0..MaxY + 2, NEW col \in 0..MaxX + 2, SetTextPosition(row, col)
        PROVE  CursorShownOnce'
    <2> DEFINE p == Target(win, row, col)
    <2>1. /\ UNCHANGED <<win, curs_p, attribute, pc>> /\ row \in Int /\ col \in Int
          /\ Position(win, overlay, row, col)
      BY <1>3, ScreenAssumption DEF SetTextPosition, idle, call
    <2>2. CASE ~Accepted(win, row, col)
      <3>1. UNCHANGED <<cur, overlay>>
        BY <2>1, <2>2 DEF Position
      <3>2. QED
        BY <1>1, <1>2, <2>1, <3>1 DEF CursorShownOnce
    <2>3. CASE Accepted(win, row, col)
      <3>1. /\ p \in Points /\ cur' = p
            /\ overlay' = Xor(Xor(overlay, curs_p, win, cur), curs_p, win, p)
        BY <1>1, <2>1, <2>3, TargetInside DEF Position
      <3>2. CASE Drawn /\ curs_p
        <4>1. overlay' = CursorAt(win, p)
          BY <1>1, <3>1, <3>2, XorShows
        <4>2. TheCursor' = CursorAt(win, p)
          BY <1>1, <2>1, <3>1 DEF TheCursor, CursorAt, Cell, Adjust, Inside, Home
        <4>3. QED
          BY <2>1, <3>2, <4>1, <4>2 DEF CursorShownOnce
      <3>3. CASE ~(Drawn /\ curs_p)
        <4>1. overlay' = NoCursor
          BY <1>1, <3>1, <3>3, XorHidden
        <4>2. QED
          BY <1>1, <2>1, <3>3, <4>1 DEF CursorShownOnce
      <3>4. QED
        BY <3>2, <3>3
    <2>4. QED
      BY <2>2, <2>3
  <1>4. ASSUME NEW on \in BOOLEAN, DisplayCursor(on) PROVE CursorShownOnce'
    <2>1. /\ UNCHANGED <<win, cur, attribute, pc>> /\ curs_p # on /\ curs_p' = on
          /\ overlay' = Xor(overlay, TRUE, win, cur)
      BY <1>4 DEF DisplayCursor, idle, call
    <2>2. TheCursor' = CursorAt(win, cur)
      BY <1>2, <2>1
    <2>3. CASE ~Drawn
      <3>1. Xor(overlay, TRUE, win, cur) = overlay
        BY <2>3 DEF Xor
      <3>2. QED
        BY <1>1, <2>1, <2>3, <3>1 DEF CursorShownOnce
    <2>4. CASE Drawn /\ on
      <3>1. overlay' = CursorAt(win, cur)
        BY <1>1, <2>1, <2>4, XorShows
      <3>2. QED
        BY <2>1, <2>2, <2>4, <3>1 DEF CursorShownOnce
    <2>5. CASE Drawn /\ ~on
      <3>1. overlay' = NoCursor
        BY <1>1, <2>1, <2>5, XorShows
      <3>2. QED
        BY <1>1, <2>1, <2>5, <3>1 DEF CursorShownOnce
    <2>6. QED
      BY <2>3, <2>4, <2>5
  <1>5. QED
    BY <1>3, <1>4

\* The calls that do not, while there is no cursor on the screen.
LEMMA HiddenCursor ==
  ASSUME IInv, CursorShownOnce, ~(Drawn /\ curs_p), Unbracketed
  PROVE  CursorShownOnce'
  <1>1. win \in Windows /\ cur \in Points /\ overlay = NoCursor /\ NoCursor' = NoCursor
    BY DEF IInv, TypeOK, CursorShownOnce, NoCursor
  <1>2. UNCHANGED curs_p
    BY DEF Unbracketed, SetTextWindow, ScrollTextWindow, ClearScreen, ClrEol, InsDelLine,
           SetTextColor, ElsewhereMoved
  <1>3. SUFFICES overlay' = NoCursor
    BY <1>1, <1>2 DEF CursorShownOnce
  <1>4. ASSUME NEW w, NEW row, NEW col, Position(w, NoCursor, row, col)
        PROVE  overlay' = NoCursor
    BY <1>4, XorHidden DEF Position
  <1>5. ASSUME NEW a \in Windows, NEW rows, NEW up, VidScroll(a, rows, up)
        PROVE  overlay' = NoCursor
    BY <1>1, <1>5, ScrollNone DEF VidScroll
  <1>6. ASSUME NEW a \in Windows, ClearAndHome(a) PROVE overlay' = NoCursor
    BY <1>1, <1>4, <1>6, ScrollNone DEF ClearAndHome
  <1>7. Inside(win, Adjust(win, cur)) /\ Adjust(win, cur) \in Points
    BY <1>1, AdjustInside
  <1>8. ASSUME NEW area, ClearScreen(area) PROVE overlay' = NoCursor
    BY <1>1, <1>5, <1>6, <1>8, WholeIsWindow DEF ClearScreen
  <1>9. CASE ClrEol
    <2> DEFINE p == Adjust(win, cur)
               a == [x1 |-> p.x, y1 |-> p.y, x2 |-> win.x2, y2 |-> p.y]
    <2>1. a \in Windows
      BY <1>1, <1>7, ScreenAssumption DEF Inside, Windows, Points
    <2>2. QED
      BY <1>5, <1>9, <2>1 DEF ClrEol
  <1>10. ASSUME NEW del_p, InsDelLine(del_p) PROVE overlay' = NoCursor
    <2>1. FromCursorDown \in Windows
      BY <1>1, <1>7, ScreenAssumption DEF FromCursorDown, Inside, Windows, Points
    <2>2. QED
      BY <1>5, <1>10, <2>1 DEF InsDelLine
  <1>11. ASSUME NEW y1, NEW y2, NEW x1, NEW x2, SetTextWindow(y1, x1, y2, x2)
         PROVE  overlay' = NoCursor
    BY <1>1, <1>4, <1>11 DEF SetTextWindow
  <1>12. ASSUME NEW rows, ScrollTextWindow(rows) PROVE overlay' = NoCursor
    BY <1>1, <1>5, <1>12 DEF ScrollTextWindow
  <1>13. QED
    BY <1>1, <1>8, <1>9, <1>10, <1>11, <1>12 DEF Unbracketed, SetTextColor, ElsewhereMoved

\* In a mode in which the software cursor is drawn, a program that hides it around
\* the calls that draw without taking it down sees it once at most, at the place of
\* the next character, and exactly while it is displayed and no output is under
\* way; in the other modes nothing is XORed onto the screen, hidden or not.
THEOREM CursorAlwaysShownOnce == CarefulSpec => []CursorShownOnce
  <1> DEFINE I == IInv /\ CursorShownOnce
  <1>1. Init => I
    BY InitInvariant DEF Init, CursorShownOnce, NoCursor, Drawn
  <1>2. I /\ [Careful]_vars => I'
    <2> SUFFICES ASSUME IInv, CursorShownOnce, [Careful]_vars PROVE IInv' /\ CursorShownOnce'
      OBVIOUS
    <2>1. IInv'
      BY StepInvariant DEF Careful, Next
    <2>2. CASE UNCHANGED vars
      BY <2>1, <2>2
      DEF vars, CursorShownOnce, TheCursor, NoCursor, Cell, Adjust, Inside, Home
    <2>3. CASE Bracketed
      <3>1. /\ \A row, col : SetTextPosition(row, col) => pc = "idle"
            /\ \A on : DisplayCursor(on) => pc = "idle"
        BY DEF SetTextPosition, DisplayCursor, idle
      <3>2. QED
        BY <2>1, <2>3, <3>1, OutputCursor, PositionCursor DEF Bracketed
    <2>4. CASE ~(Drawn /\ curs_p) /\ Unbracketed
      BY <2>1, <2>4, HiddenCursor
    <2>5. QED
      BY <2>1, <2>2, <2>3, <2>4 DEF Careful
  <1>3. QED
    BY <1>1, <1>2, PTL DEF CarefulSpec

-----------------------------------------------------------------------------
(* The text window is a terminal: TextScreen implements Terminal.          *)

\* The terminal's places, the cell of the screen at each, what a screen shows in
\* them, and the position.
TermPlaces == (0..Width - 1) \X (0..Height - 1)
At(p) == <<win.x1 + p[1], win.y1 + p[2]>>
Grid(s) == [p \in TermPlaces |-> s[At(p)]]
Where == IF pc = "loop" THEN pxy ELSE Adjust(win, cur)
PosOf(p) == [c |-> p.x - win.x1, r |-> p.y - win.y1]

Shifted(g, top, n) ==
  [p \in TermPlaces |-> IF p[2] < top THEN g[p]
                        ELSE IF p[2] + n \in top..Height - 1 THEN g[<<p[1], p[2] + n>>]
                        ELSE Blank]

LEMMA WindowSize ==
  ASSUME TypeOK
  PROVE  /\ Width \in Nat /\ Width > 0 /\ Height \in Nat /\ Height > 0
         /\ win.x1 \in Nat /\ win.x2 \in Nat /\ win.y1 \in Nat /\ win.y2 \in Nat
         /\ win.x2 <= MaxX /\ win.y2 <= MaxY
         /\ Width = win.x2 - win.x1 + 1 /\ Height = win.y2 - win.y1 + 1
  BY ScreenAssumption DEF TypeOK, Windows, Width, Height

LEMMA Offset ==
  ASSUME NEW lo \in Nat, NEW hi \in Nat, NEW m \in Nat, hi <= m, NEW i \in 0..(hi - lo)
  PROVE  lo + i \in lo..hi /\ lo + i \in 0..m
  OBVIOUS

LEMMA AtCell ==
  ASSUME TypeOK, NEW p \in TermPlaces
  PROVE  /\ At(p) \in Cells /\ At(p) \in Area(win)
         /\ At(p)[1] = win.x1 + p[1] /\ At(p)[2] = win.y1 + p[2]
         /\ p[1] \in 0..Width - 1 /\ p[2] \in 0..Height - 1
  <1>1. p[1] \in 0..Width - 1 /\ p[2] \in 0..Height - 1
    BY DEF TermPlaces
  <1>2. At(p)[1] = win.x1 + p[1] /\ At(p)[2] = win.y1 + p[2]
    BY DEF At
  <1>3. /\ win.x1 + p[1] \in win.x1..win.x2 /\ win.x1 + p[1] \in 0..MaxX
        /\ win.y1 + p[2] \in win.y1..win.y2 /\ win.y1 + p[2] \in 0..MaxY
    <2>1. p[1] \in 0..(win.x2 - win.x1) /\ p[2] \in 0..(win.y2 - win.y1)
      BY <1>1, WindowSize
    <2>2. QED
      BY <2>1, WindowSize, Offset, ScreenAssumption
  <1>4. At(p) \in Cells /\ At(p) \in Area(win)
    BY <1>3 DEF At, Cells, Area
  <1>5. QED
    BY <1>1, <1>2, <1>4

\* A position in the window is a place of the terminal, and its cell.
LEMMA PosPlace ==
  ASSUME TypeOK, NEW p \in Points, Inside(win, p)
  PROVE  /\ PosOf(p) \in [c : 0..Width - 1, r : 0..Height - 1]
         /\ <<PosOf(p).c, PosOf(p).r>> \in TermPlaces
         /\ At(<<PosOf(p).c, PosOf(p).r>>) = Cell(p)
  <1>1. /\ p.x \in Int /\ p.y \in Int /\ p.x >= win.x1 /\ p.x <= win.x2
        /\ p.y >= win.y1 /\ p.y <= win.y2
    BY ScreenAssumption DEF Inside, Points
  <1>2. p.x - win.x1 \in 0..Width - 1 /\ p.y - win.y1 \in 0..Height - 1
    BY <1>1, WindowSize
  <1>3. win.x1 + (p.x - win.x1) = p.x /\ win.y1 + (p.y - win.y1) = p.y
    BY <1>1, WindowSize
  <1>4. QED
    BY <1>2, <1>3 DEF PosOf, TermPlaces, At, Cell

\* Two cells are at different places.
LEMMA AtInjective ==
  ASSUME TypeOK, NEW p \in TermPlaces, NEW q \in TermPlaces, At(p) = At(q)
  PROVE  p = q
  <1>1. /\ p = <<p[1], p[2]>> /\ q = <<q[1], q[2]>>
        /\ p[1] \in Int /\ p[2] \in Int /\ q[1] \in Int /\ q[2] \in Int
    BY WindowSize DEF TermPlaces
  <1>2. win.x1 + p[1] = win.x1 + q[1] /\ win.y1 + p[2] = win.y1 + q[2]
    BY AtCell
  <1>3. p[1] = q[1] /\ p[2] = q[2]
    BY <1>1, <1>2, WindowSize
  <1>4. QED
    BY <1>1, <1>3

LEMMA GridType ==
  ASSUME TypeOK, NEW s \in [Cells -> Glyphs]
  PROVE  Grid(s) \in [TermPlaces -> Glyphs]
  BY AtCell DEF Grid

\* The BIOS scroll of the window's lower part, and of all of it, shifts its rows.
LEMMA ScrollIsShift ==
  ASSUME TypeOK, NEW s \in [Cells -> Glyphs], NEW top \in 0..Height - 1,
         NEW a, a = [x1 |-> win.x1, y1 |-> win.y1 + top, x2 |-> win.x2, y2 |-> win.y2],
         NEW rows \in Nat, rows # 0, NEW up \in BOOLEAN
  PROVE  Grid(BiosScroll(s, a, rows, up, Blank))
           = Shifted(Grid(s), top, IF up THEN rows ELSE -rows)
  <1> DEFINE n == IF up THEN rows ELSE -rows
  <1> SUFFICES ASSUME NEW p \in TermPlaces
               PROVE  BiosScroll(s, a, rows, up, Blank)[At(p)] = Shifted(Grid(s), top, n)[p]
    BY DEF Grid, Shifted
  <1> DEFINE y == IF up THEN At(p)[2] + rows ELSE At(p)[2] - rows
  <1>1. /\ At(p) \in Cells /\ p[1] \in Int /\ p[2] \in Int /\ top \in Int /\ n \in Int
        /\ p[1] >= 0 /\ p[1] <= Width - 1 /\ p[2] >= 0 /\ p[2] <= Height - 1
        /\ At(p) = <<win.x1 + p[1], win.y1 + p[2]>> /\ top >= 0
        /\ At(p)[2] = win.y1 + p[2] /\ win.y1 \in Int
        /\ At(p)[2] = win.y1 + p[2] /\ win.y1 \in Int
        /\ At(p)[2] = win.y1 + p[2] /\ win.y1 \in Int
        /\ At(p)[2] = win.y1 + p[2] /\ win.y1 \in Int
        /\ At(p)[2] = win.y1 + p[2] /\ win.y1 \in Int
        /\ At(p)[2] = win.y1 + p[2] /\ win.y1 \in Int
        /\ At(p)[2] = win.y1 + p[2] /\ win.y1 \in Int
        /\ At(p)[2] = win.y1 + p[2] /\ win.y1 \in Int
        /\ At(p)[2] = win.y1 + p[2] /\ win.y1 \in Int
        /\ At(p)[2] = win.y1 + p[2] /\ win.y1 \in Int
        /\ At(p)[2] = win.y1 + p[2] /\ win.y1 \in Int
        /\ At(p)[2] = win.y1 + p[2] /\ win.y1 \in Int
        /\ At(p)[2] = win.y1 + p[2] /\ win.y1 \in Int
        /\ At(p)[2] = win.y1 + p[2] /\ win.y1 \in Int
        /\ At(p)[2] = win.y1 + p[2] /\ win.y1 \in Int
    BY AtCell, WindowSize DEF At
  <1>2. y = win.y1 + p[2] + n
    <2>1. y = (IF up THEN win.y1 + p[2] + rows ELSE win.y1 + p[2] - rows)
      BY <1>1
    <2>2. QED
      BY <1>1, <2>1
  <1>3. At(p) \in Area(a) <=> p[2] >= top
    BY <1>1, WindowSize DEF Area
  <1>4. y \in a.y1..a.y2 <=> p[2] + n \in top..Height - 1
    BY <1>1, <1>2, WindowSize
  <1>5. CASE p[2] < top
    <2>1. At(p) \notin Area(a)
      BY <1>1, <1>3, <1>5
    <2>2. QED
      BY <1>1, <1>5, <2>1 DEF BiosScroll, Shifted, Grid
  <1>6. CASE p[2] >= top /\ p[2] + n \in top..Height - 1
    <2> DEFINE q == <<p[1], p[2] + n>>
    <2>1. q \in TermPlaces
      BY <1>1, <1>6, WindowSize DEF TermPlaces
    <2>2. At(q) = <<At(p)[1], y>>
      BY <1>1, <1>2, WindowSize DEF At
    <2>3. BiosScroll(s, a, rows, up, Blank)[At(p)] = s[At(q)]
      BY <1>1, <1>3, <1>4, <1>6, <2>2 DEF BiosScroll
    <2>4. ~(p[2] < top)
      BY <1>1, <1>6
    <2>5. Shifted(Grid(s), top, n)[p] = s[At(q)]
      BY <1>6, <2>1, <2>4 DEF Shifted, Grid
    <2>6. QED
      BY <2>3, <2>5
  <1>7. CASE p[2] >= top /\ ~(p[2] + n \in top..Height - 1)
    <2>1. BiosScroll(s, a, rows, up, Blank)[At(p)] = Blank
      BY <1>1, <1>3, <1>4, <1>7 DEF BiosScroll
    <2>2. ~(p[2] < top)
      BY <1>1, <1>7
    <2>3. QED
      BY <1>7, <2>1, <2>2 DEF Shifted
  <1>8. QED
    BY <1>1, <1>5, <1>6, <1>7

LEMMA ScrollUp ==
  ASSUME TypeOK, NEW s \in [Cells -> Glyphs], NEW top \in 0..Height - 1,
         NEW a, a = [x1 |-> win.x1, y1 |-> win.y1 + top, x2 |-> win.x2, y2 |-> win.y2],
         NEW rows \in Nat, rows # 0
  PROVE  Grid(BiosScroll(s, a, rows, TRUE, Blank)) = Shifted(Grid(s), top, rows)
  <1>1. TRUE \in BOOLEAN
    OBVIOUS
  <1>2. Grid(BiosScroll(s, a, rows, TRUE, Blank))
          = Shifted(Grid(s), top, IF TRUE THEN rows ELSE -rows)
    BY <1>1, ScrollIsShift, ZenonT(60)
  <1>3. QED
    BY <1>2, Zenon

LEMMA ScrollDown ==
  ASSUME TypeOK, NEW s \in [Cells -> Glyphs], NEW top \in 0..Height - 1,
         NEW a, a = [x1 |-> win.x1, y1 |-> win.y1 + top, x2 |-> win.x2, y2 |-> win.y2],
         NEW rows \in Nat, rows # 0
  PROVE  Grid(BiosScroll(s, a, rows, FALSE, Blank)) = Shifted(Grid(s), top, -rows)
  <1>1. FALSE \in BOOLEAN
    OBVIOUS
  <1>2. Grid(BiosScroll(s, a, rows, FALSE, Blank))
          = Shifted(Grid(s), top, IF FALSE THEN rows ELSE -rows)
    BY <1>1, ScrollIsShift, ZenonT(60)
  <1>3. QED
    BY <1>2, Zenon

LEMMA IsBoolean == ASSUME NEW b \in BOOLEAN PROVE b = TRUE \/ b = FALSE
  OBVIOUS

\* What Terminal sees of a state.
TD == [w |-> Width, h |-> Height]
TG == Grid(screen)
TP == PosOf(Where)

\* The window stays where it is, while a text is written or by a call.
LEMMA TermStays ==
  ASSUME UNCHANGED <<win, TD>>
  PROVE  /\ pc = "loop" /\ pc' = "loop" => Term!Written
         /\ pc = "idle" /\ pc' = "idle" => Term!Called
  BY DEF Term!Written, Term!Called, Term!Stays, TD

\* Its actions, in these terms.
LEMMA TermType ==
  ASSUME NEW g, Term!Written,
         IF TP.c < Width - 1
         THEN /\ TG' = [TG EXCEPT ![<<TP.c, TP.r>>] = g]
              /\ TP' = [TP EXCEPT !.c = TP.c + 1]
         ELSE /\ TG' = IF TP.r = Height - 1
                       THEN Shifted([TG EXCEPT ![<<TP.c, TP.r>>] = g], 0, 1)
                       ELSE [TG EXCEPT ![<<TP.c, TP.r>>] = g]
              /\ TP' = [c |-> 0, r |-> IF TP.r = Height - 1 THEN TP.r ELSE TP.r + 1]
  PROVE  Term!Type(g)
  BY Zenon DEF Term!Type, Term!LastRow, Term!Down, Term!Shift, Term!Places, Shifted,
               TD, TG, TP, Grid, At, TermPlaces, PosOf, Where

LEMMA TermLineFeed ==
  ASSUME Term!Written, TG' = IF TP.r = Height - 1 THEN Shifted(TG, 0, 1) ELSE TG,
         TP' = [c |-> 0, r |-> IF TP.r = Height - 1 THEN TP.r ELSE TP.r + 1]
  PROVE  Term!LineFeed
  BY Zenon DEF Term!LineFeed, Term!LastRow, Term!Down, Term!Shift, Term!Places, Shifted,
               TD, TG, TP, Grid, At, TermPlaces, PosOf, Where

LEMMA TermBack ==
  ASSUME Term!Written, UNCHANGED <<screen, TG>>,
         \/ TP' = [TP EXCEPT !.c = 0]
         \/ TP' = [TP EXCEPT !.c = IF TP.c > 0 THEN TP.c - 1 ELSE TP.c]
  PROVE  Term!Back
  BY Zenon DEF Term!Back, TG, TP, Grid, At, TermPlaces, PosOf, Where

LEMMA TermBegin ==
  ASSUME pc = "idle", pc' = "loop", UNCHANGED <<win, screen, TD, TG, TP>>
  PROVE  Term!Begin
  BY DEF Term!Begin, TD, TG, TP, Grid, At, TermPlaces, PosOf, Where

LEMMA TermEnd ==
  ASSUME pc = "loop", pc' = "idle", UNCHANGED <<win, screen, TD, TG, TP>>
  PROVE  Term!End
  BY DEF Term!End, TD, TG, TP, Grid, At, TermPlaces, PosOf, Where

LEMMA TermKept ==
  ASSUME UNCHANGED <<pc, win, screen, TD, TG, TP>>
  PROVE  UNCHANGED Term!tvars
  BY DEF Term!tvars, TD, TG, TP, Grid, At, TermPlaces, PosOf, Where

LEMMA TermMove ==
  ASSUME Term!Called, UNCHANGED <<screen, TG>>, TP' \in [c : 0..Width - 1, r : 0..Height - 1]
  PROVE  Term!Move
  BY DEF Term!Move, TD, TG, TP, Grid, At, TermPlaces, PosOf, Where

LEMMA TermScroll ==
  ASSUME NEW n, Term!Called, UNCHANGED TP, TG' = Shifted(TG, 0, n)
  PROVE  Term!Scroll(n)
  BY Zenon DEF Term!Scroll, Term!Shift, Term!Places, Shifted,
               TD, TG, TP, Grid, At, TermPlaces, PosOf, Where

LEMMA TermLines ==
  ASSUME Term!Called, UNCHANGED TP
  PROVE  /\ TG' = Shifted(TG, TP.r, 1) => Term!DeleteLine
         /\ TG' = Shifted(TG, TP.r, -1) => Term!InsertLine
  BY ZenonT(60) DEF Term!DeleteLine, Term!InsertLine, Term!Shift, Term!Places, Shifted,
               TD, TG, TP, Grid, At, TermPlaces, PosOf, Where

LEMMA TermClearToEndOfLine ==
  ASSUME Term!Called, UNCHANGED TP,
         TG' = [p \in TermPlaces |-> IF p[2] = TP.r /\ p[1] >= TP.c THEN Blank ELSE TG[p]]
  PROVE  Term!ClearToEndOfLine
  BY Zenon DEF Term!ClearToEndOfLine, Term!Places,
               TD, TG, TP, Grid, At, TermPlaces, PosOf, Where

LEMMA TermClear ==
  ASSUME Term!Called, TP' \in {TP, [c |-> 0, r |-> 0]}, TG' = [p \in TermPlaces |-> Blank]
  PROVE  Term!Clear
  BY Zenon DEF Term!Clear, Term!AllBlank, Term!Origin, Term!Places,
               TD, TG, TP, Grid, At, TermPlaces, PosOf, Where

LEMMA TermReopen ==
  ASSUME win' # win, pc = "idle", UNCHANGED <<screen, pc>>,
         TD'.w > 0, TD'.h > 0, TG' \in [TermPlaces' -> Glyphs], TP' = [c |-> 0, r |-> 0]
  PROVE  Term!Reopen
  BY DEF Term!Reopen, Term!Origin,
         TD, TG, TP, Grid, At, TermPlaces, PosOf, Where

\* How a step of the screen looks while the window stays where it is.
LEMMA WindowStays ==
  ASSUME UNCHANGED win
  PROVE  TD' = TD /\ TermPlaces' = TermPlaces /\ TG' = Grid(screen') /\ TP' = PosOf(Where')
  BY DEF TD, TG, TP, Grid, At, TermPlaces, PosOf, Width, Height

LEMMA WhereInside == ASSUME IInv PROVE Where \in Points /\ Inside(win, Where)
  BY AdjustInside DEF Where, IInv, TypeOK, PositionInWindow

LEMMA WhereInsideNext == ASSUME IInv' PROVE Where' \in Points /\ Inside(win', Where')
  <1>1. win' \in Windows /\ cur' \in Points /\ pxy' \in Points
    BY DEF IInv, TypeOK
  <1>2. pc' = "loop" => Inside(win', pxy')
    BY DEF IInv, PositionInWindow, Inside
  <1>3. Adjust(win', cur') \in Points /\ Inside(win', Adjust(win', cur'))
    BY <1>1, AdjustInside
  <1>4. Where' = IF pc' = "loop" THEN pxy' ELSE Adjust(win', cur')
    BY DEF Where, Adjust, Inside, Home
  <1>5. QED
    BY <1>1, <1>2, <1>3, <1>4

\* A call that leaves the window and its contents is a move of the position.
LEMMA MoveStep ==
  ASSUME IInv, IInv', idle, UNCHANGED <<win, screen>>
  PROVE  Term!Move
  <1>1. TD' = TD /\ TG' = TG /\ TP' = PosOf(Where') /\ pc = "idle" /\ pc' = "idle"
    BY WindowStays DEF TG, idle, call
  <1>2. Where' \in Points /\ Inside(win, Where')
    BY WhereInsideNext
  <1>3. TP' \in [c : 0..Width - 1, r : 0..Height - 1]
    BY <1>1, <1>2, PosPlace DEF IInv
  <1>4. QED
    BY <1>1, <1>3, TermStays, TermMove

\* The position an output call takes up is the cursor's, and the one it leaves is
\* the cursor's again.
LEMMA OutMemTerm == ASSUME IInv, NEW out, OutMem(out) PROVE Term!Begin
  <1>1. UNCHANGED <<win, screen>> /\ pc = "idle" /\ pc' = "loop" /\ pxy' = Adjust(win, cur)
    BY DEF OutMem
  <1>2. Where = Adjust(win, cur) /\ Where' = Adjust(win, cur)
    BY <1>1 DEF Where
  <1>3. UNCHANGED <<TD, TG, TP>>
    BY <1>1, <1>2, WindowStays DEF TG, TP
  <1>4. QED
    BY <1>1, <1>3, TermBegin

LEMMA ReturnTerm ==
  ASSUME IInv, pc = "loop", Return, cur' = pxy, UNCHANGED <<win, screen>>
  PROVE  Term!End
  <1>1. pc' = "idle" /\ Inside(win, pxy) /\ win' = win
    BY DEF Return, IInv, PositionInWindow
  <1>2. Where = pxy /\ Where' = pxy
    BY <1>1 DEF Where, Adjust, Inside, Home
  <1>3. UNCHANGED <<TD, TG, TP>>
    BY <1>1, <1>2, WindowStays DEF TG, TP
  <1>4. QED
    BY <1>1, <1>3, TermEnd

LEMMA BellStep == ASSUME IInv, Bell PROVE Term!End \/ UNCHANGED Term!tvars
  <1>1. pc = "loop" /\ cur' = pxy /\ UNCHANGED <<win, screen>>
    BY DEF Bell, Reading
  <1>2. CASE Return
    BY <1>1, <1>2, ReturnTerm
  <1>3. CASE pxy' = pxy /\ UNCHANGED pc
    <2>1. Where' = Where
      BY <1>1, <1>3 DEF Where
    <2>2. UNCHANGED <<TD, TG, TP>>
      BY <1>1, <2>1, WindowStays DEF TG, TP
    <2>3. QED
      BY <1>1, <1>3, <2>2, TermKept
  <1>4. QED
    BY <1>2, <1>3 DEF Bell, Consume

LEMMA BackStep == ASSUME IInv, CarriageReturn \/ Backspace PROVE Term!Back
  <1>1. /\ UNCHANGED <<win, screen>> /\ pc = "loop" /\ pc' = "loop" /\ TypeOK
        /\ pxy \in Points /\ Inside(win, pxy)
    BY DEF CarriageReturn, Backspace, Reading, Consume, IInv, TypeOK, PositionInWindow
  <1>2. Where = pxy /\ Where' = pxy'
    BY <1>1 DEF Where
  <1>3. TD' = TD /\ TG' = TG /\ TP' = PosOf(pxy') /\ TP = PosOf(pxy)
    BY <1>1, <1>2, WindowStays DEF TG, TP
  <1>4. pxy.x \in Int /\ win.x1 \in Int /\ pxy.x >= win.x1 /\ win.x1 - win.x1 = 0
    BY <1>1, WindowSize, ScreenAssumption DEF Points, Inside
  <1>5. pxy = [x |-> pxy.x, y |-> pxy.y]
    BY <1>1 DEF Points
  <1>6. CASE CarriageReturn
    <2>1. pxy'.x = win.x1 /\ pxy'.y = pxy.y
      BY <1>5, <1>6 DEF CarriageReturn
    <2>2. TP' = [TP EXCEPT !.c = 0]
      BY <1>3, <1>4, <2>1 DEF PosOf
    <2>3. QED
      BY <1>1, <1>3, <2>2, TermStays, TermBack
  <1>7. CASE Backspace
    <2>1. pxy' = IF pxy.x > win.x1 THEN [pxy EXCEPT !.x = pxy.x - 1] ELSE pxy
      BY <1>7 DEF Backspace, BackspaceTo
    <2>2. TP.c = pxy.x - win.x1 /\ (TP.c > 0 <=> pxy.x > win.x1)
      BY <1>3, <1>4 DEF PosOf
    <2>3. CASE pxy.x > win.x1
      <3>1. pxy'.x = pxy.x - 1 /\ pxy'.y = pxy.y
        BY <1>5, <2>1, <2>3
      <3>2. (pxy.x - 1) - win.x1 = (pxy.x - win.x1) - 1
        BY <1>4
      <3>3. TP' = [TP EXCEPT !.c = TP.c - 1]
        BY <1>3, <3>1, <3>2 DEF PosOf
      <3>4. TP' = [TP EXCEPT !.c = IF TP.c > 0 THEN TP.c - 1 ELSE TP.c]
        BY <2>2, <2>3, <3>3
      <3>5. QED
        BY <1>1, <1>3, <3>4, TermStays, TermBack
    <2>4. CASE ~(pxy.x > win.x1)
      <3>1. TP' = TP /\ TP = [TP EXCEPT !.c = TP.c]
        BY <1>3, <2>1, <2>4 DEF PosOf
      <3>2. TP' = [TP EXCEPT !.c = IF TP.c > 0 THEN TP.c - 1 ELSE TP.c]
        BY <2>2, <2>4, <3>1
      <3>3. QED
        BY <1>1, <1>3, <3>2, TermStays, TermBack
    <2>5. QED
      BY <2>3, <2>4
  <1>8. QED
    BY <1>6, <1>7

\* What __libi86_vid_scroll does when _scrolltextwindow calls it.
LEMMA WindowScroll ==
  ASSUME TypeOK, NEW s \in [Cells -> Glyphs], NEW rows \in Int, rows # 0,
         NEW up, up = (rows > 0)
  PROVE  Grid(BiosScroll(s, win, BiosRows(rows), up, Blank)) = Shifted(Grid(s), 0, rows)
  <1>1. /\ Height \in Nat /\ Height > 0 /\ win.y2 - win.y1 = Height - 1 /\ up \in BOOLEAN
        /\ 0 \in 0..Height - 1 /\ win.y1 + 0 = win.y1
    BY WindowSize
  <1>2. CASE rows > Height - 1 \/ rows < -(Height - 1)
    <2>1. BiosRows(rows) = 0
      BY <1>1, <1>2 DEF BiosRows
    <2>2. ASSUME NEW p \in TermPlaces
          PROVE  BiosScroll(s, win, 0, up, Blank)[At(p)] = Shifted(Grid(s), 0, rows)[p]
      <3>1. p[2] \in 0..Height - 1
        BY AtCell
      <3>2. ~(p[2] < 0) /\ p[2] + rows \notin 0..Height - 1
        BY <1>1, <1>2, <3>1
      <3>3. BiosScroll(s, win, 0, up, Blank)[At(p)] = Blank
        BY AtCell DEF BiosScroll
      <3>4. QED
        BY <3>2, <3>3 DEF Shifted
    <2>3. QED
      BY <2>1, <2>2 DEF Grid, Shifted
  <1>3. CASE ~(rows > Height - 1 \/ rows < -(Height - 1))
    <2>1. BiosRows(rows) = IF rows > 0 THEN rows ELSE -rows
      BY <1>1, <1>3 DEF BiosRows
    <2>2. win = [x1 |-> win.x1, y1 |-> win.y1 + 0, x2 |-> win.x2, y2 |-> win.y2]
      BY <1>1 DEF TypeOK, Windows
    <2>3. CASE rows > 0
      <3>1. BiosRows(rows) = rows /\ rows \in Nat
        BY <2>1, <2>3
      <3>2. up = TRUE
        BY <2>3, Zenon
      <3>3. QED
        BY <1>1, <2>2, <3>1, <3>2, ScrollUp, ZenonT(60)
    <2>4. CASE ~(rows > 0)
      <3>1. BiosRows(rows) = -rows /\ -rows \in Nat /\ -rows # 0 /\ -(-rows) = rows
        BY <2>1, <2>4
      <3>2. up # TRUE
        BY <2>4, Zenon
      <3>3. QED
        BY <1>1, <2>2, <3>1, <3>2, IsBoolean, ScrollDown, ZenonT(60)
    <2>5. QED
      BY <2>3, <2>4
  <1>4. QED
    BY <1>2, <1>3

\* Plotting a character is writing it in its place.
LEMMA GridPut ==
  ASSUME TypeOK, NEW s \in [Cells -> Glyphs], NEW p \in Points, Inside(win, p), NEW g
  PROVE  Grid([s EXCEPT ![Cell(p)] = g]) = [Grid(s) EXCEPT ![<<PosOf(p).c, PosOf(p).r>>] = g]
  <1> DEFINE place == <<PosOf(p).c, PosOf(p).r>>
             t == [s EXCEPT ![Cell(p)] = g]
  <1>1. place \in TermPlaces /\ At(place) = Cell(p)
    BY PosPlace
  <1> HIDE DEF place
  <1>2. ASSUME NEW q \in TermPlaces PROVE t[At(q)] = [Grid(s) EXCEPT ![place] = g][q]
    <2>1. At(q) \in Cells
      BY AtCell
    <2>2. CASE q = place
      <3>1. t[At(q)] = g
        BY <1>1, <2>1, <2>2
      <3>2. [Grid(s) EXCEPT ![place] = g][q] = g
        BY <1>1, <2>2 DEF Grid
      <3>3. QED
        BY <3>1, <3>2
    <2>3. CASE q # place
      <3>1. At(q) # Cell(p)
        BY <1>1, <2>3, AtInjective
      <3>2. t[At(q)] = s[At(q)]
        BY <2>1, <3>1
      <3>3. [Grid(s) EXCEPT ![place] = g][q] = s[At(q)]
        BY <2>3 DEF Grid
      <3>4. QED
        BY <3>2, <3>3
    <2>4. QED
      BY <2>2, <2>3
  <1>3. Grid(t) = [Grid(s) EXCEPT ![place] = g]
    <2>1. DOMAIN [Grid(s) EXCEPT ![place] = g] = TermPlaces
      BY DEF Grid
    <2>2. [Grid(s) EXCEPT ![place] = g] = [q \in TermPlaces |-> [Grid(s) EXCEPT ![place] = g][q]]
      BY <2>1 DEF Grid
    <2> DEFINE put == [Grid(s) EXCEPT ![place] = g]
    <2> HIDE DEF put
    <2>3. Grid(t) = [q \in TermPlaces |-> put[q]]
      BY <1>2 DEF Grid, put
    <2>4. QED
      BY <2>2, <2>3 DEF put
  <1>4. QED
    BY <1>3 DEF place

\* A new line: the position goes to the next row, or the last row scrolls.
LEMMA NextLinePos ==
  ASSUME TypeOK, NEW p \in Points, Inside(win, p)
  PROVE  /\ p.y < win.y2 <=> PosOf(p).r # Height - 1
         /\ PosOf(NextLine(p)) = [c |-> 0, r |-> IF PosOf(p).r = Height - 1 THEN PosOf(p).r
                                                ELSE PosOf(p).r + 1]
  <1>1. /\ p.y \in Int /\ p.y <= win.y2 /\ win.y1 \in Int /\ win.y2 \in Int /\ win.x1 \in Int
        /\ Height - 1 = win.y2 - win.y1
    BY WindowSize, ScreenAssumption DEF Inside, Points
  <1>2. PosOf(p).r = p.y - win.y1
    BY DEF PosOf
  <1>3. p.y < win.y2 <=> PosOf(p).r # Height - 1
    BY <1>1, <1>2
  <1>4. NextLine(p).x = win.x1 /\ NextLine(p).y = IF p.y < win.y2 THEN p.y + 1 ELSE p.y
    BY DEF NextLine
  <1>5. PosOf(NextLine(p)) = [c |-> win.x1 - win.x1, r |-> NextLine(p).y - win.y1]
    BY <1>4 DEF PosOf
  <1>6. NextLine(p).y - win.y1 = IF PosOf(p).r = Height - 1 THEN PosOf(p).r
                                ELSE PosOf(p).r + 1
    BY <1>1, <1>2, <1>3, <1>4
  <1>7. win.x1 - win.x1 = 0
    BY <1>1
  <1>8. QED
    BY <1>3, <1>5, <1>6, <1>7

LEMMA ScrolledIfLast ==
  ASSUME TypeOK, NEW s \in [Cells -> Glyphs], NEW p \in Points, Inside(win, p)
  PROVE  Grid(ScrollIfLast(s, p, Blank))
           = IF PosOf(p).r = Height - 1 THEN Shifted(Grid(s), 0, 1) ELSE Grid(s)
  <1>1. TRUE = (1 > 0) /\ 1 \in Int /\ 1 # 0
    OBVIOUS
  <1>2. Grid(BiosScroll(s, win, BiosRows(1), TRUE, Blank)) = Shifted(Grid(s), 0, 1)
    BY <1>1, WindowScroll
  <1>3. p.y < win.y2 <=> PosOf(p).r # Height - 1
    BY NextLinePos
  <1>4. QED
    BY <1>2, <1>3 DEF ScrollIfLast

LEMMA LineFeedStep == ASSUME IInv, LineFeed PROVE Term!LineFeed
  <1>1. /\ UNCHANGED win /\ pc = "loop" /\ pc' = "loop" /\ TypeOK
        /\ pxy \in Points /\ Inside(win, pxy) /\ screen \in [Cells -> Glyphs]
    BY DEF LineFeed, Reading, Consume, IInv, TypeOK, PositionInWindow
  <1>2. Where = pxy /\ Where' = NextLine(pxy)
    BY <1>1 DEF Where, LineFeed
  <1>3. TD' = TD /\ TG' = Grid(screen') /\ TP' = PosOf(Where') /\ TP = PosOf(pxy)
    BY <1>1, <1>2, WindowStays DEF TP
  <1>4. TG' = IF TP.r = Height - 1 THEN Shifted(TG, 0, 1) ELSE TG
    BY <1>1, <1>3, ScrolledIfLast DEF LineFeed, TG
  <1>5. TP' = [c |-> 0, r |-> IF TP.r = Height - 1 THEN TP.r ELSE TP.r + 1]
    BY <1>1, <1>2, <1>3, NextLinePos
  <1>6. QED
    BY <1>1, <1>3, <1>4, <1>5, TermStays, TermLineFeed

LEMMA PlotStep == ASSUME IInv, NEW ch \in Glyphs, Plot(ch) PROVE Term!Type(ch)
  <1> DEFINE t == [screen EXCEPT ![Cell(pxy)] = ch]
             new == [TG EXCEPT ![<<TP.c, TP.r>>] = ch]
  <1>1. /\ UNCHANGED win /\ pc = "loop" /\ pc' = "loop" /\ TypeOK
        /\ pxy \in Points /\ Inside(win, pxy) /\ screen \in [Cells -> Glyphs]
    BY DEF Plot, Reading, Consume, IInv, TypeOK, PositionInWindow
  <1>2. Where = pxy /\ Where' = pxy'
    BY <1>1 DEF Where
  <1>3. TD' = TD /\ TG' = Grid(screen') /\ TP' = PosOf(pxy') /\ TP = PosOf(pxy)
    BY <1>1, <1>2, WindowStays DEF TP
  <1>4. t \in [Cells -> Glyphs] /\ Grid(t) = new
    BY <1>1, <1>3, GridPut, ZenonT(60) DEF TG
  <1>5. TP.c = pxy.x - win.x1 /\ (pxy.x >= win.x2 <=> ~(TP.c < Width - 1))
    <2>1. pxy.x \in Int /\ win.x1 \in Int /\ win.x2 \in Int /\ Width - 1 = win.x2 - win.x1
      BY <1>1, WindowSize, ScreenAssumption DEF Points
    <2>2. TP.c = pxy.x - win.x1
      BY <1>3 DEF PosOf
    <2>3. QED
      BY <2>1, <2>2
  <1>8. Term!Written
    BY <1>1, <1>3, TermStays
  <1> HIDE DEF t, new
  <1>6. CASE pxy.x >= win.x2
    <2>1. screen' = ScrollIfLast(t, pxy, Blank) /\ pxy' = NextLine(pxy)
      BY <1>6 DEF Plot, t
    <2>2. TG' = IF TP.r = Height - 1 THEN Shifted(new, 0, 1) ELSE new
      BY <1>1, <1>3, <1>4, <2>1, ScrolledIfLast
    <2>3. TP' = [c |-> 0, r |-> IF TP.r = Height - 1 THEN TP.r ELSE TP.r + 1]
      BY <1>1, <1>3, <2>1, NextLinePos
    <2>4. QED
      BY <1>8, <1>5, <1>6, <2>2, <2>3, TermType DEF new
  <1>7. CASE ~(pxy.x >= win.x2)
    <2>1. screen' = t /\ pxy' = [pxy EXCEPT !.x = pxy.x + 1]
      BY <1>7 DEF Plot, t
    <2>2. pxy'.x = pxy.x + 1 /\ pxy'.y = pxy.y
      BY <1>1, <2>1 DEF Points
    <2>3. TG' = new
      BY <1>3, <1>4, <2>1
    <2>4. TP' = [TP EXCEPT !.c = TP.c + 1]
      <3>1. TP' = [c |-> pxy'.x - win.x1, r |-> pxy'.y - win.y1]
        BY <1>3 DEF PosOf
      <3>2. TP = [c |-> pxy.x - win.x1, r |-> pxy.y - win.y1]
        BY <1>3 DEF PosOf
      <3>3. pxy'.x - win.x1 = TP.c + 1 /\ pxy'.y - win.y1 = TP.r
        <4>1. pxy.x \in Int /\ win.x1 \in Int
          BY <1>1, WindowSize, ScreenAssumption DEF Points
        <4>2. TP.c = pxy.x - win.x1 /\ TP.r = pxy.y - win.y1
          BY <3>2
        <4>3. (pxy.x + 1) - win.x1 = (pxy.x - win.x1) + 1
          BY <4>1
        <4>4. QED
          BY <2>2, <4>2, <4>3
      <3>4. TP' = [c |-> TP.c + 1, r |-> TP.r]
        BY <3>1, <3>3
      <3>5. QED
        BY <3>2, <3>4
    <2>5. QED
      BY <1>8, <1>5, <1>7, <2>3, <2>4, TermType DEF new
  <1>9. QED
    BY <1>6, <1>7

LEMMA ScrollStep ==
  ASSUME IInv, NEW rows \in -MaxRows..MaxRows, ScrollTextWindow(rows)
  PROVE  Term!Scroll(rows)
  <1>1. /\ UNCHANGED <<win, cur, pc, pxy>> /\ pc = "idle" /\ rows \in Int /\ rows # 0 /\ TypeOK
        /\ screen \in [Cells -> Glyphs]
        /\ screen' = BiosScroll(screen, win, BiosRows(rows), rows > 0, Blank)
    BY ScreenAssumption DEF ScrollTextWindow, VidScroll, idle, call, IInv, TypeOK
  <1>2. TD' = TD /\ TG' = Grid(screen') /\ TP' = TP
    BY <1>1, WindowStays DEF TP, Where, PosOf, Adjust, Inside, Home
  <1>3. TG' = Shifted(TG, 0, rows)
    BY <1>1, <1>2, WindowScroll DEF TG
  <1>4. QED
    BY <1>1, <1>2, <1>3, TermStays, TermScroll

\* Clearing an area that has the window in it clears the terminal.
LEMMA ClearedGrid ==
  ASSUME TypeOK, NEW s, NEW a, NEW up, Area(win) \subseteq Area(a)
  PROVE  Grid(BiosScroll(s, a, 0, up, Blank)) = [p \in TermPlaces |-> Blank]
  <1>1. ASSUME NEW p \in TermPlaces PROVE BiosScroll(s, a, 0, up, Blank)[At(p)] = Blank
    BY AtCell DEF BiosScroll
  <1>2. QED
    BY <1>1 DEF Grid

\* Moving to row 1, column 1 goes to the terminal's origin.
LEMMA FirstPosition ==
  ASSUME NEW w \in Windows, NEW o, Position(w, o, 1, 1)
  PROVE  cur' = Home(w) /\ Inside(w, cur') /\ Adjust(w, cur') = Home(w)
  <1>1. w.x1 \in Nat /\ w.x2 \in Nat /\ w.y1 \in Nat /\ w.y2 \in Nat
        /\ w.x1 <= w.x2 /\ w.y1 <= w.y2
    BY ScreenAssumption DEF Windows
  <1>2. Accepted(w, 1, 1)
    BY <1>1 DEF Accepted
  <1>3. (1 - 1) + w.x1 = w.x1 /\ (1 - 1) + w.y1 = w.y1
    BY <1>1
  <1>4. Target(w, 1, 1) = Home(w)
    BY <1>3, Zenon DEF Target, Home
  <1>5. cur' = Home(w)
    BY <1>2, <1>4, Zenon DEF Position
  <1>6. Inside(w, Home(w))
    BY <1>1 DEF Inside, Home
  <1>7. QED
    BY <1>5, <1>6 DEF Adjust

LEMMA ClearStep ==
  ASSUME IInv, NEW area \in {"window", "viewport", "screen"}, ClearScreen(area)
  PROVE  Term!Clear
  <1>1. /\ UNCHANGED <<win, pc, pxy>> /\ pc = "idle" /\ TypeOK /\ win \in Windows
    BY DEF ClearScreen, idle, call, IInv, TypeOK
  <1>2. Area(win) \subseteq Area(win) /\ Area(win) \subseteq Area(Whole)
    BY <1>1, ScreenAssumption DEF Area, Whole, Windows
  <1>3. TD' = TD /\ TG' = Grid(screen') /\ TP' = PosOf(Where')
    BY <1>1, WindowStays
  <1>4. TG' = [p \in TermPlaces |-> Blank]
    BY <1>1, <1>2, <1>3, ClearedGrid DEF ClearScreen, ClearAndHome, VidScroll
  <1>5. CASE UNCHANGED cur
    <2>1. TP' = TP
      BY <1>1, <1>5 DEF TP, Where, PosOf, Adjust, Inside, Home
    <2>2. QED
      BY <1>1, <1>3, <1>4, <2>1, TermStays, TermClear
  <1>6. CASE \E o : Position(win, o, 1, 1)
    <2>1. Adjust(win, cur') = Home(win)
      BY <1>1, <1>6, FirstPosition
    <2>2. Where' = Home(win)
      BY <1>1, <2>1 DEF Where, Adjust, Inside, Home
    <2>3. win.x1 - win.x1 = 0 /\ win.y1 - win.y1 = 0
      BY <1>1, WindowSize
    <2>4. TP' = [c |-> 0, r |-> 0]
      BY <1>3, <2>2, <2>3 DEF PosOf, Home
    <2>5. QED
      BY <1>1, <1>3, <1>4, <2>4, TermStays, TermClear
  <1>7. QED
    BY <1>5, <1>6 DEF ClearScreen, ClearAndHome

\* The cursor's place, and what the calls that start at it see.
LEMMA CursorPlace ==
  ASSUME IInv, pc = "idle"
  PROVE  /\ Where = Adjust(win, cur) /\ TP = PosOf(Where)
         /\ TP.c \in 0..Width - 1 /\ TP.r \in 0..Height - 1
         /\ Where.x = win.x1 + TP.c /\ Where.y = win.y1 + TP.r
  <1>1. Where \in Points /\ Inside(win, Where) /\ TypeOK
    BY WhereInside DEF IInv
  <1>2. TP \in [c : 0..Width - 1, r : 0..Height - 1]
    BY <1>1, PosPlace DEF TP
  <1>3. TP.c = Where.x - win.x1 /\ TP.r = Where.y - win.y1
    BY DEF TP, PosOf
  <1>4. Where.x \in Int /\ Where.y \in Int /\ win.x1 \in Int /\ win.y1 \in Int
    BY <1>1, WindowSize, ScreenAssumption DEF Points
  <1>5. win.x1 + (Where.x - win.x1) = Where.x /\ win.y1 + (Where.y - win.y1) = Where.y
    BY <1>4
  <1>6. QED
    BY <1>2, <1>3, <1>5 DEF Where, TP

LEMMA ClrEolStep == ASSUME IInv, ClrEol PROVE Term!ClearToEndOfLine
  <1> DEFINE a == [x1 |-> Where.x, y1 |-> Where.y, x2 |-> win.x2, y2 |-> Where.y]
  <1>1. /\ UNCHANGED <<win, cur, pc, pxy>> /\ pc = "idle" /\ TypeOK
        /\ Where = Adjust(win, cur)
    BY CursorPlace DEF ClrEol, idle, call, IInv
  <1>2. screen' = BiosScroll(screen, a, 0, TRUE, Blank)
    BY <1>1 DEF ClrEol, VidScroll
  <1>3. TD' = TD /\ TG' = Grid(screen') /\ TP' = TP
    BY <1>1, WindowStays DEF TP, Where, PosOf, Adjust, Inside, Home
  <1>4. ASSUME NEW p \in TermPlaces
        PROVE  screen'[At(p)] = IF p[2] = TP.r /\ p[1] >= TP.c THEN Blank ELSE TG[p]
    <2>1. /\ At(p) \in Cells /\ At(p) = <<win.x1 + p[1], win.y1 + p[2]>>
          /\ p[1] \in 0..Width - 1 /\ p[2] \in 0..Height - 1
      BY <1>1, AtCell DEF At
    <2>2. /\ win.x1 \in Int /\ win.y1 \in Int /\ win.x2 = win.x1 + (Width - 1)
          /\ TP.c \in Int /\ TP.r \in Int /\ Width \in Int /\ Height \in Int
          /\ Where.x = win.x1 + TP.c /\ Where.y = win.y1 + TP.r
      BY <1>1, CursorPlace, WindowSize
    <2>3. win.x1 + p[1] \in Where.x..win.x2 <=> p[1] >= TP.c
      BY <2>1, <2>2
    <2>4. win.y1 + p[2] \in Where.y..Where.y <=> p[2] = TP.r
      BY <2>1, <2>2
    <2>5. At(p) \in Area(a) <=> p[2] = TP.r /\ p[1] >= TP.c
      BY <2>1, <2>3, <2>4 DEF Area
    <2>6. TG[p] = screen[At(p)]
      BY DEF TG, Grid
    <2>7. QED
      BY <1>2, <2>1, <2>5, <2>6 DEF BiosScroll
  <1>5. TG' = [p \in TermPlaces |-> IF p[2] = TP.r /\ p[1] >= TP.c THEN Blank ELSE TG[p]]
    BY <1>3, <1>4 DEF Grid
  <1>6. QED
    BY <1>1, <1>3, <1>5, TermStays, TermClearToEndOfLine

LEMMA InsDelLineStep ==
  ASSUME IInv, NEW del_p \in BOOLEAN, InsDelLine(del_p)
  PROVE  Term!DeleteLine \/ Term!InsertLine
  <1>1. /\ UNCHANGED <<win, cur, pc, pxy>> /\ pc = "idle" /\ TypeOK
        /\ screen' = BiosScroll(screen, FromCursorDown, 1, del_p, Blank)
        /\ screen \in [Cells -> Glyphs]
    BY DEF InsDelLine, VidScroll, idle, call, IInv, TypeOK
  <1>2. TD' = TD /\ TG' = Grid(screen') /\ TP' = TP
    BY <1>1, WindowStays DEF TP, Where, PosOf, Adjust, Inside, Home
  <1>3. /\ FromCursorDown
             = [x1 |-> win.x1, y1 |-> win.y1 + TP.r, x2 |-> win.x2, y2 |-> win.y2]
        /\ TP.r \in 0..Height - 1
    BY <1>1, CursorPlace DEF FromCursorDown, TypeOK, Windows
  <1>4. 1 \in Nat /\ 1 # 0
    OBVIOUS
  <1>5. CASE del_p = TRUE
    <2>1. TG' = Shifted(TG, TP.r, 1)
      BY <1>1, <1>2, <1>3, <1>4, <1>5, ScrollUp DEF TG
    <2>2. QED
      BY <1>1, <1>2, <2>1, TermStays, TermLines
  <1>6. CASE del_p = FALSE
    <2>1. TG' = Shifted(TG, TP.r, -1)
      BY <1>1, <1>2, <1>3, <1>4, <1>6, ScrollDown DEF TG
    <2>2. QED
      BY <1>1, <1>2, <2>1, TermStays, TermLines
  <1>7. QED
    BY <1>5, <1>6

\* A new window is a new terminal, with what is displayed there.
LEMMA ReopenStep ==
  ASSUME IInv, IInv', NEW y1, NEW x1, NEW y2, NEW x2, SetTextWindow(y1, x1, y2, x2),
         win' # win
  PROVE  Term!Reopen
  <1>1. /\ win' \in Windows /\ screen' \in [Cells -> Glyphs] /\ pc' = "idle"
        /\ pc = "idle" /\ UNCHANGED screen
        /\ Position(win', overlay, 1, 1)
    BY DEF SetTextWindow, idle, call, IInv, TypeOK
  <1>2. /\ win'.x1 \in Nat /\ win'.x2 \in Nat /\ win'.y1 \in Nat /\ win'.y2 \in Nat
        /\ win'.x1 <= win'.x2 /\ win'.y1 <= win'.y2 /\ win'.x2 <= MaxX /\ win'.y2 <= MaxY
    BY <1>1, ScreenAssumption DEF Windows
  <1>3. Width' = win'.x2 - win'.x1 + 1 /\ Height' = win'.y2 - win'.y1 + 1
    BY DEF Width, Height
  <1>4. TD'.w > 0 /\ TD'.h > 0
    <2>1. Width' > 0 /\ Height' > 0
      BY <1>2, <1>3
    <2>2. TD' = [w |-> Width', h |-> Height']
      BY DEF TD
    <2>3. QED
      BY <2>1, <2>2
  <1>5. ASSUME NEW p \in TermPlaces' PROVE screen'[At(p)'] \in Glyphs
    <2>1. p[1] \in 0..Width' - 1 /\ p[2] \in 0..Height' - 1
      BY <1>5 DEF TermPlaces
    <2>2. p[1] \in 0..(win'.x2 - win'.x1) /\ p[2] \in 0..(win'.y2 - win'.y1)
      BY <1>2, <1>3, <2>1
    <2>3. win'.x1 + p[1] \in 0..MaxX /\ win'.y1 + p[2] \in 0..MaxY
      BY <1>2, <2>2, Offset, ScreenAssumption
    <2>4. At(p)' \in Cells
      BY <2>3 DEF At, Cells
    <2>5. QED
      BY <1>1, <2>4
  <1>6. TG' \in [TermPlaces' -> Glyphs]
    <2>1. TG' = [p \in TermPlaces' |-> screen'[At(p)']]
      BY DEF TG, Grid
    <2>2. QED
      BY <1>5, <2>1
  <1>7. TP' = [c |-> 0, r |-> 0]
    <2>1. Adjust(win', cur') = Home(win')
      BY <1>1, FirstPosition
    <2>2. Where' = Home(win')
      BY <1>1, <2>1 DEF Where, Adjust, Inside, Home
    <2>3. win'.x1 - win'.x1 = 0 /\ win'.y1 - win'.y1 = 0
      BY <1>2
    <2>4. TP' = [c |-> Where'.x - win'.x1, r |-> Where'.y - win'.y1]
      BY DEF TP, PosOf
    <2>5. QED
      BY <2>2, <2>3, <2>4 DEF Home
  <1>8. QED
    BY <1>1, <1>4, <1>6, <1>7, TermReopen

LEMMA TermInit == Init => Term!Start
  <1> SUFFICES ASSUME Init PROVE Term!Start
    OBVIOUS
  <1>1. IInv /\ TypeOK /\ screen \in [Cells -> Glyphs]
    BY InitInvariant DEF IInv, TypeOK
  <1>2. Width > 0 /\ Height > 0
    BY <1>1, WindowSize
  <1>3. TG \in [TermPlaces -> Glyphs]
    BY <1>1, GridType DEF TG
  <1>4. TP \in [c : 0..Width - 1, r : 0..Height - 1]
    BY <1>1, WhereInside, PosPlace DEF TP
  <1>5. pc # "loop"
    BY DEF Init
  <1>6. QED
    BY <1>2, <1>3, <1>4, <1>5
    DEF Term!Start, Term!Places, TG, TP, Grid, At, TermPlaces, PosOf, Where

LEMMA TermStep == IInv /\ IInv' /\ [Next]_vars => [Term!TerminalNext]_(Term!tvars)
  <1> SUFFICES ASSUME IInv, IInv', [Next]_vars
               PROVE  Term!TerminalNext \/ UNCHANGED Term!tvars
    OBVIOUS
  <1>1. CASE idle /\ UNCHANGED <<win, screen>>
    BY <1>1, MoveStep DEF Term!TerminalNext
  <1>2. ASSUME NEW out \in Outputs, OutMem(out) PROVE Term!TerminalNext
    BY <1>2, OutMemTerm DEF Term!TerminalNext
  <1>3. CASE OutMemStep
    <2>1. CASE Finish
      <3>1. pc = "loop" /\ Return /\ cur' = pxy /\ UNCHANGED <<win, screen>>
        BY <2>1 DEF Finish
      <3>2. QED
        BY <3>1, ReturnTerm DEF Term!TerminalNext
    <2>2. CASE CarriageReturn \/ Backspace
      BY <2>2, BackStep DEF Term!TerminalNext
    <2>3. CASE Bell
      BY <2>3, BellStep DEF Term!TerminalNext
    <2>4. CASE LineFeed
      BY <2>4, LineFeedStep DEF Term!TerminalNext
    <2>5. ASSUME NEW ch \in Glyphs, Plot(ch) PROVE Term!TerminalNext
      BY <2>5, PlotStep DEF Term!TerminalNext
    <2>6. QED
      BY <1>3, <2>1, <2>2, <2>3, <2>4, <2>5 DEF OutMemStep
  <1>4. ASSUME NEW rows \in -MaxRows..MaxRows, ScrollTextWindow(rows)
        PROVE  Term!TerminalNext
    BY <1>4, ScrollStep DEF Term!TerminalNext
  <1>5. ASSUME NEW area \in {"window", "viewport", "screen"}, ClearScreen(area)
        PROVE  Term!TerminalNext
    BY <1>5, ClearStep DEF Term!TerminalNext
  <1>6. CASE ClrEol
    BY <1>6, ClrEolStep DEF Term!TerminalNext
  <1>7. ASSUME NEW del_p \in BOOLEAN, InsDelLine(del_p) PROVE Term!TerminalNext
    BY <1>7, InsDelLineStep DEF Term!TerminalNext
  <1>8. ASSUME NEW y1, NEW y2, NEW x1, NEW x2, SetTextWindow(y1, x1, y2, x2)
        PROVE  Term!TerminalNext
    <2>1. idle /\ UNCHANGED screen
      BY <1>8 DEF SetTextWindow
    <2>2. CASE win' = win
      BY <2>1, <2>2, MoveStep DEF Term!TerminalNext
    <2>3. CASE win' # win
      BY <1>8, <2>3, ReopenStep DEF Term!TerminalNext
    <2>4. QED
      BY <2>2, <2>3
  <1>9. CASE UNCHANGED vars
    <2>1. /\ UNCHANGED <<win, screen, pc>> /\ Where' = Where
      BY <1>9 DEF vars, Where, Adjust, Inside, Home
    <2>2. UNCHANGED <<TD, TG, TP>>
      BY <2>1, WindowStays DEF TG, TP
    <2>3. QED
      BY <2>1, <2>2, TermKept
  <1>10. QED
    BY <1>1, <1>2, <1>3, <1>4, <1>5, <1>6, <1>7, <1>8, <1>9
    DEF Next, Bracketed, Unbracketed, SetTextPosition, DisplayCursor, SetTextColor,
        ElsewhereMoved

\* Whatever part of the screen the window is, and whatever else moves the BIOS
\* cursor, the text window behaves as a terminal of the window's size: each step
\* of each call is a step of Terminal, or none.  No step that leaves the window
\* where it is passes for a new terminal.
THEOREM WindowIsTerminal == Spec => TermSpec
  <1>1. IInv /\ IInv' /\ [Next]_vars => [Term!TerminalNext]_(Term!tvars)
    BY TermStep
  <1>2. QED
    BY <1>1, TermInit, AlwaysInvariant, PTL DEF Spec, TermSpec, Term!TerminalSpec
=============================================================================
