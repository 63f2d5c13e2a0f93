------------------------------ MODULE Terminal ------------------------------
(***************************************************************************)
(* What the text screen promises the program that writes to it: a terminal *)
(* of dim.w columns and dim.h rows, whatever part of the physical screen   *)
(* it occupies, with the next character going to pos.  Positions and rows  *)
(* count from 0.  Nothing here knows of windows inside a screen, of the    *)
(* BIOS cursor or of calls in progress.                                    *)
(***************************************************************************)
EXTENDS Integers

CONSTANTS Glyphs, Blank, MaxRows

VARIABLES frame,    \* which part of the screen the terminal is
          sheet,    \* all that is displayed, in the terminal and around it
          dim, grid, pos,
          writing   \* whether characters are being written

tvars == <<frame, sheet, dim, grid, pos, writing>>

Places == (0..dim.w - 1) \X (0..dim.h - 1)
Origin == [c |-> 0, r |-> 0]
AllBlank == [p \in Places |-> Blank]

\* The rows from top down, moved up by n (down when n < 0), blank rows coming in
Shift(g, top, n) ==
  [p \in Places |-> IF p[2] < top THEN g[p]
                    ELSE IF p[2] + n \in top..dim.h - 1 THEN g[<<p[1], p[2] + n>>]
                    ELSE Blank]

LastRow == pos.r = dim.h - 1
Down == [c |-> 0, r |-> IF LastRow THEN pos.r ELSE pos.r + 1]

Start == /\ dim.w > 0 /\ dim.h > 0
         /\ grid \in [Places -> Glyphs]
         /\ pos \in [c : 0..dim.w - 1, r : 0..dim.h - 1]
         /\ ~writing

\* Only Reopen changes the part of the screen, and only Begin and End say whether
\* characters are being written
Stays == UNCHANGED <<frame, dim, writing>>
Written == Stays /\ writing
Called == Stays /\ ~writing

Begin == ~writing /\ writing' /\ UNCHANGED <<frame, sheet, dim, grid, pos>>
End == writing /\ ~writing' /\ UNCHANGED <<frame, sheet, dim, grid, pos>>

\* A character appears at the position and the position advances
Type(g) ==
  LET new == [grid EXCEPT ![<<pos.c, pos.r>>] = g] IN
  /\ IF pos.c < dim.w - 1
     THEN grid' = new /\ pos' = [pos EXCEPT !.c = @ + 1]
     ELSE grid' = (IF LastRow THEN Shift(new, 0, 1) ELSE new) /\ pos' = Down
  /\ Written

LineFeed == /\ grid' = IF LastRow THEN Shift(grid, 0, 1) ELSE grid
            /\ pos' = Down
            /\ Written

\* The position goes back, to the margin or by a column
Back == /\ pos' \in {[pos EXCEPT !.c = 0], [pos EXCEPT !.c = IF @ > 0 THEN @ - 1 ELSE @]}
        /\ Written /\ UNCHANGED <<grid, sheet>>

\* Positioning, or another program moving the BIOS cursor
Move == /\ pos' \in [c : 0..dim.w - 1, r : 0..dim.h - 1]
        /\ Called /\ UNCHANGED <<grid, sheet>>

Scroll(n) == grid' = Shift(grid, 0, n) /\ UNCHANGED pos /\ Called

DeleteLine == grid' = Shift(grid, pos.r, 1)  /\ UNCHANGED pos /\ Called
InsertLine == grid' = Shift(grid, pos.r, -1) /\ UNCHANGED pos /\ Called

ClearToEndOfLine ==
  /\ grid' = [p \in Places |-> IF p[2] = pos.r /\ p[1] >= pos.c THEN Blank ELSE grid[p]]
  /\ UNCHANGED pos /\ Called

Clear == grid' = AllBlank /\ pos' \in {pos, Origin} /\ Called

\* A terminal on another part of the screen, with whatever is displayed there
Reopen == /\ frame' # frame /\ UNCHANGED <<sheet, writing>> /\ ~writing
          /\ dim'.w > 0 /\ dim'.h > 0
          /\ grid' \in [(0..dim'.w - 1) \X (0..dim'.h - 1) -> Glyphs]
          /\ pos' = Origin

TerminalNext == \/ Begin \/ End
                \/ \E g \in Glyphs : Type(g)
                \/ \E n \in -MaxRows..MaxRows : Scroll(n)
                \/ LineFeed \/ Back \/ Move \/ DeleteLine \/ InsertLine
                \/ ClearToEndOfLine \/ Clear \/ Reopen

TerminalSpec == Start /\ [][TerminalNext]_tvars
=============================================================================
