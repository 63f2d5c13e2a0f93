------------------------------ MODULE Palette ------------------------------
(***************************************************************************)
(* The background colour of the graphics modes: what _setbkcolor writes,   *)
(* depending on the adapter, into the colour register of a CGA, register 0 *)
(* of an EGA's palette or entry 0 of a VGA's DAC, and what is seen then.   *)
(*                                                                         *)
(* A pixel value is an index up to 255, or an RGB triplet of three bytes   *)
(* (red lowest, six bits of each used) with the highest bit set.           *)
(***************************************************************************)
EXTENDS Integers, Sequences

CONSTANT BkColours \* the pixel values that the program asks for

ASSUME BkColourAssumption == BkColours \subseteq Int

VARIABLES board,   \* [adapter, low, readable]: the adapter, whether its mode has 200
                   \* lines, and whether its BIOS reads palette registers back
          regs,    \* [cga, pal, dac]: the three registers
          bk_colr, \* the member of __libi86_vid_state
          asked,   \* history: the last colour asked for, or -1
          prev,    \* history: what the last _setbkcolor returned, or -1
          was,     \* history: what was seen before it
          indexed  \* history: a VGA's palette register has been written

palVars == <<board, regs, bk_colr, asked, prev, was, indexed>>

Boards == [adapter : {"MDPA", "CGA", "EGA", "VGA"}, low : BOOLEAN, readable : BOOLEAN]

Red(v)   == v % 64
Green(v) == (v \div 256) % 64
Blue(v)  == (v \div 65536) % 64
IsRgb(v) == v < 0 \/ v > 255
Black    == 8388608
Rgb(r, g, b) == Black + r + 256 * g + 65536 * b

\* The named colours of <graph.h>, in the order of the CGA's numbers
NamedColours ==
  <<Rgb(0, 0, 0), Rgb(0, 0, 42), Rgb(0, 42, 0), Rgb(0, 42, 42),
    Rgb(42, 0, 0), Rgb(42, 0, 42), Rgb(42, 21, 0), Rgb(42, 42, 42),
    Rgb(21, 21, 21), Rgb(21, 21, 63), Rgb(21, 63, 21), Rgb(21, 63, 63),
    Rgb(63, 21, 21), Rgb(63, 21, 63), Rgb(63, 63, 21), Rgb(63, 63, 63)>>

\* The two high bits of each component, as an EGA's 00rgbRGB
High(c) == c \div 32
Low(c)  == (c \div 16) % 2
EgaColourSwapped(v) == High(Red(v)) + 8 * Low(Red(v)) + 2 * High(Green(v)) + 16 * Low(Green(v))
                       + 4 * High(Blue(v)) + 32 * Low(Blue(v))
EgaColour(v) == High(Blue(v)) + 8 * Low(Blue(v)) + 2 * High(Green(v)) + 16 * Low(Green(v))
                + 4 * High(Red(v)) + 32 * Low(Red(v))

EgaToCga == << 0,  1,  2,  3,  4,  5,  6,  7,   0,  1,  2,  3,  4,  5,  7,  7,
               0,  1,  2,  3,  6,  5, 14,  7,   8,  9, 10, 11, 12, 13, 14, 15,
               0,  1,  2,  3,  4,  5,  6,  7,   8,  9, 10, 11, 12, 13, 14, 15,
               8,  9, 10, 11, 12, 13, 14, 15,   8,  9, 10, 11, 12, 13, 14, 15>>
CgaOf(v) == EgaToCga[EgaColour(v) + 1]

\* The registers, as the BIOS writes and reads them: palette registers have six bits
SetPal(r, val) == [r EXCEPT !.pal = val % 64]
SetDac(r, v)   == [r EXCEPT !.dac = <<Red(v), Green(v), Blue(v)>>]
GetPal(deflt)  == IF board.readable THEN regs.pal ELSE deflt
GetDac(dac)    == Rgb(dac[1], dac[2], dac[3])

-----------------------------------------------------------------------------
(* The calls.                                                              *)

\* What __libi86_vid_get_bk_colr finds after a mode change
FirstBkColr == CASE board.adapter = "EGA" -> GetPal(0)
                 [] board.adapter = "VGA" -> GetDac(regs.dac)
                 [] OTHER -> 0

\* The BIOS resets the registers with the mode
PalMode(b) == /\ board' = b /\ regs' = [cga |-> 0, pal |-> 0, dac |-> <<0, 0, 0>>]
              /\ bk_colr' = FirstBkColr'
              /\ asked' = -1 /\ prev' = -1 /\ was' = <<>> /\ indexed' = FALSE

\* An RGB triplet is a CGA colour for a CGA
Taken(v) == IF IsRgb(v) /\ board.adapter = "CGA" THEN CgaOf(v) ELSE v

PaintedIndex(r, v) == IF board.adapter = "CGA" THEN [r EXCEPT !.cga = v % 256] ELSE SetPal(r, v)
PaintedRgb(r, v) == IF board.adapter = "VGA" THEN SetDac(r, v)
                    ELSE SetPal(r, IF board.low THEN CgaOf(v) ELSE EgaColour(v))
Painted(r, v) == IF IsRgb(v) THEN PaintedRgb(r, v) ELSE PaintedIndex(r, v)

\* What is seen: a VGA's palette register selects an entry of the DAC, of which only
\* the first ever changes
Seen(r) == CASE board.adapter = "CGA" -> <<r.cga>>
             [] board.adapter = "VGA" /\ r.pal = 0 -> r.dac
             [] OTHER -> <<r.pal>>

\* _setbkcolor; other adapters have no colours to set
SetBackground(v) ==
  /\ board.adapter # "MDPA"
  /\ regs' = Painted(regs, Taken(v)) /\ bk_colr' = Taken(v)
  /\ prev' = bk_colr /\ was' = Seen(regs) /\ asked' = v
  /\ indexed' = (indexed \/ (board.adapter = "VGA" /\ ~IsRgb(v)))
  /\ UNCHANGED board
BackgroundRefused(v) == board.adapter = "MDPA" /\ prev' = -1 /\ asked' = v
                        /\ UNCHANGED <<board, regs, bk_colr, was, indexed>>

PalInit == /\ board \in Boards /\ regs = [cga |-> 0, pal |-> 0, dac |-> <<0, 0, 0>>]
           /\ bk_colr = FirstBkColr
           /\ asked = -1 /\ prev = -1 /\ was = <<>> /\ indexed = FALSE

PalNext == \/ \E b \in Boards : b.adapter = board.adapter /\ PalMode(b)
           \/ \E v \in BkColours : SetBackground(v) \/ BackgroundRefused(v)

PalSpec == PalInit /\ [][PalNext]_palVars

-----------------------------------------------------------------------------
(* Properties                                                              *)

\* Each named colour of <graph.h> is, on a CGA, the colour of that name.
NamesKept == \A n \in 0..15 : CgaOf(NamedColours[n + 1]) = n

\* An RGB triplet is seen as it was asked for on a VGA, and on an EGA with the two
\* high bits of each component.
Level(hi, lo) == 2 * hi + lo
TripletSeen ==
  asked # -1 /\ IsRgb(asked) =>
    /\ board.adapter = "VGA" /\ ~indexed =>
         Seen(regs) = <<Red(asked), Green(asked), Blue(asked)>>
    /\ board.adapter = "EGA" /\ ~board.low =>
         LET n == regs.pal
             bit(k) == (n \div k) % 2
         IN  /\ Level(bit(4), bit(32)) = Red(asked) \div 16
             /\ Level(bit(2), bit(16)) = Green(asked) \div 16
             /\ Level(bit(1), bit(8)) = Blue(asked) \div 16

\* A program that gives back what _setbkcolor returned sees the background it had,
\* whatever adapter there is and whichever kinds of colour it asks for, and each named
\* colour is the one of that name. On a VGA this holds only until it asks for an index,
\* which the code writes to another register than it took the first colour from.
BackgroundGivenBack ==
  /\ NamesKept /\ TripletSeen
  /\ prev # -1 /\ ~indexed => /\ Seen(Painted(regs, Taken(prev))) = was
                              /\ bk_colr = Taken(asked)
=============================================================================
