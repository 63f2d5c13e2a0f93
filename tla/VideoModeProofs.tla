-------------------------- MODULE VideoModeProofs --------------------------
(***************************************************************************)
(* Proofs about VideoMode.  They hold of every set of machines, whatever   *)
(* modes their adapters can show and whatever mode they start in, and of   *)
(* every set of colours.                                                   *)
(*                                                                         *)
(* The inductive invariant adds to the properties what start-up relies on: *)
(* it tries the second text mode only on an adapter that cannot show the   *)
(* first, so that one of the two is always entered.                        *)
(*                                                                         *)
(* Colours need an invariant of their own, Bytes: the attribute, and the   *)
(* screen from which the normal attribute is read, hold bytes.             *)
(***************************************************************************)
EXTENDS VideoMode, TLAPS

Known == /\ machine \in Machines
         /\ pc \in {"start", "init", "ready"} \union FirstModes
         /\ max_colr \in 0..255

OneRefused == pc = "TEXTMONO" => "TEXTC80" \notin machine.modes

HwShown == hw \in machine.modes \union {"other"}

IInv == Known /\ OneRefused /\ HwShown /\ ModeKnown /\ DrawColourShown /\ DefaultModeUsable

-----------------------------------------------------------------------------
(* Lemmas.                                                                 *)

\* The maximum of a mode is a byte.
LEMMA MaxColrIsByte == \A mode : MaxColr(mode) \in 0..255
BY DEF MaxColr

\* What a mode change leaves: the new mode, completely, or the old state.
LEMMA ChangeResult ==
  ASSUME NEW mode \in Modes, HwShown, Change(mode)
  PROVE  \/ /\ hw' = mode /\ mode_num' = mode /\ dims' = hw'
            /\ strayed' = FALSE /\ mode \in machine.modes
            /\ graph_p' = (mode \notin TextModes)
            /\ mode \in GraphModes => max_colr' = MaxColr(mode) /\ draw_colr' = max_colr'
            /\ mode \notin GraphModes => UNCHANGED max_colr
         \/ /\ mode \notin machine.modes /\ UNCHANGED modes
            /\ \/ UNCHANGED <<hw, strayed>>
               \/ hw' = "other" /\ strayed' = TRUE
  <1>1. mode_num' = mode => (mode \in GraphModes <=> mode \notin TextModes)
    BY DEF Modes, GraphModes, TextModes, FirstModes, CgaModes, EgaModes, SvgaModes
  <1>4. mode # "other"
    BY DEF Modes, GraphModes, TextModes, FirstModes, CgaModes, EgaModes, SvgaModes
  <1>2. CASE hw' = mode /\ mode \in machine.modes /\ strayed' = FALSE
    <2>1. ConModeChanged(mode)
      BY <1>2 DEF Change, Entered
    <2>2. QED
      BY <1>1, <1>2, <2>1 DEF ConModeChanged, DrawReset
  <1>3. CASE mode \notin machine.modes /\ hw' = hw /\ strayed' = strayed
    <2>1. ~Entered(mode)
      BY <1>3, <1>4 DEF Entered, HwShown
    <2>2. QED
      BY <1>3, <2>1 DEF Change
  <1>5. CASE mode \notin machine.modes /\ hw' = "other" /\ strayed' = TRUE
    <2>1. ~Entered(mode)
      BY <1>5, <1>4 DEF Entered
    <2>2. QED
      BY <1>5, <2>1 DEF Change
  <1>6. QED
    BY <1>2, <1>3, <1>5 DEF Change, BiosSet

\* What makes up the invariant survives a change, whoever asks for it.
LEMMA ChangeKeeps ==
  ASSUME NEW mode \in Modes, Change(mode), UNCHANGED machine, HwShown,
         max_colr \in 0..255
  PROVE  HwShown' /\ max_colr' \in 0..255
  <1>1. MaxColr(mode) \in 0..255
    BY MaxColrIsByte
  <1>2. QED
    BY <1>1, ChangeResult DEF HwShown, modes

\* Once the program runs, a change keeps the state that of the mode on the screen.
LEMMA ChangeWhenReady ==
  ASSUME NEW mode \in Modes, Change(mode), UNCHANGED <<machine, pc, startup_mode_num>>,
         IInv, pc = "ready"
  PROVE  IInv'
  <1>1. HwShown' /\ max_colr' \in 0..255
    BY ChangeKeeps DEF IInv, Known
  <1>2. ModeKnown'
    BY ChangeResult DEF IInv, ModeKnown, modes
  <1>3. DrawColourShown'
    <2>1. CASE mode_num' = mode /\ mode \in GraphModes /\ graph_p' = (mode \notin TextModes)
               /\ max_colr' = MaxColr(mode) /\ draw_colr' = max_colr'
      <3>1. MaxColr(mode_num)' = MaxColr(mode)
        BY <2>1 DEF MaxColr
      <3>2. mode \notin TextModes
        BY <2>1 DEF GraphModes, TextModes, FirstModes, CgaModes, EgaModes, SvgaModes
      <3>3. draw_colr' <= max_colr'
        BY <2>1, MaxColrIsByte
      <3>4. graph_p'
        BY <2>1, <3>2
      <3>5. max_colr' = MaxColr(mode_num)'
        BY <2>1, <3>1
      <3>6. QED
        BY <3>3, <3>4, <3>5, Zenon DEF DrawColourShown
    <2>2. CASE mode_num' = mode /\ mode \notin GraphModes
      BY <2>2 DEF DrawColourShown
    <2>3. CASE UNCHANGED modes
      BY <2>3 DEF IInv, DrawColourShown, MaxColr, modes
    <2>4. QED
      BY <2>1, <2>2, <2>3, ChangeResult DEF IInv
  <1>4. QED
    BY <1>1, <1>2, <1>3 DEF IInv, Known, OneRefused, DefaultModeUsable

LEMMA InitInvariant == Init => IInv
BY MachineAssumption DEF Init, IInv, Known, OneRefused, HwShown, ModeKnown, DrawColourShown,
   DefaultModeUsable, FirstModes

\* Start-up reaches "ready" by entering a mode or by being in one.
LEMMA InitSupportedKeeps == ASSUME IInv, InitSupported PROVE IInv'
  <1>1. MaxColr(hw) \in 0..255 /\ MaxColr(mode_num)' = MaxColr(mode_num')
    BY MaxColrIsByte DEF InitSupported, MaxColr
  <1>2. /\ mode_num' = hw /\ dims' = hw /\ pc' = "ready" /\ startup_mode_num' = hw
        /\ hw \in machine.modes /\ UNCHANGED <<machine, hw, strayed>>
    BY DEF InitSupported, ConModeChanged, IInv, HwShown, Modes, GraphModes, TextModes, FirstModes,
       CgaModes, EgaModes, SvgaModes
  <1>3. hw \notin TextModes => max_colr' = MaxColr(hw) /\ draw_colr' = max_colr' /\ graph_p'
    BY <1>2 DEF InitSupported, ConModeChanged, DrawReset
  <1>4. hw \in TextModes => UNCHANGED max_colr
    BY <1>2 DEF InitSupported, ConModeChanged
  <1>5. hw \in GraphModes => hw \notin TextModes
    BY DEF GraphModes, TextModes, FirstModes, CgaModes, EgaModes, SvgaModes
  <1>6. MaxColr(hw)' = MaxColr(hw)
    BY <1>2 DEF MaxColr
  <1>7. DrawColourShown'
    BY <1>1, <1>2, <1>3, <1>5, <1>6 DEF DrawColourShown
  <1>8. QED
    BY <1>1, <1>2, <1>3, <1>4, <1>7 DEF IInv, Known, OneRefused, HwShown, ModeKnown,
       DefaultModeUsable

\* One of the two text modes is entered: the second is tried only if the first is
\* not among the adapter's modes, and then the second is.
LEMMA InitSetKeeps == ASSUME IInv, InitSet PROVE IInv'
  <1>1. pc \in Modes /\ Change(pc) /\ UNCHANGED machine
    BY DEF InitSet, Modes, TextModes
  <1>2. HwShown' /\ max_colr' \in 0..255
    BY <1>1, ChangeKeeps DEF IInv, Known
  <1>3. CASE hw' = pc /\ mode_num' = pc /\ dims' = hw' /\ pc \in machine.modes
    <2>1. pc' = "ready" /\ startup_mode_num' = pc
      BY <1>3 DEF InitSet, Entered
    <2>2. mode_num' \notin GraphModes
      BY <1>3 DEF InitSet, GraphModes, TextModes, FirstModes, CgaModes, EgaModes, SvgaModes
    <2>3. QED
      BY <1>1, <1>2, <1>3, <2>1, <2>2 DEF IInv, Known, OneRefused, ModeKnown,
         DrawColourShown, DefaultModeUsable
  <1>4. CASE pc \notin machine.modes /\ hw' # pc
    <2>1. pc = "TEXTC80"
      BY <1>4, MachineAssumption DEF InitSet, IInv, Known, OneRefused, FirstModes
    <2>2. pc' = "TEXTMONO"
      BY <1>4, <2>1 DEF InitSet, Entered
    <2>3. QED
      BY <1>1, <1>2, <1>4, <2>1, <2>2 DEF IInv, Known, OneRefused, ModeKnown,
         DrawColourShown, DefaultModeUsable, FirstModes
  <1>5. pc \notin machine.modes => hw' # pc
    <2>1. pc # "other"
      BY DEF InitSet, FirstModes
    <2>2. QED
      BY <1>1, <2>1 DEF Change, BiosSet, IInv, HwShown
  <1>6. QED
    BY <1>1, <1>3, <1>4, <1>5, ChangeResult DEF IInv

\* The other calls, on colours, leave the mode alone.
LEMMA ColoursKeep ==
  ASSUME IInv, ready, screen, UNCHANGED max_colr,
         draw_colr' = draw_colr \/ draw_colr' <= max_colr
  PROVE  IInv'
  <1>1. MaxColr(mode_num)' = MaxColr(mode_num)
    BY DEF ready, screen, MaxColr
  <1>2. DrawColourShown'
    BY <1>1 DEF ready, screen, IInv, DrawColourShown
  <1>3. QED
    BY <1>2 DEF ready, screen, IInv, Known, OneRefused, HwShown, ModeKnown, DefaultModeUsable

LEMMA NextInvariant == IInv /\ [Next]_vars => IInv'
  <1> SUFFICES ASSUME IInv, [Next]_vars PROVE IInv'
    OBVIOUS
  <1>1. CASE Start \/ InitOther \/ InitAgain
    BY <1>1 DEF Start, InitOther, InitAgain, IInv, Known, OneRefused, HwShown, ModeKnown,
       DrawColourShown, DefaultModeUsable, FirstModes, MaxColr, modes
  <1>2. CASE InitSupported
    BY <1>2, InitSupportedKeeps
  <1>3. CASE InitSet
    BY <1>3, InitSetKeeps
  <1>4. ASSUME NEW mode \in Modes, SetVideoMode(mode) PROVE IInv'
    BY <1>4, ChangeWhenReady DEF SetVideoMode, ready
  <1>5. CASE SetDefaultMode
    <2>1. startup_mode_num \in Modes
      BY <1>5, MachineAssumption DEF SetDefaultMode, SetVideoMode, ready, IInv, Known,
         DefaultModeUsable
    <2>2. QED
      BY <1>4, <1>5, <2>1 DEF SetDefaultMode
  <1>6. ASSUME NEW mode \in Modes, TextMode(mode) PROVE IInv'
    <2>1. CASE mode = mode_num
      BY <1>6, <2>1 DEF TextMode, ready, modes, IInv, Known, OneRefused, HwShown, ModeKnown,
         DrawColourShown, DefaultModeUsable, MaxColr
    <2>2. CASE mode # mode_num
      BY <1>6, <2>2, ChangeWhenReady DEF TextMode, ready
    <2>3. QED
      BY <2>1, <2>2
  <1>7. ASSUME NEW v \in Pixvals, SetColor(v) PROVE IInv'
    <2>1. v \in Nat /\ max_colr \in 0..255
      BY PixvalAssumption DEF IInv, Known
    <2>2. draw_colr' <= max_colr
      BY <1>7, <2>1 DEF SetColor
    <2>3. QED
      BY <1>7, <2>2, ColoursKeep DEF SetColor
  <1>8. CASE NormVideo \/ \E high \in {0, 8} : Video(high)
    BY <1>8, ColoursKeep DEF NormVideo, Video
  <1>9. ASSUME NEW v \in Pixvals,
               \/ SetTextColor(v) \/ SetBkColor(v) \/ TextAttr(v) \/ TextColor(v)
               \/ TextBackground(v)
        PROVE  IInv'
    BY <1>9, ColoursKeep DEF SetTextColor, SetBkColor, TextAttr, TextColor, TextBackground
  <1>10. CASE UNCHANGED vars
    BY <1>10 DEF vars, IInv, Known, OneRefused, HwShown, ModeKnown, DrawColourShown,
       DefaultModeUsable, MaxColr
  <1>11. QED
    BY <1>1, <1>2, <1>3, <1>4, <1>5, <1>6, <1>7, <1>8, <1>9, <1>10 DEF Next, StartUp, Call

THEOREM Invariant == Spec => []IInv
BY InitInvariant, NextInvariant, PTL DEF Spec

-----------------------------------------------------------------------------
(* Theorems.                                                               *)

\* Whatever mode changes the program asks for, and however they fail, the library's
\* mode number and dimensions are those of the mode on the screen.
THEOREM ModeAlwaysKnown == Spec => []ModeKnown
  <1>1. IInv => ModeKnown
    BY DEF IInv
  <1>2. QED
    BY <1>1, Invariant, PTL

\* In every graphics mode, the drawing colour is one that the mode can show.
THEOREM DrawColourAlwaysShown == Spec => []DrawColourShown
  <1>1. IInv => DrawColourShown
    BY DEF IInv
  <1>2. QED
    BY <1>1, Invariant, PTL

\* Once the program runs, _DEFAULTMODE is a mode that its adapter can show.
THEOREM DefaultModeAlwaysUsable == Spec => []DefaultModeUsable
  <1>1. IInv => DefaultModeUsable
    BY DEF IInv
  <1>2. QED
    BY <1>1, Invariant, PTL

-----------------------------------------------------------------------------
(* Text and background colours: three fields that share a byte.            *)

Byte == 0..255

Bytes == attribute \in Byte /\ norm_attr \in Byte /\ cell \in [ch : Byte, attr : Byte]

\* An attribute made of three fields has those fields.
LEMMA AttrFields ==
  ASSUME NEW b \in 0..1, NEW g \in 0..7, NEW f \in 0..15
  PROVE  /\ Attr(b, g, f) \in Byte
         /\ Foreground(Attr(b, g, f)) = f
         /\ Background(Attr(b, g, f)) = g
         /\ Blinking(Attr(b, g, f)) = b
  BY DEF Attr, Foreground, Background, Blinking, Byte

\* An attribute is made of its three fields.
LEMMA AttrOfFields ==
  ASSUME NEW a \in Byte
  PROVE  /\ Foreground(a) \in 0..15 /\ Background(a) \in 0..7 /\ Blinking(a) \in 0..1
         /\ Attr(Blinking(a), Background(a), Foreground(a)) = a
  BY DEF Attr, Foreground, Background, Blinking, Byte

LEMMA CgaColourIsNat == \A v \in Nat : CgaColour(v) \in Nat
BY DEF CgaColour

\* Setting a text colour keeps the background and leaves a byte.
LEMMA TextColouredFields ==
  ASSUME NEW a \in Byte, NEW v \in Nat
  PROVE  /\ TextColoured(a, v) \in Byte
         /\ ~graph_p => /\ Foreground(TextColoured(a, v)) = v % 16
                        /\ Background(TextColoured(a, v)) = Background(a)
                        /\ Blinking(TextColoured(a, v)) = (v \div 16) % 2
  <1>1. (v \div 16) % 2 \in 0..1 /\ v % 16 \in 0..15 /\ v % 256 \in Byte
    BY DEF Byte
  <1>2. QED
    BY <1>1, AttrFields, AttrOfFields DEF TextColoured

\* Setting a background colour keeps the text colour and leaves a byte.
LEMMA BackedFields ==
  ASSUME NEW a \in Byte, NEW v \in Nat
  PROVE  /\ Backed(a, v) \in Byte
         /\ Foreground(Backed(a, v)) = Foreground(a)
         /\ Background(Backed(a, v)) = CgaColour(v) % 8
         /\ Blinking(Backed(a, v)) = Blinking(a)
  <1>1. CgaColour(v) % 8 \in 0..7
    BY CgaColourIsNat
  <1>2. QED
    BY <1>1, AttrFields, AttrOfFields DEF Backed

\* Giving the old text colour back restores the attribute.
LEMMA TextColourGivenBack ==
  ASSUME NEW a \in Byte, NEW v \in Nat
  PROVE  TextColoured(TextColoured(a, v), TextColourOf(a)) = a
  <1>1. CASE graph_p
    BY <1>1 DEF TextColoured, TextColourOf, Byte
  <1>2. CASE ~graph_p
    <2> DEFINE old == Foreground(a) + 16 * Blinking(a)
    <2>1. Foreground(a) \in 0..15 /\ Blinking(a) \in 0..1
      BY AttrOfFields
    <2>2. old % 16 = Foreground(a) /\ (old \div 16) % 2 = Blinking(a)
      BY <2>1
    <2>3. Background(TextColoured(a, v)) = Background(a)
      BY <1>2, TextColouredFields
    <2>4. TextColoured(TextColoured(a, v), TextColourOf(a))
            = Attr(Blinking(a), Background(a), Foreground(a))
      BY <1>2, <2>2, <2>3 DEF TextColoured, TextColourOf
    <2>5. QED
      BY <2>4, AttrOfFields
  <1>3. QED
    BY <1>1, <1>2

\* Giving the old background colour back restores the attribute.
LEMMA BackgroundGivenBack ==
  ASSUME NEW a \in Byte, NEW v \in Nat
  PROVE  Backed(Backed(a, v), Background(a)) = a
  <1>1. Background(a) \in 0..7
    BY AttrOfFields
  <1>2. CgaColour(Background(a)) % 8 = Background(a)
    BY <1>1 DEF CgaColour
  <1>3. Blinking(Backed(a, v)) = Blinking(a) /\ Foreground(Backed(a, v)) = Foreground(a)
    BY BackedFields
  <1>4. Backed(Backed(a, v), Background(a)) = Attr(Blinking(a), Background(a), Foreground(a))
    BY <1>2, <1>3 DEF Backed
  <1>5. QED
    BY <1>4, AttrOfFields

\* In the byte, there is nothing but what the calls on colours can give back.
LEMMA BytesGiveBack == Bytes => ColourGivenBack
  <1> SUFFICES ASSUME Bytes, NEW v \in Pixvals
      PROVE  /\ TextColoured(TextColoured(attribute, v), TextColourOf(attribute)) = attribute
             /\ ~graph_p =>
                  /\ Backed(Backed(attribute, v), Background(attribute)) = attribute
                  /\ Background(TextColoured(attribute, v)) = Background(attribute)
                  /\ Foreground(Backed(attribute, v)) = Foreground(attribute)
                  /\ Blinking(Backed(attribute, v)) = Blinking(attribute)
    BY DEF ColourGivenBack
  <1>1. v \in Nat /\ attribute \in Byte
    BY PixvalAssumption DEF Bytes
  <1>2. QED
    BY <1>1, TextColourGivenBack, BackgroundGivenBack, TextColouredFields, BackedFields

\* A change of mode leaves bytes: the normal attribute is read from the screen.
LEMMA ChangeKeepsBytes ==
  ASSUME NEW mode, Change(mode), Bytes
  PROVE  norm_attr' \in Byte /\ cell' \in [ch : Byte, attr : Byte]
  <1>1. cell' \in [ch : Byte, attr : Byte]
    BY DEF Change, BiosSet, Bytes, Byte
  <1>2. norm_attr' \in Byte
    BY <1>1 DEF Change, ConModeChanged, modes, Bytes, Byte
  <1>3. QED
    BY <1>1, <1>2

LEMMA NextBytes == Bytes /\ [Next]_vars => Bytes'
  <1> SUFFICES ASSUME Bytes, [Next]_vars PROVE Bytes'
    OBVIOUS
  <1>1. CASE Start \/ InitOther \/ InitAgain
    BY <1>1 DEF Start, InitOther, InitAgain, Bytes, modes
  <1>2. CASE InitSupported
    BY <1>2 DEF InitSupported, ConModeChanged, Bytes, Byte
  <1>3. CASE InitSet
    BY <1>3, ChangeKeepsBytes DEF InitSet, Reset, Bytes, Byte
  <1>4. ASSUME NEW mode, SetVideoMode(mode) PROVE Bytes'
    BY <1>4, ChangeKeepsBytes DEF SetVideoMode, Reset, Bytes, Byte
  <1>5. ASSUME NEW mode, TextMode(mode) PROVE Bytes'
    BY <1>5, ChangeKeepsBytes DEF TextMode, Bytes, modes
  <1>6. ASSUME ready, screen, attribute' \in Byte PROVE Bytes'
    BY <1>6 DEF screen, Bytes
  <1>7. CASE NormVideo
    BY <1>6, <1>7 DEF NormVideo, Bytes
  <1>8. ASSUME NEW high \in {0, 8}, Video(high) PROVE Bytes'
    <2>1. (Foreground(attribute) % 8) + high \in 0..15
      BY AttrOfFields DEF Bytes
    <2>2. attribute' \in Byte
      BY <1>8, <2>1, AttrFields, AttrOfFields DEF Video, Bytes
    <2>3. QED
      BY <1>6, <1>8, <2>2 DEF Video
  <1>9. ASSUME NEW v \in Pixvals,
               \/ SetTextColor(v) \/ SetBkColor(v) \/ SetColor(v)
               \/ TextAttr(v) \/ TextColor(v) \/ TextBackground(v)
        PROVE  Bytes'
    <2>1. v \in Nat
      BY PixvalAssumption
    <2>2. /\ v % 256 \in Byte /\ v % 16 \in 0..15 /\ v % 8 \in 0..7
          /\ (v \div 128) % 2 \in 0..1
      BY <2>1 DEF Byte
    <2>3. attribute \in Byte
      BY DEF Bytes
    <2>4. CASE SetTextColor(v)
      BY <1>6, <2>1, <2>3, <2>4, TextColouredFields DEF SetTextColor
    <2>5. CASE SetBkColor(v)
      BY <1>6, <2>1, <2>3, <2>5, BackedFields DEF SetBkColor
    <2>6. CASE SetColor(v)
      BY <1>6, <2>3, <2>6 DEF SetColor
    <2>7. CASE TextAttr(v)
      BY <1>6, <2>2, <2>7 DEF TextAttr
    <2>8. CASE TextColor(v)
      BY <1>6, <2>2, <2>3, <2>8, AttrFields, AttrOfFields DEF TextColor
    <2>9. CASE TextBackground(v)
      BY <1>6, <2>2, <2>3, <2>9, AttrFields, AttrOfFields DEF TextBackground
    <2>10. QED
      BY <1>9, <2>4, <2>5, <2>6, <2>7, <2>8, <2>9
  <1>10. CASE UNCHANGED vars
    BY <1>10 DEF vars, Bytes
  <1>11. QED
    BY <1>1, <1>2, <1>3, <1>4, <1>5, <1>7, <1>8, <1>9, <1>10
    DEF Next, StartUp, Call, SetDefaultMode

\* Whatever colours and modes the program has set, a text or background colour that
\* a call returned restores the attribute when it is given back.
THEOREM ColourAlwaysGivenBack == Spec => []ColourGivenBack
  <1>1. Init => Bytes
    BY DEF Init, Bytes, Byte
  <1>2. QED
    BY <1>1, NextBytes, BytesGiveBack, PTL DEF Spec
=============================================================================
