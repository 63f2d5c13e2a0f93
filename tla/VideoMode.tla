----------------------------- MODULE VideoMode -----------------------------
(***************************************************************************)
(* Video modes: what __libi86_vid_state and __libi86_graph_state keep      *)
(* about the current mode, how it is found at start-up and replaced when   *)
(* the mode changes, and the colours of text, background and drawing.      *)
(*                                                                         *)
(* Modes that the code does not tell apart are represented by one of them. *)
(* An attribute is a byte: foreground (4 bits), background (3), blinking.  *)
(* A colour above 255 is an RGB triplet: 256 + i for one near CGA colour i.*)
(***************************************************************************)
EXTENDS Integers

FirstModes == {"TEXTC80", "TEXTMONO"} \* those that start-up tries
TextModes  == FirstModes \union {"SVTEXTC80X60"}
CgaModes   == {"HRESBW", "MRES4COLOR"}
EgaModes   == {"ERESNOCOLOR", "MRES16COLOR", "ERESCOLOR"}
SvgaModes  == {"SVTEXTC80X60", "SVRES16COLOR", "VRES256COLOR"}
GraphModes == CgaModes \union EgaModes
              \union {"MRES256COLOR", "SVRES16COLOR", "VRES256COLOR"}
Modes      == TextModes \union GraphModes

CONSTANTS Machines, \* [build, kind, modes, mem64, starts]: the build of the library,
                    \* the display adapter, the modes it can show, whether it has
                    \* only 64 KiB, and the modes it may be in at start-up
          Pixvals   \* the colours that the program asks for

Kinds == {"MDPA", "CGA", "EGA", "VGA"}

\* Every adapter can show one of the two first text modes
ASSUME MachineAssumption ==
  \A m \in Machines : /\ m.build \in {"gcc", "ack"} /\ m.kind \in Kinds
                      /\ m.modes \subseteq Modes /\ m.modes \intersect FirstModes # {}
                      /\ m.mem64 \in BOOLEAN
                      /\ m.starts \subseteq m.modes \union {"other"}
ASSUME PixvalAssumption == Pixvals \subseteq Nat

VARIABLES machine,
          hw,                 \* the mode the adapter is in, or "other"
          cell,               \* what is under the cursor: [ch, attr]
          pc,                 \* "start", then through "init" to "ready"
          mode_num, startup_mode_num,
          dims,               \* the mode that max_x, max_y and the window are of
          adapter, graph_p, bk_colr, attribute, norm_attr,
          max_colr, draw_colr,
          strayed             \* the BIOS entered another mode than it was told to

vars == <<machine, hw, cell, pc, mode_num, startup_mode_num, dims, adapter, graph_p,
          bk_colr, attribute, norm_attr, max_colr, draw_colr, strayed>>

modes == <<mode_num, dims, adapter, graph_p, norm_attr, bk_colr, max_colr, draw_colr>>

Init == /\ machine \in Machines
        /\ hw \in machine.starts
        /\ cell \in [ch : {32}, attr : {7, 23}]
        /\ pc = "start" /\ mode_num = "none" /\ startup_mode_num = "none" /\ dims = "none"
        /\ adapter = "none" /\ graph_p = FALSE /\ bk_colr = 0 /\ attribute = 0
        /\ norm_attr = 7 /\ max_colr = 0 /\ draw_colr = 0 /\ strayed = FALSE

-----------------------------------------------------------------------------
(* A mode change.                                                          *)

\* __libi86_vid_get_adapter
Adapter(mode) == IF mode \in SvgaModes THEN "SVGA"
                 ELSE IF machine.kind = "VGA" THEN "VGA"
                 ELSE IF mode \in EgaModes \/ machine.kind = "EGA" THEN "EGA"
                 ELSE IF mode \in CgaModes THEN "CGA"
                 ELSE "MDPA"

\* __libi86_vid_get_bk_colr, with the palette as a mode change leaves it
BkColr(a) == IF a \in {"VGA", "SVGA"} THEN 256 ELSE 0

\* __libi86_graph_mode_changed
MaxColr(mode) == IF mode \in {"HRESBW", "ERESNOCOLOR"} THEN 1
                 ELSE IF mode = "MRES4COLOR" \/ (mode = "ERESCOLOR" /\ machine.mem64) THEN 3
                 ELSE IF mode \in EgaModes \union {"SVRES16COLOR"} THEN 15
                 ELSE 255

DrawKept(mode) == max_colr' = MaxColr(mode) /\ UNCHANGED draw_colr
DrawReset(mode) == max_colr' = MaxColr(mode) /\ draw_colr' = max_colr'

\* __libi86_con_mode_changed, but for the attribute: the BIOS has entered hw'.
\* The ACK build takes the character under the cursor for its attribute.
ConModeChanged(mode) ==
  /\ mode_num' = mode /\ dims' = hw'
  /\ adapter' = Adapter(mode)
  /\ graph_p' = (mode \notin TextModes)
  /\ IF graph_p' THEN bk_colr' = BkColr(adapter') /\ DrawReset(mode)
     ELSE UNCHANGED <<bk_colr, max_colr, draw_colr>>
  /\ norm_attr' = IF graph_p' THEN 7
                  ELSE IF machine.build = "gcc" THEN cell'.attr ELSE cell'.ch

\* The BIOS is told to enter a mode: it does, or stays where it is; an old one
\* may also end up elsewhere
BiosSet(mode) ==
  \/ /\ mode \in machine.modes /\ hw' = mode /\ strayed' = FALSE
     /\ cell' = [ch |-> 32, attr |-> 7]
  \/ mode \notin machine.modes /\ UNCHANGED <<hw, cell, strayed>>
  \/ /\ mode \notin machine.modes \union SvgaModes
     /\ hw' = "other" /\ strayed' = TRUE /\ UNCHANGED cell

\* Whether the mode was entered, by what the BIOS says afterwards
EnteredUnchecked(mode) == mode \notin SvgaModes \/ hw' = mode
Entered(mode) == hw' = mode

\* _setvideomode, once the state is initialized; a change resets the attribute to 7
Change(mode) == BiosSet(mode) /\ IF Entered(mode) THEN ConModeChanged(mode) ELSE UNCHANGED modes
Reset(mode) == IF Entered(mode) THEN 7 ELSE attribute

-----------------------------------------------------------------------------
(* Start-up: __libi86_vid_state_init.                                      *)

\* The GCC build initializes the state before main, the ACK build on first use
Start == /\ pc = "start" /\ pc' = "init"
         /\ UNCHANGED <<machine, hw, cell, startup_mode_num, modes, attribute, strayed>>

InitSupported ==
  /\ pc = "init" /\ hw \in Modes
  /\ UNCHANGED <<machine, hw, cell, strayed>>
  /\ ConModeChanged(hw) /\ attribute' = 7
  /\ startup_mode_num' = mode_num' /\ pc' = "ready"

InitOther == /\ pc = "init" /\ hw \notin Modes
             /\ pc' = "TEXTC80"
             /\ UNCHANGED <<machine, hw, cell, startup_mode_num, modes, attribute, strayed>>

\* In the ACK build, _setvideomode first initializes the state in its turn
InitAgain == /\ pc \in FirstModes /\ machine.build = "ack"
             /\ pc' = "init"
             /\ UNCHANGED <<machine, hw, cell, startup_mode_num, modes, attribute, strayed>>

InitSetOnce == /\ pc \in FirstModes /\ machine.build = "gcc"
               /\ Change(pc) /\ attribute' = Reset(pc)
               /\ pc' = "ready" /\ startup_mode_num' = mode_num'
               /\ UNCHANGED machine
InitSetRetried == /\ pc \in FirstModes /\ machine.build = "gcc"
                  /\ Change(pc) /\ attribute' = Reset(pc)
                  /\ IF ~Entered(pc) THEN UNCHANGED <<pc, startup_mode_num>>
                     ELSE pc' = "ready" /\ startup_mode_num' = mode_num'
                  /\ UNCHANGED machine
InitSet == /\ pc \in FirstModes /\ machine.build = "gcc"
           /\ Change(pc) /\ attribute' = Reset(pc)
           /\ IF pc = "TEXTC80" /\ ~Entered(pc)
              THEN pc' = "TEXTMONO" /\ UNCHANGED startup_mode_num
              ELSE pc' = "ready" /\ startup_mode_num' = mode_num'
           /\ UNCHANGED machine

StartUp == Start \/ InitSupported \/ InitOther \/ InitAgain \/ InitSet

-----------------------------------------------------------------------------
(* The calls.                                                              *)

ready == pc = "ready" /\ UNCHANGED <<machine, pc, startup_mode_num>>

SetVideoMode(mode) == ready /\ Change(mode) /\ attribute' = Reset(mode)

\* _setvideomode (_DEFAULTMODE)
SetDefaultMode == SetVideoMode(startup_mode_num)

\* textmode of the Borland-like <conio.h>: in any case, normvideo
TextMode(mode) ==
  /\ ready
  /\ IF mode = mode_num THEN UNCHANGED <<hw, cell, modes, strayed>> ELSE Change(mode)
  /\ attribute' = norm_attr'

screen == UNCHANGED <<hw, cell, mode_num, dims, adapter, graph_p, norm_attr, strayed>>

Foreground(a) == a % 16
Background(a) == (a \div 16) % 8
Blinking(a) == a \div 128
Attr(blink, bg, fg) == 128 * blink + 16 * bg + fg

\* _settextcolor, whose colours blink from 16 up, and what it returns
TextColoured(a, v) == IF graph_p THEN v % 256
                      ELSE Attr((v \div 16) % 2, Background(a), v % 16)
TextColourSteady(a) == IF graph_p THEN a ELSE Foreground(a)
TextColourOf(a) == IF graph_p THEN a ELSE Foreground(a) + 16 * Blinking(a)

\* _setbkcolor in text modes, and what it returns
CgaColour(v) == IF v > 255 THEN v - 256 ELSE v
Backed(a, v) == Attr(Blinking(a), CgaColour(v) % 8, Foreground(a))

SetTextColor(v) == /\ ready /\ screen /\ attribute' = TextColoured(attribute, v)
                   /\ UNCHANGED <<bk_colr, max_colr, draw_colr>>

\* A CGA and the text modes take the CGA colour for an RGB triplet; adapters with a
\* palette keep the triplet; a plain monochrome adapter refuses all colours
SetBkColor(v) ==
  /\ ready /\ screen /\ UNCHANGED <<max_colr, draw_colr>>
  /\ IF ~graph_p THEN attribute' = Backed(attribute, v) /\ bk_colr' = CgaColour(v)
     ELSE /\ UNCHANGED attribute
          /\ bk_colr' = CASE adapter = "MDPA"          -> bk_colr
                          [] adapter = "CGA"           -> CgaColour(v)
                          [] OTHER                     -> v

\* _setcolor
SetColor(v) == /\ ready /\ screen /\ graph_p
               /\ draw_colr' = v % (max_colr + 1)
               /\ UNCHANGED <<bk_colr, attribute, max_colr>>

\* The Borland-like calls
TextAttr(v) == ready /\ screen /\ attribute' = v % 256
               /\ UNCHANGED <<bk_colr, max_colr, draw_colr>>
TextColor(v) ==
  /\ ready /\ screen /\ UNCHANGED <<bk_colr, max_colr, draw_colr>>
  /\ attribute' = IF graph_p THEN v % 256
                  ELSE Attr((v \div 128) % 2, Background(attribute), v % 16)
TextBackground(v) ==
  /\ ready /\ screen /\ ~graph_p /\ UNCHANGED <<bk_colr, max_colr, draw_colr>>
  /\ attribute' = Attr(Blinking(attribute), v % 8, Foreground(attribute))
Video(high) ==
  /\ ready /\ screen /\ ~graph_p /\ UNCHANGED <<bk_colr, max_colr, draw_colr>>
  /\ attribute' = Attr(Blinking(attribute), Background(attribute),
                       (Foreground(attribute) % 8) + high)
NormVideo == /\ ready /\ screen /\ UNCHANGED <<bk_colr, max_colr, draw_colr>>
             /\ attribute' = norm_attr

Call == \/ \E mode \in Modes : SetVideoMode(mode) \/ TextMode(mode)
        \/ SetDefaultMode \/ NormVideo
        \/ \E v \in Pixvals : \/ SetTextColor(v) \/ SetBkColor(v) \/ SetColor(v)
                              \/ TextAttr(v) \/ TextColor(v) \/ TextBackground(v)
        \/ \E high \in {0, 8} : Video(high)

Next == StartUp \/ Call

\* Start-up code runs by itself; the program calls when it likes
Spec == Init /\ [][Next]_vars /\ WF_vars(StartUp)

-----------------------------------------------------------------------------
(* Properties                                                              *)

\* The type invariant of the state in libi86-vid-state.c and libi86-graph-state.c.
TypeOK == /\ machine \in Machines /\ hw \in machine.modes \union {"other"}
          /\ cell \in [ch : 0..255, attr : 0..255]
          /\ pc \in {"start", "init", "ready"} \union FirstModes
          /\ {mode_num, startup_mode_num, dims} \subseteq Modes \union {"none"}
          /\ pc = "ready" => {mode_num, dims} \subseteq Modes
          /\ adapter \in Kinds \union {"SVGA", "none"} /\ graph_p \in BOOLEAN
          /\ attribute \in 0..255 /\ norm_attr \in 0..255 /\ bk_colr \in Nat
          /\ max_colr \in 0..255 /\ draw_colr \in 0..255 /\ strayed \in BOOLEAN

\* After any sequence of mode changes, failed ones among them, the library's mode
\* number and dimensions are those of the mode on the screen, except from a failed
\* change in which the BIOS left the old mode until the next one that succeeds.
ModeKnown == pc = "ready" /\ ~strayed => mode_num = hw /\ dims = hw

\* A drawing colour can be shown in the mode it is used in: a colour of a mode with
\* more colours does not outlive it, and _setcolor masks with the mode's own maximum.
DrawColourShown ==
  pc = "ready" /\ mode_num \in GraphModes => /\ graph_p /\ max_colr = MaxColr(mode_num)
                                             /\ draw_colr <= max_colr

\* The program can always go back to where it started: _DEFAULTMODE is a mode that
\* the adapter can show, also when start-up had to leave an unsupported mode.
DefaultModeUsable == pc = "ready" => startup_mode_num \in machine.modes

\* A program that sets a text or background colour and then gives back what the
\* call returned has its old attribute again, blinking included, although the three
\* share a byte; meanwhile each call leaves the others' bits alone.
ColourGivenBack ==
  pc = "ready" => \A v \in Pixvals :
    /\ TextColoured(TextColoured(attribute, v), TextColourOf(attribute)) = attribute
    /\ ~graph_p => /\ Backed(Backed(attribute, v), Background(attribute)) = attribute
                   /\ Background(TextColoured(attribute, v)) = Background(attribute)
                   /\ Foreground(Backed(attribute, v)) = Foreground(attribute)
                   /\ Blinking(Backed(attribute, v)) = Blinking(attribute)

\* Start-up comes to an end, whatever mode the program was started in: "If the video
\* mode is not a supported mode, then switch to one that is".
InitEnds == pc = "init" ~> pc = "ready"

\* In the GCC build start-up comes to an end, on an adapter without colour too,
\* which refuses the first mode that start-up tries.
GccInitEnds == machine.build = "gcc" /\ pc = "init" ~> pc = "ready"
=============================================================================
