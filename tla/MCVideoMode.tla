---------------------------- MODULE MCVideoMode ----------------------------
(* Instances of VideoMode for TLC: adapters of four kinds, both builds.     *)
EXTENDS VideoMode

Machine(b, k, ms, small, ss) == [build |-> b, kind |-> k, modes |-> ms, mem64 |-> small,
                                 starts |-> ss]

Mono == {"TEXTMONO"}
Cga  == {"TEXTC80"} \union CgaModes
Ega  == Cga \union EgaModes
Vga  == Ega \union {"MRES256COLOR"} \union SvgaModes

SixMachines ==
       {Machine("gcc", "MDPA", Mono, FALSE, Mono \union {"other"}),
        Machine("gcc", "CGA", Cga, FALSE, Cga \union {"other"}),
        Machine("gcc", "EGA", Ega, TRUE, Ega \union {"other"}),
        Machine("gcc", "EGA", Ega, FALSE, {"TEXTC80"}),
        Machine("gcc", "VGA", Vga, FALSE, {"TEXTC80", "other"}),
        Machine("ack", "VGA", Vga, FALSE, {"TEXTC80", "other"})}

\* The ACK build, started in a mode that the library does not know
AckElsewhere == {Machine("ack", "VGA", Vga, FALSE, {"TEXTC80", "other"})}

\* Text colours with and without blinking, in both interfaces, and an RGB red
FourColours == {1, 30, 142, 260}
OneColour == {1}
=============================================================================
