---------------------------- MODULE MCTextScreen ----------------------------
(* Instances of TextScreen for TLC. *)
EXTENDS TextScreen

Out(h, text) == [how |-> h, text |-> text]

\* Output that wraps, scrolls, goes back to the margin and ends in a BEL or not;
\* one printable character is enough on a screen that may scroll by rows
TypingOutputs == {Out("outmem", <<"a", "a">>), Out("outtext", <<"a", LF, CR>>),
                  Out("bc", <<"a", BS, BEL, "a">>), Out("bc", <<BS, BEL>>)}

\* For the software cursor, it does not matter which characters are plotted;
\* _outmem plots control characters too
CursorOutputs == {Out("outmem", <<LF>>), Out("outtext", <<LF, BEL>>),
                  Out("bc", <<"a", CR, BEL>>), Out("bc", <<BEL, BS>>)}

OneScreen == {[c \in Cells |-> Blank]}
=============================================================================
