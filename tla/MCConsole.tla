----------------------------- MODULE MCConsole -----------------------------
(***************************************************************************)
(* The console in one run: a behaviour reads lines and passwords           *)
(* (LineInput), or finds the console's handles, reads and writes by them   *)
(* and gives the console back (ConsoleFds); the other part stays as it is. *)
(***************************************************************************)
EXTENDS MCLineInput, ConsoleFds

WrittenLines == UNION {[1..n -> {"c", "lf"}] : n \in 0..3}

VARIABLE subject

ReaderIdle == input = [n \in 1..3 |-> "cr"] /\ Init
HandlesIdle == /\ build = "gcc" /\ opens = TRUE /\ started = [f \in 0..1 |-> "con"]
               /\ mode = "cooked" /\ ConInit

ConsoleInit == \/ subject = "reader" /\ HandlesIdle /\ Init
               \/ subject = "handles" /\ ReaderIdle /\ ConInit

ConsoleNext == \/ subject = "reader" /\ Next /\ UNCHANGED <<subject, conVars>>
               \/ subject = "handles" /\ ConNext /\ UNCHANGED <<subject, vars>>

ConsoleSpec == ConsoleInit /\ [][ConsoleNext]_<<subject, vars, conVars>>
=============================================================================
