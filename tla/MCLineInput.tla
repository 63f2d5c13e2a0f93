---------------------------- MODULE MCLineInput ----------------------------
(* Instances of LineInput for TLC: everything a user may type in three keys. *)
EXTENDS LineInput

ThreeKeys == [1..3 -> Bytes]
=============================================================================
