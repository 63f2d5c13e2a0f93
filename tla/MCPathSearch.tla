---------------------------- MODULE MCPathSearch ----------------------------
(* Instances of PathSearch for TLC: every path of up to five characters. *)
EXTENDS PathSearch

ShortPaths == UNION {[1..n -> {"bsl", "sla", "semi", "lead", "chr"}] : n \in 0..5}
DrivePaths == UNION {[1..n -> {"bsl", "semi", "col", "chr"}] : n \in 0..4}
FileName == <<"chr">>
=============================================================================
