--------------------------- MODULE MCDefaultFcbs ---------------------------
(* Instances of DefaultFcbs for TLC.  A tail is empty, or each argument in   *)
(* it follows a blank; up to five characters before the carriage return.     *)
EXTENDS DefaultFcbs

ShortTails ==
  {<<"cr">>} \union
  {<<"sep">> \o t \o <<"cr">> : t \in UNION {[1..n -> FcbChars \ {"cr"}] : n \in 0..5}}
=============================================================================
