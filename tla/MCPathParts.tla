---------------------------- MODULE MCPathParts ----------------------------
(* Instances of PathParts for TLC. *)
EXTENDS PathParts

UpTo(S, n) == UNION {[1..k -> S] : k \in 0..n}

SmallWholes == UpTo({"bsl", "dot", "col", "lead", "let"}, 4)
               \union {<<"let", "col">> \o t : t \in UpTo({"sla", "dot", "lead", "let"}, 3)}
               \union {<<"dig", "col">> \o t : t \in UpTo({"bsl", "lead", "let"}, 2)}

SmallParts ==
  [drive : {<<>>, <<"let">>, <<"let", "col">>, <<"let", "let">>, <<"bsl">>, <<"dig", "col">>},
   dir : UpTo({"bsl", "sla", "let", "lead"}, 2)
         \union {<<"sla", "lead", "bsl">>, <<"sla", "lead", "bsl", "let">>,
                 <<"lead", "sla", "bsl">>,
                 <<"let", "col", "bsl">>, <<"let", "col", "lead", "bsl", "let">>},
   fname : UpTo({"let", "lead"}, 2), ext : UpTo({"dot", "lead", "bsl"}, 1) \union {<<"dot", "let">>}]
=============================================================================
