----------------------------- MODULE MCFullPath -----------------------------
(* Instances of FullPath for TLC: paths of up to three components, and a network path. *)
EXTENDS FullPath

Components == {<<>>, <<"dot">>, <<"dot", "dot">>, <<"chr">>, <<"chr", "dot", "chr">>,
          <<"lead", "bsl">>, <<"chr", "chr", "chr", "dot">>, <<"dot", "chr">>}
Firsts == {<<>>, <<"dot", "dot">>, <<"chr">>}
Lasts == {<<"dot", "dot">>, <<"chr", "dot", "chr">>, <<"lead", "bsl">>}

ShortTexts == Components \union {<<"bsl", "bsl", "chr">>}
  \union {a \o <<"bsl">> \o b : a \in Firsts, b \in Components}
  \union {a \o <<"sla">> \o b \o <<"bsl">> \o c : a \in Firsts, b \in Components, c \in Lasts}
=============================================================================
