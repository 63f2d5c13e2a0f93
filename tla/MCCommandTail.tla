--------------------------- MODULE MCCommandTail ---------------------------
(* Instances of CommandTail for TLC. *)
EXTENDS CommandTail

ArgTexts(S, n) == {t \in UNION {[1..k -> S] : k \in 0..n} : WellFormed(t)}

\* Two arguments: a short one and a longer one, in either order
TwoTexts(S, m, n) == {<<t, u>> : t \in ArgTexts(S, m), u \in ArgTexts(S, n)}
                     \union {<<t, u>> : t \in ArgTexts(S, n), u \in ArgTexts(S, m)}

ShellVectors == TwoTexts({"quo", "pct", "redir", "lead", "chr"}, 1, 4)
                \union TwoTexts({"spc", "quo", "redir", "lead"}, 2, 3)
WordVectors == TwoTexts({"spc", "quo", "bsl", "lead"}, 2, 4) \union {<<>>}
Vectors == ShellVectors \union WordVectors
=============================================================================
