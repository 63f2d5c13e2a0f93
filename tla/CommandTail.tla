---------------------------- MODULE CommandTail ----------------------------
(***************************************************************************)
(* How direct_spawn lays out argv[1], argv[2], ... as a DOS command tail:  *)
(* what it quotes and how depends on whether the program is a DOS shell, a *)
(* Unix shell or another program.  One step for each use of the COPY       *)
(* macros, or of two in a row.                                             *)
(*                                                                         *)
(* Characters are those the code tells apart: "spc" (blank), "quo" (double *)
(* quote), "apos" (single quote), "bsl" (backslash), "pct" (percent),      *)
(* "redir" (less than, greater than and bar), "lead" (a DBCS lead byte),   *)
(* "chr" (any other).                                                      *)
(***************************************************************************)
EXTENDS Integers, Sequences

CONSTANTS Size,       \* sizeof argb
          Programs,   \* the kinds of program spawned
          ArgVectors  \* argv + 1

TailChars == {"spc", "quo", "apos", "bsl", "pct", "redir", "lead", "chr"}
Kinds == {"dos shell", "dos shell /c", "unix shell", "other"}
DosShells == {"dos shell", "dos shell /c"}

ASSUME TailAssumption == /\ Size \in Nat /\ Size > 1
                         /\ Programs \subseteq Kinds
                         /\ ArgVectors \subseteq Seq(Seq(TailChars))

VARIABLES program, argv,
          tail_pc,
          args,           \* the arguments to come
          arg,           \* what is left of the current argument
          tail,           \* argb from its second byte up to q
          tail_last_c_lead_p,
          outside_quote

tailVars == <<program, argv, tail_pc, args, arg, tail, tail_last_c_lead_p, outside_quote>>

dos_shell == program \in DosShells
HasOneOf(t, S) == \E i \in 1..Len(t) : t[i] \in S

\* "dos shell /c" is a DOS shell with _P_OPT_C_SPECIAL: the argument is quoted already
NeedsQuotes(t) ==
  CASE program = "dos shell /c" -> FALSE
    [] program = "dos shell"    -> t = <<>> \/ HasOneOf(t, {"spc", "redir", "apos", "quo", "pct"})
    [] OTHER                    -> t = <<>> \/ HasOneOf(t, {"spc"})

-----------------------------------------------------------------------------
(* The COPY macros.                                                        *)

q == 1 + Len(tail)

CopyFitsLate(n) == n <= Size /\ q <= Size - n
CopyFits(n) == n <= Size - 1 /\ q <= Size - 1 - n
Copy1Fits == q # Size - 1
Copy1TwiceFits == Copy1Fits /\ q + 1 # Size - 1
Copy2Fits == q # Size - 2
Copy3Fits == q # Size - 3

\* Copy out s and go on, or fail with E2BIG
Copy(s, fits, to) ==
  IF fits THEN tail' = tail \o s /\ tail_pc' = to
          ELSE tail_pc' = "E2BIG" /\ UNCHANGED tail

-----------------------------------------------------------------------------
TailInit == /\ program \in Programs /\ argv \in ArgVectors
            /\ tail_pc = "next" /\ args = argv /\ arg = <<>> /\ tail = <<>>
            /\ tail_last_c_lead_p = FALSE /\ outside_quote = TRUE

given == <<program, argv>>

Space == /\ tail_pc = "next" /\ args # <<>>
         /\ args' = Tail(args) /\ arg' = Head(args)
         /\ Copy(<<"spc">>, Copy1Fits, "begin")
         /\ UNCHANGED <<given, tail_last_c_lead_p, outside_quote>>

Verbatim == /\ tail_pc = "begin" /\ ~NeedsQuotes(arg)
            /\ arg' = <<>>
            /\ Copy(arg, CopyFits(Len(arg)), "next")
            /\ UNCHANGED <<given, args, tail_last_c_lead_p, outside_quote>>

OpenQuote == /\ tail_pc = "begin" /\ NeedsQuotes(arg)
             /\ tail_last_c_lead_p' = FALSE
             /\ outside_quote' = IF dos_shell THEN ~outside_quote ELSE outside_quote
             /\ Copy(<<"quo">>, Copy1Fits, "quoted")
             /\ UNCHANGED <<given, args, arg>>

CloseQuote == /\ tail_pc = "quoted" /\ arg = <<>>
              /\ outside_quote' = IF dos_shell THEN ~outside_quote ELSE outside_quote
              /\ Copy(<<"quo">>, Copy1Fits, "next")
              /\ UNCHANGED <<given, args, arg, tail_last_c_lead_p>>

\* The next character of a quoted argument, first or second byte
Reading(c) == tail_pc = "quoted" /\ arg # <<>> /\ Head(arg) = c /\ arg' = Tail(arg)
Plain(c) == Reading(c) /\ ~tail_last_c_lead_p /\ UNCHANGED <<given, args>>

ArgTrailByte(c) == /\ Reading(c) /\ tail_last_c_lead_p
                   /\ tail_last_c_lead_p' = FALSE
                   /\ Copy(<<c>>, Copy1Fits, tail_pc)
                   /\ UNCHANGED <<given, args, outside_quote>>

EscapeQuotesOnly(c) == IF c = "quo" THEN Copy(<<"bsl", c>>, Copy1TwiceFits, tail_pc)
                       ELSE Copy(<<c>>, Copy1Fits, tail_pc)
Escape(c) == Copy(<<"bsl", c>>, Copy1TwiceFits, tail_pc)

\* A character of an argument to a program that is not a DOS shell
Character(c) ==
  /\ Plain(c) /\ ~dos_shell
  /\ tail_last_c_lead_p' = (c = "lead")
  /\ IF c = "quo" \/ (c = "bsl" /\ program = "unix shell") THEN Escape(c)
     ELSE Copy(<<c>>, Copy1Fits, tail_pc)
  /\ UNCHANGED outside_quote

QuoteKept(c) == /\ Plain(c) /\ dos_shell /\ c = "quo"
                /\ Copy(<<"bsl", "quo">>, Copy2Fits, tail_pc)
                /\ UNCHANGED <<tail_last_c_lead_p, outside_quote>>

\* A DOS shell does not know the backslash: the quote switches its quoting
DosQuote(c) == /\ Plain(c) /\ dos_shell /\ c = "quo"
               /\ outside_quote' = ~outside_quote
               /\ Copy(<<"bsl", "quo">>, Copy2Fits, tail_pc)
               /\ UNCHANGED tail_last_c_lead_p

DosPercent(c) == /\ Plain(c) /\ dos_shell /\ c = "pct"
                 /\ Copy(<<"pct", "pct">>, Copy2Fits, tail_pc)
                 /\ UNCHANGED <<tail_last_c_lead_p, outside_quote>>

DosRedirect(c) == /\ Plain(c) /\ dos_shell /\ c = "redir"
                  /\ IF outside_quote THEN Copy(<<"quo", c, "quo">>, Copy3Fits, tail_pc)
                     ELSE Copy(<<c>>, Copy1Fits, tail_pc)
                  /\ UNCHANGED <<tail_last_c_lead_p, outside_quote>>

DosLeadIgnored(c) == /\ Plain(c) /\ dos_shell /\ c \notin {"quo", "pct", "redir"}
                     /\ Copy(<<c>>, Copy1Fits, tail_pc)
                     /\ UNCHANGED <<tail_last_c_lead_p, outside_quote>>
DosOther(c) == /\ Plain(c) /\ dos_shell /\ c \notin {"quo", "pct", "redir"}
               /\ tail_last_c_lead_p' = (c = "lead")
               /\ Copy(<<c>>, Copy1Fits, tail_pc)
               /\ UNCHANGED outside_quote

FinishTail == /\ tail_pc = "next" /\ args = <<>>
              /\ tail_pc' = "made"
              /\ UNCHANGED <<given, args, arg, tail, tail_last_c_lead_p, outside_quote>>

TailNext == \/ Space \/ Verbatim \/ OpenQuote \/ CloseQuote \/ FinishTail
            \/ \E c \in TailChars : \/ ArgTrailByte(c) \/ Character(c) \/ DosQuote(c)
                                    \/ DosPercent(c) \/ DosRedirect(c) \/ DosOther(c)

TailSpec == TailInit /\ [][TailNext]_tailVars

-----------------------------------------------------------------------------
(* Correctness.                                                            *)

TailTypeOK == /\ program \in Programs /\ argv \in Seq(Seq(TailChars))
              /\ tail_pc \in {"next", "begin", "quoted", "made", "E2BIG"}
              /\ args \in Seq(Seq(TailChars)) /\ arg \in Seq(TailChars) /\ tail \in Seq(TailChars)
              /\ tail_last_c_lead_p \in BOOLEAN /\ outside_quote \in BOOLEAN
              /\ (~dos_shell => outside_quote) /\ (tail_pc = "next" => arg = <<>>)

\* The tail, its length byte and the final carriage return fit in argb, for every
\* program but a DOS shell.
TailFits == ~dos_shell => q <= Size - 1

\* Whether the i-th byte of t is the second byte of a character, and whether a
\* quote is open before it
Trail(t) ==
  LET trail[i \in 0..Len(t)] == i > 1 /\ t[i - 1] = "lead" /\ ~trail[i - 1] IN trail
Quoted(t) ==
  LET quoted[i \in 0..Len(t)] ==
        IF i <= 1 THEN FALSE
        ELSE IF t[i - 1] = "quo" /\ ~Trail(t)[i - 1] THEN ~quoted[i - 1] ELSE quoted[i - 1]
  IN  quoted

\* A text in which every lead byte has its second byte
WellFormed(t) == \A i \in 1..Len(t) : t[i] = "lead" /\ ~Trail(t)[i] => i < Len(t)

\* A DOS shell sees no redirection or pipe in the arguments: each such character
\* of an argument is between quotes, whatever quotes came before it, in this
\* argument or another.
RedirQuoted ==
  program = "dos shell" =>
    \A i \in 1..Len(tail) : tail[i] = "redir" /\ ~Trail(tail)[i] => Quoted(tail)[i]

\* The double-byte characters in t, in order
Wide(t) ==
  LET wide[i \in 0..Len(t)] ==
        IF i = 0 THEN <<>>
        ELSE IF Trail(t)[i] THEN Append(wide[i - 1], t[i]) ELSE wide[i - 1]
  IN  wide[Len(t)]
Joined(v) == LET join[i \in 0..Len(v)] == IF i = 0 THEN <<>> ELSE join[i - 1] \o v[i]
             IN  join[Len(v)]

\* No quoting comes between the two bytes of a character, or changes the second.
WideKept == tail_pc = "made" => Wide(tail) = Wide(Joined(argv))

\* How a Unix shell splits a tail into words: quotes group, and a backslash in
\* quotes takes the next character as it is.
NoWords == [words |-> <<>>, word |-> <<>>, quoted |-> FALSE, escaped |-> FALSE, led |-> FALSE]
Taken(s, c) == [s EXCEPT !.word = Append(@, c), !.escaped = FALSE, !.led = FALSE]
SplitBy(s, c) ==
  IF s.led \/ s.escaped THEN Taken(s, c)
  ELSE IF c = "lead" THEN [Taken(s, c) EXCEPT !.led = TRUE]
  ELSE IF s.quoted
  THEN CASE c = "bsl" -> [s EXCEPT !.escaped = TRUE]
         [] c = "quo" -> [s EXCEPT !.quoted = FALSE, !.words = Append(@, s.word), !.word = <<>>]
         [] OTHER     -> Taken(s, c)
  ELSE CASE c = "quo" -> [s EXCEPT !.quoted = TRUE]
         [] c = "spc" -> s
         [] OTHER     -> Taken(s, c)
SplitWords(t) ==
  LET after[i \in 0..Len(t)] == IF i = 0 THEN NoWords ELSE SplitBy(after[i - 1], t[i])
  IN  after[Len(t)].words

\* A Unix shell gets back exactly the arguments, when they are of the kind that
\* is quoted: blanks, quotes, backslashes and empty arguments survive.
WordsRecovered ==
  tail_pc = "made" /\ program = "unix shell" /\ (\A i \in 1..Len(argv) : NeedsQuotes(argv[i]))
    => SplitWords(tail) = argv
=============================================================================
