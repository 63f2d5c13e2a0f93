------------------------------ MODULE FullPath ------------------------------
(***************************************************************************)
(* _fullpath of the ACK build: an absolute path is put together in a       *)
(* buffer of the caller's size, one component after the other, with a      *)
(* stack of where the components begin for ".." to go back to.             *)
(*                                                                         *)
(* Characters are those the code tells apart: "bsl" and "sla" (the path    *)
(* separators), "dot", "lead" (a DBCS lead byte) and "chr" (any other);    *)
(* in the result, "drv" and "col" are the drive letter and its colon.      *)
(* The GCC build leaves the path to realpath, and only fits the result.     *)
(***************************************************************************)
EXTENDS Integers, Sequences

CONSTANTS OutMax,  \* _MAX_PATH
          MaxCwd,   \* the longest working directory DOS gives, without "D:\"
          NameMax, ExtMax, \* what fits in an FCB: 8 and 3
          Texts,    \* what follows the drive specifier, if any, in the path
          Sizes     \* sizes of the caller's buffer

FpChars == {"bsl", "sla", "dot", "lead", "chr"}
FpSeparators == {"bsl", "sla"}
Trails == {"bsl", "lead", "chr"} \* the second byte of a character

ASSUME FullPathAssumption == /\ OutMax \in Nat /\ MaxCwd \in Nat /\ MaxCwd + 4 <= OutMax
                             /\ NameMax \in Nat \ {0} /\ ExtMax \in Nat \ {0}
                             /\ Texts \subseteq Seq(FpChars) /\ Sizes \subseteq Nat

VARIABLES text, drive,     \* the path; whether it has a drive specifier
          size, block,     \* the buffer's size, and whose it is
          fp_pc,
          i,               \* the next character of text
          out,             \* out_path up to j
          comp_start,      \* the position after each component, a sequence
          base             \* out_path when the loop over the path began

fpVars == <<text, drive, size, block, fp_pc, i, out, comp_start, base>>

\* A null or empty path stands for "."
FpInit == /\ text \in Texts /\ drive \in {"none", "good", "bad"}
          /\ drive = "none" => text # <<>>
          /\ size \in Sizes /\ block \in {"caller", "null"}
          /\ fp_pc \in {"start", "gcc"} /\ i = 1 /\ out = <<>> /\ comp_start = <<>> /\ base = <<>>

request == <<text, drive>>
buffer == <<out, comp_start, base>>

n_comps == Len(comp_start)
Top == comp_start[n_comps]

\* goto bail, or invalid: a buffer that is not the caller's is freed
Bail(error) == /\ fp_pc' = error
               /\ block' = IF block = "ours" THEN "freed" ELSE block
               /\ UNCHANGED <<request, size, i, buffer>>

TooSmall == fp_pc = "start" /\ size < 2 /\ Bail("ENAMETOOLONG")

NoMemory == fp_pc = "start" /\ size >= 2 /\ block = "null" /\ Bail("ENOMEM")

\* The GCC build's _fullpath; realpath may make a block of its own
Realpath(n) ==
  /\ fp_pc = "gcc" /\ n \in 3..OutMax - 1
  /\ IF block = "null" \/ n < size
     THEN /\ fp_pc' = "realpath" /\ out' = [k \in 1..n |-> "chr"]
          /\ block' = IF block = "null" THEN "ours" ELSE block
          /\ size' = IF block = "null" THEN OutMax ELSE size
     ELSE fp_pc' = "ENAMETOOLONG" /\ UNCHANGED <<out, size, block>>
  /\ UNCHANGED <<request, i, comp_start, base>>

RealpathFails == fp_pc = "gcc" /\ Bail("realpath failed")

Prepare == /\ fp_pc = "start" /\ size >= 2 /\ fp_pc' = "drive"
           /\ size' = IF size > OutMax \/ block = "null" THEN OutMax ELSE size
           /\ block' = IF block = "null" THEN "ours" ELSE block
           /\ UNCHANGED <<request, i, buffer>>

-----------------------------------------------------------------------------
(* The drive, and the directory to start from.                             *)

IsNetwork == drive = "none" /\ Len(text) >= 2 /\ text[1] = "bsl" /\ text[2] = "bsl"
IsRooted == text # <<>> /\ text[1] \in FpSeparators

\* DOS's truename makes the whole result, n characters and a null
Truename(n) == /\ fp_pc = "drive" /\ IsNetwork /\ out' = [k \in 1..n |-> "chr"]
               /\ UNCHANGED <<request, size, block, i, comp_start, base>>

Network(n) == Truename(n) /\ size >= OutMax /\ fp_pc' = "truename"

\* For a buffer shorter than _MAX_PATH a local one should take the result, but it is
\* passed as the path: whatever was in it, if DOS takes it for a path, is made
\* absolute in the caller's buffer
NetworkStrays(n) == Truename(n) /\ size < OutMax /\ fp_pc' = "strays"

\* ... and then n characters and a null of the local buffer are copied over that, or
\* the local buffer, which may hold no null at all, is found too long
StrayCopied(n) == /\ fp_pc = "strays" /\ n <= size
                  /\ fp_pc' = "copied" /\ out' = [k \in 1..n |-> "chr"]
                  /\ UNCHANGED <<request, size, block, i, comp_start, base>>

StrayTooLong == fp_pc = "strays" /\ Bail("ENAMETOOLONG, too late")

NetworkFails == fp_pc = "drive" /\ IsNetwork /\ Bail("truename failed")

BadDrive == fp_pc = "drive" /\ drive = "bad" /\ Bail("EINVAL")

Begin(prefix, from) == /\ fp_pc = "drive" /\ ~IsNetwork /\ drive # "bad"
                       /\ out' = prefix /\ comp_start' = <<Len(prefix)>> /\ i' = from
                       /\ UNCHANGED <<request, size, block>>

Rooted == /\ Begin(<<"drv", "col", "bsl">>, 2) /\ IsRooted
          /\ fp_pc' = "loop" /\ base' = out'

\* _getdcwd fails: the drive is not there, or its directory does not fit
NoCwd == /\ Begin(<<"drv", "col">>, 1) /\ ~IsRooted
         /\ fp_pc' = "loop" /\ base' = out'

\* _getdcwd has put the directory, which fits with its null, in out_path; the
\* code looks for the separators in it
Cwd == /\ Begin(<<"drv", "col", "bsl">>, 1) /\ ~IsRooted /\ size >= 4
       /\ fp_pc' = "cwd" /\ UNCHANGED base

CwdMore(cs) == /\ fp_pc = "cwd" /\ Len(out) + Len(cs) < size /\ Len(out) + Len(cs) <= MaxCwd + 3
               /\ out' = out \o cs
               /\ UNCHANGED <<request, size, block, fp_pc, i, base>>

CwdDouble(t) == CwdMore(<<"lead", t>>) /\ UNCHANGED comp_start
CwdSingle == CwdMore(<<"chr">>) /\ UNCHANGED comp_start

\* DOS gives neither an empty component nor, but for the root, a last separator
CwdSeparator == /\ CwdMore(<<"bsl">>) /\ Top # Len(out) /\ Len(out) + 2 < size
                /\ comp_start' = Append(comp_start, Len(out'))

CwdEnd == /\ fp_pc = "cwd" /\ (Top = Len(out) => Len(out) = 3)
          /\ IF Top # Len(out)
             THEN /\ out' = Append(out, "bsl")
                  /\ comp_start' = Append(comp_start, Len(out'))
             ELSE UNCHANGED <<out, comp_start>>
          /\ fp_pc' = "loop" /\ base' = out'
          /\ UNCHANGED <<request, size, block, i>>

-----------------------------------------------------------------------------
(* The components of the path.                                             *)

\* Whether the j-th byte of t is the second of a character, from k on
TrailByte(t, k) ==
  LET trail[j \in k..Len(t)] == j > k /\ ~trail[j - 1] /\ t[j - 1] = "lead"
  IN  trail

\* __libi86_msdos_dbcs_strcspn: the end of the component that begins at k
EndByteWise(t, k) ==
  CHOOSE j \in k..Len(t) + 1 :
    /\ j <= Len(t) => t[j] \in FpSeparators
    /\ \A l \in k..j - 1 : t[l] \notin FpSeparators
EndOf(t, k) ==
  LET trail == TrailByte(t, k)
      stops(j) == t[j] \in FpSeparators /\ ~trail[j]
  IN  CHOOSE j \in k..Len(t) + 1 :
        (j <= Len(t) => stops(j)) /\ \A l \in k..j - 1 : ~stops(l)

Component == SubSeq(text, i, EndOf(text, i) - 1)
InLoop == fp_pc = "loop" /\ i <= Len(text)

Skip == /\ InLoop /\ Component \in {<<>>, <<"dot">>}
        /\ i' = i + 1 /\ UNCHANGED <<request, size, block, fp_pc, buffer>>

IsUp == InLoop /\ Component = <<"dot", "dot">>
NextComponent == i' = i + Len(Component) /\ UNCHANGED <<request, size, block, fp_pc, base>>

\* j = comp_start[n_comps - 2]
Up == /\ IsUp /\ n_comps > 1 /\ NextComponent
      /\ out' = SubSeq(out, 1, comp_start[n_comps - 1])
      /\ comp_start' = SubSeq(comp_start, 1, n_comps - 1)

FitsTight(j, cs) == j + Len(cs) <= size + 1
\* COPY and COPY1 together: cs fits, with room for a null
Fits(j, cs) == j + Len(cs) < size

UpTop == /\ IsUp /\ n_comps = 1 /\ Fits(Top, <<"dot", "dot", "bsl">>) /\ NextComponent
         /\ out' = SubSeq(out, 1, Top) \o <<"dot", "dot", "bsl">>
         /\ comp_start' = <<Top + 3>>

UpTopTooLong == /\ IsUp /\ n_comps = 1 /\ ~Fits(Top, <<"dot", "dot", "bsl">>)
                /\ Bail("ENAMETOOLONG")

Cut(s, n) == IF Len(s) <= n THEN s ELSE SubSeq(s, 1, n)

\* _parsfnm: the component taken apart as DOS does, unless it stops before its end
Dots(c) == {d \in 1..Len(c) : c[d] = "dot"}
Parsed(c) == Dots(c) = {} \/ \E d \in Dots(c) : Dots(c) = {d} /\ d > 1

\* The component as DOS would have it in a directory, and the separator after it
Entry(c) ==
  IF Dots(c) = {} THEN Append(Cut(c, NameMax), "bsl")
  ELSE LET d == CHOOSE x \in Dots(c) : TRUE
           ext == Cut(SubSeq(c, d + 1, Len(c)), ExtMax)
       IN  Cut(SubSeq(c, 1, d - 1), NameMax)
             \o (IF ext = <<>> THEN <<>> ELSE <<"dot">> \o ext) \o <<"bsl">>

IsName == InLoop /\ Component \notin {<<>>, <<"dot">>, <<"dot", "dot">>}

BadName == IsName /\ ~Parsed(Component) /\ Bail("EINVAL")

AddName == /\ IsName /\ Parsed(Component) /\ Fits(Len(out), Entry(Component)) /\ NextComponent
           /\ out' = out \o Entry(Component)
           /\ comp_start' = Append(comp_start, Len(out'))

EntryTooLong == /\ IsName /\ Parsed(Component) /\ ~Fits(Len(out), Entry(Component))
                /\ Bail("ENAMETOOLONG")

\* The last separator goes, unless it is that of the root
Finish == /\ fp_pc = "loop" /\ i > Len(text)
          /\ fp_pc' = "done"
          /\ out' = IF Len(out) > 3 THEN SubSeq(out, 1, Len(out) - 1) ELSE out
          /\ UNCHANGED <<request, size, block, i, comp_start, base>>

FpNext == \/ (\E n \in 3..OutMax - 1 : Realpath(n)) \/ RealpathFails
          \/ TooSmall \/ NoMemory \/ Prepare
          \/ (\E n \in 3..OutMax - 1 : Network(n) \/ NetworkStrays(n))
          \/ (\E n \in 0..OutMax : StrayCopied(n)) \/ StrayTooLong
          \/ NetworkFails \/ BadDrive \/ Rooted \/ NoCwd
          \/ Cwd \/ CwdSingle \/ (\E t \in Trails : CwdDouble(t)) \/ CwdSeparator \/ CwdEnd
          \/ Skip \/ Up \/ UpTop \/ UpTopTooLong
          \/ BadName \/ AddName \/ EntryTooLong
          \/ Finish

FpSpec == FpInit /\ [][FpNext]_fpVars

-----------------------------------------------------------------------------
(* Correctness.                                                            *)

Errors == {"ENAMETOOLONG", "ENAMETOOLONG, too late", "ENOMEM", "EINVAL", "truename failed",
           "realpath failed"}

FpTypeOK == /\ text \in Texts /\ drive \in {"none", "good", "bad"}
            /\ size \in Nat /\ block \in {"caller", "null", "ours", "freed"}
            /\ fp_pc \in {"start", "gcc", "drive", "cwd", "loop", "done", "truename",
                        "strays", "copied", "realpath"}
                    \union Errors
            /\ i \in Nat \ {0}
            /\ out \in Seq(FpChars \union {"drv", "col"})
            /\ base \in Seq(FpChars \union {"drv", "col"})
            /\ comp_start \in Seq(Nat)

\* The calls that the swapped arguments of truename send past the buffer
Strayed == fp_pc \in {"strays", "copied", "ENAMETOOLONG, too late"}

\* The path never grows past the buffer, and what is returned leaves room for
\* its null, although only the later components are tested for size.  Two kinds of
\* call are known to break this.  A buffer of 2 or 3 bytes is too small for "D:\",
\* which is stored without a test; and a network path may be written past the end
\* of a buffer of the caller's that is shorter than _MAX_PATH, but of no other.
WithinBuffer == /\ Strayed => IsNetwork /\ size < OutMax /\ block = "caller"
                /\ size >= 4 /\ ~Strayed =>
                     /\ Len(out) <= size
                     /\ fp_pc \in {"done", "truename", "realpath"} => Len(out) < size

\* There is room for all the starting positions, in an array of _MAX_PATH / 2;
\* each is within what is written, so that going back to one uncovers nothing
\* that was never stored, and each component begins after the one before it.
StackFits == /\ size >= 4 => 2 * n_comps <= OutMax
             /\ \A k \in 1..n_comps :
                  /\ comp_start[k] <= Len(out) + 1
                  /\ \A l \in 1..k - 1 : comp_start[l] < comp_start[k]

\* A call that fails gives nothing back: it leaves no block of memory behind.
NoBlockLost == fp_pc \in Errors => block # "ours"

\* What a call must never do: write past the buffer, but for the two kinds of call
\* WithinBuffer leaves out, write past the array of positions, or lose the memory
\* it took, whatever path it is given.
FpSafe == WithinBuffer /\ StackFits /\ NoBlockLost

\* What a reader of double-byte characters has of a path: the components before,
\* the one it is in, and whether a character is half read
NoneRead == [names |-> <<>>, open |-> <<>>, half |-> FALSE]
Closed(r) == IF r.open = <<>> THEN r.names ELSE Append(r.names, r.open)
ReadBy(r, c) == IF c \in FpSeparators /\ ~r.half
                THEN [names |-> Closed(r), open |-> <<>>, half |-> FALSE]
                ELSE [r EXCEPT !.open = Append(@, c), !.half = ~@ /\ c = "lead"]

\* The components of t
Split(t) ==
  LET read[k \in 0..Len(t)] == IF k = 0 THEN NoneRead ELSE ReadBy(read[k - 1], t[k])
  IN  Closed(read[Len(t)])

\* The names that cs leads to from names; above: what cannot go up any more
WalkBy(w, c) ==
  CASE c = <<"dot">> -> w
    [] c = <<"dot", "dot">> /\ w.names = <<>> -> [w EXCEPT !.above = @ + 1]
    [] c = <<"dot", "dot">> /\ w.names # <<>> -> [w EXCEPT !.names = SubSeq(@, 1, Len(@) - 1)]
    [] c \notin {<<"dot">>, <<"dot", "dot">>} -> [w EXCEPT !.names = Append(@, Entry(c))]
Walk(names, cs) ==
  LET walk[k \in 0..Len(cs)] ==
        IF k = 0 THEN [above |-> 0, names |-> names] ELSE WalkBy(walk[k - 1], cs[k])
  IN  walk[Len(cs)]

Ups(n) == [k \in 1..3 * n |-> IF k % 3 = 0 THEN "bsl" ELSE "dot"]
Chain(names) ==
  LET chain[k \in 0..Len(names)] == IF k = 0 THEN <<>> ELSE chain[k - 1] \o names[k]
  IN  chain[Len(names)]

\* Where in base the first component begins
RootLen == IF Len(base) > 2 THEN 3 ELSE 2

\* The names in base, each with its separator
GivenNames == LET from == Split(SubSeq(base, RootLen + 1, Len(base)))
              IN  [k \in 1..Len(from) |-> Append(from[k], "bsl")]

Absolute ==
  LET w == Walk(GivenNames, Split(text))
      all == SubSeq(base, 1, RootLen) \o Ups(w.above) \o Chain(w.names)
  IN  IF Len(all) > 3 THEN SubSeq(all, 1, Len(all) - 1) ELSE all

\* The result is the path that the names, "." and ".." of the given one lead to
\* from the root or the working directory, also where the second byte of a
\* character looks like a separator.
NamesThePath == fp_pc = "done" => out = Absolute
=============================================================================
