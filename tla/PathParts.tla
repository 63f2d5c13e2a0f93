----------------------------- MODULE PathParts -----------------------------
(***************************************************************************)
(* _splitpath, which takes a path apart into drive, directory, file name   *)
(* and extension, and _makepath, which puts one together: a program calls  *)
(* one and then the other.                                                 *)
(*                                                                         *)
(* Characters are those the code tells apart: "bsl" and "sla" (the path    *)
(* separators), "dot", "col" (colon), "lead" (a DBCS lead byte), "let" (a  *)
(* letter, which may name a drive) and "dig" (for any other).              *)
(***************************************************************************)
EXTENDS Integers, Sequences, FiniteSetsExt

CONSTANTS WholeMax, FnameMax, PartExtMax, \* _MAX_PATH (and _MAX_DIR), _MAX_FNAME, _MAX_EXT
          Wholes,   \* the paths to take apart
          PartLists \* the components to put together

PartChars == {"bsl", "sla", "dot", "col", "lead", "let", "dig"}
PartSeps == {"bsl", "sla"}

ASSUME PartsAssumption == /\ {WholeMax, FnameMax, PartExtMax} \subseteq Nat /\ WholeMax > 3
                          /\ FnameMax > 1 /\ PartExtMax > 1
                          /\ Wholes \subseteq Seq(PartChars)
                          /\ PartLists \subseteq [drive : Seq(PartChars), dir : Seq(PartChars),
                                                  fname : Seq(PartChars), ext : Seq(PartChars)]

VARIABLES asked,  \* what the first call is, and what it is given
          whole, parts,
          made,   \* what _makepath returns: "ok" or an errno
          calls   \* the calls still to come

ppVars == <<asked, whole, parts, made, calls>>

NoParts == [drive |-> <<>>, dir |-> <<>>, fname |-> <<>>, ext |-> <<>>]

PpInit == \/ /\ whole \in Wholes /\ parts = NoParts /\ calls = <<"split", "make">>
             /\ asked = [first |-> "split", whole |-> whole] /\ made = "none"
          \/ /\ whole = <<>> /\ parts \in PartLists /\ calls = <<"make", "split">>
             /\ asked = [first |-> "make", parts |-> parts] /\ made = "none"

\* Whether each byte of t is the second of a double-byte character
Second(t) == LET second[j \in 1..Len(t)] == j > 1 /\ ~second[j - 1] /\ t[j - 1] = "lead"
             IN  second

-----------------------------------------------------------------------------
(* _splitpath.                                                             *)

\* copy_component: s, cut to what a buffer of n bytes holds
CopyComponent(s, n) == SubSeq(s, 1, Min({Len(s), n - 1}))

DriveLetters == {"let"}
HasDriveSpec(t) == Len(t) >= 2 /\ t[1] \in DriveLetters /\ t[2] = "col"

\* The last byte of t that is one of S as a character of its own, or 0
LastByteWise(t, S) == Max({0} \union {j \in 1..Len(t) : t[j] \in S})
LastSingle(t, S) == Max({0} \union {j \in 1..Len(t) : t[j] \in S /\ ~Second(t)[j]})

SplitOf(t) ==
  LET p == IF HasDriveSpec(t) THEN 2 ELSE 0
      rest == SubSeq(t, p + 1, Len(t))
      dir_end == LastSingle(rest, PartSeps)
      name == SubSeq(rest, dir_end + 1, Len(rest))
      dot == LastSingle(name, {"dot"})
      name_end == IF dot = 0 THEN Len(name) ELSE dot - 1
  IN  [drive |-> SubSeq(t, 1, p),
       dir   |-> CopyComponent(SubSeq(rest, 1, dir_end), WholeMax),
       fname |-> CopyComponent(SubSeq(name, 1, name_end), FnameMax),
       ext   |-> CopyComponent(SubSeq(name, name_end + 1, Len(name)), PartExtMax)]

\* What _spawnve takes for the base name of path t and for its extension: where each
\* starts, or 0 for no extension
FindRawBaseName(t) == LastSingle(t, PartSeps \union {"col"}) + 1
FindRawExt(t) ==
  LET base == FindRawBaseName(t)
      dot == LastSingle(SubSeq(t, base, Len(t)), {"dot"})
  IN  IF dot = 0 THEN 0 ELSE base + dot - 1

SplitPath == /\ calls # <<>> /\ Head(calls) = "split" /\ calls' = Tail(calls)
             /\ parts' = SplitOf(whole)
             /\ UNCHANGED <<asked, whole, made>>

-----------------------------------------------------------------------------
(* _makepath: the path made so far, its flags, and "ok" or the error.      *)

\* The ADD_CHAR macro
AddChar(m, c) == IF Len(m.path) = WholeMax - 1 THEN [m EXCEPT !.status = "ENAMETOOLONG"]
                 ELSE [m EXCEPT !.path = Append(@, c)]

\* The ADD macro, for one character of the component; after a double-byte
\* character, sep is what it was before
AddNext(m, c, is_dir) ==
  IF m.status # "ok" THEN m
  ELSE LET n == AddChar(m, c) IN
       IF m.lead THEN [n EXCEPT !.lead = FALSE]
       ELSE IF c = "lead" THEN [n EXCEPT !.lead = TRUE]
       ELSE IF is_dir /\ c \in PartSeps THEN [n EXCEPT !.sep = TRUE, !.last = c]
       ELSE [n EXCEPT !.sep = IF is_dir THEN FALSE ELSE @]

Bogus(m) == [m EXCEPT !.path = <<>>, !.status = "EINVAL"]

\* What it makes of all the characters of a component
Adding(m, comp, is_dir) ==
  LET add[i \in 0..Len(comp)] == IF i = 0 THEN m ELSE AddNext(add[i - 1], comp[i], is_dir)
  IN  add[Len(comp)]

\* The ADD macro, for a component; a directory gets the separator it lacks
Add(m, comp, is_dir) ==
  IF m.status # "ok" \/ comp = <<>> THEN m
  ELSE IF m.lead THEN Bogus(m)
  ELSE LET n == Adding(m, comp, is_dir)
       IN  IF is_dir /\ n.status = "ok" /\ ~n.sep THEN AddChar(n, n.last) ELSE n

AddDrive(m, drive) ==
  IF drive = <<>> THEN m
  ELSE IF drive[1] \in DriveLetters /\ Tail(drive) \in {<<>>, <<"col">>}
  THEN [m EXCEPT !.path = <<drive[1], "col">>]
  ELSE Bogus(m)

AddExt(m, ext) ==
  IF m.status # "ok" \/ ext = <<>> THEN m
  ELSE Add(IF ext[1] = "dot" THEN m ELSE AddChar(m, "dot"), ext, FALSE)

MakeOf(p) ==
  LET start == [path |-> <<>>, lead |-> FALSE, sep |-> FALSE, last |-> "bsl", status |-> "ok"]
  IN  AddExt(Add(Add(AddDrive(start, p.drive), p.dir, TRUE), p.fname, FALSE), p.ext)

MakePath == /\ calls # <<>> /\ Head(calls) = "make" /\ calls' = Tail(calls)
            /\ whole' = MakeOf(parts).path /\ made' = MakeOf(parts).status
            /\ UNCHANGED <<asked, parts>>

PpNext == SplitPath \/ MakePath

PpSpec == PpInit /\ [][PpNext]_ppVars

-----------------------------------------------------------------------------
(* Correctness.                                                            *)

\* No component of asked.whole is longer than its buffer
Uncut == parts.drive \o parts.dir \o parts.fname \o parts.ext = asked.whole

\* t is made of whole characters, the last of them a single byte
EndsSingle(t) == t # <<>> => t[Len(t)] # "lead" /\ ~Second(t)[Len(t)]

\* Components that mean what their names say: no directory is taken for a drive, no
\* character of the file name or the extension for what separates components
Proper(p) == /\ EndsSingle(p.dir) /\ (HasDriveSpec(p.dir) => p.drive # <<>>)
             /\ \A j \in 1..Len(p.fname) : p.fname[j] \in {"let", "dig", "lead"}
             /\ \A j \in 1..Len(p.ext) : \/ p.ext[j] \in {"let", "dig", "lead"}
                                         \/ j = 1 /\ p.ext[j] = "dot"

\* What the directory d is called by _splitpath, and the extension e
Terminated(d) == IF d = <<>> \/ d[Len(d)] \in PartSeps THEN d
                 ELSE LET last == LastSingle(d, PartSeps)
                      IN  Append(d, IF last = 0 THEN "bsl" ELSE d[last])
Dotted(e) == IF e = <<>> \/ e[1] = "dot" THEN e ELSE <<"dot">> \o e

\* _spawnve's own search for the base name and the extension in t finds those of
\* _splitpath, unless t has a colon other than a drive's
RawPartsAgree(t) ==
  LET p == SplitOf(t)
      ext == FindRawExt(t)
  IN  Len(p.drive) = LastByteWise(t, {"col"}) /\ p.drive \o p.dir \o p.fname \o p.ext = t =>
        /\ SubSeq(t, FindRawBaseName(t), Len(t)) = p.fname \o p.ext
        /\ p.ext = IF ext = 0 THEN <<>> ELSE SubSeq(t, ext, Len(t))

\* A path that is taken apart and put together is the same again, unless it is
\* too long or a component is cut, and _spawnve looks for its extension where
\* _splitpath does; components that are put together, and taken
\* apart, come back with the separator, the dot and the colon they lacked, unless
\* the directory ends in a double-byte character (makepath.c does not note that
\* such a character is no separator).  And a component that is cut fits.
PartsComeBack ==
  calls = <<>> =>
    IF asked.first = "split"
    THEN /\ Uncut /\ Len(asked.whole) < WholeMax => made = "ok" /\ whole = asked.whole
         /\ RawPartsAgree(asked.whole)
         /\ Len(parts.fname) < FnameMax /\ Len(parts.ext) < PartExtMax
    ELSE made = "ok" /\ Proper(asked.parts) =>
           LET d == IF asked.parts.drive = <<>> THEN <<>> ELSE <<"let", "col">>
           IN  parts = [drive |-> d, dir |-> Terminated(asked.parts.dir),
                        fname |-> CopyComponent(asked.parts.fname, FnameMax),
                        ext |-> CopyComponent(Dotted(asked.parts.ext), PartExtMax)]
=============================================================================
