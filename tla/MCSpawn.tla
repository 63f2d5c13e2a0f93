------------------------------ MODULE MCSpawn ------------------------------
(* Instances of Spawn for TLC: a path as given and two PATH directories. *)
EXTENDS Spawn

Flags == {[restrict |-> FALSE, interp |-> FALSE], [restrict |-> TRUE, interp |-> FALSE],
          [restrict |-> FALSE, interp |-> TRUE]}
Ways == {[pathed |-> FALSE, specific |-> FALSE], [pathed |-> TRUE, specific |-> TRUE],
         [pathed |-> TRUE, specific |-> FALSE]}

Request(ok, w, f, e) == [ok |-> ok, pathed |-> w.pathed, specific |-> w.specific,
                         restrict |-> f.restrict, interp |-> f.interp, ext |-> e]

AllRequests == {Request(TRUE, w, f, e) : w \in Ways, f \in Flags, e \in {"", "TXT", "BAT"}}
               \union {Request(FALSE, w, [restrict |-> FALSE, interp |-> FALSE], "") : w \in Ways}

\* What one directory may hold: each kind of spawner, and two at once
Contents == {{}, {"EXE"}, {"BAT", ""}, {"TXT"}}

AllFit == [p \in Places |-> "fits"]
Disk(held) == {f \in Places \X Exts : f[2] \in held[f[1]]}
World(held, missing, room, c) ==
  [files |-> Disk(held), missing |-> missing, room |-> room, comspec |-> c]

PlainWorlds == {World(held, {}, AllFit, c) : held \in [Places -> Contents], c \in BOOLEAN}

\* Path names that are too long to add an extension, or altogether
LongWorlds == {World(held, {}, [AllFit EXCEPT ![r[1]] = r[2]], TRUE) :
                 held \in [Places -> Contents],
                 r \in {<<0, "tight">>, <<1, "tight">>, <<2, "long">>}}

\* The first directory of PATH does not exist
GapWorlds == {World(held, {1}, AllFit, TRUE) :
                held \in {h \in [Places -> Contents] : h[1] = {}}}

AllWorlds == PlainWorlds \union LongWorlds \union GapWorlds
=============================================================================
