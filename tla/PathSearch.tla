----------------------------- MODULE PathSearch -----------------------------
(***************************************************************************)
(* Looking for a file in the directories of PATH, or of another variable:  *)
(* the iterator (__libi86_msdos_pathed_first, ..._searchenv_first and      *)
(* ..._pathed_next), character by character, and the loops of _searchenv,  *)
(* _searchpath and _spawnvpe over it.                                      *)
(*                                                                         *)
(* Characters are those the code tells apart: "bsl" and "sla" (the path    *)
(* separators), "semi" (semicolon), "col" (colon), "lead" (a DBCS lead     *)
(* byte), "chr" (any other, a drive letter among them).                    *)
(***************************************************************************)
EXTENDS Integers, Sequences

CONSTANTS MaxPath, \* sizeof itr->__pathname_, _MAX_PATH
          Paths,   \* the values of the variable
          Name,    \* the file name component
          Tables   \* DBCS tables: "given", or "null", a far null pointer (the
                   \* GCC build, where DOS knows no double-byte characters)

Chars == {"bsl", "sla", "semi", "col", "lead", "chr"}
Separators == {"bsl", "sla"}

ASSUME PathAssumption == /\ MaxPath \in Nat \ {0}
                         /\ Paths \subseteq Seq(Chars)
                         /\ Name \in Seq(Chars)
                         /\ Tables \subseteq {"given", "null"}

VARIABLES path, dbcs,
          next_path, \* itr->__next_path_, as an index of path; 0 for NULL
          pc, p, after,        \* after: the local next_path
          pathname,            \* itr->__pathname_ up to q
          last_c_lead_p, last_c_path_sep_p, last_path_sep,
          tried                \* the path names the loop has looked for

vars == <<path, dbcs, next_path, pc, p, after, pathname,
          last_c_lead_p, last_c_path_sep_p, last_path_sep, tried>>

inputs == <<path, dbcs>>
flags == <<last_c_lead_p, last_c_path_sep_p, last_path_sep>>

\* The variable may not be set
Init == /\ path \in Paths /\ dbcs \in Tables /\ next_path \in {0, 1}
        /\ pc = "next" /\ p = 0 /\ after = 0 /\ pathname = <<>>
        /\ last_c_lead_p = FALSE /\ last_c_path_sep_p = TRUE /\ last_path_sep = "bsl"
        /\ tried = <<>>

Exhausted == /\ pc = "next" /\ next_path = 0
             /\ pc' = "ENOENT"
             /\ UNCHANGED <<inputs, next_path, p, after, pathname, flags, tried>>

Start == /\ pc = "next" /\ next_path # 0
         /\ pc' = "copy" /\ p' = next_path /\ pathname' = <<>>
         /\ last_c_lead_p' = FALSE /\ last_c_path_sep_p' = TRUE /\ last_path_sep' = "bsl"
         /\ UNCHANGED <<inputs, next_path, after, tried>>

\* q = e
Full == Len(pathname) = MaxPath - 1

TooLong(from) == /\ pc = from /\ Full
                 /\ pc' = "ENAMETOOLONG"
                 /\ UNCHANGED <<inputs, next_path, p, after, pathname, flags, tried>>

AtEnd == p <= Len(path) => path[p] = "semi"

CopyTooLong == pc = "copy" /\ ~AtEnd /\ TooLong("copy")

CopyUnchecked ==
  /\ pc = "copy" /\ ~AtEnd
  /\ pathname' = Append(pathname, path[p]) /\ p' = p + 1
  /\ last_c_path_sep_p' = (dbcs = "given" /\ ~last_c_lead_p /\ path[p] \in Separators)
  /\ last_path_sep' = IF last_c_path_sep_p' THEN path[p] ELSE last_path_sep
  /\ last_c_lead_p' = (dbcs = "given" /\ ~last_c_lead_p /\ path[p] = "lead")
  /\ UNCHANGED <<inputs, next_path, pc, after, tried>>
CopyLeadIgnored ==
  /\ pc = "copy" /\ ~AtEnd /\ ~Full
  /\ pathname' = Append(pathname, path[p]) /\ p' = p + 1
  /\ last_c_path_sep_p' = (dbcs = "given" /\ path[p] \in Separators)
  /\ last_path_sep' = IF last_c_path_sep_p' THEN path[p] ELSE last_path_sep
  /\ UNCHANGED <<inputs, next_path, pc, after, last_c_lead_p, tried>>

\* Copy a character of the directory; without a DBCS table, no character is
\* taken for a separator
CopyChar ==
  /\ pc = "copy" /\ ~AtEnd /\ ~Full
  /\ pathname' = Append(pathname, path[p]) /\ p' = p + 1
  /\ last_c_path_sep_p' = (dbcs = "given" /\ ~last_c_lead_p /\ path[p] \in Separators)
  /\ last_path_sep' = IF last_c_path_sep_p' THEN path[p] ELSE last_path_sep
  /\ last_c_lead_p' = (dbcs = "given" /\ ~last_c_lead_p /\ path[p] = "lead")
  /\ UNCHANGED <<inputs, next_path, pc, after, tried>>

HalfCharacter == /\ pc = "copy" /\ AtEnd /\ last_c_lead_p
                 /\ pc' = "EILSEQ"
                 /\ UNCHANGED <<inputs, next_path, p, after, pathname, flags, tried>>

EndOfDirectory == /\ pc = "copy" /\ AtEnd /\ ~last_c_lead_p
                  /\ after' = IF p > Len(path) THEN 0 ELSE p + 1
                  /\ pc' = IF last_c_path_sep_p THEN "name" ELSE "separator"
                  /\ UNCHANGED <<inputs, next_path, p, pathname, flags, tried>>

\* The test for a drive specifier looks at the local next_path, which points
\* past the directory by now (or is NULL): it never finds one
AppendSeparator == /\ pc = "separator" /\ ~Full
                   /\ pathname' = Append(pathname, last_path_sep)
                   /\ pc' = "name"
                   /\ UNCHANGED <<inputs, next_path, p, after, flags, tried>>

NameFits == Len(pathname) + Len(Name) <= MaxPath - 1

NameTooLong == /\ pc = "name" /\ ~NameFits
               /\ pc' = "ENAMETOOLONG"
               /\ UNCHANGED <<inputs, next_path, p, after, pathname, flags, tried>>

AppendName == /\ pc = "name" /\ NameFits
              /\ pathname' = pathname \o Name
              /\ next_path' = after
              /\ pc' = "given"
              /\ UNCHANGED <<inputs, p, after, flags, tried>>

\* The loop's body: the file is there, or the iterator is called again
Look == /\ pc = "given"
        /\ tried' = Append(tried, pathname)
        /\ pc' \in {"found", "next"}
        /\ UNCHANGED <<inputs, next_path, p, after, pathname, flags>>

Next == \/ Exhausted \/ Start
        \/ CopyTooLong \/ CopyChar \/ HalfCharacter \/ EndOfDirectory
        \/ TooLong("separator") \/ AppendSeparator
        \/ NameTooLong \/ AppendName
        \/ Look

Spec == Init /\ [][Next]_vars

-----------------------------------------------------------------------------
(* Correctness.                                                            *)

TypeOK == /\ path \in Seq(Chars) /\ dbcs \in Tables
          /\ next_path \in 0..Len(path) + 1 /\ after \in 0..Len(path) + 1
          /\ p \in 0..Len(path) + 1 /\ (pc = "copy" => p > 0)
          /\ pc \in {"next", "copy", "separator", "name", "given", "found",
                     "ENOENT", "EILSEQ", "ENAMETOOLONG"}
          /\ pathname \in Seq(Chars) /\ tried \in Seq(Seq(Chars))
          /\ last_c_lead_p \in BOOLEAN /\ last_c_path_sep_p \in BOOLEAN
          /\ last_path_sep \in Separators

\* The path name and its terminating null fit in the iterator.
PathnameFits == Len(pathname) + 1 <= MaxPath

\* The directories of a path, in order
Entries(t) ==
  LET split[i \in 0..Len(t)] ==
        IF i = 0 THEN <<<<>>>>
        ELSE LET s == split[i - 1] IN
             IF t[i] = "semi" THEN Append(s, <<>>)
             ELSE [s EXCEPT ![Len(s)] = Append(@, t[i])]
  IN  split[Len(t)]

\* Whether the i-th byte of t is a separator, not the second byte of a character
IsSeparator(t, i) ==
  LET trail[j \in 0..Len(t)] == IF j <= 1 THEN FALSE ELSE t[j - 1] = "lead" /\ ~trail[j - 1]
  IN  t[i] \in Separators /\ ~trail[i]

\* The separators that the path itself uses, the last one first
Joint(d) ==
  LET at == {i \in 1..Len(d) : IsSeparator(d, i)} IN
  IF d = <<>> \/ Len(d) \in at THEN <<>>
  ELSE IF at = {} THEN <<"bsl">>
  ELSE <<d[CHOOSE i \in at : \A j \in at : j <= i]>>

\* A search looks in every directory of the variable, in the order they are in,
\* once, and joins each to the name by the separator it uses, unless it ends in
\* one: also where the second byte of a character looks like a separator.
DirectoriesInOrder ==
  LET due == Entries(path) IN
  dbcs = "given" =>
    /\ Len(tried) <= Len(due)
    /\ \A i \in 1..Len(tried) : tried[i] = due[i] \o Joint(due[i]) \o Name
    /\ pc = "ENOENT" => tried = <<>> \/ Len(tried) = Len(due)

\* A directory that is only a drive letter stands for that drive's current
\* directory: no separator is put after it.
DriveStaysRelative ==
  \A i \in 1..Len(tried) :
    Entries(path)[i] = <<"chr", "col">> => tried[i] = Entries(path)[i] \o Name
=============================================================================
