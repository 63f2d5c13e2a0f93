----------------------------- MODULE PathProofs -----------------------------
(***************************************************************************)
(* Proofs about paths.  Of PathSearch: the iterator over PATH stays in its *)
(* buffer and in the variable, and tries each directory once and in order, *)
(* for every size of the buffer, every value of the variable and every     *)
(* name.  Of FullPath: the path and the stack of positions that _fullpath  *)
(* builds stay within their buffers, and a call that fails leaves no block *)
(* of memory behind, for every path, working directory, buffer size and    *)
(* limit; and what a call that succeeds returns is the path that the       *)
(* names, "." and ".." of its argument lead to.  Of PathParts: a path that *)
(* _splitpath takes apart and _makepath puts together is the same again,   *)
(* and so are components that are put together and taken apart, for all    *)
(* paths, all components and all buffers that hold one.                    *)
(***************************************************************************)
EXTENDS PathSearch, FullPath, PathParts, Induction, SequenceTheorems, WellFoundedInduction, TLAPS

-----------------------------------------------------------------------------
(* PathSearch: the iterator's buffer.                                      *)

IInv == TypeOK /\ PathnameFits

LEMMA Growth ==
  ASSUME NEW S, NEW s \in Seq(S), NEW t \in Seq(S), NEW x \in S
  PROVE  /\ Append(s, x) \in Seq(S) /\ Len(Append(s, x)) = Len(s) + 1
         /\ s \o t \in Seq(S) /\ Len(s \o t) = Len(s) + Len(t)
         /\ Len(s) \in Nat
  OBVIOUS

LEMMA Element == ASSUME NEW S, NEW s \in Seq(S), NEW k \in 1..Len(s) PROVE s[k] \in S
  OBVIOUS

LEMMA Empty == ASSUME NEW S PROVE <<>> \in Seq(S) /\ Len(<<>>) = 0
  OBVIOUS

LEMMA InitInvariant == Init => IInv
  <1> SUFFICES ASSUME Init PROVE IInv
    OBVIOUS
  <1>1. path \in Seq(Chars) /\ Len(path) \in Nat
    BY PathAssumption DEF Init
  <1>2. pathname \in Seq(Chars) /\ Len(pathname) = 0 /\ tried \in Seq(Seq(Chars))
    BY Empty, Zenon DEF Init
  <1>3. next_path \in 0..Len(path) + 1 /\ after \in 0..Len(path) + 1 /\ p \in 0..Len(path) + 1
    BY <1>1 DEF Init
  <1>4. PathnameFits
    BY <1>2, PathAssumption DEF PathnameFits
  <1>5. QED
    BY <1>1, <1>2, <1>3, <1>4 DEF Init, IInv, TypeOK, Separators

\* Giving up changes nothing.
LEMMA GiveUpInvariant ==
  ASSUME IInv, UNCHANGED <<inputs, next_path, p, after, pathname, flags, tried>>,
         pc' \in {"ENOENT", "EILSEQ", "ENAMETOOLONG"}
  PROVE  IInv'
  BY DEF IInv, TypeOK, PathnameFits, inputs, flags

LEMMA CopyInvariant == ASSUME IInv, Start \/ CopyChar \/ EndOfDirectory PROVE IInv'
  <1>1. path \in Seq(Chars) /\ Len(path) \in Nat /\ pathname \in Seq(Chars)
    BY DEF IInv, TypeOK
  <1>2. CASE Start
    <2>1. pathname' \in Seq(Chars) /\ Len(pathname') = 0
      BY <1>2, Empty, Zenon DEF Start
    <2>2. PathnameFits'
      BY <2>1, PathAssumption DEF PathnameFits
    <2>3. p' \in 1..Len(path) + 1 /\ next_path' = next_path /\ after' = after
      BY <1>1, <1>2 DEF Start, IInv, TypeOK
    <2>4. path' = path /\ dbcs' = dbcs /\ tried' = tried /\ pc' = "copy"
      BY <1>2 DEF Start, inputs
    <2>5. /\ last_c_lead_p' \in BOOLEAN /\ last_c_path_sep_p' \in BOOLEAN
          /\ last_path_sep' \in Separators
      BY <1>2 DEF Start, Separators
    <2>6. p' \in 0..Len(path) + 1 /\ p' > 0
      BY <1>1, <2>3
    <2>7. TypeOK'
      BY <2>1, <2>3, <2>4, <2>5, <2>6 DEF IInv, TypeOK
    <2>8. QED
      BY <2>2, <2>7 DEF IInv
  <1>3. CASE CopyChar
    <2>1. p \in 1..Len(path)
      BY <1>1, <1>3 DEF CopyChar, AtEnd, IInv, TypeOK
    <2>2. path[p] \in Chars
      BY <1>1, <2>1, Element
    <2>3. pathname' \in Seq(Chars) /\ Len(pathname') = Len(pathname) + 1 /\ Len(pathname) \in Nat
      BY <1>1, <1>3, <2>2, Growth DEF CopyChar
    <2>4. PathnameFits'
      BY <1>3, <2>3, PathAssumption DEF CopyChar, Full, IInv, PathnameFits
    <2>5. /\ last_path_sep' \in Separators
          /\ last_c_path_sep_p' \in BOOLEAN /\ last_c_lead_p' \in BOOLEAN
      BY <1>3 DEF CopyChar, IInv, TypeOK
    <2>6. p' \in 1..Len(path) + 1
      BY <1>1, <1>3, <2>1 DEF CopyChar
    <2>7. TypeOK'
      BY <1>3, <2>3, <2>5, <2>6 DEF CopyChar, IInv, TypeOK, inputs
    <2>8. QED
      BY <2>4, <2>7 DEF IInv
  <1>4. CASE EndOfDirectory
    <2>1. after' \in 0..Len(path) + 1
      BY <1>1, <1>4 DEF EndOfDirectory, IInv, TypeOK
    <2>2. QED
      BY <1>4, <2>1 DEF EndOfDirectory, IInv, TypeOK, PathnameFits, inputs, flags
  <1>5. QED
    BY <1>2, <1>3, <1>4

LEMMA JoinInvariant == ASSUME IInv, AppendSeparator \/ AppendName \/ Look PROVE IInv'
  <1>1. path \in Seq(Chars) /\ Len(path) \in Nat /\ pathname \in Seq(Chars)
    BY DEF IInv, TypeOK
  <1>2. CASE AppendSeparator
    <2>1. last_path_sep \in Chars
      BY DEF IInv, TypeOK, Separators, Chars
    <2>2. pathname' \in Seq(Chars) /\ Len(pathname') = Len(pathname) + 1 /\ Len(pathname) \in Nat
      BY <1>1, <1>2, <2>1, Growth DEF AppendSeparator
    <2>3. PathnameFits'
      BY <1>2, <2>2, PathAssumption DEF AppendSeparator, Full, IInv, PathnameFits
    <2>4. TypeOK'
      BY <1>2, <2>2 DEF AppendSeparator, IInv, TypeOK, inputs, flags
    <2>5. QED
      BY <2>3, <2>4 DEF IInv
  <1>3. CASE AppendName
    <2>1. pathname' \in Seq(Chars) /\ Len(pathname') = Len(pathname) + Len(Name)
      BY <1>1, <1>3, PathAssumption, Growth DEF AppendName
    <2>2. Len(pathname) \in Nat /\ Len(Name) \in Nat
      BY <1>1, PathAssumption
    <2>3. PathnameFits'
      BY <1>3, <2>1, <2>2, PathAssumption DEF AppendName, NameFits, PathnameFits
    <2>4. TypeOK'
      BY <1>3, <2>1 DEF AppendName, IInv, TypeOK, inputs, flags
    <2>5. QED
      BY <2>3, <2>4 DEF IInv
  <1>4. CASE Look
    <2>1. tried' \in Seq(Seq(Chars))
      BY <1>1, <1>4, Growth DEF Look, IInv, TypeOK
    <2>2. QED
      BY <1>4, <2>1 DEF Look, IInv, TypeOK, PathnameFits, inputs, flags
  <1>5. QED
    BY <1>2, <1>3, <1>4

LEMMA StepInvariant == IInv /\ [Next]_vars => IInv'
  <1> SUFFICES ASSUME IInv, [Next]_vars PROVE IInv'
    OBVIOUS
  <1>1. CASE UNCHANGED vars
    BY <1>1 DEF vars, IInv, TypeOK, PathnameFits
  <1>2. CASE Exhausted \/ CopyTooLong \/ HalfCharacter \/ TooLong("separator") \/ NameTooLong
    BY <1>2, GiveUpInvariant DEF Exhausted, CopyTooLong, HalfCharacter, TooLong, NameTooLong
  <1>3. QED
    BY <1>1, <1>2, CopyInvariant, JoinInvariant DEF Next

\* The path name the iterator makes, with its terminating null, fits in
\* itr->__pathname_ at every point, however long the directories and the name.
THEOREM PathnameInBuffer == Spec => [](TypeOK /\ PathnameFits)
  <1>1. IInv => TypeOK /\ PathnameFits
    BY DEF IInv
  <1>2. QED
    BY <1>1, InitInvariant, StepInvariant, PTL DEF Spec

-----------------------------------------------------------------------------
(* PathSearch: the directories of a path.                                  *)

\* The directories that the characters read so far make, at least one
Lists == Seq(Seq(Chars)) \ {<<>>}
Extended(s, x) == IF x = "semi" THEN Append(s, <<>>) ELSE [s EXCEPT ![Len(s)] = Append(@, x)]
EntryStep == [s \in Lists |-> [x \in Chars |-> Extended(s, x)]]
OneEmpty == <<<<>>>>

LEMMA ExtendedFacts ==
  ASSUME NEW s \in Lists, NEW x \in Chars
  PROVE  /\ Extended(s, x) \in Lists
         /\ Len(s) \in Nat \ {0}
         /\ x = "semi" => /\ Len(Extended(s, x)) = Len(s) + 1
                          /\ Extended(s, x)[Len(s) + 1] = <<>>
                          /\ \A k \in 1..Len(s) : Extended(s, x)[k] = s[k]
         /\ x # "semi" => /\ Len(Extended(s, x)) = Len(s)
                          /\ Extended(s, x)[Len(s)] = Append(s[Len(s)], x)
                          /\ \A k \in 1..Len(s) - 1 : Extended(s, x)[k] = s[k]
  <1> DEFINE T == Seq(Chars)
  <1>1. <<>> \in T /\ \A d \in T : Append(d, x) \in T
    OBVIOUS
  <1>2. s \in Seq(T) /\ s # <<>>
    BY DEF Lists
  <1> HIDE DEF T
  <1>3. Len(s) \in Nat /\ Len(s) # 0
    BY <1>2
  <1>4. CASE x = "semi"
    <2> DEFINE e == <<>>
    <2>1. e \in T
      BY <1>1
    <2> HIDE DEF e
    <2>2. Append(s, e) \in Seq(T) /\ Len(Append(s, e)) = Len(s) + 1
          /\ Append(s, e)[Len(s) + 1] = e /\ \A k \in 1..Len(s) : Append(s, e)[k] = s[k]
      BY <1>2, <2>1
    <2>3. Append(s, e) # <<>>
      BY <1>3, <2>2
    <2>4. Extended(s, x) = Append(s, e)
      BY <1>4 DEF Extended, e
    <2>5. QED
      BY <1>3, <1>4, <2>2, <2>3, <2>4 DEF Lists, T, e
  <1>5. CASE x # "semi"
    <2> DEFINE n == Len(s)
               d == Append(s[n], x)
    <2>1. s[n] \in T /\ n \in 1..Len(s)
      BY <1>2, <1>3
    <2>2. d \in T
      BY <1>1, <2>1
    <2>3. Extended(s, x) = [s EXCEPT ![n] = d]
      BY <1>5 DEF Extended
    <2> HIDE DEF d, n
    <2>4. [s EXCEPT ![n] = d] \in Seq(T) /\ Len([s EXCEPT ![n] = d]) = Len(s)
          /\ [s EXCEPT ![n] = d][n] = d
          /\ \A k \in 1..Len(s) : k # n => [s EXCEPT ![n] = d][k] = s[k]
      BY <1>2, <2>1, <2>2
    <2>5. [s EXCEPT ![n] = d] # <<>>
      BY <1>3, <2>4
    <2>6. \A k \in 1..Len(s) - 1 : k \in 1..Len(s) /\ k # n
      BY <1>3 DEF n
    <2>7. QED
      BY <1>3, <1>5, <2>3, <2>4, <2>5, <2>6 DEF Lists, T, d, n
  <1>6. QED
    BY <1>4, <1>5

\* Dirs(t)[q] are the directories that the first q characters of t make.
Dirs(t) == Reader(EntryStep, OneEmpty, t)

LEMMA EntryReads == Reads(Lists, Chars, OneEmpty, EntryStep)
  <1>1. OneEmpty \in Lists
    <2>1. <<>> \in Seq(Chars)
      OBVIOUS
    <2>2. QED
      BY <2>1 DEF OneEmpty, Lists
  <1>2. \A s \in Lists, x \in Chars : Extended(s, x) \in Lists
    BY ExtendedFacts
  <1>3. EntryStep \in [Lists -> [Chars -> Lists]]
    BY <1>2 DEF EntryStep
  <1>4. QED
    BY <1>1, <1>3 DEF Reads

LEMMA DirsDef ==
  ASSUME NEW t \in Seq(Chars)
  PROVE  /\ Dirs(t)[0] = OneEmpty
         /\ \A q \in 1..Len(t) : Dirs(t)[q] = Extended(Dirs(t)[q - 1], t[q])
         /\ \A q \in 0..Len(t) : Dirs(t)[q] \in Lists
  <1>1. /\ Dirs(t)[0] = OneEmpty
        /\ \A q \in 1..Len(t) : Dirs(t)[q] = EntryStep[Dirs(t)[q - 1]][t[q]]
        /\ \A q \in 0..Len(t) : Dirs(t)[q] \in Lists
    BY EntryReads, ReaderDef, Zenon DEF Dirs
  <1>2. \A q \in 1..Len(t) : q - 1 \in 0..Len(t) /\ t[q] \in Chars
    OBVIOUS
  <1>3. \A s \in Lists, x \in Chars : EntryStep[s][x] = Extended(s, x)
    BY DEF EntryStep
  <1>4. \A q \in 1..Len(t) : Dirs(t)[q] = Extended(Dirs(t)[q - 1], t[q])
    BY <1>1, <1>2, <1>3
  <1>5. QED
    BY <1>1, <1>4

LEMMA EntriesAre == ASSUME NEW t \in Seq(Chars) PROVE Entries(t) = Dirs(t)[Len(t)]
  <1> DEFINE Good(g) ==
        g = [q \in 0..Len(t) |-> IF q = 0 THEN OneEmpty ELSE Extended(g[q - 1], t[q])]
             r == CHOOSE g : Good(g)
             g0 == [q \in 0..Len(t) |-> Dirs(t)[q]]
  <1>1. Good(g0)
    <2>1. \A q \in 0..Len(t) : q = 0 \/ (q \in 1..Len(t) /\ q - 1 \in 0..Len(t))
      OBVIOUS
    <2>2. \A q \in 0..Len(t) : g0[q] = IF q = 0 THEN OneEmpty ELSE Extended(g0[q - 1], t[q])
      BY <2>1, DirsDef
    <2>3. QED
      BY <2>2
  <1>2. Entries(t) = r[Len(t)]
    BY DEF Entries, Extended, OneEmpty
  <1>3. Good(r)
    <2> HIDE DEF Good, g0
    <2>1. QED
      BY <1>1
  <1> HIDE DEF r, g0
  <1>4. r[0] = OneEmpty /\ \A q \in 1..Len(t) : r[q] = Extended(r[q - 1], t[q])
    <2>1. 0 \in 0..Len(t) /\ \A q \in 1..Len(t) : q \in 0..Len(t) /\ q # 0
      OBVIOUS
    <2>2. \A q \in 0..Len(t) : r[q] = IF q = 0 THEN OneEmpty ELSE Extended(r[q - 1], t[q])
      BY <1>3, Zenon
    <2>3. QED
      BY <2>1, <2>2
  <1> HIDE DEF Good
  <1>5. \A q \in 0..Len(t) : r[q] = Dirs(t)[q]
    <2>1. r[0] = Dirs(t)[0]
      BY <1>4, DirsDef
    <2>2. \A q \in 1..Len(t) : r[q - 1] = Dirs(t)[q - 1] => r[q] = Dirs(t)[q]
      BY <1>4, DirsDef
    <2>3. Len(t) \in Nat
      OBVIOUS
    <2>4. Alike(Len(t), r, Dirs(t))
      BY <2>1, <2>2 DEF Alike
    <2>5. QED
      BY <2>3, <2>4, AlikeAgree, Zenon
  <1>6. QED
    BY <1>2, <1>5

\* Reading on adds directories, and changes none but the last.
LEMMA DirsGrow ==
  ASSUME NEW t \in Seq(Chars), NEW q \in 0..Len(t)
  PROVE  \A j \in q..Len(t) : /\ Len(Dirs(t)[q]) <= Len(Dirs(t)[j])
                              /\ \A k \in 1..Len(Dirs(t)[q]) - 1 : Dirs(t)[j][k] = Dirs(t)[q][k]
  <1> DEFINE f == Dirs(t)
             B == {j \in q..Len(t) : /\ Len(f[q]) <= Len(f[j])
                                     /\ \A k \in 1..Len(f[q]) - 1 : f[j][k] = f[q][k]}
  <1>1. \A j \in 0..Len(t) : f[j] \in Lists /\ Len(f[j]) \in Nat \ {0}
    <2>1. \A s \in Lists : Len(s) \in Nat \ {0}
      BY ExtendedFacts DEF Chars
    <2>2. \A j \in 0..Len(t) : f[j] \in Lists
      BY DirsDef
    <2> HIDE DEF f
    <2>3. QED
      BY <2>1, <2>2
  <1>2. \A j \in 1..Len(t) : f[j] = Extended(f[j - 1], t[j])
    BY DirsDef
  <1> HIDE DEF f
  <1>3. q <= Len(t) => q \in B
    BY <1>1
  <1>4. \A j \in q..Len(t) - 1 : j \in B => j + 1 \in B
    <2> SUFFICES ASSUME NEW j \in q..Len(t) - 1, j \in B PROVE j + 1 \in B
      OBVIOUS
    <2>1. j \in 0..Len(t) /\ j + 1 \in 1..Len(t) /\ j + 1 \in q..Len(t) /\ (j + 1) - 1 = j
      OBVIOUS
    <2>2. f[j + 1] = Extended(f[j], t[j + 1]) /\ t[j + 1] \in Chars
      BY <1>2, <2>1
    <2>3. Len(f[j]) <= Len(f[j + 1]) /\ \A k \in 1..Len(f[j]) - 1 : f[j + 1][k] = f[j][k]
      <3>1. f[j] \in Lists
        BY <1>1, <2>1
      <3>2. Len(f[j]) \in Nat
        BY <1>1, <2>1
      <3>3. \A k \in 1..Len(f[j]) - 1 : k \in 1..Len(f[j])
        BY <3>2
      <3> DEFINE s == f[j]
                 u == f[j + 1]
      <3>4. s \in Lists /\ u = Extended(s, t[j + 1])
        BY <2>2, <3>1
      <3>5. /\ t[j + 1] = "semi" => Len(u) = Len(s) + 1 /\ \A k \in 1..Len(s) : u[k] = s[k]
            /\ t[j + 1] # "semi" => Len(u) = Len(s) /\ \A k \in 1..Len(s) - 1 : u[k] = s[k]
        <4> HIDE DEF s, u
        <4>1. QED
          BY <2>2, <3>4, ExtendedFacts
      <3>6. QED
        BY <3>2, <3>3, <3>5
    <2>4. \A k \in 1..Len(f[q]) - 1 : k \in 1..Len(f[j]) - 1
      BY <1>1, <2>1
    <2>5. Len(f[q]) <= Len(f[j + 1])
      BY <1>1, <2>1, <2>3
    <2>6. \A k \in 1..Len(f[q]) - 1 : f[j][k] = f[q][k]
      OBVIOUS
    <2>7. \A k \in 1..Len(f[q]) - 1 : f[j + 1][k] = f[q][k]
      BY <2>3, <2>4, <2>6, Zenon
    <2>8. QED
      BY <2>1, <2>5, <2>7
  <1>5. q \in Int /\ Len(t) \in Int
    OBVIOUS
  <1>6. \A j \in q..Len(t) : j \in B
    <2> HIDE DEF B
    <2>1. QED
      BY <1>3, <1>4, <1>5, IntervalClosed, Zenon
  <1>7. QED
    BY <1>6 DEF f

-----------------------------------------------------------------------------
(* PathSearch: the separators of a directory.                              *)

\* The recursion of IsSeparator: which bytes are the second of a character.
Seconds(t) ==
  LET trail[j \in 0..Len(t)] == IF j <= 1 THEN FALSE ELSE t[j - 1] = "lead" /\ ~trail[j - 1]
  IN  trail

LEMMA SeparatorIs == \A t, q : IsSeparator(t, q) = (t[q] \in Separators /\ ~Seconds(t)[q])
  BY DEF IsSeparator, Seconds

LEMMA SecondsDef ==
  ASSUME NEW t \in Seq(Chars)
  PROVE  \A q \in 1..Len(t) :
           Seconds(t)[q] = IF q <= 1 THEN FALSE ELSE t[q - 1] = "lead" /\ ~Seconds(t)[q - 1]
  <1> DEFINE E(q, b) == IF q <= 1 THEN FALSE ELSE t[q - 1] = "lead" /\ ~b
             D == [q \in 1..Len(t) |-> [b \in BOOLEAN |-> E(q, b)]]
             Good(g) == g = [q \in 0..Len(t) |-> E(q, g[q - 1])]
  <1>1. D \in Steps(0, Len(t), BOOLEAN)
    <2>1. \A q \in 1..Len(t) : \A b \in BOOLEAN : E(q, b) \in BOOLEAN
      OBVIOUS
    <2> HIDE DEF E
    <2>2. D \in [1..Len(t) -> [BOOLEAN -> BOOLEAN]]
      BY <2>1
    <2> HIDE DEF D
    <2>3. QED
      BY <2>2, StepsFrom0
  <1>2. PICK g : g \in Obeying(0, Len(t), BOOLEAN, FALSE, D)
    <2> HIDE DEF D, Good
    <2>1. 0 \in Int /\ Len(t) \in Int /\ FALSE \in BOOLEAN
      OBVIOUS
    <2>2. QED
      BY <1>1, <2>1, RecursionDefines, Zenon
  <1>3. Good(g)
    <2>1. E(0, g[0 - 1]) = FALSE
      OBVIOUS
    <2> HIDE DEF E
    <2>2. g \in [0..Len(t) -> BOOLEAN] /\ g[0] = FALSE
          /\ \A q \in 1..Len(t) : g[q] = D[q][g[q - 1]]
      BY <1>2 DEF Obeying
    <2>3. \A q \in 1..Len(t) : g[q - 1] \in BOOLEAN
      BY <2>2
    <2>4. \A q \in 1..Len(t) : g[q] = E(q, g[q - 1])
      BY <2>2, <2>3
    <2>5. \A q \in 0..Len(t) : q = 0 \/ q \in 1..Len(t)
      OBVIOUS
    <2> HIDE DEF D
    <2>6. \A q \in 0..Len(t) : g[q] = E(q, g[q - 1])
      BY <2>2, <2>4, <2>5, <2>1, Zenon
    <2>7. QED
      BY <2>2, <2>6
  <1> DEFINE r == Seconds(t)
  <1>4. Good(r)
    <2> HIDE DEF D
    <2>1. r = CHOOSE f : Good(f)
      BY DEF Seconds
    <2> HIDE DEF Good, r
    <2>2. QED
      BY <1>3, <2>1
  <1> HIDE DEF E, D, r
  <1>5. \A q \in 1..Len(t) : r[q] = E(q, r[q - 1])
    <2>1. \A q \in 1..Len(t) : q \in 0..Len(t)
      OBVIOUS
    <2>2. \A q \in 0..Len(t) : r[q] = E(q, r[q - 1])
      BY <1>4, Zenon
    <2>3. QED
      BY <2>1, <2>2
  <1>6. QED
    BY <1>5 DEF E, r

\* The next byte after t is the second of a character
Half(t) == t # <<>> /\ t[Len(t)] = "lead" /\ ~Seconds(t)[Len(t)]

LEMMA SecondsFurther ==
  ASSUME NEW t \in Seq(Chars), NEW x \in Chars
  PROVE  /\ \A q \in 1..Len(t) : Seconds(Append(t, x))[q] <=> Seconds(t)[q]
         /\ Seconds(Append(t, x))[Len(t) + 1] <=> Half(t)
  <1> DEFINE u == Append(t, x)
             A == Seconds(t)
             B == Seconds(u)
             n == Len(t)
             S == {q \in 1..n : A[q] <=> B[q]}
  <1>1. u \in Seq(Chars) /\ Len(u) = n + 1 /\ n \in Nat /\ \A q \in 1..n : u[q] = t[q]
    OBVIOUS
  <1>2. \A q \in 1..n : A[q] = IF q <= 1 THEN FALSE ELSE t[q - 1] = "lead" /\ ~A[q - 1]
    BY SecondsDef
  <1>3. \A q \in 1..n + 1 : B[q] = IF q <= 1 THEN FALSE ELSE u[q - 1] = "lead" /\ ~B[q - 1]
    <2> HIDE DEF u, n
    <2>1. QED
      BY <1>1, SecondsDef
  <1>4. t # <<>> <=> n # 0
    OBVIOUS
  <1> HIDE DEF u, A, B, n
  <1>5. 1 <= n => 1 \in S
    <2>1. ASSUME 1 <= n PROVE 1 \in S
      <3>1. 1 \in 1..n /\ 1 \in 1..n + 1 /\ 1 <= 1
        BY <1>1, <2>1
      <3>2. A[1] = FALSE /\ B[1] = FALSE
        BY <1>2, <1>3, <3>1, Zenon
      <3>3. QED
        BY <3>1, <3>2
    <2>2. QED
      BY <2>1
  <1>6. \A q \in 1..n - 1 : q \in S => q + 1 \in S
    <2> SUFFICES ASSUME NEW q \in 1..n - 1, q \in S PROVE q + 1 \in S
      OBVIOUS
    <2>1. /\ q \in 1..n /\ q + 1 \in 1..n /\ q + 1 \in 1..n + 1 /\ (q + 1) - 1 = q /\ ~(q + 1 <= 1)
          /\ u[q] = t[q]
      BY <1>1
    <2>2. A[q + 1] = (t[q] = "lead" /\ ~A[q])
      BY <1>2, <2>1
    <2>3. B[q + 1] = (u[q] = "lead" /\ ~B[q])
      BY <1>3, <2>1
    <2>4. A[q] <=> B[q]
      OBVIOUS
    <2>5. A[q + 1] <=> B[q + 1]
      BY <2>1, <2>2, <2>3, <2>4, Zenon
    <2>6. QED
      BY <2>1, <2>5
  <1>7. \A q \in 1..n : q \in S
    <2> HIDE DEF S
    <2>1. 1 \in Int /\ n \in Int
      BY <1>1
    <2>2. QED
      BY <1>5, <1>6, <2>1, IntervalClosed, Zenon
  <1>8. B[n + 1] <=> Half(t)
    <2>1. n + 1 \in 1..n + 1
      BY <1>1
    <2>2. CASE n = 0
      <3>1. B[n + 1] = FALSE
        <4>1. n + 1 <= 1
          BY <2>2
        <4>2. QED
          BY <1>3, <2>1, <4>1, Zenon
      <3>2. ~Half(t)
        BY <1>4, <2>2 DEF Half
      <3>3. QED
        BY <3>1, <3>2
    <2>3. CASE n # 0
      <3>1. ~(n + 1 <= 1) /\ (n + 1) - 1 = n /\ n \in 1..n
        BY <1>1, <2>3
      <3>2. B[n + 1] = (u[n] = "lead" /\ ~B[n])
        BY <1>3, <2>1, <3>1
      <3>3. (A[n] <=> B[n]) /\ u[n] = t[n]
        BY <1>1, <1>7, <3>1
      <3>4. Half(t) <=> t[n] = "lead" /\ ~A[n]
        BY <1>4, <2>3 DEF Half, A, n
      <3>5. QED
        BY <3>2, <3>3, <3>4, Zenon
    <2>4. QED
      BY <2>2, <2>3
  <1>9. QED
    BY <1>7, <1>8 DEF u, A, B, n

\* Where the separators of t are, and the last of them
Places(t) == {q \in 1..Len(t) : IsSeparator(t, q)}
LastOf(S) == CHOOSE q \in S : \A j \in S : j <= q

\* What the flags say of the directory d
FlagsSay(d) ==
  /\ last_c_lead_p <=> Half(d)
  /\ last_c_path_sep_p <=> d = <<>> \/ Len(d) \in Places(d)
  /\ last_path_sep = IF Places(d) = {} THEN "bsl" ELSE d[LastOf(Places(d))]

LEMMA PlacesFurther ==
  ASSUME NEW t \in Seq(Chars), NEW x \in Chars
  PROVE  /\ Places(Append(t, x)) = IF ~Half(t) /\ x \in Separators
                                   THEN Places(t) \union {Len(t) + 1} ELSE Places(t)
         /\ Half(Append(t, x)) <=> ~Half(t) /\ x = "lead"
         /\ Places(t) \subseteq 1..Len(t)
  <1> DEFINE u == Append(t, x)
             n == Len(t)
  <1>1. /\ Len(u) = n + 1 /\ n \in Nat /\ u[n + 1] = x /\ u # <<>>
        /\ \A q \in 1..n : u[q] = t[q]
    OBVIOUS
  <1>2. (\A q \in 1..n : Seconds(u)[q] <=> Seconds(t)[q]) /\ (Seconds(u)[n + 1] <=> Half(t))
    BY SecondsFurther
  <1> HIDE DEF u
  <1>3. \A q \in 1..n : q \in Places(u) <=> q \in Places(t)
    <2> TAKE q \in 1..n
    <2>1. q \in 1..Len(u) /\ u[q] = t[q] /\ (Seconds(u)[q] <=> Seconds(t)[q])
      BY <1>1, <1>2
    <2>2. IsSeparator(u, q) <=> IsSeparator(t, q)
      BY <2>1, SeparatorIs, Zenon
    <2>3. QED
      BY <2>1, <2>2 DEF Places
  <1>4. n + 1 \in Places(u) <=> ~Half(t) /\ x \in Separators
    <2>1. n + 1 \in 1..Len(u)
      BY <1>1
    <2>2. IsSeparator(u, n + 1) <=> x \in Separators /\ ~Half(t)
      BY <1>1, <1>2, SeparatorIs, Zenon
    <2>3. QED
      BY <2>1, <2>2 DEF Places
  <1>5. Places(u) \subseteq 1..n + 1 /\ Places(t) \subseteq 1..n
    BY <1>1 DEF Places
  <1>6. Places(u) = IF ~Half(t) /\ x \in Separators THEN Places(t) \union {n + 1} ELSE Places(t)
    <2>1. n + 1 \notin 1..n /\ \A q \in 1..n + 1 : q \in 1..n \/ q = n + 1
      BY <1>1
    <2>2. \A q \in Places(u) : q \in 1..n \/ q = n + 1
      BY <1>5, <2>1
    <2>3. \A q \in Places(t) : q \in 1..n
      BY <1>5
    <2> HIDE DEF n
    <2>4. CASE ~Half(t) /\ x \in Separators
      BY <1>3, <1>4, <2>2, <2>3, <2>4
    <2>5. CASE ~(~Half(t) /\ x \in Separators)
      <3>1. Places(u) = Places(t)
        BY <1>3, <1>4, <2>2, <2>3, <2>5
      <3>2. QED
        BY <2>5, <3>1
    <2>6. QED
      BY <2>4, <2>5
  <1>7. Half(u) <=> ~Half(t) /\ x = "lead"
    <2>1. Half(u) <=> u[n + 1] = "lead" /\ ~Seconds(u)[n + 1]
      BY <1>1 DEF Half
    <2>2. QED
      BY <1>1, <1>2, <2>1, Zenon
  <1>8. QED
    BY <1>5, <1>6, <1>7 DEF u, n

LEMMA LastFurther ==
  ASSUME NEW n \in Nat, NEW S, S \subseteq 1..n
  PROVE  LastOf(S \union {n + 1}) = n + 1
  <1>1. \A q \in S \union {n + 1} : (\A j \in S \union {n + 1} : j <= q) <=> q = n + 1
    OBVIOUS
  <1>2. QED
    BY <1>1 DEF LastOf

\* A set of numbers up to n has a last one.
LEMMA LastIn ==
  ASSUME NEW n \in Nat, NEW S, S \subseteq 1..n, S # {}
  PROVE  LastOf(S) \in S
  <1> DEFINE T == {k \in Nat : n - k \in S}
  <1>1. T \subseteq Nat /\ T # {}
    <2>1. PICK q \in S : TRUE
      OBVIOUS
    <2>2. n - q \in Nat /\ n - (n - q) = q
      BY <2>1
    <2>3. QED
      BY <2>2
  <1>2. PICK m \in T : \A q \in T : m <= q
    <2> HIDE DEF T
    <2>1. QED
      BY <1>1, SmallestNat
  <1>3. n - m \in S /\ \A j \in S : j <= n - m
    <2>1. n - m \in S /\ m \in Nat
      BY <1>2
    <2>2. ASSUME NEW j \in S PROVE j <= n - m
      <3>1. n - j \in Nat /\ n - (n - j) = j
        OBVIOUS
      <3>2. m <= n - j
        BY <1>2, <3>1
      <3>3. QED
        BY <2>1, <3>2
    <2>3. QED
      BY <2>1, <2>2
  <1>4. QED
    BY <1>3 DEF LastOf

LEMMA NoFlags == Places(<<>>) = {} /\ ~Half(<<>>)
  <1>1. Len(<<>>) = 0 /\ 1..0 = {}
    OBVIOUS
  <1>2. QED
    BY <1>1 DEF Places, Half

LEMMA FlagsFurther ==
  ASSUME NEW x \in Chars, pathname \in Seq(Chars), FlagsSay(pathname),
         pathname' = Append(pathname, x),
         last_c_path_sep_p' = (~last_c_lead_p /\ x \in Separators),
         last_path_sep' = IF last_c_path_sep_p' THEN x ELSE last_path_sep,
         last_c_lead_p' = (~last_c_lead_p /\ x = "lead")
  PROVE  FlagsSay(pathname)'
  <1> DEFINE d == pathname
             e == Append(pathname, x)
             n == Len(pathname)
  <1>1. /\ Places(e) = IF ~Half(d) /\ x \in Separators THEN Places(d) \union {n + 1} ELSE Places(d)
        /\ Half(e) <=> ~Half(d) /\ x = "lead"
        /\ Places(d) \subseteq 1..n
    BY PlacesFurther
  <1>2. e # <<>> /\ Len(e) = n + 1 /\ e[n + 1] = x /\ n \in Nat /\ \A q \in 1..n : e[q] = d[q]
    OBVIOUS
  <1>3. n + 1 \notin 1..n
    BY <1>2
  <1>4. LastOf(Places(d) \union {n + 1}) = n + 1
    BY <1>1, <1>2, LastFurther
  <1>5. Places(d) # {} => LastOf(Places(d)) \in 1..n
    <2> DEFINE S == Places(d)
    <2> HIDE DEF S
    <2>1. S \subseteq 1..n
      BY <1>1 DEF S
    <2>2. S # {} => LastOf(S) \in S
      BY <1>2, <2>1, LastIn, Zenon
    <2>3. QED
      BY <2>1, <2>2 DEF S
  <1>6. /\ last_c_lead_p <=> Half(d)
        /\ last_path_sep = IF Places(d) = {} THEN "bsl" ELSE d[LastOf(Places(d))]
    BY DEF FlagsSay
  <1> HIDE DEF d, e, n
  <1>7. last_c_lead_p' <=> Half(e)
    BY <1>1, <1>6, Zenon
  <1>8. n + 1 \in Places(e) <=> ~Half(d) /\ x \in Separators
    BY <1>1, <1>3
  <1>9. last_c_path_sep_p' <=> n + 1 \in Places(e)
    BY <1>6, <1>8, Zenon
  <1>10. last_path_sep' = IF Places(e) = {} THEN "bsl" ELSE e[LastOf(Places(e))]
    <2>1. CASE ~Half(d) /\ x \in Separators
      <3>1. Places(e) = Places(d) \union {n + 1} /\ Places(e) # {}
        BY <1>1, <2>1
      <3>2. last_c_path_sep_p'
        BY <1>8, <1>9, <2>1
      <3>3. last_path_sep' = x
        BY <3>2
      <3>4. e[LastOf(Places(e))] = x
        BY <1>2, <1>4, <3>1
      <3>5. QED
        BY <3>1, <3>3, <3>4
    <2>2. CASE ~(~Half(d) /\ x \in Separators)
      <3>1. Places(e) = Places(d)
        BY <1>1, <2>2, Zenon
      <3>2. ~last_c_path_sep_p'
        BY <1>8, <1>9, <2>2
      <3>3. last_path_sep' = last_path_sep
        BY <3>2
      <3>4. CASE Places(d) = {}
        BY <1>6, <3>1, <3>3, <3>4
      <3>5. CASE Places(d) # {}
        <4>1. e[LastOf(Places(d))] = d[LastOf(Places(d))]
          BY <1>2, <1>5, <3>5
        <4>2. QED
          BY <1>6, <3>1, <3>3, <3>5, <4>1
      <3>6. QED
        BY <3>4, <3>5
    <2>3. QED
      BY <2>1, <2>2
  <1>11. QED
    BY <1>2, <1>7, <1>9, <1>10, Zenon DEF FlagsSay, e

\* At the end of a directory the flags say what joins it to a name.
LEMMA FlagsJoin ==
  ASSUME NEW d, FlagsSay(d)
  PROVE  Joint(d) = IF last_c_path_sep_p THEN <<>> ELSE <<last_path_sep>>
  <1>1. Joint(d) = IF d = <<>> \/ Len(d) \in Places(d) THEN <<>>
                   ELSE IF Places(d) = {} THEN <<"bsl">> ELSE <<d[LastOf(Places(d))]>>
    BY DEF Joint, Places, LastOf
  <1>2. QED
    BY <1>1 DEF FlagsSay

-----------------------------------------------------------------------------
(* PathSearch: what is tried.                                              *)

\* A directory is finished at a semicolon and at the end.
LEMMA DirectoryEnds ==
  ASSUME NEW t \in Seq(Chars), NEW q \in 1..Len(t) + 1, NEW k \in Nat,
         Len(Dirs(t)[q - 1]) = k, q <= Len(t) => t[q] = "semi"
  PROVE  /\ k <= Len(Entries(t)) /\ Entries(t)[k] = Dirs(t)[q - 1][k]
         /\ q > Len(t) => Len(Entries(t)) = k
         /\ q <= Len(t) => Len(Dirs(t)[q]) = k + 1 /\ Dirs(t)[q][k + 1] = <<>>
  <1> DEFINE f == Dirs(t)
             n == Len(t)
  <1>1. n \in Nat /\ q - 1 \in 0..n /\ Entries(t) = f[n] /\ f[q - 1] \in Lists
    <2>1. q - 1 \in 0..n
      OBVIOUS
    <2>2. QED
      BY <2>1, EntriesAre, DirsDef
  <1>2. CASE q > n
    <2>1. q - 1 = n
      BY <1>1, <1>2
    <2>2. QED
      BY <1>1, <1>2, <2>1
  <1>3. CASE q <= n
    <2>1. q \in 0..n /\ q \in 1..n /\ n \in q..n /\ t[q] = "semi" /\ t[q] \in Chars
      BY <1>1, <1>3
    <2>2. f[q] = Extended(f[q - 1], t[q])
      BY <2>1, DirsDef
    <2> HIDE DEF f
    <2>3. /\ Len(f[q]) = k + 1 /\ f[q][k + 1] = <<>> /\ k # 0
          /\ \A j \in 1..k : f[q][j] = f[q - 1][j]
      <3> DEFINE s == f[q - 1]
      <3>1. s \in Lists /\ Len(s) = k
        BY <1>1 DEF f
      <3> HIDE DEF s
      <3> DEFINE x == Extended(s, t[q])
      <3>2. Len(x) = k + 1 /\ x[k + 1] = <<>> /\ k # 0 /\ \A j \in 1..k : x[j] = s[j]
        BY <2>1, <3>1, ExtendedFacts
      <3>3. f[q] = x
        BY <2>2 DEF s
      <3> HIDE DEF x
      <3>4. QED
        BY <3>2, <3>3 DEF s
    <2>4. Len(f[q]) <= Len(f[n]) /\ \A j \in 1..Len(f[q]) - 1 : f[n][j] = f[q][j]
      BY <2>1, DirsGrow DEF f
    <2>5. Len(f[n]) \in Nat
      <3>1. f[n] \in Lists
        BY <2>1, DirsDef DEF f
      <3>2. QED
        BY <3>1 DEF Lists
    <2>6. k \in 1..Len(f[q]) - 1 /\ k \in 1..k
      BY <2>3
    <2>7. f[n][k] = f[q - 1][k]
      BY <2>3, <2>4, <2>6
    <2>8. k <= Len(f[n])
      BY <2>3, <2>4, <2>5
    <2>9. QED
      BY <1>1, <1>3, <2>3, <2>7, <2>8 DEF f
  <1>4. QED
    BY <1>1, <1>2, <1>3

\* The k-th directory, still empty, begins at q; what comes after k directories
\* begins at q, or nothing does.
Opens(q, k) == Len(Dirs(path)[q - 1]) = k /\ Dirs(path)[q - 1][k] = <<>>
Follows(q, k) == IF q = 0 THEN Len(Entries(path)) = k ELSE Opens(q, k + 1)

WithName(d) == d \o Joint(d) \o Name

\* What was tried are the first directories; what is made is the next one, as far as
\* it was read or joined; and the place where the search goes on is behind it.
OrderInv ==
  LET due == Entries(path)
      n == Len(tried)
  IN  dbcs = "given" =>
        /\ n <= Len(due) /\ \A q \in 1..n : tried[q] = WithName(due[q])
        /\ pc \in {"next", "ENOENT"} /\ next_path = 0 => tried = <<>> \/ n = Len(due)
        /\ pc = "ENOENT" => next_path = 0
        /\ pc = "next" /\ next_path # 0 => Opens(next_path, n + 1)
        /\ pc = "copy" => /\ Len(Dirs(path)[p - 1]) = n + 1
                          /\ Dirs(path)[p - 1][n + 1] = pathname /\ FlagsSay(pathname)
        /\ pc \in {"separator", "name", "given"} => n + 1 <= Len(due)
        /\ pc \in {"separator", "name"} => Follows(after, n + 1)
        /\ pc = "separator" => /\ pathname = due[n + 1]
                               /\ Joint(due[n + 1]) = <<last_path_sep>>
        /\ pc = "name" => pathname = due[n + 1] \o Joint(due[n + 1])
        /\ pc = "given" => pathname = WithName(due[n + 1]) /\ Follows(next_path, n + 1)

LEMMA OrderInit == Init => OrderInv
  <1> SUFFICES ASSUME Init PROVE OrderInv
    OBVIOUS
  <1>1. path \in Seq(Chars) /\ tried = <<>> /\ Len(tried) = 0 /\ pc = "next" /\ next_path \in {0, 1}
    BY PathAssumption DEF Init
  <1>2. Len(Entries(path)) \in Nat
    <2>1. Len(path) \in 0..Len(path)
      BY <1>1
    <2>2. Entries(path) \in Lists
      BY <1>1, <2>1, EntriesAre, DirsDef
    <2>3. QED
      BY <2>2 DEF Lists
  <1>3. Opens(1, 0 + 1)
    <2>1. Dirs(path)[1 - 1] = OneEmpty
      BY <1>1, DirsDef
    <2>2. Len(OneEmpty) = 1 /\ OneEmpty[1] = <<>>
      BY DEF OneEmpty
    <2>3. QED
      BY <2>1, <2>2 DEF Opens
  <1>4. 0 <= Len(Entries(path)) /\ 1..0 = {}
    BY <1>2
  <1>5. next_path # 0 => next_path = 1
    BY <1>1
  <1>6. QED
    BY <1>1, <1>3, <1>4, <1>5 DEF OrderInv

\* Giving up keeps what was tried.
LEMMA OrderGiveUp ==
  ASSUME OrderInv, Exhausted \/ CopyTooLong \/ HalfCharacter \/ TooLong("separator") \/ NameTooLong
  PROVE  OrderInv'
  <1>1. /\ UNCHANGED <<path, dbcs, tried, next_path>>
        /\ \/ pc' \in {"EILSEQ", "ENAMETOOLONG"}
           \/ pc = "next" /\ pc' = "ENOENT" /\ next_path = 0
    BY DEF Exhausted, CopyTooLong, HalfCharacter, TooLong, NameTooLong, inputs
  <1>2. QED
    BY <1>1 DEF OrderInv

LEMMA OrderStart == ASSUME IInv, OrderInv, Start PROVE OrderInv'
  <1>1. /\ UNCHANGED <<path, dbcs, tried, next_path, after>> /\ pc = "next" /\ next_path # 0
        /\ pc' = "copy" /\ p' = next_path /\ pathname' = <<>>
        /\ last_c_lead_p' = FALSE /\ last_c_path_sep_p' = TRUE /\ last_path_sep' = "bsl"
    BY DEF Start, inputs
  <1>2. FlagsSay(pathname)'
    <2>1. Places(<<>>) = {} /\ ~Half(<<>>)
      BY NoFlags
    <2>2. (Places(pathname) = {})' /\ (~Half(pathname))' /\ (pathname = <<>>)'
      BY <1>1, <2>1
    <2>3. QED
      BY <1>1, <2>2 DEF FlagsSay
  <1>3. QED
    BY <1>1, <1>2 DEF OrderInv, Opens

LEMMA OrderCopy == ASSUME IInv, OrderInv, CopyChar PROVE OrderInv'
  <1>1. /\ UNCHANGED <<path, dbcs, tried, next_path, after>> /\ pc = "copy" /\ pc' = "copy"
        /\ ~AtEnd /\ p' = p + 1 /\ pathname' = Append(pathname, path[p])
        /\ path \in Seq(Chars) /\ pathname \in Seq(Chars) /\ p \in 1..Len(path) + 1
    BY DEF CopyChar, inputs, IInv, TypeOK
  <1>2. p \in 1..Len(path) /\ path[p] # "semi" /\ path[p] \in Chars
    BY <1>1 DEF AtEnd
  <1> SUFFICES ASSUME dbcs = "given" PROVE OrderInv'
    BY <1>1 DEF OrderInv
  <1> DEFINE n == Len(tried)
             s == Dirs(path)[p - 1]
  <1>3. Len(s) = n + 1 /\ s[n + 1] = pathname /\ FlagsSay(pathname)
    BY <1>1 DEF OrderInv
  <1>4. FlagsSay(pathname)'
    <2>1. last_c_path_sep_p' = (~last_c_lead_p /\ path[p] \in Separators)
      BY DEF CopyChar
    <2>2. last_c_lead_p' = (~last_c_lead_p /\ path[p] = "lead")
      BY DEF CopyChar
    <2>3. last_path_sep' = IF last_c_path_sep_p' THEN path[p] ELSE last_path_sep
      BY DEF CopyChar
    <2>4. QED
      BY <1>1, <1>2, <1>3, <2>1, <2>2, <2>3, FlagsFurther
  <1>5. Dirs(path)[p] = Extended(s, path[p]) /\ s \in Lists
    BY <1>1, <1>2, DirsDef
  <1>6. Len(Dirs(path)[p]) = n + 1 /\ Dirs(path)[p][n + 1] = Append(pathname, path[p])
    <2> HIDE DEF s, n
    <2>1. QED
      BY <1>2, <1>3, <1>5, ExtendedFacts
  <1>7. p' - 1 = p
    BY <1>1
  <1>8. QED
    BY <1>1, <1>4, <1>6, <1>7 DEF OrderInv

LEMMA OrderEnd == ASSUME IInv, OrderInv, EndOfDirectory PROVE OrderInv'
  <1>1. /\ UNCHANGED <<path, dbcs, tried, next_path, p, pathname, flags>> /\ pc = "copy"
        /\ AtEnd /\ after' = (IF p > Len(path) THEN 0 ELSE p + 1)
        /\ pc' = (IF last_c_path_sep_p THEN "name" ELSE "separator")
        /\ path \in Seq(Chars) /\ pathname \in Seq(Chars) /\ p \in 1..Len(path) + 1
        /\ Len(path) \in Nat /\ Len(tried) \in Nat
    BY DEF EndOfDirectory, inputs, IInv, TypeOK
  <1> SUFFICES ASSUME dbcs = "given" PROVE OrderInv'
    BY <1>1 DEF OrderInv
  <1> DEFINE n == Len(tried)
             k == n + 1
             due == Entries(path)
  <1>2. Len(Dirs(path)[p - 1]) = k /\ Dirs(path)[p - 1][k] = pathname /\ FlagsSay(pathname)
    BY <1>1 DEF OrderInv
  <1>3. /\ k <= Len(due) /\ due[k] = pathname
        /\ p > Len(path) => Len(due) = k
        /\ p <= Len(path) => Len(Dirs(path)[p]) = k + 1 /\ Dirs(path)[p][k + 1] = <<>>
    <2>1. k \in Nat /\ path \in Seq(Chars) /\ p \in 1..Len(path) + 1
      BY <1>1
    <2>2. Len(Dirs(path)[p - 1]) = k /\ Dirs(path)[p - 1][k] = pathname
      BY <1>2
    <2>3. p <= Len(path) => path[p] = "semi"
      BY <1>1 DEF AtEnd
    <2> HIDE DEF k
    <2>4. /\ k <= Len(Entries(path)) /\ Entries(path)[k] = Dirs(path)[p - 1][k]
          /\ p > Len(path) => Len(Entries(path)) = k
          /\ p <= Len(path) => Len(Dirs(path)[p]) = k + 1 /\ Dirs(path)[p][k + 1] = <<>>
      BY ONLY <2>1, <2>2, <2>3, DirectoryEnds, SMTT(30)
    <2>5. QED
      BY <2>2, <2>4
  <1>4. Joint(pathname) = IF last_c_path_sep_p THEN <<>> ELSE <<last_path_sep>>
    BY <1>2, FlagsJoin
  <1>5. Follows(after, k)'
    <2>1. CASE p > Len(path)
      <3>1. after' = 0 /\ Len(due) = k /\ path' = path /\ tried' = tried
        BY <1>1, <1>3, <2>1
      <3>2. QED
        BY <3>1 DEF Follows
    <2>2. CASE p <= Len(path)
      <3>1. after' = p + 1 /\ after' - 1 = p /\ after' # 0
        BY <1>1, <2>2
      <3>2. QED
        BY <1>1, <1>3, <2>2, <3>1 DEF Follows, Opens
    <2>3. QED
      BY <1>1, <2>1, <2>2
  <1>6. last_c_path_sep_p => pathname = due[k] \o Joint(due[k])
    <2>1. last_c_path_sep_p => Joint(due[k]) = <<>>
      BY <1>3, <1>4
    <2>2. pathname \o <<>> = pathname
      BY <1>1
    <2>3. QED
      BY <1>3, <2>1, <2>2
  <1>7. ~last_c_path_sep_p => Joint(due[k]) = <<last_path_sep>>
    BY <1>3, <1>4
  <1>8. n <= Len(due) /\ \A q \in 1..n : tried[q] = WithName(due[q])
    BY DEF OrderInv
  <1>9. CASE last_c_path_sep_p
    <2>1. pc' = "name"
      BY <1>1, <1>9
    <2> HIDE DEF n, due
    <2>2. QED
      BY <1>1, <1>3, <1>5, <1>6, <1>8, <1>9, <2>1 DEF OrderInv, WithName, n, due
  <1>10. CASE ~last_c_path_sep_p
    <2>1. pc' = "separator" /\ last_path_sep' = last_path_sep
      BY <1>1, <1>10 DEF flags
    <2>2. QED
      BY <1>1, <1>3, <1>5, <1>7, <1>8, <1>10, <2>1 DEF OrderInv, WithName
  <1>11. QED
    BY <1>9, <1>10

LEMMA OrderSeparator == ASSUME IInv, OrderInv, AppendSeparator PROVE OrderInv'
  <1>1. /\ UNCHANGED <<path, dbcs, tried, next_path, after>> /\ pc = "separator" /\ pc' = "name"
        /\ pathname' = Append(pathname, last_path_sep) /\ pathname \in Seq(Chars)
    BY DEF AppendSeparator, inputs, IInv, TypeOK
  <1>2. Append(pathname, last_path_sep) = pathname \o <<last_path_sep>>
    BY <1>1
  <1>3. dbcs = "given" => pathname' = Entries(path)[Len(tried) + 1]
                                       \o Joint(Entries(path)[Len(tried) + 1])
    BY <1>1, <1>2 DEF OrderInv
  <1>4. QED
    BY <1>1, <1>3 DEF OrderInv, Follows, Opens, WithName

LEMMA OrderName == ASSUME IInv, OrderInv, AppendName PROVE OrderInv'
  <1>1. /\ UNCHANGED <<path, dbcs, tried, after>> /\ pc = "name" /\ pc' = "given"
        /\ pathname' = pathname \o Name /\ next_path' = after
    BY DEF AppendName, inputs
  <1>2. dbcs = "given" => pathname' = WithName(Entries(path)[Len(tried) + 1])
    BY <1>1 DEF OrderInv, WithName
  <1>3. QED
    BY <1>1, <1>2 DEF OrderInv, Follows, Opens, WithName

LEMMA OrderLook == ASSUME IInv, OrderInv, Look PROVE OrderInv'
  <1>1. /\ UNCHANGED <<path, dbcs, next_path>> /\ pc = "given" /\ pc' \in {"found", "next"}
        /\ tried' = Append(tried, pathname)
    BY DEF Look, inputs
  <1> SUFFICES ASSUME dbcs = "given" PROVE OrderInv'
    BY <1>1 DEF OrderInv
  <1> DEFINE n == Len(tried)
             due == Entries(path)
             T == Seq(Chars)
  <1>2. tried \in Seq(T) /\ pathname \in T
    BY DEF IInv, TypeOK
  <1>3. /\ Len(tried') = n + 1 /\ n \in Nat /\ tried'[n + 1] = pathname
        /\ \A q \in 1..n : tried'[q] = tried[q]
    <2> HIDE DEF T
    <2>1. QED
      BY <1>1, <1>2
  <1>4. /\ n + 1 <= Len(due) /\ pathname = WithName(due[n + 1]) /\ Follows(next_path, n + 1)
        /\ \A q \in 1..n : tried[q] = WithName(due[q])
    BY <1>1 DEF OrderInv
  <1>5. \A q \in 1..n + 1 : tried'[q] = WithName(due[q])
    <2>1. \A q \in 1..n + 1 : q \in 1..n \/ q = n + 1
      BY <1>3
    <2> HIDE DEF n, due
    <2>2. QED
      BY <1>3, <1>4, <2>1
  <1>6. next_path = 0 => Len(due) = n + 1
    BY <1>4 DEF Follows
  <1>7. next_path # 0 => Opens(next_path, (n + 1) + 1)
    BY <1>4 DEF Follows
  <1> HIDE DEF n
  <1>8. QED
    BY <1>1, <1>3, <1>4, <1>5, <1>6, <1>7 DEF OrderInv, Opens, WithName

LEMMA OrderNext == IInv /\ OrderInv /\ [Next]_vars => OrderInv'
  <1> SUFFICES ASSUME IInv, OrderInv, [Next]_vars PROVE OrderInv'
    OBVIOUS
  <1>1. CASE UNCHANGED vars
    BY <1>1 DEF vars, OrderInv, Opens, Follows, WithName, FlagsSay
  <1>2. QED
    BY <1>1, OrderGiveUp, OrderStart, OrderCopy, OrderEnd, OrderSeparator, OrderName, OrderLook
    DEF Next

\* With a DBCS table, for a variable of any length and any number of directories:
\* the search tries each directory once, in the order they are in, joined to the name
\* by the separator that the directory uses, and reports ENOENT only after the last;
\* a second byte that looks like a separator is told apart.
THEOREM SearchGoesInOrder == Spec => []DirectoriesInOrder
  <1>1. IInv /\ OrderInv => DirectoriesInOrder
    <2> SUFFICES ASSUME IInv, OrderInv PROVE DirectoriesInOrder
      OBVIOUS
    <2>1. QED
      BY DEF OrderInv, DirectoriesInOrder, WithName
  <1>2. QED
    BY <1>1, InitInvariant, StepInvariant, OrderInit, OrderNext, PTL DEF Spec

-----------------------------------------------------------------------------
(* FullPath: the path and the stack of its components.                     *)

\* s is a stack of positions up to n: what lies between two of them is a name of
\* at least one character and its separator, below the first one is "D:".
Stack(s, n) ==
  /\ s \in Seq(Nat)
  /\ \A k \in 1..Len(s) : /\ 2 * k <= s[k] /\ s[k] <= n
                          /\ \A l \in 1..k - 1 : s[l] + 2 * (k - l) <= s[k]

\* The stack: up to what is written, less one when the last separator has gone,
\* and to its end in the loop.
Stacked == /\ Stack(comp_start, Len(out) + 1)
           /\ fp_pc # "done" => Stack(comp_start, Len(out))
           /\ fp_pc \in {"cwd", "loop"} => n_comps >= 1
           /\ fp_pc = "loop" => Top = Len(out)

\* The path: it fits, with room for a null while the directory is looked at.
Fitting == /\ size >= 4 /\ ~Strayed => Len(out) <= size
           /\ size >= 4 /\ fp_pc \in {"cwd", "done", "truename", "realpath"} => Len(out) < size
           /\ fp_pc = "cwd" => size >= 4
           /\ n_comps >= 1 \/ fp_pc = "drive" => size <= OutMax

\* Before the work begins, nothing is written, no block is the function's own, and a
\* buffer shorter than _MAX_PATH is the caller's.
Fresh == fp_pc \in {"start", "gcc", "drive"} =>
           /\ out = <<>> /\ comp_start = <<>>
           /\ fp_pc # "drive" => block \in {"caller", "null"}
           /\ fp_pc = "drive" /\ size < OutMax => block = "caller"

\* Where the arguments of truename are swapped, and what goes past the buffer there.
Astray == Strayed => IsNetwork /\ size < OutMax /\ block = "caller" /\ comp_start = <<>>

FpInv == FpTypeOK /\ Stacked /\ Fitting /\ Fresh /\ Astray /\ NoBlockLost

-----------------------------------------------------------------------------
(* Sequences.                                                              *)

LEMMA Least ==
  ASSUME NEW S \in SUBSET Nat, S # {}
  PROVE  \E m \in S : \A n \in S : m <= n
  <1>1. PICK m \in S : \A n \in S : <<n, m>> \notin OpToRel(<, Nat)
    BY WFMin, NatLessThanWellFounded, Zenon
  <1>2. \A n \in S : ~(n < m)
    BY <1>1 DEF OpToRel
  <1>3. QED
    BY <1>2

LEMMA OneOrTwo ==
  ASSUME NEW S, NEW x \in S, NEW y \in S
  PROVE  /\ <<x>> \in Seq(S) /\ Len(<<x>>) \in Nat /\ Len(<<x>>) >= 1
         /\ <<x, y>> \in Seq(S) /\ Len(<<x, y>>) \in Nat /\ Len(<<x, y>>) >= 1
  OBVIOUS

LEMMA Longer ==
  ASSUME NEW S, NEW s \in Seq(S), NEW x \in S
  PROVE  Append(s, x) \in Seq(S) /\ Len(Append(s, x)) = Len(s) + 1 /\ Len(s) \in Nat
  OBVIOUS

LEMMA Joined ==
  ASSUME NEW S, NEW s \in Seq(S), NEW t \in Seq(S)
  PROVE  s \o t \in Seq(S) /\ Len(s \o t) = Len(s) + Len(t) /\ Len(s) \in Nat /\ Len(t) \in Nat
  OBVIOUS

LEMMA Part ==
  ASSUME NEW S, NEW s \in Seq(S), NEW m \in Nat, NEW n \in Nat, 1 <= m, n <= Len(s), m <= n + 1
  PROVE  /\ SubSeq(s, m, n) \in Seq(S) /\ Len(SubSeq(s, m, n)) = n - m + 1
         /\ \A k \in 1..n - m + 1 : SubSeq(s, m, n)[k] = s[m + k - 1]
  <1>1. m \in Int /\ n \in Int /\ \A k \in m..n : s[k] \in S
    OBVIOUS
  <1>2. /\ SubSeq(s, m, n) \in Seq(S)
        /\ Len(SubSeq(s, m, n)) = IF m <= n THEN n - m + 1 ELSE 0
        /\ \A k \in 1..n - m + 1 : SubSeq(s, m, n)[k] = s[m + k - 1]
    BY <1>1, SubSeqProperties
  <1>3. QED
    BY <1>2

LEMMA CutLength ==
  ASSUME NEW S, NEW s \in Seq(S), NEW n \in Nat \ {0}
  PROVE  /\ Cut(s, n) \in Seq(S) /\ Len(Cut(s, n)) \in Nat
         /\ Len(s) >= 1 => Len(Cut(s, n)) >= 1
  <1>1. CASE Len(s) <= n
    BY <1>1 DEF Cut
  <1>2. CASE ~(Len(s) <= n)
    <2>1. 1 \in Nat /\ n \in Nat /\ n <= Len(s) /\ 1 <= n + 1 /\ n >= 1
      BY <1>2
    <2>2. SubSeq(s, 1, n) \in Seq(S) /\ Len(SubSeq(s, 1, n)) = n - 1 + 1
      BY <2>1, Part
    <2>3. Cut(s, n) = SubSeq(s, 1, n)
      BY <1>2 DEF Cut
    <2>4. QED
      BY <2>1, <2>2, <2>3
  <1>3. QED
    BY <1>1, <1>2

-----------------------------------------------------------------------------
(* The stack.                                                              *)

\* Two sums that the positions below a top are compared by.
LEMMA StepUp ==
  ASSUME NEW a \in Int, NEW d \in Int, NEW b \in Int, NEW m \in Int, a + d <= b, b + 2 <= m
  PROVE  a + (d + 2) <= m
  OBVIOUS

LEMMA NoLess ==
  ASSUME NEW a \in Int, NEW d \in Nat, NEW b \in Int, a + d <= b
  PROVE  a <= b
  OBVIOUS

LEMMA OnePosition ==
  ASSUME NEW m \in Nat, m >= 2
  PROVE  Stack(<<m>>, m) /\ Len(<<m>>) = 1 /\ <<m>>[1] = m
  BY DEF Stack

LEMMA NoPosition == ASSUME NEW m \in Nat PROVE Stack(<<>>, m)
  BY DEF Stack

LEMMA Higher ==
  ASSUME NEW s, NEW n \in Nat, NEW m \in Nat, Stack(s, n), n <= m
  PROVE  Stack(s, m)
  BY DEF Stack

LEMMA Push ==
  ASSUME NEW s, NEW n \in Nat, NEW m \in Nat, Stack(s, n), Len(s) >= 1, s[Len(s)] + 2 <= m
  PROVE  Stack(Append(s, m), m) /\ Len(Append(s, m)) = Len(s) + 1 /\ Append(s, m)[Len(s) + 1] = m
  <1> DEFINE t == Append(s, m)
  <1>1. s \in Seq(Nat) /\ Len(s) \in Nat
    BY DEF Stack
  <1>2. t \in Seq(Nat) /\ Len(t) = Len(s) + 1 /\ t[Len(s) + 1] = m
    BY <1>1
  <1>3. \A k \in 1..Len(s) : t[k] = s[k] /\ s[k] \in Nat
    BY <1>1
  <1> HIDE DEF t
  <1>4. ASSUME NEW k \in 1..Len(s)
        PROVE  2 * k <= s[k] /\ s[k] <= s[Len(s)] /\ s[k] + 2 * (Len(s) - k) <= s[Len(s)]
    <2>1. 2 * k <= s[k] /\ s[k] \in Nat /\ Len(s) \in 1..Len(s)
      BY <1>1, <1>3 DEF Stack
    <2>2. k # Len(s) => k \in 1..Len(s) - 1
      BY <1>1
    <2>3. k # Len(s) => s[k] + 2 * (Len(s) - k) <= s[Len(s)]
      BY <2>1, <2>2 DEF Stack
    <2>4. QED
      BY <1>1, <1>3, <2>1, <2>3
  <1>5. ASSUME NEW k \in 1..Len(t)
        PROVE  /\ 2 * k <= t[k] /\ t[k] <= m
               /\ \A l \in 1..k - 1 : t[l] + 2 * (k - l) <= t[k]
    <2>1. CASE k \in 1..Len(s)
      <3>1. t[k] = s[k] /\ \A l \in 1..k - 1 : t[l] = s[l]
        BY <1>1, <1>3, <2>1
      <3>2. 2 * k <= s[k] /\ \A l \in 1..k - 1 : s[l] + 2 * (k - l) <= s[k]
        BY <2>1 DEF Stack
      <3>3. s[k] <= m
        BY <2>1, <1>1, <1>3, <1>4
      <3>4. QED
        BY <3>1, <3>2, <3>3
    <2>2. CASE k = Len(s) + 1
      <3>1. t[k] = m /\ 2 * Len(s) <= s[Len(s)] /\ s[Len(s)] \in Nat
        BY <1>1, <1>2, <1>3, <1>4, <2>2
      <3>2. ASSUME NEW l \in 1..k - 1 PROVE t[l] + 2 * (k - l) <= m
        <4>1. l \in 1..Len(s)
          BY <1>1, <2>2
        <4>2. t[l] = s[l] /\ s[l] \in Nat /\ s[l] + 2 * (Len(s) - l) <= s[Len(s)]
          BY <4>1, <1>3, <1>4
        <4>3. 2 * (k - l) = 2 * (Len(s) - l) + 2
          BY <4>1, <2>2, <1>1
        <4> DEFINE d == 2 * (Len(s) - l)
        <4>4. d \in Int /\ t[l] + 2 * (k - l) = s[l] + (d + 2) /\ s[l] + d <= s[Len(s)]
          BY <4>1, <4>2, <4>3, <1>1
        <4> HIDE DEF d
        <4>5. s[l] \in Int /\ s[Len(s)] \in Int /\ m \in Int
          BY <4>2, <3>1
        <4>6. s[l] + (d + 2) <= m
          BY <4>4, <4>5, StepUp
        <4>7. QED
          BY <4>4, <4>6, Zenon
      <3>3. QED
        BY <3>1, <3>2, <2>2, <1>1
    <2>3. QED
      BY <1>1, <1>2, <2>1, <2>2
  <1>6. QED
    BY <1>2, <1>5 DEF Stack, t

LEMMA Pop ==
  ASSUME NEW s, NEW n \in Nat, Stack(s, n), Len(s) > 1
  PROVE  LET t == SubSeq(s, 1, Len(s) - 1) IN
         Stack(t, s[Len(s) - 1]) /\ Len(t) = Len(s) - 1 /\ t[Len(s) - 1] = s[Len(s) - 1]
  <1> DEFINE m == Len(s) - 1
             t == SubSeq(s, 1, m)
  <1>1. s \in Seq(Nat) /\ Len(s) \in Nat /\ m \in Nat /\ 1 <= m /\ m <= Len(s)
    BY DEF Stack
  <1>2. t \in Seq(Nat) /\ Len(t) = m - 1 + 1 /\ \A k \in 1..m - 1 + 1 : t[k] = s[1 + k - 1]
    BY <1>1, Part
  <1> HIDE DEF t
  <1>3. Len(t) = m /\ \A k \in 1..m : t[k] = s[k]
    BY <1>1, <1>2
  <1>4. \A k \in 1..m : s[k] \in Nat /\ k \in 1..Len(s)
    BY <1>1
  <1>5. \A k \in 1..m : s[k] <= s[m]
    <2>1. m \in 1..Len(s) /\ m \in 1..m
      BY <1>1
    <2>2. \A k \in 1..m - 1 : s[k] + 2 * (m - k) <= s[m]
      BY <2>1 DEF Stack
    <2>3. \A k \in 1..m : k = m \/ k \in 1..m - 1
      BY <1>1
    <2>4. ASSUME NEW k \in 1..m - 1 PROVE s[k] <= s[m]
      <3>1. 2 * (m - k) \in Nat /\ s[k] \in Nat /\ s[m] \in Nat
        BY <1>1, <1>4, <2>1
      <3>2. s[k] + 2 * (m - k) <= s[m]
        BY <2>2
      <3>3. s[k] \in Int /\ s[m] \in Int
        BY <3>1
      <3>4. QED
        BY <3>1, <3>2, <3>3, NoLess
    <2>5. s[m] <= s[m]
      BY <1>4, <2>1
    <2> HIDE DEF m
    <2>6. QED
      BY <2>3, <2>4, <2>5
  <1>6. ASSUME NEW k \in 1..m
        PROVE  2 * k <= s[k] /\ \A l \in 1..k - 1 : s[l] + 2 * (k - l) <= s[k]
    BY <1>4 DEF Stack
  <1>7. Stack(t, s[m])
    <2>1. ASSUME NEW k \in 1..Len(t)
          PROVE  /\ 2 * k <= t[k] /\ t[k] <= s[m]
                 /\ \A l \in 1..k - 1 : t[l] + 2 * (k - l) <= t[k]
      <3> HIDE DEF m
      <3>1. k \in 1..m /\ m \in Nat
        BY <1>1, <1>3
      <3>2. \A l \in 1..k - 1 : l \in 1..m
        BY <3>1
      <3>3. k \in 1..m /\ t[k] = s[k] /\ \A l \in 1..k - 1 : t[l] = s[l]
        BY <3>1, <3>2, <1>3, Zenon
      <3>4. QED
        BY <3>3, <1>5, <1>6
    <2>2. QED
      BY <2>1, <1>2 DEF Stack
  <1>8. QED
    BY <1>1, <1>3, <1>7 DEF t

-----------------------------------------------------------------------------
(* The components.                                                         *)

LEMMA EndInText ==
  ASSUME NEW t \in Seq(FpChars), NEW k \in 1..Len(t)
  PROVE  /\ EndOf(t, k) \in k..Len(t) + 1
         /\ EndOf(t, k) <= Len(t) => /\ t[EndOf(t, k)] \in FpSeparators
                                    /\ ~TrailByte(t, k)[EndOf(t, k)]
         /\ \A l \in k..EndOf(t, k) - 1 : ~(t[l] \in FpSeparators /\ ~TrailByte(t, k)[l])
  <1> DEFINE stops(j) == t[j] \in FpSeparators /\ ~TrailByte(t, k)[j]
             S == {j \in k..Len(t) + 1 : j <= Len(t) => stops(j)}
  <1>1. Len(t) \in Nat /\ k \in Nat
    OBVIOUS
  <1>2. S \in SUBSET Nat /\ Len(t) + 1 \in S
    BY <1>1
  <1> HIDE DEF stops
  <1>3. PICK m \in S : \A n \in S : m <= n
    BY <1>2, Least
  <1>4. ASSUME NEW l \in k..m - 1, stops(l) PROVE FALSE
    <2>1. l \in S
      BY <1>1, <1>3, <1>4
    <2>2. QED
      BY <1>1, <1>3, <2>1
  <1>5. m \in k..Len(t) + 1 /\ (m <= Len(t) => stops(m)) /\ \A l \in k..m - 1 : ~stops(l)
    BY <1>3, <1>4
  <1>6. \E j \in k..Len(t) + 1 :
          (j <= Len(t) => stops(j)) /\ \A l \in k..j - 1 : ~stops(l)
    BY <1>5
  <1>7. EndOf(t, k) = CHOOSE j \in k..Len(t) + 1 :
                        (j <= Len(t) => stops(j)) /\ \A l \in k..j - 1 : ~stops(l)
    BY Zenon DEF EndOf, stops
  <1> DEFINE e == EndOf(t, k)
  <1>8. /\ e \in k..Len(t) + 1
        /\ e <= Len(t) => stops(e)
        /\ \A l \in k..e - 1 : ~stops(l)
    BY <1>6, <1>7, Zenon
  <1>9. QED
    BY <1>8 DEF stops

LEMMA ComponentType ==
  ASSUME FpTypeOK, InLoop
  PROVE  Component \in Seq(FpChars) /\ Len(Component) \in Nat
  <1>1. text \in Seq(FpChars) /\ i \in 1..Len(text) /\ Len(text) \in Nat
    BY FullPathAssumption DEF FpTypeOK, InLoop
  <1>2. EndOf(text, i) \in i..Len(text) + 1
    BY <1>1, EndInText
  <1> DEFINE e == EndOf(text, i) - 1
  <1>3. i \in Nat /\ e \in Nat /\ 1 <= i /\ e <= Len(text) /\ i <= e + 1
    BY <1>1, <1>2
  <1> HIDE DEF e
  <1>4. SubSeq(text, i, e) \in Seq(FpChars) /\ Len(SubSeq(text, i, e)) = e - i + 1
    BY <1>1, <1>3, Part
  <1>5. QED
    BY <1>3, <1>4 DEF Component, e

LEMMA EntryType ==
  ASSUME NEW c \in Seq(FpChars), c # <<>>, Parsed(c)
  PROVE  Entry(c) \in Seq(FpChars) /\ Len(Entry(c)) \in Nat /\ Len(Entry(c)) >= 2
  <1>1. Len(c) \in Nat /\ Len(c) >= 1 /\ "bsl" \in FpChars /\ "dot" \in FpChars
    BY DEF FpChars
  <1>2. NameMax \in Nat \ {0} /\ ExtMax \in Nat \ {0}
    BY FullPathAssumption
  <1>3. CASE Dots(c) = {}
    <2>1. Cut(c, NameMax) \in Seq(FpChars) /\ Len(Cut(c, NameMax)) >= 1
      BY <1>1, <1>2, CutLength
    <2>2. QED
      BY <2>1, <1>1, <1>3, Longer DEF Entry
  <1>4. CASE Dots(c) # {}
    <2> DEFINE d == CHOOSE x \in Dots(c) : TRUE
               name == SubSeq(c, 1, d - 1)
               ext == Cut(SubSeq(c, d + 1, Len(c)), ExtMax)
               dotted == IF ext = <<>> THEN <<>> ELSE <<"dot">> \o ext
    <2>1. d \in Dots(c)
      BY <1>4
    <2>2. d \in 1..Len(c) /\ d > 1
      BY <2>1, <1>4 DEF Parsed, Dots
    <2> HIDE DEF d
    <2>3. name \in Seq(FpChars) /\ Len(name) >= 1
      <3>1. 1 \in Nat /\ d - 1 \in Nat /\ d - 1 <= Len(c) /\ 1 <= d - 1 + 1
        BY <2>2, <1>1
      <3>2. name \in Seq(FpChars) /\ Len(name) = d - 1 - 1 + 1
        BY <3>1, Part
      <3>3. QED
        BY <3>2, <2>2
    <2>4. SubSeq(c, d + 1, Len(c)) \in Seq(FpChars)
      <3>1. d + 1 \in Nat /\ 1 <= d + 1 /\ d + 1 <= Len(c) + 1
        BY <2>2, <1>1
      <3>2. QED
        BY <3>1, <1>1, Part
    <2> HIDE DEF name
    <2>5. /\ ext \in Seq(FpChars) /\ Cut(name, NameMax) \in Seq(FpChars)
          /\ Len(Cut(name, NameMax)) >= 1
      BY <2>3, <2>4, <1>2, CutLength
    <2> HIDE DEF ext
    <2>6. dotted \in Seq(FpChars) /\ <<"bsl">> \in Seq(FpChars) /\ Len(<<"bsl">>) = 1
      BY <2>5, <1>1
    <2> HIDE DEF dotted
    <2>7. Entry(c) = Cut(name, NameMax) \o dotted \o <<"bsl">>
      BY <1>4, Zenon DEF Entry, name, ext, dotted, d
    <2>8. Cut(name, NameMax) \o dotted \in Seq(FpChars) /\ Len(Cut(name, NameMax) \o dotted) >= 1
      BY <2>5, <2>6, Joined
    <2>9. QED
      BY <2>6, <2>7, <2>8, Joined
  <1>5. QED
    BY <1>3, <1>4

-----------------------------------------------------------------------------
(* The invariant is inductive.                                             *)

LEMMA FpInitInvariant == FpInit => FpInv
  <1> SUFFICES ASSUME FpInit PROVE FpInv
    OBVIOUS
  <1>1. size \in Nat /\ out = <<>> /\ comp_start = <<>> /\ base = <<>> /\ fp_pc \in {"start", "gcc"}
    BY FullPathAssumption DEF FpInit
  <1>2. FpTypeOK
    BY <1>1, Empty DEF FpInit, FpTypeOK
  <1>3. Stacked
    BY <1>1, NoPosition DEF Stacked, n_comps, Top
  <1>4. Fitting /\ Fresh /\ Astray /\ NoBlockLost
    <2>1. Len(out) = 0 /\ n_comps = 0
      BY <1>1 DEF n_comps
    <2>2. Fitting
      BY <1>1, <2>1 DEF Fitting
    <2>3. Fresh /\ Astray /\ NoBlockLost
      BY <1>1 DEF FpInit, Fresh, Astray, Strayed, NoBlockLost, Errors
    <2>4. QED
      BY <2>2, <2>3
  <1>5. QED
    BY <1>2, <1>3, <1>4 DEF FpInv

\* A call that fails changes nothing but the block.
LEMMA BailInvariant ==
  ASSUME FpInv, NEW error \in Errors, Bail(error), fp_pc # "done",
         error = "ENAMETOOLONG, too late" <=> Strayed
  PROVE  FpInv'
  <1>1. FpTypeOK'
    BY DEF Bail, FpInv, FpTypeOK, request, buffer
  <1>2. /\ fp_pc' \notin {"start", "gcc", "drive", "cwd", "loop", "done", "truename", "realpath"}
        /\ Strayed' <=> Strayed
    BY DEF Bail, Errors, Strayed
  <1>3. UNCHANGED <<out, comp_start, size, text, drive>>
    BY DEF Bail, buffer, request
  <1>4. Stacked'
    BY <1>2, <1>3 DEF FpInv, Stacked, n_comps, Top
  <1>5. Fitting' /\ Fresh'
    BY <1>2, <1>3 DEF FpInv, Fitting, n_comps, Fresh
  <1>6. NoBlockLost' /\ Astray'
    BY <1>2, <1>3 DEF Bail, NoBlockLost, FpInv, Astray, IsNetwork
  <1>7. QED
    BY <1>1, <1>4, <1>5, <1>6 DEF FpInv

LEMMA Bails ==
  ASSUME FpInv, RealpathFails \/ TooSmall \/ NoMemory \/ NetworkFails \/ StrayTooLong \/ BadDrive
               \/ UpTopTooLong \/ BadName \/ EntryTooLong
  PROVE  FpInv'
  <1>1. PICK error \in Errors : /\ Bail(error) /\ fp_pc # "done"
                                /\ error = "ENAMETOOLONG, too late" <=> Strayed
    <2>1. CASE StrayTooLong
      BY <2>1 DEF StrayTooLong, Errors, Strayed
    <2>2. CASE ~StrayTooLong
      BY <2>2 DEF RealpathFails, TooSmall, NoMemory, NetworkFails, BadDrive, UpTopTooLong,
                  BadName, EntryTooLong, IsUp, IsName, InLoop, Errors, Strayed
    <2>3. QED
      BY <2>1, <2>2
  <1>2. QED
    BY <1>1, BailInvariant

\* The first part of the call, which writes nothing in the ACK build.
LEMMA BeginInvariant ==
  ASSUME FpInv, Prepare \/ Skip
  PROVE  FpInv'
  <1>1. CASE Prepare
    <2>1. FpTypeOK'
      BY <1>1, FullPathAssumption DEF Prepare, FpInv, FpTypeOK, request, buffer
    <2>2. out' = <<>> /\ comp_start' = <<>> /\ size' <= OutMax /\ fp_pc' = "drive"
      BY <1>1, FullPathAssumption DEF Prepare, FpInv, FpTypeOK, Fresh, buffer
    <2>3. Stacked'
      BY <2>2, NoPosition DEF Stacked, n_comps, Top
    <2>4. Fitting' /\ Astray' /\ NoBlockLost'
      BY <2>1, <2>2 DEF Fitting, n_comps, Astray, Strayed, NoBlockLost, Errors, FpTypeOK
    <2>5. size' < OutMax => block' = "caller"
      BY <1>1, FullPathAssumption DEF Prepare, FpInv, Fresh
    <2>6. Fresh'
      BY <2>2, <2>5 DEF Fresh
    <2>7. QED
      BY <2>1, <2>3, <2>4, <2>6 DEF FpInv
  <1>2. CASE Skip
    <2>1. /\ UNCHANGED <<out, comp_start, base, size, block, text, drive>>
          /\ fp_pc' = "loop" /\ fp_pc = "loop"
      BY <1>2 DEF Skip, InLoop, request, buffer
    <2>2. i' \in Nat \ {0}
      BY <1>2 DEF Skip, FpInv, FpTypeOK
    <2>3. FpTypeOK'
      BY <2>1, <2>2 DEF FpInv, FpTypeOK
    <2>4. Stacked' /\ Fitting' /\ Fresh' /\ Astray' /\ NoBlockLost'
      BY <2>1 DEF FpInv, Stacked, n_comps, Top, Fitting, Fresh, Astray, Strayed, NoBlockLost,
                  Errors
    <2>5. QED
      BY <2>3, <2>4 DEF FpInv
  <1>3. QED
    BY <1>1, <1>2

\* DOS's truename fills the buffer by itself; where its arguments are swapped, the
\* path was a network path and the buffer a short one of the caller's.
LEMMA NetworkInvariant ==
  ASSUME FpInv, (\E n \in 3..OutMax - 1 : Network(n) \/ NetworkStrays(n))
               \/ \E n \in 0..OutMax : StrayCopied(n)
  PROVE  FpInv'
  <1>1. PICK n \in 0..OutMax : \/ Network(n) /\ n < OutMax
                              \/ NetworkStrays(n) \/ StrayCopied(n)
    BY FullPathAssumption
  <1> DEFINE result == [k \in 1..n |-> "chr"]
  <1>2. result \in Seq(FpChars) /\ Len(result) = n
    BY FullPathAssumption DEF FpChars
  <1> HIDE DEF result
  <1>3. /\ out' = result /\ UNCHANGED <<text, drive, size, block, i, comp_start, base>>
        /\ fp_pc' \in {"truename", "strays", "copied"}
        /\ fp_pc' = "truename" => fp_pc = "drive" /\ n < OutMax /\ size >= OutMax
        /\ fp_pc' # "truename" => \/ fp_pc = "drive" /\ IsNetwork /\ size < OutMax
                                 \/ fp_pc = "strays"
    BY <1>1 DEF Network, NetworkStrays, Truename, StrayCopied, request, result
  <1>4. comp_start = <<>> /\ size \in Nat /\ OutMax \in Nat
    BY <1>3, FullPathAssumption DEF FpInv, Fresh, Astray, Strayed, FpTypeOK
  <1>5. FpTypeOK'
    BY <1>2, <1>3 DEF FpInv, FpTypeOK, FpChars
  <1>6. Stacked'
    BY <1>2, <1>3, <1>4, NoPosition DEF Stacked, n_comps, Top
  <1>7. Astray'
    BY <1>3, <1>4 DEF FpInv, Astray, Strayed, Fresh, IsNetwork
  <1>8. Fitting'
    <2>1. Len(out') = n /\ n_comps' = 0 /\ size' = size
      BY <1>2, <1>3, <1>4 DEF n_comps
    <2>2. fp_pc' \notin {"cwd", "drive", "done", "realpath"} /\ (fp_pc' = "truename" => n < size)
      BY <1>3, <1>4
    <2>3. fp_pc' = "truename" \/ Strayed'
      BY <1>3 DEF Strayed
    <2>4. QED
      BY <1>4, <2>1, <2>2, <2>3 DEF Fitting
  <1>9. Fresh' /\ NoBlockLost'
    BY <1>3 DEF Fresh, NoBlockLost, Errors
  <1>10. QED
    BY <1>5, <1>6, <1>7, <1>8, <1>9 DEF FpInv

LEMMA RealpathInvariant ==
  ASSUME FpInv, NEW n \in 3..OutMax - 1, Realpath(n)
  PROVE  FpInv'
  <1>1. /\ OutMax \in Nat /\ size \in Nat /\ comp_start = <<>> /\ out = <<>> /\ fp_pc = "gcc"
        /\ block \in {"caller", "null", "freed"} /\ UNCHANGED <<request, i, comp_start, base>>
    BY FullPathAssumption DEF FpInv, FpTypeOK, Fresh, Realpath
  <1>2. CASE block = "null" \/ n < size
    <2> DEFINE result == [k \in 1..n |-> "chr"]
    <2>1. result \in Seq(FpChars) /\ Len(result) = n
      BY <1>1 DEF FpChars
    <2> HIDE DEF result
    <2>2. /\ out' = result /\ fp_pc' = "realpath" /\ block' \in {"caller", "ours", "freed"}
          /\ size' \in Nat /\ n < size'
      BY <1>1, <1>2 DEF Realpath, result
    <2>3. FpTypeOK'
      BY <1>1, <2>1, <2>2 DEF FpInv, FpTypeOK, request, FpChars
    <2>4. Stacked'
      BY <1>1, <2>1, <2>2, NoPosition DEF Stacked, n_comps, Top
    <2>5. Fitting' /\ Fresh' /\ Astray' /\ NoBlockLost'
      BY <1>1, <2>1, <2>2 DEF Fitting, n_comps, Fresh, Astray, Strayed, NoBlockLost, Errors
    <2>6. QED
      BY <2>3, <2>4, <2>5 DEF FpInv
  <1>3. CASE ~(block = "null" \/ n < size)
    <2>1. fp_pc' = "ENAMETOOLONG" /\ UNCHANGED <<out, size, block>>
      BY <1>3 DEF Realpath
    <2>2. FpTypeOK'
      BY <1>1, <2>1 DEF FpInv, FpTypeOK, request, Errors
    <2>3. Stacked' /\ Fitting' /\ Fresh' /\ Astray' /\ NoBlockLost'
      BY <1>1, <2>1, NoPosition DEF FpInv, Stacked, n_comps, Top, Fitting, Fresh, Astray, Strayed, NoBlockLost
    <2>4. QED
      BY <2>2, <2>3 DEF FpInv
  <1>4. QED
    BY <1>2, <1>3

\* The prefix of an absolute path, and the working directory.
LEMMA PrefixInvariant ==
  ASSUME FpInv, Rooted \/ NoCwd \/ Cwd
  PROVE  FpInv'
  <1> DEFINE rooted == <<"drv", "col", "bsl">>
             bare == <<"drv", "col">>
  <1>1. /\ rooted \in Seq(FpChars \union {"drv", "col"}) /\ Len(rooted) = 3
        /\ bare \in Seq(FpChars \union {"drv", "col"}) /\ Len(bare) = 2
    BY DEF FpChars
  <1> HIDE DEF rooted, bare
  <1>2. fp_pc = "drive" /\ UNCHANGED <<request, size, block>> /\ size <= OutMax /\ size \in Nat
    BY DEF Rooted, NoCwd, Cwd, Begin, FpInv, Fitting, FpTypeOK
  <1>3. /\ out' \in {rooted, bare} /\ comp_start' = <<Len(out')>> /\ i' \in {1, 2}
        /\ base' \in {base, out'} /\ fp_pc' \in {"loop", "cwd"}
        /\ fp_pc' = "cwd" => size >= 4
    BY DEF Rooted, NoCwd, Cwd, Begin, rooted, bare
  <1>4. Len(out') \in {2, 3} /\ out' \in Seq(FpChars \union {"drv", "col"})
    BY <1>1, <1>3
  <1>5. Stack(comp_start', Len(out')) /\ Len(comp_start') = 1 /\ comp_start'[1] = Len(out')
    <2> DEFINE m == Len(out')
    <2>1. m \in Nat /\ m >= 2 /\ comp_start' = <<m>>
      BY <1>3, <1>4
    <2> HIDE DEF m
    <2>2. Stack(comp_start', m) /\ Len(comp_start') = 1 /\ comp_start'[1] = m
      BY <2>1, OnePosition, Zenon
    <2>3. QED
      BY <2>2 DEF m
  <1>6. Stack(comp_start', Len(out') + 1)
    BY <1>4, <1>5, Higher
  <1>7. FpTypeOK'
    <2>1. comp_start' \in Seq(Nat)
      BY <1>5 DEF Stack
    <2>2. QED
      BY <1>2, <1>3, <1>4, <2>1 DEF FpInv, FpTypeOK, request
  <1>8. Stacked'
    BY <1>5, <1>6 DEF Stacked, n_comps, Top
  <1>9. Fitting' /\ Fresh' /\ Astray' /\ NoBlockLost'
    <2>1. /\ UNCHANGED size
          /\ fp_pc' \notin Errors \union {"start", "gcc", "drive", "done", "realpath"}
      BY <1>2, <1>3 DEF Errors
    <2>2. size >= 4 => Len(out') < size /\ Len(out') <= size
      <3>1. size \in Nat
        BY <1>2
      <3>2. ASSUME NEW m \in {2, 3}, size >= 4 PROVE m < size /\ m <= size
        BY <3>1, <3>2
      <3>3. QED
        BY <3>2, <1>4, Zenon
    <2>3. QED
      BY <2>1, <2>2, <1>2, <1>3 DEF Fitting, Fresh, Astray, Strayed, NoBlockLost
  <1>10. QED
    BY <1>7, <1>8, <1>9 DEF FpInv

\* The working directory grows by cs, and may have one more component.
LEMMA CwdInvariant ==
  ASSUME FpInv, CwdSingle \/ (\E t \in Trails : CwdDouble(t)) \/ CwdSeparator
  PROVE  FpInv'
  <1>1. PICK cs \in {<<"chr">>, <<"bsl">>} \union {<<"lead", t>> : t \in Trails} : CwdMore(cs)
    BY DEF CwdSingle, CwdDouble, CwdSeparator
  <1>2. cs \in Seq(FpChars \union {"drv", "col"}) /\ Len(cs) \in Nat /\ Len(cs) >= 1
    <2>1. CASE cs = <<"chr">> \/ cs = <<"bsl">>
      <3>1. "chr" \in FpChars \union {"drv", "col"} /\ "bsl" \in FpChars \union {"drv", "col"}
        BY DEF FpChars
      <3>2. QED
        BY <2>1, <3>1, OneOrTwo, Zenon
    <2>2. CASE \E t \in Trails : cs = <<"lead", t>>
      <3>1. PICK t \in Trails : cs = <<"lead", t>>
        BY <2>2
      <3>2. "lead" \in FpChars \union {"drv", "col"} /\ t \in FpChars \union {"drv", "col"}
        BY DEF FpChars, Trails
      <3>3. QED
        BY <3>1, <3>2, OneOrTwo, Zenon
    <2>3. QED
      BY <1>1, <2>1, <2>2
  <1>3. /\ fp_pc = "cwd" /\ UNCHANGED <<request, size, block, fp_pc, i, base>> /\ out' = out \o cs
        /\ Len(out) + Len(cs) < size
    BY <1>1 DEF CwdMore
  <1>4. out \in Seq(FpChars \union {"drv", "col"}) /\ Len(out) \in Nat /\ size \in Nat
    BY DEF FpInv, FpTypeOK
  <1>5. /\ out' \in Seq(FpChars \union {"drv", "col"})
        /\ Len(out') \in Nat /\ Len(out') < size /\ Len(out) < Len(out')
    <2>1. out' \in Seq(FpChars \union {"drv", "col"}) /\ Len(out') = Len(out) + Len(cs)
      BY <1>2, <1>3, <1>4, Joined
    <2>2. QED
      BY <2>1, <1>2, <1>3, <1>4
  <1>6. Stack(comp_start, Len(out)) /\ n_comps >= 1 /\ comp_start \in Seq(Nat)
    BY <1>3 DEF FpInv, Stacked, FpTypeOK
  <1>7. Stack(comp_start', Len(out')) /\ Len(comp_start') >= 1
    <2>1. CASE UNCHANGED comp_start
      BY <2>1, <1>4, <1>5, <1>6, Higher DEF n_comps
    <2>2. CASE CwdSeparator
      <3>1. comp_start' = Append(comp_start, Len(out')) /\ Top # Len(out) /\ cs = <<"bsl">>
        <4>1. CwdMore(<<"bsl">>) /\ comp_start' = Append(comp_start, Len(out')) /\ Top # Len(out)
          BY <2>2 DEF CwdSeparator
        <4>2. out' = out \o <<"bsl">>
          BY <4>1 DEF CwdMore
        <4>3. cs = <<"bsl">>
          BY <4>2, <1>2, <1>3, <1>4 DEF FpChars
        <4>4. QED
          BY <4>1, <4>3
      <3>2. Len(out') = Len(out) + 1
        BY <3>1, <1>3, <1>4, Joined DEF FpChars
      <3>3. Top \in Nat /\ Top <= Len(out)
        BY <1>6 DEF Stack, n_comps, Top
      <3>4. Top + 2 <= Len(out')
        BY <3>1, <3>2, <3>3, <1>4
      <3>5. QED
        BY <3>1, <3>4, <1>4, <1>5, <1>6, Push DEF n_comps, Top
    <2>3. QED
      BY <2>1, <2>2 DEF CwdSingle, CwdDouble
  <1>8. Stack(comp_start', Len(out') + 1)
    BY <1>5, <1>7, Higher
  <1>9. FpTypeOK'
    <2>1. comp_start' \in Seq(Nat)
      BY <1>7 DEF Stack
    <2>2. QED
      BY <1>3, <1>5, <2>1 DEF FpInv, FpTypeOK, request
  <1>10. Stacked'
    BY <1>3, <1>7, <1>8 DEF Stacked, n_comps, Top
  <1>11. Fitting' /\ Fresh' /\ Astray' /\ NoBlockLost'
    BY <1>3, <1>4, <1>5, <1>6 DEF FpInv, Fitting, n_comps, Fresh, Astray, Strayed, NoBlockLost, Errors
  <1>12. QED
    BY <1>9, <1>10, <1>11 DEF FpInv

LEMMA CwdEndInvariant ==
  ASSUME FpInv, CwdEnd
  PROVE  FpInv'
  <1>1. /\ fp_pc = "cwd" /\ fp_pc' = "loop" /\ base' = out' /\ UNCHANGED <<request, size, block, i>>
        /\ out \in Seq(FpChars \union {"drv", "col"}) /\ Len(out) \in Nat /\ size \in Nat
        /\ Len(out) < size /\ size <= OutMax
    BY DEF CwdEnd, FpInv, FpTypeOK, Fitting, Stacked
  <1>2. Stack(comp_start, Len(out)) /\ n_comps >= 1 /\ n_comps \in Nat
    BY <1>1 DEF FpInv, Stacked, FpTypeOK, n_comps
  <1>3. Top \in Nat /\ Top <= Len(out)
    BY <1>2 DEF Stack, n_comps, Top
  <1>4. /\ out' \in Seq(FpChars \union {"drv", "col"}) /\ Len(out') \in Nat /\ Len(out') <= size
        /\ Stack(comp_start', Len(out')) /\ Len(comp_start') >= 1
        /\ comp_start'[Len(comp_start')] = Len(out')
    <2>1. CASE Top = Len(out)
      BY <2>1, <1>1, <1>2 DEF CwdEnd, n_comps, Top
    <2>2. CASE Top # Len(out)
      <3>1. out' = Append(out, "bsl") /\ comp_start' = Append(comp_start, Len(out'))
        BY <2>2 DEF CwdEnd
      <3>2. out' \in Seq(FpChars \union {"drv", "col"}) /\ Len(out') = Len(out) + 1
        BY <3>1, <1>1, Longer DEF FpChars
      <3>3. Top + 2 <= Len(out') /\ Len(out') \in Nat /\ Len(out') <= size
        BY <2>2, <3>2, <1>1, <1>3
      <3>4. /\ Stack(comp_start', Len(out')) /\ Len(comp_start') = n_comps + 1
            /\ comp_start'[n_comps + 1] = Len(out')
        BY <3>1, <3>3, <1>1, <1>2, Push DEF n_comps, Top
      <3>5. QED
        BY <3>2, <3>3, <3>4, <1>2
    <2>3. QED
      BY <2>1, <2>2
  <1>5. Stack(comp_start', Len(out') + 1)
    BY <1>4, Higher
  <1>6. FpTypeOK'
    <2>1. comp_start' \in Seq(Nat)
      BY <1>4 DEF Stack
    <2>2. QED
      BY <1>1, <1>4, <2>1 DEF FpInv, FpTypeOK, request
  <1>7. Stacked'
    BY <1>1, <1>4, <1>5 DEF Stacked, n_comps, Top
  <1>8. Fitting' /\ Fresh' /\ Astray' /\ NoBlockLost'
    BY <1>1, <1>4 DEF Fitting, n_comps, Fresh, Astray, Strayed, NoBlockLost, Errors
  <1>9. QED
    BY <1>6, <1>7, <1>8 DEF FpInv

\* One component of the path more, one less, or a ".." that cannot go up.
LEMMA ComponentInvariant ==
  ASSUME FpInv, AddName \/ Up \/ UpTop
  PROVE  FpInv'
  <1> DEFINE All == FpChars \union {"drv", "col"}
  <1>1. /\ fp_pc = "loop" /\ InLoop /\ UNCHANGED <<request, size, block, fp_pc, base>>
        /\ i' = i + Len(Component) /\ FpTypeOK
    BY DEF AddName, Up, UpTop, IsName, IsUp, InLoop, NextComponent, FpInv
  <1>2. /\ out \in Seq(All) /\ Len(out) \in Nat /\ size \in Nat /\ comp_start \in Seq(Nat)
        /\ n_comps \in Nat /\ n_comps >= 1 /\ Stack(comp_start, Len(out)) /\ Top = Len(out)
        /\ size <= OutMax
    BY <1>1 DEF FpInv, FpTypeOK, Stacked, Fitting, n_comps
  <1>3. /\ Component \in Seq(FpChars) /\ Len(Component) \in Nat /\ i' \in Nat \ {0}
    BY <1>1, ComponentType DEF FpTypeOK
  <1> HIDE DEF All
  <1>4. /\ out' \in Seq(All) /\ Len(out') \in Nat
        /\ Len(out') < size \/ Len(out') <= Len(out)
        /\ Stack(comp_start', Len(out')) /\ Len(comp_start') >= 1
        /\ comp_start'[Len(comp_start')] = Len(out')
    <2>1. CASE AddName
      <3> DEFINE entry == Entry(Component)
      <3>1. /\ out' = out \o entry /\ comp_start' = Append(comp_start, Len(out'))
            /\ Len(out) + Len(entry) < size
        BY <2>1 DEF AddName, Fits
      <3>2. entry \in Seq(FpChars) /\ Len(entry) \in Nat /\ Len(entry) >= 2
        BY <2>1, <1>3, EntryType DEF AddName, IsName
      <3> HIDE DEF entry
      <3>3. entry \in Seq(All)
        BY <3>2 DEF All
      <3>4. out' \in Seq(All) /\ Len(out') = Len(out) + Len(entry)
        BY <3>1, <3>3, <1>2, Joined
      <3>5. Len(out') \in Nat /\ Len(out') < size /\ Top + 2 <= Len(out')
        BY <3>1, <3>2, <3>4, <1>2
      <3>6. /\ Stack(comp_start', Len(out')) /\ Len(comp_start') = n_comps + 1
            /\ comp_start'[n_comps + 1] = Len(out')
        BY <3>1, <3>5, <1>2, Push DEF n_comps, Top
      <3>7. QED
        BY <3>4, <3>5, <3>6, <1>2
    <2>2. CASE Up
      <3> DEFINE m == comp_start[n_comps - 1]
      <3>1. /\ n_comps > 1 /\ out' = SubSeq(out, 1, m)
            /\ comp_start' = SubSeq(comp_start, 1, n_comps - 1)
        BY <2>2 DEF Up
      <3>2. n_comps - 1 \in 1..Len(comp_start)
        BY <3>1, <1>2 DEF n_comps
      <3>3. m \in Nat /\ m <= Len(out) /\ 1 <= m + 1
        BY <3>2, <1>2 DEF Stack
      <3>4. /\ Stack(comp_start', m) /\ Len(comp_start') = n_comps - 1
            /\ comp_start'[n_comps - 1] = m
        BY <3>1, <1>2, Pop DEF n_comps
      <3> HIDE DEF m
      <3>5. out' \in Seq(All) /\ Len(out') = m
        BY <3>1, <3>3, <1>2, Part
      <3>6. QED
        BY <3>1, <3>3, <3>4, <3>5, <1>2
    <2>3. CASE UpTop
      <3> DEFINE ups == <<"dot", "dot", "bsl">>
      <3>1. ups \in Seq(All) /\ Len(ups) = 3
        BY DEF All, FpChars
      <3> HIDE DEF ups
      <3>2. /\ n_comps = 1 /\ out' = SubSeq(out, 1, Top) \o ups /\ comp_start' = <<Top + 3>>
            /\ Top + Len(ups) < size
        BY <2>3 DEF UpTop, Fits, ups
      <3>3. SubSeq(out, 1, Top) = out
        BY <1>2
      <3>4. out' \in Seq(All) /\ Len(out') = Len(out) + 3
        BY <3>1, <3>2, <3>3, <1>2, Joined, ZenonT(60)
      <3> DEFINE m == Top + 3
      <3>5. m \in Nat /\ m >= 2 /\ comp_start' = <<m>> /\ m = Len(out') /\ m < size
        BY <3>1, <3>2, <3>4, <1>2
      <3> HIDE DEF m
      <3>6. Stack(comp_start', m) /\ Len(comp_start') = 1 /\ comp_start'[1] = m
        BY <3>5, OnePosition, Zenon
      <3>7. QED
        BY <3>4, <3>5, <3>6
    <2>4. QED
      BY <2>1, <2>2, <2>3
  <1>5. Stack(comp_start', Len(out') + 1)
    BY <1>4, Higher
  <1>6. FpTypeOK'
    <2>1. comp_start' \in Seq(Nat)
      BY <1>4 DEF Stack
    <2>2. QED
      BY <1>1, <1>3, <1>4, <2>1 DEF FpTypeOK, request, All
  <1>7. Stacked'
    BY <1>1, <1>4, <1>5 DEF Stacked, n_comps, Top
  <1>8. Fitting' /\ Fresh' /\ Astray' /\ NoBlockLost'
    <2>1. fp_pc' = "loop" /\ UNCHANGED size
      BY <1>1
    <2>2. size >= 4 => Len(out') <= size
      BY <1>1, <1>2, <1>4 DEF FpInv, Fitting, Strayed
    <2>3. QED
      BY <2>1, <2>2, <1>2 DEF Fitting, Fresh, Astray, Strayed, NoBlockLost, Errors
  <1>9. QED
    BY <1>6, <1>7, <1>8 DEF FpInv

LEMMA FinishInvariant ==
  ASSUME FpInv, Finish
  PROVE  FpInv'
  <1> DEFINE All == FpChars \union {"drv", "col"}
             m == Len(out) - 1
  <1>1. /\ fp_pc = "loop" /\ fp_pc' = "done"
        /\ UNCHANGED <<request, size, block, i, comp_start, base>>
        /\ out \in Seq(All) /\ Len(out) \in Nat /\ size \in Nat /\ comp_start \in Seq(Nat)
        /\ Stack(comp_start, Len(out)) /\ n_comps >= 1 /\ size <= OutMax
        /\ size >= 4 => Len(out) <= size
    BY DEF Finish, FpInv, FpTypeOK, Stacked, Fitting, Strayed
  <1> HIDE DEF All
  <1>2. /\ out' \in Seq(All) /\ Len(out') \in Nat /\ Len(out) <= Len(out') + 1
        /\ size >= 4 => Len(out') < size
    <2>1. CASE Len(out) > 3
      <3>1. out' = SubSeq(out, 1, m) /\ m \in Nat /\ m <= Len(out) /\ 1 <= m + 1
        BY <2>1, <1>1 DEF Finish
      <3> HIDE DEF m
      <3>2. out' \in Seq(All) /\ Len(out') = m - 1 + 1
        BY <3>1, <1>1, Part
      <3>3. QED
        BY <3>1, <3>2, <1>1 DEF m
    <2>2. CASE ~(Len(out) > 3)
      BY <2>2, <1>1 DEF Finish
    <2>3. QED
      BY <2>1, <2>2
  <1>3. Stack(comp_start', Len(out') + 1)
    BY <1>1, <1>2, Higher
  <1>4. FpTypeOK'
    BY <1>1, <1>2 DEF FpInv, FpTypeOK, request, All
  <1>5. Stacked' /\ Fresh' /\ Astray' /\ NoBlockLost'
    BY <1>1, <1>3 DEF Stacked, Fresh, Astray, Strayed, NoBlockLost, Errors
  <1>6. Fitting'
    <2>1. size >= 4 => Len(out') <= size
      BY <1>1, <1>2
    <2>2. QED
      BY <2>1, <1>1, <1>2 DEF Fitting
  <1>7. QED
    BY <1>4, <1>5, <1>6 DEF FpInv

LEMMA NextInvariant == FpInv /\ [FpNext]_fpVars => FpInv'
  <1> SUFFICES ASSUME FpInv, [FpNext]_fpVars PROVE FpInv'
    OBVIOUS
  <1>1. CASE UNCHANGED fpVars
    <2>1. UNCHANGED <<text, drive, size, block, fp_pc, i, out, comp_start, base>>
      BY <1>1 DEF fpVars
    <2>2. FpTypeOK'
      BY <2>1 DEF FpInv, FpTypeOK
    <2>3. Stacked'
      BY <2>1 DEF FpInv, Stacked, Stack, n_comps, Top
    <2>4. Fresh' /\ NoBlockLost'
      BY <2>1 DEF FpInv, Fresh, NoBlockLost, Errors
    <2>5. Fitting'
      BY <2>1 DEF FpInv, Fitting, Strayed, n_comps
    <2>6. Astray'
      BY <2>1 DEF FpInv, Astray, Strayed, IsNetwork
    <2>7. QED
      BY <2>2, <2>3, <2>4, <2>5, <2>6 DEF FpInv
  <1>2. CASE \E n \in 3..OutMax - 1 : Realpath(n)
    BY <1>2, RealpathInvariant
  <1>3. CASE RealpathFails \/ TooSmall \/ NoMemory \/ NetworkFails \/ StrayTooLong
             \/ BadDrive \/ UpTopTooLong \/ BadName \/ EntryTooLong
    BY <1>3, Bails
  <1>4. CASE Prepare \/ Skip
    BY <1>4, BeginInvariant
  <1>11. CASE (\E n \in 3..OutMax - 1 : Network(n) \/ NetworkStrays(n))
              \/ \E n \in 0..OutMax : StrayCopied(n)
    BY <1>11, NetworkInvariant
  <1>5. CASE Rooted \/ NoCwd \/ Cwd
    BY <1>5, PrefixInvariant
  <1>6. CASE CwdSingle \/ (\E t \in Trails : CwdDouble(t)) \/ CwdSeparator
    BY <1>6, CwdInvariant
  <1>7. CASE CwdEnd
    BY <1>7, CwdEndInvariant
  <1>8. CASE AddName \/ Up \/ UpTop
    BY <1>8, ComponentInvariant
  <1>9. CASE Finish
    BY <1>9, FinishInvariant
  <1>10. QED
    BY <1>1, <1>2, <1>3, <1>4, <1>5, <1>6, <1>7, <1>8, <1>9, <1>11 DEF FpNext

THEOREM Invariant == FpSpec => []FpInv
  BY FpInitInvariant, NextInvariant, PTL DEF FpSpec

-----------------------------------------------------------------------------
(* The theorems.                                                           *)

\* What _fullpath writes, and what it returns with its null, fits in a buffer of four
\* bytes or more; but for a network path and a buffer of the caller's that is
\* shorter than _MAX_PATH, and only there.
THEOREM PathFits == FpSpec => []WithinBuffer
  <1>1. FpInv => WithinBuffer
    BY DEF FpInv, Fitting, Astray, WithinBuffer
  <1>2. QED
    BY <1>1, Invariant, PTL

\* The positions fit in their array, and going back to one stays in the path.
THEOREM PositionsFit == FpSpec => []StackFits
  <1>1. ASSUME FpInv PROVE StackFits
    <2>1. Stack(comp_start, Len(out) + 1) /\ size \in Nat /\ Len(out) \in Nat /\ n_comps \in Nat
          /\ comp_start \in Seq(Nat)
      BY <1>1 DEF FpInv, Stacked, FpTypeOK, n_comps
    <2>2. ASSUME NEW k \in 1..n_comps
          PROVE  comp_start[k] <= Len(out) + 1 /\ \A l \in 1..k - 1 : comp_start[l] < comp_start[k]
      <3>1. comp_start[k] <= Len(out) + 1
        BY <2>1 DEF Stack, n_comps
      <3>2. ASSUME NEW l \in 1..k - 1 PROVE comp_start[l] < comp_start[k]
        <4>1. comp_start[l] + 2 * (k - l) <= comp_start[k]
          BY <2>1 DEF Stack, n_comps
        <4>2. 2 * (k - l) \in Nat \ {0} /\ comp_start[l] \in Nat /\ comp_start[k] \in Nat
          BY <2>1 DEF n_comps
        <4>3. QED
          BY <4>1, <4>2
      <3>3. QED
        BY <3>1, <3>2
    <2>3. ASSUME size >= 4 PROVE 2 * n_comps <= OutMax
      <3>1. CASE n_comps >= 1
        <4>1. 2 * n_comps <= comp_start[n_comps] /\ comp_start[n_comps] \in Nat
          BY <3>1, <2>1 DEF Stack, n_comps
        <4>5. ~Strayed
          BY <3>1, <1>1 DEF FpInv, Astray, n_comps
        <4>2. Len(out) <= size /\ size <= OutMax /\ OutMax \in Nat
          BY <4>5, <3>1, <2>3, <1>1, FullPathAssumption DEF FpInv, Fitting
        <4>3. comp_start[n_comps] <= size
          <5>1. CASE fp_pc = "done"
            <6>1. Len(out) < size /\ comp_start[n_comps] <= Len(out) + 1
              BY <5>1, <3>1, <2>1, <2>3, <1>1 DEF FpInv, Fitting, Stack, n_comps
            <6>2. QED
              BY <6>1, <4>1, <2>1
          <5>2. CASE fp_pc # "done"
            <6>1. comp_start[n_comps] <= Len(out)
              BY <5>2, <3>1, <2>1, <1>1 DEF FpInv, Stacked, Stack, n_comps
            <6>2. QED
              BY <6>1, <4>1, <4>2, <2>1
          <5>3. QED
            BY <5>1, <5>2
        <4>4. QED
          BY <4>1, <4>2, <4>3, <2>1
      <3>2. CASE n_comps = 0
        BY <3>2, FullPathAssumption
      <3>3. QED
        BY <3>1, <3>2, <2>1
    <2>4. QED
      BY <2>2, <2>3 DEF StackFits
  <1>2. QED
    BY <1>1, Invariant, PTL

\* A call that fails has freed the block it allocated.
THEOREM BlockFreed == FpSpec => []NoBlockLost
  <1>1. FpInv => NoBlockLost
    BY DEF FpInv
  <1>2. QED
    BY <1>1, Invariant, PTL

\* A call writes past no buffer of four bytes or more, unless the path is a network
\* path and the buffer one of the caller's shorter than _MAX_PATH; it never writes
\* past the array of positions, and keeps no memory when it fails.
THEOREM CallIsSafe == FpSpec => []FpSafe
  BY PathFits, PositionsFit, BlockFreed, PTL DEF FpSafe

-----------------------------------------------------------------------------
(* FullPath: reading a path for its components.                            *)

Strings == Seq(FpChars)
Readings == [names : Seq(Strings), open : Strings, half : BOOLEAN]
ReadStep == [r \in Readings |-> [c \in FpChars |-> ReadBy(r, c)]]

LEMMA ClosedType == \A r \in Readings : Closed(r) \in Seq(Strings)
  BY DEF Closed, Readings

LEMMA ReadByType == \A r \in Readings, c \in FpChars : ReadBy(r, c) \in Readings
  <1> SUFFICES ASSUME NEW r \in Readings, NEW c \in FpChars PROVE ReadBy(r, c) \in Readings
    OBVIOUS
  <1>1. <<>> \in Strings /\ Append(r.open, c) \in Strings
    <2>1. r.open \in Seq(FpChars)
      BY DEF Readings, Strings
    <2>2. QED
      BY <2>1 DEF Strings
  <1>2. Closed(r) \in Seq(Strings)
    BY ClosedType
  <1>3. CASE c \in FpSeparators /\ ~r.half
    BY <1>1, <1>2, <1>3 DEF ReadBy, Readings
  <1>4. CASE ~(c \in FpSeparators /\ ~r.half)
    <2> DEFINE d == Append(r.open, c)
               b == (~r.half /\ c = "lead")
    <2>1. ReadBy(r, c) = [r EXCEPT !.open = d, !.half = b]
      BY <1>4 DEF ReadBy
    <2>2. b \in BOOLEAN /\ d \in Strings
      BY <1>1
    <2> HIDE DEF b, d
    <2>3. [r EXCEPT !.open = d, !.half = b] \in Readings
      BY <2>2 DEF Readings
    <2>4. QED
      BY <2>1, <2>3
  <1>5. QED
    BY <1>3, <1>4

\* What was read after a character
LEMMA ReadByFacts ==
  ASSUME NEW r \in Readings, NEW c \in FpChars
  PROVE  /\ c \in FpSeparators /\ ~r.half => /\ ReadBy(r, c).names = Closed(r)
                                             /\ ReadBy(r, c).open = <<>> /\ ~ReadBy(r, c).half
         /\ c \notin FpSeparators \/ r.half => /\ ReadBy(r, c).names = r.names
                                               /\ ReadBy(r, c).open = Append(r.open, c)
                                               /\ ReadBy(r, c).half <=> ~r.half /\ c = "lead"
  <1>1. CASE c \in FpSeparators /\ ~r.half
    <2>1. ReadBy(r, c) = [names |-> Closed(r), open |-> <<>>, half |-> FALSE]
      BY <1>1 DEF ReadBy
    <2>2. QED
      BY <1>1, <2>1
  <1>2. CASE ~(c \in FpSeparators /\ ~r.half)
    <2> DEFINE d == Append(r.open, c)
               b == (~r.half /\ c = "lead")
    <2>1. ReadBy(r, c) = [r EXCEPT !.open = d, !.half = b]
      BY <1>2 DEF ReadBy
    <2> HIDE DEF b, d
    <2>2. /\ [r EXCEPT !.open = d, !.half = b].names = r.names
          /\ [r EXCEPT !.open = d, !.half = b].open = d
          /\ [r EXCEPT !.open = d, !.half = b].half = b
      BY DEF Readings
    <2>3. QED
      BY <1>2, <2>1, <2>2 DEF b, d
  <1>3. QED
    BY <1>1, <1>2

LEMMA PathReads == Reads(Readings, FpChars, NoneRead, ReadStep)
  <1>1. NoneRead \in Readings
    <2>1. <<>> \in Seq(Strings) /\ <<>> \in Strings
      BY DEF Strings
    <2>2. QED
      BY <2>1 DEF NoneRead, Readings
  <1>2. ReadStep \in [Readings -> [FpChars -> Readings]]
    BY ReadByType DEF ReadStep
  <1>3. QED
    BY <1>1, <1>2 DEF Reads

LEMMA ReadStepIs == \A r \in Readings, c \in FpChars : ReadStep[r][c] = ReadBy(r, c)
  BY DEF ReadStep

\* Seen(t)[k] is what was read after k characters of t.
Seen(t) == Reader(ReadStep, NoneRead, t)

LEMMA SeenDef ==
  ASSUME NEW t \in Strings
  PROVE  /\ Seen(t)[0] = NoneRead
         /\ \A k \in 1..Len(t) : Seen(t)[k] = ReadBy(Seen(t)[k - 1], t[k])
         /\ \A k \in 0..Len(t) : Seen(t)[k] \in Readings
  <1>1. t \in Seq(FpChars)
    BY DEF Strings
  <1>2. /\ Seen(t)[0] = NoneRead
        /\ \A k \in 1..Len(t) : Seen(t)[k] = ReadStep[Seen(t)[k - 1]][t[k]]
        /\ \A k \in 0..Len(t) : Seen(t)[k] \in Readings
    BY <1>1, PathReads, ReaderDef, Zenon DEF Seen
  <1>3. \A k \in 1..Len(t) : k - 1 \in 0..Len(t) /\ t[k] \in FpChars
    BY <1>1
  <1>4. \A k \in 1..Len(t) : Seen(t)[k] = ReadBy(Seen(t)[k - 1], t[k])
    BY <1>2, <1>3, ReadStepIs
  <1>5. QED
    BY <1>2, <1>4

LEMMA SplitIs == ASSUME NEW t \in Strings PROVE Split(t) = Closed(Seen(t)[Len(t)])
  <1> DEFINE Good(g) == g = [k \in 0..Len(t) |->
                               IF k = 0 THEN NoneRead ELSE ReadBy(g[k - 1], t[k])]
             r == CHOOSE g : Good(g)
             g0 == [k \in 0..Len(t) |-> Seen(t)[k]]
  <1>1. Len(t) \in Nat
    BY DEF Strings
  <1>2. Good(g0)
    <2>1. \A k \in 0..Len(t) : k = 0 \/ (k \in 1..Len(t) /\ k - 1 \in 0..Len(t))
      BY <1>1
    <2>2. \A k \in 0..Len(t) : g0[k] = IF k = 0 THEN NoneRead ELSE ReadBy(g0[k - 1], t[k])
      BY <1>1, <2>1, SeenDef
    <2>3. QED
      BY <2>2
  <1>3. Split(t) = Closed(r[Len(t)])
    BY DEF Split
  <1>4. Good(r)
    <2> HIDE DEF Good, g0
    <2>1. QED
      BY <1>2
  <1> HIDE DEF r, g0
  <1>5. r[0] = NoneRead /\ \A k \in 1..Len(t) : r[k] = ReadBy(r[k - 1], t[k])
    <2>1. 0 \in 0..Len(t) /\ \A k \in 1..Len(t) : k \in 0..Len(t) /\ k # 0
      BY <1>1
    <2>2. \A k \in 0..Len(t) : r[k] = IF k = 0 THEN NoneRead ELSE ReadBy(r[k - 1], t[k])
      BY <1>4, Zenon
    <2>3. QED
      BY <2>1, <2>2
  <1> HIDE DEF Good
  <1>6. \A k \in 0..Len(t) : r[k] = Seen(t)[k]
    <2>1. r[0] = Seen(t)[0]
      BY <1>5, SeenDef
    <2>2. \A k \in 1..Len(t) : r[k - 1] = Seen(t)[k - 1] => r[k] = Seen(t)[k]
      BY <1>5, SeenDef
    <2>3. Alike(Len(t), r, Seen(t))
      BY <2>1, <2>2 DEF Alike
    <2>4. QED
      BY <1>1, <2>3, AlikeAgree, Zenon
  <1>7. Len(t) \in 0..Len(t)
    BY <1>1
  <1>8. QED
    BY <1>3, <1>6, <1>7

LEMMA OneMore ==
  ASSUME NEW S, NEW t \in Seq(S), NEW x \in S
  PROVE  Append(t, x) = t \o <<x>> /\ t \o <<x>> \in Seq(S) /\ Len(t \o <<x>>) = Len(t) + 1
  <1>1. Append(t, x) = t \o <<x>>
    BY AppendIsConcat
  <1>2. Append(t, x) \in Seq(S) /\ Len(Append(t, x)) = Len(t) + 1
    BY AppendProperties
  <1>3. QED
    BY <1>1, <1>2

\* What was read after one more character
LEMMA SeenFurther ==
  ASSUME NEW t \in Strings, NEW c \in FpChars
  PROVE  Seen(t \o <<c>>)[Len(t \o <<c>>)] = ReadBy(Seen(t)[Len(t)], c)
  <1>1. t \in Seq(FpChars) /\ Len(t) \in 0..Len(t)
    BY DEF Strings
  <1>2. AfterAll(ReadStep, NoneRead, t \o <<c>>) = ReadStep[AfterAll(ReadStep, NoneRead, t)][c]
    BY <1>1, PathReads, AfterNext, SMT
  <1>3. Seen(t)[Len(t)] \in Readings
    BY <1>1, SeenDef
  <1>4. QED
    BY <1>2, <1>3, ReadStepIs, Zenon DEF AfterAll, Seen

-----------------------------------------------------------------------------
(* FullPath: the names it leads to.                                        *)

Walks == [above : Nat, names : Seq(Strings)]
WalkStep == [w \in Walks |-> [c \in Strings |-> WalkBy(w, c)]]

LEMMA CutType == ASSUME NEW s \in Strings, NEW n \in Nat \ {0} PROVE Cut(s, n) \in Strings
  <1>1. Cut(s, n) \in Seq(FpChars)
    BY CutLength DEF Strings
  <1>2. QED
    BY <1>1 DEF Strings

LEMMA EntryAny == \A c \in Strings : Entry(c) \in Strings
  <1> SUFFICES ASSUME NEW c \in Strings PROVE Entry(c) \in Strings
    OBVIOUS
  <1>1. c \in Seq(FpChars) /\ Len(c) \in Nat /\ "bsl" \in FpChars /\ "dot" \in FpChars
    BY DEF FpChars, Strings
  <1>2. NameMax \in Nat \ {0} /\ ExtMax \in Nat \ {0}
    BY FullPathAssumption
  <1>3. CASE Dots(c) = {}
    <2>1. Cut(c, NameMax) \in Seq(FpChars)
      BY <1>2, CutType DEF Strings
    <2>2. QED
      BY <2>1, <1>1, <1>3 DEF Entry, Strings
  <1>4. CASE Dots(c) # {}
    <2> DEFINE d == CHOOSE x \in Dots(c) : TRUE
               name == SubSeq(c, 1, d - 1)
               more == SubSeq(c, d + 1, Len(c))
               ext == Cut(more, ExtMax)
               dotted == IF ext = <<>> THEN <<>> ELSE <<"dot">> \o ext
    <2>1. d \in Dots(c)
      BY <1>4
    <2>2. d \in 1..Len(c)
      BY <2>1 DEF Dots
    <2> HIDE DEF d
    <2>3. name \in Strings
      <3>1. 1 \in Nat /\ d - 1 \in Nat /\ d - 1 <= Len(c) /\ 1 <= d - 1 + 1
        BY <2>2, <1>1
      <3>2. QED
        BY <1>1, <3>1, Part DEF Strings
    <2>4. more \in Strings
      <3>1. d + 1 \in Nat /\ 1 <= d + 1 /\ d + 1 <= Len(c) + 1
        BY <2>2, <1>1
      <3>2. QED
        BY <3>1, <1>1, Part DEF Strings
    <2> HIDE DEF name, more
    <2>5. ext \in Seq(FpChars) /\ Cut(name, NameMax) \in Seq(FpChars)
      BY <2>3, <2>4, <1>2, CutType DEF Strings
    <2> HIDE DEF ext
    <2>6. dotted \in Seq(FpChars) /\ <<"bsl">> \in Seq(FpChars)
      BY <2>5, <1>1
    <2> HIDE DEF dotted
    <2>7. Entry(c) = Cut(name, NameMax) \o dotted \o <<"bsl">>
      BY <1>4, Zenon DEF Entry, name, ext, dotted, d, more
    <2>8. QED
      BY <2>5, <2>6, <2>7 DEF Strings
  <1>5. QED
    BY <1>3, <1>4

\* What a component does to the names
LEMMA WalkFacts ==
  ASSUME NEW w \in Walks, NEW c \in Strings
  PROVE  /\ WalkBy(w, c) \in Walks
         /\ c = <<"dot">> => WalkBy(w, c) = w
         /\ c = <<"dot", "dot">> /\ w.names = <<>> =>
              WalkBy(w, c).above = w.above + 1 /\ WalkBy(w, c).names = <<>>
         /\ c = <<"dot", "dot">> /\ w.names # <<>> =>
              /\ WalkBy(w, c).above = w.above
              /\ WalkBy(w, c).names = SubSeq(w.names, 1, Len(w.names) - 1)
         /\ c \notin {<<"dot">>, <<"dot", "dot">>} =>
              WalkBy(w, c).above = w.above /\ WalkBy(w, c).names = Append(w.names, Entry(c))
  <1> DEFINE one == <<"dot">>
             two == <<"dot", "dot">>
  <1>1. one # two
    OBVIOUS
  <1>2. w.above \in Nat /\ w.names \in Seq(Strings)
    BY DEF Walks
  <1> HIDE DEF one, two
  <1>3. CASE c = one
    <2>1. WalkBy(w, c) = w
      BY <1>1, <1>3, Zenon DEF WalkBy, one, two
    <2>2. QED
      BY <1>1, <1>3, <2>1 DEF one, two
  <1>4. CASE c = two /\ w.names = <<>>
    <2>1. WalkBy(w, c) = [w EXCEPT !.above = @ + 1]
      BY <1>1, <1>4 DEF WalkBy, one, two
    <2>2. QED
      BY <1>1, <1>2, <1>4, <2>1 DEF Walks, one, two
  <1>5. CASE c = two /\ w.names # <<>>
    <2> DEFINE n == SubSeq(w.names, 1, Len(w.names) - 1)
    <2>1. WalkBy(w, c) = [w EXCEPT !.names = n]
      BY <1>1, <1>5 DEF WalkBy, one, two
    <2>2. n \in Seq(Strings)
      BY <1>2, <1>5
    <2> HIDE DEF n
    <2>3. QED
      BY <1>1, <1>2, <1>5, <2>1, <2>2 DEF Walks, one, two, n
  <1>6. CASE c \notin {one, two}
    <2> DEFINE n == Append(w.names, Entry(c))
    <2>1. WalkBy(w, c) = [w EXCEPT !.names = n]
      BY <1>6 DEF WalkBy, one, two
    <2>2. n \in Seq(Strings)
      BY <1>2, EntryAny
    <2> HIDE DEF n
    <2>3. QED
      BY <1>2, <1>6, <2>1, <2>2 DEF Walks, one, two, n
  <1>7. QED
    BY <1>3, <1>4, <1>5, <1>6

\* Which bytes are the second of a character, from k on.
LEMMA TrailDef ==
  ASSUME NEW t \in Strings, NEW k \in 1..Len(t)
  PROVE  /\ ~TrailByte(t, k)[k]
         /\ \A q \in k + 1..Len(t) :
              TrailByte(t, k)[q] <=> ~TrailByte(t, k)[q - 1] /\ t[q - 1] = "lead"
         /\ \A q \in k..Len(t) : TrailByte(t, k)[q] \in BOOLEAN
  <1> DEFINE E(q, b) == q > k /\ ~b /\ t[q - 1] = "lead"
             D == [q \in k + 1..Len(t) |-> [b \in BOOLEAN |-> E(q, b)]]
             Good(g) == g = [q \in k..Len(t) |-> E(q, g[q - 1])]
  <1>1. k \in Int /\ Len(t) \in Int /\ k <= Len(t) /\ k \in Nat
    BY DEF Strings
  <1>2. D \in Steps(k, Len(t), BOOLEAN)
    <2>1. \A q \in k + 1..Len(t) : \A b \in BOOLEAN : E(q, b) \in BOOLEAN
      OBVIOUS
    <2> HIDE DEF E
    <2>2. D \in [k + 1..Len(t) -> [BOOLEAN -> BOOLEAN]]
      BY <2>1
    <2> HIDE DEF D
    <2>3. QED
      BY <2>2 DEF Steps
  <1>3. PICK g : g \in Obeying(k, Len(t), BOOLEAN, FALSE, D)
    <2> HIDE DEF D, Good
    <2>1. FALSE \in BOOLEAN
      OBVIOUS
    <2>2. QED
      BY <1>1, <1>2, <2>1, RecursionDefines, Zenon
  <1>4. Good(g)
    <2>1. E(k, g[k - 1]) = FALSE
      BY <1>1
    <2> HIDE DEF E
    <2>2. g \in [k..Len(t) -> BOOLEAN] /\ g[k] = FALSE
          /\ \A q \in k + 1..Len(t) : g[q] = D[q][g[q - 1]]
      BY <1>1, <1>3 DEF Obeying
    <2>3. \A q \in k + 1..Len(t) : q - 1 \in k..Len(t)
      BY <1>1
    <2>4. \A q \in k + 1..Len(t) : g[q] = E(q, g[q - 1])
      BY <2>2, <2>3
    <2>5. \A q \in k..Len(t) : q = k \/ q \in k + 1..Len(t)
      BY <1>1
    <2> HIDE DEF D
    <2>6. \A q \in k..Len(t) : g[q] = E(q, g[q - 1])
      BY <2>1, <2>2, <2>4, <2>5, Zenon
    <2>7. QED
      BY <2>2, <2>6
  <1> DEFINE r == TrailByte(t, k)
  <1>5. Good(r)
    <2> HIDE DEF D
    <2>1. r = CHOOSE f : Good(f)
      BY DEF TrailByte
    <2> HIDE DEF Good, r
    <2>2. QED
      BY <1>4, <2>1
  <1> HIDE DEF D, r
  <1>6. \A q \in k..Len(t) : r[q] = E(q, r[q - 1])
    <2> HIDE DEF E
    <2>1. QED
      BY <1>5, Zenon
  <1>7. \A q \in k + 1..Len(t) : q \in k..Len(t) /\ q > k
    BY <1>1
  <1>8. k \in k..Len(t) /\ ~(k > k)
    BY <1>1
  <1> HIDE DEF Good
  <1>9. ~r[k]
    BY <1>6, <1>8
  <1>10. \A q \in k + 1..Len(t) : r[q] <=> ~r[q - 1] /\ t[q - 1] = "lead"
    BY <1>6, <1>7
  <1>11. \A q \in k..Len(t) : r[q] \in BOOLEAN
    <2>1. \A q \in k..Len(t) : E(q, r[q - 1]) \in BOOLEAN
      OBVIOUS
    <2> HIDE DEF E
    <2>2. QED
      BY <1>6, <2>1
  <1>12. QED
    BY <1>9, <1>10, <1>11 DEF r

LEMMA PartFurther ==
  ASSUME NEW t \in Strings, NEW k \in 1..Len(t), NEW q \in k..Len(t)
  PROVE  Append(SubSeq(t, k, q - 1), t[q]) = SubSeq(t, k, q)
  <1>1. t \in Seq(FpChars) /\ Len(t) \in Nat /\ k \in Nat /\ q \in Nat /\ q - 1 \in Nat
        /\ 1 <= k /\ k <= q - 1 + 1 /\ q - 1 <= Len(t) /\ t[q] \in FpChars
    BY DEF Strings
  <1>2. SubSeq(t, k, q) = SubSeq(t, k, q - 1) \o <<t[q]>>
    BY <1>1, SubSeqRecursiveSecond
  <1>3. SubSeq(t, k, q - 1) \in Seq(FpChars)
    BY <1>1, Part
  <1>4. QED
    BY <1>1, <1>2, <1>3, AppendIsConcat

\* Reading from the beginning of a component, as long as it does not end, reads it
\* and nothing else.
Along(t, k, q) ==
  /\ Seen(t)[q - 1].names = Seen(t)[k - 1].names
  /\ Seen(t)[q - 1].open = SubSeq(t, k, q - 1)
  /\ q <= Len(t) => (Seen(t)[q - 1].half <=> TrailByte(t, k)[q])

LEMMA AlongStarts ==
  ASSUME NEW t \in Strings, NEW k \in 1..Len(t),
         Seen(t)[k - 1].open = <<>>, ~Seen(t)[k - 1].half
  PROVE  Along(t, k, k)
  <1>1. SubSeq(t, k, k - 1) = <<>>
    <2>1. t \in Seq(FpChars) /\ k \in Nat /\ k - 1 \in Nat /\ 1 <= k /\ k - 1 <= Len(t)
          /\ k <= k - 1 + 1
      BY DEF Strings
    <2>2. SubSeq(t, k, k - 1) \in Seq(FpChars) /\ Len(SubSeq(t, k, k - 1)) = k - 1 - k + 1
      BY <2>1, Part
    <2>3. QED
      BY <2>1, <2>2
  <1>2. ~TrailByte(t, k)[k]
    BY TrailDef
  <1>3. QED
    BY <1>1, <1>2 DEF Along

LEMMA AlongSteps ==
  ASSUME NEW t \in Strings, NEW k \in 1..Len(t), NEW q \in k..Len(t), Along(t, k, q),
         ~(t[q] \in FpSeparators /\ ~TrailByte(t, k)[q])
  PROVE  Along(t, k, q + 1)
  <1> DEFINE r == Seen(t)[q - 1]
             s == Seen(t)[q]
             c == t[q]
  <1>1. Len(t) \in Nat /\ q \in 1..Len(t) /\ q - 1 \in 0..Len(t) /\ (q + 1) - 1 = q /\ c \in FpChars
        /\ q <= Len(t) /\ k \in Nat
    BY DEF Strings
  <1>2. r \in Readings /\ s = ReadBy(r, c)
    BY <1>1, SeenDef
  <1>3. r.names = Seen(t)[k - 1].names /\ r.open = SubSeq(t, k, q - 1)
        /\ (r.half <=> TrailByte(t, k)[q])
    BY <1>1 DEF Along
  <1> HIDE DEF r, s
  <1>4. c \notin FpSeparators \/ r.half
    BY <1>3
  <1>5. /\ ReadBy(r, c).names = r.names
        /\ ReadBy(r, c).open = Append(r.open, c)
        /\ ReadBy(r, c).half <=> ~r.half /\ c = "lead"
    BY <1>1, <1>2, <1>4, ReadByFacts
  <1>6. s.names = r.names /\ s.open = Append(r.open, c) /\ (s.half <=> ~r.half /\ c = "lead")
    BY <1>2, <1>5
  <1>7. s.open = SubSeq(t, k, q)
    BY <1>3, <1>6, PartFurther
  <1>8. ASSUME q + 1 <= Len(t) PROVE s.half <=> TrailByte(t, k)[q + 1]
    <2>1. q + 1 \in k + 1..Len(t)
      BY <1>1, <1>8
    <2>2. TrailByte(t, k)[q + 1] <=> ~TrailByte(t, k)[(q + 1) - 1] /\ t[(q + 1) - 1] = "lead"
      BY <2>1, TrailDef
    <2>3. QED
      BY <1>1, <1>3, <1>6, <2>2
  <1>9. QED
    BY <1>1, <1>3, <1>6, <1>7, <1>8 DEF Along, s

LEMMA AlongTheName ==
  ASSUME NEW t \in Strings, NEW k \in 1..Len(t),
         Seen(t)[k - 1].open = <<>>, ~Seen(t)[k - 1].half
  PROVE  Along(t, k, EndOf(t, k))
  <1> DEFINE e == EndOf(t, k)
             B == {q \in Int : Along(t, k, q)}
  <1>1. t \in Seq(FpChars) /\ Len(t) \in Nat /\ k \in Nat
    BY DEF Strings
  <1>2. e \in k..Len(t) + 1
        /\ \A l \in k..e - 1 : ~(t[l] \in FpSeparators /\ ~TrailByte(t, k)[l])
    BY <1>1, EndInText
  <1> HIDE DEF e
  <1>3. k <= e => k \in B
    BY <1>1, AlongStarts
  <1>4. \A q \in k..e - 1 : q \in B => q + 1 \in B
    <2> TAKE q \in k..e - 1
    <2>1. q \in k..Len(t) /\ q + 1 \in Int
      BY <1>1, <1>2
    <2>2. QED
      BY <1>2, <2>1, AlongSteps
  <1>5. k \in Int /\ e \in Int /\ e \in k..e
    BY <1>1, <1>2
  <1> HIDE DEF B
  <1>6. e \in B
    BY <1>3, <1>4, <1>5, IntervalClosed
  <1>7. QED
    BY <1>6 DEF B, e

\* Before the k-th character no component has begun, unless it ends there.
Settled(t, k) ==
  /\ k \in 1..Len(t) + 1
  /\ k <= Len(t) => /\ ~Seen(t)[k - 1].half
                    /\ Seen(t)[k - 1].open # <<>> => t[k] \in FpSeparators

\* The component that begins there.
NameAt(t, k) == SubSeq(t, k, EndOf(t, k) - 1)

LEMMA NameRead ==
  ASSUME NEW t \in Strings, NEW k \in 1..Len(t), Settled(t, k)
  PROVE  /\ NameAt(t, k) \in Strings /\ k + Len(NameAt(t, k)) = EndOf(t, k)
         /\ NameAt(t, k) = <<>> => /\ Settled(t, k + 1)
                                  /\ Closed(Seen(t)[k]) = Closed(Seen(t)[k - 1])
         /\ NameAt(t, k) # <<>> =>
              /\ Settled(t, EndOf(t, k))
              /\ Closed(Seen(t)[EndOf(t, k) - 1]) = Append(Closed(Seen(t)[k - 1]), NameAt(t, k))
  <1> DEFINE r == Seen(t)[k - 1]
             e == EndOf(t, k)
             c == NameAt(t, k)
  <1>1. t \in Seq(FpChars) /\ Len(t) \in Nat /\ k \in Nat /\ k <= Len(t) /\ 1 <= k
        /\ k - 1 \in 0..Len(t) /\ t[k] \in FpChars
    BY DEF Strings
  <1>2. /\ e \in k..Len(t) + 1
        /\ e <= Len(t) => t[e] \in FpSeparators /\ ~TrailByte(t, k)[e]
        /\ \A l \in k..e - 1 : ~(t[l] \in FpSeparators /\ ~TrailByte(t, k)[l])
    BY <1>1, EndInText
  <1> HIDE DEF e
  <1>3. c \in Seq(FpChars) /\ Len(c) = e - k
    <2>1. e - 1 \in Nat /\ e - 1 <= Len(t) /\ k <= e - 1 + 1 /\ e - 1 - k + 1 = e - k
      BY <1>1, <1>2
    <2>2. QED
      BY <1>1, <2>1, Part DEF NameAt, e
  <1> HIDE DEF c
  <1>4. r \in Readings /\ Seen(t)[k] = ReadBy(r, t[k])
    BY <1>1, SeenDef
  <1>5. ~r.half /\ (r.open # <<>> => t[k] \in FpSeparators)
    BY <1>1 DEF Settled
  <1> HIDE DEF r
  <1>6. k + Len(c) = e
    BY <1>1, <1>2, <1>3
  <1>7. CASE c = <<>>
    <2>1. e = k
      <3>1. Len(c) = 0
        BY <1>7, Empty, Zenon
      <3>2. e \in Int /\ k \in Int /\ e - k = 0
        BY <1>1, <1>2, <1>3, <3>1
      <3>3. QED
        BY <3>2
    <2>2. t[k] \in FpSeparators
      BY <1>1, <1>2, <2>1
    <2>3. /\ ReadBy(r, t[k]).names = Closed(r)
          /\ ReadBy(r, t[k]).open = <<>> /\ ~ReadBy(r, t[k]).half
      BY <1>1, <1>4, <1>5, <2>2, ReadByFacts
    <2>4. Seen(t)[k].names = Closed(r) /\ Seen(t)[k].open = <<>> /\ ~Seen(t)[k].half
      BY <1>4, <2>3
    <2>5. Closed(Seen(t)[k]) = Closed(r)
      BY <2>4 DEF Closed
    <2>6. Settled(t, k + 1)
      <3>1. k + 1 \in 1..Len(t) + 1 /\ (k + 1) - 1 = k
        BY <1>1
      <3>2. QED
        BY <2>4, <3>1 DEF Settled
    <2>7. QED
      BY <1>3, <1>7, <1>6, <2>5, <2>6 DEF r, c, e, Strings
  <1>8. CASE c # <<>>
    <2>1. k \in k..e - 1
      <3>1. Len(c) # 0
        BY <1>3, <1>8
      <3>2. QED
        BY <1>1, <1>2, <1>3, <3>1
    <2>2. r.open = <<>>
      <3>1. ~TrailByte(t, k)[k]
        BY TrailDef
      <3>2. QED
        BY <1>2, <1>5, <2>1, <3>1
    <2>3. Along(t, k, e)
      BY <1>5, <2>2, AlongTheName DEF r, e
    <2>4. Seen(t)[e - 1].names = r.names /\ Seen(t)[e - 1].open = c
          /\ (e <= Len(t) => (Seen(t)[e - 1].half <=> TrailByte(t, k)[e]))
      <3>1. c = SubSeq(t, k, e - 1)
        BY DEF c, e, NameAt
      <3>2. QED
        BY <2>3, <3>1 DEF Along, r
    <2>5. Closed(r) = r.names
      BY <2>2 DEF Closed
    <2>6. Closed(Seen(t)[e - 1]) = Append(Closed(r), c)
      BY <1>8, <2>4, <2>5 DEF Closed
    <2>7. Settled(t, e)
      BY <1>1, <1>2, <2>4 DEF Settled
    <2>8. QED
      BY <1>3, <1>8, <1>6, <2>6, <2>7 DEF r, c, e, Strings
  <1>9. QED
    BY <1>7, <1>8 DEF c

-----------------------------------------------------------------------------
(* FullPath: where the names lead, and what they are written as.           *)

From(ns) == [above |-> 0, names |-> ns]

LEMMA WalkReads == ASSUME NEW ns \in Seq(Strings) PROVE Reads(Walks, Strings, From(ns), WalkStep)
  <1>1. From(ns) \in Walks
    BY DEF From, Walks
  <1>2. WalkStep \in [Walks -> [Strings -> Walks]]
    BY WalkFacts DEF WalkStep
  <1>3. QED
    BY <1>1, <1>2 DEF Reads

LEMMA WalkIs ==
  ASSUME NEW ns \in Seq(Strings), NEW cs \in Seq(Strings)
  PROVE  Walk(ns, cs) = AfterAll(WalkStep, From(ns), cs)
  <1> DEFINE R == Reader(WalkStep, From(ns), cs)
             Good(g) == g = [k \in 0..Len(cs) |->
                               IF k = 0 THEN From(ns) ELSE WalkBy(g[k - 1], cs[k])]
             r == CHOOSE g : Good(g)
             g0 == [k \in 0..Len(cs) |-> R[k]]
  <1>1. Len(cs) \in Nat /\ \A k \in 1..Len(cs) : cs[k] \in Strings /\ k - 1 \in 0..Len(cs)
    OBVIOUS
  <1>2. /\ R[0] = From(ns)
        /\ \A k \in 1..Len(cs) : R[k] = WalkStep[R[k - 1]][cs[k]]
        /\ \A k \in 0..Len(cs) : R[k] \in Walks
    BY WalkReads, ReaderDef, Zenon
  <1> HIDE DEF R
  <1>3. \A k \in 1..Len(cs) : R[k] = WalkBy(R[k - 1], cs[k])
    <2>1. \A w \in Walks, c \in Strings : WalkStep[w][c] = WalkBy(w, c)
      BY DEF WalkStep
    <2>2. QED
      BY <1>1, <1>2, <2>1
  <1>4. Good(g0)
    <2>1. \A k \in 0..Len(cs) : k = 0 \/ (k \in 1..Len(cs) /\ k - 1 \in 0..Len(cs))
      BY <1>1
    <2>2. \A k \in 0..Len(cs) : g0[k] = IF k = 0 THEN From(ns) ELSE WalkBy(g0[k - 1], cs[k])
      BY <1>1, <1>2, <1>3, <2>1
    <2>3. QED
      BY <2>2
  <1>5. Walk(ns, cs) = r[Len(cs)]
    BY DEF Walk, From
  <1>6. Good(r)
    <2> HIDE DEF Good, g0
    <2>1. QED
      BY <1>4
  <1> HIDE DEF r, g0
  <1>7. r[0] = From(ns) /\ \A k \in 1..Len(cs) : r[k] = WalkBy(r[k - 1], cs[k])
    <2>1. 0 \in 0..Len(cs) /\ \A k \in 1..Len(cs) : k \in 0..Len(cs) /\ k # 0
      BY <1>1
    <2>2. \A k \in 0..Len(cs) : r[k] = IF k = 0 THEN From(ns) ELSE WalkBy(r[k - 1], cs[k])
      BY <1>6, Zenon
    <2>3. QED
      BY <2>1, <2>2
  <1> HIDE DEF Good
  <1>8. \A k \in 0..Len(cs) : r[k] = R[k]
    <2>1. r[0] = R[0]
      BY <1>2, <1>7
    <2>2. \A k \in 1..Len(cs) : r[k - 1] = R[k - 1] => r[k] = R[k]
      BY <1>3, <1>7
    <2>3. Alike(Len(cs), r, R)
      BY <2>1, <2>2 DEF Alike
    <2>4. QED
      BY <1>1, <2>3, AlikeAgree, Zenon
  <1>9. QED
    BY <1>1, <1>5, <1>8 DEF AfterAll, R

LEMMA WalkOn ==
  ASSUME NEW ns \in Seq(Strings), NEW cs \in Seq(Strings), NEW c \in Strings
  PROVE  /\ Walk(ns, cs) \in Walks
         /\ Walk(ns, <<>>) = From(ns)
         /\ Walk(ns, Append(cs, c)) = WalkBy(Walk(ns, cs), c)
  <1>1. Reads(Walks, Strings, From(ns), WalkStep)
    BY WalkReads
  <1>2. Append(cs, c) = cs \o <<c>> /\ cs \o <<c>> \in Seq(Strings)
    BY OneMore
  <1>3. /\ AfterAll(WalkStep, From(ns), cs \o <<c>>) = WalkStep[AfterAll(WalkStep, From(ns), cs)][c]
        /\ AfterAll(WalkStep, From(ns), cs) \in Walks
    BY <1>1, AfterNext, SMT
  <1>4. <<>> \in Seq(Strings) /\ Len(<<>>) = 0
    OBVIOUS
  <1>5. AfterAll(WalkStep, From(ns), <<>>) = From(ns)
    BY <1>1, <1>4, AfterNone, Zenon
  <1>6. Walk(ns, <<>>) = From(ns)
    BY <1>4, <1>5, WalkIs
  <1>7. Walk(ns, cs) = AfterAll(WalkStep, From(ns), cs)
    BY WalkIs
  <1>8. Walk(ns, cs \o <<c>>) = AfterAll(WalkStep, From(ns), cs \o <<c>>)
    BY <1>2, WalkIs
  <1>9. \A w \in Walks : WalkStep[w][c] = WalkBy(w, c)
    BY DEF WalkStep
  <1>10. QED
    BY <1>2, <1>3, <1>6, <1>7, <1>8, <1>9

ChainStep == [s \in Strings |-> [x \in Strings |-> s \o x]]

LEMMA ChainReads == Reads(Strings, Strings, <<>>, ChainStep)
  <1>1. \A s \in Strings, x \in Strings : s \o x \in Strings
    BY DEF Strings
  <1>2. <<>> \in Strings
    BY DEF Strings
  <1>3. ChainStep \in [Strings -> [Strings -> Strings]]
    BY <1>1 DEF ChainStep
  <1>4. QED
    BY <1>2, <1>3 DEF Reads

LEMMA ChainIs ==
  ASSUME NEW ns \in Seq(Strings)
  PROVE  Chain(ns) = AfterAll(ChainStep, <<>>, ns)
  <1> DEFINE R == Reader(ChainStep, <<>>, ns)
             Good(g) == g = [k \in 0..Len(ns) |-> IF k = 0 THEN <<>> ELSE g[k - 1] \o ns[k]]
             r == CHOOSE g : Good(g)
             g0 == [k \in 0..Len(ns) |-> R[k]]
  <1>1. Len(ns) \in Nat /\ \A k \in 1..Len(ns) : ns[k] \in Strings /\ k - 1 \in 0..Len(ns)
    OBVIOUS
  <1>2. /\ R[0] = <<>>
        /\ \A k \in 1..Len(ns) : R[k] = ChainStep[R[k - 1]][ns[k]]
        /\ \A k \in 0..Len(ns) : R[k] \in Strings
    BY ChainReads, ReaderDef, Zenon
  <1> HIDE DEF R
  <1>3. \A k \in 1..Len(ns) : R[k] = R[k - 1] \o ns[k]
    <2>1. \A w \in Strings, c \in Strings : ChainStep[w][c] = w \o c
      BY DEF ChainStep
    <2>2. QED
      BY <1>1, <1>2, <2>1
  <1>4. Good(g0)
    <2>1. \A k \in 0..Len(ns) : k = 0 \/ (k \in 1..Len(ns) /\ k - 1 \in 0..Len(ns))
      BY <1>1
    <2>2. \A k \in 0..Len(ns) : g0[k] = IF k = 0 THEN <<>> ELSE g0[k - 1] \o ns[k]
      BY <1>1, <1>2, <1>3, <2>1
    <2>3. QED
      BY <2>2
  <1>5. Chain(ns) = r[Len(ns)]
    BY DEF Chain
  <1>6. Good(r)
    <2> HIDE DEF Good, g0
    <2>1. QED
      BY <1>4
  <1> HIDE DEF r, g0
  <1>7. r[0] = <<>> /\ \A k \in 1..Len(ns) : r[k] = r[k - 1] \o ns[k]
    <2>1. 0 \in 0..Len(ns) /\ \A k \in 1..Len(ns) : k \in 0..Len(ns) /\ k # 0
      BY <1>1
    <2>2. \A k \in 0..Len(ns) : r[k] = IF k = 0 THEN <<>> ELSE r[k - 1] \o ns[k]
      BY <1>6, Zenon
    <2>3. QED
      BY <2>1, <2>2
  <1> HIDE DEF Good
  <1>8. \A k \in 0..Len(ns) : r[k] = R[k]
    <2>1. r[0] = R[0]
      BY <1>2, <1>7
    <2>2. \A k \in 1..Len(ns) : r[k - 1] = R[k - 1] => r[k] = R[k]
      BY <1>3, <1>7
    <2>3. Alike(Len(ns), r, R)
      BY <2>1, <2>2 DEF Alike
    <2>4. QED
      BY <1>1, <2>3, AlikeAgree, Zenon
  <1>9. QED
    BY <1>1, <1>5, <1>8 DEF AfterAll, R

LEMMA ChainOn ==
  ASSUME NEW ns \in Seq(Strings), NEW c \in Strings
  PROVE  /\ Chain(ns) \in Strings
         /\ Chain(<<>>) = <<>>
         /\ Chain(Append(ns, c)) = Chain(ns) \o c
  <1>1. Append(ns, c) = ns \o <<c>> /\ ns \o <<c>> \in Seq(Strings)
    BY OneMore
  <1>2. /\ AfterAll(ChainStep, <<>>, ns \o <<c>>) = ChainStep[AfterAll(ChainStep, <<>>, ns)][c]
        /\ AfterAll(ChainStep, <<>>, ns) \in Strings
    BY ChainReads, AfterNext, SMT
  <1>3. <<>> \in Seq(Strings) /\ Len(<<>>) = 0
    OBVIOUS
  <1>4. AfterAll(ChainStep, <<>>, <<>>) = <<>>
    <2>1. \A t \in Seq(Strings) : Len(t) = 0 => AfterAll(ChainStep, <<>>, t) = <<>>
      BY ChainReads, AfterNone, ZenonT(60)
    <2>2. QED
      BY <1>3, <2>1
  <1>5. Chain(<<>>) = <<>>
    BY <1>3, <1>4, ChainIs
  <1>6. Chain(ns) = AfterAll(ChainStep, <<>>, ns)
    BY ChainIs
  <1>7. Chain(ns \o <<c>>) = AfterAll(ChainStep, <<>>, ns \o <<c>>)
    BY <1>1, ChainIs
  <1>8. \A w \in Strings : ChainStep[w][c] = w \o c
    BY DEF ChainStep
  <1>9. QED
    BY <1>1, <1>2, <1>5, <1>6, <1>7, <1>8

UpOne == <<"dot", "dot", "bsl">>

LEMMA UpsOn ==
  ASSUME NEW n \in Nat
  PROVE  /\ Ups(n) \in Strings /\ Ups(0) = <<>> /\ Ups(n + 1) = Ups(n) \o UpOne
  <1>1. UpOne \in Seq(FpChars) /\ Len(UpOne) = 3 /\ UpOne[1] = "dot" /\ UpOne[2] = "dot"
        /\ UpOne[3] = "bsl"
    BY DEF UpOne, FpChars
  <1>2. \A m \in Nat : /\ Ups(m) \in Seq(FpChars) /\ Len(Ups(m)) = 3 * m
                       /\ \A k \in 1..3 * m : Ups(m)[k] = IF k % 3 = 0 THEN "bsl" ELSE "dot"
    BY DEF Ups, FpChars
  <1>3. Ups(0) = <<>>
    <2>1. Ups(0) \in Seq(FpChars) /\ Len(Ups(0)) = 3 * 0
      BY <1>2
    <2>2. QED
      BY <2>1
  <1> DEFINE a == Ups(n)
             b == Ups(n + 1)
             c == a \o UpOne
  <1>4. /\ a \in Seq(FpChars) /\ Len(a) = 3 * n
        /\ \A k \in 1..3 * n : a[k] = IF k % 3 = 0 THEN "bsl" ELSE "dot"
    BY <1>2
  <1>5. /\ b \in Seq(FpChars) /\ Len(b) = 3 * n + 3
        /\ \A k \in 1..3 * n + 3 : b[k] = IF k % 3 = 0 THEN "bsl" ELSE "dot"
    <2>1. n + 1 \in Nat /\ 3 * (n + 1) = 3 * n + 3
      OBVIOUS
    <2>2. QED
      BY <1>2, <2>1
  <1> HIDE DEF a, b
  <1>6. /\ c \in Seq(FpChars) /\ Len(c) = Len(a) + Len(UpOne)
        /\ \A k \in 1..Len(a) + Len(UpOne) :
             c[k] = IF k <= Len(a) THEN a[k] ELSE UpOne[k - Len(a)]
    BY <1>1, <1>4, ConcatProperties
  <1> HIDE DEF c
  <1>7. (3 * n + 1) % 3 # 0 /\ (3 * n + 2) % 3 # 0 /\ (3 * n + 3) % 3 = 0
    OBVIOUS
  <1>8. \A k \in 1..Len(b) : b[k] = c[k]
    <2> TAKE k \in 1..Len(b)
    <2>1. CASE k <= 3 * n
      BY <1>1, <1>4, <1>5, <1>6, <2>1
    <2>2. CASE k = 3 * n + 1
      <3>1. k - Len(a) = 1 /\ ~(k <= Len(a))
        BY <1>4, <2>2
      <3>2. QED
        BY <1>1, <1>4, <1>5, <1>6, <1>7, <2>2, <3>1
    <2>3. CASE k = 3 * n + 2
      <3>1. k - Len(a) = 2 /\ ~(k <= Len(a))
        BY <1>4, <2>3
      <3>2. QED
        BY <1>1, <1>4, <1>5, <1>6, <1>7, <2>3, <3>1
    <2>4. CASE k = 3 * n + 3
      <3>1. k - Len(a) = 3 /\ ~(k <= Len(a))
        BY <1>4, <2>4
      <3>2. QED
        BY <1>1, <1>4, <1>5, <1>6, <1>7, <2>4, <3>1
    <2>5. k \in 1..3 * n + 3
      BY <1>5
    <2>6. QED
      BY <2>1, <2>2, <2>3, <2>4, <2>5
  <1>9. b = c
    BY <1>1, <1>4, <1>5, <1>6, <1>8, SeqEqual
  <1>10. QED
    BY <1>3, <1>4, <1>9 DEF a, b, c, Strings

-----------------------------------------------------------------------------
(* FullPath: a call on its way along the path.                             *)

OutChars == FpChars \union {"drv", "col"}
Drive == <<"drv", "col">>
Root == <<"drv", "col", "bsl">>

LEMMA PartsOfBoth ==
  ASSUME NEW S, NEW s \in Seq(S), NEW t \in Seq(S)
  PROVE  /\ SubSeq(s \o t, 1, Len(s)) = s
         /\ SubSeq(s \o t, Len(s) + 1, Len(s \o t)) = t
  <1> DEFINE u == s \o t
             a == SubSeq(u, 1, Len(s))
             b == SubSeq(u, Len(s) + 1, Len(u))
  <1>1. /\ u \in Seq(S) /\ Len(u) = Len(s) + Len(t) /\ Len(s) \in Nat /\ Len(t) \in Nat
        /\ \A k \in 1..Len(s) + Len(t) : u[k] = IF k <= Len(s) THEN s[k] ELSE t[k - Len(s)]
    BY ConcatProperties
  <1> HIDE DEF u
  <1>2. a = s
    <2>1. /\ a \in Seq(S) /\ Len(a) = Len(s) - 1 + 1
          /\ \A k \in 1..Len(s) - 1 + 1 : a[k] = u[1 + k - 1]
      <3>1. 1 \in Nat /\ Len(s) <= Len(u) /\ 1 <= Len(s) + 1 /\ 1 <= 1
        BY <1>1
      <3>2. QED
        BY <1>1, <3>1, Part
    <2> HIDE DEF a
    <2>2. \A k \in 1..Len(a) : a[k] = s[k]
      BY <1>1, <2>1
    <2>3. QED
      BY <1>1, <2>1, <2>2, SeqEqual
  <1>3. b = t
    <2>1. /\ b \in Seq(S) /\ Len(b) = Len(u) - (Len(s) + 1) + 1
          /\ \A k \in 1..Len(u) - (Len(s) + 1) + 1 : b[k] = u[(Len(s) + 1) + k - 1]
      <3>1. Len(s) + 1 \in Nat /\ Len(u) \in Nat /\ Len(u) <= Len(u) /\ 1 <= Len(s) + 1
            /\ Len(s) + 1 <= Len(u) + 1
        BY <1>1
      <3>2. QED
        BY <1>1, <3>1, Part
    <2> HIDE DEF b
    <2>2. \A k \in 1..Len(b) : b[k] = t[k]
      <3> TAKE k \in 1..Len(b)
      <3>1. Len(s) + 1 + k - 1 = Len(s) + k /\ Len(s) + k \in 1..Len(s) + Len(t)
            /\ ~(Len(s) + k <= Len(s)) /\ (Len(s) + k) - Len(s) = k
        BY <1>1, <2>1
      <3>2. QED
        BY <1>1, <2>1, <3>1
    <2>3. QED
      BY <1>1, <2>1, <2>2, SeqEqual
  <1>4. QED
    BY <1>2, <1>3 DEF a, b, u

LEMMA AllButLast ==
  ASSUME NEW S, NEW s \in Seq(S), s # <<>>
  PROVE  /\ Len(s) \in Nat \ {0} /\ s[Len(s)] \in S /\ SubSeq(s, 1, Len(s) - 1) \in Seq(S)
         /\ Len(SubSeq(s, 1, Len(s) - 1)) = Len(s) - 1
         /\ \A k \in 1..Len(s) - 1 : SubSeq(s, 1, Len(s) - 1)[k] = s[k]
         /\ s = Append(SubSeq(s, 1, Len(s) - 1), s[Len(s)])
  <1> DEFINE u == SubSeq(s, 1, Len(s) - 1)
  <1>1. Len(s) \in Nat \ {0} /\ s[Len(s)] \in S
    OBVIOUS
  <1>2. /\ u \in Seq(S) /\ Len(u) = Len(s) - 1 - 1 + 1
        /\ \A k \in 1..Len(s) - 1 - 1 + 1 : u[k] = s[1 + k - 1]
    <2>1. 1 \in Nat /\ Len(s) - 1 \in Nat /\ 1 <= 1 /\ Len(s) - 1 <= Len(s) /\ 1 <= Len(s) - 1 + 1
      BY <1>1
    <2>2. QED
      BY <2>1, Part
  <1>3. 1 \in 1..Len(s) /\ Len(s) \in 1..Len(s)
    BY <1>1
  <1>4. SubSeq(s, 1, Len(s)) = u \o <<s[Len(s)]>> /\ SubSeq(s, 1, Len(s)) = s
    BY <1>3, SubSeqRecursiveSecond, SubSeqFull
  <1> HIDE DEF u
  <1>5. Append(u, s[Len(s)]) = u \o <<s[Len(s)]>>
    BY <1>1, <1>2, AppendIsConcat
  <1>6. \A k \in 1..Len(s) - 1 : u[k] = s[k]
    BY <1>1, <1>2
  <1>7. Len(u) = Len(s) - 1
    BY <1>1, <1>2
  <1>8. QED
    BY <1>1, <1>2, <1>4, <1>5, <1>6, <1>7 DEF u

\* The stack: between two positions is one name.
Spaced(cs, ns) == /\ Len(cs) = Len(ns) + 1
                  /\ \A k \in 1..Len(ns) : cs[k + 1] = cs[k] + Len(ns[k])

LEMMA SpacedOn ==
  ASSUME NEW cs \in Seq(Nat), NEW ns \in Seq(Strings), Spaced(cs, ns), NEW x \in Strings,
         NEW m \in Nat, m = cs[Len(cs)] + Len(x)
  PROVE  Spaced(Append(cs, m), Append(ns, x))
  <1> DEFINE a == Append(cs, m)
             b == Append(ns, x)
  <1>1. /\ Len(a) = Len(cs) + 1 /\ a[Len(cs) + 1] = m
        /\ \A k \in 1..Len(cs) : a[k] = cs[k]
    BY AppendProperties
  <1>2. /\ Len(b) = Len(ns) + 1 /\ b[Len(ns) + 1] = x
        /\ \A k \in 1..Len(ns) : b[k] = ns[k]
    BY AppendProperties
  <1> HIDE DEF a, b
  <1>3. Len(cs) = Len(ns) + 1 /\ Len(ns) \in Nat
        /\ \A k \in 1..Len(ns) : cs[k + 1] = cs[k] + Len(ns[k])
    BY DEF Spaced
  <1>4. \A k \in 1..Len(b) : a[k + 1] = a[k] + Len(b[k])
    <2> TAKE k \in 1..Len(b)
    <2>1. CASE k = Len(ns) + 1
      BY <1>1, <1>2, <1>3, <2>1
    <2>2. CASE k # Len(ns) + 1
      <3>1. k \in 1..Len(ns) /\ k \in 1..Len(cs) /\ k + 1 \in 1..Len(cs)
        BY <1>2, <1>3, <2>2
      <3>2. QED
        BY <1>1, <1>2, <1>3, <3>1
    <2>3. QED
      BY <2>1, <2>2
  <1>5. Len(a) = Len(b) + 1
    BY <1>1, <1>2, <1>3
  <1>6. QED
    BY <1>4, <1>5 DEF Spaced, a, b

LEMMA SpacedBack ==
  ASSUME NEW cs \in Seq(Nat), NEW ns \in Seq(Strings), Spaced(cs, ns), ns # <<>>
  PROVE  /\ Spaced(SubSeq(cs, 1, Len(cs) - 1), SubSeq(ns, 1, Len(ns) - 1))
         /\ cs[Len(cs)] = cs[Len(cs) - 1] + Len(ns[Len(ns)])
  <1> DEFINE a == SubSeq(cs, 1, Len(cs) - 1)
             b == SubSeq(ns, 1, Len(ns) - 1)
  <1>1. /\ Len(ns) \in Nat \ {0} /\ Len(b) = Len(ns) - 1
        /\ \A k \in 1..Len(ns) - 1 : b[k] = ns[k]
    BY AllButLast
  <1>2. Len(cs) = Len(ns) + 1 /\ \A k \in 1..Len(ns) : cs[k + 1] = cs[k] + Len(ns[k])
    BY DEF Spaced
  <1>3. Len(cs) # 0
    BY <1>1, <1>2
  <1>4. cs # <<>>
    BY <1>3, Empty
  <1>5. /\ Len(a) = Len(cs) - 1 /\ \A k \in 1..Len(cs) - 1 : a[k] = cs[k]
    BY <1>4, AllButLast
  <1> HIDE DEF a, b
  <1>6. Len(a) = Len(b) + 1
    BY <1>1, <1>2, <1>5
  <1>7. \A k \in 1..Len(b) : a[k + 1] = a[k] + Len(b[k])
    <2> TAKE k \in 1..Len(b)
    <2>1. /\ k \in 1..Len(ns) /\ k \in 1..Len(ns) - 1
          /\ k \in 1..Len(cs) - 1 /\ k + 1 \in 1..Len(cs) - 1
      BY <1>1, <1>2
    <2>2. QED
      BY <1>1, <1>2, <1>5, <2>1
  <1>8. Len(ns) \in 1..Len(ns) /\ Len(ns) = Len(cs) - 1 /\ Len(ns) + 1 = Len(cs)
    BY <1>1, <1>2
  <1>9. cs[Len(cs)] = cs[Len(cs) - 1] + Len(ns[Len(ns)])
    BY <1>2, <1>8
  <1>10. QED
    BY <1>6, <1>7, <1>9 DEF Spaced, a, b

\* What the names w are written as, behind the first characters of b.
HeadOf(b) == SubSeq(b, 1, IF Len(b) > 2 THEN 3 ELSE 2)
Written(b, w) == HeadOf(b) \o Ups(w.above) \o Chain(w.names)

LEMMA WrittenParts ==
  ASSUME NEW b, HeadOf(b) \in {Drive, Root}, NEW w \in Walks
  PROVE  /\ HeadOf(b) \in Seq(OutChars) /\ Ups(w.above) \in Seq(OutChars)
         /\ Chain(w.names) \in Seq(OutChars)
         /\ HeadOf(b) \o Ups(w.above) \in Seq(OutChars) /\ Written(b, w) \in Seq(OutChars)
  <1> DEFINE h == HeadOf(b)
             u == Ups(w.above)
             c == Chain(w.names)
  <1>1. w.above \in Nat /\ w.names \in Seq(Strings) /\ <<>> \in Strings
    BY DEF Walks, Strings
  <1>2. h \in Seq(OutChars)
    <2>1. Drive \in Seq(OutChars) /\ Root \in Seq(OutChars)
      BY DEF Drive, Root, OutChars, FpChars
    <2>2. QED
      BY <2>1
  <1>3. u \in Strings /\ c \in Strings
    BY <1>1, UpsOn, ChainOn
  <1>4. u \in Seq(OutChars) /\ c \in Seq(OutChars)
    BY <1>3 DEF Strings, OutChars
  <1> HIDE DEF h, u, c
  <1>5. h \o u \in Seq(OutChars)
    BY <1>2, <1>4, ConcatProperties
  <1>6. (h \o u) \o c \in Seq(OutChars)
    BY <1>4, <1>5, ConcatProperties
  <1>7. QED
    BY <1>2, <1>4, <1>5, <1>6 DEF Written, h, u, c

\* Nothing has gone up.
LEMMA WrittenBelow ==
  ASSUME NEW b, HeadOf(b) \in {Drive, Root}, NEW w \in Walks, w.above = 0
  PROVE  Written(b, w) = HeadOf(b) \o Chain(w.names)
  <1>1. Ups(0) = <<>>
    BY UpsOn
  <1>2. HeadOf(b) \o <<>> = HeadOf(b)
    BY WrittenParts, ConcatEmptySeq
  <1>3. QED
    BY <1>1, <1>2 DEF Written

\* One name more, and one more that goes up.
LEMMA WrittenName ==
  ASSUME NEW b, HeadOf(b) \in {Drive, Root}, NEW w \in Walks, NEW v \in Walks, NEW x \in Strings,
         v.above = w.above, v.names = Append(w.names, x)
  PROVE  Written(b, v) = Written(b, w) \o x
  <1> DEFINE h == HeadOf(b) \o Ups(w.above)
             c == Chain(w.names)
  <1>1. Chain(v.names) = c \o x
    BY ChainOn DEF Walks
  <1>2. Written(b, v) = h \o (c \o x) /\ Written(b, w) = h \o c
    BY <1>1 DEF Written
  <1>3. h \in Seq(OutChars) /\ c \in Seq(OutChars) /\ x \in Seq(OutChars)
    BY WrittenParts DEF Strings, OutChars
  <1> HIDE DEF h, c
  <1>4. (h \o c) \o x = h \o (c \o x)
    BY <1>3, ConcatAssociative
  <1>5. QED
    BY <1>2, <1>4

LEMMA WrittenUp ==
  ASSUME NEW b, HeadOf(b) \in {Drive, Root}, NEW w \in Walks, NEW v \in Walks,
         v.above = w.above + 1, v.names = <<>>, w.names = <<>>
  PROVE  Written(b, v) = Written(b, w) \o UpOne
  <1> DEFINE h == HeadOf(b)
             u == Ups(w.above)
  <1>1. w.above \in Nat /\ <<>> \in Strings /\ <<>> \in Seq(Strings)
    BY DEF Walks, Strings
  <1>2. Ups(v.above) = u \o UpOne
    BY <1>1, UpsOn
  <1>3. Chain(<<>>) = <<>>
    BY <1>1, ChainOn
  <1>4. Written(b, v) = (h \o (u \o UpOne)) \o <<>> /\ Written(b, w) = (h \o u) \o <<>>
    BY <1>2, <1>3 DEF Written
  <1>5. h \in Seq(OutChars) /\ u \in Seq(OutChars) /\ h \o u \in Seq(OutChars)
    BY WrittenParts
  <1>6. UpOne \in Seq(OutChars)
    BY DEF UpOne, OutChars, FpChars
  <1> HIDE DEF h, u
  <1>7. (h \o u) \o UpOne = h \o (u \o UpOne) /\ (h \o u) \o UpOne \in Seq(OutChars)
    <2>1. (h \o u) \o UpOne = h \o (u \o UpOne)
      BY <1>5, <1>6, ConcatAssociative
    <2>2. (h \o u) \o UpOne \in Seq(OutChars)
      BY <1>5, <1>6, ConcatProperties
    <2>3. QED
      BY <2>1, <2>2
  <1>8. /\ (h \o u) \o <<>> = h \o u
        /\ (h \o (u \o UpOne)) \o <<>> = h \o (u \o UpOne)
    BY <1>5, <1>7, ConcatEmptySeq
  <1>9. QED
    BY <1>4, <1>7, <1>8

\* The names in b, and those that t leads to from there up to its k-th character.
Slashed(ns) == [k \in 1..Len(ns) |-> Append(ns[k], "bsl")]
Given(b) == Slashed(Split(SubSeq(b, (IF Len(b) > 2 THEN 3 ELSE 2) + 1, Len(b))))
Arrived(b, t, k) == Walk(Given(b), Closed(Seen(t)[k - 1]))

\* What is written, and where its names begin, says where the path has led so far.
OnWay(b, t, k, cs, o) == /\ Settled(t, k)
                         /\ HeadOf(b) \in {Drive, Root} /\ Given(b) \in Seq(Strings)
                         /\ Spaced(cs, Arrived(b, t, k).names)
                         /\ o = Written(b, Arrived(b, t, k))

LEMMA ArrivedType ==
  ASSUME NEW b, NEW t \in Strings, NEW k \in 1..Len(t) + 1, Given(b) \in Seq(Strings)
  PROVE  Arrived(b, t, k) \in Walks /\ Closed(Seen(t)[k - 1]) \in Seq(Strings)
  <1>1. k - 1 \in 0..Len(t) /\ <<>> \in Strings
    BY DEF Strings
  <1>2. Closed(Seen(t)[k - 1]) \in Seq(Strings)
    BY <1>1, SeenDef, ClosedType
  <1>3. QED
    BY <1>1, <1>2, WalkOn DEF Arrived

\* The next component takes one step.
LEMMA ArrivedOn ==
  ASSUME NEW b, NEW t \in Strings, NEW k \in 1..Len(t), Settled(t, k), Given(b) \in Seq(Strings)
  PROVE  /\ NameAt(t, k) \in Strings /\ Arrived(b, t, k) \in Walks
         /\ NameAt(t, k) = <<>> => /\ Settled(t, k + 1)
                                  /\ Arrived(b, t, k + 1) = Arrived(b, t, k)
         /\ NameAt(t, k) # <<>> =>
              /\ Settled(t, k + Len(NameAt(t, k)))
              /\ Arrived(b, t, k + Len(NameAt(t, k))) = WalkBy(Arrived(b, t, k), NameAt(t, k))
  <1> DEFINE e == EndOf(t, k)
             c == NameAt(t, k)
  <1>1. t \in Seq(FpChars) /\ Len(t) \in Nat /\ k \in Nat /\ k \in 1..Len(t) + 1 /\ (k + 1) - 1 = k
    BY DEF Strings
  <1>2. /\ c \in Strings /\ k + Len(c) = e
        /\ c = <<>> => Settled(t, k + 1) /\ Closed(Seen(t)[k]) = Closed(Seen(t)[k - 1])
        /\ c # <<>> => /\ Settled(t, e)
                       /\ Closed(Seen(t)[e - 1]) = Append(Closed(Seen(t)[k - 1]), c)
    BY NameRead, Zenon
  <1> HIDE DEF c, e
  <1>3. Arrived(b, t, k) \in Walks /\ Closed(Seen(t)[k - 1]) \in Seq(Strings)
    BY <1>1, ArrivedType
  <1>4. Walk(Given(b), Append(Closed(Seen(t)[k - 1]), c)) = WalkBy(Arrived(b, t, k), c)
    BY <1>2, <1>3, WalkOn DEF Arrived
  <1>5. c = <<>> => Arrived(b, t, k + 1) = Arrived(b, t, k)
    BY <1>1, <1>2 DEF Arrived
  <1>6. c # <<>> => Arrived(b, t, e) = WalkBy(Arrived(b, t, k), c)
    BY <1>2, <1>4 DEF Arrived
  <1>7. QED
    BY <1>2, <1>3, <1>5, <1>6 DEF c

LEMMA OnSkip ==
  ASSUME NEW b, NEW t \in Strings, NEW k \in 1..Len(t), NEW cs, NEW o, OnWay(b, t, k, cs, o),
         NameAt(t, k) \in {<<>>, <<"dot">>}
  PROVE  OnWay(b, t, k + 1, cs, o)
  <1> DEFINE c == NameAt(t, k)
             w == Arrived(b, t, k)
  <1>1. Settled(t, k) /\ Given(b) \in Seq(Strings)
    BY DEF OnWay
  <1>2. /\ c \in Strings /\ w \in Walks
        /\ c = <<>> => Settled(t, k + 1) /\ Arrived(b, t, k + 1) = w
        /\ c # <<>> => Settled(t, k + Len(c)) /\ Arrived(b, t, k + Len(c)) = WalkBy(w, c)
    BY <1>1, ArrivedOn, Zenon
  <1> HIDE DEF c, w
  <1>3. Settled(t, k + 1) /\ Arrived(b, t, k + 1) = w
    <2>1. CASE c = <<>>
      BY <1>2, <2>1
    <2>2. CASE c = <<"dot">>
      <3>1. Len(c) = 1 /\ c # <<>>
        BY <2>2
      <3>2. WalkBy(w, c) = w
        BY <1>2, <2>2, WalkFacts
      <3>3. QED
        BY <1>2, <3>1, <3>2
    <2>3. QED
      BY <2>1, <2>2 DEF c
  <1>4. QED
    BY <1>3 DEF OnWay, w

LEMMA OnUp ==
  ASSUME NEW b, NEW t \in Strings, NEW k \in 1..Len(t), NEW cs \in Seq(Nat), NEW o,
         OnWay(b, t, k, cs, o), NameAt(t, k) = <<"dot", "dot">>,
         Len(cs) > 1, cs[Len(cs)] = Len(o)
  PROVE  OnWay(b, t, k + 2, SubSeq(cs, 1, Len(cs) - 1), SubSeq(o, 1, cs[Len(cs) - 1]))
  <1> DEFINE c == NameAt(t, k)
             w == Arrived(b, t, k)
             v == WalkBy(w, c)
             x == w.names[Len(w.names)]
             s == Written(b, v)
  <1>1. /\ Settled(t, k) /\ Given(b) \in Seq(Strings) /\ HeadOf(b) \in {Drive, Root}
        /\ Spaced(cs, w.names) /\ o = Written(b, w)
    BY DEF OnWay
  <1>2. /\ c \in Strings /\ w \in Walks
        /\ c # <<>> => Settled(t, k + Len(c)) /\ Arrived(b, t, k + Len(c)) = v
    BY <1>1, ArrivedOn, Zenon
  <1>3. c = <<"dot", "dot">> /\ Len(c) = 2 /\ c # <<>>
    <2>1. c = <<"dot", "dot">>
      OBVIOUS
    <2> HIDE DEF c
    <2>2. QED
      BY <2>1
  <1> HIDE DEF c, w
  <1>4. w.names \in Seq(Strings) /\ w.names # <<>>
    <2>1. Len(w.names) # 0 /\ w.names \in Seq(Strings)
      BY <1>1, <1>2 DEF Spaced, Walks
    <2>2. QED
      BY <2>1, Empty
  <1>5. v \in Walks /\ v.above = w.above /\ v.names = SubSeq(w.names, 1, Len(w.names) - 1)
    BY <1>2, <1>3, <1>4, WalkFacts
  <1> HIDE DEF v
  <1>6. x \in Strings /\ w.names = Append(v.names, x)
    BY <1>4, <1>5, AllButLast
  <1>7. /\ Spaced(SubSeq(cs, 1, Len(cs) - 1), v.names)
        /\ cs[Len(cs)] = cs[Len(cs) - 1] + Len(x)
    BY <1>1, <1>4, <1>5, SpacedBack
  <1> HIDE DEF x
  <1>8. o = s \o x /\ s \in Seq(OutChars) /\ x \in Seq(OutChars)
    <2>1. /\ HeadOf(b) \in {Drive, Root} /\ v \in Walks /\ w \in Walks /\ x \in Strings
          /\ w.above = v.above /\ w.names = Append(v.names, x)
      BY <1>1, <1>2, <1>5, <1>6
    <2>2. Written(b, w) = Written(b, v) \o x
      BY ONLY <2>1, WrittenName
    <2>3. s \in Seq(OutChars)
      BY <1>1, <1>5, WrittenParts DEF s
    <2>4. x \in Seq(OutChars)
      BY <1>6 DEF Strings, OutChars
    <2>5. QED
      BY <1>1, <2>2, <2>3, <2>4 DEF s
  <1> HIDE DEF s
  <1>9. cs[Len(cs) - 1] = Len(s)
    <2>1. Len(o) = Len(s) + Len(x) /\ Len(s) \in Nat /\ Len(x) \in Nat
      BY <1>8, ConcatProperties
    <2>2. cs[Len(cs) - 1] \in Nat
      OBVIOUS
    <2>3. cs[Len(cs) - 1] + Len(x) = Len(s) + Len(x)
      BY <1>7, <2>1
    <2>4. QED
      BY <2>1, <2>2, <2>3
  <1>10. SubSeq(o, 1, cs[Len(cs) - 1]) = s
    BY <1>8, <1>9, PartsOfBoth
  <1>11. Settled(t, k + 2) /\ Arrived(b, t, k + 2) = v
    BY <1>2, <1>3 DEF v
  <1>12. QED
    BY <1>1, <1>7, <1>10, <1>11 DEF OnWay, s

LEMMA OnTop ==
  ASSUME NEW b, NEW t \in Strings, NEW k \in 1..Len(t), NEW cs \in Seq(Nat), NEW o,
         OnWay(b, t, k, cs, o), NameAt(t, k) = <<"dot", "dot">>,
         Len(cs) = 1, NEW m, cs[1] = Len(o)
  PROVE  OnWay(b, t, k + 2, <<m>>, SubSeq(o, 1, cs[1]) \o UpOne)
  <1> DEFINE c == NameAt(t, k)
             w == Arrived(b, t, k)
             v == WalkBy(w, c)
  <1>1. /\ Settled(t, k) /\ Given(b) \in Seq(Strings) /\ HeadOf(b) \in {Drive, Root}
        /\ Spaced(cs, w.names) /\ o = Written(b, w)
    BY DEF OnWay
  <1>2. /\ c \in Strings /\ w \in Walks
        /\ c # <<>> => Settled(t, k + Len(c)) /\ Arrived(b, t, k + Len(c)) = v
    BY <1>1, ArrivedOn, Zenon
  <1>3. c = <<"dot", "dot">> /\ Len(c) = 2 /\ c # <<>>
    <2>1. c = <<"dot", "dot">>
      OBVIOUS
    <2> HIDE DEF c
    <2>2. QED
      BY <2>1
  <1> HIDE DEF c, w
  <1>4. w.names = <<>>
    <2>1. Len(cs) = Len(w.names) + 1
      BY <1>1 DEF Spaced
    <2>2. w.names \in Seq(Strings)
      BY <1>2 DEF Walks
    <2>3. Len(w.names) \in Nat
      BY <2>2
    <2>4. 1 = Len(w.names) + 1
      BY <2>1, Zenon
    <2>5. Len(w.names) = 0
      BY ONLY <2>3, <2>4
    <2>6. QED
      BY <2>2, <2>5
  <1>5. v \in Walks /\ v.above = w.above + 1 /\ v.names = <<>>
    BY <1>2, <1>3, <1>4, WalkFacts
  <1> HIDE DEF v
  <1>6. o \in Seq(OutChars) /\ Written(b, v) = o \o UpOne
    <2>1. o \in Seq(OutChars)
      BY <1>1, <1>2, WrittenParts
    <2>2. /\ HeadOf(b) \in {Drive, Root} /\ v \in Walks /\ w \in Walks
          /\ v.above = w.above + 1 /\ v.names = <<>> /\ w.names = <<>>
      BY <1>1, <1>2, <1>4, <1>5
    <2>3. Written(b, v) = Written(b, w) \o UpOne
      BY ONLY <2>2, WrittenUp
    <2>4. QED
      BY <1>1, <2>1, <2>3
  <1>7. SubSeq(o, 1, cs[1]) = o
    BY <1>6, SubSeqFull
  <1>8. Spaced(<<m>>, v.names)
    BY <1>5 DEF Spaced
  <1>9. Settled(t, k + 2) /\ Arrived(b, t, k + 2) = v
    BY <1>2, <1>3 DEF v
  <1>10. QED
    BY <1>1, <1>6, <1>7, <1>8, <1>9 DEF OnWay

LEMMA OnName ==
  ASSUME NEW b, NEW t \in Strings, NEW k \in 1..Len(t), NEW cs \in Seq(Nat), NEW o,
         OnWay(b, t, k, cs, o), NEW c, c = NameAt(t, k),
         c \notin {<<>>, <<"dot">>, <<"dot", "dot">>}, cs[Len(cs)] = Len(o)
  PROVE  OnWay(b, t, k + Len(c), Append(cs, Len(o \o Entry(c))), o \o Entry(c))
  <1> DEFINE w == Arrived(b, t, k)
             v == WalkBy(w, c)
             x == Entry(c)
  <1>1. /\ Settled(t, k) /\ Given(b) \in Seq(Strings) /\ HeadOf(b) \in {Drive, Root}
        /\ Spaced(cs, w.names) /\ o = Written(b, w)
    BY DEF OnWay
  <1>2. /\ c \in Strings /\ w \in Walks
        /\ c # <<>> => Settled(t, k + Len(c)) /\ Arrived(b, t, k + Len(c)) = v
    BY <1>1, ArrivedOn, Zenon
  <1> HIDE DEF w
  <1>3. v \in Walks /\ v.above = w.above /\ v.names = Append(w.names, x)
    BY <1>2, WalkFacts
  <1>4. x \in Strings /\ x \in Seq(OutChars) /\ w.names \in Seq(Strings)
    <2>1. x \in Strings
      BY <1>2, EntryAny
    <2>2. QED
      BY <1>2, <2>1 DEF Strings, OutChars, Walks
  <1> HIDE DEF v, x
  <1>5. Written(b, v) = o \o x /\ o \in Seq(OutChars)
    <2>1. o \in Seq(OutChars)
      BY <1>1, <1>2, WrittenParts
    <2>2. /\ HeadOf(b) \in {Drive, Root} /\ v \in Walks /\ w \in Walks /\ x \in Strings
          /\ v.above = w.above /\ v.names = Append(w.names, x)
      BY <1>1, <1>2, <1>3, <1>4
    <2>3. Written(b, v) = Written(b, w) \o x
      BY ONLY <2>2, WrittenName
    <2>4. QED
      BY <1>1, <2>1, <2>3
  <1>6. Len(o \o x) = cs[Len(cs)] + Len(x) /\ Len(o \o x) \in Nat
    BY <1>4, <1>5, ConcatProperties
  <1>7. Spaced(Append(cs, Len(o \o x)), v.names)
    <2>1. Spaced(Append(cs, Len(o \o x)), Append(w.names, x))
      BY <1>1, <1>4, <1>6, SpacedOn
    <2>2. QED
      BY <1>3, <2>1
  <1>8. Settled(t, k + Len(c)) /\ Arrived(b, t, k + Len(c)) = v
    BY <1>2 DEF v
  <1>9. QED
    BY <1>1, <1>5, <1>7, <1>8 DEF OnWay, x

-----------------------------------------------------------------------------
(* FullPath: the working directory.                                        *)

LEMMA SlashedOn ==
  ASSUME NEW ns \in Seq(Strings), NEW x \in Strings
  PROVE  /\ Slashed(ns) \in Seq(Strings) /\ Slashed(<<>>) = <<>>
         /\ Slashed(Append(ns, x)) = Append(Slashed(ns), Append(x, "bsl"))
         /\ Append(x, "bsl") \in Strings
  <1>1. \A y \in Strings : Append(y, "bsl") \in Strings
    BY DEF Strings, FpChars
  <1>2. \A ms \in Seq(Strings) : /\ Slashed(ms) \in Seq(Strings) /\ Len(Slashed(ms)) = Len(ms)
                                 /\ \A k \in 1..Len(ms) : Slashed(ms)[k] = Append(ms[k], "bsl")
    <2> SUFFICES ASSUME NEW ms \in Seq(Strings)
                 PROVE  /\ Slashed(ms) \in Seq(Strings) /\ Len(Slashed(ms)) = Len(ms)
                        /\ \A k \in 1..Len(ms) : Slashed(ms)[k] = Append(ms[k], "bsl")
      OBVIOUS
    <2>1. \A k \in 1..Len(ms) : Append(ms[k], "bsl") \in Strings
      BY <1>1
    <2> DEFINE f == [k \in 1..Len(ms) |-> Append(ms[k], "bsl")]
    <2>2. Len(ms) \in Nat /\ f \in [1..Len(ms) -> Strings]
      BY <2>1
    <2>3. f \in Seq(Strings) /\ Len(f) = Len(ms)
      BY <2>2
    <2>4. QED
      BY <2>3 DEF Slashed
  <1>3. Slashed(<<>>) = <<>>
    <2>1. <<>> \in Seq(Strings) /\ Len(<<>>) = 0
      OBVIOUS
    <2>2. Slashed(<<>>) \in Seq(Strings) /\ Len(Slashed(<<>>)) = 0
      BY <1>2, <2>1
    <2>3. QED
      BY <2>2
  <1> DEFINE a == Append(ns, x)
             b == Slashed(a)
             y == Append(x, "bsl")
             c == Slashed(ns)
             d == Append(c, y)
  <1>4. /\ a \in Seq(Strings) /\ Len(a) = Len(ns) + 1 /\ a[Len(ns) + 1] = x
        /\ \A k \in 1..Len(ns) : a[k] = ns[k]
    BY AppendProperties
  <1> HIDE DEF a
  <1>5. /\ b \in Seq(Strings) /\ Len(b) = Len(ns) + 1
        /\ \A k \in 1..Len(ns) + 1 : b[k] = Append(a[k], "bsl")
    BY <1>2, <1>4
  <1>6. /\ c \in Seq(Strings) /\ Len(c) = Len(ns)
        /\ \A k \in 1..Len(ns) : c[k] = Append(ns[k], "bsl")
    BY <1>2
  <1> HIDE DEF b, c
  <1>7. y \in Strings
    BY <1>1
  <1> HIDE DEF y
  <1>8. /\ d \in Seq(Strings) /\ Len(d) = Len(c) + 1 /\ d[Len(c) + 1] = y
        /\ \A k \in 1..Len(c) : d[k] = c[k]
    BY <1>6, <1>7, AppendProperties
  <1> HIDE DEF d
  <1>9. \A k \in 1..Len(b) : b[k] = d[k]
    <2> TAKE k \in 1..Len(b)
    <2>1. CASE k = Len(ns) + 1
      BY <1>4, <1>5, <1>6, <1>8, <2>1 DEF y
    <2>2. CASE k # Len(ns) + 1
      <3>1. k \in 1..Len(ns) /\ k \in 1..Len(c)
        BY <1>5, <1>6, <2>2
      <3>2. QED
        BY <1>4, <1>5, <1>6, <1>8, <3>1
    <2>3. QED
      BY <2>1, <2>2
  <1>10. Len(b) = Len(d)
    BY <1>5, <1>6, <1>8
  <1>11. b = d
    BY <1>5, <1>8, <1>9, <1>10, SeqEqual
  <1>12. QED
    BY <1>1, <1>3, <1>6, <1>11 DEF a, b, c, d, y

\* After the root, the directory so far is its names and the open one.
InDir(s, cs, o) ==
  LET r == Seen(s)[Len(s)]
  IN  /\ s \in Strings /\ o = Root \o s
      /\ s = Chain(Slashed(r.names)) \o r.open
      /\ Spaced(cs, Slashed(r.names)) /\ cs[Len(cs)] + Len(r.open) = Len(o)

LEMMA RootType ==
  Root \in Seq(OutChars) /\ Len(Root) = 3 /\ Drive \in Seq(OutChars) /\ Len(Drive) = 2
  BY DEF Root, Drive, OutChars, FpChars

LEMMA NothingRead == /\ <<>> \in Strings /\ Len(<<>>) = 0 /\ Seen(<<>>)[0] = NoneRead
                     /\ NoneRead.names = <<>> /\ NoneRead.open = <<>> /\ ~NoneRead.half
                     /\ Closed(NoneRead) = <<>>
  <1>1. <<>> \in Strings /\ Len(<<>>) = 0
    BY DEF Strings
  <1>2. Seen(<<>>)[0] = NoneRead
    BY <1>1, SeenDef
  <1>3. NoneRead.names = <<>> /\ NoneRead.open = <<>> /\ ~NoneRead.half
    BY DEF NoneRead
  <1>4. QED
    BY <1>1, <1>2, <1>3 DEF Closed

LEMMA DirStarts == InDir(<<>>, <<3>>, Root) /\ ~Seen(<<>>)[Len(<<>>)].half
  <1>1. Slashed(<<>>) = <<>> /\ Chain(<<>>) = <<>>
    <2>1. <<>> \in Seq(Strings) /\ <<>> \in Strings
      BY NothingRead
    <2>2. QED
      BY <2>1, SlashedOn, ChainOn
  <1>2. Root \o <<>> = Root /\ <<>> \o <<>> = <<>>
    <2>1. <<>> \in Seq(OutChars)
      OBVIOUS
    <2>2. QED
      BY <2>1, RootType, ConcatEmptySeq
  <1>3. Spaced(<<3>>, <<>>) /\ <<3>>[Len(<<3>>)] + 0 = 3
    BY DEF Spaced
  <1>4. QED
    BY <1>1, <1>2, <1>3, NothingRead, RootType DEF InDir

\* A byte that does not end a name, and one that does.
LEMMA DirGoes ==
  ASSUME NEW s, NEW cs \in Seq(Nat), Len(cs) >= 1, NEW o, InDir(s, cs, o), NEW c \in FpChars,
         c \notin FpSeparators \/ Seen(s)[Len(s)].half
  PROVE  /\ InDir(s \o <<c>>, cs, o \o <<c>>)
         /\ Seen(s \o <<c>>)[Len(s \o <<c>>)].half <=> ~Seen(s)[Len(s)].half /\ c = "lead"
  <1> DEFINE r == Seen(s)[Len(s)]
             z == s \o <<c>>
             q == Seen(z)[Len(z)]
             g == Chain(Slashed(r.names))
             u == <<c>>
  <1>1. /\ s \in Strings /\ o = Root \o s /\ s = g \o r.open
        /\ Spaced(cs, Slashed(r.names)) /\ cs[Len(cs)] + Len(r.open) = Len(o)
    BY DEF InDir
  <1>2. s \in Seq(FpChars) /\ Len(s) \in 0..Len(s) /\ s \in Seq(OutChars)
    BY <1>1 DEF Strings, OutChars
  <1>3. r \in Readings /\ q = ReadBy(r, c)
    BY <1>1, <1>2, SeenDef, SeenFurther
  <1> HIDE DEF r, q
  <1>4. /\ ReadBy(r, c).names = r.names
        /\ ReadBy(r, c).open = Append(r.open, c)
        /\ ReadBy(r, c).half <=> ~r.half /\ c = "lead"
    BY <1>3, ReadByFacts DEF r
  <1>5. q.names = r.names /\ q.open = Append(r.open, c) /\ (q.half <=> ~r.half /\ c = "lead")
    BY <1>3, <1>4
  <1>6. r.names \in Seq(Strings) /\ r.open \in Seq(FpChars)
    BY <1>3 DEF Readings, Strings
  <1>7. g \in Seq(FpChars)
    BY <1>6, SlashedOn, ChainOn, NothingRead DEF Strings
  <1> HIDE DEF g
  <1>8. u \in Seq(FpChars) /\ u \in Seq(OutChars) /\ Len(u) = 1
    BY DEF OutChars
  <1>9. Append(r.open, c) = r.open \o u /\ Len(Append(r.open, c)) = Len(r.open) + 1
    <2>1. Append(r.open, c) = r.open \o <<c>>
      BY <1>6, AppendIsConcat
    <2>2. Len(Append(r.open, c)) = Len(r.open) + 1
      BY <1>6, AppendProperties
    <2>3. QED
      BY <2>1, <2>2
  <1> HIDE DEF u
  <1>10. (g \o r.open) \o u = g \o (r.open \o u)
    <2> DEFINE x == r.open
    <2>1. g \in Seq(FpChars) /\ x \in Seq(FpChars) /\ u \in Seq(FpChars)
      BY <1>6, <1>7, <1>8
    <2> HIDE DEF x
    <2>2. (g \o x) \o u = g \o (x \o u)
      BY ONLY <2>1, ConcatAssociative, SMTT(30)
    <2>3. QED
      BY <2>2 DEF x
  <1>11. (Root \o s) \o u = Root \o (s \o u) /\ Root \o s \in Seq(OutChars)
    <2>1. Root \in Seq(OutChars) /\ s \in Seq(OutChars) /\ u \in Seq(OutChars)
      BY <1>2, <1>8, RootType
    <2>2. (Root \o s) \o u = Root \o (s \o u)
      BY ONLY <2>1, ConcatAssociative
    <2>3. Root \o s \in Seq(OutChars)
      BY ONLY <2>1, ConcatProperties
    <2>4. QED
      BY <2>2, <2>3
  <1>12. Len(o \o u) = Len(o) + 1 /\ Len(o) \in Nat
    <2>1. o \in Seq(OutChars)
      BY <1>1, <1>11
    <2>2. o \in Seq(OutChars) /\ u \in Seq(OutChars)
      BY <1>8, <2>1
    <2>3. Len(o \o u) = Len(o) + Len(u) /\ Len(o) \in Nat
      BY ONLY <2>2, ConcatProperties
    <2>4. QED
      BY <1>8, <2>3
  <1>13. s \o u \in Strings
    BY <1>2, <1>8, ConcatProperties DEF Strings
  <1>14. cs[Len(cs)] + Len(q.open) = Len(o \o u)
    <2>1. Len(r.open) \in Nat
      BY <1>6
    <2>2. Len(q.open) = Len(r.open) + 1
      BY <1>5, <1>9
    <2>3. cs[Len(cs)] \in Nat
      OBVIOUS
    <2>4. cs[Len(cs)] + Len(r.open) = Len(o) /\ Len(o \o u) = Len(o) + 1
      BY <1>1, <1>12
    <2>5. QED
      BY ONLY <2>1, <2>2, <2>3, <2>4
  <1>15. z = g \o q.open /\ o \o u = Root \o z
    BY <1>1, <1>5, <1>9, <1>10, <1>11 DEF u
  <1>16. InDir(z, cs, o \o <<c>>)
    BY <1>1, <1>5, <1>13, <1>14, <1>15 DEF InDir, q, g, u
  <1>17. QED
    BY <1>5, <1>16 DEF q, r

LEMMA DirEnds ==
  ASSUME NEW s, NEW cs \in Seq(Nat), Len(cs) >= 1, NEW o, InDir(s, cs, o),
         ~Seen(s)[Len(s)].half, Seen(s)[Len(s)].open # <<>>
  PROVE  /\ InDir(s \o <<"bsl">>, Append(cs, Len(o \o <<"bsl">>)), o \o <<"bsl">>)
         /\ ~Seen(s \o <<"bsl">>)[Len(s \o <<"bsl">>)].half
         /\ Seen(s \o <<"bsl">>)[Len(s \o <<"bsl">>)].open = <<>>
  <1> DEFINE r == Seen(s)[Len(s)]
             u == <<"bsl">>
             z == s \o u
             q == Seen(z)[Len(z)]
             ns == Slashed(r.names)
             g == Chain(ns)
             x == r.open
             y == Append(x, "bsl")
             m == Len(o \o u)
             d == Append(cs, m)
  <1>1. /\ s \in Strings /\ o = Root \o s /\ s = g \o x
        /\ Spaced(cs, ns) /\ cs[Len(cs)] + Len(x) = Len(o)
    BY DEF InDir
  <1>2. s \in Seq(FpChars) /\ Len(s) \in 0..Len(s) /\ s \in Seq(OutChars) /\ "bsl" \in FpChars
    BY <1>1 DEF Strings, OutChars, FpChars
  <1>3. r \in Readings /\ q = ReadBy(r, "bsl")
    BY <1>1, <1>2, SeenDef, SeenFurther
  <1> HIDE DEF q
  <1>4. /\ ReadBy(r, "bsl").names = Closed(r)
        /\ ReadBy(r, "bsl").open = <<>> /\ ~ReadBy(r, "bsl").half
    <2>1. "bsl" \in FpSeparators
      BY DEF FpSeparators
    <2> HIDE DEF r
    <2>2. QED
      BY <1>2, <1>3, <2>1, ReadByFacts DEF r
  <1>5. q.names = Append(r.names, x) /\ q.open = <<>> /\ ~q.half
    BY <1>3, <1>4 DEF Closed
  <1>6. r.names \in Seq(Strings) /\ x \in Seq(FpChars) /\ x \in Strings
    BY <1>3 DEF Readings, Strings
  <1> HIDE DEF r, x
  <1>7. ns \in Seq(Strings) /\ y \in Strings /\ Slashed(q.names) = Append(ns, y)
    BY <1>5, <1>6, SlashedOn
  <1> HIDE DEF ns, y
  <1>8. g \in Seq(FpChars) /\ Chain(Append(ns, y)) = g \o y
    BY <1>7, ChainOn DEF Strings
  <1> HIDE DEF g
  <1>9. u \in Seq(FpChars) /\ u \in Seq(OutChars) /\ Len(u) = 1
    BY <1>2 DEF OutChars
  <1>10. y = x \o u /\ Len(y) = Len(x) + 1 /\ Len(x) \in Nat
    <2>1. y = x \o u
      BY <1>2, <1>6, AppendIsConcat DEF y
    <2>2. Len(y) = Len(x) + 1
      BY <1>2, <1>6, AppendProperties DEF y
    <2>3. QED
      BY <1>6, <2>1, <2>2
  <1> HIDE DEF u
  <1>11. g \o y = z
    <2>1. (g \o x) \o u = g \o (x \o u)
      BY ONLY <1>6, <1>8, <1>9, ConcatAssociative, SMTT(30)
    <2>2. QED
      BY <1>1, <1>10, <2>1
  <1>12. o \o u = Root \o z
    <2>1. Root \in Seq(OutChars) /\ s \in Seq(OutChars) /\ u \in Seq(OutChars)
      BY <1>2, <1>9, RootType
    <2>2. (Root \o s) \o u = Root \o (s \o u)
      BY ONLY <2>1, ConcatAssociative
    <2>3. QED
      BY <1>1, <2>2
  <1>13. m = Len(o) + 1 /\ m \in Nat
    <2>1. Root \in Seq(OutChars) /\ s \in Seq(OutChars) /\ u \in Seq(OutChars)
      BY <1>2, <1>9, RootType
    <2>2. Root \o s \in Seq(OutChars)
      BY ONLY <2>1, ConcatProperties
    <2>3. o \in Seq(OutChars)
      BY <1>1, <2>2
    <2>4. Len(o \o u) = Len(o) + Len(u) /\ Len(o) \in Nat
      BY ONLY <2>1, <2>3, ConcatProperties
    <2>5. QED
      BY <1>9, <2>4
  <1> HIDE DEF m
  <1>14. m = cs[Len(cs)] + Len(y)
    <2>1. cs[Len(cs)] \in Nat
      OBVIOUS
    <2>2. cs[Len(cs)] + Len(x) = Len(o)
      BY <1>1
    <2>3. Len(y) = Len(x) + 1 /\ Len(x) \in Nat /\ m = Len(o) + 1
      BY <1>10, <1>13
    <2>4. QED
      BY ONLY <2>1, <2>2, <2>3
  <1>15. Spaced(d, Slashed(q.names))
    <2>1. Spaced(d, Append(ns, y))
      BY <1>1, <1>7, <1>13, <1>14, SpacedOn
    <2>2. QED
      BY <1>7, <2>1
  <1>16. d[Len(d)] + Len(q.open) = m
    <2>1. Len(d) = Len(cs) + 1 /\ d[Len(cs) + 1] = m
      BY <1>13, AppendProperties
    <2>2. Len(q.open) = 0
      BY <1>5, Empty
    <2>3. d[Len(d)] = m
      BY <2>1
    <2>4. QED
      BY ONLY <1>13, <2>2, <2>3
  <1>17. z \in Strings
    <2>1. z \in Seq(FpChars)
      BY ONLY <1>2, <1>9, ConcatProperties
    <2>2. QED
      BY <2>1 DEF Strings
  <1>18. z = Chain(Slashed(q.names)) \o q.open
    <2>1. z \o <<>> = z
      BY <1>17, ConcatEmptySeq DEF Strings
    <2>2. Chain(Slashed(q.names)) = z
      BY <1>7, <1>8, <1>11
    <2>3. QED
      BY <1>5, <2>1, <2>2
  <1>19. InDir(z, d, o \o u)
    BY <1>12, <1>15, <1>16, <1>17, <1>18 DEF InDir, q, m
  <1>20. QED
    BY <1>5, <1>19 DEF d, m, z, u, q

\* The loop begins with the names that the working directory has.
LEMMA WayBegins ==
  ASSUME NEW b, NEW cs, NEW t \in Strings, HeadOf(b) \in {Drive, Root}, Given(b) \in Seq(Strings),
         Spaced(cs, Given(b)), b = HeadOf(b) \o Chain(Given(b))
  PROVE  OnWay(b, t, 1, cs, b)
  <1>1. t \in Seq(FpChars) /\ Len(t) \in Nat /\ 1 - 1 = 0 /\ 0 \in 0..Len(t)
    BY DEF Strings
  <1>2. Seen(t)[0] = NoneRead
    BY SeenDef
  <1>3. Settled(t, 1)
    BY <1>1, <1>2, NothingRead DEF Settled
  <1>4. Arrived(b, t, 1) = From(Given(b))
    <2>1. <<>> \in Strings /\ <<>> \in Seq(Strings)
      BY NothingRead
    <2>2. QED
      BY <1>1, <1>2, <2>1, NothingRead, WalkOn DEF Arrived
  <1>5. From(Given(b)) \in Walks /\ From(Given(b)).above = 0 /\ From(Given(b)).names = Given(b)
    BY DEF From, Walks
  <1>6. Written(b, From(Given(b))) = HeadOf(b) \o Chain(Given(b))
    BY <1>5, WrittenBelow
  <1>7. QED
    BY <1>3, <1>4, <1>5, <1>6 DEF OnWay

LEMMA DirLeads ==
  ASSUME NEW s, NEW cs, NEW o, InDir(s, cs, o), Seen(s)[Len(s)].open = <<>>, NEW t \in Strings
  PROVE  OnWay(o, t, 1, cs, o)
  <1> DEFINE r == Seen(s)[Len(s)]
             ns == r.names
  <1>1. /\ s \in Strings /\ o = Root \o s /\ s = Chain(Slashed(ns)) \o r.open
        /\ Spaced(cs, Slashed(ns)) /\ r.open = <<>>
    BY DEF InDir
  <1>2. s \in Seq(OutChars) /\ Len(s) \in Nat /\ Len(s) \in 0..Len(s)
    BY <1>1 DEF Strings, OutChars
  <1>3. r \in Readings /\ ns \in Seq(Strings)
    BY <1>1, <1>2, SeenDef DEF Readings
  <1>4. Split(s) = ns
    BY <1>1, SplitIs DEF Closed
  <1> HIDE DEF ns, r
  <1>5. Slashed(ns) \in Seq(Strings) /\ Chain(Slashed(ns)) \in Strings
    BY <1>3, NothingRead, SlashedOn, ChainOn
  <1>6. s = Chain(Slashed(ns))
    <2>1. Chain(Slashed(ns)) \o <<>> = Chain(Slashed(ns))
      BY <1>5, ConcatEmptySeq DEF Strings
    <2>2. QED
      BY <1>1, <2>1
  <1>7. /\ Len(o) = 3 + Len(s) /\ SubSeq(o, 1, 3) = Root /\ SubSeq(o, 3 + 1, Len(o)) = s
    <2>1. Root \in Seq(OutChars) /\ s \in Seq(OutChars) /\ Len(Root) = 3
      BY <1>2, RootType
    <2>2. /\ SubSeq(Root \o s, 1, Len(Root)) = Root
          /\ SubSeq(Root \o s, Len(Root) + 1, Len(Root \o s)) = s
      BY ONLY <2>1, PartsOfBoth
    <2>3. Len(Root \o s) = Len(Root) + Len(s)
      BY ONLY <2>1, ConcatProperties
    <2>4. QED
      BY <1>1, <2>1, <2>2, <2>3
  <1>8. Len(o) > 2
    BY <1>2, <1>7
  <1>9. HeadOf(o) = Root /\ Given(o) = Slashed(ns)
    BY <1>4, <1>7, <1>8 DEF HeadOf, Given
  <1>10. QED
    BY <1>1, <1>5, <1>6, <1>9, WayBegins

LEMMA RootLeads ==
  ASSUME NEW t \in Strings, t # <<>>, t[1] \in FpSeparators
  PROVE  OnWay(Root, t, 2, <<3>>, Root)
  <1>1. t \in Seq(FpChars) /\ Len(t) \in Nat /\ 1 \in 1..Len(t) /\ 1 + 1 = 2
    BY DEF Strings
  <1>2. OnWay(Root, t, 1, <<3>>, Root)
    <2>1. Seen(<<>>)[Len(<<>>)].open = <<>>
      BY NothingRead
    <2>2. QED
      BY <2>1, DirStarts, DirLeads
  <1>3. EndOf(t, 1) = 1
    <2>1. /\ EndOf(t, 1) \in 1..Len(t) + 1
          /\ \A l \in 1..EndOf(t, 1) - 1 : ~(t[l] \in FpSeparators /\ ~TrailByte(t, 1)[l])
      BY <1>1, EndInText
    <2>2. ~TrailByte(t, 1)[1]
      BY <1>1, TrailDef
    <2>3. 1 \notin 1..EndOf(t, 1) - 1
      BY <2>1, <2>2
    <2>4. QED
      BY <1>1, <2>1, <2>3
  <1>4. NameAt(t, 1) = <<>>
    <2>1. NameAt(t, 1) \in Strings /\ 1 + Len(NameAt(t, 1)) = 1
      BY <1>1, <1>2, <1>3, NameRead DEF OnWay
    <2>2. NameAt(t, 1) \in Seq(FpChars) /\ Len(NameAt(t, 1)) = 0
      BY <2>1 DEF Strings
    <2>3. QED
      BY <2>2
  <1>5. OnWay(Root, t, 1 + 1, <<3>>, Root)
    BY <1>1, <1>2, <1>4, OnSkip
  <1>6. QED
    BY <1>1, <1>5

LEMMA DriveLeads == ASSUME NEW t \in Strings PROVE OnWay(Drive, t, 1, <<2>>, Drive)
  <1>1. HeadOf(Drive) = Drive
    <2>1. SubSeq(Drive, 1, Len(Drive)) = Drive
      BY RootType, SubSeqFull
    <2>2. QED
      BY <2>1, RootType DEF HeadOf
  <1>2. <<>> \in Seq(Strings) /\ <<>> \in Strings
    BY NothingRead
  <1>3. Chain(<<>>) = <<>> /\ Slashed(<<>>) = <<>>
    BY <1>2, ChainOn, SlashedOn
  <1>4. Given(Drive) = <<>>
    <2>1. SubSeq(Drive, 2 + 1, Len(Drive)) = <<>>
      BY RootType
    <2>2. Split(<<>>) = <<>>
      BY NothingRead, SplitIs
    <2>3. (IF Len(Drive) > 2 THEN 3 ELSE 2) = 2
      BY RootType
    <2>4. Given(Drive) = Slashed(Split(SubSeq(Drive, 2 + 1, Len(Drive))))
      BY <2>3, Zenon DEF Given
    <2>5. QED
      BY <1>3, <2>1, <2>2, <2>4
  <1>5. Drive \o <<>> = Drive
    BY RootType, ConcatEmptySeq
  <1>6. Spaced(<<2>>, <<>>)
    BY DEF Spaced
  <1>7. QED
    BY <1>1, <1>2, <1>3, <1>4, <1>5, <1>6, WayBegins

-----------------------------------------------------------------------------
(* FullPath: the path that is written is the one that is named.            *)

NameInv ==
  /\ fp_pc = "cwd" => \E s : InDir(s, comp_start, out) /\ ~Seen(s)[Len(s)].half /\ i = 1
  /\ fp_pc = "loop" => OnWay(base, text, i, comp_start, out)
  /\ NamesThePath

LEMMA ElsewhereNothing == fp_pc \notin {"cwd", "loop", "done"} => NameInv
  BY DEF NameInv, NamesThePath

LEMMA NameStays == NameInv /\ UNCHANGED fpVars => NameInv'
  <1> SUFFICES ASSUME NameInv, UNCHANGED fpVars PROVE NameInv'
    OBVIOUS
  <1>1. UNCHANGED <<fp_pc, comp_start, out, base, text, i>>
    BY DEF fpVars
  <1>2. NamesThePath'
    BY <1>1 DEF NameInv, NamesThePath, Absolute, GivenNames, RootLen
  <1>3. QED
    BY <1>1, <1>2 DEF NameInv

LEMMA NameOff ==
  ASSUME (\E n \in 3..OutMax - 1 : Network(n) \/ NetworkStrays(n))
         \/ (\E n \in 0..OutMax : StrayCopied(n)) \/ StrayTooLong
         \/ Prepare \/ NetworkFails \/ BadDrive \/ TooSmall \/ NoMemory \/ RealpathFails
         \/ (\E n \in 3..OutMax - 1 : Realpath(n)) \/ UpTopTooLong \/ BadName \/ EntryTooLong
  PROVE  NameInv'
  <1>1. fp_pc' \notin {"cwd", "loop", "done"}
    BY DEF Prepare, Network, NetworkStrays, StrayCopied, StrayTooLong, NetworkFails, BadDrive,
           TooSmall, NoMemory, RealpathFails, Realpath, UpTopTooLong, BadName, EntryTooLong, Bail
  <1>2. QED
    BY <1>1 DEF NameInv, NamesThePath

LEMMA PathIsText == FpInv => text \in Strings
  BY FullPathAssumption DEF FpInv, FpTypeOK, Strings

LEMMA LoopBegins ==
  ASSUME FpInv, Rooted \/ NoCwd
  PROVE  NameInv'
  <1>1. text \in Strings
    BY PathIsText
  <1>2. CASE Rooted
    <2>1. /\ out' = Root /\ comp_start' = <<3>> /\ i' = 2 /\ base' = Root /\ text' = text
          /\ fp_pc' = "loop" /\ text # <<>> /\ text[1] \in FpSeparators
      BY <1>2 DEF Rooted, Begin, Root, IsRooted, request
    <2>2. OnWay(Root, text, 2, <<3>>, Root)
      BY <1>1, <2>1, RootLeads
    <2>3. QED
      BY <2>1, <2>2 DEF NameInv, NamesThePath
  <1>3. CASE NoCwd
    <2>1. /\ out' = Drive /\ comp_start' = <<2>> /\ i' = 1 /\ base' = Drive /\ text' = text
          /\ fp_pc' = "loop"
      BY <1>3 DEF NoCwd, Begin, Drive, request
    <2>2. OnWay(Drive, text, 1, <<2>>, Drive)
      BY <1>1, DriveLeads
    <2>3. QED
      BY <2>1, <2>2 DEF NameInv, NamesThePath
  <1>4. QED
    BY <1>2, <1>3

LEMMA CwdBegins == ASSUME Cwd PROVE NameInv'
  <1>1. out' = Root /\ comp_start' = <<3>> /\ i' = 1 /\ fp_pc' = "cwd"
    BY DEF Cwd, Begin, Root
  <1>2. \E s : InDir(s, comp_start', out') /\ ~Seen(s)[Len(s)].half /\ i' = 1
    BY <1>1, DirStarts
  <1>3. QED
    BY <1>1, <1>2 DEF NameInv, NamesThePath

LEMMA CwdState ==
  ASSUME FpInv, NameInv, fp_pc = "cwd"
  PROVE  /\ comp_start \in Seq(Nat) /\ Len(comp_start) >= 1 /\ out \in Seq(OutChars) /\ i = 1
         /\ \E s : InDir(s, comp_start, out) /\ ~Seen(s)[Len(s)].half
  BY DEF FpInv, FpTypeOK, Stacked, n_comps, NameInv, OutChars

LEMMA CwdGoes ==
  ASSUME FpInv, NameInv, CwdSingle \/ \E t \in Trails : CwdDouble(t)
  PROVE  NameInv'
  <1>1. fp_pc = "cwd"
    BY DEF CwdSingle, CwdDouble, CwdMore
  <1>2. PICK s : InDir(s, comp_start, out) /\ ~Seen(s)[Len(s)].half
    BY <1>1, CwdState
  <1>3. comp_start \in Seq(Nat) /\ Len(comp_start) >= 1 /\ out \in Seq(OutChars) /\ i = 1
    BY <1>1, CwdState
  <1>4. CASE CwdSingle
    <2>1. /\ out' = out \o <<"chr">> /\ comp_start' = comp_start /\ fp_pc' = "cwd" /\ i' = 1
      BY <1>1, <1>3, <1>4 DEF CwdSingle, CwdMore
    <2>2. "chr" \in FpChars /\ "chr" \notin FpSeparators
      BY DEF FpChars, FpSeparators
    <2> DEFINE z == s \o <<"chr">>
    <2>3. InDir(z, comp_start, out \o <<"chr">>) /\ ~Seen(z)[Len(z)].half
      BY <1>2, <1>3, <2>2, DirGoes
    <2> HIDE DEF z
    <2>4. \E x : InDir(x, comp_start', out') /\ ~Seen(x)[Len(x)].half /\ i' = 1
      BY <2>1, <2>3
    <2>5. QED
      BY <2>1, <2>4 DEF NameInv, NamesThePath
  <1>5. CASE \E t \in Trails : CwdDouble(t)
    <2>1. PICK t \in Trails : CwdDouble(t)
      BY <1>5
    <2>2. out' = out \o <<"lead", t>> /\ comp_start' = comp_start /\ fp_pc' = "cwd" /\ i' = 1
      BY <1>1, <1>3, <2>1 DEF CwdDouble, CwdMore
    <2>3. t \in FpChars /\ "lead" \in FpChars /\ "lead" \notin FpSeparators
      BY DEF Trails, FpChars, FpSeparators
    <2> DEFINE z == s \o <<"lead">>
               y == z \o <<t>>
    <2>4. InDir(z, comp_start, out \o <<"lead">>) /\ Seen(z)[Len(z)].half
      BY <1>2, <1>3, <2>3, DirGoes
    <2> HIDE DEF z
    <2>5. InDir(y, comp_start, (out \o <<"lead">>) \o <<t>>) /\ ~Seen(y)[Len(y)].half
      BY <1>3, <2>3, <2>4, DirGoes
    <2> HIDE DEF y
    <2>6. (out \o <<"lead">>) \o <<t>> = out'
      <3>1. "lead" \in OutChars /\ t \in OutChars
        BY <2>3 DEF OutChars
      <3>2. QED
        BY <1>3, <2>2, <3>1, TwoOnTop
    <2>7. \E x : InDir(x, comp_start', out') /\ ~Seen(x)[Len(x)].half /\ i' = 1
      BY <2>2, <2>5, <2>6
    <2>8. QED
      BY <2>2, <2>7 DEF NameInv, NamesThePath
  <1>6. QED
    BY <1>4, <1>5

\* There is an open name just when something was written after the last position.
LEMMA OpenName ==
  ASSUME FpInv, NEW s, InDir(s, comp_start, out), Len(comp_start) >= 1
  PROVE  Seen(s)[Len(s)].open = <<>> <=> Top = Len(out)
  <1> DEFINE r == Seen(s)[Len(s)]
  <1>1. comp_start[Len(comp_start)] + Len(r.open) = Len(out) /\ s \in Strings
    BY DEF InDir
  <1>2. r \in Readings
    <2>1. Len(s) \in 0..Len(s)
      BY <1>1 DEF Strings
    <2>2. QED
      BY <1>1, <2>1, SeenDef
  <1> HIDE DEF r
  <1>3. r.open \in Seq(FpChars)
    BY <1>2 DEF Readings, Strings
  <1>4. comp_start[Len(comp_start)] \in Nat
    BY DEF FpInv, FpTypeOK
  <1>5. Len(r.open) \in Nat /\ (r.open = <<>> <=> Len(r.open) = 0)
    BY <1>3
  <1>6. Top = comp_start[Len(comp_start)]
    BY DEF Top, n_comps
  <1>7. Len(r.open) = 0 <=> Top = Len(out)
    BY ONLY <1>1, <1>4, <1>5, <1>6
  <1>8. QED
    BY <1>5, <1>7 DEF r

LEMMA CwdDivides == ASSUME FpInv, NameInv, CwdSeparator PROVE NameInv'
  <1>1. fp_pc = "cwd"
    BY DEF CwdSeparator, CwdMore
  <1>2. PICK s : InDir(s, comp_start, out) /\ ~Seen(s)[Len(s)].half
    BY <1>1, CwdState
  <1>3. comp_start \in Seq(Nat) /\ Len(comp_start) >= 1 /\ i = 1
    BY <1>1, CwdState
  <1>4. /\ out' = out \o <<"bsl">> /\ comp_start' = Append(comp_start, Len(out'))
        /\ fp_pc' = "cwd" /\ i' = 1 /\ Top # Len(out)
    BY <1>1, <1>3 DEF CwdSeparator, CwdMore
  <1>5. Seen(s)[Len(s)].open # <<>>
    BY <1>2, <1>3, <1>4, OpenName
  <1> DEFINE z == s \o <<"bsl">>
  <1>6. /\ InDir(z, Append(comp_start, Len(out \o <<"bsl">>)), out \o <<"bsl">>)
        /\ ~Seen(z)[Len(z)].half
    BY <1>2, <1>3, <1>5, DirEnds
  <1> HIDE DEF z
  <1>7. \E x : InDir(x, comp_start', out') /\ ~Seen(x)[Len(x)].half /\ i' = 1
    BY <1>4, <1>6
  <1>8. QED
    BY <1>4, <1>7 DEF NameInv, NamesThePath

LEMMA CwdLeads == ASSUME FpInv, NameInv, CwdEnd PROVE NameInv'
  <1>1. fp_pc = "cwd" /\ fp_pc' = "loop" /\ base' = out' /\ text' = text
    BY DEF CwdEnd, request
  <1>2. PICK s : InDir(s, comp_start, out) /\ ~Seen(s)[Len(s)].half
    BY <1>1, CwdState
  <1>3. comp_start \in Seq(Nat) /\ Len(comp_start) >= 1 /\ i = 1 /\ out \in Seq(OutChars)
    BY <1>1, CwdState
  <1>4. i' = 1
    BY <1>3 DEF CwdEnd
  <1>5. text \in Strings
    BY PathIsText
  <1>6. CASE Top = Len(out)
    <2>1. out' = out /\ comp_start' = comp_start
      BY <1>6 DEF CwdEnd
    <2>2. Seen(s)[Len(s)].open = <<>>
      BY <1>2, <1>3, <1>6, OpenName
    <2>3. OnWay(out, text, 1, comp_start, out)
      BY <1>2, <1>5, <2>2, DirLeads
    <2>4. QED
      BY <1>1, <1>4, <2>1, <2>3 DEF NameInv, NamesThePath
  <1>7. CASE Top # Len(out)
    <2>1. out' = Append(out, "bsl") /\ comp_start' = Append(comp_start, Len(out'))
      BY <1>7 DEF CwdEnd
    <2>2. out' = out \o <<"bsl">>
      <3>1. "bsl" \in OutChars
        BY DEF OutChars, FpChars
      <3>2. QED
        BY <1>3, <2>1, <3>1, AppendIsConcat
    <2>3. Seen(s)[Len(s)].open # <<>>
      BY <1>2, <1>3, <1>7, OpenName
    <2> DEFINE z == s \o <<"bsl">>
               o == out \o <<"bsl">>
               d == Append(comp_start, Len(o))
    <2>4. InDir(z, d, o) /\ Seen(z)[Len(z)].open = <<>>
      BY <1>2, <1>3, <2>3, DirEnds
    <2> HIDE DEF z, o, d
    <2>5. OnWay(o, text, 1, d, o)
      BY <1>5, <2>4, DirLeads
    <2>6. out' = o /\ comp_start' = d
      BY <2>1, <2>2 DEF o, d
    <2>7. QED
      BY <1>1, <1>4, <2>5, <2>6 DEF NameInv, NamesThePath
  <1>8. QED
    BY <1>6, <1>7

LEMMA LoopState ==
  ASSUME FpInv, NameInv, InLoop
  PROVE  /\ text \in Strings /\ i \in 1..Len(text) /\ OnWay(base, text, i, comp_start, out)
         /\ comp_start \in Seq(Nat) /\ comp_start[Len(comp_start)] = Len(out)
         /\ Len(comp_start) \in Nat /\ Len(comp_start) >= 1
         /\ Component = NameAt(text, i)
  <1>1. fp_pc = "loop" /\ i <= Len(text) /\ i \in Nat \ {0} /\ text \in Strings
    BY PathIsText DEF InLoop, FpInv, FpTypeOK
  <1>2. i \in 1..Len(text)
    BY <1>1 DEF Strings
  <1>3. OnWay(base, text, i, comp_start, out)
    BY <1>1 DEF NameInv
  <1>4. comp_start \in Seq(Nat) /\ Len(comp_start) >= 1 /\ comp_start[Len(comp_start)] = Len(out)
    BY <1>1 DEF FpInv, FpTypeOK, Stacked, n_comps, Top
  <1>5. Component = NameAt(text, i)
    BY DEF Component, NameAt
  <1>6. QED
    BY <1>1, <1>2, <1>3, <1>4, <1>5

LEMMA LoopSteps ==
  ASSUME FpInv, NameInv, Skip \/ Up \/ UpTop \/ AddName
  PROVE  NameInv'
  <1>1. InLoop /\ fp_pc' = "loop" /\ base' = base /\ text' = text
    BY DEF Skip, Up, UpTop, AddName, IsUp, IsName, NextComponent, InLoop, request, buffer
  <1>2. /\ text \in Strings /\ i \in 1..Len(text) /\ OnWay(base, text, i, comp_start, out)
        /\ comp_start \in Seq(Nat) /\ comp_start[Len(comp_start)] = Len(out)
        /\ Len(comp_start) \in Nat /\ Len(comp_start) >= 1
        /\ Component = NameAt(text, i)
    BY <1>1, LoopState
  <1> SUFFICES OnWay(base, text, i', comp_start', out')
    BY <1>1 DEF NameInv, NamesThePath
  <1>3. CASE Skip
    <2>1. /\ i' = i + 1 /\ comp_start' = comp_start /\ out' = out
          /\ NameAt(text, i) \in {<<>>, <<"dot">>}
      BY <1>2, <1>3 DEF Skip, buffer
    <2>2. OnWay(base, text, i + 1, comp_start, out)
      BY <1>2, <2>1, OnSkip
    <2>3. QED
      BY <2>1, <2>2
  <1>4. CASE Up
    <2>1. /\ Len(comp_start) > 1 /\ NameAt(text, i) = <<"dot", "dot">>
          /\ out' = SubSeq(out, 1, comp_start[Len(comp_start) - 1])
          /\ comp_start' = SubSeq(comp_start, 1, Len(comp_start) - 1)
      BY <1>2, <1>4 DEF Up, IsUp, n_comps
    <2>2. i' = i + 2
      <3>1. Component = <<"dot", "dot">> /\ i' = i + Len(Component)
        BY <1>4 DEF Up, IsUp, NextComponent
      <3>2. Len(<<"dot", "dot">>) = 2
        OBVIOUS
      <3>3. QED
        BY <3>1, <3>2, Zenon
    <2>3. OnWay(base, text, i + 2, SubSeq(comp_start, 1, Len(comp_start) - 1),
                SubSeq(out, 1, comp_start[Len(comp_start) - 1]))
      BY <1>2, <2>1, OnUp
    <2>4. QED
      BY <2>1, <2>2, <2>3
  <1>5. CASE UpTop
    <2>1. /\ Len(comp_start) = 1 /\ NameAt(text, i) = <<"dot", "dot">>
          /\ out' = SubSeq(out, 1, comp_start[1]) \o UpOne
          /\ comp_start' = <<comp_start[1] + 3>> /\ comp_start[1] = Len(out)
      BY <1>2, <1>5 DEF UpTop, IsUp, n_comps, Top, UpOne
    <2>2. i' = i + 2
      <3>1. Component = <<"dot", "dot">> /\ i' = i + Len(Component)
        BY <1>5 DEF UpTop, IsUp, NextComponent
      <3>2. Len(<<"dot", "dot">>) = 2
        OBVIOUS
      <3>3. QED
        BY <3>1, <3>2, Zenon
    <2>3. OnWay(base, text, i + 2, <<comp_start[1] + 3>>, SubSeq(out, 1, comp_start[1]) \o UpOne)
      BY <1>2, <2>1, OnTop
    <2>4. QED
      BY <2>1, <2>2, <2>3
  <1>6. CASE AddName
    <2> DEFINE c == NameAt(text, i)
               o == out \o Entry(c)
    <2>1. /\ c \notin {<<>>, <<"dot">>, <<"dot", "dot">>} /\ i' = i + Len(c)
          /\ out' = o /\ comp_start' = Append(comp_start, Len(o))
      BY <1>2, <1>6 DEF AddName, IsName, NextComponent
    <2> HIDE DEF c
    <2>2. OnWay(base, text, i + Len(c), Append(comp_start, Len(o)), o)
      BY <1>2, <2>1, OnName DEF c
    <2>3. QED
      BY <2>1, <2>2
  <1>7. QED
    BY <1>3, <1>4, <1>5, <1>6

\* At the end of the path, all of it has led there.
LEMMA WayEnds ==
  ASSUME FpInv, NameInv, Finish
  PROVE  NameInv'
  <1>1. /\ fp_pc = "loop" /\ i > Len(text) /\ fp_pc' = "done" /\ text' = text /\ base' = base
        /\ out' = IF Len(out) > 3 THEN SubSeq(out, 1, Len(out) - 1) ELSE out
    BY DEF Finish, request
  <1>2. text \in Strings /\ Len(text) \in Nat /\ OnWay(base, text, i, comp_start, out)
    BY <1>1, PathIsText DEF NameInv, Strings
  <1>3. i - 1 = Len(text)
    BY <1>1, <1>2 DEF OnWay, Settled
  <1>4. Arrived(base, text, i) = Walk(Given(base), Split(text))
    BY <1>2, <1>3, SplitIs DEF Arrived
  <1>5. out = Written(base, Walk(Given(base), Split(text)))
    BY <1>2, <1>4 DEF OnWay
  <1>6. Given(base) = GivenNames /\ HeadOf(base) = SubSeq(base, 1, RootLen)
    BY DEF Given, Slashed, GivenNames, HeadOf, RootLen
  <1>7. out' = Absolute
    BY <1>1, <1>5, <1>6, Zenon DEF Absolute, Written
  <1>8. Absolute' = Absolute
    BY <1>1 DEF Absolute, GivenNames, RootLen
  <1>9. QED
    BY <1>1, <1>7, <1>8 DEF NameInv, NamesThePath

LEMMA NameNext == FpInv /\ NameInv /\ [FpNext]_fpVars => NameInv'
  <1> SUFFICES ASSUME FpInv, NameInv, [FpNext]_fpVars PROVE NameInv'
    OBVIOUS
  <1>1. CASE UNCHANGED fpVars
    BY <1>1, NameStays
  <1>2. CASE FpNext
    BY <1>2, NameOff, LoopBegins, CwdBegins, CwdGoes, CwdDivides, CwdLeads, LoopSteps, WayEnds
       DEF FpNext
  <1>3. QED
    BY <1>1, <1>2

\* For every path, whatever separators, "." and ".." it has and however many, every
\* working directory and every buffer: when _fullpath succeeds, its result is the
\* path of the names that these lead to; a second byte that looks like a separator
\* does not end a name.
THEOREM ResultIsNamed == FpSpec => []NamesThePath
  <1>1. FpInit => NameInv
    BY ElsewhereNothing DEF FpInit
  <1>2. NameInv => NamesThePath
    BY DEF NameInv
  <1>3. QED
    BY <1>1, <1>2, FpInitInvariant, NextInvariant, NameNext, PTL DEF FpSpec

-----------------------------------------------------------------------------
(* PathParts: double-byte characters.                                      *)

LEMMA SecondDef ==
  ASSUME NEW S, NEW t \in Seq(S)
  PROVE  /\ Second(t) \in [1..Len(t) -> BOOLEAN]
         /\ \A j \in 1..Len(t) : Second(t)[j] = (j > 1 /\ ~Second(t)[j - 1] /\ t[j - 1] = "lead")
  <1> DEFINE n == Len(t)
             D == [j \in 2..n |-> [v \in BOOLEAN |-> ~v /\ t[j - 1] = "lead"]]
             Good(g) == g = [j \in 1..n |-> j > 1 /\ ~g[j - 1] /\ t[j - 1] = "lead"]
  <1>1. n \in Nat /\ n \in Int /\ 1 \in Int /\ 1 + 1 = 2
    OBVIOUS
  <1>2. D \in Steps(1, n, BOOLEAN)
    <2>1. D \in [2..n -> [BOOLEAN -> BOOLEAN]]
      OBVIOUS
    <2> HIDE DEF D, n
    <2>2. QED
      BY <1>1, <2>1 DEF Steps
  <1>3. PICK g : g \in Obeying(1, n, BOOLEAN, FALSE, D)
    <2> HIDE DEF D, Good, n
    <2>1. FALSE \in BOOLEAN
      OBVIOUS
    <2>2. QED
      BY <1>1, <1>2, <2>1, RecursionDefines, Zenon
  <1>4. g \in [1..n -> BOOLEAN] /\ Good(g)
    <2>1. g \in [1..n -> BOOLEAN]
      BY <1>3 DEF Obeying
    <2>2. (1 <= n => g[1] = FALSE) /\ \A j \in 2..n : g[j] = D[j][g[j - 1]]
      BY <1>1, <1>3 DEF Obeying
    <2>3. \A j \in 2..n : g[j - 1] \in BOOLEAN
      BY <1>1, <2>1
    <2>4. \A j \in 2..n : g[j] = (~g[j - 1] /\ t[j - 1] = "lead")
      BY <2>2, <2>3
    <2> HIDE DEF D, n
    <2>5. \A j \in 1..n : g[j] = (j > 1 /\ ~g[j - 1] /\ t[j - 1] = "lead")
      <3> TAKE j \in 1..n
      <3>1. CASE j = 1
        <4>1. ~(j > 1) /\ g[j] = FALSE
          BY <1>1, <2>2, <3>1
        <4>2. QED
          BY <4>1, Zenon
      <3>2. CASE j # 1
        <4>1. j \in 2..n /\ j > 1
          BY <1>1, <3>2
        <4>2. QED
          BY <2>4, <4>1
      <3>3. QED
        BY <3>1, <3>2
    <2>6. QED
      BY <2>1, <2>5
  <1>5. Good(Second(t))
    <2> HIDE DEF D
    <2>1. Second(t) = CHOOSE f : Good(f)
      BY DEF Second
    <2> HIDE DEF Good
    <2>2. QED
      BY <1>4, <2>1
  <1> HIDE DEF D
  <1>6. \A j \in 1..n : Second(t)[j] = (j > 1 /\ ~Second(t)[j - 1] /\ t[j - 1] = "lead")
    <2> DEFINE f == Second(t)
    <2> HIDE DEF f, n
    <2>1. f = [j \in 1..n |-> j > 1 /\ ~f[j - 1] /\ t[j - 1] = "lead"]
      BY <1>5 DEF f
    <2>2. \A j \in 1..n : f[j] = (j > 1 /\ ~f[j - 1] /\ t[j - 1] = "lead")
      BY <2>1, Zenon
    <2>3. QED
      BY <2>2 DEF f
  <1>7. Second(t) \in [1..n -> BOOLEAN]
    <2> DEFINE f == Second(t)
    <2> HIDE DEF f, n
    <2>1. f = [j \in 1..n |-> j > 1 /\ ~f[j - 1] /\ t[j - 1] = "lead"]
      BY <1>5 DEF f
    <2>2. QED
      BY <2>1 DEF f
  <1>8. QED
    BY <1>6, <1>7

\* Whether t ends with the first byte of a double-byte character.
Open(t) == Len(t) > 0 /\ t[Len(t)] = "lead" /\ ~Second(t)[Len(t)]

LEMMA OpenOrNot == \A t : Open(t) \in BOOLEAN
  BY DEF Open

LEMMA JoinedIs ==
  ASSUME NEW S, NEW u \in Seq(S), NEW v \in Seq(S)
  PROVE  /\ u \o v \in Seq(S) /\ Len(u \o v) = Len(u) + Len(v)
         /\ Len(u) \in Nat /\ Len(v) \in Nat
         /\ \A j \in 1..Len(u) : (u \o v)[j] = u[j]
         /\ \A j \in 1..Len(v) : (u \o v)[Len(u) + j] = v[j]
  <1> DEFINE w == u \o v
             n == Len(u)
             m == Len(v)
  <1>1. n \in Nat /\ m \in Nat
    OBVIOUS
  <1>2. /\ w \in Seq(S) /\ Len(w) = n + m
        /\ \A j \in 1..n + m : w[j] = IF j <= n THEN u[j] ELSE v[j - n]
    BY ConcatProperties
  <1> HIDE DEF w, n, m
  <1>3. \A j \in 1..n : w[j] = u[j]
    <2> TAKE j \in 1..n
    <2>1. j \in 1..n + m /\ j <= n
      BY <1>1
    <2>2. QED
      BY <1>2, <2>1
  <1>4. \A j \in 1..m : w[n + j] = v[j]
    <2> TAKE j \in 1..m
    <2>1. n + j \in 1..n + m /\ ~(n + j <= n) /\ (n + j) - n = j
      BY <1>1
    <2>2. QED
      BY <1>2, <2>1
  <1>5. QED
    BY <1>1, <1>2, <1>3, <1>4 DEF w, n, m

\* A byte more.
LEMMA OneByte ==
  ASSUME NEW S, NEW u \in Seq(S), NEW c \in S
  PROVE  /\ Append(u, c) \in Seq(S) /\ Len(Append(u, c)) = Len(u) + 1 /\ Len(u) \in Nat
         /\ Append(u, c)[Len(u) + 1] = c /\ Append(u, c) = u \o <<c>>
         /\ \A j \in 1..Len(u) : Append(u, c)[j] = u[j]
         /\ \A j \in 1..Len(u) + 1 : j \in 1..Len(u) \/ j = Len(u) + 1
  BY AppendProperties, AppendIsConcat

\* Where a sequence goes on, its bytes stay what they were; and those of what it goes on with
\* are what they were unless it ends within a character.
LEMMA SecondAlong ==
  ASSUME NEW S, NEW u \in Seq(S), NEW v \in Seq(S)
  PROVE  /\ \A j \in 1..Len(u) : Second(u \o v)[j] = Second(u)[j]
         /\ Len(v) > 0 => Second(u \o v)[Len(u) + 1] = Open(u)
         /\ ~Open(u) => \A j \in 1..Len(v) : Second(u \o v)[Len(u) + j] = Second(v)[j]
  <1> DEFINE w == u \o v
             n == Len(u)
             m == Len(v)
             W == Second(w)
             U == Second(u)
             V == Second(v)
  <1>1. /\ w \in Seq(S) /\ Len(w) = n + m /\ n \in Nat /\ m \in Nat
        /\ \A j \in 1..n : w[j] = u[j]
        /\ \A j \in 1..m : w[n + j] = v[j]
    BY JoinedIs
  <1>2. \A j \in 1..n : U[j] = (j > 1 /\ ~U[j - 1] /\ u[j - 1] = "lead")
    BY SecondDef
  <1>3. \A j \in 1..m : V[j] = (j > 1 /\ ~V[j - 1] /\ v[j - 1] = "lead")
    BY SecondDef
  <1>4. \A j \in 1..n + m : W[j] = (j > 1 /\ ~W[j - 1] /\ w[j - 1] = "lead")
    <2> HIDE DEF w
    <2>1. \A j \in 1..Len(w) : W[j] = (j > 1 /\ ~W[j - 1] /\ w[j - 1] = "lead")
      BY <1>1, SecondDef
    <2>2. QED
      BY <1>1, <2>1
  <1>5. Open(u) = (n > 0 /\ u[n] = "lead" /\ ~U[n])
    BY DEF Open
  <1> HIDE DEF w, n, m, U, V, W
  <1>6. \A j \in 1..n : W[j] = U[j]
    <2> DEFINE I == {j \in Int : W[j] = U[j]}
    <2>1. 1 <= n => 1 \in I
      <3> SUFFICES ASSUME 1 <= n PROVE 1 \in I
        OBVIOUS
      <3>1. 1 \in 1..n /\ 1 \in 1..n + m /\ ~(1 > 1)
        BY <1>1
      <3>2. W[1] = FALSE /\ U[1] = FALSE
        BY <1>2, <1>4, <3>1, Zenon
      <3>3. W[1] = U[1]
        BY <3>2, Zenon
      <3>4. QED
        BY <3>3
    <2>2. ASSUME NEW j \in 1..n - 1, j \in I PROVE j + 1 \in I
      <3>1. /\ j + 1 \in 1..n /\ j + 1 \in 1..n + m /\ j \in 1..n /\ (j + 1) - 1 = j
            /\ j + 1 \in Int
        BY <1>1
      <3>2. w[j] = u[j] /\ W[j] = U[j]
        BY <1>1, <2>2, <3>1
      <3>3. W[j + 1] = U[j + 1]
        BY <1>2, <1>4, <3>1, <3>2, Zenon
      <3>4. QED
        BY <3>1, <3>3
    <2>3. 1 \in Int /\ n \in Int
      BY <1>1
    <2> HIDE DEF I
    <2>4. \A j \in 1..n : j \in I
      BY <2>1, <2>2, <2>3, IntervalClosed
    <2>5. QED
      BY <2>4 DEF I
  <1>7. m > 0 => W[n + 1] = Open(u)
    <2> SUFFICES ASSUME m > 0 PROVE W[n + 1] = Open(u)
      OBVIOUS
    <2>1. n + 1 \in 1..n + m /\ (n + 1) - 1 = n
      BY <1>1
    <2>2. W[n + 1] = (n + 1 > 1 /\ ~W[n] /\ w[n] = "lead")
      BY <1>4, <2>1
    <2>3. CASE n = 0
      <3>1. ~(n + 1 > 1) /\ ~(n > 0)
        BY <2>3
      <3>2. QED
        BY <1>5, <2>2, <3>1, Zenon
    <2>4. CASE n # 0
      <3>1. n + 1 > 1 /\ n > 0 /\ n \in 1..n
        BY <1>1, <2>4
      <3>2. W[n] = U[n] /\ w[n] = u[n]
        BY <1>1, <1>6, <3>1
      <3>3. QED
        BY <1>5, <2>2, <3>1, <3>2, Zenon
    <2>5. QED
      BY <2>3, <2>4
  <1>8. ASSUME ~Open(u) PROVE \A j \in 1..m : W[n + j] = V[j]
    <2> DEFINE I == {j \in Int : W[n + j] = V[j]}
    <2>1. 1 <= m => 1 \in I
      <3> SUFFICES ASSUME 1 <= m PROVE 1 \in I
        OBVIOUS
      <3>1. 1 \in 1..m /\ m > 0 /\ ~(1 > 1)
        BY <1>1
      <3>2. W[n + 1] = FALSE
        BY <1>7, <1>8, <3>1, OpenOrNot
      <3>3. V[1] = FALSE
        BY <1>3, <3>1, Zenon
      <3>4. W[n + 1] = V[1]
        BY <3>2, <3>3, Zenon
      <3>5. QED
        BY <3>4
    <2>2. ASSUME NEW j \in 1..m - 1, j \in I PROVE j + 1 \in I
      <3>1. /\ j \in 1..m /\ n + (j + 1) \in 1..n + m /\ j + 1 \in 1..m
            /\ (n + (j + 1)) - 1 = n + j /\ (j + 1) - 1 = j
            /\ n + (j + 1) > 1 /\ j + 1 > 1 /\ j + 1 \in Int
        BY <1>1
      <3>2. w[n + j] = v[j]
        BY <1>1, <3>1
      <3>3. W[n + j] = V[j]
        BY <2>2
      <3>4. W[n + (j + 1)] = (~W[n + j] /\ w[n + j] = "lead")
        <4>1. W[n + (j + 1)] = (/\ n + (j + 1) > 1 /\ ~W[(n + (j + 1)) - 1]
                                /\ w[(n + (j + 1)) - 1] = "lead")
          BY <1>4, <3>1, Zenon
        <4>2. QED
          BY <3>1, <4>1, Zenon
      <3>5. V[j + 1] = (~V[j] /\ v[j] = "lead")
        <4>1. V[j + 1] = (j + 1 > 1 /\ ~V[(j + 1) - 1] /\ v[(j + 1) - 1] = "lead")
          BY <1>3, <3>1, Zenon
        <4>2. QED
          BY <3>1, <4>1, Zenon
      <3>6. W[n + (j + 1)] = V[j + 1]
        BY <3>2, <3>3, <3>4, <3>5, Zenon
      <3>7. QED
        BY <3>1, <3>6
    <2>3. 1 \in Int /\ m \in Int
      BY <1>1
    <2> HIDE DEF I
    <2>4. \A j \in 1..m : j \in I
      BY <2>1, <2>2, <2>3, IntervalClosed
    <2>5. QED
      BY <2>4 DEF I
  <1>9. QED
    BY <1>6, <1>7, <1>8 DEF w, n, m, U, V, W

LEMMA SecondNext ==
  ASSUME NEW S, NEW u \in Seq(S), NEW c \in S
  PROVE  /\ \A j \in 1..Len(u) : Second(Append(u, c))[j] = Second(u)[j]
         /\ Second(Append(u, c))[Len(u) + 1] = Open(u)
         /\ Open(Append(u, c)) = (c = "lead" /\ ~Open(u))
  <1> DEFINE v == <<c>>
             w == Append(u, c)
             n == Len(u)
  <1>1. v \in Seq(S) /\ Len(v) > 0
    OBVIOUS
  <1>2. w \in Seq(S) /\ Len(w) = n + 1 /\ n \in Nat /\ w[n + 1] = c /\ w = u \o v
    BY OneByte
  <1> HIDE DEF v, w
  <1>3. /\ \A j \in 1..n : Second(w)[j] = Second(u)[j]
        /\ Second(w)[n + 1] = Open(u)
    BY <1>1, <1>2, SecondAlong
  <1> HIDE DEF n
  <1>4. Open(w) = (c = "lead" /\ ~Open(u))
    <2>1. n + 1 > 0
      BY <1>2
    <2>2. QED
      BY <1>2, <1>3, <2>1, Zenon DEF Open
  <1>5. QED
    BY <1>3, <1>4 DEF w, n

LEMMA NotOpen == ~Open(<<>>)
  BY DEF Open

\* A sequence ends within a character if what it goes on with does.
LEMMA OpenAlong ==
  ASSUME NEW S, NEW u \in Seq(S), NEW v \in Seq(S), ~Open(u)
  PROVE  Open(u \o v) = Open(v)
  <1> DEFINE w == u \o v
             n == Len(u)
             m == Len(v)
  <1>1. /\ w \in Seq(S) /\ Len(w) = n + m /\ n \in Nat /\ m \in Nat
        /\ \A j \in 1..m : w[n + j] = v[j]
    BY JoinedIs
  <1>2. \A j \in 1..m : Second(w)[n + j] = Second(v)[j]
    BY SecondAlong
  <1>3. CASE m = 0
    <2>1. v = <<>>
      BY <1>3
    <2>2. w = u
      BY <2>1, ConcatEmptySeq
    <2>3. QED
      BY <2>1, <2>2, NotOpen, OpenOrNot
  <1>4. CASE m # 0
    <2> HIDE DEF w, n, m
    <2>1. m \in 1..m /\ n + m > 0 /\ m > 0
      BY <1>1, <1>4
    <2>2. w[n + m] = v[m] /\ Second(w)[n + m] = Second(v)[m]
      BY <1>1, <1>2, <2>1
    <2>3. Open(w) <=> w[n + m] = "lead" /\ ~Second(w)[n + m]
      BY <1>1, <2>1 DEF Open
    <2>4. Open(v) <=> v[m] = "lead" /\ ~Second(v)[m]
      BY <2>1 DEF Open, m
    <2>5. Open(w) = Open(v)
      <3>1. Open(w) <=> Open(v)
        BY <2>2, <2>3, <2>4
      <3>2. QED
        BY <3>1, OpenOrNot
    <2>6. QED
      BY <2>5 DEF w
  <1>5. QED
    BY <1>3, <1>4

-----------------------------------------------------------------------------
(* PathParts: the last single byte of a kind.                              *)

Single(t, S, j) == t[j] \in S /\ ~Second(t)[j]
IsLast(t, S, m) == /\ m \in 0..Len(t) /\ (m # 0 => Single(t, S, m))
                   /\ \A j \in m + 1..Len(t) : ~Single(t, S, j)

LEMMA OnlyLast ==
  ASSUME NEW T, NEW t \in Seq(T), NEW S, NEW m, IsLast(t, S, m)
  PROVE  LastSingle(t, S) = m
  <1> DEFINE n == Len(t)
             B == {0} \union {j \in 1..n : Single(t, S, j)}
             k == Max(B)
  <1>1. n \in Nat /\ m \in 0..n /\ (m # 0 => Single(t, S, m))
        /\ \A j \in m + 1..n : ~Single(t, S, j)
    BY DEF IsLast
  <1>2. m \in B
    BY <1>1
  <1>3. \A j \in B : m >= j
    <2> SUFFICES ASSUME NEW j \in B, ~(m >= j) PROVE FALSE
      OBVIOUS
    <2>1. j \in 1..n /\ Single(t, S, j)
      BY <1>1
    <2>2. j \in m + 1..n
      BY <1>1, <2>1
    <2>3. QED
      BY <1>1, <2>1, <2>2
  <1>4. \A j \in B : j \in Int
    BY <1>1
  <1> HIDE DEF B, n
  <1>5. k \in B /\ \A j \in B : k >= j
    <2>1. \E x \in B : \A y \in B : x >= y
      BY <1>2, <1>3
    <2>2. QED
      BY <2>1, Zenon DEF Max
  <1> HIDE DEF k
  <1>6. k >= m /\ m >= k /\ k \in Int /\ m \in Int
    BY <1>2, <1>3, <1>4, <1>5
  <1>7. k = m
    BY <1>6
  <1>8. LastSingle(t, S) = k
    BY DEF LastSingle, k, B, n, Single
  <1>9. QED
    BY <1>7, <1>8

LEMMA LastIs ==
  ASSUME NEW T, NEW t \in Seq(T), NEW S
  PROVE  IsLast(t, S, LastSingle(t, S))
  <1> DEFINE n == Len(t)
             B == {h \in 0..n : \A j \in h + 1..n : ~Single(t, S, j)}
  <1>1. n \in Nat
    OBVIOUS
  <1>2. B \subseteq Nat /\ n \in B
    BY <1>1
  <1> HIDE DEF B
  <1>3. PICK m \in B : \A h \in B : m <= h
    <2>1. B # {}
      BY <1>2
    <2>2. QED
      BY <1>2, <2>1, SmallestNat
  <1>4. m \in 0..n /\ \A j \in m + 1..n : ~Single(t, S, j)
    BY DEF B
  <1>5. ASSUME m # 0, ~Single(t, S, m) PROVE FALSE
    <2>1. m - 1 \in 0..n /\ (m - 1) + 1 = m
      BY <1>1, <1>4, <1>5
    <2>2. \A j \in (m - 1) + 1..n : j = m \/ j \in m + 1..n
      BY <1>1, <1>4
    <2>3. \A j \in (m - 1) + 1..n : ~Single(t, S, j)
      BY <1>4, <1>5, <2>2, Zenon
    <2>4. m - 1 \in B
      BY <2>1, <2>3 DEF B
    <2>5. m <= m - 1
      BY <1>3, <2>4
    <2>6. QED
      BY <1>1, <1>4, <2>5
  <1>6. IsLast(t, S, m)
    BY <1>4, <1>5 DEF IsLast
  <1>7. LastSingle(t, S) = m
    BY <1>6, OnlyLast
  <1>8. QED
    BY <1>6, <1>7

LEMMA NoneLast == \A S : LastSingle(<<>>, S) = 0
  <1> TAKE S
  <1> DEFINE e == <<>>
  <1>1. e \in Seq(S) /\ Len(e) = 0
    BY EmptySeq
  <1> HIDE DEF e
  <1>2. IsLast(e, S, 0)
    BY <1>1 DEF IsLast
  <1>3. LastSingle(e, S) = 0
    BY <1>1, <1>2, OnlyLast
  <1>4. QED
    BY <1>3 DEF e

\* One byte more.
LEMMA LastNext ==
  ASSUME NEW T, NEW u \in Seq(T), NEW c \in T, NEW S
  PROVE  LastSingle(Append(u, c), S) =
           IF c \in S /\ ~Open(u) THEN Len(u) + 1 ELSE LastSingle(u, S)
  <1> DEFINE w == Append(u, c)
             n == Len(u)
             k == LastSingle(u, S)
  <1>1. /\ w \in Seq(T) /\ Len(w) = n + 1 /\ n \in Nat /\ w[n + 1] = c
        /\ \A j \in 1..n : w[j] = u[j]
    BY OneByte
  <1>2. /\ \A j \in 1..n : Second(w)[j] = Second(u)[j]
        /\ Second(w)[n + 1] = Open(u)
    BY SecondNext
  <1>3. k \in 0..n /\ (k # 0 => Single(u, S, k)) /\ \A j \in k + 1..n : ~Single(u, S, j)
    BY LastIs DEF IsLast
  <1> HIDE DEF w, n, k
  <1>4. \A j \in 1..n : Single(w, S, j) <=> Single(u, S, j)
    <2> TAKE j \in 1..n
    <2>1. w[j] = u[j] /\ Second(w)[j] = Second(u)[j]
      BY <1>1, <1>2
    <2>2. QED
      BY <2>1 DEF Single
  <1>5. Single(w, S, n + 1) <=> c \in S /\ ~Open(u)
    BY <1>1, <1>2 DEF Single
  <1>6. CASE c \in S /\ ~Open(u)
    <2>1. n + 1 \in 0..n + 1 /\ \A j \in (n + 1) + 1..n + 1 : FALSE
      BY <1>1
    <2>2. IsLast(w, S, n + 1)
      BY <1>1, <1>5, <1>6, <2>1 DEF IsLast
    <2>3. LastSingle(w, S) = n + 1
      BY <1>1, <2>2, OnlyLast
    <2>4. QED
      BY <1>6, <2>3 DEF w, n
  <1>7. CASE ~(c \in S /\ ~Open(u))
    <2>1. k \in 0..n + 1 /\ (k # 0 => k \in 1..n)
      BY <1>1, <1>3
    <2>2. \A j \in k + 1..n + 1 : (j \in k + 1..n /\ j \in 1..n) \/ j = n + 1
      BY <1>1, <1>3
    <2>3. \A j \in k + 1..n + 1 : ~Single(w, S, j)
      BY <1>3, <1>4, <1>5, <1>7, <2>2, Zenon
    <2>4. IsLast(w, S, k)
      BY <1>1, <1>3, <1>4, <2>1, <2>3 DEF IsLast
    <2>5. LastSingle(w, S) = k
      BY <1>1, <2>4, OnlyLast
    <2>6. QED
      BY <1>7, <2>5 DEF w, n, k
  <1>8. QED
    BY <1>6, <1>7

\* What goes on with bytes of no such kind has its last one where it was.
LEMMA LastStays ==
  ASSUME NEW T, NEW u \in Seq(T), NEW v \in Seq(T), NEW S,
         \A j \in 1..Len(v) : v[j] \notin S \/ (~Open(u) /\ Second(v)[j])
  PROVE  LastSingle(u \o v, S) = LastSingle(u, S)
  <1> DEFINE w == u \o v
             n == Len(u)
             m == Len(v)
             k == LastSingle(u, S)
  <1>1. /\ w \in Seq(T) /\ Len(w) = n + m /\ n \in Nat /\ m \in Nat
        /\ \A j \in 1..n : w[j] = u[j]
        /\ \A j \in 1..m : w[n + j] = v[j]
    BY JoinedIs
  <1>2. /\ \A j \in 1..n : Second(w)[j] = Second(u)[j]
        /\ ~Open(u) => \A j \in 1..m : Second(w)[n + j] = Second(v)[j]
    BY SecondAlong
  <1>3. k \in 0..n /\ (k # 0 => Single(u, S, k)) /\ \A j \in k + 1..n : ~Single(u, S, j)
    BY LastIs DEF IsLast
  <1> HIDE DEF w, n, k
  <1>4. \A j \in 1..n : Single(w, S, j) <=> Single(u, S, j)
    <2> TAKE j \in 1..n
    <2>1. w[j] = u[j] /\ Second(w)[j] = Second(u)[j]
      BY <1>1, <1>2
    <2>2. QED
      BY <2>1 DEF Single
  <1>5. \A j \in 1..m : ~Single(w, S, n + j)
    <2> TAKE j \in 1..m
    <2>1. w[n + j] = v[j] /\ (~Open(u) => Second(w)[n + j] = Second(v)[j])
      BY <1>1, <1>2
    <2>2. v[j] \notin S \/ (~Open(u) /\ Second(v)[j])
      OBVIOUS
    <2>3. QED
      BY <2>1, <2>2, Zenon DEF Single
  <1> HIDE DEF m
  <1>6. k \in 0..n + m /\ (k # 0 => k \in 1..n)
    BY <1>1, <1>3
  <1>7. \A j \in k + 1..n + m : ~Single(w, S, j)
    <2> TAKE j \in k + 1..n + m
    <2>1. CASE j \in 1..n
      <3>1. j \in k + 1..n
        BY <1>1, <1>3, <2>1
      <3>2. QED
        BY <1>3, <1>4, <2>1, <3>1
    <2>2. CASE j \notin 1..n
      <3>1. j - n \in 1..m /\ n + (j - n) = j
        BY <1>1, <1>3, <2>2
      <3>2. QED
        BY <1>5, <3>1
    <2>3. QED
      BY <2>1, <2>2
  <1>8. IsLast(w, S, k)
    BY <1>1, <1>3, <1>4, <1>6, <1>7 DEF IsLast
  <1>9. LastSingle(w, S) = k
    BY <1>1, <1>8, OnlyLast
  <1>10. QED
    BY <1>9 DEF w, k

-----------------------------------------------------------------------------
(* PathParts: _makepath adds a component.                                  *)

Makings == [path : Seq(PartChars), lead : BOOLEAN, sep : BOOLEAN, last : PartSeps,
            status : {"ok", "EINVAL", "ENAMETOOLONG"}]

LEMMA AddCharIs ==
  ASSUME NEW m \in Makings, NEW c \in PartChars
  PROVE  LET n == AddChar(m, c)
             full == Len(m.path) = WholeMax - 1
         IN  /\ n \in Makings /\ n.lead = m.lead /\ n.sep = m.sep /\ n.last = m.last
             /\ full => n.status = "ENAMETOOLONG"
             /\ ~full => n.status = m.status /\ n.path = Append(m.path, c)
  <1> DEFINE n == AddChar(m, c)
             full == Len(m.path) = WholeMax - 1
  <1>1. m.path \in Seq(PartChars) /\ Append(m.path, c) \in Seq(PartChars)
    BY DEF Makings
  <1>2. CASE full
    <2>1. n = [m EXCEPT !.status = "ENAMETOOLONG"]
      BY <1>2 DEF AddChar
    <2>2. QED
      BY <1>2, <2>1 DEF Makings
  <1>3. CASE ~full
    <2>1. n = [m EXCEPT !.path = Append(m.path, c)]
      BY <1>3 DEF AddChar, Makings
    <2>2. QED
      BY <1>1, <1>3, <2>1 DEF Makings
  <1>4. QED
    BY <1>2, <1>3

\* What the ADD macro makes of a character.
LEMMA AddNextIs ==
  ASSUME NEW m \in Makings, NEW c \in PartChars, NEW d \in BOOLEAN
  PROVE  LET n == AddNext(m, c, d) IN
         /\ n \in Makings
         /\ m.status # "ok" => n = m
         /\ m.status = "ok" =>
              /\ Len(m.path) = WholeMax - 1 => n.status # "ok"
              /\ Len(m.path) # WholeMax - 1 => n.status = "ok" /\ n.path = Append(m.path, c)
              /\ n.lead = (c = "lead" /\ ~m.lead)
              /\ m.lead \/ c = "lead" => n.sep = m.sep /\ n.last = m.last
              /\ ~m.lead /\ c # "lead" /\ d =>
                   /\ n.sep = (c \in PartSeps)
                   /\ n.last = IF c \in PartSeps THEN c ELSE m.last
  <1> DEFINE n == AddNext(m, c, d)
             a == AddChar(m, c)
  <1>1. /\ a \in Makings /\ a.lead = m.lead /\ a.sep = m.sep /\ a.last = m.last
        /\ Len(m.path) = WholeMax - 1 => a.status = "ENAMETOOLONG"
        /\ Len(m.path) # WholeMax - 1 => a.status = m.status /\ a.path = Append(m.path, c)
    BY AddCharIs
  <1>2. CASE m.status # "ok"
    BY <1>2 DEF AddNext
  <1>3. CASE m.status = "ok"
    <2> HIDE DEF a
    <2>1. m.lead \in BOOLEAN
      BY DEF Makings
    <2>2. CASE m.lead
      <3>1. n = [a EXCEPT !.lead = FALSE]
        BY <1>3, <2>2 DEF AddNext, a
      <3>2. /\ n \in Makings /\ n.lead = FALSE /\ n.sep = a.sep /\ n.last = a.last
            /\ n.status = a.status /\ n.path = a.path
        BY <1>1, <3>1 DEF Makings
      <3> HIDE DEF n
      <3>3. QED
        BY <1>1, <1>3, <2>2, <3>2 DEF n
    <2>3. CASE ~m.lead /\ c = "lead"
      <3>1. n = [a EXCEPT !.lead = TRUE]
        BY <1>3, <2>3 DEF AddNext, a
      <3>2. /\ n \in Makings /\ n.lead = TRUE /\ n.sep = a.sep /\ n.last = a.last
            /\ n.status = a.status /\ n.path = a.path
        BY <1>1, <3>1 DEF Makings
      <3> HIDE DEF n
      <3>3. QED
        BY <1>1, <1>3, <2>3, <3>2 DEF n
    <2>4. CASE ~m.lead /\ c # "lead" /\ d /\ c \in PartSeps
      <3>1. n = [a EXCEPT !.sep = TRUE, !.last = c]
        BY <1>3, <2>4 DEF AddNext, a
      <3>2. /\ n \in Makings /\ n.lead = a.lead /\ n.sep = TRUE /\ n.last = c
            /\ n.status = a.status /\ n.path = a.path
        BY <1>1, <2>4, <3>1 DEF Makings
      <3> HIDE DEF n
      <3>3. n.lead = FALSE
        BY <1>1, <2>1, <2>4, <3>2
      <3>4. QED
        BY <1>1, <1>3, <2>4, <3>2, <3>3 DEF n
    <2>5. CASE ~m.lead /\ c # "lead" /\ ~(d /\ c \in PartSeps)
      <3> DEFINE x == IF d THEN FALSE ELSE a.sep
      <3>1. n = [a EXCEPT !.sep = x]
        BY <1>1, <1>3, <2>5 DEF AddNext, a, Makings
      <3>2. x \in BOOLEAN /\ (d => x = FALSE)
        <4>1. a.sep \in BOOLEAN
          BY <1>1 DEF Makings
        <4>2. CASE d
          BY <4>2
        <4>3. CASE ~d
          BY <4>1, <4>3
        <4>4. QED
          BY <4>2, <4>3
      <3> HIDE DEF x
      <3>3. /\ n \in Makings /\ n.lead = a.lead /\ n.sep = x /\ n.last = a.last
            /\ n.status = a.status /\ n.path = a.path
        BY <1>1, <3>1, <3>2 DEF Makings
      <3> HIDE DEF n
      <3>4. n.lead = FALSE
        BY <1>1, <2>1, <2>5, <3>3
      <3>5. n.lead = (c = "lead" /\ ~m.lead)
        BY <2>5, <3>4, Zenon
      <3>6. d => n.sep = (c \in PartSeps) /\ c \notin PartSeps
        <4> SUFFICES ASSUME d PROVE n.sep = (c \in PartSeps) /\ c \notin PartSeps
          OBVIOUS
        <4>1. n.sep = FALSE /\ c \notin PartSeps
          BY <2>5, <3>2, <3>3
        <4>2. (c \in PartSeps) = FALSE
          BY <4>1
        <4>3. QED
          BY <4>1, <4>2, Zenon
      <3>7. QED
        BY <1>1, <1>3, <2>5, <3>3, <3>5, <3>6 DEF n
    <2>6. QED
      BY <2>2, <2>3, <2>4, <2>5
  <1>4. QED
    BY <1>2, <1>3

\* The recursion of Adding.
AddedTo(m, comp, d) ==
  LET add[h \in 0..Len(comp)] == IF h = 0 THEN m ELSE AddNext(add[h - 1], comp[h], d)
  IN  add

LEMMA AddingIsLast == \A m, comp, d : Adding(m, comp, d) = AddedTo(m, comp, d)[Len(comp)]
  BY DEF Adding, AddedTo

LEMMA AddedDef ==
  ASSUME NEW m \in Makings, NEW t \in Seq(PartChars), NEW d \in BOOLEAN
  PROVE  /\ AddedTo(m, t, d)[0] = m
         /\ \A h \in 1..Len(t) : AddedTo(m, t, d)[h] = AddNext(AddedTo(m, t, d)[h - 1], t[h], d)
  <1> DEFINE V == Makings
             E(h, v) == AddNext(v, t[h], d)
             D == [h \in 1..Len(t) |-> [v \in V |-> E(h, v)]]
             Good(g) == g = [h \in 0..Len(t) |-> IF h = 0 THEN m ELSE E(h, g[h - 1])]
  <1>1. m \in V /\ Len(t) \in Nat
    OBVIOUS
  <1>2. \A h \in 1..Len(t) : \A v \in V : E(h, v) \in V
    <2> TAKE h \in 1..Len(t)
    <2> TAKE v \in V
    <2>1. t[h] \in PartChars
      OBVIOUS
    <2>2. QED
      BY <2>1, AddNextIs
  <1>3. D \in Steps(0, Len(t), V)
    <2> HIDE DEF E, V
    <2>1. D \in [1..Len(t) -> [V -> V]]
      BY <1>2
    <2> HIDE DEF D
    <2>2. QED
      BY <2>1, StepsFrom0
  <1>4. PICK g : g \in Obeying(0, Len(t), V, m, D)
    <2> HIDE DEF D, Good
    <2>1. 0 \in Int /\ Len(t) \in Int
      BY <1>1
    <2> HIDE DEF V
    <2>2. QED
      BY <1>1, <1>3, <2>1, RecursionDefines, Zenon
  <1>5. Good(g)
    <2> HIDE DEF E, V
    <2>1. \A h \in 1..Len(t) : h - 1 \in 0..Len(t)
      BY <1>1
    <2>2. g \in [0..Len(t) -> V]
      BY <1>4 DEF Obeying
    <2>3. g[0] = m /\ \A h \in 1..Len(t) : g[h] = D[h][g[h - 1]]
      BY <1>1, <1>4 DEF Obeying
    <2>4. \A h \in 1..Len(t) : g[h] = E(h, g[h - 1])
      BY <2>1, <2>2, <2>3
    <2> HIDE DEF D
    <2>5. \A h \in 0..Len(t) : h = 0 \/ h \in 1..Len(t)
      BY <1>1
    <2>6. QED
      BY <2>2, <2>3, <2>4, <2>5
  <1> DEFINE r == AddedTo(m, t, d)
  <1>6. Good(r)
    <2> HIDE DEF D, V
    <2>1. r = CHOOSE f : Good(f)
      BY DEF AddedTo
    <2> HIDE DEF Good, r
    <2>2. QED
      BY <1>5, <2>1
  <1> HIDE DEF E, D, r, V
  <1>7. r[0] = m /\ \A h \in 1..Len(t) : r[h] = E(h, r[h - 1])
    <2>1. 0 \in 0..Len(t) /\ \A h \in 1..Len(t) : h \in 0..Len(t) /\ h # 0
      BY <1>1
    <2>2. \A h \in 0..Len(t) : r[h] = IF h = 0 THEN m ELSE E(h, r[h - 1])
      BY <1>6, Zenon
    <2>3. QED
      BY <2>1, <2>2
  <1>8. QED
    BY <1>7 DEF E, r

\* The last separator of u, or x.
LastSep(u, x) == LET k == LastSingle(u, PartSeps) IN IF k = 0 THEN x ELSE u[k]

\* n is what becomes of m when u is added to it, as far as there is room.
Added(m, n, u, d) ==
  /\ n \in Makings /\ (n.status = "ok" <=> Len(m.path) + Len(u) <= WholeMax - 1)
  /\ n.status = "ok" => /\ n.path = m.path \o u /\ n.lead = Open(u)
                        /\ d => /\ n.last = LastSep(u, m.last)
                                /\ EndsSingle(u) /\ u # <<>> => n.sep = (u[Len(u)] \in PartSeps)

LEMMA AddedNext ==
  ASSUME NEW m \in Makings, NEW n, NEW u \in Seq(PartChars), NEW d \in BOOLEAN, Added(m, n, u, d),
         NEW c \in PartChars
  PROVE  Added(m, AddNext(n, c, d), Append(u, c), d)
  <1> DEFINE r == AddNext(n, c, d)
             w == Append(u, c)
             k == Len(m.path)
             l == Len(u)
  <1>1. /\ w \in Seq(PartChars) /\ Len(w) = l + 1 /\ l \in Nat /\ w[l + 1] = c /\ w = u \o <<c>>
        /\ \A j \in 1..l : w[j] = u[j]
    BY OneByte
  <1>2. k \in Nat /\ m.path \in Seq(PartChars) /\ WholeMax \in Nat
    BY PartsAssumption DEF Makings
  <1>3. n \in Makings /\ (n.status = "ok" <=> k + l <= WholeMax - 1)
    BY DEF Added
  <1>4. /\ r \in Makings
        /\ n.status # "ok" => r = n
        /\ n.status = "ok" =>
             /\ Len(n.path) = WholeMax - 1 => r.status # "ok"
             /\ Len(n.path) # WholeMax - 1 => r.status = "ok" /\ r.path = Append(n.path, c)
             /\ r.lead = (c = "lead" /\ ~n.lead)
             /\ n.lead \/ c = "lead" => r.sep = n.sep /\ r.last = n.last
             /\ ~n.lead /\ c # "lead" /\ d =>
                  /\ r.sep = (c \in PartSeps)
                  /\ r.last = IF c \in PartSeps THEN c ELSE n.last
    BY <1>3, AddNextIs
  <1> HIDE DEF r, w
  <1>5. CASE n.status # "ok"
    <2>1. r.status # "ok"
      BY <1>4, <1>5
    <2>2. ~(k + Len(w) <= WholeMax - 1)
      <3>1. Len(w) = l + 1 /\ l \in Nat /\ k \in Nat /\ WholeMax \in Nat
        BY <1>1, <1>2
      <3>2. ~(k + l <= WholeMax - 1)
        BY <1>3, <1>5
      <3> HIDE DEF k, l
      <3>3. QED
        BY <3>1, <3>2
    <2>3. QED
      BY <1>4, <2>1, <2>2 DEF Added, r, w
  <1>6. CASE n.status = "ok"
    <2>1. n.path = m.path \o u /\ n.lead = Open(u)
      BY <1>6 DEF Added
    <2>2. Len(n.path) = k + l
      <3> DEFINE q == m.path
      <3>1. q \in Seq(PartChars)
        BY <1>2
      <3> HIDE DEF q
      <3>2. Len(q \o u) = Len(q) + Len(u)
        BY <3>1, JoinedIs
      <3>3. QED
        BY <2>1, <3>2 DEF q
    <2>3. r.status = "ok" <=> k + Len(w) <= WholeMax - 1
      <3>1. k + l <= WholeMax - 1
        BY <1>3, <1>6
      <3>2. k + l = WholeMax - 1 <=> ~(k + (l + 1) <= WholeMax - 1)
        <4>1. l \in Nat /\ k \in Nat /\ WholeMax \in Nat
          BY <1>1, <1>2
        <4> HIDE DEF k, l
        <4>2. QED
          BY <3>1, <4>1
      <3>3. QED
        BY <1>1, <1>4, <1>6, <2>2, <3>2
    <2>4. r.lead = Open(w)
      <3>1. Open(w) = (c = "lead" /\ ~Open(u))
        BY SecondNext DEF w
      <3>2. QED
        BY <1>4, <1>6, <2>1, <3>1, Zenon
    <2>5. r.status = "ok" => r.path = m.path \o w
      <3> SUFFICES ASSUME r.status = "ok" PROVE r.path = m.path \o w
        OBVIOUS
      <3> DEFINE q == m.path
      <3>1. q \in Seq(PartChars) /\ r.path = Append(q \o u, c)
        BY <1>2, <1>4, <1>6, <2>1
      <3> HIDE DEF q
      <3> DEFINE v == <<c>>
      <3>2. q \o u \in Seq(PartChars) /\ v \in Seq(PartChars)
        BY <3>1
      <3>3. Append(q \o u, c) = (q \o u) \o v
        BY <3>2, AppendIsConcat
      <3> HIDE DEF v
      <3>4. (q \o u) \o v = q \o (u \o v)
        BY <3>1, <3>2, ConcatAssociative
      <3>5. w = u \o v
        BY <1>1 DEF v
      <3>6. r.path = q \o w
        BY <3>1, <3>3, <3>4, <3>5, Zenon
      <3>7. QED
        BY <3>6 DEF q
    <2>6. ASSUME d PROVE r.last = LastSep(w, m.last)
      <3>1. n.last = LastSep(u, m.last)
        BY <1>6, <2>6 DEF Added
      <3>2. LastSingle(w, PartSeps) =
              IF c \in PartSeps /\ ~Open(u) THEN l + 1 ELSE LastSingle(u, PartSeps)
        BY LastNext DEF w
      <3>3. CASE c \in PartSeps /\ ~Open(u)
        <4>1. LastSingle(w, PartSeps) = l + 1 /\ l + 1 # 0
          BY <1>1, <3>2, <3>3
        <4>2. LastSep(w, m.last) = c
          BY <1>1, <4>1, Zenon DEF LastSep
        <4>3. c # "lead" /\ ~n.lead
          BY <2>1, <3>3 DEF PartSeps
        <4>4. r.last = c
          BY <1>4, <1>6, <2>6, <3>3, <4>3
        <4>5. QED
          BY <4>2, <4>4
      <3>4. CASE ~(c \in PartSeps /\ ~Open(u))
        <4>1. LastSingle(w, PartSeps) = LastSingle(u, PartSeps)
          BY <3>2, <3>4, Zenon
        <4>2. LastSep(w, m.last) = LastSep(u, m.last)
          <5>1. LastSingle(u, PartSeps) \in 0..l
            BY LastIs DEF IsLast
          <5>2. LastSingle(u, PartSeps) # 0 =>
                  w[LastSingle(u, PartSeps)] = u[LastSingle(u, PartSeps)]
            BY <1>1, <5>1
          <5>3. QED
            BY <4>1, <5>2 DEF LastSep
        <4>3. r.last = n.last
          <5>1. CASE n.lead \/ c = "lead"
            BY <1>4, <1>6, <5>1
          <5>2. CASE ~n.lead /\ c # "lead"
            <6>1. c \notin PartSeps
              BY <2>1, <3>4, <5>2
            <6>2. QED
              BY <1>4, <1>6, <2>6, <5>2, <6>1
          <5>3. QED
            BY <5>1, <5>2
        <4>4. QED
          BY <3>1, <4>2, <4>3
      <3>5. QED
        BY <3>3, <3>4
    <2>7. ASSUME d, EndsSingle(w) PROVE r.sep = (w[Len(w)] \in PartSeps)
      <3>1. w # <<>>
        BY <1>1
      <3>2. w[Len(w)] # "lead" /\ ~Second(w)[Len(w)]
        BY <2>7, <3>1 DEF EndsSingle
      <3>3. Second(w)[l + 1] = Open(u)
        BY SecondNext DEF w
      <3>4. c # "lead" /\ ~Open(u)
        BY <1>1, <3>2, <3>3
      <3>5. ~n.lead
        BY <2>1, <3>4, Zenon
      <3>6. r.sep = (c \in PartSeps)
        BY <1>4, <1>6, <2>7, <3>4, <3>5, Zenon
      <3>7. QED
        BY <1>1, <3>6
    <2>8. Added(m, r, w, d)
      BY <1>4, <2>3, <2>4, <2>5, <2>6, <2>7 DEF Added
    <2>9. QED
      BY <2>8 DEF r, w
  <1>7. QED
    BY <1>5, <1>6

LEMMA AddingIs ==
  ASSUME NEW m \in Makings, m.status = "ok", ~m.lead, Len(m.path) <= WholeMax - 1,
         NEW t \in Seq(PartChars), NEW d \in BOOLEAN
  PROVE  Added(m, Adding(m, t, d), t, d)
  <1> DEFINE n == Len(t)
             A == AddedTo(m, t, d)
             I == {h \in Int : Added(m, A[h], SubSeq(t, 1, h), d)}
  <1>1. A[0] = m /\ \A h \in 1..n : A[h] = AddNext(A[h - 1], t[h], d)
    BY AddedDef
  <1>2. n \in Nat
    OBVIOUS
  <1> HIDE DEF A
  <1>3. 0 \in I
    <2> DEFINE e == <<>>
    <2>1. SubSeq(t, 1, 0) = e
      BY SubSeqEmpty
    <2>2. /\ e \in Seq(PartChars) /\ Len(e) = 0 /\ ~Open(e)
          /\ LastSingle(e, PartSeps) = 0 /\ e = <<>>
      BY EmptySeq, NotOpen, NoneLast
    <2> HIDE DEF e
    <2>3. m.path \in Seq(PartChars) /\ m.lead \in BOOLEAN
      BY DEF Makings
    <2>4. m.path \o e = m.path
      BY <2>2, <2>3, ConcatEmptySeq
    <2>5. m.status = "ok" <=> Len(m.path) + Len(e) <= WholeMax - 1
      BY <2>2, <2>3, PartsAssumption
    <2>6. m.lead = Open(e) /\ m.last = LastSep(e, m.last)
      BY <2>2, <2>3, OpenOrNot DEF LastSep
    <2>7. Added(m, m, e, d)
      BY <2>2, <2>4, <2>5, <2>6 DEF Added
    <2>8. Added(m, A[0], SubSeq(t, 1, 0), d)
      BY <1>1, <2>1, <2>7, Zenon
    <2>9. QED
      BY <2>8
  <1>4. ASSUME NEW h \in 0..n - 1, h \in I PROVE h + 1 \in I
    <2>1. h + 1 \in 1..n /\ (h + 1) - 1 = h /\ h + 1 \in Int
      BY <1>2
    <2>2. Added(m, A[h], SubSeq(t, 1, h), d) /\ A[h + 1] = AddNext(A[h], t[h + 1], d)
      BY <1>1, <1>4, <2>1
    <2>3. t[h + 1] \in PartChars /\ SubSeq(t, 1, h) \in Seq(PartChars)
      BY <2>1
    <2>4. Append(SubSeq(t, 1, h), t[h + 1]) = SubSeq(t, 1, h + 1)
      <3>1. 1 \in 1..Len(t) /\ h + 1 \in 1..Len(t)
        BY <1>2, <2>1
      <3>2. SubSeq(t, 1, h + 1) = SubSeq(t, 1, (h + 1) - 1) \o <<t[h + 1]>>
        BY <3>1, SubSeqRecursiveSecond
      <3>3. QED
        BY <2>1, <2>3, <3>2, AppendIsConcat
    <2>5. Added(m, AddNext(A[h], t[h + 1], d), Append(SubSeq(t, 1, h), t[h + 1]), d)
      BY <2>2, <2>3, AddedNext
    <2>6. QED
      BY <2>1, <2>2, <2>4, <2>5
  <1>5. n \in I
    <2>1. 0 \in Int /\ n \in Int /\ n \in 0..n
      BY <1>2
    <2> HIDE DEF I, n
    <2>2. \A h \in 0..n : h \in I
      BY <1>3, <1>4, <2>1, IntervalClosed
    <2>3. QED
      BY <2>1, <2>2
  <1>6. SubSeq(t, 1, n) = t
    BY SubSeqFull
  <1>7. Adding(m, t, d) = A[n]
    BY AddingIsLast DEF A
  <1>8. QED
    BY <1>5, <1>6, <1>7

-----------------------------------------------------------------------------
(* PathParts: _splitpath.                                                  *)

\* A sequence cut in two, and two joined and cut again.
LEMMA CutAt ==
  ASSUME NEW S, NEW t \in Seq(S), NEW k \in 0..Len(t)
  PROVE  /\ SubSeq(t, 1, k) \in Seq(S) /\ SubSeq(t, k + 1, Len(t)) \in Seq(S)
         /\ Len(SubSeq(t, 1, k)) = k /\ Len(SubSeq(t, k + 1, Len(t))) = Len(t) - k
         /\ t = SubSeq(t, 1, k) \o SubSeq(t, k + 1, Len(t))
         /\ \A j \in 1..k : SubSeq(t, 1, k)[j] = t[j]
         /\ \A j \in 1..Len(t) - k : SubSeq(t, k + 1, Len(t))[j] = t[k + j]
  <1> DEFINE n == Len(t)
             u == SubSeq(t, 1, k)
             v == SubSeq(t, k + 1, n)
  <1>1. n \in Nat /\ k \in 0..n
    OBVIOUS
  <1>2. u \in Seq(S) /\ Len(u) = k /\ \A j \in 1..k : u[j] = t[j]
    <2>1. 1 \in Int /\ k \in Int /\ \A h \in 1..k : t[h] \in S
      BY <1>1
    <2>2. /\ u \in Seq(S) /\ Len(u) = IF 1 <= k THEN k - 1 + 1 ELSE 0
          /\ \A h \in 1..k - 1 + 1 : u[h] = t[1 + h - 1]
      BY <2>1, SubSeqProperties
    <2> HIDE DEF u
    <2>3. k - 1 + 1 = k /\ \A h \in 1..k : 1 + h - 1 = h
      BY <1>1
    <2>4. (IF 1 <= k THEN k - 1 + 1 ELSE 0) = k
      BY <1>1
    <2>5. QED
      BY <2>2, <2>3, <2>4
  <1>3. v \in Seq(S) /\ Len(v) = n - k /\ \A j \in 1..n - k : v[j] = t[k + j]
    <2>1. k + 1 \in Int /\ n \in Int /\ \A h \in k + 1..n : t[h] \in S
      BY <1>1
    <2> HIDE DEF n
    <2>2. /\ v \in Seq(S) /\ Len(v) = IF k + 1 <= n THEN n - (k + 1) + 1 ELSE 0
          /\ \A h \in 1..n - (k + 1) + 1 : v[h] = t[(k + 1) + h - 1]
      BY <2>1, SubSeqProperties
    <2> HIDE DEF v
    <2>3. n - (k + 1) + 1 = n - k /\ \A h \in 1..n - k : (k + 1) + h - 1 = k + h
      BY <1>1
    <2>4. (IF k + 1 <= n THEN n - (k + 1) + 1 ELSE 0) = n - k
      BY <1>1
    <2>5. QED
      BY <2>2, <2>3, <2>4
  <1>4. t = u \o v
    <2> HIDE DEF n, u, v
    <2>1. /\ u \o v \in Seq(S) /\ Len(u \o v) = Len(u) + Len(v)
          /\ \A j \in 1..Len(u) : (u \o v)[j] = u[j]
          /\ \A j \in 1..Len(v) : (u \o v)[Len(u) + j] = v[j]
      <3>1. u \in Seq(S) /\ v \in Seq(S)
        BY <1>2, <1>3
      <3>2. QED
        BY ONLY <3>1, JoinedIs
    <2>2. Len(u \o v) = n
      BY <1>1, <1>2, <1>3, <2>1
    <2>3. \A j \in 1..n : t[j] = (u \o v)[j]
      <3> TAKE j \in 1..n
      <3>1. CASE j \in 1..k
        BY <1>2, <2>1, <3>1
      <3>2. CASE j \notin 1..k
        <4>1. j - k \in 1..n - k /\ k + (j - k) = j
          BY <1>1, <3>2
        <4>2. v[j - k] = t[j] /\ (u \o v)[k + (j - k)] = v[j - k]
          BY <1>2, <1>3, <2>1, <4>1
        <4>3. QED
          BY <4>1, <4>2
      <3>3. QED
        BY <3>1, <3>2
    <2>4. QED
      BY <2>1, <2>2, <2>3, SeqEqual DEF n
  <1>5. QED
    BY <1>2, <1>3, <1>4

LEMMA JoinCut ==
  ASSUME NEW S, NEW u \in Seq(S), NEW v \in Seq(S)
  PROVE  /\ SubSeq(u \o v, 1, Len(u)) = u
         /\ SubSeq(u \o v, Len(u) + 1, Len(u \o v)) = v
  <1> DEFINE w == u \o v
             n == Len(u)
             m == Len(v)
             x == SubSeq(w, 1, n)
             y == SubSeq(w, n + 1, Len(w))
  <1>1. /\ w \in Seq(S) /\ Len(w) = n + m /\ n \in Nat /\ m \in Nat
        /\ \A j \in 1..n : w[j] = u[j]
        /\ \A j \in 1..m : w[n + j] = v[j]
    BY JoinedIs
  <1>2. n \in 0..Len(w) /\ Len(w) - n = m
    BY <1>1
  <1> HIDE DEF w
  <1>3. /\ x \in Seq(S) /\ y \in Seq(S) /\ Len(x) = n /\ Len(y) = Len(w) - n
        /\ \A j \in 1..n : x[j] = w[j]
        /\ \A j \in 1..Len(w) - n : y[j] = w[n + j]
    BY <1>1, <1>2, CutAt
  <1> HIDE DEF x, y
  <1>4. x = u
    <2>1. \A j \in 1..n : x[j] = u[j]
      BY <1>1, <1>3
    <2>2. QED
      BY <1>3, <2>1, SeqEqual
  <1>5. y = v
    <2>1. Len(y) = m /\ \A j \in 1..m : y[j] = v[j]
      BY <1>1, <1>2, <1>3
    <2>2. QED
      BY <1>3, <2>1, SeqEqual
  <1>6. QED
    BY <1>4, <1>5 DEF x, y, w

\* Drive, directory, name and extension of t, before they are cut.
NameEnd(s) == LET dot == LastSingle(s, {"dot"}) IN IF dot = 0 THEN Len(s) ELSE dot - 1
IsSplit(t, d, g, f, e) ==
  /\ d \in Seq(PartChars) /\ g \in Seq(PartChars) /\ f \in Seq(PartChars) /\ e \in Seq(PartChars)
  /\ t = d \o (g \o (f \o e))
  /\ Len(d) = IF HasDriveSpec(t) THEN 2 ELSE 0
  /\ LastSingle(g \o (f \o e), PartSeps) = Len(g)
  /\ NameEnd(f \o e) = Len(f)

LEMMA SplitGives ==
  ASSUME NEW t, NEW d, NEW g, NEW f, NEW e, IsSplit(t, d, g, f, e)
  PROVE  SplitOf(t) = [drive |-> d, dir |-> CopyComponent(g, WholeMax),
                       fname |-> CopyComponent(f, FnameMax), ext |-> CopyComponent(e, PartExtMax)]
  <1> DEFINE q == IF HasDriveSpec(t) THEN 2 ELSE 0
             rest == SubSeq(t, q + 1, Len(t))
             k == LastSingle(rest, PartSeps)
             name == SubSeq(rest, k + 1, Len(rest))
             l == NameEnd(name)
             n == f \o e
             r == g \o n
  <1>1. /\ d \in Seq(PartChars) /\ g \in Seq(PartChars) /\ f \in Seq(PartChars)
        /\ e \in Seq(PartChars)
    BY DEF IsSplit
  <1>2. n \in Seq(PartChars)
    BY <1>1, JoinedIs
  <1>3. r \in Seq(PartChars)
    BY <1>1, <1>2, JoinedIs
  <1>4. t = d \o r /\ Len(d) = q /\ LastSingle(r, PartSeps) = Len(g) /\ NameEnd(n) = Len(f)
    BY DEF IsSplit
  <1>5. SplitOf(t) = [drive |-> SubSeq(t, 1, q),
                      dir |-> CopyComponent(SubSeq(rest, 1, k), WholeMax),
                      fname |-> CopyComponent(SubSeq(name, 1, l), FnameMax),
                      ext |-> CopyComponent(SubSeq(name, l + 1, Len(name)), PartExtMax)]
    BY DEF SplitOf, NameEnd
  <1> HIDE DEF n, r, q
  <1>6. SubSeq(t, 1, q) = d /\ rest = r
    BY <1>1, <1>3, <1>4, JoinCut
  <1> HIDE DEF rest
  <1>7. k = Len(g)
    BY <1>4, <1>6
  <1> HIDE DEF k
  <1>8. SubSeq(rest, 1, k) = g /\ name = n
    <2>1. rest = g \o n
      BY <1>6 DEF r
    <2>2. QED
      BY <1>1, <1>2, <1>7, <2>1, JoinCut
  <1> HIDE DEF name
  <1>9. l = Len(f)
    BY <1>4, <1>8
  <1> HIDE DEF l
  <1>10. SubSeq(name, 1, l) = f /\ SubSeq(name, l + 1, Len(name)) = e
    <2>1. name = f \o e
      BY <1>8 DEF n
    <2>2. QED
      BY <1>1, <1>9, <2>1, JoinCut
  <1>11. QED
    BY <1>5, <1>6, <1>8, <1>10

\* Every path splits.
LEMMA Splits ==
  ASSUME NEW t \in Seq(PartChars)
  PROVE  \E d, g, f, e : IsSplit(t, d, g, f, e)
  <1> DEFINE q == IF HasDriveSpec(t) THEN 2 ELSE 0
             d == SubSeq(t, 1, q)
             r == SubSeq(t, q + 1, Len(t))
             k == LastSingle(r, PartSeps)
             g == SubSeq(r, 1, k)
             n == SubSeq(r, k + 1, Len(r))
             l == NameEnd(n)
             f == SubSeq(n, 1, l)
             e == SubSeq(n, l + 1, Len(n))
  <1>1. q \in 0..Len(t)
    BY DEF HasDriveSpec
  <1>2. d \in Seq(PartChars) /\ r \in Seq(PartChars) /\ Len(d) = q /\ t = d \o r
    <2> HIDE DEF q
    <2>1. QED
      BY <1>1, CutAt, ZenonT(60)
  <1> HIDE DEF d, r
  <1>3. k \in 0..Len(r)
    BY <1>2, LastIs DEF IsLast
  <1>4. g \in Seq(PartChars) /\ n \in Seq(PartChars) /\ Len(g) = k /\ r = g \o n
    <2> HIDE DEF k
    <2>1. QED
      BY <1>2, <1>3, CutAt, ZenonT(60)
  <1> HIDE DEF g, n
  <1>5. l \in 0..Len(n)
    <2> DEFINE dot == LastSingle(n, {"dot"})
    <2>1. dot \in 0..Len(n) /\ Len(n) \in Nat
      BY <1>4, LastIs DEF IsLast
    <2>2. l = IF dot = 0 THEN Len(n) ELSE dot - 1
      BY DEF NameEnd
    <2> HIDE DEF dot, l
    <2>3. QED
      BY <2>1, <2>2
  <1>6. f \in Seq(PartChars) /\ e \in Seq(PartChars) /\ Len(f) = l /\ n = f \o e
    <2> HIDE DEF l
    <2>1. QED
      BY <1>4, <1>5, CutAt, ZenonT(60)
  <1> HIDE DEF f, e
  <1>7. IsSplit(t, d, g, f, e)
    <2>1. t = d \o (g \o (f \o e)) /\ g \o (f \o e) = r
      BY <1>2, <1>4, <1>6, Zenon
    <2>2. LastSingle(g \o (f \o e), PartSeps) = Len(g) /\ NameEnd(f \o e) = Len(f)
      BY <1>4, <1>6, <2>1, Zenon
    <2>3. QED
      BY <1>2, <1>4, <1>6, <2>1, <2>2, Zenon DEF IsSplit
  <1>8. QED
    BY <1>7

-----------------------------------------------------------------------------
(* PathParts: what _makepath makes of the components.                      *)

Begun == [path |-> <<>>, lead |-> FALSE, sep |-> FALSE, last |-> "bsl", status |-> "ok"]
DriveNamed(d) == IF d = <<>> THEN <<>> ELSE <<"let", "col">>

\* m has been made without error, and there may be room for more.
Sound(m) == m \in Makings /\ m.status = "ok" /\ Len(m.path) <= WholeMax - 1

LEMMA NoneMore ==
  ASSUME NEW S, NEW u \in Seq(S)
  PROVE  /\ u \o <<>> = u /\ <<>> \o u = u /\ Len(u) \in Nat /\ <<>> \in Seq(S) /\ Len(<<>>) = 0
         /\ (u = <<>>) = (Len(u) = 0)
  BY EmptySeq, ConcatEmptySeq

LEMMA Regrouped == \A u, v, w \in Seq(PartChars) : Regroups(u, v, w)
  BY AllRegroup, Zenon

LEMMA BogusIs == ASSUME NEW m \in Makings PROVE Bogus(m) \in Makings /\ Bogus(m).status = "EINVAL"
  BY EmptySeq DEF Bogus, Makings

LEMMA DriveIs ==
  ASSUME NEW d \in Seq(PartChars)
  PROVE  LET n == AddDrive(Begun, d) IN
         /\ n \in Makings /\ n.lead = FALSE /\ n.last = "bsl" /\ Len(n.path) <= WholeMax - 1
         /\ n.status = "ok" => n.path = DriveNamed(d)
         /\ d \in {<<>>, <<"let", "col">>} => n.status = "ok"
  <1> DEFINE n == AddDrive(Begun, d)
             q == <<"let", "col">>
             c == [Begun EXCEPT !.path = q]
             b == Bogus(Begun)
  <1>1. <<>> \in Seq(PartChars) /\ q \in Seq(PartChars) /\ Len(<<>>) = 0 /\ Len(q) = 2
    BY DEF PartChars
  <1>2. WholeMax \in Nat /\ WholeMax > 3
    BY PartsAssumption
  <1>3. /\ Begun \in Makings /\ Begun.path = <<>> /\ Begun.lead = FALSE /\ Begun.last = "bsl"
        /\ Begun.status = "ok"
    BY <1>1 DEF Begun, Makings, PartSeps
  <1>4. c \in Makings /\ c.path = q /\ c.lead = FALSE /\ c.last = "bsl" /\ c.status = "ok"
    BY <1>1, <1>3 DEF Makings, Begun
  <1>5. b \in Makings /\ b.path = <<>> /\ b.lead = FALSE /\ b.last = "bsl" /\ b.status = "EINVAL"
    BY <1>1, <1>3 DEF Makings, Begun, Bogus
  <1>6. CASE d = <<>>
    <2>1. n = Begun
      BY <1>6 DEF AddDrive
    <2>2. QED
      BY <1>1, <1>2, <1>3, <1>6, <2>1 DEF DriveNamed
  <1>7. CASE d # <<>>
    <2>1. CASE d[1] \in DriveLetters /\ Tail(d) \in {<<>>, <<"col">>}
      <3>1. d[1] = "let"
        BY <2>1 DEF DriveLetters
      <3>2. n = c
        BY <1>7, <2>1, <3>1 DEF AddDrive
      <3>3. QED
        BY <1>1, <1>2, <1>4, <1>7, <3>2 DEF DriveNamed
    <2>2. CASE ~(d[1] \in DriveLetters /\ Tail(d) \in {<<>>, <<"col">>})
      <3>1. n = b
        BY <1>7, <2>2 DEF AddDrive
      <3>2. d # <<"let", "col">>
        <4> SUFFICES ASSUME d = <<"let", "col">> PROVE FALSE
          OBVIOUS
        <4>1. d[1] = "let" /\ Tail(d) = <<"col">>
          OBVIOUS
        <4>2. QED
          BY <2>2, <4>1 DEF DriveLetters
      <3>3. QED
        BY <1>1, <1>2, <1>5, <1>7, <3>1, <3>2
    <2>3. QED
      BY <2>1, <2>2
  <1>8. QED
    BY <1>6, <1>7

\* A name, or an extension that has its dot, is added as it is.
LEMMA NameIs ==
  ASSUME NEW m, Sound(m), ~m.lead, NEW t \in Seq(PartChars)
  PROVE  LET n == Add(m, t, FALSE) IN
         /\ n \in Makings /\ (n.status = "ok" <=> Len(m.path) + Len(t) <= WholeMax - 1)
         /\ n.status = "ok" => n.path = m.path \o t /\ n.lead = Open(t)
  <1> DEFINE n == Add(m, t, FALSE)
  <1>1. /\ m \in Makings /\ m.status = "ok" /\ Len(m.path) <= WholeMax - 1 /\ WholeMax \in Nat
        /\ m.path \in Seq(PartChars) /\ m.lead \in BOOLEAN
    BY PartsAssumption DEF Sound, Makings
  <1>2. m.path \o <<>> = m.path /\ Len(m.path) \in Nat /\ Len(<<>>) = 0
    BY <1>1, NoneMore
  <1>3. CASE t = <<>>
    <2>1. n = m
      BY <1>3 DEF Add
    <2>2. Open(t) = FALSE
      BY <1>3, NotOpen, OpenOrNot, Zenon
    <2>3. m.lead = FALSE
      BY <1>1
    <2>4. n.lead = Open(t)
      BY <2>1, <2>2, <2>3, Zenon
    <2>5. n.path = m.path \o t /\ Len(m.path) + Len(t) = Len(m.path)
      <3>1. n.path = m.path \o t /\ Len(t) = 0 /\ Len(m.path) \in Nat
        BY <1>2, <1>3, <2>1, Zenon
      <3>2. Len(m.path) + 0 = Len(m.path)
        BY <3>1
      <3>3. QED
        BY <3>1, <3>2, Zenon
    <2>6. n \in Makings /\ (n.status = "ok" <=> Len(m.path) + Len(t) <= WholeMax - 1)
      BY <1>1, <2>1, <2>5
    <2>7. QED
      BY <2>4, <2>5, <2>6, Zenon
  <1>4. CASE t # <<>>
    <2>1. n = Adding(m, t, FALSE)
      BY <1>1, <1>4 DEF Add
    <2>2. Added(m, n, t, FALSE)
      BY <1>1, <2>1, AddingIs
    <2>3. QED
      BY <2>2 DEF Added
  <1>5. QED
    BY <1>3, <1>4

\* A directory is added with its separator.
LEMMA DirIs ==
  ASSUME NEW m, Sound(m), ~m.lead, m.last = "bsl", NEW t \in Seq(PartChars), EndsSingle(t)
  PROVE  LET n == Add(m, t, TRUE) IN
         /\ n \in Makings
         /\ n.status = "ok" <=> Len(m.path) + Len(Terminated(t)) <= WholeMax - 1
         /\ n.status = "ok" => n.path = m.path \o Terminated(t) /\ n.lead = FALSE
         /\ Terminated(t) \in Seq(PartChars)
  <1> DEFINE n == Add(m, t, TRUE)
             a == Adding(m, t, TRUE)
             c == LastSep(t, "bsl")
             w == Terminated(t)
             l == Len(t)
             k == Len(m.path)
  <1>1. /\ m \in Makings /\ m.status = "ok" /\ k <= WholeMax - 1 /\ WholeMax \in Nat
        /\ m.path \in Seq(PartChars) /\ m.lead \in BOOLEAN
    BY PartsAssumption DEF Sound, Makings
  <1>2. m.path \o <<>> = m.path /\ k \in Nat /\ Len(<<>>) = 0 /\ <<>> \in Seq(PartChars)
    BY <1>1, NoneMore
  <1>3. CASE t = <<>>
    <2>1. n = m /\ w = <<>>
      BY <1>3 DEF Add, Terminated
    <2>2. m.lead = FALSE
      BY <1>1
    <2>3. n.path = m.path \o w /\ k + Len(w) = k /\ n.lead = FALSE /\ w \in Seq(PartChars)
      <3>1. n.path = m.path \o w /\ Len(w) = 0 /\ k \in Nat /\ w \in Seq(PartChars)
        BY <1>2, <2>1, Zenon
      <3>2. n.lead = FALSE
        BY <2>1, <2>2, Zenon
      <3>3. k + 0 = k
        BY <3>1
      <3>4. QED
        BY <3>1, <3>2, <3>3, Zenon
    <2>4. n \in Makings /\ (n.status = "ok" <=> k + Len(w) <= WholeMax - 1)
      BY <1>1, <2>1, <2>3
    <2>5. QED
      BY <2>3, <2>4, Zenon
  <1>4. CASE t # <<>>
    <2>1. l \in Nat /\ l > 0 /\ t[l] \in PartChars
      BY <1>4, NoneMore
    <2>2. Open(t) = FALSE
      <3>1. ~Open(t)
        BY <1>4 DEF Open, EndsSingle
      <3>2. QED
        BY <3>1, OpenOrNot, Zenon
    <2>3. Added(m, a, t, TRUE)
      BY <1>1, AddingIs
    <2>4. /\ a \in Makings /\ (a.status = "ok" <=> k + l <= WholeMax - 1)
          /\ a.status = "ok" => /\ a.path = m.path \o t /\ a.lead = FALSE
                                /\ a.last = c /\ a.sep = (t[l] \in PartSeps)
      BY <1>4, <2>2, <2>3 DEF Added
    <2>5. n = IF a.status = "ok" /\ ~a.sep THEN AddChar(a, a.last) ELSE a
      BY <1>1, <1>4, Zenon DEF Add
    <2>6. w = IF t[l] \in PartSeps THEN t ELSE Append(t, c)
      BY <1>4 DEF Terminated, LastSep
    <2> HIDE DEF n, a, w, k, l
    <2>7. CASE t[l] \in PartSeps
      <3>1. n = a /\ w = t
        BY <2>4, <2>5, <2>6, <2>7
      <3>2. Len(w) = l
        BY <3>1 DEF l
      <3>3. QED
        BY <2>4, <3>1, <3>2 DEF k, n, w
    <2>8. CASE t[l] \notin PartSeps
      <3>1. w = Append(t, c)
        BY <2>6, <2>8
      <3>2. c \in PartSeps /\ PartSeps \subseteq PartChars
        <4> DEFINE j == LastSingle(t, PartSeps)
        <4>1. IsLast(t, PartSeps, j)
          BY LastIs
        <4>2. j # 0 => t[j] \in PartSeps
          BY <4>1 DEF IsLast, Single
        <4>3. QED
          BY <4>2 DEF LastSep, PartSeps, PartChars
      <3>3. c \in PartChars
        BY <3>2
      <3> HIDE DEF c
      <3>4. w \in Seq(PartChars) /\ Len(w) = l + 1 /\ w = t \o <<c>> /\ <<c>> \in Seq(PartChars)
        BY <3>1, <3>3, OneByte DEF l
      <3>5. CASE a.status = "ok"
        <4>1. n = AddChar(a, c)
          BY <2>4, <2>5, <2>8, <3>5
        <4> DEFINE full == Len(a.path) = WholeMax - 1
        <4>2. /\ n \in Makings /\ n.lead = a.lead
              /\ full => n.status = "ENAMETOOLONG"
              /\ ~full => n.status = a.status /\ n.path = Append(a.path, c)
          BY <2>4, <3>3, <4>1, AddCharIs
        <4>3. a.path = m.path \o t /\ a.path \in Seq(PartChars) /\ Len(a.path) = k + l
          <5>1. m.path \in Seq(PartChars) /\ t \in Seq(PartChars)
            BY <1>1
          <5>2. /\ m.path \o t \in Seq(PartChars)
                /\ Len(m.path \o t) = Len(m.path) + Len(t)
            BY ONLY <5>1, JoinedIs
          <5>3. QED
            BY <2>4, <3>5, <5>2 DEF k, l
        <4>4. Append(a.path, c) = m.path \o w
          <5>1. Append(a.path, c) = (m.path \o t) \o <<c>>
            BY <3>3, <4>3, OneByte
          <5>2. QED
            <6>1. m.path \in Seq(PartChars) /\ t \in Seq(PartChars) /\ <<c>> \in Seq(PartChars)
              BY <1>1, <3>4
            <6>2. Regroups(m.path, t, <<c>>)
              BY <6>1, Regrouped, Zenon
            <6>3. (m.path \o t) \o <<c>> = m.path \o (t \o <<c>>)
              BY <6>2 DEF Regroups
            <6>4. QED
              BY <3>4, <5>1, <6>3
        <4>5. n.status = "ok" <=> k + Len(w) <= WholeMax - 1
          BY <1>1, <1>2, <2>1, <2>4, <3>4, <3>5, <4>2, <4>3
        <4>6. QED
          BY <2>4, <3>4, <3>5, <4>2, <4>4, <4>5 DEF k, n, w
      <3>6. CASE a.status # "ok"
        <4>1. n = a
          BY <2>5, <3>6
        <4>2. ~(k + Len(w) <= WholeMax - 1)
          BY <1>1, <1>2, <2>1, <2>4, <3>4, <3>6
        <4>3. QED
          BY <2>4, <3>4, <3>6, <4>1, <4>2 DEF k, n, w
      <3>7. QED
        BY <3>5, <3>6
    <2>9. QED
      BY <2>7, <2>8
  <1>5. QED
    BY <1>3, <1>4

\* An extension is added with its dot, unless the name ends within a character.
LEMMA ExtIs ==
  ASSUME NEW m, Sound(m), NEW t \in Seq(PartChars)
  PROVE  LET n == AddExt(m, t) IN
         /\ n.status = "ok" <=> /\ t # <<>> => ~m.lead
                                /\ Len(m.path) + Len(Dotted(t)) <= WholeMax - 1
         /\ n.status = "ok" => n.path = m.path \o Dotted(t)
         /\ Dotted(t) \in Seq(PartChars)
  <1> DEFINE n == AddExt(m, t)
             w == Dotted(t)
             l == Len(t)
             k == Len(m.path)
  <1>1. /\ m \in Makings /\ m.status = "ok" /\ k <= WholeMax - 1 /\ WholeMax \in Nat
        /\ m.path \in Seq(PartChars) /\ m.lead \in BOOLEAN
    BY PartsAssumption DEF Sound, Makings
  <1>2. m.path \o <<>> = m.path /\ k \in Nat /\ Len(<<>>) = 0 /\ <<>> \in Seq(PartChars)
    BY <1>1, NoneMore
  <1>3. CASE t = <<>>
    <2>1. n = m /\ w = <<>>
      BY <1>3 DEF AddExt, Dotted
    <2>2. n.path = m.path \o w /\ k + Len(w) = k /\ w \in Seq(PartChars)
      BY <1>2, <2>1
    <2>3. QED
      BY <1>1, <1>3, <2>1, <2>2
  <1>4. CASE t # <<>> /\ t[1] = "dot"
    <2>1. n = Add(m, t, FALSE) /\ w = t
      BY <1>1, <1>4 DEF AddExt, Dotted
    <2>2. CASE m.lead
      <3>1. n = Bogus(m)
        BY <1>1, <1>4, <2>1, <2>2 DEF Add
      <3>2. n.status = "EINVAL"
        BY <1>1, <3>1, BogusIs
      <3>3. QED
        BY <1>4, <2>1, <2>2, <3>2
    <2>3. CASE ~m.lead
      <3>1. /\ n.status = "ok" <=> k + l <= WholeMax - 1
            /\ n.status = "ok" => n.path = m.path \o t
        BY <2>1, <2>3, NameIs
      <3>2. QED
        BY <2>1, <2>3, <3>1
    <2>4. QED
      BY <2>2, <2>3
  <1>5. CASE t # <<>> /\ t[1] # "dot"
    <2> DEFINE a == AddChar(m, "dot")
    <2>1. n = Add(a, t, FALSE) /\ w = <<"dot">> \o t
      BY <1>1, <1>5 DEF AddExt, Dotted
    <2>2. "dot" \in PartChars /\ <<"dot">> \in Seq(PartChars) /\ Len(<<"dot">>) = 1
      BY DEF PartChars
    <2>3. w \in Seq(PartChars) /\ Len(w) = 1 + l /\ l \in Nat
      <3>1. \A v \in Seq(PartChars) : /\ v \o t \in Seq(PartChars) /\ Len(v \o t) = Len(v) + l
                                      /\ l \in Nat
        BY JoinedIs
      <3>2. QED
        BY <2>1, <2>2, <3>1
    <2> DEFINE full == k = WholeMax - 1
    <2>4. /\ a \in Makings /\ a.lead = m.lead
          /\ full => a.status = "ENAMETOOLONG"
          /\ ~full => a.status = m.status /\ a.path = Append(m.path, "dot")
      BY <1>1, <2>2, AddCharIs
    <2> HIDE DEF a, n, w, k, l
    <2>5. CASE full
      <3>1. n.status # "ok"
        BY <2>1, <2>4, <2>5 DEF Add
      <3>2. ~(k + Len(w) <= WholeMax - 1)
        BY <1>1, <1>2, <2>3, <2>5
      <3>3. QED
        BY <2>3, <3>1, <3>2 DEF k, n, w
    <2>6. CASE ~full
      <3>1. /\ a.status = "ok" /\ a.path = Append(m.path, "dot") /\ a.path \in Seq(PartChars)
            /\ a.path = m.path \o <<"dot">> /\ Len(a.path) = k + 1
        <4>1. m.path \in Seq(PartChars) /\ "dot" \in PartChars
          BY <1>1, <2>2
        <4>2. /\ Append(m.path, "dot") \in Seq(PartChars)
              /\ Len(Append(m.path, "dot")) = Len(m.path) + 1
              /\ Append(m.path, "dot") = m.path \o <<"dot">>
          BY ONLY <4>1, OneByte
        <4>3. QED
          BY <1>1, <2>4, <2>6, <4>2 DEF k
      <3>2. Len(a.path) <= WholeMax - 1
        BY <1>1, <1>2, <2>6, <3>1
      <3>3. CASE m.lead
        <4>1. n = Bogus(a)
          BY <1>1, <1>5, <2>1, <2>4, <3>1, <3>3 DEF Add
        <4>2. n.status = "EINVAL"
          BY <2>4, <4>1, BogusIs
        <4>3. QED
          BY <1>5, <2>3, <3>3, <4>2 DEF n, w
      <3>4. CASE ~m.lead
        <4>1. Sound(a) /\ ~a.lead
          BY <2>4, <3>1, <3>2, <3>4 DEF Sound
        <4>2. /\ n.status = "ok" <=> Len(a.path) + l <= WholeMax - 1
              /\ n.status = "ok" => n.path = a.path \o t
          BY <2>1, <4>1, NameIs DEF l
        <4>3. a.path \o t = m.path \o w
          <5>1. m.path \in Seq(PartChars) /\ <<"dot">> \in Seq(PartChars) /\ t \in Seq(PartChars)
            BY <1>1, <2>2
          <5>2. Regroups(m.path, <<"dot">>, t)
            BY <5>1, Regrouped, Zenon
          <5>3. (m.path \o <<"dot">>) \o t = m.path \o (<<"dot">> \o t)
            BY <5>2 DEF Regroups
          <5>4. QED
            BY <2>1, <3>1, <5>3
        <4>4. Len(a.path) + l = k + Len(w)
          <5>1. k \in Nat /\ Len(w) = 1 + l /\ l \in Nat /\ Len(a.path) = k + 1
            BY <1>2, <2>3, <3>1, Zenon
          <5>2. QED
            BY ONLY <5>1
        <4>5. QED
          BY <2>3, <3>4, <4>2, <4>3, <4>4 DEF k, n, w
      <3>5. QED
        BY <3>3, <3>4
    <2>7. QED
      BY <2>5, <2>6
  <1>6. QED
    BY <1>3, <1>4, <1>5

\* The path that _makepath is to make of d, g, f and e.
Whole(d, g, f, e) == DriveNamed(d) \o (Terminated(g) \o (f \o Dotted(e)))

LEMMA DriveSeq == \A d : DriveNamed(d) \in Seq(PartChars)
  <1>1. <<>> \in Seq(PartChars) /\ <<"let", "col">> \in Seq(PartChars)
    BY DEF PartChars
  <1>2. QED
    BY <1>1, Zenon DEF DriveNamed

LEMMA DottedSeq ==
  ASSUME NEW e \in Seq(PartChars)
  PROVE  Dotted(e) \in Seq(PartChars)
  <1>1. <<"dot">> \in Seq(PartChars)
    BY DEF PartChars
  <1>2. <<"dot">> \o e \in Seq(PartChars)
    BY <1>1, JoinedIs
  <1>3. QED
    BY <1>2, Zenon DEF Dotted

LEMMA TerminatedSeq ==
  ASSUME NEW g \in Seq(PartChars)
  PROVE  Terminated(g) \in Seq(PartChars)
  <1> DEFINE k == LastSingle(g, PartSeps)
             c == IF k = 0 THEN "bsl" ELSE g[k]
  <1>1. k \in 0..Len(g)
    BY LastIs DEF IsLast
  <1>2. c \in PartChars
    BY <1>1 DEF PartChars
  <1>3. Append(g, c) \in Seq(PartChars)
    <2> HIDE DEF c
    <2>1. QED
      BY <1>2, OneByte
  <1>4. QED
    BY <1>3, Zenon DEF Terminated

WholeOf(d, g, f, e) ==
  /\ Len(Whole(d, g, f, e)) = Len(DriveNamed(d)) + Len(Terminated(g)) + Len(f) + Len(Dotted(e))
  /\ Len(DriveNamed(d)) \in Nat /\ Len(Terminated(g)) \in Nat /\ Len(f) \in Nat
  /\ Len(Dotted(e)) \in Nat
  /\ DriveNamed(d) \in Seq(PartChars) /\ Terminated(g) \in Seq(PartChars)
  /\ Dotted(e) \in Seq(PartChars)
  /\ ((DriveNamed(d) \o Terminated(g)) \o f) \o Dotted(e) = Whole(d, g, f, e)

LEMMA WholeIs == \A d, g, f, e \in Seq(PartChars) : WholeOf(d, g, f, e)
  <1> TAKE d, g, f, e \in Seq(PartChars)
  <1> DEFINE x == DriveNamed(d)
             y == Terminated(g)
             z == Dotted(e)
             v == f \o z
             u == y \o v
             w == x \o u
  <1>1. x \in Seq(PartChars) /\ y \in Seq(PartChars) /\ z \in Seq(PartChars)
    BY DriveSeq, TerminatedSeq, DottedSeq
  <1> HIDE DEF x, y, z
  <1>2. v \in Seq(PartChars) /\ Len(v) = Len(f) + Len(z) /\ Len(f) \in Nat /\ Len(z) \in Nat
    BY <1>1, JoinedIs
  <1> HIDE DEF v
  <1>3. u \in Seq(PartChars) /\ Len(u) = Len(y) + Len(v) /\ Len(y) \in Nat
    BY <1>1, <1>2, JoinedIs
  <1> HIDE DEF u
  <1>4. w \in Seq(PartChars) /\ Len(w) = Len(x) + Len(u) /\ Len(x) \in Nat
    BY <1>1, <1>3, JoinedIs
  <1>5. Len(w) = Len(x) + Len(y) + Len(f) + Len(z)
    <2> HIDE DEF w
    <2>1. QED
      BY <1>2, <1>3, <1>4
  <1>6. ((x \o y) \o f) \o z = w
    <2>1. x \o y \in Seq(PartChars)
      BY <1>1, JoinedIs
    <2>2. Regroups(x \o y, f, z) /\ Regroups(x, y, v)
      BY <1>1, <1>2, <2>1, Regrouped, Zenon
    <2>3. ((x \o y) \o f) \o z = (x \o y) \o v
      BY <2>2, Zenon DEF Regroups, v
    <2>4. (x \o y) \o v = w
      BY <2>2, Zenon DEF Regroups, u
    <2>5. QED
      BY <2>3, <2>4, Zenon
  <1>7. w = Whole(d, g, f, e)
    BY DEF u, v, x, y, z, Whole
  <1>8. QED
    <2> HIDE DEF w
    <2>1. QED
      BY <1>1, <1>2, <1>3, <1>4, <1>5, <1>6, <1>7, Zenon DEF x, y, z, WholeOf

LEMMA Stops ==
  \A m, t, d : m.status # "ok" => Add(m, t, d) = m /\ AddExt(m, t) = m
  BY DEF Add, AddExt

LEMMA MakeIs ==
  ASSUME NEW q, NEW d \in Seq(PartChars), NEW g \in Seq(PartChars), NEW f \in Seq(PartChars),
         NEW e \in Seq(PartChars), EndsSingle(g),
         q = [drive |-> d, dir |-> g, fname |-> f, ext |-> e]
  PROVE  LET n == MakeOf(q)
             w == Whole(d, g, f, e)
             fits == Len(w) <= WholeMax - 1 /\ (e # <<>> => ~Open(f))
         IN  /\ n.status = "ok" => n.path = w /\ fits
             /\ d \in {<<>>, <<"let", "col">>} /\ fits => n.status = "ok"
  <1> DEFINE m1 == AddDrive(Begun, d)
             m2 == Add(m1, g, TRUE)
             m3 == Add(m2, f, FALSE)
             n == AddExt(m3, e)
             w == Whole(d, g, f, e)
             x == DriveNamed(d)
             y == Terminated(g)
             z == Dotted(e)
             named == d \in {<<>>, <<"let", "col">>}
             W == WholeMax - 1
  <1>1. MakeOf(q) = n
    BY DEF MakeOf, Begun
  <1>2. /\ m1 \in Makings /\ m1.lead = FALSE /\ m1.last = "bsl" /\ Len(m1.path) <= W
        /\ m1.status = "ok" => m1.path = x
        /\ named => m1.status = "ok"
    BY DriveIs
  <1>3. /\ Len(w) = Len(x) + Len(y) + Len(f) + Len(z)
        /\ Len(x) \in Nat /\ Len(y) \in Nat /\ Len(f) \in Nat /\ Len(z) \in Nat
        /\ x \in Seq(PartChars) /\ y \in Seq(PartChars) /\ z \in Seq(PartChars)
        /\ ((x \o y) \o f) \o z = w
    <2>1. /\ d \in Seq(PartChars) /\ g \in Seq(PartChars) /\ f \in Seq(PartChars)
          /\ e \in Seq(PartChars)
      OBVIOUS
    <2>2. WholeOf(d, g, f, e)
      BY <2>1, WholeIs, Zenon
    <2>3. QED
      BY <2>2 DEF WholeOf
  <1>4. W \in Int
    BY PartsAssumption
  <1> HIDE DEF m1, x, y, z, w, W, named
  <1>5. ASSUME m1.status = "ok" PROVE Sound(m1) /\ ~m1.lead /\ m1.last = "bsl" /\ m1.path = x
    BY <1>2, <1>5 DEF Sound, W
  <1>6. ASSUME m1.status = "ok"
        PROVE  /\ m2 \in Makings /\ (m2.status = "ok" <=> Len(x) + Len(y) <= W)
               /\ m2.status = "ok" => /\ m2.path = x \o y /\ m2.lead = FALSE
                                      /\ Len(m2.path) = Len(x) + Len(y)
    <2>1. /\ m2 \in Makings
          /\ m2.status = "ok" <=> Len(x) + Len(y) <= W
          /\ m2.status = "ok" => m2.path = x \o y /\ m2.lead = FALSE
      <3>1. Sound(m1) /\ ~m1.lead /\ m1.last = "bsl" /\ m1.path = x
        BY <1>5, <1>6
      <3>2. /\ m2 \in Makings
            /\ m2.status = "ok" <=> Len(m1.path) + Len(y) <= W
            /\ m2.status = "ok" => m2.path = m1.path \o y /\ m2.lead = FALSE
        BY <3>1, DirIs DEF y, W
      <3> HIDE DEF m2
      <3>3. QED
        BY <3>1, <3>2
    <2>2. Len(x \o y) = Len(x) + Len(y)
      BY <1>3, JoinedIs
    <2>3. QED
      BY <2>1, <2>2
  <1> HIDE DEF m2
  <1>7. ASSUME m1.status = "ok", m2.status = "ok"
        PROVE  /\ m3 \in Makings /\ (m3.status = "ok" <=> Len(x) + Len(y) + Len(f) <= W)
               /\ m3.status = "ok" => /\ m3.path = (x \o y) \o f /\ m3.lead = Open(f)
                                      /\ Len(m3.path) = Len(x) + Len(y) + Len(f)
    <2>1. Sound(m2) /\ ~m2.lead
      BY <1>6, <1>7 DEF Sound, W
    <2>2. /\ m3 \in Makings /\ (m3.status = "ok" <=> Len(m2.path) + Len(f) <= W)
          /\ m3.status = "ok" => m3.path = m2.path \o f /\ m3.lead = Open(f)
      BY <2>1, NameIs DEF W
    <2>3. Len(m2.path \o f) = Len(m2.path) + Len(f)
      <3>1. m2.path \in Seq(PartChars)
        BY <2>1 DEF Sound, Makings
      <3>2. QED
        BY <3>1, JoinedIs
    <2> HIDE DEF m3
    <2>4. QED
      BY <1>6, <1>7, <2>2, <2>3
  <1> HIDE DEF m3
  <1>8. ASSUME m1.status = "ok", m2.status = "ok", m3.status = "ok"
        PROVE  /\ n.status = "ok" <=> (e # <<>> => ~Open(f)) /\ Len(w) <= W
               /\ n.status = "ok" => n.path = w
    <2>1. Sound(m3)
      BY <1>7, <1>8 DEF Sound, W
    <2>2. /\ n.status = "ok" <=> (e # <<>> => ~m3.lead) /\ Len(m3.path) + Len(z) <= W
          /\ n.status = "ok" => n.path = m3.path \o z
      BY <2>1, ExtIs DEF z, W
    <2> HIDE DEF n
    <2>3. m3.path \o z = w /\ Len(m3.path) + Len(z) = Len(w)
      BY <1>3, <1>7, <1>8
    <2>4. m3.lead = Open(f)
      BY <1>7, <1>8
    <2>5. QED
      BY <2>2, <2>3, <2>4
  <1> HIDE DEF n
  <1>9. /\ m1.status # "ok" => n.status # "ok"
        /\ m2.status # "ok" => n.status # "ok"
        /\ m3.status # "ok" => n.status # "ok"
    <2>1. m3.status # "ok" => n.status # "ok"
      BY Stops DEF n
    <2>2. m2.status # "ok" => m3.status # "ok"
      BY Stops DEF m3
    <2>3. m1.status # "ok" => m2.status # "ok"
      BY Stops DEF m2
    <2>4. QED
      BY <2>1, <2>2, <2>3
  <1>10. n.status = "ok" => n.path = w /\ Len(w) <= W /\ (e # <<>> => ~Open(f))
    BY <1>8, <1>9
  <1>11. ASSUME named, Len(w) <= W, e # <<>> => ~Open(f) PROVE n.status = "ok"
    <2>1. m1.status = "ok"
      BY <1>2, <1>11
    <2>2. Len(x) + Len(y) <= W /\ Len(x) + Len(y) + Len(f) <= W
      BY <1>3, <1>4, <1>11
    <2>3. m2.status = "ok"
      BY <1>6, <2>1, <2>2
    <2>4. m3.status = "ok"
      BY <1>7, <2>1, <2>2, <2>3
    <2>5. QED
      BY <1>8, <1>11, <2>1, <2>3, <2>4
  <1>12. QED
    BY <1>1, <1>10, <1>11 DEF w, W, named

-----------------------------------------------------------------------------
(* PathParts: a path that is taken apart.                                  *)

\* What a buffer of n bytes holds of a component.
LEMMA CutIs ==
  ASSUME NEW s \in Seq(PartChars), NEW n \in Nat, n > 1
  PROVE  LET c == CopyComponent(s, n) IN
         /\ c \in Seq(PartChars) /\ Len(c) \in Nat /\ Len(c) <= n - 1 /\ Len(c) <= Len(s)
         /\ Len(c) = Len(s) => c = s
         /\ Len(s) <= n - 1 => c = s
  <1> DEFINE l == Len(s)
             m == Min({l, n - 1})
             c == CopyComponent(s, n)
  <1>1. l \in Nat /\ n - 1 \in Nat
    OBVIOUS
  <1>2. m \in {l, n - 1} /\ \A y \in {l, n - 1} : m =< y
    <2>1. \E x \in {l, n - 1} : \A y \in {l, n - 1} : x =< y
      BY <1>1
    <2>2. QED
      BY <2>1, Zenon DEF Min
  <1>3. c = SubSeq(s, 1, m)
    BY DEF CopyComponent
  <1> HIDE DEF m, c
  <1>4. m \in 0..l /\ m <= n - 1 /\ m <= l /\ (l <= n - 1 => m = l)
    BY <1>1, <1>2
  <1>5. c \in Seq(PartChars) /\ Len(c) = m
    BY <1>3, <1>4, CutAt DEF l
  <1>6. SubSeq(s, 1, l) = s
    BY SubSeqFull DEF l
  <1>7. m = l => c = s
    BY <1>3, <1>6
  <1>8. QED
    BY <1>4, <1>5, <1>7 DEF c, l

\* A byte of a kind is not beyond the last one.
LEMMA WiseLast ==
  ASSUME NEW T, NEW t \in Seq(T), NEW S, NEW j \in 1..Len(t), t[j] \in S
  PROVE  j <= LastByteWise(t, S)
  <1> DEFINE n == Len(t)
             B == {0} \union {h \in 1..n : t[h] \in S}
             U == {h \in Nat : h <= n /\ n - h \in B}
             k == Max(B)
  <1>1. n \in Nat /\ j \in B
    OBVIOUS
  <1>2. \A h \in B : h \in 0..n
    BY <1>1
  <1>3. k = LastByteWise(t, S)
    BY DEF LastByteWise
  <1> HIDE DEF B, n
  <1>4. \E m \in U : \A h \in U : m <= h
    <2>1. n - j \in Nat /\ n - j <= n /\ n - (n - j) = j
      BY <1>1, <1>2
    <2>2. n - j \in U
      BY <1>1, <2>1
    <2>3. U \subseteq Nat
      OBVIOUS
    <2> HIDE DEF U
    <2>4. U # {}
      BY <2>2
    <2>5. QED
      BY ONLY <2>3, <2>4, SmallestNat
  <1>5. \E x \in B : \A y \in B : x >= y
    <2>1. PICK m \in U : \A h \in U : m <= h
      BY <1>4
    <2>2. m \in Nat /\ m <= n /\ n - m \in B
      OBVIOUS
    <2>3. ASSUME NEW y \in B PROVE n - m >= y
      <3>1. y \in 0..n
        BY <1>2
      <3>2. n - y \in Nat /\ n - y <= n /\ n - (n - y) = y
        BY <1>1, <3>1
      <3>3. n - y \in U
        BY <3>2
      <3>4. m <= n - y
        BY <2>1, <3>3
      <3>5. QED
        BY <1>1, <2>2, <3>1, <3>4
    <2>4. QED
      BY <2>2, <2>3
  <1>6. \A y \in B : k >= y
    BY <1>5, Zenon DEF Max
  <1>7. k \in B
    BY <1>5, Zenon DEF Max
  <1> HIDE DEF k
  <1>8. QED
    BY <1>1, <1>2, <1>3, <1>6, <1>7

\* The parts of a path that is split.
LEMMA SplitHas ==
  ASSUME NEW t, NEW d, NEW g, NEW f, NEW e, IsSplit(t, d, g, f, e)
  PROVE  /\ d \in {<<>>, <<"let", "col">>} /\ ~Open(d)
         /\ EndsSingle(g) /\ ~Open(g) /\ Terminated(g) = g /\ (g # <<>> => g[Len(g)] \in PartSeps)
         /\ e # <<>> => e[1] = "dot" /\ ~Open(f) /\ LastSingle(f \o e, {"dot"}) = Len(f) + 1
         /\ e = <<>> => LastSingle(f \o e, {"dot"}) = 0
         /\ Dotted(e) = e /\ DriveNamed(d) = d
  <1> DEFINE n == f \o e
             r == g \o n
             dot == LastSingle(n, {"dot"})
  <1>1. /\ d \in Seq(PartChars) /\ g \in Seq(PartChars) /\ f \in Seq(PartChars)
        /\ e \in Seq(PartChars)
    BY DEF IsSplit
  <1>2. /\ n \in Seq(PartChars) /\ Len(n) = Len(f) + Len(e) /\ Len(f) \in Nat /\ Len(e) \in Nat
        /\ \A j \in 1..Len(e) : n[Len(f) + j] = e[j]
    BY <1>1, JoinedIs
  <1>3. /\ r \in Seq(PartChars) /\ Len(r) = Len(g) + Len(n) /\ Len(g) \in Nat
        /\ \A j \in 1..Len(g) : r[j] = g[j]
    BY <1>1, <1>2, JoinedIs
  <1>4. /\ t = d \o r /\ Len(d) = (IF HasDriveSpec(t) THEN 2 ELSE 0)
        /\ LastSingle(r, PartSeps) = Len(g)
        /\ NameEnd(n) = Len(f)
    BY DEF IsSplit
  <1>5. d \in {<<>>, <<"let", "col">>}
    <2>1. CASE HasDriveSpec(t)
      <3>1. Len(d) = 2 /\ t[1] = "let" /\ t[2] = "col"
        BY <1>4, <2>1 DEF HasDriveSpec, DriveLetters
      <3>2. \A j \in 1..Len(d) : t[j] = d[j]
        BY <1>1, <1>3, <1>4, JoinedIs
      <3>3. d[1] = "let" /\ d[2] = "col"
        BY <3>1, <3>2
      <3>4. d = <<"let", "col">>
        BY <1>1, <3>1, <3>3
      <3>5. QED
        BY <3>4
    <2>2. CASE ~HasDriveSpec(t)
      <3>1. Len(d) = 0
        BY <1>4, <2>2
      <3>2. QED
        BY <1>1, <3>1
    <2>3. QED
      BY <2>1, <2>2
  <1>6. ~Open(d) /\ DriveNamed(d) = d
    <2>1. CASE d = <<>>
      BY <2>1, NotOpen DEF DriveNamed
    <2>2. CASE d = <<"let", "col">>
      BY <2>2 DEF Open, DriveNamed
    <2>3. QED
      BY <1>5, <2>1, <2>2
  <1>7. g # <<>> => g[Len(g)] \in PartSeps /\ ~Second(g)[Len(g)]
    <2> SUFFICES ASSUME g # <<>> PROVE g[Len(g)] \in PartSeps /\ ~Second(g)[Len(g)]
      OBVIOUS
    <2>1. Len(g) \in 1..Len(g)
      BY <1>1, <1>3
    <2>2. IsLast(r, PartSeps, Len(g))
      BY <1>3, <1>4, LastIs
    <2>3. r[Len(g)] \in PartSeps /\ ~Second(r)[Len(g)]
      BY <1>3, <2>1, <2>2 DEF IsLast, Single
    <2>4. Second(r)[Len(g)] = Second(g)[Len(g)]
      BY <1>1, <1>2, <2>1, SecondAlong
    <2>5. QED
      BY <1>3, <2>1, <2>3, <2>4
  <1>8. EndsSingle(g) /\ ~Open(g) /\ Terminated(g) = g
    <2>1. g # <<>> => g[Len(g)] # "lead"
      BY <1>7 DEF PartSeps
    <2>2. EndsSingle(g)
      BY <1>7, <2>1 DEF EndsSingle
    <2>3. ~Open(g)
      <3>1. CASE g = <<>>
        BY <3>1, NotOpen
      <3>2. CASE g # <<>>
        BY <2>1, <3>2 DEF Open
      <3>3. QED
        BY <3>1, <3>2
    <2>4. Terminated(g) = g
      BY <1>7 DEF Terminated
    <2>5. QED
      BY <2>2, <2>3, <2>4
  <1>9. IsLast(n, {"dot"}, dot) /\ Len(f) = IF dot = 0 THEN Len(n) ELSE dot - 1
    BY <1>2, <1>4, LastIs DEF NameEnd
  <1>10. dot \in 0..Len(n) /\ (dot # 0 => n[dot] = "dot" /\ ~Second(n)[dot])
    BY <1>9 DEF IsLast, Single
  <1> HIDE DEF dot, n
  <1>11. e = <<>> => dot = 0
    <2> SUFFICES ASSUME e = <<>>, dot # 0 PROVE FALSE
      OBVIOUS
    <2>1. Len(e) = 0
      BY EmptySeq
    <2>2. dot - 1 = Len(f) /\ dot <= Len(f) + 0
      BY <1>2, <1>9, <1>10, <2>1
    <2>3. QED
      BY <1>2, <1>10, <2>2
  <1>12. e # <<>> => e[1] = "dot" /\ ~Open(f) /\ dot = Len(f) + 1
    <2> SUFFICES ASSUME e # <<>> PROVE e[1] = "dot" /\ ~Open(f) /\ dot = Len(f) + 1
      OBVIOUS
    <2>1. Len(e) # 0 /\ 1 \in 1..Len(e)
      BY <1>1, <1>2
    <2>2. dot # 0
      BY <1>2, <1>9, <2>1
    <2>3. dot = Len(f) + 1
      BY <1>2, <1>9, <1>10, <2>2
    <2>4. n[Len(f) + 1] = "dot" /\ ~Second(n)[Len(f) + 1]
      BY <1>10, <2>2, <2>3
    <2>5. e[1] = "dot"
      BY <1>2, <2>1, <2>4
    <2>6. Second(n)[Len(f) + 1] = Open(f)
      BY <1>1, <1>2, <2>1, SecondAlong DEF n
    <2>7. QED
      BY <2>3, <2>4, <2>5, <2>6
  <1>13. Dotted(e) = e
    BY <1>12 DEF Dotted
  <1>14. QED
    BY <1>5, <1>6, <1>7, <1>8, <1>11, <1>12, <1>13 DEF dot, n

Buffers == /\ WholeMax \in Nat /\ FnameMax \in Nat /\ PartExtMax \in Nat
           /\ WholeMax > 1 /\ FnameMax > 1 /\ PartExtMax > 1

LEMMA BuffersHold == Buffers
  BY PartsAssumption DEF Buffers

FourJoined(a, b, c, d) ==
  /\ Len(a \o b \o c \o d) = Len(a) + Len(b) + Len(c) + Len(d)
  /\ a \o b \o c \o d = a \o (b \o (c \o d))
  /\ a \o b \o c \o d \in Seq(PartChars) /\ a \o b \o c \in Seq(PartChars)
  /\ a \o b \in Seq(PartChars)
  /\ Len(a \o b) = Len(a) + Len(b) /\ Len(a \o b \o c) = Len(a) + Len(b) + Len(c)
  /\ Len(a) \in Nat /\ Len(b) \in Nat /\ Len(c) \in Nat /\ Len(d) \in Nat
  /\ (a \o b) \o (c \o d) = a \o b \o c \o d

LEMMA Lengths == \A a, b, c, d \in Seq(PartChars) : FourJoined(a, b, c, d)
  <1> TAKE a, b, c, d \in Seq(PartChars)
  <1> DEFINE x == a \o b
             y == x \o c
             z == y \o d
             u == c \o d
             v == b \o u
  <1>1. x \in Seq(PartChars) /\ Len(x) = Len(a) + Len(b) /\ Len(a) \in Nat /\ Len(b) \in Nat
    BY JoinedIs
  <1>2. u \in Seq(PartChars) /\ Len(c) \in Nat /\ Len(d) \in Nat
    BY JoinedIs
  <1> HIDE DEF x, u
  <1>3. y \in Seq(PartChars) /\ Len(y) = Len(x) + Len(c)
    BY <1>1, JoinedIs
  <1> HIDE DEF y
  <1>4. z \in Seq(PartChars) /\ Len(z) = Len(y) + Len(d)
    BY <1>3, JoinedIs
  <1>5. z = x \o u
    <2>1. Regroups(x, c, d)
      BY <1>1, Regrouped, Zenon
    <2>2. QED
      BY <2>1, Zenon DEF Regroups, y, u
  <1>6. x \o u = a \o v
    <2>1. Regroups(a, b, u)
      BY <1>2, Regrouped, Zenon
    <2>2. QED
      BY <2>1, Zenon DEF Regroups, x
  <1> HIDE DEF z
  <1>7. Len(z) = Len(a) + Len(b) + Len(c) + Len(d) /\ Len(y) = Len(a) + Len(b) + Len(c)
    BY <1>1, <1>2, <1>3, <1>4
  <1>8. QED
    BY <1>1, <1>2, <1>3, <1>4, <1>5, <1>6, <1>7, Zenon DEF x, y, z, u, FourJoined

\* Where nothing is cut, the parts are those of the path.
LEMMA SplitWhole ==
  ASSUME NEW t, NEW d, NEW g, NEW f, NEW e, IsSplit(t, d, g, f, e),
         LET q == SplitOf(t) IN q.drive \o q.dir \o q.fname \o q.ext = t
  PROVE  SplitOf(t) = [drive |-> d, dir |-> g, fname |-> f, ext |-> e]
  <1> DEFINE x == CopyComponent(g, WholeMax)
             y == CopyComponent(f, FnameMax)
             z == CopyComponent(e, PartExtMax)
  <1>1. /\ d \in Seq(PartChars) /\ g \in Seq(PartChars) /\ f \in Seq(PartChars)
        /\ e \in Seq(PartChars) /\ t = d \o (g \o (f \o e))
    BY DEF IsSplit
  <1>2. SplitOf(t) = [drive |-> d, dir |-> x, fname |-> y, ext |-> z]
    BY SplitGives
  <1>3. d \o x \o y \o z = t
    BY <1>2
  <1>4. x \in Seq(PartChars) /\ Len(x) <= Len(g) /\ (Len(x) = Len(g) => x = g)
    BY <1>1, BuffersHold, CutIs DEF Buffers
  <1>5. y \in Seq(PartChars) /\ Len(y) <= Len(f) /\ (Len(y) = Len(f) => y = f)
    BY <1>1, BuffersHold, CutIs DEF Buffers
  <1>6. z \in Seq(PartChars) /\ Len(z) <= Len(e) /\ (Len(z) = Len(e) => z = e)
    BY <1>1, BuffersHold, CutIs DEF Buffers
  <1> HIDE DEF x, y, z
  <1>7. /\ Len(d \o x \o y \o z) = Len(d) + Len(x) + Len(y) + Len(z)
        /\ Len(d) \in Nat /\ Len(x) \in Nat /\ Len(y) \in Nat /\ Len(z) \in Nat
    <2>1. FourJoined(d, x, y, z)
      BY <1>1, <1>4, <1>5, <1>6, Lengths, Zenon
    <2>2. QED
      BY <2>1 DEF FourJoined
  <1>8. /\ Len(d \o g \o f \o e) = Len(d) + Len(g) + Len(f) + Len(e)
        /\ d \o g \o f \o e = d \o (g \o (f \o e))
        /\ Len(g) \in Nat /\ Len(f) \in Nat /\ Len(e) \in Nat
    <2>1. FourJoined(d, g, f, e)
      BY <1>1, Lengths, Zenon
    <2>2. QED
      BY <2>1 DEF FourJoined
  <1>9. Len(d) + Len(x) + Len(y) + Len(z) = Len(d) + Len(g) + Len(f) + Len(e)
    BY <1>1, <1>3, <1>7, <1>8, Zenon
  <1>10. Len(x) = Len(g) /\ Len(y) = Len(f) /\ Len(z) = Len(e)
    <2>1. Len(x) <= Len(g) /\ Len(y) <= Len(f) /\ Len(z) <= Len(e)
      BY <1>4, <1>5, <1>6
    <2>2. /\ Len(d) \in Nat /\ Len(x) \in Nat /\ Len(y) \in Nat /\ Len(z) \in Nat
          /\ Len(g) \in Nat /\ Len(f) \in Nat /\ Len(e) \in Nat
      BY <1>7, <1>8, Zenon
    <2>3. QED
      BY ONLY <1>9, <2>1, <2>2
  <1>11. QED
    BY <1>2, <1>4, <1>5, <1>6, <1>10

\* A path that is taken apart, and put together again.
LEMMA SplitMakes ==
  ASSUME NEW t \in Seq(PartChars), Len(t) < WholeMax,
         LET q == SplitOf(t) IN q.drive \o q.dir \o q.fname \o q.ext = t
  PROVE  MakeOf(SplitOf(t)).status = "ok" /\ MakeOf(SplitOf(t)).path = t
  <1>1. PICK d, g, f, e : IsSplit(t, d, g, f, e)
    BY Splits
  <1> DEFINE q == SplitOf(t)
             w == Whole(d, g, f, e)
             fits == Len(w) <= WholeMax - 1 /\ (e # <<>> => ~Open(f))
  <1>2. q = [drive |-> d, dir |-> g, fname |-> f, ext |-> e]
    BY <1>1, SplitWhole
  <1> HIDE DEF q
  <1>3. /\ d \in Seq(PartChars) /\ g \in Seq(PartChars) /\ f \in Seq(PartChars)
        /\ e \in Seq(PartChars) /\ t = d \o (g \o (f \o e))
    BY <1>1 DEF IsSplit
  <1>4. /\ d \in {<<>>, <<"let", "col">>} /\ EndsSingle(g) /\ Terminated(g) = g
        /\ e # <<>> => ~Open(f)
        /\ Dotted(e) = e /\ DriveNamed(d) = d
    BY <1>1, SplitHas
  <1>5. w = t
    BY <1>3, <1>4 DEF Whole
  <1>6. Len(w) <= WholeMax - 1
    BY <1>5, PartsAssumption
  <1>7. LET n == MakeOf(q) IN
        /\ n.status = "ok" => n.path = w /\ fits
        /\ d \in {<<>>, <<"let", "col">>} /\ fits => n.status = "ok"
    BY <1>2, <1>3, <1>4, MakeIs
  <1>8. QED
    BY <1>4, <1>5, <1>6, <1>7 DEF q

\* _spawnve's own search for the base name and the extension finds those of _splitpath.
LEMMA RawAgrees ==
  ASSUME NEW t \in Seq(PartChars)
  PROVE  RawPartsAgree(t)
  <1> DEFINE q == SplitOf(t)
             ext == FindRawExt(t)
  <1> SUFFICES ASSUME Len(q.drive) = LastByteWise(t, {"col"}),
                      q.drive \o q.dir \o q.fname \o q.ext = t
               PROVE  /\ SubSeq(t, FindRawBaseName(t), Len(t)) = q.fname \o q.ext
                      /\ q.ext = IF ext = 0 THEN <<>> ELSE SubSeq(t, ext, Len(t))
    BY DEF RawPartsAgree
  <1>1. PICK d, g, f, e : IsSplit(t, d, g, f, e)
    BY Splits
  <1>2. q = [drive |-> d, dir |-> g, fname |-> f, ext |-> e]
    BY <1>1, SplitWhole
  <1> HIDE DEF q
  <1> DEFINE S == PartSeps \union {"col"}
             n == f \o e
             r == g \o n
             k == Len(d) + Len(g)
             x == d \o g
             y == d \o g \o f
             dot == LastSingle(n, {"dot"})
  <1>3. /\ d \in Seq(PartChars) /\ g \in Seq(PartChars) /\ f \in Seq(PartChars)
        /\ e \in Seq(PartChars) /\ t = d \o r /\ LastSingle(r, PartSeps) = Len(g)
    BY <1>1 DEF IsSplit
  <1>4. /\ x \in Seq(PartChars) /\ Len(x) = k /\ y \in Seq(PartChars) /\ Len(y) = k + Len(f)
        /\ Len(d) \in Nat /\ Len(g) \in Nat /\ Len(f) \in Nat /\ t = x \o n /\ t = y \o e
    <2>1. FourJoined(d, g, f, e)
      BY <1>3, Lengths, Zenon
    <2>2. QED
      BY <1>3, <2>1 DEF FourJoined
  <1>5. n \in Seq(PartChars)
    BY <1>3, JoinedIs
  <1>6. /\ r \in Seq(PartChars) /\ Len(r) = Len(g) + Len(n) /\ Len(n) \in Nat
        /\ \A j \in 1..Len(g) : r[j] = g[j]
    BY <1>3, <1>5, JoinedIs
  <1>7. /\ d \in {<<>>, <<"let", "col">>} /\ ~Open(d)
        /\ e # <<>> => dot = Len(f) + 1
        /\ e = <<>> => dot = 0
    BY <1>1, SplitHas
  <1>8. LastByteWise(t, {"col"}) = Len(d)
    BY <1>2
  <1> HIDE DEF n, r, x, y, dot
  <1>9. /\ Len(t) = Len(d) + Len(r)
        /\ \A j \in 1..Len(d) : t[j] = d[j] /\ Second(t)[j] = Second(d)[j]
        /\ \A j \in 1..Len(r) : t[Len(d) + j] = r[j] /\ Second(t)[Len(d) + j] = Second(r)[j]
    <2>1. d \in Seq(PartChars) /\ r \in Seq(PartChars)
      BY <1>3, <1>6
    <2>2. /\ Len(d \o r) = Len(d) + Len(r)
          /\ \A j \in 1..Len(d) : (d \o r)[j] = d[j]
          /\ \A j \in 1..Len(r) : (d \o r)[Len(d) + j] = r[j]
      BY ONLY <2>1, JoinedIs
    <2>3. /\ \A j \in 1..Len(d) : Second(d \o r)[j] = Second(d)[j]
          /\ \A j \in 1..Len(r) : Second(d \o r)[Len(d) + j] = Second(r)[j]
      BY ONLY <2>1, <1>7, SecondAlong
    <2>4. QED
      BY <1>3, <2>2, <2>3
  <1>10. /\ Len(g) # 0 => r[Len(g)] \in PartSeps /\ ~Second(r)[Len(g)]
         /\ \A j \in Len(g) + 1..Len(r) : ~(r[j] \in PartSeps /\ ~Second(r)[j])
    <2>1. IsLast(r, PartSeps, Len(g))
      BY <1>3, <1>6, LastIs
    <2>2. QED
      BY <2>1 DEF IsLast, Single
  <1>11. IsLast(t, S, k)
    <2>1. k \in 0..Len(t)
      BY <1>4, <1>6, <1>9
    <2>2. k # 0 => Single(t, S, k)
      <3>1. CASE Len(g) # 0
        <4>1. Len(g) \in 1..Len(r)
          BY <1>4, <1>6, <3>1
        <4>2. t[k] \in PartSeps /\ ~Second(t)[k]
          BY <1>9, <1>10, <3>1, <4>1
        <4>3. QED
          BY <4>2 DEF Single
      <3>2. CASE Len(g) = 0 /\ d = <<"let", "col">>
        <4>1. Len(d) = 2 /\ d[1] = "let" /\ d[2] = "col" /\ k = 2
          BY <3>2
        <4>2. t[2] = "col" /\ Second(t)[2] = Second(d)[2]
          <5>1. 2 \in 1..Len(d)
            BY <4>1
          <5>2. t[2] = d[2] /\ Second(t)[2] = Second(d)[2]
            BY <1>9, <5>1, Zenon
          <5>3. QED
            BY <4>1, <5>2
        <4>3. ~Second(d)[2]
          <5>1. 2 \in 1..Len(d) /\ 2 - 1 = 1 /\ d[1] # "lead"
            BY <4>1
          <5>2. \A j \in 1..Len(d) :
                  Second(d)[j] = (j > 1 /\ ~Second(d)[j - 1] /\ d[j - 1] = "lead")
            BY <1>3, SecondDef, Zenon
          <5>3. Second(d)[2] = (2 > 1 /\ ~Second(d)[2 - 1] /\ d[2 - 1] = "lead")
            BY <5>1, <5>2, Zenon
          <5>4. QED
            BY <5>1, <5>3, Zenon
        <4>4. QED
          BY <4>1, <4>2, <4>3 DEF Single
      <3>3. CASE Len(g) = 0 /\ d = <<>>
        <4>1. k = 0
          BY <3>3
        <4>2. QED
          BY <4>1
      <3>4. QED
        BY <1>7, <3>1, <3>2, <3>3
    <2>3. \A j \in k + 1..Len(t) : ~Single(t, S, j)
      <3> SUFFICES ASSUME NEW j \in k + 1..Len(t), Single(t, S, j) PROVE FALSE
        OBVIOUS
      <3>1. j \in 1..Len(t) /\ j > Len(d) /\ j - Len(d) \in Len(g) + 1..Len(r)
            /\ Len(d) + (j - Len(d)) = j /\ j - Len(d) \in 1..Len(r)
        BY <1>4, <1>6, <1>9
      <3>2. t[j] = r[j - Len(d)] /\ Second(t)[j] = Second(r)[j - Len(d)]
        BY <1>9, <3>1
      <3>3. CASE t[j] \in PartSeps
        BY <1>10, <3>1, <3>2, <3>3 DEF Single
      <3>4. CASE t[j] = "col"
        <4>1. j <= LastByteWise(t, {"col"})
          BY <3>1, <3>4, WiseLast
        <4>2. QED
          BY <1>4, <1>8, <3>1, <4>1
      <3>5. QED
        BY <3>3, <3>4 DEF Single
    <2>4. QED
      BY <2>1, <2>2, <2>3 DEF IsLast
  <1>12. LastSingle(t, S) = k
    BY <1>11, OnlyLast
  <1> DEFINE start == FindRawBaseName(t)
  <1>13. start = k + 1
    BY <1>12 DEF FindRawBaseName
  <1>14. SubSeq(t, k + 1, Len(t)) = n
    <2>1. x \in Seq(PartChars) /\ n \in Seq(PartChars)
      BY <1>4, <1>5
    <2>2. SubSeq(x \o n, Len(x) + 1, Len(x \o n)) = n
      BY ONLY <2>1, JoinCut
    <2>3. QED
      BY <1>4, <2>2, Zenon
  <1>15. SubSeq(t, k + Len(f) + 1, Len(t)) = e
    BY <1>3, <1>4, JoinCut
  <1> HIDE DEF start
  <1>16. SubSeq(t, start, Len(t)) = n
    BY <1>13, <1>14
  <1>17. ext = IF dot = 0 THEN 0 ELSE start + dot - 1
    BY <1>16 DEF FindRawExt, start, dot
  <1> HIDE DEF ext, k
  <1>18. e = IF ext = 0 THEN <<>> ELSE SubSeq(t, ext, Len(t))
    <2>1. CASE e = <<>>
      BY <1>7, <1>17, <2>1
    <2>2. CASE e # <<>>
      <3>1. k \in Nat
        BY <1>4 DEF k
      <3>2. ext = k + Len(f) + 1 /\ ext # 0
        BY <1>4, <1>7, <1>13, <1>17, <2>2, <3>1
      <3>3. QED
        BY <1>15, <3>2
    <2>3. QED
      BY <2>1, <2>2
  <1>19. QED
    BY <1>2, <1>16, <1>18 DEF n, start

-----------------------------------------------------------------------------
(* PathParts: components that are put together.                            *)

\* An extension with its dot has no other, nor a separator or a colon.
LEMMA DottedIs ==
  ASSUME NEW t \in Seq(PartChars),
         \A j \in 1..Len(t) : t[j] \in {"let", "dig", "lead"} \/ (j = 1 /\ t[j] = "dot")
  PROVE  LET e == Dotted(t) IN
         /\ t = <<>> => e = <<>>
         /\ t # <<>> => 1 \in 1..Len(e) /\ e[1] = "dot"
         /\ \A j \in 1..Len(e) : e[j] \in {"let", "dig", "lead"} \/ (j = 1 /\ e[j] = "dot")
  <1> DEFINE e == Dotted(t)
             Is(s) == \A j \in 1..Len(s) :
                        s[j] \in {"let", "dig", "lead"} \/ (j = 1 /\ s[j] = "dot")
  <1>1. Is(t)
    OBVIOUS
  <1>2. CASE t = <<>>
    <2>1. e = t
      BY <1>2, Zenon DEF Dotted
    <2> HIDE DEF e
    <2>2. QED
      BY <1>1, <1>2, <2>1 DEF e
  <1>3. CASE t # <<>> /\ t[1] = "dot"
    <2>1. e = t
      BY <1>3, Zenon DEF Dotted
    <2>2. 1 \in 1..Len(t)
      BY <1>3
    <2> HIDE DEF e
    <2>3. QED
      BY <1>1, <1>3, <2>1, <2>2 DEF e
  <1>4. CASE t # <<>> /\ t[1] # "dot"
    <2> DEFINE u == <<"dot">>
    <2>1. u \in Seq(PartChars) /\ Len(u) = 1 /\ u[1] = "dot"
      BY DEF PartChars
    <2>2. e = u \o t
      BY <1>4, Zenon DEF Dotted
    <2> HIDE DEF u
    <2>3. /\ Len(u \o t) = Len(u) + Len(t) /\ Len(t) \in Nat
          /\ \A j \in 1..Len(u) : (u \o t)[j] = u[j]
          /\ \A j \in 1..Len(t) : (u \o t)[Len(u) + j] = t[j]
      <3>1. u \in Seq(PartChars) /\ t \in Seq(PartChars)
        BY <2>1
      <3>2. QED
        BY ONLY <3>1, JoinedIs
    <2> HIDE DEF e
    <2>4. /\ Len(e) = 1 + Len(t) /\ Len(t) \in Nat /\ e[1] = "dot"
          /\ \A j \in 1..Len(t) : e[1 + j] = t[j]
      BY <2>1, <2>2, <2>3
    <2>5. ASSUME NEW j \in 1..Len(e)
          PROVE  e[j] \in {"let", "dig", "lead"} \/ (j = 1 /\ e[j] = "dot")
      <3>1. CASE j = 1
        BY <2>4, <3>1
      <3>2. CASE j # 1
        <4>1. j - 1 \in 1..Len(t) /\ 1 + (j - 1) = j
          BY <2>4, <3>2
        <4>2. e[1 + (j - 1)] = t[j - 1]
          BY <2>4, <4>1
        <4>3. t[j - 1] # "dot"
          BY <1>1, <1>4, <4>1
        <4>4. t[j - 1] \in {"let", "dig", "lead"}
          BY <1>1, <4>1, <4>3
        <4>5. QED
          BY <4>1, <4>2, <4>4
      <3>3. QED
        BY <3>1, <3>2
    <2>6. 1 \in 1..Len(e)
      BY <2>4
    <2>7. QED
      BY <1>4, <2>4, <2>5, <2>6 DEF e
  <1>5. QED
    BY <1>2, <1>3, <1>4

\* A directory with its separator ends with one, and has the colons that it had.
LEMMA TerminatedIs ==
  ASSUME NEW t \in Seq(PartChars), EndsSingle(t)
  PROVE  LET g == Terminated(t) IN
         /\ LastSingle(g, PartSeps) = Len(g) /\ ~Open(g)
         /\ Len(t) <= Len(g) /\ \A j \in 1..Len(t) : g[j] = t[j]
         /\ \A j \in 1..Len(g) : g[j] = "col" => j \in 1..Len(t)
  <1> DEFINE g == Terminated(t)
             l == Len(t)
             k == LastSingle(t, PartSeps)
             c == IF k = 0 THEN "bsl" ELSE t[k]
  <1>1. l \in Nat /\ k \in 0..l /\ (k # 0 => t[k] \in PartSeps)
    BY LastIs DEF IsLast, Single
  <1>2. c \in PartSeps /\ c \in PartChars /\ c # "lead" /\ c # "col"
    BY <1>1 DEF PartSeps, PartChars
  <1>3. t # <<>> => l \in 1..l /\ t[l] # "lead" /\ ~Second(t)[l]
    BY <1>1 DEF EndsSingle
  <1>4. ~Open(t)
    BY <1>3, NotOpen DEF Open
  <1> HIDE DEF k
  <1>5. CASE t = <<>>
    <2>1. g = <<>> /\ Len(g) = 0 /\ l = 0
      BY <1>5, EmptySeq DEF Terminated
    <2>2. LastSingle(g, PartSeps) = 0 /\ ~Open(g)
      BY <2>1, NoneLast, NotOpen, Zenon
    <2> HIDE DEF g
    <2>3. QED
      BY <2>1, <2>2 DEF g
  <1>6. CASE t # <<>> /\ t[l] \in PartSeps
    <2>1. g = t
      BY <1>6, Zenon DEF Terminated
    <2>2. IsLast(t, PartSeps, l)
      BY <1>1, <1>3, <1>6 DEF IsLast, Single
    <2>3. LastSingle(t, PartSeps) = l
      BY <2>2, OnlyLast
    <2> HIDE DEF g
    <2>4. QED
      BY <1>1, <1>4, <2>1, <2>3 DEF g
  <1>7. CASE t # <<>> /\ t[l] \notin PartSeps
    <2>1. g = Append(t, c)
      BY <1>7, Zenon DEF Terminated, k
    <2> HIDE DEF c, g
    <2>2. Len(g) = l + 1 /\ g[l + 1] = c /\ \A j \in 1..l : g[j] = t[j]
      BY <1>2, <2>1, OneByte
    <2>3. LastSingle(g, PartSeps) = l + 1
      BY <1>2, <1>4, <2>1, LastNext
    <2>4. ~Open(g)
      BY <1>2, <2>2 DEF Open
    <2>5. \A j \in 1..Len(g) : g[j] = "col" => j \in 1..l
      <3> SUFFICES ASSUME NEW j \in 1..Len(g), g[j] = "col" PROVE j \in 1..l
        OBVIOUS
      <3>1. j # l + 1
        BY <1>2, <2>2
      <3>2. QED
        BY <1>1, <2>2, <3>1
    <2>6. QED
      BY <1>1, <2>2, <2>3, <2>4, <2>5 DEF g
  <1>8. QED
    BY <1>5, <1>6, <1>7

\* Components that are put together, and taken apart again.
LEMMA MakeSplits ==
  ASSUME NEW q, NEW d \in Seq(PartChars), NEW g \in Seq(PartChars), NEW f \in Seq(PartChars),
         NEW e \in Seq(PartChars), q = [drive |-> d, dir |-> g, fname |-> f, ext |-> e],
         Proper(q), MakeOf(q).status = "ok"
  PROVE  SplitOf(MakeOf(q).path) =
           [drive |-> DriveNamed(d), dir |-> Terminated(g), fname |-> CopyComponent(f, FnameMax),
            ext |-> CopyComponent(Dotted(e), PartExtMax)]
  <1> DEFINE w == Whole(d, g, f, e)
             x == DriveNamed(d)
             y == Terminated(g)
             z == Dotted(e)
             n == f \o z
             r == y \o n
  <1>1. /\ EndsSingle(g) /\ (HasDriveSpec(g) => d # <<>>)
        /\ \A j \in 1..Len(f) : f[j] \in {"let", "dig", "lead"}
        /\ \A j \in 1..Len(e) : e[j] \in {"let", "dig", "lead"} \/ (j = 1 /\ e[j] = "dot")
    <2>1. q.drive = d /\ q.dir = g /\ q.fname = f /\ q.ext = e
      OBVIOUS
    <2>2. /\ EndsSingle(q.dir) /\ (HasDriveSpec(q.dir) => q.drive # <<>>)
          /\ \A j \in 1..Len(q.fname) : q.fname[j] \in {"let", "dig", "lead"}
          /\ \A j \in 1..Len(q.ext) : \/ q.ext[j] \in {"let", "dig", "lead"}
                                      \/ j = 1 /\ q.ext[j] = "dot"
      BY DEF Proper
    <2>3. EndsSingle(g) /\ (HasDriveSpec(g) => d # <<>>)
      BY <2>1, <2>2, Zenon
    <2>4. \A j \in 1..Len(f) : f[j] \in {"let", "dig", "lead"}
      BY <2>1, <2>2
    <2>5. \A j \in 1..Len(e) : e[j] \in {"let", "dig", "lead"} \/ (j = 1 /\ e[j] = "dot")
      BY <2>1, <2>2
    <2>6. QED
      BY <2>3, <2>4, <2>5
  <1>2. MakeOf(q).path = w /\ Len(w) <= WholeMax - 1 /\ (e # <<>> => ~Open(f))
    BY <1>1, MakeIs
  <1>3. /\ Len(w) = Len(x) + Len(y) + Len(f) + Len(z)
        /\ Len(x) \in Nat /\ Len(y) \in Nat /\ Len(f) \in Nat /\ Len(z) \in Nat
        /\ x \in Seq(PartChars) /\ y \in Seq(PartChars) /\ z \in Seq(PartChars)
    <2>1. WholeOf(d, g, f, e)
      BY WholeIs, Zenon
    <2>2. QED
      BY <2>1 DEF WholeOf
  <1>4. /\ e = <<>> => z = <<>>
        /\ e # <<>> => 1 \in 1..Len(z) /\ z[1] = "dot"
        /\ \A j \in 1..Len(z) : z[j] \in {"let", "dig", "lead"} \/ (j = 1 /\ z[j] = "dot")
    BY <1>1, DottedIs
  <1>5. /\ LastSingle(y, PartSeps) = Len(y) /\ ~Open(y)
        /\ Len(g) <= Len(y) /\ \A j \in 1..Len(g) : y[j] = g[j]
        /\ \A j \in 1..Len(y) : y[j] = "col" => j \in 1..Len(g)
    BY <1>1, TerminatedIs
  <1>6. w = x \o r
    BY DEF Whole
  <1>7. x = (IF d = <<>> THEN <<>> ELSE <<"let", "col">>)
    BY DEF DriveNamed
  <1> HIDE DEF w, x, y, z
  <1>8. /\ n \in Seq(PartChars) /\ Len(n) = Len(f) + Len(z)
        /\ \A j \in 1..Len(f) : n[j] = f[j]
        /\ \A j \in 1..Len(z) : n[Len(f) + j] = z[j]
    BY <1>3, JoinedIs
  <1> HIDE DEF n
  <1>9. /\ r \in Seq(PartChars) /\ Len(r) = Len(y) + Len(n)
        /\ \A j \in 1..Len(y) : r[j] = y[j]
        /\ \A j \in 1..Len(n) : r[Len(y) + j] = n[j]
    <2>1. y \in Seq(PartChars) /\ n \in Seq(PartChars)
      BY <1>3, <1>8
    <2>2. QED
      BY ONLY <2>1, JoinedIs
  <1> HIDE DEF r
  <1>10. ASSUME NEW j \in 1..Len(n), j # Len(f) + 1 PROVE n[j] \in {"let", "dig", "lead"}
    <2>1. CASE j \in 1..Len(f)
      BY <1>1, <1>8, <2>1
    <2>2. CASE j \notin 1..Len(f)
      <3>1. j - Len(f) \in 1..Len(z) /\ Len(f) + (j - Len(f)) = j /\ j - Len(f) # 1
        BY <1>3, <1>8, <1>10, <2>2
      <3>2. n[j] = z[j - Len(f)]
        BY <1>8, <3>1
      <3>3. QED
        BY <1>4, <3>1, <3>2
    <2>3. QED
      BY <2>1, <2>2
  <1>11. ASSUME NEW j \in 1..Len(n), j = Len(f) + 1 PROVE n[j] \in {"let", "dig", "lead", "dot"}
    <2>1. 1 \in 1..Len(z)
      BY <1>3, <1>8, <1>11
    <2>2. n[j] = z[1]
      BY <1>8, <1>11, <2>1
    <2>3. QED
      BY <1>4, <2>1, <2>2
  <1>12. \A j \in 1..Len(n) : n[j] \in {"let", "dig", "lead", "dot"}
    BY <1>10, <1>11
  <1>13. LastSingle(r, PartSeps) = Len(y)
    <2>1. y \in Seq(PartChars) /\ n \in Seq(PartChars)
      BY <1>3, <1>8
    <2>2. \A j \in 1..Len(n) : n[j] \notin PartSeps
      BY <1>12 DEF PartSeps
    <2>3. \A j \in 1..Len(n) : n[j] \notin PartSeps \/ (~Open(y) /\ Second(n)[j])
      BY <2>2, Zenon
    <2>4. LastSingle(y \o n, PartSeps) = LastSingle(y, PartSeps)
      BY ONLY <2>1, <2>3, LastStays
    <2>5. QED
      BY <1>5, <2>4 DEF r
  <1>14. Len(x) = IF HasDriveSpec(w) THEN 2 ELSE 0
    <2>1. CASE d # <<>>
      <3>1. x \in Seq(PartChars) /\ Len(x) = 2 /\ x[1] = "let" /\ x[2] = "col"
        BY <1>3, <1>7, <2>1
      <3>2. \A j \in 1..Len(x) : (x \o r)[j] = x[j]
        <4>1. x \in Seq(PartChars) /\ r \in Seq(PartChars)
          BY <1>9, <3>1
        <4>2. QED
          BY ONLY <4>1, JoinedIs
      <3>3. w[1] = "let" /\ w[2] = "col" /\ Len(w) >= 2
        BY <1>3, <1>6, <3>1, <3>2
      <3>4. HasDriveSpec(w)
        BY <3>3 DEF HasDriveSpec, DriveLetters
      <3>5. QED
        BY <3>1, <3>4
    <2>2. CASE d = <<>>
      <3>1. x = <<>> /\ Len(x) = 0
        BY <1>7, <2>2, EmptySeq
      <3>2. w = r
        BY <1>6, <1>9, <3>1, NoneMore, Zenon
      <3>3. ASSUME HasDriveSpec(w) PROVE FALSE
        <4>1. Len(r) >= 2 /\ r[1] = "let" /\ r[2] = "col"
          BY <1>9, <3>2, <3>3 DEF HasDriveSpec, DriveLetters
        <4>2. 2 \in 1..Len(y)
          <5> SUFFICES ASSUME 2 \notin 1..Len(y) PROVE FALSE
            OBVIOUS
          <5>1. 2 - Len(y) \in 1..Len(n) /\ Len(y) + (2 - Len(y)) = 2
            BY <1>3, <1>8, <1>9, <4>1
          <5>2. r[2] = n[2 - Len(y)]
            BY <1>9, <5>1
          <5>3. QED
            BY <1>12, <4>1, <5>1, <5>2
        <4>3. 1 \in 1..Len(y)
          BY <1>3, <4>2
        <4>4. y[1] = "let" /\ y[2] = "col"
          BY <1>9, <4>1, <4>2, <4>3
        <4>5. 2 \in 1..Len(g)
          BY <1>5, <4>2, <4>4
        <4>6. 1 \in 1..Len(g) /\ Len(g) >= 2
          BY <4>5
        <4>7. g[1] = "let" /\ g[2] = "col"
          BY <1>5, <4>4, <4>5, <4>6
        <4>8. HasDriveSpec(g)
          BY <4>6, <4>7 DEF HasDriveSpec, DriveLetters
        <4>9. QED
          BY <1>1, <2>2, <4>8
      <3>4. QED
        BY <3>1, <3>3
    <2>3. QED
      BY <2>1, <2>2
  <1>15. NameEnd(n) = Len(f)
    <2>1. CASE e = <<>>
      <3>1. Len(z) = 0
        BY <1>4, <2>1, EmptySeq
      <3>2. Len(n) = Len(f) /\ \A j \in 1..Len(n) : n[j] # "dot"
        BY <1>3, <1>8, <1>10, <3>1
      <3>3. IsLast(n, {"dot"}, 0)
        BY <1>8, <3>2 DEF IsLast, Single
      <3>4. LastSingle(n, {"dot"}) = 0
        BY <1>8, <3>3, OnlyLast
      <3>5. QED
        BY <3>2, <3>4 DEF NameEnd
    <2>2. CASE e # <<>>
      <3> DEFINE m == Len(f) + 1
      <3>1. m \in 1..Len(n) /\ 1 \in 1..Len(z) /\ m # 0 /\ m - 1 = Len(f)
        BY <1>3, <1>4, <1>8, <2>2
      <3>2. n[m] = "dot"
        BY <1>4, <1>8, <2>2, <3>1
      <3>3. ~Second(n)[m]
        <4>1. f \in Seq(PartChars) /\ z \in Seq(PartChars) /\ Len(z) > 0
          BY <1>3, <3>1
        <4>2. Second(f \o z)[Len(f) + 1] = Open(f)
          BY ONLY <4>1, SecondAlong
        <4>3. QED
          BY <1>2, <2>2, <4>2, Zenon DEF n
      <3>4. \A j \in m + 1..Len(n) : n[j] # "dot"
        <4> SUFFICES ASSUME NEW j \in m + 1..Len(n) PROVE n[j] # "dot"
          OBVIOUS
        <4>1. j \in 1..Len(n) /\ j # Len(f) + 1
          BY <1>3
        <4>2. n[j] \in {"let", "dig", "lead"}
          BY <1>10, <4>1
        <4>3. QED
          BY <4>2
      <3> HIDE DEF m
      <3>5. IsLast(n, {"dot"}, m)
        BY <1>8, <3>1, <3>2, <3>3, <3>4 DEF IsLast, Single
      <3>6. LastSingle(n, {"dot"}) = m
        BY <1>8, <3>5, OnlyLast
      <3>7. QED
        BY <3>1, <3>6 DEF NameEnd
    <2>3. QED
      BY <2>1, <2>2
  <1>16. IsSplit(w, x, y, f, z)
    BY <1>3, <1>6, <1>13, <1>14, <1>15, Zenon DEF IsSplit, n, r
  <1>17. SplitOf(w) = [drive |-> x, dir |-> CopyComponent(y, WholeMax),
                       fname |-> CopyComponent(f, FnameMax), ext |-> CopyComponent(z, PartExtMax)]
    BY <1>16, SplitGives
  <1>18. CopyComponent(y, WholeMax) = y
    <2>1. /\ y \in Seq(PartChars) /\ WholeMax \in Nat /\ WholeMax > 1
          /\ Len(y) <= WholeMax - 1
      BY <1>2, <1>3, BuffersHold DEF Buffers
    <2>2. QED
      BY ONLY <2>1, CutIs
  <1>19. QED
    BY <1>2, <1>17, <1>18, Zenon DEF x, y, z

-----------------------------------------------------------------------------
(* PathParts: every order of calls.                                        *)

\* What the first call was given, and what the calls have made of it so far.
Parted ==
  \/ calls = <<"split", "make">> /\ whole = asked.whole
  \/ calls = <<"make">> /\ parts = SplitOf(asked.whole)
  \/ /\ calls = <<>> /\ parts = SplitOf(asked.whole)
     /\ whole = MakeOf(parts).path /\ made = MakeOf(parts).status
Put ==
  \/ calls = <<"make", "split">> /\ parts = asked.parts
  \/ calls = <<"split">> /\ whole = MakeOf(asked.parts).path /\ made = MakeOf(asked.parts).status
  \/ /\ calls = <<>> /\ parts = SplitOf(MakeOf(asked.parts).path)
     /\ made = MakeOf(asked.parts).status
PpInv == \/ asked.first = "split" /\ asked.whole \in Wholes /\ Parted
         \/ asked.first = "make" /\ asked.parts \in PartLists /\ Put

LEMMA PpInitInv == PpInit => PpInv
  <1> SUFFICES ASSUME PpInit PROVE PpInv
    OBVIOUS
  <1>1. CASE /\ whole \in Wholes /\ calls = <<"split", "make">>
             /\ asked = [first |-> "split", whole |-> whole]
    BY <1>1 DEF PpInv, Parted
  <1>2. CASE /\ parts \in PartLists /\ calls = <<"make", "split">>
             /\ asked = [first |-> "make", parts |-> parts]
    BY <1>2 DEF PpInv, Put
  <1>3. QED
    BY <1>1, <1>2 DEF PpInit

LEMMA PpNextInv == PpInv /\ [PpNext]_ppVars => PpInv'
  <1> SUFFICES ASSUME PpInv, [PpNext]_ppVars PROVE PpInv'
    OBVIOUS
  <1>1. CASE SplitPath
    <2>1. /\ calls # <<>> /\ Head(calls) = "split" /\ calls' = Tail(calls)
          /\ parts' = SplitOf(whole) /\ asked' = asked /\ whole' = whole /\ made' = made
      BY <1>1 DEF SplitPath
    <2>2. CASE asked.first = "split" /\ asked.whole \in Wholes /\ Parted
      <3>1. calls = <<"split", "make">> /\ whole = asked.whole
        BY <2>1, <2>2 DEF Parted
      <3>2. calls' = <<"make">>
        BY <2>1, <3>1
      <3>3. parts' = SplitOf(asked'.whole)
        BY <2>1, <3>1
      <3>4. QED
        BY <2>1, <2>2, <3>2, <3>3 DEF PpInv, Parted
    <2>3. CASE asked.first = "make" /\ asked.parts \in PartLists /\ Put
      <3>1. /\ calls = <<"split">> /\ whole = MakeOf(asked.parts).path
            /\ made = MakeOf(asked.parts).status
        BY <2>1, <2>3 DEF Put
      <3>2. calls' = <<>>
        BY <2>1, <3>1
      <3>3. parts' = SplitOf(MakeOf(asked'.parts).path) /\ made' = MakeOf(asked'.parts).status
        BY <2>1, <3>1
      <3>4. QED
        BY <2>1, <2>3, <3>2, <3>3 DEF PpInv, Put
    <2>4. QED
      BY <2>2, <2>3 DEF PpInv
  <1>2. CASE MakePath
    <2>1. /\ calls # <<>> /\ Head(calls) = "make" /\ calls' = Tail(calls)
          /\ whole' = MakeOf(parts).path /\ made' = MakeOf(parts).status
          /\ asked' = asked /\ parts' = parts
      BY <1>2 DEF MakePath
    <2>2. CASE asked.first = "split" /\ asked.whole \in Wholes /\ Parted
      <3>1. calls = <<"make">> /\ parts = SplitOf(asked.whole)
        BY <2>1, <2>2 DEF Parted
      <3>2. calls' = <<>>
        BY <2>1, <3>1
      <3>3. /\ parts' = SplitOf(asked'.whole) /\ whole' = MakeOf(parts').path
            /\ made' = MakeOf(parts').status
        BY <2>1, <3>1
      <3>4. QED
        BY <2>1, <2>2, <3>2, <3>3 DEF PpInv, Parted
    <2>3. CASE asked.first = "make" /\ asked.parts \in PartLists /\ Put
      <3>1. calls = <<"make", "split">> /\ parts = asked.parts
        BY <2>1, <2>3 DEF Put
      <3>2. calls' = <<"split">>
        BY <2>1, <3>1
      <3>3. whole' = MakeOf(asked'.parts).path /\ made' = MakeOf(asked'.parts).status
        BY <2>1, <3>1
      <3>4. QED
        BY <2>1, <2>3, <3>2, <3>3 DEF PpInv, Put
    <2>4. QED
      BY <2>2, <2>3 DEF PpInv
  <1>3. CASE UNCHANGED ppVars
    BY <1>3 DEF PpInv, Parted, Put, ppVars
  <1>4. QED
    BY <1>1, <1>2, <1>3 DEF PpNext

LEMMA PpInvBack == PpInv => PartsComeBack
  <1> SUFFICES ASSUME PpInv, calls = <<>> PROVE PartsComeBack
    BY DEF PartsComeBack
  <1>1. CASE asked.first = "split" /\ asked.whole \in Wholes /\ Parted
    <2> DEFINE t == asked.whole
    <2>1. t \in Seq(PartChars)
      BY <1>1, PartsAssumption
    <2>2. parts = SplitOf(t) /\ whole = MakeOf(parts).path /\ made = MakeOf(parts).status
      BY <1>1 DEF Parted
    <2> HIDE DEF t
    <2>3. Uncut /\ Len(t) < WholeMax => made = "ok" /\ whole = t
      <3> SUFFICES ASSUME Uncut, Len(t) < WholeMax PROVE made = "ok" /\ whole = t
        OBVIOUS
      <3>1. parts.drive \o parts.dir \o parts.fname \o parts.ext = t
        BY DEF Uncut, t
      <3>2. LET q == SplitOf(t) IN q.drive \o q.dir \o q.fname \o q.ext = t
        BY <2>2, <3>1
      <3>3. MakeOf(SplitOf(t)).status = "ok" /\ MakeOf(SplitOf(t)).path = t
        BY <2>1, <3>2, SplitMakes
      <3>4. QED
        BY <2>2, <3>3
    <2>4. RawPartsAgree(t)
      BY <2>1, RawAgrees
    <2>5. Len(parts.fname) < FnameMax /\ Len(parts.ext) < PartExtMax
      <3>1. PICK d, g, f, e : IsSplit(t, d, g, f, e)
        BY <2>1, Splits
      <3> DEFINE x == CopyComponent(f, FnameMax)
                 y == CopyComponent(e, PartExtMax)
      <3>2. parts.fname = x /\ parts.ext = y
        BY <2>2, <3>1, SplitGives
      <3>3. f \in Seq(PartChars) /\ e \in Seq(PartChars)
        BY <3>1 DEF IsSplit
      <3>4. Len(x) \in Nat /\ Len(x) <= FnameMax - 1
        BY <3>3, BuffersHold, CutIs DEF Buffers
      <3>5. Len(y) \in Nat /\ Len(y) <= PartExtMax - 1
        BY <3>3, BuffersHold, CutIs DEF Buffers
      <3> HIDE DEF x, y
      <3>6. FnameMax \in Nat /\ PartExtMax \in Nat
        BY BuffersHold DEF Buffers
      <3>7. QED
        BY <3>2, <3>4, <3>5, <3>6
    <2>6. QED
      BY <1>1, <2>3, <2>4, <2>5 DEF PartsComeBack, t
  <1>2. CASE asked.first = "make" /\ asked.parts \in PartLists /\ Put
    <2> DEFINE q == asked.parts
               d == IF q.drive = <<>> THEN <<>> ELSE <<"let", "col">>
               r == [drive |-> d, dir |-> Terminated(q.dir),
                     fname |-> CopyComponent(q.fname, FnameMax),
                     ext |-> CopyComponent(Dotted(q.ext), PartExtMax)]
    <2>1. q \in [drive : Seq(PartChars), dir : Seq(PartChars), fname : Seq(PartChars),
                 ext : Seq(PartChars)]
      BY <1>2, PartsAssumption
    <2>2. parts = SplitOf(MakeOf(q).path) /\ made = MakeOf(q).status
      BY <1>2 DEF Put
    <2> HIDE DEF q
    <2>3. made = "ok" /\ Proper(q) => parts = r
      <3> SUFFICES ASSUME made = "ok", Proper(q) PROVE parts = r
        OBVIOUS
      <3>1. /\ q.drive \in Seq(PartChars) /\ q.dir \in Seq(PartChars)
            /\ q.fname \in Seq(PartChars) /\ q.ext \in Seq(PartChars)
            /\ q = [drive |-> q.drive, dir |-> q.dir, fname |-> q.fname, ext |-> q.ext]
        BY <2>1
      <3>2. MakeOf(q).status = "ok"
        BY <2>2
      <3>3. SplitOf(MakeOf(q).path) =
              [drive |-> DriveNamed(q.drive), dir |-> Terminated(q.dir),
               fname |-> CopyComponent(q.fname, FnameMax),
               ext |-> CopyComponent(Dotted(q.ext), PartExtMax)]
        BY <3>1, <3>2, MakeSplits
      <3>4. DriveNamed(q.drive) = d
        BY Zenon DEF DriveNamed
      <3>5. QED
        BY <2>2, <3>3, <3>4
    <2>4. asked.first # "split"
      BY <1>2
    <2>5. QED
      BY <2>3, <2>4, Zenon DEF PartsComeBack, q
  <1>3. QED
    BY <1>1, <1>2 DEF PpInv

\* Whatever is taken apart and put together, or put together and taken apart, comes back:
\* for all buffers of more than one byte, and all paths and components.
THEOREM PartsAlwaysComeBack == PpSpec => []PartsComeBack
  <1>1. QED
    BY PpInitInv, PpNextInv, PpInvBack, PTL DEF PpSpec
=============================================================================
