----------------------------- MODULE Induction ------------------------------
(***************************************************************************)
(* Induction, as the other proofs use it.  A theorem about every predicate *)
(* takes the predicate as a set here: the numbers of which it holds.  From *)
(* it follow what the recursive functions of the models are: that each     *)
(* equation f[i] = step of f[i - 1] has a solution, so that the function   *)
(* CHOOSEn by the definition obeys it, and that its solutions agree; and   *)
(* what is read of a sequence element by element, alone, after another and *)
(* by two readers.                                                         *)
(***************************************************************************)
EXTENDS Integers, Sequences, WellFoundedInduction, FiniteSetTheorems, SequenceTheorems, TLAPS

-----------------------------------------------------------------------------
(* Induction over the numbers.                                             *)

\* A set that has 0, and with each number the next, has them all.  (Otherwise the
\* intervals below the numbers it lacks are finite sets, one of which is smallest.)
LEMMA NatClosed ==
  ASSUME NEW S, 0 \in S, \A n \in Nat : n \in S => n + 1 \in S
  PROVE  \A n \in Nat : n \in S
  <1> SUFFICES ASSUME NEW k \in Nat, k \notin S PROVE FALSE
    OBVIOUS
  <1> DEFINE T == {0..m : m \in {i \in Nat : i \notin S}}
             R == StrictSubsetOrdering(Nat)
  <1>1. T \subseteq FiniteSubsetsOf(Nat)
    <2> SUFFICES ASSUME NEW m \in Nat PROVE 0..m \in SUBSET Nat /\ IsFiniteSet(0..m)
      BY DEF FiniteSubsetsOf
    <2>1. IsFiniteSet(0..m)
      BY FS_Interval
    <2>2. QED
      BY <2>1
  <1>2. 0..k \in T
    OBVIOUS
  <1>3. IsWellFoundedOn(R, FiniteSubsetsOf(Nat))
    BY FS_StrictSubsetOrderingWellFounded
  <1>4. \E x \in T : \A y \in T : ~ (<<y, x>> \in R)
    <2> HIDE DEF T, R
    <2>1. T # {}
      BY <1>2
    <2>2. QED
      BY <1>1, <1>3, <2>1, WFMin
  <1>5. PICK x \in T : \A y \in T : ~ (<<y, x>> \in R)
    BY <1>4
  <1>6. PICK m \in Nat : m \notin S /\ x = 0..m
    OBVIOUS
  <1>7. m # 0 /\ m - 1 \in Nat /\ m - 1 \notin S
    <2>1. m # 0
      BY <1>6
    <2>2. m - 1 \in Nat /\ (m - 1) + 1 = m
      BY <2>1
    <2>3. QED
      BY <1>6, <2>1, <2>2
  <1>8. 0..m-1 \in T
    BY <1>7
  <1>9. <<0..m-1, x>> \in R
    <2>1. 0..m-1 \subseteq 0..m /\ m \in 0..m /\ m \notin 0..m-1 /\ 0..m \subseteq Nat
      OBVIOUS
    <2>2. 0..m-1 # 0..m
      BY <2>1
    <2>3. QED
      BY <1>6, <2>1, <2>2 DEF StrictSubsetOrdering
  <1>10. QED
    BY <1>5, <1>8, <1>9

\* A set of numbers has a smallest one.
LEMMA SmallestNat ==
  ASSUME NEW S, S \subseteq Nat, S # {}
  PROVE  \E m \in S : \A i \in S : m <= i
  <1> SUFFICES ASSUME \A m \in S : \E i \in S : i < m PROVE FALSE
    OBVIOUS
  <1> DEFINE T == {n \in Nat : \A i \in S : n <= i}
  <1>1. 0 \in T
    OBVIOUS
  <1>2. ASSUME NEW n \in Nat, n \in T PROVE n + 1 \in T
    <2> SUFFICES ASSUME NEW i \in S PROVE n + 1 <= i
      OBVIOUS
    <2>1. PICK j \in S : j < i
      OBVIOUS
    <2>2. n <= j /\ i \in Nat /\ j \in Nat
      BY <1>2
    <2>3. QED
      BY <2>1, <2>2
  <1>3. \A n \in Nat : n \in T
    <2> HIDE DEF T
    <2>1. QED
      BY <1>1, <1>2, NatClosed
  <1>4. PICK i \in S : TRUE
    OBVIOUS
  <1>5. i + 1 \in T
    BY <1>3
  <1>6. QED
    BY <1>5

\* The same from a to b.
LEMMA IntervalClosed ==
  ASSUME NEW a \in Int, NEW b \in Int, NEW S, a <= b => a \in S,
         \A i \in a..b - 1 : i \in S => i + 1 \in S
  PROVE  \A i \in a..b : i \in S
  <1> DEFINE T == {n \in Nat : a + n <= b => a + n \in S}
  <1>1. 0 \in T
    OBVIOUS
  <1>2. ASSUME NEW n \in Nat, n \in T PROVE n + 1 \in T
    <2> SUFFICES ASSUME a + (n + 1) <= b PROVE a + (n + 1) \in S
      OBVIOUS
    <2>1. a + n \in a..b - 1 /\ a + (n + 1) = (a + n) + 1
      OBVIOUS
    <2>2. QED
      BY <1>2, <2>1
  <1>3. \A n \in Nat : n \in T
    <2> HIDE DEF T
    <2>1. QED
      BY <1>1, <1>2, NatClosed
  <1> TAKE i \in a..b
  <1>4. i - a \in Nat /\ a + (i - a) = i /\ i <= b
    OBVIOUS
  <1>5. QED
    BY <1>3, <1>4

-----------------------------------------------------------------------------
(* Functions defined by recursion over an interval.                        *)

\* A recursion from a to b on values in V: what each step makes of the value before,
\* and the functions that start with c and take these steps.
Steps(a, b, V) == [a + 1..b -> [V -> V]]
Obeying(a, b, V, c, D) == {g \in [a..b -> V] : /\ a <= b => g[a] = c
                                               /\ \A i \in a + 1..b : g[i] = D[i][g[i - 1]]}

LEMMA StepsFrom0 == \A n, V : Steps(0, n, V) = [1..n -> [V -> V]]
  <1>1. 0 + 1 = 1
    OBVIOUS
  <1>2. QED
    BY <1>1 DEF Steps

\* Each recursion over an interval defines a function.
LEMMA RecursionDefines ==
  ASSUME NEW a \in Int, NEW b \in Int, NEW V, NEW c \in V, NEW D \in Steps(a, b, V)
  PROVE  \E g : g \in Obeying(a, b, V, c, D)
  <1> DEFINE Fits(g, k) == /\ k >= a => g[a] = c
                           /\ \A i \in a + 1..k : g[i] = D[i][g[i - 1]]
             S == {k \in Int : \E g \in [a..k -> V] : Fits(g, k)}
  <1>1. a - 1 \in S
    <2>1. [i \in a..a - 1 |-> c] \in [a..a - 1 -> V]
      OBVIOUS
    <2>2. Fits([i \in a..a - 1 |-> c], a - 1)
      OBVIOUS
    <2>3. QED
      BY <2>1, <2>2
  <1>2. a \in S
    <2>1. [i \in a..a |-> c] \in [a..a -> V] /\ Fits([i \in a..a |-> c], a)
      OBVIOUS
    <2>2. QED
      BY <2>1
  <1>3. ASSUME NEW k \in a..b - 1, k \in S PROVE k + 1 \in S
    <2> PICK g \in [a..k -> V] : Fits(g, k)
      BY <1>3
    <2> DEFINE h == [i \in a..k + 1 |-> IF i = k + 1 THEN D[k + 1][g[k]] ELSE g[i]]
    <2>1. D[k + 1] \in [V -> V] /\ g[k] \in V
      BY DEF Steps
    <2>2. D[k + 1][g[k]] \in V
      BY <2>1
    <2>3. h \in [a..k + 1 -> V]
      BY <2>2
    <2>4. /\ h[a] = c
          /\ \A i \in a + 1..k + 1 : h[i] = D[i][h[i - 1]]
      <3>1. h[a] = c
        OBVIOUS
      <3>2. ASSUME NEW i \in a + 1..k + 1 PROVE h[i] = D[i][h[i - 1]]
        <4>1. CASE i = k + 1
          BY <4>1
        <4>2. CASE i # k + 1
          <5>1. i \in a + 1..k /\ i - 1 \in a..k
            BY <4>2
          <5>2. QED
            BY <4>2, <5>1
        <4>3. QED
          BY <4>1, <4>2
      <3>3. QED
        BY <3>1, <3>2
    <2>5. QED
      BY <2>3, <2>4
  <1>4. b \in S \/ b < a
    <2> HIDE DEF S
    <2>1. \A i \in a..b : i \in S
      BY <1>2, <1>3, IntervalClosed
    <2>2. QED
      BY <2>1
  <1>5. CASE b \in S
    BY <1>5 DEF Obeying
  <1>6. CASE b < a
    <2>1. a..b = {} /\ a + 1..b = {}
      BY <1>6
    <2>2. [i \in a..b |-> c] \in Obeying(a, b, V, c, D)
      BY <1>6, <2>1 DEF Obeying
    <2>3. QED
      BY <2>2
  <1>7. QED
    BY <1>4, <1>5, <1>6

\* Two functions that start alike and take the same steps are the same.
LEMMA RecursionAgrees ==
  ASSUME NEW a \in Int, NEW b \in Int, NEW g, NEW h, a <= b => g[a] = h[a],
         \A i \in a + 1..b : g[i - 1] = h[i - 1] => g[i] = h[i]
  PROVE  \A i \in a..b : g[i] = h[i]
  <1> DEFINE S == {i \in Int : g[i] = h[i]}
  <1>1. a <= b => a \in S
    OBVIOUS
  <1>2. ASSUME NEW i \in a..b - 1, i \in S PROVE i + 1 \in S
    <2>1. i + 1 \in a + 1..b /\ (i + 1) - 1 = i
      OBVIOUS
    <2>2. QED
      BY <1>2, <2>1
  <1>3. \A i \in a..b : i \in S
    <2> HIDE DEF S
    <2>1. QED
      BY <1>1, <1>2, IntervalClosed
  <1>4. QED
    BY <1>3

\* The same from 0, and that what starts in V and stays there is in V.
LEMMA AgreesFrom0 ==
  ASSUME NEW n \in Nat, NEW g, NEW h, g[0] = h[0],
         \A i \in 1..n : g[i - 1] = h[i - 1] => g[i] = h[i]
  PROVE  \A i \in 0..n : g[i] = h[i]
  <1>1. 0 \in Int /\ n \in Int /\ 0 + 1 = 1
    OBVIOUS
  <1>2. \A i \in 0 + 1..n : g[i - 1] = h[i - 1] => g[i] = h[i]
    BY <1>1
  <1>3. QED
    BY <1>1, <1>2, RecursionAgrees

\* Two functions that start alike, and of which each step keeps it so.
Alike(n, g, h) == g[0] = h[0] /\ \A i \in 1..n : g[i - 1] = h[i - 1] => g[i] = h[i]

LEMMA AlikeAgree == \A n \in Nat : \A g, h : Alike(n, g, h) => \A i \in 0..n : g[i] = h[i]
  <1> SUFFICES ASSUME NEW n \in Nat, NEW g, NEW h, Alike(n, g, h)
               PROVE  \A i \in 0..n : g[i] = h[i]
    OBVIOUS
  <1>1. g[0] = h[0] /\ \A i \in 1..n : g[i - 1] = h[i - 1] => g[i] = h[i]
    BY DEF Alike
  <1>2. QED
    BY <1>1, AgreesFrom0

\* Three sequences are the same whichever two are joined first.
Regroups(a, b, c) == (a \o b) \o c = a \o (b \o c)

LEMMA AllRegroup == \A S : \A a, b, c \in Seq(S) : Regroups(a, b, c)
  <1> TAKE S
  <1> TAKE a, b, c \in Seq(S)
  <1>1. (a \o b) \o c = a \o (b \o c)
    BY ConcatAssociative
  <1>2. QED
    BY <1>1 DEF Regroups

LEMMA TypedFrom0 ==
  ASSUME NEW n \in Nat, NEW g, NEW V, g[0] \in V,
         \A i \in 1..n : g[i - 1] \in V => g[i] \in V
  PROVE  \A i \in 0..n : g[i] \in V
  <1> DEFINE S == {i \in Int : g[i] \in V}
  <1>1. 0 \in S
    OBVIOUS
  <1>2. ASSUME NEW i \in 0..n - 1, i \in S PROVE i + 1 \in S
    <2>1. i + 1 \in 1..n /\ (i + 1) - 1 = i
      OBVIOUS
    <2>2. QED
      BY <1>2, <2>1
  <1>3. \A i \in 0..n : i \in S
    <2> HIDE DEF S
    <2>1. QED
      BY <1>1, <1>2, IntervalClosed
  <1>4. QED
    BY <1>3

-----------------------------------------------------------------------------
(* What is read of a sequence from its beginning: step[v][x] is the state   *)
(* after x in the state v.                                                  *)
Reader(step, c, t) ==
  LET at[i \in 0..Len(t)] == IF i = 0 THEN c ELSE step[at[i - 1]][t[i]] IN at
AfterAll(step, c, t) == Reader(step, c, t)[Len(t)]
Reads(V, S, c, step) == c \in V /\ step \in [V -> [S -> V]]

\* The recursion of Reader defines what it says.
LEMMA ReaderDef ==
  ASSUME NEW V, NEW S, NEW c, NEW step, Reads(V, S, c, step), NEW t \in Seq(S)
  PROVE  /\ Reader(step, c, t)[0] = c
         /\ \A i \in 1..Len(t) : Reader(step, c, t)[i] = step[Reader(step, c, t)[i - 1]][t[i]]
         /\ \A i \in 0..Len(t) : Reader(step, c, t)[i] \in V
  <1>1. c \in V /\ step \in [V -> [S -> V]]
    BY DEF Reads
  <1> DEFINE E(i, v) == step[v][t[i]]
             D == [i \in 1..Len(t) |-> [v \in V |-> E(i, v)]]
             Good(g) == g = [i \in 0..Len(t) |-> IF i = 0 THEN c ELSE E(i, g[i - 1])]
  <1>2. \A i \in 1..Len(t) : \A v \in V : E(i, v) \in V
    BY <1>1
  <1>3. D \in Steps(0, Len(t), V)
    <2> HIDE DEF E
    <2>1. D \in [1..Len(t) -> [V -> V]]
      BY <1>2
    <2> HIDE DEF D
    <2>2. QED
      BY <2>1, StepsFrom0
  <1>4. PICK g : g \in Obeying(0, Len(t), V, c, D)
    <2> HIDE DEF D, Good
    <2>1. 0 \in Int /\ Len(t) \in Int
      OBVIOUS
    <2>2. QED
      BY <1>1, <1>3, <2>1, RecursionDefines, Zenon
  <1>5. Good(g)
    <2> HIDE DEF E
    <2>1. \A i \in 1..Len(t) : i - 1 \in 0..Len(t)
      OBVIOUS
    <2>2. g \in [0..Len(t) -> V]
      BY <1>4 DEF Obeying
    <2>3. g[0] = c /\ \A i \in 1..Len(t) : g[i] = D[i][g[i - 1]]
      BY <1>4 DEF Obeying
    <2>4. \A i \in 1..Len(t) : g[i] = E(i, g[i - 1])
      BY <2>1, <2>2, <2>3
    <2> HIDE DEF D
    <2>5. QED
      BY <2>2, <2>3, <2>4
  <1> DEFINE r == Reader(step, c, t)
  <1>6. Good(r)
    <2> HIDE DEF D
    <2>1. r = CHOOSE f : Good(f)
      BY DEF Reader
    <2> HIDE DEF Good, r
    <2>2. QED
      BY <1>5, <2>1
  <1> HIDE DEF E, D, r
  <1>7. r[0] = c /\ \A i \in 1..Len(t) : r[i] = E(i, r[i - 1])
    <2>1. 0 \in 0..Len(t) /\ \A i \in 1..Len(t) : i \in 0..Len(t) /\ i # 0
      OBVIOUS
    <2>2. \A i \in 0..Len(t) : r[i] = IF i = 0 THEN c ELSE E(i, r[i - 1])
      BY <1>6, Zenon
    <2>3. QED
      BY <2>1, <2>2
  <1>8. \A i \in 0..Len(t) : r[i] \in V
    <2> HIDE DEF Good
    <2>1. \A i \in 1..Len(t) : r[i - 1] \in V => r[i] \in V
      BY <1>2, <1>7
    <2>2. Len(t) \in Nat /\ r[0] \in V
      BY <1>1, <1>7
    <2>3. QED
      BY <2>1, <2>2, TypedFrom0, Zenon
  <1>9. QED
    BY <1>7, <1>8 DEF E, r

LEMMA AfterAllType ==
  ASSUME NEW V, NEW S, NEW c, NEW step, Reads(V, S, c, step), NEW t \in Seq(S)
  PROVE  AfterAll(step, c, t) \in V
  <1>1. Len(t) \in 0..Len(t)
    OBVIOUS
  <1>2. \A i \in 0..Len(t) : Reader(step, c, t)[i] \in V
    BY ReaderDef, Zenon
  <1>3. QED
    BY <1>1, <1>2 DEF AfterAll

LEMMA AfterNone ==
  ASSUME NEW V, NEW S, NEW c, NEW step, Reads(V, S, c, step), NEW t \in Seq(S), Len(t) = 0
  PROVE  AfterAll(step, c, t) = c
  <1>1. /\ Reader(step, c, t)[0] = c
        /\ \A i \in 1..Len(t) : Reader(step, c, t)[i] = step[Reader(step, c, t)[i - 1]][t[i]]
        /\ \A i \in 0..Len(t) : Reader(step, c, t)[i] \in V
    BY ReaderDef, Zenon
  <1>2. QED
    BY <1>1 DEF AfterAll

\* Two readers that start in related states and step to related states.
LEMMA ReadAlike ==
  ASSUME NEW V, NEW W, NEW S, NEW c, NEW step, Reads(V, S, c, step),
         NEW d, NEW pace, Reads(W, S, d, pace),
         NEW T, T \subseteq S, NEW t \in Seq(T), NEW R, <<c, d>> \in R,
         \A v \in V, w \in W, x \in T : <<v, w>> \in R => <<step[v][x], pace[w][x]>> \in R
  PROVE  \A i \in 0..Len(t) : <<Reader(step, c, t)[i], Reader(pace, d, t)[i]>> \in R
  <1> DEFINE g == [i \in 0..Len(t) |-> <<Reader(step, c, t)[i], Reader(pace, d, t)[i]>>]
  <1>1. t \in Seq(S) /\ \A i \in 1..Len(t) : t[i] \in T
    OBVIOUS
  <1>2. /\ Reader(step, c, t)[0] = c
        /\ \A i \in 1..Len(t) : Reader(step, c, t)[i] = step[Reader(step, c, t)[i - 1]][t[i]]
        /\ \A i \in 0..Len(t) : Reader(step, c, t)[i] \in V
    BY <1>1, ReaderDef, Zenon
  <1>3. /\ Reader(pace, d, t)[0] = d
        /\ \A i \in 1..Len(t) : Reader(pace, d, t)[i] = pace[Reader(pace, d, t)[i - 1]][t[i]]
        /\ \A i \in 0..Len(t) : Reader(pace, d, t)[i] \in W
    BY <1>1, ReaderDef, Zenon
  <1>4. ASSUME NEW i \in 1..Len(t), g[i - 1] \in R PROVE g[i] \in R
    <2>1. i \in 0..Len(t) /\ i - 1 \in 0..Len(t) /\ t[i] \in T
      BY <1>1
    <2>2. g[i - 1] = <<Reader(step, c, t)[i - 1], Reader(pace, d, t)[i - 1]>>
      BY <2>1
    <2>3. g[i] = <<Reader(step, c, t)[i], Reader(pace, d, t)[i]>>
      BY <2>1
    <2> HIDE DEF g
    <2>4. <<step[Reader(step, c, t)[i - 1]][t[i]], pace[Reader(pace, d, t)[i - 1]][t[i]]>> \in R
      BY <1>2, <1>3, <1>4, <2>1, <2>2
    <2>5. QED
      BY <1>2, <1>3, <2>3, <2>4
  <1>5. g[0] \in R
    <2>1. g[0] = <<Reader(step, c, t)[0], Reader(pace, d, t)[0]>>
      OBVIOUS
    <2> HIDE DEF g
    <2>2. QED
      BY <1>2, <1>3, <2>1
  <1>6. Len(t) \in Nat
    OBVIOUS
  <1>7. \A i \in 0..Len(t) : g[i] \in R
    <2> HIDE DEF g
    <2>1. QED
      BY <1>4, <1>5, <1>6, TypedFrom0, Zenon
  <1>8. QED
    BY <1>7

\* What was read before is not read again.
LEMMA ReadFurther ==
  ASSUME NEW V, NEW S, NEW c, NEW step, Reads(V, S, c, step),
         NEW t \in Seq(S), NEW u \in Seq(S)
  PROVE  /\ \A i \in 0..Len(t) : Reader(step, c, t \o u)[i] = Reader(step, c, t)[i]
         /\ \A i \in 0..Len(u) :
              Reader(step, c, t \o u)[Len(t) + i] = Reader(step, AfterAll(step, c, t), u)[i]
  <1> DEFINE w == t \o u
             n == Len(t)
             m == Len(u)
             d == AfterAll(step, c, t)
             A == Reader(step, c, w)
             B == Reader(step, c, t)
             C == Reader(step, d, u)
             g == [i \in 0..m |-> A[n + i]]
  <1>1. /\ w \in Seq(S) /\ Len(w) = n + m /\ n \in Nat /\ m \in Nat
        /\ \A i \in 1..n : w[i] = t[i]
        /\ \A i \in 1..m : w[n + i] = u[i]
    <2>1. \A i \in 1..n + m : w[i] = IF i <= n THEN t[i] ELSE u[i - n]
      BY ConcatProperties
    <2>2. \A i \in 1..m : n + i \in 1..n + m /\ ~(n + i <= n) /\ (n + i) - n = i
      OBVIOUS
    <2>3. \A i \in 1..n : i \in 1..n + m /\ i <= n
      OBVIOUS
    <2>4. w \in Seq(S) /\ Len(w) = n + m /\ n \in Nat /\ m \in Nat
      BY ConcatProperties
    <2> HIDE DEF w, n, m
    <2>5. QED
      BY <2>1, <2>2, <2>3, <2>4
  <1>2. Reads(V, S, d, step)
    <2>1. d \in V
      BY AfterAllType, Zenon
    <2>2. QED
      BY <2>1 DEF Reads
  <1>3. /\ A[0] = c /\ \A i \in 1..n + m : A[i] = step[A[i - 1]][w[i]]
        /\ B[0] = c /\ \A i \in 1..n : B[i] = step[B[i - 1]][t[i]]
        /\ C[0] = d /\ \A i \in 1..m : C[i] = step[C[i - 1]][u[i]]
    <2> HIDE DEF w, d, n, m, A, B, C
    <2>1. w \in Seq(S)
      BY <1>1
    <2>2. /\ A[0] = c /\ \A i \in 1..Len(w) : A[i] = step[A[i - 1]][w[i]]
          /\ \A i \in 0..Len(w) : A[i] \in V
      BY <2>1, ReaderDef, SMT DEF A
    <2>3. /\ B[0] = c /\ \A i \in 1..Len(t) : B[i] = step[B[i - 1]][t[i]]
          /\ \A i \in 0..Len(t) : B[i] \in V
      BY ReaderDef, SMT DEF B
    <2>4. /\ C[0] = d /\ \A i \in 1..Len(u) : C[i] = step[C[i - 1]][u[i]]
          /\ \A i \in 0..Len(u) : C[i] \in V
      BY <1>2, ReaderDef, SMT DEF C
    <2>5. QED
      BY <1>1, <2>2, <2>3, <2>4 DEF n, m
  <1>4. B[n] = d
    BY DEF AfterAll
  <1> HIDE DEF w, n, m, d, A, B, C
  <1>5. \A i \in 0..n : A[i] = B[i]
    <2>1. ASSUME NEW i \in 1..n, A[i - 1] = B[i - 1] PROVE A[i] = B[i]
      <3>1. i \in 1..n + m /\ w[i] = t[i]
        BY <1>1
      <3>2. A[i] = step[A[i - 1]][w[i]] /\ B[i] = step[B[i - 1]][t[i]]
        BY <1>3, <3>1
      <3>3. QED
        BY <2>1, <3>1, <3>2
    <2>2. A[0] = B[0] /\ n \in Nat
      BY <1>1, <1>3
    <2>3. Alike(n, A, B)
      BY <2>1, <2>2 DEF Alike
    <2>4. QED
      BY <2>2, <2>3, AlikeAgree, Zenon
  <1>6. \A i \in 0..m : g[i] = C[i]
    <2>1. ASSUME NEW i \in 1..m, g[i - 1] = C[i - 1] PROVE g[i] = C[i]
      <3>1. i \in 0..m /\ i - 1 \in 0..m /\ n + i \in 1..n + m /\ (n + i) - 1 = n + (i - 1)
        BY <1>1
      <3>2. g[i] = A[n + i] /\ g[i - 1] = A[n + (i - 1)]
        BY <3>1
      <3> HIDE DEF g
      <3>3. A[n + i] = step[A[(n + i) - 1]][w[n + i]]
        BY <1>3, <3>1
      <3>4. QED
        BY <1>1, <1>3, <2>1, <3>1, <3>2, <3>3, ZenonT(60)
    <2>2. g[0] = C[0]
      <3>1. 0 \in 0..m /\ n + 0 = n /\ n \in 0..n
        BY <1>1
      <3>2. g[0] = A[n]
        BY <3>1
      <3> HIDE DEF g
      <3>3. QED
        BY <1>3, <1>4, <1>5, <3>1, <3>2
    <2>3. m \in Nat
      BY <1>1
    <2> HIDE DEF g
    <2>4. Alike(m, g, C)
      BY <2>1, <2>2 DEF Alike
    <2>5. QED
      BY <2>3, <2>4, AlikeAgree, Zenon
  <1>7. \A i \in 0..m : A[n + i] = C[i]
    BY <1>6
  <1>8. QED
    BY <1>5, <1>7 DEF w, n, m, d, A, B, C

LEMMA AfterBoth ==
  ASSUME NEW V, NEW S, NEW c, NEW step, Reads(V, S, c, step),
         NEW t \in Seq(S), NEW u \in Seq(S)
  PROVE  AfterAll(step, c, t \o u) = AfterAll(step, AfterAll(step, c, t), u)
  <1>1. Len(t \o u) = Len(t) + Len(u) /\ Len(u) \in 0..Len(u)
    BY ConcatProperties
  <1>2. \A i \in 0..Len(u) :
          Reader(step, c, t \o u)[Len(t) + i] = Reader(step, AfterAll(step, c, t), u)[i]
    BY ReadFurther, SMT
  <1>3. Reader(step, c, t \o u)[Len(t) + Len(u)] = Reader(step, AfterAll(step, c, t), u)[Len(u)]
    BY <1>1, <1>2
  <1>4. QED
    BY <1>1, <1>3 DEF AfterAll

LEMMA AfterOne ==
  ASSUME NEW V, NEW S, NEW c, NEW step, Reads(V, S, c, step), NEW t \in Seq(S), Len(t) = 1
  PROVE  AfterAll(step, c, t) = step[c][t[1]]
  <1>1. 1 \in 1..Len(t) /\ 1 - 1 = 0
    OBVIOUS
  <1>2. /\ Reader(step, c, t)[0] = c
        /\ \A i \in 1..Len(t) : Reader(step, c, t)[i] = step[Reader(step, c, t)[i - 1]][t[i]]
        /\ \A i \in 0..Len(t) : Reader(step, c, t)[i] \in V
    BY ReaderDef, Zenon
  <1>3. Reader(step, c, t)[1] = step[Reader(step, c, t)[1 - 1]][t[1]]
    BY <1>1, <1>2
  <1>4. QED
    BY <1>1, <1>2, <1>3 DEF AfterAll

\* One more element at the end, and one less at the beginning.
LEMMA AfterNext ==
  ASSUME NEW V, NEW S, NEW c, NEW step, Reads(V, S, c, step), NEW t \in Seq(S), NEW x \in S
  PROVE  /\ AfterAll(step, c, t \o <<x>>) = step[AfterAll(step, c, t)][x]
         /\ AfterAll(step, c, t) \in V
  <1> DEFINE u == <<x>>
             d == AfterAll(step, c, t)
  <1>1. u \in Seq(S)
    OBVIOUS
  <1>2. Len(u) = 1 /\ u[1] = x
    OBVIOUS
  <1>3. d \in V
    BY AfterAllType, Zenon
  <1>4. Reads(V, S, d, step)
    BY <1>3 DEF Reads
  <1> HIDE DEF u
  <1>5. AfterAll(step, c, t \o u) = AfterAll(step, d, u)
    BY <1>1, AfterBoth, SMT
  <1> HIDE DEF d
  <1>6. AfterAll(step, d, u) = step[d][u[1]]
    BY <1>1, <1>2, <1>4, AfterOne, SMT
  <1>7. AfterAll(step, c, t \o u) = step[d][x]
    BY <1>1, <1>2, <1>5, <1>6
  <1>8. QED
    BY <1>3, <1>7 DEF u, d

LEMMA AfterFirst ==
  ASSUME NEW V, NEW S, NEW c, NEW step, Reads(V, S, c, step), NEW t \in Seq(S), t # <<>>
  PROVE  /\ AfterAll(step, c, t) = AfterAll(step, step[c][Head(t)], Tail(t))
         /\ Reads(V, S, step[c][Head(t)], step)
  <1> DEFINE x == Head(t)
             u == <<x>>
             w == Tail(t)
  <1>1. x \in S /\ w \in Seq(S) /\ t = u \o w
    <2>1. x \in S /\ w \in Seq(S)
      OBVIOUS
    <2>2. u \in Seq(S) /\ Len(u) = 1 /\ u[1] = x
      BY <2>1
    <2>3. Len(w) = Len(t) - 1 /\ \A i \in 1..Len(w) : w[i] = t[i + 1]
      OBVIOUS
    <2>4. t[1] = x /\ Len(t) \in Nat \ {0}
      OBVIOUS
    <2>5. /\ u \o w \in Seq(S) /\ Len(u \o w) = Len(u) + Len(w)
          /\ \A i \in 1..Len(u) + Len(w) :
               (u \o w)[i] = IF i <= Len(u) THEN u[i] ELSE w[i - Len(u)]
      BY <2>1, <2>2, ConcatProperties
    <2> HIDE DEF u, w, x
    <2>6. \A i \in 1..Len(t) : (u \o w)[i] = t[i]
      <3> TAKE i \in 1..Len(t)
      <3>1. CASE i = 1
        BY <2>2, <2>3, <2>4, <2>5, <3>1
      <3>2. CASE i # 1
        <4>1. i - 1 \in 1..Len(w) /\ (i - 1) + 1 = i
          BY <2>3, <2>4, <3>2
        <4>2. QED
          BY <2>2, <2>3, <2>4, <2>5, <3>2, <4>1
      <3>3. QED
        BY <3>1, <3>2
    <2>7. Len(u \o w) = Len(t)
      BY <2>2, <2>3, <2>4, <2>5
    <2>8. QED
      BY <2>1, <2>5, <2>6, <2>7, SeqEqual
  <1>2. u \in Seq(S) /\ Len(u) = 1 /\ u[1] = x
    BY <1>1
  <1> HIDE DEF u, w
  <1>3. AfterAll(step, c, u \o w) = AfterAll(step, AfterAll(step, c, u), w)
    BY <1>1, <1>2, AfterBoth, SMT
  <1>4. AfterAll(step, c, u) = step[c][u[1]]
    BY <1>2, AfterOne, SMT
  <1>5. step[c][x] \in V
    BY <1>1 DEF Reads
  <1>6. AfterAll(step, c, t) = AfterAll(step, step[c][x], w)
    BY <1>1, <1>2, <1>3, <1>4, Zenon
  <1>7. QED
    BY <1>5, <1>6 DEF Reads, w

LEMMA TwoOnTop ==
  ASSUME NEW S, NEW t \in Seq(S), NEW x \in S, NEW y \in S
  PROVE  /\ t \o <<x>> \in Seq(S) /\ (t \o <<x>>) \o <<y>> = t \o <<x, y>>
  <1> DEFINE a == <<x>>
             b == <<y>>
             c == <<x, y>>
             u == t \o a
             v == u \o b
             w == t \o c
             n == Len(t)
  <1>1. /\ a \in Seq(S) /\ Len(a) = 1 /\ a[1] = x /\ b \in Seq(S) /\ Len(b) = 1 /\ b[1] = y
        /\ c \in Seq(S) /\ Len(c) = 2 /\ c[1] = x /\ c[2] = y /\ n \in Nat
    OBVIOUS
  <1> HIDE DEF a, b, c
  <1>2. /\ u \in Seq(S) /\ Len(u) = n + 1
        /\ \A i \in 1..n + 1 : u[i] = IF i <= n THEN t[i] ELSE a[i - n]
    <2>1. /\ u \in Seq(S) /\ Len(u) = Len(t) + Len(a)
          /\ \A i \in 1..Len(t) + Len(a) : u[i] = IF i <= Len(t) THEN t[i] ELSE a[i - Len(t)]
      BY <1>1, ConcatProperties
    <2> HIDE DEF u
    <2>2. QED
      BY <1>1, <2>1
  <1>3. /\ w \in Seq(S) /\ Len(w) = n + 2
        /\ \A i \in 1..n + 2 : w[i] = IF i <= n THEN t[i] ELSE c[i - n]
    <2>1. /\ w \in Seq(S) /\ Len(w) = Len(t) + Len(c)
          /\ \A i \in 1..Len(t) + Len(c) : w[i] = IF i <= Len(t) THEN t[i] ELSE c[i - Len(t)]
      BY <1>1, ConcatProperties
    <2> HIDE DEF w
    <2>2. QED
      BY <1>1, <2>1
  <1> HIDE DEF u, w
  <1>4. /\ v \in Seq(S) /\ Len(v) = Len(u) + Len(b)
        /\ \A i \in 1..Len(u) + Len(b) : v[i] = IF i <= Len(u) THEN u[i] ELSE b[i - Len(u)]
    BY <1>1, <1>2, ConcatProperties
  <1> HIDE DEF v, n
  <1>5. \A i \in 1..n + 2 : v[i] = w[i]
    <2> TAKE i \in 1..n + 2
    <2>1. CASE i <= n
      <3>1. i \in 1..n + 1 /\ i <= Len(u) /\ i \in 1..Len(u) + Len(b)
        BY <1>1, <1>2, <2>1
      <3>2. v[i] = u[i] /\ u[i] = t[i]
        BY <1>2, <1>4, <2>1, <3>1
      <3>3. w[i] = t[i]
        BY <1>3, <2>1
      <3>4. QED
        BY <3>2, <3>3
    <2>2. CASE i = n + 1
      <3>1. i \in 1..n + 1 /\ ~(i <= n) /\ i - n = 1
        BY <1>1, <2>2
      <3>2. QED
        BY <1>1, <1>2, <1>3, <1>4, <2>2, <3>1
    <2>3. CASE i = n + 2
      <3>1. ~(i <= n + 1) /\ ~(i <= n) /\ i - n = 2 /\ i - (n + 1) = 1
            /\ i \in 1..Len(u) + Len(b) /\ Len(u) = n + 1
        BY <1>1, <1>2, <2>3
      <3>2. v[i] = b[1]
        BY <1>4, <3>1
      <3>3. w[i] = c[2]
        BY <1>3, <3>1
      <3>4. QED
        BY <1>1, <3>2, <3>3
    <2>4. QED
      BY <1>1, <2>1, <2>2, <2>3
  <1>6. Len(v) = Len(w) /\ Len(v) = n + 2
    BY <1>1, <1>2, <1>3, <1>4
  <1>7. v = w
    BY <1>3, <1>4, <1>5, <1>6, SeqEqual
  <1>8. QED
    BY <1>2, <1>7 DEF u, v, w, a, b, c

\* Two more elements at the end.
LEMMA AfterTwo ==
  ASSUME NEW V, NEW S, NEW c, NEW step, Reads(V, S, c, step), NEW t \in Seq(S),
         NEW x \in S, NEW y \in S
  PROVE  AfterAll(step, c, t \o <<x, y>>) = step[step[AfterAll(step, c, t)][x]][y]
  <1> DEFINE u == t \o <<x>>
  <1>1. u \in Seq(S) /\ u \o <<y>> = t \o <<x, y>>
    BY TwoOnTop
  <1>2. AfterAll(step, c, u) = step[AfterAll(step, c, t)][x]
    BY AfterNext
  <1> HIDE DEF u
  <1>3. AfterAll(step, c, u \o <<y>>) = step[AfterAll(step, c, u)][y]
    BY <1>1, AfterNext
  <1>4. QED
    BY <1>1, <1>2, <1>3

\* Two elements and then one are three.
LEMMA ThreeOnTop ==
  ASSUME NEW S, NEW t \in Seq(S), NEW x \in S, NEW y \in S, NEW z \in S
  PROVE  /\ t \o <<x, y>> \in Seq(S) /\ (t \o <<x, y>>) \o <<z>> = t \o <<x, y, z>>
  <1> DEFINE a == <<x, y>>
             b == <<z>>
             c == <<x, y, z>>
             u == t \o a
             v == u \o b
             w == t \o c
             n == Len(t)
  <1>1. /\ a \in Seq(S) /\ Len(a) = 2 /\ a[1] = x /\ a[2] = y
        /\ b \in Seq(S) /\ Len(b) = 1 /\ b[1] = z
        /\ c \in Seq(S) /\ Len(c) = 3 /\ c[1] = x /\ c[2] = y /\ c[3] = z /\ n \in Nat
    OBVIOUS
  <1> HIDE DEF a, b, c
  <1>2. /\ u \in Seq(S) /\ Len(u) = n + 2
        /\ \A i \in 1..n + 2 : u[i] = IF i <= n THEN t[i] ELSE a[i - n]
    <2>1. /\ u \in Seq(S) /\ Len(u) = Len(t) + Len(a)
          /\ \A i \in 1..Len(t) + Len(a) : u[i] = IF i <= Len(t) THEN t[i] ELSE a[i - Len(t)]
      BY <1>1, ConcatProperties
    <2> HIDE DEF u
    <2>2. QED
      BY <1>1, <2>1
  <1>3. /\ w \in Seq(S) /\ Len(w) = n + 3
        /\ \A i \in 1..n + 3 : w[i] = IF i <= n THEN t[i] ELSE c[i - n]
    <2>1. /\ w \in Seq(S) /\ Len(w) = Len(t) + Len(c)
          /\ \A i \in 1..Len(t) + Len(c) : w[i] = IF i <= Len(t) THEN t[i] ELSE c[i - Len(t)]
      BY <1>1, ConcatProperties
    <2> HIDE DEF w
    <2>2. QED
      BY <1>1, <2>1
  <1> HIDE DEF u, w
  <1>4. /\ v \in Seq(S) /\ Len(v) = Len(u) + Len(b)
        /\ \A i \in 1..Len(u) + Len(b) : v[i] = IF i <= Len(u) THEN u[i] ELSE b[i - Len(u)]
    <2>1. u \in Seq(S) /\ b \in Seq(S)
      BY <1>1, <1>2
    <2>2. QED
      BY <2>1, ConcatProperties
  <1> HIDE DEF v, n
  <1>5. \A i \in 1..n + 3 : v[i] = w[i]
    <2> TAKE i \in 1..n + 3
    <2>1. CASE i <= n
      <3>1. i \in 1..n + 2 /\ i <= Len(u) /\ i \in 1..Len(u) + Len(b)
        BY <1>1, <1>2, <2>1
      <3>2. v[i] = u[i] /\ u[i] = t[i]
        BY <1>2, <1>4, <2>1, <3>1
      <3>3. w[i] = t[i]
        BY <1>3, <2>1
      <3>4. QED
        BY <3>2, <3>3
    <2>2. CASE i = n + 1 \/ i = n + 2
      <3>1. i \in 1..n + 2 /\ ~(i <= n) /\ (i - n = 1 \/ i - n = 2)
        BY <1>1, <2>2
      <3>2. i <= Len(u) /\ i \in 1..Len(u) + Len(b)
        BY <1>1, <1>2, <2>2
      <3>3. v[i] = a[i - n] /\ w[i] = c[i - n]
        BY <1>2, <1>3, <1>4, <3>1, <3>2
      <3>4. QED
        BY <1>1, <3>1, <3>3
    <2>3. CASE i = n + 3
      <3>1. ~(i <= n + 2) /\ ~(i <= n) /\ i - n = 3 /\ i - (n + 2) = 1
            /\ i \in 1..Len(u) + Len(b) /\ Len(u) = n + 2
        BY <1>1, <1>2, <2>3
      <3>2. v[i] = b[1]
        BY <1>4, <3>1
      <3>3. w[i] = c[3]
        BY <1>3, <3>1
      <3>4. QED
        BY <1>1, <3>2, <3>3
    <2>4. QED
      BY <1>1, <2>1, <2>2, <2>3
  <1>6. Len(v) = Len(w) /\ Len(v) = n + 3
    BY <1>1, <1>2, <1>3, <1>4
  <1>7. v = w
    BY <1>3, <1>4, <1>5, <1>6, SeqEqual
  <1>8. QED
    BY <1>2, <1>7 DEF u, v, w, a, b, c
=============================================================================
