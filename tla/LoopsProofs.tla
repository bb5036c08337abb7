------------------------------ MODULE LoopsProofs ------------------------------
(***************************************************************************)
(* What the lists that loops build hold: induction over the length of a    *)
(* list, from the well-foundedness of the natural numbers.                 *)
(***************************************************************************)
EXTENDS Loops, FiniteSetsExt, NaturalsInduction, WellFoundedInduction, SequenceTheorems, TLAPS

\* A set of numbers that is not empty has a least one.
LEMMA LeastExists ==
  ASSUME NEW T, T \subseteq Nat, T # {}
  PROVE  Min(T) \in T /\ \A y \in T : Min(T) <= y
<1> DEFINE R == {ss \in Nat \X Nat : ss[1] < ss[2]}
<1>1. IsWellFoundedOn(R, Nat)
  BY NatLessThanWellFounded DEF OpToRel
<1> HIDE DEF R
<1>2. PICK x \in T : \A y \in T : ~(<<y, x>> \in R)
  BY <1>1, WFMin, Zenon
<1>3. \A y \in T : x <= y
  <2> SUFFICES ASSUME NEW y \in T PROVE ~(y < x)
    OBVIOUS
  <2>1. <<y, x>> \in Nat \X Nat /\ <<y, x>>[1] = y /\ <<y, x>>[2] = x
    OBVIOUS
  <2>2. QED
    BY <1>2, <2>1 DEF R
<1>4. QED
  BY <1>3, Zenon DEF Min

\* A bounded set of numbers that is not empty has a greatest one.
LEMMA GreatestExists ==
  ASSUME NEW n \in Nat, NEW T, T \subseteq 0 .. n, T # {}
  PROVE  Max(T) \in T /\ \A y \in T : y <= Max(T)
<1> DEFINE U == {n - x : x \in T}
           m == n - Min(U)
<1>1. U \subseteq Nat /\ U # {}
  <2>1. \A x \in T : n - x \in Nat
    OBVIOUS
  <2>2. QED
    BY <2>1, Zenon
<1>2. Min(U) \in U /\ \A y \in U : Min(U) <= y
  BY <1>1, LeastExists, Zenon
<1>3. PICK x \in T : Min(U) = n - x
  BY <1>2, Zenon
<1>4. \A y \in T : n - x <= n - y
  BY <1>2, <1>3
<1>5. \A y \in T : x >= y
  BY <1>4
<1>6. QED
  BY <1>5, Zenon DEF Max

\* A set that has 0, and with every number below N the next one, has all the
\* numbers up to N.
LEMMA Counting ==
  ASSUME NEW N \in Nat, NEW T, 0 \in T, \A n \in 0 .. N - 1 : n \in T => n + 1 \in T
  PROVE  \A n \in 0 .. N : n \in T
<1> DEFINE U == {n \in 0 .. N : n \notin T}
           m == Min(U)
<1> SUFFICES ASSUME U # {} PROVE FALSE
  OBVIOUS
<1>1. m \in U /\ \A y \in U : m <= y
  BY LeastExists
<1> HIDE DEF m
<1>2. m # 0 /\ m \in 0 .. N
  BY <1>1
<1>3. m - 1 \in 0 .. N - 1 /\ m - 1 \notin U /\ m - 1 + 1 = m
  BY <1>1, <1>2
<1>4. QED
  BY <1>1, <1>3

\* f is defined by recursion on the numbers up to N.
Recurs(f, N, base, step) == f[0] = base /\ \A n \in 0 .. N - 1 : f[n + 1] = step[n + 1][f[n]]

\* A function that is defined by recursion on numbers exists.
LEMMA RecursionDefined ==
  ASSUME NEW N \in Nat, NEW V, NEW base \in V, NEW step \in [1 .. N -> [V -> V]]
  PROVE  \E f \in [0 .. N -> V] : Recurs(f, N, base, step)
<1> USE DEF Recurs
<1> DEFINE Fits(f, n) == Recurs(f, n, base, step)
           T == {n \in 0 .. N : \E f \in [0 .. n -> V] : Fits(f, n)}
<1>1. 0 \in T
  <2> DEFINE f == [k \in 0 .. 0 |-> base]
  <2>1. f \in [0 .. 0 -> V]
    OBVIOUS
  <2>2. f[0] = base
    OBVIOUS
  <2> HIDE DEF f
  <2>3. Fits(f, 0)
    BY <2>2
  <2>4. 0 \in 0 .. N
    OBVIOUS
  <2> HIDE DEF Fits, Recurs
  <2>5. QED
    BY <2>1, <2>3, <2>4
<1>2. ASSUME NEW n \in 0 .. N - 1, n \in T PROVE n + 1 \in T
  <2>1. PICK f \in [0 .. n -> V] : Fits(f, n)
    BY <1>2
  <2> DEFINE v == step[n + 1][f[n]]
             g == [k \in 0 .. n + 1 |-> IF k <= n THEN f[k] ELSE v]
  <2>2. n + 1 \in 1 .. N /\ n \in 0 .. n /\ n + 1 \in 0 .. N /\ n + 1 - 1 = n
    OBVIOUS
  <2>3. v \in V
    <3>1. step[n + 1] \in [V -> V] /\ f[n] \in V
      BY <2>2
    <3>2. QED
      BY <3>1
  <2>4. /\ g \in [0 .. n + 1 -> V]
        /\ \A k \in 0 .. n : g[k] = f[k]
        /\ g[n + 1] = v
    <3> HIDE DEF v
    <3>1. QED
      BY <2>2, <2>3
  <2> HIDE DEF g
  <2>5. ASSUME NEW k \in 0 .. n PROVE g[k + 1] = step[k + 1][g[k]]
    <3>1. CASE k = n
      BY <2>2, <2>4, <3>1
    <3>2. CASE k \in 0 .. n - 1
      <4>1. g[k + 1] = f[k + 1] /\ g[k] = f[k]
        BY <2>4, <3>2
      <4>2. QED
        BY <2>1, <4>1, <3>2
    <3>3. QED
      BY <3>1, <3>2
  <2>6. g[0] = base
    BY <2>1, <2>4
  <2>7. Fits(g, n + 1)
    <3>1. 0 .. n + 1 - 1 = 0 .. n
      BY <2>2
    <3>2. QED
      BY <2>5, <2>6, <3>1
  <2> HIDE DEF Fits, Recurs
  <2>8. QED
    BY <2>2, <2>4, <2>7
<1> HIDE DEF T
<1>3. \A n \in 0 .. N : n \in T
  BY <1>1, <1>2, Counting, Zenon
<1>4. N \in T
  BY <1>3
<1>5. QED
  BY <1>4 DEF T

-----------------------------------------------------------------------------
(* Lists put end to end.  Joins(f, seqs): f[n] is the first n of them       *)
(* joined.                                                                  *)

Joins(f, seqs) == f[0] = <<>> /\ \A n \in 0 .. Len(seqs) - 1 : f[n + 1] = f[n] \o seqs[n + 1]

\* What \o does to two sequences.
LEMMA ConcatFacts ==
  ASSUME NEW S, NEW s \in Seq(S), NEW t \in Seq(S)
  PROVE  /\ s \o t \in Seq(S)
         /\ Len(s \o t) = Len(s) + Len(t) /\ Len(s) \in Nat /\ Len(t) \in Nat
         /\ Len(s) <= Len(s \o t)
         /\ \A k \in 1 .. Len(s) : (s \o t)[k] = s[k]
         /\ \A k \in 1 .. Len(t) : (s \o t)[Len(s) + k] = t[k]
  OBVIOUS

\* The joined prefixes of a list of lists exist.
LEMMA JoinsExist ==
  ASSUME NEW S, NEW seqs \in Seq(Seq(S))
  PROVE  \E f \in [0 .. Len(seqs) -> Seq(S)] : Joins(f, seqs)
<1> DEFINE N == Len(seqs)
           V == Seq(S)
           base == <<>>
           step == [n \in 1 .. N |-> [v \in V |-> v \o seqs[n]]]
<1>1. N \in Nat /\ base \in V
  OBVIOUS
<1>2. ASSUME NEW n \in 1 .. N, NEW v \in V PROVE v \o seqs[n] \in V
  <2>1. seqs[n] \in Seq(S)
    OBVIOUS
  <2>2. QED
    BY <2>1
<1> HIDE DEF V, N, base
<1>3. step \in [1 .. N -> [V -> V]]
  BY <1>2
<1>4. \A n \in 1 .. N : \A v \in V : step[n][v] = v \o seqs[n]
  OBVIOUS
<1> HIDE DEF step
<1>5. PICK f \in [0 .. N -> V] : Recurs(f, N, base, step)
  BY <1>1, <1>3, RecursionDefined
<1>6. ASSUME NEW n \in 0 .. N - 1 PROVE f[n + 1] = f[n] \o seqs[n + 1]
  <2>1. n \in 0 .. N /\ n + 1 \in 1 .. N
    BY <1>1
  <2>2. QED
    BY <1>4, <1>5, <2>1, Zenon DEF Recurs
<1>7. QED
  BY <1>5, <1>6, Zenon DEF Recurs, Joins, N, V, base

\* Flatten joins all of them.
LEMMA FlattenJoins ==
  ASSUME NEW S, NEW seqs \in Seq(Seq(S)), NEW f \in [0 .. Len(seqs) -> Seq(S)], Joins(f, seqs)
  PROVE  Flatten(seqs) = f[Len(seqs)]
<1> DEFINE N == Len(seqs)
           Is(g) == g = [i \in 0 .. N |-> IF i = 0 THEN <<>> ELSE g[i - 1] \o seqs[i]]
           g == CHOOSE x : Is(x)
           T == {n \in 0 .. N : g[n] = f[n]}
<1>1. N \in Nat
  OBVIOUS
<1>2. Flatten(seqs) = g[N]
  BY Zenon DEF Flatten
<1> HIDE DEF N
<1>3. Is(f)
  <2>1. ASSUME NEW n \in 0 .. N PROVE f[n] = IF n = 0 THEN <<>> ELSE f[n - 1] \o seqs[n]
    <3>1. CASE n = 0
      BY <3>1 DEF Joins
    <3>2. CASE n # 0
      <4>1. n - 1 \in 0 .. N - 1 /\ n - 1 + 1 = n
        BY <1>1, <3>2
      <4>2. QED
        BY <3>2, <4>1, Zenon DEF Joins, N
    <3>3. QED
      BY <3>1, <3>2
  <2>2. f = [n \in 0 .. N |-> f[n]]
    BY DEF N
  <2>3. QED
    BY <2>1, <2>2
<1>4. Is(g)
  <2> HIDE DEF Is
  <2>1. QED
    BY <1>3
<1>5. Joins(g, seqs)
  <2> HIDE DEF g
  <2>1. \A i \in 0 .. N : g[i] = IF i = 0 THEN <<>> ELSE g[i - 1] \o seqs[i]
    BY <1>4, Zenon
  <2>2. g[0] = <<>>
    BY <1>1, <2>1
  <2>3. ASSUME NEW n \in 0 .. N - 1 PROVE g[n + 1] = g[n] \o seqs[n + 1]
    <3> DEFINE k == n + 1
    <3>1. k \in 0 .. N /\ k # 0 /\ k - 1 = n
      BY <1>1
    <3> HIDE DEF k
    <3>2. g[k] = g[k - 1] \o seqs[k]
      BY <2>1, <3>1, Zenon
    <3>3. QED
      BY <3>1, <3>2, Zenon DEF k
  <2>4. QED
    BY <2>2, <2>3 DEF Joins, N
<1> HIDE DEF g
<1>6. 0 \in T
  BY <1>1, <1>5 DEF Joins
<1>7. ASSUME NEW n \in 0 .. N - 1, n \in T PROVE n + 1 \in T
  <2>1. n + 1 \in 0 .. N
    BY <1>1
  <2>2. g[n + 1] = g[n] \o seqs[n + 1] /\ f[n + 1] = f[n] \o seqs[n + 1]
    BY <1>5, Zenon DEF Joins, N
  <2>3. QED
    BY <1>7, <2>1, <2>2, Zenon
<1> HIDE DEF T
<1>8. \A n \in 0 .. N : n \in T
  BY <1>1, <1>6, <1>7, Counting, Zenon
<1>9. QED
  BY <1>1, <1>2, <1>8 DEF T, N

\* The list t begins with the list s.
Starts(s, t) == Len(s) <= Len(t) /\ \A k \in 1 .. Len(s) : t[k] = s[k]

\* What was joined stays where it is when more follows.
LEMMA JoinsGrow ==
  ASSUME NEW S, NEW seqs \in Seq(Seq(S)), NEW f \in [0 .. Len(seqs) -> Seq(S)], Joins(f, seqs),
         NEW m \in 0 .. Len(seqs), NEW n \in 0 .. m
  PROVE  Starts(f[n], f[m])
<1> USE DEF Starts
<1> DEFINE N == Len(seqs)
           T == {i \in 0 .. N : n <= i => Starts(f[n], f[i])}
<1>1. N \in Nat /\ n \in 0 .. N /\ f[n] \in Seq(S)
  <2>1. N \in Nat
    OBVIOUS
  <2>2. \A c \in Nat : m \in 0 .. c => n \in 0 .. c
    OBVIOUS
  <2>3. n \in 0 .. N
    BY <2>1, <2>2, Zenon
  <2>4. QED
    BY <2>1, <2>3, Zenon
<1> HIDE DEF N
<1>2. 0 \in T
  BY <1>1
<1>3. ASSUME NEW i \in 0 .. N - 1, i \in T PROVE i + 1 \in T
  <2>1. i \in 0 .. N /\ i + 1 \in 0 .. N /\ i + 1 \in 1 .. N /\ i + 1 - 1 = i
    BY <1>1
  <2>2. CASE n = i + 1
    BY <1>1, <2>1, <2>2
  <2>3. CASE n > i + 1
    BY <1>1, <2>1, <2>3
  <2>4. CASE n <= i
    <3>1. f[i + 1] = f[i] \o seqs[i + 1]
      BY Zenon DEF Joins, N
    <3>2. f[i] \in Seq(S) /\ seqs[i + 1] \in Seq(S)
      BY <2>1, ElementOfSeq DEF N
    <3>3. Starts(f[n], f[i])
      BY <1>3, <2>4
    <3>4. Starts(f[i], f[i + 1])
      <4>1. Starts(f[i], f[i] \o seqs[i + 1])
        BY <3>2, ConcatFacts, ZenonT(30)
      <4>2. QED
        BY <3>1, <4>1, Zenon
    <3>5. f[i + 1] \in Seq(S)
      BY <2>1, Zenon DEF N
    <3>6. Starts(f[n], f[i + 1])
      BY <1>1, <3>2, <3>3, <3>4, <3>5
    <3>7. QED
      BY <2>1, <3>6
  <2>5. QED
    BY <1>1, <2>1, <2>2, <2>3, <2>4
<1> HIDE DEF T
<1>4. \A i \in 0 .. N : i \in T
  BY <1>1, <1>2, <1>3, Counting, Zenon
<1>5. m \in T
  BY <1>4 DEF N
<1>6. QED
  BY <1>5 DEF T

\* Lists of elements of S joined are a list of elements of S.
LEMMA FlattenTyped ==
  ASSUME NEW S, NEW seqs \in Seq(Seq(S))
  PROVE  Flatten(seqs) \in Seq(S)
<1>1. PICK f \in [0 .. Len(seqs) -> Seq(S)] : Joins(f, seqs)
  BY JoinsExist
<1>2. Flatten(seqs) = f[Len(seqs)]
  BY <1>1, FlattenJoins
<1>3. Len(seqs) \in 0 .. Len(seqs)
  OBVIOUS
<1>4. QED
  BY <1>2, <1>3

\* The first n lists joined, and where the elements of the next one go.
LEMMA FlattenPrefix ==
  ASSUME NEW S, NEW seqs \in Seq(Seq(S)), NEW f \in [0 .. Len(seqs) -> Seq(S)], Joins(f, seqs),
         NEW n \in 0 .. Len(seqs)
  PROVE  Flatten([i \in 1 .. n |-> seqs[i]]) = f[n]
<1> DEFINE t == [i \in 1 .. n |-> seqs[i]]
           g == [i \in 0 .. n |-> f[i]]
<1>1. Len(seqs) \in Nat
  OBVIOUS
<1>2. ASSUME NEW i \in 1 .. n PROVE seqs[i] \in Seq(S)
  <2>1. i \in 1 .. Len(seqs)
    BY <1>1
  <2>2. QED
    BY <2>1, ElementOfSeq
<1>3. t \in Seq(Seq(S)) /\ Len(t) = n
  BY <1>1, <1>2
<1>4. g \in [0 .. n -> Seq(S)]
  BY <1>1
<1>5. ASSUME NEW i \in 0 .. n - 1 PROVE g[i + 1] = g[i] \o t[i + 1]
  <2>1. i \in 0 .. n /\ i + 1 \in 0 .. n /\ i + 1 \in 1 .. n /\ i \in 0 .. Len(seqs) - 1
    BY <1>1
  <2>2. g[i] = f[i] /\ g[i + 1] = f[i + 1] /\ t[i + 1] = seqs[i + 1]
    BY <2>1
  <2>3. f[i + 1] = f[i] \o seqs[i + 1]
    BY <2>1, Zenon DEF Joins
  <2>4. QED
    BY <2>2, <2>3, Zenon
<1>6. g[0] = <<>> /\ g[n] = f[n]
  BY <1>1 DEF Joins
<1> HIDE DEF t, g
<1>7. Joins(g, t)
  BY <1>3, <1>5, <1>6, Zenon DEF Joins
<1>8. Flatten(t) = g[Len(t)]
  BY <1>3, <1>4, <1>7, FlattenJoins, Zenon
<1>9. QED
  BY <1>3, <1>6, <1>8 DEF t

\* Every element of every list is in the whole.
LEMMA FlattenMembers ==
  ASSUME NEW S, NEW seqs \in Seq(Seq(S)), NEW n \in 1 .. Len(seqs), NEW k \in 1 .. Len(seqs[n])
  PROVE  \E j \in 1 .. Len(Flatten(seqs)) : Flatten(seqs)[j] = seqs[n][k]
<1>1. PICK f \in [0 .. Len(seqs) -> Seq(S)] : Joins(f, seqs)
  BY JoinsExist
<1> DEFINE N == Len(seqs)
           before == f[n - 1]
           upto == f[n]
           all == f[N]
           j == Len(before) + k
<1>2. N \in Nat /\ N \in 0 .. N /\ n - 1 \in 0 .. N - 1 /\ n - 1 \in 0 .. N /\ n - 1 + 1 = n /\ n \in 0 .. N
  OBVIOUS
<1>3. Flatten(seqs) = all
  BY <1>1, FlattenJoins
<1>4. upto = before \o seqs[n]
  <2>1. f[n - 1 + 1] = f[n - 1] \o seqs[n - 1 + 1]
    BY <1>1, <1>2, Zenon DEF Joins
  <2>2. QED
    BY <1>2, <2>1, Zenon
<1>5. before \in Seq(S) /\ upto \in Seq(S) /\ all \in Seq(S)
  <2> HIDE DEF N
  <2>1. f \in [0 .. N -> Seq(S)]
    BY DEF N
  <2>2. QED
    BY <1>2, <2>1
<1>6. seqs[n] \in Seq(S)
  BY ElementOfSeq
<1>7. Starts(upto, all)
  BY <1>1, <1>2, JoinsGrow, Zenon
<1> HIDE DEF before, upto, all, N
<1>8. /\ Len(upto) = Len(before) + Len(seqs[n])
      /\ Len(before) \in Nat /\ Len(seqs[n]) \in Nat /\ Len(all) \in Nat
      /\ upto[j] = seqs[n][k]
  <2> DEFINE next == seqs[n]
  <2>1. next \in Seq(S) /\ upto = before \o next /\ k \in 1 .. Len(next)
    BY <1>4, <1>6
  <2> HIDE DEF next
  <2>2. Len(before \o next) = Len(before) + Len(next) /\ Len(before) \in Nat /\ Len(next) \in Nat
    BY <1>5, <2>1, ConcatFacts
  <2>3. (before \o next)[j] = next[k]
    BY <1>5, <2>1, ConcatFacts
  <2>4. Len(all) \in Nat
    BY <1>5
  <2>5. QED
    BY <2>1, <2>2, <2>3, <2>4 DEF next
<1>9. j \in 1 .. Len(upto) /\ j \in 1 .. Len(all)
  BY <1>7, <1>8 DEF Starts
<1> HIDE DEF j
<1>10. QED
  BY <1>3, <1>7, <1>8, <1>9 DEF Starts

-----------------------------------------------------------------------------
(* Filter *)

\* What is kept is wanted.
LEMMA FilterTyped ==
  ASSUME NEW S, NEW list \in Seq(S), NEW wanted
  PROVE  Filter(list, wanted) \in Seq(S \cap wanted)
<1> DEFINE E(i) == IF list[i] \in wanted THEN <<list[i]>> ELSE <<>>
           U == S \cap wanted
           seqs == [i \in DOMAIN list |-> E(i)]
<1>1. DOMAIN list = 1 .. Len(list) /\ Len(list) \in Nat
  OBVIOUS
<1>2. ASSUME NEW i \in 1 .. Len(list) PROVE E(i) \in Seq(U)
  <2>1. list[i] \in S
    OBVIOUS
  <2>2. CASE list[i] \in wanted
    BY <2>1, <2>2
  <2>3. CASE list[i] \notin wanted
    BY <2>3
  <2>4. QED
    BY <2>2, <2>3
<1> HIDE DEF E, U
<1>3. seqs \in Seq(Seq(U))
  BY <1>1, <1>2
<1>4. QED
  BY <1>3, FlattenTyped DEF Filter, E, U

\* What is wanted is kept.
LEMMA FilterMembers ==
  ASSUME NEW S, NEW list \in Seq(S), NEW wanted, NEW n \in 1 .. Len(list), list[n] \in wanted
  PROVE  \E j \in 1 .. Len(Filter(list, wanted)) : Filter(list, wanted)[j] = list[n]
<1> DEFINE E(i) == IF list[i] \in wanted THEN <<list[i]>> ELSE <<>>
           seqs == [i \in DOMAIN list |-> E(i)]
<1>1. DOMAIN list = 1 .. Len(list) /\ Len(list) \in Nat
  OBVIOUS
<1>2. ASSUME NEW i \in 1 .. Len(list) PROVE E(i) \in Seq(S)
  <2>1. list[i] \in S
    OBVIOUS
  <2>2. QED
    BY <2>1
<1>3. E(n) = <<list[n]>> /\ Len(E(n)) = 1 /\ E(n)[1] = list[n]
  OBVIOUS
<1> HIDE DEF E
<1>4. seqs \in Seq(Seq(S)) /\ Len(seqs) = Len(list) /\ seqs[n] = E(n)
  BY <1>1, <1>2
<1> HIDE DEF seqs
<1>5. n \in 1 .. Len(seqs) /\ 1 \in 1 .. Len(seqs[n]) /\ seqs[n][1] = list[n]
  BY <1>3, <1>4
<1>6. \E j \in 1 .. Len(Flatten(seqs)) : Flatten(seqs)[j] = list[n]
  BY <1>4, <1>5, FlattenMembers
<1>7. Filter(list, wanted) = Flatten(seqs)
  BY DEF Filter, E, seqs
<1>8. QED
  BY <1>6, <1>7

-----------------------------------------------------------------------------
(* Short lists, and lists of anything. *)

\* A sequence is one of its own elements.
LEMMA SeqOwnRange ==
  ASSUME NEW S, NEW s \in Seq(S)
  PROVE  s \in Seq(Range(s))
<1>1. Len(s) \in Nat /\ s \in [1 .. Len(s) -> S]
  BY LenProperties
<1> DEFINE T == Range(s)
<1>2. s \in [1 .. Len(s) -> T]
  BY <1>1 DEF Range
<1>3. \A n \in Nat : [1 .. n -> T] \subseteq Seq(T)
  BY SeqDef
<1> HIDE DEF T
<1>4. s \in Seq(T)
  BY <1>1, <1>2, <1>3
<1>5. QED
  BY <1>4 DEF T

\* A function on the places of a sequence is a sequence as long.
LEMMA SeqOfDomain ==
  ASSUME NEW S, NEW s \in Seq(S), NEW t, t = [k \in DOMAIN t |-> t[k]], DOMAIN t = DOMAIN s
  PROVE  t \in Seq(Range(t)) /\ Len(t) = Len(s)
<1>1. Len(s) \in Nat /\ DOMAIN t = 1 .. Len(s)
  BY LenProperties
<1>2. t \in [1 .. Len(s) -> Range(t)]
  BY <1>1 DEF Range
<1>3. t \in Seq(Range(t))
  BY <1>1, <1>2, SeqDef
<1>4. QED
  BY <1>1, <1>3, LenProperties

\* What Append does to a sequence of anything.
LEMMA AppendAny ==
  ASSUME NEW S, NEW s \in Seq(S), NEW e
  PROVE  /\ Append(s, e) \in Seq(S \cup {e})
         /\ Append(s, e) \in Seq(Range(Append(s, e)))
         /\ Len(Append(s, e)) = Len(s) + 1
         /\ Len(s) \in Nat
         /\ DOMAIN Append(s, e) = 1 .. Len(s) + 1
         /\ \A k \in 1 .. Len(s) : Append(s, e)[k] = s[k]
         /\ Append(s, e)[Len(s) + 1] = e
<1>1. s \in Seq(S \cup {e}) /\ e \in S \cup {e}
  BY SeqMonotonic
<1>2. /\ Append(s, e) \in Seq(S \cup {e})
      /\ Len(Append(s, e)) = Len(s) + 1
      /\ \A k \in 1 .. Len(s) : Append(s, e)[k] = s[k]
      /\ Append(s, e)[Len(s) + 1] = e
  BY <1>1, AppendProperties
<1>3. QED
  BY <1>2, SeqOwnRange, LenProperties, Zenon

\* The first of several lists, joined, that has an element has the first one.
LEMMA FlattenFirst ==
  ASSUME NEW S, NEW seqs \in Seq(Seq(S)), Len(seqs) \in {2, 3}, seqs[2] # <<>>
  PROVE  Flatten(seqs)[1] = IF seqs[1] = <<>> THEN seqs[2][1] ELSE seqs[1][1]
<1> DEFINE N == Len(seqs)
<1>1. PICK f \in [0 .. N -> Seq(S)] : Joins(f, seqs)
  BY JoinsExist
<1>2. Flatten(seqs) = f[N]
  BY <1>1, FlattenJoins
<1>3. 2 \in 0 .. N /\ N \in 0 .. N /\ seqs[1] \in Seq(S) /\ seqs[2] \in Seq(S)
  OBVIOUS
<1>4. f[0] = <<>> /\ f[1] = f[0] \o seqs[1] /\ f[2] = f[1] \o seqs[2]
  <2>1. f[0] = <<>> /\ \A n \in 0 .. N - 1 : f[n + 1] = f[n] \o seqs[n + 1]
    BY <1>1, Zenon DEF Joins
  <2>2. N \in {2, 3} /\ 0 + 1 = 1 /\ 1 + 1 = 2
    OBVIOUS
  <2> HIDE DEF N
  <2>3. 0 \in 0 .. N - 1 /\ 1 \in 0 .. N - 1
    BY <2>2
  <2>4. QED
    BY <2>1, <2>2, <2>3, Zenon
<1>5. f[1] = seqs[1]
  BY <1>3, <1>4
<1>6. Starts(f[2], f[N])
  BY <1>1, <1>3, JoinsGrow, Zenon
<1>7. f[2] \in Seq(S) /\ f[2] # <<>> /\ f[2][1] = IF seqs[1] = <<>> THEN seqs[2][1] ELSE seqs[1][1]
  <2> DEFINE a == seqs[1]
             b == seqs[2]
  <2>1. a \in Seq(S) /\ b \in Seq(S) /\ b # <<>> /\ f[2] = a \o b
    BY <1>3, <1>4, <1>5
  <2> HIDE DEF a, b
  <2>2. a \o b \in Seq(S) /\ a \o b # <<>> /\ (a \o b)[1] = IF a = <<>> THEN b[1] ELSE a[1]
    <3>1. CASE a = <<>>
      BY <2>1, <3>1
    <3>2. CASE a # <<>>
      BY <2>1, <3>2
    <3>3. QED
      BY <3>1, <3>2
  <2>3. QED
    BY <2>1, <2>2 DEF a, b
<1>8. f[N][1] = f[2][1]
  BY <1>6, <1>7 DEF Starts
<1>9. QED
  BY <1>2, <1>7, <1>8

\* Joining no list, one list or two.
LEMMA FlattenFew ==
  ASSUME NEW S, NEW s \in Seq(S), NEW t \in Seq(S)
  PROVE  /\ Flatten(<<>>) = <<>>
         /\ Flatten(<<s>>) = s
         /\ Flatten(<<s, t>>) = s \o t
<1>1. Flatten(<<>>) = <<>>
  <2> DEFINE seqs == <<>>
  <2>1. seqs \in Seq(Seq(S)) /\ Len(seqs) = 0
    OBVIOUS
  <2> HIDE DEF seqs
  <2>2. PICK f \in [0 .. Len(seqs) -> Seq(S)] : Joins(f, seqs)
    BY <2>1, JoinsExist
  <2>3. Flatten(seqs) = f[0] /\ f[0] = <<>>
    BY <2>1, <2>2, FlattenJoins DEF Joins
  <2>4. QED
    BY <2>3 DEF seqs
<1>2. Flatten(<<s>>) = s
  <2> DEFINE seqs == <<s>>
             f == [n \in 0 .. 1 |-> IF n = 0 THEN <<>> ELSE s]
  <2>1. seqs \in Seq(Seq(S)) /\ Len(seqs) = 1 /\ seqs[1] = s
    OBVIOUS
  <2>2. f \in [0 .. Len(seqs) -> Seq(S)] /\ f[0] = <<>> /\ f[1] = s
    OBVIOUS
  <2>3. f[0] \o seqs[1] = s
    BY <2>1, <2>2
  <2> HIDE DEF seqs, f
  <2>4. Joins(f, seqs)
    <3> SUFFICES ASSUME NEW n \in 0 .. Len(seqs) - 1 PROVE f[n + 1] = f[n] \o seqs[n + 1]
      BY <2>2, Zenon DEF Joins
    <3>1. n = 0 /\ n + 1 = 1
      BY <2>1
    <3>2. QED
      BY <2>2, <2>3, <3>1
  <2>5. Flatten(seqs) = f[Len(seqs)]
    BY <2>1, <2>2, <2>4, FlattenJoins, Zenon
  <2>6. QED
    BY <2>1, <2>2, <2>5 DEF seqs
<1>3. Flatten(<<s, t>>) = s \o t
  <2> DEFINE seqs == <<s, t>>
             f == [n \in 0 .. 2 |-> IF n = 0 THEN <<>> ELSE IF n = 1 THEN s ELSE s \o t]
  <2>1. seqs \in Seq(Seq(S)) /\ Len(seqs) = 2 /\ seqs[1] = s /\ seqs[2] = t
    OBVIOUS
  <2>2. f \in [0 .. Len(seqs) -> Seq(S)] /\ f[0] = <<>> /\ f[1] = s /\ f[2] = s \o t
    OBVIOUS
  <2>3. f[0] \o seqs[1] = s /\ f[1] \o seqs[2] = s \o t
    BY <2>1, <2>2
  <2> HIDE DEF seqs, f
  <2>4. Joins(f, seqs)
    <3> SUFFICES ASSUME NEW n \in 0 .. Len(seqs) - 1 PROVE f[n + 1] = f[n] \o seqs[n + 1]
      BY <2>2, Zenon DEF Joins
    <3>1. (n = 0 /\ n + 1 = 1) \/ (n = 1 /\ n + 1 = 2)
      <4>1. n \in 0 .. 1
        BY <2>1
      <4>2. QED
        BY <4>1
    <3>2. QED
      BY <2>2, <2>3, <3>1, Zenon
  <2>5. Flatten(seqs) = f[Len(seqs)]
    BY <2>1, <2>2, <2>4, FlattenJoins, Zenon
  <2>6. QED
    BY <2>1, <2>2, <2>5, Zenon DEF seqs
<1>4. QED
  BY <1>1, <1>2, <1>3, Zenon

Kept(e, wanted) == IF e \in wanted THEN <<e>> ELSE <<>>

\* Filtering a list of one.
LEMMA FilterOne ==
  ASSUME NEW a, NEW wanted
  PROVE  Filter(<<a>>, wanted) = Kept(a, wanted)
<1> DEFINE list == <<a>>
           F == [i \in DOMAIN list |-> IF list[i] \in wanted THEN <<list[i]>> ELSE <<>>]
<1>1. DOMAIN list = 1 .. 1 /\ list[1] = a
  OBVIOUS
<1>2. F[1] = Kept(a, wanted) /\ DOMAIN F = 1 .. 1
  BY <1>1 DEF Kept
<1>3. F = <<Kept(a, wanted)>>
  BY <1>2
<1>4. Kept(a, wanted) \in Seq({a})
  <2>1. <<>> \in Seq({a}) /\ <<a>> \in Seq({a})
    OBVIOUS
  <2>2. QED
    BY <2>1, Zenon DEF Kept
<1>5. Flatten(<<Kept(a, wanted)>>) = Kept(a, wanted)
  BY <1>4, FlattenFew, Zenon
<1>6. QED
  BY <1>3, <1>5, Zenon DEF Filter

\* Filtering a list of two.
LEMMA FilterTwo ==
  ASSUME NEW a, NEW b, NEW wanted
  PROVE  Filter(<<a, b>>, wanted) = Kept(a, wanted) \o Kept(b, wanted)
<1> DEFINE list == <<a, b>>
           F == [i \in DOMAIN list |-> IF list[i] \in wanted THEN <<list[i]>> ELSE <<>>]
<1>1. DOMAIN list = 1 .. 2 /\ list[1] = a /\ list[2] = b
  OBVIOUS
<1>2. F[1] = Kept(a, wanted) /\ F[2] = Kept(b, wanted) /\ DOMAIN F = 1 .. 2
  BY <1>1 DEF Kept
<1>3. F = <<Kept(a, wanted), Kept(b, wanted)>>
  BY <1>2
<1>4. Kept(a, wanted) \in Seq({a, b}) /\ Kept(b, wanted) \in Seq({a, b})
  <2>1. <<>> \in Seq({a, b}) /\ <<a>> \in Seq({a, b}) /\ <<b>> \in Seq({a, b})
    OBVIOUS
  <2>2. QED
    BY <2>1, Zenon DEF Kept
<1>5. Flatten(<<Kept(a, wanted), Kept(b, wanted)>>) = Kept(a, wanted) \o Kept(b, wanted)
  BY <1>4, FlattenFew, Zenon
<1>6. QED
  BY <1>3, <1>5, Zenon DEF Filter


=============================================================================
