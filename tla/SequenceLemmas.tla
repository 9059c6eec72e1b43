--------------------------- MODULE SequenceLemmas ---------------------------
(***************************************************************************)
(* What the proofs of the other modules know of numbers and of sequences:  *)
(* induction, a loop that goes through a sequence, and the concatenation   *)
(* of a sequence of sequences (FlattenSeq of the community modules).       *)
(* Induction is stated of a set instead of a predicate, and a loop is a    *)
(* function: both can be given to a lemma.                                 *)
(***************************************************************************)
EXTENDS Integers, Sequences, SequencesExt, SequenceTheorems, FiniteSetTheorems, TLAPS

\* A set of numbers up to m that is not empty has a greatest one.
LEMMA Greatest ==
    ASSUME NEW m \in Nat, NEW H \in SUBSET (1..m), H # {}
    PROVE  \E x \in H : \A y \in H : y <= x
<1> DEFINE Above(i) == {j \in H : j >= i}
           T == {Above(i) : i \in H}
           R == StrictSubsetOrdering(1..m)
<1>1. IsFiniteSet(1..m)
  BY FS_Interval
<1>2. IsWellFoundedOn(R, FiniteSubsetsOf(1..m))
  BY FS_StrictSubsetOrderingWellFounded
<1>3. T \subseteq FiniteSubsetsOf(1..m) /\ T # {}
  <2>1. \A i \in H : Above(i) \subseteq 1..m
    OBVIOUS
  <2>2. \A i \in H : IsFiniteSet(Above(i))
    BY <1>1, <2>1, FS_Subset
  <2>3. QED
    BY <2>1, <2>2 DEF FiniteSubsetsOf
<1>4. PICK x \in T : \A y \in T : <<y, x>> \notin R
  <2> HIDE DEF T, R
  <2> QED
    BY <1>2, <1>3, WFMin, Zenon
<1>5. PICK i \in H : x = Above(i)
  OBVIOUS
<1>6. ASSUME NEW y \in H, ~(y <= i) PROVE FALSE
  <2>1. i \in 1..m /\ y \in 1..m
    OBVIOUS
  <2>2. Above(y) \subseteq Above(i) /\ Above(i) \subseteq 1..m
    <3>1. ASSUME NEW j \in Above(y) PROVE j \in Above(i)
      <4>1. j \in 1..m /\ j \in H /\ j >= y
        OBVIOUS
      <4>2. j >= i
        BY <1>6, <2>1, <4>1
      <4>3. QED
        BY <4>1, <4>2
    <3>2. QED
      BY <3>1
  <2>3. i \in Above(i) /\ i \notin Above(y)
    BY <1>6, <2>1
  <2>4. Above(y) # Above(i)
    <3> HIDE DEF Above
    <3> QED
      BY <2>3, Zenon
  <2>5. <<Above(y), x>> \in R
    <3> HIDE DEF Above
    <3> QED
      BY <1>5, <2>2, <2>4 DEF StrictSubsetOrdering
  <2>6. Above(y) \in T
    OBVIOUS
  <2>7. QED
    <3> HIDE DEF Above, T, R
    <3> QED
      BY <1>4, <2>5, <2>6, Zenon
<1>7. QED
  BY <1>6

\* Induction over the natural numbers.
LEMMA SetInduction ==
    ASSUME NEW H, 0 \in H, \A i \in Nat : i \in H => i + 1 \in H
    PROVE  Nat \subseteq H
<1> SUFFICES ASSUME NEW n \in Nat, n \notin H PROVE FALSE
  OBVIOUS
<1> DEFINE Reached == {i \in 1..(n + 1) : i - 1 \in H}
<1>1. 1 \in Reached
  OBVIOUS
<1>2. PICK x \in Reached : \A y \in Reached : y <= x
  <2>1. n + 1 \in Nat /\ Reached \in SUBSET (1..(n + 1)) /\ Reached # {}
    BY <1>1
  <2> HIDE DEF Reached
  <2>2. QED
    BY <2>1, Greatest
<1>3. x \in 1..(n + 1) /\ x - 1 \in H
  OBVIOUS
<1>4. x \in H
  <2>1. x - 1 \in Nat /\ (x - 1) + 1 = x
    BY <1>3
  <2>2. QED
    BY <1>3, <2>1
<1>5. CASE x <= n
  <2>1. x + 1 \in Reached
    BY <1>3, <1>4, <1>5
  <2>2. QED
    BY <1>2, <1>3, <2>1
<1>6. CASE x = n + 1
  BY <1>3, <1>6
<1>7. QED
  BY <1>3, <1>5, <1>6

\* ... up to n.
LEMMA IntervalInduction ==
    ASSUME NEW n \in Nat, NEW H, 0 \in H, \A i \in 0..(n - 1) : i \in H => i + 1 \in H
    PROVE  0..n \subseteq H
<1> DEFINE G == H \cup {i \in Nat : i > n}
<1>1. 0 \in G /\ \A i \in Nat : i \in G => i + 1 \in G
  <2>1. ASSUME NEW i \in Nat, i \in G PROVE i + 1 \in G
    <3>1. CASE i <= n - 1
      BY <2>1, <3>1
    <3>2. CASE ~(i <= n - 1)
      BY <3>2
    <3>3. QED
      BY <3>1, <3>2
  <2>2. QED
    BY <2>1
<1>2. Nat \subseteq G
  <2> HIDE DEF G
  <2> QED
    BY <1>1, SetInduction
<1>3. QED
  BY <1>2

-----------------------------------------------------------------------------
\* A loop from 1 to n, of which step[i][x] is what the i-th turn makes of x,
\* goes through values f[0] to f[n].
Loops(S, n, first, step) ==
    {f \in [0..n -> S] : f[0] = first /\ \A i \in 1..n : f[i] = step[i][f[i - 1]]}

LEMMA LoopRuns ==
    ASSUME NEW S, NEW n \in Nat, NEW first \in S, NEW step \in [1..n -> [S -> S]]
    PROVE  Loops(S, n, first, step) # {}
<1> DEFINE Runs(m) == Loops(S, m, first, step)
           H == {m \in 0..n : Runs(m) # {}}
<1> USE DEF Loops
<1>1. 0 \in H
  <2>1. [i \in 0..0 |-> first] \in Runs(0)
    OBVIOUS
  <2>2. QED
    BY <2>1
<1>2. ASSUME NEW m \in 0..(n - 1), m \in H PROVE m + 1 \in H
  <2>1. PICK f \in Runs(m) : TRUE
    BY <1>2
  <2>2. m \in Nat /\ m + 1 \in 1..n /\ f[m] \in S
    OBVIOUS
  <2> DEFINE g == [i \in 0..(m + 1) |-> IF i = m + 1 THEN step[m + 1][f[m]] ELSE f[i]]
  <2>3. g \in [0..(m + 1) -> S] /\ g[0] = first
    BY <2>2
  <2>4. ASSUME NEW i \in 1..(m + 1) PROVE g[i] = step[i][g[i - 1]]
    <3>1. CASE i = m + 1
      <4>1. i - 1 = m /\ m \in 0..(m + 1) /\ m + 1 \in 0..(m + 1) /\ m # m + 1
        BY <2>2, <3>1
      <4>2. g[m] = f[m] /\ g[m + 1] = step[m + 1][f[m]]
        BY <4>1
      <4> HIDE DEF g
      <4>3. QED
        BY <3>1, <4>1, <4>2
    <3>2. CASE i # m + 1
      <4>1. i \in 1..m /\ i - 1 \in 0..m /\ i \in 0..m
        BY <2>2, <3>2
      <4>2. QED
        BY <2>2, <3>2, <4>1
    <3>3. QED
      BY <3>1, <3>2
  <2>5. g \in Runs(m + 1)
    <3> HIDE DEF g
    <3> QED
      BY <2>3, <2>4
  <2>6. m + 1 \in 0..n
    BY <2>2
  <2>7. QED
    <3> HIDE DEF Runs, g
    <3> QED
      BY <2>5, <2>6
<1>3. 0..n \subseteq H
  <2> HIDE DEF H
  <2> QED
    BY <1>1, <1>2, IntervalInduction
<1>4. QED
  <2> HIDE DEF Loops
  <2> QED
    BY <1>3

-----------------------------------------------------------------------------
\* FlattenSeq is the loop that appends one sequence after the other.
LEMMA FlattenRuns ==
    ASSUME NEW S, NEW n \in Nat, NEW seqs \in [1..n -> Seq(S)]
    PROVE  \E f \in [0..n -> Seq(S)] :
              /\ f[0] = << >>
              /\ \A i \in 1..n : f[i] = f[i - 1] \o seqs[i]
              /\ FlattenSeq(seqs) = f[n]
<1> DEFINE step == [i \in 1..n |-> [x \in Seq(S) |-> x \o seqs[i]]]
<1>1. step \in [1..n -> [Seq(S) -> Seq(S)]]
  OBVIOUS
<1>2. \A i \in 1..n, x \in Seq(S) : step[i][x] = x \o seqs[i]
  OBVIOUS
<1>3. PICK f \in [0..n -> Seq(S)] :
          f[0] = << >> /\ \A i \in 1..n : f[i] = step[i][f[i - 1]]
  <2> DEFINE T == Seq(S)
             empty == << >>
  <2>1. empty \in T
    OBVIOUS
  <2>2. step \in [1..n -> [T -> T]]
    BY <1>1
  <2> HIDE DEF step, T, empty
  <2>3. Loops(T, n, empty, step) # {}
    BY <2>1, <2>2, LoopRuns
  <2> QED
    BY <2>3 DEF T, empty, Loops
<1> HIDE DEF step
<1>4. ASSUME NEW i \in 1..n PROVE f[i] = f[i - 1] \o seqs[i]
  <2>1. f[i] = step[i][f[i - 1]]
    BY <1>3
  <2>2. i - 1 \in 0..n
    OBVIOUS
  <2>3. f[i - 1] \in Seq(S)
    BY <2>2
  <2> QED
    BY <1>2, <2>1, <2>3
<1>5. seqs \in Seq(Seq(S)) /\ Len(seqs) = n
  OBVIOUS
<1>6. n # 0 => f[1] = seqs[1]
  <2> SUFFICES ASSUME n # 0 PROVE f[1] = seqs[1]
    OBVIOUS
  <2>1. 1 \in 1..n /\ 1 - 1 = 0
    OBVIOUS
  <2>2. f[1] = << >> \o seqs[1]
    BY <1>3, <1>4, <2>1
  <2>3. seqs[1] \in Seq(S)
    BY <2>1
  <2>4. QED
    BY <2>2, <2>3
<1>7. FlattenSeq(seqs) = f[n]
  <2>1. CASE n = 0
    <3>1. seqs = << >>
      BY <1>5, <2>1
    <3>2. QED
      BY <1>3, <1>5, <2>1, <3>1 DEF FlattenSeq
  <2>2. CASE n # 0
    <3> DEFINE Unfolds(g) ==
                 g = [i \in 1..n |-> IF i = 1 THEN seqs[i] ELSE g[i - 1] \o seqs[i]]
               h == [i \in 1..n |-> f[i]]
               flatten == CHOOSE g : Unfolds(g)
    <3>1. Unfolds(h)
      <4>1. ASSUME NEW i \in 1..n
            PROVE  f[i] = IF i = 1 THEN seqs[i] ELSE h[i - 1] \o seqs[i]
        <5>1. CASE i = 1
          BY <1>6, <2>2, <5>1
        <5>2. CASE i # 1
          <6>1. i - 1 \in 1..n
            BY <5>2
          <6>2. QED
            BY <1>4, <5>2, <6>1
        <5>3. QED
          BY <5>1, <5>2
      <4>2. QED
        BY <4>1
    <3>2. Unfolds(flatten)
      <4> HIDE DEF Unfolds, h
      <4> QED
        BY <3>1
    <3>3. FlattenSeq(seqs) = flatten[n]
      BY <1>5, <2>2 DEF FlattenSeq
    <3> HIDE DEF flatten
    <3> DEFINE H == {0} \cup {i \in 1..n : flatten[i] = f[i]}
    <3>4. ASSUME NEW i \in 0..(n - 1), i \in H PROVE i + 1 \in H
      <4>1. /\ i + 1 \in 1..n
            /\ flatten[i + 1] = IF i + 1 = 1 THEN seqs[i + 1]
                                            ELSE flatten[(i + 1) - 1] \o seqs[i + 1]
        <5>1. i + 1 \in 1..n
          OBVIOUS
        <5>2. \A j \in 1..n : flatten[j] = IF j = 1 THEN seqs[j]
                                                     ELSE flatten[j - 1] \o seqs[j]
          BY <3>2, Zenon
        <5>3. QED
          BY <5>1, <5>2
      <4>2. CASE i = 0
        BY <1>6, <2>2, <4>1, <4>2
      <4>3. CASE i # 0
        <5>1. flatten[i] = f[i] /\ (i + 1) - 1 = i /\ i + 1 # 1
          BY <3>4, <4>3
        <5>2. QED
          BY <1>4, <4>1, <5>1
      <4>4. QED
        BY <4>2, <4>3
    <3>5. 0..n \subseteq H
      <4>1. 0 \in H
        OBVIOUS
      <4> HIDE DEF H
      <4> QED
        BY <3>4, <4>1, IntervalInduction
    <3>6. QED
      BY <2>2, <3>3, <3>5
  <2>3. QED
    BY <2>1, <2>2
<1>8. QED
  BY <1>3, <1>4, <1>7

\* A single part is the whole.
LEMMA FlattenOne ==
    ASSUME NEW S, NEW s \in Seq(S)
    PROVE  FlattenSeq(<<s>>) = s
<1>1. <<s>> \in [1..1 -> Seq(S)]
  OBVIOUS
<1>2. PICK f \in [0..1 -> Seq(S)] :
          /\ f[0] = << >>
          /\ \A i \in 1..1 : f[i] = f[i - 1] \o <<s>>[i]
          /\ FlattenSeq(<<s>>) = f[1]
  <2> DEFINE seqs == <<s>>
  <2> HIDE DEF seqs
  <2>1. seqs \in [1..1 -> Seq(S)]
    BY <1>1 DEF seqs
  <2>2. 1 \in Nat
    OBVIOUS
  <2>3. \E f \in [0..1 -> Seq(S)] :
            /\ f[0] = << >>
            /\ \A i \in 1..1 : f[i] = f[i - 1] \o seqs[i]
            /\ FlattenSeq(seqs) = f[1]
    BY <2>1, <2>2, FlattenRuns, ZenonT(30)
  <2>4. QED
    BY <2>3 DEF seqs
<1>3. 1 \in 1..1 /\ 1 - 1 = 0 /\ <<s>>[1] = s
  OBVIOUS
<1>4. f[1] = << >> \o s
  BY <1>2, <1>3
<1>5. QED
  BY <1>2, <1>4

\* at[j] is the place in s of the j-th of what is picked of it: the elements
\* at the places in K, each once and in their order.
Picks(F, s, K) ==
    {at \in [1..Len(F) -> K] :
        /\ \A j \in 1..Len(F) : F[j] = s[at[j]]
        /\ \A i, j \in 1..Len(F) : i < j => at[i] < at[j]
        /\ \A k \in K : \E j \in 1..Len(F) : at[j] = k}

\* filter(): what is picked of a sequence by their places.
LEMMA FlattenPicks ==
    ASSUME NEW S, NEW n \in Nat, NEW s \in [1..n -> S], NEW K \in SUBSET (1..n),
           NEW seqs \in [1..n -> Seq(S)],
           \A i \in 1..n : seqs[i] = IF i \in K THEN <<s[i]>> ELSE << >>
    PROVE  FlattenSeq(seqs) \in Seq(S) /\ Picks(FlattenSeq(seqs), s, K) # {}
<1>1. \A k \in K : k \in Nat /\ 1 <= k /\ k <= n
  OBVIOUS
<1>2. PICK f \in [0..n -> Seq(S)] :
          /\ f[0] = << >>
          /\ \A i \in 1..n : f[i] = f[i - 1] \o seqs[i]
          /\ FlattenSeq(seqs) = f[n]
  BY FlattenRuns
<1> DEFINE Upto(m) == {k \in K : k <= m}
           H == {m \in 0..n : Picks(f[m], s, Upto(m)) # {}}
<1>3. 0 \in H
  <2>1. Upto(0) = {}
    <3>1. \A k \in K : ~(k <= 0)
      BY <1>1
    <3>2. QED
      BY <3>1
  <2>2. Len(f[0]) = 0 /\ f[0] = << >> /\ 0 \in 0..n
    BY <1>2
  <2> DEFINE none == [j \in 1..0 |-> 0]
  <2>3. 1..0 = {} /\ none \in [1..0 -> {}]
    OBVIOUS
  <2> HIDE DEF Upto, none
  <2>4. none \in Picks(f[0], s, Upto(0))
    BY <2>1, <2>2, <2>3 DEF Picks
  <2>5. QED
    BY <2>2, <2>4
<1>4. ASSUME NEW m \in 0..(n - 1), m \in H PROVE m + 1 \in H
  <2>1. /\ m \in Nat /\ m + 1 \in 1..n /\ m + 1 \in 0..n /\ m \in 0..n
        /\ (m + 1) - 1 = m
    OBVIOUS
  <2>2. f[m] \in Seq(S) /\ f[m + 1] = f[m] \o seqs[m + 1]
    BY <1>2, <2>1
  <2>3. PICK at \in Picks(f[m], s, Upto(m)) : TRUE
    BY <1>4
  <2> DEFINE l == Len(f[m])
  <2>4. /\ l \in Nat /\ at \in [1..l -> Upto(m)]
        /\ \A j \in 1..l : f[m][j] = s[at[j]]
        /\ \A i, j \in 1..l : i < j => at[i] < at[j]
        /\ \A k \in Upto(m) : \E j \in 1..l : at[j] = k
    BY <2>2, <2>3 DEF Picks
  <2>5. CASE m + 1 \notin K
    <3>1. Upto(m + 1) = Upto(m)
      <4>1. ASSUME NEW k \in K PROVE k <= m + 1 <=> k <= m
        <5>1. k \in Nat /\ k # m + 1
          BY <1>1, <2>5
        <5>2. QED
          BY <2>1, <5>1
      <4>2. QED
        BY <4>1
    <3>2. f[m + 1] = f[m]
      <4>1. seqs[m + 1] = << >>
        BY <2>1, <2>5
      <4>2. QED
        BY <2>2, <4>1
    <3> HIDE DEF Upto
    <3>3. QED
      BY <2>1, <2>3, <3>1, <3>2
  <2>6. CASE m + 1 \in K
    <3> DEFINE new == [j \in 1..(l + 1) |-> IF j = l + 1 THEN m + 1 ELSE at[j]]
    <3>1. /\ m + 1 \in Upto(m + 1)
          /\ \A k \in Upto(m + 1) : k \in Upto(m) \/ k = m + 1
          /\ \A k \in Upto(m) : k \in Upto(m + 1) /\ k < m + 1
          /\ \A k \in Upto(m + 1) : k \in Nat
      BY <2>1, <2>6
    <3>2. /\ f[m + 1] = f[m] \o <<s[m + 1]>>
          /\ s[m + 1] \in S
      BY <2>1, <2>2, <2>6
    <3>3. /\ Len(f[m + 1]) = l + 1
          /\ \A j \in 1..l : f[m + 1][j] = f[m][j]
          /\ f[m + 1][l + 1] = s[m + 1]
      BY <2>2, <2>4, <3>2
    <3> HIDE DEF Upto, l
    <3>4. /\ new \in [1..(l + 1) -> Upto(m + 1)]
          /\ new[l + 1] = m + 1
          /\ \A j \in 1..l : new[j] = at[j]
      BY <2>4, <3>1
    <3> HIDE DEF new
    <3>5. \A j \in 1..(l + 1) : f[m + 1][j] = s[new[j]]
      <4>1. \A j \in 1..(l + 1) : j \in 1..l \/ j = l + 1
        BY <2>4
      <4>2. QED
        BY <2>4, <3>3, <3>4, <4>1
    <3>6. \A i, j \in 1..(l + 1) : i < j => new[i] < new[j]
      <4> SUFFICES ASSUME NEW i \in 1..(l + 1), NEW j \in 1..(l + 1), i < j
                   PROVE  new[i] < new[j]
        OBVIOUS
      <4>1. i \in 1..l
        BY <2>4
      <4>2. CASE j = l + 1
        BY <2>4, <3>1, <3>4, <4>1, <4>2
      <4>3. CASE j # l + 1
        <5>1. j \in 1..l
          BY <2>4, <4>3
        <5>2. QED
          BY <2>4, <3>4, <4>1, <5>1
      <4>4. QED
        BY <4>2, <4>3
    <3>7. \A k \in Upto(m + 1) : \E j \in 1..(l + 1) : new[j] = k
      <4> SUFFICES ASSUME NEW k \in Upto(m + 1) PROVE \E j \in 1..(l + 1) : new[j] = k
        OBVIOUS
      <4>1. CASE k = m + 1
        BY <2>4, <3>4, <4>1
      <4>2. CASE k \in Upto(m)
        <5>1. PICK j \in 1..l : at[j] = k
          BY <2>4, <4>2
        <5>2. j \in 1..(l + 1)
          BY <2>4
        <5>3. QED
          BY <3>4, <5>1, <5>2
      <4>3. QED
        BY <3>1, <4>1, <4>2
    <3>8. new \in Picks(f[m + 1], s, Upto(m + 1))
      BY <3>3, <3>4, <3>5, <3>6, <3>7 DEF Picks
    <3>9. QED
      BY <2>1, <3>8
  <2>7. QED
    BY <2>5, <2>6
<1>5. 0..n \subseteq H
  <2> HIDE DEF H
  <2> QED
    BY <1>3, <1>4, IntervalInduction
<1>6. Upto(n) = K
  BY <1>1
<1>7. Picks(f[n], s, Upto(n)) # {}
  <2> HIDE DEF Upto
  <2> QED
    BY <1>5
<1>8. f[n] \in Seq(S)
  OBVIOUS
<1>9. QED
  <2> HIDE DEF Upto
  <2> QED
    BY <1>2, <1>6, <1>7, <1>8

LEMMA Associative == \A S : \A x, y, z \in Seq(S) : (x \o y) \o z = x \o (y \o z)
  BY ConcatAssociative

\* A stretch of a loop, from a to b, in which every turn appends one element
\* of s: it appends that part of s.
Appending(f, s, a, b) == \A i \in (a + 1)..b : f[i] = f[i - 1] \o <<s[i]>>

Appended(f, s, a, b) == f[b] = f[a] \o SubSeq(s, a + 1, b)

LEMMA StretchAppends ==
    ASSUME NEW S, NEW n \in Nat, NEW f \in [0..n -> Seq(S)], NEW s \in [1..n -> S],
           NEW a \in 0..n, NEW b \in 0..n, a <= b, Appending(f, s, a, b)
    PROVE  Appended(f, s, a, b)
<1> USE DEF Appending, Appended
<1> DEFINE d == b - a
           Part(k) == SubSeq(s, a + 1, a + k)
           H == {k \in 0..d : f[a + k] = f[a] \o Part(k)}
<1>1. d \in Nat /\ a \in Nat /\ b \in Nat /\ a + d = b
  OBVIOUS
<1>2. f[a] \in Seq(S)
  OBVIOUS
<1>3. s \in Seq(S) /\ Len(s) = n
  OBVIOUS
<1>4. \A k \in 0..d : a + k \in 0..n
  OBVIOUS
<1>5. 0 \in H
  <2>1. Part(0) = << >>
    BY <1>1, SubSeqEmpty
  <2>2. f[a] \o << >> = f[a]
    BY <1>2, ConcatEmptySeq
  <2>3. a + 0 = a /\ 0 \in 0..d
    BY <1>1
  <2> HIDE DEF Part
  <2>4. QED
    BY <2>1, <2>2, <2>3
<1>6. ASSUME NEW k \in 0..(d - 1), k \in H PROVE k + 1 \in H
  <2>1. /\ k \in Nat /\ k + 1 \in 0..d /\ k \in 0..d
        /\ a + (k + 1) \in (a + 1)..b /\ (a + (k + 1)) - 1 = a + k
        /\ a + (k + 1) \in 1..n /\ a + k \in 0..n
    BY <1>1
  <2> DEFINE e == s[a + (k + 1)]
             last == <<e>>
             first == f[a]
  <2>2. e \in S
    BY <2>1
  <2>3. Part(k) \in Seq(S)
    <3>1. \A i \in (a + 1)..(a + k) : s[i] \in S
      BY <1>1, <2>1
    <3>2. QED
      BY <1>1, <2>1, <3>1, SubSeqProperties
  <2>4. a + 1 \in Int /\ a + (k + 1) \in Int /\ a + 1 <= a + (k + 1)
    BY <1>1, <2>1
  <2>5. Part(k + 1) = Part(k) \o last
    <3>1. a + 1 \in 1..Len(s) /\ a + (k + 1) \in (a + 1)..Len(s)
      BY <1>1, <1>3, <2>1
    <3> DEFINE m == a + 1
               l == a + (k + 1)
    <3>2. SubSeq(s, m, l) = SubSeq(s, m, l - 1) \o <<s[l]>>
      <4> HIDE DEF m, l
      <4> QED
        BY <1>3, <3>1, SubSeqRecursiveSecond DEF m, l
    <3>3. QED
      BY <2>1, <3>2
  <2>6. f[a + (k + 1)] = (first \o Part(k)) \o last
    <3>1. f[a + (k + 1)] = f[a + k] \o last
      BY <2>1
    <3>2. f[a + k] = first \o Part(k)
      BY <1>6
    <3>3. QED
      BY <3>1, <3>2
  <2>7. last \in Seq(S) /\ first \in Seq(S) /\ Part(k) \in Seq(S)
    BY <1>2, <2>2, <2>3
  <2>8. (first \o Part(k)) \o last = first \o (Part(k) \o last)
    <3> DEFINE part == Part(k)
    <3>1. part \in Seq(S)
      BY <2>7
    <3> HIDE DEF part, last, first
    <3>2. (first \o part) \o last = first \o (part \o last)
      BY <2>7, <3>1, Associative
    <3>3. QED
      BY <3>2 DEF part
  <2>9. f[a + (k + 1)] = first \o Part(k + 1)
    <3> HIDE DEF Part, last, first
    <3> QED
      BY <2>5, <2>6, <2>8
  <2>10. QED
    <3> HIDE DEF Part, d
    <3> QED
      BY <2>1, <2>9
<1>7. 0..d \subseteq H
  <2> HIDE DEF H, d
  <2> QED
    BY <1>1, <1>5, <1>6, IntervalInduction
<1>8. d \in 0..d
  BY <1>1
<1>9. QED
  BY <1>1, <1>7, <1>8

\* A stretch in which no turn appends anything.
LEMMA StretchStays ==
    ASSUME NEW S, NEW n \in Nat, NEW f \in [0..n -> Seq(S)],
           NEW a \in 0..n, NEW b \in 0..n, a <= b,
           \A i \in (a + 1)..b : f[i] = f[i - 1] \o << >>
    PROVE  f[b] = f[a]
<1> DEFINE d == b - a
           H == {k \in 0..d : f[a + k] = f[a]}
<1>1. d \in Nat /\ a \in Nat /\ b \in Nat /\ a + d = b
  OBVIOUS
<1>2. 0 \in H
  BY <1>1
<1>3. ASSUME NEW k \in 0..(d - 1), k \in H PROVE k + 1 \in H
  <2>1. /\ k + 1 \in 0..d
        /\ a + (k + 1) \in (a + 1)..b /\ (a + (k + 1)) - 1 = a + k /\ a + k \in 0..n
    BY <1>1
  <2>2. f[a + k] \in Seq(S)
    BY <2>1
  <2>3. f[a + k] \o << >> = f[a + k]
    BY <2>2, ConcatEmptySeq
  <2>4. QED
    BY <1>3, <2>1, <2>3
<1>4. 0..d \subseteq H
  <2> HIDE DEF H, d
  <2> QED
    BY <1>1, <1>2, <1>3, IntervalInduction
<1>5. d \in 0..d
  BY <1>1
<1>6. f[a + d] = f[a]
  <2> HIDE DEF d
  <2> QED
    BY <1>4, <1>5
<1>7. QED
  BY <1>1, <1>6

\* Cutting a concatenation somewhere in its first part.
LEMMA CutConcat ==
    ASSUME NEW S, NEW s \in Seq(S), NEW t \in Seq(S), NEW n \in 0..Len(s)
    PROVE  /\ SubSeq(s \o t, 1, n) = SubSeq(s, 1, n)
           /\ SubSeq(s \o t, n + 1, Len(s \o t)) = SubSeq(s, n + 1, Len(s)) \o t
<1> DEFINE whole == s \o t
           l == Len(s)
<1>1. l \in Nat /\ Len(t) \in Nat /\ n \in Nat /\ n <= l
  BY LenProperties
<1>2. /\ whole \in Seq(S) /\ Len(whole) = l + Len(t)
      /\ \A i \in 1..(l + Len(t)) : whole[i] = IF i <= l THEN s[i] ELSE t[i - l]
  BY ConcatProperties
<1>3. /\ \A i \in 1..l : s[i] \in S
      /\ \A i \in 1..Len(whole) : whole[i] \in S
  BY <1>2, ElementOfSeq
<1> HIDE DEF whole, l
<1>4. SubSeq(whole, 1, n) = SubSeq(s, 1, n)
  <2>1. /\ \A i \in 1..n : s[i] \in S /\ whole[i] \in S /\ whole[i] = s[i]
    BY <1>1, <1>2, <1>3
  <2>2. /\ SubSeq(s, 1, n) \in Seq(S) /\ Len(SubSeq(s, 1, n)) = n
        /\ \A i \in 1..n : SubSeq(s, 1, n)[i] = s[i]
    BY <1>1, <2>1, SubSeqProperties
  <2>3. /\ SubSeq(whole, 1, n) \in Seq(S) /\ Len(SubSeq(whole, 1, n)) = n
        /\ \A i \in 1..n : SubSeq(whole, 1, n)[i] = whole[i]
    BY <1>1, <2>1, SubSeqProperties
  <2>4. QED
    BY <2>1, <2>2, <2>3, SeqEqual
<1>5. SubSeq(whole, n + 1, Len(whole)) = SubSeq(s, n + 1, l) \o t
  <2> DEFINE m == Len(whole)
             rest == SubSeq(whole, n + 1, m)
             first == SubSeq(s, n + 1, l)
  <2>1. /\ rest \in Seq(S) /\ Len(rest) = m - n
        /\ \A i \in 1..(m - n) : rest[i] = whole[n + i]
    <3>1. \A i \in (n + 1)..m : whole[i] \in S
      BY <1>1, <1>2, <1>3
    <3>2. QED
      BY <1>1, <1>2, <3>1, SubSeqProperties
  <2>2. /\ first \in Seq(S) /\ Len(first) = l - n
        /\ \A i \in 1..(l - n) : first[i] = s[n + i]
    <3>1. \A i \in (n + 1)..l : s[i] \in S
      BY <1>1, <1>3
    <3>2. QED
      BY <1>1, <3>1, SubSeqProperties
  <2> HIDE DEF rest, first
  <2> DEFINE joined == first \o t
  <2>3. /\ joined \in Seq(S) /\ Len(joined) = m - n
        /\ \A i \in 1..(m - n) : joined[i] = IF i <= l - n THEN first[i] ELSE t[i - (l - n)]
    <3>1. Len(first) + Len(t) = m - n
      BY <1>1, <1>2, <2>2
    <3>2. QED
      BY <2>2, <3>1, ConcatProperties
  <2> HIDE DEF joined
  <2>4. m \in Nat /\ m = l + Len(t)
    BY <1>1, <1>2
  <2> HIDE DEF m
  <2>5. ASSUME NEW i \in 1..(m - n) PROVE rest[i] = joined[i]
    <3>1. n + i \in 1..(l + Len(t)) /\ rest[i] = whole[n + i]
      BY <1>1, <2>1, <2>4
    <3>2. CASE i <= l - n
      <4>1. n + i <= l /\ i \in 1..(l - n)
        BY <1>1, <2>4, <3>2
      <4>2. rest[i] = s[n + i]
        BY <1>2, <3>1, <4>1
      <4>3. joined[i] = s[n + i]
        BY <2>2, <2>3, <3>2, <4>1
      <4>4. QED
        BY <4>2, <4>3
    <3>3. CASE ~(i <= l - n)
      <4>1. ~(n + i <= l) /\ i - (l - n) = (n + i) - l
        BY <1>1, <2>4, <3>3
      <4>2. rest[i] = t[(n + i) - l]
        BY <1>2, <3>1, <4>1
      <4>3. joined[i] = t[(n + i) - l]
        BY <2>3, <3>3, <4>1
      <4>4. QED
        BY <4>2, <4>3
    <3>4. QED
      BY <3>2, <3>3
  <2>6. rest = joined
    BY <2>1, <2>3, <2>5, SeqEqual
  <2>7. QED
    BY <2>6 DEF rest, first, joined, m
<1>6. QED
  BY <1>4, <1>5 DEF whole, l

=============================================================================
