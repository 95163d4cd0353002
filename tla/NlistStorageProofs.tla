------------------------- MODULE NlistStorageProofs -------------------------
(***************************************************************************)
(* The memory of a neighbor list, for any number of particles, types and   *)
(* neighbors and any chunk: no write is out of bounds, no neighbor is      *)
(* lost, and a second build always suffices.                               *)
(***************************************************************************)
EXTENDS NlistStorage, SequenceTheorems, FiniteSetTheorems, TLAPS

-----------------------------------------------------------------------------
(* Numbers.                                                                *)

LEMMA Induction ==
  ASSUME NEW P \in SUBSET Nat, 0 \in P, \A m \in P : m + 1 \in P
  PROVE  P = Nat
  <1> SUFFICES ASSUME NEW m \in Nat \ P PROVE FALSE
    OBVIOUS
  <1> DEFINE R == {p \in Nat \X Nat : p[1] < p[2]}
             Q == Nat \ P
  <1>1. IsWellFoundedOn(R, Nat)
    BY NatLessThanWellFounded DEF OpToRel
  <1>2. Q \subseteq Nat /\ Q # {}
    OBVIOUS
  <1>3. \A x, y \in Nat : x < y => <<x, y>> \in R
    OBVIOUS
  <1> HIDE DEF R, Q
  <1>4. PICK x \in Q : \A y \in Q : ~(<<y, x>> \in R)
    BY <1>1, <1>2, WFMin
  <1>5. x \in Nat /\ x \notin P
    BY <1>4 DEF Q
  <1>6. x # 0 /\ x - 1 \in Nat /\ x = (x - 1) + 1 /\ x - 1 < x
    BY <1>5
  <1>7. x - 1 \notin Q
    BY <1>3, <1>4, <1>5, <1>6
  <1> QED
    BY <1>5, <1>6, <1>7 DEF Q

\* A set of numbers with a bound has a largest one.
LEMMA Largest ==
  ASSUME NEW S \in SUBSET Nat, S # {}, NEW n \in Nat, \A x \in S : x <= n
  PROVE  Max(S) \in S /\ \A y \in S : Max(S) >= y
  <1> DEFINE P == {k \in Nat : \A T \in SUBSET Nat :
                     T # {} /\ (\A x \in T : x <= k) => \E x \in T : \A y \in T : x >= y}
  <1>1. 0 \in P
    <2> SUFFICES ASSUME NEW T \in SUBSET Nat, T # {}, \A x \in T : x <= 0
                 PROVE  \E x \in T : \A y \in T : x >= y
      OBVIOUS
    <2>1. PICK x \in T : TRUE
      OBVIOUS
    <2>2. x = 0 /\ \A y \in T : y = 0
      BY <2>1
    <2> QED
      BY <2>2
  <1>2. ASSUME NEW k \in P PROVE k + 1 \in P
    <2> SUFFICES ASSUME NEW T \in SUBSET Nat, T # {}, \A x \in T : x <= k + 1
                 PROVE  \E x \in T : \A y \in T : x >= y
      OBVIOUS
    <2>1. CASE k + 1 \in T
      BY <2>1
    <2>2. CASE k + 1 \notin T
      <3>1. \A x \in T : x <= k
        BY <2>2
      <3> QED
        BY <3>1
    <2> QED
      BY <2>1, <2>2
  <1> HIDE DEF P
  <1>3. P \in SUBSET Nat
    BY DEF P
  <1>4. P = Nat
    BY <1>1, <1>2, <1>3, Induction
  <1>5. \E x \in S : \A y \in S : x >= y
    BY <1>4 DEF P
  <1> QED
    BY <1>5 DEF Max

LEMMA LargestOfFinite ==
  ASSUME NEW S \in SUBSET Nat, S # {}, IsFiniteSet(S)
  PROVE  Max(S) \in S /\ \A y \in S : Max(S) >= y
  <1> DEFINE P == {k \in Nat : \A T \in SUBSET Nat :
                     IsFiniteSet(T) /\ Cardinality(T) = k => \E m \in Nat : \A x \in T : x <= m}
  <1>1. 0 \in P
    <2>1. \A T : IsFiniteSet(T) /\ Cardinality(T) = 0 => T = {}
      BY FS_EmptySet
    <2> QED
      BY <2>1
  <1>2. ASSUME NEW k \in P PROVE k + 1 \in P
    <2> SUFFICES ASSUME NEW T \in SUBSET Nat, IsFiniteSet(T), Cardinality(T) = k + 1
                 PROVE  \E m \in Nat : \A x \in T : x <= m
      OBVIOUS
    <2>1. T # {}
      BY FS_EmptySet
    <2>2. PICK y \in T : TRUE
      BY <2>1
    <2> DEFINE R == T \ {y}
    <2>3. R \in SUBSET Nat /\ IsFiniteSet(R) /\ Cardinality(R) = k
      <3>1. IsFiniteSet(R) /\ Cardinality(R) = Cardinality(T) - 1
        BY <2>2, FS_RemoveElement
      <3>2. k \in Nat /\ (k + 1) - 1 = k
        OBVIOUS
      <3> QED
        BY <3>1, <3>2
    <2>4. PICK m \in Nat : \A x \in R : x <= m
      BY <2>3
    <2>5. y \in Nat
      BY <2>2
    <2>6. \A x \in T : x <= m + y
      BY <2>4, <2>5
    <2> QED
      BY <2>4, <2>5, <2>6
  <1> HIDE DEF P
  <1>3. P \in SUBSET Nat
    BY DEF P
  <1>4. P = Nat
    BY <1>1, <1>2, <1>3, Induction
  <1>5. Cardinality(S) \in Nat
    BY FS_CardinalityType
  <1>6. PICK m \in Nat : \A x \in S : x <= m
    BY <1>4, <1>5 DEF P
  <1> QED
    BY <1>6, Largest

-----------------------------------------------------------------------------
(* The loop of resizeNlist().                                              *)

Step(a) == (a * 9) \div 8 + 1

\* The loop for one size, with its result as a function of where it is.
Loops(g, size, d) ==
    \A a \in Nat : size <= a + d => g[a] = IF size <= a THEN a ELSE g[Step(a)]

LEMMA StepType ==
  ASSUME NEW a \in Nat
  PROVE  Step(a) \in Nat /\ a + 1 <= Step(a)
  BY DEF Step

\* It has a result from everywhere.
LEMMA LoopExists ==
  ASSUME NEW size \in Nat
  PROVE  \E g \in [Nat -> Nat] : \A a \in Nat :
            g[a] = IF size <= a THEN a ELSE g[Step(a)]
  <1> DEFINE P == {d \in Nat : \E g \in [Nat -> Nat] : Loops(g, size, d)}
  <1>1. 0 \in P
    <2> DEFINE g == [a \in Nat |-> a]
    <2>1. g \in [Nat -> Nat] /\ Loops(g, size, 0)
      BY DEF Loops
    <2> QED
      BY <2>1
  <1>2. ASSUME NEW d \in P PROVE d + 1 \in P
    <2>1. d \in Nat
      OBVIOUS
    <2>2. PICK g \in [Nat -> Nat] : Loops(g, size, d)
      OBVIOUS
    <2> HIDE DEF P
    <2> DEFINE h == [a \in Nat |-> IF size <= a THEN a ELSE g[Step(a)]]
    <2>3. h \in [Nat -> Nat]
      BY StepType
    <2>4. ASSUME NEW a \in Nat, size <= a + (d + 1)
          PROVE  h[a] = IF size <= a THEN a ELSE h[Step(a)]
      <3>1. CASE size <= a
        BY <3>1
      <3>2. CASE ~(size <= a)
        <4> DEFINE b == Step(a)
        <4>1. b \in Nat /\ size <= b + d
          BY <2>1, <2>4, StepType
        <4> HIDE DEF b
        <4>2. h[b] = IF size <= b THEN b ELSE g[Step(b)]
          BY <4>1
        <4>3. g[b] = IF size <= b THEN b ELSE g[Step(b)]
          BY <2>2, <4>1 DEF Loops
        <4>4. h[a] = g[b]
          BY <3>2 DEF b
        <4> QED
          BY <3>2, <4>2, <4>3, <4>4 DEF b
      <3> QED
        BY <3>1, <3>2
    <2> HIDE DEF h
    <2>5. Loops(h, size, d + 1)
      BY <2>4 DEF Loops
    <2> QED
      BY <2>1, <2>3, <2>5 DEF P
  <1> HIDE DEF P
  <1>3. P \in SUBSET Nat
    BY DEF P
  <1>4. P = Nat
    BY <1>1, <1>2, <1>3, Induction
  <1>5. PICK g \in [Nat -> Nat] : Loops(g, size, size)
    BY <1>4 DEF P
  <1>6. \A a \in Nat : size <= a + size
    OBVIOUS
  <1> QED
    BY <1>5, <1>6 DEF Loops

LEMMA AllocSizeIs ==
  ASSUME NEW size \in Nat
  PROVE  \E g : /\ \A a : AllocSize(a, size) = g[a]
               /\ \A a \in Nat : g[a] = IF size <= a THEN a ELSE g[Step(a)]
  <1> DEFINE Body(f) == [n \in Nat |-> IF size <= n THEN n ELSE f[(n * 9) \div 8 + 1]]
             g == CHOOSE f : f = Body(f)
  <1>1. PICK h \in [Nat -> Nat] : \A a \in Nat :
           h[a] = IF size <= a THEN a ELSE h[Step(a)]
    BY LoopExists
  <1>2. h = Body(h)
    BY <1>1 DEF Step
  <1>3. g = Body(g)
    BY <1>2
  <1>4. \A a : AllocSize(a, size) = g[a]
    BY DEF AllocSize
  <1> HIDE DEF g
  <1> QED
    BY <1>3, <1>4 DEF Step

\* resizeNlist() finds an allocation that holds what is asked for.
LEMMA AllocSizeEnough ==
  ASSUME NEW size \in Nat, NEW a \in Nat
  PROVE  AllocSize(a, size) \in Nat /\ size <= AllocSize(a, size)
  <1>1. PICK g : /\ \A b : AllocSize(b, size) = g[b]
                 /\ \A b \in Nat : g[b] = IF size <= b THEN b ELSE g[Step(b)]
    BY AllocSizeIs
  <1> DEFINE P == {d \in Nat : \A b \in Nat : size <= b + d => g[b] \in Nat /\ size <= g[b]}
  <1>2. 0 \in P
    BY <1>1
  <1>3. ASSUME NEW d \in P PROVE d + 1 \in P
    <2> SUFFICES ASSUME NEW b \in Nat, size <= b + (d + 1)
                 PROVE  g[b] \in Nat /\ size <= g[b]
      OBVIOUS
    <2>1. Step(b) \in Nat /\ size <= Step(b) + d
      BY StepType
    <2>2. g[Step(b)] \in Nat /\ size <= g[Step(b)]
      BY <2>1
    <2>3. g[b] = IF size <= b THEN b ELSE g[Step(b)]
      BY <1>1
    <2> QED
      BY <2>2, <2>3
  <1> HIDE DEF P
  <1>4. P \in SUBSET Nat
    BY DEF P
  <1>5. P = Nat
    BY <1>2, <1>3, <1>4, Induction
  <1>6. size <= a + size
    OBVIOUS
  <1>7. g[a] \in Nat /\ size <= g[a]
    BY <1>5, <1>6 DEF P
  <1> QED
    BY <1>1, <1>7

-----------------------------------------------------------------------------
(* The running sum of buildHeadList().                                     *)

\* f folds max[s[i]] over sets of places of s, the last place last.
Sums(max, s, f) ==
    f = [S \in SUBSET (DOMAIN s) |->
           IF S = {} THEN 0 ELSE f[S \ {Max(S)}] + max[s[Max(S)]]]

\* Without its largest element a set of places ends earlier.
LEMMA WithoutLast ==
  ASSUME NEW m \in Nat, NEW S, S \subseteq 1 .. (m + 1), S # {}
  PROVE  Max(S) \in S /\ S \ {Max(S)} \subseteq 1 .. m
  <1>1. S \in SUBSET Nat /\ m + 1 \in Nat /\ \A x \in S : x <= m + 1
    OBVIOUS
  <1>2. Max(S) \in S /\ \A y \in S : Max(S) >= y
    <2> DEFINE k == m + 1
    <2>1. k \in Nat /\ \A x \in S : x <= k
      BY <1>1
    <2> HIDE DEF k
    <2> QED
      BY <1>1, <2>1, Largest
  <1> DEFINE M == Max(S)
  <1>3. M \in S /\ \A y \in S : M >= y
    BY <1>2
  <1> HIDE DEF M
  <1>4. ASSUME NEW x \in S, x # M PROVE x \in 1 .. m
    BY <1>3, <1>4
  <1> QED
    BY <1>3, <1>4 DEF M

LEMMA SumsExist ==
  ASSUME NEW max, NEW s, NEW n \in Nat, DOMAIN s = 1 .. n
  PROVE  \E f : Sums(max, s, f)
  <1> DEFINE e(f, S) == IF S = {} THEN 0 ELSE f[S \ {Max(S)}] + max[s[Max(S)]]
             Good(f, m) == \A S \in SUBSET (1 .. n) : S \subseteq 1 .. m => f[S] = e(f, S)
             P == {m \in Nat : \E f : Good(f, m)}
  <1>1. 0 \in P
    <2> DEFINE f == [S \in SUBSET (1 .. n) |-> 0]
    <2>1. \A S \in SUBSET (1 .. n) : S \subseteq 1 .. 0 => S = {}
      OBVIOUS
    <2>2. Good(f, 0)
      BY <2>1
    <2> HIDE DEF Good, f
    <2> QED
      BY <2>2
  <1>2. ASSUME NEW m \in P PROVE m + 1 \in P
    <2>1. m \in Nat
      OBVIOUS
    <2>2. PICK f : Good(f, m)
      OBVIOUS
    <2> HIDE DEF P
    <2> DEFINE h == [S \in SUBSET (1 .. n) |-> e(f, S)]
    <2>3. ASSUME NEW S \in SUBSET (1 .. n), S \subseteq 1 .. (m + 1)
          PROVE  h[S] = e(h, S)
      <3>1. CASE S = {}
        BY <3>1
      <3>2. CASE S # {}
        <4> DEFINE R == S \ {Max(S)}
        <4>2. R \in SUBSET (1 .. n) /\ R \subseteq 1 .. m
          BY <2>1, <2>3, <3>2, WithoutLast
        <4>3. f[R] = e(f, R)
          BY <2>2, <4>2
        <4>4. h[R] = e(f, R)
          BY <4>2
        <4>5. h[S] = f[R] + max[s[Max(S)]]
          BY <3>2
        <4> QED
          BY <3>2, <4>3, <4>4, <4>5
      <3> QED
        BY <3>1, <3>2
    <2> HIDE DEF h
    <2>4. Good(h, m + 1)
      BY <2>3
    <2> HIDE DEF Good
    <2> QED
      BY <2>1, <2>4 DEF P
  <1> HIDE DEF P
  <1>3. P \in SUBSET Nat
    BY DEF P
  <1>4. P = Nat
    BY <1>1, <1>2, <1>3, Induction
  <1>5. PICK f : Good(f, n)
    BY <1>4 DEF P
  <1> DEFINE g == [S \in SUBSET (1 .. n) |-> f[S]]
  <1>6. ASSUME NEW S \in SUBSET (1 .. n)
        PROVE  f[S] = IF S = {} THEN 0 ELSE g[S \ {Max(S)}] + max[s[Max(S)]]
    <2>1. S \ {Max(S)} \in SUBSET (1 .. n)
      OBVIOUS
    <2>2. g[S \ {Max(S)}] = f[S \ {Max(S)}]
      BY <2>1
    <2>3. f[S] = e(f, S)
      BY <1>5
    <2> HIDE DEF g
    <2> QED
      BY <2>2, <2>3
  <1>7. Sums(max, s, g)
    BY <1>6 DEF Sums
  <1> HIDE DEF g
  <1> QED
    BY <1>7

\* HeadAddress(max, i) is the sum of the rooms of the particles before i.
LEMMA Heads ==
  ASSUME NEW max, type \in Seq(Types), max \in [Types -> Nat]
  PROVE  \E H \in [0 .. NParticles -> Nat] :
            /\ H[0] = 0
            /\ \A j \in Particle : H[j] = H[j - 1] + max[type[j]]
            /\ \A i \in 1 .. (NParticles + 1) : HeadAddress(max, i) = H[i - 1]
  <1> DEFINE n == NParticles
             F(s) == CHOOSE f : Sums(max, s, f)
             H == [j \in 0 .. n |-> F(type)[1 .. j]]
  <1>1. n \in Nat /\ DOMAIN type = 1 .. n /\ Particle = 1 .. n
    BY DEF NParticles, Particle
  <1> HIDE DEF n
  <1>2. ASSUME NEW s, NEW m \in Nat, DOMAIN s = 1 .. m
        PROVE  /\ F(s)[1 .. 0] = 0
               /\ \A k \in 0 .. (m - 1) :
                     F(s)[1 .. (k + 1)] = F(s)[1 .. k] + max[s[k + 1]]
    <2>1. Sums(max, s, F(s))
      BY <1>2, SumsExist
    <2> DEFINE f == F(s)
    <2> HIDE DEF F
    <2>2. \A S \in SUBSET (1 .. m) :
             f[S] = IF S = {} THEN 0 ELSE f[S \ {Max(S)}] + max[s[Max(S)]]
      BY <1>2, <2>1 DEF Sums
    <2> HIDE DEF f
    <2>3. 1 .. 0 = {} /\ 1 .. 0 \in SUBSET (1 .. m)
      OBVIOUS
    <2>4. ASSUME NEW k \in 0 .. (m - 1)
          PROVE  f[1 .. (k + 1)] = f[1 .. k] + max[s[k + 1]]
      <3> DEFINE S == 1 .. (k + 1)
                 M == Max(S)
      <3>1. k \in Nat /\ k + 1 \in S /\ S \in SUBSET (1 .. m) /\ S # {}
        <4>1. k \in Nat /\ k + 1 <= m
          BY <1>2
        <4>2. \A x \in S : x \in 1 .. m
          BY <4>1
        <4>3. k + 1 \in S
          BY <4>1
        <4> HIDE DEF S
        <4> QED
          BY <4>1, <4>2, <4>3
      <3>2. M \in S /\ S \ {M} \subseteq 1 .. k
        BY <3>1, WithoutLast
      <3>3. M = k + 1
        <4>1. k + 1 \notin 1 .. k
          BY <3>1
        <4> HIDE DEF S, M
        <4> QED
          BY <3>1, <3>2, <4>1
      <3>4. S \ {k + 1} = 1 .. k
        BY <3>1
      <3>5. f[S] = f[S \ {M}] + max[s[M]]
        BY <2>2, <3>1
      <3> QED
        BY <3>3, <3>4, <3>5
    <2>5. f[1 .. 0] = 0
      BY <2>2, <2>3
    <2> QED
      BY <2>4, <2>5 DEF f
  <1>3. /\ F(type)[1 .. 0] = 0
        /\ \A k \in 0 .. (n - 1) :
              F(type)[1 .. (k + 1)] = F(type)[1 .. k] + max[type[k + 1]]
    BY <1>1, <1>2
  <1> HIDE DEF F
  <1>4. ASSUME NEW j \in 1 .. n
        PROVE  H[j] = H[j - 1] + max[type[j]]
    <2>1. j - 1 \in 0 .. (n - 1) /\ (j - 1) + 1 = j /\ j \in 0 .. n /\ j - 1 \in 0 .. n
      BY <1>1
    <2>2. F(type)[1 .. ((j - 1) + 1)] = F(type)[1 .. (j - 1)] + max[type[(j - 1) + 1]]
      BY <1>3, <2>1
    <2> QED
      BY <2>1, <2>2
  <1>5. H[0] = 0
    BY <1>1, <1>3
  <1>6. \A j \in 1 .. n : max[type[j]] \in Nat
    BY <1>1
  <1>7. H \in [0 .. n -> Nat]
    <2> HIDE DEF H
    <2> DEFINE P == {k \in Nat : k <= n => H[k] \in Nat}
    <2>1. 0 \in P
      BY <1>5
    <2>2. ASSUME NEW k \in P PROVE k + 1 \in P
      <3> SUFFICES ASSUME k + 1 <= n PROVE H[k + 1] \in Nat
        OBVIOUS
      <3>1. k + 1 \in 1 .. n /\ (k + 1) - 1 = k /\ H[k] \in Nat
        BY <1>1
      <3> QED
        BY <1>4, <1>6, <3>1
    <2> HIDE DEF P
    <2>3. P \in SUBSET Nat
      BY DEF P
    <2>4. P = Nat
      BY <2>1, <2>2, <2>3, Induction
    <2>5. \A k \in 0 .. n : H[k] \in Nat
      BY <1>1, <2>4 DEF P
    <2>6. H = [k \in 0 .. n |-> H[k]]
      BY DEF H
    <2> QED
      BY <2>5, <2>6
  <1>8. ASSUME NEW i \in 1 .. (n + 1)
        PROVE  HeadAddress(max, i) = H[i - 1]
    <2> DEFINE m == i - 1
               s == SubSeq(type, 1, m)
    <2>1. m \in Nat /\ m <= n
      BY <1>1
    <2>2. DOMAIN s = 1 .. m /\ \A k \in 1 .. m : s[k] = type[k]
      <3> HIDE DEF m
      <3>1. Len(type) = n
        BY DEF n, NParticles
      <3> QED
        BY <2>1, <3>1, SubSeqProperties
    <2>3. HeadAddress(max, i) = F(s)[1 .. m]
      <3>1. HeadAddress(max, i) = F(s)[DOMAIN s]
        BY DEF HeadAddress, FoldLeft, MapThenFoldSet, Sums, F
      <3> QED
        BY <2>2, <3>1
    <2> HIDE DEF m, s, H
    <2>4. /\ F(s)[1 .. 0] = 0
          /\ \A k \in 0 .. (m - 1) : F(s)[1 .. (k + 1)] = F(s)[1 .. k] + max[s[k + 1]]
      BY <1>2, <2>1, <2>2
    <2> DEFINE P == {k \in Nat : k <= m => F(s)[1 .. k] = H[k]}
    <2>5. 0 \in P
      BY <1>5, <2>4
    <2>6. ASSUME NEW k \in P PROVE k + 1 \in P
      <3> SUFFICES ASSUME k + 1 <= m PROVE F(s)[1 .. (k + 1)] = H[k + 1]
        OBVIOUS
      <3>1. k \in 0 .. (m - 1) /\ k + 1 \in 1 .. m /\ k + 1 \in 1 .. n /\ (k + 1) - 1 = k
        BY <1>1, <2>1
      <3>2. F(s)[1 .. k] = H[k]
        <4>1. k \in Nat /\ k <= m
          BY <2>1
        <4> QED
          BY <4>1
      <3>3. s[k + 1] = type[k + 1] /\ H[k + 1] = H[k] + max[type[k + 1]]
        <4>1. H[k + 1] = H[(k + 1) - 1] + max[type[k + 1]]
          BY <1>4, <3>1
        <4> QED
          BY <2>2, <3>1, <4>1
      <3> QED
        BY <2>4, <3>1, <3>2, <3>3
    <2> HIDE DEF P
    <2>7. P \in SUBSET Nat
      BY DEF P
    <2>8. P = Nat
      BY <2>5, <2>6, <2>7, Induction
    <2>9. F(s)[1 .. m] = H[m]
      BY <2>1, <2>8 DEF P
    <2> QED
      BY <2>3, <2>9 DEF m
  <1> HIDE DEF H
  <1> QED
    BY <1>1, <1>4, <1>5, <1>7, <1>8 DEF n

\* The rooms of the particles lie one behind the other.
LEMMA HeadsApart ==
  ASSUME NEW max, type \in Seq(Types), max \in [Types -> Nat]
  PROVE  LET n == NParticles IN
         /\ \A i \in 1 .. (n + 1) : HeadAddress(max, i) \in Nat
         /\ \A i \in Particle, j \in 1 .. (n + 1) : i < j =>
               HeadAddress(max, i) + max[type[i]] <= HeadAddress(max, j)
  <1> DEFINE n == NParticles
  <1>1. n \in Nat /\ DOMAIN type = 1 .. n /\ Particle = 1 .. n
    BY DEF NParticles, Particle
  <1>2. PICK H \in [0 .. n -> Nat] :
            /\ H[0] = 0
            /\ \A j \in 1 .. n : H[j] = H[j - 1] + max[type[j]]
            /\ \A i \in 1 .. (n + 1) : HeadAddress(max, i) = H[i - 1]
    BY <1>1, Heads
  <1> HIDE DEF n
  <1>3. \A i \in 1 .. n : max[type[i]] \in Nat
    BY <1>1
  <1>4. ASSUME NEW i \in 1 .. n, NEW j \in i .. n
        PROVE  H[i] <= H[j]
    <2> DEFINE P == {k \in Nat : k >= i /\ k <= n => H[i] <= H[k]}
    <2>1. 0 \in P
      OBVIOUS
    <2>2. ASSUME NEW k \in P PROVE k + 1 \in P
      <3> SUFFICES ASSUME k + 1 >= i, k + 1 <= n PROVE H[i] <= H[k + 1]
        OBVIOUS
      <3>1. CASE k + 1 = i
        <4>1. k + 1 \in 0 .. n
          BY <1>1
        <4>2. H[k + 1] \in Nat
          BY <1>2, <4>1
        <4> QED
          BY <3>1, <4>2
      <3>2. CASE k + 1 # i
        <4>1. k >= i /\ k <= n /\ k + 1 \in 1 .. n /\ (k + 1) - 1 = k /\ k \in 0 .. n /\ i \in 0 .. n
          BY <1>1, <3>2
        <4>2. H[i] <= H[k] /\ H[k + 1] = H[k] + max[type[k + 1]]
          BY <1>2, <4>1
        <4>3. H[i] \in Nat /\ H[k] \in Nat /\ max[type[k + 1]] \in Nat
          BY <1>2, <1>3, <4>1
        <4> QED
          BY <4>2, <4>3
      <3> QED
        BY <3>1, <3>2
    <2> HIDE DEF P
    <2>3. P \in SUBSET Nat
      BY DEF P
    <2>4. P = Nat
      BY <2>1, <2>2, <2>3, Induction
    <2>5. j \in Nat /\ j >= i /\ j <= n
      BY <1>1
    <2> QED
      BY <2>4, <2>5 DEF P
  <1>5. ASSUME NEW i \in 1 .. n, NEW j \in 1 .. (n + 1), i < j
        PROVE  HeadAddress(max, i) + max[type[i]] <= HeadAddress(max, j)
    <2>1. i \in 1 .. (n + 1) /\ j - 1 \in i .. n
      BY <1>1, <1>5
    <2>2. HeadAddress(max, i) = H[i - 1] /\ HeadAddress(max, j) = H[j - 1]
      BY <1>2, <2>1
    <2>3. H[i] = H[i - 1] + max[type[i]]
      BY <1>2
    <2> QED
      BY <1>4, <2>1, <2>2, <2>3
  <1>6. ASSUME NEW i \in 1 .. (n + 1) PROVE HeadAddress(max, i) \in Nat
    <2>1. i - 1 \in 0 .. n
      BY <1>1
    <2> QED
      BY <1>2, <2>1
  <1> QED
    BY <1>1, <1>5, <1>6 DEF n

-----------------------------------------------------------------------------
(* The invariant.  The rooms lie apart and inside the memory whenever no   *)
(* update is forced; what a build finds too small is in conditions.        *)

Typed ==
    /\ ntypes \in Nat /\ type \in Seq(Types) /\ neigh \in Seq(Nat)
    /\ Len(neigh) = NParticles
    /\ Nmax \in [Types -> Nat] /\ conditions \in [Types -> Nat]
    /\ head_list \in Seq(Nat) /\ n_neigh \in Seq(Nat)
    /\ Len(n_neigh) = Len(head_list) /\ NParticles <= Len(head_list)
    /\ nlist \in Seq(Nat \X Int)
    /\ pc \in {"idle", "build", "check"} /\ force \in BOOLEAN /\ built \in BOOLEAN
    /\ builds \in Nat

\* The rooms max at the places head lie apart in an array of length size.
Apart(head, max, size) ==
    \A i \in Particle :
       /\ head[i] + max[type[i]] <= size
       /\ \A j \in Particle : i < j => head[i] + max[type[i]] <= head[j]

NoneOver == \A t \in Types : conditions[t] = 0

Fits == \A i \in Particle : neigh[i] <= Nmax[type[i]]

\* conditions[t] is the largest number of neighbors that has no room.
Noted ==
    /\ \A t \in Types : conditions[t] = 0 \/ \E i \in Particle :
          type[i] = t /\ neigh[i] = conditions[t] /\ neigh[i] > Nmax[t]
    /\ \A i \in Particle : neigh[i] > Nmax[type[i]] => neigh[i] <= conditions[type[i]]

\* The list of a particle that has room is complete.
Filled ==
    \A i \in Particle :
       /\ n_neigh[i] = neigh[i]
       /\ neigh[i] <= Nmax[type[i]] =>
             \A k \in 1 .. neigh[i] : nlist[head_list[i] + k] = <<i, k>>

IInv ==
    /\ Typed
    /\ ~force => Apart(head_list, Nmax, Capacity)
    /\ pc = "idle" => NoneOver /\ builds <= 2
    /\ pc = "build" => ~force /\ NoneOver /\ (builds = 0 \/ (builds = 1 /\ Fits))
    /\ pc = "check" => ~force /\ Noted /\ Filled /\ (builds = 1 \/ (builds = 2 /\ Fits))
    /\ Complete

LEMMA Right == IInv => StorageRight
  <1> SUFFICES ASSUME IInv PROVE StorageRight
    OBVIOUS
  <1>1. TypeOK
    <2>1. DOMAIN neigh = 1 .. Len(neigh) /\ DOMAIN type = 1 .. Len(type)
      BY DEF IInv, Typed
    <2> QED
      BY <2>1 DEF IInv, Typed, TypeOK, NParticles
  <1>2. WritesFit
    BY DEF IInv, WritesFit, Apart
  <1>3. TwoBuilds
    BY DEF IInv, Typed, TwoBuilds
  <1> QED
    BY <1>1, <1>2, <1>3 DEF IInv, StorageRight

\* buildHeadList() lays the rooms out for the particles there are.
LEMMA HeadsBuilt ==
  ASSUME Typed, NEW max \in [Types -> Nat], buildHeadList(max)
  PROVE  /\ head_list' \in Seq(Nat) /\ Len(head_list') = Len(head_list)
         /\ nlist' \in Seq(Nat \X Int)
         /\ Apart(head_list', max, Len(nlist'))
  <1> DEFINE n == NParticles
             H(i) == HeadAddress(max, i)
             m == Len(head_list)
  <1>1. /\ n \in Nat /\ Particle = 1 .. n /\ m \in Nat /\ DOMAIN head_list = 1 .. m
        /\ n <= m /\ \A i \in 1 .. m : head_list[i] \in Nat
    BY DEF Typed, NParticles, Particle
  <1>2. /\ \A i \in 1 .. (n + 1) : H(i) \in Nat
        /\ \A i \in Particle, j \in 1 .. (n + 1) : i < j => H(i) + max[type[i]] <= H(j)
    BY HeadsApart DEF Typed
  <1>3. /\ head_list' = [i \in DOMAIN head_list |->
                           IF i \in Particle THEN H(i) ELSE head_list[i]]
        /\ nlist' = resizeNlist(H(n + 1))
    BY DEF buildHeadList
  <1>4. n + 1 \in 1 .. (n + 1)
    BY <1>1
  <1> HIDE DEF n, H, m
  <1>5. nlist' \in Seq(Nat \X Int) /\ H(n + 1) <= Len(nlist')
    <2> DEFINE size == H(n + 1)
               a == IF Capacity = 0 THEN 1 ELSE Capacity
    <2>1. size \in Nat /\ Capacity \in Nat /\ a \in Nat /\ Free \in Nat \X Int
      BY <1>2, <1>4 DEF Typed, Capacity, Free
    <2>2. CASE size <= Capacity
      BY <1>3, <2>2 DEF resizeNlist, Capacity, Typed
    <2>3. CASE ~(size <= Capacity)
      <3> DEFINE s == AllocSize(a, size)
                 more == [k \in 1 .. (s - Capacity) |-> Free]
      <3>1. s \in Nat /\ size <= s
        BY <2>1, AllocSizeEnough
      <3>2. nlist' = nlist \o more
        BY <1>3, <2>3 DEF resizeNlist
      <3> HIDE DEF s, size
      <3>3. s - Capacity \in Nat
        BY <2>1, <2>3, <3>1
      <3>4. more \in Seq(Nat \X Int) /\ Len(more) = s - Capacity
        BY <2>1, <3>3
      <3> HIDE DEF more
      <3>5. nlist' \in Seq(Nat \X Int) /\ Len(nlist') = Len(nlist) + Len(more)
        BY <3>2, <3>4, ConcatProperties DEF Typed
      <3> QED
        BY <2>1, <3>1, <3>3, <3>4, <3>5 DEF size, Capacity
    <2> QED
      BY <2>2, <2>3
  <1>6. \A i \in 1 .. m : (IF i \in Particle THEN H(i) ELSE head_list[i]) \in Nat
    BY <1>1, <1>2
  <1>7. head_list' \in Seq(Nat) /\ Len(head_list') = m
    BY <1>1, <1>3, <1>6
  <1>8. \A i \in Particle : head_list'[i] = H(i)
    BY <1>1, <1>3
  <1>9. \A i \in Particle : max[type[i]] \in Nat
    BY <1>1 DEF Typed, NParticles, n
  <1>10. Apart(head_list', max, Len(nlist'))
    <2>1. ASSUME NEW i \in Particle
          PROVE  head_list'[i] + max[type[i]] <= Len(nlist')
      <3>1. i \in 1 .. (n + 1) /\ i < n + 1
        BY <1>1
      <3>2. H(i) + max[type[i]] <= H(n + 1) /\ H(i) \in Nat /\ H(n + 1) \in Nat
        BY <1>2, <1>4, <3>1
      <3>3. Len(nlist') \in Nat
        BY <1>5
      <3> QED
        BY <1>5, <1>8, <1>9, <3>2, <3>3
    <2>2. ASSUME NEW i \in Particle, NEW j \in Particle, i < j
          PROVE  head_list'[i] + max[type[i]] <= head_list'[j]
      <3>1. j \in 1 .. (n + 1)
        BY <1>1
      <3> QED
        BY <1>2, <1>8, <2>2, <3>1
    <2> QED
      BY <2>1, <2>2 DEF Apart
  <1> QED
    BY <1>5, <1>7, <1>10 DEF m

-----------------------------------------------------------------------------
(* The steps.                                                              *)

LEMMA ParticleType ==
  ASSUME Typed
  PROVE  /\ NParticles \in Nat /\ Particle = 1 .. NParticles
         /\ NParticles <= Len(n_neigh) /\ Len(n_neigh) \in Nat
         /\ DOMAIN n_neigh = 1 .. Len(n_neigh)
         /\ \A p \in Particle : /\ p \in Nat /\ type[p] \in Types /\ neigh[p] \in Nat
                                /\ Nmax[type[p]] \in Nat /\ head_list[p] \in Nat
  <1>1. /\ NParticles \in Nat /\ Particle = 1 .. NParticles
        /\ DOMAIN type = 1 .. NParticles /\ DOMAIN neigh = 1 .. NParticles
    BY DEF Typed, NParticles, Particle
  <1>2. /\ Len(n_neigh) \in Nat /\ DOMAIN n_neigh = 1 .. Len(n_neigh)
        /\ NParticles <= Len(n_neigh) /\ DOMAIN head_list = 1 .. Len(n_neigh)
    BY <1>1 DEF Typed
  <1>3. ASSUME NEW p \in Particle
        PROVE  /\ p \in Nat /\ type[p] \in Types /\ neigh[p] \in Nat
               /\ head_list[p] \in Nat
    <2>1. p \in 1 .. NParticles /\ p \in 1 .. Len(n_neigh)
      BY <1>1, <1>2
    <2>2. type[p] \in Types
      BY <1>1, <2>1 DEF Typed
    <2>3. neigh[p] \in Nat
      <3>1. neigh \in Seq(Nat) /\ Len(neigh) = NParticles
        BY DEF Typed
      <3> QED
        BY <2>1, <3>1
    <2>4. head_list[p] \in Nat
      BY <1>2, <2>1 DEF Typed
    <2> QED
      BY <2>1, <2>2, <2>3, <2>4
  <1>4. \A x \in Types : Nmax[x] \in Nat
    BY DEF Typed
  <1> QED
    BY <1>1, <1>2, <1>3, <1>4

LEMMA InitInv == Init => IInv
  <1> SUFFICES ASSUME Init PROVE IInv
    OBVIOUS
  <1>1. PICK n \in 0 .. MaxN :
           /\ type \in [1 .. n -> Types]
           /\ neigh = [i \in 1 .. n |-> 0]
           /\ head_list = [i \in 1 .. n |-> 0]
           /\ n_neigh = [i \in 1 .. n |-> 0]
           /\ nlist = [s \in 1 .. (Chunk * n) |-> Free]
    BY DEF Init, Types
  <1>2. n \in Nat /\ Chunk \in Nat /\ Chunk * n \in Nat /\ Free \in Nat \X Int
    BY StorageAssumption DEF Free
  <1>3. /\ type \in Seq(Types) /\ Len(type) = n
        /\ neigh \in Seq(Nat) /\ Len(neigh) = n
        /\ head_list \in Seq(Nat) /\ Len(head_list) = n
        /\ n_neigh \in Seq(Nat) /\ Len(n_neigh) = n
    BY <1>1, <1>2
  <1>4. nlist \in Seq(Nat \X Int)
    BY <1>1, <1>2
  <1>5. /\ ntypes \in Nat /\ force = TRUE /\ pc = "idle" /\ builds = 0 /\ built = FALSE
        /\ Nmax \in [Types -> Nat] /\ conditions = [t \in Types |-> 0]
    BY <1>2, StorageAssumption DEF Init
  <1>6. Typed
    <2>1. conditions \in [Types -> Nat]
      BY <1>5
    <2>2. /\ NParticles = n /\ Len(neigh) = NParticles /\ Len(n_neigh) = Len(head_list)
          /\ NParticles <= Len(head_list)
      BY <1>2, <1>3 DEF NParticles
    <2>3. /\ pc \in {"idle", "build", "check"} /\ force \in BOOLEAN /\ built \in BOOLEAN
          /\ builds \in Nat
      BY <1>5
    <2> QED
      BY <1>3, <1>4, <1>5, <2>1, <2>2, <2>3 DEF Typed
  <1> QED
    BY <1>5, <1>6 DEF IInv, NoneOver, Complete

LEMMA SortInv == IInv /\ Sort => IInv'
  <1> SUFFICES ASSUME IInv, Sort PROVE IInv'
    OBVIOUS
  <1>1. /\ type' \in [Particle -> Types] /\ force' = TRUE /\ built' = FALSE
        /\ neigh' = neigh /\ ntypes' = ntypes /\ Nmax' = Nmax /\ conditions' = conditions
        /\ head_list' = head_list /\ nlist' = nlist /\ n_neigh' = n_neigh
        /\ pc' = pc /\ builds' = builds /\ pc = "idle"
    BY DEF Sort
  <1>2. NParticles \in Nat
    BY DEF IInv, Typed, NParticles
  <1>3. type' \in Seq(Types) /\ Len(type') = NParticles
    BY <1>1, <1>2 DEF Particle
  <1>4. Typed'
    BY <1>1, <1>3 DEF IInv, Typed, NParticles, Types
  <1> QED
    BY <1>1, <1>4 DEF IInv, NoneOver, Complete, Types

LEMMA ResizedType ==
  ASSUME NEW s \in Seq(Nat), NEW n \in Nat
  PROVE  Resized(s, n) \in Seq(Nat) /\ Len(Resized(s, n)) = n
  <1>1. \A i \in 1 .. n : (IF i <= Len(s) THEN s[i] ELSE 0) \in Nat
    OBVIOUS
  <1>2. Resized(s, n) = [i \in 1 .. n |-> IF i <= Len(s) THEN s[i] ELSE 0]
    BY DEF Resized
  <1> QED
    BY <1>1, <1>2

LEMMA ChangeNInv == IInv /\ ChangeN => IInv'
  <1> SUFFICES ASSUME IInv, ChangeN PROVE IInv'
    OBVIOUS
  <1>1. PICK n \in 0 .. MaxN :
           /\ type' \in [1 .. n -> Types]
           /\ neigh' = Resized(neigh, n)
           /\ IF n > Len(head_list)
              THEN head_list' = Resized(head_list, n) /\ n_neigh' = Resized(n_neigh, n)
              ELSE head_list' = head_list /\ n_neigh' = n_neigh
    BY DEF ChangeN
  <1>2. /\ force' = TRUE /\ built' = FALSE /\ pc = "idle"
        /\ ntypes' = ntypes /\ Nmax' = Nmax /\ conditions' = conditions
        /\ nlist' = nlist /\ pc' = pc /\ builds' = builds
    BY DEF ChangeN
  <1>3. n \in Nat
    BY StorageAssumption
  <1>4. /\ type' \in Seq(Types) /\ Len(type') = n
        /\ neigh' \in Seq(Nat) /\ Len(neigh') = n
    BY <1>1, <1>3, ResizedType DEF IInv, Typed
  <1>5. /\ head_list' \in Seq(Nat) /\ n_neigh' \in Seq(Nat)
        /\ Len(n_neigh') = Len(head_list') /\ n <= Len(head_list')
    <2>1. CASE n > Len(head_list)
      <3>1. head_list \in Seq(Nat) /\ n_neigh \in Seq(Nat)
        BY DEF IInv, Typed
      <3>2. head_list' = Resized(head_list, n) /\ n_neigh' = Resized(n_neigh, n)
        BY <1>1, <2>1
      <3>3. /\ Resized(head_list, n) \in Seq(Nat) /\ Len(Resized(head_list, n)) = n
            /\ Resized(n_neigh, n) \in Seq(Nat) /\ Len(Resized(n_neigh, n)) = n
        BY <1>3, <3>1, ResizedType
      <3> QED
        BY <1>3, <3>2, <3>3
    <2>2. CASE ~(n > Len(head_list))
      BY <1>1, <1>3, <2>2 DEF IInv, Typed
    <2> QED
      BY <2>1, <2>2
  <1>6. Typed'
    BY <1>2, <1>4, <1>5 DEF IInv, Typed, NParticles, Types
  <1> QED
    BY <1>2, <1>6 DEF IInv, NoneOver, Complete, Types

LEMMA AddTypeInv == IInv /\ AddType => IInv'
  <1> SUFFICES ASSUME IInv, AddType PROVE IInv'
    OBVIOUS
  <1>1. /\ pc = "idle" /\ ntypes' = ntypes + 1
        /\ Nmax' = [t \in 0 .. ntypes |-> IF t < ntypes THEN Nmax[t] ELSE 0]
        /\ conditions' = [t \in 0 .. ntypes |-> IF t < ntypes THEN conditions[t] ELSE 0]
        /\ force' = TRUE
        /\ type' = type /\ neigh' = neigh /\ head_list' = head_list /\ nlist' = nlist
        /\ n_neigh' = n_neigh /\ pc' = pc /\ builds' = builds /\ built' = built
    BY DEF AddType
  <1>2. ntypes \in Nat /\ Types' = 0 .. ntypes /\ Types = 0 .. (ntypes - 1)
    BY <1>1 DEF IInv, Typed, Types
  <1>3. \A t \in 0 .. ntypes : t < ntypes => t \in Types
    BY <1>2
  <1>4. Nmax' \in [Types' -> Nat] /\ conditions' \in [Types' -> Nat]
    <2>1. /\ \A t \in 0 .. ntypes : (IF t < ntypes THEN Nmax[t] ELSE 0) \in Nat
          /\ \A t \in 0 .. ntypes : (IF t < ntypes THEN conditions[t] ELSE 0) \in Nat
      BY <1>3 DEF IInv, Typed
    <2> QED
      BY <1>1, <1>2, <2>1
  <1>5. type' \in Seq(Types')
    <2>1. Types \subseteq Types'
      BY <1>2
    <2>2. type \in Seq(Types)
      BY DEF IInv, Typed
    <2> QED
      BY <1>1, <2>1, <2>2, SeqMonotonic
  <1>6. Typed'
    BY <1>1, <1>2, <1>4, <1>5 DEF IInv, Typed, NParticles
  <1>7. NoneOver'
    <2>1. ASSUME NEW t \in 0 .. ntypes PROVE conditions'[t] = 0
      BY <1>1, <1>3 DEF IInv, NoneOver
    <2> QED
      BY <1>2, <2>1 DEF NoneOver
  <1>8. Complete'
    BY <1>1 DEF IInv, Complete, Particle, NParticles, Capacity
  <1> QED
    BY <1>1, <1>6, <1>7, <1>8 DEF IInv

LEMMA ComputeInv == IInv /\ Compute => IInv'
  <1> SUFFICES ASSUME IInv, Compute PROVE IInv'
    OBVIOUS
  <1>1. /\ pc = "idle" /\ pc' = "build" /\ force' = FALSE
        /\ neigh' \in [Particle -> 0 .. MaxNeigh]
        /\ builds' = 0 /\ built' = FALSE
        /\ type' = type /\ ntypes' = ntypes /\ Nmax' = Nmax
        /\ conditions' = conditions /\ n_neigh' = n_neigh
    BY DEF Compute
  <1>2. /\ head_list' \in Seq(Nat) /\ Len(head_list') = Len(head_list)
        /\ nlist' \in Seq(Nat \X Int)
        /\ Apart(head_list', Nmax, Len(nlist'))
    <2>1. CASE force
      <3>1. buildHeadList(Nmax)
        BY <2>1 DEF Compute
      <3> QED
        BY <3>1, HeadsBuilt DEF IInv, Typed
    <2>2. CASE ~force
      <3>1. head_list' = head_list /\ nlist' = nlist
        BY <2>2 DEF Compute
      <3> QED
        BY <2>2, <3>1 DEF IInv, Typed, Capacity
    <2> QED
      BY <2>1, <2>2
  <1>3. neigh' \in Seq(Nat) /\ Len(neigh') = NParticles
    <2>1. NParticles \in Nat /\ Particle = 1 .. NParticles
      BY DEF IInv, Typed, NParticles, Particle
    <2>2. \A k \in 0 .. MaxNeigh : k \in Nat
      BY StorageAssumption
    <2>3. neigh' \in [1 .. NParticles -> Nat]
      BY <1>1, <2>1, <2>2
    <2> QED
      BY <2>1, <2>3
  <1>4. Typed'
    BY <1>1, <1>2, <1>3 DEF IInv, Typed, NParticles, Types
  <1>5. Apart(head_list, Nmax, Capacity)'
    BY <1>1, <1>2 DEF Apart, Particle, NParticles, Capacity
  <1>6. NoneOver'
    BY <1>1 DEF IInv, NoneOver, Types
  <1> QED
    BY <1>1, <1>4, <1>5, <1>6 DEF IInv, Complete

\* Where a particle writes nobody else writes.
LEMMA WrittenOnce ==
  ASSUME IInv, pc = "build", NEW i \in Particle, NEW j \in Particle,
         NEW s, s \in Written(i), s \in Written(j)
  PROVE  i = j
  <1>1. \A p \in Particle : /\ p \in Nat /\ type[p] \in Types /\ neigh[p] \in Nat
                            /\ Nmax[type[p]] \in Nat /\ head_list[p] \in Nat
    BY ParticleType DEF IInv
  <1>2. ASSUME NEW p \in Particle, s \in Written(p)
        PROVE  s \in Nat /\ head_list[p] < s /\ s <= head_list[p] + Nmax[type[p]]
    <2> DEFINE a == neigh[p]
               b == Nmax[type[p]]
               m == Min({a, b})
               h == head_list[p]
    <2>1. a \in Nat /\ b \in Nat /\ h \in Nat
      BY <1>1
    <2>2. s \in h + 1 .. h + m
      BY <1>2 DEF Written
    <2> HIDE DEF a, b, h
    <2>3. m \in Nat /\ m <= b
      <3>1. \E x \in {a, b} : \A y \in {a, b} : x <= y
        BY <2>1
      <3>2. m \in {a, b} /\ \A y \in {a, b} : m <= y
        BY <3>1 DEF Min
      <3> QED
        BY <2>1, <3>2
    <2> HIDE DEF m
    <2>4. s \in Nat /\ h < s /\ s <= h + b
      BY <2>1, <2>2, <2>3
    <2> QED
      BY <2>4 DEF h, b
  <1>3. ASSUME NEW p \in Particle, NEW q \in Particle, p < q,
               s \in Written(p), s \in Written(q)
        PROVE  FALSE
    <2>1. head_list[p] + Nmax[type[p]] <= head_list[q]
      BY <1>3 DEF IInv, Apart
    <2> QED
      BY <1>1, <1>2, <1>3, <2>1
  <1> QED
    BY <1>1, <1>3

LEMMA BuildInv == IInv /\ Build => IInv'
  <1> SUFFICES ASSUME IInv, Build PROVE IInv'
    OBVIOUS
  <1> DEFINE at(s) == CHOOSE i \in Particle : s \in Written(i)
             n == NParticles
             over(t) == {neigh[i] : i \in {j \in Particle : type[j] = t /\ neigh[j] > Nmax[t]}}
             c(t) == Max({conditions[t]} \cup over(t))
  <1>1. /\ pc = "build" /\ pc' = "check" /\ builds' = builds + 1
        /\ type' = type /\ neigh' = neigh /\ ntypes' = ntypes
        /\ Nmax' = Nmax /\ head_list' = head_list /\ force' = force /\ built' = built
    BY DEF Build, particles
  <1>a. /\ n_neigh' = [i \in DOMAIN n_neigh |-> IF i \in Particle THEN neigh[i] ELSE n_neigh[i]]
        /\ conditions' = [t \in Types |-> c(t)]
        /\ nlist' = [s \in DOMAIN nlist |->
                       IF \E i \in Particle : s \in Written(i)
                       THEN <<at(s), s - head_list[at(s)]>> ELSE Free]
    BY DEF Build, particles
  <1>2. /\ n \in Nat /\ Particle = 1 .. n /\ n <= Len(n_neigh)
        /\ DOMAIN n_neigh = 1 .. Len(n_neigh) /\ Len(n_neigh) \in Nat
        /\ \A p \in Particle : /\ p \in Nat /\ type[p] \in Types /\ neigh[p] \in Nat
                               /\ Nmax[type[p]] \in Nat /\ head_list[p] \in Nat
    BY ParticleType DEF IInv
  <1>3. Particle' = Particle /\ Types' = Types /\ NParticles' = NParticles
    BY <1>1 DEF Particle, Types, NParticles
  <1>4. n_neigh' \in Seq(Nat) /\ Len(n_neigh') = Len(n_neigh)
    <2>1. \A i \in 1 .. Len(n_neigh) : (IF i \in Particle THEN neigh[i] ELSE n_neigh[i]) \in Nat
      BY <1>2 DEF IInv, Typed
    <2> QED
      BY <1>a, <1>2, <2>1
  <1>5. nlist' \in Seq(Nat \X Int) /\ Len(nlist') = Len(nlist)
    <2>1. Len(nlist) \in Nat /\ DOMAIN nlist = 1 .. Len(nlist)
      BY DEF IInv, Typed
    <2>2. ASSUME NEW s \in 1 .. Len(nlist), \E i \in Particle : s \in Written(i)
          PROVE  <<at(s), s - head_list[at(s)]>> \in Nat \X Int
      <3>1. at(s) \in Particle
        BY <2>2
      <3> HIDE DEF at
      <3>2. at(s) \in Nat /\ head_list[at(s)] \in Nat
        BY <1>2, <3>1
      <3> QED
        BY <3>2
    <2>3. Free \in Nat \X Int
      BY DEF Free
    <2> HIDE DEF at
    <2>4. \A s \in 1 .. Len(nlist) :
             (IF \E i \in Particle : s \in Written(i)
              THEN <<at(s), s - head_list[at(s)]>> ELSE Free) \in Nat \X Int
      BY <2>2, <2>3
    <2> QED
      BY <1>a, <2>1, <2>4
  <1>6. ASSUME NEW t \in Types
        PROVE  /\ c(t) \in Nat
               /\ c(t) = 0 \/ \E i \in Particle :
                     type[i] = t /\ neigh[i] = c(t) /\ neigh[i] > Nmax[t]
               /\ \A i \in Particle : type[i] = t /\ neigh[i] > Nmax[t] => neigh[i] <= c(t)
    <2> DEFINE S == {conditions[t]} \cup over(t)
    <2>1. conditions[t] = 0
      BY <1>1 DEF IInv, NoneOver
    <2>2. S \in SUBSET Nat /\ S # {}
      BY <1>2, <2>1
    <2>3. IsFiniteSet(S)
      <3>1. IsFiniteSet({j \in Particle : type[j] = t /\ neigh[j] > Nmax[t]})
        <4>1. IsFiniteSet(Particle)
          BY <1>2, FS_Interval
        <4> DEFINE J == {j \in Particle : type[j] = t /\ neigh[j] > Nmax[t]}
        <4>2. J \subseteq Particle
          OBVIOUS
        <4> HIDE DEF J
        <4>3. IsFiniteSet(J)
          BY <4>1, <4>2, FS_Subset
        <4> QED
          BY <4>3 DEF J
      <3>2. IsFiniteSet(over(t))
        <4> DEFINE J == {j \in Particle : type[j] = t /\ neigh[j] > Nmax[t]}
                   f == [j \in J |-> neigh[j]]
        <4>1. f \in Surjection(J, over(t))
          BY DEF Surjection
        <4> QED
          BY <3>1, <4>1, FS_Surjection
      <3> QED
        BY <3>2, FS_Singleton, FS_Union
    <2>4. Max(S) \in S /\ \A y \in S : Max(S) >= y
      <3> HIDE DEF S
      <3> QED
        BY <2>2, <2>3, LargestOfFinite
    <2>5. c(t) \in S /\ \A y \in S : c(t) >= y
      BY <2>4
    <2> HIDE DEF c
    <2> QED
      BY <1>2, <2>1, <2>2, <2>5
  <1>7. conditions' \in [Types -> Nat]
    <2> HIDE DEF c
    <2> QED
      BY <1>a, <1>6
  <1> HIDE DEF at, over, c, n
  <1>8. Typed'
    <2>1. /\ ntypes \in Nat /\ type \in Seq(Types) /\ neigh \in Seq(Nat)
          /\ Len(neigh) = NParticles /\ Nmax \in [Types -> Nat]
          /\ head_list \in Seq(Nat) /\ Len(n_neigh) = Len(head_list)
          /\ NParticles <= Len(head_list)
          /\ force \in BOOLEAN /\ built \in BOOLEAN /\ builds \in Nat
      BY DEF IInv, Typed
    <2>2. /\ ntypes' \in Nat /\ type' \in Seq(Types') /\ neigh' \in Seq(Nat)
          /\ Len(neigh') = NParticles' /\ Nmax' \in [Types' -> Nat]
          /\ conditions' \in [Types' -> Nat]
      BY <1>1, <1>3, <1>7, <2>1
    <2>3. /\ head_list' \in Seq(Nat) /\ Len(n_neigh') = Len(head_list')
          /\ NParticles' <= Len(head_list')
          /\ pc' \in {"idle", "build", "check"} /\ force' \in BOOLEAN
          /\ built' \in BOOLEAN /\ builds' \in Nat
      BY <1>1, <1>3, <1>4, <2>1
    <2> QED
      BY <1>4, <1>5, <2>2, <2>3 DEF Typed
  <1>9. Noted'
    <2>1. \A t \in Types : conditions'[t] = c(t)
      BY <1>a
    <2>2. ASSUME NEW t \in Types
          PROVE  conditions'[t] = 0 \/ \E i \in Particle :
                    type[i] = t /\ neigh[i] = conditions'[t] /\ neigh[i] > Nmax[t]
      BY <1>6, <2>1
    <2>3. ASSUME NEW i \in Particle, neigh[i] > Nmax[type[i]]
          PROVE  neigh[i] <= conditions'[type[i]]
      BY <1>2, <1>6, <2>1, <2>3
    <2> QED
      BY <1>1, <1>3, <2>2, <2>3 DEF Noted
  <1>10. Filled'
    <2> SUFFICES ASSUME NEW i \in Particle
                 PROVE  /\ n_neigh'[i] = neigh[i]
                        /\ neigh[i] <= Nmax[type[i]] =>
                              \A k \in 1 .. neigh[i] : nlist'[head_list[i] + k] = <<i, k>>
      BY <1>1, <1>3 DEF Filled
    <2>1. n_neigh'[i] = neigh[i]
      BY <1>a, <1>2
    <2>2. ASSUME neigh[i] <= Nmax[type[i]], NEW k \in 1 .. neigh[i]
          PROVE  nlist'[head_list[i] + k] = <<i, k>>
      <3> DEFINE s == head_list[i] + k
      <3>1. s \in Written(i)
        <4> DEFINE a == neigh[i]
                   b == Nmax[type[i]]
                   h == head_list[i]
        <4>1. a \in Nat /\ b \in Nat /\ h \in Nat /\ a <= b /\ k \in 1 .. a
          BY <1>2, <2>2
        <4>2. Written(i) = h + 1 .. h + Min({a, b})
          BY DEF Written
        <4>3. s = h + k
          OBVIOUS
        <4> HIDE DEF a, b, h, s
        <4>4. Min({a, b}) = a
          <5>1. a \in {a, b} /\ \A y \in {a, b} : a <= y
            BY <4>1
          <5>2. \A x \in {a, b} : (\A y \in {a, b} : x <= y) => x = a
            BY <4>1
          <5> QED
            BY <5>1, <5>2 DEF Min
        <4> QED
          BY <4>1, <4>2, <4>3, <4>4
      <3>2. s \in DOMAIN nlist
        <4>1. head_list[i] + Nmax[type[i]] <= Len(nlist)
          BY <1>1 DEF IInv, Apart, Capacity
        <4>2. Len(nlist) \in Nat /\ DOMAIN nlist = 1 .. Len(nlist)
          BY DEF IInv, Typed
        <4> QED
          BY <1>2, <2>2, <4>1, <4>2
      <3>3. at(s) = i
        <4>1. at(s) \in Particle /\ s \in Written(at(s))
          BY <3>1 DEF at
        <4> HIDE DEF s
        <4> QED
          BY <1>1, <3>1, <4>1, WrittenOnce
      <3>4. nlist'[s] = <<at(s), s - head_list[at(s)]>>
        <4> HIDE DEF s
        <4> QED
          BY <1>a, <3>1, <3>2
      <3>5. s - head_list[i] = k
        BY <1>2, <2>2
      <3> QED
        BY <3>3, <3>4, <3>5
    <2> QED
      BY <2>1, <2>2
  <1>11. Apart(head_list, Nmax, Capacity)'
    BY <1>1, <1>3, <1>5 DEF IInv, Apart, Capacity
  <1>12. builds' = 1 \/ (builds' = 2 /\ Fits')
    BY <1>1, <1>3 DEF IInv, Fits
  <1> QED
    BY <1>1, <1>8, <1>9, <1>10, <1>11, <1>12 DEF IInv, Complete

\* The room found for c neighbors holds them.
LEMMA RoundedEnough ==
  ASSUME NEW c \in Nat
  PROVE  Rounded(c) \in Nat /\ c <= Rounded(c)
  <1>1. Chunk \in Nat /\ Chunk > 0
    BY StorageAssumption
  <1> DEFINE q == (c + Chunk - 1) \div Chunk
             r == (c + Chunk - 1) % Chunk
  <1>2. CASE c > Chunk
    <2>1. /\ q \in Nat /\ r \in 0 .. (Chunk - 1)
          /\ c + Chunk - 1 = Chunk * q + r
      BY <1>1
    <2>2. Chunk * q \in Nat /\ Chunk * q = q * Chunk
      BY <1>1, <2>1
    <2>3. Rounded(c) = q * Chunk
      BY <1>2 DEF Rounded
    <2> DEFINE x == Chunk * q
    <2> HIDE DEF q, r
    <2>4. x \in Nat /\ c + Chunk - 1 = x + r /\ Rounded(c) = x
      BY <2>1, <2>2, <2>3
    <2> HIDE DEF x
    <2> QED
      BY <1>1, <2>1, <2>4
  <1>3. CASE ~(c > Chunk)
    BY <1>1, <1>3 DEF Rounded
  <1> QED
    BY <1>2, <1>3

\* After an overflow of the first build there is room for everybody.
LEMMA OverflowInv == IInv /\ Check /\ Overflowed => IInv'
  <1> SUFFICES ASSUME IInv, Check, Overflowed PROVE IInv'
    OBVIOUS
  <1> DEFINE m == [t \in Types |-> IF conditions[t] > Nmax[t]
                                   THEN Rounded(conditions[t]) ELSE Nmax[t]]
  <1>1. /\ pc = "check" /\ pc' = "build" /\ Nmax' = m /\ buildHeadList(Nmax')
        /\ conditions' = [t \in Types |-> 0] /\ built' = built
        /\ type' = type /\ neigh' = neigh /\ ntypes' = ntypes
        /\ n_neigh' = n_neigh /\ force' = force /\ builds' = builds
    BY DEF Check, particles
  <1>2. buildHeadList(m)
    BY <1>1
  <1>3. /\ Nmax \in [Types -> Nat] /\ conditions \in [Types -> Nat]
        /\ \A p \in Particle : type[p] \in Types /\ neigh[p] \in Nat
    BY ParticleType DEF IInv, Typed
  <1>4. ASSUME NEW t \in Types
        PROVE  m[t] \in Nat /\ Nmax[t] <= m[t] /\ conditions[t] <= m[t]
    <2> DEFINE c == conditions[t]
               k == Nmax[t]
    <2>1. c \in Nat /\ k \in Nat
      BY <1>3
    <2>2. m[t] = IF c > k THEN Rounded(c) ELSE k
      OBVIOUS
    <2> HIDE DEF m, c, k
    <2>3. Rounded(c) \in Nat /\ c <= Rounded(c)
      BY <2>1, RoundedEnough
    <2>4. m[t] \in Nat /\ k <= m[t] /\ c <= m[t]
      BY <2>1, <2>2, <2>3
    <2> QED
      BY <2>4 DEF c, k
  <1>5. m \in [Types -> Nat]
    <2>1. m = [t \in Types |-> m[t]]
      OBVIOUS
    <2> HIDE DEF m
    <2> QED
      BY <1>4, <2>1
  <1> HIDE DEF m
  <1>6. /\ head_list' \in Seq(Nat) /\ Len(head_list') = Len(head_list)
        /\ nlist' \in Seq(Nat \X Int) /\ Apart(head_list', m, Len(nlist'))
    BY <1>2, <1>5, HeadsBuilt DEF IInv
  <1>7. Particle' = Particle /\ Types' = Types /\ NParticles' = NParticles
    BY <1>1 DEF Particle, Types, NParticles
  <1>8. Typed'
    BY <1>1, <1>5, <1>6, <1>7 DEF IInv, Typed
  <1>9. Apart(head_list, Nmax, Capacity)'
    BY <1>1, <1>6, <1>7 DEF Apart, Capacity
  <1>10. NoneOver'
    BY <1>1, <1>7 DEF NoneOver
  <1>11. Fits'
    <2>1. ASSUME NEW i \in Particle PROVE neigh[i] <= m[type[i]]
      <3> DEFINE a == neigh[i]
                 b == Nmax[type[i]]
                 c == conditions[type[i]]
                 d == m[type[i]]
      <3>1. /\ a \in Nat /\ b \in Nat /\ c \in Nat /\ d \in Nat
            /\ b <= d /\ c <= d
        BY <1>3, <1>4
      <3>2. a > b => a <= c
        BY <1>1 DEF IInv, Noted
      <3> HIDE DEF a, b, c, d
      <3>3. a <= d
        BY <3>1, <3>2
      <3> QED
        BY <3>3 DEF a, d
    <2> QED
      BY <1>1, <1>7, <2>1 DEF Fits
  <1>12. builds = 1
    <2> SUFFICES ASSUME builds = 2, Fits PROVE FALSE
      BY <1>1 DEF IInv
    <2>1. PICK t \in Types : conditions[t] > Nmax[t]
      BY DEF Overflowed
    <2>2. conditions[t] # 0
      BY <1>3, <2>1
    <2>3. PICK i \in Particle : type[i] = t /\ neigh[i] > Nmax[t]
      BY <1>1, <2>2 DEF IInv, Noted
    <2> QED
      BY <1>3, <2>3 DEF Fits
  <1> QED
    BY <1>1, <1>8, <1>9, <1>10, <1>11, <1>12 DEF IInv, Complete

\* A build without overflow has everything.
LEMMA ReturnInv == IInv /\ Check /\ ~Overflowed => IInv'
  <1> SUFFICES ASSUME IInv, Check, ~Overflowed PROVE IInv'
    OBVIOUS
  <1>1. /\ pc = "check" /\ pc' = "idle" /\ built' = TRUE /\ Nmax' = Nmax
        /\ head_list' = head_list /\ nlist' = nlist /\ conditions' = conditions
        /\ type' = type /\ neigh' = neigh /\ ntypes' = ntypes
        /\ n_neigh' = n_neigh /\ force' = force /\ builds' = builds
    BY DEF Check, particles
  <1>2. Particle' = Particle /\ Types' = Types /\ NParticles' = NParticles
    BY <1>1 DEF Particle, Types, NParticles
  <1>3. /\ \A t \in Types : Nmax[t] \in Nat /\ conditions[t] \in Nat
        /\ \A p \in Particle : /\ type[p] \in Types /\ neigh[p] \in Nat
                               /\ head_list[p] \in Nat
    BY ParticleType DEF IInv, Typed
  <1>4. ASSUME NEW t \in Types PROVE conditions[t] = 0
    <2>1. ~(conditions[t] > Nmax[t])
      BY DEF Overflowed
    <2> QED
      BY <1>1, <2>1 DEF IInv, Noted
  <1>5. ASSUME NEW i \in Particle PROVE neigh[i] <= Nmax[type[i]]
    <2> DEFINE a == neigh[i]
               b == Nmax[type[i]]
    <2>1. a \in Nat /\ b \in Nat /\ conditions[type[i]] = 0
      BY <1>3, <1>4
    <2>2. a > b => a <= 0
      BY <1>1, <2>1 DEF IInv, Noted
    <2> HIDE DEF a, b
    <2>3. a <= b
      BY <2>1, <2>2
    <2> QED
      BY <2>3 DEF a, b
  <1>6. Typed'
    BY <1>1, <1>2 DEF IInv, Typed
  <1>7. Apart(head_list, Nmax, Capacity)'
    BY <1>1, <1>2 DEF IInv, Apart, Capacity
  <1>8. NoneOver'
    BY <1>1, <1>2, <1>4 DEF NoneOver
  <1>9. Complete'
    <2> SUFFICES ASSUME NEW i \in Particle
                 PROVE  /\ n_neigh[i] = neigh[i]
                        /\ head_list[i] + neigh[i] <= Len(nlist)
                        /\ \A k \in 1 .. neigh[i] : nlist[head_list[i] + k] = <<i, k>>
      BY <1>1, <1>2 DEF Complete, Capacity
    <2>1. /\ n_neigh[i] = neigh[i]
          /\ \A k \in 1 .. neigh[i] : nlist[head_list[i] + k] = <<i, k>>
      BY <1>1, <1>5 DEF IInv, Filled
    <2>2. head_list[i] + neigh[i] <= Len(nlist)
      <3> DEFINE a == neigh[i]
                 b == Nmax[type[i]]
                 h == head_list[i]
                 n == Len(nlist)
      <3>1. a \in Nat /\ b \in Nat /\ h \in Nat /\ n \in Nat /\ a <= b
        BY <1>3, <1>5 DEF IInv, Typed
      <3>2. h + b <= n
        BY <1>1 DEF IInv, Apart, Capacity
      <3> HIDE DEF a, b, h, n
      <3>3. h + a <= n
        BY <3>1, <3>2
      <3> QED
        BY <3>3 DEF a, h, n
    <2> QED
      BY <2>1, <2>2
  <1>10. builds' <= 2
    BY <1>1 DEF IInv
  <1> QED
    BY <1>1, <1>6, <1>7, <1>8, <1>9, <1>10 DEF IInv

LEMMA NextInv == IInv /\ [Next]_vars => IInv'
  <1> SUFFICES ASSUME IInv, [Next]_vars PROVE IInv'
    OBVIOUS
  <1>1. CASE Check
    BY <1>1, OverflowInv, ReturnInv
  <1>2. CASE UNCHANGED vars
    <2>1. /\ type' = type /\ neigh' = neigh /\ ntypes' = ntypes /\ Nmax' = Nmax
          /\ conditions' = conditions /\ head_list' = head_list /\ nlist' = nlist
          /\ n_neigh' = n_neigh /\ force' = force /\ pc' = pc /\ builds' = builds
          /\ built' = built
      BY <1>2 DEF vars
    <2> QED
      BY <2>1 DEF IInv, Typed, Apart, NoneOver, Fits, Noted, Filled, Complete,
                  NParticles, Particle, Types, Capacity
  <1> QED
    BY <1>1, <1>2, SortInv, ChangeNInv, AddTypeInv, ComputeInv, BuildInv DEF Next

\* The list of a rank is written within its memory and by nobody twice, and is
\* complete when compute() returns, after at most two builds, whatever was
\* sorted, moved, added or found too small before.
THEOREM StorageCorrect == Spec => []StorageRight
  <1>1. IInv /\ [Next]_vars => IInv'
    BY NextInv
  <1>2. Spec => []IInv
    BY <1>1, InitInv, PTL DEF Spec
  <1> QED
    BY <1>2, Right, PTL
=============================================================================
