------------------------- MODULE ParticleDataProofs -------------------------
(***************************************************************************)
(* What holds of the particle arrays for any number of ranks and tags.     *)
(***************************************************************************)
EXTENDS ParticleData, FiniteSetTheorems, SequenceTheorems, TLAPS

-----------------------------------------------------------------------------
(* InOrder(S) enumerates S: packing particles loses and repeats none.      *)

\* Smaller elements come first.
LEMMA PositionMonotone ==
  ASSUME NEW S \in SUBSET Nat, IsFiniteSet(S), NEW x \in S, NEW y \in S, x < y
  PROVE  /\ Position(S, x) \in Nat /\ Position(S, y) \in Nat
         /\ Position(S, x) < Position(S, y)
  <1> DEFINE A == {u \in S : u < x}
             B == {u \in S : u < y}
  <1>1. A \in SUBSET S /\ B \in SUBSET S /\ A \in SUBSET B
    <2>1. \A u \in S : u < x => u < y
      <3> \A u \in S : u \in Nat
        OBVIOUS
      <3> x \in Nat /\ y \in Nat
        OBVIOUS
      <3> QED
        OBVIOUS
    <2> QED
      BY <2>1
  <1>2. IsFiniteSet(A) /\ IsFiniteSet(B)
    BY <1>1, FS_Subset
  <1>3. A # B
    OBVIOUS
  <1>4. Cardinality(A) <= Cardinality(B) /\ Cardinality(A) # Cardinality(B)
    BY <1>1, <1>2, <1>3, FS_Subset
  <1>5. Cardinality(A) \in Nat /\ Cardinality(B) \in Nat
    BY <1>2, FS_CardinalityType
  <1> HIDE DEF A, B
  <1>6. Cardinality(A) < Cardinality(B)
    BY <1>4, <1>5
  <1> QED
    BY <1>5, <1>6 DEF Position, A, B

\* Every position below the number of elements is taken by one element.
LEMMA PositionOnto ==
  ASSUME NEW S \in SUBSET Nat, IsFiniteSet(S),
         NEW i \in 0 .. (Cardinality(S) - 1)
  PROVE  \E x \in S : Position(S, x) = i
  <1> DEFINE n == Cardinality(S)
             T == 0 .. (n - 1)
             f == [x \in S |-> Position(S, x)]
  <1>1. n \in Nat
    BY FS_CardinalityType
  <1>2. IsFiniteSet(T) /\ Cardinality(T) = n
    BY <1>1, FS_Interval
  <1>3. ASSUME NEW x \in S
        PROVE  Position(S, x) \in T
    <2> DEFINE A == {u \in S : u < x}
    <2>1. A \in SUBSET S /\ A # S
      BY <1>3
    <2>2. IsFiniteSet(A) /\ Cardinality(A) <= n /\ Cardinality(A) # n
      BY <2>1, FS_Subset
    <2>3. Cardinality(A) \in Nat
      BY <2>2, FS_CardinalityType
    <2> HIDE DEF A, n
    <2>4. Cardinality(A) \in 0 .. (n - 1)
      BY <1>1, <2>2, <2>3
    <2> QED
      BY <2>4 DEF Position, A
  <1>4. ASSUME NEW x \in S, NEW y \in S, f[x] = f[y]
        PROVE  x = y
    <2>1. x \in Nat /\ y \in Nat /\ Position(S, x) = Position(S, y)
      BY <1>4
    <2>2. ~(x < y)
      BY <2>1, PositionMonotone
    <2>3. ~(y < x)
      BY <2>1, PositionMonotone
    <2> QED
      BY <2>1, <2>2, <2>3
  <1>5. f \in Injection(S, T)
    BY <1>3, <1>4 DEF Injection, IsInjective
  <1> HIDE DEF f, T
  <1>6. f \in Surjection(S, T)
    BY <1>2, <1>5, FS_Injection
  <1>7. \E x \in S : f[x] = i
    BY <1>6 DEF Surjection, T
  <1> QED
    BY <1>7 DEF f

\* InOrder(S) is a bijection from 0 .. |S| - 1 to S.
LEMMA InOrderBijection ==
  ASSUME NEW S \in SUBSET Nat, IsFiniteSet(S)
  PROVE  /\ Cardinality(S) \in Nat
         /\ InOrder(S) \in [0 .. (Cardinality(S) - 1) -> S]
         /\ \A i, j \in 0 .. (Cardinality(S) - 1) :
               InOrder(S)[i] = InOrder(S)[j] => i = j
         /\ \A x \in S : \E i \in 0 .. (Cardinality(S) - 1) : InOrder(S)[i] = x
  <1> DEFINE n == Cardinality(S)
             T == 0 .. (n - 1)
  <1>1. n \in Nat
    BY FS_CardinalityType
  <1>2. \A i \in T : InOrder(S)[i] \in S /\ Position(S, InOrder(S)[i]) = i
    BY PositionOnto DEF InOrder
  <1>3. InOrder(S) \in [T -> S]
    BY <1>2 DEF InOrder
  <1>4. \A i, j \in T : InOrder(S)[i] = InOrder(S)[j] => i = j
    BY <1>2
  <1>5. InOrder(S) \in Injection(T, S)
    BY <1>3, <1>4 DEF Injection, IsInjective
  <1>6. Cardinality(T) = n
    BY <1>1, FS_Interval
  <1>7. InOrder(S) \in Surjection(T, S)
    BY <1>5, <1>6, FS_Injection
  <1> QED
    BY <1>1, <1>3, <1>4, <1>7 DEF Surjection

-----------------------------------------------------------------------------
(* The operators on the arrays of one rank keep them well formed.          *)

RTags == [Tags -> Nat \cup {NOT_LOCAL}]

\* No particle of the rank is marked for sending.
Unmarked(d) == Leaving(d) = {}

LEMMA ArraysFields ==
  ASSUME NEW d, IsParticleArrays(d)
  PROVE  /\ d.m_nparticles \in Nat /\ d.m_nghosts \in Nat
         /\ d.m_tag \in Array(d.m_nparticles + d.m_nghosts)
         /\ d.m_rtag \in RTags /\ d.m_comm_flags \in SUBSET Nat
  BY DEF IsParticleArrays, RTags

\* The arrays as a record set without dependent fields.
Shaped == [m_nparticles : Nat, m_nghosts : Nat,
           m_tag : UNION {Array(n) : n \in Nat},
           m_rtag : RTags, m_comm_flags : SUBSET Nat]

LEMMA ArraysShaped ==
  ASSUME NEW d, IsParticleArrays(d)
  PROVE  d \in Shaped
  BY DEF IsParticleArrays, Shaped, RTags

LEMMA RemoveGhostsType ==
  ASSUME NEW d, IsParticleArrays(d)
  PROVE  LET e == removeAllGhostParticles(d)
         IN  /\ IsParticleArrays(e) /\ e.m_nghosts = 0
             /\ e.m_nparticles = d.m_nparticles
             /\ e.m_comm_flags = d.m_comm_flags
             /\ Unmarked(d) => Unmarked(e)
  <1> DEFINE m == [i \in Locals(d) |-> d.m_tag[i]]
             rtag == [t \in Tags |-> IF \E i \in Ghosts(d) : d.m_tag[i] = t
                                     THEN NOT_LOCAL ELSE d.m_rtag[t]]
  <1>1. m \in Array(d.m_nparticles + 0)
    BY ArraysFields DEF Array, Locals
  <1>2. rtag \in RTags
    BY ArraysFields DEF RTags
  <1>3. d \in Shaped
    BY ArraysShaped
  <1>4. d.m_nparticles \in Nat /\ d.m_comm_flags \in SUBSET Nat /\ 0 \in Nat
    BY ArraysFields
  <1> DEFINE e == removeAllGhostParticles(d)
  <1>5. e = [d EXCEPT !.m_nghosts = 0, !.m_tag = m, !.m_rtag = rtag]
    BY DEF removeAllGhostParticles
  <1> HIDE DEF m, rtag, e
  <1>6. e = [m_nparticles |-> d.m_nparticles, m_nghosts |-> 0, m_tag |-> m,
             m_rtag |-> rtag, m_comm_flags |-> d.m_comm_flags]
    BY <1>3, <1>5 DEF Shaped
  <1>7. /\ IsParticleArrays(e) /\ e.m_nparticles = d.m_nparticles
        /\ e.m_nghosts = 0 /\ e.m_comm_flags = d.m_comm_flags
    BY <1>1, <1>2, <1>4, <1>6 DEF IsParticleArrays, RTags
  <1> QED
    BY <1>7 DEF e, Unmarked, Leaving, Locals

LEMMA RebuiltType ==
  ASSUME NEW n \in Nat, NEW m, NEW rtag \in RTags
  PROVE  Rebuilt(m, n, rtag) \in RTags
  BY DEF Rebuilt, RTags

LEMMA LocalsFinite ==
  ASSUME NEW d, IsParticleArrays(d), NEW S \in SUBSET Locals(d)
  PROVE  /\ S \in SUBSET Nat /\ IsFiniteSet(S) /\ Cardinality(S) \in Nat
         /\ Cardinality(S) <= d.m_nparticles
  <1>1. d.m_nparticles \in Nat
    BY ArraysFields
  <1> DEFINE top == d.m_nparticles - 1
  <1>2. IsFiniteSet(Locals(d)) /\ Cardinality(Locals(d)) = d.m_nparticles
    <2>1. top \in Int /\ Locals(d) = 0 .. top
      BY <1>1 DEF Locals
    <2>2. top = d.m_nparticles - 1
      OBVIOUS
    <2> HIDE DEF top
    <2>3. IsFiniteSet(0 .. top)
          /\ Cardinality(0 .. top) = IF 0 > top THEN 0 ELSE top - 0 + 1
      BY <2>1, FS_Interval
    <2> QED
      BY <1>1, <2>1, <2>2, <2>3
  <1>3. IsFiniteSet(S) /\ Cardinality(S) <= d.m_nparticles
    BY <1>2, FS_Subset
  <1>4. Cardinality(S) \in Nat
    BY <1>3, FS_CardinalityType
  <1>5. S \in SUBSET Nat
    BY <1>1 DEF Locals
  <1> QED
    BY <1>3, <1>4, <1>5

LEMMA SentType ==
  ASSUME NEW d, IsParticleArrays(d)
  PROVE  Length(Sent(d)) \in Nat /\ Sent(d) \in Array(Length(Sent(d)))
  <1> DEFINE S == Leaving(d)
             n == Cardinality(S)
  <1>1. S \in SUBSET Locals(d)
    BY DEF Leaving
  <1>2. S \in SUBSET Nat /\ IsFiniteSet(S) /\ n \in Nat
    BY <1>1, LocalsFinite
  <1>3. InOrder(S) \in [0 .. (n - 1) -> S]
    BY <1>2, InOrderBijection
  <1>4. \A i \in S : d.m_tag[i] \in Tags
    BY <1>1, ArraysFields DEF Array, Locals
  <1> HIDE DEF n
  <1>5. Sent(d) \in Array(n)
    <2> HIDE DEF S
    <2>1. DOMAIN InOrder(S) = 0 .. (n - 1)
      BY <1>3
    <2>2. \A i \in 0 .. (n - 1) : d.m_tag[InOrder(S)[i]] \in Tags
      BY <1>3, <1>4
    <2> QED
      BY <2>1, <2>2 DEF Sent, Array, S
  <1>6. Length(Sent(d)) = n
    BY <1>2, <1>5, FS_Interval DEF Length, Array
  <1> QED
    BY <1>2, <1>5, <1>6

LEMMA RemoveParticlesType ==
  ASSUME NEW d, IsParticleArrays(d), d.m_nghosts = 0
  PROVE  LET e == removeParticles(d)
         IN  IsParticleArrays(e) /\ e.m_nghosts = 0 /\ Unmarked(e)
  <1> DEFINE S == Locals(d) \ Leaving(d)
             n == Cardinality(S)
             packed == [i \in 0 .. (n - 1) |-> d.m_tag[InOrder(S)[i]]]
             erased == [t \in Tags |-> IF \E i \in Leaving(d) : d.m_tag[i] = t
                                       THEN NOT_LOCAL ELSE d.m_rtag[t]]
             flags == d.m_comm_flags \ (0 .. (n - 1))
  <1>1. S \in SUBSET Nat /\ IsFiniteSet(S) /\ n \in Nat
    BY LocalsFinite
  <1>2. InOrder(S) \in [0 .. (n - 1) -> S]
    BY <1>1, InOrderBijection
  <1>3. \A i \in S : d.m_tag[i] \in Tags
    BY ArraysFields DEF Array, Locals
  <1>4. packed \in Array(n)
    <2> HIDE DEF S, n
    <2> QED
      BY <1>2, <1>3 DEF Array
  <1>5. erased \in RTags
    BY ArraysFields DEF RTags
  <1>6. flags \in SUBSET Nat
    BY ArraysFields
  <1> DEFINE e == removeParticles(d)
  <1>7. e = [d EXCEPT !.m_nparticles = n, !.m_tag = packed,
                      !.m_rtag = Rebuilt(packed, n, erased),
                      !.m_comm_flags = flags]
    BY DEF removeParticles
  <1> HIDE DEF S, n, packed, erased, e
  <1>8. Rebuilt(packed, n, erased) \in RTags
    BY <1>1, <1>5, RebuiltType
  <1>9. packed \in Array(n + 0) /\ flags \cap (0 .. (n - 1)) = {}
    BY <1>1, <1>4
  <1> HIDE DEF flags
  <1>10. e = [m_nparticles |-> n, m_nghosts |-> 0, m_tag |-> packed,
              m_rtag |-> Rebuilt(packed, n, erased), m_comm_flags |-> flags]
    <2>1. d \in Shaped
      BY ArraysShaped
    <2> QED
      BY <1>1, <1>7, <2>1 DEF Shaped
  <1>11. IsParticleArrays(e) /\ e.m_nghosts = 0
    BY <1>1, <1>6, <1>8, <1>9, <1>10 DEF IsParticleArrays, RTags
  <1>12. Unmarked(e)
    BY <1>9, <1>10 DEF Unmarked, Leaving, Locals
  <1> QED
    BY <1>11, <1>12 DEF e

LEMMA AddParticlesType ==
  ASSUME NEW d, IsParticleArrays(d), d.m_nghosts = 0,
         NEW b, Length(b) \in Nat, b \in Array(Length(b))
  PROVE  LET e == addParticles(d, b)
         IN  /\ IsParticleArrays(e) /\ e.m_nghosts = 0
             /\ Unmarked(d) => Unmarked(e)
  <1> DEFINE n == d.m_nparticles + Length(b)
             m == [i \in 0 .. (n - 1) |-> IF i < d.m_nparticles
                                          THEN d.m_tag[i]
                                          ELSE b[i - d.m_nparticles]]
             flags == d.m_comm_flags \ (d.m_nparticles .. (n - 1))
  <1>1. n \in Nat
    BY ArraysFields
  <1>2. m \in Array(n)
    BY ArraysFields DEF Array
  <1>3. flags \in SUBSET Nat
    BY ArraysFields
  <1> DEFINE e == addParticles(d, b)
  <1>4. e = [d EXCEPT !.m_nparticles = n, !.m_tag = m,
                      !.m_rtag = Rebuilt(m, n, d.m_rtag),
                      !.m_comm_flags = flags]
    BY DEF addParticles
  <1>5. Rebuilt(m, n, d.m_rtag) \in RTags
    BY <1>1, ArraysFields, RebuiltType
  <1>6. Unmarked(d) => flags \cap (0 .. (n - 1)) = {}
    BY ArraysFields DEF Unmarked, Leaving, Locals
  <1>7. m \in Array(n + 0)
    BY <1>1, <1>2
  <1> HIDE DEF n, m, flags, e
  <1>8. e = [m_nparticles |-> n, m_nghosts |-> 0, m_tag |-> m,
             m_rtag |-> Rebuilt(m, n, d.m_rtag), m_comm_flags |-> flags]
    <2>1. d \in Shaped
      BY ArraysShaped
    <2> QED
      BY <1>1, <1>4, <2>1 DEF Shaped
  <1>9. IsParticleArrays(e) /\ e.m_nghosts = 0
    BY <1>1, <1>3, <1>5, <1>7, <1>8 DEF IsParticleArrays, RTags
  <1>10. Unmarked(d) => Unmarked(e)
    <2> HAVE Unmarked(d)
    <2> QED
      BY <1>6, <1>8 DEF Unmarked, Leaving, Locals
  <1> QED
    BY <1>9, <1>10 DEF e

LEMMA SwapLastType ==
  ASSUME NEW d, IsParticleArrays(d), d.m_nghosts = 0, d.m_nparticles > 0,
         Unmarked(d), NEW idx \in Nat \cup {NOT_LOCAL}
  PROVE  LET e == SwapLast(d, idx)
         IN  IsParticleArrays(e) /\ e.m_nghosts = 0 /\ Unmarked(e)
  <1> DEFINE last == d.m_nparticles - 1
             m == [i \in 0 .. (last - 1) |->
                      d.m_tag[IF i = idx THEN last ELSE i]]
             rtag == IF idx < last THEN [d.m_rtag EXCEPT ![d.m_tag[last]] = idx]
                                   ELSE d.m_rtag
             flags == IF idx < last
                      THEN (d.m_comm_flags \ {idx}) \cup
                           {i \in {idx} : last \in d.m_comm_flags}
                      ELSE d.m_comm_flags
  <1>1. last \in Nat /\ last \in Locals(d)
    BY ArraysFields DEF Locals
  <1>2. m \in Array(last)
    BY <1>1, ArraysFields DEF Array
  <1>3. rtag \in RTags
    BY ArraysFields DEF RTags
  <1>4. last \notin d.m_comm_flags
    BY <1>1 DEF Unmarked, Leaving
  <1>5. flags \in SUBSET Nat /\ flags \in SUBSET d.m_comm_flags
    BY <1>4, ArraysFields
  <1> DEFINE e == SwapLast(d, idx)
  <1>6. e = [d EXCEPT !.m_nparticles = last, !.m_tag = m, !.m_rtag = rtag,
                      !.m_comm_flags = flags]
    BY DEF SwapLast
  <1>7. flags \cap (0 .. (last - 1)) = {}
    BY <1>1, <1>5, ArraysFields DEF Unmarked, Leaving, Locals
  <1>8. m \in Array(last + 0)
    BY <1>1, <1>2
  <1> HIDE DEF last, m, rtag, flags, e
  <1>9. e = [m_nparticles |-> last, m_nghosts |-> 0, m_tag |-> m,
             m_rtag |-> rtag, m_comm_flags |-> flags]
    <2>1. d \in Shaped
      BY ArraysShaped
    <2> QED
      BY <1>1, <1>6, <2>1 DEF Shaped
  <1>10. IsParticleArrays(e) /\ e.m_nghosts = 0
    BY <1>1, <1>3, <1>5, <1>8, <1>9 DEF IsParticleArrays, RTags
  <1>11. Unmarked(e)
    BY <1>7, <1>9 DEF Unmarked, Leaving, Locals
  <1> QED
    BY <1>10, <1>11 DEF e

LEMMA ScatteredType ==
  ASSUME NEW k \in 0 .. MaxTags, NEW place, NEW r
  PROVE  LET e == Scattered(place, k, r)
         IN  IsParticleArrays(e) /\ e.m_nghosts = 0 /\ Unmarked(e)
  <1> DEFINE S == {t \in 0 .. (k - 1) : place[t] = r}
             n == Cardinality(S)
             rtag == [t \in Tags |-> IF t < k THEN NOT_LOCAL ELSE 0]
  <1>1. S \in SUBSET (0 .. (k - 1)) /\ S \in SUBSET Nat /\ S \in SUBSET Tags
    BY ParticleDataAssumption DEF Tags
  <1>2. IsFiniteSet(S)
    <2>1. IsFiniteSet(0 .. (k - 1))
      <3>1. k - 1 \in Int
        OBVIOUS
      <3> QED
        BY <3>1, FS_Interval
    <2> QED
      BY <1>1, <2>1, FS_Subset
  <1>3. n \in Nat /\ InOrder(S) \in [0 .. (n - 1) -> S]
    BY <1>1, <1>2, InOrderBijection
  <1>4. rtag \in RTags
    BY DEF RTags
  <1>5. Scattered(place, k, r) =
           [m_nparticles |-> n, m_nghosts |-> 0, m_tag |-> InOrder(S),
            m_rtag |-> Rebuilt(InOrder(S), n, rtag), m_comm_flags |-> {}]
    BY DEF Scattered
  <1> HIDE DEF S, n, rtag
  <1>6. InOrder(S) \in Array(n)
    BY <1>1, <1>3 DEF Array
  <1>7. Rebuilt(InOrder(S), n, rtag) \in RTags
    BY <1>3, <1>4, RebuiltType
  <1> QED
    BY <1>3, <1>5, <1>6, <1>7
    DEF IsParticleArrays, Unmarked, Leaving, RTags

\* A finite set of numbers has a greatest element.
LEMMA MaximumType ==
  ASSUME NEW S \in SUBSET Nat, IsFiniteSet(S), S # {}
  PROVE  getMaximumTag(S) \in S /\ \A u \in S : u <= getMaximumTag(S)
  <1> DEFINE n == Cardinality(S)
  <1>1. n \in Nat /\ n # 0
    BY FS_CardinalityType, FS_EmptySet
  <1>2. n - 1 \in 0 .. (n - 1)
    BY <1>1
  <1>3. PICK x \in S : Position(S, x) = n - 1
    BY <1>2, PositionOnto
  <1>4. ASSUME NEW u \in S
        PROVE  u <= x
    <2>1. SUFFICES ASSUME x < u PROVE FALSE
      <3> u \in Nat /\ x \in Nat
        OBVIOUS
      <3> QED
        OBVIOUS
    <2>2. Position(S, u) \in Nat /\ n - 1 < Position(S, u)
      BY <1>3, <2>1, PositionMonotone
    <2> DEFINE A == {v \in S : v < u}
    <2>3. A \in SUBSET S /\ A # S
      BY <1>4
    <2>4. Cardinality(A) <= n /\ Cardinality(A) # n
      BY <2>3, FS_Subset
    <2> HIDE DEF A, n
    <2>5. Position(S, u) <= n /\ Position(S, u) # n
      BY <2>4 DEF Position, A
    <2> QED
      BY <1>1, <2>2, <2>5
  <1>5. \E t \in S : \A u \in S : u <= t
    BY <1>4
  <1> QED
    BY <1>5 DEF getMaximumTag

-----------------------------------------------------------------------------
(* The invariant.  While particles are on their way no rank has ghosts, and *)
(* a rank that has nothing to send has no particle marked.                  *)

NoGhosts(p) == \A r \in Ranks : p[r].m_nghosts = 0
Bare == ~Quiet => NoGhosts(pd)
Marks == \A r \in Ranks : dest[r] = Nobody => Unmarked(pd[r])
WireFinite == \A r \in Ranks : Length(wire[r]) \in Nat

IInv == TypeOK /\ WireFinite /\ Bare /\ Marks

LEMMA EmptyType == Length(Empty) = 0 /\ Empty \in Array(0)
  <1>1. 0 .. -1 = {}
    OBVIOUS
  <1>2. DOMAIN Empty = {}
    BY <1>1 DEF Empty
  <1>3. Length(Empty) = 0
    BY <1>2, FS_EmptySet DEF Length
  <1> QED
    BY <1>3 DEF Empty, Array

LEMMA InitIInv == Init => IInv
  <1> SUFFICES ASSUME Init PROVE IInv
    OBVIOUS
  <1>1. PICK k \in 0 .. MaxTags : \E place \in [0 .. (k - 1) -> Ranks] :
           /\ m_nglobal = k /\ m_tag_set = 0 .. (k - 1) /\ m_rtag_size = k
           /\ pd = [r \in Ranks |-> Scattered(place, k, r)]
    BY DEF Init
  <1>2. PICK place \in [0 .. (k - 1) -> Ranks] :
           /\ m_nglobal = k /\ m_tag_set = 0 .. (k - 1) /\ m_rtag_size = k
           /\ pd = [r \in Ranks |-> Scattered(place, k, r)]
    BY <1>1
  <1>3. \A r \in Ranks : IsParticleArrays(pd[r]) /\ pd[r].m_nghosts = 0
                          /\ Unmarked(pd[r])
    BY <1>2, ScatteredType
  <1>4. /\ m_nglobal \in Nat /\ m_tag_set \subseteq Tags /\ m_rtag_size \in Nat
        /\ m_recycled_tags \in Seq(Tags) /\ m_cached_tag_set \subseteq Tags
        /\ m_invalid_cached_tags \in BOOLEAN
    BY <1>2, ParticleDataAssumption DEF Init, Tags
  <1>5. \A r \in Ranks : wire[r] = Empty /\ dest[r] = Nobody
    BY DEF Init
  <1>6. /\ DOMAIN pd = Ranks /\ DOMAIN wire = Ranks
        /\ dest \in [Ranks -> Ranks \cup {Nobody}]
    BY <1>2 DEF Init
  <1>7. \A r \in Ranks : wire[r] \in Array(Length(wire[r]))
                          /\ Length(wire[r]) \in Nat
    BY <1>5, EmptyType
  <1> QED
    BY <1>3, <1>4, <1>5, <1>6, <1>7
    DEF IInv, TypeOK, WireFinite, Bare, Marks, NoGhosts

LEMMA WithoutGhostsType ==
  ASSUME IInv
  PROVE  /\ DOMAIN WithoutGhosts = Ranks
         /\ \A r \in Ranks :
               LET e == WithoutGhosts[r]
               IN  /\ e = removeAllGhostParticles(pd[r])
                   /\ IsParticleArrays(e) /\ e.m_nghosts = 0
                   /\ e.m_nparticles = pd[r].m_nparticles
                   /\ e.m_comm_flags = pd[r].m_comm_flags
                   /\ dest[r] = Nobody => Unmarked(e)
  <1>1. \A r \in Ranks : WithoutGhosts[r] = removeAllGhostParticles(pd[r])
    BY DEF WithoutGhosts
  <1>2. \A r \in Ranks : IsParticleArrays(pd[r])
                         /\ (dest[r] = Nobody => Unmarked(pd[r]))
    BY DEF IInv, TypeOK, Marks
  <1> QED
    BY <1>1, <1>2, RemoveGhostsType DEF WithoutGhosts

\* The marked rtag of a tag that is gone.
LEMMA GoneType ==
  ASSUME NEW d, IsParticleArrays(d), NEW tag \in Tags
  PROVE  LET e == [d EXCEPT !.m_rtag[tag] = NOT_LOCAL]
         IN  /\ IsParticleArrays(e) /\ e.m_nghosts = d.m_nghosts
             /\ e.m_nparticles = d.m_nparticles
             /\ Unmarked(d) => Unmarked(e)
  <1> DEFINE rtag == [d.m_rtag EXCEPT ![tag] = NOT_LOCAL]
             e == [d EXCEPT !.m_rtag[tag] = NOT_LOCAL]
  <1>1. d \in Shaped
    BY ArraysShaped
  <1>2. rtag \in RTags
    BY ArraysFields DEF RTags
  <1>3. e = [d EXCEPT !.m_rtag = rtag]
    BY <1>1 DEF Shaped
  <1> HIDE DEF rtag, e
  <1>4. e = [m_nparticles |-> d.m_nparticles, m_nghosts |-> d.m_nghosts,
             m_tag |-> d.m_tag, m_rtag |-> rtag,
             m_comm_flags |-> d.m_comm_flags]
    BY <1>1, <1>3 DEF Shaped
  <1>5. IsParticleArrays(e)
    BY <1>2, <1>4, ArraysFields DEF IsParticleArrays, RTags
  <1>6. e.m_nghosts = d.m_nghosts /\ e.m_nparticles = d.m_nparticles
        /\ e.m_comm_flags = d.m_comm_flags
    BY <1>4
  <1> QED
    BY <1>5, <1>6 DEF e, Unmarked, Leaving, Locals

LEMMA InitializeFromSnapshotStep ==
  ASSUME IInv, NEW k \in 0 .. MaxTags, NEW place \in [0 .. (k - 1) -> Ranks],
         InitializeFromSnapshot(k, place)
  PROVE  IInv'
  <1>1. \A r \in Ranks : IsParticleArrays(pd'[r]) /\ pd'[r].m_nghosts = 0
                         /\ Unmarked(pd'[r])
    BY ScatteredType DEF InitializeFromSnapshot
  <1>2. /\ m_nglobal' \in Nat /\ m_tag_set' \subseteq Tags
        /\ m_rtag_size' \in Nat /\ m_recycled_tags' \in Seq(Tags)
        /\ m_invalid_cached_tags' \in BOOLEAN
    BY ParticleDataAssumption DEF InitializeFromSnapshot, Tags
  <1>3. DOMAIN pd' = Ranks
    BY DEF InitializeFromSnapshot
  <1>4. UNCHANGED <<m_cached_tag_set, dest, wire>>
    BY DEF InitializeFromSnapshot
  <1> QED
    BY <1>1, <1>2, <1>3, <1>4
    DEF IInv, TypeOK, WireFinite, Bare, Marks, NoGhosts, Quiet

LEMMA AddParticleStep ==
  ASSUME IInv, AddParticle
  PROVE  IInv'
  <1> DEFINE tag == NewTag
             b == [i \in {0} |-> tag]
  <1>1. tag \in Tags /\ tag \in Nat /\ Quiet
    BY DEF AddParticle, Tags
  <1>2. Length(b) = 1 /\ b \in Array(1)
    <2>1. 0 .. 0 = {0}
      OBVIOUS
    <2> QED
      BY <1>1, <2>1, FS_Singleton DEF Length, Array
  <1>3. \A r \in Ranks : IsParticleArrays(pd'[r]) /\ pd'[r].m_nghosts = 0
                         /\ Unmarked(pd'[r])
    <2> SUFFICES ASSUME NEW r \in Ranks
                 PROVE  IsParticleArrays(pd'[r]) /\ pd'[r].m_nghosts = 0
                        /\ Unmarked(pd'[r])
      OBVIOUS
    <2> DEFINE d == WithoutGhosts[r]
    <2>1. IsParticleArrays(d) /\ d.m_nghosts = 0 /\ Unmarked(d)
      BY <1>1, WithoutGhostsType DEF Quiet
    <2>2. CASE r = Root
      <3>1. pd'[r] = addParticles(d, b)
        BY <2>2 DEF AddParticle
      <3> HIDE DEF b, d, tag
      <3> QED
        BY <1>2, <2>1, <3>1, AddParticlesType
    <2>3. CASE r # Root
      <3>1. pd'[r] = [d EXCEPT !.m_rtag[tag] = NOT_LOCAL]
        BY <2>3 DEF AddParticle
      <3> HIDE DEF b, d, tag
      <3> QED
        BY <1>1, <2>1, <3>1, GoneType
    <2> QED
      BY <2>2, <2>3
  <1>4. m_tag_set' \subseteq Tags /\ m_tag_set' # {}
    BY <1>1 DEF AddParticle, IInv, TypeOK
  <1>5. m_rtag_size' \in Nat
    <2>1. IsFiniteSet(Tags) /\ Tags \in SUBSET Nat
      <3>1. MaxTags - 1 \in Int
        BY ParticleDataAssumption
      <3> QED
        BY <3>1, FS_Interval DEF Tags
    <2>2. IsFiniteSet(m_tag_set') /\ m_tag_set' \in SUBSET Nat
      BY <1>4, <2>1, FS_Subset
    <2>3. getMaximumTag(m_tag_set') \in Nat
      BY <1>4, <2>2, MaximumType
    <2> QED
      BY <2>3 DEF AddParticle
  <1>6. m_nglobal' \in Nat /\ m_invalid_cached_tags' \in BOOLEAN
    BY DEF AddParticle, IInv, TypeOK
  <1>7. m_recycled_tags' \in Seq(Tags)
    BY DEF AddParticle, IInv, TypeOK
  <1>8. DOMAIN pd' = Ranks /\ UNCHANGED <<m_cached_tag_set, dest, wire>>
    BY DEF AddParticle
  <1> QED
    BY <1>3, <1>4, <1>5, <1>6, <1>7, <1>8
    DEF IInv, TypeOK, WireFinite, Bare, Marks, NoGhosts, Quiet

LEMMA RemoveParticleStep ==
  ASSUME IInv, NEW tag \in Tags, RemoveParticle(tag)
  PROVE  IInv'
  <1>1. Quiet
    BY DEF RemoveParticle
  <1>2. \A r \in Ranks : IsParticleArrays(pd'[r]) /\ pd'[r].m_nghosts = 0
                         /\ Unmarked(pd'[r])
    <2> SUFFICES ASSUME NEW r \in Ranks
                 PROVE  IsParticleArrays(pd'[r]) /\ pd'[r].m_nghosts = 0
                        /\ Unmarked(pd'[r])
      OBVIOUS
    <2> DEFINE d == WithoutGhosts[r]
               e == [d EXCEPT !.m_rtag[tag] = NOT_LOCAL]
               idx == d.m_rtag[tag]
    <2>1. IsParticleArrays(d) /\ d.m_nghosts = 0 /\ Unmarked(d)
          /\ d.m_nparticles = pd[r].m_nparticles
      BY <1>1, WithoutGhostsType DEF Quiet
    <2>2. idx \in Nat \cup {NOT_LOCAL}
      BY <2>1, ArraysFields DEF RTags
    <2>3. IsParticleArrays(e) /\ e.m_nghosts = 0 /\ Unmarked(e)
          /\ e.m_nparticles = pd[r].m_nparticles
      <3> HIDE DEF d
      <3> QED
        BY <2>1, GoneType
    <2>4. CASE r \in Owners(tag)
      <3>1. pd'[r] = SwapLast(e, idx)
        BY <2>4 DEF RemoveParticle
      <3>2. e.m_nparticles > 0
        <4>1. pd[r].m_rtag[tag] \in 0 .. (pd[r].m_nparticles - 1)
          BY <2>4 DEF Owners, IsLocal, Locals
        <4>2. pd[r].m_nparticles \in Nat
          BY ArraysFields DEF IInv, TypeOK
        <4>3. pd[r].m_nparticles > 0
          BY <4>1, <4>2
        <4> HIDE DEF e
        <4> QED
          BY <2>3, <4>3
      <3> HIDE DEF d, e, idx
      <3> QED
        BY <2>2, <2>3, <3>1, <3>2, SwapLastType
    <2>5. CASE r \notin Owners(tag)
      <3>1. pd'[r] = e
        BY <2>5 DEF RemoveParticle
      <3> QED
        BY <2>3, <3>1
    <2> QED
      BY <2>4, <2>5
  <1>3. m_nglobal' \in Nat /\ m_tag_set' \subseteq Tags
        /\ m_invalid_cached_tags' \in BOOLEAN
    BY DEF RemoveParticle, IInv, TypeOK
  <1>4. m_recycled_tags' \in Seq(Tags)
    BY DEF RemoveParticle, IInv, TypeOK
  <1>5. DOMAIN pd' = Ranks
        /\ UNCHANGED <<m_rtag_size, m_cached_tag_set, dest, wire>>
    BY DEF RemoveParticle
  <1> QED
    BY <1>2, <1>3, <1>4, <1>5
    DEF IInv, TypeOK, WireFinite, Bare, Marks, NoGhosts, Quiet

LEMMA RemoveParticleThrowsStep ==
  ASSUME IInv, NEW tag \in Tags, RemoveParticleThrows(tag)
  PROVE  IInv'
  <1>1. /\ pd' = WithoutGhosts /\ UNCHANGED <<pool, cache, dest, wire>>
    BY DEF RemoveParticleThrows
  <1>2. DOMAIN pd' = Ranks
        /\ \A r \in Ranks : /\ IsParticleArrays(pd'[r]) /\ pd'[r].m_nghosts = 0
                            /\ dest[r] = Nobody => Unmarked(pd'[r])
    BY <1>1, WithoutGhostsType
  <1> QED
    BY <1>1, <1>2
    DEF IInv, TypeOK, WireFinite, Bare, Marks, NoGhosts, Quiet, pool, cache

LEMMA RebuildStep ==
  ASSUME IInv, maybe_rebuild_tag_cache
  PROVE  IInv'
  BY DEF maybe_rebuild_tag_cache, IInv, TypeOK, WireFinite, Bare, Marks,
         NoGhosts, Quiet, pool

\* Some particles are marked, the ghosts are gone.
LEMMA MarkedType ==
  ASSUME NEW d, IsParticleArrays(d), NEW flags \in SUBSET Nat
  PROVE  LET e == [d EXCEPT !.m_comm_flags = flags]
         IN  IsParticleArrays(e) /\ e.m_nghosts = d.m_nghosts
  <1> DEFINE e == [d EXCEPT !.m_comm_flags = flags]
  <1>1. d \in Shaped
    BY ArraysShaped
  <1>2. e = [m_nparticles |-> d.m_nparticles, m_nghosts |-> d.m_nghosts,
             m_tag |-> d.m_tag, m_rtag |-> d.m_rtag, m_comm_flags |-> flags]
    BY <1>1 DEF Shaped
  <1> HIDE DEF e
  <1>3. IsParticleArrays(e) /\ e.m_nghosts = d.m_nghosts
    BY <1>2, ArraysFields DEF IsParticleArrays, RTags
  <1> QED
    BY <1>3 DEF e

LEMMA SetPositionStep ==
  ASSUME IInv, NEW tag \in Tags, NEW new_rank \in Ranks,
         SetPosition(tag, new_rank)
  PROVE  IInv'
  <1>1. PICK owner \in Ranks :
           /\ Quiet /\ Owners(tag) = {owner}
           /\ pd' = [WithoutGhosts EXCEPT ![owner].m_comm_flags =
                        @ \cup {pd[owner].m_rtag[tag]}]
           /\ dest' = [dest EXCEPT ![owner] = new_rank]
           /\ UNCHANGED <<pool, cache, wire>>
    BY DEF SetPosition
  <1> DEFINE d == WithoutGhosts[owner]
             flags == d.m_comm_flags \cup {pd[owner].m_rtag[tag]}
  <1>2. flags \in SUBSET Nat
    <2>1. owner \in Owners(tag)
      BY <1>1
    <2>2. pd[owner].m_rtag[tag] \in Locals(pd[owner])
      BY <2>1 DEF Owners, IsLocal
    <2>3. pd[owner].m_nparticles \in Nat
      BY ArraysFields DEF IInv, TypeOK
    <2>4. IsParticleArrays(d)
      BY WithoutGhostsType
    <2> HIDE DEF d
    <2> QED
      BY <2>2, <2>3, <2>4, ArraysFields DEF Locals
  <1>3. /\ pd'[owner] = [d EXCEPT !.m_comm_flags = flags]
        /\ \A r \in Ranks \ {owner} : pd'[r] = WithoutGhosts[r]
        /\ DOMAIN pd' = Ranks
    BY <1>1, WithoutGhostsType
  <1>4. IsParticleArrays(d) /\ d.m_nghosts = 0
    BY WithoutGhostsType
  <1>5. IsParticleArrays(pd'[owner]) /\ pd'[owner].m_nghosts = 0
    <2> HIDE DEF d, flags
    <2> QED
      BY <1>2, <1>3, <1>4, MarkedType
  <1>6. \A r \in Ranks : IsParticleArrays(pd'[r]) /\ pd'[r].m_nghosts = 0
    BY <1>3, <1>5, WithoutGhostsType
  <1>7. \A r \in Ranks : dest'[r] = Nobody => Unmarked(pd'[r])
    BY <1>1, <1>3, WithoutGhostsType, ParticleDataAssumption
    DEF IInv, TypeOK
  <1>8. dest' \in [Ranks -> Ranks \cup {Nobody}]
    BY <1>1 DEF IInv, TypeOK
  <1>9. UNCHANGED <<pool, cache, wire>>
    BY <1>1
  <1>10. TypeOK'
    BY <1>3, <1>6, <1>8, <1>9 DEF IInv, TypeOK, pool, cache
  <1>11. WireFinite'
    BY <1>9 DEF IInv, WireFinite
  <1>12. Bare' /\ Marks'
    BY <1>6, <1>7 DEF Bare, Marks, NoGhosts
  <1> QED
    BY <1>10, <1>11, <1>12 DEF IInv

LEMMA MigrateStep ==
  ASSUME IInv, NEW neighbor \in Shifts, NEW left \in [Ranks -> SUBSET Tags],
         Migrate(neighbor, left)
  PROVE  IInv'
  <1>1. \A r \in Ranks : IsParticleArrays(pd'[r]) /\ pd'[r].m_nghosts = 0
    <2> SUFFICES ASSUME NEW r \in Ranks
                 PROVE  IsParticleArrays(pd'[r]) /\ pd'[r].m_nghosts = 0
      OBVIOUS
    <2> DEFINE d == removeAllGhostParticles(pd[r])
               flags == (d.m_comm_flags \ Locals(d)) \cup left[r]
    <2>1. IsParticleArrays(d) /\ d.m_nghosts = 0
      BY RemoveGhostsType DEF IInv, TypeOK
    <2>2. left[r] \in SUBSET Nat
      BY DEF Tags
    <2>3. flags \in SUBSET Nat
      <3> HIDE DEF d
      <3> QED
        BY <2>1, <2>2, ArraysFields
    <2>4. pd'[r] = [d EXCEPT !.m_comm_flags = flags]
      BY DEF Migrate
    <2> HIDE DEF d, flags
    <2> QED
      BY <2>1, <2>3, <2>4, MarkedType
  <1>2. dest' \in [Ranks -> Ranks] /\ DOMAIN pd' = Ranks
        /\ UNCHANGED <<pool, cache, wire>>
    BY DEF Migrate, Shifts
  <1>3. \A r \in Ranks : dest'[r] # Nobody
    BY <1>2, ParticleDataAssumption
  <1> QED
    BY <1>1, <1>2, <1>3
    DEF IInv, TypeOK, WireFinite, Bare, Marks, NoGhosts, pool, cache

LEMMA SendStep ==
  ASSUME IInv, NEW r \in Ranks, Send(r)
  PROVE  IInv'
  <1>1. dest[r] \in Ranks /\ ~Quiet
    BY DEF Send, IInv, TypeOK, Quiet
  <1>2. NoGhosts(pd)
    BY <1>1 DEF IInv, Bare
  <1>3. IsParticleArrays(pd[r]) /\ pd[r].m_nghosts = 0 /\ DOMAIN pd = Ranks
    BY <1>2 DEF IInv, TypeOK, NoGhosts
  <1>4. /\ pd'[r] = removeParticles(pd[r]) /\ DOMAIN pd' = Ranks
        /\ \A s \in Ranks \ {r} : pd'[s] = pd[s]
    BY <1>3 DEF Send
  <1>5. IsParticleArrays(pd'[r]) /\ pd'[r].m_nghosts = 0 /\ Unmarked(pd'[r])
    BY <1>3, <1>4, RemoveParticlesType
  <1>6. \A s \in Ranks : IsParticleArrays(pd'[s])
    BY <1>4, <1>5 DEF IInv, TypeOK
  <1>7. NoGhosts(pd')
    BY <1>2, <1>4, <1>5 DEF NoGhosts
  <1>8. Length(Sent(pd[r])) \in Nat /\ Sent(pd[r]) \in Array(Length(Sent(pd[r])))
    BY <1>3, SentType
  <1>9. /\ DOMAIN wire' = Ranks
        /\ \A s \in Ranks : /\ Length(wire'[s]) \in Nat
                            /\ wire'[s] \in Array(Length(wire'[s]))
    <2>1. /\ DOMAIN wire' = Ranks /\ wire'[dest[r]] = Sent(pd[r])
          /\ \A s \in Ranks \ {dest[r]} : wire'[s] = wire[s]
      BY <1>1 DEF Send, IInv, TypeOK
    <2> QED
      BY <1>8, <2>1 DEF IInv, TypeOK, WireFinite
  <1>10. dest' \in [Ranks -> Ranks \cup {Nobody}]
         /\ \A s \in Ranks \ {r} : dest'[s] = dest[s]
    BY DEF Send, IInv, TypeOK
  <1>11. UNCHANGED <<pool, cache>>
    BY DEF Send
  <1>12. \A s \in Ranks : dest'[s] = Nobody => Unmarked(pd'[s])
    BY <1>4, <1>5, <1>10 DEF IInv, Marks
  <1> QED
    BY <1>4, <1>6, <1>7, <1>9, <1>10, <1>11, <1>12
    DEF IInv, TypeOK, WireFinite, Bare, Marks, pool, cache

LEMMA ReceiveStep ==
  ASSUME IInv, NEW r \in Ranks, Receive(r)
  PROVE  IInv'
  <1>1. ~Quiet /\ dest[r] = Nobody
    BY DEF Receive, Quiet
  <1>2. NoGhosts(pd)
    BY <1>1 DEF IInv, Bare
  <1>3. IsParticleArrays(pd[r]) /\ pd[r].m_nghosts = 0 /\ Unmarked(pd[r])
        /\ DOMAIN pd = Ranks
    BY <1>1, <1>2 DEF IInv, TypeOK, NoGhosts, Marks
  <1>4. /\ pd'[r] = addParticles(pd[r], wire[r]) /\ DOMAIN pd' = Ranks
        /\ \A s \in Ranks \ {r} : pd'[s] = pd[s]
    BY <1>3 DEF Receive
  <1>5. Length(wire[r]) \in Nat /\ wire[r] \in Array(Length(wire[r]))
    BY DEF IInv, TypeOK, WireFinite
  <1>6. IsParticleArrays(pd'[r]) /\ pd'[r].m_nghosts = 0 /\ Unmarked(pd'[r])
    BY <1>3, <1>4, <1>5, AddParticlesType
  <1>7. \A s \in Ranks : IsParticleArrays(pd'[s])
    BY <1>4, <1>6 DEF IInv, TypeOK
  <1>8. NoGhosts(pd')
    BY <1>2, <1>4, <1>6 DEF NoGhosts
  <1>9. /\ DOMAIN wire' = Ranks
        /\ \A s \in Ranks : /\ Length(wire'[s]) \in Nat
                            /\ wire'[s] \in Array(Length(wire'[s]))
    BY EmptyType DEF Receive, IInv, TypeOK, WireFinite
  <1>10. UNCHANGED <<pool, cache, dest>>
    BY DEF Receive
  <1>11. \A s \in Ranks : dest'[s] = Nobody => Unmarked(pd'[s])
    BY <1>4, <1>6, <1>10 DEF IInv, Marks
  <1> QED
    BY <1>4, <1>7, <1>8, <1>9, <1>10, <1>11
    DEF IInv, TypeOK, WireFinite, Bare, Marks, pool, cache

\* Tags are rearranged or appended; the particles and their marks stay.
LEMMA RetaggedType ==
  ASSUME NEW d, IsParticleArrays(d), NEW g \in Nat,
         NEW m \in Array(d.m_nparticles + g), NEW rtag \in RTags,
         NEW e, e = [m_nparticles |-> d.m_nparticles, m_nghosts |-> g,
                     m_tag |-> m, m_rtag |-> rtag,
                     m_comm_flags |-> d.m_comm_flags]
  PROVE  IsParticleArrays(e) /\ (Unmarked(d) => Unmarked(e))
  <1>1. IsParticleArrays(e)
    BY ArraysFields DEF IsParticleArrays, RTags
  <1>2. e.m_nparticles = d.m_nparticles /\ e.m_comm_flags = d.m_comm_flags
    OBVIOUS
  <1> QED
    BY <1>1, <1>2 DEF Unmarked, Leaving, Locals

LEMMA SortStep ==
  ASSUME IInv, NEW r \in Ranks, NEW order \in Permutations(Locals(pd[r])),
         Sort(r, order)
  PROVE  IInv'
  <1> DEFINE d == pd[r]
             m == [i \in Locals(d) |-> d.m_tag[order[i]]]
             rtag == Rebuilt(m, d.m_nparticles, d.m_rtag)
  <1>1. IsParticleArrays(d) /\ d.m_nghosts = 0 /\ Quiet
    BY DEF Sort, IInv, TypeOK
  <1>2. m \in Array(d.m_nparticles + 0)
    <2>1. \A i \in Locals(d) : order[i] \in Locals(d)
      BY DEF Permutations
    <2> QED
      BY <1>1, <2>1, ArraysFields DEF Array, Locals
  <1>3. rtag \in RTags
    BY <1>1, ArraysFields, RebuiltType
  <1>4. d \in Shaped /\ DOMAIN pd = Ranks
    BY <1>1, ArraysShaped DEF IInv, TypeOK
  <1>5. /\ pd'[r] = [d EXCEPT !.m_tag = m, !.m_rtag = rtag]
        /\ DOMAIN pd' = Ranks /\ \A s \in Ranks \ {r} : pd'[s] = pd[s]
    BY <1>4 DEF Sort
  <1> HIDE DEF d, m, rtag
  <1>6. pd'[r] = [m_nparticles |-> d.m_nparticles, m_nghosts |-> 0,
                  m_tag |-> m, m_rtag |-> rtag,
                  m_comm_flags |-> d.m_comm_flags]
    BY <1>1, <1>4, <1>5 DEF Shaped
  <1>7. IsParticleArrays(pd'[r]) /\ (Unmarked(d) => Unmarked(pd'[r]))
    BY <1>1, <1>2, <1>3, <1>6, RetaggedType
  <1>8. \A s \in Ranks : IsParticleArrays(pd'[s])
                         /\ (Unmarked(pd[s]) => Unmarked(pd'[s]))
    BY <1>5, <1>7 DEF IInv, TypeOK, d
  <1>9. UNCHANGED <<pool, cache, dest, wire>>
    BY DEF Sort
  <1> QED
    BY <1>1, <1>5, <1>8, <1>9
    DEF IInv, TypeOK, WireFinite, Bare, Marks, Quiet, pool, cache

LEMMA AddGhostsStep ==
  ASSUME IInv, NEW r \in Ranks, NEW k \in 1 .. MaxTags, NEW b \in Array(k),
         AddGhosts(r, b)
  PROVE  IInv'
  <1> DEFINE d == pd[r]
             n == d.m_nparticles + d.m_nghosts
             g == d.m_nghosts + Length(b)
             m == [i \in 0 .. (n + Length(b) - 1) |->
                      IF i < n THEN d.m_tag[i] ELSE b[i - n]]
             rtag == Rebuilt(m, n + Length(b), d.m_rtag)
  <1>1. IsParticleArrays(d) /\ Quiet
    BY DEF AddGhosts, IInv, TypeOK
  <1>2. d.m_nparticles \in Nat /\ d.m_nghosts \in Nat /\ d.m_rtag \in RTags
        /\ d.m_tag \in Array(n)
    BY <1>1, ArraysFields
  <1>3. Length(b) = k /\ k \in Nat
    <2>1. k - 1 \in Int /\ k \in Nat
      OBVIOUS
    <2>2. Cardinality(0 .. (k - 1)) = k
      BY <2>1, FS_Interval
    <2> QED
      BY <2>1, <2>2 DEF Length, Array
  <1>4. g \in Nat /\ n + Length(b) \in Nat /\ d.m_nparticles + g = n + Length(b)
    BY <1>2, <1>3
  <1>5. m \in Array(n + Length(b))
    BY <1>2, <1>3 DEF Array
  <1>6. m \in Array(d.m_nparticles + g)
    BY <1>4, <1>5
  <1>7. rtag \in RTags
    <2> HIDE DEF m, n
    <2> QED
      BY <1>2, <1>4, RebuiltType
  <1>8. d \in Shaped /\ DOMAIN pd = Ranks
    BY <1>1, ArraysShaped DEF IInv, TypeOK
  <1>9. /\ pd'[r] = [d EXCEPT !.m_nghosts = g, !.m_tag = m, !.m_rtag = rtag]
        /\ DOMAIN pd' = Ranks /\ \A s \in Ranks \ {r} : pd'[s] = pd[s]
    BY <1>8 DEF AddGhosts
  <1> HIDE DEF d, m, rtag, g, n
  <1>10. pd'[r] = [m_nparticles |-> d.m_nparticles, m_nghosts |-> g,
                   m_tag |-> m, m_rtag |-> rtag,
                   m_comm_flags |-> d.m_comm_flags]
    BY <1>4, <1>8, <1>9 DEF Shaped
  <1>11. IsParticleArrays(pd'[r]) /\ (Unmarked(d) => Unmarked(pd'[r]))
    BY <1>1, <1>4, <1>6, <1>7, <1>10, RetaggedType
  <1>12. \A s \in Ranks : IsParticleArrays(pd'[s])
                          /\ (Unmarked(pd[s]) => Unmarked(pd'[s]))
    BY <1>9, <1>11 DEF IInv, TypeOK, d
  <1>13. UNCHANGED <<pool, cache, dest, wire>>
    BY DEF AddGhosts
  <1> QED
    BY <1>1, <1>9, <1>12, <1>13
    DEF IInv, TypeOK, WireFinite, Bare, Marks, Quiet, pool, cache

LEMMA NextIInv ==
  ASSUME IInv, [Next]_vars
  PROVE  IInv'
  <1>1. CASE UNCHANGED vars
    BY <1>1 DEF vars, pool, cache, IInv, TypeOK, WireFinite, Bare, Marks,
               NoGhosts, Quiet
  <1>2. CASE Collective
    BY <1>2, InitializeFromSnapshotStep, AddParticleStep, RemoveParticleStep,
       RemoveParticleThrowsStep, RebuildStep, SetPositionStep, MigrateStep
    DEF Collective
  <1>3. ASSUME NEW r \in Ranks, OneRank(r)
        PROVE  IInv'
    BY <1>3, SendStep, ReceiveStep, SortStep, AddGhostsStep DEF OneRank
  <1> QED
    BY <1>1, <1>2, <1>3 DEF Next

-----------------------------------------------------------------------------
\* The arrays of every rank stay well formed: the tags fill the particle and
\* ghost range exactly, every index and every tag is a number the arrays have.
THEOREM TypeCorrect == Spec => []TypeOK
  <1>1. IInv => TypeOK
    BY DEF IInv
  <1> QED
    BY <1>1, InitIInv, NextIInv, PTL DEF Spec

\* No communication leaves a mark behind: removeParticles(), addParticles()
\* and removeParticle() clear or move the flags of every slot that comes into
\* use, so setPosition() and the next migration send what they marked and
\* nothing else.
THEOREM FlagsCorrect == Spec => []FlagsClear
  <1>1. IInv => FlagsClear
    BY DEF IInv, Marks, FlagsClear, Quiet, Unmarked
  <1> QED
    BY <1>1, InitIInv, NextIInv, PTL DEF Spec

LEMMA NextCache ==
  ASSUME CacheCurrent, [Next]_vars
  PROVE  CacheCurrent'
  <1>1. CASE UNCHANGED vars
    BY <1>1 DEF vars, pool, cache, CacheCurrent
  <1>2. CASE Collective
    BY <1>2 DEF Collective, CacheCurrent, InitializeFromSnapshot, AddParticle,
       RemoveParticle, RemoveParticleThrows, maybe_rebuild_tag_cache,
       SetPosition, Migrate, pool, cache
  <1>3. ASSUME NEW r \in Ranks, OneRank(r)
        PROVE  CacheCurrent'
    BY <1>3 DEF OneRank, CacheCurrent, Send, Receive, Sort, AddGhosts, pool,
       cache
  <1> QED
    BY <1>1, <1>2, <1>3 DEF Next

\* getNthTag() answers from the present set of tags: every operation that
\* changes the set invalidates the cache.
THEOREM CacheCorrect == Spec => []CacheCurrent
  <1>1. Init => CacheCurrent
    BY DEF Init, CacheCurrent
  <1> QED
    BY <1>1, NextCache, PTL DEF Spec

\* Nothing is left behind by the operations that reorder, remove and migrate
\* particles: neither marks nor cached tags.
THEOREM StaleFree == Spec => []NothingStale
  <1>1. TypeOK /\ CacheCurrent /\ FlagsClear => NothingStale
    BY DEF NothingStale
  <1> QED
    BY <1>1, TypeCorrect, CacheCorrect, FlagsCorrect, PTL

-----------------------------------------------------------------------------
(* No particle is lost or duplicated, its tag leads to it on every rank,   *)
(* and the tags in use and to recycle are kept apart.                      *)

Indices(n) == 0 .. (n - 1)
Occurs(n, m, t) == \E i \in Indices(n) : m[i] = t
Distinct(n, m) == \A i, j \in Indices(n) : m[i] = m[j] => i = j

\* The table rtag leads to every element of m, and from the tags of K nowhere
\* else.
Inverts(n, m, rtag, K) ==
    /\ \A i \in Indices(n) : rtag[m[i]] = i
    /\ \A t \in K : \/ rtag[t] = NOT_LOCAL
                    \/ rtag[t] \in Indices(n) /\ m[rtag[t]] = t

-----------------------------------------------------------------------------
(* The two arrays m_tag and m_rtag.                                        *)

LEMMA InvertsDistinct ==
  ASSUME NEW n \in Nat, NEW m, NEW rtag, NEW K, Inverts(n, m, rtag, K)
  PROVE  Distinct(n, m)
  BY DEF Inverts, Distinct

\* A tag of K that is not in the arrays reads NOT_LOCAL.
LEMMA InvertsAbsent ==
  ASSUME NEW n \in Nat, NEW m, NEW rtag, NEW K, Inverts(n, m, rtag, K),
         NEW t \in K, ~Occurs(n, m, t)
  PROVE  rtag[t] = NOT_LOCAL
  BY DEF Inverts, Occurs

\* The loop that writes the rtags of the elements of m.
LEMMA RebuiltInverts ==
  ASSUME NEW n \in Nat, NEW m \in Array(n), Distinct(n, m),
         NEW rtag \in RTags, NEW K \in SUBSET Tags,
         \A t \in K : Occurs(n, m, t) \/ rtag[t] = NOT_LOCAL
  PROVE  Inverts(n, m, Rebuilt(m, n, rtag), K)
  <1> DEFINE new == Rebuilt(m, n, rtag)
  <1>1. ASSUME NEW i \in Indices(n)
        PROVE  new[m[i]] = i
    <2>1. m[i] \in Tags
      BY DEF Array, Indices
    <2>2. new[m[i]] = CHOOSE j \in 0 .. (n - 1) : m[j] = m[i]
      BY <2>1 DEF Rebuilt, Indices
    <2>3. \A j \in 0 .. (n - 1) : m[j] = m[i] => j = i
      BY DEF Distinct, Indices
    <2> QED
      BY <2>2, <2>3 DEF Indices
  <1>2. ASSUME NEW t \in K
        PROVE  \/ new[t] = NOT_LOCAL
               \/ new[t] \in Indices(n) /\ m[new[t]] = t
    <2>1. CASE Occurs(n, m, t)
      <3>1. PICK i \in Indices(n) : m[i] = t
        BY <2>1 DEF Occurs
      <3> QED
        BY <1>1, <3>1
    <2>2. CASE ~Occurs(n, m, t)
      <3>1. new[t] = rtag[t]
        BY <2>2 DEF Rebuilt, Occurs, Indices
      <3> QED
        BY <2>2, <3>1
    <2> QED
      BY <2>1, <2>2
  <1> QED
    BY <1>1, <1>2 DEF Inverts

\* Elements of m in an order without repetition are distinct.
LEMMA SelectedDistinct ==
  ASSUME NEW n \in Nat, NEW m, Distinct(n, m), NEW k \in Nat,
         NEW e \in [Indices(k) -> Indices(n)], Distinct(k, e)
  PROVE  Distinct(k, [i \in Indices(k) |-> m[e[i]]])
  BY DEF Distinct

\* A second array appended to the first.
Appended(n, m, k, b) == [i \in Indices(n + k) |-> IF i < n THEN m[i] ELSE b[i - n]]

LEMMA AppendedArray ==
  ASSUME NEW n \in Nat, NEW m \in Array(n), NEW k \in Nat, NEW b \in Array(k)
  PROVE  /\ Appended(n, m, k, b) \in Array(n + k)
         /\ \A t : Occurs(n + k, Appended(n, m, k, b), t)
                      <=> Occurs(n, m, t) \/ Occurs(k, b, t)
         /\ \A i \in Indices(n) : Appended(n, m, k, b)[i] = m[i]
         /\ Distinct(n, m) /\ Distinct(k, b)
            /\ (\A t : ~(Occurs(n, m, t) /\ Occurs(k, b, t)))
               => Distinct(n + k, Appended(n, m, k, b))
  <1> DEFINE a == Appended(n, m, k, b)
  <1>1. \A i \in Indices(n + k) :
           /\ i < n => i \in Indices(n) /\ a[i] = m[i]
           /\ ~(i < n) => i - n \in Indices(k) /\ a[i] = b[i - n]
    BY DEF Appended, Indices
  <1>2. \A i \in Indices(n) : i \in Indices(n + k) /\ i < n
    BY DEF Indices
  <1>3. \A j \in Indices(k) : j + n \in Indices(n + k) /\ ~(j + n < n) /\ (j + n) - n = j
    BY DEF Indices
  <1>4. a \in Array(n + k)
    BY <1>1 DEF Array, Appended, Indices
  <1> HIDE DEF a
  <1>5. \A i \in Indices(n) : a[i] = m[i]
    BY <1>1, <1>2
  <1>6. ASSUME NEW t
        PROVE  Occurs(n + k, a, t) <=> Occurs(n, m, t) \/ Occurs(k, b, t)
    <2>1. ASSUME NEW i \in Indices(n + k), a[i] = t
          PROVE  Occurs(n, m, t) \/ Occurs(k, b, t)
      BY <1>1, <2>1 DEF Occurs
    <2>2. ASSUME NEW i \in Indices(n), m[i] = t
          PROVE  Occurs(n + k, a, t)
      BY <1>2, <1>5, <2>2 DEF Occurs
    <2>3. ASSUME NEW j \in Indices(k), b[j] = t
          PROVE  Occurs(n + k, a, t)
      <3>1. a[j + n] = t /\ j + n \in Indices(n + k)
        BY <1>1, <1>3, <2>3
      <3> QED
        BY <3>1 DEF Occurs
    <2> QED
      BY <2>1, <2>2, <2>3 DEF Occurs
  <1>7. ASSUME Distinct(n, m), Distinct(k, b), \A t : ~(Occurs(n, m, t) /\ Occurs(k, b, t)),
               NEW i \in Indices(n + k), NEW j \in Indices(n + k), a[i] = a[j]
        PROVE  i = j
    <2>1. CASE i < n /\ j < n
      BY <1>1, <1>7, <2>1 DEF Distinct
    <2>2. CASE ~(i < n) /\ ~(j < n)
      <3>1. i - n \in Indices(k) /\ j - n \in Indices(k) /\ b[i - n] = b[j - n]
        BY <1>1, <1>7, <2>2
      <3>2. i - n = j - n
        BY <1>7, <3>1 DEF Distinct
      <3>3. i \in Int /\ j \in Int
        BY DEF Indices
      <3> QED
        BY <3>2, <3>3
    <2>3. CASE (i < n) # (j < n)
      BY <1>1, <1>7, <2>3 DEF Occurs
    <2> QED
      BY <2>1, <2>2, <2>3
  <1> QED
    BY <1>4, <1>5, <1>6, <1>7 DEF a, Distinct

\* Appended elements with the rtags rewritten, as addParticles() and
\* addGhostParticles() leave them.
LEMMA AppendedInverts ==
  ASSUME NEW n \in Nat, NEW m \in Array(n), NEW k \in Nat, NEW b \in Array(k),
         NEW rtag \in RTags, NEW K \in SUBSET Tags, NEW L \in SUBSET Tags,
         Inverts(n, m, rtag, K), Distinct(k, b),
         \A t : ~(Occurs(n, m, t) /\ Occurs(k, b, t)),
         \A t \in L : t \in K \/ Occurs(k, b, t)
  PROVE  Inverts(n + k, Appended(n, m, k, b),
                 Rebuilt(Appended(n, m, k, b), n + k, rtag), L)
  <1> DEFINE a == Appended(n, m, k, b)
             top == n + k
  <1>1. Distinct(n, m)
    BY InvertsDistinct
  <1>2. /\ a \in Array(top) /\ Distinct(top, a) /\ top \in Nat
        /\ \A t : Occurs(top, a, t) <=> Occurs(n, m, t) \/ Occurs(k, b, t)
    BY <1>1, AppendedArray
  <1>3. \A t \in L : Occurs(top, a, t) \/ rtag[t] = NOT_LOCAL
    BY <1>2, InvertsAbsent
  <1> HIDE DEF a, top
  <1>4. Inverts(top, a, Rebuilt(a, top, rtag), L)
    BY <1>2, <1>3, RebuiltInverts
  <1> QED
    BY <1>4 DEF a, top

-----------------------------------------------------------------------------
(* The arrays of one rank.                                                 *)

Total(d) == d.m_nparticles + d.m_nghosts
RankInverts(d, K) == Inverts(Total(d), d.m_tag, d.m_rtag, K)

\* The rank owns the particle with this tag.
On(d, t) == Occurs(d.m_nparticles, d.m_tag, t)

\* getRTag(tag) < getN() tells the owner.
LEMMA LocalOn ==
  ASSUME NEW d, IsParticleArrays(d), NEW K, RankInverts(d, K), NEW t \in K
  PROVE  IsLocal(d, t) <=> On(d, t)
  <1>1. d.m_nparticles \in Nat /\ d.m_nghosts \in Nat
    BY ArraysFields
  <1>2. Indices(d.m_nparticles) \in SUBSET Indices(Total(d))
    BY <1>1 DEF Indices, Total
  <1>3. Locals(d) = Indices(d.m_nparticles) /\ NOT_LOCAL \notin Locals(d)
    BY <1>1 DEF Locals, Indices, NOT_LOCAL
  <1> QED
    BY <1>2, <1>3 DEF RankInverts, Inverts, On, Occurs, IsLocal

LEMMA BareInverts ==
  ASSUME NEW d, IsParticleArrays(d), NEW K \in SUBSET Tags, RankInverts(d, K),
         NEW e, e = removeAllGhostParticles(d)
  PROVE  RankInverts(e, K) /\ \A t : On(e, t) <=> On(d, t)
  <1> DEFINE m == [i \in Locals(d) |-> d.m_tag[i]]
             rtag == [t \in Tags |-> IF \E i \in Ghosts(d) : d.m_tag[i] = t
                                     THEN NOT_LOCAL ELSE d.m_rtag[t]]
             n == d.m_nparticles
  <1>1. d.m_nparticles \in Nat /\ d.m_nghosts \in Nat /\ d \in Shaped
        /\ d.m_tag \in Array(Total(d))
    BY ArraysFields, ArraysShaped DEF Total
  <1>2. e.m_nparticles = n /\ e.m_nghosts = 0 /\ e.m_tag = m /\ e.m_rtag = rtag
    BY <1>1 DEF removeAllGhostParticles, Shaped
  <1>3. Total(e) = n /\ Locals(d) = Indices(n)
    BY <1>1, <1>2 DEF Total, Locals, Indices
  <1>4. \A i \in Indices(n) : i \in Indices(Total(d)) /\ i \notin Ghosts(d)
    BY <1>1 DEF Indices, Total, Ghosts
  <1>5. \A i \in Indices(Total(d)) : i \in Indices(n) \/ i \in Ghosts(d)
    BY <1>1 DEF Indices, Total, Ghosts
  <1>6. \A i \in Ghosts(d) : i \in Indices(Total(d))
    BY <1>1 DEF Indices, Total, Ghosts
  <1>7. \A i \in Indices(n) : d.m_tag[i] \in Tags /\ m[i] = d.m_tag[i]
    BY <1>1, <1>3, <1>4 DEF Array, Indices
  <1>8. ASSUME NEW i \in Indices(n)
        PROVE  rtag[m[i]] = i
    <2> DEFINE t == d.m_tag[i]
    <2>1. t \in Tags /\ m[i] = t /\ d.m_rtag[t] = i
      BY <1>4, <1>7 DEF RankInverts, Inverts
    <2>2. ~\E j \in Ghosts(d) : d.m_tag[j] = t
      BY <1>4, <1>6, <2>1 DEF RankInverts, Inverts
    <2> HIDE DEF t, m
    <2> QED
      BY <2>1, <2>2
  <1>9. ASSUME NEW t \in K
        PROVE  rtag[t] = NOT_LOCAL \/ (rtag[t] \in Indices(n) /\ m[rtag[t]] = t)
    BY <1>5, <1>7 DEF RankInverts, Inverts
  <1> HIDE DEF m, rtag, n
  <1>10. RankInverts(e, K)
    BY <1>2, <1>3, <1>8, <1>9 DEF RankInverts, Inverts
  <1>11. \A t : On(e, t) <=> On(d, t)
    BY <1>2, <1>7 DEF On, Occurs, n
  <1> QED
    BY <1>10, <1>11

\* A message holds the marked particles, the arrays the others.
LEMMA SentInverts ==
  ASSUME NEW d, IsParticleArrays(d), d.m_nghosts = 0,
         NEW K \in SUBSET Tags, RankInverts(d, K)
  PROVE  /\ Distinct(Length(Sent(d)), Sent(d))
         /\ \A t : Occurs(Length(Sent(d)), Sent(d), t)
                      <=> \E i \in Leaving(d) : d.m_tag[i] = t
  <1> DEFINE S == Leaving(d)
             n == Cardinality(S)
             e == InOrder(S)
  <1>1. d.m_nparticles \in Nat /\ Total(d) = d.m_nparticles
        /\ Locals(d) = Indices(d.m_nparticles)
    BY ArraysFields DEF Total, Locals, Indices
  <1>2. Distinct(d.m_nparticles, d.m_tag)
    BY <1>1, InvertsDistinct DEF RankInverts
  <1>3. S \in SUBSET Locals(d)
    BY DEF Leaving
  <1>4. S \in SUBSET Nat /\ IsFiniteSet(S) /\ n \in Nat
    BY <1>3, LocalsFinite
  <1>5. /\ e \in [Indices(n) -> S]
        /\ Distinct(n, e) /\ \A x \in S : \E i \in Indices(n) : e[i] = x
    BY <1>4, InOrderBijection DEF Indices, Distinct
  <1>6. Sent(d) = [i \in Indices(n) |-> d.m_tag[e[i]]]
    BY <1>5 DEF Sent
  <1>7. Length(Sent(d)) = n
    <2>1. DOMAIN Sent(d) = 0 .. (n - 1) /\ n - 1 \in Int
      BY <1>4, <1>6 DEF Indices
    <2> HIDE DEF n
    <2> QED
      BY <1>4, <2>1, FS_Interval DEF Length
  <1> HIDE DEF S, n, e
  <1>8. e \in [Indices(n) -> Indices(d.m_nparticles)]
    BY <1>1, <1>3, <1>5
  <1>9. Distinct(n, Sent(d))
    BY <1>1, <1>2, <1>4, <1>5, <1>6, <1>8, SelectedDistinct
  <1>10. \A t : Occurs(n, Sent(d), t) <=> \E i \in S : d.m_tag[i] = t
    BY <1>5, <1>6 DEF Occurs
  <1> QED
    BY <1>7, <1>9, <1>10 DEF S

LEMMA RemovedInverts ==
  ASSUME NEW d, IsParticleArrays(d), d.m_nghosts = 0,
         NEW K \in SUBSET Tags, RankInverts(d, K),
         NEW e, e = removeParticles(d)
  PROVE  /\ RankInverts(e, K)
         /\ e.m_nparticles <= d.m_nparticles /\ e.m_nghosts = 0
         /\ \A t : On(e, t) <=> On(d, t) /\ ~Occurs(Length(Sent(d)), Sent(d), t)
  <1> DEFINE S == Locals(d) \ Leaving(d)
             n == Cardinality(S)
             f == InOrder(S)
             packed == [i \in Indices(n) |-> d.m_tag[f[i]]]
             erased == [t \in Tags |-> IF \E i \in Leaving(d) : d.m_tag[i] = t
                                       THEN NOT_LOCAL ELSE d.m_rtag[t]]
  <1>1. d.m_nparticles \in Nat /\ Total(d) = d.m_nparticles /\ d \in Shaped
        /\ Locals(d) = Indices(d.m_nparticles) /\ d.m_tag \in Array(d.m_nparticles)
        /\ d.m_rtag \in RTags
    BY ArraysFields, ArraysShaped DEF Total, Locals, Indices
  <1>2. Distinct(d.m_nparticles, d.m_tag)
    BY <1>1, InvertsDistinct DEF RankInverts
  <1>3. S \in SUBSET Nat /\ IsFiniteSet(S) /\ n \in Nat /\ n <= d.m_nparticles
    BY LocalsFinite
  <1>4. /\ f \in [Indices(n) -> S]
        /\ Distinct(n, f) /\ \A x \in S : \E i \in Indices(n) : f[i] = x
    BY <1>3, InOrderBijection DEF Indices, Distinct
  <1>5. /\ e.m_nparticles = n /\ e.m_nghosts = 0 /\ e.m_tag = packed
        /\ e.m_rtag = Rebuilt(packed, n, erased)
    <2>1. e.m_nparticles = n /\ e.m_nghosts = 0
      BY <1>1 DEF removeParticles, Shaped
    <2>2. e.m_tag = packed
      BY <1>1 DEF removeParticles, Shaped, Indices
    <2>3. e.m_rtag = Rebuilt(packed, n, erased)
      BY <1>1 DEF removeParticles, Shaped, Indices
    <2> QED
      BY <2>1, <2>2, <2>3
  <1>6. erased \in RTags
    BY <1>1 DEF RTags
  <1>7. \A i \in Leaving(d) : i \in Indices(d.m_nparticles)
    BY <1>1 DEF Leaving
  <1>8. \A i \in Indices(d.m_nparticles) : i \in Leaving(d) \/ i \in S
    BY <1>1
  <1>9. \A i \in S : i \in Indices(d.m_nparticles) /\ i \notin Leaving(d)
    BY <1>1
  <1>10. \A t \in K : d.m_rtag[t] = NOT_LOCAL \/ On(d, t)
    BY <1>1 DEF RankInverts, Inverts, On, Occurs
  <1> HIDE DEF S, n, f
  <1>11. packed \in Array(n)
    BY <1>1, <1>4, <1>9 DEF Array, Indices
  <1>12. Distinct(n, packed)
    <2>1. f \in [Indices(n) -> Indices(d.m_nparticles)]
      BY <1>4, <1>9
    <2> QED
      BY <1>1, <1>2, <1>3, <1>4, <2>1, SelectedDistinct
  <1>13. \A t : Occurs(n, packed, t) <=> \E i \in S : d.m_tag[i] = t
    BY <1>4 DEF Occurs
  <1>14. \A t \in K : Occurs(n, packed, t) \/ erased[t] = NOT_LOCAL
    BY <1>8, <1>10, <1>13 DEF On, Occurs
  <1> HIDE DEF packed, erased
  <1>15. Inverts(n, packed, Rebuilt(packed, n, erased), K)
    BY <1>3, <1>6, <1>11, <1>12, <1>14, RebuiltInverts
  <1>16. RankInverts(e, K)
    BY <1>3, <1>5, <1>15 DEF RankInverts, Total
  <1>17. \A t : (\E i \in S : d.m_tag[i] = t)
                   <=> On(d, t) /\ ~\E i \in Leaving(d) : d.m_tag[i] = t
    BY <1>2, <1>7, <1>8, <1>9 DEF On, Occurs, Distinct
  <1>18. \A t : On(e, t) <=> On(d, t) /\ ~Occurs(Length(Sent(d)), Sent(d), t)
    BY <1>5, <1>13, <1>17, SentInverts DEF On
  <1> QED
    BY <1>3, <1>5, <1>16, <1>18

LEMMA AddedInverts ==
  ASSUME NEW d, IsParticleArrays(d), d.m_nghosts = 0,
         NEW K \in SUBSET Tags, NEW L \in SUBSET Tags, RankInverts(d, K),
         NEW k \in Nat, NEW b \in Array(k), Length(b) = k, Distinct(k, b),
         \A t : ~(On(d, t) /\ Occurs(k, b, t)),
         \A t \in L : t \in K \/ Occurs(k, b, t),
         NEW e, e = addParticles(d, b)
  PROVE  /\ RankInverts(e, L) /\ e.m_nghosts = 0
         /\ \A t : On(e, t) <=> On(d, t) \/ Occurs(k, b, t)
  <1> DEFINE n == d.m_nparticles
             a == Appended(n, d.m_tag, k, b)
             top == n + k
  <1>1. n \in Nat /\ Total(d) = n /\ d \in Shaped /\ d.m_tag \in Array(n)
        /\ d.m_rtag \in RTags
    BY ArraysFields, ArraysShaped DEF Total
  <1>2. /\ e.m_nparticles = top /\ e.m_nghosts = 0 /\ e.m_tag = a
        /\ e.m_rtag = Rebuilt(a, top, d.m_rtag)
    <2>1. e.m_nparticles = top /\ e.m_nghosts = 0
      BY <1>1 DEF addParticles, Shaped
    <2>2. e.m_tag = a
      BY <1>1 DEF addParticles, Shaped, Appended, Indices
    <2>3. e.m_rtag = Rebuilt(a, top, d.m_rtag)
      BY <1>1 DEF addParticles, Shaped, Appended, Indices
    <2> QED
      BY <2>1, <2>2, <2>3
  <1>3. Inverts(n, d.m_tag, d.m_rtag, K) /\ \A t : ~(Occurs(n, d.m_tag, t) /\ Occurs(k, b, t))
    BY <1>1 DEF RankInverts, On
  <1> HIDE DEF n
  <1>4. Inverts(top, a, Rebuilt(a, top, d.m_rtag), L)
    BY <1>1, <1>3, AppendedInverts
  <1>5. top \in Nat /\ \A t : Occurs(top, a, t) <=> Occurs(n, d.m_tag, t) \/ Occurs(k, b, t)
    BY <1>1, AppendedArray
  <1> HIDE DEF a, top
  <1>6. RankInverts(e, L)
    BY <1>2, <1>4, <1>5 DEF RankInverts, Total
  <1> QED
    BY <1>2, <1>5, <1>6 DEF On, n

\* The rtag of a tag that the rank does not have is cleared.
LEMMA GoneInverts ==
  ASSUME NEW d, IsParticleArrays(d), d.m_nghosts = 0,
         NEW K \in SUBSET Tags, NEW L \in SUBSET Tags, RankInverts(d, K),
         NEW tag \in Tags, ~On(d, tag), L \in SUBSET (K \cup {tag}),
         NEW e, e = [d EXCEPT !.m_rtag[tag] = NOT_LOCAL]
  PROVE  RankInverts(e, L) /\ e.m_nghosts = 0 /\ \A t : On(e, t) <=> On(d, t)
  <1>1. d.m_nparticles \in Nat /\ Total(d) = d.m_nparticles /\ d \in Shaped
        /\ d.m_tag \in Array(d.m_nparticles) /\ d.m_rtag \in RTags
    BY ArraysFields, ArraysShaped DEF Total
  <1>2. /\ e.m_nparticles = d.m_nparticles /\ e.m_nghosts = 0 /\ e.m_tag = d.m_tag
        /\ e.m_rtag = [d.m_rtag EXCEPT ![tag] = NOT_LOCAL]
    BY <1>1 DEF Shaped
  <1>3. \A t \in Tags : e.m_rtag[t] = IF t = tag THEN NOT_LOCAL ELSE d.m_rtag[t]
    BY <1>1, <1>2 DEF RTags
  <1>4. \A i \in Indices(d.m_nparticles) : d.m_tag[i] # tag /\ d.m_tag[i] \in Tags
    BY <1>1 DEF On, Occurs, Array, Indices
  <1>5. Total(e) = d.m_nparticles
    BY <1>1, <1>2 DEF Total
  <1>6. RankInverts(e, L)
    BY <1>1, <1>2, <1>3, <1>4, <1>5 DEF RankInverts, Inverts
  <1> QED
    BY <1>2, <1>6 DEF On

\* removeParticle() on the owner.
LEMMA SwapLastInverts ==
  ASSUME NEW d, IsParticleArrays(d), d.m_nghosts = 0,
         NEW K \in SUBSET Tags, RankInverts(d, K),
         NEW tag \in K, On(d, tag),
         NEW gone, gone = [d EXCEPT !.m_rtag[tag] = NOT_LOCAL],
         NEW e, e = SwapLast(gone, d.m_rtag[tag])
  PROVE  RankInverts(e, K) /\ e.m_nghosts = 0
         /\ e.m_nparticles <= d.m_nparticles
         /\ \A t : On(e, t) <=> On(d, t) /\ t # tag
  <1> DEFINE n == d.m_nparticles
             last == n - 1
             idx == d.m_rtag[tag]
             moved == d.m_tag[last]
             m == [i \in Indices(last) |-> d.m_tag[IF i = idx THEN last ELSE i]]
             g == [d.m_rtag EXCEPT ![tag] = NOT_LOCAL]
             rtag == IF idx < last THEN [g EXCEPT ![moved] = idx] ELSE g
  <1>1. n \in Nat /\ Total(d) = n /\ d \in Shaped
        /\ d.m_tag \in Array(n) /\ d.m_rtag \in RTags
    BY ArraysFields, ArraysShaped DEF Total
  <1>2. idx \in Indices(n) /\ d.m_tag[idx] = tag
    <2>1. PICK i \in Indices(n) : d.m_tag[i] = tag
      BY DEF On, Occurs
    <2>2. d.m_rtag[tag] = i
      BY <1>1, <2>1 DEF RankInverts, Inverts
    <2> QED
      BY <2>1, <2>2
  <1>3. last \in Nat /\ last \in Indices(n) /\ Indices(last) \in SUBSET Indices(n)
        /\ last \notin Indices(last)
        /\ (\A i \in Indices(n) : i = last \/ i \in Indices(last))
        /\ (idx < last <=> idx \in Indices(last)) /\ (~(idx < last) => idx = last)
    BY <1>1, <1>2 DEF Indices
  <1>4. gone \in Shaped /\ gone.m_nparticles = n /\ gone.m_nghosts = 0
        /\ gone.m_tag = d.m_tag /\ gone.m_rtag = g
    <2>1. g \in RTags
      BY <1>1, ParticleDataAssumption DEF RTags
    <2>2. gone = [d EXCEPT !.m_rtag = g]
      BY <1>1 DEF Shaped
    <2> HIDE DEF g
    <2> QED
      BY <1>1, <2>1, <2>2 DEF Shaped
  <1>5. e.m_nparticles = last /\ e.m_nghosts = 0 /\ e.m_tag = m /\ e.m_rtag = rtag
    <2>1. e.m_nparticles = last /\ e.m_nghosts = 0
      BY <1>4 DEF SwapLast, Shaped
    <2>2. e.m_tag = m
      BY <1>4 DEF SwapLast, Shaped, Indices
    <2>3. e.m_rtag = rtag
      BY <1>4 DEF SwapLast, Shaped
    <2> QED
      BY <2>1, <2>2, <2>3
  <1>6. \A i \in Indices(n) : d.m_tag[i] \in Tags /\ d.m_rtag[d.m_tag[i]] = i
    BY <1>1 DEF Array, Indices, RankInverts, Inverts
  <1>7. \A t \in K : \/ d.m_rtag[t] = NOT_LOCAL
                     \/ d.m_rtag[t] \in Indices(n) /\ d.m_tag[d.m_rtag[t]] = t
    <2>1. Inverts(n, d.m_tag, d.m_rtag, K)
      BY <1>1 DEF RankInverts
    <2> HIDE DEF n, last, idx, moved, m, g, rtag
    <2> QED
      BY <2>1 DEF Inverts
  <1>8. /\ \A i \in Indices(last) : m[i] = IF i = idx THEN moved ELSE d.m_tag[i]
        /\ \A t \in Tags : rtag[t] = IF idx < last /\ t = moved THEN idx
                                     ELSE IF t = tag THEN NOT_LOCAL ELSE d.m_rtag[t]
    BY <1>1, <1>3, <1>6 DEF RTags
  <1>9. moved \in Tags /\ d.m_rtag[moved] = last
    BY <1>3, <1>6
  <1> HIDE DEF n, last, idx, moved, m, g, rtag
  <1>10. \A i \in Indices(last) : rtag[m[i]] = i
    <2> SUFFICES ASSUME NEW i \in Indices(last)
                 PROVE  rtag[m[i]] = i
      OBVIOUS
    <2>1. CASE i = idx
      BY <1>3, <1>8, <1>9, <2>1
    <2>2. CASE i # idx
      <3>1. m[i] = d.m_tag[i] /\ d.m_tag[i] \in Tags /\ d.m_rtag[d.m_tag[i]] = i
        BY <1>3, <1>6, <1>8, <2>2
      <3>2. d.m_tag[i] # tag /\ d.m_tag[i] # moved
        BY <1>3, <1>9, <2>2, <3>1 DEF idx
      <3> QED
        BY <1>8, <3>1, <3>2
    <2> QED
      BY <2>1, <2>2
  <1>11. \A t \in K : rtag[t] = NOT_LOCAL \/ (rtag[t] \in Indices(last) /\ m[rtag[t]] = t)
    <2> SUFFICES ASSUME NEW t \in K
                 PROVE  rtag[t] = NOT_LOCAL \/ (rtag[t] \in Indices(last) /\ m[rtag[t]] = t)
      OBVIOUS
    <2>0. t \in Tags
      OBVIOUS
    <2>1. CASE idx < last /\ t = moved
      BY <1>3, <1>8, <2>0, <2>1
    <2>2. CASE ~(idx < last /\ t = moved) /\ t = tag
      BY <1>8, <2>0, <2>2
    <2>3. CASE ~(idx < last /\ t = moved) /\ t # tag
      <3>1. rtag[t] = d.m_rtag[t]
        BY <1>8, <2>0, <2>3
      <3>2. CASE d.m_rtag[t] \in Indices(n) /\ d.m_tag[d.m_rtag[t]] = t
        <4>1. d.m_rtag[t] # idx
          BY <1>2, <2>3, <3>2
        <4>2. d.m_rtag[t] # last
          BY <1>2, <1>3, <2>3, <3>2 DEF moved
        <4> QED
          BY <1>3, <1>8, <3>1, <3>2, <4>1, <4>2
      <3> QED
        BY <1>7, <3>1, <3>2
    <2> QED
      BY <2>1, <2>2, <2>3
  <1>12. RankInverts(e, K)
    <2>1. Total(e) = last
      BY <1>3, <1>5 DEF Total
    <2> QED
      BY <1>5, <1>10, <1>11, <2>1 DEF RankInverts, Inverts
  <1>13. ASSUME NEW t
         PROVE  On(e, t) <=> On(d, t) /\ t # tag
    <2>1. ASSUME NEW i \in Indices(last), m[i] = t
          PROVE  On(d, t) /\ t # tag
      <3>1. CASE i = idx
        BY <1>2, <1>3, <1>6, <1>8, <2>1, <3>1 DEF On, Occurs, n, moved
      <3>2. CASE i # idx
        BY <1>2, <1>3, <1>6, <1>8, <2>1, <3>2 DEF On, Occurs, n, idx
      <3> QED
        BY <3>1, <3>2
    <2>2. ASSUME NEW i \in Indices(n), d.m_tag[i] = t, t # tag
          PROVE  \E j \in Indices(last) : m[j] = t
      <3>1. i # idx
        BY <1>2, <2>2
      <3>2. CASE i = last
        <4>1. idx \in Indices(last)
          BY <1>3, <3>1, <3>2
        <4>2. m[idx] = t
          BY <1>8, <2>2, <3>2, <4>1 DEF moved
        <4> QED
          BY <4>1, <4>2
      <3>3. CASE i # last
        BY <1>3, <1>8, <2>2, <3>1, <3>3
      <3> QED
        BY <3>2, <3>3
    <2> QED
      BY <1>5, <2>1, <2>2 DEF On, Occurs, n
  <1>14. last <= d.m_nparticles
    BY <1>1 DEF last, n
  <1> QED
    BY <1>5, <1>12, <1>13, <1>14

LEMMA ScatteredInverts ==
  ASSUME NEW k \in 0 .. MaxTags, NEW place, NEW r,
         NEW e, e = Scattered(place, k, r)
  PROVE  RankInverts(e, 0 .. (k - 1)) /\ e.m_nghosts = 0
         /\ \A t : On(e, t) <=> t \in 0 .. (k - 1) /\ place[t] = r
  <1> DEFINE S == {t \in 0 .. (k - 1) : place[t] = r}
             n == Cardinality(S)
             m == InOrder(S)
             rtag == [t \in Tags |-> IF t < k THEN NOT_LOCAL ELSE 0]
  <1>1. S \in SUBSET (0 .. (k - 1)) /\ S \in SUBSET Nat /\ S \in SUBSET Tags
        /\ 0 .. (k - 1) \in SUBSET Tags
    BY ParticleDataAssumption DEF Tags
  <1>2. IsFiniteSet(S)
    <2>1. IsFiniteSet(0 .. (k - 1))
      <3>1. k - 1 \in Int
        OBVIOUS
      <3> QED
        BY <3>1, FS_Interval
    <2> QED
      BY <1>1, <2>1, FS_Subset
  <1>3. /\ n \in Nat /\ m \in [Indices(n) -> S] /\ Distinct(n, m)
        /\ \A x \in S : Occurs(n, m, x)
    BY <1>1, <1>2, InOrderBijection DEF Indices, Distinct, Occurs
  <1>4. rtag \in RTags
    BY DEF RTags
  <1>5. e = [m_nparticles |-> n, m_nghosts |-> 0, m_tag |-> m,
             m_rtag |-> Rebuilt(m, n, rtag), m_comm_flags |-> {}]
    BY DEF Scattered
  <1>6. \A t \in 0 .. (k - 1) : Occurs(n, m, t) \/ rtag[t] = NOT_LOCAL
    BY <1>1
  <1>7. m \in Array(n)
    <2> HIDE DEF m, n, S
    <2> QED
      BY <1>1, <1>3 DEF Array, Indices
  <1>8. \A t : Occurs(n, m, t) <=> t \in S
    <2> HIDE DEF m, n, S
    <2> QED
      BY <1>3 DEF Occurs
  <1>9. \A t : t \in S <=> t \in 0 .. (k - 1) /\ place[t] = r
    OBVIOUS
  <1> HIDE DEF S, n, m, rtag
  <1>10. Inverts(n, m, Rebuilt(m, n, rtag), 0 .. (k - 1))
    BY <1>1, <1>3, <1>4, <1>6, <1>7, RebuiltInverts
  <1>11. Total(e) = n
    BY <1>3, <1>5 DEF Total
  <1> QED
    BY <1>5, <1>8, <1>9, <1>10, <1>11 DEF RankInverts, On

\* A change of the marks.
LEMMA MarkedInverts ==
  ASSUME NEW d, IsParticleArrays(d), NEW K, RankInverts(d, K), NEW flags,
         NEW e, e = [d EXCEPT !.m_comm_flags = flags]
  PROVE  RankInverts(e, K) /\ e.m_nghosts = d.m_nghosts
         /\ e.m_nparticles = d.m_nparticles
         /\ \A t : On(e, t) <=> On(d, t)
  <1>1. d \in Shaped
    BY ArraysShaped
  <1>2. e.m_nparticles = d.m_nparticles /\ e.m_nghosts = d.m_nghosts
        /\ e.m_tag = d.m_tag /\ e.m_rtag = d.m_rtag
    BY <1>1 DEF Shaped
  <1> QED
    BY <1>2 DEF RankInverts, Total, On

\* An injective map of a finite range to itself reaches all of it.
LEMMA PermutationOnto ==
  ASSUME NEW n \in Nat, NEW f \in Permutations(Indices(n)), NEW j \in Indices(n)
  PROVE  \E i \in Indices(n) : f[i] = j
  <1> DEFINE T == 0 .. (n - 1)
  <1>1. IsFiniteSet(T)
    <2>1. n - 1 \in Int
      OBVIOUS
    <2> QED
      BY <2>1, FS_Interval
  <1>2. T = Indices(n)
    BY DEF Indices
  <1> HIDE DEF T
  <1>3. f \in Injection(T, T)
    BY <1>2 DEF Permutations, Injection, IsInjective
  <1>4. f \in Surjection(T, T)
    BY <1>1, <1>3, FS_Injection
  <1> QED
    BY <1>2, <1>4 DEF Surjection

\* applySortOrder().
LEMMA SortedInverts ==
  ASSUME NEW d, IsParticleArrays(d), d.m_nghosts = 0,
         NEW K \in SUBSET Tags, RankInverts(d, K),
         NEW order \in Permutations(Locals(d)),
         NEW m, m = [i \in Locals(d) |-> d.m_tag[order[i]]],
         NEW e, e.m_nparticles = d.m_nparticles, e.m_nghosts = 0, e.m_tag = m,
         e.m_rtag = Rebuilt(m, d.m_nparticles, d.m_rtag)
  PROVE  RankInverts(e, K) /\ e.m_nghosts = 0 /\ e.m_nparticles = d.m_nparticles
         /\ \A t : On(e, t) <=> On(d, t)
  <1> DEFINE n == d.m_nparticles
  <1>1. n \in Nat /\ Total(d) = n /\ d \in Shaped /\ Locals(d) = Indices(n)
        /\ d.m_tag \in Array(n) /\ d.m_rtag \in RTags
    BY ArraysFields, ArraysShaped DEF Total, Locals, Indices
  <1>2. /\ e.m_nparticles = n /\ e.m_nghosts = 0 /\ e.m_tag = m
        /\ e.m_rtag = Rebuilt(m, n, d.m_rtag)
    OBVIOUS
  <1>3. order \in [Indices(n) -> Indices(n)] /\ Distinct(n, order)
    BY <1>1 DEF Permutations, Distinct
  <1>4. \A j \in Indices(n) : \E i \in Indices(n) : order[i] = j
    <2>1. order \in Permutations(Indices(n))
      BY <1>1
    <2> HIDE DEF n
    <2> QED
      BY <1>1, <2>1, PermutationOnto
  <1>5. Inverts(n, d.m_tag, d.m_rtag, K)
    BY <1>1 DEF RankInverts
  <1> HIDE DEF n
  <1>6. m = [i \in Indices(n) |-> d.m_tag[order[i]]]
    BY <1>1
  <1>7. Distinct(n, m)
    <2>1. Distinct(n, d.m_tag)
      BY <1>1, <1>5, InvertsDistinct
    <2> QED
      BY <1>1, <1>3, <1>6, <2>1, SelectedDistinct
  <1>8. m \in Array(n)
    BY <1>1, <1>3, <1>6 DEF Array, Indices
  <1>9. \A t : Occurs(n, m, t) <=> Occurs(n, d.m_tag, t)
    BY <1>3, <1>4, <1>6 DEF Occurs
  <1>10. \A t \in K : Occurs(n, m, t) \/ d.m_rtag[t] = NOT_LOCAL
    BY <1>1, <1>5, <1>9, InvertsAbsent
  <1>11. Inverts(n, m, Rebuilt(m, n, d.m_rtag), K)
    BY <1>1, <1>7, <1>8, <1>10, RebuiltInverts
  <1>12. Total(e) = n
    BY <1>1, <1>2 DEF Total
  <1> QED
    BY <1>2, <1>9, <1>11, <1>12 DEF RankInverts, On, n

\* A direction of exchangeGhosts().
LEMMA GhostedInverts ==
  ASSUME NEW d, IsParticleArrays(d), NEW K \in SUBSET Tags, RankInverts(d, K),
         NEW k \in Nat, NEW b \in Array(k), Length(b) = k, Distinct(k, b),
         \A i \in Indices(k) : b[i] \in K /\ d.m_rtag[b[i]] = NOT_LOCAL,
         NEW n, n = d.m_nparticles + d.m_nghosts,
         NEW e, e.m_nparticles = d.m_nparticles, e.m_nghosts = d.m_nghosts + k,
         e.m_tag = Appended(n, d.m_tag, k, b),
         e.m_rtag = Rebuilt(Appended(n, d.m_tag, k, b), n + k, d.m_rtag)
  PROVE  /\ RankInverts(e, K) /\ e.m_nparticles = d.m_nparticles
         /\ e.m_nghosts = d.m_nghosts + k
         /\ \A t : On(e, t) <=> On(d, t)
         /\ \A i \in Ghosts(e) : \/ i \in Ghosts(d) /\ e.m_tag[i] = d.m_tag[i]
                                 \/ \E j \in Indices(k) : e.m_tag[i] = b[j]
  <1> DEFINE a == Appended(n, d.m_tag, k, b)
             top == n + k
  <1>1. n \in Nat /\ Total(d) = n /\ d \in Shaped /\ d.m_tag \in Array(n)
        /\ d.m_rtag \in RTags /\ d.m_nparticles \in Nat /\ d.m_nghosts \in Nat
    BY ArraysFields, ArraysShaped DEF Total
  <1>3. /\ e.m_nparticles = d.m_nparticles /\ e.m_nghosts = d.m_nghosts + k /\ e.m_tag = a
        /\ e.m_rtag = Rebuilt(a, top, d.m_rtag)
    OBVIOUS
  <1>4. Inverts(n, d.m_tag, d.m_rtag, K)
    BY <1>1 DEF RankInverts
  <1>5. \A t : ~(Occurs(n, d.m_tag, t) /\ Occurs(k, b, t))
    <2> SUFFICES ASSUME NEW i \in Indices(n), NEW j \in Indices(k), d.m_tag[i] = b[j]
                 PROVE  FALSE
      BY DEF Occurs
    <2>1. d.m_rtag[d.m_tag[i]] = i /\ d.m_rtag[b[j]] = NOT_LOCAL
      BY <1>4 DEF Inverts
    <2>2. i # NOT_LOCAL
      BY <1>1 DEF Indices, NOT_LOCAL
    <2> QED
      BY <2>1, <2>2
  <1>6. Inverts(top, a, Rebuilt(a, top, d.m_rtag), K)
    BY <1>1, <1>4, <1>5, AppendedInverts
  <1>7. /\ top \in Nat /\ \A i \in Indices(n) : a[i] = d.m_tag[i]
        /\ \A i \in Indices(top) : ~(i < n) => i - n \in Indices(k) /\ a[i] = b[i - n]
    BY <1>1, AppendedArray DEF Appended, Indices
  <1>8. /\ Indices(d.m_nparticles) \in SUBSET Indices(n)
        /\ Total(e) = top
        /\ \A i \in Ghosts(e) : i \in Indices(top) /\ (i < n => i \in Ghosts(d) /\ i \in Indices(n))
    <2>1. Ghosts(e) = d.m_nparticles .. (d.m_nparticles + (d.m_nghosts + k) - 1)
          /\ Total(e) = d.m_nparticles + (d.m_nghosts + k)
      <3> HIDE DEF a
      <3> QED
        BY <1>1, <1>3 DEF Ghosts, Total
    <2>2. Ghosts(d) = d.m_nparticles .. (n - 1)
      BY <1>1 DEF Ghosts
    <2> DEFINE p == d.m_nparticles
               g == d.m_nghosts
    <2>3. p \in Nat /\ g \in Nat /\ n = p + g /\ n \in Nat
      BY <1>1
    <2> HIDE DEF a, p, g
    <2>4. Indices(p) \in SUBSET Indices(n)
      BY <2>3 DEF Indices
    <2>5. p + (g + k) = top
      BY <2>3
    <2>6. \A i \in p .. (p + (g + k) - 1) :
             i \in Indices(top) /\ (i < n => i \in p .. (n - 1) /\ i \in Indices(n))
      BY <2>3 DEF Indices
    <2> QED
      BY <2>1, <2>2, <2>4, <2>5, <2>6 DEF p, g
  <1> HIDE DEF a, top
  <1>9. \A t : On(e, t) <=> On(d, t)
    BY <1>3, <1>7, <1>8 DEF On, Occurs
  <1>10. ASSUME NEW i \in Ghosts(e)
         PROVE  \/ i \in Ghosts(d) /\ e.m_tag[i] = d.m_tag[i]
                \/ \E j \in Indices(k) : e.m_tag[i] = b[j]
    <2>1. CASE i < n
      BY <1>3, <1>7, <1>8, <2>1
    <2>2. CASE ~(i < n)
      <3>1. i - n \in Indices(k) /\ a[i] = b[i - n]
        BY <1>7, <1>8, <2>2
      <3> QED
        BY <1>3, <3>1
    <2> QED
      BY <2>1, <2>2
  <1> QED
    BY <1>3, <1>6, <1>8, <1>9, <1>10 DEF RankInverts

-----------------------------------------------------------------------------
(* The tags in use (S, n of them), those to recycle (the stack s) and the  *)
(* length of m_rtag.                                                       *)

Stacked(s) == {s[i] : i \in 1 .. Len(s)}
Unrepeated(s) == \A i, j \in 1 .. Len(s) : s[i] = s[j] => i = j

PoolRight(n, S, s, size) ==
    /\ n = Cardinality(S)
    /\ S \cup Stacked(s) = Indices(n + Len(s))
    /\ S \cap Stacked(s) = {}
    /\ Unrepeated(s)
    /\ s = <<>> => size = n
    /\ \A t \in S : t < size
    /\ size <= n + Len(s)

LEMMA PoolFresh ==
  ASSUME NEW k \in Nat
  PROVE  PoolRight(k, Indices(k), <<>>, k)
  <1>1. Cardinality(Indices(k)) = k
    <2>1. k - 1 \in Int
      OBVIOUS
    <2> QED
      BY <2>1, FS_Interval DEF Indices
  <1>2. Stacked(<<>>) = {} /\ Unrepeated(<<>>) /\ Len(<<>>) = 0
    BY DEF Stacked, Unrepeated
  <1>3. \A t \in Indices(k) : t < k
    BY DEF Indices
  <1> QED
    BY <1>1, <1>2, <1>3 DEF PoolRight

\* addParticle() takes the top of the stack, or the next number.
Taken(n, s, tag) == tag = IF s # <<>> THEN s[Len(s)] ELSE n
Popped(s, q) == q = IF s = <<>> THEN <<>> ELSE SubSeq(s, 1, Len(s) - 1)
GivenOut(n, s, tag, q) == Indices(n + 1 + Len(q)) = Indices(n + Len(s)) \cup {tag}

LEMMA PoolAdded ==
  ASSUME NEW n \in Nat, NEW S \in SUBSET Nat, IsFiniteSet(S), NEW s \in Seq(Nat),
         NEW size \in Nat, PoolRight(n, S, s, size),
         NEW tag, Taken(n, s, tag), NEW q, Popped(s, q)
  PROVE  /\ PoolRight(n + 1, S \cup {tag}, q, getMaximumTag(S \cup {tag}) + 1)
         /\ tag \notin S
         /\ GivenOut(n, s, tag, q)
  <1> USE DEF Taken, Popped, GivenOut
  <1> DEFINE T == S \cup {tag}
             top == getMaximumTag(T)
             l == Len(s)
  <1>1. CASE s = <<>>
    <2>1. l = 0 /\ q = <<>> /\ Len(q) = 0 /\ Stacked(s) = {} /\ tag = n /\ Unrepeated(q)
          /\ Stacked(q) = {}
      BY <1>1 DEF Stacked, Unrepeated
    <2>2. S = Indices(n) /\ tag \notin S
      <3>1. S = Indices(n + 0)
        BY <2>1 DEF PoolRight
      <3> QED
        BY <2>1, <3>1 DEF Indices
    <2>3. T = Indices(n + 1)
      BY <2>1, <2>2 DEF Indices
    <2>4. IsFiniteSet(T) /\ Cardinality(T) = n + 1
      BY <2>2, FS_AddElement DEF PoolRight
    <2>5. top = n
      <3>1. T \in SUBSET Nat /\ T # {}
        BY <2>1
      <3>2. top \in T /\ \A u \in T : u <= top
        BY <2>4, <3>1, MaximumType
      <3>3. n \in T
        BY <2>1
      <3> HIDE DEF top
      <3> QED
        BY <2>3, <3>2, <3>3 DEF Indices
    <2> HIDE DEF T, top
    <2>6. PoolRight(n + 1, T, q, n + 1)
      BY <2>1, <2>3, <2>4, PoolFresh DEF PoolRight, Indices
    <2>7. Indices(n + 1 + Len(q)) = Indices(n + l) \cup {tag}
      BY <2>1 DEF Indices
    <2> QED
      BY <2>2, <2>5, <2>6, <2>7 DEF T, top, l
  <1>2. CASE s # <<>>
    <2>1. /\ l \in Nat \ {0} /\ tag = s[l] /\ tag \in Nat
          /\ q \in Seq(Nat) /\ Len(q) = l - 1
          /\ \A i \in 1 .. Len(q) : q[i] = s[i] /\ i \in 1 .. l /\ i # l
          /\ \A i \in 1 .. l : i = l \/ i \in 1 .. Len(q)
      <3>1. l \in Nat \ {0}
        BY <1>2
      <3>2. q \in Seq(Nat) /\ Len(q) = l - 1 /\ \A i \in 1 .. (l - 1) : q[i] = s[i]
        <4> DEFINE k == l - 1
        <4>1. q = SubSeq(s, 1, k) /\ k \in Nat /\ 1 \in Int
          BY <1>2, <3>1
        <4>2. \A i \in 1 .. k : s[i] \in Nat
          BY <3>1
        <4> HIDE DEF k
        <4>3. /\ q \in Seq(Nat) /\ Len(q) = IF 1 <= k THEN k - 1 + 1 ELSE 0
              /\ \A i \in 1 .. k - 1 + 1 : q[i] = s[1 + i - 1]
          BY <4>1, <4>2, SubSeqProperties
        <4>4. Len(q) = k /\ \A i \in 1 .. k : q[i] = s[i]
          BY <4>1, <4>3
        <4> QED
          BY <4>3, <4>4 DEF k
      <3>3. \A i \in 1 .. (l - 1) : i \in 1 .. l /\ i # l
        BY <3>1
      <3>4. \A i \in 1 .. l : i = l \/ i \in 1 .. (l - 1)
        BY <3>1
      <3>5. tag = s[l] /\ tag \in Nat
        BY <1>2, <3>1
      <3> QED
        BY <3>1, <3>2, <3>3, <3>4, <3>5
    <2>2. tag \in Stacked(s) /\ tag \notin S /\ Stacked(q) \in SUBSET Stacked(s)
      <3>1. l \in 1 .. l
        BY <2>1
      <3> QED
        BY <2>1, <3>1 DEF PoolRight, Stacked
    <2>3. tag \notin Stacked(q) /\ Stacked(s) = Stacked(q) \cup {tag}
      <3>1. l \in 1 .. l /\ Unrepeated(s)
        BY <2>1 DEF PoolRight
      <3>2. ASSUME NEW i \in 1 .. Len(q)
            PROVE  q[i] # tag
        BY <2>1, <3>1 DEF Unrepeated
      <3>3. ASSUME NEW i \in 1 .. l
            PROVE  s[i] = tag \/ s[i] \in Stacked(q)
        BY <2>1 DEF Stacked
      <3> QED
        BY <2>2, <3>2, <3>3 DEF Stacked
    <2>4. Unrepeated(q)
      BY <2>1 DEF PoolRight, Unrepeated
    <2>5. IsFiniteSet(T) /\ Cardinality(T) = n + 1
      BY <2>2, FS_AddElement DEF PoolRight
    <2>6. n + 1 + Len(q) = n + l
      <3> DEFINE h == Len(q)
      <3>1. h = l - 1 /\ l \in Nat
        BY <2>1
      <3> HIDE DEF l, h
      <3>2. n + 1 + h = n + l
        BY <3>1
      <3> QED
        BY <3>2 DEF h
    <2>7. T \cup Stacked(q) = Indices(n + l) /\ T \cap Stacked(q) = {}
          /\ tag \in Indices(n + l)
      BY <2>2, <2>3 DEF PoolRight
    <2>8. /\ top \in Nat /\ top \in T /\ \A u \in T : u <= top /\ u \in Nat
      <3>1. T \in SUBSET Nat /\ T # {}
        BY <2>1
      <3> QED
        BY <2>5, <3>1, MaximumType
    <2> HIDE DEF top, T
    <2>9. \A t \in T : t < top + 1
      BY <2>8
    <2>10. top + 1 <= n + l
      <3>1. top \in Indices(n + l)
        BY <2>7, <2>8
      <3> QED
        BY <2>1, <2>8, <3>1 DEF Indices
    <2>11. q = <<>> => top + 1 = n + 1
      <3> SUFFICES ASSUME q = <<>> PROVE top = n
        OBVIOUS
      <3>1. Len(q) = 0
        BY EmptySeq
      <3>2. Stacked(q) = {}
        BY <3>1 DEF Stacked
      <3>3. T = Indices(n + 1)
        <4>1. l = 1
          BY <2>1, <3>1
        <4> QED
          BY <2>7, <3>2, <4>1
      <3> QED
        BY <2>8, <3>3 DEF Indices
    <2>12. PoolRight(n + 1, T, q, top + 1)
      BY <2>4, <2>5, <2>6, <2>7, <2>9, <2>10, <2>11 DEF PoolRight
    <2>13. Indices(n + 1 + Len(q)) = Indices(n + l) \cup {tag}
      BY <2>6, <2>7
    <2> QED
      BY <2>2, <2>12, <2>13 DEF T, top
  <1> QED
    BY <1>1, <1>2

\* removeParticle() pushes the tag.
LEMMA PoolRemoved ==
  ASSUME NEW n \in Nat, NEW S \in SUBSET Nat, IsFiniteSet(S), NEW s \in Seq(Nat),
         NEW size \in Nat, PoolRight(n, S, s, size), NEW tag \in S
  PROVE  /\ PoolRight(n - 1, S \ {tag}, Append(s, tag), size)
         /\ n - 1 + Len(Append(s, tag)) = n + Len(s)
  <1> DEFINE q == Append(s, tag)
             T == S \ {tag}
             l == Len(s)
  <1>1. /\ l \in Nat /\ Len(q) = l + 1 /\ q # <<>> /\ tag \in Nat
        /\ \A i \in 1 .. l : q[i] = s[i]
        /\ q[l + 1] = tag
    OBVIOUS
  <1> HIDE DEF q
  <1>2. /\ l + 1 \in 1 .. (l + 1)
        /\ \A i \in 1 .. l : i \in 1 .. (l + 1) /\ i # l + 1
        /\ \A i \in 1 .. (l + 1) : i = l + 1 \/ i \in 1 .. l
    BY <1>1
  <1>3. Stacked(q) = Stacked(s) \cup {tag}
    <2>1. \A x : (\E i \in 1 .. (l + 1) : q[i] = x) <=> x = tag \/ \E i \in 1 .. l : s[i] = x
      BY <1>1, <1>2
    <2> QED
      BY <1>1, <2>1 DEF Stacked
  <1>4. tag \notin Stacked(s)
    BY DEF PoolRight
  <1>5. \A i \in 1 .. l : s[i] # tag
    BY <1>4 DEF Stacked
  <1>6. Unrepeated(q)
    BY <1>1, <1>2, <1>5 DEF PoolRight, Unrepeated
  <1>7. IsFiniteSet(T) /\ Cardinality(T) = n - 1
    BY FS_RemoveElement DEF PoolRight
  <1>8. n - 1 + Len(q) = n + l
    BY <1>1
  <1>9. T \cup Stacked(q) = Indices(n + l) /\ T \cap Stacked(q) = {}
    BY <1>3, <1>4 DEF PoolRight
  <1> QED
    BY <1>1, <1>6, <1>7, <1>8, <1>9 DEF PoolRight, q

-----------------------------------------------------------------------------
(* The loop of resize() and reallocate(): Grown(n, max) is a length of at  *)
(* least n.  Induction is over a set of numbers.                           *)

\* A set of numbers with a member has a smallest one.
LEMMA Smallest ==
  ASSUME NEW S \in SUBSET Nat, NEW m \in S
  PROVE  \E x \in S : \A u \in S : x <= u
  <1> DEFINE T == S \cap (0 .. m)
  <1>1. IsFiniteSet(T) /\ T \in SUBSET Nat /\ m \in T
    <2>1. IsFiniteSet(0 .. m)
      BY FS_Interval
    <2> QED
      BY <2>1, FS_Subset
  <1>2. Cardinality(T) \in Nat /\ Cardinality(T) # 0
    BY <1>1, FS_CardinalityType, FS_EmptySet
  <1>3. 0 \in 0 .. (Cardinality(T) - 1)
    BY <1>2
  <1> HIDE DEF T
  <1>4. PICK x \in T : Position(T, x) = 0
    BY <1>1, <1>3, PositionOnto
  <1>5. \A u \in T : ~(u < x)
    <2> DEFINE A == {u \in T : u < x}
    <2>1. IsFiniteSet(A)
      BY <1>1, FS_Subset
    <2>2. Cardinality(A) = 0
      BY <1>4 DEF Position
    <2>3. A = {}
      BY <2>1, <2>2, FS_EmptySet
    <2> QED
      BY <2>3
  <1>6. x \in S /\ x \in 0 .. m /\ \A u \in S : u \in 0 .. m => ~(u < x)
    BY <1>5 DEF T
  <1>7. \A u \in S : x <= u
    BY <1>6
  <1> QED
    BY <1>6, <1>7

LEMMA Induction ==
  ASSUME NEW P \in SUBSET Nat, 0 \in P, \A m \in P : m + 1 \in P
  PROVE  P = Nat
  <1> SUFFICES ASSUME NEW m \in Nat \ P PROVE FALSE
    OBVIOUS
  <1>1. PICK x \in Nat \ P : \A u \in Nat \ P : x <= u
    BY Smallest
  <1>2. x # 0 /\ x - 1 \in Nat
    BY <1>1
  <1>3. x - 1 \in P
    BY <1>1, <1>2
  <1>4. x = (x - 1) + 1
    BY <1>1
  <1> QED
    BY <1>1, <1>3, <1>4
\* One turn of the loop that grows the arrays to n elements.
Turn(n, v) == IF n > v THEN (v * 9) \div 8 + 1 ELSE v

LEMMA TurnType ==
  ASSUME NEW n \in Nat, NEW v \in Nat
  PROVE  Turn(n, v) \in Nat /\ v <= Turn(n, v) /\ (n > v => v < Turn(n, v))
  BY DEF Turn

\* The lengths of the first turns.
Turns(n, max, m) == {g \in [0 .. m -> Nat] :
                       /\ g[0] = max
                       /\ \A k \in 1 .. m : g[k] = Turn(n, g[k - 1])}

LEMMA TurnsExist ==
  ASSUME NEW n \in Nat, NEW max \in Nat, NEW m \in Nat
  PROVE  Turns(n, max, m) # {}
  <1> DEFINE P == {k \in Nat : Turns(n, max, k) # {}}
  <1>1. 0 \in P
    <2>1. [k \in 0 .. 0 |-> max] \in Turns(n, max, 0)
      BY DEF Turns
    <2> QED
      BY <2>1
  <1>2. ASSUME NEW k \in P
        PROVE  k + 1 \in P
    <2>1. k \in Nat
      OBVIOUS
    <2>2. PICK g \in [0 .. k -> Nat] :
             /\ g[0] = max
             /\ \A i \in 1 .. k : g[i] = Turn(n, g[i - 1])
      BY DEF Turns
    <2> DEFINE h == [i \in 0 .. (k + 1) |-> IF i <= k THEN g[i] ELSE Turn(n, g[k])]
    <2>3. Turn(n, g[k]) \in Nat
      <3>1. k \in 0 .. k
        BY <2>1
      <3>2. g[k] \in Nat
        BY <2>2, <3>1
      <3> QED
        BY <3>2, TurnType
    <2>4. h \in [0 .. (k + 1) -> Nat] /\ h[0] = max
      BY <2>1, <2>2, <2>3
    <2>5. ASSUME NEW i \in 1 .. (k + 1)
          PROVE  h[i] = Turn(n, h[i - 1])
      <3>1. CASE i <= k
        <4>1. i \in 1 .. k /\ i \in 0 .. (k + 1) /\ i - 1 \in 0 .. (k + 1) /\ i - 1 <= k
          BY <2>1, <3>1
        <4>2. h[i] = g[i] /\ h[i - 1] = g[i - 1]
          BY <3>1, <4>1
        <4> QED
          BY <2>2, <4>1, <4>2
      <3>2. CASE ~(i <= k)
        <4>1. i = k + 1 /\ i \in 0 .. (k + 1) /\ i - 1 = k /\ k \in 0 .. (k + 1)
          BY <2>1, <3>2
        <4>2. h[i] = Turn(n, g[k]) /\ h[k] = g[k]
          BY <2>1, <3>2, <4>1
        <4> QED
          BY <4>1, <4>2
      <3> QED
        BY <3>1, <3>2
    <2> HIDE DEF h
    <2>6. h \in Turns(n, max, k + 1)
      BY <2>4, <2>5 DEF Turns
    <2> QED
      BY <2>1, <2>6
  <1> HIDE DEF P
  <1>3. P \in SUBSET Nat
    BY DEF P
  <1>4. P = Nat
    BY <1>1, <1>2, <1>3, Induction
  <1> QED
    BY <1>4 DEF P

LEMMA TurnsAgree ==
  ASSUME NEW n \in Nat, NEW max \in Nat, NEW a \in Nat, NEW b \in Nat,
         NEW g \in Turns(n, max, a), NEW h \in Turns(n, max, b),
         NEW i \in Nat, i <= a, i <= b
  PROVE  g[i] = h[i]
  <1> DEFINE P == {k \in Nat : k <= a /\ k <= b => g[k] = h[k]}
  <1>1. 0 \in P
    BY DEF Turns
  <1>2. ASSUME NEW k \in P
        PROVE  k + 1 \in P
    <2> SUFFICES ASSUME k + 1 <= a, k + 1 <= b
                 PROVE  g[k + 1] = h[k + 1]
      OBVIOUS
    <2>1. g[k] = h[k]
      OBVIOUS
    <2>2. k + 1 \in 1 .. a /\ k + 1 \in 1 .. b /\ (k + 1) - 1 = k
      OBVIOUS
    <2> QED
      BY <2>1, <2>2 DEF Turns
  <1> HIDE DEF P
  <1>3. P \in SUBSET Nat
    BY DEF P
  <1>4. P = Nat
    BY <1>1, <1>2, <1>3, Induction
  <1> QED
    BY <1>4 DEF P

LEMMA GrownEnough ==
  ASSUME NEW n \in Nat, NEW max \in Nat
  PROVE  Grown(n, max) \in Nat /\ n <= Grown(n, max)
  <1> DEFINE Body(f) == [k \in Nat |->
                           IF k = 0 THEN max
                           ELSE IF n > f[k - 1] THEN (f[k - 1] * 9) \div 8 + 1
                                                ELSE f[k - 1]]
             after == CHOOSE f : f = Body(f)
             run(m) == CHOOSE g : g \in Turns(n, max, m)
             f0 == [k \in Nat |-> run(k)[k]]
  <1>1. \A m \in Nat : run(m) \in Turns(n, max, m)
    BY TurnsExist
  <1> HIDE DEF run
  <1>2. f0[0] = max
    BY <1>1 DEF Turns
  <1>3. \A k \in Nat : f0[k] \in Nat
    BY <1>1 DEF Turns
  <1>4. ASSUME NEW k \in Nat, k # 0
        PROVE  f0[k] = Turn(n, f0[k - 1])
    <2>1. k - 1 \in Nat /\ k \in 1 .. k /\ k - 1 <= k
      BY <1>4
    <2>2. run(k) \in Turns(n, max, k) /\ run(k - 1) \in Turns(n, max, k - 1)
      BY <1>1, <2>1
    <2>3. run(k)[k] = Turn(n, run(k)[k - 1])
      BY <2>1, <2>2 DEF Turns
    <2>4. run(k)[k - 1] = run(k - 1)[k - 1]
      BY <2>1, <2>2, TurnsAgree
    <2> QED
      BY <2>1, <2>3, <2>4
  <1>5. f0 = Body(f0)
    <2>1. \A k \in Nat : f0[k] = Body(f0)[k]
      BY <1>2, <1>4 DEF Turn
    <2> QED
      BY <2>1
  <1>6. after = Body(after)
    BY <1>5
  <1>7. Grown(n, max) = after[n]
    BY DEF Grown
  <1> HIDE DEF after
  <1>8. after[0] = max /\ \A k \in Nat : k # 0 => after[k] = Turn(n, after[k - 1])
    BY <1>6 DEF Turn
  <1> HIDE DEF Body, f0
  <1> DEFINE P == {k \in Nat : after[k] \in Nat /\ (k <= after[k] \/ n <= after[k])}
  <1>9. 0 \in P
    BY <1>8
  <1>10. ASSUME NEW k \in P
         PROVE  k + 1 \in P
    <2>1. after[k + 1] = Turn(n, after[k])
      BY <1>8
    <2>2. after[k] \in Nat /\ (k <= after[k] \/ n <= after[k]) /\ k \in Nat
      OBVIOUS
    <2>3. /\ Turn(n, after[k]) \in Nat /\ after[k] <= Turn(n, after[k])
          /\ n > after[k] => after[k] < Turn(n, after[k])
      BY <2>2, TurnType
    <2> QED
      BY <2>1, <2>2, <2>3
  <1> HIDE DEF P
  <1>11. P \in SUBSET Nat
    BY DEF P
  <1>12. P = Nat
    BY <1>9, <1>10, <1>11, Induction
  <1>13. after[n] \in Nat /\ n <= after[n]
    BY <1>12 DEF P
  <1> QED
    BY <1>7, <1>13

-----------------------------------------------------------------------------
(* The invariant.  Known holds every tag given out since the last          *)
(* snapshot, which is more than m_rtag reaches when its end was recycled.  *)

Known == Indices(m_nglobal + Len(m_recycled_tags))

\* The particle is in the message to rank r.
In(r, t) == Occurs(Length(wire[r]), wire[r], t)
Held(r, t) == On(pd[r], t) \/ In(r, t)

TablesRight == \A r \in Ranks : RankInverts(pd[r], Known)
MessagesDistinct == \A r \in Ranks : Distinct(Length(wire[r]), wire[r])
Apart == \A r, s \in Ranks, t \in Tags :
            /\ Held(r, t) /\ Held(s, t) => r = s
            /\ ~(On(pd[r], t) /\ In(r, t))
InUse == \A t \in Tags : t \in m_tag_set <=> \E r \in Ranks : Held(r, t)

\* No two ranks send to the same rank, and none to one whose last message has
\* not been taken.
Routes == \A q \in Ranks : dest[q] # Nobody =>
             /\ dest[q] # q /\ wire[dest[q]] = Empty
             /\ \A s \in Ranks : dest[s] = dest[q] => s = q

Backed == \A r \in Ranks : \A i \in Ghosts(pd[r]) :
             \E s \in Ranks \ {r} : On(pd[s], pd[r].m_tag[i])
Pool == PoolRight(m_nglobal, m_tag_set, m_recycled_tags, m_rtag_size)

OwnInv == /\ IInv
          /\ TablesRight /\ MessagesDistinct /\ Apart /\ InUse
          /\ Routes /\ Backed /\ Pool

LEMMA EmptyDistinct ==
  Distinct(Length(Empty), Empty) /\ \A t : ~Occurs(Length(Empty), Empty, t)
  <1>1. Indices(Length(Empty)) = {}
    BY EmptyType DEF Indices
  <1> QED
    BY <1>1 DEF Distinct, Occurs

LEMMA QuietEmpty ==
  ASSUME Quiet
  PROVE  \A r \in Ranks, t \in Tags : ~In(r, t) /\ (Held(r, t) <=> On(pd[r], t))
  BY EmptyDistinct DEF Quiet, In, Held

LEMMA KnownType ==
  ASSUME OwnInv
  PROVE  /\ Known \in SUBSET Tags
         /\ \A t \in Tags : t < m_rtag_size => t \in Known
         /\ m_tag_set \in SUBSET Nat /\ IsFiniteSet(m_tag_set)
         /\ m_recycled_tags \in Seq(Nat) /\ m_recycled_tags \in Seq(Tags)
         /\ Len(m_recycled_tags) \in Nat
         /\ m_nglobal \in Nat /\ m_rtag_size \in Nat
  <1>1. /\ m_nglobal \in Nat /\ m_tag_set \subseteq Tags
        /\ m_recycled_tags \in Seq(Tags) /\ m_rtag_size \in Nat
    BY DEF OwnInv, IInv, TypeOK
  <1>2. IsFiniteSet(Tags) /\ Tags \in SUBSET Nat
    <2>1. MaxTags - 1 \in Int
      BY ParticleDataAssumption
    <2> QED
      BY <2>1, FS_Interval DEF Tags
  <1>3. IsFiniteSet(m_tag_set)
    BY <1>1, <1>2, FS_Subset
  <1>4. /\ Len(m_recycled_tags) \in Nat
        /\ \A i \in 1 .. Len(m_recycled_tags) : m_recycled_tags[i] \in Tags
        /\ m_recycled_tags \in Seq(Nat)
    BY <1>1, <1>2, LenProperties, ElementOfSeq, SeqMonotonic
  <1>5. Known \in SUBSET Tags
    BY <1>1, <1>4 DEF OwnInv, Pool, PoolRight, Known, Stacked
  <1>6. \A t \in Tags : t < m_rtag_size => t \in Known
    <2>1. m_rtag_size <= m_nglobal + Len(m_recycled_tags)
      BY DEF OwnInv, Pool, PoolRight
    <2> QED
      BY <1>1, <1>4, <2>1 DEF Known, Indices, Tags
  <1> QED
    BY <1>1, <1>2, <1>3, <1>4, <1>5, <1>6

\* An operation between communications, after which the ranks hold the tags in
\* use among them.
LEMMA QuietStep ==
  ASSUME IInv', Quiet, UNCHANGED wire, TablesRight', Routes', Backed', Pool',
         \A r, s \in Ranks, t \in Tags : On(pd'[r], t) /\ On(pd'[s], t) => r = s,
         \A t \in Tags : t \in m_tag_set' <=> \E r \in Ranks : On(pd'[r], t)
  PROVE  OwnInv'
  <1>1. \A r \in Ranks : wire'[r] = Empty
    BY DEF Quiet
  <1>2. \A r \in Ranks, t \in Tags : ~In(r, t)' /\ (Held(r, t)' <=> On(pd'[r], t))
    BY <1>1, EmptyDistinct DEF In, Held
  <1>3. MessagesDistinct'
    BY <1>1, EmptyDistinct DEF MessagesDistinct
  <1>4. Apart'
    BY <1>2 DEF Apart
  <1>5. InUse'
    BY <1>2 DEF InUse
  <1> QED
    BY <1>3, <1>4, <1>5 DEF OwnInv

\* ... without ghosts.
LEMMA NoGhostsBacked ==
  ASSUME IInv', \A r \in Ranks : pd'[r].m_nghosts = 0
  PROVE  Backed'
  <1>1. ASSUME NEW r \in Ranks
        PROVE  Ghosts(pd'[r]) = {}
    <2>1. pd'[r].m_nparticles \in Nat
      BY ArraysFields DEF IInv, TypeOK
    <2> QED
      BY <2>1 DEF Ghosts
  <1> QED
    BY <1>1 DEF Backed

\* An operation between communications that leaves every particle where it is.
LEMMA Rearranged ==
  ASSUME OwnInv, IInv', Quiet, UNCHANGED <<pool, wire>>, Routes', Backed',
         \A r \in Ranks : /\ RankInverts(pd'[r], Known)
                          /\ \A t : On(pd'[r], t) <=> On(pd[r], t)
  PROVE  OwnInv'
  <1>1. Known' = Known /\ m_tag_set' = m_tag_set
    BY DEF pool, Known
  <1>2. TablesRight'
    BY <1>1 DEF TablesRight
  <1>3. Pool'
    BY DEF OwnInv, Pool, pool
  <1>4. \A r, s \in Ranks, t \in Tags : On(pd'[r], t) /\ On(pd'[s], t) => r = s
    BY QuietEmpty DEF OwnInv, Apart
  <1>5. \A t \in Tags : t \in m_tag_set' <=> \E r \in Ranks : On(pd'[r], t)
    BY <1>1, QuietEmpty DEF OwnInv, InUse
  <1> QED
    BY <1>2, <1>3, <1>4, <1>5, QuietStep

LEMMA QuietRoutes ==
  ASSUME Quiet, UNCHANGED dest
  PROVE  Routes'
  BY DEF Quiet, Routes

LEMMA BareArrays ==
  ASSUME OwnInv
  PROVE  \A r \in Ranks :
            LET e == WithoutGhosts[r]
            IN  /\ IsParticleArrays(e) /\ e.m_nghosts = 0
                /\ RankInverts(e, Known) /\ \A t : On(e, t) <=> On(pd[r], t)
  <1> SUFFICES ASSUME NEW r \in Ranks
               PROVE  LET e == WithoutGhosts[r]
                      IN  /\ IsParticleArrays(e) /\ e.m_nghosts = 0
                          /\ RankInverts(e, Known) /\ \A t : On(e, t) <=> On(pd[r], t)
    OBVIOUS
  <1>1. IsParticleArrays(pd[r]) /\ RankInverts(pd[r], Known) /\ Known \in SUBSET Tags
    BY KnownType DEF OwnInv, IInv, TypeOK, TablesRight
  <1>2. /\ WithoutGhosts[r] = removeAllGhostParticles(pd[r])
        /\ IsParticleArrays(WithoutGhosts[r]) /\ WithoutGhosts[r].m_nghosts = 0
    BY WithoutGhostsType DEF OwnInv
  <1> QED
    BY <1>1, <1>2, BareInverts

-----------------------------------------------------------------------------
(* The steps.                                                              *)

LEMMA ThrowsOwn ==
  ASSUME OwnInv, NEW tag \in Tags, RemoveParticleThrows(tag)
  PROVE  OwnInv'
  <1>1. Quiet /\ pd' = WithoutGhosts /\ UNCHANGED <<pool, dest, wire>>
    BY DEF RemoveParticleThrows
  <1>2. IInv'
    BY RemoveParticleThrowsStep DEF OwnInv
  <1>3. Routes' /\ Backed'
    BY <1>1, <1>2, QuietRoutes, BareArrays, NoGhostsBacked
  <1> QED
    BY <1>1, <1>2, <1>3, BareArrays, Rearranged

LEMMA CacheOwn ==
  ASSUME OwnInv, maybe_rebuild_tag_cache
  PROVE  OwnInv'
  <1>1. IInv'
    BY RebuildStep DEF OwnInv
  <1>2. UNCHANGED <<pool, pd, dest, wire>>
    BY DEF maybe_rebuild_tag_cache
  <1> QED
    BY <1>1, <1>2 DEF OwnInv, TablesRight, MessagesDistinct, Apart, InUse, Routes,
       Backed, Pool, pool, Known, In, Held

LEMMA SetPositionOwn ==
  ASSUME OwnInv, NEW tag \in Tags, NEW new_rank \in Ranks, SetPosition(tag, new_rank)
  PROVE  OwnInv'
  <1>1. PICK owner \in Ranks :
           /\ Quiet /\ new_rank # owner
           /\ pd' = [WithoutGhosts EXCEPT ![owner].m_comm_flags =
                        @ \cup {pd[owner].m_rtag[tag]}]
           /\ dest' = [dest EXCEPT ![owner] = new_rank]
           /\ UNCHANGED <<pool, wire>>
    BY DEF SetPosition
  <1>2. IInv'
    BY SetPositionStep DEF OwnInv
  <1> DEFINE d == WithoutGhosts[owner]
             flags == d.m_comm_flags \cup {pd[owner].m_rtag[tag]}
  <1>3. /\ pd'[owner] = [d EXCEPT !.m_comm_flags = flags]
        /\ \A r \in Ranks \ {owner} : pd'[r] = WithoutGhosts[r]
    BY <1>1, WithoutGhostsType DEF OwnInv
  <1>4. /\ RankInverts(pd'[owner], Known) /\ pd'[owner].m_nghosts = 0
        /\ \A t : On(pd'[owner], t) <=> On(pd[owner], t)
    <2>1. /\ IsParticleArrays(d) /\ d.m_nghosts = 0 /\ RankInverts(d, Known)
          /\ \A t : On(d, t) <=> On(pd[owner], t)
      BY BareArrays
    <2> HIDE DEF d, flags
    <2> QED
      BY <1>3, <2>1, MarkedInverts
  <1>5. \A r \in Ranks : /\ RankInverts(pd'[r], Known) /\ pd'[r].m_nghosts = 0
                         /\ \A t : On(pd'[r], t) <=> On(pd[r], t)
    BY <1>3, <1>4, BareArrays
  <1>6. Routes'
    BY <1>1, ParticleDataAssumption DEF OwnInv, IInv, TypeOK, Routes, Quiet
  <1>7. Backed'
    BY <1>2, <1>5, NoGhostsBacked
  <1> QED
    BY <1>1, <1>2, <1>5, <1>6, <1>7, Rearranged

LEMMA MigrateOwn ==
  ASSUME OwnInv, NEW neighbor \in Shifts, NEW left \in [Ranks -> SUBSET Tags],
         Migrate(neighbor, left)
  PROVE  OwnInv'
  <1>1. Quiet /\ dest' = neighbor /\ UNCHANGED <<pool, wire>>
    BY DEF Migrate
  <1>2. IInv'
    BY MigrateStep DEF OwnInv
  <1>3. ASSUME NEW r \in Ranks
        PROVE  /\ RankInverts(pd'[r], Known) /\ pd'[r].m_nghosts = 0
               /\ \A t : On(pd'[r], t) <=> On(pd[r], t)
    <2> DEFINE d == WithoutGhosts[r]
               flags == (d.m_comm_flags \ Locals(d)) \cup left[r]
    <2>1. /\ IsParticleArrays(d) /\ d.m_nghosts = 0 /\ RankInverts(d, Known)
          /\ \A t : On(d, t) <=> On(pd[r], t)
      BY BareArrays
    <2>2. pd'[r] = [d EXCEPT !.m_comm_flags = flags]
      BY DEF Migrate, WithoutGhosts
    <2> HIDE DEF d, flags
    <2> QED
      BY <2>1, <2>2, MarkedInverts
  <1>4. Routes'
    BY <1>1 DEF Routes, Quiet, Shifts
  <1>5. Backed'
    BY <1>2, <1>3, NoGhostsBacked
  <1> QED
    BY <1>1, <1>2, <1>3, <1>4, <1>5, Rearranged

LEMMA SortOwn ==
  ASSUME OwnInv, NEW r \in Ranks, NEW order \in Permutations(Locals(pd[r])), Sort(r, order)
  PROVE  OwnInv'
  <1> DEFINE d == pd[r]
             m == [i \in Locals(d) |-> d.m_tag[order[i]]]
  <1>1. /\ IsParticleArrays(d) /\ RankInverts(d, Known) /\ Known \in SUBSET Tags
        /\ DOMAIN pd = Ranks
    BY KnownType DEF OwnInv, IInv, TypeOK, TablesRight
  <1>2. Quiet /\ d.m_nghosts = 0 /\ UNCHANGED <<pool, dest, wire>>
    BY DEF Sort
  <1>3. IInv'
    BY SortStep DEF OwnInv
  <1>4. /\ pd'[r] = [d EXCEPT !.m_tag = m, !.m_rtag = Rebuilt(m, d.m_nparticles, d.m_rtag)]
        /\ \A s \in Ranks \ {r} : pd'[s] = pd[s]
    <2>1. d \in Shaped
      BY <1>1, ArraysShaped
    <2> QED
      BY <1>1, <2>1 DEF Sort, Shaped
  <1>5. order \in Permutations(Locals(d))
    OBVIOUS
  <1> HIDE DEF d
  <1>6. /\ RankInverts(pd'[r], Known) /\ pd'[r].m_nghosts = 0
        /\ \A t : On(pd'[r], t) <=> On(d, t)
    <2> DEFINE e == pd'[r]
    <2>1. m = [i \in Locals(d) |-> d.m_tag[order[i]]]
      OBVIOUS
    <2> HIDE DEF m
    <2>2. d \in Shaped
      BY <1>1, ArraysShaped
    <2>3. /\ e.m_nparticles = d.m_nparticles /\ e.m_nghosts = 0 /\ e.m_tag = m
          /\ e.m_rtag = Rebuilt(m, d.m_nparticles, d.m_rtag)
      BY <1>2, <1>4, <2>2 DEF Shaped
    <2> HIDE DEF e
    <2>4. RankInverts(e, Known) /\ \A t : On(e, t) <=> On(d, t)
      BY <1>1, <1>2, <1>5, <2>1, <2>3, SortedInverts
    <2> QED
      BY <2>3, <2>4 DEF e
  <1>7. \A s \in Ranks : /\ RankInverts(pd'[s], Known)
                         /\ \A t : On(pd'[s], t) <=> On(pd[s], t)
    BY <1>4, <1>6 DEF OwnInv, TablesRight, d
  <1>8. Backed'
    <2>1. Ghosts(pd'[r]) = {}
      <3>1. pd'[r].m_nparticles \in Nat
        BY <1>3, ArraysFields DEF IInv, TypeOK
      <3> QED
        BY <1>6, <3>1 DEF Ghosts
    <2> QED
      BY <1>4, <1>7, <2>1 DEF OwnInv, Backed
  <1>9. Routes'
    BY <1>2, QuietRoutes
  <1> QED
    BY <1>2, <1>3, <1>7, <1>8, <1>9, Rearranged

LEMMA AddGhostsOwn ==
  ASSUME OwnInv, NEW r \in Ranks, NEW k \in 1 .. MaxTags, NEW b \in Array(k),
         AddGhosts(r, b)
  PROVE  OwnInv'
  <1> DEFINE d == pd[r]
             n == d.m_nparticles + d.m_nghosts
             m == [i \in 0 .. (n + Length(b) - 1) |->
                      IF i < n THEN d.m_tag[i] ELSE b[i - n]]
  <1>1. /\ IsParticleArrays(d) /\ RankInverts(d, Known) /\ Known \in SUBSET Tags
        /\ DOMAIN pd = Ranks
    BY KnownType DEF OwnInv, IInv, TypeOK, TablesRight
  <1>2. Quiet /\ UNCHANGED <<pool, dest, wire>>
    BY DEF AddGhosts
  <1>3. IInv'
    BY AddGhostsStep DEF OwnInv
  <1>4. k \in Nat /\ Length(b) = k /\ DOMAIN b = Indices(k)
    <2>1. k \in Nat /\ k - 1 \in Int
      OBVIOUS
    <2>2. Cardinality(0 .. (k - 1)) = k
      BY <2>1, FS_Interval
    <2> QED
      BY <2>1, <2>2 DEF Length, Array, Indices
  <1>5. /\ \A i \in Indices(k) : /\ d.m_rtag[b[i]] = NOT_LOCAL /\ Owners(b[i]) # {}
                                 /\ b[i] < m_rtag_size /\ b[i] \in Tags
        /\ Distinct(k, b)
    <2>1. \A i \in Indices(k) : b[i] \in Tags
      BY DEF Array, Indices
    <2> QED
      BY <1>4, <2>1 DEF AddGhosts, Distinct
  <1>6. /\ pd'[r] = [d EXCEPT !.m_nghosts = @ + Length(b), !.m_tag = m,
                              !.m_rtag = Rebuilt(m, n + Length(b), @)]
        /\ \A s \in Ranks \ {r} : pd'[s] = pd[s]
    <2>1. d \in Shaped
      BY <1>1, ArraysShaped
    <2> QED
      BY <1>1, <2>1 DEF AddGhosts, Shaped
  <1>7. \A i \in Indices(k) : b[i] \in Known /\ d.m_rtag[b[i]] = NOT_LOCAL
    BY <1>5, KnownType
  <1> DEFINE e == pd'[r]
  <1>8. /\ RankInverts(e, Known)
        /\ \A t : On(e, t) <=> On(d, t)
        /\ \A i \in Ghosts(e) : \/ i \in Ghosts(d) /\ e.m_tag[i] = d.m_tag[i]
                                \/ \E j \in Indices(k) : e.m_tag[i] = b[j]
    <2> DEFINE a == Appended(n, d.m_tag, k, b)
    <2>1. n = d.m_nparticles + d.m_nghosts /\ d \in Shaped
      BY <1>1, ArraysShaped
    <2>2. m = a /\ n \in Nat
      <3>1. n \in Nat
        BY <2>1 DEF Shaped
      <3>2. 0 .. (n + Length(b) - 1) = Indices(n + k)
        BY <1>4, <3>1 DEF Indices
      <3> QED
        BY <3>1, <3>2 DEF Appended
    <2>3. e = [d EXCEPT !.m_nghosts = @ + k, !.m_tag = a, !.m_rtag = Rebuilt(a, n + k, @)]
      BY <1>4, <1>6, <2>2
    <2> HIDE DEF d, m, n, e, a
    <2>4. /\ e.m_nparticles = d.m_nparticles /\ e.m_nghosts = d.m_nghosts + k
          /\ e.m_tag = a /\ e.m_rtag = Rebuilt(a, n + k, d.m_rtag)
      BY <2>1, <2>3 DEF Shaped
    <2> QED
      BY <1>1, <1>4, <1>5, <1>7, <2>1, <2>4, GhostedInverts DEF a
  <1>9. \A s \in Ranks : /\ RankInverts(pd'[s], Known)
                         /\ \A t : On(pd'[s], t) <=> On(pd[s], t)
    BY <1>6, <1>8 DEF OwnInv, TablesRight
  <1>10. ASSUME NEW j \in Indices(k)
         PROVE  \E s \in Ranks \ {r} : On(pd'[s], b[j])
    <2>1. PICK s \in Ranks : IsLocal(pd[s], b[j])
      BY <1>5 DEF Owners
    <2>2. On(pd[s], b[j])
      BY <1>7, <2>1, LocalOn DEF OwnInv, IInv, TypeOK, TablesRight
    <2>3. s # r
      <3>1. ~IsLocal(d, b[j])
        BY <1>1, <1>7, ArraysFields DEF IsLocal, Locals, NOT_LOCAL
      <3> QED
        BY <2>1, <3>1
    <2> QED
      BY <1>9, <2>2, <2>3
  <1>11. Backed'
    <2> SUFFICES ASSUME NEW q \in Ranks, NEW i \in Ghosts(pd'[q])
                 PROVE  \E s \in Ranks \ {q} : On(pd'[s], pd'[q].m_tag[i])
      BY DEF Backed
    <2>1. CASE q = r
      <3>1. ASSUME i \in Ghosts(d), e.m_tag[i] = d.m_tag[i]
            PROVE  \E s \in Ranks \ {q} : On(pd'[s], pd'[q].m_tag[i])
        BY <1>9, <2>1, <3>1 DEF OwnInv, Backed
      <3>2. ASSUME NEW j \in Indices(k), e.m_tag[i] = b[j]
            PROVE  \E s \in Ranks \ {q} : On(pd'[s], pd'[q].m_tag[i])
        BY <1>10, <2>1, <3>2
      <3> QED
        BY <1>8, <2>1, <3>1, <3>2
    <2>2. CASE q # r
      BY <1>6, <1>9, <2>2 DEF OwnInv, Backed
    <2> QED
      BY <2>1, <2>2
  <1>12. Routes'
    BY <1>2, QuietRoutes
  <1> QED
    BY <1>2, <1>3, <1>9, <1>11, <1>12, Rearranged

\* While particles are on their way there are no ghosts.
LEMMA BusyBacked ==
  ASSUME IInv', NoGhosts(pd')
  PROVE  Backed'
  BY NoGhostsBacked DEF NoGhosts

LEMMA SendOwn ==
  ASSUME OwnInv, NEW r \in Ranks, Send(r)
  PROVE  OwnInv'
  <1> DEFINE d == pd[r]
             q == dest[r]
             X(t) == Occurs(Length(Sent(d)), Sent(d), t)
  <1>1. q \in Ranks /\ q # r /\ ~Quiet /\ wire[q] = Empty
        /\ \A s \in Ranks : dest[s] = q => s = r
    BY DEF Send, OwnInv, IInv, TypeOK, Quiet, Routes
  <1>2. IInv'
    BY SendStep DEF OwnInv
  <1>3. NoGhosts(pd)
    BY <1>1 DEF OwnInv, IInv, Bare
  <1>4. /\ IsParticleArrays(d) /\ d.m_nghosts = 0
        /\ RankInverts(d, Known) /\ Known \in SUBSET Tags
        /\ DOMAIN pd = Ranks /\ DOMAIN wire = Ranks
    BY <1>3, KnownType DEF OwnInv, IInv, TypeOK, NoGhosts, TablesRight
  <1>5. /\ pd'[r] = removeParticles(d) /\ \A s \in Ranks \ {r} : pd'[s] = pd[s]
        /\ wire'[q] = Sent(d) /\ \A s \in Ranks \ {q} : wire'[s] = wire[s]
        /\ UNCHANGED pool
    BY <1>1, <1>4 DEF Send
  <1>6. dest'[r] = Nobody /\ \A s \in Ranks \ {r} : dest'[s] = dest[s]
    BY DEF Send, OwnInv, IInv, TypeOK
  <1>7. /\ RankInverts(pd'[r], Known) /\ pd'[r].m_nghosts = 0
        /\ \A t : On(pd'[r], t) <=> On(d, t) /\ ~X(t)
    BY <1>4, <1>5, RemovedInverts
  <1>8. /\ Distinct(Length(Sent(d)), Sent(d))
        /\ \A t : X(t) => On(d, t)
    <2>1. /\ Distinct(Length(Sent(d)), Sent(d))
          /\ \A t : X(t) <=> \E i \in Leaving(d) : d.m_tag[i] = t
      BY <1>4, SentInverts
    <2>2. Leaving(d) \in SUBSET Indices(d.m_nparticles)
      BY DEF Leaving, Locals, Indices
    <2> HIDE DEF d
    <2> QED
      BY <2>1, <2>2 DEF On, Occurs
  <1>9. Known' = Known /\ m_tag_set' = m_tag_set
    BY <1>5 DEF pool, Known
  <1>10. TablesRight'
    BY <1>5, <1>7, <1>9 DEF OwnInv, TablesRight
  <1>11. MessagesDistinct'
    BY <1>5, <1>8 DEF OwnInv, MessagesDistinct
  <1>12. \A s \in Ranks, t \in Tags :
            /\ On(pd'[s], t) <=> On(pd[s], t) /\ (s = r => ~X(t))
            /\ In(s, t)' <=> IF s = q THEN X(t) ELSE In(s, t)
            /\ s = q => ~In(s, t)
            /\ X(t) => On(pd[r], t)
    <2>1. \A s \in Ranks, t \in Tags : On(pd'[s], t) <=> On(pd[s], t) /\ (s = r => ~X(t))
      BY <1>5, <1>7
    <2>2. \A t : ~In(q, t)
      BY <1>1, EmptyDistinct DEF In
    <2>3. \A s \in Ranks, t \in Tags : In(s, t)' <=> IF s = q THEN X(t) ELSE In(s, t)
      BY <1>5 DEF In
    <2> QED
      BY <1>8, <2>1, <2>2, <2>3
  <1> HIDE DEF X, q, d
  <1>13. Apart'
    BY <1>1, <1>12 DEF OwnInv, Apart, Held
  <1>14. InUse'
    <2> SUFFICES ASSUME NEW t \in Tags
                 PROVE  (\E s \in Ranks : Held(s, t))
                            <=> \E s \in Ranks : On(pd'[s], t) \/ In(s, t)'
      BY <1>9 DEF OwnInv, InUse, Held
    <2>1. ASSUME NEW s \in Ranks, Held(s, t)
          PROVE  \E u \in Ranks : On(pd'[u], t) \/ In(u, t)'
      BY <1>1, <1>12, <2>1 DEF Held
    <2>2. ASSUME NEW s \in Ranks, On(pd'[s], t) \/ In(s, t)'
          PROVE  \E u \in Ranks : Held(u, t)
      BY <1>1, <1>12, <2>2 DEF Held
    <2> QED
      BY <2>1, <2>2
  <1>15. Routes'
    <2> SUFFICES ASSUME NEW x \in Ranks, dest'[x] # Nobody
                 PROVE  /\ dest'[x] # x /\ wire'[dest'[x]] = Empty
                        /\ \A s \in Ranks : dest'[s] = dest'[x] => s = x
      BY DEF Routes
    <2>1. x # r /\ dest'[x] = dest[x] /\ dest[x] # Nobody
      BY <1>6
    <2>2. /\ dest[x] # x /\ wire[dest[x]] = Empty
          /\ \A s \in Ranks : dest[s] = dest[x] => s = x
      BY <2>1 DEF OwnInv, Routes
    <2>3. dest[x] \in Ranks
      BY <2>1 DEF OwnInv, IInv, TypeOK
    <2>4. dest[x] # q
      BY <1>1, <2>1
    <2>5. wire'[dest'[x]] = Empty
      BY <1>5, <2>1, <2>2, <2>3, <2>4
    <2>6. \A s \in Ranks : dest'[s] = dest'[x] => s = x
      BY <1>6, <2>1, <2>2
    <2> QED
      BY <2>1, <2>2, <2>5, <2>6
  <1>16. Backed'
    BY <1>2, <1>3, <1>5, <1>7, BusyBacked DEF NoGhosts
  <1>17. Pool'
    BY <1>5 DEF OwnInv, Pool, pool
  <1> QED
    BY <1>2, <1>10, <1>11, <1>13, <1>14, <1>15, <1>16, <1>17 DEF OwnInv

LEMMA ReceiveOwn ==
  ASSUME OwnInv, NEW r \in Ranks, Receive(r)
  PROVE  OwnInv'
  <1> DEFINE d == pd[r]
             b == wire[r]
             k == Length(b)
  <1>1. ~Quiet /\ dest[r] = Nobody /\ UNCHANGED <<pool, dest>>
    BY DEF Receive, Quiet
  <1>2. IInv'
    BY ReceiveStep DEF OwnInv
  <1>3. NoGhosts(pd)
    BY <1>1 DEF OwnInv, IInv, Bare
  <1>4. /\ IsParticleArrays(d) /\ d.m_nghosts = 0
        /\ RankInverts(d, Known) /\ Known \in SUBSET Tags
        /\ DOMAIN pd = Ranks /\ DOMAIN wire = Ranks
        /\ k \in Nat /\ b \in Array(k) /\ Distinct(k, b)
    BY <1>3, KnownType
    DEF OwnInv, IInv, TypeOK, WireFinite, NoGhosts, TablesRight, MessagesDistinct
  <1>5. /\ pd'[r] = addParticles(d, b) /\ \A s \in Ranks \ {r} : pd'[s] = pd[s]
        /\ wire'[r] = Empty /\ \A s \in Ranks \ {r} : wire'[s] = wire[s]
    BY <1>4 DEF Receive
  <1>6. \A t : ~(On(d, t) /\ Occurs(k, b, t))
    <2> SUFFICES ASSUME NEW t, On(d, t), Occurs(k, b, t)
                 PROVE  FALSE
      OBVIOUS
    <2>1. t \in Tags
      BY <1>4 DEF Occurs, Array, Indices
    <2> QED
      BY <2>1 DEF OwnInv, Apart, In
  <1> DEFINE e == pd'[r]
  <1>7. /\ RankInverts(e, Known) /\ e.m_nghosts = 0
        /\ \A t : On(e, t) <=> On(d, t) \/ Occurs(k, b, t)
    <2>1. e = addParticles(d, b) /\ k = Length(b)
      BY <1>5
    <2> HIDE DEF d, b, k, e
    <2> QED
      BY <1>4, <1>6, <2>1, AddedInverts
  <1>8. Known' = Known /\ m_tag_set' = m_tag_set
    BY <1>1 DEF pool, Known
  <1>9. TablesRight'
    BY <1>5, <1>7, <1>8 DEF OwnInv, TablesRight
  <1>10. MessagesDistinct'
    BY <1>5, EmptyDistinct DEF OwnInv, MessagesDistinct
  <1>11. \A s \in Ranks, t \in Tags :
            /\ On(pd'[s], t) <=> On(pd[s], t) \/ (s = r /\ In(r, t))
            /\ In(s, t)' <=> s # r /\ In(s, t)
    BY <1>5, <1>7, EmptyDistinct DEF In
  <1> HIDE DEF d, b, k, e
  <1>12. \A s \in Ranks, t \in Tags : Held(s, t)' <=> Held(s, t)
    BY <1>11 DEF Held
  <1>13. Apart'
    BY <1>11, <1>12 DEF OwnInv, Apart
  <1>14. InUse'
    BY <1>8, <1>12 DEF OwnInv, InUse
  <1>15. Routes'
    BY <1>1, <1>5 DEF OwnInv, Routes, IInv, TypeOK
  <1>16. Backed'
    BY <1>2, <1>3, <1>5, <1>7, BusyBacked DEF NoGhosts, e
  <1>17. Pool'
    BY <1>1 DEF OwnInv, Pool, pool
  <1> QED
    BY <1>2, <1>9, <1>10, <1>13, <1>14, <1>15, <1>16, <1>17 DEF OwnInv

LEMMA SnapshotOwn ==
  ASSUME OwnInv, NEW k \in 0 .. MaxTags, NEW place \in [0 .. (k - 1) -> Ranks],
         InitializeFromSnapshot(k, place)
  PROVE  OwnInv'
  <1>1. /\ Quiet /\ UNCHANGED <<dest, wire>>
        /\ m_nglobal' = k /\ m_tag_set' = 0 .. (k - 1)
        /\ m_recycled_tags' = <<>> /\ m_rtag_size' = k
        /\ \A r \in Ranks : pd'[r] = Scattered(place, k, r)
    BY DEF InitializeFromSnapshot
  <1>2. IInv'
    BY InitializeFromSnapshotStep DEF OwnInv
  <1>3. k \in Nat /\ 0 .. (k - 1) = Indices(k) /\ Known' = Indices(k)
    BY <1>1 DEF Known, Indices
  <1>4. \A r \in Ranks : /\ RankInverts(pd'[r], Indices(k)) /\ pd'[r].m_nghosts = 0
                         /\ \A t : On(pd'[r], t) <=> t \in Indices(k) /\ place[t] = r
    <2> SUFFICES ASSUME NEW r \in Ranks
                 PROVE  /\ RankInverts(pd'[r], Indices(k)) /\ pd'[r].m_nghosts = 0
                        /\ \A t : On(pd'[r], t) <=> t \in Indices(k) /\ place[t] = r
      OBVIOUS
    <2>1. /\ RankInverts(pd'[r], 0 .. (k - 1)) /\ pd'[r].m_nghosts = 0
          /\ \A t : On(pd'[r], t) <=> t \in 0 .. (k - 1) /\ place[t] = r
      BY <1>1, ScatteredInverts
    <2> QED
      BY <1>3, <2>1
  <1>5. TablesRight'
    BY <1>3, <1>4 DEF TablesRight
  <1>6. Pool'
    <2>1. PoolRight(k, Indices(k), <<>>, k)
      BY <1>3, PoolFresh
    <2>2. m_tag_set' = Indices(k)
      BY <1>1, <1>3
    <2> QED
      BY <1>1, <2>1, <2>2 DEF Pool
  <1>7. \A r, s \in Ranks, t \in Tags : On(pd'[r], t) /\ On(pd'[s], t) => r = s
    <2> SUFFICES ASSUME NEW r \in Ranks, NEW s \in Ranks, NEW t \in Tags,
                        On(pd'[r], t), On(pd'[s], t)
                 PROVE  r = s
      OBVIOUS
    <2>1. place[t] = r
      BY <1>4
    <2>2. place[t] = s
      BY <1>4
    <2> QED
      BY <2>1, <2>2
  <1>8. \A t \in Tags : t \in m_tag_set' <=> \E r \in Ranks : On(pd'[r], t)
    BY <1>1, <1>3, <1>4
  <1>9. Backed' /\ Routes'
    BY <1>1, <1>2, <1>4, NoGhostsBacked, QuietRoutes
  <1> QED
    BY <1>1, <1>2, <1>5, <1>6, <1>7, <1>8, <1>9, QuietStep

LEMMA AddParticleOwn ==
  ASSUME OwnInv, AddParticle
  PROVE  OwnInv'
  <1> DEFINE tag == NewTag
             b == [i \in {0} |-> tag]
  <1>1. /\ tag \in Tags /\ Quiet /\ UNCHANGED <<dest, wire>>
        /\ m_recycled_tags' =
              IF m_recycled_tags = <<>> THEN <<>>
              ELSE SubSeq(m_recycled_tags, 1, Len(m_recycled_tags) - 1)
        /\ m_tag_set' = m_tag_set \cup {tag}
        /\ m_rtag_size' = getMaximumTag(m_tag_set') + 1
        /\ m_nglobal' = m_nglobal + 1
    BY DEF AddParticle
  <1>2. IInv'
    BY AddParticleStep DEF OwnInv
  <1>3. Pool' /\ tag \notin m_tag_set /\ Known' = Known \cup {tag}
    <2>1. tag = IF m_recycled_tags # <<>> THEN m_recycled_tags[Len(m_recycled_tags)]
                                          ELSE m_nglobal
      BY DEF NewTag
    <2>2. PoolRight(m_nglobal, m_tag_set, m_recycled_tags, m_rtag_size)
      BY DEF OwnInv, Pool
    <2> HIDE DEF tag
    <2>3. /\ PoolRight(m_nglobal + 1, m_tag_set \cup {tag}, m_recycled_tags',
                       getMaximumTag(m_tag_set \cup {tag}) + 1)
          /\ tag \notin m_tag_set
          /\ Indices(m_nglobal + 1 + Len(m_recycled_tags'))
                = Indices(m_nglobal + Len(m_recycled_tags)) \cup {tag}
      <3> DEFINE n == m_nglobal
                 S == m_tag_set
                 s == m_recycled_tags
                 q == m_recycled_tags'
                 size == m_rtag_size
      <3>1. n \in Nat /\ S \in SUBSET Nat /\ IsFiniteSet(S) /\ s \in Seq(Nat) /\ size \in Nat
        BY KnownType
      <3>2. PoolRight(n, S, s, size)
        BY <2>2
      <3>3. Taken(n, s, tag)
        BY <2>1 DEF Taken
      <3>4. Popped(s, q)
        BY <1>1 DEF Popped
      <3> HIDE DEF n, S, s, q, size
      <3>5. tag \notin S
        BY <3>1, <3>2, <3>3, <3>4, PoolAdded
      <3>6. PoolRight(n + 1, S \cup {tag}, q, getMaximumTag(S \cup {tag}) + 1)
        BY <3>1, <3>2, <3>3, <3>4, PoolAdded
      <3>7. GivenOut(n, s, tag, q)
        BY <3>1, <3>2, <3>3, <3>4, PoolAdded
      <3> QED
        BY <3>5, <3>6, <3>7 DEF n, S, s, q, GivenOut
    <2>4. /\ m_tag_set' = m_tag_set \cup {tag}
          /\ m_rtag_size' = getMaximumTag(m_tag_set \cup {tag}) + 1
          /\ m_nglobal' = m_nglobal + 1
      BY <1>1
    <2>5. Known' = Indices(m_nglobal' + Len(m_recycled_tags'))
      BY DEF Known
    <2>6. Pool'
      BY <2>3, <2>4 DEF Pool
    <2> QED
      BY <2>3, <2>4, <2>5, <2>6 DEF Known
  <1>4. \A r \in Ranks : ~On(pd[r], tag)
    BY <1>1, <1>3, QuietEmpty DEF OwnInv, InUse
  <1>5. Length(b) = 1 /\ b \in Array(1) /\ Distinct(1, b)
        /\ \A t : Occurs(1, b, t) <=> t = tag
    <2>1. 0 .. 0 = {0} /\ Indices(1) = {0}
      BY DEF Indices
    <2> QED
      BY <1>1, <2>1, FS_Singleton DEF Length, Array, Distinct, Occurs
  <1>6. Known \in SUBSET Tags /\ Known' \in SUBSET Tags
    BY <1>1, <1>3, KnownType
  <1>7. ASSUME NEW r \in Ranks
        PROVE  /\ RankInverts(pd'[r], Known') /\ pd'[r].m_nghosts = 0
               /\ \A t : On(pd'[r], t) <=> On(pd[r], t) \/ (r = Root /\ t = tag)
    <2> DEFINE d == WithoutGhosts[r]
               e == pd'[r]
               L == Known'
    <2>1. /\ IsParticleArrays(d) /\ d.m_nghosts = 0 /\ RankInverts(d, Known)
          /\ \A t : On(d, t) <=> On(pd[r], t)
      BY BareArrays
    <2>2. ~On(d, tag) /\ L \in SUBSET Tags /\ L = Known \cup {tag}
      BY <1>3, <1>4, <1>6, <2>1
    <2>3. CASE r = Root
      <3>1. e = addParticles(d, b)
        BY <2>3 DEF AddParticle
      <3> HIDE DEF d, e, b, tag, L
      <3>2. 1 \in Nat /\ \A t : ~(On(d, t) /\ Occurs(1, b, t))
        BY <1>5, <2>2
      <3>3. \A t \in L : t \in Known \/ Occurs(1, b, t)
        BY <1>5, <2>2
      <3>4. /\ RankInverts(e, L) /\ e.m_nghosts = 0
            /\ \A t : On(e, t) <=> On(d, t) \/ Occurs(1, b, t)
        BY <1>5, <1>6, <2>1, <2>2, <3>1, <3>2, <3>3, AddedInverts
      <3> QED
        BY <1>5, <2>1, <2>3, <3>4 DEF e, L
    <2>4. CASE r # Root
      <3>1. e = [d EXCEPT !.m_rtag[tag] = NOT_LOCAL]
        BY <2>4 DEF AddParticle
      <3> HIDE DEF d, e, b, tag, L
      <3>2. L \in SUBSET (Known \cup {tag}) /\ L \in SUBSET Tags /\ tag \in Tags
        BY <1>1, <2>2
      <3>3. RankInverts(e, L) /\ e.m_nghosts = 0 /\ \A t : On(e, t) <=> On(d, t)
        BY <1>6, <2>1, <2>2, <3>1, <3>2, GoneInverts
      <3> QED
        BY <2>1, <2>4, <3>3 DEF e, L
    <2> QED
      BY <2>3, <2>4
  <1> HIDE DEF tag, b
  <1>8. TablesRight'
    BY <1>7 DEF TablesRight
  <1>9. \A r, s \in Ranks, t \in Tags : On(pd'[r], t) /\ On(pd'[s], t) => r = s
    BY <1>1, <1>4, <1>7, QuietEmpty DEF OwnInv, Apart
  <1>10. \A t \in Tags : t \in m_tag_set' <=> \E r \in Ranks : On(pd'[r], t)
    BY <1>1, <1>7, QuietEmpty, ParticleDataAssumption DEF OwnInv, InUse
  <1>11. Backed' /\ Routes'
    BY <1>1, <1>2, <1>7, NoGhostsBacked, QuietRoutes
  <1> QED
    BY <1>1, <1>2, <1>3, <1>8, <1>9, <1>10, <1>11, QuietStep

LEMMA RemoveParticleOwn ==
  ASSUME OwnInv, NEW tag \in Tags, RemoveParticle(tag)
  PROVE  OwnInv'
  <1>1. /\ Quiet /\ UNCHANGED <<dest, wire, m_rtag_size>>
        /\ tag < m_rtag_size /\ Owners(tag) # {}
        /\ m_tag_set' = m_tag_set \ {tag}
        /\ m_recycled_tags' = Append(m_recycled_tags, tag)
        /\ m_nglobal' = m_nglobal - 1
    BY DEF RemoveParticle
  <1>2. IInv'
    BY RemoveParticleStep DEF OwnInv
  <1>3. tag \in Known /\ Known \in SUBSET Tags
    BY <1>1, KnownType
  <1>4. \A r \in Ranks : r \in Owners(tag) <=> On(pd[r], tag)
    BY <1>3, LocalOn DEF Owners, OwnInv, IInv, TypeOK, TablesRight
  <1>5. tag \in m_tag_set
    BY <1>1, <1>4, QuietEmpty DEF OwnInv, InUse, Owners
  <1>6. Pool' /\ Known' = Known
    <2>1. /\ PoolRight(m_nglobal - 1, m_tag_set \ {tag}, m_recycled_tags', m_rtag_size)
          /\ m_nglobal - 1 + Len(m_recycled_tags') = m_nglobal + Len(m_recycled_tags)
      <3>1. PoolRight(m_nglobal, m_tag_set, m_recycled_tags, m_rtag_size)
        BY DEF OwnInv, Pool
      <3> DEFINE n == m_nglobal
                 S == m_tag_set
                 s == m_recycled_tags
                 size == m_rtag_size
      <3>2. n \in Nat /\ S \in SUBSET Nat /\ IsFiniteSet(S) /\ s \in Seq(Nat) /\ size \in Nat
        BY KnownType
      <3>3. PoolRight(n, S, s, size) /\ tag \in S
        BY <1>5, <3>1
      <3> HIDE DEF n, S, s, size
      <3>4. /\ PoolRight(n - 1, S \ {tag}, Append(s, tag), size)
            /\ n - 1 + Len(Append(s, tag)) = n + Len(s)
        BY <3>2, <3>3, PoolRemoved
      <3> QED
        BY <1>1, <3>4 DEF n, S, s, size
    <2>2. m_nglobal' = m_nglobal - 1 /\ m_tag_set' = m_tag_set \ {tag} /\ m_rtag_size' = m_rtag_size
      BY <1>1
    <2> QED
      BY <2>1, <2>2 DEF Pool, Known
  <1>7. ASSUME NEW r \in Ranks
        PROVE  /\ RankInverts(pd'[r], Known) /\ pd'[r].m_nghosts = 0
               /\ \A t : On(pd'[r], t) <=> On(pd[r], t) /\ t # tag
    <2> DEFINE d == WithoutGhosts[r]
               gone == [d EXCEPT !.m_rtag[tag] = NOT_LOCAL]
               e == pd'[r]
    <2>1. /\ IsParticleArrays(d) /\ d.m_nghosts = 0 /\ RankInverts(d, Known)
          /\ \A t : On(d, t) <=> On(pd[r], t)
      BY BareArrays
    <2>2. CASE r \in Owners(tag)
      <3>1. e = SwapLast(gone, d.m_rtag[tag]) /\ On(d, tag)
        BY <1>4, <2>1, <2>2 DEF RemoveParticle
      <3>2. gone = [d EXCEPT !.m_rtag[tag] = NOT_LOCAL]
        OBVIOUS
      <3> HIDE DEF d, gone, e
      <3>3. /\ RankInverts(e, Known) /\ e.m_nghosts = 0
            /\ \A t : On(e, t) <=> On(d, t) /\ t # tag
        BY <1>3, <2>1, <3>1, <3>2, SwapLastInverts
      <3> QED
        BY <2>1, <3>3 DEF e
    <2>3. CASE r \notin Owners(tag)
      <3>1. e = gone /\ ~On(d, tag)
        BY <1>4, <2>1, <2>3 DEF RemoveParticle
      <3>2. e = [d EXCEPT !.m_rtag[tag] = NOT_LOCAL] /\ Known \in SUBSET (Known \cup {tag})
        BY <3>1
      <3> HIDE DEF d, gone, e
      <3>3. RankInverts(e, Known) /\ e.m_nghosts = 0 /\ \A t : On(e, t) <=> On(d, t)
        BY <1>3, <2>1, <3>1, <3>2, GoneInverts
      <3> QED
        BY <2>1, <3>1, <3>3 DEF e
    <2> QED
      BY <2>2, <2>3
  <1>8. TablesRight'
    BY <1>6, <1>7 DEF TablesRight
  <1>9. \A r, s \in Ranks, t \in Tags : On(pd'[r], t) /\ On(pd'[s], t) => r = s
    BY <1>1, <1>7, QuietEmpty DEF OwnInv, Apart
  <1>10. \A t \in Tags : t \in m_tag_set' <=> \E r \in Ranks : On(pd'[r], t)
    BY <1>1, <1>7, QuietEmpty DEF OwnInv, InUse
  <1>11. Backed' /\ Routes'
    BY <1>1, <1>2, <1>7, NoGhostsBacked, QuietRoutes
  <1> QED
    BY <1>1, <1>2, <1>6, <1>8, <1>9, <1>10, <1>11, QuietStep

LEMMA InitOwn == Init => OwnInv
  <1> SUFFICES ASSUME Init PROVE OwnInv
    OBVIOUS
  <1>1. PICK k \in 0 .. MaxTags : \E place \in [0 .. (k - 1) -> Ranks] :
           /\ m_nglobal = k /\ m_tag_set = 0 .. (k - 1) /\ m_rtag_size = k
           /\ pd = [r \in Ranks |-> Scattered(place, k, r)]
    BY DEF Init
  <1>2. PICK place \in [0 .. (k - 1) -> Ranks] :
           /\ m_nglobal = k /\ m_tag_set = 0 .. (k - 1) /\ m_rtag_size = k
           /\ pd = [r \in Ranks |-> Scattered(place, k, r)]
    BY <1>1
  <1>3. /\ m_recycled_tags = <<>>
        /\ \A r \in Ranks : dest[r] = Nobody /\ wire[r] = Empty
    BY DEF Init
  <1>4. k \in Nat /\ 0 .. (k - 1) = Indices(k) /\ Known = Indices(k)
    BY <1>2, <1>3 DEF Known, Indices
  <1>5. \A r \in Ranks : /\ RankInverts(pd[r], Indices(k)) /\ pd[r].m_nghosts = 0
                         /\ \A t : On(pd[r], t) <=> t \in Indices(k) /\ place[t] = r
    <2> SUFFICES ASSUME NEW r \in Ranks
                 PROVE  /\ RankInverts(pd[r], Indices(k)) /\ pd[r].m_nghosts = 0
                        /\ \A t : On(pd[r], t) <=> t \in Indices(k) /\ place[t] = r
      OBVIOUS
    <2>1. pd[r] = Scattered(place, k, r)
      BY <1>2
    <2>2. /\ RankInverts(pd[r], 0 .. (k - 1)) /\ pd[r].m_nghosts = 0
          /\ \A t : On(pd[r], t) <=> t \in 0 .. (k - 1) /\ place[t] = r
      BY <2>1, ScatteredInverts
    <2> QED
      BY <1>4, <2>2
  <1>6. TablesRight
    BY <1>4, <1>5 DEF TablesRight
  <1>7. Pool
    <2>1. PoolRight(k, Indices(k), <<>>, k)
      BY <1>4, PoolFresh
    <2> QED
      BY <1>2, <1>3, <1>4, <2>1 DEF Pool
  <1>8. \A r \in Ranks, t \in Tags : ~In(r, t) /\ (Held(r, t) <=> On(pd[r], t))
    BY <1>3, QuietEmpty DEF Quiet
  <1>9. MessagesDistinct
    BY <1>3, EmptyDistinct DEF MessagesDistinct
  <1>10. Apart
    <2> SUFFICES ASSUME NEW r \in Ranks, NEW s \in Ranks, NEW t \in Tags,
                        On(pd[r], t), On(pd[s], t)
                 PROVE  r = s
      BY <1>8 DEF Apart
    <2>1. place[t] = r
      BY <1>5
    <2>2. place[t] = s
      BY <1>5
    <2> QED
      BY <2>1, <2>2
  <1>11. InUse
    <2>1. m_tag_set = Indices(k) /\ \A t \in Indices(k) : place[t] \in Ranks
      BY <1>2, <1>4
    <2> SUFFICES ASSUME NEW t \in Tags
                 PROVE  t \in m_tag_set <=> \E r \in Ranks : On(pd[r], t)
      BY <1>8 DEF InUse
    <2>2. ASSUME t \in m_tag_set
          PROVE  \E r \in Ranks : On(pd[r], t)
      BY <1>5, <2>1, <2>2
    <2>3. ASSUME NEW r \in Ranks, On(pd[r], t)
          PROVE  t \in m_tag_set
      BY <1>5, <2>1, <2>3
    <2> QED
      BY <2>2, <2>3
  <1>12. Routes
    BY <1>3 DEF Routes
  <1>13. Backed
    <2>1. ASSUME NEW r \in Ranks
          PROVE  Ghosts(pd[r]) = {}
      <3>1. pd[r].m_nparticles \in Nat
        BY InitIInv, ArraysFields DEF IInv, TypeOK
      <3> QED
        BY <1>5, <3>1 DEF Ghosts
    <2> QED
      BY <2>1 DEF Backed
  <1> QED
    BY <1>6, <1>7, <1>9, <1>10, <1>11, <1>12, <1>13, InitIInv DEF OwnInv

LEMMA NextOwn ==
  ASSUME OwnInv, [Next]_vars
  PROVE  OwnInv'
  <1>1. CASE UNCHANGED vars
    <2>1. UNCHANGED <<pool, pd, dest, wire>>
      BY <1>1 DEF vars
    <2>2. IInv'
      BY NextIInv DEF OwnInv
    <2>3. TablesRight' /\ MessagesDistinct' /\ Pool'
      BY <2>1 DEF OwnInv, TablesRight, MessagesDistinct, Pool, pool, Known
    <2>4. Apart' /\ InUse'
      BY <2>1 DEF OwnInv, Apart, InUse, Held, In, pool
    <2>5. Routes' /\ Backed'
      BY <2>1 DEF OwnInv, Routes, Backed
    <2> QED
      BY <2>2, <2>3, <2>4, <2>5 DEF OwnInv
  <1>2. CASE Collective
    BY <1>2, SnapshotOwn, AddParticleOwn, RemoveParticleOwn, ThrowsOwn, CacheOwn,
       SetPositionOwn, MigrateOwn
    DEF Collective
  <1>3. ASSUME NEW r \in Ranks, OneRank(r)
        PROVE  OwnInv'
    BY <1>3, SendOwn, ReceiveOwn, SortOwn, AddGhostsOwn DEF OneRank
  <1> QED
    BY <1>1, <1>2, <1>3 DEF Next

-----------------------------------------------------------------------------
(* What the invariant says.                                                *)

LEMMA OwnTagPool == OwnInv => TagPool
  BY DEF OwnInv, Pool, PoolRight, TagPool, Stacked, Unrepeated, Indices

LEMMA OwnTagsInverse == OwnInv => TagsInverse
  <1> SUFFICES ASSUME OwnInv, NEW r \in Ranks
               PROVE  LET d == pd[r]
                          here == Locals(d) \cup Ghosts(d) IN
                      /\ \A i \in here : d.m_rtag[d.m_tag[i]] = i
                      /\ \A t \in 0 .. (m_rtag_size - 1) :
                            \/ d.m_rtag[t] = NOT_LOCAL
                            \/ d.m_rtag[t] \in here /\ d.m_tag[d.m_rtag[t]] = t
    BY DEF TagsInverse
  <1> DEFINE d == pd[r]
  <1>1. d.m_nparticles \in Nat /\ d.m_nghosts \in Nat
    BY ArraysFields DEF OwnInv, IInv, TypeOK
  <1>2. Locals(d) \cup Ghosts(d) = Indices(Total(d))
    <2> HIDE DEF d
    <2> QED
      BY <1>1 DEF Locals, Ghosts, Indices, Total
  <1>3. \A t \in 0 .. (m_rtag_size - 1) : t \in Known
    <2>1. /\ m_rtag_size <= m_nglobal + Len(m_recycled_tags)
          /\ m_nglobal \in Nat /\ m_rtag_size \in Nat /\ Len(m_recycled_tags) \in Nat
      BY KnownType DEF OwnInv, Pool, PoolRight
    <2> QED
      BY <2>1 DEF Known, Indices
  <1>4. RankInverts(d, Known)
    BY DEF OwnInv, TablesRight
  <1> QED
    BY <1>2, <1>3, <1>4 DEF RankInverts, Inverts

LEMMA OwnOnce == OwnInv => OwnedOnce
  <1> SUFFICES ASSUME OwnInv PROVE OwnedOnce
    OBVIOUS
  <1>1. \A r \in Ranks : \A t : HasLocal(r, t) <=> On(pd[r], t)
    BY DEF HasLocal, On, Occurs, Locals, Indices
  <1>2. ASSUME NEW r \in Ranks
        PROVE  DOMAIN wire[r] = Indices(Length(wire[r]))
    BY DEF OwnInv, IInv, TypeOK, Array, Indices
  <1>3. \A r \in Ranks : \A t : Carried(r, t) <=> In(r, t)
    BY <1>2 DEF Carried, In, Occurs
  <1>4. m_tag_set \subseteq Tags
    BY DEF OwnInv, IInv, TypeOK
  <1>5. \A t \in m_tag_set : \E r \in Ranks :
           /\ HasLocal(r, t) \/ Carried(r, t)
           /\ ~(HasLocal(r, t) /\ Carried(r, t))
           /\ \A s \in Ranks \ {r} : ~HasLocal(s, t) /\ ~Carried(s, t)
    <2> SUFFICES ASSUME NEW t \in m_tag_set
                 PROVE  \E r \in Ranks :
                           /\ HasLocal(r, t) \/ Carried(r, t)
                           /\ ~(HasLocal(r, t) /\ Carried(r, t))
                           /\ \A s \in Ranks \ {r} : ~HasLocal(s, t) /\ ~Carried(s, t)
      OBVIOUS
    <2>1. PICK r \in Ranks : Held(r, t)
      BY <1>4 DEF OwnInv, InUse
    <2>2. ~(On(pd[r], t) /\ In(r, t)) /\ \A s \in Ranks \ {r} : ~Held(s, t)
      BY <1>4, <2>1 DEF OwnInv, Apart
    <2> QED
      BY <1>1, <1>3, <2>1, <2>2 DEF Held
  <1>6. \A r \in Ranks, t \in Tags : HasLocal(r, t) \/ Carried(r, t) => t \in m_tag_set
    BY <1>1, <1>3 DEF OwnInv, InUse, Held
  <1> QED
    BY <1>5, <1>6 DEF OwnedOnce

LEMMA OwnGhosts == OwnInv => GhostsBacked
  BY DEF OwnInv, Backed, GhostsBacked, HasLocal, On, Occurs, Locals, Indices

-----------------------------------------------------------------------------
(* The allocated length of the arrays.                                     *)

Room == \A r \in Ranks : /\ m_max_nparticles[r] \in Nat
                         /\ Total(pd[r]) <= m_max_nparticles[r]

LEMMA TotalType ==
  ASSUME IInv
  PROVE  \A r \in Ranks : /\ Total(pd[r]) \in Nat
                          /\ pd[r].m_nparticles \in Nat /\ pd[r].m_nghosts \in Nat
                          /\ pd[r].m_nparticles <= Total(pd[r])
  <1>1. \A r \in Ranks : pd[r].m_nparticles \in Nat /\ pd[r].m_nghosts \in Nat
    BY ArraysFields DEF IInv, TypeOK
  <1> QED
    BY <1>1 DEF Total

LEMMA ResizedRoom ==
  ASSUME IInv', Room, m_max_nparticles' = Resized(pd')
  PROVE  Room'
  <1> SUFFICES ASSUME NEW r \in Ranks
               PROVE  /\ m_max_nparticles'[r] \in Nat
                      /\ Total(pd'[r]) <= m_max_nparticles'[r]
    BY DEF Room
  <1>1. Total(pd'[r]) \in Nat /\ m_max_nparticles[r] \in Nat
    <2>1. pd'[r].m_nparticles \in Nat /\ pd'[r].m_nghosts \in Nat
      BY ArraysFields DEF IInv, TypeOK
    <2> QED
      BY <2>1 DEF Room, Total
  <1>2. m_max_nparticles'[r] = Grown(Total(pd'[r]), m_max_nparticles[r])
    BY DEF Resized, Total
  <1> QED
    BY <1>1, <1>2, GrownEnough

\* An operation that allocates nothing and lengthens no array.
LEMMA RoomKept ==
  ASSUME IInv, Room, UNCHANGED m_max_nparticles,
         \A r \in Ranks : \/ pd'[r] = pd[r]
                          \/ /\ pd'[r].m_nghosts = 0 /\ pd'[r].m_nparticles \in Nat
                             /\ pd'[r].m_nparticles <= pd[r].m_nparticles
  PROVE  Room'
  <1> SUFFICES ASSUME NEW r \in Ranks
               PROVE  Total(pd'[r]) <= m_max_nparticles[r]
    BY DEF Room
  <1>1. m_max_nparticles[r] \in Nat /\ Total(pd[r]) <= m_max_nparticles[r]
    BY DEF Room
  <1>2. CASE pd'[r] = pd[r]
    BY <1>1, <1>2
  <1>3. CASE /\ pd'[r].m_nghosts = 0 /\ pd'[r].m_nparticles \in Nat
             /\ pd'[r].m_nparticles <= pd[r].m_nparticles
    <2>1. Total(pd'[r]) = pd'[r].m_nparticles
      BY <1>3 DEF Total
    <2>2. /\ pd[r].m_nparticles \in Nat /\ Total(pd[r]) \in Nat
          /\ pd[r].m_nparticles <= Total(pd[r])
      BY TotalType
    <2> QED
      BY <1>1, <1>3, <2>1, <2>2
  <1> QED
    BY <1>2, <1>3

LEMMA BareCounts ==
  ASSUME IInv
  PROVE  \A r \in Ranks :
            LET e == WithoutGhosts[r]
            IN  /\ e \in Shaped /\ e.m_nghosts = 0
                /\ e.m_nparticles = pd[r].m_nparticles /\ e.m_nparticles \in Nat
                /\ e.m_nparticles <= pd[r].m_nparticles
  BY WithoutGhostsType, ArraysShaped, TotalType

LEMMA SnapshotRoom ==
  ASSUME IInv', NEW k, NEW place, InitializeFromSnapshot(k, place)
  PROVE  Room'
  <1> SUFFICES ASSUME NEW r \in Ranks
               PROVE  /\ m_max_nparticles'[r] \in Nat
                      /\ Total(pd'[r]) <= m_max_nparticles'[r]
    BY DEF Room
  <1>1. pd'[r].m_nparticles \in Nat
    BY ArraysFields DEF IInv, TypeOK
  <1>2. pd'[r].m_nghosts = 0 /\ m_max_nparticles'[r] = Allocated(pd'[r].m_nparticles)
    BY DEF InitializeFromSnapshot, Scattered
  <1> QED
    BY <1>1, <1>2 DEF Allocated, Total

LEMMA RemoveParticleRoom ==
  ASSUME OwnInv, OwnInv', Room, NEW tag \in Tags, RemoveParticle(tag)
  PROVE  Room'
  <1>1. /\ UNCHANGED m_max_nparticles /\ tag < m_rtag_size
        /\ \A r \in Ranks : r \in Owners(tag) <=> IsLocal(pd[r], tag)
    BY DEF RemoveParticle, Owners
  <1>2. tag \in Known /\ Known \in SUBSET Tags
    BY <1>1, KnownType
  <1>3. ASSUME NEW r \in Ranks
        PROVE  /\ pd'[r].m_nghosts = 0 /\ pd'[r].m_nparticles \in Nat
               /\ pd'[r].m_nparticles <= pd[r].m_nparticles
    <2> DEFINE d == WithoutGhosts[r]
               gone == [d EXCEPT !.m_rtag[tag] = NOT_LOCAL]
               e == pd'[r]
    <2>1. /\ IsParticleArrays(d) /\ d.m_nghosts = 0 /\ RankInverts(d, Known)
          /\ \A t : On(d, t) <=> On(pd[r], t)
      BY BareArrays
    <2>2. /\ d \in Shaped /\ d.m_nparticles = pd[r].m_nparticles
          /\ d.m_nparticles \in Nat
      BY BareCounts DEF OwnInv
    <2>3. e.m_nparticles \in Nat
      BY ArraysFields DEF OwnInv, IInv, TypeOK
    <2>4. CASE r \in Owners(tag)
      <3>1. e = SwapLast(gone, d.m_rtag[tag])
        BY <2>4 DEF RemoveParticle
      <3>2. On(d, tag)
        BY <1>1, <1>2, <2>1, <2>4, LocalOn DEF OwnInv, IInv, TypeOK, TablesRight
      <3>3. gone = [d EXCEPT !.m_rtag[tag] = NOT_LOCAL]
        OBVIOUS
      <3> HIDE DEF d, gone, e
      <3>4. e.m_nghosts = 0 /\ e.m_nparticles <= d.m_nparticles
        BY <1>2, <2>1, <3>1, <3>2, <3>3, SwapLastInverts
      <3> QED
        BY <2>2, <2>3, <3>4 DEF e
    <2>5. CASE r \notin Owners(tag)
      <3>1. e = gone
        BY <2>5 DEF RemoveParticle
      <3>2. gone.m_nghosts = d.m_nghosts /\ gone.m_nparticles = d.m_nparticles
        BY <2>2 DEF Shaped
      <3> HIDE DEF d, gone, e
      <3> QED
        BY <2>1, <2>2, <3>1, <3>2 DEF e
    <2> QED
      BY <2>4, <2>5
  <1> QED
    BY <1>1, <1>3, RoomKept DEF OwnInv

LEMMA SetPositionRoom ==
  ASSUME OwnInv, Room, NEW tag \in Tags, NEW new_rank \in Ranks, SetPosition(tag, new_rank)
  PROVE  Room'
  <1>1. PICK owner \in Ranks :
           /\ pd' = [WithoutGhosts EXCEPT ![owner].m_comm_flags =
                        @ \cup {pd[owner].m_rtag[tag]}]
           /\ UNCHANGED m_max_nparticles
    BY DEF SetPosition
  <1> DEFINE d == WithoutGhosts[owner]
             flags == d.m_comm_flags \cup {pd[owner].m_rtag[tag]}
  <1>2. /\ pd'[owner] = [d EXCEPT !.m_comm_flags = flags]
        /\ \A r \in Ranks \ {owner} : pd'[r] = WithoutGhosts[r]
    BY <1>1, WithoutGhostsType DEF OwnInv
  <1>3. d \in Shaped
    BY BareCounts DEF OwnInv
  <1>4. pd'[owner].m_nghosts = d.m_nghosts /\ pd'[owner].m_nparticles = d.m_nparticles
    BY <1>2, <1>3 DEF Shaped
  <1>5. \A r \in Ranks : /\ pd'[r].m_nghosts = 0 /\ pd'[r].m_nparticles \in Nat
                         /\ pd'[r].m_nparticles <= pd[r].m_nparticles
    BY <1>2, <1>4, BareCounts DEF OwnInv
  <1> QED
    BY <1>1, <1>5, RoomKept DEF OwnInv

LEMMA MigrateRoom ==
  ASSUME OwnInv, Room, NEW neighbor, NEW left, Migrate(neighbor, left)
  PROVE  Room'
  <1>1. ASSUME NEW r \in Ranks
        PROVE  /\ pd'[r].m_nghosts = 0 /\ pd'[r].m_nparticles \in Nat
               /\ pd'[r].m_nparticles <= pd[r].m_nparticles
    <2> DEFINE d == WithoutGhosts[r]
               flags == (d.m_comm_flags \ Locals(d)) \cup left[r]
    <2>1. pd'[r] = [d EXCEPT !.m_comm_flags = flags]
      BY DEF Migrate, WithoutGhosts
    <2>2. /\ d \in Shaped /\ d.m_nghosts = 0 /\ d.m_nparticles = pd[r].m_nparticles
          /\ d.m_nparticles \in Nat /\ d.m_nparticles <= pd[r].m_nparticles
      BY BareCounts DEF OwnInv
    <2> HIDE DEF d, flags
    <2>3. pd'[r].m_nghosts = d.m_nghosts /\ pd'[r].m_nparticles = d.m_nparticles
      BY <2>1, <2>2 DEF Shaped
    <2> QED
      BY <2>2, <2>3
  <1>2. UNCHANGED m_max_nparticles
    BY DEF Migrate
  <1> QED
    BY <1>1, <1>2, RoomKept DEF OwnInv

LEMMA SendRoom ==
  ASSUME OwnInv, OwnInv', Room, NEW r \in Ranks, Send(r)
  PROVE  Room'
  <1> DEFINE d == pd[r]
  <1>1. ~Quiet /\ UNCHANGED m_max_nparticles
    BY DEF Send, Quiet
  <1>2. NoGhosts(pd)
    BY <1>1 DEF OwnInv, IInv, Bare
  <1>3. /\ IsParticleArrays(d) /\ d.m_nghosts = 0
        /\ RankInverts(d, Known) /\ Known \in SUBSET Tags /\ DOMAIN pd = Ranks
    BY <1>2, KnownType DEF OwnInv, IInv, TypeOK, NoGhosts, TablesRight
  <1>4. pd'[r] = removeParticles(d) /\ \A s \in Ranks \ {r} : pd'[s] = pd[s]
    BY <1>3 DEF Send
  <1> HIDE DEF d
  <1>5. pd'[r].m_nghosts = 0 /\ pd'[r].m_nparticles <= d.m_nparticles
    BY <1>3, <1>4, RemovedInverts
  <1>6. pd'[r].m_nparticles \in Nat
    BY ArraysFields DEF OwnInv, IInv, TypeOK
  <1> QED
    BY <1>1, <1>4, <1>5, <1>6, RoomKept DEF OwnInv, d

LEMMA SortRoom ==
  ASSUME OwnInv, Room, NEW r \in Ranks, NEW order, Sort(r, order)
  PROVE  Room'
  <1> DEFINE d == pd[r]
             m == [i \in Locals(d) |-> d.m_tag[order[i]]]
  <1>1. d \in Shaped /\ DOMAIN pd = Ranks
    BY ArraysShaped DEF OwnInv, IInv, TypeOK
  <1>2. d.m_nghosts = 0 /\ UNCHANGED m_max_nparticles
    BY DEF Sort
  <1>3. /\ pd'[r] = [d EXCEPT !.m_tag = m, !.m_rtag = Rebuilt(m, d.m_nparticles, d.m_rtag)]
        /\ \A s \in Ranks \ {r} : pd'[s] = pd[s]
    BY <1>1 DEF Sort, Shaped
  <1> HIDE DEF m
  <1>4. pd'[r].m_nghosts = d.m_nghosts /\ pd'[r].m_nparticles = d.m_nparticles
    BY <1>1, <1>3 DEF Shaped
  <1>5. d.m_nparticles \in Nat
    BY TotalType DEF OwnInv
  <1>6. /\ pd'[r].m_nghosts = 0 /\ pd'[r].m_nparticles \in Nat
        /\ pd'[r].m_nparticles <= pd[r].m_nparticles
    <2>1. d.m_nparticles <= d.m_nparticles
      BY <1>5
    <2> QED
      BY <1>2, <1>4, <1>5, <2>1
  <1> QED
    BY <1>2, <1>3, <1>6, RoomKept DEF OwnInv

LEMMA InitRoom == Init => Room
  <1> SUFFICES ASSUME Init PROVE Room
    OBVIOUS
  <1>1. IInv
    BY InitIInv
  <1> SUFFICES ASSUME NEW r \in Ranks
               PROVE  m_max_nparticles[r] \in Nat /\ Total(pd[r]) <= m_max_nparticles[r]
    BY DEF Room
  <1>2. pd[r].m_nparticles \in Nat
    BY <1>1, TotalType
  <1>3. pd[r].m_nghosts = 0 /\ m_max_nparticles[r] = Allocated(pd[r].m_nparticles)
    BY DEF Init, Scattered
  <1> QED
    BY <1>2, <1>3 DEF Allocated, Total

LEMMA NextRoom ==
  ASSUME OwnInv, Room, [Next]_vars
  PROVE  Room'
  <1>1. OwnInv' /\ IInv'
    BY NextOwn DEF OwnInv
  <1>2. CASE UNCHANGED <<pd, m_max_nparticles>>
    BY <1>2 DEF Room
  <1>3. CASE UNCHANGED vars
    BY <1>2, <1>3 DEF vars
  <1>4. CASE Collective
    <2>1. ASSUME NEW k \in 0 .. MaxTags, NEW place \in [0 .. (k - 1) -> Ranks],
                 InitializeFromSnapshot(k, place)
          PROVE  Room'
      BY <1>1, <2>1, SnapshotRoom
    <2>2. CASE AddParticle
      BY <1>1, <2>2, ResizedRoom DEF AddParticle
    <2>3. ASSUME NEW tag \in Tags, RemoveParticle(tag)
          PROVE  Room'
      BY <1>1, <2>3, RemoveParticleRoom
    <2>4. ASSUME NEW tag \in Tags, RemoveParticleThrows(tag)
          PROVE  Room'
      <3>1. pd' = WithoutGhosts /\ UNCHANGED m_max_nparticles
        BY <2>4 DEF RemoveParticleThrows
      <3> QED
        BY <3>1, BareCounts, RoomKept DEF OwnInv
    <2>5. CASE maybe_rebuild_tag_cache
      BY <1>2, <2>5 DEF maybe_rebuild_tag_cache
    <2>6. ASSUME NEW tag \in Tags, NEW r \in Ranks, SetPosition(tag, r)
          PROVE  Room'
      BY <2>6, SetPositionRoom
    <2>7. ASSUME NEW neighbor \in Shifts, NEW left \in [Ranks -> SUBSET Tags],
                 Migrate(neighbor, left)
          PROVE  Room'
      BY <2>7, MigrateRoom
    <2> QED
      BY <1>4, <2>1, <2>2, <2>3, <2>4, <2>5, <2>6, <2>7 DEF Collective
  <1>5. ASSUME NEW r \in Ranks, OneRank(r)
        PROVE  Room'
    <2>1. CASE Send(r)
      BY <1>1, <2>1, SendRoom
    <2>2. CASE Receive(r)
      BY <1>1, <2>2, ResizedRoom DEF Receive
    <2>3. ASSUME NEW order \in Permutations(Locals(pd[r])), Sort(r, order)
          PROVE  Room'
      BY <2>3, SortRoom
    <2>4. ASSUME NEW n \in 1 .. MaxTags, NEW b \in Array(n), AddGhosts(r, b)
          PROVE  Room'
      BY <1>1, <2>4, ResizedRoom DEF AddGhosts
    <2> QED
      BY <1>5, <2>1, <2>2, <2>3, <2>4 DEF OneRank
  <1> QED
    BY <1>3, <1>4, <1>5 DEF Next

LEMMA RoomCapacity == Room => CapacitySuffices
  BY DEF Room, CapacitySuffices, Total

-----------------------------------------------------------------------------
\* addParticle() and removeParticle() keep the tags in use and the tags to
\* recycle apart, so addParticle() never gives out a tag that a particle has.
THEOREM TagPoolCorrect == Spec => []TagPool
  BY InitOwn, NextOwn, OwnTagPool, PTL DEF Spec

\* Whatever the order in which ranks send, receive, sort, add and remove
\* particles, no particle is lost or duplicated, m_rtag leads to it wherever it
\* is, no ghost outlives it, and resize() made room for it.
THEOREM ParticlesCorrect == Spec => []ParticlesRight
  <1>1. Init => OwnInv /\ Room
    BY InitOwn, InitRoom
  <1>2. OwnInv /\ Room /\ [Next]_vars => OwnInv' /\ Room'
    BY NextOwn, NextRoom
  <1>3. OwnInv /\ Room => ParticlesRight
    BY OwnTagsInverse, OwnOnce, OwnGhosts, RoomCapacity DEF ParticlesRight
  <1> QED
    BY <1>1, <1>2, <1>3, PTL DEF Spec
=============================================================================
