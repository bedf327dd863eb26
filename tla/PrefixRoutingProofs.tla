------------------------- MODULE PrefixRoutingProofs -------------------------
(***************************************************************************)
(* Proofs about PrefixRouting, for every set of replicas and prompts,      *)
(* every limit and all weights.                                            *)
(***************************************************************************)
EXTENDS PrefixRouting, TLAPS, FiniteSetTheorems, FunctionTheorems, SequenceTheorems

-----------------------------------------------------------------------------
(* Numbers and sequences *)

\* Every non-empty set of numbers has a least one: what induction is here.
LEMMA LeastNatural ==
    ASSUME NEW S \in SUBSET Nat, S # {}
    PROVE  \E m \in S : \A n \in S : m <= n
  <1> DEFINE R == StrictSubsetOrdering(Nat)
             T == {0..n : n \in S}
  <1>1. IsWellFoundedOn(R, FiniteSubsetsOf(Nat))
    BY FS_StrictSubsetOrderingWellFounded
  <1>2. ASSUME NEW n \in S PROVE 0..n \in FiniteSubsetsOf(Nat)
    <2>1. n \in Nat /\ 0..n \in SUBSET Nat
      OBVIOUS
    <2>2. IsFiniteSet(0..n)
      BY <2>1, FS_Interval
    <2> QED BY <2>1, <2>2 DEF FiniteSubsetsOf
  <1>3. T \subseteq FiniteSubsetsOf(Nat) /\ T # {}
    BY <1>2
  <1> HIDE DEF R, T
  <1>4. \E x \in T : \A y \in T : <<y, x>> \notin R
    BY <1>1, <1>3, WFMin
  <1>5. PICK m \in S : \A n \in S : <<0..n, 0..m>> \notin R
    BY <1>4 DEF T
  <1>6. ASSUME NEW n \in S, n < m PROVE FALSE
    <2>1. 0..n \subseteq 0..m /\ 0..n # 0..m /\ 0..n \in SUBSET Nat /\ 0..m \in SUBSET Nat
      BY <1>6
    <2> QED BY <1>5, <2>1 DEF R, StrictSubsetOrdering
  <1> QED BY <1>6

\* A set of numbers that holds 0, and n + 1 with n, up to some bound, holds all
\* numbers up to there.
LEMMA UpTo ==
    ASSUME NEW bound \in Nat, NEW Good \in SUBSET Nat, 0 \in Good,
           \A n \in Nat : n < bound /\ n \in Good => n + 1 \in Good
    PROVE  \A n \in 0..bound : n \in Good
  <1> DEFINE Bad == {n \in 0..bound : n \notin Good}
  <1>1. SUFFICES ASSUME Bad # {} PROVE FALSE
    OBVIOUS
  <1>2. PICK m \in Bad : \A n \in Bad : m <= n
    <2>1. Bad \in SUBSET Nat
      OBVIOUS
    <2> HIDE DEF Bad
    <2> QED BY <1>1, <2>1, LeastNatural
  <1>3. m \in Nat /\ m # 0 /\ m <= bound /\ m \notin Good
    BY <1>2
  <1>4. m - 1 \in Nat /\ m - 1 < bound /\ m - 1 \in 0..bound /\ (m - 1) + 1 = m
    BY <1>3
  <1>5. m - 1 \in Good
    BY <1>2, <1>4
  <1> QED BY <1>3, <1>4, <1>5

LEMMA CountUpTo ==
    ASSUME NEW n \in Nat
    PROVE  IsFiniteSet(1..n) /\ Cardinality(1..n) = n
  <1>1. IsFiniteSet(1..n) /\ Cardinality(1..n) = IF 1 > n THEN 0 ELSE n - 1 + 1
    BY FS_Interval
  <1> QED BY <1>1

\* AtPlaces lists the elements at the places, in their order.
LEMMA Listed ==
    ASSUME NEW S, NEW s \in Seq(S), NEW places \in SUBSET DOMAIN s
    PROVE  /\ Cardinality(places) \in Nat
           /\ \E f \in [1..Cardinality(places) -> places] :
                 /\ AtPlaces(s, places) = [k \in 1..Cardinality(places) |-> s[f[k]]]
                 /\ \A i \in places : \E k \in 1..Cardinality(places) : f[k] = i
                 /\ \A k, l \in 1..Cardinality(places) : k < l => f[k] < f[l]
  <1> DEFINE n == Cardinality(places)
             upTo(i) == {j \in places : j <= i}
             rank == [i \in places |-> Cardinality(upTo(i))]
             f == [k \in 1..n |-> CHOOSE i \in places : Cardinality(upTo(i)) = k]
  <1>1. DOMAIN s = 1..Len(s) /\ Len(s) \in Nat /\ places \subseteq Nat
    OBVIOUS
  <1>2. IsFiniteSet(places) /\ n \in Nat
    <2>1. IsFiniteSet(1..Len(s))
      BY <1>1, FS_Interval
    <2>2. places \in SUBSET (1..Len(s))
      BY <1>1
    <2>3. IsFiniteSet(places)
      BY <2>1, <2>2, FS_Subset
    <2> QED BY <2>3, FS_CardinalityType
  <1>3. ASSUME NEW i \in places
        PROVE  IsFiniteSet(upTo(i)) /\ rank[i] \in 1..n
    <2>1. upTo(i) \in SUBSET places /\ i \in upTo(i)
      BY <1>1
    <2>2. IsFiniteSet(upTo(i)) /\ Cardinality(upTo(i)) <= n
      BY <1>2, <2>1, FS_Subset
    <2>3. Cardinality(upTo(i)) \in Nat /\ Cardinality(upTo(i)) # 0
      BY <2>1, <2>2, FS_EmptySet, FS_CardinalityType
    <2> QED BY <1>2, <2>2, <2>3
  <1>4. ASSUME NEW i \in places, NEW j \in places, i < j
        PROVE  rank[i] < rank[j]
    <2>1. upTo(i) \in SUBSET upTo(j) /\ j \in upTo(j) /\ j \notin upTo(i)
      BY <1>1, <1>4
    <2>2. Cardinality(upTo(i)) <= Cardinality(upTo(j))
          /\ Cardinality(upTo(i)) # Cardinality(upTo(j))
      BY <1>3, <2>1, FS_Subset
    <2>3. Cardinality(upTo(i)) \in Nat /\ Cardinality(upTo(j)) \in Nat
      BY <1>3, FS_CardinalityType
    <2> QED BY <2>2, <2>3
  <1> HIDE DEF n, upTo
  <1>5. rank \in [places -> 1..n]
    BY <1>3
  <1>6. rank \in Injection(places, 1..n)
    <2>1. ASSUME NEW i \in places, NEW j \in places, rank[i] = rank[j] PROVE i = j
      <3>1. i \in Nat /\ j \in Nat /\ rank[i] \in Nat /\ rank[j] \in Nat
        BY <1>1, <1>3
      <3>2. ~(i < j) /\ ~(j < i)
        BY <1>4, <2>1, <3>1
      <3> QED BY <3>1, <3>2
    <2> HIDE DEF rank
    <2> QED BY <1>5, <2>1, Fun_IsInj
  <1>7. \A k \in 1..n : \E i \in places : rank[i] = k
    <2>1. IsFiniteSet(1..n) /\ Cardinality(1..n) = n
      BY <1>2, CountUpTo
    <2> HIDE DEF rank
    <2>2. rank \in Surjection(places, 1..n)
      BY <1>6, <2>1, FS_Injection DEF n
    <2> QED BY <2>2 DEF Surjection
  <1>8. \A k \in 1..n : f[k] \in places /\ rank[f[k]] = k
    BY <1>7
  <1> HIDE DEF rank
  <1>9. AtPlaces(s, places) = [k \in 1..n |-> s[f[k]]]
    BY DEF AtPlaces, n, upTo
  <1>10. \A i \in places : \E k \in 1..n : f[k] = i
    <2>1. ASSUME NEW i \in places PROVE f[rank[i]] = i
      <3>1. rank[i] \in 1..n
        BY <1>5
      <3>2. f[rank[i]] \in places /\ rank[f[rank[i]]] = rank[i]
        BY <1>8, <3>1
      <3> HIDE DEF f
      <3> QED BY <1>6, <3>2 DEF Injection, IsInjective
    <2> QED BY <1>5, <2>1
  <1>11. \A k, l \in 1..n : k < l => f[k] < f[l]
    <2> HIDE DEF f
    <2> SUFFICES ASSUME NEW k \in 1..n, NEW l \in 1..n, k < l PROVE f[k] < f[l]
      OBVIOUS
    <2>1. f[k] \in Nat /\ f[l] \in Nat /\ f[k] \in places /\ f[l] \in places
      BY <1>1, <1>8
    <2>2. ~(f[l] < f[k]) /\ f[k] # f[l]
      <3>1. rank[f[k]] = k /\ rank[f[l]] = l
        BY <1>8
      <3>2. ASSUME f[l] < f[k] PROVE FALSE
        <4>1. l < k
          BY <1>4, <2>1, <3>1, <3>2
        <4> QED BY <1>2, <4>1
      <3>3. k # l
        BY <1>2
      <3> QED BY <3>1, <3>2, <3>3
    <2> QED BY <2>1, <2>2
  <1>12. f \in [1..n -> places]
    BY <1>8
  <1> HIDE DEF f
  <1> QED BY <1>2, <1>9, <1>10, <1>11, <1>12 DEF n

-----------------------------------------------------------------------------
(* Routing keys *)

IsSequence(s) == s \in Seq(BlocksOf(s))

LEMMA JoinedSequences ==
    ASSUME NEW s, NEW t, IsSequence(s), IsSequence(t)
    PROVE  IsSequence(s \o t)
  <1> DEFINE S == BlocksOf(s) \cup BlocksOf(t)
  <1>1. s \in Seq(S) /\ t \in Seq(S)
    <2>1. BlocksOf(s) \subseteq S /\ BlocksOf(t) \subseteq S
      OBVIOUS
    <2> HIDE DEF S
    <2> QED BY <2>1, SeqMonotonic DEF IsSequence
  <1> HIDE DEF S
  <1>2. s \o t \in Seq(S) /\ Len(s \o t) \in Nat
    BY <1>1, ConcatProperties, LenProperties
  <1> DEFINE u == s \o t
  <1> HIDE DEF u
  <1>3. u \in Seq(S)
    BY <1>2 DEF u
  <1>4. u \in Seq(BlocksOf(u))
    BY <1>3 DEF BlocksOf
  <1> QED BY <1>4 DEF u, IsSequence

\* A list with a number of elements is a sequence.
LEMMA ListIsSequence ==
    ASSUME NEW n \in Nat, NEW s, s = [i \in 1..n |-> s[i]]
    PROVE  IsSequence(s) /\ DOMAIN s = 1..n /\ Len(s) = n
  <1>1. \A i \in 1..n : s[i] \in BlocksOf(s)
    BY DEF BlocksOf
  <1>2. s \in [1..n -> BlocksOf(s)]
    BY <1>1
  <1>3. s \in Seq(BlocksOf(s))
    BY <1>2
  <1> QED BY <1>2, <1>3 DEF IsSequence

LEMMA MessageUnits ==
    ASSUME NEW message, message.content \in Seq(BlocksOf(message.content))
    PROVE  IsSequence(UnitsOf(message))
  <1>1. ASSUME NEW kind
        PROVE  \E n \in Nat : DOMAIN PartsOf(kind, message.content) = 1..n
    <2> DEFINE places == {i \in DOMAIN message.content : message.content[i].kind = kind}
    <2>1. Cardinality(places) \in Nat
      BY Listed
    <2> HIDE DEF places
    <2>2. DOMAIN AtPlaces(message.content, places) = 1..Cardinality(places)
      BY DEF AtPlaces
    <2> QED BY <2>1, <2>2 DEF PartsOf, places
  <1> DEFINE words == WordsOf(message)
             images == ImagesOf(message)
             role == << Unit("role", message.role) >>
             spoken == [i \in DOMAIN words |-> Unit("word", words[i].value)]
             shown == [i \in DOMAIN images |-> Unit("image", ImageMarker(images[i].value))]
  <1>2. IsSequence(spoken) /\ IsSequence(shown)
    <2>1. PICK n \in Nat : DOMAIN words = 1..n
      BY <1>1 DEF WordsOf
    <2>2. PICK m \in Nat : DOMAIN images = 1..m
      BY <1>1 DEF ImagesOf
    <2> HIDE DEF words, images
    <2>3. spoken = [i \in 1..n |-> spoken[i]] /\ shown = [i \in 1..m |-> shown[i]]
      BY <2>1, <2>2
    <2> HIDE DEF spoken, shown
    <2> QED BY <2>3, ListIsSequence
  <1>3. IsSequence(role)
    <2>1. role = [i \in 1..1 |-> role[i]]
      OBVIOUS
    <2> HIDE DEF role
    <2> QED BY <2>1, ListIsSequence
  <1> HIDE DEF spoken, shown, role
  <1>4. IsSequence((role \o spoken) \o shown)
    BY <1>2, <1>3, JoinedSequences
  <1> QED BY <1>4 DEF UnitsOf, spoken, shown, role

\* The units of a request are a sequence.
LEMMA UnitsAreSequence ==
    ASSUME NEW q \in Requests
    PROVE  IsSequence(Units(q))
  <1> DEFINE Joins(f, n) == f = [k \in 0..n |->
                 IF k = 0 THEN << >> ELSE f[k - 1] \o UnitsOf(q[k])]
             upTo == CHOOSE f : Joins(f, Len(q))
  <1>1. Len(q) \in Nat /\ DOMAIN q = 1..Len(q)
    BY RequestsAssumption
  <1>2. \E f : Joins(f, Len(q))
    <2> DEFINE Good == {n \in Nat : \E f : Joins(f, n)}
    <2>1. 0 \in Good
      <3>1. Joins([k \in 0..0 |-> << >>], 0)
        OBVIOUS
      <3> QED BY <3>1
    <2>2. ASSUME NEW n \in Nat, n \in Good PROVE n + 1 \in Good
      <3>1. PICK f : Joins(f, n)
        BY <2>2
      <3> DEFINE g == [k \in 0..(n + 1) |->
                          IF k = n + 1 THEN f[n] \o UnitsOf(q[n + 1]) ELSE f[k]]
      <3>2. ASSUME NEW k \in 0..(n + 1)
            PROVE  g[k] = IF k = 0 THEN << >> ELSE g[k - 1] \o UnitsOf(q[k])
        <4>1. CASE k = n + 1
          <5>1. k # 0 /\ k - 1 = n /\ n \in 0..(n + 1) /\ n # n + 1
            BY <4>1
          <5>2. g[k] = f[n] \o UnitsOf(q[n + 1]) /\ g[n] = f[n]
            BY <4>1, <5>1
          <5> HIDE DEF g
          <5> QED BY <4>1, <5>1, <5>2
        <4>2. CASE k # n + 1
          <5>1. k \in 0..n /\ (k # 0 => k - 1 \in 0..n)
            BY <4>2
          <5>2. g[k] = f[k] /\ (k # 0 => g[k - 1] = f[k - 1])
            BY <5>1
          <5>3. f[k] = IF k = 0 THEN << >> ELSE f[k - 1] \o UnitsOf(q[k])
            BY <3>1, <5>1
          <5> QED BY <5>2, <5>3
        <4> QED BY <4>1, <4>2
      <3>3. Joins(g, n + 1)
        BY <3>2
      <3> HIDE DEF g, Joins
      <3> QED BY <3>3
    <2>3. Good \in SUBSET Nat
      OBVIOUS
    <2> HIDE DEF Good
    <2>4. \A n \in Nat : n < Len(q) /\ n \in Good => n + 1 \in Good
      BY <2>2
    <2>5. \A n \in 0..Len(q) : n \in Good
      BY <1>1, <2>1, <2>3, <2>4, UpTo
    <2> HIDE DEF Joins
    <2> QED BY <1>1, <2>5 DEF Good
  <1>3. Joins(upTo, Len(q))
    BY <1>2
  <1>4. Units(q) = upTo[Len(q)]
    BY DEF Units
  <1> DEFINE Good == {n \in 0..Len(q) : IsSequence(upTo[n])}
  <1> HIDE DEF upTo
  <1>5. 0 \in Good
    <2>1. upTo[0] = << >>
      BY <1>1, <1>3
    <2>2. IsSequence(<< >>)
      BY DEF IsSequence, BlocksOf
    <2> QED BY <1>1, <2>1, <2>2
  <1>6. ASSUME NEW n \in Nat, n < Len(q), n \in Good PROVE n + 1 \in Good
    <2>1. n + 1 \in 0..Len(q) /\ n + 1 # 0 /\ (n + 1) - 1 = n /\ n + 1 \in DOMAIN q
      BY <1>1, <1>6
    <2>2. upTo[n + 1] = upTo[n] \o UnitsOf(q[n + 1])
      BY <1>3, <2>1
    <2>3. IsSequence(UnitsOf(q[n + 1]))
      BY <2>1, MessageUnits, RequestsAssumption
    <2> QED BY <1>6, <2>1, <2>2, <2>3, JoinedSequences
  <1>7. Good \in SUBSET Nat
    BY <1>1
  <1>8. Len(q) \in Good
    <2> HIDE DEF Good
    <2>1. \A n \in Nat : n < Len(q) /\ n \in Good => n + 1 \in Good
      BY <1>6
    <2>2. \A n \in 0..Len(q) : n \in Good
      BY <1>1, <1>5, <1>7, <2>1, UpTo
    <2> QED BY <1>1, <2>2
  <1> QED BY <1>4, <1>8

\* Rounding up: the number of blocks.
LEMMA CountBlocks ==
    ASSUME NEW n \in Nat
    PROVE  /\ Step \in Nat \ {0}
           /\ (n + Step - 1) \div Step \in Nat
           /\ n <= ((n + Step - 1) \div Step) * Step
           /\ ((n + Step - 1) \div Step) * Step <= n + Step - 1
  <1>1. Step \in Nat \ {0}
    BY BlockSizeAssumption DEF Step
  <1> HIDE DEF Step
  <1> DEFINE d == (n + Step - 1) \div Step
             e == (n + Step - 1) % Step
  <1>2. n + Step - 1 \in Nat
    BY <1>1
  <1>3. d \in Int /\ e \in 0..(Step - 1) /\ n + Step - 1 = Step * d + e
    BY <1>1, <1>2
  <1>4. d >= 0
    BY <1>1, <1>2
  <1> QED BY <1>1, <1>3, <1>4

\* A chain has a block for every step of the units; each is hashed together
\* with the hash before it.
LEMMA ChainLinks ==
    ASSUME NEW q \in Requests
    PROVE  LET n == (Len(Text[q]) + Step - 1) \div Step
           IN  /\ Len(Text[q]) \in Nat /\ n \in Nat
               /\ Chain[q] \in Seq(Blocks) /\ Len(Chain[q]) = n /\ DOMAIN Chain[q] = 1..n
               /\ \A i \in 1..n :
                     Chain[q][i] = << IF i = 1 THEN << >> ELSE Chain[q][i - 1],
                                      Block(Text[q], i) >>
  <1> DEFINE units == Units(q)
             n == (Len(units) + Step - 1) \div Step
             Links(f, m) == f = [i \in 0..m |->
                 IF i = 0 THEN << >> ELSE Hash(f[i - 1], Block(units, i))]
             prev == CHOOSE f : Links(f, n)
  <1>1. Text[q] = units /\ Chain[q] = RoutingKey(q)
    BY DEF Text, Chain
  <1>2. Len(units) \in Nat
    BY UnitsAreSequence DEF IsSequence
  <1>3. n \in Nat
    BY <1>2, CountBlocks
  <1>4. RoutingKey(q) = [i \in 1..n |-> prev[i]]
    BY DEF RoutingKey
  <1> HIDE DEF units, n
  <1>5. \E f : Links(f, n)
    <2> DEFINE Good == {m \in Nat : \E f : Links(f, m)}
    <2>1. 0 \in Good
      <3>1. Links([i \in 0..0 |-> << >>], 0)
        OBVIOUS
      <3> QED BY <3>1
    <2>2. ASSUME NEW m \in Nat, m \in Good PROVE m + 1 \in Good
      <3>1. PICK f : Links(f, m)
        BY <2>2
      <3> DEFINE g == [i \in 0..(m + 1) |->
                          IF i = m + 1 THEN Hash(f[m], Block(units, m + 1)) ELSE f[i]]
      <3>2. ASSUME NEW i \in 0..(m + 1)
            PROVE  g[i] = IF i = 0 THEN << >> ELSE Hash(g[i - 1], Block(units, i))
        <4>1. CASE i = m + 1
          <5>1. i # 0 /\ i - 1 = m /\ m \in 0..(m + 1) /\ m # m + 1
            BY <4>1
          <5>2. g[i] = Hash(f[m], Block(units, m + 1)) /\ g[m] = f[m]
            BY <4>1, <5>1
          <5> HIDE DEF g
          <5> QED BY <4>1, <5>1, <5>2
        <4>2. CASE i # m + 1
          <5>1. i \in 0..m /\ (i # 0 => i - 1 \in 0..m)
            BY <4>2
          <5>2. g[i] = f[i] /\ (i # 0 => g[i - 1] = f[i - 1])
            BY <5>1
          <5>3. f[i] = IF i = 0 THEN << >> ELSE Hash(f[i - 1], Block(units, i))
            BY <3>1, <5>1
          <5> QED BY <5>2, <5>3
        <4> QED BY <4>1, <4>2
      <3>3. Links(g, m + 1)
        BY <3>2
      <3> HIDE DEF g, Links
      <3> QED BY <3>3
    <2>3. Good \in SUBSET Nat
      OBVIOUS
    <2> HIDE DEF Good, Links
    <2>4. \A m \in Nat : m < n /\ m \in Good => m + 1 \in Good
      BY <2>2
    <2>5. \A m \in 0..n : m \in Good
      BY <1>3, <2>1, <2>3, <2>4, UpTo
    <2> QED BY <1>3, <2>5 DEF Good
  <1>6. Links(prev, n)
    BY <1>5
  <1> DEFINE c == Chain[q]
  <1> HIDE DEF prev
  <1>7. c = [i \in 1..n |-> prev[i]]
    BY <1>1, <1>4
  <1>8. ASSUME NEW i \in 1..n
        PROVE  c[i] = << IF i = 1 THEN << >> ELSE c[i - 1], Block(units, i) >>
    <2>1. i \in 0..n /\ i # 0 /\ i - 1 \in 0..n
      BY <1>3
    <2>2. prev[i] = << prev[i - 1], Block(units, i) >> /\ prev[0] = << >>
      BY <1>3, <1>6, <2>1 DEF Hash
    <2>3. c[i] = prev[i] /\ (i # 1 => c[i - 1] = prev[i - 1])
      BY <1>3, <1>7
    <2>4. i = 1 => prev[i - 1] = << >>
      BY <2>2
    <2> QED BY <2>2, <2>3, <2>4
  <1>9. c = [i \in 1..n |-> c[i]]
    BY <1>7
  <1>10. BlocksOf(c) \subseteq Blocks
    BY DEF Blocks, Chains
  <1> HIDE DEF c
  <1>11. IsSequence(c) /\ DOMAIN c = 1..n /\ Len(c) = n
    BY <1>3, <1>9, ListIsSequence
  <1>12. c \in Seq(Blocks)
    BY <1>10, <1>11, SeqMonotonic DEF IsSequence
  <1> QED BY <1>1, <1>2, <1>3, <1>8, <1>11, <1>12 DEF c, n

LEMMA PairIsNotEmpty == \A x, y : <<x, y>> # << >>
  <1> SUFFICES ASSUME NEW x, NEW y, <<x, y>> = << >> PROVE FALSE
    OBVIOUS
  <1>1. DOMAIN <<x, y>> = 1..2 /\ DOMAIN << >> = 1..0
    OBVIOUS
  <1>2. 1 \in 1..2 /\ 1 \notin 1..0
    OBVIOUS
  <1> QED BY <1>1, <1>2

\* A hash covers all the blocks before it: chains that meet have come the same
\* way.
THEOREM ChainsMeet ==
    ASSUME NEW p \in Requests, NEW q \in Requests,
           NEW i \in DOMAIN Chain[p], NEW j \in DOMAIN Chain[q], Chain[p][i] = Chain[q][j]
    PROVE  /\ i = j
           /\ \A k \in 1..i : /\ Chain[p][k] = Chain[q][k]
                              /\ Block(Text[p], k) = Block(Text[q], k)
  <1> DEFINE a == Chain[p]
             b == Chain[q]
             Same(n) == \A k \in 1..n : a[k] = b[k] /\ Block(Text[p], k) = Block(Text[q], k)
             Good == {n \in Nat : n = 0 \/ (n \in DOMAIN a =>
                         \A m \in DOMAIN b : a[n] = b[m] => n = m /\ Same(n))}
  <1>1. PICK n \in Nat : /\ DOMAIN a = 1..n
                         /\ \A x \in 1..n : a[x] = << IF x = 1 THEN << >> ELSE a[x - 1],
                                                      Block(Text[p], x) >>
    BY ChainLinks
  <1>2. PICK m \in Nat : /\ DOMAIN b = 1..m
                         /\ \A x \in 1..m : b[x] = << IF x = 1 THEN << >> ELSE b[x - 1],
                                                      Block(Text[q], x) >>
    BY ChainLinks
  <1> HIDE DEF a, b
  <1>3. ASSUME NEW x \in Nat, x \in Good PROVE x + 1 \in Good
    <2> SUFFICES ASSUME x + 1 \in DOMAIN a, NEW y \in DOMAIN b, a[x + 1] = b[y]
                 PROVE  x + 1 = y /\ Same(x + 1)
      OBVIOUS
    <2>1. /\ (IF x + 1 = 1 THEN << >> ELSE a[x]) = (IF y = 1 THEN << >> ELSE b[y - 1])
          /\ Block(Text[p], x + 1) = Block(Text[q], y)
      BY <1>1, <1>2
    <2>2. CASE x = 0
      <3>1. ASSUME y # 1 PROVE FALSE
        <4>1. y - 1 \in 1..m
          BY <1>2, <3>1
        <4>2. b[y - 1] = << IF y - 1 = 1 THEN << >> ELSE b[y - 2], Block(Text[q], y - 1) >>
          BY <1>2, <4>1
        <4>3. b[y - 1] = << >>
          BY <2>1, <2>2, <3>1
        <4> QED BY <4>2, <4>3, PairIsNotEmpty
      <3> QED BY <2>1, <2>2, <3>1
    <2>3. CASE x # 0
      <3>1. x \in 1..n
        BY <1>1, <2>3
      <3>2. a[x] = << IF x = 1 THEN << >> ELSE a[x - 1], Block(Text[p], x) >>
        BY <1>1, <3>1
      <3>3. y # 1
        <4>1. a[x] # << >>
          BY <3>2, PairIsNotEmpty
        <4> QED BY <2>1, <2>3, <4>1
      <3>4. y - 1 \in DOMAIN b /\ a[x] = b[y - 1] /\ x \in DOMAIN a
        BY <1>1, <1>2, <2>1, <2>3, <3>1, <3>3
      <3>5. x = y - 1 /\ Same(x)
        BY <1>3, <2>3, <3>4
      <3>6. x + 1 = y
        BY <1>2, <3>5
      <3>7. a[x + 1] = b[x + 1] /\ Block(Text[p], x + 1) = Block(Text[q], x + 1)
        BY <2>1, <3>6
      <3>8. \A k \in 1..(x + 1) : k \in 1..x \/ k = x + 1
        OBVIOUS
      <3> QED BY <3>5, <3>6, <3>7, <3>8
    <2> QED BY <2>2, <2>3
  <1>4. Good \in SUBSET Nat /\ 0 \in Good
    OBVIOUS
  <1>5. i \in Nat /\ i # 0 /\ i \in DOMAIN a /\ j \in DOMAIN b /\ a[i] = b[j]
    BY <1>1 DEF a, b
  <1>6. i \in Good
    <2> HIDE DEF Good
    <2>1. \A x \in Nat : x < i /\ x \in Good => x + 1 \in Good
      BY <1>3
    <2>2. \A x \in 0..i : x \in Good
      BY <1>4, <1>5, <2>1, UpTo
    <2> QED BY <1>5, <2>2
  <1>7. i = j /\ Same(i)
    BY <1>5, <1>6
  <1> QED BY <1>7 DEF a, b

\* What the proofs below use of chains: each holds a block once, and two that
\* share a block share all that leads to it.
LEMMA ChainFacts ==
    /\ \A c \in Chains : /\ c \in Seq(Blocks) /\ Len(c) \in Nat /\ DOMAIN c = 1..Len(c)
                         /\ \A i, j \in DOMAIN c : c[i] = c[j] => i = j
    /\ \A c, d \in Chains : \A i \in DOMAIN c, j \in DOMAIN d :
          c[i] = d[j] => i = j /\ \A k \in 1..i : k \in DOMAIN c /\ c[k] = d[k]
  <1>1. ASSUME NEW p \in Requests
        PROVE  Chain[p] \in Seq(Blocks) /\ Len(Chain[p]) \in Nat /\ DOMAIN Chain[p] = 1..Len(Chain[p])
    BY ChainLinks
  <1>2. ASSUME NEW p \in Requests, NEW q \in Requests,
               NEW i \in DOMAIN Chain[p], NEW j \in DOMAIN Chain[q], Chain[p][i] = Chain[q][j]
        PROVE  i = j /\ \A k \in 1..i : k \in DOMAIN Chain[p] /\ Chain[p][k] = Chain[q][k]
    <2>1. i = j /\ \A k \in 1..i : Chain[p][k] = Chain[q][k]
      BY <1>2, ChainsMeet
    <2>2. \A k \in 1..i : k \in DOMAIN Chain[p]
      BY <1>1
    <2> QED BY <2>1, <2>2
  <1>3. \A c \in Chains : \E q \in Requests : c = Chain[q]
    BY DEF Chains
  <1> QED BY <1>1, <1>2, <1>3

-----------------------------------------------------------------------------
(* The index *)

\* The blocks of a replica are listed once each, no more than the cap, oldest
\* first, and all others have expired.
ListInv ==
    /\ seen \in [Replicas -> Seq(Blocks)]
    /\ age \in [Replicas -> [Blocks -> Ages]]
    /\ \A r \in Replicas :
          /\ Len(seen[r]) <= MaxBlocks
          /\ \A i, j \in DOMAIN seen[r] : seen[r][i] = seen[r][j] => i = j
          /\ \A b \in Blocks \ BlocksOf(seen[r]) : age[r][b] = TTL + 1
    /\ OldestFirst

IndexInv == ListInv /\ PrefixIsFresher

\* The list before the cap is applied to it.
LEMMA RefreshedList ==
    ASSUME ListInv, NEW r \in Replicas, NEW c \in Chains
    PROVE  LET s == Refreshed(r, c)
               n == Len(s) - Len(c)
           IN  /\ s \in Seq(Blocks) /\ n \in Nat /\ Len(s) \in Nat /\ DOMAIN s = 1..Len(s)
               /\ \A i \in 1..n : s[i] \in BlocksOf(seen[r]) \ BlocksOf(c)
               /\ \A i \in 1..Len(c) : s[n + i] = c[i]
               /\ \A i, j \in 1..n : s[i] = s[j] => i = j
               /\ \A i, j \in 1..n : i < j => age[r][s[j]] <= age[r][s[i]]
  <1> DEFINE l == seen[r]
             places == {i \in DOMAIN l : l[i] \notin BlocksOf(c) /\ age[r][l[i]] <= TTL}
             n == Cardinality(places)
             kept == AtPlaces(l, places)
             s == kept \o c
  <1>1. l \in Seq(Blocks) /\ DOMAIN l = 1..Len(l) /\ Len(l) \in Nat
    BY DEF ListInv
  <1>2. c \in Seq(Blocks) /\ Len(c) \in Nat
    BY ChainFacts
  <1>3. PICK f \in [1..n -> places] :
           /\ kept = [k \in 1..n |-> l[f[k]]]
           /\ \A i \in places : \E k \in 1..n : f[k] = i
           /\ \A k, m \in 1..n : k < m => f[k] < f[m]
    <2>1. places \in SUBSET DOMAIN l
      OBVIOUS
    <2>2. l \in Seq(Blocks)
      BY <1>1
    <2> HIDE DEF places, l
    <2> QED BY <2>1, <2>2, Listed
  <1>4. n \in Nat
    <2>1. places \in SUBSET DOMAIN l
      OBVIOUS
    <2> HIDE DEF places
    <2> QED BY <1>1, <2>1, Listed
  <1>5. Refreshed(r, c) = s
    BY DEF Refreshed
  <1>6. \A k \in 1..n : f[k] \in DOMAIN l /\ f[k] \in Nat /\ l[f[k]] \in BlocksOf(l) \ BlocksOf(c)
    <2>1. \A i \in DOMAIN l : l[i] \in BlocksOf(l) /\ i \in Nat
      BY <1>1 DEF BlocksOf
    <2>2. \A i \in places : i \in DOMAIN l /\ l[i] \notin BlocksOf(c)
      OBVIOUS
    <2> HIDE DEF places, n
    <2> QED BY <1>3, <2>1, <2>2
  <1> HIDE DEF places, n, kept, s
  <1>7. \A k \in 1..n : l[f[k]] \in Blocks
    BY <1>1, <1>6
  <1>8. kept \in Seq(Blocks) /\ Len(kept) = n
    BY <1>3, <1>4, <1>7
  <1>9. /\ s \in Seq(Blocks) /\ Len(s) = n + Len(c)
        /\ \A i \in 1..n : s[i] = l[f[i]]
        /\ \A i \in 1..Len(c) : s[n + i] = c[i]
    BY <1>2, <1>3, <1>4, <1>8 DEF s
  <1>10. \A i, j \in 1..n : f[i] = f[j] => i = j
    BY <1>3, <1>4, <1>6
  <1>11. \A i, j \in 1..n : s[i] = s[j] => i = j
    BY <1>6, <1>9, <1>10 DEF ListInv
  <1>12. \A i, j \in 1..n : i < j => age[r][s[j]] <= age[r][s[i]]
    BY <1>3, <1>6, <1>9 DEF ListInv, OldestFirst
  <1>13. Len(s) - Len(c) = n /\ Len(s) \in Nat /\ DOMAIN s = 1..Len(s)
    BY <1>2, <1>4, <1>9
  <1> QED BY <1>4, <1>5, <1>6, <1>9, <1>11, <1>12, <1>13

\* What is kept of it: its end.
LEMMA EvictedList ==
    ASSUME NEW s \in Seq(Blocks)
    PROVE  \E cut \in Nat :
              /\ Evicted(s) \in Seq(Blocks) /\ Len(s) = cut + Len(Evicted(s))
              /\ cut # 0 => Len(Evicted(s)) = MaxBlocks
              /\ Len(Evicted(s)) <= MaxBlocks
              /\ \A i \in 1..Len(Evicted(s)) : Evicted(s)[i] = s[cut + i]
  <1>1. CASE Len(s) <= MaxBlocks
    <2>1. Evicted(s) = s
      BY <1>1, LimitsAssumption DEF Evicted
    <2>2. 0 \in Nat /\ Len(s) = 0 + Len(s) /\ \A i \in 1..Len(s) : s[i] = s[0 + i]
      OBVIOUS
    <2> QED BY <1>1, <2>1, <2>2
  <1>2. CASE Len(s) > MaxBlocks
    <2> DEFINE cut == Len(s) - MaxBlocks
               t == SubSeq(s, cut + 1, Len(s))
    <2>1. cut \in Nat /\ cut + 1 \in 1..Len(s) /\ Len(s) = cut + MaxBlocks /\ Len(s) \in Nat
      BY <1>2, LimitsAssumption
    <2>2. Evicted(s) = t
      BY <1>2 DEF Evicted
    <2> HIDE DEF cut
    <2>3. t \in Seq(Blocks) /\ Len(t) = MaxBlocks
          /\ \A i \in 1..MaxBlocks : t[i] = s[cut + i]
      BY <2>1, LimitsAssumption
    <2> QED BY <2>1, <2>2, <2>3, LimitsAssumption
  <1> QED BY <1>1, <1>2, LimitsAssumption

\* What registering a chain leaves in the index.
LEMMA Registered ==
    ASSUME ListInv, NEW r \in Replicas, NEW c \in Chains, Register(r, c)
    PROVE  LET k == seen'[r]
           IN  /\ seen' \in [Replicas -> Seq(Blocks)]
               /\ age' \in [Replicas -> [Blocks -> Ages]]
               /\ \A q \in Replicas \ {r} : seen'[q] = seen[q] /\ age'[q] = age[q]
               /\ Len(k) <= MaxBlocks
               /\ \A i, j \in DOMAIN k : k[i] = k[j] => i = j
               /\ BlocksOf(k) \subseteq BlocksOf(seen[r]) \cup BlocksOf(c)
               /\ Len(c) <= MaxBlocks => BlocksOf(c) \subseteq BlocksOf(k)
               /\ \A b \in Blocks : age'[r][b] = IF b \notin BlocksOf(k) THEN TTL + 1
                                                 ELSE IF b \in BlocksOf(c) THEN 0 ELSE age[r][b]
               /\ \A i, j \in DOMAIN k : i < j /\ k[j] \notin BlocksOf(c) =>
                     k[i] \notin BlocksOf(c) /\ age[r][k[j]] <= age[r][k[i]]
  <1> DEFINE s == Refreshed(r, c)
             n == Len(s) - Len(c)
             k == Evicted(s)
  <1>1. /\ s \in Seq(Blocks) /\ n \in Nat /\ Len(s) \in Nat
        /\ \A i \in 1..n : s[i] \in BlocksOf(seen[r]) \ BlocksOf(c)
        /\ \A i \in 1..Len(c) : s[n + i] = c[i]
        /\ \A i, j \in 1..n : s[i] = s[j] => i = j
        /\ \A i, j \in 1..n : i < j => age[r][s[j]] <= age[r][s[i]]
    <2>1. /\ s \in Seq(Blocks) /\ n \in Nat /\ Len(s) \in Nat /\ DOMAIN s = 1..Len(s)
          /\ \A i \in 1..n : s[i] \in BlocksOf(seen[r]) \ BlocksOf(c)
          /\ \A i \in 1..Len(c) : s[n + i] = c[i]
          /\ \A i, j \in 1..n : s[i] = s[j] => i = j
          /\ \A i, j \in 1..n : i < j => age[r][s[j]] <= age[r][s[i]]
      BY RefreshedList
    <2> HIDE DEF s, n
    <2> QED BY <2>1
  <1> HIDE DEF s
  <1>2. PICK cut \in Nat : /\ k \in Seq(Blocks) /\ Len(s) = cut + Len(k)
                           /\ cut # 0 => Len(k) = MaxBlocks
                           /\ Len(k) <= MaxBlocks
                           /\ \A i \in 1..Len(k) : k[i] = s[cut + i]
    BY <1>1, EvictedList
  <1> HIDE DEF k
  <1>3. /\ Len(c) \in Nat /\ DOMAIN c = 1..Len(c) /\ Len(s) = n + Len(c)
        /\ \A i, j \in DOMAIN c : c[i] = c[j] => i = j
    BY <1>1, ChainFacts
  <1>4. Len(k) \in Nat /\ DOMAIN k = 1..Len(k)
    BY <1>2
  <1> HIDE DEF n
  <1>5. ASSUME NEW i \in n + 1..Len(s)
        PROVE  i - n \in DOMAIN c /\ s[i] = c[i - n] /\ s[i] \in BlocksOf(c)
    <2>1. i - n \in 1..Len(c) /\ n + (i - n) = i
      BY <1>1, <1>3
    <2>2. s[i] = c[i - n]
      BY <1>1, <2>1
    <2> QED BY <1>3, <2>1, <2>2 DEF BlocksOf
  <1>6. ASSUME NEW i \in DOMAIN k
        PROVE  /\ cut + i \in 1..Len(s) /\ k[i] = s[cut + i]
               /\ k[i] \in BlocksOf(seen[r]) \cup BlocksOf(c)
               /\ k[i] \notin BlocksOf(c) <=> cut + i <= n
    <2>1. cut + i \in 1..Len(s) /\ k[i] = s[cut + i]
      BY <1>1, <1>2, <1>4
    <2>2. cut + i \in 1..n \/ cut + i \in n + 1..Len(s)
      BY <1>1, <2>1
    <2> QED BY <1>1, <1>5, <2>1, <2>2
  <1>7. \A i, j \in DOMAIN k : k[i] = k[j] => i = j
    <2> SUFFICES ASSUME NEW i \in DOMAIN k, NEW j \in DOMAIN k, k[i] = k[j] PROVE i = j
      OBVIOUS
    <2>1. i \in Nat /\ j \in Nat /\ s[cut + i] = s[cut + j]
      BY <1>4, <1>6
    <2>2. CASE cut + i <= n
      BY <1>1, <1>6, <2>1, <2>2
    <2>3. CASE ~(cut + i <= n)
      <3>1. cut + i \in n + 1..Len(s) /\ cut + j \in n + 1..Len(s)
        BY <1>1, <1>6, <2>1, <2>3
      <3> DEFINE x == cut + i
                 y == cut + j
      <3>2. x \in n + 1..Len(s) /\ y \in n + 1..Len(s) /\ s[x] = s[y]
        BY <2>1, <3>1
      <3> HIDE DEF x, y
      <3>3. x - n \in DOMAIN c /\ y - n \in DOMAIN c /\ c[x - n] = c[y - n]
        BY <1>5, <3>2
      <3>4. x - n = y - n
        BY <1>3, <3>3
      <3>5. x = y
        BY <1>1, <3>2, <3>4
      <3> QED BY <2>1, <3>5 DEF x, y
    <2> QED BY <2>2, <2>3
  <1>8. BlocksOf(k) \subseteq BlocksOf(seen[r]) \cup BlocksOf(c)
    BY <1>6 DEF BlocksOf
  <1>9. ASSUME Len(c) <= MaxBlocks PROVE BlocksOf(c) \subseteq BlocksOf(k)
    <2> SUFFICES ASSUME NEW i \in DOMAIN c PROVE c[i] \in BlocksOf(k)
      BY DEF BlocksOf
    <2>1. i \in 1..Len(c) /\ s[n + i] = c[i]
      BY <1>1, <1>3
    <2>2. cut <= n
      <3>1. n + Len(c) = cut + Len(k) /\ (cut # 0 => Len(k) = MaxBlocks)
        BY <1>2, <1>3
      <3>2. n \in Nat /\ Len(c) \in Nat /\ Len(k) \in Nat /\ MaxBlocks \in Nat
        BY <1>1, <1>3, <1>4, LimitsAssumption
      <3> QED BY <1>9, <3>1, <3>2
    <2>3. n + i - cut \in DOMAIN k /\ cut + (n + i - cut) = n + i
      BY <1>1, <1>2, <1>3, <1>4, <2>1, <2>2
    <2>4. k[n + i - cut] = c[i]
      BY <1>2, <1>4, <2>1, <2>3
    <2> QED BY <2>3, <2>4 DEF BlocksOf
  <1>10. seen' = [seen EXCEPT ![r] = k] /\ seen \in [Replicas -> Seq(Blocks)]
         /\ age \in [Replicas -> [Blocks -> Ages]]
    BY DEF Register, k, s, ListInv
  <1>11. age' = [age EXCEPT ![r] = [b \in Blocks |->
                    IF b \notin BlocksOf(k) THEN TTL + 1
                    ELSE IF b \in BlocksOf(c) THEN 0 ELSE age[r][b]]]
    BY <1>10 DEF Register, k, s
  <1>12. age' \in [Replicas -> [Blocks -> Ages]]
    <2>1. TTL + 1 \in Ages /\ 0 \in Ages
      BY LimitsAssumption DEF Ages
    <2> QED BY <1>10, <1>11, <2>1
  <1>13. ASSUME NEW i \in DOMAIN k, NEW j \in DOMAIN k, i < j, k[j] \notin BlocksOf(c)
         PROVE  k[i] \notin BlocksOf(c) /\ age[r][k[j]] <= age[r][k[i]]
    <2>1. cut + j <= n /\ i \in Nat /\ j \in Nat
      BY <1>4, <1>6, <1>13
    <2>2. cut + i \in 1..n /\ cut + j \in 1..n /\ cut + i < cut + j
      BY <1>1, <1>6, <1>13, <2>1
    <2> QED BY <1>1, <1>6, <2>2
  <1>14. seen'[r] = k
    BY <1>10
  <1>15. seen' \in [Replicas -> Seq(Blocks)] /\ \A q \in Replicas \ {r} : seen'[q] = seen[q]
    BY <1>2, <1>10
  <1>16. /\ \A q \in Replicas \ {r} : age'[q] = age[q]
         /\ \A b \in Blocks : age'[r][b] = IF b \notin BlocksOf(k) THEN TTL + 1
                                           ELSE IF b \in BlocksOf(c) THEN 0 ELSE age[r][b]
    BY <1>10, <1>11
  <1> QED BY <1>2, <1>7, <1>8, <1>9, <1>12, <1>13, <1>14, <1>15, <1>16

LEMMA RegisterList ==
    ASSUME ListInv, NEW r \in Replicas, NEW c \in Chains, Register(r, c)
    PROVE  ListInv'
  <1> DEFINE k == seen'[r]
  <1>1. /\ seen' \in [Replicas -> Seq(Blocks)]
        /\ age' \in [Replicas -> [Blocks -> Ages]]
        /\ \A q \in Replicas \ {r} : seen'[q] = seen[q] /\ age'[q] = age[q]
        /\ Len(k) <= MaxBlocks
        /\ \A i, j \in DOMAIN k : k[i] = k[j] => i = j
        /\ \A b \in Blocks : age'[r][b] = IF b \notin BlocksOf(k) THEN TTL + 1
                                          ELSE IF b \in BlocksOf(c) THEN 0 ELSE age[r][b]
        /\ \A i, j \in DOMAIN k : i < j /\ k[j] \notin BlocksOf(c) =>
              k[i] \notin BlocksOf(c) /\ age[r][k[j]] <= age[r][k[i]]
    BY Registered
  <1>2. \A i \in DOMAIN k : k[i] \in Blocks /\ k[i] \in BlocksOf(k)
    BY <1>1 DEF BlocksOf
  <1>3. ASSUME NEW i \in DOMAIN k, NEW j \in DOMAIN k, i < j
        PROVE  age'[r][k[j]] <= age'[r][k[i]]
    <2>1. age'[r][k[i]] \in Nat
      BY <1>1, <1>2, LimitsAssumption DEF Ages
    <2>2. CASE k[j] \in BlocksOf(c)
      BY <1>1, <1>2, <2>1, <2>2
    <2>3. CASE k[j] \notin BlocksOf(c)
      BY <1>1, <1>2, <1>3, <2>3
    <2> QED BY <2>2, <2>3
  <1>4. ASSUME NEW q \in Replicas
        PROVE  /\ Len(seen'[q]) <= MaxBlocks
               /\ \A i, j \in DOMAIN seen'[q] : seen'[q][i] = seen'[q][j] => i = j
               /\ \A b \in Blocks \ BlocksOf(seen'[q]) : age'[q][b] = TTL + 1
               /\ \A i, j \in DOMAIN seen'[q] :
                     i < j => age'[q][seen'[q][j]] <= age'[q][seen'[q][i]]
    <2>1. CASE q = r
      BY <1>1, <1>3, <2>1
    <2>2. CASE q # r
      BY <1>1, <2>2 DEF ListInv, OldestFirst
    <2> QED BY <2>1, <2>2
  <1> QED BY <1>1, <1>4 DEF ListInv, OldestFirst

LEMMA RegisterFresher ==
    ASSUME IndexInv, NEW r \in Replicas, NEW c \in Chains, Register(r, c)
    PROVE  PrefixIsFresher'
  <1> SUFFICES ASSUME NEW q \in Replicas, NEW d \in Chains, NEW i \in DOMAIN d \ {1},
                      d[i - 1] \in BlocksOf(seen'[q])
               PROVE  age'[q][d[i - 1]] <= age'[q][d[i]]
    BY DEF PrefixIsFresher
  <1>1. /\ age' \in [Replicas -> [Blocks -> Ages]]
        /\ \A p \in Replicas \ {r} : seen'[p] = seen[p] /\ age'[p] = age[p]
        /\ BlocksOf(seen'[r]) \subseteq BlocksOf(seen[r]) \cup BlocksOf(c)
        /\ \A b \in Blocks : age'[r][b] = IF b \notin BlocksOf(seen'[r]) THEN TTL + 1
                                          ELSE IF b \in BlocksOf(c) THEN 0 ELSE age[r][b]
    BY Registered DEF IndexInv
  <1>2. d[i] \in Blocks /\ i - 1 \in DOMAIN d /\ d[i - 1] \in Blocks
    BY ChainFacts
  <1>3. CASE q # r
    BY <1>1, <1>3 DEF IndexInv, PrefixIsFresher
  <1>4. CASE q = r
    <2>1. age'[r][d[i - 1]] \in 0..(TTL + 1)
      BY <1>1, <1>2 DEF Ages
    <2>2. CASE d[i] \notin BlocksOf(seen'[r])
      BY <1>1, <1>2, <1>4, <2>1, <2>2, LimitsAssumption
    <2>3. CASE d[i] \in BlocksOf(c)
      <3>1. PICK j \in DOMAIN c : d[i] = c[j]
        BY <2>3 DEF BlocksOf
      <3>2. i = j /\ \A n \in 1..i : n \in DOMAIN d /\ d[n] = c[n]
        BY <3>1, ChainFacts
      <3>3. i - 1 \in 1..i /\ i - 1 \in DOMAIN c
        BY <3>2, ChainFacts
      <3>4. d[i - 1] \in BlocksOf(c)
        BY <3>2, <3>3 DEF BlocksOf
      <3>5. age'[r][d[i - 1]] = 0 /\ age'[r][d[i]] \in Nat
        BY <1>1, <1>2, <1>4, <3>4, LimitsAssumption DEF Ages
      <3> QED BY <1>4, <3>5
    <2>4. CASE d[i] \in BlocksOf(seen'[r]) /\ d[i] \notin BlocksOf(c)
      <3>1. age'[r][d[i]] = age[r][d[i]] /\ age[r][d[i]] \in Nat
        BY <1>1, <1>2, <2>4, LimitsAssumption DEF IndexInv, ListInv, Ages
      <3>2. CASE d[i - 1] \in BlocksOf(c)
        BY <1>1, <1>2, <1>4, <3>1, <3>2
      <3>3. CASE d[i - 1] \notin BlocksOf(c)
        <4>1. d[i - 1] \in BlocksOf(seen[r]) /\ age'[r][d[i - 1]] = age[r][d[i - 1]]
          BY <1>1, <1>2, <1>4, <3>3
        <4>2. age[r][d[i - 1]] <= age[r][d[i]]
          BY <4>1 DEF IndexInv, PrefixIsFresher
        <4> QED BY <1>4, <3>1, <4>1, <4>2
      <3> QED BY <3>2, <3>3
    <2> QED BY <2>2, <2>3, <2>4
  <1> QED BY <1>3, <1>4

IsConfigured == config \in Configurations

LEMMA PoolsAreReplicas == IsConfigured => config.deployments \subseteq Replicas
  BY ConfigurationsAssumption DEF IsConfigured

LEMMA ConfigStep == IsConfigured /\ [Next]_vars => IsConfigured'
  <1> SUFFICES ASSUME IsConfigured, [Next]_vars PROVE config' = config
    BY DEF IsConfigured
  <1>1. ASSUME NEW pool, NEW q, NEW r, Pick(pool, q, r) PROVE config' = config
    BY <1>1 DEF Pick, PickPlain, PickWarm, PickCold, Choose, Start
  <1>2. ASSUME NEW r, (\E sample \in Samples : Answer(r, sample)) \/ Fail(r)
        PROVE  config' = config
    BY <1>2 DEF Answer, Fail
  <1>3. CASE Tick \/ UNCHANGED vars
    BY <1>3 DEF Tick, vars
  <1> QED BY <1>1, <1>2, <1>3 DEF Next

\* A pick of r for q is entered into the index.
Remembers(r, q) ==
    /\ Register(r, Chain[q])
    /\ served' = [served EXCEPT ![r] =
           {p \in @ \cup {q} : BlocksOf(Chain[p]) \cap BlocksOf(seen'[r]) # {}}]

\* A step changes the index by that, or by the time that passes.
LEMMA IndexMoves ==
    ASSUME IsConfigured, [Next]_vars
    PROVE  \/ UNCHANGED index
           \/ \E r \in Replicas, q \in Requests : Remembers(r, q)
           \/ Tick
  <1>1. ASSUME NEW pool, NEW q \in Requests, NEW r \in config.deployments, Pick(pool, q, r)
        PROVE  \/ UNCHANGED index
               \/ r \in Replicas /\ Remembers(r, q)
    <2>1. CASE PickPlain(pool, r)
      BY <2>1 DEF PickPlain
    <2>2. CASE PickWarm(pool, q, r) \/ PickCold(pool, q, r)
      <3>1. Choose(r, q)
        BY <2>2 DEF PickWarm, PickCold
      <3> QED BY <3>1, PoolsAreReplicas DEF Choose, Remembers
    <2> QED BY <1>1, <2>1, <2>2 DEF Pick
  <1>2. ASSUME NEW r, (\E sample \in Samples : Answer(r, sample)) \/ Fail(r)
        PROVE  UNCHANGED index
    BY <1>2 DEF Answer, Fail
  <1>3. CASE UNCHANGED vars
    BY <1>3 DEF vars
  <1> QED BY <1>1, <1>2, <1>3 DEF Next

LEMMA TickIndex == IndexInv /\ Tick => IndexInv'
  <1> SUFFICES ASSUME IndexInv, Tick PROVE IndexInv'
    OBVIOUS
  <1>1. seen' = seen /\ age' = [r \in Replicas |-> [b \in Blocks |->
                                  IF age[r][b] > TTL THEN TTL + 1 ELSE age[r][b] + 1]]
    BY DEF Tick
  <1>2. /\ \A r \in Replicas : seen[r] \in Seq(Blocks)
        /\ \A r \in Replicas, b \in Blocks : age[r][b] \in 0..(TTL + 1)
    BY DEF IndexInv, ListInv, Ages
  <1>3. age' \in [Replicas -> [Blocks -> Ages]]
    BY <1>1, <1>2, LimitsAssumption DEF Ages
  <1>4. ASSUME NEW r \in Replicas, NEW a \in Blocks, NEW b \in Blocks, age[r][a] <= age[r][b]
        PROVE  age'[r][a] <= age'[r][b]
    BY <1>1, <1>2, <1>4, LimitsAssumption
  <1>5. ListInv'
    <2>1. \A r \in Replicas : \A i \in DOMAIN seen[r] : seen[r][i] \in Blocks
      BY <1>2
    <2>2. OldestFirst'
      BY <1>1, <1>4, <2>1 DEF IndexInv, ListInv, OldestFirst
    <2>3. \A r \in Replicas : \A b \in Blocks \ BlocksOf(seen[r]) : age'[r][b] = TTL + 1
      BY <1>1, LimitsAssumption DEF IndexInv, ListInv
    <2> QED BY <1>1, <1>3, <2>2, <2>3 DEF IndexInv, ListInv
  <1>6. PrefixIsFresher'
    <2>1. \A c \in Chains : \A i \in DOMAIN c \ {1} : c[i] \in Blocks /\ c[i - 1] \in Blocks
      BY ChainFacts
    <2> QED BY <1>1, <1>4, <2>1 DEF IndexInv, PrefixIsFresher
  <1> QED BY <1>5, <1>6 DEF IndexInv

LEMMA IndexInit == Init => IndexInv
  <1> SUFFICES ASSUME Init PROVE IndexInv
    OBVIOUS
  <1>1. seen = [r \in Replicas |-> << >>] /\ age = [r \in Replicas |-> [b \in Blocks |-> TTL + 1]]
    BY DEF Init
  <1>2. TTL + 1 \in Ages
    BY LimitsAssumption DEF Ages
  <1>3. seen \in [Replicas -> Seq(Blocks)] /\ age \in [Replicas -> [Blocks -> Ages]]
    BY <1>1, <1>2
  <1>4. \A r \in Replicas : Len(seen[r]) = 0 /\ DOMAIN seen[r] = {} /\ BlocksOf(seen[r]) = {}
    BY <1>1 DEF BlocksOf
  <1>5. ListInv
    BY <1>1, <1>3, <1>4, LimitsAssumption DEF ListInv, OldestFirst
  <1>6. PrefixIsFresher
    BY <1>4 DEF PrefixIsFresher
  <1> QED BY <1>5, <1>6 DEF IndexInv

LEMMA IndexStep == IsConfigured /\ IndexInv /\ [Next]_vars => IndexInv'
  <1> SUFFICES ASSUME IsConfigured, IndexInv, [Next]_vars PROVE IndexInv'
    OBVIOUS
  <1>1. CASE UNCHANGED index
    BY <1>1 DEF index, IndexInv, ListInv, OldestFirst, PrefixIsFresher
  <1>2. ASSUME NEW r \in Replicas, NEW q \in Requests, Remembers(r, q) PROVE IndexInv'
    <2>1. Register(r, Chain[q])
      BY <1>2 DEF Remembers
    <2>2. Chain[q] \in Chains /\ ListInv
      BY DEF Chains, IndexInv
    <2> QED BY <2>1, <2>2, RegisterList, RegisterFresher DEF IndexInv
  <1> QED BY <1>1, <1>2, TickIndex, IndexMoves

LEMMA IndexAlways == Spec => [](IsConfigured /\ IndexInv)
  <1>1. Init => IsConfigured
    BY DEF Init, IsConfigured
  <1> QED BY <1>1, ConfigStep, IndexInit, IndexStep, PTL DEF Spec

\* The blocks of a replica are kept in the order of their ages.
THEOREM OldestIsFirst == Spec => []OldestFirst
  <1>1. IndexInv => OldestFirst
    BY DEF IndexInv, ListInv
  <1> QED BY <1>1, IndexAlways, PTL

\* A prefix is never older than what extends it.
THEOREM PrefixStaysFresher == Spec => []PrefixIsFresher
  <1>1. IndexInv => PrefixIsFresher
    BY DEF IndexInv
  <1> QED BY <1>1, IndexAlways, PTL

\* The index of a replica holds each block once and keeps to its cap.
THEOREM IndexIsBounded == Spec => []IndexBounded
  <1>1. ASSUME IndexInv, NEW r \in Replicas
        PROVE  Len(seen[r]) <= MaxBlocks /\ Cardinality(BlocksOf(seen[r])) = Len(seen[r])
    <2> DEFINE l == seen[r]
    <2>1. /\ l \in Seq(Blocks) /\ Len(l) \in Nat /\ DOMAIN l = 1..Len(l) /\ Len(l) <= MaxBlocks
          /\ \A i, j \in DOMAIN l : l[i] = l[j] => i = j
      BY <1>1 DEF IndexInv, ListInv
    <2> HIDE DEF l
    <2>2. l \in [1..Len(l) -> BlocksOf(l)] /\ \A b \in BlocksOf(l) : \E i \in 1..Len(l) : l[i] = b
      BY <2>1 DEF BlocksOf
    <2>3. l \in Injection(1..Len(l), BlocksOf(l)) /\ l \in Surjection(1..Len(l), BlocksOf(l))
      BY <2>1, <2>2, Fun_IsInj DEF Surjection
    <2>4. ExistsBijection(1..Len(l), BlocksOf(l))
      BY <2>3 DEF ExistsBijection, Bijection
    <2>5. Cardinality(BlocksOf(l)) = Len(l)
      BY <2>1, <2>4, FS_CountingElements
    <2> QED BY <2>1, <2>5 DEF l
  <1>2. IndexInv => IndexBounded
    BY <1>1 DEF IndexBounded
  <1> QED BY <1>2, IndexAlways, PTL

\* A match is the length of a run of warm blocks from the beginning of the chain.
LEMMA MatchedRun ==
    ASSUME NEW r \in Replicas, NEW c \in Chains
    PROVE  Matched(r, c) \in 0..Len(c) /\ \A i \in 1..Matched(r, c) : Warm(r, c[i])
  <1> DEFINE run == {n \in DOMAIN c : \A i \in 1..n : Warm(r, c[i])}
             rest == {n \in 1..(Len(c) + 1) : n \notin run}
  <1>1. Len(c) \in Nat /\ DOMAIN c = 1..Len(c)
    BY ChainFacts
  <1>2. Len(c) + 1 \in rest /\ rest \in SUBSET Nat
    BY <1>1
  <1>3. PICK m \in rest : \A n \in rest : m <= n
    <2> HIDE DEF rest
    <2> QED BY <1>2, LeastNatural
  <1>4. m - 1 \in 0..Len(c) /\ m \in Nat
    BY <1>1
  <1>5. \A n \in 1..(m - 1) : n \in run
    <2>1. \A n \in 1..(m - 1) : n \in 1..(Len(c) + 1) /\ ~(m <= n)
      BY <1>1, <1>4
    <2> QED BY <1>3, <2>1
  <1>6. \A n \in run : n \in 1..(m - 1)
    <2> SUFFICES ASSUME NEW n \in run, ~(n <= m - 1) PROVE FALSE
      BY <1>1
    <2>1. m \in 1..n /\ n \in 1..Len(c)
      BY <1>1, <1>4
    <2>2. m \in DOMAIN c /\ \A i \in 1..m : i \in 1..n
      BY <1>1, <2>1
    <2>3. m \in run
      BY <2>2
    <2> QED BY <2>3
  <1>7. run = 1..(m - 1)
    <2> HIDE DEF run
    <2> QED BY <1>5, <1>6
  <1>8. Cardinality(run) = m - 1
    <2>1. Cardinality(1..(m - 1)) = m - 1
      BY <1>4, CountUpTo
    <2> HIDE DEF run
    <2> QED BY <1>4, <1>7, <2>1
  <1>9. Matched(r, c) = m - 1
    BY <1>8 DEF Matched
  <1>10. \A i \in 1..(m - 1) : Warm(r, c[i])
    BY <1>5
  <1> QED BY <1>4, <1>9, <1>10

\* The cap takes the first block of a chain that is longer than it.
LEMMA CutChain ==
    ASSUME ListInv, NEW r \in Replicas, NEW c \in Chains, Register(r, c), Len(c) > MaxBlocks
    PROVE  c[1] \in Blocks /\ c[1] \notin BlocksOf(seen'[r])
  <1> DEFINE s == Refreshed(r, c)
             n == Len(s) - Len(c)
             k == Evicted(s)
  <1>1. /\ s \in Seq(Blocks) /\ n \in Nat /\ Len(s) \in Nat
        /\ \A i \in 1..Len(c) : s[n + i] = c[i]
    <2>1. /\ s \in Seq(Blocks) /\ n \in Nat /\ Len(s) \in Nat /\ DOMAIN s = 1..Len(s)
          /\ \A i \in 1..n : s[i] \in BlocksOf(seen[r]) \ BlocksOf(c)
          /\ \A i \in 1..Len(c) : s[n + i] = c[i]
          /\ \A i, j \in 1..n : s[i] = s[j] => i = j
          /\ \A i, j \in 1..n : i < j => age[r][s[j]] <= age[r][s[i]]
      BY RefreshedList
    <2> HIDE DEF s, n
    <2> QED BY <2>1
  <1>2. seen'[r] = k
    BY <1>1 DEF Register, ListInv
  <1> HIDE DEF s
  <1>3. PICK cut \in Nat : /\ k \in Seq(Blocks) /\ Len(s) = cut + Len(k)
                           /\ cut # 0 => Len(k) = MaxBlocks
                           /\ Len(k) <= MaxBlocks
                           /\ \A i \in 1..Len(k) : k[i] = s[cut + i]
    BY <1>1, EvictedList
  <1> HIDE DEF k
  <1>4. /\ Len(c) \in Nat /\ DOMAIN c = 1..Len(c) /\ Len(s) = n + Len(c) /\ c \in Seq(Blocks)
        /\ \A i, j \in DOMAIN c : c[i] = c[j] => i = j
    BY <1>1, ChainFacts
  <1>5. Len(k) \in Nat /\ DOMAIN k = 1..Len(k)
    BY <1>3
  <1> HIDE DEF n
  <1>6. cut > n
    <2>1. Len(c) > MaxBlocks /\ MaxBlocks \in Nat
      BY LimitsAssumption
    <2>2. cut + Len(k) = n + Len(c) /\ Len(k) <= MaxBlocks
      BY <1>3, <1>4
    <2>3. cut \in Nat /\ n \in Nat /\ Len(k) \in Nat /\ Len(c) \in Nat
      BY <1>1, <1>4, <1>5
    <2> QED BY <2>1, <2>2, <2>3
  <1>7. ASSUME NEW i \in DOMAIN k PROVE k[i] # c[1]
    <2> DEFINE m == cut + i - n
    <2>1. m \in 1..Len(c) /\ m # 1 /\ n + m = cut + i
      BY <1>1, <1>3, <1>4, <1>5, <1>6
    <2> HIDE DEF m
    <2>2. k[i] = c[m]
      BY <1>1, <1>3, <1>5, <2>1
    <2> QED BY <1>4, <2>1, <2>2
  <1>8. 1 \in DOMAIN c /\ c[1] \in Blocks
    BY <1>4, LimitsAssumption
  <1> QED BY <1>2, <1>7, <1>8 DEF BlocksOf

\* The chain of a pick is warm from end to end after it, if the cap admits it,
\* and not warm at all if not.
THEOREM PickedIsWarmForAll == Spec => PickedIsWarm
  <1>1. ASSUME IndexInv, NEW c \in Chains, NEW r \in Replicas,
               Len(c) <= MaxBlocks, Register(r, c)
        PROVE  Matched(r, c)' = Len(c)
    <2>1. /\ BlocksOf(c) \subseteq BlocksOf(seen'[r])
          /\ \A b \in Blocks : age'[r][b] = IF b \notin BlocksOf(seen'[r]) THEN TTL + 1
                                            ELSE IF b \in BlocksOf(c) THEN 0 ELSE age[r][b]
      BY <1>1, Registered DEF IndexInv
    <2>2. /\ Len(c) \in Nat /\ DOMAIN c = 1..Len(c)
          /\ \A i \in DOMAIN c : c[i] \in BlocksOf(c) /\ c[i] \in Blocks
      BY ChainFacts DEF BlocksOf
    <2>3. \A i \in DOMAIN c : Warm(r, c[i])'
      BY <2>1, <2>2, LimitsAssumption DEF Warm
    <2>4. {n \in DOMAIN c : \A i \in 1..n : Warm(r, c[i])'} = 1..Len(c)
      BY <2>2, <2>3
    <2>5. Cardinality(1..Len(c)) = Len(c)
      <3>1. Len(c) \in Nat
        BY <2>2
      <3> DEFINE n == Len(c)
      <3> HIDE DEF n
      <3>2. n \in Nat
        BY <3>1 DEF n
      <3>3. Cardinality(1..n) = n
        BY <3>2, CountUpTo
      <3> QED BY <3>3 DEF n
    <2> QED BY <2>4, <2>5 DEF Matched
  <1>2. ASSUME IndexInv, NEW c \in Chains, NEW r \in Replicas,
               Len(c) > MaxBlocks, Register(r, c)
        PROVE  Matched(r, c)' = 0
    <2>1. c[1] \notin BlocksOf(seen'[r])
      BY <1>2, CutChain DEF IndexInv
    <2>2. ~Warm(r, c[1])'
      BY <2>1 DEF Warm
    <2>3. DOMAIN c = 1..Len(c) /\ Len(c) \in Nat
      BY ChainFacts
    <2>4. {n \in DOMAIN c : \A i \in 1..n : Warm(r, c[i])'} = {}
      BY <2>2, <2>3
    <2> QED BY <2>4, FS_EmptySet DEF Matched
  <1>3. IsConfigured /\ IndexInv => [\A r \in Replicas : inFlight'[r] > inFlight[r] /\ IsPrefixAware =>
           \A pool \in SUBSET config.deployments, q \in Requests :
               PickWarm(pool, q, r) \/ PickCold(pool, q, r) =>
                   Matched(r, Chain[q])' =
                       IF Len(Chain[q]) <= MaxBlocks THEN Len(Chain[q]) ELSE 0]_vars
    <2> SUFFICES ASSUME IndexInv, NEW r \in Replicas, NEW pool \in SUBSET config.deployments,
                        NEW q \in Requests, PickWarm(pool, q, r) \/ PickCold(pool, q, r)
                 PROVE  Matched(r, Chain[q])' =
                            IF Len(Chain[q]) <= MaxBlocks THEN Len(Chain[q]) ELSE 0
      OBVIOUS
    <2>1. Register(r, Chain[q])
      BY DEF PickWarm, PickCold, Choose
    <2> DEFINE c == Chain[q]
    <2>2. c \in Chains /\ Len(c) \in Nat
      BY ChainFacts DEF Chains
    <2>3. Register(r, c)
      BY <2>1
    <2>4. Matched(r, c)' = IF Len(c) <= MaxBlocks THEN Len(c) ELSE 0
      <3> HIDE DEF c
      <3> QED BY <1>1, <1>2, <2>2, <2>3, LimitsAssumption
    <2> QED BY <2>4
  <1> QED BY <1>3, IndexAlways, PTL DEF PickedIsWarm

-----------------------------------------------------------------------------
(* Matches *)

\* Every block in the index of a replica is one of a prompt it was picked for.
ServedInv ==
    /\ served \in [Replicas -> SUBSET Requests]
    /\ \A r \in Replicas : \A b \in BlocksOf(seen[r]) :
          \E p \in served[r] : b \in BlocksOf(Chain[p])

LEMMA ServedInit == Init => ServedInv
  <1> SUFFICES ASSUME Init PROVE ServedInv
    OBVIOUS
  <1>1. /\ served = [r \in Replicas |-> {}]
        /\ \A r \in Replicas : seen[r] = << >>
    BY DEF Init
  <1>2. BlocksOf(<< >>) = {}
    BY DEF BlocksOf
  <1> QED BY <1>1, <1>2 DEF ServedInv

LEMMA ServedStep == IsConfigured /\ IndexInv /\ ServedInv /\ [Next]_vars => ServedInv'
  <1> SUFFICES ASSUME IsConfigured, IndexInv, ServedInv, [Next]_vars PROVE ServedInv'
    OBVIOUS
  <1>1. CASE UNCHANGED index \/ Tick
    BY <1>1 DEF index, Tick, ServedInv
  <1>2. ASSUME NEW r \in Replicas, NEW q \in Requests, Remembers(r, q) PROVE ServedInv'
    <2> DEFINE left == {p \in served[r] \cup {q} :
                           BlocksOf(Chain[p]) \cap BlocksOf(seen'[r]) # {}}
    <2>1. Register(r, Chain[q]) /\ served' = [served EXCEPT ![r] = left]
      BY <1>2 DEF Remembers
    <2>2. Chain[q] \in Chains /\ ListInv
      BY DEF Chains, IndexInv
    <2>3. /\ \A s \in Replicas \ {r} : seen'[s] = seen[s]
          /\ BlocksOf(seen'[r]) \subseteq BlocksOf(seen[r]) \cup BlocksOf(Chain[q])
      BY <2>1, <2>2, Registered
    <2>4. ASSUME NEW b \in BlocksOf(seen'[r])
          PROVE  \E p \in left : b \in BlocksOf(Chain[p])
      <3>1. \E p \in served[r] \cup {q} : b \in BlocksOf(Chain[p])
        BY <2>3, <2>4 DEF ServedInv
      <3> QED BY <2>4, <3>1
    <2>5. left \in SUBSET Requests
      BY DEF ServedInv
    <2> HIDE DEF left
    <2> QED BY <2>1, <2>3, <2>4, <2>5 DEF ServedInv
  <1> QED BY <1>1, <1>2, IndexMoves

\* Where the i-th block of a text ends.
EndOf(t, i) == IF i * Step < Len(t) THEN i * Step ELSE Len(t)

LEMMA EndType ==
    ASSUME NEW t, Len(t) \in Nat, NEW i \in Nat
    PROVE  EndOf(t, i) \in 0..Len(t) /\ (i = 0 => EndOf(t, i) = 0)
  <1>1. Step \in Nat
    BY BlockSizeAssumption DEF Step
  <1> HIDE DEF Step
  <1>2. i * Step \in Nat /\ (i = 0 => i * Step = 0)
    BY <1>1
  <1> QED BY <1>2 DEF EndOf

\* The elements of a block, and where it begins.
LEMMA BlockParts ==
    ASSUME NEW q \in Requests, NEW i \in DOMAIN Chain[q]
    PROVE  LET t == Text[q]
               before == EndOf(t, i - 1)
               length == EndOf(t, i) - before
           IN  /\ i - 1 \in Nat /\ before \in Nat /\ length \in Nat /\ before = (i - 1) * Step
               /\ Len(Block(t, i)) = length
               /\ \A x \in 1..length : Block(t, i)[x] = t[before + x]
  <1> DEFINE t == Text[q]
             n == (Len(t) + Step - 1) \div Step
             lo == (i - 1) * Step
             hi == EndOf(t, i)
  <1>1. Len(t) \in Nat /\ n \in Nat /\ i \in 1..n /\ IsSequence(t)
    BY ChainLinks, UnitsAreSequence DEF Text
  <1>2. Step \in Nat \ {0} /\ n * Step <= Len(t) + Step - 1
    BY <1>1, CountBlocks
  <1> HIDE DEF t, n
  <1>3. i * Step = lo + Step /\ lo \in Nat
    BY <1>1, <1>2
  <1>4. lo < Len(t)
    <2>1. (i - 1) * Step <= (n - 1) * Step
      <3>1. ASSUME NEW a \in Nat, NEW b \in Nat, a <= b, NEW s \in Nat
            PROVE  a * s <= b * s
        BY <3>1
      <3>2. i - 1 \in Nat /\ n - 1 \in Nat /\ i - 1 <= n - 1
        BY <1>1
      <3> QED BY <1>2, <3>1, <3>2
    <2>2. (n - 1) * Step = n * Step - Step /\ n * Step \in Nat
      BY <1>1, <1>2
    <2> QED BY <1>1, <1>2, <1>3, <2>1, <2>2
  <1>5. EndOf(t, i - 1) = lo
    BY <1>4 DEF EndOf
  <1>6. hi = IF lo + Step < Len(t) THEN lo + Step ELSE Len(t)
    BY <1>3 DEF EndOf
  <1> HIDE DEF lo, hi
  <1>7. hi \in Nat /\ lo + 1 <= hi /\ hi <= Len(t)
    BY <1>1, <1>2, <1>3, <1>4, <1>6
  <1>8. Block(t, i) = SubSeq(t, lo + 1, hi)
    BY DEF Block, EndOf, lo, hi
  <1>9. Len(Block(t, i)) = hi - lo /\ \A x \in 1..(hi - lo) : Block(t, i)[x] = t[lo + x]
    <2> DEFINE S == BlocksOf(t)
    <2>1. t \in Seq(S)
      BY <1>1 DEF IsSequence
    <2> HIDE DEF S
    <2>2. \A x \in (lo + 1)..hi : t[x] \in S
      BY <1>1, <1>3, <1>7, <2>1
    <2>3. /\ Len(SubSeq(t, lo + 1, hi)) = IF lo + 1 <= hi THEN hi - (lo + 1) + 1 ELSE 0
          /\ \A x \in 1..(hi - (lo + 1) + 1) : SubSeq(t, lo + 1, hi)[x] = t[(lo + 1) + x - 1]
      BY <1>3, <1>7, <2>2, SubSeqProperties
    <2>4. hi - (lo + 1) + 1 = hi - lo /\ \A x \in Nat : (lo + 1) + x - 1 = lo + x
      BY <1>3, <1>7
    <2> QED BY <1>3, <1>7, <1>8, <2>3, <2>4
  <1>10. i - 1 \in Nat /\ hi - lo \in Nat
    BY <1>1, <1>3, <1>7
  <1> QED BY <1>3, <1>5, <1>9, <1>10 DEF t, lo, hi

\* Texts with the same blocks up to one are the same up to its end.
LEMMA SameTexts ==
    ASSUME NEW p \in Requests, NEW q \in Requests,
           NEW m \in DOMAIN Chain[p], m \in DOMAIN Chain[q],
           \A k \in 1..m : Block(Text[p], k) = Block(Text[q], k)
    PROVE  LET n == EndOf(Text[q], m)
           IN  Len(Text[p]) >= n /\ SubSeq(Text[p], 1, n) = SubSeq(Text[q], 1, n)
  <1> DEFINE a == Text[p]
             b == Text[q]
             Good == {k \in 0..m : /\ EndOf(a, k) = EndOf(b, k)
                                   /\ \A x \in 1..EndOf(b, k) : a[x] = b[x]}
  <1>1. Len(a) \in Nat /\ Len(b) \in Nat /\ IsSequence(a) /\ IsSequence(b)
    BY ChainLinks, UnitsAreSequence DEF Text
  <1>2. m \in Nat /\ \A k \in 1..m : k \in DOMAIN Chain[p] /\ k \in DOMAIN Chain[q]
    BY ChainLinks
  <1>3. 0 \in Good
    <2>1. EndOf(a, 0) = 0 /\ EndOf(b, 0) = 0
      BY <1>1, EndType
    <2> HIDE DEF a, b
    <2> QED BY <1>2, <2>1
  <1>4. ASSUME NEW k \in Nat, k < m, k \in Good PROVE k + 1 \in Good
    <2>1. k + 1 \in 1..m /\ (k + 1) - 1 = k /\ k + 1 \in 0..m
      BY <1>2, <1>4
    <2> DEFINE lo == EndOf(b, k)
               high == EndOf(b, k + 1)
    <2>2. EndOf(a, k) = lo /\ \A x \in 1..lo : a[x] = b[x]
      BY <1>4
    <2> DEFINE l == k + 1
    <2> HIDE DEF l
    <2>3. l \in DOMAIN Chain[p] /\ l \in DOMAIN Chain[q] /\ l - 1 = k /\ l = k + 1
      BY <1>2, <2>1 DEF l
    <2>4. /\ lo \in Nat /\ high - lo \in Nat /\ Len(Block(b, k + 1)) = high - lo
          /\ \A x \in 1..(high - lo) : Block(b, k + 1)[x] = b[lo + x]
      <3>1. LET length == EndOf(b, l) - EndOf(b, l - 1)
            IN  /\ EndOf(b, l - 1) \in Nat /\ length \in Nat /\ Len(Block(b, l)) = length
                /\ \A x \in 1..length : Block(b, l)[x] = b[EndOf(b, l - 1) + x]
        BY <2>3, BlockParts
      <3> HIDE DEF b
      <3> QED BY <2>3, <3>1
    <2>5. /\ Len(Block(a, k + 1)) = EndOf(a, k + 1) - lo
          /\ \A x \in 1..(EndOf(a, k + 1) - lo) : Block(a, k + 1)[x] = a[lo + x]
      <3>1. LET length == EndOf(a, l) - EndOf(a, l - 1)
            IN  /\ Len(Block(a, l)) = length
                /\ \A x \in 1..length : Block(a, l)[x] = a[EndOf(a, l - 1) + x]
        BY <2>3, BlockParts
      <3> HIDE DEF a, b, lo
      <3> QED BY <2>2, <2>3, <3>1
    <2>6. Block(a, k + 1) = Block(b, k + 1)
      BY <2>1
    <2>7. EndOf(a, k + 1) \in Nat /\ high \in Nat
      <3>1. k + 1 \in Nat /\ Len(a) \in Nat /\ Len(b) \in Nat
        BY <1>1, <1>4
      <3> HIDE DEF a, b
      <3>2. EndOf(a, k + 1) \in 0..Len(a) /\ EndOf(b, k + 1) \in 0..Len(b)
        BY <3>1, EndType
      <3> QED BY <3>1, <3>2
    <2> HIDE DEF a, b, lo, high
    <2>8. EndOf(a, k + 1) = high
      BY <2>4, <2>5, <2>6, <2>7
    <2>9. ASSUME NEW x \in 1..high PROVE a[x] = b[x]
      <3>1. CASE x <= lo
        BY <2>2, <2>4, <3>1
      <3>2. CASE x > lo
        <4>1. x - lo \in 1..(high - lo) /\ lo + (x - lo) = x
          BY <2>4, <2>7, <3>2
        <4> QED BY <2>4, <2>5, <2>6, <2>8, <4>1
      <3> QED BY <2>4, <3>1, <3>2
    <2> QED BY <2>1, <2>8, <2>9 DEF high
  <1> DEFINE n == EndOf(b, m)
  <1>5. m \in Good
    <2>1. Good \in SUBSET Nat
      BY <1>2
    <2> HIDE DEF Good
    <2>2. \A k \in Nat : k < m /\ k \in Good => k + 1 \in Good
      BY <1>4
    <2>3. \A k \in 0..m : k \in Good
      BY <1>2, <1>3, <2>1, <2>2, UpTo
    <2> QED BY <1>2, <2>3
  <1>6. n \in Nat /\ n <= Len(b) /\ EndOf(a, m) <= Len(a)
    <2>1. Len(a) \in Nat /\ Len(b) \in Nat
      BY <1>1
    <2> HIDE DEF a, b
    <2>2. EndOf(a, m) \in 0..Len(a) /\ EndOf(b, m) \in 0..Len(b)
      BY <1>2, <2>1, EndType
    <2> QED BY <2>1, <2>2
  <1> HIDE DEF a, b
  <1>7. EndOf(a, m) = n /\ \A x \in 1..n : a[x] = b[x]
    BY <1>5
  <1> HIDE DEF n
  <1>8. \A x \in 1..n : a[x] \in BlocksOf(a) /\ b[x] \in BlocksOf(b)
    BY <1>1, <1>6, <1>7 DEF BlocksOf, IsSequence
  <1>9. SubSeq(a, 1, n) = SubSeq(b, 1, n)
    BY <1>1, <1>6, <1>7 DEF IsSequence
  <1> QED BY <1>6, <1>7, <1>9 DEF a, b, n

\* A replica that matches a part of a prompt was picked for one with the same
\* beginning.
THEOREM MatchIsRealForAll == Spec => []MatchIsReal
  <1>1. ASSUME IndexInv, ServedInv, NEW r \in Replicas, NEW q \in Requests,
               EndOf(Text[q], Matched(r, Chain[q])) > 0
        PROVE  LET n == EndOf(Text[q], Matched(r, Chain[q]))
               IN  \E p \in served[r] :
                      Len(Text[p]) >= n /\ SubSeq(Text[p], 1, n) = SubSeq(Text[q], 1, n)
    <2> DEFINE c == Chain[q]
               m == Matched(r, c)
    <2>1. c \in Chains /\ DOMAIN c = 1..Len(c) /\ Len(c) \in Nat /\ Len(Text[q]) \in Nat
      BY ChainFacts, ChainLinks DEF Chains
    <2>2. m \in 0..Len(c) /\ \A i \in 1..m : Warm(r, c[i])
      BY <2>1, MatchedRun
    <2>3. m # 0
      BY <1>1, <2>1, EndType
    <2> HIDE DEF m
    <2>4. m \in DOMAIN c /\ c[m] \in BlocksOf(seen[r])
      BY <2>1, <2>2, <2>3 DEF Warm
    <2>5. PICK p \in served[r] : c[m] \in BlocksOf(Chain[p])
      BY <1>1, <2>4 DEF ServedInv
    <2>6. p \in Requests
      BY <1>1 DEF ServedInv
    <2>7. PICK j \in DOMAIN Chain[p] : Chain[p][j] = c[m]
      BY <2>5 DEF BlocksOf
    <2>8. j = m /\ \A k \in 1..m : Block(Text[p], k) = Block(Text[q], k)
      BY <2>4, <2>6, <2>7, ChainsMeet
    <2>9. LET n == EndOf(Text[q], m)
          IN  Len(Text[p]) >= n /\ SubSeq(Text[p], 1, n) = SubSeq(Text[q], 1, n)
      BY <2>4, <2>6, <2>7, <2>8, SameTexts
    <2> QED BY <2>9 DEF m
  <1>2. IndexInv /\ ServedInv => MatchIsReal
    BY <1>1 DEF MatchIsReal, EndOf
  <1> QED BY <1>2, IndexAlways, ServedInit, ServedStep, PTL DEF Spec

-----------------------------------------------------------------------------
(* Warmth and load *)

LEMMA MatchedType ==
    ASSUME NEW r \in Replicas, NEW c \in Chains
    PROVE  Matched(r, c) \in Nat
  BY MatchedRun, ChainFacts

\* in_flight is a number, within the bound of the model.
LoadType == inFlight \in [Replicas -> 0..MaxLoad]

LEMMA LoadStep == LoadType /\ [Next]_vars => LoadType'
  <1> SUFFICES ASSUME LoadType, [Next]_vars PROVE LoadType'
    OBVIOUS
  <1>1. ASSUME NEW r \in Replicas, inFlight[r] < MaxLoad,
               inFlight' = [inFlight EXCEPT ![r] = @ + 1]
        PROVE  LoadType'
    BY <1>1, LimitsAssumption DEF LoadType
  <1>2. ASSUME NEW pool \in SUBSET config.deployments \ {{}}, NEW q \in Requests,
               NEW r \in config.deployments,
               \A s \in Replicas : inFlight[s] < MaxLoad, Pick(pool, q, r)
        PROVE  LoadType'
    <2>1. inFlight' = [inFlight EXCEPT ![r] = @ + 1]
      BY <1>2 DEF Pick, PickPlain, PickWarm, PickCold, Choose, Start
    <2>2. CASE r \in Replicas
      BY <1>1, <1>2, <2>1, <2>2
    <2>3. CASE r \notin Replicas
      BY <2>1, <2>3 DEF LoadType
    <2> QED BY <2>2, <2>3
  <1>3. ASSUME NEW r \in Replicas,
               (\E sample \in Samples : Answer(r, sample)) \/ Fail(r)
        PROVE  LoadType'
    <2>1. inFlight' = [inFlight EXCEPT ![r] = @ - 1] /\ inFlight[r] > 0
      BY <1>3 DEF Answer, Fail, Busy
    <2> QED BY <2>1, LimitsAssumption DEF LoadType
  <1>4. CASE Tick
    BY <1>4 DEF Tick, LoadType
  <1>5. CASE UNCHANGED vars
    BY <1>5 DEF vars, LoadType
  <1> QED BY <1>2, <1>3, <1>4, <1>5 DEF Next

LEMMA ScoreType ==
    ASSUME LoadType, NEW r \in Replicas, NEW c \in Chains
    PROVE  Score(r, c) \in Int
  <1>1. Matched(r, c) \in Nat /\ inFlight[r] \in Nat
    BY MatchedType, LimitsAssumption DEF LoadType
  <1>2. WeightPrefix * Matched(r, c) \in Int /\ WeightLoad * inFlight[r] \in Int
    BY <1>1, WeightsAssumption
  <1> QED BY <1>2 DEF Score

\* A replica that is warmer and no busier has the better score.
LEMMA BetterScore ==
    ASSUME LoadType, NEW q \in Replicas, NEW r \in Replicas, NEW c \in Chains,
           Matched(q, c) > Matched(r, c), inFlight[q] <= inFlight[r]
    PROVE  Score(q, c) > Score(r, c) /\ Score(q, c) \in Int /\ Score(r, c) \in Int
  <1>1. /\ Matched(q, c) \in Nat /\ Matched(r, c) \in Nat
        /\ inFlight[q] \in Nat /\ inFlight[r] \in Nat
    BY MatchedType, LimitsAssumption DEF LoadType
  <1>2. ASSUME NEW w \in Nat \ {0}, NEW m \in Nat, NEW n \in Nat, m > n
        PROVE  w * m > w * n
    BY <1>2
  <1>3. ASSUME NEW w \in Nat, NEW m \in Nat, NEW n \in Nat, m <= n
        PROVE  w * m <= w * n
    BY <1>3
  <1>4. WeightPrefix * Matched(q, c) > WeightPrefix * Matched(r, c)
    BY <1>1, <1>2, WeightsAssumption
  <1>5. WeightLoad * inFlight[q] <= WeightLoad * inFlight[r]
    BY <1>1, <1>3, WeightsAssumption
  <1>6. /\ WeightPrefix * Matched(q, c) \in Int /\ WeightPrefix * Matched(r, c) \in Int
        /\ WeightLoad * inFlight[q] \in Int /\ WeightLoad * inFlight[r] \in Int
    BY <1>1, WeightsAssumption
  <1> QED BY <1>4, <1>5, <1>6 DEF Score

\* With least_busy as the cold fallback a pick never takes a replica that is
\* colder than another eligible one and no less busy.
THEOREM WarmthYieldsToLoadForAll == Spec => WarmthYieldsToLoad
  <1>1. Init => LoadType /\ IsConfigured
    BY LimitsAssumption DEF Init, LoadType, IsConfigured
  <1>2. LoadType /\ IsConfigured /\ [Next]_vars =>
          [\A r \in Replicas : inFlight'[r] > inFlight[r] /\ config.coldFallback = "least_busy" =>
             \A pool \in SUBSET config.deployments, q \in Requests : \A s \in Eligible(pool) :
                 /\ Matched(s, Chain[q]) > Matched(r, Chain[q])
                 /\ inFlight[s] <= inFlight[r]
                 => ~PickWarm(pool, q, r) /\ ~PickCold(pool, q, r)]_vars
    <2> SUFFICES ASSUME LoadType, IsConfigured, config.coldFallback = "least_busy",
                        NEW pool \in SUBSET config.deployments, NEW q \in Requests, NEW r \in Replicas,
                        NEW s \in Eligible(pool),
                        Matched(s, Chain[q]) > Matched(r, Chain[q]), inFlight[s] <= inFlight[r]
                 PROVE  ~PickWarm(pool, q, r) /\ ~PickCold(pool, q, r)
      OBVIOUS
    <2> DEFINE c == Chain[q]
    <2>0. s \in Replicas /\ c \in Chains
      BY PoolsAreReplicas DEF Eligible, Chains
    <2> HIDE DEF c
    <2>1. Matched(s, c) > Matched(r, c)
      BY DEF c
    <2>2. ASSUME NEW best \in Replicas, best \in Best(pool, c) PROVE Score(s, c) <= Score(best, c)
      <3>1. Score(s, c) \in Int /\ Score(best, c) \in Int
        BY <2>0, ScoreType
      <3>2. -Score(best, c) < -Score(s, c) \/ -Score(best, c) = -Score(s, c)
        BY <2>0, <2>2 DEF Best, Least
      <3> QED BY <3>1, <3>2
    <2>3. ~PickWarm(pool, q, r)
      <3>1. Score(s, c) > Score(r, c) /\ Score(s, c) \in Int /\ Score(r, c) \in Int
        BY <2>0, <2>1, BetterScore
      <3>2. r \notin Best(pool, c)
        BY <2>2, <3>1
      <3> QED BY <3>2 DEF PickWarm, c
    <2>4. ASSUME PickCold(pool, q, r) PROVE FALSE
      <3>1. PICK best \in Best(pool, c) : Matched(best, c) = 0
        BY <2>4 DEF PickCold, c
      <3>2. best \in Replicas /\ best \in Eligible(pool)
        BY <3>1, PoolsAreReplicas DEF Best, Least, Eligible
      <3>3. r \in Least(Eligible(pool), inFlight)
        BY <2>4 DEF PickCold, Selected
      <3>4. inFlight[r] < inFlight[best] \/ inFlight[r] = inFlight[best]
        BY <3>2, <3>3 DEF Least
      <3>5. /\ inFlight[s] \in Nat /\ inFlight[r] \in Nat /\ inFlight[best] \in Nat
            /\ Matched(s, c) \in Nat /\ Matched(r, c) \in Nat
        BY <2>0, <3>2, MatchedType, LimitsAssumption DEF LoadType
      <3>6. Matched(s, c) > Matched(best, c) /\ inFlight[s] <= inFlight[best]
        BY <2>1, <3>1, <3>4, <3>5
      <3>7. Score(s, c) > Score(best, c) /\ Score(s, c) \in Int /\ Score(best, c) \in Int
        BY <2>0, <3>2, <3>6, BetterScore
      <3> QED BY <2>2, <3>1, <3>2, <3>7
    <2> QED BY <2>3, <2>4
  <1> QED BY <1>1, <1>2, LoadStep, ConfigStep, PTL DEF Spec, WarmthYieldsToLoad

-----------------------------------------------------------------------------
(* latency *)

\* The deployments with a latency are those that have answered.
KnownAnswered ==
    /\ ewma \in [Replicas -> Nat]
    /\ answered \subseteq Replicas
    /\ \A r \in Replicas : r \in answered <=> ewma[r] > 0
    /\ config.deployments \subseteq Replicas

\* An average of latencies is a latency.
LEMMA AveragedType ==
    ASSUME NEW old \in Nat, NEW sample \in Samples, NEW mean \in Averaged(old, sample)
    PROVE  mean \in Nat \ {0}
  BY SamplesAssumption DEF Averaged

LEMMA KnownStep == KnownAnswered /\ [Next]_vars => KnownAnswered'
  <1> SUFFICES ASSUME KnownAnswered, [Next]_vars PROVE KnownAnswered'
    OBVIOUS
  <1>1. ASSUME UNCHANGED <<config, latency>> PROVE KnownAnswered'
    BY <1>1 DEF latency, KnownAnswered
  <1>2. ASSUME NEW r \in Replicas, NEW sample \in Samples, Answer(r, sample)
        PROVE  KnownAnswered'
    <2>1. CASE UNCHANGED latency
      BY <1>1, <1>2, <2>1 DEF Answer
    <2>2. CASE ~UNCHANGED latency
      <3>1. PICK mean \in Averaged(ewma[r], sample) : ewma' = [ewma EXCEPT ![r] = mean]
        BY <1>2, <2>2 DEF Answer
      <3>2. answered' = answered \cup {r} /\ config' = config
        BY <1>2, <2>2 DEF Answer
      <3>3. ewma[r] \in Nat
        BY DEF KnownAnswered
      <3>4. mean \in Nat \ {0}
        BY <3>1, <3>3, AveragedType
      <3> QED BY <3>1, <3>2, <3>4 DEF KnownAnswered
    <2> QED BY <2>1, <2>2
  <1>3. ASSUME NEW pool, NEW q, NEW r, Pick(pool, q, r) PROVE KnownAnswered'
    BY <1>1, <1>3 DEF Pick, PickPlain, PickWarm, PickCold, Choose, Start
  <1>4. ASSUME NEW r \in Replicas, Fail(r) PROVE KnownAnswered'
    BY <1>1, <1>4 DEF Fail
  <1>5. CASE Tick
    BY <1>1, <1>5 DEF Tick
  <1>6. CASE UNCHANGED vars
    BY <1>1, <1>6 DEF vars
  <1> QED BY <1>2, <1>3, <1>4, <1>5, <1>6 DEF Next

\* latency takes no deployment that has answered while another of the pool has
\* not.
THEOREM EveryoneIsTriedForAll == Spec => EveryoneIsTried
  <1>1. Init => KnownAnswered
    BY ConfigurationsAssumption DEF Init, KnownAnswered
  <1>2. KnownAnswered /\ [Next]_vars =>
          [\A r \in answered : inFlight'[r] > inFlight[r] /\ config.strategy = "latency" =>
             \A pool \in SUBSET config.deployments :
                 r \in pool /\ ~(pool \subseteq answered) => ~PickPlain(pool, r)]_vars
    <2> SUFFICES ASSUME KnownAnswered, NEW r \in answered, config.strategy = "latency",
                        NEW pool \in SUBSET config.deployments, r \in pool,
                        NEW s \in pool, s \notin answered, PickPlain(pool, r)
                 PROVE  FALSE
      OBVIOUS
    <2> DEFINE key == [q \in pool |-> IF ewma[q] > 0 THEN ewma[q] ELSE -1]
    <2>1. r \in LeastLatency(pool, ewma)
      BY DEF PickPlain, Selected
    <2>2. key[r] < key[s] \/ key[r] = key[s]
      BY <2>1 DEF LeastLatency, Least
    <2>3. ewma[r] \in Nat /\ ewma[r] > 0 /\ ewma[s] = 0
      BY DEF KnownAnswered
    <2>4. key[r] = ewma[r] /\ key[s] = -1
      BY <2>3
    <2> QED BY <2>2, <2>3, <2>4
  <1> QED BY <1>1, <1>2, KnownStep, PTL DEF Spec, EveryoneIsTried

-----------------------------------------------------------------------------
(* Rotation *)

LEMMA Remainder ==
    ASSUME NEW n \in Nat \ {0}, NEW a \in Int, NEW w \in 0..(n - 1)
    PROVE  (n * a + w) % n = w
  <1> DEFINE x == n * a + w
             b == x \div n
             v == x % n
  <1>1. x \in Int
    OBVIOUS
  <1>2. b \in Int /\ v \in 0..(n - 1) /\ x = n * b + v
    BY <1>1
  <1> HIDE DEF b, v
  <1>3. n * a + w = n * b + v
    BY <1>2
  <1>4. n * (a - b) = v - w
    BY <1>2, <1>3
  <1>5. ASSUME NEW d \in Int, n * d \in (0 - n + 1)..(n - 1) PROVE d = 0
    <2>1. CASE d >= 1
      <3>1. n * d >= n
        BY <2>1
      <3> QED BY <1>5, <3>1
    <2>2. CASE d <= -1
      <3>1. n * d <= 0 - n
        BY <2>2
      <3> QED BY <1>5, <3>1
    <2> QED BY <2>1, <2>2
  <1>6. a - b = 0
    BY <1>2, <1>4, <1>5
  <1>7. v = w
    BY <1>2, <1>4, <1>6
  <1> QED BY <1>7 DEF v

\* The counter is advanced modulo a multiple of the length of the pool, so it is
\* advanced modulo that length.
LEMMA Advanced ==
    ASSUME NEW n \in Nat \ {0}, Cycle % n = 0, NEW c \in 0..(Cycle - 1)
    PROVE  /\ (c + 1) % Cycle \in 0..(Cycle - 1)
           /\ c % n \in 0..(n - 1)
           /\ ((c + 1) % Cycle) % n = IF c % n = n - 1 THEN 0 ELSE (c % n) + 1
  <1> DEFINE a == c \div n
             w == c % n
             k == Cycle \div n
  <1>1. Cycle \in Nat \ {0} /\ c \in Nat
    BY CycleAssumption
  <1>2. a \in Int /\ w \in 0..(n - 1) /\ c = n * a + w
    BY <1>1
  <1>3. k \in Int /\ Cycle = n * k
    BY <1>1
  <1> HIDE DEF a, w, k
  <1>4. CASE c + 1 < Cycle
    <2>1. (c + 1) % Cycle = c + 1
      BY <1>1, <1>4
    <2>2. CASE w = n - 1
      <3>1. c + 1 = n * (a + 1) + 0
        BY <1>2, <2>2
      <3>2. (n * (a + 1) + 0) % n = 0
        BY <1>2, Remainder
      <3> QED BY <1>1, <1>2, <1>4, <2>1, <2>2, <3>1, <3>2 DEF w
    <2>3. CASE w # n - 1
      <3>1. c + 1 = n * a + (w + 1) /\ w + 1 \in 0..(n - 1)
        BY <1>2, <2>3
      <3>2. (n * a + (w + 1)) % n = w + 1
        BY <1>2, <3>1, Remainder
      <3> QED BY <1>1, <1>2, <1>4, <2>1, <2>3, <3>1, <3>2 DEF w
    <2> QED BY <2>2, <2>3
  <1>5. CASE c + 1 = Cycle
    <2>1. (c + 1) % Cycle = 0 /\ 0 % n = 0
      BY <1>1, <1>5
    <2>2. c = n * (k - 1) + (n - 1) /\ n - 1 \in 0..(n - 1)
      BY <1>1, <1>3, <1>5
    <2>3. c % n = n - 1
      BY <1>3, <2>2, Remainder
    <2> QED BY <1>1, <2>1, <2>3
  <1> QED BY <1>1, <1>4, <1>5

\* The place of r in the list of a pool.
Rank(pool, r) == Cardinality({q \in pool : Position[q] < Position[r]})

LEMMA Ranked ==
    ASSUME NEW pool \in SUBSET Replicas
    PROVE  /\ IsFiniteSet(pool) /\ Cardinality(pool) \in Nat
           /\ pool # {} => Cardinality(pool) # 0 /\ Cycle % Cardinality(pool) = 0
           /\ \A r \in pool : Rank(pool, r) \in 0..(Cardinality(pool) - 1)
           /\ \A r, s \in pool : Rank(pool, r) = Rank(pool, s) => r = s
  <1> DEFINE before(r) == {q \in pool : Position[q] < Position[r]}
  <1>1. IsFiniteSet(pool) /\ Cardinality(pool) \in Nat /\ Cardinality(Replicas) \in Nat
        /\ Cardinality(pool) <= Cardinality(Replicas)
    BY PositionAssumption, FS_Subset, FS_CardinalityType
  <1>2. ASSUME pool # {}
        PROVE  Cardinality(pool) # 0 /\ Cycle % Cardinality(pool) = 0
    <2>1. Cardinality(pool) # 0
      BY <1>1, <1>2, FS_EmptySet
    <2> QED BY <1>1, <2>1, CycleAssumption
  <1>3. ASSUME NEW r \in pool
        PROVE  IsFiniteSet(before(r)) /\ Rank(pool, r) \in 0..(Cardinality(pool) - 1)
    <2>1. before(r) \in SUBSET pool /\ r \notin before(r)
      BY PositionAssumption
    <2> HIDE DEF before
    <2>2. /\ IsFiniteSet(before(r)) /\ Cardinality(before(r)) <= Cardinality(pool)
          /\ Cardinality(before(r)) # Cardinality(pool)
      BY <1>1, <2>1, FS_Subset
    <2>3. Cardinality(before(r)) \in Nat
      BY <2>2, FS_CardinalityType
    <2> QED BY <1>1, <2>2, <2>3 DEF Rank, before
  <1>4. ASSUME NEW r \in pool, NEW s \in pool, Position[r] < Position[s]
        PROVE  Rank(pool, r) # Rank(pool, s)
    <2>1. before(r) \in SUBSET before(s) /\ r \in before(s) /\ r \notin before(r)
      BY <1>4, PositionAssumption
    <2>2. IsFiniteSet(before(s))
      BY <1>3
    <2> HIDE DEF before
    <2>3. Cardinality(before(s)) # Cardinality(before(r))
      BY <2>1, <2>2, FS_Subset
    <2> QED BY <2>3 DEF Rank, before
  <1>5. ASSUME NEW r \in pool, NEW s \in pool, Rank(pool, r) = Rank(pool, s) PROVE r = s
    <2>1. Position[r] \in Nat /\ Position[s] \in Nat
      BY PositionAssumption
    <2>2. ~(Position[r] < Position[s]) /\ ~(Position[s] < Position[r])
      BY <1>4, <1>5
    <2> QED BY <2>1, <2>2, PositionAssumption
  <1> QED BY <1>1, <1>2, <1>3, <1>5

\* How many turns ago it was the turn of r, when the counter is at place w.
Ago(pool, r, w) ==
    IF Rank(pool, r) < w THEN w - 1 - Rank(pool, r)
    ELSE w - 1 - Rank(pool, r) + Cardinality(pool)

\* Those that have had a turn more are the last m picked.
LastPicked(pool, of, w, m) ==
    \A r \in pool : of[r] = IF Ago(pool, r, w) < m THEN 1 ELSE 0

RotationInv ==
    /\ counter \in 0..(Cycle - 1)
    /\ turns \in [pool : SUBSET Replicas, of : [Replicas -> Nat]]
    /\ turns.pool # {} =>
          /\ config.strategy = "round_robin"
          /\ \E m \in 0..(Cardinality(turns.pool) - 1) :
                LastPicked(turns.pool, turns.of, counter % Cardinality(turns.pool), m)

\* A turn is taken by the one whose turn is longest ago.
LEMMA TurnTaken ==
    ASSUME NEW pool \in SUBSET Replicas, NEW r \in pool, NEW w \in 0..(Cardinality(pool) - 1),
           Rank(pool, r) = w
    PROVE  LET next == IF w = Cardinality(pool) - 1 THEN 0 ELSE w + 1
           IN  /\ Ago(pool, r, w) = Cardinality(pool) - 1 /\ Ago(pool, r, next) = 0
               /\ \A s \in pool \ {r} : /\ Ago(pool, s, w) \in Nat
                                        /\ Ago(pool, s, next) = Ago(pool, s, w) + 1
                                        /\ Ago(pool, s, next) \in 1..(Cardinality(pool) - 1)
  <1> DEFINE n == Cardinality(pool)
             next == IF w = n - 1 THEN 0 ELSE w + 1
  <1>1. n \in Nat /\ n # 0 /\ \A s \in pool : Rank(pool, s) \in 0..(n - 1)
    BY Ranked
  <1>2. \A s \in pool \ {r} : Rank(pool, s) # w
    BY Ranked
  <1> HIDE DEF n
  <1>3. Ago(pool, r, w) = n - 1 /\ Ago(pool, r, next) = 0
    BY <1>1 DEF Ago, n
  <1>4. ASSUME NEW s \in pool \ {r}
        PROVE  /\ Ago(pool, s, w) \in Nat
               /\ Ago(pool, s, next) = Ago(pool, s, w) + 1 /\ Ago(pool, s, next) \in 1..(n - 1)
    <2>1. Rank(pool, s) \in 0..(n - 1) /\ Rank(pool, s) # w
      BY <1>1, <1>2
    <2> QED BY <1>1, <2>1 DEF Ago, n
  <1> QED BY <1>3, <1>4 DEF n

LEMMA RotationStep == IsConfigured /\ RotationInv /\ [Next]_vars => RotationInv'
  <1> SUFFICES ASSUME IsConfigured, RotationInv, [Next]_vars PROVE RotationInv'
    OBVIOUS
  <1>1. ASSUME UNCHANGED <<config, counter, turns>> PROVE RotationInv'
    BY <1>1 DEF RotationInv
  <1>2. ASSUME Counted, config' = config, turns' = turns, config.strategy # "round_robin"
        PROVE  RotationInv'
    <2>1. turns.pool = {}
      BY <1>2 DEF RotationInv
    <2>2. counter' \in 0..(Cycle - 1)
      BY <1>2, CycleAssumption DEF Counted, RotationInv
    <2> QED BY <1>2, <2>1, <2>2 DEF RotationInv
  <1>3. ASSUME NEW pool \in SUBSET config.deployments, NEW r \in pool, PickPlain(pool, r)
        PROVE  RotationInv'
    <2>1. CASE ~Reads({"round_robin"})
      BY <1>1, <1>3, <2>1 DEF PickPlain, Start
    <2>2. CASE Reads({"round_robin"})
      <3> DEFINE n == Cardinality(pool)
                 w == counter % n
                 next == IF w = n - 1 THEN 0 ELSE w + 1
                 of == IF pool = turns.pool THEN [turns.of EXCEPT ![r] = @ + 1]
                       ELSE [s \in Replicas |-> IF s = r THEN 1 ELSE 0]
                 rounds == IF \A s \in pool : of[s] > 0 THEN 1 ELSE 0
                 left == [s \in Replicas |-> IF s \in pool THEN of[s] - rounds ELSE 0]
      <3>1. config.strategy = "round_robin" /\ config' = config /\ pool \in SUBSET Replicas
            /\ turns.pool \in SUBSET Replicas /\ turns.of \in [Replicas -> Nat]
        BY <1>3, <2>2, PoolsAreReplicas DEF PickPlain, Reads, Start, RotationInv
      <3>2. counter' = (counter + 1) % Cycle /\ turns' = [pool |-> pool, of |-> left]
        BY <1>3, <2>2, <3>1 DEF PickPlain, Counted, Reads
      <3>3. Rank(pool, r) = w
        BY <1>3, <2>2, <3>1 DEF PickPlain, Selected, RoundRobin, Rank
      <3>4. n \in Nat \ {0} /\ Cycle % n = 0 /\ counter \in 0..(Cycle - 1)
        BY <1>3, <3>1, Ranked DEF RotationInv
      <3> HIDE DEF n, of
      <3>5. w \in 0..(n - 1) /\ counter' % n = next /\ counter' \in 0..(Cycle - 1)
        BY <3>2, <3>4, Advanced
      <3> HIDE DEF w
      <3>6. /\ Ago(pool, r, w) = n - 1 /\ Ago(pool, r, next) = 0
            /\ \A s \in pool \ {r} : /\ Ago(pool, s, w) \in Nat
                                     /\ Ago(pool, s, next) = Ago(pool, s, w) + 1
                                     /\ Ago(pool, s, next) \in 1..(n - 1)
        BY <3>1, <3>3, <3>5, TurnTaken DEF n
      <3> HIDE DEF next
      <3>7. \E m \in 1..n : LastPicked(pool, of, next, m)
        <4>1. CASE pool = turns.pool
          <5>1. PICK m \in 0..(n - 1) : LastPicked(pool, turns.of, w, m)
            BY <1>3, <4>1 DEF RotationInv, n, w
          <5>2. of = [turns.of EXCEPT ![r] = @ + 1]
            BY <4>1 DEF of
          <5>3. of[r] = 1 /\ \A s \in pool \ {r} : of[s] = turns.of[s]
            BY <1>3, <3>1, <3>4, <3>6, <5>1, <5>2 DEF LastPicked
          <5>4. \A s \in pool : of[s] = IF Ago(pool, s, next) < m + 1 THEN 1 ELSE 0
            <6> SUFFICES ASSUME NEW s \in pool
                         PROVE  of[s] = IF Ago(pool, s, next) < m + 1 THEN 1 ELSE 0
              OBVIOUS
            <6>1. CASE s = r
              BY <3>4, <3>6, <5>3, <6>1
            <6>2. CASE s # r
              <7>1. of[s] = IF Ago(pool, s, w) < m THEN 1 ELSE 0
                BY <5>1, <5>3, <6>2 DEF LastPicked
              <7>2. Ago(pool, s, w) \in Nat /\ Ago(pool, s, next) = Ago(pool, s, w) + 1
                BY <3>6, <6>2
              <7> QED BY <7>1, <7>2
            <6> QED BY <6>1, <6>2
          <5>5. m + 1 \in 1..n
            BY <3>4, <5>1
          <5> QED BY <5>4, <5>5 DEF LastPicked
        <4>2. CASE pool # turns.pool
          <5>1. of = [s \in Replicas |-> IF s = r THEN 1 ELSE 0]
            BY <4>2 DEF of
          <5>2. \A s \in pool : of[s] = IF Ago(pool, s, next) < 1 THEN 1 ELSE 0
            BY <3>1, <3>6, <5>1
          <5> QED BY <3>4, <5>2 DEF LastPicked
        <4> QED BY <4>1, <4>2
      <3>8. PICK m \in 1..n : LastPicked(pool, of, next, m)
        BY <3>7
      <3>9. /\ left \in [Replicas -> Nat]
            /\ \E k \in 0..(n - 1) : LastPicked(pool, left, next, k)
        <4>1. \A s \in pool : of[s] \in {0, 1}
          BY <3>8 DEF LastPicked
        <4>2. CASE \A s \in pool : of[s] > 0
          <5>1. left = [s \in Replicas |-> 0]
            BY <3>1, <4>1, <4>2
          <5>2. \A s \in pool : Ago(pool, s, next) >= 0
            BY <3>6
          <5>3. LastPicked(pool, left, next, 0)
            BY <3>1, <3>4, <3>6, <5>1 DEF LastPicked
          <5> QED BY <3>4, <5>1, <5>3
        <4>3. CASE ~ \A s \in pool : of[s] > 0
          <5>1. left = [s \in Replicas |-> IF s \in pool THEN of[s] ELSE 0]
            BY <4>1, <4>3
          <5>2. PICK s \in pool : of[s] = 0
            BY <4>1, <4>3
          <5>3. ~(Ago(pool, s, next) < m)
            BY <3>8, <5>2 DEF LastPicked
          <5>4. m \in 0..(n - 1)
            BY <3>4, <3>6, <5>3
          <5>5. LastPicked(pool, left, next, m)
            BY <3>1, <3>8, <5>1 DEF LastPicked
          <5>6. left \in [Replicas -> Nat]
            BY <4>1, <5>1
          <5> QED BY <5>4, <5>5, <5>6
        <4> QED BY <4>2, <4>3
      <3> HIDE DEF left
      <3> QED BY <3>1, <3>2, <3>5, <3>9 DEF RotationInv, n
    <2> QED BY <2>1, <2>2
  <1>4. ASSUME NEW pool \in SUBSET config.deployments, NEW q \in Requests, NEW r,
               Pick(pool, q, r)
        PROVE  RotationInv'
    <2>1. CASE PickPlain(pool, r)
      <3>1. CASE r \in pool
        BY <1>3, <2>1, <3>1
      <3>2. CASE r \notin pool
        <4>1. ~Reads({"round_robin"})
          BY <2>1, <3>2 DEF PickPlain, Reads, Selected, RoundRobin
        <4> QED BY <1>1, <2>1, <4>1 DEF PickPlain, Start
      <3> QED BY <3>1, <3>2
    <2>2. CASE PickWarm(pool, q, r)
      BY <1>1, <2>2 DEF PickWarm, Choose, Start
    <2>3. CASE PickCold(pool, q, r)
      BY <1>2, <2>3 DEF PickCold, Choose, Start, IsPrefixAware
    <2> QED BY <1>4, <2>1, <2>2, <2>3 DEF Pick
  <1>5. ASSUME NEW r, (\E sample \in Samples : Answer(r, sample)) \/ Fail(r)
        PROVE  RotationInv'
    BY <1>1, <1>5 DEF Answer, Fail
  <1>6. CASE Tick \/ UNCHANGED vars
    BY <1>1, <1>6 DEF Tick, vars
  <1> QED BY <1>4, <1>5, <1>6 DEF Next

LEMMA RotationInit == Init => RotationInv
  BY CycleAssumption DEF Init, RotationInv

LEMMA RotationAlways == Spec => []RotationInv
  <1>1. Init => IsConfigured
    BY DEF Init, IsConfigured
  <1> QED BY <1>1, ConfigStep, RotationInit, RotationStep, PTL DEF Spec

\* round_robin shares the picks of a pool evenly for as long as it stays what it is.
THEOREM RotationIsEvenForAll == Spec => []RotationIsEven
  <1>1. RotationInv => RotationIsEven
    <2> SUFFICES ASSUME RotationInv, NEW r \in turns.pool, NEW q \in turns.pool
                 PROVE  turns.of[r] <= turns.of[q] + 1
      BY DEF RotationIsEven
    <2>1. turns.of[r] \in {0, 1} /\ turns.of[q] \in {0, 1}
      BY DEF RotationInv, LastPicked
    <2> QED BY <2>1
  <1> QED BY <1>1, RotationAlways, PTL

-----------------------------------------------------------------------------
(* Type correctness *)

\* Every variable has its type.
THEOREM TypeCorrect == Spec => []TypeOK
  <1>1. IsConfigured /\ IndexInv /\ ServedInv /\ RotationInv /\ LoadType /\ KnownAnswered
            => TypeOK
    BY DEF IsConfigured, IndexInv, ListInv, ServedInv, RotationInv, LoadType, KnownAnswered, TypeOK
  <1>2. Init => LoadType /\ KnownAnswered
    BY LimitsAssumption, ConfigurationsAssumption DEF Init, LoadType, KnownAnswered
  <1> QED BY <1>1, <1>2, IndexAlways, RotationAlways, ServedInit, ServedStep, LoadStep, KnownStep,
             PTL DEF Spec
=============================================================================
