-------------------------- MODULE PhaseAlignProofs --------------------------
(***************************************************************************)
(* What the operators of PhaseAlign return, for stamps and delays of any   *)
(* size: order statistics exist and are unique, a median is an integer and *)
(* follows the majority, an angle lies in its cycle.                       *)
(***************************************************************************)
EXTENDS PhaseAlign, FiniteSetTheorems, WellFoundedInduction, TLAPS

-----------------------------------------------------------------------------
(* Finitely many integers have a least and a greatest one.                 *)

\* The places whose values are not above that of d.
Below(f, D, d) == {e \in D : f[e] <= f[d]}

LEMMA LeastExists ==
    ASSUME NEW D, IsFiniteSet(D), D # {}, NEW f, \A d \in D : f[d] \in Int
    PROVE  \E m \in D : \A d \in D : f[m] <= f[d]
<1> DEFINE T == {Below(f, D, d) : d \in D}
<1>1. T \subseteq FiniteSubsetsOf(D)
    <2> SUFFICES ASSUME NEW d \in D
                 PROVE  Below(f, D, d) \in FiniteSubsetsOf(D)
        OBVIOUS
    <2>1. Below(f, D, d) \in SUBSET D
        BY DEF Below
    <2>2. QED
        BY <2>1, FS_Subset DEF FiniteSubsetsOf
<1>2. T # {}
    OBVIOUS
<1>3. IsWellFoundedOn(StrictSubsetOrdering(D), FiniteSubsetsOf(D))
    BY FS_StrictSubsetOrderingWellFounded
<1> HIDE DEF T
<1>4. PICK x \in T : \A y \in T : <<y, x>> \notin StrictSubsetOrdering(D)
    BY <1>1, <1>2, <1>3, WFMin
<1>5. PICK m \in D : x = Below(f, D, m)
    BY <1>4 DEF T
<1>6. ASSUME NEW d \in D, ~(f[m] <= f[d])
      PROVE  FALSE
    <2>1. f[d] < f[m] /\ f[d] \in Int /\ f[m] \in Int
        BY <1>6
    <2>2. Below(f, D, d) \subseteq Below(f, D, m)
        BY <2>1 DEF Below
    <2>3. m \in Below(f, D, m) /\ m \notin Below(f, D, d)
        BY <2>1 DEF Below
    <2>4. Below(f, D, d) \in SUBSET D /\ Below(f, D, m) \in SUBSET D
        BY DEF Below
    <2>5. <<Below(f, D, d), Below(f, D, m)>> \in StrictSubsetOrdering(D)
        BY <2>2, <2>3, <2>4 DEF StrictSubsetOrdering
    <2>6. Below(f, D, d) \in T
        BY DEF T
    <2>7. QED
        BY <1>4, <1>5, <2>5, <2>6
<1>7. QED
    BY <1>6

LEMMA GreatestExists ==
    ASSUME NEW D, IsFiniteSet(D), D # {}, NEW f, \A d \in D : f[d] \in Int
    PROVE  \E m \in D : \A d \in D : f[d] <= f[m]
<1> DEFINE g == [d \in D |-> -f[d]]
<1>1. \A d \in D : g[d] \in Int /\ g[d] = -f[d]
    OBVIOUS
<1> HIDE DEF g
<1>2. PICK m \in D : \A d \in D : g[m] <= g[d]
    BY <1>1, LeastExists
<1>3. ASSUME NEW d \in D
      PROVE  f[d] <= f[m]
    BY <1>1, <1>2
<1>4. QED
    BY <1>3

-----------------------------------------------------------------------------
(* Order statistics.                                                       *)

Values(f) == {f[d] : d \in DOMAIN f}

Smaller(f, v) == {d \in DOMAIN f : f[d] < v}

NotGreater(f, v) == {d \in DOMAIN f : f[d] <= v}

IsKth(f, k, v) == Cardinality(Smaller(f, v)) < k /\ k <= Cardinality(NotGreater(f, v))

\* What KthSmallest and Median are called with.
Numbers(f) == IsFiniteSet(DOMAIN f) /\ \A d \in DOMAIN f : f[d] \in Int

LEMMA PartsFinite ==
    ASSUME NEW f, Numbers(f), NEW v
    PROVE  /\ IsFiniteSet(Smaller(f, v)) /\ Cardinality(Smaller(f, v)) \in Nat
           /\ IsFiniteSet(NotGreater(f, v)) /\ Cardinality(NotGreater(f, v)) \in Nat
<1>1. Smaller(f, v) \in SUBSET DOMAIN f /\ NotGreater(f, v) \in SUBSET DOMAIN f
    BY DEF Smaller, NotGreater
<1>2. IsFiniteSet(Smaller(f, v)) /\ IsFiniteSet(NotGreater(f, v))
    BY <1>1, FS_Subset DEF Numbers
<1>3. QED
    BY <1>2, FS_CardinalityType

LEMMA KthExists ==
    ASSUME NEW f, Numbers(f), NEW k \in 1 .. Cardinality(DOMAIN f)
    PROVE  \E v \in Values(f) : IsKth(f, k, v)
<1> DEFINE D == DOMAIN f
           T == {d \in D : k <= Cardinality(NotGreater(f, f[d]))}
<1>1. IsFiniteSet(D) /\ Cardinality(D) \in Nat /\ \A d \in D : f[d] \in Int
    BY FS_CardinalityType DEF Numbers
<1>2. D # {}
    BY <1>1, FS_EmptySet
<1>3. T # {}
    <2>1. PICK m \in D : \A d \in D : f[d] <= f[m]
        BY <1>1, <1>2, GreatestExists
    <2>2. NotGreater(f, f[m]) = D
        BY <2>1 DEF NotGreater
    <2>3. QED
        BY <2>2, <1>1
<1>4. IsFiniteSet(T)
    BY <1>1, FS_Subset
<1>5. PICK t \in T : \A d \in T : f[t] <= f[d]
    <2>1. \A d \in T : f[d] \in Int
        BY <1>1
    <2> HIDE DEF T, D
    <2>2. QED
        BY <1>3, <1>4, <2>1, LeastExists
<1>6. ASSUME k <= Cardinality(Smaller(f, f[t]))
      PROVE  FALSE
    <2> DEFINE L == Smaller(f, f[t])
    <2>1. IsFiniteSet(L) /\ L \subseteq D
        BY PartsFinite DEF Smaller
    <2>2. L # {}
        BY <1>6, FS_EmptySet
    <2>3. PICK u \in L : \A d \in L : f[d] <= f[u]
        <3>1. \A d \in L : f[d] \in Int
            BY <1>1, <2>1
        <3> HIDE DEF L
        <3>2. QED
            BY <2>1, <2>2, <3>1, GreatestExists
    <2>4. u \in D /\ f[u] < f[t]
        BY <2>1, <2>3 DEF Smaller
    <2>5. NotGreater(f, f[u]) = L
        BY <1>1, <2>3, <2>4 DEF NotGreater, Smaller
    <2>6. u \in T
        BY <1>6, <2>4, <2>5
    <2>7. QED
        BY <1>1, <1>5, <2>4, <2>6
<1>7. IsKth(f, k, f[t])
    BY <1>5, <1>6, PartsFinite DEF IsKth
<1>8. QED
    BY <1>7 DEF Values

LEMMA KthUnique ==
    ASSUME NEW f, Numbers(f), NEW k \in Nat, NEW v \in Int, NEW w \in Int,
           IsKth(f, k, v), IsKth(f, k, w)
    PROVE  v = w
<1>1. ASSUME NEW x \in Int, NEW y \in Int, IsKth(f, k, x), IsKth(f, k, y), x < y
      PROVE  FALSE
    <2>1. NotGreater(f, x) \in SUBSET Smaller(f, y)
        BY <1>1 DEF NotGreater, Smaller, Numbers
    <2>2. Cardinality(NotGreater(f, x)) <= Cardinality(Smaller(f, y))
        BY <2>1, PartsFinite, FS_Subset
    <2>3. QED
        BY <1>1, <2>2, PartsFinite DEF IsKth
<1>2. QED
    BY <1>1

\* KthSmallest picks the value that has fewer than k below it and at least k
\* that are not above it.
LEMMA KthSmallestIs ==
    ASSUME NEW f, Numbers(f), NEW k \in 1 .. Cardinality(DOMAIN f)
    PROVE  KthSmallest(f, k) \in Int /\ IsKth(f, k, KthSmallest(f, k))
<1>1. \E v \in Values(f) : IsKth(f, k, v)
    BY KthExists
<1>2. KthSmallest(f, k) \in Values(f) /\ IsKth(f, k, KthSmallest(f, k))
    BY <1>1 DEF KthSmallest, IsKth, Values, Smaller, NotGreater
<1>3. QED
    BY <1>2 DEF Values, Numbers

LEMMA Ranks ==
    ASSUME NEW n \in Nat \ {0}
    PROVE  /\ n \div 2 \in Nat
           /\ n % 2 = 0 => n \div 2 \in 1 .. n /\ n \div 2 + 1 \in 1 .. n /\ n = 2 * (n \div 2)
           /\ n % 2 # 0 => n \div 2 + 1 \in 1 .. n /\ n = 2 * (n \div 2) + 1
OBVIOUS

LEMMA MedianType ==
    ASSUME NEW f, Numbers(f), DOMAIN f # {}
    PROVE  Median(f) \in Int
<1>1. Cardinality(DOMAIN f) \in Nat \ {0}
    BY FS_CardinalityType, FS_EmptySet DEF Numbers
<1>2. QED
    BY <1>1, Ranks, KthSmallestIs DEF Median

\* The median is the value that more than half of the numbers have, whatever
\* the others are (DelayEstimator: robust against outliers).
LEMMA MedianOfMajority ==
    ASSUME NEW f, Numbers(f), NEW v \in Int,
           2 * Cardinality({d \in DOMAIN f : f[d] = v}) > Cardinality(DOMAIN f)
    PROVE  Median(f) = 2 * v
<1> DEFINE n == Cardinality(DOMAIN f)
           Equal == {d \in DOMAIN f : f[d] = v}
           m == Cardinality(Equal)
<1>1. IsFiniteSet(Equal) /\ m \in Nat /\ n \in Nat
    BY FS_Subset, FS_CardinalityType DEF Numbers
<1>2. n # 0
    <2>1. Equal = {} => m = 0
        BY FS_EmptySet
    <2>2. QED
        BY <1>1, <2>1, FS_EmptySet DEF Numbers
<1>3. m <= Cardinality(NotGreater(f, v))
    <2>1. Equal \in SUBSET NotGreater(f, v)
        BY DEF NotGreater, Numbers
    <2>2. QED
        BY <2>1, PartsFinite, FS_Subset
<1>4. Cardinality(Smaller(f, v)) + m <= n
    <2>1. Smaller(f, v) \cap Equal = {}
        BY DEF Smaller, Numbers
    <2>2. Cardinality(Smaller(f, v) \cup Equal) = Cardinality(Smaller(f, v)) + m
        <3>1. Cardinality(Smaller(f, v) \cup Equal) =
                  Cardinality(Smaller(f, v)) + m - Cardinality(Smaller(f, v) \cap Equal)
            BY <1>1, PartsFinite, FS_Union
        <3>2. Cardinality(Smaller(f, v) \cap Equal) = 0
            BY <2>1, FS_EmptySet
        <3>3. Cardinality(Smaller(f, v)) \in Nat
            BY PartsFinite
        <3>4. QED
            BY <1>1, <3>1, <3>2, <3>3
    <2>3. Smaller(f, v) \cup Equal \in SUBSET DOMAIN f
        BY DEF Smaller
    <2>4. Cardinality(Smaller(f, v) \cup Equal) <= n
        BY <2>3, FS_Subset DEF Numbers
    <2>5. QED
        BY <2>2, <2>4
<1>5. ASSUME NEW k \in 1 .. n, k <= m, n - m < k
      PROVE  KthSmallest(f, k) = v
    <2>1. IsKth(f, k, v)
        BY <1>1, <1>3, <1>4, <1>5, PartsFinite DEF IsKth
    <2>2. QED
        BY <2>1, KthSmallestIs, KthUnique
<1>6. CASE n % 2 = 0
    <2> DEFINE mid == n \div 2
    <2>1. mid \in 1 .. n /\ mid + 1 \in 1 .. n /\ n = 2 * mid
        BY <1>1, <1>2, <1>6, Ranks
    <2>2. mid + 1 <= m
        BY <1>1, <2>1
    <2>3. KthSmallest(f, mid) = v /\ KthSmallest(f, mid + 1) = v
        BY <1>1, <1>5, <2>1, <2>2
    <2>4. QED
        BY <1>6, <2>3 DEF Median
<1>7. CASE n % 2 # 0
    <2> DEFINE mid == n \div 2
    <2>1. mid + 1 \in 1 .. n /\ n = 2 * mid + 1
        BY <1>1, <1>2, <1>7, Ranks
    <2>2. KthSmallest(f, mid + 1) = v
        BY <1>1, <1>5, <2>1
    <2>3. QED
        BY <1>7, <2>2 DEF Median
<1>8. QED
    BY <1>6, <1>7

-----------------------------------------------------------------------------
(* Delays and angles.                                                      *)

LEMMA RoundHalfType ==
    ASSUME NEW x \in Int
    PROVE  RoundHalf(x) \in Int /\ RoundHalf(2 * x) = x
BY DEF RoundHalf

LEMMA AlignType ==
    ASSUME NEW time \in Int, NEW delay \in Int, NEW ref,
           ref.zero \in Int, ref.period \in Nat \ {0}
    PROVE  /\ Align(CompensateDelay(time, delay), ref) \in Nat
           /\ Align(CompensateDelay(time, delay), ref) < ref.period
BY RoundHalfType DEF Align, CompensateDelay

\* The differences of arrival that a channel and the reference channel share.
SharedWith(refChannel, stamps, ch) ==
    {n \in {k[2] : k \in DOMAIN stamps} : {<<ch, n>>, <<refChannel, n>>} \subseteq DOMAIN stamps}

DiffsOf(refChannel, stamps, ch) ==
    [n \in SharedWith(refChannel, stamps, ch) |-> stamps[<<ch, n>>] - stamps[<<refChannel, n>>]]

LEMMA DiffsAreNumbers ==
    ASSUME NEW refChannel, NEW stamps, Numbers(stamps), NEW ch
    PROVE  Numbers(DiffsOf(refChannel, stamps, ch))
<1> DEFINE seqOf == [k \in DOMAIN stamps |-> k[2]]
           seqs == {k[2] : k \in DOMAIN stamps}
<1>1. seqOf \in Surjection(DOMAIN stamps, seqs)
    BY DEF Surjection
<1>2. IsFiniteSet(seqs)
    BY <1>1, FS_Surjection DEF Numbers
<1>3. SharedWith(refChannel, stamps, ch) \in SUBSET seqs
    BY DEF SharedWith
<1>4. IsFiniteSet(SharedWith(refChannel, stamps, ch))
    BY <1>2, <1>3, FS_Subset
<1>5. QED
    BY <1>4 DEF Numbers, DiffsOf, SharedWith

\* Every delay that Estimate gives is an integer, so that DelayOf is one for
\* every channel.
LEMMA EstimateType ==
    ASSUME NEW refChannel, NEW stamps, Numbers(stamps)
    PROVE  /\ \A ch \in DOMAIN Estimate(refChannel, stamps) : Estimate(refChannel, stamps)[ch] \in Int
           /\ \A ch : DelayOf(Estimate(refChannel, stamps), ch) \in Int
<1> DEFINE others == {k[1] : k \in DOMAIN stamps} \ {refChannel}
           given == {refChannel} \cup {c \in others : SharedWith(refChannel, stamps, c) # {}}
<1>1. Estimate(refChannel, stamps) =
          [ch \in given |-> IF ch = refChannel THEN 0 ELSE Median(DiffsOf(refChannel, stamps, ch))]
    BY DEF Estimate, SharedWith, DiffsOf
<1>2. ASSUME NEW ch \in given, ch # refChannel
      PROVE  Median(DiffsOf(refChannel, stamps, ch)) \in Int
    <2>1. DOMAIN DiffsOf(refChannel, stamps, ch) # {}
        BY <1>2 DEF DiffsOf
    <2>2. QED
        BY <2>1, DiffsAreNumbers, MedianType
<1>3. \A ch \in DOMAIN Estimate(refChannel, stamps) : Estimate(refChannel, stamps)[ch] \in Int
    BY <1>1, <1>2
<1>4. QED
    BY <1>3 DEF DelayOf
=============================================================================
