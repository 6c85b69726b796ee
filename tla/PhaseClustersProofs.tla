------------------------- MODULE PhaseClustersProofs -------------------------
(***************************************************************************)
(* What the operators of PhaseClusters return for every spectrum: sums     *)
(* over finite sets, greatest values, and clusters that have the shape     *)
(* every row of the clusters table has.                                    *)
(***************************************************************************)
EXTENDS Classification, FiniteSetTheorems, WellFoundedInduction, TLAPS

-----------------------------------------------------------------------------
(* Sums.                                                                   *)

\* A set of subsets of a finite set has a smallest member: what induction over
\* finite sets comes to below.
LEMMA LeastSubset ==
    ASSUME NEW S, IsFiniteSet(S), NEW Bad, Bad \subseteq SUBSET S, Bad # {}
    PROVE  \E s \in Bad : \A t \in Bad : t \subseteq s => t = s
<1>1. Bad \subseteq FiniteSubsetsOf(S)
    BY FS_Subset DEF FiniteSubsetsOf
<1>2. PICK s \in Bad : \A t \in Bad : <<t, s>> \notin StrictSubsetOrdering(S)
    BY <1>1, FS_StrictSubsetOrderingWellFounded, WFMin
<1>3. \A t \in Bad : t \subseteq s => t = s
    BY <1>2 DEF StrictSubsetOrdering
<1>4. QED
    BY <1>3

\* The member a fold takes first.
Taken(s) == CHOOSE x \in s : TRUE

LEMMA TakenIn ==
    ASSUME NEW s, s # {}
    PROVE  Taken(s) \in s
BY DEF Taken

\* g is the recursion that a sum of f over subsets of S stands for.
Sums(g, f, S) ==
    g = [s \in SUBSET S |-> IF s = {} THEN 0
                            ELSE f[Taken(s)] + g[s \ {Taken(s)}]]

\* A sum is read off some recursion of that kind.
LEMMA SumIsChosen ==
    ASSUME NEW f, NEW S
    PROVE  SumFunctionOnSet(f, S) = (CHOOSE g : Sums(g, f, S))[S]
BY DEF SumFunctionOnSet, FoldFunctionOnSet, MapThenFoldSet, Sums, Taken

\* The two cases of the recursion.
LEMMA SumsAt ==
    ASSUME NEW f, NEW S, NEW g, Sums(g, f, S), NEW s \in SUBSET S, s # {}
    PROVE  g[s] = f[Taken(s)] + g[s \ {Taken(s)}]
BY DEF Sums

LEMMA SumsAtEmpty ==
    ASSUME NEW f, NEW S, NEW g, Sums(g, f, S)
    PROVE  g[{}] = 0
BY DEF Sums

\* Two such recursions agree where both are defined.
LEMMA SumsAgree ==
    ASSUME NEW f, NEW S, IsFiniteSet(S), NEW T, S \subseteq T,
           NEW g, Sums(g, f, S), NEW k, Sums(k, f, T)
    PROVE  g[S] = k[S]
<1> DEFINE Bad == {s \in SUBSET S : g[s] # k[s]}
<1> SUFFICES ASSUME Bad # {}
             PROVE  FALSE
    OBVIOUS
<1>1. Bad \subseteq SUBSET S
    OBVIOUS
<1> HIDE DEF Bad
<1>2. PICK s \in Bad : \A t \in Bad : t \subseteq s => t = s
    BY <1>1, LeastSubset
<1> USE DEF Bad
<1>3. s # {}
    BY DEF Sums
<1> DEFINE c == Taken(s)
<1>4. c \in s
    BY <1>3, TakenIn
<1>5. g[s \ {c}] = k[s \ {c}]
    BY <1>2, <1>4
<1>6. g[s] = f[c] + g[s \ {c}] /\ k[s] = f[c] + k[s \ {c}]
    BY <1>3, SumsAt
<1>7. QED
    BY <1>5, <1>6

\* They exist for every finite set.
LEMMA SumsExist ==
    ASSUME NEW f, NEW S, IsFiniteSet(S)
    PROVE  \E g : Sums(g, f, S)
<1> DEFINE Bad == {s \in SUBSET S : ~ \E g : Sums(g, f, s)}
<1> SUFFICES ASSUME Bad # {}
             PROVE  FALSE
    OBVIOUS
<1>1. Bad \subseteq SUBSET S
    OBVIOUS
<1> HIDE DEF Bad
<1>2. PICK U \in Bad : \A t \in Bad : t \subseteq U => t = U
    BY <1>1, LeastSubset
<1> USE DEF Bad
<1> DEFINE Sum(s) == (CHOOSE g : Sums(g, f, s))[s]
           h == [s \in SUBSET U |-> IF s = {} THEN 0 ELSE f[Taken(s)] + Sum(s \ {Taken(s)})]
<1>3. ASSUME NEW V, V \subseteq U, V # U
      PROVE  Sums(CHOOSE g : Sums(g, f, V), f, V)
    BY <1>2, <1>3
<1>4. ASSUME NEW V, V \subseteq U, V # U
      PROVE  h[V] = Sum(V)
    <2>1. CASE V = {}
        <3>1. Sum(V) = 0
            BY <1>3, <1>4, <2>1, SumsAtEmpty
        <3>2. QED
            BY <2>1, <3>1
    <2>2. CASE V # {}
        <3>1. Taken(V) \in V
            BY <2>2, TakenIn
        <3> DEFINE W == V \ {Taken(V)}
        <3>2. W \subseteq V /\ W \subseteq U /\ W # U /\ IsFiniteSet(W)
            BY <1>4, FS_Subset
        <3>3. Sum(W) = (CHOOSE g : Sums(g, f, V))[W]
            <4>1. Sums(CHOOSE g : Sums(g, f, W), f, W) /\ Sums(CHOOSE g : Sums(g, f, V), f, V)
                BY <1>3, <1>4, <3>2
            <4> HIDE DEF W
            <4>2. QED
                BY <3>2, <4>1, SumsAgree
        <3>4. Sum(V) = f[Taken(V)] + (CHOOSE g : Sums(g, f, V))[W]
            BY <1>3, <1>4, <2>2, SumsAt
        <3>5. h[V] = f[Taken(V)] + Sum(W)
            BY <1>4, <2>2
        <3>6. QED
            BY <3>3, <3>4, <3>5
    <2>3. QED
        BY <2>1, <2>2
<1>5. ASSUME NEW s \in SUBSET U, s # {}
      PROVE  Sum(s \ {Taken(s)}) = h[s \ {Taken(s)}]
    <2>1. Taken(s) \in s
        BY <1>5, TakenIn
    <2>2. s \ {Taken(s)} \subseteq U /\ s \ {Taken(s)} # U
        BY <2>1
    <2>3. QED
        BY <1>4, <2>2
<1>6. \A s \in SUBSET U : h[s] = IF s = {} THEN 0 ELSE f[Taken(s)] + h[s \ {Taken(s)}]
    <2>1. \A s \in SUBSET U : h[s] = IF s = {} THEN 0 ELSE f[Taken(s)] + Sum(s \ {Taken(s)})
        OBVIOUS
    <2> HIDE DEF h, Sum
    <2>2. QED
        BY <1>5, <2>1
<1>7. h = [s \in SUBSET U |-> h[s]]
    OBVIOUS
<1> HIDE DEF h
<1>8. Sums(h, f, U)
    BY <1>6, <1>7 DEF Sums
<1>9. QED
    BY <1>2, <1>8

\* Nothing adds up to 0.
LEMMA SumEmpty ==
    ASSUME NEW f
    PROVE  SumFunctionOnSet(f, {}) = 0
<1>1. Sums(CHOOSE g : Sums(g, f, {}), f, {})
    BY SumsExist, FS_EmptySet
<1>2. QED
    BY <1>1, SumIsChosen, SumsAtEmpty

\* The equation of a sum, with the member that CHOOSE takes first.
LEMMA SumEquation ==
    ASSUME NEW f, NEW S, IsFiniteSet(S), S # {},
           NEW c, c = Taken(S)
    PROVE  SumFunctionOnSet(f, S) = f[c] + SumFunctionOnSet(f, S \ {c})
<1> DEFINE G(s) == CHOOSE g : Sums(g, f, s)
<1>1. ASSUME NEW s, IsFiniteSet(s)
      PROVE  Sums(G(s), f, s) /\ SumFunctionOnSet(f, s) = G(s)[s]
    BY <1>1, SumsExist, SumIsChosen
<1>2. IsFiniteSet(S \ {c})
    BY FS_Subset
<1>3. G(S)[S] = f[c] + G(S)[S \ {c}]
    BY <1>1, SumsAt
<1>4. G(S \ {c})[S \ {c}] = G(S)[S \ {c}]
    <2>1. Sums(G(S), f, S) /\ Sums(G(S \ {c}), f, S \ {c}) /\ S \ {c} \subseteq S
        BY <1>1, <1>2
    <2> HIDE DEF G
    <2>2. QED
        BY <1>2, <2>1, SumsAgree
<1>5. QED
    BY <1>1, <1>2, <1>3, <1>4

\* Integers add up to an integer.
LEMMA SumInt ==
    ASSUME NEW f, NEW S, IsFiniteSet(S), \A x \in S : f[x] \in Int
    PROVE  SumFunctionOnSet(f, S) \in Int
<1> DEFINE Bad == {s \in SUBSET S : SumFunctionOnSet(f, s) \notin Int}
<1> SUFFICES ASSUME Bad # {}
             PROVE  FALSE
    OBVIOUS
<1>1. Bad \subseteq SUBSET S
    OBVIOUS
<1> HIDE DEF Bad
<1>2. PICK s \in Bad : \A t \in Bad : t \subseteq s => t = s
    BY <1>1, LeastSubset
<1> USE DEF Bad
<1>3. PICK c : c = Taken(s)
    OBVIOUS
<1>4. IsFiniteSet(s)
    BY FS_Subset
<1>5. s # {}
    <2>1. SumFunctionOnSet(f, s) # 0
        BY <1>2
    <2>2. QED
        BY <2>1, SumEmpty
<1>6. c \in s
    BY <1>3, <1>5, TakenIn
<1>7. SumFunctionOnSet(f, s \ {c}) \in Int
    BY <1>2, <1>6
<1>8. SumFunctionOnSet(f, s) = f[c] + SumFunctionOnSet(f, s \ {c})
    BY <1>3, <1>4, <1>5, SumEquation
<1>9. QED
    BY <1>6, <1>7, <1>8

\* The order of the members does not matter.
LEMMA SumWithout ==
    ASSUME NEW f, NEW S, IsFiniteSet(S), \A x \in S : f[x] \in Int, NEW x \in S
    PROVE  SumFunctionOnSet(f, S) = f[x] + SumFunctionOnSet(f, S \ {x})
<1> DEFINE Sum(s) == SumFunctionOnSet(f, s)
           Bad == {s \in SUBSET S : \E y \in s : Sum(s) # f[y] + Sum(s \ {y})}
<1> SUFFICES ASSUME Bad # {}
             PROVE  FALSE
    OBVIOUS
<1>1. Bad \subseteq SUBSET S
    OBVIOUS
<1> HIDE DEF Bad
<1>2. PICK s \in Bad : \A t \in Bad : t \subseteq s => t = s
    BY <1>1, LeastSubset
<1> USE DEF Bad
<1>3. PICK y \in s : Sum(s) # f[y] + Sum(s \ {y})
    OBVIOUS
<1> DEFINE c == Taken(s)
<1>4. c \in s /\ IsFiniteSet(s)
    BY <1>3, FS_Subset, TakenIn
<1>5. Sum(s) = f[c] + Sum(s \ {c})
    BY <1>3, <1>4, SumEquation
<1>6. c # y
    BY <1>3, <1>5
<1>7. s \ {c} \notin Bad /\ s \ {y} \notin Bad
    BY <1>2, <1>4
<1> DEFINE rest == (s \ {c}) \ {y}
<1>8. Sum(s \ {c}) = f[y] + Sum(rest)
    BY <1>6, <1>7
<1>9. (s \ {y}) \ {c} = rest
    OBVIOUS
<1>10. Sum(s \ {y}) = f[c] + Sum(rest)
    BY <1>4, <1>6, <1>7, <1>9
<1>11. IsFiniteSet(rest) /\ rest \subseteq S
    BY <1>4, FS_Subset
<1>12. Sum(rest) \in Int /\ f[c] \in Int /\ f[y] \in Int
    BY <1>4, <1>11, SumInt
<1> HIDE DEF Sum, rest, c
<1>13. QED
    BY <1>3, <1>5, <1>8, <1>10, <1>12

\* A sum depends on the values at its members only.
LEMMA SumSame ==
    ASSUME NEW f, NEW g, NEW S, IsFiniteSet(S), \A x \in S : f[x] = g[x]
    PROVE  SumFunctionOnSet(f, S) = SumFunctionOnSet(g, S)
<1> DEFINE Bad == {s \in SUBSET S : SumFunctionOnSet(f, s) # SumFunctionOnSet(g, s)}
<1> SUFFICES ASSUME Bad # {}
             PROVE  FALSE
    OBVIOUS
<1>1. Bad \subseteq SUBSET S
    OBVIOUS
<1> HIDE DEF Bad
<1>2. PICK s \in Bad : \A t \in Bad : t \subseteq s => t = s
    BY <1>1, LeastSubset
<1> USE DEF Bad
<1>3. PICK c : c = Taken(s)
    OBVIOUS
<1>4. IsFiniteSet(s)
    BY FS_Subset
<1>5. s # {}
    <2>1. SumFunctionOnSet(f, {}) = 0 /\ SumFunctionOnSet(g, {}) = 0
        BY SumEmpty
    <2>2. QED
        BY <1>2, <2>1
<1>6. c \in s
    BY <1>3, <1>5, TakenIn
<1>7. SumFunctionOnSet(f, s \ {c}) = SumFunctionOnSet(g, s \ {c})
    BY <1>2, <1>6
<1>8. /\ SumFunctionOnSet(f, s) = f[c] + SumFunctionOnSet(f, s \ {c})
      /\ SumFunctionOnSet(g, s) = g[c] + SumFunctionOnSet(g, s \ {c})
    BY <1>3, <1>4, <1>5, SumEquation
<1>9. QED
    BY <1>6, <1>7, <1>8

\* Naturals add up to a natural.
LEMMA SumNat ==
    ASSUME NEW f, NEW S, IsFiniteSet(S), \A x \in S : f[x] \in Nat
    PROVE  SumFunctionOnSet(f, S) \in Nat
<1> DEFINE Bad == {s \in SUBSET S : SumFunctionOnSet(f, s) \notin Nat}
<1> SUFFICES ASSUME Bad # {}
             PROVE  FALSE
    OBVIOUS
<1>1. Bad \subseteq SUBSET S
    OBVIOUS
<1> HIDE DEF Bad
<1>2. PICK s \in Bad : \A t \in Bad : t \subseteq s => t = s
    BY <1>1, LeastSubset
<1> USE DEF Bad
<1>3. PICK c : c = Taken(s)
    OBVIOUS
<1>4. IsFiniteSet(s)
    BY FS_Subset
<1>5. s # {}
    <2>1. SumFunctionOnSet(f, s) # 0
        BY <1>2
    <2>2. QED
        BY <2>1, SumEmpty
<1>6. c \in s
    BY <1>3, <1>5, TakenIn
<1>7. SumFunctionOnSet(f, s \ {c}) \in Nat
    BY <1>2, <1>6
<1>8. SumFunctionOnSet(f, s) = f[c] + SumFunctionOnSet(f, s \ {c})
    BY <1>3, <1>4, <1>5, SumEquation
<1>9. QED
    BY <1>6, <1>7, <1>8

\* The sum over two sets that do not meet.
LEMMA SumUnion ==
    ASSUME NEW f, NEW S, NEW T, IsFiniteSet(S), IsFiniteSet(T), S \cap T = {},
           \A x \in S \cup T : f[x] \in Int
    PROVE  SumFunctionOnSet(f, S \cup T) = SumFunctionOnSet(f, S) + SumFunctionOnSet(f, T)
<1> DEFINE Sum(s) == SumFunctionOnSet(f, s)
           Bad == {s \in SUBSET S : Sum(s \cup T) # Sum(s) + Sum(T)}
<1> SUFFICES ASSUME Bad # {}
             PROVE  FALSE
    OBVIOUS
<1>1. Bad \subseteq SUBSET S
    OBVIOUS
<1> HIDE DEF Bad
<1>2. PICK s \in Bad : \A t \in Bad : t \subseteq s => t = s
    BY <1>1, LeastSubset
<1> USE DEF Bad
<1>3. IsFiniteSet(s) /\ s \subseteq S /\ IsFiniteSet(s \cup T)
    BY FS_Subset, FS_Union
<1>4. Sum(T) \in Int /\ Sum({}) = 0
    BY SumInt, SumEmpty
<1>5. CASE s = {}
    <2>1. s \cup T = T
        BY <1>5
    <2>2. QED
        BY <1>4, <1>5, <2>1
<1>6. CASE s # {}
    <2>1. PICK c \in s : TRUE
        BY <1>6
    <2>2. Sum((s \ {c}) \cup T) = Sum(s \ {c}) + Sum(T)
        BY <1>2, <2>1
    <2>3. (s \cup T) \ {c} = (s \ {c}) \cup T
        BY <1>3, <2>1
    <2>4. Sum(s \cup T) = f[c] + Sum((s \ {c}) \cup T)
        BY <1>3, <2>3, SumWithout
    <2>5. Sum(s) = f[c] + Sum(s \ {c})
        BY <1>3, SumWithout
    <2>6. Sum(s \ {c}) \in Int /\ f[c] \in Int
        BY <1>3, FS_Subset, SumInt
    <2>7. Sum(s \cup T) # Sum(s) + Sum(T)
        OBVIOUS
    <2> HIDE DEF Sum
    <2>8. QED
        BY <1>4, <2>2, <2>4, <2>5, <2>6, <2>7
<1>7. QED
    BY <1>5, <1>6

\* A sum grows by the value at a member that comes in.
LEMMA SumWith ==
    ASSUME NEW f, NEW g, NEW S, IsFiniteSet(S), NEW x, x \notin S,
           \A y \in S : f[y] = g[y] /\ f[y] \in Int, g[x] \in Int
    PROVE  SumFunctionOnSet(g, S \cup {x}) = SumFunctionOnSet(f, S) + g[x]
<1>1. IsFiniteSet(S \cup {x}) /\ \A y \in S \cup {x} : g[y] \in Int
    BY FS_AddElement
<1>2. (S \cup {x}) \ {x} = S
    OBVIOUS
<1>3. SumFunctionOnSet(g, S \cup {x}) = g[x] + SumFunctionOnSet(g, S)
    BY <1>1, <1>2, SumWithout
<1>4. SumFunctionOnSet(g, S) = SumFunctionOnSet(f, S) /\ SumFunctionOnSet(f, S) \in Int
    BY SumSame, SumInt
<1>5. QED
    BY <1>3, <1>4

-----------------------------------------------------------------------------
(* Greatest values.                                                        *)

\* A finite set of integers that is not empty has a greatest one.
LEMMA GreatestMember ==
    ASSUME NEW S, IsFiniteSet(S), \A x \in S : x \in Int
    PROVE  S # {} => \E x \in S : \A y \in S : x >= y
<1> DEFINE Bad == {s \in SUBSET S : s # {} /\ ~ \E x \in s : \A y \in s : x >= y}
<1> SUFFICES ASSUME Bad # {}
             PROVE  FALSE
    OBVIOUS
<1>1. Bad \subseteq SUBSET S
    OBVIOUS
<1> HIDE DEF Bad
<1>2. PICK s \in Bad : \A t \in Bad : t \subseteq s => t = s
    BY <1>1, LeastSubset
<1> USE DEF Bad
<1>3. PICK c \in s : TRUE
    OBVIOUS
<1>4. c \in Int /\ \A x \in s : x \in Int
    OBVIOUS
<1>5. CASE s \ {c} = {}
    BY <1>3, <1>4, <1>5
<1>6. CASE s \ {c} # {}
    <2>1. s \ {c} \notin Bad /\ s \ {c} \in SUBSET S
        BY <1>2, <1>3
    <2>2. PICK x \in s \ {c} : \A y \in s \ {c} : x >= y
        BY <1>6, <2>1
    <2>3. CASE x >= c
        BY <1>4, <2>2, <2>3
    <2>4. CASE c > x
        BY <1>3, <1>4, <2>2, <2>4
    <2>5. QED
        BY <1>4, <2>2, <2>3, <2>4
<1>7. QED
    BY <1>5, <1>6

LEMMA MaxIs ==
    ASSUME NEW S, IsFiniteSet(S), S # {}, S \subseteq Int
    PROVE  /\ Max(S) \in S
           /\ \A y \in S : y <= Max(S)
<1>1. Max(S) \in S /\ \A y \in S : Max(S) >= y
    BY GreatestMember DEF Max
<1>2. QED
    BY <1>1

-----------------------------------------------------------------------------
(* Sorted lists.                                                           *)

\* o lists S by rising values of f.
Sorted(o, f) == \A i, j \in DOMAIN o : i < j => f[o[i]] <= f[o[j]]

\* A finite set can be listed so.
LEMMA SortedExists ==
    ASSUME NEW S, IsFiniteSet(S), NEW f, \A x \in S : f[x] \in Int
    PROVE  \E o \in SetToSeqs(S) : Sorted(o, f)
<1> DEFINE Bad == {s \in SUBSET S : ~ \E o \in SetToSeqs(s) : Sorted(o, f)}
<1> SUFFICES ASSUME Bad # {}
             PROVE  FALSE
    OBVIOUS
<1>1. Bad \subseteq SUBSET S
    OBVIOUS
<1> HIDE DEF Bad
<1>2. PICK s \in Bad : \A t \in Bad : t \subseteq s => t = s
    BY <1>1, LeastSubset
<1> USE DEF Bad
<1>3. IsFiniteSet(s) /\ s \in SUBSET S
    BY FS_Subset
<1>4. CASE s = {}
    <2>1. Cardinality(s) = 0
        BY <1>4, FS_EmptySet
    <2>2. << >> \in SetToSeqs(s) /\ Sorted(<< >>, f)
        BY <1>4, <2>1 DEF SetToSeqs, Sorted
    <2>3. QED
        BY <2>2
<1>5. CASE s # {}
    <2> DEFINE values == {f[x] : x \in s}
    <2>1. values # {} /\ values \subseteq Int
        BY <1>3, <1>5
    <2>2. IsFiniteSet(values)
        <3>1. [x \in s |-> f[x]] \in Surjection(s, values)
            BY DEF Surjection
        <3>2. QED
            BY <1>3, <3>1, FS_Surjection
    <2>3. PICK m : m \in values /\ \A v \in values : v <= m
        <3> HIDE DEF values
        <3>1. QED
            BY <2>1, <2>2, MaxIs
    <2>4. PICK c \in s : f[c] = m
        BY <2>3
    <2>5. \A x \in s : f[x] <= f[c]
        BY <2>3, <2>4
    <2> DEFINE rest == s \ {c}
               n == Cardinality(rest)
    <2>6. rest \notin Bad /\ rest \in SUBSET S
        BY <1>2, <2>4
    <2>7. PICK o \in SetToSeqs(rest) : Sorted(o, f)
        BY <2>6
    <2>8. n \in Nat /\ Cardinality(s) = n + 1
        <3>1. IsFiniteSet(rest)
            BY <1>3, FS_Subset
        <3>2. s = rest \cup {c}
            BY <2>4
        <3> HIDE DEF rest
        <3>3. Cardinality(rest \cup {c}) = Cardinality(rest) + 1
            BY <3>1, FS_AddElement DEF rest
        <3>4. QED
            BY <3>1, <3>2, <3>3, FS_CardinalityType
    <2> DEFINE p == [i \in 1 .. n + 1 |-> IF i = n + 1 THEN c ELSE o[i]]
    <2>9. /\ o \in [1 .. n -> rest]
          /\ \A i, j \in 1 .. n : i # j => o[i] # o[j]
        BY DEF SetToSeqs
    <2> HIDE DEF n
    <2>10. \A i \in 1 .. n + 1 : i # n + 1 => i \in 1 .. n /\ p[i] = o[i] /\ o[i] \in rest
        BY <2>8, <2>9
    <2>11. p[n + 1] = c
        BY <2>8
    <2>12. p \in SetToSeqs(s)
        <3>1. p \in [1 .. n + 1 -> s]
            BY <2>4, <2>10, <2>11
        <3>2. \A i, j \in 1 .. n + 1 : i # j => p[i] # p[j]
            BY <2>9, <2>10, <2>11
        <3>3. QED
            BY <2>8, <3>1, <3>2 DEF SetToSeqs
    <2>13. Sorted(p, f)
        <3> SUFFICES ASSUME NEW i \in 1 .. n + 1, NEW j \in 1 .. n + 1, i < j
                     PROVE  f[p[i]] <= f[p[j]]
            BY DEF Sorted
        <3>1. i \in 1 .. n /\ p[i] = o[i] /\ o[i] \in s
            BY <2>8, <2>10
        <3>2. CASE j = n + 1
            BY <2>5, <2>11, <3>1, <3>2
        <3>3. CASE j # n + 1
            BY <2>7, <2>9, <2>10, <3>1, <3>3 DEF Sorted
        <3>4. QED
            BY <3>2, <3>3
    <2>14. QED
        BY <2>12, <2>13
<1>6. QED
    BY <1>4, <1>5

-----------------------------------------------------------------------------
(* Extraction.                                                             *)

\* The elements of S that come before b in the order R.
LessThan(R, S, b) == {c \in S : <<c, b>> \in R}

\* Of a finite set in an order, each number of smaller elements belongs to one.
LEMMA Ranked ==
    ASSUME NEW S, IsFiniteSet(S), NEW R,
           \A a \in S : <<a, a>> \notin R,
           \A a, b, c \in S : <<a, b>> \in R /\ <<b, c>> \in R => <<a, c>> \in R,
           \A a, b \in S : a = b \/ <<a, b>> \in R \/ <<b, a>> \in R,
           NEW k \in 1 .. Cardinality(S)
    PROVE  \E b \in S : Cardinality(LessThan(R, S, b)) = k - 1
<1> DEFINE rank == [b \in S |-> Cardinality(LessThan(R, S, b))]
           n == Cardinality(S)
<1>1. n \in Nat
    BY FS_CardinalityType
<1>2. ASSUME NEW b \in S
      PROVE  /\ IsFiniteSet(LessThan(R, S, b))
             /\ Cardinality(LessThan(R, S, b)) \in 0 .. n - 1
    <2>1. LessThan(R, S, b) \in SUBSET S /\ b \notin LessThan(R, S, b)
        BY DEF LessThan
    <2>2. /\ IsFiniteSet(LessThan(R, S, b)) /\ Cardinality(LessThan(R, S, b)) \in Nat
          /\ Cardinality(LessThan(R, S, b)) <= n /\ Cardinality(LessThan(R, S, b)) # n
        BY <2>1, FS_Subset, FS_CardinalityType
    <2>3. QED
        BY <1>1, <2>2
<1>3. ASSUME NEW b \in S, NEW c \in S, <<b, c>> \in R
      PROVE  rank[b] # rank[c]
    <2>1. LessThan(R, S, b) \in SUBSET LessThan(R, S, c) /\ b \in LessThan(R, S, c) /\ b \notin LessThan(R, S, b)
        BY <1>3 DEF LessThan
    <2>2. IsFiniteSet(LessThan(R, S, c)) /\ rank[b] = Cardinality(LessThan(R, S, b)) /\ rank[c] = Cardinality(LessThan(R, S, c))
        BY <1>2
    <2> HIDE DEF rank
    <2>3. Cardinality(LessThan(R, S, b)) # Cardinality(LessThan(R, S, c))
        BY <2>1, <2>2, FS_Subset
    <2>4. QED
        BY <2>2, <2>3
<1>4. rank \in Injection(S, 0 .. n - 1)
    <2>1. rank \in [S -> 0 .. n - 1]
        BY <1>2
    <2>2. ASSUME NEW b \in S, NEW c \in S, rank[b] = rank[c]
          PROVE  b = c
        <3> HIDE DEF rank
        <3>1. <<b, c>> \notin R /\ <<c, b>> \notin R
            BY <1>3, <2>2
        <3>2. QED
            BY <3>1
    <2> HIDE DEF rank
    <2>3. QED
        BY <2>1, <2>2 DEF Injection, IsInjective
<1>5. IsFiniteSet(0 .. n - 1) /\ Cardinality(0 .. n - 1) = n
    <2> HIDE DEF n
    <2>1. n - 1 \in Int /\ 0 \in Int
        BY <1>1
    <2>2. IsFiniteSet(0 .. n - 1) /\ Cardinality(0 .. n - 1) = IF 0 > n - 1 THEN 0 ELSE n - 1 - 0 + 1
        BY <2>1, FS_Interval
    <2>3. QED
        BY <1>1, <2>2
<1>6. rank \in Surjection(S, 0 .. n - 1)
    <2> HIDE DEF rank
    <2>1. QED
        BY <1>4, <1>5, FS_Injection
<1>7. k - 1 \in 0 .. n - 1
    BY <1>1
<1>8. PICK b \in S : rank[b] = k - 1
    <2> HIDE DEF rank
    <2>1. QED
        BY <1>6, <1>7 DEF Surjection
<1>9. QED
    BY <1>8

LEMMA StartsFinite ==
    ASSUME NEW spectrum
    PROVE  /\ IsFiniteSet(Active(spectrum)) /\ Active(spectrum) \subseteq 0 .. Bins - 1
           /\ IsFiniteSet(Starts(spectrum)) /\ Starts(spectrum) \subseteq Active(spectrum)
           /\ Cardinality(Starts(spectrum)) \in Nat
<1>1. IsFiniteSet(0 .. Bins - 1)
    BY BinsAssumption, FS_Interval
<1>2. Active(spectrum) \subseteq 0 .. Bins - 1 /\ Starts(spectrum) \subseteq Active(spectrum)
    BY DEF Active, ActiveBins, Starts
<1>3. QED
    BY <1>1, <1>2, FS_Subset, FS_CardinalityType

LEMMA NthStartIs ==
    ASSUME NEW spectrum, NEW k \in 1 .. Cardinality(Starts(spectrum))
    PROVE  /\ NthStart(spectrum, k) \in Starts(spectrum)
           /\ Cardinality({c \in Starts(spectrum) : c < NthStart(spectrum, k)}) = k - 1
<1> DEFINE S == Starts(spectrum)
           R == {p \in S \X S : p[1] < p[2]}
<1>1. IsFiniteSet(S) /\ \A b \in S : b \in Int
    BY StartsFinite, BinsAssumption
<1>2. \A a, b \in S : <<a, b>> \in R <=> a < b
    OBVIOUS
<1>3. \E b \in S : Cardinality(LessThan(R, S, b)) = k - 1
    <2>1. /\ \A a \in S : <<a, a>> \notin R
          /\ \A a, b, c \in S : <<a, b>> \in R /\ <<b, c>> \in R => <<a, c>> \in R
          /\ \A a, b \in S : a = b \/ <<a, b>> \in R \/ <<b, a>> \in R
        <3> HIDE DEF S, R
        <3>1. QED
            BY <1>1, <1>2
    <2>2. k \in 1 .. Cardinality(S)
        OBVIOUS
    <2> HIDE DEF S, R
    <2>3. QED
        BY <1>1, <2>1, <2>2, Ranked
<1>4. PICK b \in S : Cardinality(LessThan(R, S, b)) = k - 1
    BY <1>3
<1>5. LessThan(R, S, b) = {c \in S : c < b}
    BY <1>2 DEF LessThan
<1>6. \E a \in Starts(spectrum) : Cardinality({c \in Starts(spectrum) : c < a}) = k - 1
    BY <1>4, <1>5
<1>7. QED
    BY <1>6 DEF NthStart

\* The active bins that the scan gives to the cluster which starts at first.
RunFrom(spectrum, first) ==
    {b \in Active(spectrum) : b >= first /\ \A s \in Starts(spectrum) : s <= first \/ s > b}

LEMMA RunIs ==
    ASSUME NEW spectrum, NEW first \in Starts(spectrum),
           NEW last, last = Max(RunFrom(spectrum, first))
    PROVE  /\ first \in 0 .. Bins - 1 /\ last \in 0 .. Bins - 1 /\ first <= last
           /\ last \in RunFrom(spectrum, first)
           /\ \A b \in RunFrom(spectrum, first) : b <= last
           /\ first .. last \subseteq 0 .. Bins - 1 /\ IsFiniteSet(first .. last)
<1> DEFINE run == RunFrom(spectrum, first)
<1>1. run \in SUBSET Active(spectrum) /\ Active(spectrum) \subseteq 0 .. Bins - 1
    BY StartsFinite DEF RunFrom
<1>2. IsFiniteSet(run)
    BY <1>1, StartsFinite, FS_Subset
<1>3. first \in 0 .. Bins - 1 /\ first \in Active(spectrum)
    BY <1>1, StartsFinite
<1>4. \A s \in Starts(spectrum) : s \in Int
    BY StartsFinite, BinsAssumption
<1>5. first \in run
    BY <1>3, <1>4, BinsAssumption DEF RunFrom
<1>6. \A b \in run : b \in Int
    BY <1>1, BinsAssumption
<1>7. last \in run /\ \A b \in run : b <= last
    <2> HIDE DEF run
    <2>1. run # {} /\ run \subseteq Int
        BY <1>5, <1>6
    <2>2. QED
        BY <1>2, <2>1, MaxIs DEF run
<1>8. last \in 0 .. Bins - 1
    BY <1>1, <1>7
<1>9. first <= last
    BY <1>5, <1>7
<1>10. first \in Int /\ last \in Int /\ Bins \in Int
    BY <1>3, <1>8, BinsAssumption
<1>11. first .. last \subseteq 0 .. Bins - 1
    BY <1>3, <1>8, <1>10
<1>12. QED
    BY <1>3, <1>7, <1>8, <1>9, <1>10, <1>11, FS_Interval

\* Rows of a spectrum are numbers.
LEMMA SpectrumAt ==
    ASSUME NEW spectrum \in Spectrums, NEW b \in 0 .. Bins - 1
    PROVE  /\ spectrum[b].count \in Nat /\ spectrum[b].sum \in Nat /\ spectrum[b].max \in Nat
<1>1. spectrum[b] \in [count : Nat, sum : Nat, max : Nat]
    BY DEF Spectrums
<1>2. QED
    BY <1>1

\* A cluster that the scan finds has the shape of a row.
LEMMA ClusterFromType ==
    ASSUME NEW spectrum \in Spectrums, NEW first \in Starts(spectrum)
    PROVE  ClusterFrom(spectrum, first) \in Shapes
<1>1. PICK last : last = Max(RunFrom(spectrum, first))
    OBVIOUS
<1> DEFINE bins == first .. last
           counts == [b \in bins |-> spectrum[b].count]
           sums == [b \in bins |-> spectrum[b].sum]
           maxes == {spectrum[b].max : b \in bins}
<1>2. ClusterFrom(spectrum, first) =
          [from |-> first, to |-> last + 1, center |-> first + last + 1,
           count |-> SumFunctionOnSet(counts, bins), sum |-> SumFunctionOnSet(sums, bins),
           max |-> Max(maxes)]
    BY <1>1 DEF ClusterFrom, RunFrom, Center, CountIn, SumFunction
<1>3. /\ first \in 0 .. Bins - 1 /\ last \in 0 .. Bins - 1 /\ first <= last
      /\ bins \subseteq 0 .. Bins - 1 /\ IsFiniteSet(bins)
    BY <1>1, RunIs
<1>4. first \in Int /\ last \in Int /\ first \in bins
    BY <1>3, BinsAssumption
<1>5. SumFunctionOnSet(counts, bins) \in Nat \ {0}
    <2>1. \A b \in bins : counts[b] = spectrum[b].count /\ counts[b] \in Nat
        BY <1>3, SpectrumAt
    <2>2. first \in Active(spectrum)
        BY StartsFinite
    <2>3. counts[first] >= 1
        BY <1>4, <2>1, <2>2 DEF Active, ActiveBins, MinBinCount
    <2> HIDE DEF counts, bins
    <2>4. IsFiniteSet(bins \ {first}) /\ \A b \in bins : counts[b] \in Int
        BY <1>3, <2>1, FS_Subset
    <2>5. SumFunctionOnSet(counts, bins) =
              counts[first] + SumFunctionOnSet(counts, bins \ {first})
        BY <1>3, <1>4, <2>4, SumWithout
    <2>6. SumFunctionOnSet(counts, bins \ {first}) \in Nat
        BY <2>1, <2>4, SumNat
    <2>7. QED
        BY <1>4, <2>1, <2>3, <2>5, <2>6
<1>6. SumFunctionOnSet(sums, bins) \in Nat
    <2>1. \A b \in bins : sums[b] \in Nat
        BY <1>3, SpectrumAt
    <2> HIDE DEF sums, bins
    <2>2. QED
        BY <1>3, <2>1, SumNat
<1>7. Max(maxes) \in Nat
    <2>1. [b \in bins |-> spectrum[b].max] \in Surjection(bins, maxes)
        BY DEF Surjection
    <2>2. IsFiniteSet(maxes)
        BY <1>3, <2>1, FS_Surjection
    <2>3. \A m \in maxes : m \in Nat
        BY <1>3, SpectrumAt
    <2>4. maxes # {}
        BY <1>4
    <2> HIDE DEF maxes
    <2>5. Max(maxes) \in maxes
        <3>1. maxes \subseteq Int
            BY <2>3
        <3>2. QED
            BY <2>2, <2>4, <3>1, MaxIs
    <2>6. QED
        BY <2>3, <2>5
<1>8. last + 1 \in 1 .. Bins /\ first + last + 1 \in 0 .. Circle - 1
    BY <1>3, <1>4, BinsAssumption DEF Circle
<1>9. QED
    BY <1>2, <1>3, <1>5, <1>6, <1>7, <1>8 DEF Shapes

\* What Extract returns is a sequence of such clusters.
LEMMA ExtractType ==
    ASSUME NEW spectrum \in Spectrums
    PROVE  Extract(spectrum) \in Seq(Shapes)
<1> DEFINE n == Cardinality(Starts(spectrum))
<1>1. n \in Nat
    BY StartsFinite
<1>2. \A k \in 1 .. n : ClusterFrom(spectrum, NthStart(spectrum, k)) \in Shapes
    BY NthStartIs, ClusterFromType
<1> HIDE DEF n
<1>3. [k \in 1 .. n |-> ClusterFrom(spectrum, NthStart(spectrum, k))] \in [1 .. n -> Shapes]
    BY <1>2
<1>4. [1 .. n -> Shapes] \subseteq Seq(Shapes)
    BY <1>1
<1>5. QED
    BY <1>3, <1>4 DEF Extract, n

-----------------------------------------------------------------------------
(* Merging.                                                                *)

\* The angle of a merged cluster stays in the cycle.
LEMMA WrapPhaseType ==
    ASSUME NEW phase \in Int
    PROVE  WrapPhase(phase) \in 0 .. Circle - 1
BY BinsAssumption DEF WrapPhase, Circle

LEMMA MaxOfTwo ==
    ASSUME NEW a \in Nat, NEW b \in Nat
    PROVE  Max({a, b}) \in Nat
<1>1. IsFiniteSet({a, b})
    <2>1. PICK n \in Nat : n = a + b
        OBVIOUS
    <2>2. {a, b} \in SUBSET Nat /\ \A s \in {a, b} : s <= n
        BY <2>1
    <2>3. QED
        BY <2>2, FS_BoundedSetOfNaturals
<1>2. {a, b} # {} /\ {a, b} \subseteq Int
    OBVIOUS
<1>3. Max({a, b}) \in {a, b}
    BY <1>1, <1>2, MaxIs
<1>4. QED
    BY <1>3

\* Two clusters that have the shape of a row merge into one that has, and that
\* has as many pulses as both.
LEMMA MergeType ==
    ASSUME NEW a \in Shapes, NEW b \in Shapes
    PROVE  /\ Merge(a, b) \in Shapes
           /\ Merge(a, b).count = a.count + b.count
<1>1. PICK lo \in Shapes, hi \in Shapes :
          Merge(a, b) =
              [from |-> lo.from, to |-> hi.to, center |-> WrapPhase(lo.from + hi.to),
               count |-> a.count + b.count, sum |-> a.sum + b.sum, max |-> Max({a.max, b.max})]
    BY DEF Merge
<1>2. lo.from \in 0 .. Bins - 1 /\ hi.to \in 1 .. Bins
    BY DEF Shapes
<1>3. WrapPhase(lo.from + hi.to) \in 0 .. Circle - 1
    <2>1. lo.from + hi.to \in Int
        BY <1>2, BinsAssumption
    <2>2. QED
        BY <2>1, WrapPhaseType
<1>4. a.count + b.count \in Nat \ {0} /\ a.sum + b.sum \in Nat /\ a.max \in Nat /\ b.max \in Nat
    BY DEF Shapes
<1>5. Max({a.max, b.max}) \in Nat
    BY <1>4, MaxOfTwo
<1>6. QED
    BY <1>1, <1>2, <1>3, <1>4, <1>5 DEF Shapes

-----------------------------------------------------------------------------
(* Counting by groups.                                                     *)

\* The members of D that g puts into a group of B.
Grouped(g, D, B) == {i \in D : g[i] \in B}

LEMMA GroupFinite ==
    ASSUME NEW g, NEW D, IsFiniteSet(D), NEW B
    PROVE  IsFiniteSet(Grouped(g, D, B)) /\ Grouped(g, D, B) \subseteq D
<1>1. Grouped(g, D, B) \subseteq D
    BY DEF Grouped
<1>2. QED
    BY <1>1, FS_Subset

LEMMA GroupOut ==
    ASSUME NEW g, NEW D, IsFiniteSet(D), NEW B, NEW c \in B
    PROVE  /\ Grouped(g, D, B) = Grouped(g, D, B \ {c}) \cup Grouped(g, D, {c})
           /\ Grouped(g, D, B \ {c}) \cap Grouped(g, D, {c}) = {}
           /\ IsFiniteSet(Grouped(g, D, B \ {c})) /\ IsFiniteSet(Grouped(g, D, {c}))
           /\ Grouped(g, D, B) \subseteq D
<1>1. Grouped(g, D, B \ {c}) \subseteq D /\ Grouped(g, D, {c}) \subseteq D
    BY DEF Grouped
<1>2. IsFiniteSet(Grouped(g, D, B \ {c})) /\ IsFiniteSet(Grouped(g, D, {c}))
    BY <1>1, FS_Subset
<1>3. QED
    BY <1>2 DEF Grouped

\* The numbers of members of the groups add up.
LEMMA GroupCounts ==
    ASSUME NEW g, NEW D, IsFiniteSet(D), NEW B, IsFiniteSet(B),
           NEW f, \A b \in B : f[b] = Cardinality(Grouped(g, D, {b}))
    PROVE  SumFunctionOnSet(f, B) = Cardinality(Grouped(g, D, B))
<1> DEFINE Sum(s) == SumFunctionOnSet(f, s)
           Bad == {s \in SUBSET B : Sum(s) # Cardinality(Grouped(g, D, s))}
<1> SUFFICES ASSUME Bad # {}
             PROVE  FALSE
    OBVIOUS
<1>1. Bad \subseteq SUBSET B
    OBVIOUS
<1> HIDE DEF Bad
<1>2. PICK s \in Bad : \A t \in Bad : t \subseteq s => t = s
    BY <1>1, LeastSubset
<1> USE DEF Bad
<1>3. IsFiniteSet(s) /\ s \subseteq B
    BY FS_Subset
<1>4. s # {}
    <2>1. Grouped(g, D, {}) = {} /\ Cardinality({}) = 0
        BY FS_EmptySet DEF Grouped
    <2>2. QED
        BY <2>1, SumEmpty
<1>5. PICK c \in s : TRUE
    BY <1>4
<1>6. Sum(s \ {c}) = Cardinality(Grouped(g, D, s \ {c}))
    BY <1>2, <1>5
<1>7. \A b \in B : f[b] \in Int
    <2>1. ASSUME NEW b \in B
          PROVE  f[b] \in Int
        <3>1. Cardinality(Grouped(g, D, {b})) \in Nat
            BY GroupFinite, FS_CardinalityType
        <3>2. f[b] = Cardinality(Grouped(g, D, {b}))
            OBVIOUS
        <3>3. QED
            BY <3>1, <3>2
    <2>2. QED
        BY <2>1
<1>8. Sum(s) = f[c] + Sum(s \ {c})
    BY <1>3, <1>7, SumWithout
<1> DEFINE rest == Grouped(g, D, s \ {c})
           mine == Grouped(g, D, {c})
<1>9. Cardinality(Grouped(g, D, s)) = Cardinality(rest) + Cardinality(mine)
    <2>1. /\ Grouped(g, D, s) = rest \cup mine /\ rest \cap mine = {}
          /\ IsFiniteSet(rest) /\ IsFiniteSet(mine)
        BY GroupOut
    <2> HIDE DEF rest, mine
    <2>2. Cardinality({}) = 0 /\ Cardinality(rest) \in Nat /\ Cardinality(mine) \in Nat
        BY <2>1, FS_EmptySet, FS_CardinalityType
    <2>3. Cardinality(rest \cup mine) =
              Cardinality(rest) + Cardinality(mine) - Cardinality(rest \cap mine)
        BY <2>1, FS_Union
    <2>4. Cardinality(rest \cap mine) = 0
        BY <2>1, <2>2
    <2>5. Cardinality(rest \cup mine) = Cardinality(rest) + Cardinality(mine)
        BY <2>2, <2>3, <2>4
    <2>6. QED
        BY <2>1, <2>5
<1>10. f[c] = Cardinality(mine) /\ f[c] \in Int /\ Cardinality(rest) \in Int
    <2>1. IsFiniteSet(rest)
        BY GroupOut
    <2>2. QED
        BY <1>3, <1>7, <2>1, FS_CardinalityType
<1>11. Sum(s) # Cardinality(Grouped(g, D, s))
    OBVIOUS
<1> HIDE DEF Sum, rest, mine
<1>12. QED
    BY <1>6, <1>8, <1>9, <1>10, <1>11 DEF rest

\* f is the sum of h over each group of B.
SumsOfGroups(f, B, h, g, D) == \A b \in B : f[b] = SumFunctionOnSet(h, Grouped(g, D, {b}))

\* So do sums over the groups.
LEMMA GroupSums ==
    ASSUME NEW g, NEW D, IsFiniteSet(D), NEW B, IsFiniteSet(B),
           NEW h, \A i \in D : h[i] \in Int,
           NEW f, SumsOfGroups(f, B, h, g, D)
    PROVE  SumFunctionOnSet(f, B) = SumFunctionOnSet(h, Grouped(g, D, B))
<1> USE DEF SumsOfGroups
<1> DEFINE Sum(s) == SumFunctionOnSet(f, s)
           Bad == {s \in SUBSET B : Sum(s) # SumFunctionOnSet(h, Grouped(g, D, s))}
<1> SUFFICES ASSUME Bad # {}
             PROVE  FALSE
    OBVIOUS
<1>1. Bad \subseteq SUBSET B
    OBVIOUS
<1> HIDE DEF Bad
<1>2. PICK s \in Bad : \A t \in Bad : t \subseteq s => t = s
    BY <1>1, LeastSubset
<1> USE DEF Bad
<1>3. IsFiniteSet(s) /\ s \subseteq B
    BY FS_Subset
<1>4. s # {}
    <2>1. Grouped(g, D, {}) = {}
        BY DEF Grouped
    <2>2. QED
        BY <2>1, SumEmpty
<1>5. PICK c \in s : TRUE
    BY <1>4
<1>6. Sum(s \ {c}) = SumFunctionOnSet(h, Grouped(g, D, s \ {c}))
    BY <1>2, <1>5
<1>7. \A b \in B : f[b] \in Int
    <2>1. ASSUME NEW b \in B
          PROVE  SumFunctionOnSet(h, Grouped(g, D, {b})) \in Int
        <3>1. IsFiniteSet(Grouped(g, D, {b})) /\ \A i \in Grouped(g, D, {b}) : h[i] \in Int
            BY GroupFinite
        <3>2. QED
            BY <3>1, SumInt
    <2>2. QED
        BY <2>1
<1>8. Sum(s) = f[c] + Sum(s \ {c})
    BY <1>3, <1>7, SumWithout
<1> DEFINE rest == Grouped(g, D, s \ {c})
           mine == Grouped(g, D, {c})
<1>9. /\ SumFunctionOnSet(h, Grouped(g, D, s)) =
             SumFunctionOnSet(h, rest) + SumFunctionOnSet(h, mine)
      /\ SumFunctionOnSet(h, rest) \in Int
    <2>1. /\ Grouped(g, D, s) = rest \cup mine /\ rest \cap mine = {}
          /\ IsFiniteSet(rest) /\ IsFiniteSet(mine)
          /\ rest \cup mine \subseteq D
        BY GroupOut
    <2> HIDE DEF rest, mine
    <2>2. QED
        BY <2>1, SumUnion, SumInt
<1>10. f[c] = SumFunctionOnSet(h, mine) /\ f[c] \in Int
    BY <1>3, <1>7
<1>11. Sum(s) # SumFunctionOnSet(h, Grouped(g, D, s))
    OBVIOUS
<1> HIDE DEF Sum, rest, mine
<1>12. QED
    BY <1>6, <1>8, <1>9, <1>10, <1>11 DEF rest

\* A member that no other exceeds is the greatest.
LEMMA MaxOnly ==
    ASSUME NEW S, \A y \in S : y \in Int, NEW x \in S, \A y \in S : y <= x
    PROVE  Max(S) = x
<1>1. \E m \in S : \A y \in S : m >= y
    OBVIOUS
<1>2. Max(S) \in S /\ \A y \in S : Max(S) >= y
    BY <1>1 DEF Max
<1>3. QED
    BY <1>2

-----------------------------------------------------------------------------
(* The clusters of a list of pulses.                                       *)

\* Pulses have a phase of the cycle and an amplitude.
PulseShapes == [phase : 0 .. Circle - 1, amp : Nat]

PulseLists == Seq(PulseShapes)

\* The bins of pulses, and their amplitudes.
BinsIn(pulses) == [i \in DOMAIN pulses |-> pulses[i].phase \div 2]

AmpsIn(pulses) == [i \in DOMAIN pulses |-> pulses[i].amp]

\* The pulses that lie in a set of bins.
Mine(pulses, bins) == Grouped(BinsIn(pulses), DOMAIN pulses, bins)

LEMMA PulsesAre ==
    ASSUME NEW pulses \in PulseLists
    PROVE  /\ DOMAIN pulses = 1 .. Len(pulses) /\ Len(pulses) \in Nat
           /\ IsFiniteSet(DOMAIN pulses) /\ Cardinality(DOMAIN pulses) = Len(pulses)
           /\ \A i \in DOMAIN pulses :
                 /\ pulses[i].phase \in 0 .. Circle - 1 /\ pulses[i].amp \in Nat
                 /\ BinsIn(pulses)[i] = pulses[i].phase \div 2
                 /\ BinsIn(pulses)[i] \in 0 .. Bins - 1
                 /\ AmpsIn(pulses)[i] = pulses[i].amp
                 /\ WrapPhase(pulses[i].phase) = pulses[i].phase
<1>1. DOMAIN pulses = 1 .. Len(pulses) /\ Len(pulses) \in Nat
    BY DEF PulseLists
<1>2. IsFiniteSet(DOMAIN pulses) /\ Cardinality(DOMAIN pulses) = Len(pulses)
    <2>1. 1 \in Int /\ Len(pulses) \in Int
        BY <1>1
    <2>2. /\ IsFiniteSet(1 .. Len(pulses))
          /\ Cardinality(1 .. Len(pulses)) = IF 1 > Len(pulses) THEN 0 ELSE Len(pulses) - 1 + 1
        BY <2>1, FS_Interval
    <2>3. QED
        BY <1>1, <2>2
<1>3. ASSUME NEW i \in DOMAIN pulses
      PROVE  /\ pulses[i].phase \in 0 .. Circle - 1 /\ pulses[i].amp \in Nat
             /\ BinsIn(pulses)[i] = pulses[i].phase \div 2
             /\ BinsIn(pulses)[i] \in 0 .. Bins - 1
             /\ AmpsIn(pulses)[i] = pulses[i].amp
             /\ WrapPhase(pulses[i].phase) = pulses[i].phase
    <2>1. pulses[i] \in PulseShapes
        BY <1>1 DEF PulseLists
    <2>2. pulses[i].phase \in 0 .. Circle - 1 /\ pulses[i].amp \in Nat
        BY <2>1 DEF PulseShapes
    <2>3. PICK p : p = pulses[i].phase
        OBVIOUS
    <2>4. p \in Nat /\ p <= 2 * Bins - 1 /\ Bins \in Nat
        BY <2>2, <2>3, BinsAssumption DEF Circle
    <2>5. p \div 2 \in 0 .. Bins - 1
        BY <2>4
    <2>6. p % (2 * Bins) = p
        BY <2>4
    <2>7. QED
        BY <2>2, <2>3, <2>5, <2>6 DEF BinsIn, AmpsIn, WrapPhase, Circle
<1>4. QED
    BY <1>1, <1>2, <1>3

LEMMA MineFinite ==
    ASSUME NEW pulses \in PulseLists, NEW bins
    PROVE  IsFiniteSet(Mine(pulses, bins)) /\ Mine(pulses, bins) \subseteq DOMAIN pulses
BY PulsesAre, GroupFinite DEF Mine

\* The greatest amplitude of some pulses, or 0.
Greatest(pulses, S) == Max({0} \cup {pulses[i].amp : i \in S})

LEMMA AmpsMax ==
    ASSUME NEW pulses \in PulseLists, NEW S, S \subseteq DOMAIN pulses
    PROVE  /\ Greatest(pulses, S) \in Nat
           /\ \A i \in S : pulses[i].amp <= Greatest(pulses, S)
           /\ S # {} => /\ \E i \in S : pulses[i].amp = Greatest(pulses, S)
                        /\ Max({pulses[i].amp : i \in S}) = Greatest(pulses, S)
<1> DEFINE amps == {pulses[i].amp : i \in S}
           all == {0} \cup amps
<1>1. \A i \in S : pulses[i].amp \in Nat
    BY PulsesAre
<1>2. IsFiniteSet(amps)
    <2> DEFINE f == [i \in S |-> pulses[i].amp]
    <2>1. f \in Surjection(S, amps)
        BY DEF Surjection
    <2>2. IsFiniteSet(S)
        BY PulsesAre, FS_Subset
    <2> HIDE DEF f, amps
    <2>3. QED
        BY <2>1, <2>2, FS_Surjection
<1>3. IsFiniteSet(all)
    <2>1. all = amps \cup {0}
        OBVIOUS
    <2> HIDE DEF amps, all
    <2>2. QED
        BY <1>2, <2>1, FS_AddElement
<1>4. \A x \in all : x \in Nat
    BY <1>1
<1>5. Max(all) \in all /\ \A x \in all : x <= Max(all)
    <2>1. all # {} /\ \A x \in all : x \in Int
        BY <1>4
    <2> HIDE DEF all
    <2>2. all \subseteq Int
        BY <2>1
    <2>3. QED
        BY <1>3, <2>1, <2>2, MaxIs
<1>6. ASSUME S # {}
      PROVE  Max(all) \in amps
    <2>1. PICK i \in S : TRUE
        BY <1>6
    <2>2. pulses[i].amp \in all /\ pulses[i].amp \in amps /\ pulses[i].amp >= 0
        BY <1>1
    <2> HIDE DEF amps
    <2>3. CASE Max(all) = 0
        <3>1. pulses[i].amp = 0
            <4> HIDE DEF all
            <4>1. pulses[i].amp \in Nat /\ pulses[i].amp <= Max(all)
                BY <1>4, <1>5, <2>2
            <4>2. QED
                BY <2>3, <4>1
        <3>2. QED
            BY <2>2, <2>3, <3>1
    <2>4. CASE Max(all) # 0
        BY <1>5, <2>4
    <2>5. QED
        BY <2>3, <2>4
<1>7. ASSUME S # {}
      PROVE  Max(amps) = Max(all)
    <2>1. amps \subseteq all
        OBVIOUS
    <2> HIDE DEF amps, all
    <2>2. Max(all) \in amps /\ \A x \in amps : x \in Int /\ x <= Max(all)
        BY <1>4, <1>5, <1>6, <1>7, <2>1
    <2>3. QED
        BY <2>2, MaxOnly
<1>8. \A i \in S : pulses[i].amp \in all
    OBVIOUS
<1>9. S # {} => \E i \in S : pulses[i].amp = Max(all)
    BY <1>6
<1>10. Max(all) \in Nat /\ \A i \in S : pulses[i].amp <= Max(all)
    <2> HIDE DEF all
    <2>1. QED
        BY <1>4, <1>5, <1>8
<1>11. QED
    BY <1>7, <1>9, <1>10 DEF Greatest

\* A bin of the spectrum counts and adds up its pulses.
LEMMA SpectrumIs ==
    ASSUME NEW pulses \in PulseLists
    PROVE  /\ BuildPRPD(pulses) \in Spectrums
           /\ \A b \in 0 .. Bins - 1 :
                 /\ BuildPRPD(pulses)[b].count = Cardinality(Mine(pulses, {b}))
                 /\ BuildPRPD(pulses)[b].sum = SumFunctionOnSet(AmpsIn(pulses), Mine(pulses, {b}))
                 /\ BuildPRPD(pulses)[b].max =
                        Greatest(pulses, Mine(pulses, {b}))
<1>1. ASSUME NEW b
      PROVE  {i \in DOMAIN pulses : WrapPhase(pulses[i].phase) \div 2 = b} = Mine(pulses, {b})
    BY PulsesAre DEF Mine, Grouped
<1>2. BuildPRPD(pulses) =
          [b \in 0 .. Bins - 1 |->
              [count |-> Cardinality(Mine(pulses, {b})),
               sum |-> SumFunction([i \in Mine(pulses, {b}) |-> pulses[i].amp]),
               max |-> Greatest(pulses, Mine(pulses, {b}))]]
    BY <1>1, Zenon DEF BuildPRPD, Greatest
<1>3. ASSUME NEW b \in 0 .. Bins - 1
      PROVE  /\ Cardinality(Mine(pulses, {b})) \in Nat
             /\ SumFunction([i \in Mine(pulses, {b}) |-> pulses[i].amp]) =
                    SumFunctionOnSet(AmpsIn(pulses), Mine(pulses, {b}))
             /\ SumFunctionOnSet(AmpsIn(pulses), Mine(pulses, {b})) \in Nat
             /\ Greatest(pulses, Mine(pulses, {b})) \in Nat
    <2> DEFINE S == Mine(pulses, {b})
               f == [i \in S |-> pulses[i].amp]
    <2>1. IsFiniteSet(S) /\ S \subseteq DOMAIN pulses
        BY MineFinite
    <2>2. \A i \in S : f[i] = AmpsIn(pulses)[i] /\ AmpsIn(pulses)[i] \in Nat
        BY <2>1, PulsesAre
    <2>3. SumFunction(f) = SumFunctionOnSet(f, S)
        BY DEF SumFunction
    <2>4. SumFunctionOnSet(f, S) = SumFunctionOnSet(AmpsIn(pulses), S)
          /\ SumFunctionOnSet(AmpsIn(pulses), S) \in Nat
        <3> HIDE DEF f, S
        <3>1. QED
            BY <2>1, <2>2, SumSame, SumNat
    <2>5. Cardinality(S) \in Nat
        BY <2>1, FS_CardinalityType
    <2>6. Greatest(pulses, S) \in Nat
        BY <2>1, AmpsMax
    <2>7. QED
        BY <2>3, <2>4, <2>5, <2>6
<1>4. \A b \in 0 .. Bins - 1 :
          BuildPRPD(pulses)[b] =
              [count |-> Cardinality(Mine(pulses, {b})),
               sum |-> SumFunctionOnSet(AmpsIn(pulses), Mine(pulses, {b})),
               max |-> Greatest(pulses, Mine(pulses, {b}))]
    BY <1>2, <1>3
<1>5. ASSUME NEW b \in 0 .. Bins - 1
      PROVE  /\ BuildPRPD(pulses)[b] \in [count : Nat, sum : Nat, max : Nat]
             /\ BuildPRPD(pulses)[b].count = Cardinality(Mine(pulses, {b}))
             /\ BuildPRPD(pulses)[b].sum = SumFunctionOnSet(AmpsIn(pulses), Mine(pulses, {b}))
             /\ BuildPRPD(pulses)[b].max = Greatest(pulses, Mine(pulses, {b}))
    <2>1. PICK n, sum, max : /\ n = Cardinality(Mine(pulses, {b}))
                             /\ sum = SumFunctionOnSet(AmpsIn(pulses), Mine(pulses, {b}))
                             /\ max = Greatest(pulses, Mine(pulses, {b}))
        OBVIOUS
    <2>2. n \in Nat /\ sum \in Nat /\ max \in Nat
        BY <1>3, <2>1
    <2>3. BuildPRPD(pulses)[b] = [count |-> n, sum |-> sum, max |-> max]
        BY <1>4, <2>1
    <2>4. QED
        BY <2>1, <2>2, <2>3
<1>6. \E f : BuildPRPD(pulses) = [b \in 0 .. Bins - 1 |-> f[b]]
    <2>1. PICK f : f = BuildPRPD(pulses)
        OBVIOUS
    <2>2. f = [b \in 0 .. Bins - 1 |-> f[b]]
        BY <1>2, <2>1
    <2>3. QED
        BY <2>1, <2>2
<1>7. BuildPRPD(pulses) \in Spectrums
    BY <1>5, <1>6 DEF Spectrums
<1>8. QED
    BY <1>5, <1>7

\* Bins are active where pulses are.
LEMMA ActiveIs ==
    ASSUME NEW pulses \in PulseLists, NEW b
    PROVE  b \in Active(BuildPRPD(pulses)) <=> \E i \in DOMAIN pulses : BinsIn(pulses)[i] = b
<1>1. CASE b \in 0 .. Bins - 1
    <2>1. /\ BuildPRPD(pulses)[b].count = Cardinality(Mine(pulses, {b}))
          /\ IsFiniteSet(Mine(pulses, {b}))
        BY <1>1, SpectrumIs, MineFinite
    <2>2. Cardinality(Mine(pulses, {b})) \in Nat
        BY <2>1, FS_CardinalityType
    <2>3. Cardinality(Mine(pulses, {b})) = 0 <=> Mine(pulses, {b}) = {}
        BY <2>1, FS_EmptySet
    <2>4. PICK n \in Nat : n = Cardinality(Mine(pulses, {b}))
        BY <2>2
    <2>5. b \in Active(BuildPRPD(pulses)) <=> n >= 1
        BY <1>1, <2>1, <2>4, Zenon DEF Active, ActiveBins, MinBinCount
    <2>6. b \in Active(BuildPRPD(pulses)) <=> Mine(pulses, {b}) # {}
        BY <2>3, <2>4, <2>5
    <2>7. QED
        BY <2>6 DEF Mine, Grouped
<1>2. CASE b \notin 0 .. Bins - 1
    BY <1>2, PulsesAre DEF Active, ActiveBins
<1>3. QED
    BY <1>1, <1>2

\* The bins of a cluster.
Span(c) == c.from .. c.to - 1

\* c counts and adds up the pulses in its bins.
Gathers(c, pulses) ==
    /\ c \in Shapes
    /\ c.from < c.to
    /\ c.center = c.from + c.to
    /\ c.count = Cardinality(Mine(pulses, Span(c)))
    /\ c.sum = SumFunctionOnSet(AmpsIn(pulses), Mine(pulses, Span(c)))
    /\ c.max = Greatest(pulses, Mine(pulses, Span(c)))

\* Clusters lie one after the other.
Chain(cs) == \A j, k \in DOMAIN cs : j < k => cs[j].to <= cs[k].from

\* Every pulse is in one of the clusters, which gather their pulses.
Covers(cs, pulses) ==
    /\ cs \in Seq(Shapes)
    /\ \A k \in DOMAIN cs : Gathers(cs[k], pulses)
    /\ Chain(cs)
    /\ \A i \in DOMAIN pulses : \E k \in DOMAIN cs : BinsIn(pulses)[i] \in Span(cs[k])

\* The greatest amplitude in some bins is the greatest of their maxima.
LEMMA GreatestOfBins ==
    ASSUME NEW pulses \in PulseLists, NEW bins, bins \subseteq 0 .. Bins - 1,
           Mine(pulses, bins) # {}
    PROVE  Max({BuildPRPD(pulses)[b].max : b \in bins}) = Greatest(pulses, Mine(pulses, bins))
<1> DEFINE maxes == {BuildPRPD(pulses)[b].max : b \in bins}
           top == Greatest(pulses, Mine(pulses, bins))
<1>1. Mine(pulses, bins) \subseteq DOMAIN pulses
    BY MineFinite
<1>2. /\ top \in Nat
      /\ \A i \in Mine(pulses, bins) : pulses[i].amp <= top
      /\ \E i \in Mine(pulses, bins) : pulses[i].amp = top
    BY <1>1, AmpsMax
<1>3. ASSUME NEW b \in bins
      PROVE  /\ BuildPRPD(pulses)[b].max \in Nat
             /\ BuildPRPD(pulses)[b].max <= top
             /\ \A i \in Mine(pulses, {b}) : pulses[i].amp <= BuildPRPD(pulses)[b].max
    <2> DEFINE mine == Mine(pulses, {b})
    <2>1. mine \subseteq DOMAIN pulses /\ mine \subseteq Mine(pulses, bins)
        BY MineFinite DEF Mine, Grouped
    <2>2. BuildPRPD(pulses)[b].max = Greatest(pulses, mine)
        BY SpectrumIs
    <2>3. /\ Greatest(pulses, mine) \in Nat
          /\ \A i \in mine : pulses[i].amp <= Greatest(pulses, mine)
          /\ mine # {} => \E i \in mine : pulses[i].amp = Greatest(pulses, mine)
        BY <2>1, AmpsMax
    <2>4. mine = {} => Greatest(pulses, mine) = 0
        <3>1. SUFFICES ASSUME mine = {}
                       PROVE  Max({0} \cup {pulses[i].amp : i \in {}}) = 0
            BY DEF Greatest
        <3>2. {0} \cup {pulses[i].amp : i \in {}} = {0}
            OBVIOUS
        <3>3. Max({0}) = 0
            BY MaxOnly
        <3>4. QED
            BY <3>2, <3>3
    <2> HIDE DEF mine, top
    <2>5. Greatest(pulses, mine) <= top
        BY <1>2, <2>1, <2>3, <2>4
    <2>6. QED
        BY <2>2, <2>3, <2>5 DEF mine
<1>4. top \in maxes
    <2>1. PICK i \in Mine(pulses, bins) : pulses[i].amp = top
        BY <1>2
    <2>2. PICK b : b = BinsIn(pulses)[i]
        OBVIOUS
    <2>3. b \in bins /\ i \in Mine(pulses, {b})
        BY <2>2 DEF Mine, Grouped
    <2>4. /\ BuildPRPD(pulses)[b].max \in Nat /\ BuildPRPD(pulses)[b].max <= top
          /\ top <= BuildPRPD(pulses)[b].max
        BY <1>3, <2>1, <2>3
    <2>5. BuildPRPD(pulses)[b].max = top
        <3> HIDE DEF top
        <3>1. QED
            BY <1>2, <2>4
    <2>6. QED
        BY <2>3, <2>5
<1>5. ASSUME NEW y \in maxes
      PROVE  y \in Int /\ y <= top
    <2>1. PICK b \in bins : y = BuildPRPD(pulses)[b].max
        OBVIOUS
    <2> HIDE DEF top, maxes
    <2>2. PICK m : m = BuildPRPD(pulses)[b].max
        OBVIOUS
    <2>3. m \in Nat /\ m <= top
        BY <1>3, <2>2, Zenon
    <2>4. QED
        BY <2>1, <2>2, <2>3
<1> HIDE DEF maxes, top
<1>6. Max(maxes) = top
    BY <1>4, <1>5, MaxOnly
<1>7. QED
    BY <1>6 DEF maxes, top

\* So does each cluster that the scan finds.
LEMMA ClusterFromGathers ==
    ASSUME NEW pulses \in PulseLists, NEW first \in Starts(BuildPRPD(pulses))
    PROVE  Gathers(ClusterFrom(BuildPRPD(pulses), first), pulses)
<1> DEFINE spectrum == BuildPRPD(pulses)
<1>1. PICK last : last = Max(RunFrom(spectrum, first))
    OBVIOUS
<1> DEFINE bins == first .. last
           counts == [b \in bins |-> spectrum[b].count]
           sums == [b \in bins |-> spectrum[b].sum]
           c == ClusterFrom(spectrum, first)
<1>2. c = [from |-> first, to |-> last + 1, center |-> first + last + 1,
           count |-> SumFunctionOnSet(counts, bins), sum |-> SumFunctionOnSet(sums, bins),
           max |-> Max({spectrum[b].max : b \in bins})]
    BY <1>1 DEF ClusterFrom, RunFrom, Center, CountIn, SumFunction
<1>3. /\ first \in 0 .. Bins - 1 /\ last \in 0 .. Bins - 1 /\ first <= last
      /\ bins \subseteq 0 .. Bins - 1 /\ IsFiniteSet(bins)
    BY <1>1, RunIs
<1>4. first \in Int /\ last \in Int /\ first \in bins
    BY <1>3, BinsAssumption
<1>5. Span(c) = bins /\ c.from < c.to /\ c.center = c.from + c.to
    <2>1. c.from = first /\ c.to = last + 1 /\ c.center = first + last + 1
        BY <1>2
    <2> HIDE DEF c
    <2>2. last + 1 - 1 = last
        BY <1>4
    <2>3. QED
        BY <1>3, <1>4, <2>1, <2>2 DEF Span
<1>6. c.count = Cardinality(Mine(pulses, bins))
    <2>1. c.count = SumFunctionOnSet(counts, bins)
        BY <1>2
    <2>2. ASSUME NEW b \in bins
          PROVE  counts[b] = Cardinality(Grouped(BinsIn(pulses), DOMAIN pulses, {b}))
        BY <1>3, SpectrumIs DEF Mine
    <2>3. IsFiniteSet(DOMAIN pulses)
        BY PulsesAre
    <2> HIDE DEF counts, c, bins
    <2>4. SumFunctionOnSet(counts, bins) = Cardinality(Grouped(BinsIn(pulses), DOMAIN pulses, bins))
        BY <1>3, <2>2, <2>3, GroupCounts
    <2>5. QED
        BY <2>1, <2>4 DEF Mine
<1>7. c.sum = SumFunctionOnSet(AmpsIn(pulses), Mine(pulses, bins))
    <2>1. c.sum = SumFunctionOnSet(sums, bins)
        BY <1>2
    <2>2. ASSUME NEW b \in bins
          PROVE  sums[b] = SumFunctionOnSet(AmpsIn(pulses),
                                            Grouped(BinsIn(pulses), DOMAIN pulses, {b}))
        BY <1>3, SpectrumIs DEF Mine
    <2>3. IsFiniteSet(DOMAIN pulses) /\ \A i \in DOMAIN pulses : AmpsIn(pulses)[i] \in Int
        BY PulsesAre
    <2> HIDE DEF sums, c, bins, spectrum, counts
    <2>4. SumFunctionOnSet(sums, bins) =
              SumFunctionOnSet(AmpsIn(pulses), Grouped(BinsIn(pulses), DOMAIN pulses, bins))
        <3>1. PICK g, D, h : g = BinsIn(pulses) /\ D = DOMAIN pulses /\ h = AmpsIn(pulses)
            OBVIOUS
        <3>2. IsFiniteSet(D) /\ IsFiniteSet(bins) /\ \A i \in D : h[i] \in Int
            BY <1>3, <2>3, <3>1
        <3>3. SumsOfGroups(sums, bins, h, g, D)
            BY <2>2, <3>1 DEF SumsOfGroups
        <3>4. SumFunctionOnSet(sums, bins) = SumFunctionOnSet(h, Grouped(g, D, bins))
            BY <3>2, <3>3, GroupSums
        <3>5. QED
            BY <3>1, <3>4
    <2>5. QED
        BY <2>1, <2>4 DEF Mine
<1>8. c.max = Greatest(pulses, Mine(pulses, bins))
    <2>1. c.max = Max({spectrum[b].max : b \in bins})
        BY <1>2
    <2>2. first \in Active(spectrum)
        BY StartsFinite
    <2>3. PICK i \in DOMAIN pulses : BinsIn(pulses)[i] = first
        BY <2>2, ActiveIs
    <2>4. i \in Mine(pulses, bins)
        BY <1>4, <2>3 DEF Mine, Grouped
    <2> HIDE DEF c, bins
    <2>5. QED
        BY <1>3, <2>1, <2>4, GreatestOfBins
<1>9. c \in Shapes
    BY SpectrumIs, ClusterFromType
<1> HIDE DEF c, bins
<1>10. Gathers(c, pulses)
    BY <1>5, <1>6, <1>7, <1>8, <1>9 DEF Gathers
<1>11. QED
    BY <1>10 DEF c

\* A set of natural numbers that is not empty has a least one.
LEMMA LeastNat ==
    ASSUME NEW S, S # {}, \A x \in S : x \in Nat
    PROVE  \E m \in S : \A x \in S : m <= x
<1>1. S \subseteq Nat
    OBVIOUS
<1>2. IsWellFoundedOn(OpToRel(<, Nat), Nat)
    BY NatLessThanWellFounded
<1>3. PICK m \in S : \A x \in S : <<x, m>> \notin OpToRel(<, Nat)
    BY <1>1, <1>2, WFMin
<1>4. \A x \in S : ~(x < m)
    BY <1>1, <1>3 DEF OpToRel
<1>5. QED
    BY <1>4

\* The bins that are active, and the starts, are natural numbers.
LEMMA ActiveNat ==
    ASSUME NEW spectrum
    PROVE  /\ \A b \in Active(spectrum) : b \in Nat /\ b <= Bins - 1
           /\ \A s \in Starts(spectrum) : s \in Nat /\ s \in Active(spectrum)
           /\ \A s : s \in Starts(spectrum) <=> /\ s \in Active(spectrum)
                                                /\ s - 1 \notin Active(spectrum)
                                                /\ s - 2 \notin Active(spectrum)
<1>1. \A b \in Active(spectrum) : b \in Nat /\ b <= Bins - 1
    BY StartsFinite, BinsAssumption
<1>2. ASSUME NEW s
      PROVE  s \in Starts(spectrum) <=> /\ s \in Active(spectrum)
                                        /\ s - 1 \notin Active(spectrum)
                                        /\ s - 2 \notin Active(spectrum)
    <2>1. 1 .. GapBins + 1 = {1, 2}
        BY DEF GapBins
    <2>2. QED
        BY <2>1, Zenon DEF Starts
<1>3. QED
    BY <1>1, <1>2

\* The starts in their order.
LEMMA NthStartRises ==
    ASSUME NEW spectrum, NEW j \in 1 .. Cardinality(Starts(spectrum)),
           NEW k \in 1 .. Cardinality(Starts(spectrum)), j < k
    PROVE  NthStart(spectrum, j) < NthStart(spectrum, k)
<1> DEFINE S == Starts(spectrum)
           before(b) == {c \in S : c < b}
<1>1. PICK a \in S, b \in S : /\ a = NthStart(spectrum, j) /\ Cardinality(before(a)) = j - 1
                              /\ b = NthStart(spectrum, k) /\ Cardinality(before(b)) = k - 1
    BY NthStartIs
<1>2. a \in Nat /\ b \in Nat /\ \A c \in S : c \in Nat
    BY ActiveNat
<1>3. SUFFICES ASSUME b <= a
               PROVE  FALSE
    BY <1>1, <1>2
<1>4. before(b) \subseteq before(a) /\ before(a) \subseteq S
    <2>1. \A c \in S : c < b => c < a
        <3> HIDE DEF S
        <3>1. QED
            BY <1>2, <1>3
    <2>2. QED
        BY <2>1
<1>5. IsFiniteSet(before(a))
    BY <1>4, StartsFinite, FS_Subset
<1>6. Cardinality(before(b)) <= Cardinality(before(a))
    <2> HIDE DEF before
    <2>1. QED
        BY <1>4, <1>5, FS_Subset
<1>7. QED
    BY <1>1, <1>6

LEMMA NthStartOnto ==
    ASSUME NEW spectrum, NEW s \in Starts(spectrum)
    PROVE  \E k \in 1 .. Cardinality(Starts(spectrum)) : NthStart(spectrum, k) = s
<1> DEFINE S == Starts(spectrum)
           before(b) == {c \in S : c < b}
           k == Cardinality(before(s)) + 1
<1>1. IsFiniteSet(S) /\ Cardinality(S) \in Nat /\ \A c \in S : c \in Nat
    BY StartsFinite, ActiveNat
<1>2. ASSUME NEW a \in S
      PROVE  IsFiniteSet(before(a)) /\ Cardinality(before(a)) \in Nat
    <2>1. before(a) \subseteq S
        OBVIOUS
    <2>2. QED
        BY <1>1, <2>1, FS_Subset, FS_CardinalityType
\* A start with more starts before it is later.
<1>3. ASSUME NEW a \in S, NEW b \in S, a < b
      PROVE  Cardinality(before(a)) < Cardinality(before(b))
    <2>1. before(a) \cup {a} \subseteq before(b) /\ a \notin before(a)
        BY <1>1, <1>3
    <2>2. Cardinality(before(a) \cup {a}) = Cardinality(before(a)) + 1
        <3> HIDE DEF before
        <3>1. QED
            BY <1>2, <2>1, FS_AddElement
    <2>3. Cardinality(before(a) \cup {a}) <= Cardinality(before(b))
        <3> HIDE DEF before
        <3>1. QED
            BY <1>2, <2>1, FS_Subset
    <2> HIDE DEF before
    <2>4. QED
        BY <1>2, <2>2, <2>3
<1>4. k \in 1 .. Cardinality(S)
    <2>1. before(s) \cup {s} \subseteq S /\ s \notin before(s)
        BY <1>1
    <2>2. Cardinality(before(s) \cup {s}) = k
        <3> HIDE DEF before
        <3>1. QED
            BY <1>2, <2>1, FS_AddElement
    <2>3. k <= Cardinality(S)
        <3> HIDE DEF before, k
        <3>1. QED
            BY <1>1, <2>1, <2>2, FS_Subset
    <2>4. k \in Nat \ {0}
        <3> HIDE DEF before
        <3>1. QED
            BY <1>2
    <2> HIDE DEF k
    <2>5. QED
        BY <1>1, <2>3, <2>4
<1>5. PICK b \in S : b = NthStart(spectrum, k) /\ Cardinality(before(b)) = k - 1
    <2> HIDE DEF k
    <2>1. QED
        BY <1>4, NthStartIs
<1>6. Cardinality(before(b)) = Cardinality(before(s))
    <2> HIDE DEF before
    <2>1. QED
        BY <1>2, <1>5
<1>7. b = s
    <2> HIDE DEF before
    <2>1. ~(b < s) /\ ~(s < b)
        BY <1>2, <1>3, <1>6
    <2>2. QED
        BY <1>1, <2>1
<1>8. QED
    BY <1>4, <1>5, <1>7

\* Every active bin is in the run of a start.
LEMMA RunsCover ==
    ASSUME NEW spectrum, NEW b \in Active(spectrum)
    PROVE  \E s \in Starts(spectrum) : b \in RunFrom(spectrum, s)
<1> DEFINE S == {s \in Starts(spectrum) : s <= b}
<1>1. PICK m \in Active(spectrum) : \A x \in Active(spectrum) : m <= x
    BY ActiveNat, LeastNat
<1>2. m \in S
    BY <1>1, ActiveNat
<1>3. IsFiniteSet(S)
    BY StartsFinite, FS_Subset
<1>4. \A s \in S : s \in Int
    BY ActiveNat
<1>5. PICK s \in S : \A r \in S : s >= r
    <2> HIDE DEF S
    <2>1. QED
        BY <1>2, <1>3, <1>4, GreatestMember
<1>6. \A r \in Starts(spectrum) : r <= s \/ r > b
    BY <1>5, ActiveNat
<1>7. QED
    BY <1>5, <1>6, ActiveNat DEF RunFrom

\* A run ends with an active bin, holds no two others in a row, and the next
\* start is more than the gap behind it.
LEMMA RunEnds ==
    ASSUME NEW spectrum, NEW first \in Starts(spectrum),
           NEW last, last = Max(RunFrom(spectrum, first))
    PROVE  /\ first \in Active(spectrum) /\ last \in Active(spectrum) /\ first <= last
           /\ \A b \in first .. last : b \in Active(spectrum) \/ b + 1 \in Active(spectrum)
           /\ \A s \in Starts(spectrum) : first < s => s - (last + 1) > GapBins
           /\ \A b \in RunFrom(spectrum, first) : b \in first .. last
<1>1. /\ last \in RunFrom(spectrum, first) /\ first <= last
      /\ \A b \in RunFrom(spectrum, first) : b <= last
    BY RunIs
<1>2. /\ last \in Active(spectrum) /\ first \in Active(spectrum) /\ first \in Nat /\ last \in Nat
      /\ \A s \in Starts(spectrum) : s <= first \/ s > last
    BY <1>1, ActiveNat DEF RunFrom
<1>3. ASSUME NEW b \in first .. last, b \notin Active(spectrum), b + 1 \notin Active(spectrum)
      PROVE  FALSE
    <2> DEFINE S == {x \in Active(spectrum) : x > b + 1}
    <2>1. b \in Nat /\ b < last /\ b + 1 # last
        BY <1>2, <1>3
    <2>2. last \in S /\ \A x \in S : x \in Nat
        BY <1>2, <2>1, ActiveNat
    <2>3. PICK c \in S : \A x \in S : c <= x
        <3> HIDE DEF S
        <3>1. QED
            BY <2>2, LeastNat
    <2>4. c \in Active(spectrum) /\ c \in Nat /\ c > b + 1 /\ c <= last
        BY <2>2, <2>3
    <2>5. c - 1 \notin Active(spectrum)
        BY <1>3, <2>1, <2>3, <2>4
    <2>6. c - 2 \notin Active(spectrum)
        BY <1>3, <2>1, <2>3, <2>4
    <2>7. c \in Starts(spectrum)
        BY <2>4, <2>5, <2>6, ActiveNat
    <2>8. QED
        BY <1>2, <1>3, <2>1, <2>4, <2>7
<1>4. ASSUME NEW s \in Starts(spectrum), first < s
      PROVE  s - (last + 1) > GapBins
    <2>1. s \in Nat /\ s > last /\ last # s - 1 /\ last # s - 2
        BY <1>2, <1>4, ActiveNat
    <2>2. QED
        BY <1>2, <2>1 DEF GapBins
<1>5. ASSUME NEW b \in RunFrom(spectrum, first)
      PROVE  b \in first .. last
    <2>1. b >= first /\ b \in Active(spectrum)
        BY DEF RunFrom
    <2>2. QED
        BY <1>1, <1>2, <2>1, ActiveNat
<1>6. QED
    BY <1>1, <1>2, <1>3, <1>4, <1>5

LEMMA ClusterFromEnds ==
    ASSUME NEW spectrum, NEW first
    PROVE  /\ ClusterFrom(spectrum, first).from = first
           /\ ClusterFrom(spectrum, first).to = Max(RunFrom(spectrum, first)) + 1
<1>1. PICK last : last = Max(RunFrom(spectrum, first))
    OBVIOUS
<1>2. \E center, count, sum, max :
          ClusterFrom(spectrum, first) =
              [from |-> first, to |-> last + 1, center |-> center,
               count |-> count, sum |-> sum, max |-> max]
    BY <1>1 DEF ClusterFrom, RunFrom
<1>3. QED
    BY <1>1, <1>2

\* What Extract returns for the spectrum of some pulses takes each of them once.
LEMMA ExtractCovers ==
    ASSUME NEW pulses \in PulseLists
    PROVE  LET spectrum == BuildPRPD(pulses)
               cs == Extract(spectrum)
           IN  /\ Covers(cs, pulses)
               /\ \A k \in DOMAIN cs :
                     /\ cs[k].from \in Active(spectrum) /\ cs[k].to - 1 \in Active(spectrum)
                     /\ \A b \in Span(cs[k]) : b \in Active(spectrum) \/ b + 1 \in Active(spectrum)
               /\ \A j, k \in DOMAIN cs : j < k => cs[k].from - cs[j].to > GapBins
<1> DEFINE spectrum == BuildPRPD(pulses)
           cs == Extract(spectrum)
           n == Cardinality(Starts(spectrum))
           first(k) == NthStart(spectrum, k)
           last(k) == Max(RunFrom(spectrum, first(k)))
<1>1. n \in Nat /\ cs \in Seq(Shapes)
    BY StartsFinite, SpectrumIs, ExtractType
<1>2. DOMAIN cs = 1 .. n /\ \A k \in 1 .. n : cs[k] = ClusterFrom(spectrum, first(k))
    BY DEF Extract
<1>3. ASSUME NEW k \in 1 .. n
      PROVE  /\ first(k) \in Starts(spectrum)
             /\ cs[k].from = first(k) /\ cs[k].to = last(k) + 1
             /\ first(k) \in Nat /\ last(k) \in Nat
             /\ Span(cs[k]) = first(k) .. last(k)
    <2>1. first(k) \in Starts(spectrum)
        BY NthStartIs
    <2>2. cs[k].from = first(k) /\ cs[k].to = last(k) + 1
        BY <1>2, ClusterFromEnds
    <2>3. first(k) \in Active(spectrum) /\ last(k) \in Active(spectrum)
        BY <2>1, RunEnds
    <2>4. first(k) \in Nat /\ last(k) \in Nat
        BY <2>3, ActiveNat
    <2>5. Span(cs[k]) = first(k) .. last(k)
        <3> HIDE DEF cs, first, last
        <3>1. PICK f, l, c : f \in Nat /\ l \in Nat /\ f = first(k) /\ l = last(k) /\ c = cs[k]
            BY <2>4
        <3>2. Span(c) = c.from .. c.to - 1 /\ c.from = f /\ c.to = l + 1
            BY <2>2, <3>1 DEF Span
        <3>3. c.to - 1 = l
            BY <3>1, <3>2
        <3>4. QED
            BY <3>1, <3>2, <3>3
    <2>6. QED
        BY <2>1, <2>2, <2>4, <2>5
<1>4. ASSUME NEW k \in 1 .. n
      PROVE  /\ cs[k].from \in Active(spectrum) /\ cs[k].to - 1 \in Active(spectrum)
             /\ \A b \in Span(cs[k]) : b \in Active(spectrum) \/ b + 1 \in Active(spectrum)
    <2>1. /\ first(k) \in Active(spectrum) /\ last(k) \in Active(spectrum)
          /\ \A b \in first(k) .. last(k) : b \in Active(spectrum) \/ b + 1 \in Active(spectrum)
        BY <1>3, RunEnds
    <2> HIDE DEF cs, first, last
    <2>2. last(k) + 1 - 1 = last(k)
        BY <1>3
    <2>3. QED
        BY <1>3, <2>1, <2>2
<1>5. ASSUME NEW j \in 1 .. n, NEW k \in 1 .. n, j < k
      PROVE  cs[k].from - cs[j].to > GapBins
    <2>1. first(j) < first(k)
        BY <1>5, NthStartRises
    <2>2. first(k) - (last(j) + 1) > GapBins
        BY <1>3, <2>1, RunEnds
    <2> HIDE DEF cs, first, last
    <2>3. QED
        BY <1>3, <2>2
<1>6. Chain(cs)
    <2>1. ASSUME NEW j \in 1 .. n, NEW k \in 1 .. n, j < k
          PROVE  cs[j].to <= cs[k].from
        <3>1. /\ cs[k].from = first(k) /\ cs[j].to = last(j) + 1
              /\ first(k) \in Nat /\ last(j) \in Nat
            BY <1>3
        <3>2. cs[k].from - cs[j].to > GapBins
            BY <1>5, <2>1
        <3> HIDE DEF cs, first, last
        <3>3. QED
            BY <3>1, <3>2 DEF GapBins
    <2>2. QED
        BY <1>2, <2>1 DEF Chain
<1>7. ASSUME NEW k \in 1 .. n
      PROVE  Gathers(cs[k], pulses)
    <2>1. cs[k] = ClusterFrom(spectrum, first(k)) /\ first(k) \in Starts(spectrum)
        BY <1>2, <1>3
    <2>2. QED
        BY <2>1, ClusterFromGathers
<1>8. ASSUME NEW i \in DOMAIN pulses
      PROVE  \E k \in 1 .. n : BinsIn(pulses)[i] \in Span(cs[k])
    <2>1. BinsIn(pulses)[i] \in Active(spectrum)
        BY ActiveIs
    <2>2. PICK s \in Starts(spectrum) : BinsIn(pulses)[i] \in RunFrom(spectrum, s)
        BY <2>1, RunsCover
    <2>3. PICK k \in 1 .. n : first(k) = s
        BY NthStartOnto
    <2>4. BinsIn(pulses)[i] \in first(k) .. last(k)
        BY <2>2, <2>3, RunEnds
    <2> HIDE DEF cs, first, last, n
    <2>5. QED
        BY <1>3, <2>4
<1>9. Covers(cs, pulses)
    <2> HIDE DEF cs
    <2>1. QED
        BY <1>1, <1>2, <1>6, <1>7, <1>8 DEF Covers
<1> HIDE DEF cs, spectrum, n
<1>10. QED
    BY <1>2, <1>4, <1>5, <1>9 DEF cs, spectrum

\* A pulse is in one cluster only.
LEMMA CoversOnce ==
    ASSUME NEW pulses \in PulseLists, NEW cs, Covers(cs, pulses),
           NEW j \in DOMAIN cs, NEW k \in DOMAIN cs,
           NEW b \in Span(cs[j]), b \in Span(cs[k])
    PROVE  j = k
<1>1. DOMAIN cs = 1 .. Len(cs) /\ Len(cs) \in Nat
    BY DEF Covers
<1>2. \A l \in DOMAIN cs : cs[l].from \in Int /\ cs[l].to \in Int
    <2>1. ASSUME NEW l \in DOMAIN cs
          PROVE  cs[l].from \in Int /\ cs[l].to \in Int
        <3>1. cs[l] \in Shapes
            BY DEF Covers, Gathers
        <3>2. QED
            BY <3>1, BinsAssumption DEF Shapes
    <2>2. QED
        BY <2>1
<1>3. b \in Int /\ cs[j].from <= b /\ b < cs[j].to /\ cs[k].from <= b /\ b < cs[k].to
    BY <1>2 DEF Span
<1>4. ASSUME NEW l \in DOMAIN cs, NEW m \in DOMAIN cs, l < m
      PROVE  cs[l].to <= cs[m].from
    BY <1>4 DEF Covers, Chain
<1>5. ~(j < k) /\ ~(k < j)
    BY <1>2, <1>3, <1>4
<1>6. QED
    BY <1>1, <1>5

\* The counts of some of the clusters add up to the pulses that are in them.
LEMMA CoversCount ==
    ASSUME NEW pulses \in PulseLists, NEW cs, Covers(cs, pulses),
           NEW P, P \subseteq DOMAIN cs
    PROVE  /\ SumFunction([k \in P |-> cs[k].count]) =
                  Cardinality({i \in DOMAIN pulses :
                                  \E k \in P : BinsIn(pulses)[i] \in Span(cs[k])})
           /\ P = DOMAIN cs => SumFunction([k \in P |-> cs[k].count]) = Len(pulses)
<1> DEFINE D == DOMAIN pulses
           place == [i \in D |-> CHOOSE k \in DOMAIN cs : BinsIn(pulses)[i] \in Span(cs[k])]
           counts == [k \in P |-> cs[k].count]
           mine == {i \in D : \E k \in P : BinsIn(pulses)[i] \in Span(cs[k])}
<1>1. ASSUME NEW i \in D
      PROVE  /\ place[i] \in DOMAIN cs /\ BinsIn(pulses)[i] \in Span(cs[place[i]])
             /\ \A k \in DOMAIN cs : BinsIn(pulses)[i] \in Span(cs[k]) <=> place[i] = k
    <2>1. \E k \in DOMAIN cs : BinsIn(pulses)[i] \in Span(cs[k])
        BY DEF Covers
    <2>2. place[i] \in DOMAIN cs /\ BinsIn(pulses)[i] \in Span(cs[place[i]])
        BY <2>1
    <2> HIDE DEF place
    <2>3. QED
        BY <2>2, CoversOnce
<1> HIDE DEF place
<1>2. IsFiniteSet(P)
    <2>1. DOMAIN cs = 1 .. Len(cs) /\ Len(cs) \in Int /\ 1 \in Int
        BY DEF Covers
    <2>2. QED
        BY <2>1, FS_Interval, FS_Subset
<1>3. ASSUME NEW k \in P
      PROVE  counts[k] = Cardinality(Grouped(place, D, {k}))
    <2>1. Grouped(place, D, {k}) = Mine(pulses, Span(cs[k]))
        BY <1>1 DEF Mine, Grouped
    <2>2. cs[k].count = Cardinality(Mine(pulses, Span(cs[k])))
        BY DEF Covers, Gathers
    <2>3. QED
        BY <2>1, <2>2
<1>4. IsFiniteSet(D) /\ Cardinality(D) = Len(pulses)
    BY PulsesAre
<1>5. SumFunctionOnSet(counts, P) = Cardinality(Grouped(place, D, P))
    <2> HIDE DEF counts, D
    <2>1. QED
        BY <1>2, <1>3, <1>4, GroupCounts
<1>6. SumFunction(counts) = SumFunctionOnSet(counts, P)
    BY DEF SumFunction
<1>7. Grouped(place, D, P) = mine
    BY <1>1 DEF Grouped
<1>8. P = DOMAIN cs => mine = D
    BY <1>1
<1>9. QED
    BY <1>4, <1>5, <1>6, <1>7, <1>8

\* The greatest amplitude is that of a cluster.
LEMMA CoversMax ==
    ASSUME NEW pulses \in PulseLists, NEW cs, Covers(cs, pulses)
    PROVE  /\ cs = << >> <=> pulses = << >>
           /\ \A i \in DOMAIN pulses : \E k \in DOMAIN cs : pulses[i].amp <= cs[k].max
           /\ \A k \in DOMAIN cs :
                 cs[k].max \in Nat /\ \E i \in DOMAIN pulses : pulses[i].amp = cs[k].max
<1>1. ASSUME NEW k \in DOMAIN cs
      PROVE  /\ Mine(pulses, Span(cs[k])) # {}
             /\ cs[k].max = Greatest(pulses, Mine(pulses, Span(cs[k])))
    <2>1. /\ cs[k].count \in Nat \ {0}
          /\ cs[k].count = Cardinality(Mine(pulses, Span(cs[k])))
          /\ cs[k].max = Greatest(pulses, Mine(pulses, Span(cs[k])))
        BY DEF Covers, Gathers, Shapes
    <2>2. Mine(pulses, Span(cs[k])) # {}
        BY <2>1, FS_EmptySet
    <2>3. QED
        BY <2>1, <2>2
<1>2. ASSUME NEW k \in DOMAIN cs
      PROVE  cs[k].max \in Nat /\ \E i \in DOMAIN pulses : pulses[i].amp = cs[k].max
    BY <1>1, MineFinite, AmpsMax
<1>3. ASSUME NEW i \in DOMAIN pulses
      PROVE  \E k \in DOMAIN cs : pulses[i].amp <= cs[k].max
    <2>1. PICK k \in DOMAIN cs : BinsIn(pulses)[i] \in Span(cs[k])
        BY DEF Covers
    <2>2. i \in Mine(pulses, Span(cs[k]))
        BY <2>1 DEF Mine, Grouped
    <2>3. QED
        BY <1>1, <2>2, MineFinite, AmpsMax
<1>4. cs = << >> <=> DOMAIN cs = {}
    BY DEF Covers
<1>5. pulses = << >> <=> DOMAIN pulses = {}
    BY DEF PulseLists
<1>6. QED
    BY <1>2, <1>3, <1>4, <1>5

-----------------------------------------------------------------------------
(* Recursion and induction over an interval.                               *)

\* What holds at lo and from each number to the next holds up to hi.
LEMMA Ascend ==
    ASSUME NEW lo \in Int, NEW hi \in Int, NEW P,
           lo \in P, \A k \in lo .. hi - 1 : k \in P => k + 1 \in P
    PROVE  \A k \in lo .. hi : k \in P
<1> DEFINE S == {d \in Nat : lo + d <= hi /\ lo + d \notin P}
<1>1. S = {}
    <2>1. SUFFICES ASSUME S # {}
                   PROVE  FALSE
        OBVIOUS
    <2>2. PICK m \in S : \A x \in S : m <= x
        <3>1. \A x \in S : x \in Nat
            OBVIOUS
        <3> HIDE DEF S
        <3>2. QED
            BY <2>1, <3>1, LeastNat
    <2>3. m \in Nat /\ lo + m <= hi /\ lo + m \notin P
        OBVIOUS
    <2>4. m # 0
        BY <2>3
    <2>5. m - 1 \in Nat /\ m - 1 \notin S
        BY <2>2, <2>3, <2>4
    <2>6. lo + (m - 1) \in P
        BY <2>3, <2>5
    <2>7. lo + (m - 1) \in lo .. hi - 1 /\ (lo + (m - 1)) + 1 = lo + m
        BY <2>3, <2>5
    <2>8. QED
        BY <2>3, <2>6, <2>7
<1>2. ASSUME NEW k \in lo .. hi
      PROVE  k \in P
    <2>1. k - lo \in Nat /\ lo + (k - lo) = k /\ k <= hi
        OBVIOUS
    <2>2. k - lo \notin S
        BY <1>1
    <2>3. QED
        BY <2>1, <2>2
<1>3. QED
    BY <1>2

\* The values of a recursion with steps in F that starts at lo with a.
Recursion(f, lo, hi, a, F) ==
    f = [k \in lo .. hi |-> IF k = lo THEN a ELSE F[<<f[k - 1], k>>]]

\* A recursion whose steps stay in a set has values, and they are in that set.
LEMMA RecursionExists ==
    ASSUME NEW lo \in Int, NEW hi \in Int, lo <= hi, NEW V, NEW a \in V,
           NEW F, \A v \in V, k \in lo + 1 .. hi : F[<<v, k>>] \in V
    PROVE  \E f \in [lo .. hi -> V] : Recursion(f, lo, hi, a, F)
<1> DEFINE P == {m \in lo .. hi : \E f \in [lo .. m -> V] : Recursion(f, lo, m, a, F)}
<1>1. lo \in P
    <2> DEFINE f == [k \in lo .. lo |-> a]
    <2>1. f \in [lo .. lo -> V] /\ \A k \in lo .. lo : k = lo
        OBVIOUS
    <2>2. Recursion(f, lo, lo, a, F)
        BY <2>1 DEF Recursion
    <2>3. QED
        BY <2>1, <2>2
<1>2. ASSUME NEW m \in lo .. hi - 1, m \in P
      PROVE  m + 1 \in P
    <2>1. PICK f \in [lo .. m -> V] : Recursion(f, lo, m, a, F)
        BY <1>2
    <2> DEFINE g == [k \in lo .. m + 1 |-> IF k = m + 1 THEN F[<<f[m], m + 1>>] ELSE f[k]]
    <2>2. m \in lo .. m /\ m + 1 \in lo + 1 .. hi /\ m + 1 # lo /\ m + 1 - 1 = m
        OBVIOUS
    <2>3. F[<<f[m], m + 1>>] \in V
        BY <2>1, <2>2
    <2>4. \A k \in lo .. m + 1 : k # m + 1 => k \in lo .. m
        OBVIOUS
    <2>5. g \in [lo .. m + 1 -> V]
        BY <2>1, <2>3, <2>4
    <2>6. ASSUME NEW k \in lo .. m + 1
          PROVE  g[k] = IF k = lo THEN a ELSE F[<<g[k - 1], k>>]
        <3>1. CASE k = m + 1
            <4>1. g[k - 1] = f[m] /\ g[k] = F[<<f[m], m + 1>>] /\ k # lo
                BY <2>2, <3>1
            <4>2. QED
                BY <3>1, <4>1
        <3>2. CASE k # m + 1
            <4>1. k \in lo .. m /\ g[k] = f[k]
                BY <2>4, <3>2
            <4>2. f[k] = IF k = lo THEN a ELSE F[<<f[k - 1], k>>]
                BY <2>1, <4>1 DEF Recursion
            <4>3. k # lo => k - 1 \in lo .. m + 1 /\ k - 1 # m + 1
                BY <4>1
            <4>4. k # lo => g[k - 1] = f[k - 1]
                BY <4>3
            <4> HIDE DEF g
            <4>5. QED
                BY <4>1, <4>2, <4>4
        <3>3. QED
            BY <3>1, <3>2
    <2>7. g = [k \in lo .. m + 1 |-> IF k = lo THEN a ELSE F[<<g[k - 1], k>>]]
        <3> HIDE DEF g
        <3>1. QED
            BY <2>5, <2>6
    <2>8. m + 1 \in lo .. hi
        OBVIOUS
    <2> HIDE DEF g
    <2>9. QED
        BY <2>5, <2>7, <2>8 DEF Recursion
<1> HIDE DEF P
<1>3. \A k \in lo .. hi : k \in P
    BY <1>1, <1>2, Ascend
<1>4. hi \in P
    BY <1>3
<1>5. QED
    BY <1>4 DEF P

-----------------------------------------------------------------------------
(* Merging of clusters.                                                    *)

LEMMA GreatestUnion ==
    ASSUME NEW pulses \in PulseLists, NEW S, S \subseteq DOMAIN pulses, S # {},
           NEW T, T \subseteq DOMAIN pulses, T # {}
    PROVE  Max({Greatest(pulses, S), Greatest(pulses, T)}) = Greatest(pulses, S \cup T)
<1>1. PICK s \in Nat, t \in Nat, g \in Nat :
          s = Greatest(pulses, S) /\ t = Greatest(pulses, T) /\ g = Greatest(pulses, S \cup T)
    <2>1. S \cup T \subseteq DOMAIN pulses
        OBVIOUS
    <2>2. QED
        BY <2>1, AmpsMax
<1>2. /\ \A i \in S : pulses[i].amp <= s
      /\ \A i \in T : pulses[i].amp <= t
      /\ \E i \in S : pulses[i].amp = s
      /\ \E i \in T : pulses[i].amp = t
    BY <1>1, AmpsMax
<1>3. /\ \A i \in S \cup T : pulses[i].amp <= g
      /\ \E i \in S \cup T : pulses[i].amp = g
    <2>1. S \cup T \subseteq DOMAIN pulses /\ S \cup T # {}
        OBVIOUS
    <2>2. QED
        BY <1>1, <2>1, AmpsMax
<1>4. s <= g /\ t <= g /\ (g = s \/ g = t)
    BY <1>2, <1>3
<1>5. g \in {s, t} /\ \A y \in {s, t} : y \in Int /\ y <= g
    BY <1>4
<1>6. Max({s, t}) = g
    BY <1>5, MaxOnly
<1>7. QED
    BY <1>1, <1>6

\* Neighbours with no pulse between them merge into the cluster of the pulses
\* of both.
LEMMA MergeGathers ==
    ASSUME NEW pulses \in PulseLists,
           NEW a, Gathers(a, pulses), NEW b, Gathers(b, pulses), a.to <= b.from,
           \A i \in DOMAIN pulses : BinsIn(pulses)[i] < a.to \/ BinsIn(pulses)[i] >= b.from
    PROVE  /\ Gathers(Merge(a, b), pulses)
           /\ Merge(a, b).from = a.from /\ Merge(a, b).to = b.to
<1>1. /\ a \in Shapes /\ b \in Shapes /\ Bins \in Nat
      /\ a.from \in Nat /\ a.to \in Nat /\ b.from \in Nat /\ b.to \in Nat
      /\ a.from <= Bins - 1 /\ b.to <= Bins
      /\ a.center = a.from + a.to /\ b.center = b.from + b.to
      /\ a.from < a.to /\ b.from < b.to
    BY BinsAssumption DEF Gathers, Shapes
<1>2. ~(b.center < a.center)
    BY <1>1
<1>3. Merge(a, b) =
          [from |-> a.from, to |-> b.to, center |-> WrapPhase(a.from + b.to),
           count |-> a.count + b.count, sum |-> a.sum + b.sum, max |-> Max({a.max, b.max})]
    BY <1>2 DEF Merge
<1>4. WrapPhase(a.from + b.to) = a.from + b.to
    <2>1. PICK p : p = a.from + b.to
        OBVIOUS
    <2>2. p \in Nat /\ p <= 2 * Bins - 1
        BY <1>1, <2>1
    <2>3. p % (2 * Bins) = p
        BY <1>1, <2>2
    <2>4. QED
        BY <2>1, <2>3 DEF WrapPhase, Circle
<1> DEFINE c == Merge(a, b)
           A == Mine(pulses, Span(a))
           B == Mine(pulses, Span(b))
<1>5. c.from = a.from /\ c.to = b.to /\ c.center = c.from + c.to /\ c \in Shapes
      /\ c.count = a.count + b.count /\ c.sum = a.sum + b.sum /\ c.max = Max({a.max, b.max})
    BY <1>1, <1>3, <1>4, MergeType
<1>6. /\ a.count = Cardinality(A) /\ b.count = Cardinality(B)
      /\ a.sum = SumFunctionOnSet(AmpsIn(pulses), A)
      /\ b.sum = SumFunctionOnSet(AmpsIn(pulses), B)
      /\ a.max = Greatest(pulses, A) /\ b.max = Greatest(pulses, B)
      /\ a.count \in Nat \ {0} /\ b.count \in Nat \ {0}
    BY <1>1 DEF Gathers, Shapes
<1>7. /\ IsFiniteSet(A) /\ IsFiniteSet(B) /\ A \subseteq DOMAIN pulses /\ B \subseteq DOMAIN pulses
      /\ A # {} /\ B # {}
    <2>1. /\ IsFiniteSet(A) /\ IsFiniteSet(B)
          /\ A \subseteq DOMAIN pulses /\ B \subseteq DOMAIN pulses
        BY MineFinite
    <2> HIDE DEF A, B
    <2>2. QED
        BY <1>6, <2>1, FS_EmptySet
<1>8. Mine(pulses, Span(c)) = A \cup B /\ A \cap B = {}
    <2> HIDE DEF c
    <2>1. ASSUME NEW i \in DOMAIN pulses
          PROVE  /\ BinsIn(pulses)[i] \in Span(c) <=>
                        BinsIn(pulses)[i] \in Span(a) \/ BinsIn(pulses)[i] \in Span(b)
                 /\ ~(BinsIn(pulses)[i] \in Span(a) /\ BinsIn(pulses)[i] \in Span(b))
        <3>1. PICK bin \in Nat : bin = BinsIn(pulses)[i]
            BY PulsesAre, BinsAssumption
        <3>2. bin < a.to \/ bin >= b.from
            BY <3>1
        <3>3. /\ bin \in Span(a) <=> a.from <= bin /\ bin < a.to
              /\ bin \in Span(b) <=> b.from <= bin /\ bin < b.to
              /\ bin \in Span(c) <=> a.from <= bin /\ bin < b.to
            BY <1>1, <1>5 DEF Span
        <3>4. QED
            BY <1>1, <3>1, <3>2, <3>3
    <2>2. QED
        BY <2>1 DEF Mine, Grouped
<1> HIDE DEF c, A, B
<1>9. Cardinality(A \cup B) = Cardinality(A) + Cardinality(B)
    <2>1. Cardinality(A \cup B) = Cardinality(A) + Cardinality(B) - Cardinality(A \cap B)
        BY <1>7, FS_Union
    <2>2. Cardinality(A \cap B) = 0 /\ Cardinality(A) \in Nat /\ Cardinality(B) \in Nat
        BY <1>7, <1>8, FS_EmptySet, FS_CardinalityType
    <2>3. QED
        BY <2>1, <2>2
<1>10. SumFunctionOnSet(AmpsIn(pulses), A \cup B) =
           SumFunctionOnSet(AmpsIn(pulses), A) + SumFunctionOnSet(AmpsIn(pulses), B)
    <2>1. \A i \in A \cup B : AmpsIn(pulses)[i] \in Int
        BY <1>7, PulsesAre
    <2>2. QED
        BY <1>7, <1>8, <2>1, SumUnion
<1>11. Max({a.max, b.max}) = Greatest(pulses, A \cup B)
    BY <1>6, <1>7, GreatestUnion
<1>12. c.from < c.to
    BY <1>1, <1>5
<1>13. Gathers(c, pulses)
    BY <1>5, <1>6, <1>8, <1>9, <1>10, <1>11, <1>12 DEF Gathers
<1>14. QED
    BY <1>5, <1>13 DEF c

\* A list that is sorted already is left as it is.
LEMMA SortRoundKeeps ==
    ASSUME NEW s, NEW field, Len(s) \in Nat,
           \A i, j \in 1 .. Len(s) : i < j => ~(s[j][field] < s[i][field]),
           NEW i \in 1 .. Len(s)
    PROVE  SortRound(s, i, field) = s
<1> DEFINE n == Len(s)
           IsRound(t) == t = [j \in i .. n |-> IF j = i THEN s ELSE Exchange(t[j - 1], i, j, field)]
           t == CHOOSE t : IsRound(t)
           P == {j \in i .. n : t[j] = s}
<1>1. i \in Int /\ n \in Int /\ i <= n
    OBVIOUS
<1>2. \A j \in i + 1 .. n : Exchange(s, i, j, field) = s
    <2>1. \A j \in i + 1 .. n : i < j /\ j \in 1 .. n
        BY <1>1
    <2>2. QED
        BY <2>1 DEF Exchange
<1>3. IsRound([j \in i .. n |-> s])
    <2> DEFINE u == [j \in i .. n |-> s]
    <2>1. ASSUME NEW j \in i .. n
          PROVE  s = IF j = i THEN s ELSE Exchange(u[j - 1], i, j, field)
        <3>1. CASE j = i
            BY <3>1
        <3>2. CASE j # i
            <4>1. j \in i + 1 .. n /\ j - 1 \in i .. n
                BY <1>1, <3>2
            <4>2. u[j - 1] = s
                BY <4>1
            <4> HIDE DEF u
            <4>3. QED
                BY <1>2, <3>2, <4>1, <4>2
        <3>3. QED
            BY <3>1, <3>2
    <2>2. u = [j \in i .. n |-> IF j = i THEN s ELSE Exchange(u[j - 1], i, j, field)]
        BY <2>1, Zenon
    <2>3. QED
        BY <2>2
<1>4. IsRound(t)
    <2> HIDE DEF IsRound
    <2>1. QED
        BY <1>3
<1>5. SortRound(s, i, field) = t[n]
    BY DEF SortRound
<1> HIDE DEF t
<1>6. \A j \in i .. n : t[j] = IF j = i THEN s ELSE Exchange(t[j - 1], i, j, field)
    BY <1>4, Zenon
<1>7. i \in P
    BY <1>1, <1>6
<1>8. ASSUME NEW j \in i .. n - 1, j \in P
      PROVE  j + 1 \in P
    <2>1. j + 1 \in i + 1 .. n /\ j + 1 \in i .. n /\ j + 1 # i /\ j + 1 - 1 = j
        BY <1>1
    <2>2. t[j + 1] = Exchange(t[j], i, j + 1, field)
        BY <1>6, <2>1
    <2>3. QED
        BY <1>2, <1>8, <2>1, <2>2
<1> HIDE DEF P
<1>9. \A j \in i .. n : j \in P
    BY <1>1, <1>7, <1>8, Ascend
<1>10. QED
    BY <1>1, <1>5, <1>9 DEF P

LEMMA SortKeeps ==
    ASSUME NEW s, NEW field, Len(s) \in Nat,
           \A i, j \in 1 .. Len(s) : i < j => ~(s[j][field] < s[i][field])
    PROVE  ExchangeSort(s, field) = s
<1> DEFINE n == Len(s)
           IsSort(t) == t = [i \in 0 .. n |-> IF i = 0 THEN s ELSE SortRound(t[i - 1], i, field)]
           t == CHOOSE t : IsSort(t)
           P == {i \in 0 .. n : t[i] = s}
<1>1. 0 \in Int /\ n \in Nat /\ n \in Int
    OBVIOUS
<1>2. \A i \in 1 .. n : SortRound(s, i, field) = s
    BY SortRoundKeeps
<1>3. IsSort([i \in 0 .. n |-> s])
    <2> DEFINE u == [i \in 0 .. n |-> s]
    <2>1. ASSUME NEW i \in 0 .. n
          PROVE  s = IF i = 0 THEN s ELSE SortRound(u[i - 1], i, field)
        <3>1. CASE i = 0
            BY <3>1
        <3>2. CASE i # 0
            <4>1. i \in 1 .. n /\ i - 1 \in 0 .. n
                BY <1>1, <3>2
            <4>2. u[i - 1] = s
                BY <4>1
            <4> HIDE DEF u
            <4>3. QED
                BY <1>2, <3>2, <4>1, <4>2
        <3>3. QED
            BY <3>1, <3>2
    <2>2. u = [i \in 0 .. n |-> IF i = 0 THEN s ELSE SortRound(u[i - 1], i, field)]
        BY <2>1, Zenon
    <2>3. QED
        BY <2>2
<1>4. IsSort(t)
    <2> HIDE DEF IsSort
    <2>1. QED
        BY <1>3
<1>5. ExchangeSort(s, field) = t[n]
    BY DEF ExchangeSort
<1> HIDE DEF t
<1>6. \A i \in 0 .. n : t[i] = IF i = 0 THEN s ELSE SortRound(t[i - 1], i, field)
    BY <1>4, Zenon
<1>7. 0 \in P
    BY <1>1, <1>6
<1>8. ASSUME NEW i \in 0 .. n - 1, i \in P
      PROVE  i + 1 \in P
    <2>1. i + 1 \in 1 .. n /\ i + 1 \in 0 .. n /\ i + 1 # 0 /\ i + 1 - 1 = i
        BY <1>1
    <2>2. t[i + 1] = SortRound(t[i], i + 1, field)
        BY <1>6, <2>1
    <2>3. QED
        BY <1>2, <1>8, <2>1, <2>2
<1> HIDE DEF P
<1>9. \A i \in 0 .. n : i \in P
    BY <1>1, <1>7, <1>8, Ascend
<1>10. QED
    BY <1>1, <1>5, <1>9 DEF P

\* Clusters that lie one after the other are sorted by their centres.
LEMMA CoversSorted ==
    ASSUME NEW pulses \in PulseLists, NEW cs, Covers(cs, pulses)
    PROVE  ExchangeSort(cs, "center") = cs
<1>1. ASSUME NEW k \in 1 .. Len(cs)
      PROVE  /\ cs[k].from \in Int /\ cs[k].to \in Int /\ cs[k].from < cs[k].to
             /\ cs[k].center = cs[k].from + cs[k].to
    BY BinsAssumption DEF Covers, Gathers, Shapes
<1>2. Len(cs) \in Nat /\ DOMAIN cs = 1 .. Len(cs)
    BY DEF Covers
<1>3. ASSUME NEW i \in 1 .. Len(cs), NEW j \in 1 .. Len(cs), i < j
      PROVE  ~(cs[j]["center"] < cs[i]["center"])
    <2>1. cs[i].to <= cs[j].from
        BY <1>2, <1>3 DEF Covers, Chain
    <2>2. ~(cs[j].center < cs[i].center)
        BY <1>1, <2>1
    <2>3. QED
        BY <2>2
<1>4. QED
    BY <1>2, <1>3, SortKeeps

\* In the middle of a pass over cs: the clusters that are out are those before
\* i, merged or as they were.
Passing(pass, cs, pulses, maxGap, percent) ==
    /\ pass \in [i : 1 .. Len(cs) + 1, out : Seq(Shapes)]
    /\ \A l \in DOMAIN pass.out :
          /\ Gathers(pass.out[l], pulses)
          /\ pass.i > 1 /\ pass.out[l].to <= cs[pass.i - 1].to
    /\ Chain(pass.out)
    /\ \A n \in DOMAIN pulses, k \in 1 .. pass.i - 1 :
          BinsIn(pulses)[n] \in Span(cs[k]) =>
              \E l \in DOMAIN pass.out : BinsIn(pulses)[n] \in Span(pass.out[l])
    /\ Len(pass.out) <= pass.i - 1
    /\ Len(pass.out) = pass.i - 1 =>
          \A l \in 1 .. pass.i - 1 :
              /\ pass.out[l] = cs[l]
              /\ l < Len(cs) => ~Mergeable(cs[l], cs[l + 1], maxGap, percent)

\* The ends of a cluster are numbers.
LEMMA EndsAre ==
    ASSUME NEW c \in Shapes
    PROVE  c.from \in Nat /\ c.to \in Nat
BY BinsAssumption DEF Shapes

\* The clusters that a pass reads.
LEMMA CoveredAre ==
    ASSUME NEW pulses \in PulseLists, NEW cs, Covers(cs, pulses)
    PROVE  /\ Len(cs) \in Nat /\ DOMAIN cs = 1 .. Len(cs)
           /\ \A k \in 1 .. Len(cs) :
                 /\ Gathers(cs[k], pulses) /\ cs[k] \in Shapes
                 /\ cs[k].from \in Nat /\ cs[k].to \in Nat /\ cs[k].from < cs[k].to
           /\ \A j, k \in 1 .. Len(cs) : j < k => cs[j].to <= cs[k].from
<1>1. Len(cs) \in Nat /\ DOMAIN cs = 1 .. Len(cs)
    BY DEF Covers
<1>2. ASSUME NEW k \in 1 .. Len(cs)
      PROVE  /\ Gathers(cs[k], pulses) /\ cs[k] \in Shapes
             /\ cs[k].from \in Nat /\ cs[k].to \in Nat /\ cs[k].from < cs[k].to
    <2>1. Gathers(cs[k], pulses)
        BY <1>1 DEF Covers
    <2>2. cs[k] \in Shapes /\ cs[k].from < cs[k].to
        BY <2>1 DEF Gathers
    <2>3. cs[k].from \in Nat /\ cs[k].to \in Nat
        BY <2>2, BinsAssumption DEF Shapes
    <2>4. QED
        BY <2>1, <2>2, <2>3
<1>3. QED
    BY <1>1, <1>2 DEF Covers, Chain

\* One more cluster comes out, for the clusters i .. next - 1.
LEMMA AppendPasses ==
    ASSUME NEW pulses \in PulseLists, NEW cs, Covers(cs, pulses),
           NEW maxGap, NEW percent,
           NEW pass, Passing(pass, cs, pulses, maxGap, percent),
           NEW c, Gathers(c, pulses), pass.i <= Len(cs), c.from = cs[pass.i].from,
           NEW next \in Nat, pass.i < next, next <= Len(cs) + 1, c.to = cs[next - 1].to,
           next = pass.i + 1 =>
               /\ c = cs[pass.i]
               /\ pass.i < Len(cs) => ~Mergeable(cs[pass.i], cs[pass.i + 1], maxGap, percent)
    PROVE  Passing([i |-> next, out |-> Append(pass.out, c)], cs, pulses, maxGap, percent)
<1>1. PICK i \in Nat, out \in Seq(Shapes), m \in Nat, n \in Nat :
          i = pass.i /\ out = pass.out /\ m = Len(out) /\ n = Len(cs)
    BY CoveredAre DEF Passing
<1> DEFINE new == Append(out, c)
<1>2. /\ i >= 1 /\ i <= n /\ i < next /\ next <= n + 1 /\ m <= i - 1
      /\ c \in Shapes /\ c.from < c.to /\ c.from \in Nat /\ c.to \in Nat
      /\ c.from = cs[i].from /\ c.to = cs[next - 1].to
    <2>1. c \in Shapes /\ c.from < c.to
        BY DEF Gathers
    <2>2. c.from \in Nat /\ c.to \in Nat
        BY <2>1, BinsAssumption DEF Shapes
    <2>3. i \in 1 .. n + 1 /\ m <= i - 1
        BY <1>1 DEF Passing
    <2>4. QED
        BY <1>1, <2>1, <2>2, <2>3
<1>3. /\ new \in Seq(Shapes) /\ Len(new) = m + 1 /\ new[m + 1] = c
      /\ DOMAIN new = 1 .. m + 1 /\ DOMAIN out = 1 .. m
      /\ \A l \in 1 .. m : new[l] = out[l]
    BY <1>1, <1>2
<1>4. /\ \A l \in 1 .. m : Gathers(out[l], pulses) /\ i > 1 /\ out[l].to <= cs[i - 1].to
      /\ \A k, l \in 1 .. m : k < l => out[k].to <= out[l].from
      /\ \A d \in DOMAIN pulses, k \in 1 .. i - 1 :
            BinsIn(pulses)[d] \in Span(cs[k]) => \E l \in 1 .. m : BinsIn(pulses)[d] \in Span(out[l])
    BY <1>1, <1>3 DEF Passing, Chain
<1>5. /\ \A k \in 1 .. n : cs[k].from \in Nat /\ cs[k].to \in Nat /\ cs[k].from < cs[k].to
      /\ \A j, k \in 1 .. n : j < k => cs[j].to <= cs[k].from
    BY <1>1, CoveredAre
<1>6. i - 1 \in 1 .. n => cs[i - 1].to <= c.from
    BY <1>2, <1>5
<1>7. ASSUME NEW l \in 1 .. m
      PROVE  /\ out[l].to \in Nat /\ out[l].to <= c.from /\ out[l].to <= c.to
    <2>1. i > 1 /\ out[l].to <= cs[i - 1].to /\ Gathers(out[l], pulses)
        BY <1>4
    <2>2. i - 1 \in 1 .. n
        BY <1>2, <2>1
    <2>3. out[l] \in Shapes
        BY <2>1 DEF Gathers
    <2>4. PICK x \in Nat : x = out[l].to
        BY <2>3, EndsAre
    <2>5. PICK y \in Nat : y = cs[i - 1].to
        BY <1>5, <2>2
    <2>6. PICK f \in Nat, g \in Nat : f = c.from /\ g = c.to
        BY <1>2
    <2>7. x <= y /\ y <= f /\ f < g
        BY <1>2, <1>6, <2>1, <2>2, <2>4, <2>5, <2>6
    <2>8. x <= f /\ x <= g
        BY <2>7
    <2>9. QED
        BY <2>4, <2>6, <2>8
<1>8. ASSUME NEW l \in 1 .. m + 1
      PROVE  Gathers(new[l], pulses) /\ next > 1 /\ new[l].to <= cs[next - 1].to
    <2>1. CASE l = m + 1
        BY <1>2, <1>3, <2>1
    <2>2. CASE l # m + 1
        <3>1. l \in 1 .. m
            <4>1. m \in Nat
                OBVIOUS
            <4>2. QED
                BY <4>1, <1>8, <2>2
        <3>2. new[l] = out[l]
            BY <1>3, <3>1
        <3>3. next > 1
            BY <1>2
        <3> HIDE DEF new
        <3>4. QED
            BY <1>2, <1>4, <1>7, <3>1, <3>2, <3>3
    <2>3. QED
        BY <2>1, <2>2
<1>9. ASSUME NEW k \in 1 .. m + 1, NEW l \in 1 .. m + 1, k < l
      PROVE  new[k].to <= new[l].from
    <2>1. k \in 1 .. m /\ new[k] = out[k]
        BY <1>1, <1>3, <1>9
    <2>2. CASE l = m + 1
        <3> HIDE DEF new
        <3>1. QED
            BY <1>3, <1>7, <2>1, <2>2
    <2>3. CASE l # m + 1
        <3>1. l \in 1 .. m
            <4>1. m \in Nat
                OBVIOUS
            <4>2. QED
                BY <4>1, <1>9, <2>3
        <3>2. new[l] = out[l]
            BY <1>3, <3>1
        <3> HIDE DEF new
        <3>3. QED
            BY <1>4, <1>9, <2>1, <3>1, <3>2
    <2>4. QED
        BY <2>2, <2>3
<1>10. ASSUME NEW d \in DOMAIN pulses, NEW k \in 1 .. next - 1, BinsIn(pulses)[d] \in Span(cs[k])
       PROVE  \E l \in 1 .. m + 1 : BinsIn(pulses)[d] \in Span(new[l])
    <2>1. CASE k < i
        <3>1. k \in 1 .. i - 1
            BY <1>1, <2>1
        <3>2. PICK l \in 1 .. m : BinsIn(pulses)[d] \in Span(out[l])
            BY <1>4, <1>10, <3>1
        <3>3. l \in 1 .. m + 1 /\ new[l] = out[l]
            BY <1>1, <1>3, <3>2
        <3> HIDE DEF new
        <3>4. QED
            BY <3>2, <3>3
    <2>2. CASE k >= i
        <3>1. PICK bin \in Nat : bin = BinsIn(pulses)[d]
            BY PulsesAre, BinsAssumption
        <3>2. k \in 1 .. n /\ i \in 1 .. n /\ next - 1 \in 1 .. n
            BY <1>1, <1>2
        <3>3. cs[k].from <= bin /\ bin < cs[k].to
            BY <1>5, <1>10, <3>1, <3>2 DEF Span
        <3>4. cs[i].from <= cs[k].from
            <4>1. CASE k = i
                BY <1>5, <3>2, <4>1
            <4>2. CASE i < k
                <5>1. PICK u \in Nat, v \in Nat, w \in Nat :
                          u = cs[i].from /\ v = cs[i].to /\ w = cs[k].from
                    BY <1>5, <3>2
                <5>2. u < v /\ v <= w
                    BY <1>5, <3>2, <4>2, <5>1
                <5>3. u <= w
                    BY <5>2
                <5>4. QED
                    BY <5>1, <5>3
            <4>3. QED
                BY <1>1, <2>2, <3>2, <4>1, <4>2
        <3>5. cs[k].to <= cs[next - 1].to
            <4>1. k = next - 1 \/ k < next - 1
                BY <1>1
            <4>2. QED
                BY <1>5, <3>2, <4>1
        <3>6. c.from <= bin /\ bin < c.to
            BY <1>2, <1>5, <3>2, <3>3, <3>4, <3>5
        <3>7. BinsIn(pulses)[d] \in Span(new[m + 1])
            BY <1>2, <1>3, <3>1, <3>6 DEF Span
        <3> HIDE DEF new
        <3>8. QED
            BY <1>1, <3>7
    <2>3. QED
        BY <1>1, <2>1, <2>2
<1>11. m + 1 <= next - 1
    BY <1>2
<1>12. ASSUME m + 1 = next - 1, NEW l \in 1 .. next - 1
       PROVE  /\ new[l] = cs[l]
              /\ l < n => ~Mergeable(cs[l], cs[l + 1], maxGap, percent)
    <2>1. next = i + 1 /\ m = i - 1
        <3>1. m <= i - 1 /\ i < next
            BY <1>2
        <3>2. QED
            BY <1>12, <3>1
    <2>2. CASE l = m + 1
        <3>1. l = i /\ new[l] = c
            BY <1>1, <1>3, <2>1, <2>2
        <3>2. QED
            BY <1>1, <2>1, <3>1
    <2>3. CASE l # m + 1
        <3>1. l \in 1 .. m /\ l \in 1 .. i - 1
            BY <1>1, <2>1, <2>3
        <3>2. /\ out[l] = cs[l]
              /\ l < n => ~Mergeable(cs[l], cs[l + 1], maxGap, percent)
            BY <1>1, <2>1, <3>1 DEF Passing
        <3>3. QED
            BY <1>3, <3>1, <3>2
    <2>4. QED
        BY <2>2, <2>3
<1> HIDE DEF new
<1>13. Chain(new)
    BY <1>3, <1>9 DEF Chain
<1> DEFINE p == [i |-> next, out |-> new]
<1>14. p.i = next /\ p.out = new /\ p \in [i : 1 .. Len(cs) + 1, out : Seq(Shapes)]
    BY <1>1, <1>2, <1>3
<1> HIDE DEF p
<1>15. Passing(p, cs, pulses, maxGap, percent)
    BY <1>1, <1>3, <1>8, <1>10, <1>11, <1>12, <1>13, <1>14 DEF Passing
<1>16. QED
    BY <1>1, <1>15 DEF p, new

\* No two neighbours can be merged.
Settled(cs, maxGap, percent) ==
    \A k \in 1 .. Len(cs) : k < Len(cs) => ~Mergeable(cs[k], cs[k + 1], maxGap, percent)

\* There are no pulses between neighbours.
LEMMA NoneBetween ==
    ASSUME NEW pulses \in PulseLists, NEW cs, Covers(cs, pulses),
           NEW i \in 1 .. Len(cs), i + 1 \in 1 .. Len(cs), NEW d \in DOMAIN pulses
    PROVE  BinsIn(pulses)[d] < cs[i].to \/ BinsIn(pulses)[d] >= cs[i + 1].from
<1>1. PICK bin \in Nat : bin = BinsIn(pulses)[d]
    BY PulsesAre, BinsAssumption
<1>2. PICK n \in Nat : n = Len(cs)
    BY CoveredAre
<1>3. PICK k \in 1 .. n : bin \in Span(cs[k])
    BY <1>1, <1>2, CoveredAre DEF Covers
<1>4. PICK f \in Nat, t \in Nat, ti \in Nat, fj \in Nat :
          f = cs[k].from /\ t = cs[k].to /\ ti = cs[i].to /\ fj = cs[i + 1].from
    BY <1>2, CoveredAre
<1>5. f <= bin /\ bin < t
    BY <1>3, <1>4 DEF Span
<1>6. i \in Nat /\ k \in Nat
    BY <1>2
<1>7. CASE k = i
    BY <1>1, <1>4, <1>5, <1>7
<1>8. CASE k = i + 1
    BY <1>1, <1>4, <1>5, <1>8
<1>9. CASE k < i
    <2>1. cs[k].to <= cs[i].from /\ cs[i].from < cs[i].to /\ cs[i].from \in Nat
        BY <1>2, <1>9, CoveredAre
    <2>2. bin < ti
        BY <1>4, <1>5, <2>1
    <2>3. QED
        BY <1>1, <1>4, <2>2
<1>10. CASE i + 1 < k
    <2>1. /\ cs[i + 1].to <= cs[k].from /\ cs[i + 1].from < cs[i + 1].to
          /\ cs[i + 1].to \in Nat
        BY <1>2, <1>10, CoveredAre
    <2>2. fj <= bin
        BY <1>4, <1>5, <2>1
    <2>3. QED
        BY <1>1, <1>4, <2>2
<1>11. QED
    BY <1>6, <1>7, <1>8, <1>9, <1>10

\* A step of a pass.
LEMMA StepPasses ==
    ASSUME NEW pulses \in PulseLists, NEW cs, Covers(cs, pulses),
           NEW maxGap, NEW percent,
           NEW pass, Passing(pass, cs, pulses, maxGap, percent)
    PROVE  LET next == PassStep(cs, maxGap, percent, pass)
           IN  /\ Passing(next, cs, pulses, maxGap, percent)
               /\ pass.i > Len(cs) => next.i = pass.i
               /\ pass.i <= Len(cs) => next.i > pass.i
<1>1. PICK i \in Nat, n \in Nat : i = pass.i /\ n = Len(cs)
    BY CoveredAre DEF Passing
<1>2. i \in 1 .. n + 1
    BY <1>1 DEF Passing
<1>3. CASE i > n
    <2>1. PassStep(cs, maxGap, percent, pass) = pass
        <3>1. ~(i < n)
            BY <1>3
        <3>2. QED
            BY <1>1, <1>3, <3>1, Zenon DEF PassStep
    <2>2. QED
        BY <1>1, <1>3, <2>1
<1>4. CASE i < n /\ Mergeable(cs[i], cs[i + 1], maxGap, percent)
    <2> DEFINE c == Merge(cs[i], cs[i + 1])
    <2>1. ~(i > n) /\ i \in 1 .. n /\ i + 1 \in 1 .. n
        BY <1>2, <1>4
    <2>2. AfterMerge(i) = i + 2
        BY DEF AfterMerge
    <2>3. PassStep(cs, maxGap, percent, pass) = [i |-> i + 2, out |-> Append(pass.out, c)]
        BY <1>1, <1>4, <2>1, <2>2, Zenon DEF PassStep
    <2>4. Gathers(c, pulses) /\ c.from = cs[i].from /\ c.to = cs[i + 1].to
        <3>1. Gathers(cs[i], pulses) /\ Gathers(cs[i + 1], pulses) /\ cs[i].to <= cs[i + 1].from
            <4>1. PICK j \in 1 .. n : j = i + 1
                BY <2>1
            <4>2. i < j
                BY <4>1
            <4>3. Gathers(cs[i], pulses) /\ Gathers(cs[j], pulses) /\ cs[i].to <= cs[j].from
                BY <1>1, <2>1, <4>2, CoveredAre
            <4>4. QED
                BY <4>1, <4>3
        <3>2. \A d \in DOMAIN pulses :
                  BinsIn(pulses)[d] < cs[i].to \/ BinsIn(pulses)[d] >= cs[i + 1].from
            BY <1>1, <2>1, NoneBetween
        <3>3. QED
            BY <3>1, <3>2, MergeGathers
    <2>5. i + 2 \in Nat /\ i < i + 2 /\ i + 2 <= n + 1 /\ i + 2 # i + 1 /\ (i + 2) - 1 = i + 1
        BY <1>4
    <2> HIDE DEF c
    <2>6. c.to = cs[(i + 2) - 1].to
        BY <2>4, <2>5
    <2>7. i <= n
        BY <1>4
    <2>8. Passing([i |-> i + 2, out |-> Append(pass.out, c)], cs, pulses, maxGap, percent)
        <3> DEFINE next == i + 2
        <3>1. next \in Nat /\ i < next /\ next <= n + 1 /\ next # i + 1 /\ c.to = cs[next - 1].to
            BY <2>5, <2>6
        <3> HIDE DEF next
        <3>2. Passing([i |-> next, out |-> Append(pass.out, c)], cs, pulses, maxGap, percent)
            BY <1>1, <2>4, <2>7, <3>1, AppendPasses
        <3>3. QED
            BY <3>2 DEF next
    <2>9. QED
        BY <1>1, <2>3, <2>5, <2>7, <2>8
<1>5. CASE i <= n /\ ~(i < n /\ Mergeable(cs[i], cs[i + 1], maxGap, percent))
    <2>1. ~(i > n) /\ i \in 1 .. n
        BY <1>2, <1>5
    <2>2. PassStep(cs, maxGap, percent, pass) = [i |-> i + 1, out |-> Append(pass.out, cs[i])]
        BY <1>1, <1>5, <2>1, Zenon DEF PassStep
    <2> DEFINE next == i + 1
    <2>3. next \in Nat /\ i < next /\ next <= n + 1 /\ next - 1 = i
        BY <1>5
    <2>4. Gathers(cs[i], pulses)
        BY <1>1, <2>1, CoveredAre
    <2>5. next = i + 1
        OBVIOUS
    <2> HIDE DEF next
    <2>6. Passing([i |-> next, out |-> Append(pass.out, cs[i])], cs, pulses, maxGap, percent)
        <3>1. cs[i].to = cs[next - 1].to
            BY <2>3
        <3>2. i < n => ~Mergeable(cs[i], cs[i + 1], maxGap, percent)
            BY <1>5
        <3> DEFINE c == cs[i]
        <3>3. Gathers(c, pulses) /\ c.from = cs[i].from /\ c.to = cs[next - 1].to /\ c = cs[i]
            BY <2>4, <3>1
        <3> HIDE DEF c
        <3>4. Passing([i |-> next, out |-> Append(pass.out, c)], cs, pulses, maxGap, percent)
            BY <1>1, <1>5, <2>3, <3>2, <3>3, AppendPasses
        <3>5. QED
            BY <3>3, <3>4
    <2>7. QED
        BY <1>1, <2>2, <2>3, <2>5, <2>6
<1>6. QED
    BY <1>1, <1>2, <1>3, <1>4, <1>5

\* A whole pass: it loses no pulse, and when it merges nothing there was
\* nothing that could be merged.
LEMMA PassCovers ==
    ASSUME NEW pulses \in PulseLists, NEW cs, Covers(cs, pulses), NEW maxGap, NEW percent
    PROVE  LET out == MergePass(cs, maxGap, percent)
           IN  /\ Covers(out, pulses)
               /\ Len(out) <= Len(cs)
               /\ Len(out) = Len(cs) => out = cs /\ Settled(cs, maxGap, percent)
<1> DEFINE n == Len(cs)
           start == [i |-> 1, out |-> <<>>]
           V == {p \in [i : 1 .. n + 1, out : Seq(Shapes)] : Passing(p, cs, pulses, maxGap, percent)}
           F == [x \in V \X (1 .. n) |-> PassStep(cs, maxGap, percent, x[1])]
           IsPass(t) == t = [k \in 0 .. n |-> IF k = 0 THEN start
                                              ELSE PassStep(cs, maxGap, percent, t[k - 1])]
           t == CHOOSE t : IsPass(t)
<1>1. n \in Nat /\ n \in Int /\ 0 \in Int /\ DOMAIN cs = 1 .. n /\ 0 <= n
    BY CoveredAre
<1>2. start \in V
    <2>1. start.i = 1 /\ start.out = <<>> /\ start \in [i : 1 .. n + 1, out : Seq(Shapes)]
        BY <1>1
    <2>2. Len(<<>>) = 0 /\ DOMAIN <<>> = {} /\ 1 .. 1 - 1 = {}
        OBVIOUS
    <2>3. Chain(start.out)
        BY <2>1, <2>2 DEF Chain
    <2> HIDE DEF start
    <2>4. Passing(start, cs, pulses, maxGap, percent)
        BY <2>1, <2>2, <2>3 DEF Passing
    <2>5. QED
        BY <2>1, <2>4
<1>3. ASSUME NEW p \in V
      PROVE  /\ PassStep(cs, maxGap, percent, p) \in V
             /\ p.i > n => PassStep(cs, maxGap, percent, p).i = p.i
             /\ p.i <= n => PassStep(cs, maxGap, percent, p).i > p.i
             /\ p.i \in 1 .. n + 1
    <2> DEFINE q == PassStep(cs, maxGap, percent, p)
    <2>1. /\ Passing(q, cs, pulses, maxGap, percent)
          /\ p.i > n => q.i = p.i
          /\ p.i <= n => q.i > p.i
        BY StepPasses
    <2>2. p.i \in 1 .. n + 1
        OBVIOUS
    <2> HIDE DEF q
    <2>3. q \in V
        BY <2>1 DEF Passing
    <2>4. QED
        BY <2>1, <2>2, <2>3 DEF q
<1> HIDE DEF V, start
<1>4. \A v \in V, k \in 0 + 1 .. n : F[<<v, k>>] \in V
    BY <1>3
<1>5. \E f \in [0 .. n -> V] : Recursion(f, 0, n, start, F)
    <2> HIDE DEF F
    <2>1. QED
        BY <1>1, <1>2, <1>4, RecursionExists
<1>6. PICK f \in [0 .. n -> V] : Recursion(f, 0, n, start, F)
    BY <1>5
<1>7. IsPass(f)
    <2>1. ASSUME NEW k \in 0 .. n, k # 0
          PROVE  F[<<f[k - 1], k>>] = PassStep(cs, maxGap, percent, f[k - 1])
        <3>1. k - 1 \in 0 .. n /\ k \in 1 .. n
            BY <1>1, <2>1
        <3>2. f[k - 1] \in V
            BY <3>1
        <3>3. QED
            BY <3>1, <3>2
    <2> HIDE DEF F
    <2>2. f = [k \in 0 .. n |-> IF k = 0 THEN start ELSE F[<<f[k - 1], k>>]]
        BY <1>6 DEF Recursion
    <2>3. \A k \in 0 .. n : f[k] = IF k = 0 THEN start ELSE PassStep(cs, maxGap, percent, f[k - 1])
        BY <2>1, <2>2
    <2>4. DOMAIN f = 0 .. n /\ f = [k \in DOMAIN f |-> f[k]]
        BY <1>6
    <2>5. QED
        BY <2>3, <2>4, Zenon
<1>8. IsPass(t)
    <2> HIDE DEF IsPass
    <2>1. QED
        BY <1>7
<1>9. MergePass(cs, maxGap, percent) = t[n].out
    BY DEF MergePass, start
<1> HIDE DEF t
<1>10. \A k \in 0 .. n : t[k] = IF k = 0 THEN start ELSE PassStep(cs, maxGap, percent, t[k - 1])
    BY <1>8, Zenon
<1> DEFINE P == {k \in 0 .. n : t[k] \in V /\ t[k].i >= k + 1}
<1>11. 0 \in P
    <2>1. 0 \in 0 .. n /\ t[0] = start
        BY <1>1, <1>10
    <2>2. start.i = 1
        BY DEF start
    <2>3. QED
        BY <1>2, <2>1, <2>2
<1>12. ASSUME NEW k \in 0 .. n - 1, k \in P
       PROVE  k + 1 \in P
    <2>1. k + 1 \in 0 .. n /\ k + 1 # 0 /\ k + 1 - 1 = k
        BY <1>1
    <2>2. t[k + 1] = PassStep(cs, maxGap, percent, t[k])
        BY <1>10, <2>1
    <2>3. t[k] \in V /\ t[k].i >= k + 1
        BY <1>12
    <2>4. PICK i \in Nat : i = t[k].i
        BY <1>1, <1>3, <2>3
    <2>5. t[k + 1] \in V /\ (i > n => t[k + 1].i = i) /\ (i <= n => t[k + 1].i > i)
        BY <1>3, <2>2, <2>3, <2>4
    <2>6. PICK j \in Nat : j = t[k + 1].i
        BY <1>1, <1>3, <2>5
    <2>7. j >= k + 2
        BY <1>1, <2>3, <2>4, <2>5, <2>6
    <2>8. QED
        BY <2>1, <2>5, <2>6, <2>7
<1> HIDE DEF P
<1>13. \A k \in 0 .. n : k \in P
    BY <1>1, <1>11, <1>12, Ascend
<1>14. t[n] \in V /\ t[n].i >= n + 1
    <2>1. n \in P
        BY <1>1, <1>13
    <2>2. QED
        BY <2>1 DEF P
<1>15. PICK p : p = t[n]
    OBVIOUS
<1>16. Passing(p, cs, pulses, maxGap, percent) /\ p.i = n + 1 /\ p.out \in Seq(Shapes)
    <2>1. p \in V /\ p.i >= n + 1
        BY <1>14, <1>15
    <2>2. p.i \in 1 .. n + 1
        BY <1>3, <2>1
    <2>3. p.i = n + 1
        BY <1>1, <2>1, <2>2
    <2>4. Passing(p, cs, pulses, maxGap, percent) /\ p.out \in Seq(Shapes)
        BY <2>1 DEF V
    <2>5. QED
        BY <2>3, <2>4
<1>17. n + 1 - 1 = n
    BY <1>1
<1>18. Covers(p.out, pulses)
    <2>1. /\ \A l \in DOMAIN p.out : Gathers(p.out[l], pulses)
          /\ Chain(p.out)
          /\ \A d \in DOMAIN pulses, k \in 1 .. n :
                BinsIn(pulses)[d] \in Span(cs[k]) =>
                    \E l \in DOMAIN p.out : BinsIn(pulses)[d] \in Span(p.out[l])
        BY <1>16, <1>17 DEF Passing
    <2>2. \A d \in DOMAIN pulses : \E k \in 1 .. n : BinsIn(pulses)[d] \in Span(cs[k])
        BY <1>1 DEF Covers
    <2>3. QED
        BY <1>16, <2>1, <2>2 DEF Covers
<1>19. Len(p.out) <= n
    BY <1>16, <1>17 DEF Passing
<1>20. ASSUME Len(p.out) = n
       PROVE  p.out = cs /\ Settled(cs, maxGap, percent)
    <2>1. \A l \in 1 .. n : p.out[l] = cs[l]
        BY <1>16, <1>17, <1>20 DEF Passing
    <2>2. p.out \in Seq(Shapes) /\ cs \in Seq(Shapes)
        BY <1>16 DEF Covers
    <2>3. p.out = cs
        BY <1>1, <1>20, <2>1, <2>2
    <2>4. Settled(cs, maxGap, percent)
        BY <1>16, <1>17, <1>20 DEF Passing, Settled
    <2>5. QED
        BY <2>3, <2>4
<1>21. QED
    BY <1>9, <1>15, <1>18, <1>19, <1>20

\* All of them: a list that is not settled is shorter after every pass.
LEMMA MergeAllCovers ==
    ASSUME NEW pulses \in PulseLists, NEW cs, Covers(cs, pulses), NEW maxGap, NEW percent
    PROVE  /\ Covers(MergeAll(cs, maxGap, percent), pulses)
           /\ Settled(MergeAll(cs, maxGap, percent), maxGap, percent)
<1> DEFINE n == Len(cs)
           pass(x) == MergePass(x, maxGap, percent)
           V == {x \in Seq(Shapes) : Covers(x, pulses)}
           F == [x \in V \X (1 .. n) |-> pass(x[1])]
           IsAll(t) == t = [k \in 0 .. n |-> IF k = 0 THEN ExchangeSort(cs, "center")
                                             ELSE MergePass(t[k - 1], maxGap, percent)]
           t == CHOOSE t : IsAll(t)
<1>1. n \in Nat /\ n \in Int /\ 0 \in Int /\ 0 <= n
    BY CoveredAre
<1>2. ExchangeSort(cs, "center") = cs /\ cs \in V
    BY CoversSorted DEF Covers
<1>3. ASSUME NEW x \in V
      PROVE  /\ pass(x) \in V /\ Len(pass(x)) <= Len(x) /\ Len(x) \in Nat /\ Len(pass(x)) \in Nat
             /\ Len(pass(x)) = Len(x) => pass(x) = x /\ Settled(x, maxGap, percent)
    <2>1. /\ Covers(pass(x), pulses)
          /\ Len(pass(x)) <= Len(x)
          /\ Len(pass(x)) = Len(x) => pass(x) = x /\ Settled(x, maxGap, percent)
        BY PassCovers
    <2> HIDE DEF pass
    <2>2. QED
        BY <2>1 DEF Covers
<1> HIDE DEF V
<1>4. \A v \in V, k \in 0 + 1 .. n : F[<<v, k>>] \in V
    BY <1>3
<1>5. \E f \in [0 .. n -> V] : Recursion(f, 0, n, cs, F)
    <2> HIDE DEF F
    <2>1. QED
        BY <1>1, <1>2, <1>4, RecursionExists
<1>6. PICK f \in [0 .. n -> V] : Recursion(f, 0, n, cs, F)
    BY <1>5
<1>7. IsAll(f)
    <2>1. ASSUME NEW k \in 0 .. n, k # 0
          PROVE  F[<<f[k - 1], k>>] = MergePass(f[k - 1], maxGap, percent)
        <3>1. k - 1 \in 0 .. n /\ k \in 1 .. n
            BY <1>1, <2>1
        <3>2. f[k - 1] \in V
            BY <3>1
        <3>3. QED
            BY <3>1, <3>2
    <2> HIDE DEF F
    <2>2. f = [k \in 0 .. n |-> IF k = 0 THEN cs ELSE F[<<f[k - 1], k>>]]
        BY <1>6 DEF Recursion
    <2>3. \A k \in 0 .. n : f[k] = IF k = 0 THEN ExchangeSort(cs, "center")
                                   ELSE MergePass(f[k - 1], maxGap, percent)
        BY <1>2, <2>1, <2>2
    <2>4. DOMAIN f = 0 .. n /\ f = [k \in DOMAIN f |-> f[k]]
        BY <1>6
    <2>5. QED
        BY <2>3, <2>4, Zenon
<1>8. IsAll(t)
    <2> HIDE DEF IsAll
    <2>1. QED
        BY <1>7
<1>9. MergeAll(cs, maxGap, percent) = t[n]
    BY DEF MergeAll
<1> HIDE DEF t
<1>10. \A k \in 0 .. n : t[k] = IF k = 0 THEN cs ELSE pass(t[k - 1])
    <2>1. \A k \in 0 .. n : t[k] = IF k = 0 THEN ExchangeSort(cs, "center")
                                   ELSE MergePass(t[k - 1], maxGap, percent)
        BY <1>8, Zenon
    <2>2. QED
        BY <1>2, <2>1
<1> HIDE DEF pass
<1> DEFINE P == {k \in 0 .. n : /\ t[k] \in V
                                /\ \/ pass(t[k]) = t[k] /\ Settled(t[k], maxGap, percent)
                                   \/ Len(t[k]) <= n - k}
<1>11. 0 \in P
    <2>1. 0 \in 0 .. n /\ t[0] = cs /\ n - 0 = n /\ n <= n
        BY <1>1, <1>10
    <2>2. QED
        BY <1>2, <2>1
<1>12. ASSUME NEW k \in 0 .. n - 1, k \in P
       PROVE  k + 1 \in P
    <2>1. k + 1 \in 0 .. n /\ k + 1 # 0 /\ k + 1 - 1 = k
        BY <1>1
    <2>2. PICK x \in V : x = t[k]
        BY <1>12
    <2>3. t[k + 1] = pass(x)
        BY <1>10, <2>1, <2>2
    <2>4. pass(x) \in V
        BY <1>3
    <2>5. CASE pass(x) = x /\ Settled(x, maxGap, percent)
        BY <2>1, <2>3, <2>4, <2>5
    <2>6. CASE Len(x) <= n - k /\ ~(pass(x) = x /\ Settled(x, maxGap, percent))
        <3>1. PICK a \in Nat, b \in Nat : a = Len(x) /\ b = Len(pass(x))
            BY <1>3
        <3>2. b <= a /\ a # b
            BY <1>3, <2>6, <3>1
        <3>3. b <= n - (k + 1)
            BY <1>1, <2>6, <3>1, <3>2
        <3>4. QED
            BY <2>1, <2>3, <2>4, <3>1, <3>3
    <2>7. QED
        BY <1>12, <2>2, <2>5, <2>6
<1> HIDE DEF P
<1>13. \A k \in 0 .. n : k \in P
    BY <1>1, <1>11, <1>12, Ascend
<1>14. /\ t[n] \in V
       /\ (pass(t[n]) = t[n] /\ Settled(t[n], maxGap, percent)) \/ Len(t[n]) <= n - n
    BY <1>1, <1>13 DEF P
<1>15. PICK x \in V : x = t[n]
    BY <1>14
<1>16. Settled(x, maxGap, percent)
    <2>1. CASE Len(x) <= n - n
        <3>1. Len(x) = 0
            BY <1>1, <1>3, <2>1
        <3>2. QED
            BY <3>1 DEF Settled
    <2>2. QED
        BY <1>14, <1>15, <2>1
<1>17. QED
    BY <1>9, <1>15, <1>16 DEF V

-----------------------------------------------------------------------------
(* Classification.                                                         *)

Balances == {"internal_void", "surface_discharge"}

\* The confidences of a balance and of a floating electrode.
BalanceSure == 500 .. 800

FloatingSure == 600 .. 1000

LEMMA LogTenthsIs ==
    ASSUME NEW big, NEW small
    PROVE  LogTenths(big, small) \in 0 .. 20
<1>1. {k \in DOMAIN ExpTenth : 1000 * big >= ExpTenth[k] * small} \in SUBSET (1 .. 20)
    BY DEF ExpTenth
<1>2. IsFiniteSet(1 .. 20) /\ Cardinality(1 .. 20) = 20
    <2>1. 1 \in Int /\ 20 \in Int
        OBVIOUS
    <2>2. IsFiniteSet(1 .. 20) /\ Cardinality(1 .. 20) = IF 1 > 20 THEN 0 ELSE 20 - 1 + 1
        BY <2>1, FS_Interval
    <2>3. QED
        BY <2>2
<1>3. PICK s \in SUBSET (1 .. 20) : LogTenths(big, small) = Cardinality(s)
    BY <1>1 DEF LogTenths
<1>4. Cardinality(s) \in Nat /\ Cardinality(s) <= Cardinality(1 .. 20)
    BY <1>2, FS_Subset, FS_CardinalityType
<1>5. QED
    BY <1>2, <1>3, <1>4

LEMMA HalfCycleDefectIs ==
    ASSUME NEW halves, halves.pos + halves.neg > 0, halves.pos + halves.neg \in Int
    PROVE  \E d \in Balances, c \in BalanceSure : HalfCycleDefect(halves) = << Candidate(d, c) >>
<1>1. PICK n \in 0 .. 20 :
          n = LogTenths(Max({halves.pos, halves.neg}), Min({halves.pos, halves.neg}))
    BY LogTenthsIs
<1>2. 500 + 15 * n \in BalanceSure /\ 700 \in BalanceSure
    BY DEF BalanceSure
<1>3. ~(halves.pos + halves.neg = 0)
    OBVIOUS
<1>4. \/ HalfCycleDefect(halves) = << Candidate("internal_void", 700) >>
      \/ HalfCycleDefect(halves) = << Candidate("surface_discharge", 500 + 15 * n) >>
    BY <1>1, <1>3, Zenon DEF HalfCycleDefect
<1>5. CASE HalfCycleDefect(halves) = << Candidate("internal_void", 700) >>
    <2>1. "internal_void" \in Balances
        BY DEF Balances
    <2>2. QED
        BY <1>2, <1>5, <2>1
<1>6. CASE HalfCycleDefect(halves) = << Candidate("surface_discharge", 500 + 15 * n) >>
    <2>1. "surface_discharge" \in Balances
        BY DEF Balances
    <2>2. QED
        BY <1>2, <1>6, <2>1
<1>7. QED
    BY <1>4, <1>5, <1>6

LEMMA FloatingIs ==
    ASSUME NEW max \in Nat
    PROVE  /\ max < HighAmp => Floating(max) = << >>
           /\ max >= HighAmp =>
                 \E c \in FloatingSure : Floating(max) = << Candidate("floating_electrode", c) >>
<1>1. max < HighAmp => ~(max >= HighAmp)
    BY DEF HighAmp
<1>2. max < HighAmp => Floating(max) = << >>
    BY <1>1 DEF Floating
<1>3. ASSUME max >= HighAmp
      PROVE  \E c \in FloatingSure : Floating(max) = << Candidate("floating_electrode", c) >>
    <2>1. PICK over \in Nat : over = max - HighAmp
        BY <1>3 DEF HighAmp
    <2>2. \E x \in {HighAmp, over} : \A y \in {HighAmp, over} : x <= y
        BY DEF HighAmp
    <2>3. Min({HighAmp, over}) \in {HighAmp, over} /\ Min({HighAmp, over}) <= HighAmp
        BY <2>2 DEF Min
    <2>4. PICK x \in 0 .. 50 : x = Min({HighAmp, over})
        BY <2>3 DEF HighAmp
    <2>5. 600 + 8 * x \in FloatingSure
        BY DEF FloatingSure
    <2>6. Floating(max) = << Candidate("floating_electrode", 600 + 8 * x) >>
        BY <1>3, <2>1, <2>4 DEF Floating
    <2>7. QED
        BY <2>5, <2>6, Zenon
<1>4. QED
    BY <1>2, <1>3

\* The greatest amplitude that classification looks at.
TopOf(clusters) == Max({0} \cup {clusters[i].max : i \in DOMAIN clusters})

LEMMA TopIs ==
    ASSUME NEW clusters \in Seq(Shapes)
    PROVE  /\ TopOf(clusters) \in Nat
           /\ \A i \in DOMAIN clusters : clusters[i].max <= TopOf(clusters)
           /\ TopOf(clusters) = 0 \/ \E i \in DOMAIN clusters : clusters[i].max = TopOf(clusters)
<1> DEFINE values == {clusters[i].max : i \in DOMAIN clusters}
           maxes == {0} \cup values
           f == [i \in DOMAIN clusters |-> clusters[i].max]
<1>1. \A i \in DOMAIN clusters : clusters[i].max \in Nat
    <2>1. \A s \in Shapes : s.max \in Nat
        BY DEF Shapes
    <2>2. QED
        BY <2>1
<1>2. IsFiniteSet(DOMAIN clusters)
    BY FS_Interval
<1>3. f \in Surjection(DOMAIN clusters, values)
    BY DEF Surjection
<1>4. IsFiniteSet(values)
    <2> HIDE DEF f, values
    <2>1. QED
        BY <1>2, <1>3, FS_Surjection
<1>5. maxes # {} /\ maxes \subseteq Nat /\ maxes \subseteq Int
    BY <1>1
<1>6. IsFiniteSet(maxes)
    <2>1. maxes = values \cup {0}
        OBVIOUS
    <2> HIDE DEF values, maxes
    <2>2. QED
        BY <1>4, <2>1, FS_AddElement
<1>7. Max(maxes) \in maxes /\ \A y \in maxes : y <= Max(maxes)
    <2> HIDE DEF maxes
    <2>1. QED
        BY <1>5, <1>6, MaxIs
<1>8. TopOf(clusters) = Max(maxes)
    BY DEF TopOf
<1>9. PICK top : top = Max(maxes)
    OBVIOUS
<1>10. QED
    BY <1>5, <1>7, <1>8, <1>9

\* Clusters hold pulses.
LEMMA PulsesOfIs ==
    ASSUME NEW clusters \in Seq(Shapes)
    PROVE  PulsesOf(clusters) \in Nat /\ (clusters # << >> => PulsesOf(clusters) > 0)
<1> DEFINE counts == [i \in DOMAIN clusters |-> clusters[i].count]
           D == DOMAIN clusters
<1>1. \A i \in D : counts[i] \in Nat \ {0}
    <2>1. \A s \in Shapes : s.count \in Nat \ {0}
        BY DEF Shapes
    <2>2. QED
        BY <2>1
<1>2. IsFiniteSet(D)
    BY FS_Interval
<1>3. PulsesOf(clusters) = SumFunctionOnSet(counts, D)
    BY DEF PulsesOf, SumFunction
<1>4. clusters # << >> => 1 \in D
    OBVIOUS
<1> HIDE DEF counts, D
<1>5. \A i \in D : counts[i] \in Nat /\ counts[i] \in Int
    BY <1>1
<1>6. SumFunctionOnSet(counts, D) \in Nat
    BY <1>2, <1>5, SumNat
<1>7. ASSUME clusters # << >>
      PROVE  SumFunctionOnSet(counts, D) > 0
    <2>1. 1 \in D
        BY <1>4, <1>7
    <2>2. SumFunctionOnSet(counts, D) = counts[1] + SumFunctionOnSet(counts, D \ {1})
        BY <1>2, <1>5, <2>1, SumWithout
    <2>3. IsFiniteSet(D \ {1})
        BY <1>2, FS_Subset
    <2>4. SumFunctionOnSet(counts, D \ {1}) \in Nat
        BY <1>5, <2>3, SumNat
    <2>5. counts[1] \in Nat \ {0}
        BY <1>1, <2>1
    <2>6. QED
        BY <2>2, <2>4, <2>5
<1>8. QED
    BY <1>3, <1>6, <1>7

LEMMA PairJoined ==
    ASSUME NEW c, NEW d
    PROVE  /\ << c >> \o << d >> = << c, d >>
           /\ << >> \o << d >> = << d >>
           /\ Reverse(<< c, d >>) = << d, c >>
<1> DEFINE p == << c >> \o << d >>
           q == << c, d >>
           S == {c, d}
<1>1. << c >> \in Seq(S) /\ << d >> \in Seq(S)
    OBVIOUS
<1>2. p \in Seq(S) /\ Len(p) = 2 /\ p[1] = c /\ p[2] = d
    BY <1>1
<1>3. q \in Seq(S) /\ Len(q) = 2 /\ q[1] = c /\ q[2] = d
    OBVIOUS
<1>4. << >> \o << d >> = << d >>
    BY <1>1
<1>5. Reverse(<< c, d >>) = << d, c >>
    BY DEF Reverse
<1> HIDE DEF p, q, S
<1>6. DOMAIN p = 1 .. 2 /\ DOMAIN q = 1 .. 2 /\ \A i \in 1 .. 2 : p[i] = q[i]
    BY <1>2, <1>3
<1>7. p = q
    BY <1>2, <1>3, <1>6
<1>8. QED
    BY <1>4, <1>5, <1>7 DEF p, q

\* A balance b of confidence c, and a floating electrode of confidence d with
\* it when the amplitude top is high; the surest is first.
Finding(found, top, b, c, d) ==
    \/ top < HighAmp /\ found = << Candidate(b, c) >>
    \/ /\ top >= HighAmp /\ d >= c
       /\ found = << Candidate("floating_electrode", d), Candidate(b, c) >>
    \/ /\ top >= HighAmp /\ c >= d
       /\ found = << Candidate(b, c), Candidate("floating_electrode", d) >>

LEMMA NoneClassified == Classify(<< >>) = << Candidate("unknown", 1000) >>
BY Zenon DEF Classify

\* What a classification finds: the balance of the half cycles, and with it a
\* floating electrode when an amplitude is high, the surest first.
LEMMA Classified ==
    ASSUME NEW clusters \in Seq(Shapes), clusters # << >>
    PROVE  \E b \in Balances, c \in BalanceSure, d \in FloatingSure :
               Finding(Classify(clusters), TopOf(clusters), b, c, d)
<1>2. clusters # << >>
    OBVIOUS
<1>3. PICK top \in Nat : top = TopOf(clusters)
    BY TopIs
<1>4. PICK halves : halves = ClusterHalves(clusters)
    OBVIOUS
<1>5. halves.pos + halves.neg \in Int /\ halves.pos + halves.neg > 0
    <2> DEFINE first == {i \in DOMAIN clusters : clusters[i].center < Half}
               counts == [i \in first |-> clusters[i].count]
    <2>1. \A i \in first : counts[i] \in Int
        <3>1. \A s \in Shapes : s.count \in Int
            BY DEF Shapes
        <3>2. QED
            BY <3>1
    <2>2. IsFiniteSet(first)
        <3>1. IsFiniteSet(DOMAIN clusters) /\ first \subseteq DOMAIN clusters
            BY FS_Interval
        <3> HIDE DEF first
        <3>2. QED
            BY <3>1, FS_Subset
    <2>3. DOMAIN counts = first
        OBVIOUS
    <2>4. ClusterHalves(clusters) =
              [pos |-> SumFunction(counts), neg |-> PulsesOf(clusters) - SumFunction(counts)]
        BY DEF ClusterHalves
    <2> HIDE DEF first, counts
    <2>5. PICK pos \in Int : pos = SumFunction(counts)
        BY <2>1, <2>2, <2>3, SumInt DEF SumFunction
    <2>6. PICK all \in Nat : all = PulsesOf(clusters) /\ all > 0
        BY <1>2, PulsesOfIs
    <2>7. halves.pos = pos /\ halves.neg = all - pos
        BY <1>4, <2>4, <2>5, <2>6
    <2>8. pos + (all - pos) = all
        OBVIOUS
    <2>9. QED
        BY <2>6, <2>7, <2>8
<1>6. PICK b \in Balances, c \in BalanceSure : HalfCycleDefect(halves) = << Candidate(b, c) >>
    BY <1>5, HalfCycleDefectIs
<1>7. PICK balance : balance = Candidate(b, c)
    OBVIOUS
<1>8. balance.confidence = c
    BY <1>7 DEF Candidate
<1>9. PICK found : found = Floating(top) \o << balance >>
    OBVIOUS
<1>10. found # << >> => Classify(clusters) = ByConfidence(found)
    BY <1>2, <1>3, <1>4, <1>6, <1>7, <1>9, Zenon DEF Classify, TopOf
<1>11. CASE top < HighAmp
    <2>1. found = << balance >>
        <3>1. Floating(top) = << >>
            BY <1>11, FloatingIs
        <3>2. QED
            BY <1>9, <3>1, PairJoined
    <2>2. found # << >> /\ Len(found) = 1
        BY <2>1
    <2>3. ByConfidence(found) = found
        BY <2>2 DEF ByConfidence
    <2>4. Classify(clusters) = << Candidate(b, c) >>
        BY <1>7, <1>10, <2>1, <2>2, <2>3
    <2>5. 600 \in FloatingSure /\ Finding(Classify(clusters), TopOf(clusters), b, c, 600)
        BY <1>3, <1>11, <2>4 DEF Finding, FloatingSure
    <2>6. QED
        BY <2>5
<1>12. CASE top >= HighAmp
    <2>1. PICK d \in FloatingSure : Floating(top) = << Candidate("floating_electrode", d) >>
        BY <1>12, FloatingIs
    <2>2. PICK high : high = Candidate("floating_electrode", d)
        OBVIOUS
    <2>3. high.confidence = d
        BY <2>2 DEF Candidate
    <2>4. found = << high, balance >>
        BY <1>9, <2>1, <2>2, PairJoined
    <2>5. found # << >> /\ Len(found) = 2 /\ found[1] = high /\ found[2] = balance
        BY <2>4
    <2>6. Reverse(found) = << balance, high >>
        BY <2>4, PairJoined
    <2>7. CASE c > d
        <3>1. ByConfidence(found) = << balance, high >>
            BY <1>8, <2>3, <2>5, <2>6, <2>7 DEF ByConfidence
        <3>2. c >= d
            BY <2>7 DEF BalanceSure, FloatingSure
        <3>3. Classify(clusters) = << Candidate(b, c), Candidate("floating_electrode", d) >>
            BY <1>7, <1>10, <2>2, <2>5, <3>1
        <3>4. Finding(Classify(clusters), TopOf(clusters), b, c, d)
            BY <1>3, <1>12, <3>2, <3>3 DEF Finding
        <3>5. QED
            BY <3>4
    <2>8. CASE ~(c > d)
        <3>1. ByConfidence(found) = << high, balance >>
            BY <1>8, <2>3, <2>4, <2>5, <2>8 DEF ByConfidence
        <3>2. d >= c
            BY <2>8 DEF BalanceSure, FloatingSure
        <3>3. Classify(clusters) = << Candidate("floating_electrode", d), Candidate(b, c) >>
            BY <1>7, <1>10, <2>2, <2>5, <3>1
        <3>4. Finding(Classify(clusters), TopOf(clusters), b, c, d)
            BY <1>3, <1>12, <3>2, <3>3 DEF Finding
        <3>5. QED
            BY <3>4
    <2>9. QED
        BY <2>7, <2>8
<1>13. top < HighAmp \/ top >= HighAmp
    BY DEF HighAmp
<1>14. QED
    BY <1>11, <1>12, <1>13
=============================================================================
