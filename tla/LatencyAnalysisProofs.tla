----------------------- MODULE LatencyAnalysisProofs -----------------------
(***************************************************************************)
(* Proofs about LatencyAnalysis and LatencyTraffic for any streams, bucket      *)
(* bounds and options: what is recommended is true to the traffic.                *)
(*                                                                           *)
(* A series adds up the histograms of its streams, a fold over a set of           *)
(* records; the traffic is a sum over streams.  That both are the same needs       *)
(* facts of the fold itself, by induction on the size of the set: a least set       *)
(* that fails would leave a smaller one that fails.                                *)
(***************************************************************************)
EXTENDS LatencyTraffic, FiniteSetTheorems, TLAPS

\* A set of naturals has a least element.
LEMMA LeastNumber ==
  ASSUME NEW T \in SUBSET Nat, T # {}
  PROVE  \E x \in T : \A y \in T : x <= y
<1>1. IsWellFoundedOn(OpToRel(<, Nat), Nat)
  BY NatLessThanWellFounded
<1>2. PICK x \in T : \A y \in T : ~ (<<y, x>> \in OpToRel(<, Nat))
  BY <1>1, WFMin, Zenon
<1>3. \A y \in T : ~(y < x)
  BY <1>2 DEF OpToRel
<1> QED
  BY <1>3

\* The element a fold takes first.
Pick(s) == CHOOSE x \in s : TRUE

\* What the fold behind a sum computes, for the subsets of S.
Sums(F, S, iter) ==
  iter = [s \in SUBSET S |-> IF s = {} THEN 0 ELSE F[Pick(s)] + iter[s \ {Pick(s)}]]

\* A set of naturals that goes on has them all.
LEMMA Unending ==
  ASSUME NEW P \in SUBSET Nat, 0 \in P, \A n \in P : n + 1 \in P
  PROVE  P = Nat
<1>1. SUFFICES ASSUME Nat \ P # {} PROVE FALSE
  OBVIOUS
<1>2. PICK n \in Nat \ P : \A m \in Nat \ P : n <= m
  BY <1>1, LeastNumber
<1>3. n # 0 /\ n - 1 \in Nat /\ n - 1 \in P
  BY <1>2
<1> QED
  BY <1>3

\* The size of a part, and of what is left of it without its pick.
LEMMA Parts ==
  ASSUME NEW S, IsFiniteSet(S), NEW s \in SUBSET S
  PROVE  /\ IsFiniteSet(s) /\ Cardinality(s) \in Nat /\ Cardinality(S) \in Nat
         /\ Cardinality(s) <= Cardinality(S)
         /\ s # {} => /\ Pick(s) \in s /\ s \ {Pick(s)} \in SUBSET S
                      /\ Cardinality(s \ {Pick(s)}) = Cardinality(s) - 1
         /\ Cardinality(s) = 0 => s = {}
<1>1. IsFiniteSet(s) /\ Cardinality(s) <= Cardinality(S)
  BY FS_Subset
<1>2. Cardinality(s) \in Nat /\ Cardinality(S) \in Nat
  BY <1>1, FS_CardinalityType
<1>3. s # {} => Pick(s) \in s
  BY DEF Pick
<1>4. Cardinality(s) = 0 => s = {}
  BY <1>1, FS_EmptySet
<1>5. s # {} => Cardinality(s \ {Pick(s)}) = Cardinality(s) - 1
  BY <1>1, <1>3, FS_RemoveElement
<1> QED
  BY <1>1, <1>2, <1>3, <1>4, <1>5

\* The fold is defined: size by size.
LEMMA SumsExist ==
  ASSUME NEW S, IsFiniteSet(S), NEW F
  PROVE  \E iter : Sums(F, S, iter)
<1> DEFINE Up(n, g) ==
             g = [s \in SUBSET S |->
                   IF Cardinality(s) > n \/ s = {} THEN 0 ELSE F[Pick(s)] + g[s \ {Pick(s)}]]
           P == {n \in Nat : \E g : Up(n, g)}
<1>2. 0 \in P
  <2> DEFINE g == [s \in SUBSET S |-> 0]
  <2>1. ASSUME NEW s \in SUBSET S PROVE Cardinality(s) > 0 \/ s = {}
    <3>1. Cardinality(s) \in Nat /\ (Cardinality(s) = 0 => s = {})
      BY Parts
    <3> QED
      BY <3>1
  <2>2. Up(0, g)
    BY <2>1
  <2> QED
    BY <2>2
<1>3. ASSUME NEW n \in P PROVE n + 1 \in P
  <2>1. PICK g : Up(n, g)
    OBVIOUS
  <2> DEFINE h == [s \in SUBSET S |->
                    IF Cardinality(s) > n + 1 \/ s = {} THEN 0
                    ELSE F[Pick(s)] + g[s \ {Pick(s)}]]
  <2>2. n \in Nat
    OBVIOUS
  <2>3. ASSUME NEW t \in SUBSET S, Cardinality(t) <= n PROVE h[t] = g[t]
    <3>1. ~(Cardinality(t) > n) /\ ~(Cardinality(t) > n + 1)
      <4>1. Cardinality(t) \in Nat
        BY Parts
      <4> QED
        BY <2>2, <2>3, <4>1
    <3>2. g[t] = IF Cardinality(t) > n \/ t = {} THEN 0 ELSE F[Pick(t)] + g[t \ {Pick(t)}]
      BY <2>1
    <3> QED
      BY <3>1, <3>2
  <2>4. ASSUME NEW s \in SUBSET S, ~(Cardinality(s) > n + 1), s # {}
        PROVE  h[s \ {Pick(s)}] = g[s \ {Pick(s)}]
    <3>1. s \ {Pick(s)} \in SUBSET S /\ Cardinality(s \ {Pick(s)}) <= n
      <4>1. /\ Cardinality(s) \in Nat /\ s \ {Pick(s)} \in SUBSET S
            /\ Cardinality(s \ {Pick(s)}) = Cardinality(s) - 1
        BY <2>4, Parts
      <4> QED
        BY <2>2, <2>4, <4>1
    <3> QED
      BY <2>3, <3>1
  <2>5. Up(n + 1, h)
    BY <2>4
  <2>6. n + 1 \in Nat
    BY <2>2
  <2> HIDE DEF Up, h
  <2> QED
    BY <2>5, <2>6
<1>4. Cardinality(S) \in P
  <2>1. P = Nat
    <3>1. P \in SUBSET Nat
      OBVIOUS
    <3> HIDE DEF P
    <3> QED
      BY <1>2, <1>3, <3>1, Unending
  <2> QED
    BY <2>1, FS_CardinalityType
<1>5. PICK g : Up(Cardinality(S), g)
  BY <1>4
<1>6. ASSUME NEW s \in SUBSET S PROVE ~(Cardinality(s) > Cardinality(S))
  <2>1. Cardinality(s) \in Nat /\ Cardinality(S) \in Nat /\ Cardinality(s) <= Cardinality(S)
    BY Parts
  <2> QED
    BY <2>1
<1>7. Sums(F, S, g)
  BY <1>5, <1>6 DEF Sums
<1> QED
  BY <1>7

\* Two folds agree where both are defined.
LEMMA SumsAgree ==
  ASSUME NEW S, IsFiniteSet(S), NEW T \in SUBSET S, NEW F,
         NEW f, Sums(F, S, f), NEW g, Sums(F, T, g), NEW s \in SUBSET T
  PROVE  f[s] = g[s]
<1> DEFINE Bad == {n \in Nat : \E t \in SUBSET T : Cardinality(t) = n /\ f[t] # g[t]}
<1>1. SUFFICES Bad = {}
  <2>1. Cardinality(s) \in Nat
    BY Parts
  <2> QED
    BY <1>1, <2>1
<1>2. SUFFICES ASSUME Bad # {} PROVE FALSE
  OBVIOUS
<1>3. PICK n \in Bad : \A m \in Bad : n <= m
  <2>1. Bad \in SUBSET Nat
    OBVIOUS
  <2> HIDE DEF Bad
  <2> QED
    BY <1>2, <2>1, LeastNumber
<1>4. PICK t \in SUBSET T : Cardinality(t) = n /\ f[t] # g[t]
  BY <1>3
<1>5. /\ f[t] = IF t = {} THEN 0 ELSE F[Pick(t)] + f[t \ {Pick(t)}]
      /\ g[t] = IF t = {} THEN 0 ELSE F[Pick(t)] + g[t \ {Pick(t)}]
  BY DEF Sums
<1>6. t # {} /\ f[t \ {Pick(t)}] # g[t \ {Pick(t)}]
  BY <1>4, <1>5
<1>7. /\ t \ {Pick(t)} \in SUBSET T /\ Cardinality(t) \in Nat
      /\ Cardinality(t \ {Pick(t)}) = Cardinality(t) - 1
      /\ Cardinality(t \ {Pick(t)}) \in Nat
  <2>1. /\ t \ {Pick(t)} \in SUBSET T /\ Cardinality(t) \in Nat
        /\ Cardinality(t \ {Pick(t)}) = Cardinality(t) - 1
    BY <1>6, Parts
  <2> QED
    BY <2>1, Parts
<1>8. n - 1 \in Bad /\ n \in Nat
  BY <1>4, <1>6, <1>7
<1> HIDE DEF Bad
<1> QED
  BY <1>3, <1>8

\* The sum of nothing, and that of something.
LEMMA SumUnfolds ==
  ASSUME NEW S, IsFiniteSet(S), NEW F
  PROVE  /\ SumFunctionOnSet(F, {}) = 0
         /\ S # {} => SumFunctionOnSet(F, S)
                        = F[Pick(S)] + SumFunctionOnSet(F, S \ {Pick(S)})
<1> DEFINE Iter(T) == CHOOSE iter : Sums(F, T, iter)
<1>1. ASSUME NEW T PROVE SumFunctionOnSet(F, T) = Iter(T)[T]
  BY DEF SumFunctionOnSet, FoldFunctionOnSet, MapThenFoldSet, Sums, Pick
<1>2. ASSUME NEW T, IsFiniteSet(T) PROVE Sums(F, T, Iter(T))
  BY <1>2, SumsExist
<1> HIDE DEF Iter
<1>3. SumFunctionOnSet(F, {}) = 0
  <2>1. Sums(F, {}, Iter({}))
    BY <1>2, FS_EmptySet
  <2> QED
    BY <1>1, <2>1 DEF Sums
<1>4. ASSUME S # {}
      PROVE  SumFunctionOnSet(F, S) = F[Pick(S)] + SumFunctionOnSet(F, S \ {Pick(S)})
  <2> DEFINE T == S \ {Pick(S)}
  <2>1. T \in SUBSET S /\ IsFiniteSet(T)
    BY FS_Subset
  <2>2. Sums(F, S, Iter(S)) /\ Sums(F, T, Iter(T))
    BY <1>2, <2>1
  <2>3. Iter(S)[T] = Iter(T)[T]
    BY <2>1, <2>2, SumsAgree
  <2>4. Iter(S)[S] = F[Pick(S)] + Iter(S)[T]
    BY <1>4, <2>2 DEF Sums
  <2> QED
    BY <1>1, <2>3, <2>4
<1> QED
  BY <1>3, <1>4

(***************************************************************************)
(* A sum of naturals is a natural, and any element may be taken out of it:     *)
(* the order in which a fold picks does not matter.                             *)
(***************************************************************************)
LEMMA SumRemove ==
  ASSUME NEW S, IsFiniteSet(S), NEW F, \A y \in S : F[y] \in Nat
  PROVE  /\ SumFunctionOnSet(F, S) \in Nat
         /\ \A x \in S : SumFunctionOnSet(F, S) = F[x] + SumFunctionOnSet(F, S \ {x})
<1> DEFINE Sum(T) == SumFunctionOnSet(F, T)
           Fine(T) == Sum(T) \in Nat /\ \A x \in T : Sum(T) = F[x] + Sum(T \ {x})
           Bad == {n \in Nat : \E T \in SUBSET S : Cardinality(T) = n /\ ~Fine(T)}
<1>1. SUFFICES Bad = {}
  <2>1. Cardinality(S) \in Nat
    BY FS_CardinalityType
  <2>2. Fine(S)
    BY <1>1, <2>1
  <2> QED
    BY <2>2
<1>2. SUFFICES ASSUME Bad # {} PROVE FALSE
  OBVIOUS
<1>3. PICK n \in Bad : \A m \in Bad : n <= m
  <2>1. Bad \in SUBSET Nat
    OBVIOUS
  <2> HIDE DEF Bad
  <2> QED
    BY <1>2, <2>1, LeastNumber
<1>4. PICK T \in SUBSET S : Cardinality(T) = n /\ ~Fine(T)
  BY <1>3
<1>5. n \in Nat /\ IsFiniteSet(T)
  BY FS_Subset
<1>6. ASSUME NEW U \in SUBSET S, Cardinality(U) \in Nat, Cardinality(U) < n PROVE Fine(U)
  <2>1. Cardinality(U) \notin Bad
    <3> HIDE DEF Bad
    <3> QED
      BY <1>3, <1>5, <1>6
  <2> HIDE DEF Fine
  <2> QED
    BY <1>6, <2>1
<1>7. ASSUME NEW x \in T PROVE Fine(T \ {x})
  <2>1. Cardinality(T \ {x}) = n - 1 /\ Cardinality(T \ {x}) \in Nat
    BY <1>4, <1>5, FS_RemoveElement, FS_CardinalityType
  <2> HIDE DEF Fine
  <2> QED
    BY <1>5, <1>6, <2>1
<1>8. CASE T = {}
  BY <1>4, <1>8, SumUnfolds, FS_EmptySet
<1>9. CASE T # {}
  <2> DEFINE p == Pick(T)
  <2>1. p \in T
    BY <1>9 DEF Pick
  <2>2. Sum(T) = F[p] + Sum(T \ {p})
    BY <1>5, <1>9, SumUnfolds
  <2>3. F[p] \in Nat /\ Sum(T \ {p}) \in Nat
    BY <1>7, <2>1
  <2>4. ASSUME NEW x \in T PROVE Sum(T) = F[x] + Sum(T \ {x})
    <3>1. CASE x = p
      BY <2>2, <3>1
    <3>2. CASE x # p
      <4>1. Sum(T \ {p}) = F[x] + Sum((T \ {p}) \ {x})
        BY <1>7, <2>1, <3>2
      <4>2. Sum(T \ {x}) = F[p] + Sum((T \ {x}) \ {p})
        BY <1>7, <2>1, <3>2
      <4>3. (T \ {p}) \ {x} = (T \ {x}) \ {p}
        OBVIOUS
      <4>4. Sum((T \ {x}) \ {p}) \in Nat
        <5>1. Fine((T \ {x}) \ {p})
          <6>1. /\ IsFiniteSet(T \ {x}) /\ Cardinality(T \ {x}) = n - 1
                /\ Cardinality(T \ {x}) \in Nat
            BY <1>4, <1>5, FS_RemoveElement, FS_CardinalityType
          <6>2. /\ Cardinality((T \ {x}) \ {p}) = n - 2
                /\ Cardinality((T \ {x}) \ {p}) \in Nat
            <7>1. p \in T \ {x}
              BY <2>1, <3>2
            <7> HIDE DEF p
            <7>2. /\ Cardinality((T \ {x}) \ {p}) = Cardinality(T \ {x}) - 1
                  /\ IsFiniteSet((T \ {x}) \ {p})
              BY <6>1, <7>1, FS_RemoveElement
            <7>3. Cardinality((T \ {x}) \ {p}) \in Nat
              BY <7>2, FS_CardinalityType
            <7> QED
              BY <1>5, <6>1, <7>2, <7>3
          <6> HIDE DEF Fine, p
          <6> QED
            BY <1>5, <1>6, <6>2
        <5> QED
          BY <5>1
      <4>5. F[x] \in Nat
        OBVIOUS
      <4> HIDE DEF Sum, p
      <4> QED
        BY <2>2, <2>3, <4>1, <4>2, <4>3, <4>4, <4>5
    <3> QED
      BY <3>1, <3>2
  <2>5. Sum(T) \in Nat
    BY <2>2, <2>3
  <2> QED
    BY <1>4, <2>4, <2>5
<1> QED
  BY <1>8, <1>9

\* Sums over sets that match are equal.
LEMMA SumBijection ==
  ASSUME NEW S, IsFiniteSet(S), NEW T, IsFiniteSet(T), NEW m \in Bijection(S, T),
         NEW F, \A t \in T : F[t] \in Nat, NEW G, \A s \in S : G[s] = F[m[s]]
  PROVE  SumFunctionOnSet(G, S) = SumFunctionOnSet(F, T)
<1> DEFINE Image(U) == {m[s] : s \in U}
           Bad == {n \in Nat : \E U \in SUBSET S :
                     /\ Cardinality(U) = n
                     /\ SumFunctionOnSet(G, U) # SumFunctionOnSet(F, Image(U))}
<1>1. m \in [S -> T] /\ (\A a, b \in S : m[a] = m[b] => a = b) /\ T = Image(S)
  BY DEF Bijection, Injection, Surjection, IsInjective
<1>2. SUFFICES Bad = {}
  <2>1. Cardinality(S) \in Nat
    BY FS_CardinalityType
  <2> QED
    BY <1>1, <1>2, <2>1
<1>3. SUFFICES ASSUME Bad # {} PROVE FALSE
  OBVIOUS
<1>4. PICK n \in Bad : \A k \in Bad : n <= k
  <2>1. Bad \in SUBSET Nat
    OBVIOUS
  <2> HIDE DEF Bad
  <2> QED
    BY <1>3, <2>1, LeastNumber
<1>5. PICK U \in SUBSET S : /\ Cardinality(U) = n
                            /\ SumFunctionOnSet(G, U) # SumFunctionOnSet(F, Image(U))
  BY <1>4
<1>6. n \in Nat /\ IsFiniteSet(U)
  BY FS_Subset
<1>7. CASE U = {}
  <2>1. Image(U) = {}
    BY <1>7
  <2> QED
    BY <1>5, <1>7, <2>1, SumUnfolds, FS_EmptySet
<1>8. ASSUME NEW x \in U PROVE FALSE
  <2> DEFINE V == U \ {x}
  <2>1. V \in SUBSET S /\ Cardinality(V) = n - 1 /\ Cardinality(V) \in Nat
    BY <1>5, <1>6, FS_RemoveElement, FS_CardinalityType
  <2>2. SumFunctionOnSet(G, V) = SumFunctionOnSet(F, Image(V))
    <3>1. n - 1 \notin Bad
      <4> HIDE DEF Bad
      <4> QED
        BY <1>4, <1>6
    <3> HIDE DEF V, Image
    <3> QED
      BY <2>1, <3>1
  <2>3. Image(V) = Image(U) \ {m[x]} /\ m[x] \in Image(U) /\ Image(U) \in SUBSET T
    BY <1>1
  <2>4. IsFiniteSet(Image(U))
    BY <2>3, FS_Subset
  <2>5. SumFunctionOnSet(F, Image(U)) = F[m[x]] + SumFunctionOnSet(F, Image(U) \ {m[x]})
    <3> HIDE DEF Image
    <3> QED
      BY <2>3, <2>4, SumRemove
  <2>6. \A s \in U : G[s] \in Nat
    BY <1>1
  <2>7. SumFunctionOnSet(G, U) = G[x] + SumFunctionOnSet(G, V)
    BY <1>6, <2>6, SumRemove
  <2>8. G[x] = F[m[x]]
    OBVIOUS
  <2> HIDE DEF V, Image
  <2> QED
    BY <1>5, <2>2, <2>3, <2>5, <2>7, <2>8
<1> QED
  BY <1>7, <1>8

\* A sum whose terms grow does not shrink.
LEMMA SumMonotonic ==
  ASSUME NEW S, IsFiniteSet(S), NEW F, \A s \in S : F[s] \in Nat,
         NEW G, \A s \in S : G[s] \in Nat /\ F[s] <= G[s]
  PROVE  SumFunctionOnSet(F, S) <= SumFunctionOnSet(G, S)
<1> DEFINE Bad == {n \in Nat : \E U \in SUBSET S :
                     /\ Cardinality(U) = n
                     /\ ~(SumFunctionOnSet(F, U) <= SumFunctionOnSet(G, U))}
<1>1. SUFFICES Bad = {}
  <2>1. Cardinality(S) \in Nat
    BY FS_CardinalityType
  <2> QED
    BY <1>1, <2>1
<1>2. SUFFICES ASSUME Bad # {} PROVE FALSE
  OBVIOUS
<1>3. PICK n \in Bad : \A k \in Bad : n <= k
  <2>1. Bad \in SUBSET Nat
    OBVIOUS
  <2> HIDE DEF Bad
  <2> QED
    BY <1>2, <2>1, LeastNumber
<1>4. PICK U \in SUBSET S : /\ Cardinality(U) = n
                            /\ ~(SumFunctionOnSet(F, U) <= SumFunctionOnSet(G, U))
  BY <1>3
<1>5. n \in Nat /\ IsFiniteSet(U)
  BY FS_Subset
<1>6. CASE U = {}
  <2>1. SumFunctionOnSet(F, U) = 0 /\ SumFunctionOnSet(G, U) = 0
    BY <1>6, SumUnfolds, FS_EmptySet
  <2> QED
    BY <1>4, <2>1
<1>7. ASSUME NEW x \in U PROVE FALSE
  <2> DEFINE V == U \ {x}
  <2>1. V \in SUBSET S /\ IsFiniteSet(V) /\ Cardinality(V) = n - 1 /\ Cardinality(V) \in Nat
    BY <1>4, <1>5, FS_RemoveElement, FS_CardinalityType
  <2>2. SumFunctionOnSet(F, V) <= SumFunctionOnSet(G, V)
    <3>1. n - 1 \notin Bad
      <4> HIDE DEF Bad
      <4> QED
        BY <1>3, <1>5
    <3> HIDE DEF V
    <3> QED
      BY <2>1, <3>1
  <2>3. /\ SumFunctionOnSet(F, V) \in Nat /\ SumFunctionOnSet(G, V) \in Nat
        /\ SumFunctionOnSet(F, U) = F[x] + SumFunctionOnSet(F, V)
        /\ SumFunctionOnSet(G, U) = G[x] + SumFunctionOnSet(G, V)
    BY <1>5, <2>1, SumRemove
  <2>4. F[x] \in Nat /\ G[x] \in Nat /\ F[x] <= G[x]
    OBVIOUS
  <2> HIDE DEF V
  <2> QED
    BY <1>4, <2>2, <2>3, <2>4
<1> QED
  BY <1>6, <1>7

-----------------------------------------------------------------------------
\* The bound of the last bucket is a number.
LEMMA InfIsNat == Inf \in Nat
BY SMT DEF Inf

\* The least and the greatest bound of a set.
LEMMA LeastBound ==
  ASSUME NEW S \in SUBSET Nat, S # {}
  PROVE  Min(S) \in S /\ \A y \in S : Min(S) <= y
BY LeastNumber DEF Min

LEMMA GreatestBound ==
  ASSUME NEW S \in SUBSET Nat, S # {}, NEW top \in Nat, \A x \in S : x <= top
  PROVE  Max(S) \in S /\ \A y \in S : y <= Max(S)
<1> DEFINE T == {top - x : x \in S}
<1>1. T \in SUBSET Nat /\ T # {}
  <2>1. \A x \in S : top - x \in Nat
    OBVIOUS
  <2>2. PICK x \in S : TRUE
    OBVIOUS
  <2>3. top - x \in T
    OBVIOUS
  <2> QED
    BY <2>1, <2>3
<1>2. PICK low \in T : \A y \in T : low <= y
  <2> HIDE DEF T
  <2> QED
    BY <1>1, LeastNumber
<1>3. PICK x \in S : low = top - x
  OBVIOUS
<1>4. ASSUME NEW y \in S PROVE x >= y
  <2>1. top - y \in T
    OBVIOUS
  <2>2. low <= top - y
    BY <1>2, <2>1
  <2>3. x \in Nat /\ y \in Nat
    OBVIOUS
  <2> QED
    BY <1>3, <2>2, <2>3
<1>5. Max(S) \in S /\ \A y \in S : Max(S) >= y
  BY <1>4 DEF Max
<1>6. Max(S) \in Nat
  BY <1>5
<1> QED
  BY <1>5, <1>6

(***************************************************************************)
(* Whatever a histogram holds, its quantile is the tightest finite bound that   *)
(* reaches the share, or the greatest one if none does; a share of less than      *)
(* one request counts as one (histogramQuantile, latency_tools.go:422).           *)
(***************************************************************************)
Reaches(series, percent, b) ==
  series.buckets[b] * 100 >= AtLeast(series.count * percent, 100)

Tightest(q, bounds, series, percent) ==
  /\ q \in bounds
  /\ \/ Reaches(series, percent, q)
     \/ \A b \in bounds : ~Reaches(series, percent, b) /\ b <= q
  /\ \A b \in bounds : b < q => ~Reaches(series, percent, b)

THEOREM QuantileTight ==
  ASSUME NEW series, NEW D \in SUBSET (1..Inf), D \ {Inf} # {},
         series.buckets \in [D -> Nat], series.count \in Nat \ {0}, NEW percent \in 1..100
  PROVE  Tightest(HistogramQuantile(series, percent), D \ {Inf}, series, percent)
<1> DEFINE q == HistogramQuantile(series, percent)
           fine == D \ {Inf}
           hit == {b \in D : Reaches(series, percent, b)}
<1>1. DOMAIN series.buckets = D /\ ~(series.count <= 0)
  OBVIOUS
<1>2. q = IF hit \ {Inf} # {} THEN Min(hit \ {Inf}) ELSE Max({0} \union fine)
  <2> DEFINE R == {b \in DOMAIN series.buckets :
                     series.buckets[b] * 100 >= AtLeast(series.count * percent, 100)}
  <2>1. R = hit
    BY <1>1 DEF Reaches
  <2>2. q = IF series.count <= 0 THEN 0
            ELSE IF R \ {Inf} # {} THEN Min(R \ {Inf})
            ELSE Max({0} \union (DOMAIN series.buckets \ {Inf}))
    BY DEF HistogramQuantile
  <2> HIDE DEF R, q, hit
  <2> QED
    BY <1>1, <2>1, <2>2
<1>3. fine \in SUBSET Nat /\ \A b \in fine : b > 0 /\ b <= Inf
  BY InfIsNat
<1>4. CASE hit \ {Inf} # {}
  <2> DEFINE H == hit \ {Inf}
  <2>1. H \in SUBSET Nat /\ H # {} /\ H \subseteq fine
    BY <1>3, <1>4
  <2>2. q \in H /\ \A b \in H : q <= b
    <3> HIDE DEF H
    <3> QED
      BY <1>2, <1>4, <2>1, LeastBound DEF H
  <2>3. ASSUME NEW b \in fine, b < q PROVE ~Reaches(series, percent, b)
    <3>1. b \notin H
      BY <1>3, <2>1, <2>2, <2>3
    <3> QED
      BY <3>1
  <2> QED
    BY <2>1, <2>2, <2>3 DEF Tightest
<1>5. CASE hit \ {Inf} = {}
  <2> DEFINE Z == {0} \union fine
  <2>1. Z \in SUBSET Nat /\ Z # {} /\ Inf \in Nat /\ \A x \in Z : x <= Inf
    BY <1>3, InfIsNat
  <2>2. Max(Z) \in Z /\ \A b \in Z : b <= Max(Z)
    <3> HIDE DEF Z
    <3> QED
      BY <2>1, GreatestBound
  <2>3. q = Max(Z)
    BY <1>2, <1>5
  <2>4. q # 0
    <3>1. PICK b \in fine : TRUE
      OBVIOUS
    <3>2. b <= q /\ b > 0 /\ b \in Nat
      BY <1>3, <2>2, <2>3
    <3> QED
      BY <2>1, <2>2, <2>3, <3>2
  <2>5. q \in fine /\ \A b \in fine : b <= q
    BY <2>2, <2>3, <2>4
  <2>6. \A b \in fine : ~Reaches(series, percent, b)
    BY <1>5
  <2> QED
    BY <2>5, <2>6 DEF Tightest
<1> QED
  BY <1>4, <1>5

-----------------------------------------------------------------------------
\* The timeouts for one p95: whole seconds within the limit, never short of it
\* unless cut.
Covered(t, max, ms) == t = max \/ t * 1000 >= ms

\* Whatever is converted, an int comes out.
LEMMA IntsOnly ==
  ASSUME NEW v \in Int
  PROVE  ToInt(v) \in Int
BY IntAssumption DEF IntAssumption, Ints, ToInt

LEMMA SecondsBounded ==
  ASSUME NEW ms \in Int, NEW max \in Nat \ {0}
  PROVE  Seconds(ms, max) \in 1..max
<1>1. CeilSeconds(ms) \in Int
  BY SMT DEF CeilSeconds
<1>2. ToInt(CeilSeconds(ms)) \in Int
  BY <1>1, IntsOnly
<1> QED
  BY <1>2, SMT DEF Seconds

\* Seconds that an int holds come out of the conversion as they are.
LEMMA SecondsThatFit ==
  ASSUME NEW ms \in Nat, Fits(ms), NEW max \in Nat \ {0}
  PROVE  /\ CeilSeconds(ms) \in Nat /\ CeilSeconds(ms) * 1000 >= ms
         /\ Seconds(ms, max) = IF CeilSeconds(ms) < 1 THEN 1
                               ELSE IF CeilSeconds(ms) > max THEN max ELSE CeilSeconds(ms)
<1>1. CeilSeconds(ms) \in Nat /\ CeilSeconds(ms) * 1000 >= ms
  BY SMT DEF CeilSeconds
<1>2. ToInt(CeilSeconds(ms)) = CeilSeconds(ms)
  BY <1>1, IntAssumption DEF IntAssumption, Fits, ToInt
<1> QED
  BY <1>1, <1>2 DEF Seconds

LEMMA SecondsCover ==
  ASSUME NEW ms \in Nat, Fits(ms), NEW max \in Nat \ {0}
  PROVE  Covered(Seconds(ms, max), max, ms)
<1> DEFINE c == CeilSeconds(ms)
<1>1. c \in Nat /\ c * 1000 >= ms
  BY SecondsThatFit
<1>2. Seconds(ms, max) = IF c < 1 THEN 1 ELSE IF c > max THEN max ELSE c
  BY SecondsThatFit
<1> HIDE DEF c
<1> QED
  BY <1>1, <1>2, SMT DEF Covered

LEMMA SecondsMonotonic ==
  ASSUME NEW low \in Nat, NEW high \in Nat, low <= high, Fits(high),
         NEW max \in Nat \ {0}
  PROVE  Seconds(low, max) <= Seconds(high, max)
<1>1. CeilSeconds(low) <= CeilSeconds(high) /\ CeilSeconds(low) \in Int
      /\ CeilSeconds(high) \in Int
  BY SMT DEF CeilSeconds
<1>2. Fits(low)
  BY <1>1, IntAssumption DEF Fits, IntAssumption
<1> DEFINE c == CeilSeconds(low)
           d == CeilSeconds(high)
<1>3. Seconds(low, max) = IF c < 1 THEN 1 ELSE IF c > max THEN max ELSE c
  BY <1>2, SecondsThatFit
<1>4. Seconds(high, max) = IF d < 1 THEN 1 ELSE IF d > max THEN max ELSE d
  BY SecondsThatFit
<1>5. c \in Int /\ d \in Int /\ c <= d
  BY <1>1
<1> HIDE DEF c, d
<1> QED
  BY <1>3, <1>4, <1>5, SMT

\* What takes less time fits if the longer does.
LEMMA LessFits ==
  ASSUME NEW low \in Nat, NEW high \in Nat, low <= high, Fits(high)
  PROVE  Fits(low)
<1>1. CeilSeconds(low) <= CeilSeconds(high) /\ CeilSeconds(low) \in Int
      /\ CeilSeconds(high) \in Int
  BY SMT DEF CeilSeconds
<1> QED
  BY <1>1, IntAssumption DEF Fits, IntAssumption

\* What a caller gives, the options are within their limits.
LEMMA OptionsBounded ==
  ASSUME NEW opts \in AllOptions
  PROVE  /\ opts.minSamples \in Nat \ {0} /\ opts.safety \in Nat \ {0}
         /\ opts.quantile \in 1..100
         /\ opts.minConnect \in Nat \ {0} /\ opts.minRead \in Nat \ {0}
         /\ opts.maxConnect \in Nat \ {0} /\ opts.maxRead \in Nat \ {0}
         /\ opts.non2xx \in BOOLEAN
<1>1. PICK raw \in Options(Int) : opts = TuningOptions(raw)
  BY TrafficAssumption DEF TrafficAssumption, AllOptions
<1>2. /\ ToInt(raw.minSamples) \in Int /\ ToInt(raw.maxConnect) \in Int
      /\ ToInt(raw.maxRead) \in Int
  BY IntsOnly DEF Options
<1> QED
  BY <1>1, <1>2 DEF Options, TuningOptions, AtLeast

\* A basis that covers the p95 with the safety factor.
Basis(p95, floor, safety) == AtLeast((IF p95 <= 0 THEN floor ELSE p95) * safety, floor)

LEMMA BasisCovers ==
  ASSUME NEW p95 \in Nat, NEW floor \in Nat \ {0}, NEW safety \in Nat \ {0}
  PROVE  /\ Basis(p95, floor, safety) \in Nat
         /\ Basis(p95, floor, safety) >= p95 * safety /\ Basis(p95, floor, safety) >= floor
<1>1. p95 * safety \in Nat /\ floor * safety \in Nat
  OBVIOUS
<1>2. p95 = 0 => p95 * safety = 0
  OBVIOUS
<1> QED
  BY <1>1, <1>2 DEF Basis, AtLeast

\* It fits an int where its parts do.
LEMMA BasisFits ==
  ASSUME NEW p95 \in Nat, NEW floor \in Nat \ {0}, NEW safety \in Nat \ {0},
         Fits(p95 * safety), Fits(floor * safety)
  PROVE  Fits(Basis(p95, floor, safety))
<1>1. floor <= floor * safety /\ floor * safety \in Nat
  OBVIOUS
<1>2. Fits(floor)
  BY <1>1, LessFits
<1> QED
  BY <1>2 DEF Basis, AtLeast

LEMMA BasisMonotonic ==
  ASSUME NEW low \in Nat \ {0}, NEW high \in Nat, low <= high,
         NEW floor \in Nat \ {0}, NEW safety \in Nat \ {0}
  PROVE  Basis(low, floor, safety) <= Basis(high, floor, safety)
<1>1. low * safety <= high * safety /\ low * safety \in Nat /\ high * safety \in Nat
  OBVIOUS
<1>2. ~(low <= 0) /\ ~(high <= 0)
  OBVIOUS
<1> QED
  BY <1>1, <1>2 DEF Basis, AtLeast

(***************************************************************************)
(* Whatever the options, recommended timeouts are whole seconds between one and *)
(* the limit.  They cover the minimum and the p95 with the safety factor unless     *)
(* the limit cuts them, or the seconds do not fit an int and come out of the          *)
(* conversion as another number (recommendTimeouts, latency_tools.go:398-412).         *)
(***************************************************************************)
Cover(t, connect, total, opts) ==
  /\ t.read \in 1..opts.maxRead /\ t.connect \in 1..opts.maxConnect
  /\ t.send = t.read
  /\ (Fits(total * opts.safety) /\ Fits(opts.minRead * opts.safety)) =>
       \/ t.read = opts.maxRead
       \/ t.read * 1000 >= total * opts.safety /\ t.read * 1000 >= opts.minRead
  /\ (Fits(connect * opts.safety) /\ Fits(opts.minConnect * opts.safety)) =>
       \/ t.connect = opts.maxConnect
       \/ t.connect * 1000 >= connect * opts.safety /\ t.connect * 1000 >= opts.minConnect

THEOREM RecommendedCover ==
  ASSUME NEW opts \in AllOptions, NEW connect \in Nat, NEW total \in Nat
  PROVE  Cover(RecommendTimeouts(connect, total, opts), connect, total, opts)
<1> DEFINE t == RecommendTimeouts(connect, total, opts)
           b == Basis(total, opts.minRead, opts.safety)
           c == Basis(connect, opts.minConnect, opts.safety)
<1>1. /\ opts.safety \in Nat \ {0} /\ opts.minConnect \in Nat \ {0}
      /\ opts.minRead \in Nat \ {0} /\ opts.maxConnect \in Nat \ {0}
      /\ opts.maxRead \in Nat \ {0}
  BY OptionsBounded
<1>2. /\ t.read = Seconds(b, opts.maxRead) /\ t.send = t.read
      /\ t.connect = Seconds(c, opts.maxConnect)
  BY DEF RecommendTimeouts, Basis
<1>3. /\ b \in Nat /\ b >= total * opts.safety /\ b >= opts.minRead
      /\ c \in Nat /\ c >= connect * opts.safety /\ c >= opts.minConnect
  BY <1>1, BasisCovers
<1>4. total * opts.safety \in Nat /\ connect * opts.safety \in Nat
  BY <1>1
<1>5. /\ Fits(total * opts.safety) /\ Fits(opts.minRead * opts.safety) => Fits(b)
      /\ Fits(connect * opts.safety) /\ Fits(opts.minConnect * opts.safety) => Fits(c)
  BY <1>1, BasisFits
<1> HIDE DEF b, c, t
<1>6. t.read \in 1..opts.maxRead /\ t.connect \in 1..opts.maxConnect
  <2>1. b \in Int /\ c \in Int
    BY <1>3
  <2> QED
    BY <1>1, <1>2, <2>1, SecondsBounded
<1>7. ASSUME Fits(total * opts.safety), Fits(opts.minRead * opts.safety)
      PROVE  \/ t.read = opts.maxRead
             \/ t.read * 1000 >= total * opts.safety /\ t.read * 1000 >= opts.minRead
  <2>1. Covered(t.read, opts.maxRead, b)
    BY <1>1, <1>2, <1>3, <1>5, <1>7, SecondsCover
  <2> QED
    BY <1>1, <1>3, <1>4, <1>6, <2>1, SMT DEF Covered
<1>8. ASSUME Fits(connect * opts.safety), Fits(opts.minConnect * opts.safety)
      PROVE  \/ t.connect = opts.maxConnect
             \/ t.connect * 1000 >= connect * opts.safety /\ t.connect * 1000 >= opts.minConnect
  <2>1. Covered(t.connect, opts.maxConnect, c)
    BY <1>1, <1>2, <1>3, <1>5, <1>8, SecondsCover
  <2> QED
    BY <1>1, <1>3, <1>4, <1>6, <2>1, SMT DEF Covered
<1> QED
  BY <1>2, <1>6, <1>7, <1>8 DEF t, Cover

(***************************************************************************)
(* Slower traffic is never given a shorter read timeout under the same options, *)
(* where what it needs fits an int.                                               *)
(***************************************************************************)
THEOREM RecommendedMonotonic ==
  ASSUME NEW opts \in AllOptions, NEW c1 \in Nat, NEW c2 \in Nat,
         NEW low \in Nat \ {0}, NEW high \in Nat, low <= high,
         Fits(high * opts.safety), Fits(opts.minRead * opts.safety)
  PROVE  RecommendTimeouts(c1, low, opts).read <= RecommendTimeouts(c2, high, opts).read
<1> DEFINE b(p) == Basis(p, opts.minRead, opts.safety)
<1>1. /\ opts.safety \in Nat \ {0} /\ opts.minRead \in Nat \ {0}
      /\ opts.maxRead \in Nat \ {0}
  BY OptionsBounded
<1>2. /\ RecommendTimeouts(c1, low, opts).read = Seconds(b(low), opts.maxRead)
      /\ RecommendTimeouts(c2, high, opts).read = Seconds(b(high), opts.maxRead)
  BY DEF RecommendTimeouts, Basis
<1>3. b(low) \in Nat /\ b(high) \in Nat
  BY <1>1, BasisCovers
<1>4. b(low) <= b(high)
  BY <1>1, BasisMonotonic
<1>5. Fits(b(high))
  BY <1>1, BasisFits
<1> HIDE DEF b
<1> QED
  BY <1>1, <1>2, <1>3, <1>4, <1>5, SecondsMonotonic

-----------------------------------------------------------------------------
\* What the counters of the gateway can be.
Counts == [Streams -> [Buckets -> Nat]]
Loads  == [Phases -> Counts]

Histograms(l, C, phase) == {Histogram(l, s, phase) : s \in C}
TotalOf(l, C, b) == SumFunctionOnSet([s \in Streams |-> l[s][b]], C)

\* A histogram tells its stream.
LabelOf(h) == [key |-> KeyOf(h), class |-> h.class]

LEMMA LabelTold ==
  ASSUME NEW l, NEW s \in Streams, NEW p
  PROVE  /\ KeyOf(Histogram(l, s, p)) = Label[s].key
         /\ LabelOf(Histogram(l, s, p)) = Label[s]
<1>1. Label[s] \in Labels
  BY TrafficAssumption DEF TrafficAssumption
<1>2. /\ Label[s].key = [route |-> Label[s].key.route, upstream |-> Label[s].key.upstream,
                         service |-> Label[s].key.service]
      /\ Label[s] = [key |-> Label[s].key, class |-> Label[s].class]
  BY <1>1 DEF Labels
<1>3. KeyOf(Histogram(l, s, p)) = Label[s].key
  BY <1>2 DEF KeyOf, Histogram
<1> QED
  BY <1>2, <1>3 DEF LabelOf, Histogram

\* The histograms of some streams, added up, are those streams' traffic.
LEMMA AddedUp ==
  ASSUME NEW l \in Loads, NEW C \in SUBSET Streams, NEW phase \in Phases
  PROVE  /\ Merged(Histograms(l, C, phase)).count = TotalOf(l[phase], C, Inf)
         /\ C # {} => Merged(Histograms(l, C, phase)).buckets =
                        [b \in Buckets |-> TotalOf(l[phase], C, b)]
<1> DEFINE H == {Histogram(l, s, phase) : s \in C}
           m == [s \in C |-> Histogram(l, s, phase)]
<1>1. IsFiniteSet(C)
  BY FS_Subset, TrafficAssumption DEF TrafficAssumption
<1>2. m \in Bijection(C, H)
  <2>1. m \in [C -> H]
    OBVIOUS
  <2>2. ASSUME NEW a \in C, NEW b \in C, m[a] = m[b] PROVE a = b
    <3>1. LabelOf(m[a]) = Label[a] /\ LabelOf(m[b]) = Label[b]
      BY LabelTold
    <3> QED
      BY <2>2, <3>1, TrafficAssumption DEF TrafficAssumption
  <2>3. \A h \in H : \E s \in C : m[s] = h
    OBVIOUS
  <2> HIDE DEF m, H
  <2> QED
    BY <2>1, <2>2, <2>3 DEF Bijection, Injection, Surjection, IsInjective
<1>3. IsFiniteSet(H)
  <2> HIDE DEF m, H
  <2>1. ExistsBijection(C, H)
    BY <1>2 DEF ExistsBijection
  <2> QED
    BY <1>1, <2>1, FS_Bijection
<1>4. \A s \in C : m[s] \in H /\ m[s].count = l[phase][s][Inf] /\ m[s].buckets = l[phase][s]
  BY DEF Histogram
<1>5. \A h \in H : h.count \in Nat /\ h.buckets \in [Buckets -> Nat]
  <2>1. \A s \in C : l[phase][s] \in [Buckets -> Nat] /\ Inf \in Buckets
    BY DEF Loads, Counts, Buckets
  <2> QED
    BY <2>1 DEF Histogram
<1>6. Merged(H).count = SumFunctionOnSet([s \in Streams |-> l[phase][s][Inf]], C)
  <2> DEFINE F == [h \in H |-> h.count]
             G == [s \in Streams |-> l[phase][s][Inf]]
  <2>1. DOMAIN F = H /\ \A h \in H : F[h] \in Nat
    BY <1>5
  <2>2. \A s \in C : G[s] = F[m[s]]
    BY <1>4
  <2>3. Merged(H).count = SumFunctionOnSet(F, H)
    BY <2>1 DEF Merged, SumFunction
  <2>4. SumFunctionOnSet(G, C) = SumFunctionOnSet(F, H)
    <3> HIDE DEF F, G, m, H
    <3> QED
      BY <1>1, <1>2, <1>3, <2>1, <2>2, SumBijection
  <2> QED
    BY <2>3, <2>4
<1>7. ASSUME C # {}
      PROVE  Merged(H).buckets =
               [b \in Buckets |-> SumFunctionOnSet([s \in Streams |-> l[phase][s][b]], C)]
  <2>1. UNION {DOMAIN h.buckets : h \in H} = Buckets
    <3>1. PICK s \in C : TRUE
      BY <1>7
    <3>2. m[s] \in H
      OBVIOUS
    <3>3. \A h \in H : DOMAIN h.buckets = Buckets
      BY <1>5
    <3> HIDE DEF m, H
    <3> QED
      BY <3>2, <3>3
  <2>2. ASSUME NEW b \in Buckets
        PROVE  SumFunction([h \in {x \in H : b \in DOMAIN x.buckets} |-> h.buckets[b]])
                 = SumFunctionOnSet([s \in Streams |-> l[phase][s][b]], C)
    <3> DEFINE F == [h \in H |-> h.buckets[b]]
               G == [s \in Streams |-> l[phase][s][b]]
    <3>1. {x \in H : b \in DOMAIN x.buckets} = H
      BY <1>5
    <3>2. DOMAIN F = H /\ \A h \in H : F[h] \in Nat
      BY <1>5
    <3>3. \A s \in C : G[s] = F[m[s]]
      BY <1>4
    <3>4. SumFunctionOnSet(G, C) = SumFunctionOnSet(F, H)
      <4> HIDE DEF F, G, m, H
      <4> QED
        BY <1>1, <1>2, <1>3, <3>2, <3>3, SumBijection
    <3>5. SumFunction(F) = SumFunctionOnSet(F, H)
      BY <3>2 DEF SumFunction
    <3> QED
      BY <3>1, <3>4, <3>5
  <2> HIDE DEF H
  <2> QED
    BY <2>1, <2>2 DEF Merged
<1>8. H = Histograms(l, C, phase)
  BY DEF Histograms
<1> HIDE DEF H
<1> QED
  BY <1>6, <1>7, <1>8 DEF TotalOf

\* The histograms of a key are those of its streams that count.
OfKey(scrape, key, phase, opts) ==
  {h \in scrape : Selected(h, opts) /\ KeyOf(h) = key /\ h.phase = phase}

LEMMA HistogramsOfKey ==
  ASSUME NEW l, NEW opts \in AllOptions, NEW key \in Keys, NEW phase \in Phases
  PROVE  OfKey(Scrape(l), key, phase, opts)
           = IF Admits(opts, key) THEN Histograms(l, Counted(key, opts), phase) ELSE {}
<1> DEFINE L == {h \in Scrape(l) : Selected(h, opts) /\ KeyOf(h) = key /\ h.phase = phase}
           R == IF Admits(opts, key) THEN {Histogram(l, s, phase) : s \in Counted(key, opts)}
                ELSE {}
<1>1. ASSUME NEW s \in Streams, NEW p \in Phases
      PROVE  LET h == Histogram(l, s, p)
             IN  (Selected(h, opts) /\ KeyOf(h) = key /\ h.phase = phase)
                   <=> (Admits(opts, key) /\ s \in Counted(key, opts) /\ p = phase)
  <2> DEFINE h == Histogram(l, s, p)
  <2>1. /\ h.route = Label[s].key.route /\ h.upstream = Label[s].key.upstream
        /\ h.phase = p /\ h.class = Label[s].class
    BY DEF Histogram
  <2>2. KeyOf(h) = Label[s].key
    BY LabelTold
  <2>3. h.phase # All
    BY <2>1 DEF All, Phases
  <2>4. s \in Counted(key, opts) <=>
          Label[s].key = key /\ (opts.non2xx \/ Label[s].class = "2xx")
    BY DEF Counted
  <2>5. Selected(h, opts) <=>
          Admits(opts, Label[s].key) /\ (opts.non2xx \/ Label[s].class = "2xx")
    BY <2>1, <2>3 DEF Selected, Admits
  <2> HIDE DEF h
  <2> QED
    BY <2>1, <2>2, <2>4, <2>5 DEF h
<1>2. L \subseteq R
  <2> SUFFICES ASSUME NEW h \in L PROVE h \in R
    OBVIOUS
  <2>1. PICK s \in Streams, p \in Phases : h = Histogram(l, s, p)
    BY DEF Scrape
  <2>2. Admits(opts, key) /\ s \in Counted(key, opts) /\ p = phase
    BY <1>1, <2>1
  <2> QED
    BY <2>1, <2>2
<1>3. R \subseteq L
  <2> SUFFICES ASSUME NEW h \in R PROVE h \in L
    OBVIOUS
  <2>1. Admits(opts, key)
    OBVIOUS
  <2>2. PICK s \in Counted(key, opts) : h = Histogram(l, s, phase)
    BY <2>1
  <2>3. s \in Streams
    BY DEF Counted
  <2>4. h \in Scrape(l)
    BY <2>2, <2>3 DEF Scrape
  <2> QED
    BY <1>1, <2>1, <2>2, <2>3, <2>4
<1>4. R = IF Admits(opts, key) THEN Histograms(l, Counted(key, opts), phase) ELSE {}
  BY DEF Histograms
<1> HIDE DEF R
<1> QED
  BY <1>2, <1>3, <1>4 DEF OfKey

\* What the requests of a key are within a bound is a number, and requests are those
\* of some stream.
LEMMA WithinIsNat ==
  ASSUME NEW l \in Counts, NEW opts, NEW key, NEW b \in Buckets
  PROVE  /\ Within(l, key, b, opts) \in Nat
         /\ Counted(key, opts) = {} => Within(l, key, b, opts) = 0
<1> DEFINE F == [s \in Streams |-> l[s][b]]
<1>1. Counted(key, opts) \in SUBSET Streams
  BY DEF Counted
<1>2. IsFiniteSet(Counted(key, opts))
  BY <1>1, FS_Subset, TrafficAssumption DEF TrafficAssumption
<1>3. \A s \in Counted(key, opts) : F[s] \in Nat
  BY <1>1 DEF Counts
<1>4. Within(l, key, b, opts) = SumFunctionOnSet(F, Counted(key, opts))
  BY DEF Within
<1> HIDE DEF F
<1>5. SumFunctionOnSet(F, Counted(key, opts)) \in Nat
  BY <1>2, <1>3, SumRemove
<1>6. Counted(key, opts) = {} => SumFunctionOnSet(F, Counted(key, opts)) = 0
  BY <1>2, SumUnfolds
<1> QED
  BY <1>4, <1>5, <1>6

\* The series the traffic of a key amounts to.
Traffic(l, key, opts) ==
  [count |-> Within(l, key, Inf, opts), buckets |-> [b \in Buckets |-> Within(l, key, b, opts)]]

\* The series of a key is its traffic, in either phase; a key the options leave out
\* has none.
LEMMA SeriesIsTraffic ==
  ASSUME NEW l \in Loads, NEW opts \in AllOptions, NEW key \in Keys,
         NEW phase \in Phases
  PROVE  LET x == Series(Scrape(l), key, phase, opts)
         IN  /\ ~Admits(opts, key) => x.count = 0
             /\ Admits(opts, key) => x.count = Within(l[phase], key, Inf, opts)
             /\ Admits(opts, key) /\ Counted(key, opts) # {} => x = Traffic(l[phase], key, opts)
<1> DEFINE x == Series(Scrape(l), key, phase, opts)
           H == Histograms(l, Counted(key, opts), phase)
<1>1. Counted(key, opts) \in SUBSET Streams
  BY DEF Counted
<1>2. x = Merged(IF Admits(opts, key) THEN H ELSE {})
  <2>1. x = Merged(OfKey(Scrape(l), key, phase, opts))
    BY DEF Series, OfKey
  <2> QED
    BY <2>1, HistogramsOfKey
<1>3. ASSUME ~Admits(opts, key) PROVE x.count = 0
  <2> DEFINE F == [h \in {} |-> h.count]
  <2>1. x = Merged({})
    BY <1>2, <1>3
  <2>2. SumFunction(F) = SumFunctionOnSet(F, {})
    BY DEF SumFunction
  <2>3. x.count = SumFunction(F)
    BY <2>1 DEF Merged
  <2> HIDE DEF F
  <2> QED
    BY <2>2, <2>3, SumUnfolds, FS_EmptySet
<1>4. ASSUME Admits(opts, key) PROVE x.count = Within(l[phase], key, Inf, opts)
  <2>1. x = Merged(H)
    BY <1>2, <1>4
  <2>2. Merged(H).count = TotalOf(l[phase], Counted(key, opts), Inf)
    BY <1>1, AddedUp
  <2> QED
    BY <2>1, <2>2 DEF Within, TotalOf
<1>5. ASSUME Admits(opts, key), Counted(key, opts) # {} PROVE x = Traffic(l[phase], key, opts)
  <2>1. x = Merged(H)
    BY <1>2, <1>5
  <2>2. Merged(H).buckets = [b \in Buckets |-> TotalOf(l[phase], Counted(key, opts), b)]
    BY <1>1, <1>5, AddedUp
  <2>3. x = [count |-> x.count, buckets |-> x.buckets]
    BY <2>1 DEF Merged
  <2>4. x.buckets = [b \in Buckets |-> Within(l[phase], key, b, opts)]
    BY <2>1, <2>2 DEF Within, TotalOf
  <2> HIDE DEF x
  <2> QED
    BY <1>4, <1>5, <2>3, <2>4 DEF Traffic
<1> QED
  BY <1>3, <1>4, <1>5

-----------------------------------------------------------------------------
\* The keys with an entry, and the entry of each.
Eligible(l, opts) ==
  {key \in Keys : Admits(opts, key) /\ Within(l["total"], key, Inf, opts) >= opts.minSamples}

Slowness(c, key, opts) == HistogramQuantile(Traffic(c, key, opts), 95)
Connecting(c, key, opts) == P95(Traffic(c, key, opts), opts)

EntryOf(l, key, opts) ==
  Entry(key, Connecting(l["connect"], key, opts), Slowness(l["total"], key, opts), opts)

LEMMA EntryFields ==
  ASSUME NEW l, NEW key, NEW opts
  PROVE  /\ EntryOf(l, key, opts).key = key
         /\ EntryOf(l, key, opts).p95 = Slowness(l["total"], key, opts)
         /\ EntryOf(l, key, opts).timeout
              = RecommendTimeouts(Connecting(l["connect"], key, opts),
                                  Slowness(l["total"], key, opts), opts)
BY DEF EntryOf, Entry

LEMMA PhasesOfLoads ==
  ASSUME NEW l \in Loads
  PROVE  l["total"] \in Counts /\ l["connect"] \in Counts
BY DEF Loads, Phases

LEMMA TrafficOfEligible ==
  ASSUME NEW l \in Loads, NEW opts \in AllOptions, NEW key \in Eligible(l, opts)
  PROVE  /\ Within(l["total"], key, Inf, opts) \in Nat \ {0}
         /\ P95(Series(Scrape(l), key, "total", opts), opts) = Slowness(l["total"], key, opts)
         /\ P95(Series(Scrape(l), key, "connect", opts), opts)
              = Connecting(l["connect"], key, opts)
<1>1. Inf \in Buckets /\ key \in Keys /\ Admits(opts, key)
  BY DEF Buckets, Eligible
<1>2. Within(l["total"], key, Inf, opts) \in Nat
  BY <1>1, PhasesOfLoads, WithinIsNat
<1>3. Within(l["total"], key, Inf, opts) >= opts.minSamples /\ opts.minSamples \in Nat \ {0}
  BY OptionsBounded DEF Eligible
<1>4. Within(l["total"], key, Inf, opts) \in Nat \ {0}
  BY <1>2, <1>3
<1>5. Counted(key, opts) # {}
  BY <1>1, <1>4, PhasesOfLoads, WithinIsNat
<1>6. Series(Scrape(l), key, "total", opts) = Traffic(l["total"], key, opts)
  BY <1>1, <1>5, SeriesIsTraffic DEF Phases
<1>7. Series(Scrape(l), key, "connect", opts) = Traffic(l["connect"], key, opts)
  BY <1>1, <1>5, SeriesIsTraffic DEF Phases
<1>8. ~(Traffic(l["total"], key, opts).count < opts.minSamples)
  BY <1>2, <1>3 DEF Traffic
<1> QED
  BY <1>4, <1>6, <1>7, <1>8 DEF P95, Slowness, Connecting

\* analyze_latency answers one entry for each key with enough traffic, with the
\* quantile of that traffic.
LEMMA EntriesOfTraffic ==
  ASSUME NEW l \in Loads, NEW opts \in AllOptions
  PROVE  LatencyEntries(Scrape(l), opts) = {EntryOf(l, key, opts) : key \in Eligible(l, opts)}
<1> DEFINE K == {KeyOf(h) : h \in {x \in Scrape(l) :
                   Series(Scrape(l), KeyOf(x), "total", opts).count >= opts.minSamples}}
           E(k) == Entry(k, P95(Series(Scrape(l), k, "connect", opts), opts),
                            P95(Series(Scrape(l), k, "total", opts), opts), opts)
<1>1. LatencyEntries(Scrape(l), opts) = {E(k) : k \in K}
  BY DEF LatencyEntries
<1>2. ASSUME NEW s \in Streams, NEW p \in Phases
      PROVE  Histogram(l, s, p) \in Scrape(l)
               /\ KeyOf(Histogram(l, s, p)) = Label[s].key /\ Label[s].key \in Keys
  BY LabelTold DEF Scrape, Keys
<1>3. ASSUME NEW key \in Keys
      PROVE  Series(Scrape(l), key, "total", opts).count >= opts.minSamples
               <=> key \in Eligible(l, opts)
  <2>1. CASE Admits(opts, key)
    BY <2>1, SeriesIsTraffic DEF Eligible, Phases
  <2>2. CASE ~Admits(opts, key)
    <3>1. Series(Scrape(l), key, "total", opts).count = 0
      BY <2>2, SeriesIsTraffic DEF Phases
    <3>2. opts.minSamples \in Nat \ {0}
      BY OptionsBounded
    <3> QED
      BY <2>2, <3>1, <3>2 DEF Eligible
  <2> QED
    BY <2>1, <2>2
<1>4. ASSUME NEW k \in K PROVE k \in Eligible(l, opts)
  <2>1. PICK h \in Scrape(l) :
          k = KeyOf(h) /\ Series(Scrape(l), KeyOf(h), "total", opts).count >= opts.minSamples
    OBVIOUS
  <2>2. PICK s \in Streams, p \in Phases : h = Histogram(l, s, p)
    BY DEF Scrape
  <2>3. KeyOf(h) = Label[s].key /\ Label[s].key \in Keys
    BY <1>2, <2>2
  <2> QED
    BY <1>3, <2>1, <2>3
<1>5. ASSUME NEW key \in Eligible(l, opts) PROVE key \in K
  <2>1. key \in Keys
    BY DEF Eligible
  <2>2. PICK s \in Streams : key = Label[s].key
    BY <2>1 DEF Keys
  <2> DEFINE h == Histogram(l, s, "total")
  <2>3. h \in Scrape(l) /\ KeyOf(h) = key
    BY <1>2, <2>2 DEF Phases
  <2>4. Series(Scrape(l), KeyOf(h), "total", opts).count >= opts.minSamples
    BY <1>3, <2>1, <2>3
  <2> HIDE DEF h
  <2> QED
    BY <2>3, <2>4
<1>6. K = Eligible(l, opts)
  <2> HIDE DEF K
  <2> QED
    BY <1>4, <1>5
<1>7. ASSUME NEW key \in Eligible(l, opts) PROVE E(key) = EntryOf(l, key, opts)
  BY TrafficOfEligible DEF EntryOf
<1> HIDE DEF K, E
<1> QED
  BY <1>1, <1>6, <1>7

-----------------------------------------------------------------------------
\* A quantile that is told by the traffic it was taken from.
Tight(q, c, key, opts) ==
  /\ q \in Bounds
  /\ Covers(c, key, q, opts) \/ \A b \in Bounds : ~Covers(c, key, b, opts) /\ b <= q
  /\ \A b \in Bounds : b < q => ~Covers(c, key, b, opts)

LEMMA BoundsOfBuckets ==
  /\ Inf \notin Bounds /\ Buckets \ {Inf} = Bounds /\ Bounds # {}
  /\ Buckets \in SUBSET (1..Inf) /\ Inf \in Buckets /\ Bounds \in SUBSET (Nat \ {0})
<1>1. Bounds # {} /\ Bounds \subseteq 1..Inf - 1
  BY TrafficAssumption DEF TrafficAssumption
<1>2. Inf \in Nat \ {0}
  BY SMT DEF Inf
<1>3. /\ Inf \notin Bounds /\ Bounds \subseteq 1..Inf /\ Inf \in 1..Inf
      /\ Bounds \in SUBSET (Nat \ {0})
  BY <1>1, <1>2
<1> QED
  BY <1>1, <1>3 DEF Buckets

LEMMA SlownessIsTight ==
  ASSUME NEW c \in Counts, NEW opts, NEW key, Within(c, key, Inf, opts) \in Nat \ {0}
  PROVE  Tight(Slowness(c, key, opts), c, key, opts)
<1> DEFINE x == Traffic(c, key, opts)
           q == HistogramQuantile(x, 95)
<1>1. /\ Buckets \ {Inf} = Bounds /\ Bounds # {}
      /\ Buckets \in SUBSET (1..Inf) /\ Inf \in Buckets
  BY BoundsOfBuckets
<1>2. /\ x.buckets \in [Buckets -> Nat] /\ x.count \in Nat \ {0}
      /\ \A b \in Buckets : x.buckets[b] = Within(c, key, b, opts)
      /\ x.count = Within(c, key, Inf, opts)
  BY WithinIsNat DEF Traffic
<1>3. /\ q \in Bounds
      /\ Reaches(x, 95, q) \/ \A b \in Bounds : ~Reaches(x, 95, b) /\ b <= q
      /\ \A b \in Bounds : b < q => ~Reaches(x, 95, b)
  <2> HIDE DEF x, q
  <2>1. Buckets \ {Inf} # {} /\ 95 \in 1..100
    BY <1>1
  <2>2. Tightest(HistogramQuantile(x, 95), Buckets \ {Inf}, x, 95)
    BY <1>1, <1>2, <2>1, QuantileTight
  <2>3. Tightest(q, Bounds, x, 95)
    BY <1>1, <2>2 DEF q
  <2> QED
    BY <2>3 DEF Tightest
<1>4. ASSUME NEW b \in Bounds PROVE Reaches(x, 95, b) <=> Covers(c, key, b, opts)
  <2>1. b \in Buckets
    BY <1>1
  <2>2. x.buckets[b] \in Nat /\ x.buckets[b] = Within(c, key, b, opts)
    BY <1>2, <2>1
  <2> DEFINE w == Within(c, key, b, opts)
             n == Within(c, key, Inf, opts)
  <2>3. Reaches(x, 95, b) <=> w * 100 >= AtLeast(n * 95, 100)
    BY <1>2, <2>2 DEF Reaches
  <2>4. w \in Nat /\ n \in Nat \ {0}
    BY <1>2, <2>2
  <2> HIDE DEF w, n
  <2>5. w * 100 >= AtLeast(n * 95, 100) <=> w * 20 >= n * 19
    BY <2>4, SMT DEF AtLeast
  <2> QED
    BY <2>3, <2>5 DEF Covers, w, n
<1>5. q = Slowness(c, key, opts)
  BY DEF Slowness
<1> HIDE DEF x, q
<1> QED
  BY <1>3, <1>4, <1>5 DEF Tight

\* The quantile of a key with an entry.
LEMMA EligibleIsTight ==
  ASSUME NEW l \in Loads, NEW opts \in AllOptions, NEW key \in Eligible(l, opts)
  PROVE  /\ Tight(Slowness(l["total"], key, opts), l["total"], key, opts)
         /\ Slowness(l["total"], key, opts) \in Nat \ {0}
<1>1. l["total"] \in Counts
  BY PhasesOfLoads
<1>2. Within(l["total"], key, Inf, opts) \in Nat \ {0}
  BY TrafficOfEligible
<1>3. Tight(Slowness(l["total"], key, opts), l["total"], key, opts)
  BY <1>1, <1>2, SlownessIsTight
<1> QED
  BY <1>3, BoundsOfBuckets DEF Tight

\* What connecting takes is either not known, for want of requests, or told by the
\* traffic.
LEMMA ConnectingIsTight ==
  ASSUME NEW c \in Counts, NEW opts \in AllOptions, NEW key
  PROVE  /\ Connecting(c, key, opts) \in Nat /\ Connecting(c, key, opts) \in {0} \union Bounds
         /\ \/ Within(c, key, Inf, opts) < opts.minSamples
            \/ Tight(Connecting(c, key, opts), c, key, opts)
<1>1. Within(c, key, Inf, opts) \in Nat
  BY WithinIsNat, BoundsOfBuckets
<1>2. Connecting(c, key, opts)
        = IF Within(c, key, Inf, opts) < opts.minSamples THEN 0 ELSE Slowness(c, key, opts)
  BY DEF Connecting, P95, Traffic, Slowness
<1>3. CASE Within(c, key, Inf, opts) < opts.minSamples
  BY <1>2, <1>3
<1>4. CASE ~(Within(c, key, Inf, opts) < opts.minSamples)
  <2>1. opts.minSamples \in Nat \ {0}
    BY OptionsBounded
  <2>2. Within(c, key, Inf, opts) \in Nat \ {0}
    BY <1>1, <1>4, <2>1
  <2>3. Tight(Slowness(c, key, opts), c, key, opts)
    BY <2>2, SlownessIsTight
  <2>4. Connecting(c, key, opts) = Slowness(c, key, opts)
    BY <1>2, <1>4
  <2> QED
    BY <2>3, <2>4, BoundsOfBuckets DEF Tight
<1> QED
  BY <1>3, <1>4

\* What is answered follows from what the gateway counted.
Traced ==
  /\ load \in Loads
  /\ entries = Analyze(load)

LEMMA EntriesTraced ==
  ASSUME Traced, NEW opts \in AllOptions
  PROVE  entries[opts] = {EntryOf(load, key, opts) : key \in Eligible(load, opts)}
<1>1. load \in Loads /\ entries[opts] = LatencyEntries(Scrape(load), opts)
  BY DEF Traced, Analyze
<1> QED
  BY <1>1, EntriesOfTraffic

LEMMA InitTraced == Init => Traced
BY DEF Init, Traced, Loads, Counts, Buckets

\* What a batch adds to the counters of a stream.
LEMMA AddsToCounts ==
  ASSUME NEW c \in Counts, NEW s \in Streams, NEW b, NEW n \in Nat
  PROVE  [c EXCEPT ![s] = [x \in Buckets |-> IF x < b THEN @[x] ELSE @[x] + n]] \in Counts
<1>1. c[s] \in [Buckets -> Nat]
  BY DEF Counts
<1>2. [x \in Buckets |-> IF x < b THEN c[s][x] ELSE c[s][x] + n] \in [Buckets -> Nat]
  BY <1>1
<1> QED
  BY <1>2 DEF Counts

LEMMA StepTraced == Traced /\ [Next]_vars => Traced'
<1> SUFFICES ASSUME Traced, [Next]_vars PROVE Traced'
  OBVIOUS
<1>1. ASSUME NEW s \in Streams, NEW b \in Buckets, NEW n \in BatchSizes,
             NEW measured \in {{"total"}, Phases}, Observe(s, b, n, measured)
      PROVE  Traced'
  <2>1. n \in Nat
    BY TrafficAssumption DEF TrafficAssumption
  <2> DEFINE after(p) ==
               [load[p] EXCEPT ![s] = [x \in Buckets |-> IF x < b THEN @[x] ELSE @[x] + n]]
  <2>2. ASSUME NEW p \in Phases PROVE load[p] \in Counts /\ after(p) \in Counts
    <3>1. load[p] \in Counts
      BY DEF Traced, Loads
    <3> QED
      BY <2>1, <3>1, AddsToCounts
  <2>3. load' = [p \in Phases |-> IF p \in measured THEN after(p) ELSE load[p]]
    BY <1>1 DEF Observe
  <2> HIDE DEF after
  <2>4. load' \in Loads
    BY <2>2, <2>3 DEF Loads
  <2> QED
    BY <1>1, <2>4 DEF Observe, Traced
<1>2. CASE UNCHANGED vars
  BY <1>2 DEF vars, Traced, Analyze
<1> QED
  BY <1>1, <1>2 DEF Next

LEMMA AlwaysTraced == Spec => []Traced
BY InitTraced, StepTraced, PTL DEF Spec

(***************************************************************************)
(* The p95 of every entry is the tightest bound that 95 percent of the counted  *)
(* requests of its key stayed within, whatever the traffic was.                  *)
(***************************************************************************)
LEMMA TracedIsTight == Traced => QuantileIsTightest
<1> SUFFICES ASSUME Traced, NEW opts \in AllOptions, NEW e \in entries[opts]
             PROVE  Tight(e.p95, load["total"], e.key, opts)
  BY DEF QuantileIsTightest, Tight
<1>1. PICK key \in Eligible(load, opts) : e = EntryOf(load, key, opts)
  BY EntriesTraced
<1>2. load \in Loads /\ e.key = key /\ e.p95 = Slowness(load["total"], key, opts)
  BY <1>1, EntryFields DEF Traced
<1> QED
  BY <1>2, EligibleIsTight

THEOREM QuantileHolds == Spec => []QuantileIsTightest
BY AlwaysTraced, TracedIsTight, PTL

(***************************************************************************)
(* Timeouts stay within the caller's limits in every answer analyze_latency     *)
(* gives and, unless a limit cuts them or they do not fit an int, cover the         *)
(* minimum and the traffic with the safety factor, connects included.              *)
(***************************************************************************)
ReadCovers(e, opts) ==
  \/ e.timeout.read = opts.maxRead \/ ~Converts(opts)
  \/ e.timeout.read * 1000 >= e.p95 * opts.safety /\ e.timeout.read * 1000 >= opts.minRead

ConnectCovers(e, opts) ==
  \/ e.timeout.connect = opts.maxConnect \/ ~Converts(opts)
  \/ /\ e.timeout.connect * 1000 >= opts.minConnect
     /\ \/ Within(load["connect"], e.key, Inf, opts) < opts.minSamples
        \/ \E b \in Bounds :
             /\ e.timeout.connect * 1000 >= b * opts.safety
             /\ Covers(load["connect"], e.key, b, opts) \/ \A c \in Bounds : c <= b

\* What fits for every bound fits for what is computed from the traffic.
LEMMA TrafficFits ==
  ASSUME NEW opts \in AllOptions, Converts(opts), NEW p95 \in {0} \union Bounds
  PROVE  /\ Fits(p95 * opts.safety)
         /\ Fits(opts.minRead * opts.safety) /\ Fits(opts.minConnect * opts.safety)
<1>1. opts.safety \in Nat /\ opts.minRead \in Nat
  BY OptionsBounded
<1>2. Fits(opts.minRead * opts.safety) /\ Fits(opts.minConnect * opts.safety)
  BY DEF Converts
<1>3. CASE p95 = 0
  <2>1. p95 * opts.safety = 0 /\ opts.minRead * opts.safety \in Nat
    BY <1>1, <1>3
  <2> QED
    BY <1>2, <2>1, LessFits
<1>4. CASE p95 \in Bounds
  BY <1>2, <1>4 DEF Converts
<1> QED
  BY <1>2, <1>3, <1>4

LEMMA TracedCovers == Traced => TimeoutsCoverTraffic
<1> SUFFICES ASSUME Traced, NEW opts \in AllOptions, NEW e \in entries[opts]
             PROVE  /\ e.timeout.read \in 1..opts.maxRead
                    /\ e.timeout.connect \in 1..opts.maxConnect
                    /\ ReadCovers(e, opts) /\ ConnectCovers(e, opts)
  BY DEF TimeoutsCoverTraffic, ReadCovers, ConnectCovers
<1>1. PICK key \in Eligible(load, opts) : e = EntryOf(load, key, opts)
  BY EntriesTraced
<1> DEFINE c == Connecting(load["connect"], key, opts)
           q == Slowness(load["total"], key, opts)
<1>2. load \in Loads /\ e.key = key /\ e.p95 = q /\ e.timeout = RecommendTimeouts(c, q, opts)
  BY <1>1, EntryFields DEF Traced
<1>3. q \in Nat /\ q \in {0} \union Bounds
  BY <1>2, EligibleIsTight DEF Tight
<1>4. /\ c \in Nat /\ c \in {0} \union Bounds
      /\ \/ Within(load["connect"], key, Inf, opts) < opts.minSamples
         \/ Tight(c, load["connect"], key, opts)
  BY <1>2, PhasesOfLoads, ConnectingIsTight
<1> HIDE DEF c, q
<1>5. Cover(e.timeout, c, q, opts)
  BY <1>2, <1>3, <1>4, RecommendedCover
<1>6. Converts(opts) =>
        /\ Fits(q * opts.safety) /\ Fits(c * opts.safety)
        /\ Fits(opts.minRead * opts.safety) /\ Fits(opts.minConnect * opts.safety)
  BY <1>3, <1>4, TrafficFits
<1>7. ReadCovers(e, opts)
  BY <1>2, <1>5, <1>6 DEF Cover, ReadCovers
<1>8. ConnectCovers(e, opts)
  <2>1. CASE e.timeout.connect = opts.maxConnect \/ ~Converts(opts)
    BY <2>1 DEF ConnectCovers
  <2>2. ASSUME ~(e.timeout.connect = opts.maxConnect \/ ~Converts(opts))
        PROVE  /\ e.timeout.connect * 1000 >= c * opts.safety
               /\ e.timeout.connect * 1000 >= opts.minConnect
    BY <1>5, <1>6, <2>2 DEF Cover
  <2>3. ASSUME Within(load["connect"], key, Inf, opts) < opts.minSamples,
               ~(e.timeout.connect = opts.maxConnect \/ ~Converts(opts))
        PROVE  ConnectCovers(e, opts)
    BY <1>2, <2>2, <2>3 DEF ConnectCovers
  <2>4. ASSUME Tight(c, load["connect"], key, opts),
               ~(e.timeout.connect = opts.maxConnect \/ ~Converts(opts))
        PROVE  ConnectCovers(e, opts)
    <3>1. c \in Bounds /\ (Covers(load["connect"], key, c, opts) \/ \A b \in Bounds : b <= c)
      BY <2>4 DEF Tight
    <3> QED
      BY <1>2, <2>2, <2>4, <3>1 DEF ConnectCovers
  <2> QED
    BY <1>4, <2>1, <2>3, <2>4
<1> QED
  BY <1>5, <1>7, <1>8 DEF Cover

THEOREM TimeoutsHold == Spec => []TimeoutsCoverTraffic
BY AlwaysTraced, TracedCovers, PTL

(***************************************************************************)
(* What is tuned is a series whose traffic is slowest, among all that the       *)
(* caller asked about and that have enough traffic; where the seconds fit an int    *)
(* none of them would need a longer timeout.                                      *)
(***************************************************************************)
LEMMA TracedTunesSlowest == Traced => SlowestIsTuned
<1> SUFFICES ASSUME Traced, NEW opts \in AllOptions,
                    NEW target \in TuningTargets(entries[opts]), NEW key \in Keys,
                    Admits(opts, key),
                    Within(load["total"], key, Inf, opts) >= opts.minSamples
             PROVE  \E e \in entries[opts] :
                      /\ e.key = key /\ e.p95 <= target.p95
                      /\ Converts(opts) => e.timeout.read <= target.timeout.read
  BY DEF SlowestIsTuned
<1>1. load \in Loads
  BY DEF Traced
<1>2. target \in entries[opts] /\ \A other \in entries[opts] : other.p95 <= target.p95
  BY DEF TuningTargets
<1>3. PICK slow \in Eligible(load, opts) : target = EntryOf(load, slow, opts)
  BY <1>2, EntriesTraced
<1>4. key \in Eligible(load, opts)
  BY DEF Eligible
<1> DEFINE e == EntryOf(load, key, opts)
           p == Slowness(load["total"], key, opts)
           q == Slowness(load["total"], slow, opts)
           cp == Connecting(load["connect"], key, opts)
           cq == Connecting(load["connect"], slow, opts)
<1>5. e \in entries[opts]
  BY <1>4, EntriesTraced
<1>6. e.key = key /\ e.p95 = p /\ e.timeout = RecommendTimeouts(cp, p, opts)
  BY EntryFields
<1>7. target.p95 = q /\ target.timeout = RecommendTimeouts(cq, q, opts)
  BY <1>3, EntryFields
<1>8. p \in Nat \ {0} /\ q \in Nat /\ q \in {0} \union Bounds
  BY <1>1, <1>3, <1>4, EligibleIsTight DEF Tight
<1>9. cp \in Nat /\ cq \in Nat
  BY <1>1, PhasesOfLoads, ConnectingIsTight
<1>10. p <= q
  BY <1>2, <1>5, <1>6, <1>7
<1> HIDE DEF p, q, cp, cq, e
<1>11. ASSUME Converts(opts)
       PROVE  RecommendTimeouts(cp, p, opts).read <= RecommendTimeouts(cq, q, opts).read
  <2>1. Fits(q * opts.safety) /\ Fits(opts.minRead * opts.safety)
    BY <1>8, <1>11, TrafficFits
  <2> QED
    BY <1>8, <1>9, <1>10, <2>1, RecommendedMonotonic
<1> QED
  BY <1>5, <1>6, <1>7, <1>10, <1>11

THEOREM SlowestHolds == Spec => []SlowestIsTuned
BY AlwaysTraced, TracedTunesSlowest, PTL

-----------------------------------------------------------------------------
\* More requests of each stream are more requests of the key.
LEMMA WithinGrows ==
  ASSUME NEW c \in Counts, NEW d \in Counts, NEW opts, NEW key, NEW b \in Buckets,
         \A s \in Counted(key, opts) : c[s][b] <= d[s][b]
  PROVE  Within(c, key, b, opts) <= Within(d, key, b, opts)
<1> DEFINE F == [s \in Streams |-> c[s][b]]
           G == [s \in Streams |-> d[s][b]]
           C == Counted(key, opts)
<1>1. C \in SUBSET Streams
  BY DEF Counted
<1>2. IsFiniteSet(C)
  BY <1>1, FS_Subset, TrafficAssumption DEF TrafficAssumption
<1>3. \A s \in C : F[s] \in Nat /\ G[s] \in Nat /\ F[s] <= G[s]
  BY <1>1 DEF Counts
<1>4. /\ Within(c, key, b, opts) = SumFunctionOnSet(F, C)
      /\ Within(d, key, b, opts) = SumFunctionOnSet(G, C)
  BY DEF Within
<1> HIDE DEF F, G, C
<1> QED
  BY <1>2, <1>3, <1>4, SumMonotonic

LEMMA WithinSame ==
  ASSUME NEW c \in Counts, NEW d \in Counts, NEW opts, NEW key, NEW b \in Buckets,
         \A s \in Counted(key, opts) : c[s][b] = d[s][b]
  PROVE  Within(c, key, b, opts) = Within(d, key, b, opts)
<1>1. \A s \in Counted(key, opts) : c[s][b] <= d[s][b] /\ d[s][b] <= c[s][b]
  BY DEF Counted, Counts
<1>2. Within(c, key, b, opts) <= Within(d, key, b, opts)
  BY <1>1, WithinGrows
<1>3. Within(d, key, b, opts) <= Within(c, key, b, opts)
  BY <1>1, WithinGrows
<1>4. Within(c, key, b, opts) \in Nat /\ Within(d, key, b, opts) \in Nat
  BY WithinIsNat
<1> QED
  BY <1>2, <1>3, <1>4

\* Streams that do not count change no series.
LEMMA SameTraffic ==
  ASSUME NEW c \in Counts, NEW d \in Counts, NEW opts, ~opts.non2xx,
         \A s \in Streams : Label[s].class = "2xx" => d[s] = c[s], NEW key
  PROVE  Traffic(d, key, opts) = Traffic(c, key, opts)
<1>1. ASSUME NEW b \in Buckets PROVE Within(d, key, b, opts) = Within(c, key, b, opts)
  <2>1. \A s \in Counted(key, opts) : d[s][b] = c[s][b]
    BY DEF Counted
  <2> QED
    BY <2>1, WithinSame
<1> QED
  BY <1>1 DEF Traffic, Buckets

LEMMA SameEntries ==
  ASSUME NEW l \in Loads, NEW m \in Loads, NEW opts \in AllOptions, ~opts.non2xx,
         \A p \in Phases, s \in Streams : Label[s].class = "2xx" => m[p][s] = l[p][s]
  PROVE  LatencyEntries(Scrape(m), opts) = LatencyEntries(Scrape(l), opts)
<1>1. /\ l["total"] \in Counts /\ l["connect"] \in Counts
      /\ m["total"] \in Counts /\ m["connect"] \in Counts
  BY PhasesOfLoads
<1>2. /\ \A s \in Streams : Label[s].class = "2xx" => m["total"][s] = l["total"][s]
      /\ \A s \in Streams : Label[s].class = "2xx" => m["connect"][s] = l["connect"][s]
  BY DEF Phases
<1>3. ASSUME NEW key
      PROVE  /\ Traffic(m["total"], key, opts) = Traffic(l["total"], key, opts)
             /\ Traffic(m["connect"], key, opts) = Traffic(l["connect"], key, opts)
  BY <1>1, <1>2, SameTraffic
<1>4. ASSUME NEW key PROVE EntryOf(m, key, opts) = EntryOf(l, key, opts)
  BY <1>3 DEF EntryOf, Slowness, Connecting
<1>5. Eligible(m, opts) = Eligible(l, opts)
  <2>1. ASSUME NEW key
        PROVE  Within(m["total"], key, Inf, opts) = Within(l["total"], key, Inf, opts)
    BY <1>3 DEF Traffic
  <2> QED
    BY <2>1 DEF Eligible
<1>6. {EntryOf(m, key, opts) : key \in Eligible(m, opts)}
        = {EntryOf(l, key, opts) : key \in Eligible(l, opts)}
  BY <1>4, <1>5
<1> QED
  BY <1>6, EntriesOfTraffic

\* Requests slower than every bound make no key faster.
LEMMA NotFaster ==
  ASSUME NEW l \in Loads, NEW m \in Loads, NEW opts \in AllOptions,
         NEW key \in Eligible(l, opts),
         \A s \in Streams : /\ l["total"][s][Inf] <= m["total"][s][Inf]
                            /\ \A b \in Bounds : m["total"][s][b] = l["total"][s][b]
  PROVE  /\ key \in Eligible(m, opts)
         /\ Slowness(l["total"], key, opts) <= Slowness(m["total"], key, opts)
<1> DEFINE c == l["total"]
           d == m["total"]
<1>1. Inf \in Buckets /\ Bounds \subseteq Buckets /\ c \in Counts /\ d \in Counts
  BY PhasesOfLoads DEF Buckets
<1>2. ASSUME NEW b \in Bounds PROVE Within(d, key, b, opts) = Within(c, key, b, opts)
  <2>1. \A s \in Counted(key, opts) : d[s][b] = c[s][b]
    BY DEF Counted
  <2> HIDE DEF c, d
  <2> QED
    BY <1>1, <2>1, WithinSame
<1>3. Within(c, key, Inf, opts) <= Within(d, key, Inf, opts)
  <2>1. \A s \in Counted(key, opts) : c[s][Inf] <= d[s][Inf]
    BY DEF Counted
  <2> HIDE DEF c, d
  <2> QED
    BY <1>1, <2>1, WithinGrows
<1>4. Within(c, key, Inf, opts) \in Nat /\ Within(d, key, Inf, opts) \in Nat
  BY <1>1, WithinIsNat
<1>5. key \in Eligible(m, opts)
  <2>1. opts.minSamples \in Nat /\ Within(c, key, Inf, opts) >= opts.minSamples
    BY OptionsBounded DEF Eligible
  <2>2. Within(d, key, Inf, opts) >= opts.minSamples
    <3> HIDE DEF c, d
    <3> QED
      BY <1>3, <1>4, <2>1
  <2> QED
    BY <2>2 DEF Eligible
<1> DEFINE p == Slowness(c, key, opts)
           q == Slowness(d, key, opts)
<1>6. p \in Bounds /\ \A b \in Bounds : b < p => ~Covers(c, key, b, opts)
  BY EligibleIsTight DEF Tight
<1>7. q \in Bounds /\ (Covers(d, key, q, opts) \/ \A b \in Bounds : b <= q)
  BY <1>5, EligibleIsTight DEF Tight
<1>8. p \in Nat /\ q \in Nat
  BY <1>5, EligibleIsTight
<1> HIDE DEF p, q, c, d
<1>9. CASE Covers(d, key, q, opts)
  <2>1. Within(c, key, q, opts) = Within(d, key, q, opts) /\ Within(c, key, q, opts) \in Nat
    BY <1>1, <1>2, <1>7, WithinIsNat
  <2>2. Covers(c, key, q, opts)
    BY <1>3, <1>4, <1>9, <2>1, SMT DEF Covers
  <2>3. ~(q < p)
    BY <1>6, <1>7, <2>2
  <2>4. p <= q
    BY <1>8, <2>3
  <2> QED
    BY <1>5, <2>4 DEF p, q, c, d
<1>10. CASE \A b \in Bounds : b <= q
  BY <1>5, <1>6, <1>10 DEF p, q, c, d
<1> QED
  BY <1>7, <1>9, <1>10

\* The read timeouts an analysis recommends for a key.
ReadOf(l, key, opts) ==
  RecommendTimeouts(Connecting(l["connect"], key, opts), Slowness(l["total"], key, opts),
                    opts).read

LEMMA RecommendedOfKey ==
  ASSUME NEW l \in Loads, entries = Analyze(l), NEW opts \in AllOptions, NEW key
  PROVE  Recommended(key, opts) = {ReadOf(l, k, opts) : k \in {x \in Eligible(l, opts) : x = key}}
<1>1. entries[opts] = {EntryOf(l, k, opts) : k \in Eligible(l, opts)}
  BY EntriesOfTraffic DEF Analyze
<1>2. ASSUME NEW k PROVE /\ EntryOf(l, k, opts).key = k
                         /\ EntryOf(l, k, opts).timeout.read = ReadOf(l, k, opts)
  BY EntryFields DEF ReadOf
<1> QED
  BY <1>1, <1>2 DEF Recommended

LEMMA ReadNotShorter ==
  ASSUME NEW l \in Loads, NEW m \in Loads, NEW opts \in AllOptions,
         NEW key \in Eligible(l, opts), key \in Eligible(m, opts), Converts(opts),
         Slowness(l["total"], key, opts) <= Slowness(m["total"], key, opts)
  PROVE  ReadOf(l, key, opts) <= ReadOf(m, key, opts)
<1>1. /\ Slowness(l["total"], key, opts) \in Nat \ {0}
      /\ Slowness(m["total"], key, opts) \in Nat
      /\ Slowness(m["total"], key, opts) \in {0} \union Bounds
  BY EligibleIsTight DEF Tight
<1>2. /\ Connecting(l["connect"], key, opts) \in Nat
      /\ Connecting(m["connect"], key, opts) \in Nat
  BY PhasesOfLoads, ConnectingIsTight
<1>3. /\ Fits(Slowness(m["total"], key, opts) * opts.safety)
      /\ Fits(opts.minRead * opts.safety)
  BY <1>1, TrafficFits
<1> QED
  BY <1>1, <1>2, <1>3, RecommendedMonotonic DEF ReadOf

(***************************************************************************)
(* Failed requests move no recommendation unless the caller asked for them, and *)
(* a request slower than every bound never shortens the timeout of its series,    *)
(* where its seconds fit an int.                                                  *)
(***************************************************************************)
OnlyFailures(opts) ==
  /\ ~opts.non2xx
  /\ \A p \in Phases, s \in Streams : Label[s].class = "2xx" => load'[p][s] = load[p][s]

OnlySlow(s, opts) ==
  /\ load'["total"][s][Inf] > load["total"][s][Inf]
  /\ \A b \in Bounds : load'["total"][s][b] = load["total"][s][b]
  /\ Converts(opts)

LEMMA StepNeverShortens ==
  Traced /\ Traced' /\ [Next]_vars =>
    [\A opts \in AllOptions :
       /\ ~opts.non2xx
            /\ (\A p \in Phases, s \in Streams : Label[s].class = "2xx" => load'[p][s] = load[p][s])
            => entries'[opts] = entries[opts]
       /\ \A s \in Streams :
            (/\ load'["total"][s][Inf] > load["total"][s][Inf]
             /\ \A b \in Bounds : load'["total"][s][b] = load["total"][s][b]
             /\ Converts(opts)) =>
              \A before \in Recommended(Label[s].key, opts) :
                \E after \in Recommended(Label[s].key, opts)' : before <= after]_vars
<1> SUFFICES ASSUME Traced, Traced', Next, NEW opts \in AllOptions
             PROVE  /\ OnlyFailures(opts) => entries'[opts] = entries[opts]
                    /\ \A s \in Streams :
                         OnlySlow(s, opts) =>
                           \A before \in Recommended(Label[s].key, opts) :
                             \E after \in Recommended(Label[s].key, opts)' : before <= after
  BY DEF OnlyFailures, OnlySlow
<1>1. /\ load \in Loads /\ load' \in Loads
      /\ entries[opts] = LatencyEntries(Scrape(load), opts)
      /\ entries'[opts] = LatencyEntries(Scrape(load'), opts)
  BY DEF Traced, Analyze
<1>2. ASSUME OnlyFailures(opts) PROVE entries'[opts] = entries[opts]
  BY <1>1, <1>2, SameEntries DEF OnlyFailures
<1>3. ASSUME NEW s \in Streams, OnlySlow(s, opts), NEW before \in Recommended(Label[s].key, opts)
      PROVE  \E after \in Recommended(Label[s].key, opts)' : before <= after
  <2> DEFINE key == Label[s].key
  <2>1. PICK t \in Streams, b \in Buckets, n \in BatchSizes, measured \in {{"total"}, Phases} :
          Observe(t, b, n, measured)
    BY DEF Next
  <2>2. \A u \in Streams : u # t => load'["total"][u] = load["total"][u]
    <3>1. load["total"] \in [Streams -> [Buckets -> Nat]]
      BY <1>1, PhasesOfLoads DEF Counts
    <3>2. load'["total"] = [load["total"] EXCEPT
                              ![t] = [x \in Buckets |-> IF x < b THEN @[x] ELSE @[x] + n]]
      BY <2>1 DEF Observe, Phases
    <3> QED
      BY <3>1, <3>2
  <2>3. ASSUME NEW u \in Streams
        PROVE  /\ load["total"][u][Inf] <= load'["total"][u][Inf]
               /\ \A x \in Bounds : load'["total"][u][x] = load["total"][u][x]
    <3>1. /\ load["total"][u][Inf] \in Nat /\ load["total"][s][Inf] \in Nat
          /\ load'["total"][s][Inf] \in Nat
      <4>1. load["total"] \in Counts /\ load'["total"] \in Counts
        BY <1>1, PhasesOfLoads
      <4> QED
        BY <4>1 DEF Counts, Buckets
    <3>2. s = t
      <4>1. s # t => load'["total"][s] = load["total"][s]
        BY <2>2
      <4> QED
        BY <1>3, <3>1, <4>1 DEF OnlySlow
    <3>3. CASE u = t
      BY <1>3, <3>1, <3>2, <3>3 DEF OnlySlow
    <3>4. CASE u # t
      BY <2>2, <3>1, <3>4
    <3> QED
      BY <3>3, <3>4
  <2>4. key \in Eligible(load, opts) /\ before = ReadOf(load, key, opts)
    BY <1>1, RecommendedOfKey DEF Traced
  <2>5. /\ key \in Eligible(load', opts)
        /\ Slowness(load["total"], key, opts) <= Slowness(load'["total"], key, opts)
    BY <1>1, <2>3, <2>4, NotFaster
  <2>6. ReadOf(load', key, opts) \in Recommended(key, opts)'
    <3>1. EntryOf(load', key, opts) \in entries'[opts]
      BY <1>1, <2>5, EntriesOfTraffic
    <3>2. /\ EntryOf(load', key, opts).key = key
          /\ EntryOf(load', key, opts).timeout.read = ReadOf(load', key, opts)
      BY EntryFields DEF ReadOf
    <3> HIDE DEF key
    <3>3. \E e \in entries'[opts] : e.key = key /\ e.timeout.read = ReadOf(load', key, opts)
      BY <3>1, <3>2
    <3> QED
      BY <3>3 DEF Recommended
  <2>7. before <= ReadOf(load', key, opts)
    <3>1. Converts(opts)
      BY <1>3 DEF OnlySlow
    <3> HIDE DEF key
    <3> QED
      BY <1>1, <2>4, <2>5, <3>1, ReadNotShorter
  <2> QED
    BY <2>6, <2>7
<1> QED
  BY <1>2, <1>3

THEOREM SlowTrafficHolds == Spec => SlowTrafficNeverShortens
BY AlwaysTraced, StepNeverShortens, PTL DEF Spec, SlowTrafficNeverShortens

=============================================================================
