----------------------------- MODULE Sums_proofs ----------------------------
(* Lemmas about sums.                                                      *)
EXTENDS Sums, FiniteSetTheorems, TLAPS

(* The sum of naturals over a finite set is a natural.                     *)
LEMMA SumType ==
  ASSUME NEW f, NEW S, IsFiniteSet(S), \A x \in S : f[x] \in Nat
  PROVE  /\ sumOf(f, S) \in Nat
         /\ IsFiniteSet(UNION {{x} \X (1..f[x]) : x \in S})
<1> DEFINE U == {{x} \X (1..f[x]) : x \in S}
           g == [x \in S |-> {x} \X (1..f[x])]
<1>1. g \in Surjection(S, U)
  BY DEF Surjection
<1>2. IsFiniteSet(U)
  BY <1>1, FS_Surjection
<1>3. \A T \in U : IsFiniteSet(T)
  <2> SUFFICES ASSUME NEW x \in S
               PROVE  IsFiniteSet({x} \X (1..f[x]))
    OBVIOUS
  <2>1. f[x] \in Int
    OBVIOUS
  <2>2. IsFiniteSet(1..f[x])
    BY <2>1, FS_Interval
  <2>3. IsFiniteSet({x})
    BY FS_Singleton
  <2> QED BY <2>2, <2>3, FS_Product
<1>4. IsFiniteSet(UNION U)
  BY <1>2, <1>3, FS_UNION
<1> QED BY <1>4, FS_CardinalityType DEF sumOf

(* The sum over the empty set, and over one element.                       *)
LEMMA SumOne ==
  ASSUME NEW f, NEW x, f[x] \in Nat
  PROVE  sumOf(f, {}) = 0 /\ sumOf(f, {x}) = f[x]
<1> DEFINE n == f[x]
<1>1. sumOf(f, {}) = 0
  <2>1. UNION {{y} \X (1..f[y]) : y \in {}} = {}
    OBVIOUS
  <2> QED BY <2>1, FS_EmptySet DEF sumOf
<1>2. UNION {{y} \X (1..f[y]) : y \in {x}} = {x} \X (1..n)
  OBVIOUS
<1>3. Cardinality({x} \X (1..n)) = n
  <2> n \in Nat
    OBVIOUS
  <2> HIDE DEF n
  <2>1. IsFiniteSet(1..n) /\ Cardinality(1..n) = IF 1 > n THEN 0 ELSE n-1+1
    BY FS_Interval
  <2>2. Cardinality(1..n) = n
    BY <2>1
  <2>3. IsFiniteSet({x}) /\ Cardinality({x}) = 1
    BY FS_Singleton
  <2>4. Cardinality({x} \X (1..n)) = Cardinality({x}) * Cardinality(1..n)
    BY <2>1, <2>3, FS_Product
  <2>5. 1 * n = n
    OBVIOUS
  <2> QED BY <2>2, <2>3, <2>4, <2>5
<1> QED BY <1>1, <1>2, <1>3 DEF sumOf

(* Sums over disjoint sets add up.                                         *)
LEMMA SumUnion ==
  ASSUME NEW f, NEW S, NEW T, IsFiniteSet(S), IsFiniteSet(T), S \cap T = {},
         \A x \in S \cup T : f[x] \in Nat
  PROVE  sumOf(f, S \cup T) = sumOf(f, S) + sumOf(f, T)
<1> DEFINE U(R) == UNION {{x} \X (1..f[x]) : x \in R}
<1>1. U(S \cup T) = U(S) \cup U(T) /\ U(S) \cap U(T) = {}
  OBVIOUS
<1>2. /\ IsFiniteSet(U(S)) /\ IsFiniteSet(U(T))
      /\ sumOf(f, S) \in Nat /\ sumOf(f, T) \in Nat
  BY SumType
<1>3. /\ sumOf(f, S) = Cardinality(U(S)) /\ sumOf(f, T) = Cardinality(U(T))
      /\ sumOf(f, S \cup T) = Cardinality(U(S \cup T))
  BY Zenon DEF sumOf
<1> HIDE DEF U
<1>4. Cardinality(U(S) \cup U(T)) = Cardinality(U(S)) + Cardinality(U(T)) - Cardinality({})
  BY <1>1, <1>2, FS_Union
<1>5. Cardinality({}) = 0
  BY FS_EmptySet
<1>6. Cardinality(U(S) \cup U(T)) = Cardinality(U(S)) + Cardinality(U(T)) - 0
  BY <1>4, <1>5
<1>7. sumOf(f, S \cup T) = sumOf(f, S) + sumOf(f, T) - 0
  BY <1>1, <1>3, <1>6
<1> QED BY <1>2, <1>7

(* A sum is no less than one over a part of the set.                       *)
LEMMA SumSubset ==
  ASSUME NEW f, NEW S, NEW T, IsFiniteSet(S), T \subseteq S, \A x \in S : f[x] \in Nat
  PROVE  sumOf(f, T) <= sumOf(f, S)
<1> DEFINE R == S \ T
<1>1. IsFiniteSet(T) /\ IsFiniteSet(R) /\ T \cap R = {} /\ S = T \cup R
  BY FS_Subset
<1> HIDE DEF R
<1>2. sumOf(f, S) = sumOf(f, T) + sumOf(f, R)
  BY <1>1, SumUnion
<1>3. sumOf(f, T) \in Nat /\ sumOf(f, R) \in Nat
  BY <1>1, SumType
<1> QED BY <1>2, <1>3

(* A sum depends on what is summed only.                                   *)
LEMMA SumSame ==
  ASSUME NEW f, NEW g, NEW S, \A x \in S : f[x] = g[x]
  PROVE  sumOf(f, S) = sumOf(g, S)
<1>1. {{x} \X (1..f[x]) : x \in S} = {{x} \X (1..g[x]) : x \in S}
  OBVIOUS
<1> QED BY <1>1 DEF sumOf

(* A sum is no more than one that has an element for each of its own, and  *)
(* no lesser ones.                                                         *)
LEMMA SumInto ==
  ASSUME NEW f, NEW S, NEW g, NEW T, IsFiniteSet(T), \A y \in T : g[y] \in Nat,
         NEW h, \A x \in S : h[x] \in T /\ f[x] \in Nat /\ f[x] <= g[h[x]],
         \A x, y \in S : h[x] = h[y] => x = y
  PROVE  sumOf(f, S) <= sumOf(g, T)
<1> DEFINE U == UNION {{x} \X (1..f[x]) : x \in S}
           V == UNION {{y} \X (1..g[y]) : y \in T}
           e == [u \in U |-> <<h[u[1]], u[2]>>]
<1>1. IsFiniteSet(V)
  BY SumType
<1>2. ASSUME NEW u \in U PROVE u[1] \in S /\ u[2] \in 1..f[u[1]] /\ u = <<u[1], u[2]>>
  OBVIOUS
<1>3. ASSUME NEW u \in U PROVE e[u] \in V /\ e[u] = <<h[u[1]], u[2]>>
  <2>1. u[1] \in S /\ u[2] \in 1..f[u[1]]
    BY <1>2
  <2>2. h[u[1]] \in T /\ u[2] \in 1..g[h[u[1]]]
    BY <2>1
  <2> QED BY <2>2
<1>4. ASSUME NEW u \in U, NEW v \in U, e[u] = e[v] PROVE u = v
  <2>1. h[u[1]] = h[v[1]] /\ u[2] = v[2]
    BY <1>3, <1>4
  <2>2. u[1] = v[1]
    BY <2>1, <1>2
  <2> QED BY <2>1, <2>2, <1>2
<1>5. e \in Injection(U, V)
  <2>1. e \in [U -> V]
    <3>1. \A u \in U : <<h[u[1]], u[2]>> \in V
      BY <1>3
    <3> HIDE DEF U, V
    <3> QED BY <3>1
  <2>2. \A u, v \in U : e[u] = e[v] => u = v
    BY <1>4
  <2> HIDE DEF U, V, e
  <2> QED BY <2>1, <2>2 DEF Injection, IsInjective
<1> HIDE DEF e
<1>6. Cardinality(U) <= Cardinality(V)
  <2> HIDE DEF U, V
  <2> QED BY <1>1, <1>5, FS_Injection
<1> QED BY <1>6 DEF sumOf

=============================================================================
