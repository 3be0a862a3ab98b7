-------------------------- MODULE StateRoots_proofs -------------------------
(***************************************************************************)
(* Theorems of what anchors say of the writes: the state is well formed,   *)
(* and among nodes that have come by all anchors themselves, heads are     *)
(* rebuilt from deltas as they were certified, boards folded from a        *)
(* checkpoint are those folded from the beginning, checkpoints are what    *)
(* their anchors commit to, and no anchor that is right is refused.        *)
(***************************************************************************)
EXTENDS StateRoots, FiniteSetTheorems, SequenceTheorems, WellFoundedInduction, TLAPS

-----------------------------------------------------------------------------
(* The least and the greatest of a set of numbers.                         *)

LEMMA LeastExists ==
  ASSUME NEW N, N \subseteq Nat, N # {}
  PROVE  \E m \in N : \A n \in N : m <= n
<1> DEFINE R == {ss \in Nat \X Nat : ss[1] < ss[2]}
<1>1. IsWellFoundedOn(R, Nat)
  BY NatLessThanWellFounded DEF OpToRel
<1>2. \A x, y \in Nat : y < x => <<y, x>> \in R
  OBVIOUS
<1> HIDE DEF R
<1>3. PICK m \in N : \A y \in N : ~(<<y, m>> \in R)
  BY <1>1, WFMin
<1>4. \A n \in N : m <= n
  <2> SUFFICES ASSUME NEW n \in N PROVE m <= n
    OBVIOUS
  <2>1. m \in Nat /\ n \in Nat /\ ~(n < m)
    BY <1>2, <1>3
  <2> QED BY <2>1
<1> QED BY <1>4

LEMMA MinExists ==
  ASSUME NEW S, S \subseteq Nat, S # {}
  PROVE  Min(S) \in S /\ \A x \in S : Min(S) <= x
BY LeastExists DEF Min

LEMMA MaxExists ==
  ASSUME NEW n \in Nat, NEW S, S \subseteq 0..n, S # {}
  PROVE  Max(S) \in S /\ \A x \in S : x <= Max(S)
<1> DEFINE T == {n - x : x \in S}
<1>1. T \subseteq Nat /\ T # {}
  <2>1. \A x \in S : n - x \in Nat
    OBVIOUS
  <2> QED BY <2>1
<1>2. PICK m \in T : \A y \in T : m <= y
  BY <1>1, LeastExists
<1>3. PICK x \in S : m = n - x
  BY <1>2
<1>4. \A y \in S : x >= y
  <2> SUFFICES ASSUME NEW y \in S PROVE x >= y
    OBVIOUS
  <2>1. n - y \in T
    OBVIOUS
  <2> HIDE DEF T
  <2>2. m <= n - y
    BY <1>2, <2>1
  <2>3. x \in Nat /\ y \in Nat
    BY <1>3
  <2> QED BY <1>3, <2>2, <2>3
<1>5. \A y \in S : Max(S) >= y
  BY <1>4 DEF Max
<1>6. Max(S) \in S
  BY <1>4 DEF Max
<1> QED BY <1>5, <1>6

(* Of two numbers.                                                         *)
LEMMA OfTwo ==
  ASSUME NEW i \in Int, NEW j \in Int
  PROVE  /\ Max({i, j}) = IF i >= j THEN i ELSE j
         /\ Min({i, j}) = IF i <= j THEN i ELSE j
<1>1. ASSUME i >= j PROVE Max({i, j}) = i
  BY <1>1 DEF Max
<1>2. ASSUME ~(i >= j) PROVE Max({i, j}) = j
  BY <1>2 DEF Max
<1>3. ASSUME i <= j PROVE Min({i, j}) = i
  BY <1>3 DEF Min
<1>4. ASSUME ~(i <= j) PROVE Min({i, j}) = j
  BY <1>4 DEF Min
<1> QED BY <1>1, <1>2, <1>3, <1>4

LEMMA OfTwoNats ==
  ASSUME NEW i \in Nat, NEW j \in Nat
  PROVE  Max({i, j}) \in Nat /\ Min({i, j}) \in Nat
<1>1. i \in Int /\ j \in Int
  OBVIOUS
<1> QED BY <1>1, OfTwo

-----------------------------------------------------------------------------
(* Anchors.                                                                *)

(* What is below an anchor has the same history.                           *)
LEMMA UpToOK ==
  ASSUME NEW a \in Anchor, NEW h \in 0..height(a)
  PROVE  /\ upTo(a, h) \in Anchor /\ height(upTo(a, h)) = h
         /\ \A i \in 1..h : upTo(a, h)[i] = a[i]
         /\ \A i \in 0..h : upTo(upTo(a, h), i) = upTo(a, i)
<1>1. /\ upTo(a, h) \in Anchor /\ height(upTo(a, h)) = h
      /\ \A i \in 1..h : upTo(a, h)[i] = a[i]
  BY DEF upTo, height, Anchor
<1>2. ASSUME NEW i \in 0..h PROVE upTo(upTo(a, h), i) = upTo(a, i)
  <2> DEFINE b == upTo(a, h)
  <2>1. i \in 0..height(b) /\ b \in Anchor /\ i \in 0..height(a)
    BY <1>1 DEF height, Anchor
  <2> HIDE DEF b
  <2>2. /\ upTo(b, i) \in Seq(Link) /\ Len(upTo(b, i)) = i
        /\ \A j \in 1..i : upTo(b, i)[j] = b[j]
    BY <2>1 DEF upTo, height, Anchor
  <2>3. /\ upTo(a, i) \in Seq(Link) /\ Len(upTo(a, i)) = i
        /\ \A j \in 1..i : upTo(a, i)[j] = a[j]
    BY <2>1 DEF upTo, height, Anchor
  <2>4. \A j \in 1..i : b[j] = a[j]
    BY <1>1 DEF b
  <2>5. upTo(b, i) = upTo(a, i)
    BY <2>2, <2>3, <2>4, SeqEqual
  <2> QED BY <2>5 DEF b
<1> QED BY <1>1, <1>2

(* The ends of an anchor.                                                  *)
LEMMA Ends ==
  ASSUME NEW a \in Anchor
  PROVE  /\ height(a) \in Nat /\ DOMAIN a = 1..height(a) /\ upTo(a, height(a)) = a
         /\ upTo(a, 0) = <<>> /\ (height(a) = 0 <=> a = <<>>)
         /\ \A i \in 1..height(a) : a[i] \in Link
<1>1. height(a) \in Nat /\ DOMAIN a = 1..height(a) /\ \A i \in 1..height(a) : a[i] \in Link
  BY DEF Anchor, height
<1>2. upTo(a, height(a)) = a
  BY SubSeqFull DEF Anchor, height, upTo
<1>3. upTo(a, 0) = <<>>
  BY SubSeqEmpty DEF upTo
<1>4. height(a) = 0 <=> a = <<>>
  BY EmptySeq DEF Anchor, height
<1> QED BY <1>1, <1>2, <1>3, <1>4

LEMMA Genesis == <<>> \in Anchor /\ height(<<>>) = 0
BY EmptySeq DEF Anchor, height

(* The anchor below.                                                       *)
LEMMA PrevOK ==
  ASSUME NEW a \in Anchor, a # <<>>
  PROVE  /\ prev(a) \in Anchor /\ height(a) \in Nat \ {0} /\ height(prev(a)) = height(a) - 1
         /\ top(a) \in Link /\ top(a) = a[height(a)]
         /\ \A i \in 0..height(a) - 1 : upTo(prev(a), i) = upTo(a, i)
         /\ \A i \in 1..height(a) - 1 : prev(a)[i] = a[i]
<1>1. height(a) \in Nat \ {0} /\ height(a) - 1 \in 0..height(a) /\ height(a) \in 1..height(a)
  BY Ends
<1> QED BY <1>1, UpToOK, Ends DEF prev, top

(* Both below one anchor are below each other.                             *)
LEMMA BelowOK ==
  ASSUME NEW a \in Anchor, NEW b \in Anchor, NEW c \in Anchor, IsBelow(b, a)
  PROVE  /\ height(b) \in 0..height(a) /\ upTo(a, height(b)) = b
         /\ \A i \in 0..height(b) : upTo(b, i) = upTo(a, i)
         /\ IsBelow(c, b) => IsBelow(c, a)
         /\ IsBelow(c, a) /\ height(c) <= height(b) => IsBelow(c, b)
<1>1. height(a) \in Nat /\ height(b) \in Nat /\ height(c) \in Nat
  BY Ends
<1>2. height(b) \in 0..height(a) /\ upTo(a, height(b)) = b
  BY <1>1 DEF IsBelow
<1>3. \A i \in 0..height(b) : upTo(b, i) = upTo(a, i)
  BY <1>2, UpToOK
<1>4. ASSUME IsBelow(c, b) PROVE IsBelow(c, a)
  <2>1. height(c) \in 0..height(b) /\ upTo(b, height(c)) = c
    BY <1>1, <1>4 DEF IsBelow
  <2> QED BY <1>1, <1>2, <1>3, <2>1 DEF IsBelow
<1>5. ASSUME IsBelow(c, a), height(c) <= height(b) PROVE IsBelow(c, b)
  <2>1. height(c) \in 0..height(b) /\ upTo(a, height(c)) = c
    BY <1>1, <1>5 DEF IsBelow
  <2> QED BY <1>3, <2>1 DEF IsBelow
<1> QED BY <1>2, <1>3, <1>4, <1>5

LEMMA BelowUpTo ==
  ASSUME NEW a \in Anchor, NEW h \in 0..height(a)
  PROVE  IsBelow(upTo(a, h), a)
BY UpToOK, Ends DEF IsBelow

(* A walk passes all heights from where it ends, through held anchors.     *)
LEMMA WalkOK ==
  ASSUME NEW c, NEW a \in Anchor, a \in c.anchors
  PROVE  /\ Min(Walk(c, a)) \in 0..height(a) /\ Walk(c, a) = Min(Walk(c, a))..height(a)
         /\ \A h \in Walk(c, a) : h \in 0..height(a) /\ upTo(a, h) \in c.anchors
<1> DEFINE W == Walk(c, a)
<1>1. height(a) \in Nat /\ upTo(a, height(a)) = a
  BY Ends
<1>2. W \subseteq 0..height(a) /\ \A h \in W : \A i \in h..height(a) : upTo(a, i) \in c.anchors
  BY DEF Walk
<1>3. height(a) \in W
  <2>1. \A i \in height(a)..height(a) : i = height(a)
    BY <1>1
  <2>2. height(a) \in 0..height(a)
    BY <1>1
  <2> QED BY <2>1, <2>2, <1>1 DEF Walk
<1>4. \A h \in 0..height(a) : (\A i \in h..height(a) : upTo(a, i) \in c.anchors) => h \in W
  BY DEF Walk
<1> HIDE DEF W
<1>5. Min(W) \in W /\ \A h \in W : Min(W) <= h
  <2>1. W \subseteq Nat /\ W # {}
    BY <1>2, <1>3
  <2> QED BY <2>1, MinExists
<1>6. Min(W) \in 0..height(a)
  BY <1>2, <1>5
<1>7. ASSUME NEW h \in Min(W)..height(a) PROVE h \in W
  <2>1. h \in 0..height(a) /\ \A i \in h..height(a) : i \in Min(W)..height(a)
    BY <1>6, <1>1
  <2> QED BY <2>1, <1>2, <1>4, <1>5
<1>8. ASSUME NEW h \in W PROVE h \in Min(W)..height(a) /\ h \in 0..height(a) /\ upTo(a, h) \in c.anchors
  <2>1. h \in 0..height(a) /\ Min(W) <= h
    BY <1>2, <1>5
  <2>2. h \in h..height(a)
    BY <2>1, <1>1
  <2> QED BY <2>1, <2>2, <1>1, <1>2, <1>6
<1>9. W = Min(W)..height(a)
  BY <1>7, <1>8
<1> QED BY <1>6, <1>8, <1>9 DEF W

-----------------------------------------------------------------------------
(* Numbers in order.                                                       *)

(* How many are below e.                                                   *)
Rank(S, e) == Cardinality({f \in S : f < e})

LEMMA RankOK ==
  ASSUME NEW S, IsFiniteSet(S), S \subseteq Int
  PROVE  /\ Cardinality(S) \in Nat
         /\ \A e \in S : Rank(S, e) \in 0..Cardinality(S) - 1
         /\ \A e, f \in S : e < f => Rank(S, e) < Rank(S, f)
<1>1. Cardinality(S) \in Nat
  BY FS_CardinalityType
<1>2. ASSUME NEW e \in S, NEW T, T \subseteq S, e \notin T, {f \in S : f < e} \subseteq T
      PROVE  /\ Rank(S, e) \in Nat /\ Cardinality(T) \in Nat /\ Rank(S, e) <= Cardinality(T)
             /\ IsFiniteSet(T) /\ Cardinality(T \cup {e}) = Cardinality(T) + 1
  <2>1. IsFiniteSet(T) /\ Cardinality(T) \in Nat
    BY <1>2, FS_Subset, FS_CardinalityType
  <2>2. IsFiniteSet({f \in S : f < e}) /\ Cardinality({f \in S : f < e}) <= Cardinality(T)
    BY <1>2, <2>1, FS_Subset
  <2>3. Cardinality({f \in S : f < e}) \in Nat
    BY <2>2, FS_CardinalityType
  <2> QED BY <2>1, <2>2, <2>3, <1>2, FS_AddElement DEF Rank
<1>3. ASSUME NEW e \in S PROVE Rank(S, e) \in 0..Cardinality(S) - 1
  <2> DEFINE T == {f \in S : f < e}
  <2>1. e \notin T /\ T \subseteq S
    OBVIOUS
  <2>2. /\ Rank(S, e) \in Nat /\ Cardinality(T) \in Nat /\ Cardinality(T \cup {e}) = Cardinality(T) + 1
        /\ Rank(S, e) = Cardinality(T)
    BY <1>2, <2>1 DEF Rank
  <2>3. T \cup {e} \subseteq S
    OBVIOUS
  <2> HIDE DEF T
  <2>4. Cardinality(T \cup {e}) <= Cardinality(S)
    BY <2>3, FS_Subset
  <2> QED BY <2>2, <2>4, <1>1
<1>4. ASSUME NEW e \in S, NEW f \in S, e < f PROVE Rank(S, e) < Rank(S, f)
  <2> DEFINE T == {g \in S : g < e}  U == {g \in S : g < f}
  <2>1. e \notin T /\ T \subseteq S
    OBVIOUS
  <2>2. Rank(S, e) \in Nat /\ Rank(S, e) = Cardinality(T) /\ Cardinality(T \cup {e}) = Cardinality(T) + 1
    BY <1>2, <2>1 DEF Rank
  <2>3. T \cup {e} \subseteq U
    <3> SUFFICES ASSUME NEW g \in S, g < e PROVE g < f
      BY <1>4
    <3>1. g \in Int /\ e \in Int /\ f \in Int
      OBVIOUS
    <3> QED BY <3>1, <1>4
  <2>4. IsFiniteSet(U) /\ Rank(S, f) = Cardinality(U)
    BY FS_Subset DEF Rank
  <2> HIDE DEF T, U
  <2>5. Cardinality(T \cup {e}) <= Cardinality(U) /\ Cardinality(U) \in Nat
    BY <2>3, <2>4, FS_Subset, FS_CardinalityType
  <2> QED BY <2>2, <2>4, <2>5
<1> QED BY <1>1, <1>3, <1>4

(* Each place is taken, by a member of S.                                  *)
LEMMA SortedOK ==
  ASSUME NEW S, IsFiniteSet(S), S \subseteq Int
  PROVE  /\ Cardinality(S) \in Nat /\ DOMAIN sorted(S) = 1..Cardinality(S)
         /\ \A i \in 1..Cardinality(S) : sorted(S)[i] \in S
<1> DEFINE n == Cardinality(S)
           r == [e \in S |-> Rank(S, e)]
<1>1. n \in Nat /\ DOMAIN sorted(S) = 1..n
  BY RankOK DEF sorted
<1>2. r \in Injection(S, 0..n - 1)
  <2>1. r \in [S -> 0..n - 1]
    <3>1. \A e \in S : Rank(S, e) \in 0..Cardinality(S) - 1
      BY Zenon, RankOK
    <3> QED BY <3>1
  <2>2. \A e, f \in S : r[e] = r[f] => e = f
    <3> SUFFICES ASSUME NEW e \in S, NEW f \in S, e # f PROVE r[e] # r[f]
      OBVIOUS
    <3>1. e < f \/ f < e
      OBVIOUS
    <3>2. Rank(S, e) < Rank(S, f) \/ Rank(S, f) < Rank(S, e)
      BY <3>1, RankOK
    <3>3. Rank(S, e) \in Int /\ Rank(S, f) \in Int
      <4>1. /\ Cardinality(S) \in Nat
            /\ Rank(S, e) \in 0..Cardinality(S) - 1 /\ Rank(S, f) \in 0..Cardinality(S) - 1
        BY Zenon, RankOK
      <4> QED BY <4>1
    <3>4. Rank(S, e) # Rank(S, f)
      BY <3>2, <3>3
    <3> QED BY <3>4
  <2> QED BY <2>1, <2>2 DEF Injection, IsInjective
<1> HIDE DEF r
<1>3. r \in Surjection(S, 0..n - 1)
  <2>1. IsFiniteSet(0..n - 1) /\ Cardinality(0..n - 1) = n
    <3> HIDE DEF n
    <3>1. 0 \in Int /\ n - 1 \in Int
      BY <1>1
    <3>2. /\ IsFiniteSet(0..n - 1)
          /\ Cardinality(0..n - 1) = IF 0 > n - 1 THEN 0 ELSE n - 1 - 0 + 1
      BY <3>1, FS_Interval
    <3> QED BY <3>2, <1>1
  <2> QED BY <1>2, <2>1, FS_Injection
<1>4. ASSUME NEW i \in 1..n PROVE sorted(S)[i] \in S
  <2>1. i - 1 \in 0..n - 1
    BY <1>1
  <2>2. \E e \in S : r[e] = i - 1
    BY <1>3, <2>1 DEF Surjection
  <2>3. \E e \in S : Cardinality({f \in S : f < e}) = i - 1
    BY <2>2 DEF r, Rank
  <2>4. sorted(S)[i] = CHOOSE e \in S : Cardinality({f \in S : f < e}) = i - 1
    BY DEF sorted
  <2> QED BY <2>3, <2>4
<1> QED BY <1>1, <1>4

(* All of S before all of T.                                               *)
AllBefore(S, T) == \A e \in S : \A f \in T : e < f
InTurn(S, T) ==
  /\ IsFiniteSet(S \cup T) /\ Cardinality(S \cup T) = Cardinality(S) + Cardinality(T)
  /\ \A i \in 1..Cardinality(S) : sorted(S \cup T)[i] = sorted(S)[i]
  /\ \A i \in 1..Cardinality(T) : sorted(S \cup T)[Cardinality(S) + i] = sorted(T)[i]

LEMMA SortedInTurn ==
  ASSUME NEW S, IsFiniteSet(S), S \subseteq Int, NEW T, IsFiniteSet(T), T \subseteq Int,
         AllBefore(S, T)
  PROVE  InTurn(S, T)
<1> DEFINE m == Cardinality(S)  n == Cardinality(T)  U == S \cup T
<1>1. m \in Nat /\ n \in Nat
  BY FS_CardinalityType
<1>2. IsFiniteSet(U) /\ Cardinality(U) = m + n
  <2>1. S \cap T = {}
    <3> SUFFICES ASSUME NEW e \in S, e \in T PROVE FALSE
      OBVIOUS
    <3>1. e < e /\ e \in Int
      BY DEF AllBefore
    <3> QED BY <3>1
  <2>2. Cardinality(S \cap T) = 0
    BY <2>1, FS_EmptySet
  <2>3. /\ IsFiniteSet(S \cup T)
        /\ Cardinality(S \cup T) = Cardinality(S) + Cardinality(T) - Cardinality(S \cap T)
    BY FS_Union
  <2> QED BY <2>2, <2>3, <1>1
<1>a. \A e \in S : \A f \in T : e < f /\ ~(f < e) /\ e \in Int /\ f \in Int
  <2> SUFFICES ASSUME NEW e \in S, NEW f \in T PROVE ~(f < e)
    BY DEF AllBefore
  <2>1. e < f /\ e \in Int /\ f \in Int
    BY DEF AllBefore
  <2> QED BY <2>1
<1>3. ASSUME NEW e \in S PROVE Rank(U, e) = Rank(S, e) /\ Rank(S, e) \in 0..m - 1
  <2>1. {f \in U : f < e} = {f \in S : f < e}
    BY <1>a
  <2> QED BY <2>1, RankOK DEF Rank
<1>4. ASSUME NEW e \in T PROVE Rank(U, e) = m + Rank(T, e) /\ Rank(T, e) \in 0..n - 1
  <2> DEFINE V == {f \in T : f < e}
  <2>1. {f \in U : f < e} = S \cup V
    BY <1>a
  <2>2. IsFiniteSet(V) /\ Cardinality(V) \in Nat
    BY FS_Subset, FS_CardinalityType
  <2>3. S \cap V = {}
    BY <1>a
  <2> HIDE DEF V
  <2>4. Cardinality(S \cup V) = m + Cardinality(V)
    <3>1. Cardinality(S \cap V) = 0
      BY <2>3, FS_EmptySet
    <3>2. Cardinality(S \cup V) = Cardinality(S) + Cardinality(V) - Cardinality(S \cap V)
      BY <2>2, FS_Union
    <3> HIDE DEF m
    <3>3. Cardinality(S) = m
      BY DEF m
    <3> QED BY <3>1, <3>2, <3>3, <2>2, <1>1
  <2> QED BY <2>1, <2>4, RankOK DEF Rank, V
<1>5. ASSUME NEW i \in 1..m PROVE sorted(U)[i] = sorted(S)[i]
  <2>a. ASSUME NEW e \in T PROVE Rank(U, e) # i - 1
    <3>1. Rank(U, e) = m + Rank(T, e) /\ Rank(T, e) \in 0..n - 1
      BY <1>4
    <3> HIDE DEF m, n, U
    <3> QED BY <3>1, <1>1
  <2>1. \A e : (e \in U /\ Rank(U, e) = i - 1) <=> (e \in S /\ Rank(S, e) = i - 1)
    BY <2>a, <1>3
  <2>2. sorted(U)[i] = CHOOSE e \in U : Rank(U, e) = i - 1
    <3>1. i \in 1..Cardinality(U)
      <4> HIDE DEF m, n, U
      <4> QED BY <1>1, <1>2
    <3> QED BY <3>1 DEF sorted, Rank
  <2>3. sorted(S)[i] = CHOOSE e \in S : Rank(S, e) = i - 1
    BY DEF sorted, Rank
  <2> HIDE DEF U
  <2> QED BY <2>1, <2>2, <2>3, Zenon
<1>6. ASSUME NEW i \in 1..n PROVE sorted(U)[m + i] = sorted(T)[i]
  <2>a. ASSUME NEW e \in S PROVE Rank(U, e) # m + i - 1
    <3>1. Rank(U, e) = Rank(S, e) /\ Rank(S, e) \in 0..m - 1
      BY <1>3
    <3> HIDE DEF m, n, U
    <3> QED BY <3>1, <1>1
  <2>b. ASSUME NEW e \in T PROVE Rank(U, e) = m + i - 1 <=> Rank(T, e) = i - 1
    <3>1. Rank(U, e) = m + Rank(T, e) /\ Rank(T, e) \in 0..n - 1
      BY <1>4
    <3> HIDE DEF m, n, U
    <3> QED BY <3>1, <1>1
  <2>1. \A e : (e \in U /\ Rank(U, e) = m + i - 1) <=> (e \in T /\ Rank(T, e) = i - 1)
    BY <2>a, <2>b
  <2>2. sorted(U)[m + i] = CHOOSE e \in U : Rank(U, e) = m + i - 1
    <3>1. m + i \in 1..Cardinality(U) /\ (m + i) - 1 = m + i - 1
      <4> HIDE DEF m, n, U
      <4> QED BY <1>1, <1>2
    <3> QED BY <3>1 DEF sorted, Rank
  <2>3. sorted(T)[i] = CHOOSE e \in T : Rank(T, e) = i - 1
    BY DEF sorted, Rank
  <2> HIDE DEF U
  <2> QED BY <2>1, <2>2, <2>3, Zenon
<1> QED BY <1>2, <1>5, <1>6 DEF InTurn

-----------------------------------------------------------------------------
(* Boards.                                                                 *)

Group == [height : Nat, writes : SUBSET (Writer \X Nat)]
Writes == Writer \X Nat

(* The writes of one epoch.                                                *)
GroupOf(epoch, now, e) ==
  [height |-> Min({e, now}), writes |-> {x \in DOMAIN epoch : epoch[x] = e}]
Epochs(epoch) == {epoch[x] : x \in DOMAIN epoch}
Groups(epoch, now) ==
  [i \in DOMAIN sorted(Epochs(epoch)) |-> GroupOf(epoch, now, sorted(Epochs(epoch))[i])]

LEMMA ComputeViewIs ==
  ASSUME NEW view, NEW epoch, NEW now
  PROVE  computeView(view, epoch, now) =
           [height |-> Max({view.height, now}), folded |-> view.folded \o Groups(epoch, now)]
BY DEF computeView, Groups, GroupOf, Epochs

LEMMA GroupsOK ==
  ASSUME NEW epoch, DOMAIN epoch \subseteq Writes, NEW k \in Nat, Epochs(epoch) \subseteq 0..k,
         NEW now \in Nat
  PROVE  /\ IsFiniteSet(Epochs(epoch)) /\ Epochs(epoch) \subseteq Int
         /\ Groups(epoch, now) \in Seq(Group)
         /\ Len(Groups(epoch, now)) = Cardinality(Epochs(epoch))
         /\ Cardinality(Epochs(epoch)) \in Nat
         /\ \A i \in 1..Cardinality(Epochs(epoch)) :
              Groups(epoch, now)[i] = GroupOf(epoch, now, sorted(Epochs(epoch))[i])
<1> DEFINE S == Epochs(epoch)
           G == Groups(epoch, now)
           n == Cardinality(S)
<1>1. IsFiniteSet(S) /\ S \subseteq Int
  <2>1. IsFiniteSet(0..k)
    BY FS_Interval
  <2>2. S \subseteq Int
    OBVIOUS
  <2> QED BY <2>1, <2>2, FS_Subset
<1>2. n \in Nat /\ DOMAIN sorted(S) = 1..n /\ \A i \in 1..n : sorted(S)[i] \in S
  BY <1>1, SortedOK
<1>3. ASSUME NEW e \in S PROVE GroupOf(epoch, now, e) \in Group
  <2>1. e \in Int /\ e \in Nat
    OBVIOUS
  <2>2. Min({e, now}) \in Nat
    BY <2>1, OfTwoNats
  <2>3. {x \in DOMAIN epoch : epoch[x] = e} \in SUBSET (Writer \X Nat)
    BY DEF Writes
  <2> QED BY <2>2, <2>3 DEF GroupOf, Group
<1>4. G = [i \in 1..n |-> GroupOf(epoch, now, sorted(S)[i])]
  BY <1>2 DEF Groups
<1> HIDE DEF S, G, n
<1>5. G \in [1..n -> Group]
  BY <1>2, <1>3, <1>4
<1>6. G \in Seq(Group) /\ Len(G) = n
  BY <1>2, <1>5, SeqDef
<1> QED BY <1>1, <1>2, <1>4, <1>6 DEF S, G, n

LEMMA ComputeViewOK ==
  ASSUME NEW view \in Board, NEW epoch, DOMAIN epoch \subseteq Writes, NEW k \in Nat,
         Epochs(epoch) \subseteq 0..k, NEW now \in Nat
  PROVE  computeView(view, epoch, now) \in Board
<1>1. view.height \in Nat /\ view.folded \in Seq(Group)
  BY DEF Board, Group
<1>2. Max({view.height, now}) \in Nat
  BY <1>1, OfTwoNats
<1>3. view.folded \o Groups(epoch, now) \in Seq(Group)
  BY <1>1, GroupsOK, ConcatProperties
<1> QED BY <1>2, <1>3, ComputeViewIs DEF Board, Group

(* What certifies a write on the way to a.                                 *)
Certifying(D, a, x) ==
  {h \in D : x[1] \in DOMAIN a[h].headsDelta /\ x[2] <= a[h].headsDelta[x[1]]}

LEMMA EpochOK ==
  ASSUME NEW c, c.anchors \subseteq Anchor, NEW a \in c.anchors, NEW x
  PROVE  /\ epochOf(c, a, x) =
              (LET C == Certifying(Walk(c, a) \ {0}, a, x)
               IN  IF C = {} THEN height(a) + 1 ELSE Min(C))
         /\ epochOf(c, a, x) \in 0..height(a) + 1
<1> DEFINE C == Certifying(Walk(c, a) \ {0}, a, x)
<1>1. height(a) \in Nat /\ \A h \in Walk(c, a) : h \in 0..height(a)
  BY Ends, WalkOK
<1>2. epochOf(c, a, x) = IF C = {} THEN height(a) + 1 ELSE Min(C)
  BY DEF epochOf, Certifying
<1>3. C \subseteq 0..height(a)
  BY <1>1 DEF Certifying
<1> HIDE DEF C
<1>4. ASSUME C = {} PROVE epochOf(c, a, x) \in 0..height(a) + 1
  BY <1>1, <1>2, <1>4
<1>5. ASSUME C # {} PROVE epochOf(c, a, x) \in 0..height(a) + 1
  <2>1. C \subseteq Nat
    BY <1>1, <1>3
  <2>2. Min(C) \in C
    BY <2>1, <1>5, MinExists
  <2>3. epochOf(c, a, x) \in 0..height(a)
    BY <1>2, <1>3, <1>5, <2>2
  <2> QED BY <1>1, <2>3
<1> QED BY <1>2, <1>4, <1>5 DEF C

-----------------------------------------------------------------------------
(* What nodes hold: the anchors say nothing of writes beyond what has been *)
(* signed (u), and name in a delta what they have in the root.             *)

Store ==
  [anchors : SUBSET Anchor, tip : Anchor \cup {None}, floor : Anchor \cup {None},
   floorHeads : Heads, have : Heads, seed : Heads,
   snap : Snapshot \cup {None}, disk : Snapshot \cup {None}, pending : Snapshot \cup {None}]

Under(u) == {h \in Heads : \A w \in Writer : h[w] <= u[w]}

LinkOK(l, u) ==
  /\ l \in Link /\ l.stateRoot \in Under(u) /\ DOMAIN l.headsDelta \subseteq Writer
  /\ \A w \in DOMAIN l.headsDelta : l.headsDelta[w] = l.stateRoot[w] /\ l.stateRoot[w] > 0
Sound(a, u) == a \in Anchor /\ \A i \in 1..height(a) : LinkOK(a[i], u)
SnapOK(s, u) ==
  s \in Snapshot \cup {None} /\ (s # None => s.heads \in Under(u) /\ Sound(s.anchor, u))

StoreOK(c, u) ==
  /\ c \in Store
  /\ \A a \in c.anchors : Sound(a, u)
  /\ c.tip # None => c.tip \in c.anchors
  /\ c.tip = None => c.floor = None
  /\ c.floor # None => c.floor \in c.anchors
  /\ {c.floorHeads, c.have} \subseteq Under(u)
  /\ \A w \in Writer : c.seed[w] <= c.have[w]
  /\ SnapOK(c.snap, u) /\ SnapOK(c.disk, u) /\ SnapOK(c.pending, u)

RootsInv ==
  /\ setting \in Settings /\ restarts \in 0..MaxRestarts /\ signed \in Heads
  /\ node \in [Node -> Store] /\ draft \in [Node -> Anchor \cup {None}]
  /\ \A n \in Node :
       /\ StoreOK(node[n], signed)
       /\ draft[n] # None => Sound(draft[n], signed) /\ draft[n] # <<>> /\ node[n].tip # None

LEMMA NoHeadsUnder ==
  ASSUME NEW u \in Heads
  PROVE  NoHeads \in Heads /\ NoHeads \in Under(u)
BY DEF Heads, NoHeads, Under

LEMMA SoundBelow ==
  ASSUME NEW u, NEW a, Sound(a, u), NEW h \in 0..height(a)
  PROVE  Sound(upTo(a, h), u)
<1>1. a \in Anchor /\ height(a) \in Nat
  BY Ends DEF Sound
<1>2. upTo(a, h) \in Anchor /\ height(upTo(a, h)) = h /\ \A i \in 1..h : upTo(a, h)[i] = a[i]
  BY <1>1, UpToOK
<1>3. ASSUME NEW i \in 1..h PROVE LinkOK(upTo(a, h)[i], u)
  <2>1. i \in 1..height(a)
    BY <1>1
  <2> QED BY <1>2, <2>1 DEF Sound
<1> QED BY <1>2, <1>3 DEF Sound

LEMMA HeadsOfOK ==
  ASSUME NEW u \in Heads, NEW a, Sound(a, u)
  PROVE  headsOf(a) \in Under(u)
<1>1. CASE a = <<>>
  BY <1>1, NoHeadsUnder DEF headsOf
<1>2. CASE a # <<>>
  <2>1. height(a) \in 1..height(a) /\ top(a) = a[height(a)]
    BY <1>2, PrevOK DEF Sound
  <2> QED BY <1>2, <2>1 DEF headsOf, Sound, LinkOK
<1> QED BY <1>1, <1>2

(* Whatever a node finds that an anchor certifies has been signed.         *)
LEMMA HeadsAtOK ==
  ASSUME NEW u \in Heads, NEW c, StoreOK(c, u), NEW a
  PROVE  headsAt(c, a) \in Under(u)
<1>1. CASE a \notin c.anchors
  BY <1>1, NoHeadsUnder DEF headsAt
<1>2. CASE a \in c.anchors /\ a = c.tip
  BY <1>2, HeadsOfOK DEF headsAt, StoreOK
<1>3. CASE a \in c.anchors /\ a # c.tip /\ a = c.floor
  BY <1>3 DEF headsAt, StoreOK
<1>4. CASE a \in c.anchors /\ a # c.tip /\ a # c.floor
  <2> DEFINE low == Min(Walk(c, a))
             start == IF upTo(a, low) = c.floor THEN c.floorHeads ELSE NoHeads
             first == IF upTo(a, low) = c.floor THEN low + 1 ELSE Max({low, 1})
             of(w) == {h \in first..height(a) : w \in DOMAIN a[h].headsDelta}
             r == [w \in Writer |-> IF of(w) = {} THEN start[w] ELSE a[Max(of(w))].headsDelta[w]]
  <2>1. headsAt(c, a) = accumulate(c, a)
    BY <1>4 DEF headsAt
  <2>2. accumulate(c, a) = r
    BY DEF accumulate
  <2>3. Sound(a, u) /\ a \in Anchor /\ height(a) \in Nat /\ low \in 0..height(a)
    BY <1>4, WalkOK, Ends DEF StoreOK, Sound
  <2>4. start \in Under(u)
    BY NoHeadsUnder DEF StoreOK
  <2>5. first \in Nat \ {0}
    <3> HIDE DEF low
    <3>1. low \in Int /\ 1 \in Int /\ low >= 0
      BY <2>3
    <3>2. Max({low, 1}) = IF low >= 1 THEN low ELSE 1
      BY <3>1, OfTwo
    <3> QED BY <3>1, <3>2
  <2> HIDE DEF low, start, first
  <2>6. ASSUME NEW w \in Writer PROVE r[w] \in Nat /\ r[w] <= u[w]
    <3>1. CASE of(w) = {}
      BY <3>1, <2>4 DEF Under, Heads
    <3>2. CASE of(w) # {}
      <4> DEFINE m == Max(of(w))
      <4>1. of(w) \subseteq 0..height(a)
        BY <2>3, <2>5
      <4>2. m \in of(w)
        <5> HIDE DEF of
        <5> QED BY <3>2, <4>1, <2>3, MaxExists
      <4>3. m \in 1..height(a) /\ w \in DOMAIN a[m].headsDelta
        <5>1. m \in first..height(a) /\ w \in DOMAIN a[m].headsDelta
          BY <4>2
        <5> HIDE DEF m
        <5> QED BY <5>1, <2>3, <2>5
      <4>4. r[w] = a[m].headsDelta[w]
        BY <3>2
      <4> HIDE DEF m, of, r
      <4>5. LinkOK(a[m], u)
        BY <4>3, <2>3 DEF Sound
      <4>6. r[w] = a[m].stateRoot[w] /\ a[m].stateRoot \in Under(u)
        BY <4>3, <4>4, <4>5 DEF LinkOK
      <4> QED BY <4>6 DEF Under, Heads
    <3> QED BY <3>1, <3>2
  <2>7. r = [w \in Writer |-> r[w]]
    OBVIOUS
  <2> HIDE DEF r
  <2> QED BY <2>1, <2>2, <2>6, <2>7 DEF Under, Heads
<1> QED BY <1>1, <1>2, <1>3, <1>4

(* Boards are boards.                                                      *)
LEMMA StoreIs ==
  ASSUME NEW u, NEW c, StoreOK(c, u)
  PROVE  /\ c \in Store /\ c.anchors \subseteq Anchor /\ c.have \in Heads /\ c.seed \in Heads
         /\ c.floorHeads \in Heads
         /\ base(c) \in Board /\ allWrites(c) \subseteq Writes
<1>1. c \in Store /\ c.anchors \subseteq Anchor /\ c.have \in Heads /\ c.seed \in Heads /\ c.floorHeads \in Heads
  BY DEF StoreOK, Store
<1>2. base(c) \in Board
  <2>1. emptyView \in Board
    BY EmptySeq DEF emptyView, Board
  <2>2. c.snap # None => c.snap \in Snapshot
    BY DEF StoreOK, SnapOK
  <2> QED BY <2>1, <2>2 DEF base, Snapshot
<1>3. ASSUME NEW w \in Writer, NEW s \in (c.seed[w] + 1)..c.have[w] PROVE s \in Nat
  <2>1. c.seed[w] \in Nat /\ c.have[w] \in Nat
    BY <1>1 DEF Heads
  <2> QED BY <2>1
<1>4. allWrites(c) \subseteq Writes
  BY <1>3 DEF allWrites, Writes
<1> QED BY <1>1, <1>2, <1>4

(* The epochs of what is included.                                         *)
Included(c, heads) == {x \in allWrites(c) : x[2] <= heads[x[1]]}
EpochsIn(c, a, X) == [x \in X |-> epochOf(c, a, x)]

LEMMA ViewIs ==
  ASSUME NEW c, NEW a
  PROVE  viewAt(c, a) =
           computeView(base(c), EpochsIn(c, a, Included(c, headsAt(c, a))), height(a))
BY DEF viewAt, Included, EpochsIn

LEMMA EpochsInOK ==
  ASSUME NEW c, c.anchors \subseteq Anchor, NEW a \in c.anchors, NEW X
  PROVE  /\ DOMAIN EpochsIn(c, a, X) = X
         /\ Epochs(EpochsIn(c, a, X)) = {epochOf(c, a, x) : x \in X}
         /\ Epochs(EpochsIn(c, a, X)) \subseteq 0..height(a) + 1
<1>1. DOMAIN EpochsIn(c, a, X) = X /\ Epochs(EpochsIn(c, a, X)) = {epochOf(c, a, x) : x \in X}
  BY DEF EpochsIn, Epochs
<1>2. \A x \in X : epochOf(c, a, x) \in 0..height(a) + 1
  BY Zenon, EpochOK
<1> QED BY <1>1, <1>2

LEMMA ViewOK ==
  ASSUME NEW u, NEW c, StoreOK(c, u), NEW a \in c.anchors
  PROVE  viewAt(c, a) \in Board
<1> DEFINE X == Included(c, headsAt(c, a))
<1>1. /\ base(c) \in Board /\ allWrites(c) \subseteq Writes /\ a \in Anchor
      /\ height(a) \in Nat /\ height(a) + 1 \in Nat /\ c.anchors \subseteq Anchor
  BY StoreIs, Ends
<1>2. X \subseteq Writes
  BY <1>1 DEF Included
<1> HIDE DEF X
<1>3. computeView(base(c), EpochsIn(c, a, X), height(a)) \in Board
  <2>1. DOMAIN EpochsIn(c, a, X) \subseteq Writes /\ Epochs(EpochsIn(c, a, X)) \subseteq 0..height(a) + 1
    BY <1>1, <1>2, EpochsInOK
  <2> QED BY <1>1, <2>1, ComputeViewOK
<1> QED BY <1>3, ViewIs DEF X

(* More has been signed since.                                             *)
LEMMA MoreSigned ==
  ASSUME NEW u \in Heads, NEW v \in Heads, \A w \in Writer : u[w] <= v[w]
  PROVE  /\ Under(u) \subseteq Under(v)
         /\ \A a : Sound(a, u) => Sound(a, v)
         /\ \A c : StoreOK(c, u) => StoreOK(c, v)
<1>1. Under(u) \subseteq Under(v)
  <2> SUFFICES ASSUME NEW h \in Under(u), NEW w \in Writer PROVE h[w] <= v[w]
    BY DEF Under
  <2>1. h[w] \in Nat /\ u[w] \in Nat /\ v[w] \in Nat /\ h[w] <= u[w]
    BY DEF Under, Heads
  <2> QED BY <2>1
<1>2. \A l : LinkOK(l, u) => LinkOK(l, v)
  BY <1>1 DEF LinkOK
<1>3. \A a : Sound(a, u) => Sound(a, v)
  BY <1>2 DEF Sound
<1>4. \A s : SnapOK(s, u) => SnapOK(s, v)
  BY <1>1, <1>3 DEF SnapOK
<1>5. \A c : StoreOK(c, u) => StoreOK(c, v)
  BY <1>1, <1>3, <1>4 DEF StoreOK
<1> QED BY <1>1, <1>3, <1>5

-----------------------------------------------------------------------------
(* Adding anchors.                                                         *)

LEMMA AddOK ==
  ASSUME NEW u \in Heads, NEW c, StoreOK(c, u), c.tip # None, NEW a, Sound(a, u)
  PROVE  StoreOK(add(c, a), u) /\ add(c, a).tip # None
<1> DEFINE d == [c EXCEPT !.anchors = @ \cup {a}, !.tip = IF heavier(a, @) THEN a ELSE @]
<1>1. a # None /\ a \in Anchor
  BY NoneAssumption DEF Sound
<1>2. StoreOK(d, u) /\ d.tip # None
  <2>1. c \in Store
    BY DEF StoreOK
  <2>2. /\ d.anchors = c.anchors \cup {a} /\ d.tip = (IF heavier(a, c.tip) THEN a ELSE c.tip)
        /\ d.floor = c.floor /\ d.floorHeads = c.floorHeads /\ d.have = c.have /\ d.seed = c.seed
        /\ d.snap = c.snap /\ d.disk = c.disk /\ d.pending = c.pending
    BY <2>1 DEF Store
  <2>3. d \in Store
    BY <2>1, <1>1 DEF Store
  <2>4. d.tip \in {a, c.tip}
    BY <2>2
  <2> HIDE DEF d
  <2> QED BY <1>1, <2>2, <2>3, <2>4 DEF StoreOK
<1>3. add(c, a) = c \/ add(c, a) = d
  BY DEF add
<1> HIDE DEF d
<1> QED BY <1>2, <1>3

(* addChain: what it has come to at each height.                           *)
AddedUpTo(c, a, low, g, m) ==
  g = [h \in 0..m |-> IF h = 0 \/ h < low THEN c ELSE add(g[h - 1], upTo(a, h))]

LEMMA AddedUpToExists ==
  ASSUME NEW c, NEW a, NEW low, NEW m \in Nat
  PROVE  \E g : AddedUpTo(c, a, low, g, m)
<1> DEFINE N == {k \in Nat : ~\E g : AddedUpTo(c, a, low, g, k)}
<1>1. 0 \notin N
  <2> DEFINE g == [h \in 0..0 |-> c]
  <2>1. \A h \in 0..0 : h = 0
    OBVIOUS
  <2>2. g = [h \in 0..0 |-> IF h = 0 \/ h < low THEN c ELSE add(g[h - 1], upTo(a, h))]
    BY <2>1
  <2> HIDE DEF g
  <2> QED BY <2>2 DEF AddedUpTo
<1>2. ASSUME N # {} PROVE FALSE
  <2>1. PICK k \in N : \A j \in N : k <= j
    <3>1. N \subseteq Nat
      OBVIOUS
    <3> QED BY <3>1, <1>2, LeastExists
  <2>2. k \in Nat /\ k # 0 /\ k - 1 \in Nat /\ ~(k <= k - 1)
    BY <1>1
  <2>3. PICK g : AddedUpTo(c, a, low, g, k - 1)
    BY <2>1, <2>2
  <2> DEFINE next == IF k = 0 \/ k < low THEN c ELSE add(g[k - 1], upTo(a, k))
             f == [h \in 0..k |-> IF h = k THEN next ELSE g[h]]
  <2>4. \A h \in 0..k : h # 0 => f[h - 1] = g[h - 1]
    <3> SUFFICES ASSUME NEW h \in 0..k, h # 0 PROVE f[h - 1] = g[h - 1]
      OBVIOUS
    <3>1. h - 1 \in 0..k /\ h - 1 # k
      BY <2>2
    <3> QED BY <3>1
  <2>5. ASSUME NEW h \in 0..k
        PROVE  f[h] = IF h = 0 \/ h < low THEN c ELSE add(f[h - 1], upTo(a, h))
    <3>1. CASE h = k
      <4>1. f[h] = next /\ f[h - 1] = g[k - 1]
        BY <3>1, <2>2, <2>4
      <4> HIDE DEF f
      <4> QED BY <3>1, <4>1
    <3>2. CASE h # k
      <4>1. h \in 0..k - 1
        BY <3>2, <2>2
      <4>2. f[h] = g[h]
        BY <3>2
      <4>3. g[h] = IF h = 0 \/ h < low THEN c ELSE add(g[h - 1], upTo(a, h))
        BY <4>1, <2>3 DEF AddedUpTo
      <4>4. h # 0 => f[h - 1] = g[h - 1]
        BY <2>4
      <4> HIDE DEF f
      <4> QED BY <4>2, <4>3, <4>4
    <3> QED BY <3>1, <3>2
  <2>6. AddedUpTo(c, a, low, f, k)
    <3>1. f = [h \in 0..k |-> f[h]]
      OBVIOUS
    <3> HIDE DEF f
    <3>2. f = [h \in 0..k |-> IF h = 0 \/ h < low THEN c ELSE add(f[h - 1], upTo(a, h))]
      BY <3>1, <2>5
    <3> QED BY <3>2 DEF AddedUpTo
  <2> QED BY <2>1, <2>6
<1> QED BY <1>2

(* Whatever holds of stores, and is kept whenever an anchor on the way to  *)
(* a is added, is kept.                                                    *)
LEMMA AddChainKeeps ==
  ASSUME NEW a \in Anchor, NEW low, NEW P, NEW c \in P,
         \A h \in 1..height(a) : ~(h < low) => \A d \in P : add(d, upTo(a, h)) \in P
  PROVE  addChain(c, a, low) \in P
<1> DEFINE m == height(a)
           F == CHOOSE g : AddedUpTo(c, a, low, g, m)
<1>1. m \in Nat
  BY Ends
<1>2. addChain(c, a, low) = F[m]
  BY DEF addChain, AddedUpTo
<1>3. AddedUpTo(c, a, low, F, m)
  <2> HIDE DEF m
  <2> QED BY <1>1, AddedUpToExists
<1> HIDE DEF F, m
<1>4. \A h \in 0..m : F[h] = IF h = 0 \/ h < low THEN c ELSE add(F[h - 1], upTo(a, h))
  BY <1>3 DEF AddedUpTo
<1> DEFINE N == {h \in 0..m : F[h] \notin P}
<1>5. ASSUME N # {} PROVE FALSE
  <2>1. PICK k \in N : \A j \in N : k <= j
    <3>1. N \subseteq Nat
      BY <1>1
    <3> QED BY <3>1, <1>5, LeastExists
  <2>2. k \in 0..m /\ F[k] \notin P
    BY <2>1
  <2>3. k # 0 /\ ~(k < low) /\ F[k] = add(F[k - 1], upTo(a, k))
    BY <2>2, <1>4
  <2>4. k - 1 \in 0..m /\ ~(k <= k - 1) /\ k \in 1..m
    BY <2>2, <2>3, <1>1
  <2>5. F[k - 1] \in P
    BY <2>1, <2>4
  <2> QED BY <2>2, <2>3, <2>4, <2>5 DEF m
<1>6. m \in 0..m
  BY <1>1
<1> QED BY <1>2, <1>5, <1>6

LEMMA AddChainOK ==
  ASSUME NEW u \in Heads, NEW c, StoreOK(c, u), c.tip # None, NEW a, Sound(a, u), NEW low
  PROVE  StoreOK(addChain(c, a, low), u) /\ addChain(c, a, low).tip # None
<1> DEFINE P == {d \in Store : StoreOK(d, u) /\ d.tip # None}
<1>1. c \in P /\ a \in Anchor
  BY DEF StoreOK, Sound
<1>2. ASSUME NEW h \in 1..height(a), NEW d \in P PROVE add(d, upTo(a, h)) \in P
  <2>1. h \in 0..height(a)
    BY <1>1, Ends
  <2>2. StoreOK(d, u) /\ d.tip # None /\ Sound(upTo(a, h), u)
    BY <2>1, SoundBelow
  <2>3. StoreOK(add(d, upTo(a, h)), u) /\ add(d, upTo(a, h)).tip # None
    BY <2>2, AddOK
  <2> QED BY <2>3 DEF StoreOK
<1> HIDE DEF P
<1>3. addChain(c, a, low) \in P
  BY <1>1, <1>2, AddChainKeeps
<1> QED BY <1>3 DEF P

-----------------------------------------------------------------------------
(* Checkpoints.                                                            *)

LEMMA WalkFromTip ==
  ASSUME NEW u, NEW c, StoreOK(c, u), c.tip # None
  PROVE  /\ c.tip \in Anchor /\ c.tip \in c.anchors /\ height(c.tip) \in Nat
         /\ Min(Walk(c, c.tip)) \in 0..height(c.tip)
         /\ \A h : h \in Walk(c, c.tip) <=> h \in Min(Walk(c, c.tip))..height(c.tip)
         /\ \A h \in Walk(c, c.tip) :
              h \in 0..height(c.tip) /\ upTo(c.tip, h) \in c.anchors /\ height(upTo(c.tip, h)) = h
<1>1. c.tip \in c.anchors /\ c.tip \in Anchor
  BY StoreIs DEF StoreOK
<1>2. height(c.tip) \in Nat
  BY <1>1, Ends
<1>3. /\ Min(Walk(c, c.tip)) \in 0..height(c.tip)
      /\ Walk(c, c.tip) = Min(Walk(c, c.tip))..height(c.tip)
      /\ \A h \in Walk(c, c.tip) : h \in 0..height(c.tip) /\ upTo(c.tip, h) \in c.anchors
  BY <1>1, WalkOK
<1>4. \A h \in Walk(c, c.tip) : height(upTo(c.tip, h)) = h
  BY <1>1, <1>3, UpToOK
<1> QED BY <1>1, <1>2, <1>3, <1>4

LEMMA PruneOK ==
  ASSUME NEW u \in Heads, NEW c, StoreOK(c, u), c.tip # None, NEW h \in Int
  PROVE  StoreOK(prune(c, h), u) /\ prune(c, h).tip = c.tip
<1> DEFINE fl == upTo(c.tip, h)
           d == [c EXCEPT !.anchors = {a \in @ : height(a) >= h},
                          !.floor = fl, !.floorHeads = headsAt(c, fl)]
<1>1. ASSUME h \in Walk(c, c.tip) PROVE StoreOK(d, u) /\ d.tip = c.tip
  <2>1. c \in Store
    BY DEF StoreOK
  <2>2. fl \in c.anchors /\ height(fl) = h /\ fl \in Anchor /\ h \in 0..height(c.tip)
    BY <1>1, WalkFromTip, StoreIs
  <2>3. headsAt(c, fl) \in Under(u) /\ headsAt(c, fl) \in Heads
    BY HeadsAtOK DEF Under
  <2> HIDE DEF fl
  <2>4. /\ d.anchors = {a \in c.anchors : height(a) >= h} /\ d.tip = c.tip
        /\ d.floor = fl /\ d.floorHeads = headsAt(c, fl) /\ d.have = c.have /\ d.seed = c.seed
        /\ d.snap = c.snap /\ d.disk = c.disk /\ d.pending = c.pending
    BY <2>1 DEF Store
  <2>5. d \in Store
    BY <2>1, <2>2, <2>3 DEF Store
  <2>6. fl # None /\ fl \in d.anchors
    <3>1. h >= h
      OBVIOUS
    <3> HIDE DEF d
    <3> QED BY <3>1, <2>2, <2>4, NoneAssumption
  <2>7. c.tip \in d.anchors
    <3>1. height(c.tip) \in Nat /\ c.tip \in c.anchors
      BY WalkFromTip
    <3>2. height(c.tip) >= h
      BY <3>1, <2>2
    <3> HIDE DEF d
    <3> QED BY <3>1, <3>2, <2>4
  <2> HIDE DEF d
  <2> QED BY <2>3, <2>4, <2>5, <2>6, <2>7 DEF StoreOK
<1>2. prune(c, h) = c \/ (h \in Walk(c, c.tip) /\ prune(c, h) = d)
  BY DEF prune
<1> HIDE DEF d
<1> QED BY <1>1, <1>2

(* What is finalized is held.                                              *)
LEMMA FinalizedOK ==
  ASSUME NEW u, NEW c, StoreOK(c, u), c.tip # None, NEW k \in Nat
  PROVE  \E h \in Walk(c, c.tip) :
           /\ finalized(c, k) = upTo(c.tip, h)
           /\ h = Min(Walk(c, c.tip)) \/ h = height(c.tip) - k
<1> DEFINE low == Min(Walk(c, c.tip))
           h == Max({low, height(c.tip) - k})
<1>1. low \in 0..height(c.tip) /\ height(c.tip) \in Nat
  BY WalkFromTip
<1>2. finalized(c, k) = upTo(c.tip, h)
  BY DEF finalized
<1> HIDE DEF low
<1>3. h \in low..height(c.tip) /\ (h = low \/ h = height(c.tip) - k)
  <2>1. low \in Int /\ height(c.tip) - k \in Int
    BY <1>1
  <2>2. h = IF low >= height(c.tip) - k THEN low ELSE height(c.tip) - k
    BY <2>1, OfTwo
  <2> QED BY <2>1, <2>2, <1>1
<1> HIDE DEF h
<1>4. h \in Walk(c, c.tip)
  BY <1>3, WalkFromTip DEF low
<1> QED BY <1>2, <1>3, <1>4 DEF low

LEMMA SettledOK ==
  ASSUME NEW u, NEW c, StoreOK(c, u), c.tip # None
  PROVE  /\ settled(c) \in c.anchors /\ settled(c) \in Anchor /\ height(settled(c)) \in Nat
         /\ settled(c) = c.floor \/ settled(c) = finalized(c, settleDepth)
<1>1. settleDepth \in Nat
  BY StateRootsAssumption
<1>2. finalized(c, settleDepth) \in c.anchors
  BY <1>1, FinalizedOK, WalkFromTip
<1>3. /\ settled(c) \in c.anchors
      /\ settled(c) = c.floor \/ settled(c) = finalized(c, settleDepth)
  BY <1>2 DEF settled, StoreOK
<1> QED BY <1>3, StoreIs, Ends

LEMMA SettingIs ==
  ASSUME setting \in Settings
  PROVE  setting.margin \in Nat /\ setting.every \in Nat \ {0}
BY StateRootsAssumption DEF Setting

(* A checkpoint is taken at b.                                             *)
Snapped(c, b) == [anchor |-> b, heads |-> headsAt(c, b), state |-> viewAt(c, b)]
Taken(c, b) ==
  [c EXCEPT !.snap = Snapped(c, b), !.disk = Snapped(c, b),
            !.seed = pruneBelow(@, headsAt(c, b))]

LEMMA Boundary ==
  ASSUME NEW x \in Nat, NEW y \in Nat \ {0}
  PROVE  (x \div y) * y <= x /\ (x \div y) * y \in Nat
OBVIOUS

LEMMA CheckpointIs ==
  ASSUME setting \in Settings, NEW u \in Heads, NEW c, StoreOK(c, u), c.tip # None
  PROVE  \/ maybeCheckpoint(c) = c
         \/ \E h \in 1..height(settled(c)) :
              /\ upTo(settled(c), h) \in c.anchors
              /\ c.snap # None => h > height(c.snap.anchor)
              /\ haveAllWrites(c, headsAt(c, upTo(settled(c), h)))
              /\ maybeCheckpoint(c) = prune(Taken(c, upTo(settled(c), h)), h - setting.margin)
<1> DEFINE fin == settled(c)
           target == (height(fin) \div setting.every) * setting.every
           last == IF c.snap = None THEN -1 ELSE height(c.snap.anchor)
           ckpt == upTo(fin, target)
<1>1. fin \in c.anchors /\ fin \in Anchor /\ height(fin) \in Nat
  BY SettledOK
<1>2. target \in Nat /\ target <= height(fin)
  <2>1. setting.every \in Nat \ {0}
    BY SettingIs
  <2> HIDE DEF fin
  <2> QED BY <1>1, <2>1, Boundary
<1>3. \/ maybeCheckpoint(c) = c
      \/ /\ target > 0 /\ target > last
         /\ ckpt \in chainTo(c, fin) /\ haveAllWrites(c, headsAt(c, ckpt))
         /\ maybeCheckpoint(c) = prune(Taken(c, ckpt), target - setting.margin)
  BY DEF maybeCheckpoint, Taken, Snapped
<1>4. c.snap # None => last = height(c.snap.anchor)
  OBVIOUS
<1> HIDE DEF fin, target, last
<1>5. ASSUME ckpt \in chainTo(c, fin) PROVE ckpt \in c.anchors
  <2>1. \A h \in Walk(c, fin) : upTo(fin, h) \in c.anchors
    BY <1>1, WalkOK
  <2> HIDE DEF ckpt
  <2> QED BY <1>5, <2>1 DEF chainTo
<1>6. target > 0 => target \in 1..height(fin)
  BY <1>1, <1>2
<1>7. \/ maybeCheckpoint(c) = c
      \/ /\ target \in 1..height(fin) /\ ckpt \in c.anchors
         /\ c.snap # None => target > height(c.snap.anchor)
         /\ haveAllWrites(c, headsAt(c, ckpt))
         /\ maybeCheckpoint(c) = prune(Taken(c, ckpt), target - setting.margin)
  BY <1>3, <1>4, <1>5, <1>6
<1> QED BY <1>7 DEF fin

LEMMA TakenOK ==
  ASSUME NEW u \in Heads, NEW c, StoreOK(c, u), NEW b \in c.anchors,
         haveAllWrites(c, headsAt(c, b))
  PROVE  /\ StoreOK(Taken(c, b), u)
         /\ Taken(c, b).anchors = c.anchors /\ Taken(c, b).tip = c.tip
         /\ Taken(c, b).floor = c.floor /\ Taken(c, b).floorHeads = c.floorHeads
         /\ Taken(c, b).pending = c.pending
         /\ Taken(c, b).snap = Snapped(c, b) /\ Taken(c, b).disk = Snapped(c, b)
         /\ Taken(c, b).seed = pruneBelow(c.seed, headsAt(c, b))
<1> DEFINE heads == headsAt(c, b)
           snp == Snapped(c, b)
           d == Taken(c, b)
<1>1. c \in Store /\ c.seed \in Heads /\ c.have \in Heads
  BY DEF StoreOK, Store
<1>2. heads \in Under(u) /\ heads \in Heads
  BY HeadsAtOK DEF Under
<1>3. snp \in Snapshot /\ SnapOK(snp, u)
  <2>1. b \in Anchor /\ Sound(b, u) /\ viewAt(c, b) \in Board
    BY ViewOK, StoreIs DEF StoreOK
  <2>2. /\ snp = [anchor |-> b, heads |-> heads, state |-> viewAt(c, b)]
    BY DEF Snapped
  <2> HIDE DEF snp, heads
  <2> QED BY <2>1, <2>2, <1>2 DEF Snapshot, SnapOK
<1>4. ASSUME NEW w \in Writer
      PROVE  pruneBelow(c.seed, heads)[w] \in Nat /\ pruneBelow(c.seed, heads)[w] <= c.have[w]
  <2>1. c.seed[w] \in Nat /\ heads[w] \in Nat /\ c.have[w] \in Nat /\ c.seed[w] <= c.have[w]
    BY <1>1, <1>2 DEF Heads, StoreOK
  <2>2. heads[w] <= c.have[w]
    BY <2>1 DEF haveAllWrites
  <2>3. pruneBelow(c.seed, heads)[w] = Max({c.seed[w], heads[w]})
    BY DEF pruneBelow
  <2>4. c.seed[w] \in Int /\ heads[w] \in Int
    BY <2>1
  <2>5. pruneBelow(c.seed, heads)[w] = IF c.seed[w] >= heads[w] THEN c.seed[w] ELSE heads[w]
    BY <2>3, <2>4, OfTwo
  <2> QED BY <2>1, <2>2, <2>5
<1> HIDE DEF heads, snp
<1>5. pruneBelow(c.seed, heads) \in Heads
  <2>1. pruneBelow(c.seed, heads) = [w \in Writer |-> pruneBelow(c.seed, heads)[w]]
    BY DEF pruneBelow
  <2> QED BY <2>1, <1>4 DEF Heads
<1>6. d = [c EXCEPT !.snap = snp, !.disk = snp, !.seed = pruneBelow(@, heads)]
  BY DEF Taken, snp, heads
<1> HIDE DEF d
<1>7. /\ d.anchors = c.anchors /\ d.tip = c.tip /\ d.floor = c.floor
      /\ d.floorHeads = c.floorHeads /\ d.have = c.have /\ d.seed = pruneBelow(c.seed, heads)
      /\ d.snap = snp /\ d.disk = snp /\ d.pending = c.pending
  BY <1>1, <1>6 DEF Store
<1>8. d \in Store
  BY <1>1, <1>3, <1>5, <1>6 DEF Store
<1>9. StoreOK(d, u)
  BY <1>3, <1>4, <1>7, <1>8 DEF StoreOK
<1> QED BY <1>7, <1>9 DEF d, snp, heads

LEMMA CheckpointOK ==
  ASSUME setting \in Settings, NEW u \in Heads, NEW c, StoreOK(c, u), c.tip # None
  PROVE  StoreOK(maybeCheckpoint(c), u) /\ maybeCheckpoint(c).tip = c.tip
<1>1. CASE maybeCheckpoint(c) = c
  BY <1>1
<1>2. CASE maybeCheckpoint(c) # c
  <2>1. PICK h \in 1..height(settled(c)) :
          /\ upTo(settled(c), h) \in c.anchors
          /\ haveAllWrites(c, headsAt(c, upTo(settled(c), h)))
          /\ maybeCheckpoint(c) = prune(Taken(c, upTo(settled(c), h)), h - setting.margin)
    BY <1>2, CheckpointIs
  <2> DEFINE d == Taken(c, upTo(settled(c), h))
  <2>2. StoreOK(d, u) /\ d.tip = c.tip
    BY <2>1, TakenOK
  <2>3. h - setting.margin \in Int
    BY SettingIs
  <2> HIDE DEF d
  <2>4. StoreOK(prune(d, h - setting.margin), u) /\ prune(d, h - setting.margin).tip = d.tip
    BY <2>2, <2>3, PruneOK
  <2> QED BY <2>1, <2>2, <2>4 DEF d
<1> QED BY <1>1, <1>2

LEMMA SeededOK ==
  ASSUME NEW u \in Heads, NEW own \in Heads, NEW seed \in Heads, NEW heads \in Under(u),
         own \in Under(u), \A w \in Writer : seed[w] <= own[w]
  PROVE  /\ seeded(own, heads) \in Under(u) /\ seeded(seed, heads) \in Heads
         /\ \A w \in Writer : seeded(seed, heads)[w] <= seeded(own, heads)[w]
<1>1. ASSUME NEW w \in Writer
      PROVE  /\ seeded(own, heads)[w] \in Nat /\ seeded(own, heads)[w] <= u[w]
             /\ seeded(seed, heads)[w] \in Nat /\ seeded(seed, heads)[w] <= seeded(own, heads)[w]
  <2>1. /\ own[w] \in Nat /\ seed[w] \in Nat /\ heads[w] \in Nat
        /\ own[w] <= u[w] /\ heads[w] <= u[w] /\ seed[w] <= own[w]
    BY DEF Heads, Under
  <2> QED BY <2>1 DEF seeded
<1>2. /\ seeded(own, heads) = [w \in Writer |-> seeded(own, heads)[w]]
      /\ seeded(seed, heads) = [w \in Writer |-> seeded(seed, heads)[w]]
  BY DEF seeded
<1> QED BY <1>1, <1>2 DEF Heads, Under

LEMMA IngestSnapshotOK ==
  ASSUME NEW u \in Heads, NEW c, StoreOK(c, u), NEW s, SnapOK(s, u), s # None
  PROVE  StoreOK(ingestSnapshot(c, s), u) /\ ingestSnapshot(c, s).tip = c.tip
<1> DEFINE d == [seedCheckpoint(c, s.heads) EXCEPT !.snap = s, !.pending = None]
           e == [c EXCEPT !.pending = s]
<1>1. c \in Store /\ c.have \in Heads /\ c.seed \in Heads /\ s \in Snapshot /\ s.heads \in Under(u)
  BY StoreIs DEF SnapOK
<1>2. StoreOK(d, u) /\ d.tip = c.tip
  <2>1. /\ seeded(c.have, s.heads) \in Under(u) /\ seeded(c.seed, s.heads) \in Heads
        /\ \A w \in Writer : seeded(c.seed, s.heads)[w] <= seeded(c.have, s.heads)[w]
    BY <1>1, SeededOK DEF StoreOK
  <2>2. /\ d.anchors = c.anchors /\ d.tip = c.tip /\ d.floor = c.floor
        /\ d.floorHeads = c.floorHeads /\ d.have = seeded(c.have, s.heads)
        /\ d.seed = seeded(c.seed, s.heads)
        /\ d.snap = s /\ d.disk = c.disk /\ d.pending = None
    BY <1>1 DEF Store, seedCheckpoint
  <2>3. d \in Store
    <3>1. seeded(c.have, s.heads) \in Heads
      BY <2>1 DEF Under
    <3> QED BY <1>1, <2>1, <3>1 DEF Store, seedCheckpoint
  <2>4. SnapOK(None, u)
    BY DEF SnapOK
  <2> HIDE DEF d
  <2> QED BY <2>1, <2>2, <2>3, <2>4 DEF StoreOK
<1>3. StoreOK(e, u) /\ e.tip = c.tip
  <2>1. /\ e.anchors = c.anchors /\ e.tip = c.tip /\ e.floor = c.floor
        /\ e.floorHeads = c.floorHeads /\ e.have = c.have /\ e.seed = c.seed
        /\ e.snap = c.snap /\ e.disk = c.disk /\ e.pending = s
    BY <1>1 DEF Store
  <2>2. e \in Store
    BY <1>1 DEF Store
  <2> HIDE DEF e
  <2> QED BY <2>1, <2>2 DEF StoreOK
<1>4. ingestSnapshot(c, s) \in {c, d, e}
  BY DEF ingestSnapshot
<1> HIDE DEF d, e
<1> QED BY <1>2, <1>3, <1>4

LEMMA OnTipOK ==
  ASSUME setting \in Settings, NEW u \in Heads, NEW c, StoreOK(c, u), c.tip # None, NEW before
  PROVE  StoreOK(onTip(c, before), u) /\ onTip(c, before).tip = c.tip
<1> DEFINE d == maybeCheckpoint(c)
<1>1. StoreOK(d, u) /\ d.tip = c.tip
  BY CheckpointOK
<1>2. onTip(c, before) = c \/ onTip(c, before) = tryPendingSnapshot(d)
  BY DEF onTip
<1> HIDE DEF d
<1>3. tryPendingSnapshot(d) = IF d.pending = None THEN d ELSE ingestSnapshot(d, d.pending)
  BY DEF tryPendingSnapshot
<1>4. SnapOK(d.pending, u)
  BY <1>1 DEF StoreOK
<1>5. StoreOK(tryPendingSnapshot(d), u) /\ tryPendingSnapshot(d).tip = d.tip
  BY <1>1, <1>3, <1>4, IngestSnapshotOK
<1> QED BY <1>1, <1>2, <1>5

LEMMA AdoptOK ==
  ASSUME NEW u \in Heads, NEW c, StoreOK(c, u), NEW a, NEW low \in Nat, canAdopt(c, a, low)
  PROVE  StoreOK(adopt(c, low), u) /\ adopt(c, low).tip # None
<1> DEFINE fl == c.pending.anchor
           A == {upTo(fl, h) : h \in low..height(fl)}
           d == [c EXCEPT !.anchors = A, !.tip = fl, !.floor = fl, !.floorHeads = c.pending.heads]
<1>1. c \in Store /\ c.pending \in Snapshot /\ Sound(fl, u) /\ c.pending.heads \in Under(u)
  BY DEF StoreOK, SnapOK, canAdopt
<1>2. fl \in Anchor /\ height(fl) \in Nat /\ low <= height(fl)
  BY <1>1, Ends DEF Sound, canAdopt
<1> HIDE DEF fl
<1>3. \A x \in A : Sound(x, u) /\ x \in Anchor
  <2>1. \A h \in low..height(fl) : h \in 0..height(fl)
    BY <1>2
  <2>2. \A h \in low..height(fl) : Sound(upTo(fl, h), u)
    BY <1>1, <2>1, SoundBelow
  <2> QED BY <2>2 DEF Sound
<1>4. fl \in A /\ fl # None
  <2>1. height(fl) \in low..height(fl) /\ upTo(fl, height(fl)) = fl
    BY <1>2, Ends
  <2> QED BY <2>1, <1>2, NoneAssumption
<1> HIDE DEF A
<1>5. /\ d.anchors = A /\ d.tip = fl /\ d.floor = fl
      /\ d.floorHeads = c.pending.heads /\ d.have = c.have /\ d.seed = c.seed
      /\ d.snap = c.snap /\ d.disk = c.disk /\ d.pending = c.pending
  BY <1>1 DEF Store
<1>6. d \in Store
  <2>1. A \subseteq Anchor /\ c.pending.heads \in Heads
    BY <1>1, <1>3 DEF Under
  <2> QED BY <2>1, <1>1, <1>2 DEF Store
<1>7. adopt(c, low) = d
  BY DEF adopt, fl, A
<1> HIDE DEF d
<1>8. StoreOK(d, u)
  BY <1>1, <1>3, <1>4, <1>5, <1>6 DEF StoreOK
<1> QED BY <1>4, <1>5, <1>7, <1>8

LEMMA IngestAnchorsOK ==
  ASSUME setting \in Settings, NEW u \in Heads, NEW c, StoreOK(c, u), NEW a, Sound(a, u), NEW low \in Nat
  PROVE  /\ StoreOK(ingestAnchors(c, a, low), u)
         /\ c.tip # None => ingestAnchors(c, a, low).tip # None
<1>1. CASE c.tip = None \/ (c.tip = <<>> /\ low > 1)
  <2>1. CASE canAdopt(c, a, low)
    <3>1. StoreOK(adopt(c, low), u) /\ adopt(c, low).tip # None
      BY <2>1, AdoptOK
    <3>2. StoreOK(addChain(adopt(c, low), a, low), u) /\ addChain(adopt(c, low), a, low).tip # None
      BY <3>1, AddChainOK
    <3>3. ingestAnchors(c, a, low) = onTip(addChain(adopt(c, low), a, low), None)
      BY <1>1, <2>1 DEF ingestAnchors
    <3> QED BY <3>2, <3>3, OnTipOK
  <2>2. CASE ~canAdopt(c, a, low)
    BY <1>1, <2>2 DEF ingestAnchors
  <2> QED BY <2>1, <2>2
<1>2. CASE ~(c.tip = None \/ (c.tip = <<>> /\ low > 1))
  <2>1. StoreOK(addChain(c, a, low), u) /\ addChain(c, a, low).tip # None
    BY <1>2, AddChainOK
  <2>2. ingestAnchors(c, a, low) = onTip(addChain(c, a, low), c.tip)
    BY <1>2 DEF ingestAnchors
  <2> QED BY <2>1, <2>2, OnTipOK
<1> QED BY <1>1, <1>2

-----------------------------------------------------------------------------
(* Steps.                                                                  *)

LEMMA GenesisOK ==
  ASSUME NEW u \in Heads
  PROVE  StoreOK(AtGenesis, u) /\ AtGenesis.tip # None
<1>1. <<>> \in Anchor /\ height(<<>>) = 0 /\ <<>> # None
  BY Genesis, NoneAssumption
<1>2. Sound(<<>>, u)
  BY <1>1 DEF Sound
<1>3. AtGenesis \in Store
  BY <1>1, NoHeadsUnder DEF AtGenesis, Store
<1>4. \A w \in Writer : NoHeads[w] <= NoHeads[w]
  BY DEF NoHeads
<1> QED BY <1>1, <1>2, <1>3, <1>4, NoHeadsUnder DEF StoreOK, AtGenesis, SnapOK

LEMMA RootsInit ==
  Init => RootsInv
<1> SUFFICES ASSUME Init PROVE RootsInv
  OBVIOUS
<1>1. NoHeads \in Heads
  BY DEF NoHeads, Heads
<1>2. StoreOK(AtGenesis, NoHeads)
  BY <1>1, GenesisOK
<1>3. 0 \in 0..MaxRestarts
  BY StateRootsAssumption
<1> QED BY <1>1, <1>2, <1>3 DEF Init, RootsInv, StoreOK

(* One node moves and nothing is signed.                                   *)
LEMMA NodeMoves ==
  ASSUME RootsInv, NEW n \in Node, NEW d, StoreOK(d, signed),
         node' = [node EXCEPT ![n] = d], signed' = signed, setting' = setting,
         restarts' \in 0..MaxRestarts, draft' = draft \/ draft' = [draft EXCEPT ![n] = None],
         draft'[n] # None => d.tip # None
  PROVE  RootsInv'
<1>1. d \in Store
  BY DEF StoreOK
<1>2. /\ node' \in [Node -> Store] /\ draft' \in [Node -> Anchor \cup {None}]
      /\ setting' \in Settings /\ signed' \in Heads
  BY <1>1 DEF RootsInv
<1>3. ASSUME NEW m \in Node
      PROVE  /\ StoreOK(node'[m], signed)
             /\ draft'[m] # None => Sound(draft'[m], signed) /\ draft'[m] # <<>> /\ node'[m].tip # None
  <2>1. /\ draft'[m] # None => draft'[m] = draft[m]
        /\ draft[m] # None => Sound(draft[m], signed) /\ draft[m] # <<>> /\ node[m].tip # None
        /\ StoreOK(node[m], signed)
    BY DEF RootsInv
  <2>2. CASE m = n
    <3>1. node'[m] = d
      BY <2>2 DEF RootsInv
    <3> QED BY <2>1, <2>2, <3>1
  <2>3. CASE m # n
    <3>1. node'[m] = node[m]
      BY <2>3 DEF RootsInv
    <3> QED BY <2>1, <3>1
  <2> QED BY <2>2, <2>3
<1> QED BY <1>2, <1>3 DEF RootsInv

LEMMA NodeIs ==
  ASSUME RootsInv, NEW n \in Node
  PROVE  /\ StoreOK(node[n], signed) /\ signed \in Heads /\ node[n] \in Store
         /\ node[n].have \in Heads /\ node[n].seed \in Heads
BY StoreIs DEF RootsInv

LEMMA PostKeeps ==
  ASSUME RootsInv, NEW w \in Writer, Post(w)
  PROVE  RootsInv'
<1> DEFINE n == home[w]
           d == [node[n] EXCEPT !.have[w] = @ + 1]
<1>1. n \in Node
  BY StateRootsAssumption
<1>2. /\ signed' = [signed EXCEPT ![w] = signed[w] + 1] /\ node' = [node EXCEPT ![n] = d]
      /\ draft' = draft /\ restarts' = restarts /\ setting' = setting
      /\ node[n].have[w] = signed[w]
  BY <1>1 DEF Post, RootsInv, Store
<1> HIDE DEF n, d
<1>3. /\ signed' \in Heads /\ signed \in Heads /\ \A v \in Writer : signed[v] <= signed'[v]
      /\ \A v \in Writer : signed[v] \in Nat /\ signed'[v] \in Nat
  <2>1. signed \in Heads
    BY DEF RootsInv
  <2>2. \A v \in Writer : signed[v] \in Nat
    BY <2>1 DEF Heads
  <2>3. \A v \in Writer : signed'[v] = IF v = w THEN signed[w] + 1 ELSE signed[v]
    BY <1>2, <2>1 DEF Heads
  <2>4. \A v \in Writer : signed'[v] \in Nat /\ signed[v] <= signed'[v]
    BY <2>2, <2>3
  <2>5. signed' = [v \in Writer |-> signed'[v]]
    BY <1>2, <2>1 DEF Heads
  <2> QED BY <2>1, <2>2, <2>4, <2>5 DEF Heads
<1>4. \A m \in Node : StoreOK(node[m], signed')
  BY <1>3, MoreSigned DEF RootsInv
<1>5. StoreOK(d, signed') /\ d \in Store /\ d.tip = node[n].tip
  <2> DEFINE c == node[n]
             h == [c.have EXCEPT ![w] = c.have[w] + 1]
  <2>1. StoreOK(c, signed') /\ c \in Store /\ c.have \in Heads /\ c.seed \in Heads
    BY <1>1, <1>4, NodeIs
  <2>2. /\ d.anchors = c.anchors /\ d.tip = c.tip /\ d.floor = c.floor
        /\ d.floorHeads = c.floorHeads /\ d.have = h /\ d.seed = c.seed
        /\ d.snap = c.snap /\ d.disk = c.disk /\ d.pending = c.pending
    BY <2>1 DEF d, Store
  <2>3. \A v \in Writer : h[v] = IF v = w THEN c.have[w] + 1 ELSE c.have[v]
    BY <2>1 DEF Heads
  <2>4. \A v \in Writer : /\ c.have[v] \in Nat /\ c.seed[v] \in Nat
                          /\ c.seed[v] <= c.have[v] /\ c.have[v] <= signed'[v]
    BY <2>1 DEF Heads, StoreOK, Under
  <2>5. signed'[w] = c.have[w] + 1
    BY <1>2 DEF RootsInv, Heads
  <2>6. h = [v \in Writer |-> h[v]]
    BY <2>1 DEF Heads
  <2>7. d \in Store
    <3>1. h \in Heads
      <4> HIDE DEF h, c
      <4>1. \A v \in Writer : h[v] \in Nat
        BY <2>3, <2>4
      <4> QED BY <4>1, <2>6 DEF Heads
    <3> HIDE DEF h
    <3> QED BY <2>1, <3>1 DEF d, Store, h
  <2> HIDE DEF h, c
  <2>8. \A v \in Writer : h[v] \in Nat /\ h[v] <= signed'[v] /\ c.seed[v] <= h[v]
    <3> SUFFICES ASSUME NEW v \in Writer
                 PROVE  h[v] \in Nat /\ h[v] <= signed'[v] /\ c.seed[v] <= h[v]
      OBVIOUS
    <3>1. CASE v = w
      BY <3>1, <2>3, <2>4, <2>5
    <3>2. CASE v # w
      BY <3>2, <2>3, <2>4
    <3> QED BY <3>1, <3>2
  <2>9. h \in Under(signed')
    BY <2>6, <2>8 DEF Under, Heads
  <2>10. StoreOK(d, signed')
    BY <2>1, <2>2, <2>7, <2>8, <2>9 DEF StoreOK
  <2> QED BY <2>2, <2>7, <2>10 DEF c
<1>6. ASSUME NEW m \in Node
      PROVE  /\ StoreOK(node'[m], signed')
             /\ draft'[m] # None => Sound(draft'[m], signed') /\ draft'[m] # <<>> /\ node'[m].tip # None
  <2>1. node'[m] = IF m = n THEN d ELSE node[m]
    BY <1>2 DEF RootsInv
  <2>2. draft[m] # None => Sound(draft[m], signed') /\ draft[m] # <<>> /\ node[m].tip # None
    BY <1>3, MoreSigned DEF RootsInv
  <2> QED BY <1>2, <1>4, <1>5, <2>1, <2>2
<1> QED BY <1>1, <1>2, <1>3, <1>5, <1>6 DEF RootsInv

LEMMA PullKeeps ==
  ASSUME RootsInv, NEW n \in Node, NEW w \in Writer, Pull(n, w)
  PROVE  RootsInv'
<1> DEFINE c == node[n]
           h == [c.have EXCEPT ![w] = c.have[w] + 1]
           d == [c EXCEPT !.have = h]
<1>1. PICK m \in Node : node[m].seed[w] < c.have[w] + 1 /\ c.have[w] + 1 <= node[m].have[w]
  BY DEF Pull
<1>2. /\ node' = [node EXCEPT ![n] = d]
      /\ signed' = signed /\ draft' = draft /\ restarts' = restarts /\ setting' = setting
  BY DEF Pull, RootsInv, Store
<1>3. StoreOK(c, signed) /\ c \in Store /\ c.have \in Heads /\ c.seed \in Heads
  BY NodeIs
<1>4. /\ d.anchors = c.anchors /\ d.tip = c.tip /\ d.floor = c.floor
      /\ d.floorHeads = c.floorHeads /\ d.have = h /\ d.seed = c.seed
      /\ d.snap = c.snap /\ d.disk = c.disk /\ d.pending = c.pending
  BY <1>3 DEF Store
<1>5. ASSUME NEW v \in Writer PROVE h[v] \in Nat /\ h[v] <= signed[v] /\ c.seed[v] <= h[v]
  <2>1. /\ c.have[v] \in Nat /\ c.seed[v] \in Nat /\ signed[v] \in Nat
        /\ c.seed[v] <= c.have[v] /\ c.have[v] <= signed[v]
    BY <1>3, NodeIs DEF Heads, StoreOK, Under
  <2>2. h[v] = IF v = w THEN c.have[w] + 1 ELSE c.have[v]
    BY <1>3 DEF Heads
  <2>3. node[m].have[w] \in Nat /\ node[m].have[w] <= signed[w]
    BY NodeIs DEF Heads, StoreOK, Under
  <2> HIDE DEF h, c
  <2>4. CASE v = w
    BY <2>1, <2>2, <2>3, <2>4, <1>1
  <2>5. CASE v # w
    BY <2>1, <2>2, <2>5
  <2> QED BY <2>4, <2>5
<1>6. h = [v \in Writer |-> h[v]]
  BY <1>3 DEF Heads
<1> HIDE DEF h
<1>7. h \in Under(signed) /\ h \in Heads
  BY <1>5, <1>6 DEF Under, Heads
<1>8. d \in Store
  BY <1>3, <1>7 DEF Store
<1>9. StoreOK(d, signed)
  <2> HIDE DEF d, c
  <2> QED BY <1>3, <1>4, <1>5, <1>7, <1>8 DEF StoreOK
<1>10. draft'[n] # None => d.tip # None
  <2> HIDE DEF d
  <2> QED BY <1>2, <1>4 DEF RootsInv, c
<1>11. restarts' \in 0..MaxRestarts
  BY <1>2 DEF RootsInv
<1> HIDE DEF d
<1> QED BY <1>2, <1>9, <1>10, <1>11, NodeMoves

(* What a producer makes.                                                  *)
LEMMA MineOK ==
  ASSUME NEW u \in Heads, NEW c, StoreOK(c, u), c.tip # None, NEW n \in Node
  PROVE  /\ LinkOK(mineAnchor(n, c), u)
         /\ Sound(Append(c.tip, mineAnchor(n, c)), u) /\ Append(c.tip, mineAnchor(n, c)) # <<>>
<1> DEFINE l == mineAnchor(n, c)
           was == headsAt(c, c.tip)
           delta == diffHeads(was, c.have)
           a == Append(c.tip, l)
<1>1. c.have \in Under(u) /\ c.have \in Heads /\ viewAt(c, c.tip) \in Board
  BY StoreIs, ViewOK DEF StoreOK
<1>2. /\ DOMAIN delta \subseteq Writer /\ delta \in [DOMAIN delta -> Nat]
      /\ \A w \in DOMAIN delta : delta[w] = c.have[w] /\ c.have[w] > 0
  <2>1. \A w \in Writer : c.have[w] \in Nat
    BY <1>1 DEF Heads
  <2> QED BY <2>1 DEF diffHeads
<1>3. l = [by |-> n, headsDelta |-> delta, stateRoot |-> c.have, appRoot |-> viewAt(c, c.tip)]
  BY DEF mineAnchor
<1> HIDE DEF l, delta
<1>4. l \in Link
  <2>1. delta \in UNION {[W -> Nat] : W \in SUBSET Writer}
    BY <1>2
  <2> QED BY <2>1, <1>1, <1>3 DEF Link
<1>5. LinkOK(l, u)
  BY <1>1, <1>2, <1>3, <1>4 DEF LinkOK
<1>6. Sound(a, u) /\ a # <<>>
  <2>1. c.tip \in Seq(Link) /\ Sound(c.tip, u)
    BY StoreIs DEF StoreOK, Anchor
  <2>2. /\ a \in Seq(Link) /\ Len(a) = Len(c.tip) + 1 /\ Len(c.tip) \in Nat /\ a # <<>>
        /\ \A i \in 1..Len(a) : a[i] = (IF i = Len(a) THEN l ELSE c.tip[i])
    <3>1. a \in Seq(Link) /\ Len(a) = Len(c.tip) + 1
      BY <2>1, <1>4
    <3>2. \A i \in 1..Len(c.tip) + 1 : a[i] = (IF i = Len(c.tip) + 1 THEN l ELSE c.tip[i])
      BY <2>1, <1>4
    <3>3. Len(c.tip) \in Nat
      BY <2>1
    <3> HIDE DEF a
    <3>4. a # <<>>
      BY <3>1, <3>3, EmptySeq
    <3> QED BY <3>1, <3>2, <3>3, <3>4
  <2> HIDE DEF a
  <2>3. ASSUME NEW i \in 1..Len(a) PROVE LinkOK(a[i], u)
    <3>1. i # Len(a) => i \in 1..Len(c.tip)
      BY <2>2
    <3>2. \A j \in 1..Len(c.tip) : LinkOK(c.tip[j], u)
      BY <2>1 DEF Sound, height
    <3> QED BY <3>1, <3>2, <1>5, <2>2
  <2> QED BY <2>2, <2>3 DEF Sound, Anchor, height
<1> QED BY <1>5, <1>6 DEF l

LEMMA StartKeeps ==
  ASSUME RootsInv, NEW n \in Node, Start(n)
  PROVE  RootsInv'
<1> DEFINE a == Append(node[n].tip, mineAnchor(n, node[n]))
<1>1. /\ draft' = [draft EXCEPT ![n] = a] /\ node[n].tip # None
      /\ node' = node /\ signed' = signed /\ restarts' = restarts /\ setting' = setting
  BY DEF Start
<1>2. Sound(a, signed) /\ a # <<>> /\ a \in Anchor
  BY <1>1, NodeIs, MineOK DEF Sound
<1> HIDE DEF a
<1>3. draft' \in [Node -> Anchor \cup {None}]
  BY <1>1, <1>2 DEF RootsInv
<1>4. ASSUME NEW m \in Node
      PROVE  /\ StoreOK(node[m], signed)
             /\ draft'[m] # None => Sound(draft'[m], signed) /\ draft'[m] # <<>> /\ node[m].tip # None
  <2>1. draft'[m] = IF m = n THEN a ELSE draft[m]
    BY <1>1 DEF RootsInv
  <2> QED BY <2>1, <1>1, <1>2 DEF RootsInv
<1> QED BY <1>1, <1>3, <1>4 DEF RootsInv

LEMMA MintKeeps ==
  ASSUME RootsInv, NEW n \in Node, Mint(n)
  PROVE  RootsInv'
<1> DEFINE c == node[n]
           d == onTip(add(c, draft[n]), c.tip)
<1>1. /\ draft[n] # None /\ node' = [node EXCEPT ![n] = d] /\ draft' = [draft EXCEPT ![n] = None]
      /\ signed' = signed /\ restarts' = restarts /\ setting' = setting
  BY DEF Mint, RootsInv
<1>2. StoreOK(c, signed) /\ c.tip # None /\ Sound(draft[n], signed)
  BY <1>1 DEF RootsInv
<1>3. StoreOK(add(c, draft[n]), signed) /\ add(c, draft[n]).tip # None
  BY <1>2, NodeIs, AddOK
<1>4. setting \in Settings /\ signed \in Heads /\ restarts' \in 0..MaxRestarts
  BY <1>1 DEF RootsInv
<1>5. StoreOK(d, signed)
  BY <1>3, <1>4, OnTipOK
<1>6. draft'[n] = None
  BY <1>1 DEF RootsInv
<1> HIDE DEF d
<1> QED BY <1>1, <1>4, <1>5, <1>6, NodeMoves

LEMMA NoProofKeeps ==
  ASSUME RootsInv, NEW n \in Node, NoProof(n)
  PROVE  RootsInv'
<1>1. /\ draft' = [draft EXCEPT ![n] = None]
      /\ node' = node /\ signed' = signed /\ restarts' = restarts /\ setting' = setting
  BY DEF NoProof
<1>2. \A m \in Node : draft'[m] # None => draft'[m] = draft[m]
  BY <1>1 DEF RootsInv
<1>3. draft' \in [Node -> Anchor \cup {None}]
  BY <1>1 DEF RootsInv
<1> QED BY <1>1, <1>2, <1>3 DEF RootsInv

(* What is heard of is held where it is heard from.                        *)
LEMMA HearableOK ==
  ASSUME RootsInv, NEW n \in Node, NEW m \in Node, NEW a \in hearable(n, m)
  PROVE  /\ node[m].tip # None /\ a \in node[m].anchors /\ a \notin node[n].anchors
         /\ \E h \in Walk(node[m], node[m].tip) : a = upTo(node[m].tip, h)
         /\ Min(Walk(node[m], node[m].tip)) \in Nat /\ Sound(a, signed)
         /\ node[n].tip # None => height(a) >= height(node[n].tip)
<1>1. /\ node[m].tip # None /\ a \in chainTo(node[m], node[m].tip) /\ a \notin node[n].anchors
      /\ node[n].tip # None => height(a) >= height(node[n].tip)
  BY DEF hearable
<1>2. PICK h \in Walk(node[m], node[m].tip) : a = upTo(node[m].tip, h)
  BY <1>1 DEF chainTo
<1>3. StoreOK(node[m], signed)
  BY NodeIs
<1>4. /\ Min(Walk(node[m], node[m].tip)) \in 0..height(node[m].tip)
      /\ \A i \in Walk(node[m], node[m].tip) : upTo(node[m].tip, i) \in node[m].anchors
  BY <1>1, <1>3, WalkFromTip
<1>5. a \in node[m].anchors /\ Min(Walk(node[m], node[m].tip)) \in Nat
  BY <1>2, <1>4
<1> QED BY <1>1, <1>2, <1>3, <1>5 DEF StoreOK

LEMMA HearKeeps ==
  ASSUME RootsInv, NEW n \in Node, NEW m \in Node, Hear(n, m)
  PROVE  RootsInv'
<1>1. PICK a \in hearable(n, m) : node' = [node EXCEPT ![n] = hearing(n, m, a)]
  BY DEF Hear
<1>2. signed' = signed /\ draft' = draft /\ restarts' = restarts /\ setting' = setting
  BY DEF Hear
<1>3. Min(Walk(node[m], node[m].tip)) \in Nat /\ Sound(a, signed)
  BY HearableOK
<1>4. setting \in Settings /\ signed \in Heads /\ restarts' \in 0..MaxRestarts
  BY <1>2 DEF RootsInv
<1>5. /\ StoreOK(hearing(n, m, a), signed)
      /\ node[n].tip # None => hearing(n, m, a).tip # None
  BY <1>3, <1>4, NodeIs, IngestAnchorsOK DEF hearing
<1>6. draft'[n] # None => hearing(n, m, a).tip # None
  BY <1>2, <1>5 DEF RootsInv
<1> QED BY <1>1, <1>2, <1>4, <1>5, <1>6, NodeMoves

LEMMA FetchKeeps ==
  ASSUME RootsInv, NEW n \in Node, NEW m \in Node, Fetch(n, m)
  PROVE  RootsInv'
<1> DEFINE d == ingestSnapshot(node[n], node[m].snap)
<1>1. /\ node[m].snap # None /\ node' = [node EXCEPT ![n] = d]
      /\ signed' = signed /\ draft' = draft /\ restarts' = restarts /\ setting' = setting
  BY DEF Fetch, RootsInv
<1>2. StoreOK(node[n], signed) /\ signed \in Heads /\ SnapOK(node[m].snap, signed)
  BY NodeIs DEF StoreOK
<1>3. StoreOK(d, signed) /\ d.tip = node[n].tip
  BY <1>1, <1>2, IngestSnapshotOK
<1> HIDE DEF d
<1>4. draft'[n] # None => d.tip # None
  BY <1>1, <1>3 DEF RootsInv
<1>5. restarts' \in 0..MaxRestarts
  BY <1>1 DEF RootsInv
<1> QED BY <1>1, <1>3, <1>4, <1>5, NodeMoves

LEMMA BootOK ==
  ASSUME NEW u \in Heads, NEW c, StoreOK(c, u)
  PROVE  StoreOK(boot(c), u)
<1> DEFINE heads == IF c.disk = None THEN NoHeads ELSE c.disk.heads
           have == [w \in Writer |-> IF c.seed[w] = heads[w] THEN c.have[w] ELSE heads[w]]
           d == [anchors |-> {}, tip |-> None, floor |-> None, floorHeads |-> NoHeads,
                 have |-> have, seed |-> heads, snap |-> c.disk, disk |-> c.disk, pending |-> None]
<1>1. boot(c) = d
  <2>1. boot(c) = [AtGenesis EXCEPT !.anchors = {}, !.tip = None, !.snap = c.disk, !.disk = c.disk,
                     !.seed = heads, !.have = have]
    BY DEF boot
  <2> HIDE DEF have, heads
  <2> QED BY <2>1 DEF AtGenesis
<1>2. c \in Store /\ c.have \in Heads /\ c.have \in Under(u) /\ heads \in Under(u) /\ heads \in Heads
  BY StoreIs, NoHeadsUnder DEF StoreOK, SnapOK, Under
<1> HIDE DEF heads
<1>3. ASSUME NEW w \in Writer PROVE have[w] \in Nat /\ have[w] <= u[w] /\ heads[w] <= have[w]
  <2>1. /\ c.have[w] \in Nat /\ c.have[w] <= u[w] /\ heads[w] \in Nat /\ heads[w] <= u[w]
        /\ c.seed[w] <= c.have[w]
    BY <1>2 DEF Under, Heads, StoreOK
  <2> QED BY <2>1
<1>4. have \in Heads /\ have \in Under(u)
  <2>1. have = [w \in Writer |-> have[w]]
    OBVIOUS
  <2> HIDE DEF have
  <2> QED BY <2>1, <1>3 DEF Under, Heads
<1> HIDE DEF have
<1>5. d \in Store
  BY <1>2, <1>4, NoHeadsUnder DEF Store
<1>6. SnapOK(None, u) /\ SnapOK(c.disk, u)
  BY DEF SnapOK, StoreOK
<1>7. StoreOK(d, u)
  BY <1>2, <1>3, <1>4, <1>5, <1>6, NoHeadsUnder DEF StoreOK
<1> QED BY <1>1, <1>7

LEMMA RestartKeeps ==
  ASSUME RootsInv, NEW n \in Node, Restart(n)
  PROVE  RootsInv'
<1>1. /\ node' = [node EXCEPT ![n] = boot(node[n])] /\ draft' = [draft EXCEPT ![n] = None]
      /\ signed' = signed /\ setting' = setting /\ restarts' = restarts + 1 /\ restarts < MaxRestarts
  BY DEF Restart, RootsInv
<1>2. StoreOK(boot(node[n]), signed)
  BY NodeIs, BootOK
<1>3. restarts' \in 0..MaxRestarts
  BY <1>1, StateRootsAssumption DEF RootsInv
<1>4. draft'[n] = None
  BY <1>1 DEF RootsInv
<1> QED BY <1>1, <1>2, <1>3, <1>4, NodeMoves

LEMMA RootAtGenesisKeeps ==
  ASSUME RootsInv, NEW n \in Node, RootAtGenesis(n)
  PROVE  RootsInv'
<1> DEFINE c == node[n]
           d == [c EXCEPT !.anchors = {<<>>}, !.tip = <<>>]
           e == [AtGenesis EXCEPT !.pending = c.pending]
<1>1. PICK f \in {d, e} : node' = [node EXCEPT ![n] = f]
  BY DEF RootAtGenesis
<1>2. c.tip = None /\ signed' = signed /\ draft' = draft /\ restarts' = restarts /\ setting' = setting
  BY DEF RootAtGenesis
<1>3. StoreOK(c, signed) /\ c \in Store /\ signed \in Heads /\ StoreOK(AtGenesis, signed)
  BY NodeIs, GenesisOK
<1>4. StoreOK(d, signed) /\ d.tip # None
  <2>1. <<>> \in Anchor /\ <<>> # None /\ Sound(<<>>, signed)
    BY Genesis, NoneAssumption DEF Sound
  <2>2. /\ d.anchors = {<<>>} /\ d.tip = <<>> /\ d.floor = c.floor
        /\ d.floorHeads = c.floorHeads /\ d.have = c.have /\ d.seed = c.seed
        /\ d.snap = c.snap /\ d.disk = c.disk /\ d.pending = c.pending
    BY <1>3 DEF Store
  <2>3. d \in Store
    BY <1>3, <2>1 DEF Store
  <2>4. c.floor = None
    BY <1>2, <1>3 DEF StoreOK
  <2> HIDE DEF d, c
  <2> QED BY <1>3, <2>1, <2>2, <2>3, <2>4 DEF StoreOK
<1>5. StoreOK(e, signed) /\ e.tip # None
  <2> DEFINE g == AtGenesis
  <2>1. g \in Store
    BY <1>3 DEF StoreOK
  <2> HIDE DEF g
  <2>2. e = [g EXCEPT !.pending = c.pending]
    BY DEF g
  <2> HIDE DEF e
  <2>3. c.pending \in Snapshot \cup {None} /\ SnapOK(c.pending, signed)
    BY <1>3 DEF StoreOK, SnapOK
  <2>4. /\ e.anchors = g.anchors /\ e.tip = g.tip /\ e.floor = g.floor
        /\ e.floorHeads = g.floorHeads /\ e.have = g.have /\ e.seed = g.seed
        /\ e.snap = g.snap /\ e.disk = g.disk /\ e.pending = c.pending /\ e \in Store
    BY <2>1, <2>2, <2>3 DEF Store
  <2>5. StoreOK(g, signed) /\ g.tip # None
    BY <1>3, GenesisOK DEF g
  <2> HIDE DEF c
  <2> QED BY <2>3, <2>4, <2>5 DEF StoreOK
<1>6. StoreOK(f, signed) /\ f.tip # None
  <2> HIDE DEF d, e
  <2> QED BY <1>1, <1>4, <1>5
<1>7. restarts' \in 0..MaxRestarts
  BY <1>2 DEF RootsInv
<1> HIDE DEF d, e
<1> QED BY <1>1, <1>2, <1>6, <1>7, NodeMoves

LEMMA RootsNext ==
  ASSUME RootsInv, [Next]_vars
  PROVE  RootsInv'
<1>1. ASSUME NEW w \in Writer, Post(w) PROVE RootsInv'
  BY <1>1, PostKeeps
<1>2. ASSUME NEW n \in Node, NEW w \in Writer, Pull(n, w) PROVE RootsInv'
  BY <1>2, PullKeeps
<1>3. ASSUME NEW n \in Node, Start(n) PROVE RootsInv'
  BY <1>3, StartKeeps
<1>4. ASSUME NEW n \in Node, Mint(n) PROVE RootsInv'
  BY <1>4, MintKeeps
<1>5. ASSUME NEW n \in Node, NoProof(n) PROVE RootsInv'
  BY <1>5, NoProofKeeps
<1>6. ASSUME NEW n \in Node, Restart(n) PROVE RootsInv'
  BY <1>6, RestartKeeps
<1>7. ASSUME NEW n \in Node, RootAtGenesis(n) PROVE RootsInv'
  BY <1>7, RootAtGenesisKeeps
<1>8. ASSUME NEW n \in Node, NEW m \in Node, Fetch(n, m) PROVE RootsInv'
  BY <1>8, FetchKeeps
<1>9. ASSUME NEW n \in Node, NEW m \in Node, Hear(n, m) PROVE RootsInv'
  BY <1>9, HearKeeps
<1>10. ASSUME UNCHANGED vars PROVE RootsInv'
  BY <1>10 DEF vars, RootsInv
<1> QED BY <1>1, <1>2, <1>3, <1>4, <1>5, <1>6, <1>7, <1>8, <1>9, <1>10 DEF Next

(* The state is well formed whatever the nodes do, joining and starting    *)
(* again included: what a node holds is anchors of its own, none of them   *)
(* certifies more of a writer than the writer has signed, and a checkpoint *)
(* never covers more than that (ingest, maybeCheckpoint, ingestSnapshot,   *)
(* adopt).                                                                 *)
THEOREM RootsSafe == Spec => []RootsInv
<1>1. Init => RootsInv
  BY RootsInit
<1>2. RootsInv /\ [Next]_vars => RootsInv'
  BY RootsNext
<1> QED BY <1>1, <1>2, PTL DEF Spec

(* The types that the run checks: no node has more of a writer than it     *)
(* signed or less than it has pruned, and tip and floor are held.          *)
THEOREM RootsTypes == Spec => []TypeOK
<1>1. ASSUME RootsInv PROVE TypeOK
  <2>1. \A u : \A a : Sound(a, u) => IsAnchor(a)
    <3> SUFFICES ASSUME NEW u, NEW a, Sound(a, u), NEW i \in DOMAIN a PROVE IsLink(a[i])
      BY DEF IsAnchor
    <3>1. LinkOK(a[i], u)
      BY Ends DEF Sound
    <3> QED BY <3>1 DEF LinkOK, IsLink, Link
  <2>2. ASSUME NEW n \in Node
        PROVE  LET c == node[n]
               IN  /\ draft[n] = None \/ IsAnchor(draft[n])
                   /\ \A a \in c.anchors : IsAnchor(a)
                   /\ {c.tip, c.floor} \subseteq c.anchors \cup {None}
                   /\ {c.have, c.seed, c.floorHeads} \subseteq Heads
                   /\ \A w \in Writer : c.seed[w] <= c.have[w] /\ c.have[w] <= signed[w]
    <3>1. StoreOK(node[n], signed) /\ (draft[n] # None => Sound(draft[n], signed))
      BY <1>1 DEF RootsInv
    <3>2. node[n].have \in Heads /\ node[n].seed \in Heads /\ node[n].floorHeads \in Heads
      BY <3>1, StoreIs
    <3> QED BY <2>1, <3>1, <3>2 DEF StoreOK, Under
  <2> QED BY <1>1, <2>2 DEF TypeOK, RootsInv
<1> QED BY <1>1, RootsSafe, PTL

-----------------------------------------------------------------------------
(* Nodes that do not join come by all anchors themselves.  What they hold  *)
(* goes down to the floor without a gap, and above the floor every root is *)
(* what the deltas make of the one below.                                  *)

Low(c) == IF c.floor = None THEN 0 ELSE height(c.floor)
OnFloor(c, a) == c.floor = None \/ IsBelow(c.floor, a)

Consistent(a) ==
  \A i \in 1..height(a) :
    a[i].stateRoot = applyHeadsDelta(headsOf(upTo(a, i - 1)), a[i].headsDelta)

(* At most the last of the shorter is off the line of the longer.          *)
Agree(a, b) == \A i \in Nat : i < height(a) /\ i < height(b) => upTo(a, i) = upTo(b, i)

LineOK(c) ==
  /\ c.tip # None /\ c.pending = None
  /\ \A a \in c.anchors :
       /\ Low(c) <= height(a) /\ height(a) <= height(c.tip)
       /\ Low(c) < height(a) => prev(a) \in c.anchors
       /\ Consistent(a)
  /\ \A a, b \in c.anchors : Agree(a, b)
  /\ c.floor # None => /\ 0 < height(c.floor) /\ height(c.floor) < height(c.tip)
                       /\ IsBelow(c.floor, c.tip) /\ c.floorHeads = headsOf(c.floor)

(* The checkpoint is settled, what is pruned is what it certifies, and it  *)
(* is right if heads have only advanced up to it.                          *)
BaseOK(c) ==
  /\ c.disk = c.snap
  /\ c.snap = None => c.seed = NoHeads /\ c.floor = None
  /\ c.snap # None =>
       /\ c.snap.anchor \in c.anchors
       /\ IsBelow(c.snap.anchor, c.tip) /\ height(c.snap.anchor) < height(c.tip)
       /\ c.snap.heads = headsOf(c.snap.anchor)
       /\ Advances(c.snap.anchor) =>
            c.seed = headsOf(c.snap.anchor) /\ c.snap.state = boardOf(c.snap.anchor)

LinesInv ==
  /\ \A n \in Node : LineOK(node[n]) /\ BaseOK(node[n])
  /\ \A n, m \in Node : \A a \in node[n].anchors : \A b \in node[m].anchors : Agree(a, b)

LEMMA AgreeBelow ==
  ASSUME NEW a \in Anchor, NEW b \in Anchor, Agree(a, b), NEW h \in 0..height(a)
  PROVE  Agree(upTo(a, h), b) /\ Agree(b, upTo(a, h))
<1>1. height(a) \in Nat /\ height(upTo(a, h)) = h /\ \A i \in 0..h : upTo(upTo(a, h), i) = upTo(a, i)
  BY Ends, UpToOK
<1>2. ASSUME NEW i \in Nat, i < h, i < height(b) PROVE upTo(upTo(a, h), i) = upTo(b, i)
  <2>1. i \in 0..h /\ i < height(a)
    BY <1>1, <1>2
  <2> QED BY <1>1, <1>2, <2>1 DEF Agree
<1> QED BY <1>1, <1>2 DEF Agree

LEMMA AgreeSelf ==
  ASSUME NEW a, NEW b, Agree(a, b)
  PROVE  Agree(a, a) /\ Agree(b, a)
BY DEF Agree

LEMMA ConsistentBelow ==
  ASSUME NEW a \in Anchor, Consistent(a), NEW h \in 0..height(a)
  PROVE  Consistent(upTo(a, h))
<1> DEFINE b == upTo(a, h)
<1>1. height(a) \in Nat /\ height(b) = h /\ \A i \in 1..h : b[i] = a[i]
  BY Ends, UpToOK
<1>2. \A i \in 0..h : upTo(b, i) = upTo(a, i)
  BY UpToOK
<1> HIDE DEF b
<1>3. ASSUME NEW i \in 1..h
      PROVE  b[i].stateRoot = applyHeadsDelta(headsOf(upTo(b, i - 1)), b[i].headsDelta)
  <2>1. i \in 1..height(a) /\ i - 1 \in 0..h
    BY <1>1
  <2> QED BY <1>1, <1>2, <2>1 DEF Consistent
<1> QED BY <1>1, <1>3 DEF Consistent, b

(* The heads of what is below.                                             *)
LEMMA HeadsBelow ==
  ASSUME NEW a \in Anchor, NEW h \in 1..height(a)
  PROVE  /\ headsOf(upTo(a, h)) = a[h].stateRoot /\ headsOf(upTo(a, h)) \in Heads
         /\ Consistent(a) =>
              headsOf(upTo(a, h)) = applyHeadsDelta(headsOf(upTo(a, h - 1)), a[h].headsDelta)
<1>1. height(a) \in Nat
  BY Ends
<1>2. h \in 0..height(a) /\ h \in 1..h /\ h # 0
  BY <1>1
<1>3. upTo(a, h) \in Anchor /\ height(upTo(a, h)) = h /\ upTo(a, h)[h] = a[h] /\ a[h] \in Link
  BY <1>2, UpToOK, Ends
<1>4. upTo(a, h) # <<>>
  BY <1>2, <1>3, Genesis
<1> QED BY <1>3, <1>4 DEF headsOf, top, Consistent, Link

LEMMA HeadsTyped ==
  ASSUME NEW a \in Anchor
  PROVE  headsOf(a) \in Heads
<1>1. CASE a = <<>>
  BY <1>1 DEF headsOf, NoHeads, Heads
<1>2. CASE a # <<>>
  BY <1>2, PrevOK DEF headsOf, Link
<1> QED BY <1>1, <1>2

(* A head stays what it is while no delta names its writer.                *)
LEMMA HeadStays ==
  ASSUME NEW a \in Anchor, Consistent(a), NEW w \in Writer,
         NEW j \in 0..height(a), NEW k \in j..height(a),
         \A i \in j + 1..k : w \notin DOMAIN a[i].headsDelta
  PROVE  headsOf(upTo(a, k))[w] = headsOf(upTo(a, j))[w]
<1> DEFINE H(i) == headsOf(upTo(a, i))[w]
           N == {i \in j..k : H(i) # H(j)}
<1>1. height(a) \in Nat
  BY Ends
<1>2. ASSUME N # {} PROVE FALSE
  <2>1. PICK m \in N : \A i \in N : m <= i
    <3>1. N \subseteq Nat
      BY <1>1
    <3> HIDE DEF N
    <3> QED BY <3>1, <1>2, LeastExists
  <2>2. m \in j..k /\ H(m) # H(j)
    BY <2>1
  <2> HIDE DEF H
  <2>3. m \in j + 1..k /\ m - 1 \in j..k /\ ~(m <= m - 1) /\ m \in 1..height(a)
    BY <2>2, <1>1
  <2>4. H(m - 1) = H(j)
    BY <2>1, <2>3
  <2>5. headsOf(upTo(a, m)) = applyHeadsDelta(headsOf(upTo(a, m - 1)), a[m].headsDelta)
    BY <2>3, HeadsBelow
  <2>6. w \notin DOMAIN a[m].headsDelta
    BY <2>3
  <2>7. H(m) = H(m - 1)
    BY <2>5, <2>6 DEF H, applyHeadsDelta
  <2> QED BY <2>2, <2>4, <2>7
<1>3. k \in j..k
  BY <1>1
<1>4. H(k) = H(j)
  <2> HIDE DEF H
  <2> QED BY <1>2, <1>3
<1> QED BY <1>4

(* The last delta that names it says what it is.                           *)
LEMMA HeadIsLast ==
  ASSUME NEW a \in Anchor, Consistent(a), NEW w \in Writer,
         NEW k \in 0..height(a), NEW m \in 1..k,
         w \in DOMAIN a[m].headsDelta, \A i \in m + 1..k : w \notin DOMAIN a[i].headsDelta
  PROVE  headsOf(upTo(a, k))[w] = a[m].headsDelta[w]
<1>1. height(a) \in Nat
  BY Ends
<1>2. m \in 1..height(a) /\ m \in 0..height(a) /\ k \in m..height(a)
  BY <1>1
<1>3. headsOf(upTo(a, k))[w] = headsOf(upTo(a, m))[w]
  BY <1>2, HeadStays
<1>4. headsOf(upTo(a, m)) = applyHeadsDelta(headsOf(upTo(a, m - 1)), a[m].headsDelta)
  BY <1>2, HeadsBelow
<1> QED BY <1>3, <1>4 DEF applyHeadsDelta

(* A walk goes down to the floor.                                          *)
LEMMA LowOK ==
  ASSUME NEW u, NEW c, StoreOK(c, u), LineOK(c)
  PROVE  /\ Low(c) \in Nat /\ c.tip \in Anchor /\ c.tip \in c.anchors /\ height(c.tip) \in Nat
         /\ c.anchors \subseteq Anchor
         /\ c.floor # None => c.floor \in Anchor /\ Low(c) = height(c.floor) /\ Low(c) # 0
         /\ c.floor = None => Low(c) = 0
<1>1. c.anchors \subseteq Anchor /\ c.tip \in c.anchors /\ (c.floor # None => c.floor \in c.anchors)
  BY StoreIs DEF StoreOK, LineOK
<1>2. height(c.tip) \in Nat /\ (c.floor # None => height(c.floor) \in Nat /\ height(c.floor) # 0)
  BY <1>1, Ends DEF LineOK
<1> QED BY <1>1, <1>2 DEF Low

LEMMA LineWalk ==
  ASSUME NEW u, NEW c, StoreOK(c, u), LineOK(c), NEW a \in c.anchors
  PROVE  /\ Walk(c, a) = Low(c)..height(a) /\ Min(Walk(c, a)) = Low(c)
         /\ Low(c) \in 0..height(a)
         /\ \A h \in Low(c)..height(a) : upTo(a, h) \in c.anchors
<1>1. a \in Anchor /\ height(a) \in Nat /\ Low(c) \in Nat /\ Low(c) <= height(a) /\ upTo(a, height(a)) = a
  BY LowOK, Ends DEF LineOK
<1> DEFINE N == {k \in Nat : k <= height(a) - Low(c) /\ upTo(a, height(a) - k) \notin c.anchors}
<1>2. ASSUME N # {} PROVE FALSE
  <2>1. PICK k \in N : \A j \in N : k <= j
    <3>1. N \subseteq Nat
      OBVIOUS
    <3> HIDE DEF N
    <3> QED BY <3>1, <1>2, LeastExists
  <2>2. k \in Nat /\ k <= height(a) - Low(c) /\ upTo(a, height(a) - k) \notin c.anchors
    BY <2>1
  <2>3. k # 0
    BY <2>2, <1>1
  <2>4. k - 1 \in Nat /\ ~(k <= k - 1) /\ k - 1 <= height(a) - Low(c)
    BY <2>2, <2>3, <1>1
  <2>5. upTo(a, height(a) - (k - 1)) \in c.anchors
    BY <2>1, <2>4
  <2> HIDE DEF N
  <2> DEFINE h == height(a) - (k - 1)
             b == upTo(a, h)
  <2>6. h \in 0..height(a) /\ Low(c) < h /\ h - 1 = height(a) - k /\ h - 1 \in 0..h
    BY <2>2, <2>4, <1>1
  <2>7. b \in Anchor /\ height(b) = h /\ upTo(b, h - 1) = upTo(a, h - 1)
    <3> HIDE DEF h
    <3> QED BY <2>6, <1>1, UpToOK
  <2>8. prev(b) = upTo(a, height(a) - k)
    BY <2>6, <2>7 DEF prev
  <2>9. Low(c) < height(b) /\ b \in c.anchors
    BY <2>5, <2>6, <2>7
  <2>10. prev(b) \in c.anchors
    <3> HIDE DEF b
    <3> QED BY <2>9 DEF LineOK
  <2> QED BY <2>2, <2>8, <2>10
<1>3. ASSUME NEW h \in Low(c)..height(a) PROVE upTo(a, h) \in c.anchors
  <2> DEFINE k == height(a) - h
  <2>1. k \in Nat /\ k <= height(a) - Low(c) /\ height(a) - k = h
    BY <1>1
  <2>2. k \notin N
    <3> HIDE DEF N
    <3> QED BY <1>2
  <2> HIDE DEF k
  <2> QED BY <2>1, <2>2
<1> HIDE DEF N
<1>4. Low(c) \in Walk(c, a)
  <2>1. Low(c) \in 0..height(a)
    BY <1>1
  <2> QED BY <2>1, <1>3 DEF Walk
<1>5. \A h \in Walk(c, a) : Low(c) <= h
  <2> SUFFICES ASSUME NEW h \in Walk(c, a) PROVE Low(c) <= h
    OBVIOUS
  <2>1. h \in 0..height(a) /\ upTo(a, h) \in c.anchors
    BY <1>1, WalkOK
  <2>2. height(upTo(a, h)) = h
    BY <2>1, <1>1, UpToOK
  <2> QED BY <2>1, <2>2 DEF LineOK
<1>6. /\ Min(Walk(c, a)) \in 0..height(a) /\ Walk(c, a) = Min(Walk(c, a))..height(a)
  BY <1>1, WalkOK
<1>7. Min(Walk(c, a)) = Low(c)
  <2> DEFINE m == Min(Walk(c, a))
  <2>1. m \in Walk(c, a)
    <3> HIDE DEF m
    <3>1. m \in m..height(a)
      BY <1>1, <1>6 DEF m
    <3> QED BY <3>1, <1>6 DEF m
  <2>2. Low(c) <= m
    BY <2>1, <1>5
  <2>3. Low(c) \in m..height(a) /\ m \in 0..height(a)
    BY <1>4, <1>6
  <2> HIDE DEF m
  <2>4. m \in Nat /\ m <= Low(c)
    BY <2>3, <1>1
  <2>5. m = Low(c)
    BY <2>2, <2>4, <1>1
  <2> QED BY <2>5 DEF m
<1> QED BY <1>1, <1>3, <1>6, <1>7

(* Heads are rebuilt as they were certified.                               *)
LEMMA Rebuilt ==
  ASSUME NEW u \in Heads, NEW c, StoreOK(c, u), LineOK(c), NEW a \in c.anchors, OnFloor(c, a)
  PROVE  headsAt(c, a) = headsOf(a)
<1>1. a \in Anchor /\ height(a) \in Nat /\ Low(c) \in 0..height(a) /\ Consistent(a) /\ upTo(a, height(a)) = a
  BY LineWalk, LowOK, Ends DEF LineOK
<1>2. CASE a = c.tip
  BY <1>2 DEF headsAt
<1>3. CASE a # c.tip /\ a = c.floor
  <2>1. a # None
    BY <1>1, NoneAssumption
  <2> QED BY <1>3, <2>1 DEF headsAt, LineOK
<1>4. CASE a # c.tip /\ a # c.floor
  <2> DEFINE lo == Min(Walk(c, a))
             start == IF upTo(a, lo) = c.floor THEN c.floorHeads ELSE NoHeads
             first == IF upTo(a, lo) = c.floor THEN lo + 1 ELSE Max({lo, 1})
             of(w) == {h \in first..height(a) : w \in DOMAIN a[h].headsDelta}
             r == [w \in Writer |-> IF of(w) = {} THEN start[w] ELSE a[Max(of(w))].headsDelta[w]]
  <2>1. headsAt(c, a) = accumulate(c, a)
    BY <1>4 DEF headsAt
  <2>2. accumulate(c, a) = r
    BY DEF accumulate
  <2>3. lo = Low(c)
    BY LineWalk
  <2>4. start = headsOf(upTo(a, lo)) /\ first = lo + 1
    <3>1. CASE c.floor = None
      <4>1. lo = 0 /\ upTo(a, lo) = <<>> /\ <<>> # None
        BY <3>1, <2>3, <1>1, LowOK, Ends, Genesis, NoneAssumption
      <4>2. Max({0, 1}) = 1
        <5>1. 0 \in Int /\ 1 \in Int
          OBVIOUS
        <5>2. Max({0, 1}) = IF 0 >= 1 THEN 0 ELSE 1
          BY <5>1, OfTwo
        <5> QED BY <5>2
      <4>3. upTo(a, lo) # c.floor
        BY <3>1, <4>1
      <4> HIDE DEF lo
      <4> QED BY <4>1, <4>2, <4>3 DEF headsOf
    <3>2. CASE c.floor # None
      <4>1. upTo(a, lo) = c.floor
        BY <3>2, <2>3, LowOK DEF OnFloor, IsBelow
      <4>2. c.floorHeads = headsOf(c.floor)
        BY <3>2 DEF LineOK
      <4> HIDE DEF lo
      <4> QED BY <4>1, <4>2
    <3> QED BY <3>1, <3>2
  <2>5. lo \in 0..height(a)
    BY <2>3, <1>1
  <2> HIDE DEF lo, start, first
  <2>6. ASSUME NEW w \in Writer PROVE r[w] = headsOf(a)[w]
    <3>1. CASE of(w) = {}
      <4>1. \A i \in lo + 1..height(a) : w \notin DOMAIN a[i].headsDelta
        BY <3>1, <2>4
      <4>2. height(a) \in lo..height(a)
        BY <1>1, <2>5
      <4>3. headsOf(upTo(a, height(a)))[w] = headsOf(upTo(a, lo))[w]
        BY <4>1, <4>2, <1>1, <2>5, HeadStays
      <4>4. r[w] = start[w]
        BY <3>1
      <4> QED BY <4>3, <4>4, <1>1, <2>4
    <3>2. CASE of(w) # {}
      <4> DEFINE m == Max(of(w))
      <4>1. of(w) \subseteq 0..height(a)
        BY <1>1, <2>4, <2>5
      <4>2. m \in of(w) /\ \A i \in of(w) : i <= m
        <5> HIDE DEF of
        <5> QED BY <3>2, <4>1, <1>1, MaxExists
      <4>3. m \in first..height(a) /\ w \in DOMAIN a[m].headsDelta
        BY <4>2
      <4>4. r[w] = a[m].headsDelta[w]
        BY <3>2
      <4> HIDE DEF m, r
      <4>5. m \in 1..height(a) /\ m \in Nat
        BY <4>3, <1>1, <2>4, <2>5
      <4>6. \A i \in m + 1..height(a) : w \notin DOMAIN a[i].headsDelta
        <5> SUFFICES ASSUME NEW i \in m + 1..height(a), w \in DOMAIN a[i].headsDelta PROVE FALSE
          OBVIOUS
        <5>1. i \in first..height(a) /\ ~(i <= m)
          BY <4>3, <4>5, <1>1, <2>4, <2>5
        <5> QED BY <5>1, <4>2
      <4>7. height(a) \in 0..height(a)
        BY <1>1
      <4>8. headsOf(upTo(a, height(a)))[w] = a[m].headsDelta[w]
        BY <4>3, <4>5, <4>6, <4>7, <1>1, HeadIsLast
      <4> QED BY <4>4, <4>8, <1>1
    <3> QED BY <3>1, <3>2
  <2>7. DOMAIN r = Writer /\ r = [w \in Writer |-> r[w]]
    OBVIOUS
  <2>8. headsOf(a) = [w \in Writer |-> headsOf(a)[w]]
    BY <1>1, HeadsTyped DEF Heads
  <2> HIDE DEF r
  <2>9. r = headsOf(a)
    BY <2>6, <2>7, <2>8
  <2> QED BY <2>1, <2>2, <2>9
<1> QED BY <1>2, <1>3, <1>4

-----------------------------------------------------------------------------
(* Operations on a line.                                                   *)

LEMMA SharedBelow ==
  ASSUME NEW a \in Anchor, NEW b \in Anchor, Agree(a, b), NEW x \in Anchor,
         IsBelow(x, b), height(x) < height(b), height(x) < height(a)
  PROVE  IsBelow(x, a)
<1>1. height(x) \in Nat /\ height(a) \in Nat /\ height(b) \in Nat
  BY Ends
<1>2. upTo(a, height(x)) = upTo(b, height(x))
  BY <1>1 DEF Agree
<1> QED BY <1>1, <1>2 DEF IsBelow

LEMMA LineAdd ==
  ASSUME NEW u \in Heads, NEW c, StoreOK(c, u), LineOK(c), BaseOK(c), NEW a, Sound(a, u),
         \A b \in c.anchors : Agree(a, b)
  PROVE  /\ LineOK(add(c, a)) /\ BaseOK(add(c, a))
         /\ add(c, a).anchors \subseteq c.anchors \cup {a}
<1> DEFINE p == prev(a)
           d == [c EXCEPT !.anchors = @ \cup {a}, !.tip = IF heavier(a, @) THEN a ELSE @]
<1>1. /\ c \in Store /\ c.anchors \subseteq Anchor /\ a \in Anchor /\ height(a) \in Nat
      /\ c.tip \in Anchor /\ c.tip \in c.anchors /\ height(c.tip) \in Nat /\ Low(c) \in Nat
      /\ (c.floor # None => c.floor \in Anchor /\ Low(c) = height(c.floor))
  BY StoreIs, LowOK, Ends DEF Sound
<1>2. CASE add(c, a) = c
  BY <1>2
<1>3. CASE add(c, a) # c
  <2>1. a # <<>> /\ p \in c.anchors /\ verifyAnchor(c, a) /\ add(c, a) = d
    BY <1>3 DEF add
  <2>2. /\ d.anchors = c.anchors \cup {a} /\ d.tip = (IF heavier(a, c.tip) THEN a ELSE c.tip)
        /\ d.floor = c.floor /\ d.floorHeads = c.floorHeads /\ d.have = c.have /\ d.seed = c.seed
        /\ d.snap = c.snap /\ d.disk = c.disk /\ d.pending = c.pending
    BY <1>1 DEF Store
  <2>3. /\ p \in Anchor /\ height(p) = height(a) - 1 /\ height(a) # 0 /\ Low(c) <= height(p)
        /\ height(p) <= height(c.tip) /\ \A i \in 0..height(a) - 1 : upTo(p, i) = upTo(a, i)
        /\ \A i \in 1..height(a) - 1 : p[i] = a[i]
        /\ top(a) = a[height(a)]
    <3>1. p \in Anchor /\ Low(c) <= height(p) /\ height(p) <= height(c.tip)
      BY <2>1, <1>1 DEF LineOK
    <3> QED BY <3>1, <2>1, <1>1, PrevOK
  <2>4. Low(c) \in 0..height(a) - 1 /\ Low(c) < height(a) /\ Low(d) = Low(c)
    BY <2>2, <2>3, <1>1 DEF Low
  <2>5. c.floor # None => IsBelow(c.floor, a) /\ IsBelow(c.floor, p)
    <3> SUFFICES ASSUME c.floor # None PROVE IsBelow(c.floor, a) /\ IsBelow(c.floor, p)
      OBVIOUS
    <3>1. /\ c.floor \in Anchor /\ IsBelow(c.floor, c.tip) /\ height(c.floor) < height(c.tip)
          /\ height(c.floor) < height(a) /\ Agree(a, c.tip)
      BY <1>1, <2>4 DEF LineOK
    <3>2. IsBelow(c.floor, a)
      BY <3>1, <1>1, SharedBelow
    <3>3. upTo(p, height(c.floor)) = c.floor
      BY <3>2, <2>3, <2>4, <1>1 DEF IsBelow
    <3> QED BY <3>2, <3>3, <2>3, <1>1 DEF IsBelow
  <2>6. Consistent(a)
    <3>1. headsAt(c, p) = headsOf(p)
      BY <2>1, <2>5, Rebuilt DEF OnFloor
    <3>2. applyHeadsDelta(headsOf(p), top(a).headsDelta) = top(a).stateRoot
      BY <2>1, <3>1 DEF verifyAnchor
    <3>3. Consistent(p)
      BY <2>1 DEF LineOK
    <3> SUFFICES ASSUME NEW i \in 1..height(a)
                 PROVE  a[i].stateRoot = applyHeadsDelta(headsOf(upTo(a, i - 1)), a[i].headsDelta)
      BY DEF Consistent
    <3>4. CASE i = height(a)
      <4>1. upTo(a, i - 1) = p
        BY <3>4 DEF prev
      <4> HIDE DEF p
      <4> QED BY <4>1, <3>2, <3>4, <2>3
    <3>5. CASE i # height(a)
      <4> HIDE DEF p
      <4>1. i \in 1..height(p) /\ i \in 1..height(a) - 1 /\ i - 1 \in 0..height(a) - 1
        BY <3>5, <1>1, <2>3
      <4>2. p[i].stateRoot = applyHeadsDelta(headsOf(upTo(p, i - 1)), p[i].headsDelta)
        BY <4>1, <3>3 DEF Consistent
      <4> QED BY <4>1, <4>2, <2>3
    <3> QED BY <3>4, <3>5
  <2> HIDE DEF p, d
  <2>7. /\ d.tip \in {a, c.tip} /\ height(d.tip) \in Nat
        /\ height(a) <= height(d.tip) /\ height(c.tip) <= height(d.tip)
    <3>1. CASE heavier(a, c.tip)
      <4>1. height(c.tip) <= height(a)
        BY <3>1, <1>1 DEF heavier
      <4> QED BY <3>1, <4>1, <2>2, <1>1
    <3>2. CASE ~heavier(a, c.tip)
      <4>1. height(a) <= height(c.tip)
        BY <3>2, <1>1 DEF heavier
      <4> QED BY <3>2, <4>1, <2>2, <1>1
    <3> QED BY <3>1, <3>2
  <2>8. d.tip # None /\ d.pending = None
    BY <2>2, <2>7, <1>1, NoneAssumption DEF LineOK
  <2>9. ASSUME NEW b \in d.anchors
        PROVE  /\ Low(d) <= height(b) /\ height(b) <= height(d.tip)
               /\ Low(d) < height(b) => prev(b) \in d.anchors
               /\ Consistent(b)
    <3>1. CASE b = a
      BY <3>1, <2>1, <2>2, <2>4, <2>6, <2>7, <1>1 DEF p
    <3>2. CASE b # a
      <4>1. b \in c.anchors /\ height(b) \in Nat
        BY <3>2, <2>2, <1>1, Ends
      <4>2. /\ Low(c) <= height(b) /\ height(b) <= height(c.tip) /\ Consistent(b)
            /\ Low(c) < height(b) => prev(b) \in c.anchors
        BY <4>1 DEF LineOK
      <4> QED BY <4>1, <4>2, <2>2, <2>4, <2>7, <1>1
    <3> QED BY <3>1, <3>2
  <2>10. \A b, e \in d.anchors : Agree(b, e)
    <3>1. \A b, e \in c.anchors : Agree(b, e)
      BY DEF LineOK
    <3>2. Agree(a, a) /\ \A b \in c.anchors : Agree(b, a)
      BY <1>1, AgreeSelf
    <3> QED BY <3>1, <3>2, <2>2
  <2>11. \A x \in Anchor :
           (IsBelow(x, c.tip) /\ height(x) < height(c.tip))
             => (IsBelow(x, d.tip) /\ height(x) < height(d.tip))
    <3> SUFFICES ASSUME NEW x \in Anchor, IsBelow(x, c.tip), height(x) < height(c.tip)
                 PROVE  IsBelow(x, d.tip) /\ height(x) < height(d.tip)
      OBVIOUS
    <3>1. height(x) \in Nat
      BY Ends
    <3>2. height(x) < height(d.tip)
      BY <3>1, <2>7, <1>1
    <3>3. d.tip \in Anchor /\ (d.tip = c.tip \/ Agree(d.tip, c.tip))
      BY <2>7, <1>1
    <3> QED BY <3>2, <3>3, <1>1, SharedBelow
  <2>12. c.floor # None => /\ 0 < height(c.floor) /\ height(c.floor) < height(d.tip)
                           /\ IsBelow(c.floor, d.tip) /\ c.floorHeads = headsOf(c.floor)
    BY <2>11, <1>1 DEF LineOK
  <2>13. LineOK(d)
    BY <2>2, <2>8, <2>9, <2>10, <2>12 DEF LineOK
  <2>14. BaseOK(d)
    <3>1. ASSUME c.snap # None PROVE c.snap.anchor \in Anchor
      BY <3>1, <1>1 DEF BaseOK
    <3> QED BY <3>1, <2>2, <2>11 DEF BaseOK
  <2> QED BY <2>1, <2>2, <2>13, <2>14
<1> QED BY <1>2, <1>3

LEMMA LineAddChain ==
  ASSUME NEW u \in Heads, NEW c, StoreOK(c, u), LineOK(c), BaseOK(c), NEW a, Sound(a, u),
         NEW T, a \in T, c.anchors \subseteq T, T \subseteq Anchor,
         \A x, y \in T : Agree(x, y), NEW from
  PROVE  /\ StoreOK(addChain(c, a, from), u)
         /\ LineOK(addChain(c, a, from)) /\ BaseOK(addChain(c, a, from))
         /\ addChain(c, a, from).anchors \subseteq c.anchors \cup {upTo(a, h) : h \in 0..height(a)}
<1> DEFINE B == {upTo(a, h) : h \in 0..height(a)}
           P == {d \in Store : /\ StoreOK(d, u) /\ LineOK(d) /\ BaseOK(d)
                               /\ d.anchors \subseteq c.anchors \cup B}
<1>1. c \in P /\ a \in Anchor /\ height(a) \in Nat
  BY Ends DEF StoreOK, Sound
<1>2. ASSUME NEW h \in 1..height(a), NEW d \in P PROVE add(d, upTo(a, h)) \in P
  <2>1. h \in 0..height(a) /\ upTo(a, h) \in B
    <3>1. h \in 0..height(a)
      BY <1>1
    <3> QED BY <3>1
  <2>2. StoreOK(d, u) /\ LineOK(d) /\ BaseOK(d) /\ d.anchors \subseteq c.anchors \cup B
    OBVIOUS
  <2>3. Sound(upTo(a, h), u)
    BY <2>1, SoundBelow
  <2>4. \A b \in d.anchors : Agree(upTo(a, h), b)
    <3> SUFFICES ASSUME NEW b \in d.anchors PROVE Agree(upTo(a, h), b)
      OBVIOUS
    <3>1. \A x \in T : x \in Anchor /\ Agree(upTo(a, h), x) /\ Agree(x, upTo(a, h))
      BY <1>1, <2>1, AgreeBelow
    <3>2. CASE b \in c.anchors
      BY <3>1, <3>2
    <3>3. CASE b \in B
      <4>1. PICK j \in 0..height(a) : b = upTo(a, j)
        BY <3>3
      <4>2. Agree(a, upTo(a, h)) /\ upTo(a, h) \in Anchor
        BY <3>1, <2>1, <1>1, UpToOK
      <4> QED BY <4>1, <4>2, <1>1, AgreeBelow
    <3> QED BY <3>2, <3>3, <2>2
  <2> HIDE DEF P
  <2>5. /\ LineOK(add(d, upTo(a, h))) /\ BaseOK(add(d, upTo(a, h)))
        /\ add(d, upTo(a, h)).anchors \subseteq d.anchors \cup {upTo(a, h)}
    BY <2>2, <2>3, <2>4, LineAdd
  <2>6. StoreOK(add(d, upTo(a, h)), u) /\ add(d, upTo(a, h)) \in Store
    <3>1. StoreOK(add(d, upTo(a, h)), u)
      BY <2>2, <2>3, AddOK DEF LineOK
    <3> QED BY <3>1 DEF StoreOK
  <2> QED BY <2>1, <2>2, <2>5, <2>6 DEF P
<1> HIDE DEF P
<1>3. addChain(c, a, from) \in P
  BY <1>1, <1>2, AddChainKeeps
<1> QED BY <1>3 DEF P

-----------------------------------------------------------------------------
(* The board of an anchor, from the writes that it certifies and the       *)
(* height at which each is certified first.                                *)

Certified(a) == {x \in Writes : x[2] # 0 /\ x[2] <= headsOf(a)[x[1]]}
FirstOf(C, a) == IF C = {} THEN height(a) + 1 ELSE Min(C)
Ep(a, x) == FirstOf(Certifying(1..height(a), a, x), a)

LEMMA WholeIs ==
  ASSUME NEW a \in Anchor
  PROVE  /\ a \in Whole(a).anchors /\ Whole(a).anchors \subseteq Anchor
         /\ headsAt(Whole(a), a) = headsOf(a) /\ base(Whole(a)) = emptyView
         /\ Included(Whole(a), headsOf(a)) = Certified(a)
         /\ Walk(Whole(a), a) \ {0} = 1..height(a)
<1> DEFINE c == Whole(a)
           A == {upTo(a, h) : h \in 0..height(a)}
<1>1. /\ c.anchors = A /\ c.tip = a /\ c.have = headsOf(a) /\ c.seed = NoHeads /\ c.snap = None
  BY DEF Whole, AtGenesis
<1>2. height(a) \in Nat /\ upTo(a, height(a)) = a /\ height(a) \in 0..height(a)
  BY Ends
<1>3. a \in A /\ A \subseteq Anchor
  <2>1. \A h \in 0..height(a) : upTo(a, h) \in Anchor
    BY UpToOK
  <2>2. \E h \in 0..height(a) : a = upTo(a, h)
    BY <1>2
  <2> QED BY <2>1, <2>2
<1>4. Walk(c, a) = 0..height(a)
  <2>1. ASSUME NEW h \in 0..height(a) PROVE \A i \in h..height(a) : upTo(a, i) \in A
    <3>1. \A i \in h..height(a) : i \in 0..height(a)
      BY <1>2
    <3> QED BY <3>1
  <2> HIDE DEF c, A
  <2> QED BY <2>1, <1>1 DEF Walk
<1>5. Included(c, headsOf(a)) = Certified(a)
  <2>1. headsOf(a) \in Heads
    BY HeadsTyped
  <2>2. ASSUME NEW w \in Writer PROVE headsOf(a)[w] \in Nat /\ NoHeads[w] + 1 = 1
    BY <2>1 DEF Heads, NoHeads
  <2>3. allWrites(c) = UNION {{<<w, s>> : s \in 1..headsOf(a)[w]} : w \in Writer}
    <3>1. allWrites(c) = UNION {{<<w, s>> : s \in (NoHeads[w] + 1)..headsOf(a)[w]} : w \in Writer}
      BY <1>1 DEF allWrites
    <3> QED BY <3>1, <2>2
  <2>4. ASSUME NEW x \in allWrites(c) PROVE x \in Certified(a)
    <3>1. PICK w \in Writer : x \in {<<w, s>> : s \in 1..headsOf(a)[w]}
      BY <2>3
    <3>2. PICK s \in 1..headsOf(a)[w] : x = <<w, s>>
      BY <3>1
    <3>3. s \in Nat /\ s # 0 /\ s <= headsOf(a)[w]
      BY <2>2
    <3> QED BY <3>2, <3>3 DEF Certified, Writes
  <2>5. ASSUME NEW x \in Certified(a) PROVE x \in allWrites(c) /\ x[2] <= headsOf(a)[x[1]]
    <3>1. PICK w \in Writer, s \in Nat : x = <<w, s>>
      BY DEF Certified, Writes
    <3>2. s # 0 /\ s <= headsOf(a)[w]
      BY <3>1 DEF Certified
    <3>3. s \in 1..headsOf(a)[w]
      BY <3>2, <2>2
    <3> QED BY <3>1, <3>2, <3>3, <2>3
  <2>6. \A x \in Certified(a) : x[2] <= headsOf(a)[x[1]]
    BY DEF Certified
  <2> HIDE DEF c
  <2> QED BY <2>4, <2>5, <2>6 DEF Included
<1>6. headsAt(c, a) = headsOf(a)
  BY <1>1, <1>3 DEF headsAt
<1>7. base(c) = emptyView
  BY <1>1 DEF base
<1>8. (0..height(a)) \ {0} = 1..height(a)
  BY <1>2
<1> HIDE DEF c, A
<1>9. /\ a \in c.anchors /\ c.anchors \subseteq Anchor /\ headsAt(c, a) = headsOf(a)
      /\ base(c) = emptyView /\ Included(c, headsOf(a)) = Certified(a)
      /\ Walk(c, a) \ {0} = 1..height(a)
  BY <1>1, <1>3, <1>4, <1>5, <1>6, <1>7, <1>8
<1> QED BY <1>9 DEF c

EpochsOf(a, X) == [x \in X |-> Ep(a, x)]

LEMMA BoardOfIs ==
  ASSUME NEW a \in Anchor
  PROVE  boardOf(a) = computeView(emptyView, EpochsOf(a, Certified(a)), height(a))
<1> DEFINE c == Whole(a)
<1>1. /\ a \in c.anchors /\ c.anchors \subseteq Anchor /\ headsAt(c, a) = headsOf(a)
      /\ base(c) = emptyView /\ Included(c, headsOf(a)) = Certified(a)
      /\ Walk(c, a) \ {0} = 1..height(a)
  BY WholeIs
<1>2. boardOf(a) = viewAt(c, a)
  BY DEF boardOf
<1> HIDE DEF c
<1>3. \A x : epochOf(c, a, x) = Ep(a, x)
  <2> SUFFICES ASSUME NEW x PROVE epochOf(c, a, x) = Ep(a, x)
    OBVIOUS
  <2>1. epochOf(c, a, x) = FirstOf(Certifying(Walk(c, a) \ {0}, a, x), a)
    BY <1>1, EpochOK DEF FirstOf
  <2> QED BY <2>1, <1>1 DEF Ep
<1>4. EpochsIn(c, a, Certified(a)) = EpochsOf(a, Certified(a))
  BY <1>3 DEF EpochsIn, EpochsOf
<1> QED BY <1>1, <1>2, <1>4, ViewIs

(* Heads only advance.                                                     *)
LEMMA AdvancesUpTo ==
  ASSUME NEW a \in Anchor, Advances(a), NEW w \in Writer,
         NEW i \in 0..height(a), NEW j \in i..height(a)
  PROVE  headsOf(upTo(a, i))[w] <= headsOf(upTo(a, j))[w]
<1> DEFINE H(k) == headsOf(upTo(a, k))[w]
           N == {k \in i..height(a) : ~(H(i) <= H(k))}
<1>1. height(a) \in Nat /\ DOMAIN a = 1..height(a)
  BY Ends
<1>2. \A k \in 0..height(a) : H(k) \in Nat
  <2> SUFFICES ASSUME NEW k \in 0..height(a) PROVE H(k) \in Nat
    OBVIOUS
  <2>1. headsOf(upTo(a, k)) \in Heads
    BY UpToOK, HeadsTyped
  <2> QED BY <2>1 DEF Heads
<1>3. \A k \in 1..height(a) : H(k - 1) <= H(k)
  BY <1>1 DEF Advances
<1> HIDE DEF H
<1>4. ASSUME N # {} PROVE FALSE
  <2>1. PICK m \in N : \A k \in N : m <= k
    <3>1. N \subseteq Nat
      BY <1>1
    <3> HIDE DEF N
    <3> QED BY <3>1, <1>4, LeastExists
  <2>2. m \in i..height(a) /\ ~(H(i) <= H(m))
    BY <2>1
  <2>3. m # i
    BY <2>2, <1>1, <1>2
  <2>4. m - 1 \in i..height(a) /\ ~(m <= m - 1) /\ m \in 1..height(a) /\ m - 1 \in 0..height(a)
        /\ m \in 0..height(a)
    BY <2>2, <2>3, <1>1
  <2>5. H(i) <= H(m - 1)
    BY <2>1, <2>4
  <2>6. H(m - 1) <= H(m)
    BY <2>4, <1>3
  <2>7. H(i) \in Nat /\ H(m - 1) \in Nat /\ H(m) \in Nat
    BY <2>4, <1>2
  <2> QED BY <2>2, <2>5, <2>6, <2>7
<1>5. H(i) <= H(j)
  BY <1>4
<1> QED BY <1>5 DEF H

LEMMA AdvancesBelow ==
  ASSUME NEW a \in Anchor, Advances(a), NEW h \in 0..height(a)
  PROVE  /\ Advances(upTo(a, h))
         /\ \A w \in Writer : headsOf(upTo(a, h))[w] <= headsOf(a)[w]
<1> DEFINE b == upTo(a, h)
<1>1. /\ height(a) \in Nat /\ DOMAIN a = 1..height(a) /\ upTo(a, height(a)) = a
      /\ height(a) \in h..height(a)
  BY Ends
<1>2. /\ b \in Anchor /\ height(b) = h /\ \A i \in 0..h : upTo(b, i) = upTo(a, i)
  BY UpToOK
<1>3. \A w \in Writer : headsOf(b)[w] <= headsOf(a)[w]
  <2>1. \A w \in Writer : headsOf(upTo(a, h))[w] <= headsOf(upTo(a, height(a)))[w]
    BY <1>1, AdvancesUpTo
  <2> QED BY <1>1, <2>1
<1> HIDE DEF b
<1>4. Advances(b)
  <2> SUFFICES ASSUME NEW i \in DOMAIN b, NEW w \in Writer
               PROVE  headsOf(upTo(b, i - 1))[w] <= headsOf(upTo(b, i))[w]
    BY DEF Advances
  <2>1. i \in 1..h /\ i \in 0..h /\ i - 1 \in 0..h /\ i \in DOMAIN a
    <3>1. DOMAIN b = 1..h
      BY <1>2, Ends
    <3> QED BY <3>1, <1>1
  <2> QED BY <2>1, <1>2 DEF Advances
<1> QED BY <1>3, <1>4 DEF b

(* What is certified has an anchor that certifies it first.                *)
LEMMA EpWithin ==
  ASSUME NEW a \in Anchor, Consistent(a), NEW x \in Certified(a)
  PROVE  /\ Ep(a, x) \in Certifying(1..height(a), a, x)
         /\ \A h \in Certifying(1..height(a), a, x) : Ep(a, x) <= h
<1> DEFINE w == x[1]
           C == Certifying(1..height(a), a, x)
           N == {h \in 1..height(a) : w \in DOMAIN a[h].headsDelta}
<1>1. height(a) \in Nat /\ upTo(a, height(a)) = a /\ upTo(a, 0) = <<>>
  BY Ends
<1>2. w \in Writer /\ x[2] \in Nat /\ x[2] # 0 /\ x[2] <= headsOf(a)[w]
  BY DEF Certified, Writes
<1>3. N # {}
  <2> SUFFICES ASSUME \A h \in 1..height(a) : w \notin DOMAIN a[h].headsDelta PROVE FALSE
    OBVIOUS
  <2> HIDE DEF w
  <2>1. 0 \in 0..height(a) /\ height(a) \in 0..height(a) /\ 0 + 1 = 1
    BY <1>1
  <2>2. headsOf(upTo(a, height(a)))[w] = headsOf(upTo(a, 0))[w]
    BY <2>1, <1>2, HeadStays
  <2>3. headsOf(a)[w] = 0
    BY <2>2, <1>1, <1>2 DEF headsOf, NoHeads
  <2> QED BY <2>3, <1>2
<1>4. C # {}
  <2>1. N \subseteq 0..height(a)
    BY <1>1
  <2> DEFINE m == Max(N)
  <2>2. m \in N /\ \A h \in N : h <= m
    <3> HIDE DEF N
    <3> QED BY <2>1, <1>1, <1>3, MaxExists
  <2> HIDE DEF m
  <2>3. m \in 1..height(a) /\ w \in DOMAIN a[m].headsDelta
    BY <2>2
  <2>4. \A i \in m + 1..height(a) : w \notin DOMAIN a[i].headsDelta
    <3> SUFFICES ASSUME NEW i \in m + 1..height(a), w \in DOMAIN a[i].headsDelta PROVE FALSE
      OBVIOUS
    <3>1. i \in 1..height(a) /\ ~(i <= m)
      BY <2>3, <1>1
    <3> QED BY <3>1, <2>2
  <2> HIDE DEF w
  <2>5. height(a) \in 0..height(a)
    BY <1>1
  <2>6. headsOf(upTo(a, height(a)))[w] = a[m].headsDelta[w]
    BY <2>3, <2>4, <2>5, <1>2, HeadIsLast
  <2>7. m \in C
    BY <2>3, <2>6, <1>1, <1>2 DEF Certifying, w
  <2> QED BY <2>7
<1>5. C \subseteq Nat
  BY DEF Certifying
<1>6. Ep(a, x) = Min(C)
  BY <1>4 DEF Ep, FirstOf
<1> HIDE DEF C
<1>7. Ep(a, x) \in C /\ \A h \in C : Ep(a, x) <= h
  BY <1>4, <1>5, <1>6, MinExists
<1> QED BY <1>7 DEF C

(* Of what is certified further down, the epoch is the same there.         *)
LEMMA EpBelow ==
  ASSUME NEW a \in Anchor, Consistent(a), Advances(a), NEW k \in 0..height(a),
         NEW x \in Certified(upTo(a, k))
  PROVE  x \in Certified(a) /\ Ep(upTo(a, k), x) = Ep(a, x) /\ Ep(a, x) \in 1..k
<1> DEFINE b == upTo(a, k)
           C == Certifying(1..height(a), a, x)
           D == Certifying(1..k, b, x)
<1>1. height(a) \in Nat /\ b \in Anchor /\ height(b) = k /\ \A i \in 1..k : b[i] = a[i]
  BY Ends, UpToOK
<1>2. Consistent(b)
  BY ConsistentBelow
<1>3. x \in Certified(a)
  <2>1. x \in Writes /\ x[2] # 0 /\ x[2] <= headsOf(b)[x[1]] /\ x[1] \in Writer /\ x[2] \in Nat
    BY DEF Certified, Writes
  <2>2. headsOf(b)[x[1]] <= headsOf(a)[x[1]]
    BY <2>1, AdvancesBelow
  <2>3. headsOf(b)[x[1]] \in Nat /\ headsOf(a)[x[1]] \in Nat
    <3> HIDE DEF b
    <3> QED BY <2>1, <1>1, HeadsTyped DEF Heads
  <2>4. x[2] <= headsOf(a)[x[1]]
    <3> HIDE DEF b
    <3> QED BY <2>1, <2>2, <2>3
  <2> QED BY <2>1, <2>4 DEF Certified
<1> DEFINE e == Ep(a, x)
           f == Ep(b, x)
<1>4. e \in C /\ \A h \in C : e <= h
  BY <1>3, EpWithin
<1>5. f \in D /\ \A h \in D : f <= h
  <2>1. /\ f \in Certifying(1..height(b), b, x)
        /\ \A h \in Certifying(1..height(b), b, x) : f <= h
    <3> HIDE DEF b
    <3>1. b \in Anchor /\ Consistent(b) /\ x \in Certified(b)
      BY <1>1, <1>2 DEF b
    <3> QED BY <3>1, EpWithin
  <2> HIDE DEF b, f
  <2> QED BY <2>1, <1>1
<1>6. f \in C
  BY <1>1, <1>5 DEF Certifying
<1>7. ASSUME e <= k PROVE e \in D
  BY <1>1, <1>4, <1>7 DEF Certifying
<1>8. f \in 1..k /\ e \in 1..height(a)
  BY <1>4, <1>5 DEF Certifying
<1> HIDE DEF e, f, C, D
<1>9. e <= f
  BY <1>4, <1>6
<1>10. e <= k
  BY <1>8, <1>9, <1>1
<1>11. f <= e
  BY <1>5, <1>7, <1>10
<1>12. e = f /\ e \in 1..k
  BY <1>8, <1>9, <1>10, <1>11
<1> QED BY <1>3, <1>12 DEF e, f

(* What is not certified further down is certified only above.             *)
LEMMA EpAbove ==
  ASSUME NEW u, NEW a, Sound(a, u), Consistent(a), Advances(a), NEW k \in 0..height(a),
         NEW x \in Certified(a) \ Certified(upTo(a, k))
  PROVE  /\ Ep(a, x) \in k + 1..height(a)
         /\ \A D \in SUBSET (1..height(a)) :
              k + 1..height(a) \subseteq D => FirstOf(Certifying(D, a, x), a) = Ep(a, x)
<1> DEFINE b == upTo(a, k)
           C == Certifying(1..height(a), a, x)
           w == x[1]
<1>1. /\ a \in Anchor /\ height(a) \in Nat /\ b \in Anchor /\ \A i \in 1..height(a) : LinkOK(a[i], u)
  BY Ends, UpToOK DEF Sound
<1>2. w \in Writer /\ x[2] \in Nat /\ x[2] # 0 /\ ~(x[2] <= headsOf(b)[w])
  BY DEF Certified, Writes
<1>3. ASSUME NEW h \in C PROVE h \in k + 1..height(a)
  <2>1. h \in 1..height(a) /\ w \in DOMAIN a[h].headsDelta /\ x[2] <= a[h].headsDelta[w]
    BY DEF Certifying
  <2> HIDE DEF C
  <2>2. a[h].headsDelta[w] = a[h].stateRoot[w]
    BY <2>1, <1>1 DEF LinkOK
  <2>3. headsOf(upTo(a, h)) = a[h].stateRoot /\ headsOf(upTo(a, h)) \in Heads
    BY <2>1, <1>1, HeadsBelow
  <2>4. ASSUME h <= k PROVE FALSE
    <3>1. h \in 0..height(a) /\ k \in h..height(a)
      BY <2>1, <2>4, <1>1
    <3>2. headsOf(upTo(a, h))[w] <= headsOf(upTo(a, k))[w]
      BY <3>1, <1>1, <1>2, AdvancesUpTo
    <3>3. headsOf(upTo(a, h))[w] \in Nat /\ headsOf(b)[w] \in Nat
      <4> HIDE DEF b, w
      <4> QED BY <2>3, <1>1, <1>2, HeadsTyped DEF Heads
    <3>4. x[2] <= headsOf(upTo(a, h))[w]
      BY <2>1, <2>2, <2>3
    <3> HIDE DEF w
    <3> QED BY <3>2, <3>3, <3>4, <1>2
  <2> QED BY <2>1, <2>4, <1>1
<1>4. Ep(a, x) \in C
  BY <1>1, EpWithin
<1>5. ASSUME NEW D \in SUBSET (1..height(a)), k + 1..height(a) \subseteq D
      PROVE  FirstOf(Certifying(D, a, x), a) = Ep(a, x)
  <2>1. Certifying(D, a, x) = C
    BY <1>3, <1>5 DEF Certifying
  <2> QED BY <2>1 DEF Ep
<1> HIDE DEF C
<1> QED BY <1>3, <1>4, <1>5

(* The groups of the epochs up to k come first, as they were at height k.  *)
BothOf(E, E1, E2) ==
  /\ DOMAIN E = DOMAIN E1 \cup DOMAIN E2
  /\ \A x \in DOMAIN E1 : E[x] = E1[x]
  /\ \A x \in DOMAIN E2 : E[x] = E2[x]

LEMMA GroupsInTurn ==
  ASSUME NEW k \in Nat, NEW n \in Nat, k <= n,
         NEW E, DOMAIN E \subseteq Writes, NEW E1, NEW E2, BothOf(E, E1, E2),
         Epochs(E1) \subseteq 0..k, Epochs(E2) \subseteq k + 1..n
  PROVE  /\ Groups(E, n) = Groups(E1, k) \o Groups(E2, n)
         /\ Groups(E1, k) \in Seq(Group) /\ Groups(E2, n) \in Seq(Group)
<1>a. /\ DOMAIN E = DOMAIN E1 \cup DOMAIN E2
      /\ (\A x \in DOMAIN E1 : E[x] = E1[x]) /\ (\A x \in DOMAIN E2 : E[x] = E2[x])
  BY DEF BothOf
<1> DEFINE S == Epochs(E1)  T == Epochs(E2)  U == Epochs(E)
           m == Cardinality(S)  l == Cardinality(T)
<1>1. U = S \cup T
  BY <1>a DEF Epochs
<1>2. /\ S \subseteq 0..k /\ T \subseteq 0..n /\ U \subseteq 0..n /\ S \subseteq 0..n
      /\ DOMAIN E1 \subseteq Writes /\ DOMAIN E2 \subseteq Writes
  <2>1. S \subseteq 0..k /\ T \subseteq k + 1..n /\ (0..k) \subseteq 0..n /\ (k + 1..n) \subseteq 0..n
    OBVIOUS
  <2> HIDE DEF S, T, U
  <2> QED BY <2>1, <1>1, <1>a
<1>3. /\ IsFiniteSet(S) /\ S \subseteq Int /\ m \in Nat /\ Groups(E1, k) \in Seq(Group)
      /\ Len(Groups(E1, k)) = m
      /\ \A i \in 1..m : Groups(E1, k)[i] = GroupOf(E1, k, sorted(S)[i])
  BY <1>2, GroupsOK
<1>4. /\ IsFiniteSet(T) /\ T \subseteq Int /\ l \in Nat /\ Groups(E2, n) \in Seq(Group)
      /\ Len(Groups(E2, n)) = l
      /\ \A i \in 1..l : Groups(E2, n)[i] = GroupOf(E2, n, sorted(T)[i])
  BY <1>2, GroupsOK
<1>5. /\ Groups(E, n) \in Seq(Group) /\ Len(Groups(E, n)) = Cardinality(U)
      /\ \A i \in 1..Cardinality(U) : Groups(E, n)[i] = GroupOf(E, n, sorted(U)[i])
  BY <1>2, GroupsOK
<1>6. /\ Cardinality(U) = m + l
      /\ \A i \in 1..m : sorted(U)[i] = sorted(S)[i]
      /\ \A i \in 1..l : sorted(U)[m + i] = sorted(T)[i]
  <2>1. AllBefore(S, T)
    <3> SUFFICES ASSUME NEW e \in 0..k, NEW f \in k + 1..n PROVE e < f
      BY DEF AllBefore
    <3> QED OBVIOUS
  <2>2. IsFiniteSet(S) /\ S \subseteq Int /\ IsFiniteSet(T) /\ T \subseteq Int
    BY <1>3, <1>4
  <2> HIDE DEF S, T, U
  <2>3. InTurn(S, T)
    BY <2>1, <2>2, SortedInTurn
  <2> QED BY <2>3, <1>1 DEF InTurn
<1>7. ASSUME NEW e \in S PROVE GroupOf(E, n, e) = GroupOf(E1, k, e)
  <2>1. e \in 0..k
    OBVIOUS
  <2>2. Min({e, n}) = e /\ Min({e, k}) = e
    <3>1. e \in Int /\ n \in Int /\ k \in Int /\ e <= n /\ e <= k
      BY <2>1
    <3> QED BY <3>1, OfTwo
  <2>3. \A x \in DOMAIN E2 : E[x] # e
    <3> SUFFICES ASSUME NEW x \in DOMAIN E2 PROVE E2[x] # e
      BY <1>a
    <3>1. E2[x] \in k + 1..n
      BY DEF Epochs
    <3> QED BY <3>1, <2>1
  <2>4. {x \in DOMAIN E : E[x] = e} = {x \in DOMAIN E1 : E1[x] = e}
    BY <2>3, <1>a
  <2> QED BY <2>2, <2>4 DEF GroupOf
<1>8. ASSUME NEW e \in T PROVE GroupOf(E, n, e) = GroupOf(E2, n, e)
  <2>1. e \in k + 1..n
    OBVIOUS
  <2>3. \A x \in DOMAIN E1 : E[x] # e
    <3> SUFFICES ASSUME NEW x \in DOMAIN E1 PROVE E1[x] # e
      BY <1>a
    <3>1. E1[x] \in 0..k
      BY DEF Epochs
    <3> QED BY <3>1, <2>1
  <2>4. {x \in DOMAIN E : E[x] = e} = {x \in DOMAIN E2 : E2[x] = e}
    BY <2>3, <1>a
  <2> QED BY <2>4 DEF GroupOf
<1>9. /\ \A i \in 1..m : sorted(S)[i] \in S
      /\ \A i \in 1..l : sorted(T)[i] \in T
  BY <1>3, <1>4, SortedOK
<1> DEFINE G == Groups(E, n)  G1 == Groups(E1, k)  G2 == Groups(E2, n)
<1> HIDE DEF S, T, U, m, l, G, G1, G2
<1>10. ASSUME NEW i \in 1..m + l PROVE G[i] = IF i <= m THEN G1[i] ELSE G2[i - m]
  <2>1. CASE i <= m
    <3>1. i \in 1..m /\ i \in 1..Cardinality(U)
      BY <2>1, <1>3, <1>4, <1>6
    <3>2. G[i] = GroupOf(E, n, sorted(S)[i]) /\ G1[i] = GroupOf(E1, k, sorted(S)[i])
      BY <3>1, <1>3, <1>5, <1>6 DEF G, G1
    <3> QED BY <2>1, <3>1, <3>2, <1>7, <1>9
  <2>2. CASE ~(i <= m)
    <3>1. i - m \in 1..l /\ i \in 1..Cardinality(U) /\ m + (i - m) = i
      BY <2>2, <1>3, <1>4, <1>6
    <3>2. sorted(U)[m + (i - m)] = sorted(T)[i - m]
      BY <3>1, <1>6
    <3>3. G[i] = GroupOf(E, n, sorted(T)[i - m]) /\ G2[i - m] = GroupOf(E2, n, sorted(T)[i - m])
      BY <3>1, <3>2, <1>4, <1>5 DEF G, G2
    <3> QED BY <2>2, <3>1, <3>3, <1>8, <1>9
  <2> QED BY <2>1, <2>2
<1>11. G = G1 \o G2
  <2>1. G \in Seq(Group) /\ Len(G) = m + l /\ G1 \in Seq(Group) /\ G2 \in Seq(Group)
        /\ Len(G1) = m /\ Len(G2) = l
    BY <1>3, <1>4, <1>5, <1>6 DEF G, G1, G2
  <2>2. /\ G1 \o G2 \in Seq(Group) /\ Len(G1 \o G2) = m + l
        /\ \A i \in 1..m + l : (G1 \o G2)[i] = IF i <= m THEN G1[i] ELSE G2[i - m]
    <3>1. /\ G1 \o G2 \in Seq(Group) /\ Len(G1 \o G2) = Len(G1) + Len(G2)
          /\ \A i \in 1..Len(G1) + Len(G2) :
               (G1 \o G2)[i] = IF i <= Len(G1) THEN G1[i] ELSE G2[i - Len(G1)]
      BY <2>1, ConcatProperties
    <3> QED BY <3>1, <2>1
  <2>3. \A i \in 1..m + l : G[i] = (G1 \o G2)[i]
    BY <2>2, <1>10
  <2> HIDE DEF G1, G2
  <2> DEFINE Q == G1 \o G2
  <2>4. Q \in Seq(Group) /\ Len(Q) = Len(G) /\ \A i \in 1..Len(G) : G[i] = Q[i]
    BY <2>1, <2>2, <2>3
  <2> HIDE DEF Q
  <2>5. G = Q
    BY <2>1, <2>4, SeqEqual
  <2> QED BY <2>5 DEF Q
<1> QED BY <1>3, <1>4, <1>11 DEF G, G1, G2

LEMMA EpochsOfOK ==
  ASSUME NEW a, NEW X, NEW D, \A x \in X : Ep(a, x) \in D
  PROVE  DOMAIN EpochsOf(a, X) = X /\ Epochs(EpochsOf(a, X)) \subseteq D
BY DEF EpochsOf, Epochs

(* A board folded on that of an anchor further down.                       *)
LEMMA BoardInTurn ==
  ASSUME NEW u, NEW a, Sound(a, u), Consistent(a), Advances(a), NEW k \in 0..height(a)
  PROVE  computeView(boardOf(upTo(a, k)),
                     EpochsOf(a, Certified(a) \ Certified(upTo(a, k))), height(a)) = boardOf(a)
<1> DEFINE b == upTo(a, k)
           n == height(a)
           A == Certified(a)  B == Certified(b)
           E == EpochsOf(a, A)  E1 == EpochsOf(b, B)  E2 == EpochsOf(a, A \ B)
<1>1. a \in Anchor /\ n \in Nat /\ k \in Nat /\ k <= n /\ b \in Anchor /\ height(b) = k
  BY Ends, UpToOK DEF Sound
<1>2. \A x \in B : x \in A /\ Ep(b, x) = Ep(a, x) /\ Ep(a, x) \in 1..k
  <2> SUFFICES ASSUME NEW x \in B PROVE x \in A /\ Ep(b, x) = Ep(a, x) /\ Ep(a, x) \in 1..k
    OBVIOUS
  <2> QED BY <1>1, EpBelow
<1>3. \A x \in A \ B : Ep(a, x) \in k + 1..n
  <2> SUFFICES ASSUME NEW x \in A \ B PROVE Ep(a, x) \in k + 1..n
    OBVIOUS
  <2> QED BY <1>1, EpAbove
<1>4. A \subseteq Writes
  BY DEF Certified
<1> HIDE DEF A, B, b, n
<1>5. DOMAIN E1 = B /\ Epochs(E1) \subseteq 0..k
  <2>1. \A x \in B : Ep(b, x) \in 0..k
    BY <1>1, <1>2
  <2> QED BY <2>1, EpochsOfOK
<1>6. DOMAIN E2 = A \ B /\ Epochs(E2) \subseteq k + 1..n
  BY <1>3, EpochsOfOK
<1>7. DOMAIN E = A /\ A = B \cup (A \ B)
  BY <1>2 DEF EpochsOf
<1>8. (\A x \in B : E[x] = E1[x]) /\ (\A x \in A \ B : E[x] = E2[x])
  BY <1>2 DEF EpochsOf
<1>b. BothOf(E, E1, E2) /\ DOMAIN E \subseteq Writes
  <2> HIDE DEF E, E1, E2
  <2> QED BY <1>4, <1>5, <1>6, <1>7, <1>8 DEF BothOf
<1> HIDE DEF E, E1, E2
<1>9. /\ Groups(E, n) = Groups(E1, k) \o Groups(E2, n)
      /\ Groups(E1, k) \in Seq(Group) /\ Groups(E2, n) \in Seq(Group)
  BY <1>1, <1>5, <1>6, <1>b, GroupsInTurn
<1>10. /\ boardOf(b) = [height |-> Max({0, k}), folded |-> <<>> \o Groups(E1, k)]
       /\ boardOf(a) = [height |-> Max({0, n}), folded |-> <<>> \o Groups(E, n)]
  <2>1. emptyView.height = 0 /\ emptyView.folded = <<>>
    BY DEF emptyView
  <2>2. boardOf(b) = computeView(emptyView, E1, k)
    BY <1>1, BoardOfIs DEF E1, B
  <2>3. boardOf(a) = computeView(emptyView, E, n)
    BY <1>1, BoardOfIs DEF E, A, n
  <2> QED BY <2>1, <2>2, <2>3, ComputeViewIs
<1>11. Max({0, k}) = k /\ Max({0, n}) = n /\ Max({k, n}) = n
  <2>1. 0 \in Int /\ k \in Int /\ n \in Int
    BY <1>1
  <2>2. /\ Max({0, k}) = (IF 0 >= k THEN 0 ELSE k) /\ Max({0, n}) = (IF 0 >= n THEN 0 ELSE n)
        /\ Max({k, n}) = (IF k >= n THEN k ELSE n)
    BY <2>1, OfTwo
  <2> QED BY <2>2, <1>1
<1>12. <<>> \o Groups(E1, k) = Groups(E1, k) /\ <<>> \o Groups(E, n) = Groups(E, n)
  <2>1. Groups(E, n) \in Seq(Group)
    BY <1>9, ConcatProperties
  <2> QED BY <2>1, <1>9, ConcatEmptySeq
<1>13. computeView(boardOf(b), E2, n) = [height |-> Max({k, n}), folded |-> Groups(E1, k) \o Groups(E2, n)]
  <2>1. boardOf(b).height = k /\ boardOf(b).folded = Groups(E1, k)
    BY <1>10, <1>11, <1>12
  <2> QED BY <2>1, ComputeViewIs
<1>14. computeView(boardOf(b), E2, n) = boardOf(a)
  BY <1>9, <1>10, <1>11, <1>12, <1>13
<1> QED BY <1>14 DEF A, B, E2, b, n

(* What a node includes that has all the writes.                           *)
LEMMA IncludedIs ==
  ASSUME NEW u, NEW c, StoreOK(c, u), NEW heads \in Heads, haveAllWrites(c, heads)
  PROVE  Included(c, heads) = {x \in Writes : c.seed[x[1]] < x[2] /\ x[2] <= heads[x[1]]}
<1>1. /\ c.seed \in Heads /\ c.have \in Heads
  BY StoreIs
<1>2. ASSUME NEW w \in Writer PROVE c.seed[w] \in Nat /\ c.have[w] \in Nat /\ heads[w] \in Nat
  BY <1>1 DEF Heads
<1>3. ASSUME NEW x \in allWrites(c) PROVE x \in Writes /\ c.seed[x[1]] < x[2]
  <2>1. PICK w \in Writer : x \in {<<w, s>> : s \in (c.seed[w] + 1)..c.have[w]}
    BY DEF allWrites
  <2>2. PICK s \in (c.seed[w] + 1)..c.have[w] : x = <<w, s>>
    BY <2>1
  <2>3. s \in Nat /\ c.seed[w] < s
    BY <1>2
  <2> QED BY <2>2, <2>3 DEF Writes
<1>4. ASSUME NEW x \in Writes, c.seed[x[1]] < x[2], x[2] <= heads[x[1]] PROVE x \in allWrites(c)
  <2>1. PICK w \in Writer, s \in Nat : x = <<w, s>>
    BY DEF Writes
  <2>2. c.seed[w] < s /\ s <= heads[w]
    BY <2>1, <1>4
  <2>3. heads[w] # 0
    BY <2>2, <1>2
  <2>4. heads[w] <= c.have[w]
    BY <2>3 DEF haveAllWrites
  <2>5. s \in (c.seed[w] + 1)..c.have[w]
    BY <2>2, <2>4, <1>2
  <2> QED BY <2>1, <2>5 DEF allWrites
<1> QED BY <1>3, <1>4 DEF Included

(* The settled history of c leads to its floor.                            *)
LEMMA FollowsFloor ==
  ASSUME NEW u, NEW c, StoreOK(c, u), LineOK(c), BaseOK(c), NEW a \in Anchor, Follows(c, a)
  PROVE  OnFloor(c, a)
<1>1. CASE c.floor = None
  BY <1>1 DEF OnFloor
<1>2. CASE c.floor # None
  <2> DEFINE S == c.snap.anchor
  <2>1. S \in c.anchors /\ IsBelow(S, c.tip) /\ IsBelow(S, a)
    BY <1>2 DEF BaseOK, Follows
  <2>2. /\ c.floor \in Anchor /\ c.tip \in Anchor /\ S \in Anchor /\ height(c.floor) <= height(S)
        /\ IsBelow(c.floor, c.tip)
    BY <1>2, <2>1, LowOK DEF LineOK
  <2> HIDE DEF S
  <2>3. IsBelow(c.floor, S)
    BY <2>1, <2>2, BelowOK
  <2>4. IsBelow(c.floor, a)
    BY <2>1, <2>2, <2>3, BelowOK
  <2> QED BY <2>4 DEF OnFloor
<1> QED BY <1>1, <1>2

(* A node that has what an anchor certifies folds the board of one who has *)
(* everything, whatever it has pruned.                                     *)
LEMMA BoardIsWhole ==
  ASSUME NEW u \in Heads, NEW c, StoreOK(c, u), LineOK(c), BaseOK(c), NEW a \in c.anchors,
         Follows(c, a), Advances(a), haveAllWrites(c, headsOf(a))
  PROVE  viewAt(c, a) = boardOf(a)
<1> DEFINE X == Included(c, headsOf(a))
<1>1. /\ a \in Anchor /\ height(a) \in Nat /\ Consistent(a) /\ Sound(a, u) /\ headsOf(a) \in Heads
      /\ c.anchors \subseteq Anchor /\ \A w \in Writer : headsOf(a)[w] \in Nat
  <2>1. a \in Anchor /\ Consistent(a) /\ Sound(a, u) /\ c.anchors \subseteq Anchor
    BY StoreIs DEF LineOK, StoreOK
  <2> QED BY <2>1, HeadsTyped, Ends DEF Heads
<1>2. headsAt(c, a) = headsOf(a)
  BY <1>1, FollowsFloor, Rebuilt
<1>3. viewAt(c, a) = computeView(base(c), EpochsIn(c, a, X), height(a))
  BY <1>2, ViewIs
<1>4. X = {x \in Writes : c.seed[x[1]] < x[2] /\ x[2] <= headsOf(a)[x[1]]}
  BY <1>1, IncludedIs
<1>5. Walk(c, a) = Low(c)..height(a) /\ Low(c) \in 0..height(a)
  BY LineWalk
<1>6. \A x : epochOf(c, a, x) = FirstOf(Certifying(Walk(c, a) \ {0}, a, x), a)
  <2> SUFFICES ASSUME NEW x PROVE epochOf(c, a, x) = FirstOf(Certifying(Walk(c, a) \ {0}, a, x), a)
    OBVIOUS
  <2> QED BY <1>1, EpochOK DEF FirstOf
<1> HIDE DEF X
<1>7. CASE c.snap = None
  <2>1. base(c) = emptyView /\ c.seed = NoHeads /\ Low(c) = 0
    BY <1>7, LowOK DEF base, BaseOK
  <2>2. X = Certified(a)
    <3>1. \A x \in Writes : c.seed[x[1]] < x[2] <=> x[2] # 0
      <4> SUFFICES ASSUME NEW x \in Writes PROVE c.seed[x[1]] < x[2] <=> x[2] # 0
        OBVIOUS
      <4>1. x[1] \in Writer /\ x[2] \in Nat
        BY DEF Writes
      <4>2. c.seed[x[1]] = 0
        BY <2>1, <4>1 DEF NoHeads
      <4> QED BY <4>1, <4>2
    <3> QED BY <3>1, <1>4 DEF Certified
  <2>3. Walk(c, a) \ {0} = 1..height(a)
    BY <1>1, <1>5, <2>1
  <2>4. EpochsIn(c, a, X) = EpochsOf(a, X)
    BY <1>6, <2>3 DEF EpochsIn, EpochsOf, Ep
  <2> QED BY <1>1, <1>3, <2>1, <2>2, <2>4, BoardOfIs
<1>8. CASE c.snap # None
  <2> DEFINE S == c.snap.anchor
             k == height(S)
  <2>1. S \in c.anchors /\ IsBelow(S, a) /\ S \in Anchor /\ Low(c) <= k
    BY <1>1, <1>8 DEF BaseOK, Follows, LineOK
  <2>2. k \in 0..height(a) /\ upTo(a, k) = S /\ headsOf(S) \in Heads
    BY <1>1, <2>1, BelowOK, HeadsTyped
  <2>3. Advances(S)
    <3> HIDE DEF S, k
    <3> QED BY <1>1, <2>2, AdvancesBelow
  <2>4. c.seed = headsOf(S) /\ base(c) = boardOf(S)
    BY <1>8, <2>3 DEF BaseOK, base
  <2> HIDE DEF S, k
  <2>5. X = Certified(a) \ Certified(S)
    <3>1. ASSUME NEW x \in Writes
          PROVE  c.seed[x[1]] < x[2] <=> (x[2] # 0 /\ ~(x[2] # 0 /\ x[2] <= headsOf(S)[x[1]]))
      <4>1. x[1] \in Writer /\ x[2] \in Nat
        BY DEF Writes
      <4>2. headsOf(S)[x[1]] \in Nat
        BY <4>1, <2>2 DEF Heads
      <4> QED BY <4>1, <4>2, <2>4
    <3> QED BY <3>1, <1>4 DEF Certified
  <2>6. /\ Walk(c, a) \ {0} \in SUBSET (1..height(a))
        /\ k + 1..height(a) \subseteq Walk(c, a) \ {0}
    BY <1>1, <1>5, <2>1, <2>2
  <2>7. ASSUME NEW x \in X PROVE epochOf(c, a, x) = Ep(a, x)
    <3>1. x \in Certified(a) \ Certified(upTo(a, k))
      BY <2>2, <2>5
    <3>2. FirstOf(Certifying(Walk(c, a) \ {0}, a, x), a) = Ep(a, x)
      BY <3>1, <1>1, <2>2, <2>6, EpAbove
    <3> QED BY <3>2, <1>6
  <2>8. EpochsIn(c, a, X) = EpochsOf(a, X)
    BY <2>7 DEF EpochsIn, EpochsOf
  <2>9. computeView(boardOf(S), EpochsOf(a, Certified(a) \ Certified(S)), height(a)) = boardOf(a)
    BY <1>1, <2>2, BoardInTurn
  <2> QED BY <1>3, <2>4, <2>5, <2>8, <2>9
<1> QED BY <1>7, <1>8

-----------------------------------------------------------------------------
(* Checkpoints on a line.                                                  *)

LEMMA LinePrune ==
  ASSUME NEW u \in Heads, NEW c, StoreOK(c, u), LineOK(c), NEW h \in Int, h < height(c.tip)
  PROVE  /\ LineOK(prune(c, h)) /\ prune(c, h).anchors \subseteq c.anchors
         /\ \A a \in c.anchors : h <= height(a) => a \in prune(c, h).anchors
         /\ prune(c, h).tip = c.tip /\ prune(c, h).snap = c.snap
         /\ prune(c, h).disk = c.disk /\ prune(c, h).seed = c.seed
<1> DEFINE fl == upTo(c.tip, h)
           d == [c EXCEPT !.anchors = {a \in @ : height(a) >= h},
                          !.floor = fl, !.floorHeads = headsAt(c, fl)]
           lowest == IF c.floor = None THEN 0 ELSE height(c.floor)
<1>1. /\ c \in Store /\ c.anchors \subseteq Anchor /\ c.tip \in Anchor /\ height(c.tip) \in Nat
      /\ c.tip \in c.anchors /\ Low(c) \in Nat
      /\ (c.floor # None => c.floor \in Anchor /\ Low(c) = height(c.floor) /\ IsBelow(c.floor, c.tip))
      /\ \A a \in c.anchors : height(a) \in Nat
  <2>1. c.anchors \subseteq Anchor
    BY StoreIs
  <2>2. \A a \in c.anchors : height(a) \in Nat
    BY <2>1, Ends
  <2> QED BY <2>1, <2>2, LowOK DEF StoreOK, LineOK
<1>2. CASE h <= lowest \/ h \notin Walk(c, c.tip)
  <2>1. prune(c, h) = c
    BY <1>2 DEF prune
  <2> QED BY <2>1
<1>3. CASE ~(h <= lowest \/ h \notin Walk(c, c.tip))
  <2>1. prune(c, h) = d
    BY <1>3 DEF prune
  <2>2. lowest = Low(c)
    BY DEF Low
  <2> HIDE DEF lowest
  <2>3. h \in 0..height(c.tip) /\ fl \in c.anchors /\ Low(c) < h
    BY <1>1, <1>3, <2>2, WalkOK
  <2>4. height(fl) = h /\ fl \in Anchor /\ IsBelow(fl, c.tip) /\ fl # None
    BY <1>1, <2>3, UpToOK, BelowUpTo, NoneAssumption
  <2> HIDE DEF fl
  <2>5. OnFloor(c, fl)
    <3> SUFFICES ASSUME c.floor # None PROVE IsBelow(c.floor, fl)
      BY DEF OnFloor
    <3>1. height(c.floor) <= height(fl)
      BY <1>1, <2>3, <2>4
    <3> QED BY <3>1, <1>1, <2>4, BelowOK
  <2>6. headsAt(c, fl) = headsOf(fl)
    BY <2>3, <2>5, Rebuilt
  <2>7. /\ d.anchors = {a \in c.anchors : height(a) >= h} /\ d.tip = c.tip
        /\ d.floor = fl /\ d.floorHeads = headsOf(fl) /\ d.have = c.have /\ d.seed = c.seed
        /\ d.snap = c.snap /\ d.disk = c.disk /\ d.pending = c.pending
    BY <1>1, <2>6 DEF Store
  <2> HIDE DEF d
  <2>8. Low(d) = h
    BY <2>4, <2>7 DEF Low
  <2>9. \A a \in c.anchors : h <= height(a) => a \in d.anchors
    <3> SUFFICES ASSUME NEW a \in c.anchors, h <= height(a) PROVE height(a) >= h
      BY <2>7
    <3> QED BY <1>1
  <2>10. ASSUME NEW a \in d.anchors
         PROVE  /\ Low(d) <= height(a) /\ height(a) <= height(d.tip)
                /\ Low(d) < height(a) => prev(a) \in d.anchors
                /\ Consistent(a)
    <3>1. a \in c.anchors /\ height(a) \in Nat /\ height(a) >= h
      BY <1>1, <2>7
    <3>2. height(a) <= height(c.tip) /\ Consistent(a) /\ (Low(c) < height(a) => prev(a) \in c.anchors)
      BY <3>1 DEF LineOK
    <3>3. ASSUME h < height(a) PROVE prev(a) \in d.anchors
      <4>1. a # <<>> /\ a \in Anchor
        BY <3>1, <3>3, <2>3, <1>1, Genesis
      <4>2. height(prev(a)) = height(a) - 1 /\ prev(a) \in c.anchors
        BY <4>1, <3>1, <3>2, <3>3, <2>3, <1>1, PrevOK
      <4>3. h <= height(prev(a))
        BY <4>2, <3>1, <3>3, <2>3
      <4> QED BY <4>2, <4>3, <2>9
    <3>4. h <= height(a)
      BY <3>1, <2>3
    <3> QED BY <3>2, <3>3, <3>4, <2>7, <2>8
  <2>11. d.tip # None /\ d.pending = None /\ \A a, b \in d.anchors : Agree(a, b)
    BY <2>7 DEF LineOK
  <2>12. 0 < height(fl) /\ height(fl) < height(d.tip)
    BY <1>1, <2>3, <2>4, <2>7
  <2>13. LineOK(d)
    BY <2>4, <2>7, <2>10, <2>11, <2>12 DEF LineOK
  <2> QED BY <2>1, <2>7, <2>9, <2>13
<1> QED BY <1>2, <1>3

(* What is settled is below the tip.                                       *)
LEMMA SettledBelow ==
  ASSUME NEW u, NEW c, StoreOK(c, u), LineOK(c), NEW h \in 1..height(settled(c)),
         h > Low(c)
  PROVE  upTo(settled(c), h) = upTo(c.tip, h) /\ h < height(c.tip) /\ h \in 0..height(c.tip)
<1>1. /\ c.tip \in Anchor /\ height(c.tip) \in Nat /\ Low(c) \in Nat /\ c.tip # None
      /\ c.tip \in c.anchors /\ (c.floor # None => Low(c) = height(c.floor))
  BY LowOK DEF LineOK
<1>2. settled(c) = c.floor \/ settled(c) = finalized(c, settleDepth)
  BY SettledOK, <1>1
<1>3. ASSUME settled(c) = c.floor PROVE FALSE
  <2>1. c.floor # None
    BY <1>3, SettledOK, <1>1, NoneAssumption
  <2> QED BY <2>1, <1>1, <1>3
<1>4. settleDepth \in Nat \ {0} /\ settleDepth \in Nat
  BY StateRootsAssumption
<1>5. PICK k \in Walk(c, c.tip) :
        /\ finalized(c, settleDepth) = upTo(c.tip, k)
        /\ k = Min(Walk(c, c.tip)) \/ k = height(c.tip) - settleDepth
  BY <1>1, <1>4, FinalizedOK
<1>6. Min(Walk(c, c.tip)) = Low(c)
  BY <1>1, LineWalk
<1>7. k \in 0..height(c.tip)
  BY <1>1, WalkOK
<1>8. /\ settled(c) = upTo(c.tip, k) /\ height(upTo(c.tip, k)) = k
      /\ \A i \in 0..k : upTo(upTo(c.tip, k), i) = upTo(c.tip, i)
  BY <1>1, <1>2, <1>3, <1>5, <1>7, UpToOK
<1>9. h \in 1..k
  BY <1>8
<1>10. k = height(c.tip) - settleDepth
  BY <1>1, <1>5, <1>6, <1>7, <1>9
<1>11. h < height(c.tip) /\ h \in 0..height(c.tip) /\ h \in 0..k
  BY <1>1, <1>4, <1>7, <1>9, <1>10
<1> QED BY <1>8, <1>11

LEMMA LineCheckpoint ==
  ASSUME setting \in Settings, NEW u \in Heads, NEW c, StoreOK(c, u), LineOK(c), BaseOK(c)
  PROVE  /\ LineOK(maybeCheckpoint(c)) /\ BaseOK(maybeCheckpoint(c))
         /\ maybeCheckpoint(c).anchors \subseteq c.anchors
<1>1. CASE maybeCheckpoint(c) = c
  BY <1>1
<1>2. CASE maybeCheckpoint(c) # c
  <2>1. PICK h \in 1..height(settled(c)) :
          /\ upTo(settled(c), h) \in c.anchors
          /\ c.snap # None => h > height(c.snap.anchor)
          /\ haveAllWrites(c, headsAt(c, upTo(settled(c), h)))
          /\ maybeCheckpoint(c) = prune(Taken(c, upTo(settled(c), h)), h - setting.margin)
    BY <1>2, CheckpointIs DEF LineOK
  <2> DEFINE b == upTo(settled(c), h)
             S == c.snap.anchor
  <2>2. /\ Low(c) \in Nat /\ c.tip \in Anchor /\ c.tip \in c.anchors /\ c.anchors \subseteq Anchor
        /\ height(c.tip) \in Nat /\ h \in Int
    BY LowOK
  <2>3. c.snap # None => /\ S \in c.anchors /\ S \in Anchor /\ height(S) \in Nat
                         /\ Low(c) <= height(S) /\ IsBelow(S, c.tip)
    <3>1. c.snap # None => S \in c.anchors /\ S \in Anchor /\ IsBelow(S, c.tip)
      BY <2>2 DEF BaseOK
    <3> QED BY <3>1, Ends DEF LineOK
  <2>4. h > Low(c)
    <3>1. CASE c.snap = None
      <4>1. Low(c) = 0
        BY <3>1, LowOK DEF BaseOK
      <4> QED BY <4>1
    <3>2. CASE c.snap # None
      <4> HIDE DEF S
      <4>1. h > height(S)
        BY <3>2, <2>1 DEF S
      <4> QED BY <4>1, <3>2, <2>2, <2>3
    <3> QED BY <3>1, <3>2
  <2>5. b = upTo(c.tip, h) /\ h < height(c.tip) /\ h \in 0..height(c.tip)
    BY <2>4, SettledBelow
  <2>6. b \in Anchor /\ height(b) = h /\ IsBelow(b, c.tip)
    BY <2>2, <2>5, UpToOK, BelowUpTo
  <2> HIDE DEF b, S
  <2>7. b \in c.anchors /\ haveAllWrites(c, headsAt(c, b))
        /\ maybeCheckpoint(c) = prune(Taken(c, b), h - setting.margin)
    BY <2>1 DEF b
  <2>8. Follows(c, b)
    <3> SUFFICES ASSUME c.snap # None PROVE IsBelow(S, b)
      BY DEF Follows, S
    <3>1. height(S) <= height(b)
      BY <2>1, <2>2, <2>3, <2>6 DEF S
    <3> QED BY <3>1, <2>2, <2>3, <2>6, BelowOK
  <2>9. headsAt(c, b) = headsOf(b)
    BY <2>6, <2>7, <2>8, FollowsFloor, Rebuilt
  <2>10. Advances(b) => viewAt(c, b) = boardOf(b)
    BY <2>7, <2>8, <2>9, BoardIsWhole
  <2>11. Advances(b) => pruneBelow(c.seed, headsOf(b)) = headsOf(b)
    <3> SUFFICES ASSUME Advances(b) PROVE pruneBelow(c.seed, headsOf(b)) = headsOf(b)
      OBVIOUS
    <3>1. headsOf(b) \in Heads /\ c.seed \in Heads
      BY <2>6, HeadsTyped, StoreIs
    <3>2. \A w \in Writer : c.seed[w] <= headsOf(b)[w]
      <4>1. CASE c.snap = None
        BY <4>1, <3>1 DEF BaseOK, NoHeads, Heads
      <4>2. CASE c.snap # None
        <5>1. height(S) \in 0..height(b) /\ upTo(b, height(S)) = S
          BY <4>2, <2>3, <2>6, <2>8, BelowOK DEF Follows, S
        <5>2. Advances(S) /\ \A w \in Writer : headsOf(S)[w] <= headsOf(b)[w]
          BY <5>1, <2>6, AdvancesBelow
        <5> QED BY <4>2, <5>2 DEF BaseOK, S
      <4> QED BY <4>1, <4>2
    <3>3. ASSUME NEW w \in Writer PROVE Max({c.seed[w], headsOf(b)[w]}) = headsOf(b)[w]
      <4>1. c.seed[w] \in Nat /\ headsOf(b)[w] \in Nat /\ c.seed[w] <= headsOf(b)[w]
        BY <3>1, <3>2 DEF Heads
      <4>2. c.seed[w] \in Int /\ headsOf(b)[w] \in Int
        BY <4>1
      <4>3. Max({c.seed[w], headsOf(b)[w]}) =
              IF c.seed[w] >= headsOf(b)[w] THEN c.seed[w] ELSE headsOf(b)[w]
        BY <4>2, OfTwo
      <4> QED BY <4>1, <4>3
    <3>4. pruneBelow(c.seed, headsOf(b)) = [w \in Writer |-> headsOf(b)[w]]
      BY <3>3 DEF pruneBelow
    <3> QED BY <3>1, <3>4 DEF Heads
  <2> DEFINE d == Taken(c, b)
             e == prune(d, h - setting.margin)
  <2>12. /\ StoreOK(d, u) /\ d.anchors = c.anchors /\ d.tip = c.tip /\ d.floor = c.floor
         /\ d.floorHeads = c.floorHeads /\ d.pending = c.pending /\ d.snap = Snapped(c, b)
         /\ d.disk = Snapped(c, b) /\ d.seed = pruneBelow(c.seed, headsOf(b))
    BY <2>7, <2>9, TakenOK
  <2> HIDE DEF d
  <2>13. LineOK(d)
    BY <2>12 DEF LineOK, Low
  <2>14. h - setting.margin \in Int /\ h - setting.margin <= h /\ h - setting.margin < height(d.tip)
    BY <2>2, <2>5, <2>12, SettingIs
  <2>15. /\ LineOK(e) /\ e.anchors \subseteq d.anchors
         /\ \A a \in d.anchors : h - setting.margin <= height(a) => a \in e.anchors
         /\ e.tip = d.tip /\ e.snap = d.snap /\ e.disk = d.disk /\ e.seed = d.seed
    BY <2>12, <2>13, <2>14, LinePrune
  <2> HIDE DEF e
  <2>16. /\ e.snap.anchor = b /\ e.snap.heads = headsOf(b) /\ e.snap.state = viewAt(c, b)
         /\ e.snap \in Snapshot \cup {None} /\ e.snap = Snapped(c, b)
    BY <2>9, <2>12, <2>15 DEF Snapped, StoreOK, SnapOK
  <2>17. e.snap # None
    <3>1. viewAt(c, b) \in Board /\ headsAt(c, b) \in Heads
      BY <2>7, ViewOK, HeadsAtOK DEF Under
    <3>2. Snapped(c, b) \in Snapshot
      BY <3>1, <2>6 DEF Snapped, Snapshot
    <3> QED BY <3>2, <2>16, NoneAssumption
  <2>18. b \in e.anchors
    BY <2>6, <2>7, <2>12, <2>14, <2>15
  <2>19. BaseOK(e)
    BY <2>5, <2>6, <2>10, <2>11, <2>12, <2>15, <2>16, <2>17, <2>18 DEF BaseOK
  <2> QED BY <2>7, <2>12, <2>15, <2>19 DEF e, d
<1> QED BY <1>1, <1>2

-----------------------------------------------------------------------------
(* Steps of nodes that do not join.                                        *)

LEMMA LineOnTip ==
  ASSUME setting \in Settings, NEW u \in Heads, NEW c, StoreOK(c, u), LineOK(c), BaseOK(c), NEW before
  PROVE  /\ LineOK(onTip(c, before)) /\ BaseOK(onTip(c, before))
         /\ onTip(c, before).anchors \subseteq c.anchors
<1> DEFINE d == maybeCheckpoint(c)
<1>1. LineOK(d) /\ BaseOK(d) /\ d.anchors \subseteq c.anchors
  BY LineCheckpoint
<1>2. onTip(c, before) = c \/ onTip(c, before) = tryPendingSnapshot(d)
  BY DEF onTip
<1> HIDE DEF d
<1>3. tryPendingSnapshot(d) = d
  BY <1>1 DEF tryPendingSnapshot, LineOK
<1> QED BY <1>1, <1>2, <1>3

(* What has changed is not of the line.                                    *)
LEMMA SameLine ==
  ASSUME NEW c, LineOK(c), BaseOK(c), NEW d,
         d.anchors = c.anchors, d.tip = c.tip, d.pending = c.pending, d.floor = c.floor,
         d.floorHeads = c.floorHeads, d.snap = c.snap, d.disk = c.disk, d.seed = c.seed
  PROVE  LineOK(d) /\ BaseOK(d)
<1>1. Low(d) = Low(c)
  BY DEF Low
<1> QED BY <1>1 DEF LineOK, BaseOK

LEMMA LinesInit ==
  Init => LinesInv
<1> SUFFICES ASSUME Init PROVE LinesInv
  OBVIOUS
<1> DEFINE c == AtGenesis
<1>1. /\ c.anchors = {<<>>} /\ c.tip = <<>> /\ c.floor = None /\ c.seed = NoHeads
      /\ c.snap = None /\ c.disk = None /\ c.pending = None
  BY DEF AtGenesis
<1>2. <<>> \in Anchor /\ height(<<>>) = 0 /\ <<>> # None
  BY Genesis, NoneAssumption
<1>3. Consistent(<<>>) /\ Agree(<<>>, <<>>)
  BY <1>2 DEF Consistent, Agree
<1>4. \A n \in Node : node[n] = c
  BY DEF Init
<1> HIDE DEF c
<1>5. Low(c) = 0
  BY <1>1 DEF Low
<1>6. LineOK(c) /\ BaseOK(c)
  BY <1>1, <1>2, <1>3, <1>5 DEF LineOK, BaseOK
<1>7. \A n, m \in Node : \A a \in node[n].anchors : \A b \in node[m].anchors : Agree(a, b)
  BY <1>1, <1>3, <1>4
<1> QED BY <1>4, <1>6, <1>7 DEF LinesInv

LEMMA LinesMove ==
  ASSUME RootsInv, LinesInv, NEW n \in Node, NEW d, node' = [node EXCEPT ![n] = d],
         LineOK(d), BaseOK(d),
         \A a \in d.anchors : \A m \in Node : \A b \in node[m].anchors : Agree(a, b)
  PROVE  LinesInv'
<1>1. \A m \in Node : node'[m] = IF m = n THEN d ELSE node[m]
  BY DEF RootsInv
<1>2. \A m \in Node : LineOK(node'[m]) /\ BaseOK(node'[m])
  BY <1>1 DEF LinesInv
<1>3. \A a, b \in d.anchors : Agree(a, b)
  BY DEF LineOK
<1>4. \A m, k \in Node : \A a \in node[m].anchors : \A b \in node[k].anchors : Agree(a, b)
  BY DEF LinesInv
<1>5. \A m \in Node : \A b \in node[m].anchors : \A a \in d.anchors : Agree(b, a)
  BY AgreeSelf
<1>6. ASSUME NEW m \in Node, NEW k \in Node, NEW a \in node'[m].anchors, NEW b \in node'[k].anchors
      PROVE  Agree(a, b)
  <2>1. CASE m = n /\ k = n
    BY <2>1, <1>1, <1>3
  <2>2. CASE m = n /\ k # n
    BY <2>2, <1>1
  <2>3. CASE m # n /\ k = n
    BY <2>3, <1>1, <1>5
  <2>4. CASE m # n /\ k # n
    BY <2>4, <1>1, <1>4
  <2> QED BY <2>1, <2>2, <2>3, <2>4
<1> QED BY <1>2, <1>6 DEF LinesInv

LEMMA LinesIs ==
  ASSUME RootsInv, LinesInv, NEW n \in Node
  PROVE  /\ StoreOK(node[n], signed) /\ signed \in Heads /\ setting \in Settings
         /\ LineOK(node[n]) /\ BaseOK(node[n]) /\ node[n].anchors \subseteq Anchor
         /\ \A a \in node[n].anchors : \A m \in Node : \A b \in node[m].anchors : Agree(a, b)
<1>1. StoreOK(node[n], signed) /\ signed \in Heads /\ setting \in Settings
  BY DEF RootsInv
<1> QED BY <1>1, StoreIs DEF LinesInv

(* Writes that come do not change the line.                                *)
LEMMA HaveKeepsLines ==
  ASSUME RootsInv, LinesInv, NEW n \in Node, NEW h, node' = [node EXCEPT ![n].have = h]
  PROVE  LinesInv'
<1> DEFINE c == node[n]
           d == [c EXCEPT !.have = h]
<1>1. c \in Store /\ LineOK(c) /\ BaseOK(c)
      /\ \A a \in c.anchors : \A m \in Node : \A b \in node[m].anchors : Agree(a, b)
  BY NodeIs, LinesIs
<1>2. node' = [node EXCEPT ![n] = d]
  BY DEF RootsInv
<1>3. /\ d.anchors = c.anchors /\ d.tip = c.tip /\ d.floor = c.floor
      /\ d.floorHeads = c.floorHeads /\ d.seed = c.seed
      /\ d.snap = c.snap /\ d.disk = c.disk /\ d.pending = c.pending
  BY <1>1 DEF Store
<1> HIDE DEF d
<1>4. LineOK(d) /\ BaseOK(d)
  BY <1>1, <1>3, SameLine
<1> QED BY <1>1, <1>2, <1>3, <1>4, LinesMove

(* The anchor of a producer that SideBranch lets through.                  *)
LEMMA SideAgrees ==
  ASSUME RootsInv, LinesInv, NEW a \in Anchor, SideBranch(a), NEW m \in Node, NEW b \in node[m].anchors
  PROVE  Agree(a, b)
<1> DEFINE t == node[m].tip
           least == Min({height(a), height(t)})
           shared == Max({least - 1, 0})
<1>1. /\ t # None /\ t \in Anchor /\ height(t) \in Nat /\ t \in node[m].anchors
      /\ b \in Anchor /\ height(b) \in Nat /\ height(b) <= height(t) /\ Agree(b, t)
  <2>1. StoreOK(node[m], signed) /\ LineOK(node[m]) /\ node[m].anchors \subseteq Anchor
    BY LinesIs
  <2>2. t \in Anchor /\ height(t) \in Nat /\ t \in node[m].anchors
    BY <2>1, LowOK
  <2> QED BY <2>1, <2>2, Ends DEF LineOK
<1>2. upTo(a, shared) = upTo(t, shared)
  BY <1>1 DEF SideBranch
<1>3. height(a) \in Nat
  BY Ends
<1> HIDE DEF t
<1>4. /\ least = (IF height(a) <= height(t) THEN height(a) ELSE height(t))
      /\ shared = (IF least - 1 >= 0 THEN least - 1 ELSE 0)
  <2>1. height(a) \in Int /\ height(t) \in Int
    BY <1>1, <1>3
  <2>2. least = (IF height(a) <= height(t) THEN height(a) ELSE height(t))
    BY <2>1, OfTwo
  <2> HIDE DEF least
  <2>3. least - 1 \in Int /\ 0 \in Int
    BY <2>1, <2>2
  <2> QED BY <2>2, <2>3, OfTwo
<1> HIDE DEF least, shared
<1>5. ASSUME NEW i \in Nat, i < height(a), i < height(b) PROVE upTo(a, i) = upTo(b, i)
  <2>1. shared \in 0..height(a) /\ shared \in 0..height(t) /\ i \in 0..shared /\ i < height(t)
    BY <1>1, <1>3, <1>4, <1>5
  <2>2. upTo(upTo(a, shared), i) = upTo(a, i) /\ upTo(upTo(t, shared), i) = upTo(t, i)
    BY <1>1, <2>1, UpToOK
  <2>3. upTo(b, i) = upTo(t, i)
    BY <1>1, <1>5, <2>1 DEF Agree
  <2> QED BY <1>2, <2>2, <2>3
<1> QED BY <1>5 DEF Agree

LEMMA MintKeepsLines ==
  ASSUME RootsInv, LinesInv, NEW n \in Node, Mint(n)
  PROVE  LinesInv'
<1> DEFINE c == node[n]
           a == draft[n]
           d == add(c, a)
           e == onTip(d, c.tip)
<1>1. a # None /\ SideBranch(a) /\ node' = [node EXCEPT ![n] = e]
  BY DEF Mint, RootsInv
<1>2. Sound(a, signed) /\ a \in Anchor /\ c.tip # None
  BY <1>1 DEF RootsInv, Sound
<1>3. /\ StoreOK(c, signed) /\ LineOK(c) /\ BaseOK(c) /\ signed \in Heads /\ setting \in Settings
      /\ \A x \in c.anchors : \A m \in Node : \A b \in node[m].anchors : Agree(x, b)
  BY LinesIs
<1>4. \A m \in Node : \A b \in node[m].anchors : Agree(a, b)
  BY <1>1, <1>2, SideAgrees
<1> HIDE DEF a
<1>5. StoreOK(d, signed)
  BY <1>2, <1>3, AddOK
<1>6. LineOK(d) /\ BaseOK(d) /\ d.anchors \subseteq c.anchors \cup {a}
  BY <1>2, <1>3, <1>4, LineAdd
<1> HIDE DEF d
<1>7. LineOK(e) /\ BaseOK(e) /\ e.anchors \subseteq d.anchors
  BY <1>3, <1>5, <1>6, LineOnTip
<1> HIDE DEF e
<1>8. \A x \in e.anchors : \A m \in Node : \A b \in node[m].anchors : Agree(x, b)
  BY <1>3, <1>4, <1>6, <1>7
<1> QED BY <1>1, <1>7, <1>8, LinesMove

LEMMA HearKeepsLines ==
  ASSUME RootsInv, LinesInv, NEW n \in Node, NEW m \in Node, Hear(n, m)
  PROVE  LinesInv'
<1> DEFINE c == node[n]
           T == UNION {node[k].anchors : k \in Node}
<1>1. PICK a \in hearable(n, m) : node' = [node EXCEPT ![n] = hearing(n, m, a)]
  BY DEF Hear
<1> DEFINE from == Min(Walk(node[m], node[m].tip))
           d == addChain(c, a, from)
           e == hearing(n, m, a)
<1>2. Sound(a, signed) /\ a \in node[m].anchors
  BY HearableOK
<1>3. /\ StoreOK(c, signed) /\ LineOK(c) /\ BaseOK(c) /\ signed \in Heads /\ setting \in Settings
      /\ \A x \in c.anchors : \A k \in Node : \A b \in node[k].anchors : Agree(x, b)
  BY LinesIs
<1>4. a \in T /\ c.anchors \subseteq T /\ T \subseteq Anchor /\ a \in Anchor
  <2>1. \A k \in Node : node[k].anchors \subseteq Anchor
    BY LinesIs
  <2> QED BY <2>1, <1>2
<1>5. \A x, y \in T : Agree(x, y)
  BY DEF LinesInv
<1>6. \A k \in Node : node[k].anchors \subseteq T
  OBVIOUS
<1> HIDE DEF T, c
<1>7. /\ StoreOK(d, signed) /\ LineOK(d) /\ BaseOK(d)
      /\ d.anchors \subseteq c.anchors \cup {upTo(a, h) : h \in 0..height(a)}
  BY <1>2, <1>3, <1>4, <1>5, LineAddChain
<1>8. e = c \/ e = onTip(d, c.tip)
  <2>1. ~canAdopt(c, a, from)
    BY <1>3 DEF canAdopt, LineOK
  <2>2. e = ingestAnchors(c, a, from)
    BY DEF hearing, c
  <2> HIDE DEF e, from
  <2>3. ingestAnchors(c, a, from) = c \/ ingestAnchors(c, a, from) = onTip(addChain(c, a, from), c.tip)
    BY <2>1 DEF ingestAnchors
  <2> QED BY <2>2, <2>3
<1> HIDE DEF d, e
<1>9. /\ LineOK(e) /\ BaseOK(e)
      /\ e.anchors \subseteq c.anchors \cup {upTo(a, h) : h \in 0..height(a)}
  <2>1. CASE e = c
    BY <2>1, <1>3
  <2>2. CASE e = onTip(d, c.tip)
    <3>1. LineOK(e) /\ BaseOK(e) /\ e.anchors \subseteq d.anchors
      BY <2>2, <1>3, <1>7, LineOnTip
    <3> QED BY <3>1, <1>7
  <2> QED BY <2>1, <2>2, <1>8
<1>10. ASSUME NEW x \in e.anchors, NEW k \in Node, NEW b \in node[k].anchors PROVE Agree(x, b)
  <2>1. CASE x \in c.anchors
    BY <2>1, <1>3
  <2>2. CASE x \in {upTo(a, h) : h \in 0..height(a)}
    <3>1. PICK h \in 0..height(a) : x = upTo(a, h)
      BY <2>2
    <3>2. b \in T
      BY <1>6
    <3>3. Agree(a, b) /\ b \in Anchor
      BY <3>2, <1>4, <1>5
    <3> QED BY <3>1, <3>3, <1>4, AgreeBelow
  <2> QED BY <2>1, <2>2, <1>9
<1>11. node' = [node EXCEPT ![n] = e]
  BY <1>1 DEF e
<1> QED BY <1>9, <1>10, <1>11, LinesMove

LEMMA LinesNext ==
  ASSUME RootsInv, LinesInv, ~setting.joins, [Next]_vars
  PROVE  LinesInv'
<1>1. ASSUME NEW w \in Writer, Post(w) PROVE LinesInv'
  <2> DEFINE n == home[w]
  <2>1. n \in Node
    BY StateRootsAssumption
  <2>2. node' = [node EXCEPT ![n] = [node[n] EXCEPT !.have = [node[n].have EXCEPT ![w] = @ + 1]]]
    BY <1>1, <2>1 DEF Post, RootsInv, Store
  <2> HIDE DEF n
  <2>3. PICK h : node' = [node EXCEPT ![n] = [node[n] EXCEPT !.have = h]]
    BY <2>2
  <2>4. node' = [node EXCEPT ![n].have = h]
    BY <2>1, <2>3
  <2> QED BY <2>1, <2>4, HaveKeepsLines
<1>2. ASSUME NEW n \in Node, NEW w \in Writer, Pull(n, w) PROVE LinesInv'
  <2>1. node' = [node EXCEPT ![n] = [node[n] EXCEPT !.have = [node[n].have EXCEPT ![w] = node[n].have[w] + 1]]]
    BY <1>2 DEF Pull, RootsInv, Store
  <2>2. PICK h : node' = [node EXCEPT ![n] = [node[n] EXCEPT !.have = h]]
    BY <2>1
  <2>3. node' = [node EXCEPT ![n].have = h]
    BY <2>2
  <2> QED BY <2>3, HaveKeepsLines
<1>3. ASSUME NEW n \in Node, Start(n) PROVE LinesInv'
  BY <1>3 DEF Start, LinesInv
<1>4. ASSUME NEW n \in Node, Mint(n) PROVE LinesInv'
  BY <1>4, MintKeepsLines
<1>5. ASSUME NEW n \in Node, NoProof(n) PROVE LinesInv'
  BY <1>5 DEF NoProof, LinesInv
<1>6. ASSUME NEW n \in Node, Restart(n) PROVE LinesInv'
  BY <1>6 DEF Restart
<1>7. ASSUME NEW n \in Node, RootAtGenesis(n) PROVE LinesInv'
  BY <1>7 DEF RootAtGenesis, LinesInv, LineOK
<1>8. ASSUME NEW n \in Node, NEW m \in Node, Fetch(n, m) PROVE LinesInv'
  BY <1>8 DEF Fetch
<1>9. ASSUME NEW n \in Node, NEW m \in Node, Hear(n, m) PROVE LinesInv'
  BY <1>9, HearKeepsLines
<1>10. ASSUME UNCHANGED vars PROVE LinesInv'
  BY <1>10 DEF vars, LinesInv
<1> QED BY <1>1, <1>2, <1>3, <1>4, <1>5, <1>6, <1>7, <1>8, <1>9, <1>10 DEF Next

SettingStays == setting' = setting

LEMMA SettingNext ==
  ASSUME [Next]_vars
  PROVE  SettingStays
BY DEF Next, vars, SettingStays, Post, Pull, Start, Mint, NoProof, Restart, RootAtGenesis, Fetch, Hear

(* Where nodes do not join, their anchors agree up to the last one, go     *)
(* down to the floor without a gap, certify what their deltas say, and     *)
(* checkpoints are settled and right (ingest, prune, maybeCheckpoint).     *)
AloneInv == RootsInv /\ (~setting.joins => LinesInv)

THEOREM LinesSafe == Spec => []AloneInv
<1>1. Init => AloneInv
  BY RootsInit, LinesInit DEF AloneInv
<1>2. AloneInv /\ [Next]_vars => AloneInv'
  <2> SUFFICES ASSUME AloneInv, [Next]_vars PROVE AloneInv'
    OBVIOUS
  <2>1. RootsInv /\ RootsInv'
    BY RootsNext DEF AloneInv
  <2>2. setting' = setting
    BY SettingNext DEF SettingStays
  <2>3. ~setting.joins => LinesInv'
    BY LinesNext DEF AloneInv
  <2> QED BY <2>1, <2>2, <2>3 DEF AloneInv
<1> QED BY <1>1, <1>2, PTL DEF Spec

-----------------------------------------------------------------------------
(* What follows where nodes do not join.                                   *)

(* The heads of every anchor that stands on a node's floor can be rebuilt  *)
(* from deltas, whatever has been pruned below it (headsAt).  Where nodes  *)
(* join, they cannot: run heads_lost.                                      *)
THEOREM HeadsStayKnown == Spec => [](~setting.joins => HeadsRebuilt)
<1>1. ASSUME AloneInv, ~setting.joins PROVE HeadsRebuilt
  <2> SUFFICES ASSUME NEW n \in Node, NEW a \in node[n].anchors,
                      node[n].floor = None \/ IsBelow(node[n].floor, a)
               PROVE  headsAt(node[n], a) = headsOf(a)
    BY DEF HeadsRebuilt
  <2>1. StoreOK(node[n], signed) /\ signed \in Heads /\ LineOK(node[n])
    BY <1>1, LinesIs DEF AloneInv
  <2> QED BY <2>1, Rebuilt DEF OnFloor
<1> QED BY <1>1, LinesSafe, PTL

(* Nodes that have the writes an anchor certifies fold one board for it,   *)
(* from whatever checkpoint, and after whatever pruning, as long as heads  *)
(* have only advanced (orderingFor, viewAtAnchor).                         *)
THEOREM OneBoard == Spec => [](~setting.joins => BoardsAgree)
<1>1. ASSUME AloneInv, ~setting.joins PROVE BoardsAgree
  <2> SUFFICES ASSUME NEW n \in Node, NEW a \in node[n].anchors,
                      Follows(node[n], a), Advances(a), haveAllWrites(node[n], headsOf(a))
               PROVE  viewAt(node[n], a) = boardOf(a)
    BY DEF BoardsAgree
  <2>1. StoreOK(node[n], signed) /\ signed \in Heads /\ LineOK(node[n]) /\ BaseOK(node[n])
    BY <1>1, LinesIs DEF AloneInv
  <2> QED BY <2>1, BoardIsWhole
<1> QED BY <1>1, LinesSafe, PTL

(* The checkpoints that nodes keep, serve and fold from are what their     *)
(* anchors commit to (maybeCheckpoint).                                    *)
THEOREM CheckpointsRight == Spec => [](~setting.joins => CheckpointsCommitted)
<1>1. ASSUME AloneInv, ~setting.joins PROVE CheckpointsCommitted
  <2> SUFFICES ASSUME NEW n \in Node PROVE Committed(node[n].snap) /\ Committed(node[n].disk)
    BY DEF CheckpointsCommitted
  <2>1. BaseOK(node[n])
    BY <1>1, LinesIs DEF AloneInv
  <2> QED BY <2>1 DEF BaseOK, Committed
<1> QED BY <1>1, LinesSafe, PTL

(* An anchor whose roots are all right is accepted wherever the one below  *)
(* it is held on the settled line: nobody is shut out for having pruned    *)
(* (add, verifyAnchor, checkAppRoot).                                      *)
THEOREM NobodyShutOut == Spec => [](~setting.joins => RightIsAccepted)
<1>1. ASSUME AloneInv, ~setting.joins PROVE RightIsAccepted
  <2> SUFFICES ASSUME NEW n \in Node, NEW m \in Node, NEW a \in node[m].anchors, a # <<>>,
                      prev(a) \in node[n].anchors,
                      node[n].floor = None \/ IsBelow(node[n].floor, prev(a)),
                      Follows(node[n], prev(a)), Right(a)
               PROVE  a \in add(node[n], a).anchors
    BY DEF RightIsAccepted
  <2> DEFINE c == node[n]
             p == prev(a)
  <2>1. /\ StoreOK(c, signed) /\ signed \in Heads /\ LineOK(c) /\ BaseOK(c) /\ c \in Store
        /\ LineOK(node[m]) /\ a \in Anchor /\ p \in c.anchors
    BY <1>1, LinesIs DEF AloneInv, StoreOK
  <2>2. /\ height(a) \in Nat \ {0} /\ top(a) = a[height(a)]
        /\ height(a) - 1 \in 0..height(a) /\ height(a) \in 1..height(a) /\ DOMAIN a = 1..height(a)
    BY <2>1, PrevOK, Ends
  <2>3. headsAt(c, p) = headsOf(p)
    BY <2>1, Rebuilt DEF OnFloor
  <2>4. applyHeadsDelta(headsOf(p), top(a).headsDelta) = top(a).stateRoot
    <3>1. Consistent(a)
      BY <2>1 DEF LineOK
    <3> QED BY <3>1, <2>2 DEF Consistent, prev
  <2>5. top(a).appRoot = boardOf(p)
    BY <2>2 DEF Right, prev
  <2>6. Advances(p)
    <3>1. Advances(a)
      BY DEF Right
    <3> QED BY <3>1, <2>1, <2>2, AdvancesBelow DEF prev
  <2>7. haveAllWrites(c, headsOf(p)) => viewAt(c, p) = boardOf(p)
    BY <2>1, <2>6, BoardIsWhole
  <2>8. verifyAnchor(c, a)
    BY <2>3, <2>4, <2>5, <2>7 DEF verifyAnchor, checkAppRoot
  <2> DEFINE d == [c EXCEPT !.anchors = @ \cup {a}, !.tip = IF heavier(a, @) THEN a ELSE @]
  <2>9. a \in c.anchors \/ add(c, a) = d
    BY <2>1, <2>8 DEF add
  <2>10. a \in d.anchors
    BY <2>1 DEF Store
  <2>11. a \in c.anchors => add(c, a) = c
    BY DEF add
  <2> HIDE DEF d, c
  <2> QED BY <2>9, <2>10, <2>11 DEF c
<1> QED BY <1>1, LinesSafe, PTL

=============================================================================
