-------------------------- MODULE AnchorChain_proofs ------------------------
(***************************************************************************)
(* Theorems of the anchor chains, for any number of nodes, any depths,     *)
(* windows and schedules: a node stands on what it has locked, and that on *)
(* what it has settled, which it never gives up while it runs; pruning     *)
(* changes none of its decisions if the margin covers what they look back  *)
(* on, and then two nodes that judge a fork alike do not swap branches.    *)
(***************************************************************************)
EXTENDS AnchorChain, Sums_proofs, SequenceTheorems, WellFoundedInduction, TLAPS

(* What a node holds and has chosen is of one piece.                       *)
KeptOK(c) ==
  /\ c \in [anchors : SUBSET Anchor, tip : Anchor, locked : Anchor, settled : Anchor,
            floor : Nat, conflict : BOOLEAN]
  /\ c.tip \in c.anchors
  /\ descendsFrom(c.anchors, c.tip, c.locked)
  /\ descendsFrom(c.anchors, c.locked, c.settled)

(* The inductive invariant.                                                *)
ChainInv ==
  /\ limit \in [height : Nat, restarts : Nat] /\ restarts \in 0..limit.restarts
  /\ chain = [n \in Node |-> chain[n]] /\ \A n \in Node : KeptOK(chain[n])
  /\ draft \in [Node -> Anchor \cup {None}]

-----------------------------------------------------------------------------
(* The least and the greatest of a set.                                    *)

(* A set of naturals has a least element, ...                             *)
LEMMA MinExists ==
  ASSUME NEW S, S \subseteq Nat, S # {}
  PROVE  Min(S) \in S /\ \A x \in S : Min(S) <= x
<1> DEFINE R == {ss \in Nat \X Nat : ss[1] < ss[2]}
<1>1. IsWellFoundedOn(R, Nat)
  BY NatLessThanWellFounded DEF OpToRel
<1>2. \A x, y \in Nat : y < x => <<y, x>> \in R
  OBVIOUS
<1> HIDE DEF R
<1>3. PICK x \in S : \A y \in S : ~(<<y, x>> \in R)
  BY <1>1, WFMin
<1>4. \A y \in S : x <= y
  <2> SUFFICES ASSUME NEW y \in S PROVE x <= y
    OBVIOUS
  <2>1. x \in Nat /\ y \in Nat /\ ~(y < x)
    BY <1>2, <1>3
  <2> QED BY <2>1
<1> QED BY <1>4 DEF Min

(* ... and a greatest one if it is bounded.                                *)
LEMMA MaxExists ==
  ASSUME NEW n \in Nat, NEW S, S \subseteq 0..n, S # {}
  PROVE  Max(S) \in S /\ \A x \in S : x <= Max(S)
<1> DEFINE T == {n - x : x \in S}
<1>1. T \subseteq Nat /\ T # {}
  <2>1. \A x \in S : n - x \in Nat
    OBVIOUS
  <2> QED BY <2>1
<1>2. Min(T) \in T /\ \A y \in T : Min(T) <= y
  BY <1>1, MinExists
<1>3. PICK x \in S : Min(T) = n - x
  BY <1>2
<1>4. \A y \in S : y <= x
  BY <1>2, <1>3
<1> QED BY <1>4 DEF Max

(* The greater of two integers.                                            *)
LEMMA MaxOfTwo ==
  ASSUME NEW i \in Int, NEW j \in Int
  PROVE  Max({i, j}) = IF i >= j THEN i ELSE j
<1>1. CASE i >= j
  <2>1. \A x \in {i, j} : (\A y \in {i, j} : x >= y) <=> x = i
    BY <1>1
  <2> QED BY <2>1, <1>1 DEF Max
<1>2. CASE ~(i >= j)
  <2>1. \A x \in {i, j} : (\A y \in {i, j} : x >= y) <=> x = j
    BY <1>2
  <2> QED BY <2>1, <1>2 DEF Max
<1> QED BY <1>1, <1>2

(* The lesser of two integers.                                             *)
LEMMA MinOfTwo ==
  ASSUME NEW i \in Int, NEW j \in Int
  PROVE  Min({i, j}) \in {i, j}
<1>1. \E x \in {i, j} : \A y \in {i, j} : x <= y
  <2>1. CASE i <= j
    BY <2>1
  <2>2. CASE j <= i
    BY <2>2
  <2> QED BY <2>1, <2>2
<1> QED BY <1>1 DEF Min

(* The least of three integers.                                            *)
LEMMA MinOfThree ==
  ASSUME NEW i \in Int, NEW j \in Int, NEW k \in Int
  PROVE  /\ Min({i, j, k}) \in {i, j, k}
         /\ Min({i, j, k}) <= i /\ Min({i, j, k}) <= j /\ Min({i, j, k}) <= k
<1>1. \E x \in {i, j, k} : \A y \in {i, j, k} : x <= y
  <2>1. CASE i <= j /\ i <= k
    BY <2>1
  <2>2. CASE j <= i /\ j <= k
    BY <2>2
  <2>3. CASE k <= i /\ k <= j
    BY <2>3
  <2> QED BY <2>1, <2>2, <2>3
<1> QED BY <1>1 DEF Min

-----------------------------------------------------------------------------
(* Anchors and their ancestors.                                            *)

(* An ancestor of an anchor has the anchor's history below it.             *)
LEMMA AncestorOK ==
  ASSUME NEW a \in Anchor, NEW h \in 0..height(a)
  PROVE  /\ ancestor(a, h) \in Anchor /\ height(ancestor(a, h)) = h
         /\ \A i \in 1..h : ancestor(a, h)[i] = a[i]
         /\ \A i \in 0..h : ancestor(ancestor(a, h), i) = ancestor(a, i)
<1>1. /\ ancestor(a, h) \in Anchor /\ height(ancestor(a, h)) = h
      /\ \A i \in 1..h : ancestor(a, h)[i] = a[i]
  BY DEF ancestor, height, Anchor
<1>2. ASSUME NEW i \in 0..h PROVE ancestor(ancestor(a, h), i) = ancestor(a, i)
  <2> DEFINE b == ancestor(a, h)
  <2>1. i \in 0..height(b) /\ b \in Anchor /\ i \in 0..height(a)
    BY <1>1 DEF height, Anchor
  <2> HIDE DEF b
  <2>2. /\ ancestor(b, i) \in Seq(Link) /\ Len(ancestor(b, i)) = i
        /\ \A j \in 1..i : ancestor(b, i)[j] = b[j]
    BY <2>1 DEF ancestor, height, Anchor
  <2>3. /\ ancestor(a, i) \in Seq(Link) /\ Len(ancestor(a, i)) = i
        /\ \A j \in 1..i : ancestor(a, i)[j] = a[j]
    BY <2>1 DEF ancestor, height, Anchor
  <2>4. \A j \in 1..i : b[j] = a[j]
    BY <1>1 DEF b
  <2>5. ancestor(b, i) = ancestor(a, i)
    BY <2>2, <2>3, <2>4, SeqEqual
  <2> QED BY <2>5 DEF b
<1> QED BY <1>1, <1>2

(* An anchor is its own ancestor at its height, block 0 that at height 0.  *)
LEMMA AncestorEnds ==
  /\ <<>> \in Anchor /\ height(<<>>) = 0
  /\ \A a \in Anchor : /\ height(a) \in Nat /\ ancestor(a, height(a)) = a
                       /\ ancestor(a, 0) = <<>>
<1>1. <<>> \in Anchor /\ height(<<>>) = 0
  BY EmptySeq DEF Anchor, height
<1>2. ASSUME NEW a \in Anchor
      PROVE  height(a) \in Nat /\ ancestor(a, height(a)) = a /\ ancestor(a, 0) = <<>>
  <2>1. height(a) \in Nat
    BY DEF Anchor, height
  <2>2. ancestor(a, height(a)) = a
    BY SubSeqFull DEF Anchor, height, ancestor
  <2>3. ancestor(a, 0) = <<>>
    BY SubSeqEmpty DEF ancestor
  <2> QED BY <2>1, <2>2, <2>3
<1> QED BY <1>1, <1>2

(* A walk passes all heights from where it ends, through held anchors.     *)
LEMMA WalkOK ==
  ASSUME NEW H, NEW a \in Anchor
  PROVE  /\ Walk(H, a) \subseteq 0..height(a)
         /\ \A h \in Walk(H, a) : \A i \in h..height(a) : i \in Walk(H, a) /\ ancestor(a, i) \in H
         /\ a \in H => height(a) \in Walk(H, a)
         /\ \A h \in 0..height(a) : (\A i \in h..height(a) : ancestor(a, i) \in H) => h \in Walk(H, a)
<1>1. height(a) \in Nat /\ ancestor(a, height(a)) = a
  BY AncestorEnds
<1>2. ASSUME NEW h \in Walk(H, a), NEW i \in h..height(a)
      PROVE  i \in Walk(H, a) /\ ancestor(a, i) \in H
  <2>1. h \in 0..height(a) /\ \A j \in h..height(a) : ancestor(a, j) \in H
    BY DEF Walk
  <2>2. i \in 0..height(a) /\ \A j \in i..height(a) : j \in h..height(a)
    BY <2>1, <1>1
  <2> QED BY <2>1, <2>2 DEF Walk
<1>3. ASSUME a \in H PROVE height(a) \in Walk(H, a)
  <2>1. \A i \in height(a)..height(a) : i = height(a)
    BY <1>1
  <2>2. height(a) \in 0..height(a)
    BY <1>1
  <2> QED BY <2>1, <2>2, <1>1, <1>3 DEF Walk
<1> QED BY <1>2, <1>3 DEF Walk

(* What is below an ancestor is walked alike from the anchor.              *)
LEMMA WalkBelow ==
  ASSUME NEW H, NEW a \in Anchor, NEW h \in Walk(H, a)
  PROVE  Walk(H, ancestor(a, h)) = {i \in Walk(H, a) : i <= h}
<1> DEFINE b == ancestor(a, h)
<1>1. height(a) \in Nat /\ h \in 0..height(a)
  BY AncestorEnds, WalkOK
<1>2. b \in Anchor /\ height(b) = h /\ \A i \in 0..h : ancestor(b, i) = ancestor(a, i)
  BY <1>1, AncestorOK
<1> HIDE DEF b
<1>3. ASSUME NEW i \in Walk(H, b) PROVE i \in Walk(H, a) /\ i <= h
  <2>1. i \in 0..h
    BY <1>2, WalkOK
  <2>2. ASSUME NEW j \in i..height(a) PROVE ancestor(a, j) \in H
    <3>1. CASE j <= h
      <4>1. j \in i..h /\ j \in 0..h
        BY <3>1, <2>1, <1>1
      <4> QED BY <4>1, <1>2, WalkOK
    <3>2. CASE ~(j <= h)
      <4>1. j \in h..height(a)
        BY <3>2, <2>1, <1>1
      <4> QED BY <4>1, WalkOK
    <3> QED BY <3>1, <3>2
  <2>3. i \in 0..height(a)
    BY <2>1, <1>1
  <2> QED BY <2>1, <2>2, <2>3, WalkOK
<1>4. ASSUME NEW i \in Walk(H, a), i <= h PROVE i \in Walk(H, b)
  <2>1. i \in 0..h
    BY <1>4, <1>1, WalkOK
  <2>2. ASSUME NEW j \in i..h PROVE ancestor(b, j) \in H
    <3>1. j \in 0..h /\ j \in i..height(a)
      BY <2>1, <1>1
    <3> QED BY <3>1, <1>2, WalkOK
  <2> QED BY <2>1, <2>2, <1>2, WalkOK
<1> QED BY <1>3, <1>4 DEF b

(* What an anchor descends from is an ancestor of it that is held.         *)
LEMMA DescendsOK ==
  ASSUME NEW H, NEW a \in Anchor, NEW x, descendsFrom(H, a, x)
  PROVE  /\ x \in Anchor /\ x \in H /\ height(x) \in Walk(H, a) /\ ancestor(a, height(x)) = x
         /\ height(x) \in Nat /\ height(x) <= height(a)
<1>1. height(x) \in Walk(H, a) /\ ancestor(a, height(x)) = x
  BY DEF descendsFrom
<1>2. height(x) \in 0..height(a) /\ height(a) \in Nat
  BY <1>1, WalkOK, AncestorEnds
<1>3. x \in H
  <2>1. height(x) \in height(x)..height(a)
    BY <1>2
  <2> QED BY <2>1, <1>1, WalkOK
<1> QED BY <1>1, <1>2, <1>3, AncestorOK

(* Any held ancestor without a gap is one to descend from.                 *)
LEMMA WalkDescends ==
  ASSUME NEW H, NEW a \in Anchor, NEW h \in Walk(H, a)
  PROVE  descendsFrom(H, a, ancestor(a, h)) /\ height(ancestor(a, h)) = h
<1>1. h \in 0..height(a)
  BY WalkOK
<1>2. height(ancestor(a, h)) = h
  BY <1>1, AncestorOK
<1> QED BY <1>2 DEF descendsFrom

(* Descent is transitive, ...                                              *)
LEMMA DescendsThrough ==
  ASSUME NEW H, NEW a \in Anchor, NEW x, descendsFrom(H, a, x), NEW y, descendsFrom(H, x, y)
  PROVE  descendsFrom(H, a, y)
<1>1. /\ x \in Anchor /\ height(x) \in Walk(H, a) /\ ancestor(a, height(x)) = x
  BY DescendsOK
<1>2. height(y) \in Walk(H, x) /\ ancestor(x, height(y)) = y
  BY <1>1, DescendsOK
<1>3. height(y) \in Walk(H, a)
  BY <1>1, <1>2, WalkBelow
<1>4. height(y) \in 0..height(x) /\ height(x) \in 0..height(a)
  BY <1>1, <1>2, WalkOK
<1>5. ancestor(a, height(y)) = y
  BY <1>1, <1>2, <1>4, AncestorOK
<1> QED BY <1>3, <1>5 DEF descendsFrom

(* ... and of two that an anchor descends from the higher descends from    *)
(* the lower one.                                                          *)
LEMMA DescendsBetween ==
  ASSUME NEW H, NEW a \in Anchor, NEW x, descendsFrom(H, a, x), NEW y, descendsFrom(H, a, y),
         height(y) <= height(x)
  PROVE  descendsFrom(H, x, y)
<1>1. /\ height(x) \in Walk(H, a) /\ ancestor(a, height(x)) = x /\ height(x) \in Nat
      /\ height(y) \in Walk(H, a) /\ ancestor(a, height(y)) = y /\ height(y) \in Nat
  BY DescendsOK
<1>2. height(y) \in Walk(H, x)
  BY <1>1, WalkBelow
<1>3. height(y) \in 0..height(x) /\ height(x) \in 0..height(a)
  BY <1>1, WalkOK
<1>4. ancestor(x, height(y)) = y
  BY <1>1, <1>3, AncestorOK
<1> QED BY <1>2, <1>4 DEF descendsFrom

(* More anchors break no line of descent.                                  *)
LEMMA DescendsInMore ==
  ASSUME NEW H, NEW K, H \subseteq K, NEW a \in Anchor, NEW x, descendsFrom(H, a, x)
  PROVE  descendsFrom(K, a, x)
BY DEF descendsFrom, Walk


(* An anchor that descends from another has it below.                      *)
LEMMA DescendsBelow ==
  ASSUME NEW H, NEW a \in Anchor, NEW x, descendsFrom(H, a, x)
  PROVE  IsBelow(x, a)
BY DescendsOK DEF IsBelow

(* What is k deep, or the lowest that is held, is held without a gap; what *)
(* is deeper is no higher.                                                 *)
LEMMA FinalizedOK ==
  ASSUME NEW H, NEW a \in Anchor, a \in H, NEW k \in Nat
  PROVE  /\ descendsFrom(H, a, finalized(H, a, k))
         /\ finalized(H, a, k) \in Anchor /\ height(finalized(H, a, k)) \in Nat
         /\ \A l \in Nat : k <= l => height(finalized(H, a, l)) <= height(finalized(H, a, k))
<1> DEFINE lowest == Min(Walk(H, a))
           depth(l) == Max({height(a) - l, lowest})
<1>1. height(a) \in Walk(H, a) /\ Walk(H, a) \subseteq 0..height(a) /\ height(a) \in Nat
  BY WalkOK, AncestorEnds
<1>2. lowest \in Walk(H, a)
  <2>1. Walk(H, a) \subseteq Nat
    BY <1>1
  <2> QED BY <2>1, <1>1, MinExists
<1>3. lowest \in 0..height(a)
  BY <1>1, <1>2
<1> HIDE DEF lowest
<1>4. ASSUME NEW l \in Nat
      PROVE  /\ depth(l) = (IF height(a) - l >= lowest THEN height(a) - l ELSE lowest)
             /\ depth(l) \in Walk(H, a)
             /\ finalized(H, a, l) = ancestor(a, depth(l)) /\ height(finalized(H, a, l)) = depth(l)
  <2>1. height(a) - l \in Int /\ lowest \in Int
    BY <1>1, <1>3
  <2>2. depth(l) = IF height(a) - l >= lowest THEN height(a) - l ELSE lowest
    BY <2>1, MaxOfTwo
  <2>3. finalized(H, a, l) = ancestor(a, depth(l))
    BY DEF finalized, lowest
  <2> HIDE DEF depth
  <2>4. depth(l) \in lowest..height(a)
    BY <2>2, <1>1, <1>3
  <2>5. depth(l) \in Walk(H, a)
    BY <2>4, <1>2, WalkOK
  <2> QED BY <2>2, <2>3, <2>5, WalkDescends
<1> HIDE DEF depth
<1>5. descendsFrom(H, a, finalized(H, a, k))
  BY <1>4, WalkDescends
<1>6. ASSUME NEW l \in Nat, k <= l
      PROVE  height(finalized(H, a, l)) <= height(finalized(H, a, k))
  BY <1>1, <1>3, <1>4, <1>6
<1> QED BY <1>5, <1>6, DescendsOK

-----------------------------------------------------------------------------
(* The choice of the tip.                                                  *)

(* What is locked or settled is replaced only by what is higher, if both   *)
(* are held.                                                               *)
LEMMA HigherOK ==
  ASSUME NEW H, NEW cur, cur \in H, NEW new, height(cur) \in Nat, height(new) \in Nat
  PROVE  /\ Higher(H, cur, new) \in {cur, new}
         /\ height(cur) <= height(Higher(H, cur, new))
         /\ height(new) <= height(Higher(H, cur, new))
         /\ Higher(H, cur, new) = cur \/ Higher(H, cur, new) = new
BY DEF Higher

(* A tip that descends from what is settled and from what is to be locked, *)
(* which is no lower, can be taken.                                        *)
LEMMA SetTipOK ==
  ASSUME NEW c, KeptOK(c), NEW a \in c.anchors, NEW lock,
         descendsFrom(c.anchors, a, lock), descendsFrom(c.anchors, a, c.settled),
         height(c.settled) <= height(lock)
  PROVE  /\ KeptOK(setTip(c, a, lock))
         /\ IsBelow(c.settled, setTip(c, a, lock).settled)
<1> DEFINE H == c.anchors
           L == finalized(H, a, lockDepth)
           S == finalized(H, a, settleDepth)
           locked == Higher(H, lock, L)
           settled == Higher(H, c.settled, S)
           d == setTip(c, a, lock)
<1>1. /\ c \in [anchors : SUBSET Anchor, tip : Anchor, locked : Anchor, settled : Anchor,
                floor : Nat, conflict : BOOLEAN]
      /\ a \in Anchor
  BY DEF KeptOK
<1>2. /\ descendsFrom(H, a, L) /\ descendsFrom(H, a, S) /\ L \in Anchor /\ S \in Anchor
      /\ height(L) \in Nat /\ height(S) \in Nat /\ height(S) <= height(L)
  BY <1>1, FinalizedOK, ChainAssumption
<1>3. /\ lock \in Anchor /\ lock \in H /\ height(lock) \in Nat
      /\ c.settled \in Anchor /\ c.settled \in H /\ height(c.settled) \in Nat
  BY <1>1, DescendsOK
<1>4. d = [[[c EXCEPT !.tip = a] EXCEPT !.locked = locked] EXCEPT !.settled = settled]
  BY <1>1, Zenon DEF setTip
<1>a. descendsFrom(H, a, lock) /\ descendsFrom(H, a, c.settled)
  OBVIOUS
<1> HIDE DEF H, L, S, d
<1>5. /\ locked \in {lock, L} /\ height(lock) <= height(locked) /\ height(L) <= height(locked)
      /\ settled \in {c.settled, S} /\ (settled = c.settled \/ settled = S)
      /\ height(c.settled) <= height(settled)
  BY <1>2, <1>3, HigherOK
<1> HIDE DEF locked, settled
<1>6. /\ descendsFrom(H, a, locked) /\ locked \in Anchor /\ height(locked) \in Nat
      /\ descendsFrom(H, a, settled) /\ settled \in Anchor /\ height(settled) \in Nat
  BY <1>a, <1>2, <1>3, <1>5
<1>7. height(settled) <= height(locked)
  <2>1. CASE settled = c.settled
    BY <2>1, <1>3, <1>5, <1>6
  <2>2. CASE settled = S
    BY <2>2, <1>2, <1>5, <1>6
  <2> QED BY <2>1, <2>2, <1>5
<1>8. descendsFrom(H, locked, settled)
  BY <1>1, <1>6, <1>7, DescendsBetween
<1>9. /\ d \in [anchors : SUBSET Anchor, tip : Anchor, locked : Anchor, settled : Anchor,
                floor : Nat, conflict : BOOLEAN]
      /\ d.anchors = H /\ d.tip = a /\ d.locked = locked /\ d.settled = settled
  <2> DEFINE R == [anchors : SUBSET Anchor, tip : Anchor, locked : Anchor, settled : Anchor,
                   floor : Nat, conflict : BOOLEAN]
             e1 == [c EXCEPT !.tip = a]
             e2 == [e1 EXCEPT !.locked = locked]
             e3 == [e2 EXCEPT !.settled = settled]
  <2>1. e1 \in R /\ e1.anchors = c.anchors /\ e1.tip = a
    BY <1>1
  <2> HIDE DEF e1
  <2>2. e2 \in R /\ e2.anchors = c.anchors /\ e2.tip = a /\ e2.locked = locked
    BY <2>1, <1>6
  <2> HIDE DEF e2
  <2>3. e3 \in R /\ e3.anchors = c.anchors /\ e3.tip = a /\ e3.locked = locked /\ e3.settled = settled
    BY <2>2, <1>6
  <2> QED BY <2>3, <1>4, Zenon DEF H, e1, e2
<1>10. KeptOK(d)
  <2>1. a \in H
    BY DEF H
  <2> QED BY <2>1, <1>6, <1>8, <1>9 DEF KeptOK
<1>11. IsBelow(c.settled, settled)
  <2>2. descendsFrom(H, settled, c.settled)
    BY <1>a, <1>1, <1>5, <1>6, DescendsBetween
  <2> QED BY <2>2, <1>6, DescendsBelow
<1>12. KeptOK(d) /\ IsBelow(c.settled, d.settled)
  BY <1>9, <1>10, <1>11
<1> QED BY <1>12 DEF d

(* The anchors that two branches share, none of them above either end.     *)
LEMMA SharedOK ==
  ASSUME NEW H, NEW a \in Anchor, NEW t \in Anchor, Shared(H, a, t) # {}
  PROVE  LET f == Max(Shared(H, a, t))
         IN  /\ f \in Walk(H, a) /\ f \in Walk(H, t) /\ ancestor(a, f) = ancestor(t, f) /\ f \in Nat
             /\ \A h \in Shared(H, a, t) : h <= f
<1>1. Shared(H, a, t) \subseteq 0..height(a) /\ height(a) \in Nat
  BY WalkOK, AncestorEnds DEF Shared
<1>2. /\ Max(Shared(H, a, t)) \in Shared(H, a, t)
      /\ \A h \in Shared(H, a, t) : h <= Max(Shared(H, a, t))
  BY <1>1, MaxExists
<1> QED BY <1>1, <1>2 DEF Shared

(* A branch that is backed by anybody has an anchor above the fork.        *)
LEMMA FinalHasAnchors ==
  ASSUME NEW H, NEW a \in Anchor, NEW t, NEW f \in 0..height(a), Final(H, a, t, f)
  PROVE  f + 1 \in 0..height(a)
<1> DEFINE ref == Reference(H, ancestor(a, f))
           support == {h \in ref : by(a, h) \in Producers(a, f) \ Producers(t, f)}
<1>1. IsFiniteSet(ref) /\ Cardinality(ref) \in Nat
  <2>1. height(ancestor(a, f)) = f /\ f \in Nat
    BY AncestorOK, AncestorEnds
  <2>2. IsFiniteSet(1..f)
    BY <2>1, FS_Interval
  <2>3. ref \subseteq 1..f
    BY <2>1 DEF Reference
  <2> QED BY <2>2, <2>3, FS_Subset, FS_CardinalityType
<1>2. 2 * Cardinality(support) > Cardinality(ref)
  BY Zenon DEF Final
<1>3. support # {}
  <2>1. Cardinality({}) = 0
    BY FS_EmptySet
  <2> HIDE DEF ref
  <2> QED BY <2>1, <1>1, <1>2
<1>4. Producers(a, f) # {}
  BY <1>3
<1>5. PICK i \in (f + 1)..height(a) : TRUE
  BY <1>4 DEF Producers
<1>6. height(a) \in Nat
  BY AncestorEnds
<1> QED BY <1>5, <1>6

(* At most one of two branches has a majority of those with a say.         *)
THEOREM OneBranchFinal ==
  ASSUME NEW H, NEW a \in Anchor, NEW t \in Anchor, NEW f \in Nat,
         f <= height(a), f <= height(t), ancestor(a, f) = ancestor(t, f)
  PROVE  ~(Final(H, a, t, f) /\ Final(H, t, a, f))
<1> DEFINE ref == Reference(H, ancestor(a, f))
           A == {h \in ref : by(a, h) \in Producers(a, f) \ Producers(t, f)}
           T == {h \in ref : by(t, h) \in Producers(t, f) \ Producers(a, f)}
<1>1. f \in 0..height(a) /\ f \in 0..height(t)
  BY AncestorEnds
<1>2. height(ancestor(a, f)) = f
  BY <1>1, AncestorOK
<1>3. IsFiniteSet(ref) /\ ref \subseteq 1..f
  <2>1. ref \subseteq 1..f
    BY <1>2 DEF Reference
  <2>2. IsFiniteSet(1..f)
    BY FS_Interval
  <2> QED BY <2>1, <2>2, FS_Subset
<1>4. \A h \in 1..f : by(a, h) = by(t, h)
  <2> SUFFICES ASSUME NEW h \in 1..f PROVE by(a, h) = by(t, h)
    OBVIOUS
  <2>1. ancestor(a, f)[h] = a[h] /\ ancestor(t, f)[h] = t[h]
    BY <1>1, AncestorOK
  <2> QED BY <2>1 DEF by
<1>5. A \cap T = {}
  BY <1>3, <1>4
<1>6. /\ IsFiniteSet(A) /\ IsFiniteSet(T) /\ IsFiniteSet(A \cup T)
      /\ Cardinality(A) \in Nat /\ Cardinality(T) \in Nat /\ Cardinality(ref) \in Nat
      /\ Cardinality(A \cup T) <= Cardinality(ref)
  <2>1. A \subseteq ref /\ T \subseteq ref /\ A \cup T \subseteq ref
    OBVIOUS
  <2> HIDE DEF A, T, ref
  <2> QED BY <2>1, <1>3, FS_Subset, FS_CardinalityType
<1>7. Cardinality(A \cup T) = Cardinality(A) + Cardinality(T)
  <2>1. Cardinality(A \cap T) = 0
    BY <1>5, FS_EmptySet
  <2> HIDE DEF A, T
  <2>2. Cardinality(A \cup T) = Cardinality(A) + Cardinality(T) - Cardinality(A \cap T)
    BY <1>6, FS_Union
  <2> QED BY <2>1, <2>2, <1>6
<1>8. Final(H, a, t, f) <=> 2 * Cardinality(A) > Cardinality(ref)
  BY Zenon DEF Final
<1>9. Final(H, t, a, f) <=> 2 * Cardinality(T) > Cardinality(ref)
  BY Zenon DEF Final
<1> HIDE DEF A, T, ref
<1> QED BY <1>6, <1>7, <1>8, <1>9

(* What is to be locked if a's branch is to take over from the tip t: an   *)
(* anchor of that branch, no lower than anything both branches have.       *)
LEMMA ForkOK ==
  ASSUME NEW H, NEW a \in Anchor, a \in H, NEW t \in Anchor,
         NEW x, x = resolveFork(H, a, t).switchTo, x # None
  PROVE  /\ descendsFrom(H, a, x) /\ height(x) \in Nat
         /\ \A h \in Shared(H, a, t) : h <= height(x)
<1> DEFINE v == resolveFork(H, a, t)
           f == Max(Shared(H, a, t))
<1>1. CASE Shared(H, a, t) = {}
  <2>1. v = [switchTo |-> None, final |-> FALSE]
    BY <1>1, Zenon DEF resolveFork
  <2> HIDE DEF v
  <2>2. v.switchTo = None
    BY <2>1
  <2> QED BY <2>2 DEF v
<1>2. CASE Shared(H, a, t) # {}
  <2>1. f \in Walk(H, a) /\ f \in Nat /\ \A h \in Shared(H, a, t) : h <= f
    BY <1>2, SharedOK
  <2>2. v = CASE Final(H, t, a, f) -> [switchTo |-> None, final |-> FALSE]
              [] ~Final(H, t, a, f) /\ Final(H, a, t, f) ->
                   [switchTo |-> ancestor(a, f + 1), final |-> TRUE]
              [] OTHER -> [switchTo |-> ancestor(a, f), final |-> FALSE]
    BY <1>2, Zenon DEF resolveFork
  <2>3. f \in 0..height(a) /\ height(a) \in Nat
    BY <2>1, WalkOK, AncestorEnds
  <2>4. x = v.switchTo
    OBVIOUS
  <2> HIDE DEF v, f
  <2>5. CASE Final(H, t, a, f)
    <3>1. v = [switchTo |-> None, final |-> FALSE]
      BY <2>2, <2>5
    <3>2. v.switchTo = None
      BY <3>1
    <3> QED BY <3>2, <2>4
  <2>6. CASE ~Final(H, t, a, f) /\ Final(H, a, t, f)
    <3>1. v = [switchTo |-> ancestor(a, f + 1), final |-> TRUE]
      BY <2>2, <2>6
    <3>2. x = ancestor(a, f + 1)
      BY <3>1, <2>4
    <3>3. f + 1 \in f..height(a)
      BY <2>3, <2>6, FinalHasAnchors
    <3>4. f + 1 \in Walk(H, a)
      BY <3>3, <2>1, WalkOK
    <3>5. descendsFrom(H, a, x) /\ height(x) = f + 1
      BY <3>2, <3>4, WalkDescends
    <3>6. \A h \in Shared(H, a, t) : h <= f + 1
      <4>1. \A h \in Shared(H, a, t) : h \in 0..height(a)
        BY WalkOK DEF Shared
      <4> QED BY <4>1, <2>1, <2>3
    <3> QED BY <3>5, <3>6, <2>1
  <2>7. CASE ~Final(H, t, a, f) /\ ~Final(H, a, t, f)
    <3>1. v = [switchTo |-> ancestor(a, f), final |-> FALSE]
      BY <2>2, <2>7
    <3>2. x = ancestor(a, f)
      BY <3>1, <2>4
    <3>3. descendsFrom(H, a, x) /\ height(x) = f
      BY <3>2, <2>1, WalkDescends
    <3> QED BY <3>3, <2>1
  <2> QED BY <2>5, <2>6, <2>7
<1> QED BY <1>1, <1>2

(* Whatever a node makes of an anchor that it holds, it stands on what it  *)
(* has locked and settled, and has given up nothing that it had settled.   *)
LEMMA ChooseOK ==
  ASSUME NEW c, KeptOK(c), NEW a \in c.anchors
  PROVE  KeptOK(choose(c, a)) /\ IsBelow(c.settled, choose(c, a).settled)
<1> DEFINE follows == descendsFrom(c.anchors, a, c.locked)
           best == heavier(a, c.tip)
           verdict == resolveFork(c.anchors, a, c.tip)
           wins == verdict.switchTo # None /\ (verdict.final \/ best)
           d == choose(c, a)
<1>1. /\ c \in [anchors : SUBSET Anchor, tip : Anchor, locked : Anchor, settled : Anchor,
                floor : Nat, conflict : BOOLEAN]
      /\ a \in Anchor /\ c.tip \in Anchor /\ c.tip \in c.anchors /\ c.settled \in Anchor
      /\ descendsFrom(c.anchors, c.tip, c.locked) /\ descendsFrom(c.anchors, c.locked, c.settled)
      /\ c.locked \in Anchor
  BY DEF KeptOK
<1>2. IsBelow(c.settled, c.settled)
  BY <1>1, AncestorEnds DEF IsBelow
<1>3. d = CASE follows /\ best -> setTip(c, a, c.locked)
            [] ~follows /\ wins /\ loyal(c, a) -> setTip(c, a, relock(c, verdict))
            [] ~follows /\ wins /\ ~loyal(c, a) -> [c EXCEPT !.conflict = TRUE]
            [] OTHER -> c
  BY Zenon DEF choose
<1>4. CASE follows /\ best
  <2>1. d = setTip(c, a, c.locked)
    <3> HIDE DEF d, follows, best, wins, verdict
    <3> QED BY <1>3, <1>4
  <2>2. descendsFrom(c.anchors, a, c.locked)
    BY <1>4
  <2>3. descendsFrom(c.anchors, a, c.settled) /\ height(c.settled) <= height(c.locked)
    BY <2>2, <1>1, DescendsThrough, DescendsOK
  <2> QED BY <2>1, <2>2, <2>3, SetTipOK
<1>5. CASE ~follows /\ wins /\ loyal(c, a)
  <2>1. d = setTip(c, a, verdict.switchTo)
    <3>1. relock(c, verdict) = verdict.switchTo
      BY DEF relock
    <3> HIDE DEF d, follows, best, wins, verdict
    <3> QED BY <1>3, <1>5, <3>1
  <2>2. verdict.switchTo # None
    BY <1>5
  <2>3. /\ descendsFrom(c.anchors, a, verdict.switchTo) /\ height(verdict.switchTo) \in Nat
        /\ \A h \in Shared(c.anchors, a, c.tip) : h <= height(verdict.switchTo)
    BY <2>2, <1>1, ForkOK
  <2> HIDE DEF d, wins, verdict
  <2>4. descendsFrom(c.anchors, a, c.settled)
    BY <1>5 DEF loyal
  <2>5. descendsFrom(c.anchors, c.tip, c.settled)
    BY <1>1, DescendsThrough
  <2>6. height(c.settled) \in Shared(c.anchors, a, c.tip)
    BY <2>4, <2>5 DEF descendsFrom, Shared
  <2>7. height(c.settled) <= height(verdict.switchTo)
    BY <2>3, <2>6
  <2> QED BY <2>1, <2>3, <2>4, <2>7, SetTipOK DEF d
<1>6. CASE ~follows /\ wins /\ ~loyal(c, a)
  <2>1. d = [c EXCEPT !.conflict = TRUE]
    <3> HIDE DEF d, follows, best, wins, verdict
    <3> QED BY <1>3, <1>6
  <2> HIDE DEF d
  <2>2. /\ d \in [anchors : SUBSET Anchor, tip : Anchor, locked : Anchor, settled : Anchor,
                  floor : Nat, conflict : BOOLEAN]
        /\ d.anchors = c.anchors /\ d.tip = c.tip /\ d.locked = c.locked /\ d.settled = c.settled
    BY <2>1, <1>1
  <2> QED BY <2>2, <1>1, <1>2 DEF KeptOK, d
<1>7. CASE ~(follows /\ best) /\ ~(~follows /\ wins)
  <2>1. d = c
    <3> HIDE DEF d, follows, best, wins, verdict
    <3> QED BY <1>3, <1>7
  <2> QED BY <2>1, <1>2
<1> QED BY <1>4, <1>5, <1>6, <1>7

-----------------------------------------------------------------------------
(* What changes what a node holds.                                         *)

(* An anchor is added, or not.                                             *)
LEMMA AddOK ==
  ASSUME NEW c, KeptOK(c), NEW a \in Anchor
  PROVE  KeptOK(add(c, a)) /\ IsBelow(c.settled, add(c, a).settled)
<1> DEFINE H == c.anchors \cup {a}
           d == [c EXCEPT !.anchors = H]
<1>1. /\ c \in [anchors : SUBSET Anchor, tip : Anchor, locked : Anchor, settled : Anchor,
                floor : Nat, conflict : BOOLEAN]
      /\ c.tip \in c.anchors
      /\ descendsFrom(c.anchors, c.tip, c.locked) /\ descendsFrom(c.anchors, c.locked, c.settled)
  BY DEF KeptOK
<1>2. CASE ~valid(c, a)
  <2>1. add(c, a) = c
    BY <1>2 DEF add
  <2>2. IsBelow(c.settled, c.settled)
    BY <1>1, AncestorEnds DEF IsBelow
  <2> QED BY <2>1, <2>2
<1>3. CASE valid(c, a)
  <2>1. add(c, a) = choose(d, a)
    BY <1>3, Zenon DEF add
  <2>2. H \in SUBSET Anchor /\ c.anchors \subseteq H /\ a \in H
    BY <1>1
  <2> HIDE DEF H
  <2>3. /\ d \in [anchors : SUBSET Anchor, tip : Anchor, locked : Anchor, settled : Anchor,
                  floor : Nat, conflict : BOOLEAN]
        /\ d.anchors = H /\ d.tip = c.tip /\ d.locked = c.locked /\ d.settled = c.settled
    BY <2>2, <1>1
  <2> HIDE DEF d
  <2>4. descendsFrom(H, c.tip, c.locked) /\ descendsFrom(H, c.locked, c.settled)
    BY <2>2, <1>1, DescendsInMore
  <2>5. KeptOK(d)
    BY <2>2, <2>3, <2>4, <1>1 DEF KeptOK
  <2>6. KeptOK(choose(d, a)) /\ IsBelow(d.settled, choose(d, a).settled)
    BY <2>2, <2>3, <2>5, ChooseOK
  <2> QED BY <2>1, <2>3, <2>6
<1> QED BY <1>2, <1>3

(* Pruning leaves what is locked and settled, and the line to it.          *)
LEMMA PruneOK ==
  ASSUME NEW c, KeptOK(c), PruneFloor(c) > c.floor,
         NEW d, d = [c EXCEPT !.anchors = {a \in @ : height(a) >= PruneFloor(c)}, !.floor = PruneFloor(c)]
  PROVE  KeptOK(d) /\ d.settled = c.settled
<1> DEFINE floor == PruneFloor(c)
           H == {a \in c.anchors : height(a) >= floor}
<1>1. /\ c \in [anchors : SUBSET Anchor, tip : Anchor, locked : Anchor, settled : Anchor,
                floor : Nat, conflict : BOOLEAN]
      /\ c.tip \in c.anchors /\ c.tip \in Anchor /\ c.locked \in Anchor /\ c.settled \in Anchor
      /\ descendsFrom(c.anchors, c.tip, c.locked) /\ descendsFrom(c.anchors, c.locked, c.settled)
  BY DEF KeptOK
<1>2. /\ height(c.tip) \in Nat /\ height(c.locked) \in Nat /\ height(c.settled) \in Nat
      /\ height(c.locked) <= height(c.tip) /\ height(c.settled) <= height(c.locked)
  BY <1>1, DescendsOK, AncestorEnds
<1>3. floor \in Nat /\ floor <= height(c.locked) /\ floor <= height(c.settled)
  <2> DEFINE asked == height(Boundary(c.settled)) - KeepMargin
  <2>1. asked \in Int
    <3> DEFINE h == (height(c.settled) \div CHECKPOINT_EVERY) * CHECKPOINT_EVERY
    <3>1. h \in 0..height(c.settled)
      <4> DEFINE n == height(c.settled)
                 k == CHECKPOINT_EVERY
      <4>1. n \in Nat /\ k \in Nat \ {0}
        BY <1>2, ChainAssumption
      <4> HIDE DEF n, k
      <4>2. n \div k \in Nat /\ k * (n \div k) <= n /\ k * (n \div k) = (n \div k) * k
        BY <4>1
      <4>3. (n \div k) * k \in 0..n
        BY <4>1, <4>2
      <4> QED BY <4>3 DEF n, k
    <3> HIDE DEF h
    <3>2. height(ancestor(c.settled, h)) = h
      BY <3>1, <1>1, AncestorOK
    <3>3. height(Boundary(c.settled)) = h
      BY <3>2 DEF Boundary, h
    <3>4. KeepMargin \in Nat
      BY ChainAssumption
    <3> QED BY <3>1, <3>3, <3>4
  <2>2. floor = Min({asked, height(c.locked), height(c.settled)})
    BY DEF PruneFloor
  <2> HIDE DEF asked, floor
  <2>3. floor \in Int /\ floor <= height(c.locked) /\ floor <= height(c.settled)
    BY <2>1, <2>2, <1>2, MinOfThree
  <2>4. floor > c.floor /\ c.floor \in Nat
    BY <1>1 DEF floor
  <2> QED BY <2>3, <2>4
<1>4. d = [[c EXCEPT !.anchors = H] EXCEPT !.floor = floor]
  BY Zenon
<1> HIDE DEF floor
<1>5. H \in SUBSET Anchor /\ c.tip \in H
  BY <1>1, <1>2, <1>3
<1>6. ASSUME NEW a \in Anchor, NEW x, descendsFrom(c.anchors, a, x), height(x) >= floor
      PROVE  descendsFrom(H, a, x)
  <2>1. /\ height(x) \in Walk(c.anchors, a) /\ ancestor(a, height(x)) = x /\ height(x) \in Nat
        /\ height(x) \in 0..height(a)
    BY <1>6, DescendsOK, WalkOK
  <2>2. ASSUME NEW i \in height(x)..height(a) PROVE ancestor(a, i) \in H
    <3>1. ancestor(a, i) \in c.anchors /\ i \in 0..height(a)
      BY <2>1, WalkOK
    <3>2. height(ancestor(a, i)) = i
      BY <3>1, AncestorOK
    <3>3. i >= floor
      BY <2>1, <1>3, <1>6
    <3> QED BY <3>1, <3>2, <3>3
  <2> HIDE DEF H
  <2>3. height(x) \in Walk(H, a)
    BY <2>1, <2>2, WalkOK
  <2> QED BY <2>1, <2>3 DEF descendsFrom
<1>7. descendsFrom(H, c.tip, c.locked) /\ descendsFrom(H, c.locked, c.settled)
  BY <1>1, <1>3, <1>6
<1> HIDE DEF H
<1>8. /\ d \in [anchors : SUBSET Anchor, tip : Anchor, locked : Anchor, settled : Anchor,
                floor : Nat, conflict : BOOLEAN]
      /\ d.anchors = H /\ d.tip = c.tip /\ d.locked = c.locked /\ d.settled = c.settled
  BY <1>1, <1>3, <1>4, <1>5
<1> QED BY <1>5, <1>7, <1>8 DEF KeptOK

(* A difficulty that is set anew is never below one.                       *)
LEMMA RetargetOK ==
  ASSUME NEW current \in Nat \ {0}, NEW spent \in Nat, NEW count \in Nat \ {0}
  PROVE  retarget(current, spent, count) \in Nat \ {0}
<1> DEFINE step == schedule.maxStep
           target == schedule.targetIters
<1>1. step \in Nat \ {0} /\ target \in Nat \ {0}
  BY ChainAssumption
<1> HIDE DEF step, target
<1>2. \A i \in Nat : \A j \in Nat \ {0} : i \div j \in Nat
  OBVIOUS
<1>3. \A i, j \in Nat : i * j \in Nat
  OBVIOUS
<1>4. ASSUME NEW next \in Nat PROVE clampStep(current, next) \in Nat \ {0}
  <2> DEFINE lo == current \div step
             hi == current * step
  <2>1. lo \in Nat /\ hi \in Nat
    BY <1>1, <1>2, <1>3
  <2>2. clampStep(current, next) = Max({1, Min({hi, Max({lo, next})})})
    BY DEF clampStep, step
  <2> HIDE DEF lo, hi
  <2> DEFINE m == Max({lo, next})
             k == Min({hi, m})
  <2>3. m \in Nat
    BY <2>1, MaxOfTwo
  <2> HIDE DEF m
  <2>4. k \in Nat
    <3>1. k \in {hi, m}
      BY <2>1, <2>3, MinOfTwo
    <3> HIDE DEF k
    <3> QED BY <3>1, <2>1, <2>3
  <2>5. clampStep(current, next) = Max({1, k})
    BY <2>2 DEF m
  <2> HIDE DEF k
  <2>6. Max({1, k}) = IF 1 >= k THEN 1 ELSE k
    BY <2>4, MaxOfTwo
  <2> QED BY <2>4, <2>5, <2>6
<1> DEFINE observed == spent \div count
           next == IF observed = 0 THEN current * step ELSE (current * target) \div observed
<1>5. observed \in Nat
  BY <1>2
<1>6. retarget(current, spent, count) = clampStep(current, next)
  BY DEF retarget, step, target
<1> HIDE DEF observed
<1>7. next \in Nat
  BY <1>1, <1>2, <1>3, <1>5
<1> QED BY <1>4, <1>6, <1>7

(* What is produced on an anchor that is held is an anchor.                *)
LEMMA MinedOK ==
  ASSUME NEW H, NEW a \in Anchor, a \in H, NEW p \in Node
  PROVE  mined(H, a, p) \in Anchor
<1>1. height(a) \in Nat /\ \A h \in 1..height(a) : a[h] \in Link
  BY DEF height, Anchor
<1>2. schedule.base \in Nat \ {0} /\ schedule.window \in Nat \ {0}
  BY ChainAssumption
<1>3. a # <<>> => height(a) \in 1..height(a)
  BY EmptySeq DEF height, Anchor
<1>4. difficulty(a) \in Nat \ {0} /\ weight(a) \in Nat
  BY <1>1, <1>2, <1>3 DEF difficulty, weight, Link
<1>5. difficultyFor(H, a) \in Nat \ {0}
  <2> DEFINE heights == Window(Walk(H, a), a)
             iters == [h \in heights |-> IF h = 0 THEN 0 ELSE a[h].difficulty * effort[a[h].by]]
  <2>1. heights \subseteq 0..height(a) /\ height(a) \in heights
    <3>1. height(a) \in Walk(H, a) /\ Walk(H, a) \subseteq 0..height(a)
      BY WalkOK
    <3>2. height(a) > height(a) - schedule.window
      BY <1>1, <1>2
    <3> QED BY <3>1, <3>2 DEF Window
  <2> HIDE DEF heights
  <2>2. IsFiniteSet(heights)
    <3>1. IsFiniteSet(0..height(a))
      BY <1>1, FS_Interval
    <3> QED BY <3>1, <2>1, FS_Subset
  <2>3. Cardinality(heights) \in Nat \ {0}
    BY <2>1, <2>2, FS_CardinalityType, FS_EmptySet
  <2>4. \A h \in heights : iters[h] \in Nat
    <3> SUFFICES ASSUME NEW h \in heights, h # 0 PROVE a[h].difficulty * effort[a[h].by] \in Nat
      OBVIOUS
    <3>1. h \in 1..height(a)
      BY <2>1
    <3>2. a[h].difficulty \in Nat /\ effort[a[h].by] \in Nat
      BY <3>1, <1>1, ChainAssumption DEF Link
    <3> QED BY <3>2
  <2> HIDE DEF iters
  <2>5. sumOf(iters, heights) \in Nat
    BY <2>2, <2>4, SumType
  <2>6. retarget(difficulty(a), sumOf(iters, heights), Cardinality(heights)) \in Nat \ {0}
    BY <2>3, <2>5, <1>4, RetargetOK
  <2>7. \/ difficultyFor(H, a) = difficulty(a)
        \/ difficultyFor(H, a) = retarget(difficulty(a), sumOf(iters, heights), Cardinality(heights))
    BY Zenon DEF difficultyFor, iters, heights
  <2> QED BY <2>6, <2>7, <1>4
<1> DEFINE d == difficultyFor(H, a)
<1>6. mined(H, a, p) = Append(a, [by |-> p, difficulty |-> d, weight |-> weight(a) + d])
  BY Zenon DEF mined
<1> HIDE DEF d
<1>7. [by |-> p, difficulty |-> d, weight |-> weight(a) + d] \in Link
  BY <1>4, <1>5 DEF Link, d
<1> QED BY <1>6, <1>7 DEF Anchor

-----------------------------------------------------------------------------
(* The nodes.                                                              *)

(* A node that is in order and has given nothing up changes alone.         *)
LEMMA OneNodeOK ==
  ASSUME ChainInv, NEW n \in Node, NEW d, KeptOK(d), chain' = [chain EXCEPT ![n] = d]
  PROVE  /\ chain' = [m \in Node |-> chain'[m]] /\ \A m \in Node : KeptOK(chain'[m])
         /\ IsBelow(chain[n].settled, d.settled) =>
              \A m \in Node : IsBelow(chain[m].settled, chain'[m].settled)
<1>1. chain = [m \in Node |-> chain[m]] /\ \A m \in Node : KeptOK(chain[m])
  BY DEF ChainInv
<1>2. chain' = [m \in Node |-> IF m = n THEN d ELSE chain[m]]
  BY <1>1
<1>3. chain'[n] = d /\ \A m \in Node \ {n} : chain'[m] = chain[m]
  BY <1>2
<1>4. chain' = [m \in Node |-> chain'[m]]
  BY <1>2
<1>5. \A m \in Node : IsBelow(chain[m].settled, chain[m].settled)
  <2> SUFFICES ASSUME NEW m \in Node PROVE IsBelow(chain[m].settled, chain[m].settled)
    OBVIOUS
  <2>1. chain[m].settled \in Anchor
    BY <1>1 DEF KeptOK
  <2> QED BY <2>1, AncestorEnds DEF IsBelow
<1> QED BY <1>1, <1>3, <1>4, <1>5

(* What is promised of a step.                                             *)
SettledKept ==
  restarts' = restarts => \A n \in Node : IsBelow(chain[n].settled, chain'[n].settled)

(* A producer begins, gives up, or adds the anchor it was working on.      *)
LEMMA ProducerOK ==
  ASSUME ChainInv, NEW n \in Node, Start(n) \/ NoProof(n) \/ Mint(n)
  PROVE  ChainInv' /\ SettledKept
<1>1. KeptOK(chain[n]) /\ draft[n] \in Anchor \cup {None}
  BY DEF ChainInv
<1>2. CASE Start(n)
  <2>1. /\ draft' = [draft EXCEPT ![n] = mined(chain[n].anchors, chain[n].tip, n)]
        /\ chain' = chain /\ restarts' = restarts /\ limit' = limit
    BY <1>2 DEF Start
  <2>2. mined(chain[n].anchors, chain[n].tip, n) \in Anchor
    BY <1>1, MinedOK DEF KeptOK
  <2>3. draft' \in [Node -> Anchor \cup {None}]
    BY <2>1, <2>2 DEF ChainInv
  <2>4. chain' = [chain EXCEPT ![n] = chain[n]]
    BY <2>1 DEF ChainInv
  <2>5. IsBelow(chain[n].settled, chain[n].settled)
    BY <1>1, AncestorEnds DEF KeptOK, IsBelow
  <2> QED BY <2>1, <2>3, <2>4, <2>5, <1>1, OneNodeOK DEF ChainInv, SettledKept
<1>3. CASE NoProof(n)
  <2>1. /\ draft' = [draft EXCEPT ![n] = None]
        /\ chain' = chain /\ restarts' = restarts /\ limit' = limit
    BY <1>3 DEF NoProof
  <2>2. draft' \in [Node -> Anchor \cup {None}]
    BY <2>1 DEF ChainInv
  <2>3. chain' = [chain EXCEPT ![n] = chain[n]]
    BY <2>1 DEF ChainInv
  <2>4. IsBelow(chain[n].settled, chain[n].settled)
    BY <1>1, AncestorEnds DEF KeptOK, IsBelow
  <2> QED BY <2>1, <2>2, <2>3, <2>4, <1>1, OneNodeOK DEF ChainInv, SettledKept
<1>4. CASE Mint(n)
  <2>1. /\ draft[n] # None /\ chain' = [chain EXCEPT ![n] = add(chain[n], draft[n])]
        /\ draft' = [draft EXCEPT ![n] = None] /\ restarts' = restarts /\ limit' = limit
    BY <1>4 DEF Mint
  <2>2. draft[n] \in Anchor
    BY <2>1, <1>1
  <2>3. draft' \in [Node -> Anchor \cup {None}]
    BY <2>1 DEF ChainInv
  <2>4. KeptOK(add(chain[n], draft[n])) /\ IsBelow(chain[n].settled, add(chain[n], draft[n]).settled)
    BY <2>2, <1>1, AddOK
  <2> QED BY <2>1, <2>3, <2>4, OneNodeOK DEF ChainInv, SettledKept
<1> QED BY <1>2, <1>3, <1>4

(* A node hears of an anchor.                                              *)
LEMMA HearOK ==
  ASSUME ChainInv, NEW n \in Node, NEW a, Hear(n, a)
  PROVE  ChainInv' /\ SettledKept
<1>1. /\ chain' = [chain EXCEPT ![n] = add(chain[n], a)]
      /\ draft' = draft /\ restarts' = restarts /\ limit' = limit
  BY DEF Hear
<1>2. a \in Anchor
  <2>1. PICK m \in Node : a \in chain[m].anchors
    BY DEF Hear, Missing
  <2> QED BY <2>1 DEF ChainInv, KeptOK
<1>3. KeptOK(add(chain[n], a)) /\ IsBelow(chain[n].settled, add(chain[n], a).settled)
  BY <1>2, AddOK DEF ChainInv
<1> QED BY <1>1, <1>3, OneNodeOK DEF ChainInv, SettledKept

(* A node prunes what is below its checkpoint.                             *)
LEMMA PruneStepOK ==
  ASSUME ChainInv, NEW n \in Node, Prune(n)
  PROVE  ChainInv' /\ SettledKept
<1> DEFINE c == chain[n]
           floor == PruneFloor(c)
           d == [c EXCEPT !.anchors = {a \in @ : height(a) >= floor}, !.floor = floor]
<1>1. /\ floor > c.floor /\ chain' = [chain EXCEPT ![n] = d]
      /\ draft' = draft /\ restarts' = restarts /\ limit' = limit
  BY Zenon DEF Prune
<1>2. KeptOK(c)
  BY DEF ChainInv
<1>3. KeptOK(d) /\ d.settled = c.settled
  <2> HIDE DEF c
  <2> QED BY <1>1, <1>2, PruneOK, Zenon
<1> HIDE DEF d
<1>4. IsBelow(c.settled, d.settled)
  BY <1>2, <1>3, AncestorEnds DEF KeptOK, IsBelow
<1> QED BY <1>1, <1>3, <1>4, OneNodeOK DEF ChainInv, SettledKept

(* A node starts again, with block 0.                                      *)
LEMMA RestartOK ==
  ASSUME ChainInv, NEW n \in Node, Restart(n)
  PROVE  ChainInv' /\ SettledKept
<1>1. /\ restarts < limit.restarts /\ restarts' = restarts + 1 /\ limit' = limit
      /\ chain' = [chain EXCEPT ![n] = installGenesis] /\ draft' = [draft EXCEPT ![n] = None]
  BY DEF Restart
<1>2. KeptOK(installGenesis)
  <2> DEFINE g == installGenesis
  <2>1. /\ g \in [anchors : SUBSET Anchor, tip : Anchor, locked : Anchor, settled : Anchor,
                  floor : Nat, conflict : BOOLEAN]
        /\ g.anchors = {<<>>} /\ g.tip = <<>> /\ g.locked = <<>> /\ g.settled = <<>>
    BY AncestorEnds DEF installGenesis
  <2> HIDE DEF g
  <2>2. descendsFrom({<<>>}, <<>>, <<>>)
    BY AncestorEnds, WalkOK DEF descendsFrom
  <2> QED BY <2>1, <2>2 DEF KeptOK, g
<1>3. draft' \in [Node -> Anchor \cup {None}]
  BY <1>1 DEF ChainInv
<1>4. limit'.restarts \in Nat /\ restarts' \in 0..limit'.restarts /\ restarts' # restarts
  BY <1>1 DEF ChainInv
<1> QED BY <1>1, <1>2, <1>3, <1>4, OneNodeOK DEF ChainInv, SettledKept

(* A node begins anew at the checkpoint of another one.                    *)
LEMMA AdoptOK ==
  ASSUME ChainInv, NEW n \in Node, NEW m \in Node, NEW floor, Adopt(n, m, floor)
  PROVE  ChainInv' /\ SettledKept
<1> DEFINE H == chain[m].anchors
           run == {ancestor(floor, h) : h \in Walk(H, floor)}
           d == [anchors |-> run, tip |-> floor, locked |-> floor, settled |-> floor,
                 floor |-> height(floor), conflict |-> FALSE]
<1>1. /\ chain[n].anchors = {<<>>} /\ floor \in H
      /\ chain' = [chain EXCEPT ![n] = d]
      /\ draft' = draft /\ restarts' = restarts /\ limit' = limit
  BY Zenon DEF Adopt
<1>2. floor \in Anchor
  BY <1>1 DEF ChainInv, KeptOK
<1> HIDE DEF H
<1>3. height(floor) \in Walk(H, floor) /\ height(floor) \in Nat /\ ancestor(floor, height(floor)) = floor
      /\ Walk(H, floor) \subseteq 0..height(floor)
  BY <1>1, <1>2, WalkOK, AncestorEnds
<1>4. run \in SUBSET Anchor /\ floor \in run
  BY <1>2, <1>3, AncestorOK
<1>5. descendsFrom(run, floor, floor)
  <2>1. height(floor) \in Walk(run, floor)
    BY <1>2, <1>4, WalkOK
  <2> QED BY <2>1, <1>3 DEF descendsFrom
<1> HIDE DEF run
<1>6. /\ d \in [anchors : SUBSET Anchor, tip : Anchor, locked : Anchor, settled : Anchor,
                floor : Nat, conflict : BOOLEAN]
      /\ d.anchors = run /\ d.tip = floor /\ d.locked = floor /\ d.settled = floor
  BY <1>2, <1>3, <1>4
<1> HIDE DEF d
<1>7. KeptOK(d)
  BY <1>4, <1>5, <1>6 DEF KeptOK
<1>8. IsBelow(chain[n].settled, d.settled)
  <2>1. KeptOK(chain[n])
    BY DEF ChainInv
  <2>2. chain[n].settled \in chain[n].anchors
    BY <2>1, DescendsOK DEF KeptOK
  <2>3. chain[n].settled = <<>>
    BY <2>2, <1>1
  <2> QED BY <2>3, <1>2, <1>3, <1>6, AncestorEnds DEF IsBelow
<1> QED BY <1>1, <1>7, <1>8, OneNodeOK DEF ChainInv, SettledKept

-----------------------------------------------------------------------------
(* At first all nodes have followed History, ...                           *)
LEMMA InitOK ==
  ASSUME Init
  PROVE  ChainInv
<1> DEFINE H == upTo(History)
           L == finalized(H, History, lockDepth)
           S == finalized(H, History, settleDepth)
           c == following
<1>1. /\ limit \in [height : Nat, restarts : Nat] /\ restarts = 0
      /\ chain = [n \in Node |-> c] /\ draft = [n \in Node |-> None]
  BY ChainAssumption DEF Init
<1>2. History \in Anchor /\ height(History) \in Nat /\ ancestor(History, height(History)) = History
  BY ChainAssumption, AncestorEnds
<1>3. H \subseteq Anchor /\ History \in H
  BY <1>2, AncestorOK DEF upTo
<1> HIDE DEF H
<1>4. /\ descendsFrom(H, History, L) /\ descendsFrom(H, History, S) /\ L \in Anchor /\ S \in Anchor
      /\ height(S) <= height(L)
  BY <1>2, <1>3, FinalizedOK, ChainAssumption
<1>5. descendsFrom(H, L, S)
  BY <1>2, <1>4, DescendsBetween
<1>6. c = [anchors |-> H, tip |-> History, locked |-> L, settled |-> S,
           floor |-> 0, conflict |-> FALSE]
  BY Zenon DEF following, H
<1> HIDE DEF c, L, S
<1>7. /\ c \in [anchors : SUBSET Anchor, tip : Anchor, locked : Anchor, settled : Anchor,
                floor : Nat, conflict : BOOLEAN]
      /\ c.anchors = H /\ c.tip = History /\ c.locked = L /\ c.settled = S
  BY <1>2, <1>3, <1>4, <1>6
<1>8. KeptOK(c)
  BY <1>3, <1>4, <1>5, <1>7 DEF KeptOK
<1>9. restarts \in 0..limit.restarts /\ draft \in [Node -> Anchor \cup {None}]
  BY <1>1
<1> QED BY <1>1, <1>8, <1>9 DEF ChainInv

(* ... and every step keeps them in order, and what they have settled.     *)
LEMMA StepOK ==
  ASSUME ChainInv, [Next]_vars
  PROVE  ChainInv' /\ SettledKept
<1>1. CASE Next
  <2>1. PICK n \in Node : \/ Start(n) \/ Mint(n) \/ NoProof(n) \/ Prune(n) \/ Restart(n)
                          \/ \E a \in Missing(n) : Hear(n, a)
                          \/ \E m \in Node : \E floor \in Offered(chain[m]) : Adopt(n, m, floor)
    BY <1>1, Zenon DEF Next
  <2>2. CASE Start(n) \/ NoProof(n) \/ Mint(n)
    BY <2>2, ProducerOK
  <2>3. CASE Prune(n)
    BY <2>3, PruneStepOK
  <2>4. CASE Restart(n)
    BY <2>4, RestartOK
  <2>5. CASE \E a \in Missing(n) : Hear(n, a)
    BY <2>5, HearOK
  <2>6. CASE \E m \in Node : \E floor \in Offered(chain[m]) : Adopt(n, m, floor)
    <3>1. PICK m \in Node : \E floor \in Offered(chain[m]) : Adopt(n, m, floor)
      BY <2>6
    <3>2. PICK floor \in Offered(chain[m]) : Adopt(n, m, floor)
      BY <3>1
    <3> QED BY <3>2, AdoptOK
  <2> QED BY <2>1, <2>2, <2>3, <2>4, <2>5, <2>6
<1>2. CASE UNCHANGED vars
  <2>1. chain' = chain /\ draft' = draft /\ restarts' = restarts /\ limit' = limit
    BY <1>2 DEF vars
  <2>2. \A n \in Node : IsBelow(chain[n].settled, chain[n].settled)
    BY AncestorEnds DEF ChainInv, KeptOK, IsBelow
  <2> QED BY <2>1, <2>2 DEF ChainInv, SettledKept
<1> QED BY <1>1, <1>2

(* The invariant holds however anchors are produced, heard of and pruned.  *)
THEOREM ChainSafe == Spec => []ChainInv
<1>1. Init => ChainInv
  BY InitOK
<1>2. ChainInv /\ [Next]_vars => ChainInv'
  BY StepOK
<1> QED BY <1>1, <1>2, PTL DEF Spec

(* What a node has chosen is what it holds (chain.ts, setTip, prune).      *)
THEOREM TypeCorrect == Spec => []TypeOK
<1>1. ChainInv => TypeOK
  <2> SUFFICES ASSUME ChainInv PROVE TypeOK
    OBVIOUS
  <2>1. ASSUME NEW n \in Node
        PROVE  /\ draft[n] = None \/ draft[n] \in Anchor
               /\ chain[n].anchors \subseteq Anchor
               /\ {chain[n].tip, chain[n].locked, chain[n].settled} \subseteq chain[n].anchors
               /\ chain[n].conflict \in BOOLEAN
    <3>1. KeptOK(chain[n])
      BY DEF ChainInv
    <3>2. chain[n].locked \in chain[n].anchors /\ chain[n].settled \in chain[n].anchors
      BY <3>1, DescendsOK DEF KeptOK
    <3> QED BY <3>1, <3>2 DEF ChainInv, KeptOK
  <2> QED BY <2>1 DEF ChainInv, TypeOK
<1> QED BY <1>1, ChainSafe, PTL

(* The tip stands on what is locked, and that on what is settled, in an    *)
(* unbroken line of held anchors (chain.ts, updateLock, prune).            *)
THEOREM AlwaysNested == Spec => []Nested
<1>1. ChainInv => Nested
  BY DEF ChainInv, KeptOK, Nested
<1> QED BY <1>1, ChainSafe, PTL

(* No fork, however heavy or well backed, undoes what a node has settled   *)
(* (chain.ts, add).                                                        *)
THEOREM SettledNeverGivenUp == Spec => SettledStays
<1>1. ChainInv /\ [Next]_vars =>
        [restarts' = restarts =>
           \A n \in Node : IsBelow(chain[n].settled, chain'[n].settled)]_vars
  BY StepOK DEF SettledKept
<1> QED BY <1>1, ChainSafe, PTL DEF Spec, SettledStays

-----------------------------------------------------------------------------
(* What pruning leaves.                                                    *)

(* H holds all there is down to height l below any of its anchors.         *)
Rooted(H, l) == \A a \in H : height(a) >= l /\ (height(a) > l => prev(a) \in H)

(* Below the checkpoint the margin is left, or everything.  A node that    *)
(* starts from a checkpoint that is no longer the last has what the others *)
(* have left below it, and no less than adopt asks for.                    *)
Margin ==
  IF OlderToo /\ schedule.window - schedule.epoch < KeepMargin
    THEN schedule.window - schedule.epoch ELSE KeepMargin
Spare(settled, l) == l = 0 \/ l + Margin <= height(Boundary(settled))
HasRoom(c) == \E l \in Nat : Rooted(c.anchors, l) /\ Spare(c.settled, l)

RoomInv == ChainInv /\ \A n \in Node : HasRoom(chain[n])

(* What the decisions look back on, below what is settled, is no more.     *)
MarginCovers ==
  /\ FORK_WINDOW <= Margin + 1
  /\ schedule.window <= Margin + 1

LEMMA MarginOK == Margin \in Int /\ Margin <= KeepMargin /\ KeepMargin \in Nat
BY ChainAssumption DEF Margin

(* The predecessor of an anchor.                                           *)
LEMMA PrevOK ==
  ASSUME NEW a \in Anchor
  PROVE  /\ prev(a) \in Anchor
         /\ height(a) = 0 => prev(a) = a
         /\ height(a) > 0 => prev(a) = ancestor(a, height(a) - 1) /\ height(prev(a)) = height(a) - 1
<1>1. height(a) \in Nat
  BY AncestorEnds
<1>2. CASE height(a) = 0
  <2>1. prev(a) = SubSeq(a, 1, -1)
    BY <1>2 DEF prev, ancestor
  <2>2. SubSeq(a, 1, -1) = <<>>
    BY SubSeqEmpty
  <2>3. a = <<>>
    BY <1>2, AncestorEnds
  <2>4. prev(a) = a
    BY <2>1, <2>2, <2>3, Zenon
  <2>5. ~(height(a) > 0)
    BY <1>2
  <2> QED BY <2>4, <2>5
<1>3. CASE height(a) > 0
  <2>1. height(a) - 1 \in 0..height(a)
    BY <1>1, <1>3
  <2>2. prev(a) = ancestor(a, height(a) - 1)
    BY DEF prev
  <2> QED BY <2>1, <2>2, <1>3, AncestorOK
<1> QED BY <1>1, <1>2, <1>3

(* A walk in a rooted set goes down to its root, ...                       *)
LEMMA WalkRooted ==
  ASSUME NEW H \in SUBSET Anchor, NEW l \in Nat, Rooted(H, l), NEW a \in H
  PROVE  Walk(H, a) = l..height(a) /\ height(a) \in Nat /\ l <= height(a)
<1> DEFINE m == Min(Walk(H, a))
<1>1. a \in Anchor /\ height(a) \in Nat /\ l <= height(a)
  BY AncestorEnds DEF Rooted
<1>2. Walk(H, a) \subseteq 0..height(a) /\ height(a) \in Walk(H, a)
  BY <1>1, WalkOK
<1>3. m \in Walk(H, a) /\ \A h \in Walk(H, a) : m <= h
  <2>1. Walk(H, a) \subseteq Nat /\ Walk(H, a) # {}
    BY <1>2
  <2> QED BY <2>1, MinExists
<1> HIDE DEF m
<1>4. m \in 0..height(a)
  BY <1>2, <1>3
<1>5. m \in m..height(a)
  BY <1>4, <1>1
<1>6. ancestor(a, m) \in H /\ height(ancestor(a, m)) = m
  BY <1>1, <1>3, <1>4, <1>5, WalkOK, AncestorOK
<1>7. l <= m
  BY <1>6 DEF Rooted
<1>8. ASSUME l < m PROVE FALSE
  <2>1. prev(ancestor(a, m)) \in H
    BY <1>6, <1>8 DEF Rooted
  <2>2. m > 0
    BY <1>4, <1>8
  <2>3. prev(ancestor(a, m)) = ancestor(ancestor(a, m), m - 1)
    BY <1>6, <2>2, PrevOK
  <2>4. m - 1 \in 0..m /\ m - 1 \in 0..height(a)
    BY <1>4, <1>1, <2>2
  <2>5. ancestor(a, m - 1) \in H
    BY <2>1, <2>3, <2>4, <1>1, <1>4, AncestorOK
  <2>6. ASSUME NEW i \in (m - 1)..height(a) PROVE ancestor(a, i) \in H
    <3>1. CASE i = m - 1
      BY <3>1, <2>5
    <3>2. CASE i # m - 1
      <4>1. i \in m..height(a)
        BY <3>2, <1>4, <1>1
      <4> QED BY <4>1, <1>1, <1>3, WalkOK
    <3> QED BY <3>1, <3>2
  <2>7. m - 1 \in Walk(H, a)
    BY <2>4, <2>6, <1>1, WalkOK
  <2> QED BY <2>7, <1>3, <1>4
<1>9. m = l
  BY <1>4, <1>7, <1>8
<1>10. ASSUME NEW h \in l..height(a) PROVE h \in Walk(H, a)
  BY <1>10, <1>9, <1>1, <1>3, WalkOK
<1>11. ASSUME NEW h \in Walk(H, a) PROVE h \in l..height(a)
  BY <1>2, <1>3, <1>9
<1> QED BY <1>1, <1>10, <1>11

(* ... and so two sets, one of them with all there is and the other down   *)
(* to height l, give the same answers to whatever looks no deeper.         *)
Views(H, W, l) ==
  /\ H \in SUBSET Anchor /\ W \in SUBSET Anchor /\ H \subseteq W
  /\ l \in Nat /\ Rooted(H, l) /\ Rooted(W, 0)

LEMMA ViewsWalk ==
  ASSUME NEW H, NEW W, NEW l, Views(H, W, l), NEW a \in H
  PROVE  /\ a \in Anchor /\ a \in W /\ height(a) \in Nat /\ l \in Nat /\ l <= height(a)
         /\ Walk(H, a) = l..height(a) /\ Walk(W, a) = 0..height(a)
<1>1. a \in Anchor /\ a \in W /\ H \in SUBSET Anchor /\ W \in SUBSET Anchor /\ l \in Nat /\ 0 \in Nat
  BY DEF Views
<1>2. Walk(H, a) = l..height(a) /\ height(a) \in Nat /\ l <= height(a)
  BY <1>1, WalkRooted DEF Views
<1>3. Walk(W, a) = 0..height(a)
  BY <1>1, WalkRooted DEF Views
<1> QED BY <1>1, <1>2, <1>3

(* They agree on what an anchor descends from, ...                         *)
LEMMA SameDescent ==
  ASSUME NEW H, NEW W, NEW l, Views(H, W, l), NEW a \in H, NEW x, height(x) \in Nat, l <= height(x)
  PROVE  descendsFrom(H, a, x) <=> descendsFrom(W, a, x)
<1>1. height(x) \in Walk(H, a) <=> height(x) \in Walk(W, a)
  BY ViewsWalk
<1> QED BY <1>1 DEF descendsFrom

(* ... on what is to be locked or settled in place of what is, ...         *)
LEMMA SameHigher ==
  ASSUME NEW H, NEW W, NEW l, Views(H, W, l), NEW a \in H, NEW cur \in H, NEW k \in Nat
  PROVE  Higher(H, cur, finalized(H, a, k)) = Higher(W, cur, finalized(W, a, k))
<1> DEFINE F == finalized(H, a, k)
           G == finalized(W, a, k)
           d == height(a) - k
<1>1. /\ a \in Anchor /\ a \in W /\ height(a) \in Nat /\ l \in Nat /\ l <= height(a)
      /\ Walk(H, a) = l..height(a) /\ Walk(W, a) = 0..height(a)
  BY ViewsWalk
<1>2. cur \in W /\ height(cur) \in Nat /\ l <= height(cur)
  BY ViewsWalk
<1>3. Min(Walk(H, a)) = l /\ Min(Walk(W, a)) = 0
  <2>1. Min(l..height(a)) = l
    <3>1. l..height(a) \subseteq Nat /\ l \in l..height(a)
      BY <1>1
    <3>2. Min(l..height(a)) \in l..height(a) /\ \A x \in l..height(a) : Min(l..height(a)) <= x
      BY <3>1, MinExists
    <3> QED BY <3>1, <3>2
  <2>2. Min(0..height(a)) = 0
    <3>1. 0..height(a) \subseteq Nat /\ 0 \in 0..height(a)
      BY <1>1
    <3>2. Min(0..height(a)) \in 0..height(a) /\ \A x \in 0..height(a) : Min(0..height(a)) <= x
      BY <3>1, MinExists
    <3> QED BY <3>1, <3>2
  <2> QED BY <2>1, <2>2, <1>1
<1>4. d \in Int /\ d <= height(a)
  BY <1>1
<1>5. F = ancestor(a, Max({d, l})) /\ G = ancestor(a, Max({d, 0}))
  BY <1>3 DEF finalized
<1> HIDE DEF d, F, G
<1>6. CASE d >= l
  <2>1. Max({d, l}) = d /\ Max({d, 0}) = d
    BY <1>1, <1>4, <1>6, MaxOfTwo
  <2>2. F = G
    BY <2>1, <1>5
  <2> QED BY <2>2, <1>2 DEF Higher, F, G
<1>7. CASE ~(d >= l)
  <2>1. Max({d, l}) = l /\ Max({d, 0}) = IF d >= 0 THEN d ELSE 0
    BY <1>1, <1>4, <1>7, MaxOfTwo
  <2>2. Max({d, 0}) \in 0..l
    BY <2>1, <1>1, <1>4, <1>7
  <2>3. Max({d, 0}) \in 0..height(a) /\ l \in 0..height(a)
    BY <2>2, <1>1
  <2>4. height(F) = l /\ height(G) = Max({d, 0})
    BY <2>1, <2>3, <1>1, <1>5, AncestorOK
  <2>5. ~(height(F) > height(cur)) /\ ~(height(G) > height(cur))
    BY <2>2, <2>4, <1>1, <1>2
  <2> QED BY <2>5, <1>2 DEF Higher, F, G
<1> QED BY <1>6, <1>7

(* ... and on a fork at or above an anchor that leaves the margin.         *)
LEMMA SameFork ==
  ASSUME NEW H, NEW W, NEW l, Views(H, W, l), NEW a \in H, NEW t \in H,
         NEW x, descendsFrom(H, a, x), descendsFrom(H, t, x),
         l = 0 \/ l + FORK_WINDOW <= height(x) + 1
  PROVE  resolveFork(H, a, t) = resolveFork(W, a, t)
<1> DEFINE f == Max(Shared(H, a, t))
           g == Max(Shared(W, a, t))
           S == Shared(H, a, t)
           T == Shared(W, a, t)
<1>1. /\ a \in Anchor /\ height(a) \in Nat /\ l \in Nat /\ l <= height(a)
      /\ Walk(H, a) = l..height(a) /\ Walk(W, a) = 0..height(a) /\ a \in W
  BY ViewsWalk
<1>2. /\ t \in Anchor /\ height(t) \in Nat /\ l <= height(t)
      /\ Walk(H, t) = l..height(t) /\ Walk(W, t) = 0..height(t) /\ t \in W
  BY ViewsWalk
<1>3. /\ height(x) \in Nat /\ height(x) \in Walk(H, a) /\ height(x) \in Walk(H, t)
      /\ ancestor(a, height(x)) = ancestor(t, height(x))
  BY <1>1, <1>2, DescendsOK
<1>4. height(x) \in S /\ S \subseteq T /\ l <= height(x) /\ height(x) <= height(a)
  BY <1>1, <1>2, <1>3 DEF Shared
<1>5. \A h \in T : h >= l => h \in S
  BY <1>1, <1>2 DEF Shared
<1>6. /\ f \in Walk(H, a) /\ f \in Walk(H, t) /\ ancestor(a, f) = ancestor(t, f) /\ f \in Nat
      /\ \A h \in S : h <= f
  BY <1>1, <1>2, <1>4, SharedOK
<1>7. /\ g \in Walk(W, a) /\ g \in Walk(W, t) /\ ancestor(a, g) = ancestor(t, g) /\ g \in Nat
      /\ \A h \in T : h <= g
  BY <1>1, <1>2, <1>4, SharedOK
<1>8. f \in S /\ g \in T
  BY <1>6, <1>7 DEF Shared
<1>9. S # {} /\ T # {}
  BY <1>4
<1> DEFINE v == CASE Final(H, t, a, f) -> [switchTo |-> None, final |-> FALSE]
                  [] ~Final(H, t, a, f) /\ Final(H, a, t, f) ->
                       [switchTo |-> ancestor(a, f + 1), final |-> TRUE]
                  [] OTHER -> [switchTo |-> ancestor(a, f), final |-> FALSE]
           w == CASE Final(W, t, a, g) -> [switchTo |-> None, final |-> FALSE]
                  [] ~Final(W, t, a, g) /\ Final(W, a, t, g) ->
                       [switchTo |-> ancestor(a, g + 1), final |-> TRUE]
                  [] OTHER -> [switchTo |-> ancestor(a, g), final |-> FALSE]
<1>10. resolveFork(H, a, t) = v
  <2>1. S # {}
    BY <1>9
  <2> HIDE DEF v
  <2> QED BY <2>1, Zenon DEF resolveFork, v
<1>11. resolveFork(W, a, t) = w
  <2>1. T # {}
    BY <1>9
  <2> HIDE DEF w
  <2> QED BY <2>1, Zenon DEF resolveFork, w
<1> HIDE DEF f, g, S, T
<1>12. f = g /\ height(x) <= f /\ f <= height(a) /\ f <= height(t)
  BY <1>1, <1>2, <1>3, <1>4, <1>5, <1>6, <1>7, <1>8
<1>13. ASSUME NEW b \in H, f <= height(b) PROVE Reference(H, ancestor(b, f)) = Reference(W, ancestor(b, f))
  <2>1. /\ b \in Anchor /\ height(b) \in Nat /\ Walk(H, b) = l..height(b)
        /\ Walk(W, b) = 0..height(b)
    BY ViewsWalk
  <2>2. f \in Walk(H, b) /\ f \in Walk(W, b) /\ f \in 0..height(b)
    BY <2>1, <1>1, <1>4, <1>6, <1>12, <1>13, <1>3
  <2>b. b \in Anchor
    BY <2>1
  <2>c. ASSUME NEW K, f \in Walk(K, b)
        PROVE  Walk(K, ancestor(b, f)) = {i \in Walk(K, b) : i <= f}
    BY <2>b, <2>c, WalkBelow
  <2>3. Walk(H, ancestor(b, f)) = {i \in l..height(b) : i <= f}
    BY <2>1, <2>2, <2>c
  <2>4. Walk(W, ancestor(b, f)) = {i \in 0..height(b) : i <= f}
    BY <2>1, <2>2, <2>c
  <2>5. height(ancestor(b, f)) = f
    BY <2>1, <2>2, AncestorOK
  <2>6. FORK_WINDOW \in Nat
    BY ChainAssumption
  <2>7. \A h \in 1..f : h > f - FORK_WINDOW =>
          (h \in Walk(H, ancestor(b, f)) <=> h \in Walk(W, ancestor(b, f)))
    BY <2>1, <2>2, <2>3, <2>4, <2>6, <1>1, <1>3, <1>6, <1>12
  <2> QED BY <2>5, <2>7, Zenon DEF Reference
<1>14. (Final(H, a, t, f) <=> Final(W, a, t, f)) /\ (Final(H, t, a, f) <=> Final(W, t, a, f))
  BY <1>12, <1>13, Zenon DEF Final
<1> QED BY <1>10, <1>11, <1>12, <1>14

(* The same difficulty is demanded above an anchor that leaves the margin. *)
LEMMA SameDifficulty ==
  ASSUME NEW H, NEW W, NEW l, Views(H, W, l), NEW a \in H,
         l = 0 \/ l + schedule.window <= height(a) + 1
  PROVE  difficultyFor(H, a) = difficultyFor(W, a)
<1>1. /\ a \in Anchor /\ height(a) \in Nat /\ l \in Nat /\ l <= height(a)
      /\ Walk(H, a) = l..height(a) /\ Walk(W, a) = 0..height(a)
  BY ViewsWalk
<1>2. schedule.window \in Nat
  BY ChainAssumption
<1>3. Window(Walk(H, a), a) = Window(Walk(W, a), a)
  BY <1>1, <1>2 DEF Window
<1> QED BY <1>3, Zenon DEF difficultyFor

(* A choice leaves what is held, and locks and settles as setTip does.     *)
LEMMA SetTipIs ==
  ASSUME NEW c, KeptOK(c), NEW a, NEW lock
  PROVE  /\ Choice(setTip(c, a, lock)) =
              <<a, Higher(c.anchors, lock, finalized(c.anchors, a, lockDepth)),
                Higher(c.anchors, c.settled, finalized(c.anchors, a, settleDepth))>>
         /\ setTip(c, a, lock).anchors = c.anchors
<1> DEFINE locked == Higher(c.anchors, lock, finalized(c.anchors, a, lockDepth))
           settled == Higher(c.anchors, c.settled, finalized(c.anchors, a, settleDepth))
           d == setTip(c, a, lock)
<1>1. c \in [anchors : SUBSET Anchor, tip : Anchor, locked : Anchor, settled : Anchor,
             floor : Nat, conflict : BOOLEAN]
  BY DEF KeptOK
<1>2. d = [[[c EXCEPT !.tip = a] EXCEPT !.locked = locked] EXCEPT !.settled = settled]
  BY <1>1, Zenon DEF setTip
<1> HIDE DEF locked, settled, d
<1>3. d.tip = a /\ d.locked = locked /\ d.settled = settled /\ d.anchors = c.anchors
  BY <1>1, <1>2
<1> QED BY <1>3 DEF Choice, locked, settled, d

LEMMA ChooseHolds ==
  ASSUME NEW c, KeptOK(c), NEW a
  PROVE  choose(c, a).anchors = c.anchors
<1> DEFINE d == choose(c, a)
<1>1. \/ \E lock : d = setTip(c, a, lock)
      \/ d = [c EXCEPT !.conflict = TRUE]
      \/ d = c
  <2> DEFINE follows == descendsFrom(c.anchors, a, c.locked)
             best == heavier(a, c.tip)
             verdict == resolveFork(c.anchors, a, c.tip)
             wins == verdict.switchTo # None /\ (verdict.final \/ best)
             lock == relock(c, verdict)
  <2>1. d = CASE follows /\ best -> setTip(c, a, c.locked)
              [] ~follows /\ wins /\ loyal(c, a) -> setTip(c, a, lock)
              [] ~follows /\ wins /\ ~loyal(c, a) -> [c EXCEPT !.conflict = TRUE]
              [] OTHER -> c
    BY Zenon DEF choose
  <2> HIDE DEF d, follows, best, verdict, wins, lock
  <2>2. CASE follows /\ best
    <3>1. d = setTip(c, a, c.locked)
      BY <2>1, <2>2
    <3> QED BY <3>1
  <2>3. CASE ~follows /\ wins /\ loyal(c, a)
    <3>1. d = setTip(c, a, lock)
      BY <2>1, <2>3
    <3> QED BY <3>1
  <2>4. CASE ~follows /\ wins /\ ~loyal(c, a)
    <3>1. d = [c EXCEPT !.conflict = TRUE]
      BY <2>1, <2>4
    <3> QED BY <3>1
  <2>5. CASE ~(follows /\ best) /\ ~(~follows /\ wins)
    <3>1. d = c
      BY <2>1, <2>5
    <3> QED BY <3>1
  <2> QED BY <2>2, <2>3, <2>4, <2>5
<1> HIDE DEF d
<1>2. c \in [anchors : SUBSET Anchor, tip : Anchor, locked : Anchor, settled : Anchor,
             floor : Nat, conflict : BOOLEAN]
  BY DEF KeptOK
<1>3. ASSUME NEW lock, d = setTip(c, a, lock) PROVE d.anchors = c.anchors
  BY <1>3, SetTipIs, Zenon
<1>4. ASSUME d = [c EXCEPT !.conflict = TRUE] PROVE d.anchors = c.anchors
  BY <1>2, <1>4
<1>5. d.anchors = c.anchors
  BY <1>1, <1>3, <1>4
<1> QED BY <1>5 DEF d

(* A branch without what is settled is not followed.                       *)
LEMMA DisloyalIgnored ==
  ASSUME NEW c, KeptOK(c), NEW a \in c.anchors, ~descendsFrom(c.anchors, a, c.settled)
  PROVE  Choice(choose(c, a)) = Choice(c)
<1> DEFINE follows == descendsFrom(c.anchors, a, c.locked)
           best == heavier(a, c.tip)
           verdict == resolveFork(c.anchors, a, c.tip)
           wins == verdict.switchTo # None /\ (verdict.final \/ best)
           lock == relock(c, verdict)
           d == choose(c, a)
<1>1. /\ c \in [anchors : SUBSET Anchor, tip : Anchor, locked : Anchor, settled : Anchor,
                floor : Nat, conflict : BOOLEAN]
      /\ a \in Anchor /\ descendsFrom(c.anchors, c.locked, c.settled)
  BY DEF KeptOK
<1>2. ~follows /\ ~loyal(c, a)
  BY <1>1, DescendsThrough DEF loyal
<1>3. d = CASE follows /\ best -> setTip(c, a, c.locked)
            [] ~follows /\ wins /\ loyal(c, a) -> setTip(c, a, lock)
            [] ~follows /\ wins /\ ~loyal(c, a) -> [c EXCEPT !.conflict = TRUE]
            [] OTHER -> c
  BY Zenon DEF choose
<1> HIDE DEF d, follows, best, verdict, wins, lock
<1>4. d = c \/ d = [c EXCEPT !.conflict = TRUE]
  BY <1>2, <1>3
<1>5. d.tip = c.tip /\ d.locked = c.locked /\ d.settled = c.settled
  BY <1>1, <1>4
<1> QED BY <1>5 DEF Choice, d

(* The choice is made alike.                                               *)
LEMMA SameChoice ==
  ASSUME NEW c, KeptOK(c), NEW e, KeptOK(e),
         NEW l, Views(c.anchors, e.anchors, l), Choice(c) = Choice(e),
         l = 0 \/ l + FORK_WINDOW <= height(c.settled) + 1, l <= height(c.settled),
         NEW a \in c.anchors
  PROVE  Choice(choose(c, a)) = Choice(choose(e, a))
<1> DEFINE H == c.anchors
           W == e.anchors
           v == resolveFork(H, a, c.tip)
           w == resolveFork(W, a, c.tip)
           follows == descendsFrom(H, a, c.locked)
           best == heavier(a, c.tip)
           wins(u) == u.switchTo # None /\ (u.final \/ best)
           d == choose(c, a)
           g == choose(e, a)
<1>1. /\ c.tip \in H /\ c.tip \in Anchor /\ c.locked \in Anchor /\ c.settled \in Anchor
      /\ H \in SUBSET Anchor /\ W \in SUBSET Anchor
      /\ descendsFrom(H, c.tip, c.locked) /\ descendsFrom(H, c.locked, c.settled)
  BY DEF KeptOK
<1>2. e.tip = c.tip /\ e.locked = c.locked /\ e.settled = c.settled
  BY DEF Choice
<1>3. /\ c.locked \in H /\ c.settled \in H /\ height(c.locked) \in Nat /\ height(c.settled) \in Nat
      /\ height(c.settled) <= height(c.locked) /\ l \in Nat
  BY <1>1, DescendsOK DEF Views
<1>4. l <= height(c.locked) /\ l <= height(c.settled)
  BY <1>3
<1>5. follows <=> descendsFrom(W, a, c.locked)
  BY <1>3, <1>4, SameDescent
<1>6. descendsFrom(H, a, c.settled) <=> descendsFrom(W, a, c.settled)
  BY <1>3, <1>4, SameDescent
<1>7. loyal(c, a) <=> loyal(e, a)
  BY <1>2, <1>6, Zenon DEF loyal
<1>8. d = CASE follows /\ best -> setTip(c, a, c.locked)
            [] ~follows /\ wins(v) /\ loyal(c, a) -> setTip(c, a, v.switchTo)
            [] ~follows /\ wins(v) /\ ~loyal(c, a) -> [c EXCEPT !.conflict = TRUE]
            [] OTHER -> c
  BY Zenon DEF choose, relock
<1>9. g = CASE follows /\ best -> setTip(e, a, c.locked)
            [] ~follows /\ wins(w) /\ loyal(c, a) -> setTip(e, a, w.switchTo)
            [] ~follows /\ wins(w) /\ ~loyal(c, a) -> [e EXCEPT !.conflict = TRUE]
            [] OTHER -> e
  <2> DEFINE x == resolveFork(e.anchors, a, e.tip)
             f == descendsFrom(e.anchors, a, e.locked)
             b == heavier(a, e.tip)
             o == x.switchTo # None /\ (x.final \/ b)
  <2>1. g = CASE f /\ b -> setTip(e, a, e.locked)
              [] ~f /\ o /\ loyal(e, a) -> setTip(e, a, x.switchTo)
              [] ~f /\ o /\ ~loyal(e, a) -> [e EXCEPT !.conflict = TRUE]
              [] OTHER -> e
    BY Zenon DEF choose, relock
  <2>2. x = w /\ (f <=> follows) /\ b = best /\ e.locked = c.locked
    BY <1>2, <1>5
  <2>3. o <=> wins(w)
    BY <2>2
  <2> HIDE DEF g, x, f, b, o, w, follows, best, wins
  <2> QED BY <2>1, <2>2, <2>3, <1>7
<1> HIDE DEF d, g
<1>10. ASSUME NEW lock \in H
       PROVE  Choice(setTip(c, a, lock)) = Choice(setTip(e, a, lock))
  <2>1. lockDepth \in Nat /\ settleDepth \in Nat
    BY ChainAssumption
  <2>2. Higher(H, lock, finalized(H, a, lockDepth)) = Higher(W, lock, finalized(W, a, lockDepth))
    BY <2>1, SameHigher
  <2>3. Higher(H, c.settled, finalized(H, a, settleDepth)) =
          Higher(W, c.settled, finalized(W, a, settleDepth))
    BY <2>1, <1>3, SameHigher
  <2>4. Choice(setTip(c, a, lock)) =
          <<a, Higher(H, lock, finalized(H, a, lockDepth)),
            Higher(H, c.settled, finalized(H, a, settleDepth))>>
    BY SetTipIs, Zenon
  <2>5. Choice(setTip(e, a, lock)) =
          <<a, Higher(W, lock, finalized(W, a, lockDepth)),
            Higher(W, e.settled, finalized(W, a, settleDepth))>>
    BY SetTipIs, Zenon
  <2> QED BY <2>2, <2>3, <2>4, <2>5, <1>2, Zenon
<1>11. Choice([c EXCEPT !.conflict = TRUE]) = Choice(c) /\ Choice([e EXCEPT !.conflict = TRUE]) = Choice(c)
  <2>1. ASSUME NEW r, KeptOK(r) PROVE Choice([r EXCEPT !.conflict = TRUE]) = Choice(r)
    <3>1. r \in [anchors : SUBSET Anchor, tip : Anchor, locked : Anchor, settled : Anchor,
                 floor : Nat, conflict : BOOLEAN]
      BY <2>1 DEF KeptOK
    <3> QED BY <3>1 DEF Choice
  <2> QED BY <2>1
<1>12. CASE descendsFrom(H, a, c.settled)
  <2>1. descendsFrom(H, c.tip, c.settled)
    BY <1>1, DescendsThrough
  <2>2. v = w
    BY <2>1, <1>1, <1>12, SameFork
  <2>3. ASSUME wins(v) PROVE v.switchTo \in H
    <3>1. v.switchTo # None
      BY <2>3
    <3>2. a \in Anchor
      BY <1>1
    <3>3. descendsFrom(H, a, v.switchTo)
      BY <3>1, <3>2, <1>1, ForkOK
    <3> QED BY <3>2, <3>3, DescendsOK
  <2> HIDE DEF v, w, follows, best, H, W
  <2>4. CASE follows /\ best
    <3>1. d = setTip(c, a, c.locked) /\ g = setTip(e, a, c.locked)
      BY <2>4, <1>8, <1>9
    <3> QED BY <3>1, <1>3, <1>10 DEF d, g
  <2>5. CASE ~follows /\ wins(v) /\ loyal(c, a)
    <3> DEFINE s == v.switchTo
    <3>1. s \in H
      BY <2>5, <2>3
    <3>2. d = setTip(c, a, s) /\ g = setTip(e, a, s)
      <4> HIDE DEF wins
      <4> QED BY <2>5, <2>2, <1>8, <1>9
    <3> HIDE DEF s
    <3> QED BY <3>1, <3>2, <1>10 DEF d, g
  <2>6. CASE ~follows /\ wins(v) /\ ~loyal(c, a)
    <3>1. d = [c EXCEPT !.conflict = TRUE] /\ g = [e EXCEPT !.conflict = TRUE]
      <4> HIDE DEF wins
      <4> QED BY <2>6, <2>2, <1>8, <1>9
    <3> QED BY <3>1, <1>11 DEF d, g
  <2>7. CASE ~(follows /\ best) /\ ~(~follows /\ wins(v))
    <3>1. d = c /\ g = e
      <4> HIDE DEF wins
      <4> QED BY <2>7, <2>2, <1>8, <1>9
    <3> QED BY <3>1 DEF d, g
  <2> QED BY <2>4, <2>5, <2>6, <2>7
<1>13. CASE ~descendsFrom(H, a, c.settled)
  <2>1. Choice(d) = Choice(c)
    BY <1>13, DisloyalIgnored DEF d
  <2>2. a \in W /\ ~descendsFrom(W, a, e.settled)
    BY <1>2, <1>6, <1>13, ViewsWalk
  <2>3. Choice(g) = Choice(e)
    BY <2>2, DisloyalIgnored DEF g
  <2> QED BY <2>1, <2>3 DEF d, g
<1> QED BY <1>12, <1>13

(* Where checkpoints are taken: not above the anchor, and no lower for a   *)
(* higher one.                                                             *)
LEMMA BoundaryOK ==
  ASSUME NEW a \in Anchor
  PROVE  /\ Boundary(a) \in Anchor /\ height(Boundary(a)) \in 0..height(a)
         /\ height(Boundary(Boundary(a))) = height(Boundary(a))
         /\ \A b \in Anchor : height(a) <= height(b) => height(Boundary(a)) <= height(Boundary(b))
<1> DEFINE k == CHECKPOINT_EVERY
           mark(x) == (height(x) \div k) * k
<1>1. k \in Nat \ {0}
  BY ChainAssumption
<1> HIDE DEF k
<1>2. ASSUME NEW x \in Anchor
      PROVE  /\ Boundary(x) \in Anchor /\ height(Boundary(x)) = mark(x)
             /\ mark(x) \in 0..height(x) /\ height(x) < mark(x) + k
             /\ height(x) \div k \in Nat
  <2> DEFINE n == height(x)
  <2>1. n \in Nat
    BY <1>2, AncestorEnds
  <2> HIDE DEF n
  <2>2. n \div k \in Nat /\ k * (n \div k) <= n /\ n < k * (n \div k) + k
    BY <2>1, <1>1
  <2>3. k * (n \div k) = (n \div k) * k
    BY <2>2, <1>1
  <2> DEFINE m == (n \div k) * k
  <2>4. m \in Int
    BY <2>2, <1>1
  <2>5. m >= 0
    BY <2>2, <1>1
  <2>6. m = mark(x) /\ m = k * (n \div k)
    BY <2>3 DEF n
  <2> HIDE DEF m, mark
  <2>7. m \in 0..n /\ n < m + k
    BY <2>1, <2>2, <2>4, <2>5, <2>6, <1>1
  <2>8. Boundary(x) = ancestor(x, mark(x))
    BY DEF Boundary, mark, k
  <2>9. mark(x) \in 0..height(x)
    BY <2>6, <2>7 DEF n
  <2>10. Boundary(x) \in Anchor /\ height(Boundary(x)) = mark(x)
    BY <2>8, <2>9, <1>2, AncestorOK
  <2> QED BY <2>2, <2>6, <2>7, <2>9, <2>10 DEF n
<1>3. ASSUME NEW x \in Anchor, NEW y \in Anchor, height(x) <= height(y) PROVE mark(x) <= mark(y)
  <2> DEFINE p == height(x) \div k
             q == height(y) \div k
  <2>1. p \in Nat /\ q \in Nat /\ mark(x) = p * k /\ mark(y) = q * k
    BY <1>2, <1>3
  <2>2. mark(x) \in 0..height(x) /\ height(y) < mark(y) + k /\ mark(y) \in 0..height(y)
    BY <1>2, <1>3
  <2>3. height(x) \in Nat /\ height(y) \in Nat
    BY <1>3, AncestorEnds
  <2> HIDE DEF mark, p, q
  <2>4. ASSUME q < p PROVE FALSE
    <3>1. (q + 1) * k <= p * k
      <4>1. q + 1 <= p
        BY <2>1, <2>4
      <4> QED BY <4>1, <2>1, <1>1
    <3>2. (q + 1) * k = q * k + k
      BY <2>1, <1>1
    <3>3. mark(y) + k <= mark(x)
      BY <3>1, <3>2, <2>1
    <3> QED BY <3>3, <2>2, <2>3, <1>1, <1>3
  <2>5. p * k <= q * k
    <3>1. p <= q
      BY <2>1, <2>4
    <3> QED BY <3>1, <2>1, <1>1
  <2> QED BY <2>1, <2>5
<1>4. height(Boundary(Boundary(a))) = height(Boundary(a))
  <2> DEFINE b == Boundary(a)
             p == height(a) \div k
  <2>1. b \in Anchor /\ height(b) = p * k /\ p \in Nat /\ height(Boundary(b)) = mark(b)
    BY <1>2
  <2> HIDE DEF b, p
  <2>2. (p * k) \div k = p
    BY <2>1, <1>1
  <2>3. mark(b) = p * k
    BY <2>1, <2>2
  <2> QED BY <2>1, <2>3 DEF b
<1> QED BY <1>2, <1>3, <1>4

(* With all the ancestors of what it holds a node has chosen the same, and *)
(* it holds of them what is above its root.                                *)
LEMMA WholeOK ==
  ASSUME NEW c, KeptOK(c), NEW l \in Nat, Rooted(c.anchors, l)
  PROVE  /\ KeptOK(Whole(c)) /\ Choice(Whole(c)) = Choice(c)
         /\ Views(c.anchors, Whole(c).anchors, l)
         /\ \A a \in Whole(c).anchors : height(a) >= l => a \in c.anchors
         /\ Whole(c) = [c EXCEPT !.anchors = Whole(c).anchors]
<1> DEFINE H == c.anchors
           W == UNION {upTo(a) : a \in H}
           e == Whole(c)
<1>1. /\ c \in [anchors : SUBSET Anchor, tip : Anchor, locked : Anchor, settled : Anchor,
                floor : Nat, conflict : BOOLEAN]
      /\ c.tip \in H /\ H \in SUBSET Anchor
      /\ descendsFrom(H, c.tip, c.locked) /\ descendsFrom(H, c.locked, c.settled)
  BY DEF KeptOK
<1>2. \A x : x \in W <=> \E a \in H : \E h \in 0..height(a) : x = ancestor(a, h)
  BY DEF upTo
<1>3. e = [c EXCEPT !.anchors = W]
  BY DEF Whole
<1> HIDE DEF W, H, e
<1>4. W \in SUBSET Anchor
  BY <1>1, <1>2, AncestorOK
<1>5. H \subseteq W
  <2> SUFFICES ASSUME NEW a \in H PROVE a \in W
    OBVIOUS
  <2>1. a \in Anchor /\ height(a) \in Nat /\ ancestor(a, height(a)) = a
    BY <1>1, AncestorEnds
  <2>2. height(a) \in 0..height(a)
    BY <2>1
  <2> QED BY <2>1, <2>2, <1>2
<1>6. Rooted(W, 0)
  <2> SUFFICES ASSUME NEW b \in W PROVE height(b) >= 0 /\ (height(b) > 0 => prev(b) \in W)
    BY DEF Rooted
  <2>1. PICK a \in H : \E h \in 0..height(a) : b = ancestor(a, h)
    BY <1>2
  <2>a. PICK h \in 0..height(a) : b = ancestor(a, h)
    BY <2>1
  <2>2. a \in Anchor /\ height(b) = h /\ b \in Anchor /\ height(a) \in Nat
    BY <2>a, <1>1, AncestorOK, AncestorEnds
  <2>3. ASSUME h > 0 PROVE prev(b) \in W
    <3>1. h - 1 \in 0..h /\ h - 1 \in 0..height(a)
      BY <2>2, <2>3
    <3>2. prev(b) = ancestor(b, h - 1)
      BY <2>2, <2>3, PrevOK
    <3>3. prev(b) = ancestor(a, h - 1)
      BY <3>1, <3>2, <2>a, <2>2, AncestorOK
    <3> QED BY <3>1, <3>3, <1>2
  <2> QED BY <2>2, <2>3
<1>7. /\ e \in [anchors : SUBSET Anchor, tip : Anchor, locked : Anchor, settled : Anchor,
                floor : Nat, conflict : BOOLEAN]
      /\ e.anchors = W /\ e.tip = c.tip /\ e.locked = c.locked /\ e.settled = c.settled
  BY <1>1, <1>3, <1>4
<1>8. descendsFrom(W, c.tip, c.locked) /\ descendsFrom(W, c.locked, c.settled)
  BY <1>1, <1>5, DescendsInMore
<1>9. KeptOK(e)
  BY <1>1, <1>5, <1>7, <1>8 DEF KeptOK
<1>10. Views(H, W, l)
  BY <1>1, <1>4, <1>5, <1>6 DEF Views, H
<1>11. ASSUME NEW b \in W, height(b) >= l PROVE b \in H
  <2>1. PICK a \in H : \E h \in 0..height(a) : b = ancestor(a, h)
    BY <1>2
  <2>a. PICK h \in 0..height(a) : b = ancestor(a, h)
    BY <2>1
  <2>2. a \in Anchor /\ height(b) = h
    BY <2>a, <1>1, AncestorOK
  <2>3. Walk(H, a) = l..height(a)
    BY <1>10, ViewsWalk
  <2>4. h \in Walk(H, a) /\ h \in h..height(a)
    BY <2>2, <2>3, <1>11
  <2> QED BY <2>a, <2>2, <2>4, WalkOK
<1>12. Choice(e) = Choice(c)
  BY <1>7 DEF Choice
<1> QED BY <1>3, <1>7, <1>9, <1>10, <1>11, <1>12 DEF H, e

(* So much is left below what is settled.                                  *)
LEMMA SpareOK ==
  ASSUME NEW s \in Anchor, NEW l \in Nat, Spare(s, l), MarginCovers
  PROVE  /\ l = 0 \/ l + FORK_WINDOW <= height(s) + 1
         /\ l = 0 \/ l + schedule.window <= height(s) + 1
         /\ l <= height(s)
<1>1. height(Boundary(s)) \in 0..height(s) /\ height(s) \in Nat
  BY BoundaryOK, AncestorEnds
<1>2. FORK_WINDOW \in Nat /\ schedule.window \in Nat \ {0} /\ Margin \in Int
  BY ChainAssumption, MarginOK
<1> QED BY <1>1, <1>2 DEF Spare, MarginCovers

(* An anchor on what a node holds is followed, or refused, as if nothing   *)
(* had been pruned.                                                        *)
LEMMA AddUnseen ==
  ASSUME NEW c, KeptOK(c), NEW l \in Nat, Rooted(c.anchors, l), Spare(c.settled, l), MarginCovers,
         NEW a \in Anchor, height(a) > 0, prev(a) \in c.anchors
  PROVE  Choice(add(c, a)) = Choice(add(Whole(c), a))
<1> DEFINE e == Whole(c)
           H == c.anchors
           W == e.anchors
           p == prev(a)
           c1 == [c EXCEPT !.anchors = @ \cup {a}]
           e1 == [e EXCEPT !.anchors = @ \cup {a}]
<1>1. /\ c \in [anchors : SUBSET Anchor, tip : Anchor, locked : Anchor, settled : Anchor,
                floor : Nat, conflict : BOOLEAN]
      /\ H \in SUBSET Anchor /\ c.settled \in Anchor /\ c.tip \in Anchor
      /\ descendsFrom(H, c.tip, c.locked) /\ descendsFrom(H, c.locked, c.settled) /\ c.tip \in H
      /\ c.locked \in Anchor
  BY DEF KeptOK
<1>2. /\ KeptOK(e) /\ Choice(e) = Choice(c) /\ Views(H, W, l)
      /\ \A b \in W : height(b) >= l => b \in H
  BY WholeOK
<1>3. /\ e \in [anchors : SUBSET Anchor, tip : Anchor, locked : Anchor, settled : Anchor,
                floor : Nat, conflict : BOOLEAN]
      /\ W \in SUBSET Anchor /\ e.settled = c.settled /\ e.tip = c.tip /\ e.locked = c.locked
      /\ descendsFrom(W, c.tip, c.locked) /\ descendsFrom(W, c.locked, c.settled) /\ c.tip \in W
  BY <1>2 DEF KeptOK, Choice
<1>4. /\ l = 0 \/ l + FORK_WINDOW <= height(c.settled) + 1
      /\ l = 0 \/ l + schedule.window <= height(c.settled) + 1
      /\ l <= height(c.settled) /\ height(c.settled) \in Nat
  BY <1>1, SpareOK, AncestorEnds
<1>5. /\ p \in H /\ p \in W /\ height(a) \in Nat /\ height(p) = height(a) - 1 /\ l <= height(p)
      /\ height(p) \in Nat
  BY <1>2, ViewsWalk, PrevOK, AncestorEnds
<1>6. c.settled \in H
  BY <1>1, DescendsOK
<1>7. add(c, a) = IF valid(c, a) THEN choose(c1, a) ELSE c
  BY Zenon DEF add
<1>8. add(e, a) = IF valid(e, a) THEN choose(e1, a) ELSE e
  BY Zenon DEF add
<1>9. valid(c, a) <=> a \notin H /\ difficulty(a) = difficultyFor(H, p)
  BY <1>5, Zenon DEF valid
<1>10. valid(e, a) <=> a \notin W /\ difficulty(a) = difficultyFor(W, p)
  BY <1>5, Zenon DEF valid
<1>11. CASE a \in W
  <2>1. a \in H
    BY <1>2, <1>5, <1>11
  <2>2. ~valid(c, a) /\ ~valid(e, a)
    BY <2>1, <1>9, <1>10, <1>11
  <2>3. add(c, a) = c /\ add(e, a) = e
    BY <2>2, <1>7, <1>8
  <2> QED BY <2>3, <1>2 DEF e
<1>12. CASE a \notin W
  <2> DEFINE H1 == H \cup {a}
             W1 == W \cup {a}
  <2>1. a \notin H
    BY <1>2, <1>12 DEF Views
  <2>2. Views(H1, W1, l)
    <3>1. Rooted(H1, l)
      <4> SUFFICES ASSUME NEW b \in H1 PROVE height(b) >= l /\ (height(b) > l => prev(b) \in H1)
        BY DEF Rooted
      <4>1. CASE b \in H
        BY <4>1 DEF Rooted
      <4>2. CASE b = a
        BY <4>2, <1>5
      <4> QED BY <4>1, <4>2
    <3>2. Rooted(W1, 0)
      <4> SUFFICES ASSUME NEW b \in W1 PROVE height(b) >= 0 /\ (height(b) > 0 => prev(b) \in W1)
        BY DEF Rooted
      <4>1. CASE b \in W
        BY <4>1, <1>2 DEF Rooted, Views
      <4>2. CASE b = a
        BY <4>2, <1>5
      <4> QED BY <4>1, <4>2
    <3> HIDE DEF e, H, W
    <3> QED BY <3>1, <3>2, <1>1, <1>2, <1>3 DEF Views
  <2> HIDE DEF e
  <2>3. /\ c1 \in [anchors : SUBSET Anchor, tip : Anchor, locked : Anchor, settled : Anchor,
                   floor : Nat, conflict : BOOLEAN]
        /\ c1.anchors = H1 /\ c1.tip = c.tip /\ c1.locked = c.locked /\ c1.settled = c.settled
    BY <1>1
  <2>4. /\ e1 \in [anchors : SUBSET Anchor, tip : Anchor, locked : Anchor, settled : Anchor,
                   floor : Nat, conflict : BOOLEAN]
        /\ e1.anchors = W1 /\ e1.tip = c.tip /\ e1.locked = c.locked /\ e1.settled = c.settled
    BY <1>3
  <2> HIDE DEF c1, e1
  <2>5. descendsFrom(H1, c.tip, c.locked) /\ descendsFrom(H1, c.locked, c.settled)
    BY <1>1, DescendsInMore
  <2>6. descendsFrom(W1, c.tip, c.locked) /\ descendsFrom(W1, c.locked, c.settled)
    BY <1>1, <1>3, DescendsInMore
  <2>7. KeptOK(c1) /\ KeptOK(e1) /\ Choice(c1) = Choice(c) /\ Choice(e1) = Choice(c)
    BY <1>1, <1>3, <2>3, <2>4, <2>5, <2>6 DEF KeptOK, Choice
  <2>8. CASE height(c.settled) <= height(p)
    <3>w. schedule.window \in Nat
      BY ChainAssumption
    <3>1. l = 0 \/ l + schedule.window <= height(p) + 1
      <4>1. CASE l = 0
        BY <4>1
      <4>2. CASE l + schedule.window <= height(c.settled) + 1
        BY <4>2, <2>8, <1>4, <1>5, <3>w
      <4> QED BY <4>1, <4>2, <1>4
    <3>2. difficultyFor(H, p) = difficultyFor(W, p)
      BY <3>1, <1>2, <1>5, SameDifficulty
    <3>3. valid(c, a) <=> valid(e, a)
      BY <3>2, <2>1, <1>9, <1>10, <1>12
    <3>4. Choice(choose(c1, a)) = Choice(choose(e1, a))
      <4>1. Views(c1.anchors, e1.anchors, l) /\ a \in c1.anchors /\ Choice(c1) = Choice(e1)
        BY <2>2, <2>3, <2>4, <2>7
      <4>2. (l = 0 \/ l + FORK_WINDOW <= height(c1.settled) + 1) /\ l <= height(c1.settled)
        BY <2>3, <1>4
      <4> QED BY <4>1, <4>2, <2>7, SameChoice
    <3>5. CASE valid(c, a)
      <4>1. add(c, a) = choose(c1, a) /\ add(e, a) = choose(e1, a)
        BY <3>3, <3>5, <1>7, <1>8
      <4> QED BY <4>1, <3>4 DEF e
    <3>6. CASE ~valid(c, a)
      <4>1. add(c, a) = c /\ add(e, a) = e
        BY <3>3, <3>6, <1>7, <1>8
      <4> QED BY <4>1, <1>2 DEF e
    <3> QED BY <3>5, <3>6
  <2>9. CASE ~(height(c.settled) <= height(p))
    <3>1. \A K : ~descendsFrom(K, a, c.settled)
      <4> SUFFICES ASSUME NEW K, descendsFrom(K, a, c.settled) PROVE FALSE
        OBVIOUS
      <4>1. ancestor(a, height(c.settled)) = c.settled /\ height(c.settled) <= height(a)
        BY DescendsOK
      <4>2. height(c.settled) = height(a)
        BY <4>1, <2>9, <1>4, <1>5
      <4>3. a = c.settled
        BY <4>1, <4>2, AncestorEnds
      <4> QED BY <4>3, <2>1, <1>6
    <3>2. Choice(choose(c1, a)) = Choice(c)
      <4>1. a \in c1.anchors /\ ~descendsFrom(c1.anchors, a, c1.settled)
        BY <3>1, <2>3
      <4> QED BY <4>1, <2>7, DisloyalIgnored
    <3>3. Choice(choose(e1, a)) = Choice(c)
      <4>1. a \in e1.anchors /\ ~descendsFrom(e1.anchors, a, e1.settled)
        BY <3>1, <2>4
      <4> QED BY <4>1, <2>7, DisloyalIgnored
    <3>4. Choice(add(c, a)) = Choice(c)
      BY <3>2, <1>7
    <3>5. Choice(add(e, a)) = Choice(c)
      BY <3>3, <1>8, <1>2
    <3> QED BY <3>4, <3>5 DEF e
  <2> QED BY <2>8, <2>9
<1> QED BY <1>11, <1>12

(* Room that is left stays when more is settled.                           *)
LEMMA SpareStays ==
  ASSUME NEW s \in Anchor, NEW t \in Anchor, IsBelow(s, t), NEW l \in Nat, Spare(s, l)
  PROVE  Spare(t, l)
<1>1. height(Boundary(s)) <= height(Boundary(t))
  BY BoundaryOK DEF IsBelow
<1>2. height(Boundary(s)) \in Nat /\ height(Boundary(t)) \in Nat /\ Margin \in Int
  BY BoundaryOK, AncestorEnds, MarginOK
<1> QED BY <1>1, <1>2 DEF Spare

(* An anchor is added on what is held.                                     *)
LEMMA AddHasRoom ==
  ASSUME NEW c, KeptOK(c), HasRoom(c), NEW a \in Anchor
  PROVE  HasRoom(add(c, a))
<1> DEFINE H == c.anchors
           c1 == [c EXCEPT !.anchors = @ \cup {a}]
           d == add(c, a)
<1>1. PICK l \in Nat : Rooted(H, l) /\ Spare(c.settled, l)
  BY DEF HasRoom
<1>2. /\ c \in [anchors : SUBSET Anchor, tip : Anchor, locked : Anchor, settled : Anchor,
                floor : Nat, conflict : BOOLEAN]
      /\ H \in SUBSET Anchor /\ c.settled \in Anchor /\ c.tip \in H
      /\ descendsFrom(H, c.tip, c.locked) /\ descendsFrom(H, c.locked, c.settled)
  BY DEF KeptOK
<1>3. KeptOK(d) /\ IsBelow(c.settled, d.settled)
  BY AddOK
<1>4. Spare(d.settled, l)
  <2>1. d.settled \in Anchor
    BY <1>3 DEF KeptOK
  <2> HIDE DEF d
  <2> QED BY <2>1, <1>1, <1>2, <1>3, SpareStays
<1>5. Rooted(d.anchors, l)
  <2>1. CASE ~valid(c, a)
    <3>1. d = c
      BY <2>1 DEF add
    <3> QED BY <3>1, <1>1
  <2>2. CASE valid(c, a)
    <3>1. d = choose(c1, a)
      BY <2>2, Zenon DEF add
    <3>2. /\ c1 \in [anchors : SUBSET Anchor, tip : Anchor, locked : Anchor, settled : Anchor,
                     floor : Nat, conflict : BOOLEAN]
          /\ c1.anchors = H \cup {a} /\ c1.tip = c.tip /\ c1.locked = c.locked
          /\ c1.settled = c.settled
      BY <1>2
    <3> HIDE DEF c1, d
    <3>3. descendsFrom(H \cup {a}, c.tip, c.locked) /\ descendsFrom(H \cup {a}, c.locked, c.settled)
      <4>1. c.tip \in Anchor /\ c.locked \in Anchor
        BY <1>2
      <4> QED BY <4>1, <1>2, DescendsInMore
    <3>4. KeptOK(c1)
      BY <3>2, <3>3, <1>2 DEF KeptOK
    <3>5. d.anchors = H \cup {a}
      BY <3>1, <3>2, <3>4, ChooseHolds
    <3>6. a \notin H /\ prev(a) \in H
      BY <2>2 DEF valid
    <3>7. height(a) \in Nat /\ height(a) # 0
      BY <3>6, PrevOK, AncestorEnds
    <3>8. height(prev(a)) = height(a) - 1 /\ l <= height(prev(a))
      BY <3>6, <3>7, <1>1, PrevOK DEF Rooted
    <3> HIDE DEF H
    <3>9. Rooted(H \cup {a}, l)
      BY <3>6, <3>7, <3>8, <1>1 DEF Rooted
    <3> QED BY <3>5, <3>9
  <2> QED BY <2>1, <2>2
<1> QED BY <1>4, <1>5 DEF HasRoom, d

(* What is pruned leaves the margin.                                       *)
LEMMA PruneHasRoom ==
  ASSUME ChainInv, NEW n \in Node, HasRoom(chain[n]), Prune(n)
  PROVE  HasRoom([chain[n] EXCEPT !.anchors = {a \in @ : height(a) >= PruneFloor(chain[n])},
                                  !.floor = PruneFloor(chain[n])])
<1> DEFINE c == chain[n]
           floor == PruneFloor(c)
           H == {a \in c.anchors : height(a) >= floor}
           d == [c EXCEPT !.anchors = {a \in @ : height(a) >= floor}, !.floor = floor]
<1>1. floor > c.floor /\ floor \in Walk(c.anchors, c.tip)
  BY Zenon DEF Prune
<1>2. /\ KeptOK(c)
      /\ c \in [anchors : SUBSET Anchor, tip : Anchor, locked : Anchor, settled : Anchor,
                floor : Nat, conflict : BOOLEAN]
      /\ c.settled \in Anchor /\ c.locked \in Anchor /\ c.tip \in c.anchors
      /\ c.anchors \in SUBSET Anchor
  BY DEF ChainInv, KeptOK
<1>3. PICK l \in Nat : Rooted(c.anchors, l) /\ Spare(c.settled, l)
  BY DEF HasRoom
<1>4. floor \in l..height(c.tip) /\ height(c.tip) \in Nat /\ floor \in Nat
  <2>1. Walk(c.anchors, c.tip) = l..height(c.tip) /\ height(c.tip) \in Nat
    BY <1>2, <1>3, WalkRooted
  <2> HIDE DEF floor
  <2> QED BY <2>1, <1>1
<1>5. floor + KeepMargin <= height(Boundary(c.settled))
  <2> DEFINE b == height(Boundary(c.settled))
             asked == b - KeepMargin
  <2>1. b \in Nat /\ KeepMargin \in Nat /\ height(c.locked) \in Nat /\ height(c.settled) \in Nat
    BY <1>2, BoundaryOK, AncestorEnds, ChainAssumption
  <2>2. floor = Min({asked, height(c.locked), height(c.settled)})
    BY DEF PruneFloor
  <2> HIDE DEF floor, b
  <2>3. asked \in Int
    BY <2>1
  <2>4. floor <= asked
    <3> DEFINE i == height(c.locked)
               j == height(c.settled)
    <3>1. i \in Int /\ j \in Int /\ floor = Min({asked, i, j})
      BY <2>1, <2>2
    <3> HIDE DEF asked, i, j
    <3> QED BY <3>1, <2>3, MinOfThree
  <2> QED BY <2>1, <2>4, <1>4 DEF b
<1>6. d = [[c EXCEPT !.anchors = H] EXCEPT !.floor = floor]
  BY Zenon
<1> HIDE DEF d, c
<1>7. d.anchors = H /\ d.settled = c.settled
  BY <1>2, <1>6
<1>8. Rooted(H, floor)
  <2> HIDE DEF floor
  <2> SUFFICES ASSUME NEW a \in H PROVE height(a) >= floor /\ (height(a) > floor => prev(a) \in H)
    BY DEF Rooted
  <2>1. a \in c.anchors /\ height(a) >= floor /\ a \in Anchor /\ height(a) \in Nat
    BY <1>2, AncestorEnds
  <2>2. ASSUME height(a) > floor PROVE prev(a) \in H
    <3>1. height(a) > l /\ height(a) > 0
      BY <2>1, <2>2, <1>4
    <3>2. prev(a) \in c.anchors
      BY <3>1, <2>1, <1>3 DEF Rooted
    <3>3. height(prev(a)) = height(a) - 1
      BY <3>1, <2>1, PrevOK
    <3>4. height(prev(a)) >= floor
      BY <3>3, <2>1, <2>2, <1>4
    <3> QED BY <3>2, <3>4
  <2> QED BY <2>1, <2>2
<1> HIDE DEF floor, H
<1>9. HasRoom(d)
  <2>1. floor + Margin <= height(Boundary(c.settled))
    <3>1. height(Boundary(c.settled)) \in Nat
      BY <1>2, BoundaryOK
    <3> QED BY <3>1, <1>4, <1>5, MarginOK
  <2> QED BY <2>1, <1>4, <1>7, <1>8 DEF HasRoom, Spare
<1> QED BY <1>9 DEF d, c, floor

(* A node that begins anew at a checkpoint has what the other one had      *)
(* below it.                                                               *)
LEMMA AdoptHasRoom ==
  ASSUME ChainInv, NEW m \in Node, HasRoom(chain[m]),
         NEW floor \in Offered(chain[m]), floor \in chain[m].anchors,
         Cardinality(Walk(chain[m].anchors, floor)) > schedule.window - schedule.epoch,
         NEW d, d.anchors = {ancestor(floor, h) : h \in Walk(chain[m].anchors, floor)},
         d.settled = floor
  PROVE  HasRoom(d)
<1> DEFINE H == chain[m].anchors
           R == {ancestor(floor, h) : h \in Walk(H, floor)}
<1>1. H \in SUBSET Anchor /\ floor \in H /\ floor \in Anchor /\ chain[m].settled \in Anchor
  BY DEF ChainInv, KeptOK
<1>2. PICK l \in Nat : Rooted(H, l) /\ Spare(chain[m].settled, l)
  BY DEF HasRoom
<1>3. Walk(H, floor) = l..height(floor) /\ height(floor) \in Nat /\ l <= height(floor)
  BY <1>1, <1>2, WalkRooted
<1>4. Spare(floor, l)
  <2>1. CASE floor = Boundary(chain[m].settled)
    BY <2>1, <1>1, <1>2, BoundaryOK DEF Spare
  <2>2. CASE floor # Boundary(chain[m].settled)
    <3>1. PICK h \in 0..height(chain[m].settled) :
            OlderToo /\ floor = Boundary(ancestor(chain[m].settled, h))
      BY <2>2 DEF Offered
    <3>2. ancestor(chain[m].settled, h) \in Anchor
      BY <1>1, AncestorOK
    <3>3. height(Boundary(floor)) = height(floor)
      BY <3>1, <3>2, BoundaryOK
    <3> DEFINE w == schedule.window - schedule.epoch
               k == height(floor)
    <3>4. w \in Int /\ k \in Nat /\ l <= k
      BY <1>3, ChainAssumption
    <3>5. k - l + 1 > w
      <4>1. Cardinality(l..k) = k - l + 1
        <5> HIDE DEF k
        <5> QED BY <3>4, FS_Interval
      <4> QED BY <4>1, <1>3
    <3>6. Margin <= w /\ Margin \in Int
      BY <3>1, MarginOK, ChainAssumption DEF Margin
    <3> HIDE DEF k, w
    <3>7. l + Margin <= k
      BY <3>4, <3>5, <3>6
    <3> QED BY <3>3, <3>7 DEF Spare, k
  <2> QED BY <2>1, <2>2
<1>5. d.anchors = R
  OBVIOUS
<1>6. Rooted(R, l)
  <2> SUFFICES ASSUME NEW a \in R PROVE height(a) >= l /\ (height(a) > l => prev(a) \in R)
    BY DEF Rooted
  <2>1. PICK h \in l..height(floor) : a = ancestor(floor, h)
    BY <1>3
  <2>2. h \in 0..height(floor)
    BY <2>1, <1>3
  <2>3. a \in Anchor /\ height(a) = h
    BY <2>1, <2>2, <1>1, AncestorOK
  <2>4. ASSUME h > l PROVE prev(a) \in R
    <3>1. h - 1 \in 0..h /\ h - 1 \in l..height(floor) /\ h > 0
      BY <2>2, <2>4, <1>3
    <3>2. prev(a) = ancestor(a, h - 1)
      BY <2>3, <3>1, PrevOK
    <3>3. prev(a) = ancestor(floor, h - 1)
      BY <3>1, <3>2, <2>1, <2>2, <1>1, AncestorOK
    <3>4. h - 1 \in Walk(H, floor)
      BY <3>1, <1>3
    <3> QED BY <3>3, <3>4
  <2> QED BY <2>1, <2>3, <2>4
<1> QED BY <1>2, <1>4, <1>5, <1>6 DEF HasRoom

(* One node changes, to what has room.                                     *)
LEMMA OneNodeHasRoom ==
  ASSUME RoomInv, NEW n \in Node, NEW d, HasRoom(d), chain' = [chain EXCEPT ![n] = d]
  PROVE  \A m \in Node : HasRoom(chain'[m])
<1>1. \A m \in Node : chain'[m] = IF m = n THEN d ELSE chain[m]
  BY DEF RoomInv, ChainInv
<1> QED BY <1>1, Zenon DEF RoomInv

(* At first nothing has been pruned, ...                                   *)
LEMMA RoomInit ==
  ASSUME Init
  PROVE  RoomInv
<1>1. ChainInv
  BY InitOK
<1>2. History \in Anchor /\ height(History) \in Nat
  BY ChainAssumption, AncestorEnds
<1>3. Rooted(upTo(History), 0)
  <2> SUFFICES ASSUME NEW a \in upTo(History)
               PROVE  height(a) >= 0 /\ (height(a) > 0 => prev(a) \in upTo(History))
    BY DEF Rooted
  <2>1. PICK h \in 0..height(History) : a = ancestor(History, h)
    BY DEF upTo
  <2>2. a \in Anchor /\ height(a) = h
    BY <2>1, <1>2, AncestorOK
  <2>3. ASSUME h > 0 PROVE prev(a) \in upTo(History)
    <3>1. h - 1 \in 0..h /\ h - 1 \in 0..height(History)
      BY <1>2, <2>3
    <3>2. prev(a) = ancestor(a, h - 1)
      BY <2>2, <2>3, PrevOK
    <3>3. prev(a) = ancestor(History, h - 1)
      BY <3>1, <3>2, <2>1, <1>2, AncestorOK
    <3> QED BY <3>1, <3>3 DEF upTo
  <2> QED BY <2>2, <2>3
<1>4. \A n \in Node : chain[n].anchors = upTo(History)
  BY DEF Init, following
<1>5. \A n \in Node : HasRoom(chain[n])
  BY <1>3, <1>4 DEF HasRoom, Spare
<1> QED BY <1>1, <1>5 DEF RoomInv

(* ... and whatever happens the room is kept.                              *)
LEMMA RoomStep ==
  ASSUME RoomInv, [Next]_vars
  PROVE  RoomInv'
<1>1. ChainInv /\ \A n \in Node : HasRoom(chain[n]) /\ KeptOK(chain[n])
  BY DEF RoomInv, ChainInv
<1>2. ChainInv'
  BY <1>1, StepOK
<1>3. ASSUME chain' = chain PROVE \A m \in Node : HasRoom(chain'[m])
  BY <1>1, <1>3
<1>4. CASE Next
  <2>1. PICK n \in Node : \/ Start(n) \/ Mint(n) \/ NoProof(n) \/ Prune(n) \/ Restart(n)
                          \/ \E a \in Missing(n) : Hear(n, a)
                          \/ \E m \in Node : \E floor \in Offered(chain[m]) : Adopt(n, m, floor)
    BY <1>4, Zenon DEF Next
  <2>2. CASE Start(n) \/ NoProof(n)
    <3>1. chain' = chain
      BY <2>2 DEF Start, NoProof
    <3> QED BY <3>1, <1>2, <1>3 DEF RoomInv
  <2>3. CASE Mint(n)
    <3>1. draft[n] # None /\ chain' = [chain EXCEPT ![n] = add(chain[n], draft[n])]
      BY <2>3 DEF Mint
    <3>2. draft[n] \in Anchor
      BY <3>1, <1>1 DEF ChainInv
    <3>3. HasRoom(add(chain[n], draft[n]))
      BY <3>2, <1>1, AddHasRoom
    <3>4. \A m \in Node : HasRoom(chain'[m])
      BY <3>1, <3>3, OneNodeHasRoom
    <3> QED BY <3>4, <1>2 DEF RoomInv
  <2>4. CASE \E a \in Missing(n) : Hear(n, a)
    <3>1. PICK a \in Missing(n) : Hear(n, a)
      BY <2>4
    <3>2. chain' = [chain EXCEPT ![n] = add(chain[n], a)]
      BY <3>1 DEF Hear
    <3>3. a \in Anchor
      <4>1. PICK m \in Node : a \in chain[m].anchors
        BY <3>1 DEF Missing
      <4> QED BY <4>1, <1>1 DEF KeptOK
    <3>4. HasRoom(add(chain[n], a))
      BY <3>3, <1>1, AddHasRoom
    <3>5. \A m \in Node : HasRoom(chain'[m])
      BY <3>2, <3>4, OneNodeHasRoom
    <3> QED BY <3>5, <1>2 DEF RoomInv
  <2>5. CASE Prune(n)
    <3> DEFINE d == [chain[n] EXCEPT !.anchors = {a \in @ : height(a) >= PruneFloor(chain[n])},
                                     !.floor = PruneFloor(chain[n])]
    <3>1. chain' = [chain EXCEPT ![n] = d]
      BY <2>5, Zenon DEF Prune
    <3>2. HasRoom(d)
      BY <2>5, <1>1, PruneHasRoom
    <3> HIDE DEF d
    <3>3. \A m \in Node : HasRoom(chain'[m])
      BY <3>1, <3>2, OneNodeHasRoom
    <3> QED BY <3>3, <1>2 DEF RoomInv
  <2>6. CASE Restart(n)
    <3>1. chain' = [chain EXCEPT ![n] = installGenesis]
      BY <2>6 DEF Restart
    <3>2. installGenesis.anchors = {<<>>}
      BY DEF installGenesis
    <3>3. Rooted({<<>>}, 0)
      BY AncestorEnds DEF Rooted
    <3>4. HasRoom(installGenesis)
      BY <3>2, <3>3 DEF HasRoom, Spare
    <3>5. \A m \in Node : HasRoom(chain'[m])
      BY <3>1, <3>4, OneNodeHasRoom
    <3> QED BY <3>5, <1>2 DEF RoomInv
  <2>7. CASE \E m \in Node : \E floor \in Offered(chain[m]) : Adopt(n, m, floor)
    <3>a. PICK m \in Node : \E floor \in Offered(chain[m]) : Adopt(n, m, floor)
      BY <2>7
    <3>1. PICK floor \in Offered(chain[m]) : Adopt(n, m, floor)
      BY <3>a
    <3> DEFINE run == {ancestor(floor, h) : h \in Walk(chain[m].anchors, floor)}
               d == [anchors |-> run, tip |-> floor, locked |-> floor, settled |-> floor,
                     floor |-> height(floor), conflict |-> FALSE]
    <3>2. /\ floor \in chain[m].anchors /\ chain' = [chain EXCEPT ![n] = d]
          /\ Cardinality(Walk(chain[m].anchors, floor)) > schedule.window - schedule.epoch
      BY <3>1, Zenon DEF Adopt
    <3>3. d.anchors = run /\ d.settled = floor
      OBVIOUS
    <3>4. HasRoom(d)
      <4> HIDE DEF d
      <4> QED BY <3>2, <3>3, <1>1, AdoptHasRoom
    <3> HIDE DEF d
    <3>5. \A k \in Node : HasRoom(chain'[k])
      BY <3>2, <3>4, OneNodeHasRoom
    <3> QED BY <3>5, <1>2 DEF RoomInv
  <2> QED BY <2>1, <2>2, <2>3, <2>4, <2>5, <2>6, <2>7
<1>5. CASE UNCHANGED vars
  <2>1. chain' = chain
    BY <1>5 DEF vars
  <2> QED BY <2>1, <1>2, <1>3 DEF RoomInv
<1> QED BY <1>4, <1>5

(* Whoever keeps as many anchors below its checkpoint as the forks and the *)
(* difficulty look back on decides as if it had pruned nothing: which      *)
(* anchor to follow, to lock, to settle, and which to refuse (chain.ts,    *)
(* prune, nextDifficulty, resolveFork; by default daemon.ts keeps 256, and *)
(* never less than the window of the difficulty).                          *)
THEOREM PruningUnseen == Spec => [](MarginCovers => PruneInvisible)
<1>1. RoomInv /\ MarginCovers => PruneInvisible
  <2> SUFFICES ASSUME RoomInv, MarginCovers, NEW n \in Node,
                      NEW a \in Missing(n) \cup
                            {mined(Whole(chain[n]).anchors, chain[n].tip, p) : p \in Node}
               PROVE  Choice(add(chain[n], a)) = Choice(add(Whole(chain[n]), a))
    BY DEF PruneInvisible
  <2> DEFINE c == chain[n]
  <2>1. KeptOK(c) /\ HasRoom(c) /\ c.tip \in c.anchors /\ c.tip \in Anchor
    BY DEF RoomInv, ChainInv, KeptOK
  <2>2. PICK l \in Nat : Rooted(c.anchors, l) /\ Spare(c.settled, l)
    BY <2>1 DEF HasRoom
  <2>3. CASE a \in Missing(n)
    <3>1. PICK m \in Node : a \in chain[m].anchors
      BY <2>3 DEF Missing
    <3>2. a \in Anchor /\ height(a) > 0 /\ prev(a) \in c.anchors
      BY <2>3, <3>1 DEF RoomInv, ChainInv, KeptOK, Missing
    <3> HIDE DEF c
    <3>3. Choice(add(c, a)) = Choice(add(Whole(c), a))
      BY <3>2, <2>1, <2>2, AddUnseen
    <3> QED BY <3>3 DEF c
  <2>4. CASE a \in {mined(Whole(chain[n]).anchors, chain[n].tip, p) : p \in Node}
    <3> DEFINE W == Whole(c).anchors
    <3>1. PICK p \in Node : a = mined(W, c.tip, p)
      BY <2>4
    <3> HIDE DEF c
    <3>2. c.tip \in W
      BY <2>1, <2>2, WholeOK DEF Views
    <3>3. a \in Anchor
      BY <3>1, <3>2, <2>1, MinedOK
    <3>4. height(a) > 0 /\ prev(a) = c.tip
      <4> DEFINE x == [by |-> p, difficulty |-> difficultyFor(W, c.tip),
                       weight |-> weight(c.tip) + difficultyFor(W, c.tip)]
      <4>1. a = Append(c.tip, x)
        BY <3>1, Zenon DEF mined
      <4> HIDE DEF x, W
      <4> DEFINE y == a[Len(a)]
      <4>2. c.tip \in Seq(Link) /\ a \in Seq(Link)
        BY <2>1, <3>3 DEF Anchor
      <4>3. Len(a) = Len(c.tip) + 1 /\ \A i \in 1..Len(c.tip) : a[i] = c.tip[i]
        BY <4>1, <4>2
      <4>4. height(a) > 0 /\ prev(a) = ancestor(a, height(a) - 1) /\ height(a) - 1 = height(c.tip)
        BY <3>3, <4>2, <4>3, PrevOK DEF height
      <4>5. /\ prev(a) \in Anchor /\ height(prev(a)) = height(c.tip)
            /\ \A i \in 1..height(c.tip) : prev(a)[i] = a[i]
        <5>1. height(c.tip) \in 0..height(a)
          BY <4>2, <4>3 DEF height
        <5> QED BY <5>1, <4>4, <3>3, AncestorOK
      <4>6. prev(a) \in Seq(Link) /\ Len(prev(a)) = Len(c.tip)
            /\ \A i \in 1..Len(c.tip) : prev(a)[i] = c.tip[i]
        BY <4>3, <4>5 DEF height, Anchor
      <4>7. prev(a) = c.tip
        BY <4>2, <4>6, SeqEqual
      <4> QED BY <4>4, <4>7
    <3>5. Choice(add(c, a)) = Choice(add(Whole(c), a))
      BY <3>3, <3>4, <2>1, <2>2, AddUnseen
    <3> QED BY <3>5 DEF c
  <2> QED BY <2>3, <2>4
<1>2. Init => RoomInv
  BY RoomInit
<1>3. RoomInv /\ [Next]_vars => RoomInv'
  BY RoomStep
<1> QED BY <1>1, <1>2, <1>3, PTL DEF Spec

-----------------------------------------------------------------------------
(* Two nodes and a fork.                                                   *)

(* What is in reach of the bound, where the order of ids is that of        *)
(* numbers.                                                                *)
Low(a) == height(a) <= limit.height

OrderInv ==
  /\ RoomInv
  /\ luck \in [1..limit.height -> Ranks]
  /\ \A n \in Node : \A a \in chain[n].anchors : Low(a)
  /\ \A n \in Node : draft[n] # None => Low(draft[n])

(* Weights are numbers.                                                    *)
LEMMA WeightOK ==
  ASSUME NEW a \in Anchor
  PROVE  weight(a) \in Nat
<1>1. height(a) \in Nat /\ \A h \in 1..height(a) : a[h] \in Link
  BY DEF height, Anchor
<1>2. a # <<>> => height(a) \in 1..height(a)
  BY <1>1, EmptySeq DEF height, Anchor
<1>3. schedule.base \in Nat
  BY ChainAssumption
<1> QED BY <1>1, <1>2, <1>3 DEF weight, Link

(* Of two anchors at most one has the lower id, ...                        *)
LEMMA LowerIdStrict ==
  ASSUME NEW a \in Anchor, NEW b \in Anchor, Low(a), Low(b),
         limit.height \in Nat, luck \in [1..limit.height -> Ranks]
  PROVE  ~(lowerId(a, b) /\ lowerId(b, a))
<1> SUFFICES ASSUME lowerId(a, b), lowerId(b, a) PROVE FALSE
  OBVIOUS
<1>1. height(a) \in Nat /\ height(b) \in Nat
  BY AncestorEnds
<1>2. CASE height(a) # height(b)
  <2>1. CASE height(a) > height(b)
    <3>1. ~(height(a) < height(b)) /\ ~(height(b) > height(a)) /\ height(b) # height(a)
      BY <1>1, <2>1
    <3>2. lucky(a) /\ ~lucky(a)
      BY <3>1, Zenon DEF lowerId
    <3> QED BY <3>2
  <2>2. CASE height(b) > height(a)
    <3>1. ~(height(b) < height(a)) /\ ~(height(a) > height(b)) /\ height(a) # height(b)
      BY <1>1, <2>2
    <3>2. lucky(b) /\ ~lucky(b)
      BY <3>1, Zenon DEF lowerId
    <3> QED BY <3>2
  <2> QED BY <1>1, <1>2, <2>1, <2>2
<1>3. CASE height(a) = height(b)
  <2> DEFINE k == height(a)
             less(i) == luck[i][by(a, i)] < luck[i][by(b, i)]
             more(i) == luck[i][by(b, i)] < luck[i][by(a, i)]
             alike(i) == \A j \in (i + 1)..k : by(a, j) = by(b, j)
             number(i) == luck[i][by(a, i)] \in Nat /\ luck[i][by(b, i)] \in Nat
  <2>1. PICK i \in 1..k : less(i) /\ alike(i)
    BY <1>1, <1>3 DEF lowerId
  <2>2. PICK j \in 1..k : more(j) /\ alike(j)
    BY <1>1, <1>3 DEF lowerId
  <2>3. ASSUME NEW h \in 1..k PROVE number(h)
    <3>1. h \in 1..limit.height
      BY <1>1 DEF Low
    <3>2. luck[h] \in [Node -> Nat]
      BY <3>1, ChainAssumption
    <3>a. a[h] \in Link /\ b[h] \in Link
      BY <1>3 DEF height, Anchor
    <3>3. by(a, h) \in Node /\ by(b, h) \in Node
      BY <3>a DEF by, Link
    <3> QED BY <3>2, <3>3
  <2>4. k \in Nat /\ number(i) /\ number(j)
    BY <1>1, <2>3
  <2>5. CASE i = j
    BY <2>1, <2>2, <2>4, <2>5
  <2>6. CASE i < j
    <3>1. by(a, j) = by(b, j)
      <4>1. j \in (i + 1)..k
        BY <2>6, <2>4
      <4> QED BY <4>1, <2>1
    <3> QED BY <3>1, <2>2, <2>4
  <2>7. CASE j < i
    <3>1. by(a, i) = by(b, i)
      <4>1. i \in (j + 1)..k
        BY <2>7, <2>4
      <4> QED BY <4>1, <2>2
    <3> QED BY <3>1, <2>1, <2>4
  <2> QED BY <2>4, <2>5, <2>6, <2>7
<1> QED BY <1>2, <1>3

(* ... and so at most one is the heavier.                                  *)
LEMMA HeavierStrict ==
  ASSUME NEW a \in Anchor, NEW b \in Anchor, Low(a), Low(b),
         limit.height \in Nat, luck \in [1..limit.height -> Ranks]
  PROVE  ~(heavier(a, b) /\ heavier(b, a))
<1>1. weight(a) \in Nat /\ weight(b) \in Nat
  BY WeightOK
<1>2. ~(lowerId(a, b) /\ lowerId(b, a))
  BY LowerIdStrict
<1> QED BY <1>1, <1>2 DEF heavier

(* What makes a node take an anchor that is not its tip.                   *)
LEMMA ChooseTakes ==
  ASSUME NEW c, KeptOK(c), NEW a \in c.anchors, a # c.tip, choose(c, a).tip = a
  PROVE  \/ descendsFrom(c.anchors, a, c.locked) /\ heavier(a, c.tip)
         \/ /\ ~descendsFrom(c.anchors, a, c.locked)
            /\ descendsFrom(c.anchors, a, c.settled)
            /\ resolveFork(c.anchors, a, c.tip).switchTo # None
            /\ resolveFork(c.anchors, a, c.tip).final \/ heavier(a, c.tip)
<1> DEFINE follows == descendsFrom(c.anchors, a, c.locked)
           best == heavier(a, c.tip)
           verdict == resolveFork(c.anchors, a, c.tip)
           wins == verdict.switchTo # None /\ (verdict.final \/ best)
           lock == relock(c, verdict)
           d == choose(c, a)
<1>1. d = CASE follows /\ best -> setTip(c, a, c.locked)
            [] ~follows /\ wins /\ loyal(c, a) -> setTip(c, a, lock)
            [] ~follows /\ wins /\ ~loyal(c, a) -> [c EXCEPT !.conflict = TRUE]
            [] OTHER -> c
  BY Zenon DEF choose
<1>2. c \in [anchors : SUBSET Anchor, tip : Anchor, locked : Anchor, settled : Anchor,
             floor : Nat, conflict : BOOLEAN]
  BY DEF KeptOK
<1>3. d.tip # c.tip
  OBVIOUS
<1>4. loyal(c, a) => descendsFrom(c.anchors, a, c.settled)
  BY DEF loyal
<1> HIDE DEF d, follows, best, verdict, lock
<1>5. CASE follows /\ best
  BY <1>5 DEF follows, best
<1>6. CASE ~follows /\ wins /\ loyal(c, a)
  BY <1>4, <1>6 DEF follows, best, verdict
<1>7. CASE ~follows /\ wins /\ ~loyal(c, a)
  <2> HIDE DEF wins
  <2>1. d = [c EXCEPT !.conflict = TRUE]
    BY <1>1, <1>7
  <2> QED BY <2>1, <1>2, <1>3
<1>8. CASE ~(follows /\ best) /\ ~(~follows /\ wins)
  <2> HIDE DEF wins
  <2>1. d = c
    BY <1>1, <1>8
  <2> QED BY <2>1, <1>3
<1> QED BY <1>5, <1>6, <1>7, <1>8

(* A node with room judges a fork above what it has settled as one would   *)
(* who has every anchor there is.                                          *)
LEMMA ForkOfAll ==
  ASSUME NEW c, KeptOK(c), HasRoom(c), MarginCovers, NEW a \in c.anchors,
         descendsFrom(c.anchors, a, c.settled)
  PROVE  /\ resolveFork(c.anchors, a, c.tip) = resolveFork(Anchor, a, c.tip)
         /\ Shared(Anchor, a, c.tip) # {}
<1> DEFINE H == c.anchors
<1>1. PICK l \in Nat : Rooted(H, l) /\ Spare(c.settled, l)
  BY DEF HasRoom
<1>2. /\ H \in SUBSET Anchor /\ c.settled \in Anchor /\ c.tip \in H /\ c.tip \in Anchor
      /\ descendsFrom(H, c.tip, c.locked) /\ descendsFrom(H, c.locked, c.settled)
  BY DEF KeptOK
<1>3. descendsFrom(H, c.tip, c.settled)
  BY <1>2, DescendsThrough
<1>4. Rooted(Anchor, 0)
  BY PrevOK, AncestorEnds DEF Rooted
<1>5. Views(H, Anchor, l)
  BY <1>1, <1>2, <1>4 DEF Views
<1>6. l = 0 \/ l + FORK_WINDOW <= height(c.settled) + 1
  BY <1>1, <1>2, SpareOK
<1>7. resolveFork(H, a, c.tip) = resolveFork(Anchor, a, c.tip)
  BY <1>2, <1>3, <1>5, <1>6, SameFork
<1>8. a \in Anchor
  BY <1>2
<1>9. descendsFrom(Anchor, a, c.settled) /\ descendsFrom(Anchor, c.tip, c.settled)
  BY <1>2, <1>3, <1>8, DescendsInMore
<1>10. height(c.settled) \in Shared(Anchor, a, c.tip)
  BY <1>9 DEF descendsFrom, Shared
<1> QED BY <1>7, <1>10

(* A fork is that of the other end too, and of the two at most one is      *)
(* final: if both have something to take over there is no majority.        *)
LEMMA ForkBothWays ==
  ASSUME NEW a \in Anchor, NEW t \in Anchor, Shared(Anchor, a, t) # {},
         resolveFork(Anchor, a, t).switchTo # None, resolveFork(Anchor, t, a).switchTo # None
  PROVE  ~resolveFork(Anchor, a, t).final /\ ~resolveFork(Anchor, t, a).final
<1> DEFINE f == Max(Shared(Anchor, a, t))
           verdict(x, y) == CASE Final(Anchor, y, x, f) -> [switchTo |-> None, final |-> FALSE]
                              [] ~Final(Anchor, y, x, f) /\ Final(Anchor, x, y, f) ->
                                   [switchTo |-> ancestor(x, f + 1), final |-> TRUE]
                              [] OTHER -> [switchTo |-> ancestor(x, f), final |-> FALSE]
           v == resolveFork(Anchor, a, t)
           w == resolveFork(Anchor, t, a)
<1>1. Shared(Anchor, a, t) = Shared(Anchor, t, a)
  BY DEF Shared
<1>2. v = verdict(a, t)
  <2> HIDE DEF verdict
  <2> QED BY Zenon DEF resolveFork, verdict
<1>3. w = verdict(t, a)
  <2>1. w = LET g == Max(Shared(Anchor, t, a))
            IN  CASE Final(Anchor, a, t, g) -> [switchTo |-> None, final |-> FALSE]
                  [] ~Final(Anchor, a, t, g) /\ Final(Anchor, t, a, g) ->
                       [switchTo |-> ancestor(t, g + 1), final |-> TRUE]
                  [] OTHER -> [switchTo |-> ancestor(t, g), final |-> FALSE]
    <3>1. Shared(Anchor, t, a) # {}
      BY <1>1
    <3> QED BY <3>1, Zenon DEF resolveFork
  <2> HIDE DEF w
  <2> QED BY <2>1, <1>1
<1> HIDE DEF f
<1>4. ~Final(Anchor, t, a, f) /\ ~Final(Anchor, a, t, f)
  <2>1. ASSUME NEW x, NEW y, NEW r, r = verdict(x, y), r.switchTo # None
        PROVE  ~Final(Anchor, y, x, f)
    <3> SUFFICES ASSUME Final(Anchor, y, x, f) PROVE FALSE
      OBVIOUS
    <3>1. r = [switchTo |-> None, final |-> FALSE]
      BY <2>1
    <3>2. r.switchTo = None
      BY <3>1
    <3> QED BY <3>2, <2>1
  <2> HIDE DEF verdict
  <2>2. v.switchTo # None /\ w.switchTo # None
    OBVIOUS
  <2> HIDE DEF v, w
  <2> QED BY <2>1, <2>2, <1>2, <1>3
<1> HIDE DEF v, w
<1>5. v = [switchTo |-> ancestor(a, f), final |-> FALSE]
  BY <1>2, <1>4
<1>6. w = [switchTo |-> ancestor(t, f), final |-> FALSE]
  BY <1>3, <1>4
<1>7. ~v.final /\ ~w.final
  BY <1>5, <1>6
<1> QED BY <1>7 DEF v, w

(* Two nodes that have both locked past a fork, or neither of which has.   *)
LEMMA AlikeOK ==
  ASSUME OrderInv, MarginCovers, NEW n \in Node, NEW m \in Node, Bound(n, m) <=> Bound(m, n)
  PROVE  ~Swap(n, m)
<1> DEFINE c == chain[n]
           e == chain[m]
           t == c.tip
           u == e.tip
           v == resolveFork(c.anchors, u, t)
           w == resolveFork(e.anchors, t, u)
<1> SUFFICES ASSUME Swap(n, m) PROVE FALSE
  OBVIOUS
<1>1. /\ t # u /\ t \in e.anchors /\ u \in c.anchors
      /\ choose(c, u).tip = u /\ choose(e, t).tip = t
  BY DEF Swap
<1>2. /\ KeptOK(c) /\ KeptOK(e) /\ HasRoom(c) /\ HasRoom(e)
      /\ t \in Anchor /\ u \in Anchor /\ Low(t) /\ Low(u)
      /\ limit.height \in Nat /\ luck \in [1..limit.height -> Ranks]
  <2>1. KeptOK(c) /\ KeptOK(e) /\ HasRoom(c) /\ HasRoom(e) /\ limit.height \in Nat
    BY DEF OrderInv, RoomInv, ChainInv
  <2>2. t \in c.anchors /\ u \in e.anchors /\ t \in Anchor /\ u \in Anchor
    BY <2>1 DEF KeptOK
  <2> QED BY <2>1, <2>2 DEF OrderInv
<1>3. ~(heavier(u, t) /\ heavier(t, u))
  BY <1>2, HeavierStrict
<1>4. Bound(n, m) <=> ~descendsFrom(c.anchors, u, c.locked)
  BY DEF Bound
<1>5. Bound(m, n) <=> ~descendsFrom(e.anchors, t, e.locked)
  BY DEF Bound
<1> HIDE DEF c, e
<1>6. \/ descendsFrom(c.anchors, u, c.locked) /\ heavier(u, t)
      \/ /\ ~descendsFrom(c.anchors, u, c.locked)
         /\ descendsFrom(c.anchors, u, c.settled)
         /\ v.switchTo # None /\ (v.final \/ heavier(u, t))
  BY <1>1, <1>2, ChooseTakes
<1>7. \/ descendsFrom(e.anchors, t, e.locked) /\ heavier(t, u)
      \/ /\ ~descendsFrom(e.anchors, t, e.locked)
         /\ descendsFrom(e.anchors, t, e.settled)
         /\ w.switchTo # None /\ (w.final \/ heavier(t, u))
  BY <1>1, <1>2, ChooseTakes
<1>8. CASE ~Bound(n, m)
  BY <1>3, <1>4, <1>5, <1>6, <1>7, <1>8
<1>9. CASE Bound(n, m)
  <2>1. /\ descendsFrom(c.anchors, u, c.settled) /\ v.switchTo # None /\ (v.final \/ heavier(u, t))
        /\ descendsFrom(e.anchors, t, e.settled) /\ w.switchTo # None /\ (w.final \/ heavier(t, u))
    BY <1>4, <1>5, <1>6, <1>7, <1>9
  <2>2. v = resolveFork(Anchor, u, t) /\ Shared(Anchor, u, t) # {}
    BY <2>1, <1>1, <1>2, ForkOfAll
  <2>3. w = resolveFork(Anchor, t, u)
    BY <2>1, <1>1, <1>2, ForkOfAll
  <2> HIDE DEF v, w, t, u
  <2>4. ~v.final /\ ~w.final
    BY <2>1, <2>2, <2>3, <1>2, ForkBothWays
  <2> QED BY <2>1, <2>4, <1>3
<1> QED BY <1>8, <1>9

(* An anchor that is added is in reach of the bound.                       *)
LEMMA AddLow ==
  ASSUME NEW c, KeptOK(c), NEW a \in Anchor, Low(a), \A b \in c.anchors : Low(b)
  PROVE  \A b \in add(c, a).anchors : Low(b)
<1> DEFINE d == add(c, a)
           c1 == [c EXCEPT !.anchors = @ \cup {a}]
<1>1. CASE ~valid(c, a)
  <2>1. d = c
    BY <1>1 DEF add
  <2> QED BY <2>1
<1>2. CASE valid(c, a)
  <2>1. d = choose(c1, a)
    BY <1>2, Zenon DEF add
  <2>2. /\ c \in [anchors : SUBSET Anchor, tip : Anchor, locked : Anchor, settled : Anchor,
                  floor : Nat, conflict : BOOLEAN]
        /\ c.tip \in c.anchors
        /\ descendsFrom(c.anchors, c.tip, c.locked) /\ descendsFrom(c.anchors, c.locked, c.settled)
    BY DEF KeptOK
  <2>3. /\ c1 \in [anchors : SUBSET Anchor, tip : Anchor, locked : Anchor, settled : Anchor,
                   floor : Nat, conflict : BOOLEAN]
        /\ c1.anchors = c.anchors \cup {a} /\ c1.tip = c.tip /\ c1.locked = c.locked
        /\ c1.settled = c.settled
    BY <2>2
  <2> HIDE DEF c1, d
  <2>4. /\ descendsFrom(c1.anchors, c.tip, c.locked) /\ descendsFrom(c1.anchors, c.locked, c.settled)
    <3>1. c.tip \in Anchor /\ c.locked \in Anchor /\ c.anchors \subseteq c1.anchors
      BY <2>2, <2>3
    <3> QED BY <3>1, <2>2, DescendsInMore
  <2>5. KeptOK(c1)
    BY <2>2, <2>3, <2>4 DEF KeptOK
  <2>6. d.anchors = c.anchors \cup {a}
    BY <2>1, <2>3, <2>5, ChooseHolds
  <2> QED BY <2>6 DEF d
<1> QED BY <1>1, <1>2

(* What a producer makes of its tip is one higher.                         *)
LEMMA MinedHeight ==
  ASSUME NEW H, NEW a \in Anchor, a \in H, NEW p \in Node
  PROVE  height(mined(H, a, p)) = height(a) + 1
<1> DEFINE x == [by |-> p, difficulty |-> difficultyFor(H, a), weight |-> weight(a) + difficultyFor(H, a)]
           b == mined(H, a, p)
<1>1. b = Append(a, x)
  BY Zenon DEF mined
<1> HIDE DEF x
<1>2. b \in Seq(Link) /\ a \in Seq(Link)
  BY MinedOK DEF Anchor
<1> HIDE DEF b
<1>3. Len(b) = Len(a) + 1
  BY <1>1, <1>2
<1> QED BY <1>3 DEF height, b

(* One node changes, to what is in reach of the bound.                     *)
LEMMA OneNodeLow ==
  ASSUME OrderInv, limit' = limit, NEW n \in Node, NEW d, \A a \in d.anchors : Low(a),
         chain' = [chain EXCEPT ![n] = d]
  PROVE  \A m \in Node : \A a \in chain'[m].anchors : height(a) <= limit'.height
<1>1. \A m \in Node : chain'[m] = IF m = n THEN d ELSE chain[m]
  BY DEF OrderInv, RoomInv, ChainInv
<1>2. \A m \in Node : \A a \in chain[m].anchors : Low(a)
  BY DEF OrderInv
<1> QED BY <1>1, <1>2 DEF Low

(* The bounds hold at first, ...                                           *)
LEMMA OrderInit ==
  ASSUME Init
  PROVE  OrderInv
<1>1. RoomInv
  BY RoomInit
<1>2. luck \in [1..limit.height -> Ranks] /\ limit \in Limits
  BY DEF Init
<1>3. ASSUME NEW n \in Node, NEW a \in chain[n].anchors PROVE Low(a)
  <2>1. a \in upTo(History)
    BY <1>3 DEF Init, following
  <2>2. PICK h \in 0..height(History) : a = ancestor(History, h)
    BY <2>1 DEF upTo
  <2>3. History \in Anchor /\ height(History) <= limit.height
    BY <1>2, ChainAssumption DEF height
  <2>4. height(a) = h /\ height(History) \in Nat
    BY <2>2, <2>3, AncestorOK, AncestorEnds
  <2>5. limit.height \in Nat
    BY <1>2, ChainAssumption
  <2> QED BY <2>3, <2>4, <2>5 DEF Low
<1>4. \A n \in Node : draft[n] = None
  BY DEF Init
<1> QED BY <1>1, <1>2, <1>3, <1>4 DEF OrderInv

(* ... and after every step.                                               *)
LEMMA OrderStep ==
  ASSUME OrderInv, [Next]_vars
  PROVE  OrderInv'
<1>1. /\ RoomInv /\ ChainInv /\ \A n \in Node : KeptOK(chain[n])
      /\ \A n \in Node : \A a \in chain[n].anchors : Low(a)
      /\ \A n \in Node : draft[n] # None => Low(draft[n])
      /\ draft \in [Node -> Anchor \cup {None}]
  BY DEF OrderInv, RoomInv, ChainInv
<1>2. RoomInv'
  BY <1>1, RoomStep
<1>3. limit' = limit /\ luck' = luck
  BY Zenon DEF Next, vars, Start, Mint, NoProof, Prune, Restart, Hear, Adopt
<1>4. (luck \in [1..limit.height -> Ranks])'
  BY <1>3 DEF OrderInv
<1> DEFINE Chains == \A m \in Node : \A a \in chain'[m].anchors : height(a) <= limit'.height
           Drafts == \A m \in Node : draft'[m] # None => height(draft'[m]) <= limit'.height
<1>5. ASSUME chain' = chain PROVE Chains
  BY <1>1, <1>3, <1>5 DEF Low
<1>6. ASSUME \A m \in Node : draft'[m] \in {draft[m], None} PROVE Drafts
  BY <1>1, <1>3, <1>6 DEF Low
<1>7. ASSUME NEW n \in Node, draft' = [draft EXCEPT ![n] = None]
      PROVE  \A m \in Node : draft'[m] \in {draft[m], None}
  BY <1>1, <1>7
<1>8. ASSUME NEW n \in Node, NEW a \in Anchor, Low(a), chain' = [chain EXCEPT ![n] = add(chain[n], a)]
      PROVE  Chains
  <2>1. \A b \in add(chain[n], a).anchors : Low(b)
    BY <1>1, <1>8, AddLow
  <2> QED BY <2>1, <1>3, <1>8, OneNodeLow
<1>a. ASSUME Chains, Drafts PROVE OrderInv'
  BY <1>a, <1>2, <1>4 DEF OrderInv, Low
<1> HIDE DEF Chains, Drafts
<1>9. CASE Next
  <2>1. PICK n \in Node : \/ Start(n) \/ Mint(n) \/ NoProof(n) \/ Prune(n) \/ Restart(n)
                          \/ \E a \in Missing(n) : Hear(n, a)
                          \/ \E m \in Node : \E floor \in Offered(chain[m]) : Adopt(n, m, floor)
    BY <1>9 DEF Next
  <2>2. CASE Start(n)
    <3> DEFINE c == chain[n]
               b == mined(c.anchors, c.tip, n)
    <3>1. height(c.tip) < limit.height /\ draft' = [draft EXCEPT ![n] = b] /\ chain' = chain
      BY <2>2, Zenon DEF Start
    <3>2. c.tip \in Anchor /\ c.tip \in c.anchors
      BY <1>1 DEF KeptOK
    <3>3. height(b) = height(c.tip) + 1 /\ height(c.tip) \in Nat /\ limit.height \in Nat
      BY <3>2, <1>1, MinedHeight, AncestorEnds DEF ChainInv
    <3> HIDE DEF b
    <3>4. Low(b)
      BY <3>1, <3>3 DEF Low
    <3>5. \A m \in Node : draft'[m] = IF m = n THEN b ELSE draft[m]
      BY <3>1, <1>1
    <3>6. Drafts
      BY <3>4, <3>5, <1>1, <1>3 DEF Drafts, Low
    <3> QED BY <3>1, <3>6, <1>5, <1>a
  <2>3. CASE NoProof(n)
    <3>1. chain' = chain /\ draft' = [draft EXCEPT ![n] = None]
      BY <2>3 DEF NoProof
    <3> QED BY <3>1, <1>5, <1>6, <1>7, <1>a
  <2>4. CASE Mint(n)
    <3>1. /\ draft[n] # None /\ chain' = [chain EXCEPT ![n] = add(chain[n], draft[n])]
          /\ draft' = [draft EXCEPT ![n] = None]
      BY <2>4 DEF Mint
    <3>2. draft[n] \in Anchor /\ Low(draft[n])
      BY <3>1, <1>1
    <3>3. Chains
      BY <3>1, <3>2, <1>8
    <3> QED BY <3>1, <3>3, <1>6, <1>7, <1>a
  <2>5. CASE \E a \in Missing(n) : Hear(n, a)
    <3>1. PICK a \in Missing(n) : Hear(n, a)
      BY <2>5
    <3>2. chain' = [chain EXCEPT ![n] = add(chain[n], a)] /\ draft' = draft
      BY <3>1 DEF Hear
    <3>3. a \in Anchor /\ Low(a)
      <4>1. PICK m \in Node : a \in chain[m].anchors
        BY <3>1 DEF Missing
      <4> QED BY <4>1, <1>1 DEF KeptOK
    <3>4. Chains
      BY <3>2, <3>3, <1>8
    <3>5. \A m \in Node : draft'[m] \in {draft[m], None}
      BY <3>2
    <3> QED BY <3>4, <3>5, <1>6, <1>a
  <2>6. CASE Prune(n)
    <3> DEFINE d == [chain[n] EXCEPT !.anchors = {a \in @ : height(a) >= PruneFloor(chain[n])},
                                     !.floor = PruneFloor(chain[n])]
               H == {a \in chain[n].anchors : height(a) >= PruneFloor(chain[n])}
               f == PruneFloor(chain[n])
    <3>1. chain' = [chain EXCEPT ![n] = d] /\ draft' = draft
      BY <2>6, Zenon DEF Prune
    <3>2. d = [[chain[n] EXCEPT !.anchors = H] EXCEPT !.floor = f]
      BY Zenon
    <3>3. H \subseteq chain[n].anchors
      OBVIOUS
    <3> HIDE DEF d, H, f
    <3>4. d.anchors = H
      BY <3>2, <1>1 DEF KeptOK
    <3>5. \A a \in d.anchors : Low(a)
      BY <3>3, <3>4, <1>1
    <3>6. Chains
      BY <3>1, <3>5, <1>3, OneNodeLow DEF Chains
    <3>7. \A m \in Node : draft'[m] \in {draft[m], None}
      BY <3>1
    <3> QED BY <3>6, <3>7, <1>6, <1>a
  <2>7. CASE Restart(n)
    <3>1. chain' = [chain EXCEPT ![n] = installGenesis] /\ draft' = [draft EXCEPT ![n] = None]
      BY <2>7 DEF Restart
    <3>2. installGenesis.anchors = {<<>>}
      BY DEF installGenesis
    <3>3. Low(<<>>)
      BY <1>1, AncestorEnds DEF Low, ChainInv
    <3>4. \A a \in installGenesis.anchors : Low(a)
      BY <3>2, <3>3
    <3>5. Chains
      BY <3>1, <3>4, <1>3, OneNodeLow DEF Chains
    <3> QED BY <3>1, <3>5, <1>6, <1>7, <1>a
  <2>8. CASE \E m \in Node : \E floor \in Offered(chain[m]) : Adopt(n, m, floor)
    <3>a. PICK m \in Node : \E floor \in Offered(chain[m]) : Adopt(n, m, floor)
      BY <2>8
    <3>1. PICK floor \in Offered(chain[m]) : Adopt(n, m, floor)
      BY <3>a
    <3> DEFINE run == {ancestor(floor, h) : h \in Walk(chain[m].anchors, floor)}
               d == [anchors |-> run, tip |-> floor, locked |-> floor, settled |-> floor,
                     floor |-> height(floor), conflict |-> FALSE]
    <3>2. floor \in chain[m].anchors /\ chain' = [chain EXCEPT ![n] = d] /\ draft' = draft
      BY <3>1, Zenon DEF Adopt
    <3>3. floor \in Anchor /\ d.anchors = run
      BY <3>2, <1>1 DEF KeptOK
    <3> HIDE DEF d
    <3>4. run \subseteq chain[m].anchors
      <4> SUFFICES ASSUME NEW h \in Walk(chain[m].anchors, floor)
                   PROVE  ancestor(floor, h) \in chain[m].anchors
        OBVIOUS
      <4>1. h \in h..height(floor)
        BY <3>3, WalkOK, AncestorEnds
      <4> QED BY <4>1, <3>3, WalkOK
    <3>5. \A a \in d.anchors : Low(a)
      BY <3>3, <3>4, <1>1
    <3>6. Chains
      BY <3>2, <3>5, <1>3, OneNodeLow DEF Chains
    <3>7. \A k \in Node : draft'[k] \in {draft[k], None}
      BY <3>2
    <3> QED BY <3>6, <3>7, <1>6, <1>a
  <2> QED BY <2>1, <2>2, <2>3, <2>4, <2>5, <2>6, <2>7, <2>8
<1>10. CASE UNCHANGED vars
  <2>1. chain' = chain /\ draft' = draft
    BY <1>10 DEF vars
  <2>2. \A m \in Node : draft'[m] \in {draft[m], None}
    BY <2>1
  <2> QED BY <2>1, <2>2, <1>5, <1>6, <1>a
<1> QED BY <1>9, <1>10

(* Where the margin covers what a fork looks back on, two nodes that have  *)
(* both locked past the fork between their tips, or neither of which has,  *)
(* never take each other's tip: not by weight, of which only one has more, *)
(* nor by a majority, of which there is only one and which both count over *)
(* the same anchors (chain.ts, add, resolveFork).                          *)
THEOREM AlikeNeverSwap == Spec => [](MarginCovers => AlikeYield)
<1>1. OrderInv /\ MarginCovers => AlikeYield
  BY AlikeOK DEF AlikeYield
<1>2. Init => OrderInv
  BY OrderInit
<1>3. OrderInv /\ [Next]_vars => OrderInv'
  BY OrderStep
<1> QED BY <1>1, <1>2, <1>3, PTL DEF Spec

=============================================================================
