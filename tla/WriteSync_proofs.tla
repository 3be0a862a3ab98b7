--------------------------- MODULE WriteSync_proofs -------------------------
(***************************************************************************)
(* Theorems of the exchange of writes, for any number of nodes that post,  *)
(* lose messages, crash and take over checkpoints as often as they like:   *)
(* what a node holds was signed, no slot is signed twice, a crash loses    *)
(* nothing, and the nodes replicate the writers' histories (Replicas).     *)
(***************************************************************************)
EXTENDS WriteSync, FiniteSetTheorems, SequenceTheorems, WellFoundedInduction, TLAPS

-----------------------------------------------------------------------------
(* A writer's log: what becomes of it when writes arrive, when it is       *)
(* replayed from rows, and when a checkpoint comes.                        *)

(* What a writer may have signed: finitely many writes, and of each of them*)
(* all it follows on.                                                      *)
Histories(S) ==
  /\ IsFiniteSet(S) /\ S \subseteq Seq(Nat) /\ <<>> \notin S
  /\ \A v \in S : \A n \in 1..Len(v) : upTo(v, n) \in S

(* All of t above length b is in S.                                        *)
Covers(S, b, t) == \A n \in (b + 1)..Len(t) : upTo(t, n) \in S

-----------------------------------------------------------------------------
(* Writes and what they follow on.                                         *)

(* What a write follows on has the same contents.                          *)
LEMMA UpToOK ==
  ASSUME NEW w \in Seq(Nat), NEW n \in 0..Len(w)
  PROVE  /\ upTo(w, n) \in Seq(Nat) /\ Len(upTo(w, n)) = n
         /\ \A i \in 1..n : upTo(w, n)[i] = w[i]
         /\ \A i \in 0..n : upTo(upTo(w, n), i) = upTo(w, i)
<1>1. /\ upTo(w, n) \in Seq(Nat) /\ Len(upTo(w, n)) = n
      /\ \A i \in 1..n : upTo(w, n)[i] = w[i]
  BY DEF upTo
<1>2. ASSUME NEW i \in 0..n PROVE upTo(upTo(w, n), i) = upTo(w, i)
  <2> DEFINE v == upTo(w, n)
  <2>1. i \in 0..Len(v) /\ v \in Seq(Nat) /\ i \in 0..Len(w)
    BY <1>1
  <2> HIDE DEF v
  <2>2. /\ upTo(v, i) \in Seq(Nat) /\ Len(upTo(v, i)) = i
        /\ \A j \in 1..i : upTo(v, i)[j] = v[j]
    BY <2>1 DEF upTo
  <2>3. /\ upTo(w, i) \in Seq(Nat) /\ Len(upTo(w, i)) = i
        /\ \A j \in 1..i : upTo(w, i)[j] = w[j]
    BY <2>1 DEF upTo
  <2>4. \A j \in 1..i : v[j] = w[j]
    BY <1>1 DEF v
  <2>5. upTo(v, i) = upTo(w, i)
    BY <2>2, <2>3, <2>4, SeqEqual
  <2> QED BY <2>5 DEF v
<1> QED BY <1>1, <1>2

(* A write follows on all of itself, and on nothing.                       *)
LEMMA UpToEnds ==
  ASSUME NEW w \in Seq(Nat)
  PROVE  Len(w) \in Nat /\ upTo(w, Len(w)) = w /\ upTo(w, 0) = <<>> /\ (Len(w) = 0 <=> w = <<>>)
<1>1. upTo(w, Len(w)) = w
  BY SubSeqFull DEF upTo
<1>2. upTo(w, 0) = <<>>
  BY SubSeqEmpty DEF upTo
<1> QED BY <1>1, <1>2, EmptySeq

(* Extends orders the writes partially, ...                                *)
LEMMA ExtendsOrders ==
  ASSUME NEW u \in Seq(Nat), NEW v \in Seq(Nat), NEW w \in Seq(Nat)
  PROVE  /\ Extends(w, w) /\ Extends(w, <<>>)
         /\ Extends(w, v) /\ Extends(v, u) => Extends(w, u)
         /\ Extends(w, v) /\ Len(w) <= Len(v) => w = v
<1>1. Extends(w, w)
  BY UpToEnds DEF Extends
<1>2. Extends(w, <<>>)
  BY UpToEnds, EmptySeq DEF Extends
<1>3. ASSUME Extends(w, v), Extends(v, u) PROVE Extends(w, u)
  <2>1. Len(u) \in Nat /\ Len(v) \in Nat /\ Len(w) \in Nat
    BY UpToEnds
  <2>2. Len(v) <= Len(w) /\ upTo(w, Len(v)) = v /\ Len(u) <= Len(v) /\ upTo(v, Len(u)) = u
    BY <1>3 DEF Extends
  <2>3. Len(v) \in 0..Len(w) /\ Len(u) \in 0..Len(v) /\ Len(u) <= Len(w)
    BY <2>1, <2>2
  <2>4. upTo(upTo(w, Len(v)), Len(u)) = upTo(w, Len(u))
    BY <2>3, UpToOK
  <2> QED BY <2>2, <2>3, <2>4 DEF Extends
<1>4. ASSUME Extends(w, v), Len(w) <= Len(v) PROVE w = v
  <2>1. Len(w) = Len(v)
    BY <1>4, UpToEnds DEF Extends
  <2> QED BY <1>4, <2>1, UpToEnds DEF Extends
<1> QED BY <1>1, <1>2, <1>3, <1>4

(* ... and what is below a write is ordered by length.                     *)
LEMMA ExtendsBelow ==
  ASSUME NEW v \in Seq(Nat), NEW w \in Seq(Nat), Extends(w, v)
  PROVE  /\ \A n \in 0..Len(v) : upTo(w, n) = upTo(v, n)
         /\ \A n \in Len(v)..Len(w) : Extends(upTo(w, n), v) /\ Extends(w, upTo(w, n))
<1>1. Len(v) \in Nat /\ Len(w) \in Nat /\ Len(v) <= Len(w) /\ upTo(w, Len(v)) = v
  BY UpToEnds DEF Extends
<1>2. Len(v) \in 0..Len(w)
  BY <1>1
<1>3. \A n \in 0..Len(v) : upTo(w, n) = upTo(v, n)
  BY <1>1, <1>2, UpToOK
<1>4. ASSUME NEW n \in Len(v)..Len(w)
      PROVE  Extends(upTo(w, n), v) /\ Extends(w, upTo(w, n))
  <2>1. n \in 0..Len(w) /\ Len(v) \in 0..n
    BY <1>1
  <2>2. Len(upTo(w, n)) = n /\ upTo(upTo(w, n), Len(v)) = upTo(w, Len(v))
    BY <2>1, UpToOK
  <2> QED BY <2>1, <2>2, <1>1 DEF Extends
<1> QED BY <1>3, <1>4

(* A write that links to t extends it by one.                              *)
LEMMA PrevOK ==
  ASSUME NEW t \in Seq(Nat), NEW w \in Seq(Nat), w # <<>>, prev(w) = t
  PROVE  Extends(w, t) /\ Len(w) = Len(t) + 1
<1>1. Len(w) \in Nat /\ Len(w) # 0
  BY UpToEnds
<1>2. Len(w) - 1 \in 0..Len(w)
  BY <1>1
<1>3. Len(t) = Len(w) - 1
  BY <1>2, UpToOK DEF prev
<1> QED BY <1>1, <1>3 DEF prev, Extends

(* A write that adds x to t links to it.                                   *)
LEMMA AppendOK ==
  ASSUME NEW t \in Seq(Nat), NEW x \in Nat
  PROVE  /\ Append(t, x) \in Seq(Nat) /\ Append(t, x) # <<>>
         /\ Len(Append(t, x)) = Len(t) + 1 /\ prev(Append(t, x)) = t
<1> DEFINE w == Append(t, x)
<1>1. /\ w \in Seq(Nat) /\ w # <<>> /\ Len(w) = Len(t) + 1 /\ Len(t) \in Nat
      /\ \A i \in 1..Len(t) : w[i] = t[i]
  BY AppendProperties
<1> HIDE DEF w
<1>2. Len(t) \in 0..Len(w) /\ Len(w) - 1 = Len(t)
  BY <1>1
<1>3. upTo(w, Len(t)) \in Seq(Nat) /\ Len(upTo(w, Len(t))) = Len(t)
      /\ \A i \in 1..Len(t) : upTo(w, Len(t))[i] = w[i]
  BY <1>1, <1>2, UpToOK
<1>4. upTo(w, Len(t)) = t
  BY <1>1, <1>3, SeqEqual
<1>5. prev(w) = t
  BY <1>2, <1>4 DEF prev
<1> QED BY <1>1, <1>5 DEF w

-----------------------------------------------------------------------------
(* Sets of writes.                                                         *)

(* Every write is as long as there are writes it follows on.               *)
LEMMA HistoriesBounded ==
  ASSUME NEW S, Histories(S)
  PROVE  Cardinality(S) \in Nat /\ \A v \in S : Len(v) \in 1..Cardinality(S)
<1>1. Cardinality(S) \in Nat
  BY FS_CardinalityType DEF Histories
<1>2. ASSUME NEW v \in S PROVE Len(v) \in 1..Cardinality(S)
  <2>1. v \in Seq(Nat) /\ v # <<>> /\ \A n \in 1..Len(v) : upTo(v, n) \in S
    BY DEF Histories
  <2>2. Len(v) \in Nat /\ Len(v) # 0
    BY <2>1, UpToEnds
  <2> DEFINE f == [n \in 1..Len(v) |-> upTo(v, n)]
  <2>3. f \in [1..Len(v) -> S]
    BY <2>1
  <2>4. \A n \in 1..Len(v) : Len(f[n]) = n
    <3> SUFFICES ASSUME NEW n \in 1..Len(v) PROVE Len(upTo(v, n)) = n
      OBVIOUS
    <3>1. n \in 0..Len(v)
      BY <2>2
    <3> QED BY <3>1, <2>1, UpToOK
  <2>5. \A m, n \in 1..Len(v) : f[m] = f[n] => m = n
    BY <2>4
  <2> HIDE DEF f
  <2>6. f \in Injection(1..Len(v), S)
    BY <2>3, <2>5 DEF Injection, IsInjective
  <2>7. Cardinality(1..Len(v)) <= Cardinality(S)
    BY <2>6, FS_Injection DEF Histories
  <2>8. Cardinality(1..Len(v)) = Len(v)
    BY <2>2, FS_Interval
  <2> QED BY <2>2, <2>7, <2>8, <1>1
<1> QED BY <1>1, <1>2

(* A bounded, nonempty set of naturals has a greatest element.             *)
LEMMA GreatestExists ==
  ASSUME NEW c \in Nat, NEW N, N \subseteq 0..c, N # {}
  PROVE  \E m \in N : \A n \in N : n <= m
<1> DEFINE R == {ss \in Nat \X Nat : ss[1] < ss[2]}
           D == {c - n : n \in N}
<1>1. IsWellFoundedOn(R, Nat)
  BY NatLessThanWellFounded DEF OpToRel
<1>2. \A x, y \in Nat : y < x => <<y, x>> \in R
  OBVIOUS
<1>3. D \subseteq Nat /\ D # {}
  <2>1. \A n \in N : c - n \in Nat
    OBVIOUS
  <2> QED BY <2>1
<1>4. \A n \in N : c - n \in D
  OBVIOUS
<1> HIDE DEF R
<1>5. PICK x \in D : \A y \in D : ~(<<y, x>> \in R)
  BY <1>1, <1>3, WFMin
<1>6. PICK m \in N : x = c - m
  BY <1>5
<1> HIDE DEF D
<1>7. \A n \in N : n <= m
  <2> SUFFICES ASSUME NEW n \in N PROVE n <= m
    OBVIOUS
  <2>1. c - n \in D /\ c - n \in Nat /\ x \in Nat /\ ~(c - n < x)
    BY <1>2, <1>3, <1>4, <1>5
  <2> QED BY <2>1, <1>6
<1> QED BY <1>7

(* A nonempty set of naturals has a least element.                         *)
LEMMA LeastExists ==
  ASSUME NEW N, N \subseteq Nat, N # {}
  PROVE  \E m \in N : \A n \in N : m <= n
<1> DEFINE R == {ss \in Nat \X Nat : ss[1] < ss[2]}
<1>1. IsWellFoundedOn(R, Nat)
  BY NatLessThanWellFounded DEF OpToRel
<1>2. \A x, y \in Nat : y < x => <<y, x>> \in R
  OBVIOUS
<1> HIDE DEF R
<1>3. PICK m \in N : \A y \in N : ~(<<y, m>> \in R)
  BY <1>1, WFMin
<1>4. \A n \in N : m <= n
  <2> SUFFICES ASSUME NEW n \in N PROVE m <= n
    OBVIOUS
  <2>1. m \in Nat /\ n \in Nat /\ ~(n < m)
    BY <1>2, <1>3
  <2> QED BY <2>1
<1> QED BY <1>4

(* So there is a longest write in any set of writes that were signed.      *)
LEMMA LongestExists ==
  ASSUME NEW S, Histories(S), NEW T, T \subseteq S, T # {}
  PROVE  \E p \in T : \A q \in T : Len(q) <= Len(p)
<1>1. Cardinality(S) \in Nat /\ \A v \in S : Len(v) \in 1..Cardinality(S)
  BY HistoriesBounded
<1> DEFINE N == {Len(p) : p \in T}
<1>2. N \subseteq 0..Cardinality(S) /\ N # {}
  BY <1>1
<1>3. PICK m \in N : \A n \in N : n <= m
  BY <1>1, <1>2, GreatestExists
<1> QED BY <1>3

(* How long it is, 0 if there is none.                                     *)
LEMMA LongestOK ==
  ASSUME NEW S, Histories(S), NEW T, T \subseteq S
  PROVE  longest(T) \in Nat /\ \A w \in T : Len(w) \in 1..longest(T)
<1>1. \A v \in T : Len(v) \in Nat /\ Len(v) >= 1
  BY HistoriesBounded
<1>2. \E n \in {0} \cup {Len(w) : w \in T} : \A w \in T : Len(w) <= n
  <2>1. CASE T = {}
    BY <2>1
  <2>2. CASE T # {}
    <3>1. PICK p \in T : \A q \in T : Len(q) <= Len(p)
      BY <2>2, LongestExists
    <3> QED BY <3>1
  <2> QED BY <2>1, <2>2
<1>3. /\ longest(T) \in {0} \cup {Len(w) : w \in T}
      /\ \A w \in T : Len(w) <= longest(T)
  BY <1>2 DEF longest
<1> QED BY <1>1, <1>3

(* Where no two writes have one seq, they form one chain.                  *)
LEMMA OneChain ==
  ASSUME NEW S, Histories(S), OnePerSeq(S),
         NEW v \in S \cup {<<>>}, NEW w \in S \cup {<<>>}, Len(v) <= Len(w)
  PROVE  Extends(w, v)
<1>1. v \in Seq(Nat) /\ w \in Seq(Nat)
  BY EmptySeq DEF Histories
<1>2. CASE v = <<>>
  BY <1>1, <1>2, ExtendsOrders
<1>3. CASE v # <<>>
  <2>1. Len(v) \in Nat /\ Len(v) # 0 /\ Len(w) \in Nat
    BY <1>1, <1>3, UpToEnds
  <2>2. w # <<>> /\ w \in S /\ v \in S
    BY <2>1, <1>1, <1>3, UpToEnds
  <2>3. upTo(w, Len(v)) \in S
    BY <2>1, <2>2 DEF Histories
  <2>4. Len(upTo(w, Len(v))) = Len(v)
    <3>1. Len(v) \in 0..Len(w)
      BY <2>1
    <3> QED BY <3>1, <1>1, UpToOK
  <2>5. upTo(w, Len(v)) = v
    BY <2>2, <2>3, <2>4 DEF OnePerSeq
  <2> QED BY <2>5 DEF Extends
<1> QED BY <1>2, <1>3

(* A writer signs on from one of its writes.                               *)
LEMMA HistoriesGrow ==
  ASSUME NEW S, Histories(S), NEW v \in S \cup {<<>>}, NEW x \in Nat
  PROVE  Histories(S \cup {Append(v, x)})
<1> DEFINE w == Append(v, x)
<1>1. v \in Seq(Nat)
  BY EmptySeq DEF Histories
<1>2. w \in Seq(Nat) /\ w # <<>> /\ Len(w) = Len(v) + 1 /\ prev(w) = v /\ Extends(w, v)
  BY <1>1, AppendOK, PrevOK
<1>3. Len(v) \in Nat /\ Len(w) \in Nat /\ upTo(w, Len(w)) = w
  BY <1>1, <1>2, UpToEnds
<1> HIDE DEF w
<1>4. IsFiniteSet(S \cup {w})
  BY FS_AddElement DEF Histories
<1>5. ASSUME NEW n \in 1..Len(w) PROVE upTo(w, n) \in S \cup {w}
  <2>1. CASE n = Len(w)
    BY <2>1, <1>3
  <2>2. CASE n # Len(w)
    <3>1. n \in 0..Len(v) /\ n \in 1..Len(v)
      BY <2>2, <1>2, <1>3
    <3>2. upTo(w, n) = upTo(v, n)
      BY <3>1, <1>1, <1>2, ExtendsBelow
    <3>3. v # <<>>
      BY <3>1, EmptySeq
    <3> QED BY <3>1, <3>2, <3>3 DEF Histories
  <2> QED BY <2>1, <2>2
<1> QED BY <1>2, <1>4, <1>5 DEF Histories, w

-----------------------------------------------------------------------------
(* What a log holds.                                                       *)

(* The parts of a log.                                                     *)
LEMMA LogOK ==
  ASSUME NEW S, Histories(S), NEW l \in Log(S)
  PROVE  /\ l = [base |-> l.base, tip |-> l.tip, pend |-> l.pend]
         /\ l.base \in Nat /\ l.tip \in S \cup {<<>>} /\ l.tip \in Seq(Nat)
         /\ Len(l.tip) \in Nat /\ l.base <= Len(l.tip)
         /\ l.pend \subseteq S /\ OnePerSeq(l.pend)
<1>1. /\ l \in [base : Nat, tip : S \cup {<<>>}, pend : SUBSET S]
      /\ l.base <= Len(l.tip) /\ OnePerSeq(l.pend)
  BY DEF Log
<1>2. l.tip \in Seq(Nat)
  BY <1>1, EmptySeq DEF Histories
<1>3. Len(l.tip) \in Nat
  BY <1>2, UpToEnds
<1> QED BY <1>1, <1>2, <1>3

(* What makes a log.                                                       *)
LEMMA LogMade ==
  ASSUME NEW S, Histories(S), NEW b \in Nat, NEW t \in S \cup {<<>>}, b <= Len(t),
         NEW P, P \subseteq S, OnePerSeq(P)
  PROVE  [base |-> b, tip |-> t, pend |-> P] \in Log(S)
BY DEF Log

(* A log is one of more writes, too.                                       *)
LEMMA LogGrows ==
  ASSUME NEW S, NEW T, S \subseteq T, NEW l \in Log(S)
  PROVE  l \in Log(T)
BY DEF Log

(* The empty log.                                                          *)
LEMMA EmptyLogOK ==
  ASSUME NEW S
  PROVE  EmptyLog \in Log(S)
BY EmptySeq DEF EmptyLog, Log, OnePerSeq

(* What is held of a writer has been signed.                               *)
LEMMA HeldSigned ==
  ASSUME NEW S, Histories(S), NEW t \in S \cup {<<>>}, NEW n \in 1..Len(t)
  PROVE  upTo(t, n) \in S
<1>1. t # <<>>
  BY EmptySeq
<1> QED BY <1>1 DEF Histories

(* writesFrom serves what was signed.                                      *)
LEMMA WritesFromOK ==
  ASSUME NEW S, Histories(S), NEW l \in Log(S), NEW s
  PROVE  writesFrom(l, s) \subseteq S
<1>1. l.base \in Nat /\ l.tip \in S \cup {<<>>} /\ Len(l.tip) \in Nat
  BY LogOK
<1>2. ASSUME NEW i \in l.base..(nextSeq(l) - 1) PROVE at(l, i) \in S
  <2>1. i + 1 \in 1..Len(l.tip)
    BY <1>1 DEF nextSeq
  <2> QED BY <2>1, <1>1, HeldSigned DEF at
<1> QED BY <1>2 DEF writesFrom

(* A write that is known at its seq is one that the log's tip extends.     *)
LEMMA IdAtOK ==
  ASSUME NEW S, Histories(S), NEW l \in Log(S), NEW h \in S, idAt(l, seq(h)) = h
  PROVE  Extends(l.tip, h)
<1>1. h \in Seq(Nat) /\ h # <<>>
  BY DEF Histories
<1>2. Len(h) \in Nat /\ Len(l.tip) \in Nat
  BY <1>1, UpToEnds, LogOK
<1>3. seq(h) < nextSeq(l) /\ at(l, seq(h)) = h
  BY <1>1 DEF idAt
<1>4. seq(h) + 1 = Len(h) /\ Len(h) <= Len(l.tip)
  BY <1>2, <1>3 DEF seq, nextSeq
<1> QED BY <1>3, <1>4 DEF at, Extends

-----------------------------------------------------------------------------
(* apply.                                                                  *)

(* w is appended, and with it what was waiting for it: the log stays one,  *)
(* and unless the writer has forked, all that the tip is moved over is     *)
(* reported as applied.                                                    *)
LEMMA DrainOK ==
  ASSUME NEW S, Histories(S), NEW l \in Log(S), NEW w \in S, linksTo(l, w)
  PROVE  /\ drain(l, w).log \in Log(S)
         /\ drain(l, w).log.base = l.base
         /\ Extends(drain(l, w).log.tip, w)
         /\ Extends(drain(l, w).log.tip, l.tip)
         /\ drain(l, w).log.pend \subseteq l.pend
         /\ drain(l, w).applied \subseteq l.pend \cup {w}
         /\ OnePerSeq(S) => Covers(drain(l, w).applied, Len(l.tip), drain(l, w).log.tip)
<1> DEFINE run == Linked(l, w) \cup {w}
           last == CHOOSE p \in run : \A q \in run : Len(q) <= Len(p)
           broken == {p \in l.pend \ run : Len(p) = Len(last) + 1}
<1>1. /\ l = [base |-> l.base, tip |-> l.tip, pend |-> l.pend]
      /\ l.base \in Nat /\ l.tip \in S \cup {<<>>} /\ l.tip \in Seq(Nat)
      /\ Len(l.tip) \in Nat /\ l.base <= Len(l.tip)
      /\ l.pend \subseteq S /\ OnePerSeq(l.pend)
  BY LogOK
<1>2. w \in Seq(Nat) /\ w # <<>> /\ Extends(w, l.tip) /\ Len(w) = Len(l.tip) + 1
  <2>1. w \in Seq(Nat) /\ w # <<>>
    BY DEF Histories
  <2> QED BY <2>1, <1>1, PrevOK DEF linksTo
<1>3. run \subseteq l.pend \cup {w} /\ run \subseteq S /\ run # {}
  BY <1>1 DEF Linked
<1>4. \A p \in run : p \in Seq(Nat) /\ Extends(p, w)
  <2> SUFFICES ASSUME NEW p \in run PROVE p \in Seq(Nat) /\ Extends(p, w)
    OBVIOUS
  <2>1. p \in Seq(Nat)
    BY <1>3 DEF Histories
  <2>2. CASE p = w
    BY <2>1, <2>2, ExtendsOrders
  <2>3. CASE p \in Linked(l, w)
    BY <2>1, <2>3 DEF Linked
  <2> QED BY <2>2, <2>3
<1>5. last \in run /\ \A q \in run : Len(q) <= Len(last)
  <2>1. \E p \in run : \A q \in run : Len(q) <= Len(p)
    BY <1>3, LongestExists
  <2> QED BY <2>1
<1> DEFINE next == [base |-> l.base, tip |-> last, pend |-> l.pend \ (run \cup broken)]
           all == IF broken = {} THEN run ELSE {}
<1>6. drain(l, w) = Result(next, all, FALSE, FALSE)
  BY DEF drain
<1> HIDE DEF next, all
<1>7. drain(l, w).log = next /\ drain(l, w).applied = all
  BY <1>6 DEF Result
<1> USE DEF next, all
<1> HIDE DEF run, last, broken
<1>8. last \in S /\ last \in Seq(Nat) /\ Extends(last, w) /\ Len(last) \in Nat
  BY <1>3, <1>4, <1>5, UpToEnds
<1>9. Extends(last, l.tip)
  BY <1>1, <1>2, <1>8, ExtendsOrders
<1>10. drain(l, w).log \in Log(S)
  <2>1. l.base <= Len(last)
    BY <1>1, <1>8, <1>9 DEF Extends
  <2>2. OnePerSeq(l.pend \ (run \cup broken)) /\ l.pend \ (run \cup broken) \subseteq S
    BY <1>1 DEF OnePerSeq
  <2> DEFINE P == l.pend \ (run \cup broken)
  <2>3. P \subseteq S /\ OnePerSeq(P) /\ l.base \in Nat /\ last \in S \cup {<<>>}
    BY <2>2, <1>1, <1>8
  <2> HIDE DEF P
  <2>4. [base |-> l.base, tip |-> last, pend |-> P] \in Log(S)
    BY <2>1, <2>3, LogMade
  <2> QED BY <2>4, <1>7 DEF P
<1>11. ASSUME OnePerSeq(S)
       PROVE  Covers(drain(l, w).applied, Len(l.tip), last)
  <2>1. \A n \in (Len(w) + 1)..Len(last) : upTo(last, n) \in l.pend
    <3>1. CASE last = w
      BY <3>1, <1>8
    <3>2. CASE last # w
      <4>1. last \in Linked(l, w)
        BY <3>2, <1>5 DEF run
      <4> QED BY <4>1 DEF Linked
    <3> QED BY <3>1, <3>2
  <2>2. ASSUME NEW n \in (Len(l.tip) + 1)..Len(last) PROVE upTo(last, n) \in run
    <3>1. Len(w) \in Nat /\ Len(w) <= Len(last) /\ upTo(last, Len(w)) = w
      BY <1>2, <1>8, UpToEnds DEF Extends
    <3>2. CASE n = Len(w)
      BY <3>1, <3>2 DEF run
    <3>3. CASE n # Len(w)
      <4> DEFINE p == upTo(last, n)
      <4>1. n \in (Len(w) + 1)..Len(last) /\ n \in Len(w)..Len(last) /\ n \in 0..Len(last)
        BY <3>1, <3>3, <1>1, <1>2, <1>8
      <4>2. p \in l.pend /\ Extends(p, w) /\ Len(p) = n
        BY <4>1, <2>1, <1>2, <1>8, ExtendsBelow, UpToOK
      <4>3. ASSUME NEW m \in (Len(w) + 1)..n PROVE upTo(p, m) \in l.pend
        <5>1. m \in 0..n /\ m \in (Len(w) + 1)..Len(last)
          BY <4>1, <3>1
        <5>2. upTo(p, m) = upTo(last, m)
          BY <5>1, <4>1, <1>8, UpToOK
        <5> QED BY <5>1, <5>2, <2>1
      <4> HIDE DEF p
      <4>4. p \in Linked(l, w)
        BY <4>2, <4>3 DEF Linked
      <4> QED BY <4>4 DEF p, run
    <3> QED BY <3>2, <3>3
  <2>3. broken = {}
    <3> SUFFICES ASSUME NEW p \in broken PROVE FALSE
      OBVIOUS
    <3>1. p \in l.pend /\ p \notin run /\ Len(p) = Len(last) + 1
      BY DEF broken
    <3>2. p \in S /\ p \in Seq(Nat)
      BY <3>1, <1>1 DEF Histories
    <3>3. Extends(p, last)
      BY <3>1, <3>2, <1>8, <1>11, OneChain
    <3>4. Extends(p, w)
      BY <3>2, <3>3, <1>2, <1>8, ExtendsOrders
    <3>5. ASSUME NEW m \in (Len(w) + 1)..Len(p) PROVE upTo(p, m) \in l.pend
      <4>1. Len(w) \in Nat
        BY <1>2, UpToEnds
      <4>2. CASE m = Len(p)
        BY <4>2, <3>1, <3>2, UpToEnds
      <4>3. CASE m # Len(p)
        <5>1. m \in 0..Len(last) /\ m \in (Len(w) + 1)..Len(last)
          BY <4>1, <4>3, <3>1, <1>8
        <5>2. upTo(p, m) = upTo(last, m)
          BY <5>1, <3>2, <3>3, <1>8, ExtendsBelow
        <5> QED BY <5>1, <5>2, <2>1
      <4> QED BY <4>2, <4>3
    <3>6. p \in Linked(l, w)
      BY <3>1, <3>4, <3>5 DEF Linked
    <3> QED BY <3>1, <3>6 DEF run
  <2> QED BY <2>2, <2>3, <1>7 DEF Covers
<1>12. drain(l, w).applied \subseteq l.pend \cup {w}
  BY <1>3, <1>7
<1> QED BY <1>7, <1>8, <1>9, <1>10, <1>11, <1>12

(* What apply comes down to: nothing, a write that waits, or drain.        *)
LEMMA ApplyCases ==
  ASSUME NEW l, NEW w
  PROVE  \/ apply(l, w).log = l /\ apply(l, w).applied = {}
         \/ /\ existing(l, w) = {}
            /\ apply(l, w).log = [l EXCEPT !.pend = @ \cup {w}] /\ apply(l, w).applied = {}
         \/ /\ linksTo(l, w)
            /\ apply(l, w) = drain(l, w)
<1> DEFINE c1 == seq(w) < l.base
           c2 == seq(w) >= l.base /\ existing(l, w) # {}
           c3 == seq(w) > nextSeq(l) /\ existing(l, w) = {}
           c4 == seq(w) = nextSeq(l) /\ existing(l, w) = {} /\ linksTo(l, w)
           forked == w \notin existing(l, w)
           more == [l EXCEPT !.pend = @ \cup {w}]
<1>1. apply(l, w) =
        CASE c1 -> Result(l, {}, FALSE, FALSE)
          [] c2 -> Result(l, {}, FALSE, forked)
          [] c3 -> Result(more, {}, TRUE, FALSE)
          [] c4 -> drain(l, w)
          [] OTHER -> Result(l, {}, FALSE, FALSE)
  BY DEF apply
<1>2. c3 => existing(l, w) = {}
  OBVIOUS
<1>3. c4 => linksTo(l, w)
  OBVIOUS
<1> HIDE DEF c1, c2, c3, c4, forked, more
<1>4. \/ apply(l, w) = Result(l, {}, FALSE, FALSE)
      \/ apply(l, w) = Result(l, {}, FALSE, forked)
      \/ c3 /\ apply(l, w) = Result(more, {}, TRUE, FALSE)
      \/ c4 /\ apply(l, w) = drain(l, w)
  BY <1>1
<1>5. CASE apply(l, w) = Result(l, {}, FALSE, FALSE)
  BY <1>5 DEF Result
<1>6. CASE apply(l, w) = Result(l, {}, FALSE, forked)
  BY <1>6 DEF Result
<1>7. CASE c3 /\ apply(l, w) = Result(more, {}, TRUE, FALSE)
  <2>1. apply(l, w).log = more /\ apply(l, w).applied = {}
    BY <1>7 DEF Result
  <2> QED BY <2>1, <1>2, <1>7 DEF more
<1>8. CASE c4 /\ apply(l, w) = drain(l, w)
  BY <1>3, <1>8
<1> QED BY <1>4, <1>5, <1>6, <1>7, <1>8

(* A write arrives: the log stays one, goes on from its tip, and unless the*)
(* writer has forked, reports as applied all that the tip is moved over.   *)
LEMMA ApplyOK ==
  ASSUME NEW S, Histories(S), NEW l \in Log(S), NEW w \in S
  PROVE  /\ apply(l, w).log \in Log(S)
         /\ apply(l, w).log.base = l.base
         /\ Extends(apply(l, w).log.tip, l.tip)
         /\ apply(l, w).log.pend \subseteq l.pend \cup {w}
         /\ apply(l, w).applied \subseteq l.pend \cup {w}
         /\ OnePerSeq(S) => Covers(apply(l, w).applied, Len(l.tip), apply(l, w).log.tip)
<1>1. /\ l = [base |-> l.base, tip |-> l.tip, pend |-> l.pend]
      /\ l.base \in Nat /\ l.tip \in S \cup {<<>>} /\ l.tip \in Seq(Nat)
      /\ Len(l.tip) \in Nat /\ l.base <= Len(l.tip)
      /\ l.pend \subseteq S /\ OnePerSeq(l.pend)
  BY LogOK
<1>2. Extends(l.tip, l.tip)
  BY <1>1, ExtendsOrders
<1>3. Covers({}, Len(l.tip), l.tip)
  BY <1>1 DEF Covers
<1>4. CASE apply(l, w).log = l /\ apply(l, w).applied = {}
  BY <1>1, <1>2, <1>3, <1>4
<1>5. CASE /\ existing(l, w) = {}
           /\ apply(l, w).log = [l EXCEPT !.pend = @ \cup {w}] /\ apply(l, w).applied = {}
  <2>1. apply(l, w).log = [base |-> l.base, tip |-> l.tip, pend |-> l.pend \cup {w}]
    BY <1>1, <1>5
  <2>2. {p \in l.pend : Len(p) = Len(w)} = {}
    BY <1>5 DEF existing
  <2>3. OnePerSeq(l.pend \cup {w}) /\ l.pend \cup {w} \subseteq S
    BY <1>1, <2>2 DEF OnePerSeq
  <2>4. [base |-> l.base, tip |-> l.tip, pend |-> l.pend \cup {w}] \in Log(S)
    BY <1>1, <2>3, LogMade
  <2> QED BY <1>2, <1>3, <1>5, <2>1, <2>4
<1>6. CASE linksTo(l, w) /\ apply(l, w) = drain(l, w)
  <2>1. drain(l, w).log.pend \subseteq l.pend \cup {w}
    BY <1>6, DrainOK
  <2> QED BY <1>6, <2>1, DrainOK
<1> QED BY <1>4, <1>5, <1>6, ApplyCases

(* The next write of a log without any that waits moves the tip, ...       *)
LEMMA ApplyNext ==
  ASSUME NEW S, Histories(S), NEW l \in Log(S), \A p \in l.pend : Len(p) <= Len(l.tip),
         NEW w \in Seq(Nat), w # <<>>, prev(w) = l.tip
  PROVE  /\ apply(l, w).log = [base |-> l.base, tip |-> w, pend |-> l.pend]
         /\ apply(l, w).applied = {w}
<1> DEFINE t == l.tip
           P == l.pend
           run == Linked(l, w) \cup {w}
           last == CHOOSE p \in run : \A q \in run : Len(q) <= Len(p)
           broken == {p \in l.pend \ run : Len(p) = Len(last) + 1}
<1>1. t \in Seq(Nat) /\ l.base <= Len(t) /\ l.base \in Nat
      /\ \A p \in P : Len(p) \in Nat /\ p \in Seq(Nat)
  <2>1. P \subseteq Seq(Nat)
    BY LogOK DEF Histories
  <2> QED BY <2>1, UpToEnds, LogOK
<1>2. Extends(w, t) /\ Len(w) = Len(t) + 1 /\ Len(t) \in Nat
  BY <1>1, PrevOK, UpToEnds
<1>3. seq(w) = nextSeq(l) /\ ~(seq(w) < l.base) /\ ~(seq(w) > nextSeq(l))
      /\ ~(seq(w) < nextSeq(l))
  BY <1>1, <1>2 DEF seq, nextSeq
<1>4. existing(l, w) = {}
  BY <1>1, <1>2, <1>3 DEF existing
<1>5. linksTo(l, w)
  BY DEF linksTo
<1>6. apply(l, w) = drain(l, w)
  BY <1>3, <1>4, <1>5 DEF apply
<1>7. run = {w}
  <2>1. ASSUME NEW p \in Linked(l, w) PROVE FALSE
    <3>1. p \in P /\ Extends(p, w)
      BY DEF Linked
    <3>2. Len(w) <= Len(p) /\ Len(p) <= Len(t) /\ Len(p) \in Nat
      BY <3>1, <1>1 DEF Extends
    <3> QED BY <3>2, <1>2
  <2> QED BY <2>1
<1>8. last = w
  <2>1. Len(w) <= Len(w)
    BY <1>2
  <2> HIDE DEF run
  <2> QED BY <1>7, <2>1
<1>9. broken = {}
  <2> SUFFICES ASSUME NEW p \in broken PROVE FALSE
    OBVIOUS
  <2>1. p \in P /\ Len(p) = Len(w) + 1
    BY <1>8
  <2>2. Len(p) <= Len(t) /\ Len(p) \in Nat
    BY <2>1, <1>1
  <2> QED BY <2>1, <2>2, <1>2
<1> DEFINE next == [base |-> l.base, tip |-> last, pend |-> l.pend \ (run \cup broken)]
           all == IF broken = {} THEN run ELSE {}
<1>10. drain(l, w) = Result(next, all, FALSE, FALSE)
  BY DEF drain
<1>11. w \notin P
  BY <1>2
<1>12. next = [base |-> l.base, tip |-> w, pend |-> l.pend] /\ all = {w}
  <2>1. l.pend \ (run \cup broken) = l.pend
    <3> HIDE DEF run, broken
    <3> QED BY <1>7, <1>9, <1>11
  <2>2. all = {w}
    <3> HIDE DEF run, broken
    <3> QED BY <1>7, <1>9
  <2> HIDE DEF run, broken, last
  <2> QED BY <2>1, <2>2, <1>8
<1> HIDE DEF next, all, run, last, broken
<1>13. drain(l, w).log = next /\ drain(l, w).applied = all
  BY <1>10 DEF Result
<1> QED BY <1>6, <1>12, <1>13

(* ... and one below the base changes nothing.                             *)
LEMMA ApplyBelow ==
  ASSUME NEW S, Histories(S), NEW l \in Log(S), NEW w \in S, seq(w) < l.base
  PROVE  apply(l, w).log = l
<1>1. /\ l.base \in Nat /\ Len(l.tip) \in Nat /\ l.base <= Len(l.tip) /\ Len(w) \in Nat
  BY LogOK, HistoriesBounded
<1>2. ~(seq(w) >= l.base) /\ ~(seq(w) > nextSeq(l)) /\ seq(w) # nextSeq(l)
  BY <1>1 DEF seq, nextSeq
<1>3. apply(l, w) = Result(l, {}, FALSE, FALSE)
  BY <1>2 DEF apply
<1> QED BY <1>3 DEF Result

-----------------------------------------------------------------------------
(* applyAll.                                                               *)

(* What holds of a result r of applying writes, signed ones, to l.         *)
Applied(S, l, r) ==
  /\ r.log \in Log(S) /\ r.log.base = l.base
  /\ Extends(r.log.tip, l.tip)
  /\ r.applied \subseteq S
  /\ OnePerSeq(S) => Covers(r.applied, Len(l.tip), r.log.tip)

(* The tip is covered step by step.                                        *)
LEMMA CoversMore ==
  ASSUME NEW t \in Seq(Nat), NEW u \in Seq(Nat), Extends(u, t), NEW b \in Nat, NEW A, NEW B,
         Covers(A, b, t), Covers(B, Len(t), u)
  PROVE  Covers(A \cup B, b, u)
<1>1. Len(t) \in Nat /\ Len(u) \in Nat /\ Len(t) <= Len(u)
  BY UpToEnds DEF Extends
<1>2. ASSUME NEW n \in (b + 1)..Len(u) PROVE upTo(u, n) \in A \cup B
  <2>1. CASE n <= Len(t)
    <3>1. n \in 0..Len(t) /\ n \in (b + 1)..Len(t)
      BY <2>1, <1>1
    <3>2. upTo(u, n) = upTo(t, n)
      BY <3>1, ExtendsBelow
    <3> QED BY <3>1, <3>2 DEF Covers
  <2>2. CASE n > Len(t)
    <3>1. n \in (Len(t) + 1)..Len(u)
      BY <2>2, <1>1
    <3> QED BY <3>1 DEF Covers
  <2> QED BY <2>1, <2>2, <1>1
<1> QED BY <1>2 DEF Covers

(* Nothing has come yet.                                                   *)
LEMMA AppliedNothing ==
  ASSUME NEW S, Histories(S), NEW l \in Log(S)
  PROVE  Applied(S, l, Result(l, {}, FALSE, FALSE))
<1>1. l.tip \in Seq(Nat) /\ Len(l.tip) \in Nat
  BY LogOK
<1>2. Extends(l.tip, l.tip)
  BY <1>1, ExtendsOrders
<1>3. Covers({}, Len(l.tip), l.tip)
  BY <1>1 DEF Covers
<1> QED BY <1>2, <1>3 DEF Applied, Result

(* One more comes.                                                         *)
LEMMA AppliedThen ==
  ASSUME NEW S, Histories(S), NEW l \in Log(S), NEW r, Applied(S, l, r), NEW w \in S
  PROVE  Applied(S, l, Then(r, w))
<1> DEFINE q == apply(r.log, w)
<1>1. /\ r.log \in Log(S) /\ r.log.base = l.base /\ Extends(r.log.tip, l.tip)
      /\ r.applied \subseteq S
      /\ OnePerSeq(S) => Covers(r.applied, Len(l.tip), r.log.tip)
  BY DEF Applied
<1>2. r.log.pend \subseteq S /\ r.log.tip \in Seq(Nat) /\ l.tip \in Seq(Nat) /\ Len(l.tip) \in Nat
  BY <1>1, LogOK
<1>3. /\ q.log \in Log(S) /\ q.log.base = r.log.base /\ Extends(q.log.tip, r.log.tip)
      /\ q.applied \subseteq r.log.pend \cup {w}
      /\ OnePerSeq(S) => Covers(q.applied, Len(r.log.tip), q.log.tip)
  BY <1>1, ApplyOK
<1>4. Then(r, w) = Result(q.log, r.applied \cup q.applied, r.buffered \/ q.buffered,
                          r.fork \/ q.fork)
  BY DEF Then
<1> HIDE DEF q
<1>5. Then(r, w).log = q.log /\ Then(r, w).applied = r.applied \cup q.applied
  BY <1>4 DEF Result
<1>6. q.log.tip \in Seq(Nat)
  BY <1>3, LogOK
<1>7. Extends(q.log.tip, l.tip)
  BY <1>1, <1>2, <1>3, <1>6, ExtendsOrders
<1>8. OnePerSeq(S) => Covers(r.applied \cup q.applied, Len(l.tip), q.log.tip)
  BY <1>1, <1>2, <1>3, <1>6, CoversMore
<1>9. r.applied \cup q.applied \subseteq S
  BY <1>1, <1>2, <1>3
<1> QED BY <1>1, <1>3, <1>5, <1>7, <1>8, <1>9 DEF Applied

(* The recursion of applyAll, of which g is the function defined up to m.  *)
AppliedUpTo(l, T, g, m) ==
  g = [n \in 0..m |->
         IF n = 0 THEN Result(l, {}, FALSE, FALSE)
         ELSE IF \A w \in T : Len(w) # n THEN g[n - 1]
         ELSE Then(g[n - 1], CHOOSE w \in T : Len(w) = n)]

(* There is such a function: one that is defined less far goes on.         *)
LEMMA AppliedUpToExists ==
  ASSUME NEW l, NEW T, NEW m \in Nat
  PROVE  \E g : AppliedUpTo(l, T, g, m)
<1> DEFINE N == {k \in Nat : ~\E g : AppliedUpTo(l, T, g, k)}
<1>1. 0 \notin N
  <2> DEFINE g == [n \in 0..0 |-> Result(l, {}, FALSE, FALSE)]
  <2>1. \A n \in 0..0 : n = 0
    OBVIOUS
  <2>2. g = [n \in 0..0 |->
               IF n = 0 THEN Result(l, {}, FALSE, FALSE)
               ELSE IF \A w \in T : Len(w) # n THEN g[n - 1]
               ELSE Then(g[n - 1], CHOOSE w \in T : Len(w) = n)]
    BY <2>1
  <2> HIDE DEF g
  <2> QED BY <2>2 DEF AppliedUpTo
<1>2. ASSUME N # {} PROVE FALSE
  <2>1. PICK k \in N : \A j \in N : k <= j
    <3>1. N \subseteq Nat
      OBVIOUS
    <3> QED BY <3>1, <1>2, LeastExists
  <2>2. k \in Nat /\ k # 0 /\ k - 1 \in Nat /\ ~(k <= k - 1)
    BY <1>1
  <2>3. PICK g : AppliedUpTo(l, T, g, k - 1)
    BY <2>1, <2>2
  <2> DEFINE next == IF \A w \in T : Len(w) # k THEN g[k - 1]
                     ELSE Then(g[k - 1], CHOOSE w \in T : Len(w) = k)
             f == [n \in 0..k |-> IF n = k THEN next ELSE g[n]]
  <2>4. \A n \in 0..k : n # 0 => f[n - 1] = g[n - 1]
    <3> SUFFICES ASSUME NEW n \in 0..k, n # 0 PROVE f[n - 1] = g[n - 1]
      OBVIOUS
    <3>1. n - 1 \in 0..k /\ n - 1 # k
      BY <2>2
    <3> QED BY <3>1
  <2>5. \A n \in 0..k :
          f[n] = IF n = 0 THEN Result(l, {}, FALSE, FALSE)
                 ELSE IF \A w \in T : Len(w) # n THEN f[n - 1]
                 ELSE Then(f[n - 1], CHOOSE w \in T : Len(w) = n)
    <3> SUFFICES ASSUME NEW n \in 0..k
                 PROVE  f[n] = IF n = 0 THEN Result(l, {}, FALSE, FALSE)
                               ELSE IF \A w \in T : Len(w) # n THEN f[n - 1]
                               ELSE Then(f[n - 1], CHOOSE w \in T : Len(w) = n)
      OBVIOUS
    <3>1. CASE n = k
      <4>1. f[n] = next /\ n # 0 /\ f[n - 1] = g[k - 1]
        BY <3>1, <2>2, <2>4
      <4> HIDE DEF f
      <4> QED BY <4>1, <3>1
    <3>2. CASE n # k
      <4>1. f[n] = g[n] /\ n \in 0..(k - 1) /\ (n # 0 => f[n - 1] = g[n - 1])
        BY <3>2, <2>2, <2>4
      <4>2. g[n] = IF n = 0 THEN Result(l, {}, FALSE, FALSE)
                   ELSE IF \A w \in T : Len(w) # n THEN g[n - 1]
                   ELSE Then(g[n - 1], CHOOSE w \in T : Len(w) = n)
        BY <4>1, <2>3 DEF AppliedUpTo
      <4> HIDE DEF f
      <4> QED BY <4>1, <4>2
    <3> QED BY <3>1, <3>2
  <2>6. f = [n \in 0..k |->
               IF n = 0 THEN Result(l, {}, FALSE, FALSE)
               ELSE IF \A w \in T : Len(w) # n THEN f[n - 1]
               ELSE Then(f[n - 1], CHOOSE w \in T : Len(w) = n)]
    <3>1. f = [n \in 0..k |-> f[n]]
      OBVIOUS
    <3> HIDE DEF f
    <3> QED BY <2>5, <3>1
  <2> HIDE DEF f
  <2>7. AppliedUpTo(l, T, f, k)
    BY <2>6 DEF AppliedUpTo
  <2> QED BY <2>1, <2>7
<1> QED BY <1>2

(* All of T come.                                                          *)
LEMMA ApplyAllOK ==
  ASSUME NEW S, Histories(S), NEW l \in Log(S), NEW T, T \subseteq S
  PROVE  Applied(S, l, applyAll(l, T))
<1> DEFINE m == longest(T)
           F == CHOOSE g : AppliedUpTo(l, T, g, m)
<1>1. m \in Nat
  BY LongestOK
<1>2. applyAll(l, T) = F[m]
  BY DEF applyAll, AppliedUpTo
<1>3. AppliedUpTo(l, T, F, m)
  <2> HIDE DEF m
  <2> QED BY <1>1, AppliedUpToExists
<1> HIDE DEF F, m
<1>4. \A n \in 0..m :
        F[n] = IF n = 0 THEN Result(l, {}, FALSE, FALSE)
               ELSE IF \A w \in T : Len(w) # n THEN F[n - 1]
               ELSE Then(F[n - 1], CHOOSE w \in T : Len(w) = n)
  BY <1>3 DEF AppliedUpTo
<1> DEFINE N == {n \in 0..m : ~Applied(S, l, F[n])}
<1>5. ASSUME N # {} PROVE FALSE
  <2>1. PICK k \in N : \A j \in N : k <= j
    <3>1. N \subseteq Nat
      BY <1>1
    <3> QED BY <3>1, <1>5, LeastExists
  <2>2. k \in 0..m /\ ~Applied(S, l, F[k])
    BY <2>1
  <2>3. CASE k = 0
    BY <2>2, <2>3, <1>4, AppliedNothing
  <2>4. CASE k # 0
    <3>1. k - 1 \in 0..m /\ ~(k <= k - 1)
      BY <2>2, <2>4, <1>1
    <3>2. Applied(S, l, F[k - 1])
      BY <2>1, <3>1
    <3>3. CASE \A w \in T : Len(w) # k
      BY <2>2, <2>4, <3>2, <3>3, <1>4
    <3>4. CASE ~\A w \in T : Len(w) # k
      <4> DEFINE w == CHOOSE x \in T : Len(x) = k
      <4>1. w \in T
        BY <3>4
      <4>2. F[k] = Then(F[k - 1], w)
        BY <2>2, <2>4, <3>4, <1>4
      <4> HIDE DEF w
      <4> QED BY <4>1, <4>2, <3>2, <2>2, AppliedThen
    <3> QED BY <3>3, <3>4
  <2> QED BY <2>3, <2>4
<1>6. m \in 0..m
  BY <1>1
<1> QED BY <1>2, <1>5, <1>6

-----------------------------------------------------------------------------
(* replay.                                                                 *)

WritesIn(rows) == {r[1] : r \in rows}

(* A round applies one of its rows if any of them changes the log.         *)
LEMMA RoundOK ==
  ASSUME NEW rows, \A r \in rows : r[2] \in Nat, NEW l
  PROVE  \/ round(l, rows) = l /\ \A r \in rows : apply(l, r[1]).log = l
         \/ \E r \in rows : round(l, rows) = apply(l, r[1]).log
<1> DEFINE taken == {r \in rows : apply(l, r[1]).log # l}
           first == CHOOSE r \in taken : \A q \in taken : r[2] <= q[2]
<1>1. CASE taken = {}
  BY <1>1 DEF round
<1>2. CASE taken # {}
  <2> DEFINE N == {r[2] : r \in taken}
  <2>1. N \subseteq Nat /\ N # {}
    BY <1>2
  <2>2. PICK k \in N : \A n \in N : k <= n
    BY <2>1, LeastExists
  <2>3. \E r \in taken : \A q \in taken : r[2] <= q[2]
    BY <2>2
  <2>4. first \in taken
    BY <2>3
  <2>5. round(l, rows) = apply(l, first[1]).log
    BY <1>2 DEF round
  <2> QED BY <2>4, <2>5
<1> QED BY <1>1, <1>2

(* The recursion of replay, of which g is the function defined up to m.    *)
ReplayedUpTo(l, rows, g, m) ==
  g = [n \in 0..m |-> IF n = 0 THEN l ELSE round(g[n - 1], {r \in rows : Len(r[1]) = n})]

(* There is such a function: one that is defined less far goes on.         *)
LEMMA ReplayedUpToExists ==
  ASSUME NEW l, NEW rows, NEW m \in Nat
  PROVE  \E g : ReplayedUpTo(l, rows, g, m)
<1> DEFINE N == {k \in Nat : ~\E g : ReplayedUpTo(l, rows, g, k)}
<1>1. 0 \notin N
  <2> DEFINE g == [n \in 0..0 |-> l]
  <2>1. \A n \in 0..0 : n = 0
    OBVIOUS
  <2>2. g = [n \in 0..0 |-> IF n = 0 THEN l ELSE round(g[n - 1], {r \in rows : Len(r[1]) = n})]
    BY <2>1
  <2> HIDE DEF g
  <2> QED BY <2>2 DEF ReplayedUpTo
<1>2. ASSUME N # {} PROVE FALSE
  <2>1. PICK k \in N : \A j \in N : k <= j
    <3>1. N \subseteq Nat
      OBVIOUS
    <3> QED BY <3>1, <1>2, LeastExists
  <2>2. k \in Nat /\ k # 0 /\ k - 1 \in Nat /\ ~(k <= k - 1)
    BY <1>1
  <2>3. PICK g : ReplayedUpTo(l, rows, g, k - 1)
    BY <2>1, <2>2
  <2> DEFINE next == round(g[k - 1], {r \in rows : Len(r[1]) = k})
             f == [n \in 0..k |-> IF n = k THEN next ELSE g[n]]
  <2>4. \A n \in 0..k : n # 0 => f[n - 1] = g[n - 1]
    <3> SUFFICES ASSUME NEW n \in 0..k, n # 0 PROVE f[n - 1] = g[n - 1]
      OBVIOUS
    <3>1. n - 1 \in 0..k /\ n - 1 # k
      BY <2>2
    <3> QED BY <3>1
  <2>5. \A n \in 0..k :
          f[n] = IF n = 0 THEN l ELSE round(f[n - 1], {r \in rows : Len(r[1]) = n})
    <3> SUFFICES ASSUME NEW n \in 0..k
                 PROVE  f[n] = IF n = 0 THEN l
                               ELSE round(f[n - 1], {r \in rows : Len(r[1]) = n})
      OBVIOUS
    <3>1. CASE n = k
      <4>1. f[n] = next /\ n # 0 /\ f[n - 1] = g[k - 1]
        BY <3>1, <2>2, <2>4
      <4> HIDE DEF f
      <4> QED BY <4>1, <3>1
    <3>2. CASE n # k
      <4>1. f[n] = g[n] /\ n \in 0..(k - 1) /\ (n # 0 => f[n - 1] = g[n - 1])
        BY <3>2, <2>2, <2>4
      <4>2. g[n] = IF n = 0 THEN l ELSE round(g[n - 1], {r \in rows : Len(r[1]) = n})
        BY <4>1, <2>3 DEF ReplayedUpTo
      <4> HIDE DEF f
      <4> QED BY <4>1, <4>2
    <3> QED BY <3>1, <3>2
  <2>6. f = [n \in 0..k |-> IF n = 0 THEN l ELSE round(f[n - 1], {r \in rows : Len(r[1]) = n})]
    <3>1. f = [n \in 0..k |-> f[n]]
      OBVIOUS
    <3> HIDE DEF f
    <3> QED BY <2>5, <3>1
  <2> HIDE DEF f
  <2>7. ReplayedUpTo(l, rows, f, k)
    BY <2>6 DEF ReplayedUpTo
  <2> QED BY <2>1, <2>7
<1> QED BY <1>2

(* What holds of a log x replayed from l.                                  *)
Replayed(S, l, rows, x) ==
  /\ x \in Log(S) /\ x.base = l.base
  /\ Extends(x.tip, l.tip)
  /\ x.pend \subseteq WritesIn(rows)
  /\ OnePerSeq(S) => Covers(WritesIn(rows), Len(l.tip), x.tip)

(* It holds on after one round more.                                       *)
LEMMA ReplayedRound ==
  ASSUME NEW S, Histories(S), NEW l \in Log(S), NEW rows, rows \subseteq S \X Nat,
         NEW x, Replayed(S, l, rows, x), NEW R, R \subseteq rows
  PROVE  Replayed(S, l, rows, round(x, R)) /\ Extends(round(x, R).tip, x.tip)
<1> DEFINE y == round(x, R)
<1>1. /\ x \in Log(S) /\ x.base = l.base /\ Extends(x.tip, l.tip)
      /\ x.pend \subseteq WritesIn(rows)
      /\ OnePerSeq(S) => Covers(WritesIn(rows), Len(l.tip), x.tip)
  BY DEF Replayed
<1>2. R \subseteq S \X Nat /\ R \subseteq rows
  OBVIOUS
<1>3. x.tip \in Seq(Nat) /\ l.tip \in Seq(Nat) /\ Len(l.tip) \in Nat
  BY <1>1, LogOK
<1>4. CASE y = x
  <2>1. Extends(x.tip, x.tip)
    BY <1>3, ExtendsOrders
  <2>2. Replayed(S, l, rows, y) /\ Extends(y.tip, x.tip)
    <3> HIDE DEF y
    <3> QED BY <2>1, <1>4
  <2> QED BY <2>2
<1>5. ASSUME NEW r \in R, y = apply(x, r[1]).log
      PROVE  Replayed(S, l, rows, y) /\ Extends(y.tip, x.tip)
  <2>1. r[1] \in S /\ r[1] \in WritesIn(rows)
    BY <1>2 DEF WritesIn
  <2> DEFINE A == apply(x, r[1]).applied
  <2>2. /\ y \in Log(S) /\ y.base = x.base /\ Extends(y.tip, x.tip)
        /\ y.pend \subseteq x.pend \cup {r[1]} /\ A \subseteq x.pend \cup {r[1]}
        /\ OnePerSeq(S) => Covers(A, Len(x.tip), y.tip)
    <3> HIDE DEF y
    <3> QED BY <1>1, <1>5, <2>1, ApplyOK
  <2> HIDE DEF y, A
  <2>3. y.tip \in Seq(Nat)
    BY <2>2, LogOK
  <2>4. Extends(y.tip, l.tip)
    BY <1>1, <1>3, <2>2, <2>3, ExtendsOrders
  <2>5. y.pend \subseteq WritesIn(rows) /\ A \subseteq WritesIn(rows)
    BY <1>1, <2>1, <2>2
  <2>6. ASSUME OnePerSeq(S) PROVE Covers(WritesIn(rows), Len(l.tip), y.tip)
    <3>1. Covers(WritesIn(rows) \cup A, Len(l.tip), y.tip)
      BY <1>1, <1>3, <2>2, <2>3, <2>6, CoversMore
    <3>2. WritesIn(rows) \cup A = WritesIn(rows)
      BY <2>5
    <3> QED BY <3>1, <3>2
  <2> QED BY <1>1, <2>2, <2>4, <2>5, <2>6 DEF Replayed
<1>6. \/ y = x
      \/ \E r \in R : y = apply(x, r[1]).log
  <2>1. \A r \in R : r[2] \in Nat
    BY <1>2
  <2> QED BY <2>1, RoundOK
<1> QED BY <1>4, <1>5, <1>6

(* F is the log after each round.                                          *)
ReplayRounds(S, l, rows, F) ==
  /\ F[0] = l /\ F[longest(WritesIn(rows))] = replay(l, rows)
  /\ \A n \in 0..longest(WritesIn(rows)) : Replayed(S, l, rows, F[n])
  /\ \A n \in 1..longest(WritesIn(rows)) :
       /\ F[n] = round(F[n - 1], {r \in rows : Len(r[1]) = n})
       /\ Extends(F[n].tip, F[n - 1].tip)

(* The rows are replayed to the end, round by round.                       *)
LEMMA ReplayOK ==
  ASSUME NEW S, Histories(S), NEW l \in Log(S), l.pend = {},
         NEW rows, rows \subseteq S \X Nat
  PROVE  /\ longest(WritesIn(rows)) \in Nat
         /\ \A r \in rows : Len(r[1]) \in 1..longest(WritesIn(rows))
         /\ Replayed(S, l, rows, replay(l, rows))
         /\ \E F : ReplayRounds(S, l, rows, F)
<1> DEFINE m == longest(WritesIn(rows))
           F == CHOOSE g : ReplayedUpTo(l, rows, g, m)
<1>1. m \in Nat /\ \A r \in rows : Len(r[1]) \in 1..m
  <2>1. WritesIn(rows) \subseteq S /\ \A r \in rows : r[1] \in WritesIn(rows)
    BY DEF WritesIn
  <2> QED BY <2>1, LongestOK
<1>2. replay(l, rows) = F[m]
  BY DEF replay, ReplayedUpTo, WritesIn
<1>3. ReplayedUpTo(l, rows, F, m)
  <2> HIDE DEF m
  <2> QED BY <1>1, ReplayedUpToExists
<1> HIDE DEF F, m
<1>4. \A n \in 0..m :
        F[n] = IF n = 0 THEN l ELSE round(F[n - 1], {r \in rows : Len(r[1]) = n})
  BY <1>3 DEF ReplayedUpTo
<1>5. F[0] = l
  <2>1. 0 \in 0..m
    BY <1>1
  <2> QED BY <2>1, <1>4
<1>6. Replayed(S, l, rows, l)
  <2>1. l.tip \in Seq(Nat) /\ Len(l.tip) \in Nat
    BY LogOK
  <2>2. Extends(l.tip, l.tip) /\ Covers(WritesIn(rows), Len(l.tip), l.tip)
    BY <2>1, ExtendsOrders DEF Covers
  <2> QED BY <2>2 DEF Replayed
<1> DEFINE N == {n \in 0..m : ~Replayed(S, l, rows, F[n])}
<1>7. ASSUME N # {} PROVE FALSE
  <2>1. PICK k \in N : \A j \in N : k <= j
    <3>1. N \subseteq Nat
      BY <1>1
    <3> QED BY <3>1, <1>7, LeastExists
  <2>2. k \in 0..m /\ ~Replayed(S, l, rows, F[k])
    BY <2>1
  <2>3. k # 0
    BY <2>2, <1>5, <1>6
  <2>4. k - 1 \in 0..m /\ ~(k <= k - 1)
    BY <2>2, <2>3, <1>1
  <2>5. Replayed(S, l, rows, F[k - 1])
    BY <2>1, <2>4
  <2> DEFINE R == {r \in rows : Len(r[1]) = k}
  <2>6. F[k] = round(F[k - 1], R) /\ R \subseteq rows
    BY <2>2, <2>3, <1>4
  <2> HIDE DEF R
  <2> QED BY <2>2, <2>5, <2>6, ReplayedRound
<1>8. \A n \in 0..m : Replayed(S, l, rows, F[n])
  BY <1>7
<1>9. ASSUME NEW n \in 1..m
      PROVE  /\ F[n] = round(F[n - 1], {r \in rows : Len(r[1]) = n})
             /\ Extends(F[n].tip, F[n - 1].tip)
  <2>1. n \in 0..m /\ n # 0 /\ n - 1 \in 0..m
    BY <1>1
  <2>2. F[n] = round(F[n - 1], {r \in rows : Len(r[1]) = n})
    BY <2>1, <1>4
  <2>3. Replayed(S, l, rows, F[n - 1])
    BY <2>1, <1>8
  <2> DEFINE R == {r \in rows : Len(r[1]) = n}
  <2>4. F[n] = round(F[n - 1], R) /\ R \subseteq rows
    BY <2>2
  <2> HIDE DEF R
  <2>5. Extends(F[n].tip, F[n - 1].tip)
    BY <2>3, <2>4, ReplayedRound
  <2> QED BY <2>2, <2>5
<1>10. m \in 0..m
  BY <1>1
<1>11. Replayed(S, l, rows, replay(l, rows))
  BY <1>2, <1>8, <1>10
<1>12. ReplayRounds(S, l, rows, F)
  BY <1>2, <1>5, <1>8, <1>9 DEF ReplayRounds, m
<1> QED BY <1>1, <1>11, <1>12 DEF m

(* A log replayed from a checkpoint has again all that its rows cover, if  *)
(* the writer has not forked.                                              *)
LEMMA ReplayAll ==
  ASSUME NEW S, Histories(S), OnePerSeq(S), NEW h \in S \cup {<<>>},
         NEW rows, rows \subseteq S \X Nat, NEW t \in S \cup {<<>>},
         Covers(WritesIn(rows), Len(h), t)
  PROVE  Extends(replay([base |-> Len(h), tip |-> h, pend |-> {}], rows).tip, t)
<1> DEFINE b == Len(h)
           l == [base |-> b, tip |-> h, pend |-> {}]
           m == longest(WritesIn(rows))
           R(n) == {r \in rows : Len(r[1]) = n}
<1>1. /\ h \in Seq(Nat) /\ t \in Seq(Nat) /\ b \in Nat /\ Len(t) \in Nat
  <2>1. h \in Seq(Nat) /\ t \in Seq(Nat)
    BY EmptySeq DEF Histories
  <2> QED BY <2>1, UpToEnds
<1>2. l \in Log(S) /\ l.base = b /\ l.tip = h /\ l.pend = {}
  <2>1. OnePerSeq({}) /\ {} \subseteq S /\ b <= Len(h)
    BY <1>1 DEF OnePerSeq
  <2> QED BY <1>1, <2>1, LogMade
<1> HIDE DEF l, m
<1>3. PICK F : ReplayRounds(S, l, rows, F)
  BY <1>2, ReplayOK
<1>3a. /\ F[0] = l /\ F[m] = replay(l, rows)
       /\ \A n \in 0..m : Replayed(S, l, rows, F[n])
       /\ \A n \in 1..m : F[n] = round(F[n - 1], R(n)) /\ Extends(F[n].tip, F[n - 1].tip)
  BY <1>3 DEF m, ReplayRounds
<1>4. m \in Nat /\ \A r \in rows : Len(r[1]) \in 1..m
  BY <1>2, ReplayOK DEF m
<1>5. Replayed(S, l, rows, replay(l, rows))
  BY <1>2, ReplayOK
<1>6. CASE Len(t) <= b
  <2>1. Extends(h, t)
    BY <1>6, OneChain
  <2>2. Extends(replay(l, rows).tip, h) /\ replay(l, rows) \in Log(S)
    BY <1>2, <1>5 DEF Replayed
  <2>3. replay(l, rows).tip \in Seq(Nat)
    BY <2>2, LogOK
  <2>4. Extends(replay(l, rows).tip, t)
    BY <1>1, <2>1, <2>2, <2>3, ExtendsOrders
  <2> QED BY <2>4 DEF l
<1>7. CASE b < Len(t)
  <2>1. Extends(t, h)
    BY <1>7, <1>1, OneChain
  <2> DEFINE at_(n) == IF n <= b THEN h ELSE upTo(t, n)
             N == {n \in 0..Len(t) : F[n] # [base |-> b, tip |-> at_(n), pend |-> {}]}
  <2>2. Len(t) <= m
    <3>1. Len(t) \in (Len(h) + 1)..Len(t)
      BY <1>1, <1>7
    <3>2. upTo(t, Len(t)) \in WritesIn(rows)
      BY <3>1 DEF Covers
    <3>3. PICK r \in rows : t = r[1]
      BY <3>2, <1>1, UpToEnds DEF WritesIn
    <3> QED BY <3>3, <1>4
  <2>3. ASSUME NEW n \in 1..Len(t), F[n - 1] = [base |-> b, tip |-> at_(n - 1), pend |-> {}],
               n <= b
        PROVE  F[n] = [base |-> b, tip |-> at_(n), pend |-> {}]
    <3>1. n \in 1..m /\ n - 1 \in 0..m /\ n - 1 <= b
      BY <2>2, <2>3, <1>1, <1>4
    <3>2. F[n - 1] \in Log(S) /\ F[n - 1].base = b
      BY <3>1, <1>2, <1>3a DEF Replayed
    <3>3. \A r \in R(n) : apply(F[n - 1], r[1]).log = F[n - 1]
      <4> SUFFICES ASSUME NEW r \in R(n) PROVE apply(F[n - 1], r[1]).log = F[n - 1]
        OBVIOUS
      <4>1. r[1] \in S /\ Len(r[1]) = n
        OBVIOUS
      <4>2. seq(r[1]) < b
        BY <4>1, <3>1, <2>3, <1>1 DEF seq
      <4> QED BY <4>1, <4>2, <3>2, ApplyBelow
    <3>4. R(n) \subseteq S \X Nat
      OBVIOUS
    <3> DEFINE Rn == R(n)
    <3> HIDE DEF Rn
    <3>5. round(F[n - 1], Rn) = F[n - 1]
      <4>1. \A r \in Rn : r[2] \in Nat /\ apply(F[n - 1], r[1]).log = F[n - 1]
        BY <3>3, <3>4 DEF Rn
      <4> QED BY <4>1, RoundOK
    <3>6. F[n] = round(F[n - 1], Rn)
      BY <3>1, <1>3a DEF Rn
    <3>7. at_(n) = h /\ at_(n - 1) = h
      BY <2>3, <3>1
    <3> HIDE DEF at_
    <3> QED BY <3>5, <3>6, <3>7, <2>3
  <2>4. ASSUME NEW n \in 1..Len(t), F[n - 1] = [base |-> b, tip |-> at_(n - 1), pend |-> {}],
               n > b
        PROVE  F[n] = [base |-> b, tip |-> at_(n), pend |-> {}]
    <3> DEFINE w == upTo(t, n)
               l1 == [base |-> b, tip |-> at_(n - 1), pend |-> {}]
               Rn == R(n)
    <3>1. n \in 1..m /\ n \in 0..Len(t) /\ n - 1 \in 0..n /\ n - 1 \in b..Len(t)
          /\ n \in (Len(h) + 1)..Len(t)
      BY <2>2, <2>4, <1>1, <1>4
    <3>2. w \in S /\ w \in Seq(Nat) /\ w # <<>> /\ Len(w) = n
      BY <3>1, <1>1, UpToOK, HeldSigned DEF Histories
    <3>3. prev(w) = upTo(t, n - 1)
      BY <3>1, <3>2, <1>1, UpToOK DEF prev
    <3>4. at_(n - 1) = upTo(t, n - 1)
      <4>1. CASE n - 1 <= b
        <5>1. n - 1 = b
          BY <4>1, <3>1, <1>1
        <5>2. upTo(t, b) = h
          BY <2>1 DEF Extends
        <5> QED BY <5>1, <5>2
      <4>2. CASE ~(n - 1 <= b)
        BY <4>2
      <4> QED BY <4>1, <4>2
    <3>5. at_(n - 1) \in S \cup {<<>>} /\ Len(at_(n - 1)) = n - 1 /\ b <= n - 1
      <4>1. n - 1 \in 0..Len(t)
        BY <3>1, <1>1
      <4>2. Len(upTo(t, n - 1)) = n - 1
        BY <4>1, <1>1, UpToOK
      <4>3. upTo(t, n - 1) \in S \cup {<<>>}
        <5>1. CASE n - 1 = 0
          BY <5>1, <1>1, UpToEnds
        <5>2. CASE n - 1 # 0
          <6>1. n - 1 \in 1..Len(t)
            BY <5>2, <4>1
          <6> QED BY <6>1, HeldSigned
        <5> QED BY <5>1, <5>2
      <4> HIDE DEF at_
      <4> QED BY <3>1, <3>4, <4>2, <4>3, <1>1
    <3>6. apply(l1, w).log = [base |-> b, tip |-> w, pend |-> {}]
      <4>1. b \in Nat /\ OnePerSeq({}) /\ {} \subseteq S
        BY <1>1 DEF OnePerSeq
      <4>2. at_(n - 1) \in S \cup {<<>>} /\ b <= Len(at_(n - 1)) /\ prev(w) = at_(n - 1)
        BY <3>3, <3>4, <3>5
      <4> HIDE DEF at_, b
      <4>3. l1 \in Log(S)
        BY <4>1, <4>2, LogMade
      <4>4. l1.base = b /\ l1.tip = at_(n - 1) /\ l1.pend = {}
        OBVIOUS
      <4> HIDE DEF l1, w
      <4>5. (\A p \in l1.pend : Len(p) <= Len(l1.tip)) /\ prev(w) = l1.tip
        BY <4>2, <4>4
      <4>6. apply(l1, w).log = [base |-> l1.base, tip |-> w, pend |-> l1.pend]
        BY <3>2, <4>3, <4>5, ApplyNext
      <4> QED BY <4>4, <4>6
    <3>7. apply(l1, w).log # l1
      <4>1. w # at_(n - 1)
        BY <3>2, <3>5, <3>1
      <4> HIDE DEF w, at_
      <4> QED BY <4>1, <3>6
    <3>8. \A r \in Rn : r[1] = w
      BY <3>2 DEF OnePerSeq
    <3>9. \E r \in Rn : r[1] = w
      <4>1. w \in WritesIn(rows)
        BY <3>1 DEF Covers
      <4>2. PICK r \in rows : w = r[1]
        BY <4>1 DEF WritesIn
      <4> QED BY <4>2, <3>2
    <3>10. \A r \in Rn : r[2] \in Nat
      OBVIOUS
    <3>11. F[n] = round(F[n - 1], Rn)
      BY <3>1, <1>3a
    <3>12. F[n - 1] = l1
      BY <2>4
    <3>13. at_(n) = w
      BY <2>4, <3>1, <1>1
    <3> HIDE DEF w, l1, Rn, at_
    <3>14. round(l1, Rn) = apply(l1, w).log
      BY <3>7, <3>8, <3>9, <3>10, RoundOK
    <3> QED BY <3>6, <3>11, <3>12, <3>13, <3>14
  <2>5. F[0] = [base |-> b, tip |-> at_(0), pend |-> {}]
    <3>1. at_(0) = h
      BY <1>1
    <3> HIDE DEF at_
    <3> QED BY <3>1, <1>3a DEF l
  <2>6. ASSUME N # {} PROVE FALSE
    <3>1. PICK k \in N : \A j \in N : k <= j
      <4>1. N \subseteq Nat
        BY <1>1
      <4> HIDE DEF N
      <4> QED BY <4>1, <2>6, LeastExists
    <3>2. k \in 0..Len(t) /\ F[k] # [base |-> b, tip |-> at_(k), pend |-> {}]
      BY <3>1
    <3> HIDE DEF at_
    <3>3. k # 0
      BY <3>2, <2>5
    <3>4. k \in 1..Len(t) /\ k - 1 \in 0..Len(t) /\ ~(k <= k - 1)
      BY <3>2, <3>3, <1>1
    <3>5. F[k - 1] = [base |-> b, tip |-> at_(k - 1), pend |-> {}]
      BY <3>1, <3>4
    <3>6. k <= b \/ k > b
      BY <3>4, <1>1
    <3> QED BY <3>2, <3>4, <3>5, <3>6, <2>3, <2>4
  <2>7. F[Len(t)].tip = t
    <3>1. Len(t) \in 0..Len(t) /\ ~(Len(t) <= b)
      BY <1>1, <1>7
    <3>2. at_(Len(t)) = t
      BY <3>1, <1>1, UpToEnds
    <3>3. F[Len(t)] = [base |-> b, tip |-> at_(Len(t)), pend |-> {}]
      BY <2>6, <3>1
    <3> HIDE DEF at_
    <3> QED BY <3>2, <3>3
  <2> DEFINE M == {n \in Len(t)..m : ~Extends(F[n].tip, t)}
  <2>8. ASSUME M # {} PROVE FALSE
    <3>1. PICK k \in M : \A j \in M : k <= j
      <4>1. M \subseteq Nat
        BY <1>1
      <4> HIDE DEF M
      <4> QED BY <4>1, <2>8, LeastExists
    <3>2. k \in Len(t)..m /\ ~Extends(F[k].tip, t)
      BY <3>1
    <3>3. k # Len(t)
      BY <3>2, <2>7, <1>1, ExtendsOrders
    <3>4. k - 1 \in Len(t)..m /\ ~(k <= k - 1) /\ k \in 1..m /\ k \in 0..m /\ k - 1 \in 0..m
      BY <3>2, <3>3, <1>1, <1>4
    <3>5. Extends(F[k - 1].tip, t) /\ Extends(F[k].tip, F[k - 1].tip)
      BY <3>1, <3>4, <1>3a
    <3>6. F[k].tip \in Seq(Nat) /\ F[k - 1].tip \in Seq(Nat)
      BY <3>4, <1>3a, LogOK DEF Replayed
    <3> QED BY <3>2, <3>5, <3>6, <1>1, ExtendsOrders
  <2>9. m \in Len(t)..m
    BY <2>2, <1>1, <1>4
  <2>10. Extends(replay(l, rows).tip, t)
    BY <2>8, <2>9, <1>3a
  <2> QED BY <2>10 DEF l
<1> QED BY <1>1, <1>6, <1>7

-----------------------------------------------------------------------------
(* Checkpoints.                                                            *)

(* A log that a checkpoint is seeded into is one again.                    *)
LEMMA SeedOK ==
  ASSUME NEW S, Histories(S), NEW l \in Log(S), NEW h \in S \cup {<<>>}
  PROVE  /\ seedCheckpoint(l, h) \in Log(S)
         /\ seedCheckpoint(l, h) = l \/ seedCheckpoint(l, h).base = Len(seedCheckpoint(l, h).tip)
<1>1. CASE h = <<>>
  BY <1>1 DEF seedCheckpoint
<1>2. CASE h # <<>>
  <2>1. Len(h) \in Nat /\ h \in S
    BY <1>2, UpToEnds DEF Histories
  <2>2. OnePerSeq({}) /\ {} \subseteq S /\ Len(h) <= Len(h)
    BY <2>1 DEF OnePerSeq
  <2>3. [base |-> Len(h), tip |-> h, pend |-> {}] \in Log(S)
    BY <2>1, <2>2, LogMade
  <2> QED BY <1>2, <2>3 DEF seedCheckpoint
<1> QED BY <1>1, <1>2

(* An empty log that is seeded holds the head of the checkpoint alone.     *)
LEMMA SeedEmpty ==
  ASSUME NEW h
  PROVE  seedCheckpoint(EmptyLog, h) = [base |-> Len(h), tip |-> h, pend |-> {}]
BY EmptySeq DEF seedCheckpoint, EmptyLog

(* A log that has the head of a checkpoint and is pruned below it keeps    *)
(* its tip.                                                                *)
LEMMA PruneOK ==
  ASSUME NEW S, Histories(S), NEW l \in Log(S), NEW h \in S \cup {<<>>}, Extends(l.tip, h)
  PROVE  /\ pruneBelow(l, h) \in Log(S)
         /\ pruneBelow(l, h).tip = l.tip
         /\ l.base <= pruneBelow(l, h).base
         /\ l.tip = <<>> \/ Len(h) <= pruneBelow(l, h).base
<1>1. /\ l = [base |-> l.base, tip |-> l.tip, pend |-> l.pend]
      /\ l.base \in Nat /\ l.tip \in S \cup {<<>>} /\ l.tip \in Seq(Nat)
      /\ Len(l.tip) \in Nat /\ l.base <= Len(l.tip)
      /\ l.pend \subseteq S /\ OnePerSeq(l.pend)
  BY LogOK
<1>2. h \in Seq(Nat) /\ Len(h) \in Nat
  <2>1. h \in Seq(Nat)
    BY EmptySeq DEF Histories
  <2> QED BY <2>1, UpToEnds
<1>3. CASE l.tip = <<>> \/ Len(h) <= l.base
  <2>1. pruneBelow(l, h) = l
    BY <1>3 DEF pruneBelow
  <2> QED BY <2>1, <1>1, <1>3
<1>4. CASE ~(l.tip = <<>> \/ Len(h) <= l.base)
  <2>1. pruneBelow(l, h) = [base |-> Len(h), tip |-> l.tip, pend |-> l.pend]
    BY <1>4 DEF pruneBelow
  <2>2. Len(h) <= Len(l.tip)
    BY DEF Extends
  <2>3. [base |-> Len(h), tip |-> l.tip, pend |-> l.pend] \in Log(S)
    BY <1>1, <1>2, <2>2, LogMade
  <2> QED BY <2>1, <2>3, <1>1, <1>2, <1>4
<1> QED BY <1>3, <1>4

-----------------------------------------------------------------------------
(* The nodes.                                                              *)

(* What a message says of writes or of a checkpoint exists.                *)
MsgOK(msg, sg, c) ==
  /\ msg[1] \in Node /\ msg[2] \in Node
  /\ msg[3] = "want" => \A p \in msg[4] : p[1] \in Node
  /\ msg[3] = "writes" => \A p \in msg[4] : p[1] \in Node /\ p[2] \in sg[p[1]]
  /\ msg[3] = "snapshot" => msg[4] \in 1..Len(c)

SignedOK == signed = [w \in Node |-> signed[w]] /\ \A w \in Node : Histories(signed[w])

LogsOK ==
  /\ ledger = [n \in Node |-> [w \in Node |-> ledger[n][w]]]
  /\ \A n, w \in Node : ledger[n][w] \in Log(signed[w])

DiskOK ==
  /\ disk = [n \in Node |-> [rows |-> [w \in Node |-> disk[n].rows[w]], snap |-> disk[n].snap]]
  /\ \A n, w \in Node : /\ disk[n].rows[w] \subseteq signed[w] \X Nat
                        /\ IsFiniteSet(disk[n].rows[w])
  /\ \A n \in Node : disk[n].snap \in 0..Len(certified)

CheckpointsOK ==
  /\ certified \in Seq([Node -> Seq(Nat)])
  /\ \A i \in 1..Len(certified), w \in Node : certified[i][w] \in signed[w] \cup {<<>>}
  /\ \A i, j \in 1..Len(certified), w \in Node :
       i <= j => Len(certified[i][w]) <= Len(certified[j][w])
  /\ ckpt \in [Node -> 0..Len(certified)]
  /\ pendingSnap \in [Node -> 0..Len(certified)]

NetOK == \A msg \in net : MsgOK(msg, signed, certified)

NodesOK ==
  /\ rooted \subseteq Node /\ exposed \subseteq Node /\ cut \subseteq Node
  /\ peers \in [Node -> SUBSET Node]

PostingOK ==
  /\ posting = [n \in Node |-> posting[n]]
  /\ \A n \in Node : posting[n] = <<>> \/ \E v \in signed[n] \cup {<<>>} : posting[n] = <<v>>

(* A writer that has not dropped any of its writes holds all of them, has  *)
(* them on its disk, and posts the next one.                               *)
OwnOK ==
  \A n \in Node \ cut :
    /\ \A v \in signed[n] : Extends(ledger[n][n].tip, v)
    /\ posting[n] = <<>> \/ posting[n] = <<ledger[n][n].tip>>
    /\ disk[n].snap <= ckpt[n]
    /\ Covers(WritesIn(disk[n].rows[n]), Len(snapshot(disk[n].snap)[n]), ledger[n][n].tip)

(* What a node keeps of a writer that has not forked is on its disk, as    *)
(* far as it has not been pruned.                                          *)
RowsOK ==
  \A n, w \in Node :
    keep(n, w) /\ OnePerSeq(signed[w]) =>
      Covers(WritesIn(disk[n].rows[w]), ledger[n][w].base, ledger[n][w].tip)

(* The inductive invariant.                                                *)
WriteInv ==
  /\ SignedOK /\ LogsOK /\ DiskOK /\ CheckpointsOK /\ NetOK /\ NodesOK /\ PostingOK
  /\ OwnOK /\ RowsOK

-----------------------------------------------------------------------------
(* Checkpoints, logs and messages.                                         *)

(* The head of a checkpoint was signed, and heads do not go back.          *)
LEMMA SnapshotOK ==
  ASSUME SignedOK, CheckpointsOK, NEW i \in 0..Len(certified), NEW w \in Node
  PROVE  /\ snapshot(i)[w] \in signed[w] \cup {<<>>} /\ Len(snapshot(i)[w]) \in Nat
         /\ \A j \in 0..Len(certified) : j <= i => Len(snapshot(j)[w]) <= Len(snapshot(i)[w])
<1>1. Len(certified) \in Nat
  BY DEF CheckpointsOK
<1>2. ASSUME NEW j \in 0..Len(certified)
      PROVE  snapshot(j)[w] \in signed[w] \cup {<<>>} /\ Len(snapshot(j)[w]) \in Nat
  <2>1. CASE j = 0
    <3>1. snapshot(j)[w] = <<>>
      BY <2>1 DEF snapshot, NoHeads
    <3> QED BY <3>1, EmptySeq
  <2>2. CASE j # 0
    <3>1. j \in 1..Len(certified) /\ snapshot(j) = certified[j]
      BY <2>2, <1>1 DEF snapshot
    <3>2. certified[j][w] \in signed[w] \cup {<<>>} /\ certified[j][w] \in Seq(Nat)
      BY <3>1 DEF CheckpointsOK
    <3> QED BY <3>1, <3>2, UpToEnds
  <2> QED BY <2>1, <2>2
<1>3. ASSUME NEW j \in 0..Len(certified), j <= i
      PROVE  Len(snapshot(j)[w]) <= Len(snapshot(i)[w])
  <2>1. CASE j = 0
    <3>1. Len(snapshot(j)[w]) = 0
      BY <2>1, EmptySeq DEF snapshot, NoHeads
    <3> QED BY <3>1, <1>2
  <2>2. CASE j # 0
    <3>1. i \in 1..Len(certified) /\ j \in 1..Len(certified) /\ i # 0
      BY <2>2, <1>1, <1>3
    <3>2. snapshot(j) = certified[j] /\ snapshot(i) = certified[i]
      BY <2>2, <3>1 DEF snapshot
    <3> QED BY <3>1, <3>2, <1>3 DEF CheckpointsOK
  <2> QED BY <2>1, <2>2
<1> QED BY <1>2, <1>3

(* What a node that holds all its writes has as its tip extends, within    *)
(* what the writer signed, every tip there could be.                       *)
LEMMA OwnTip ==
  ASSUME NEW S, Histories(S), NEW t \in S \cup {<<>>}, \A v \in S : Extends(t, v)
  PROVE  /\ OnePerSeq(S)
         /\ \A u \in S \cup {<<>>} : Extends(t, u) /\ (Extends(u, t) => u = t)
<1>1. S \cup {<<>>} \subseteq Seq(Nat)
  BY EmptySeq DEF Histories
<1>2. \A u \in S \cup {<<>>} : Extends(t, u)
  BY <1>1, ExtendsOrders
<1>3. ASSUME NEW u \in S, NEW v \in S, Len(u) = Len(v) PROVE u = v
  BY <1>2, <1>3 DEF Extends
<1>4. ASSUME NEW u \in S \cup {<<>>}, Extends(u, t) PROVE u = t
  <2>1. u \in Seq(Nat) /\ t \in Seq(Nat) /\ Len(u) <= Len(t)
    BY <1>1, <1>2 DEF Extends
  <2> QED BY <2>1, <1>4, ExtendsOrders
<1> QED BY <1>2, <1>3, <1>4 DEF OnePerSeq

(* What is sent is all right if its body is.                               *)
LEMMA SendOK ==
  ASSUME NEW to, to \subseteq Node, NEW n \in Node, NEW kind, NEW body, NEW sg, NEW c,
         kind = "want" => \A p \in body : p[1] \in Node,
         kind = "writes" => \A p \in body : p[1] \in Node /\ p[2] \in sg[p[1]],
         kind = "snapshot" => body \in 1..Len(c)
  PROVE  \A msg \in send(to, n, kind, body) : MsgOK(msg, sg, c)
<1> SUFFICES ASSUME NEW m \in to PROVE MsgOK(<<m, n, kind, body>>, sg, c)
  BY DEF send
<1>1. m \in Node
  OBVIOUS
<1> QED BY <1>1 DEF MsgOK

(* A greeting is.                                                          *)
LEMMA GreetingOK ==
  ASSUME NEW n \in Node, NEW m \in Node, NEW sg, NEW c
  PROVE  \A msg \in greeting(n, m) : MsgOK(msg, sg, c)
<1>1. \A msg \in send({m}, n, "hello", heads(n)) : MsgOK(msg, sg, c)
  BY SendOK
<1>2. \A msg \in send({m}, n, "offer", <<n \in rooted, ckpt[n]>>) : MsgOK(msg, sg, c)
  BY SendOK
<1> QED BY <1>1, <1>2 DEF greeting

(* More is signed and certified, and what was said stays true.             *)
LEMMA NetStays ==
  ASSUME SignedOK, CheckpointsOK, NetOK, \A w \in Node : signed[w] \subseteq signed'[w],
         Len(certified') \in Nat, Len(certified) <= Len(certified')
  PROVE  \A msg \in net : MsgOK(msg, signed', certified')
<1> SUFFICES ASSUME NEW msg \in net PROVE MsgOK(msg, signed', certified')
  OBVIOUS
<1>1. MsgOK(msg, signed, certified) /\ Len(certified) \in Nat
  BY DEF NetOK, CheckpointsOK
<1> QED BY <1>1 DEF MsgOK

(* A message is taken and answered.                                        *)
LEMMA TakesOK ==
  ASSUME WriteInv, NEW n \in Node, NEW m \in Node, NEW kind, NEW body, NEW out,
         Takes(n, m, kind, body, out), \A msg \in out : MsgOK(msg, signed, certified),
         UNCHANGED <<signed, certified>>
  PROVE  NetOK' /\ peers' \in [Node -> SUBSET Node]
<1>1. peers' \in [Node -> SUBSET Node]
  BY DEF Takes, WriteInv, NodesOK
<1>2. \A msg \in net : MsgOK(msg, signed, certified)
  BY DEF WriteInv, NetOK
<1>3. \A msg \in net' : msg \in out \/ msg \in greeting(n, m) \/ msg \in net
  BY DEF Takes
<1>4. \A msg \in greeting(n, m) : MsgOK(msg, signed, certified)
  BY GreetingOK
<1>5. \A msg \in net' : MsgOK(msg, signed, certified)
  BY <1>2, <1>3, <1>4
<1> QED BY <1>1, <1>5 DEF NetOK

(* What does not touch the writes, where they are held and the checkpoints *)
(* leaves all but the network as it is.                                    *)
LEMMA Frame ==
  ASSUME WriteInv, UNCHANGED <<held, certified, signed, posting, cut>>
  PROVE  /\ SignedOK' /\ LogsOK' /\ DiskOK' /\ CheckpointsOK' /\ PostingOK' /\ OwnOK' /\ RowsOK'
<1>1. /\ ledger' = ledger /\ disk' = disk /\ ckpt' = ckpt /\ pendingSnap' = pendingSnap
      /\ certified' = certified /\ signed' = signed /\ posting' = posting /\ cut' = cut
  BY DEF held
<1>2. SignedOK' /\ LogsOK'
  BY <1>1 DEF WriteInv, SignedOK, LogsOK
<1>3. DiskOK' /\ CheckpointsOK' /\ PostingOK'
  BY <1>1 DEF WriteInv, DiskOK, CheckpointsOK, PostingOK
<1>4. OwnOK' /\ RowsOK'
  BY <1>1 DEF WriteInv, OwnOK, RowsOK, snapshot, keep
<1> QED BY <1>2, <1>3, <1>4

-----------------------------------------------------------------------------
(* The steps that touch neither writes nor checkpoints.                    *)

(* The start.                                                              *)
LEMMA InitKeeps ==
  ASSUME Init
  PROVE  WriteInv
<1>1. SignedOK
  <2>1. \A w \in Node : signed[w] = {}
    BY DEF Init
  <2>2. Histories({})
    BY FS_EmptySet DEF Histories
  <2> QED BY <2>1, <2>2 DEF Init, SignedOK
<1>2. LogsOK
  BY EmptyLogOK DEF Init, LogsOK
<1>3. Len(certified) = 0 /\ certified \in Seq([Node -> Seq(Nat)])
  BY EmptySeq DEF Init
<1>4. DiskOK
  <2>1. \A n, w \in Node : disk[n].rows[w] = {} /\ disk[n].snap = 0
    BY DEF Init
  <2>2. IsFiniteSet({})
    BY FS_EmptySet
  <2>3. disk = [n \in Node |-> [rows |-> [w \in Node |-> disk[n].rows[w]], snap |-> disk[n].snap]]
    BY DEF Init
  <2>4. \A n, w \in Node : /\ disk[n].rows[w] \subseteq signed[w] \X Nat
                           /\ IsFiniteSet(disk[n].rows[w])
    BY <2>1, <2>2
  <2>5. \A n \in Node : disk[n].snap \in 0..Len(certified)
    BY <1>3, <2>1
  <2> QED BY <2>3, <2>4, <2>5 DEF DiskOK
<1>5. CheckpointsOK
  <2>1. 0 \in 0..Len(certified)
    BY <1>3
  <2> QED BY <1>3, <2>1 DEF Init, CheckpointsOK
<1>6. NetOK /\ PostingOK
  BY DEF Init, NetOK, PostingOK
<1>7. NodesOK
  BY DEF Init, NodesOK
<1>8. \A n, w \in Node : ledger[n][w].tip = <<>> /\ Len(ledger[n][w].tip) = 0 /\ ledger[n][w].base = 0
  BY EmptySeq DEF Init, EmptyLog
<1>9. \A P, b : b \in Nat => Covers(P, b, <<>>)
  BY EmptySeq DEF Covers
<1>10. RowsOK
  BY <1>8, <1>9 DEF RowsOK
<1>11. OwnOK
  <2>1. \A n \in Node : snapshot(0)[n] = <<>>
    BY DEF snapshot, NoHeads
  <2>2. \A n \in Node : /\ signed[n] = {} /\ posting[n] = <<>> /\ disk[n].snap = 0 /\ ckpt[n] = 0
    BY DEF Init
  <2>3. Len(<<>>) = 0
    BY EmptySeq
  <2> QED BY <1>8, <1>9, <2>1, <2>2, <2>3 DEF OwnOK
<1> QED BY <1>1, <1>2, <1>4, <1>5, <1>6, <1>7, <1>10, <1>11 DEF WriteInv

(* A post begins after the writer's tip.                                   *)
LEMMA StartPostKeeps ==
  ASSUME WriteInv, NEW n \in Node, StartPost(n)
  PROVE  WriteInv'
<1>1. /\ posting[n] = <<>> /\ posting' = [posting EXCEPT ![n] = Append(@, heads(n)[n])]
      /\ UNCHANGED <<held, rooted, peers, net, certified, signed, history>>
  BY DEF StartPost, inTurn
<1>2. /\ ledger' = ledger /\ disk' = disk /\ ckpt' = ckpt /\ pendingSnap' = pendingSnap
      /\ certified' = certified /\ signed' = signed /\ cut' = cut /\ exposed' = exposed
      /\ rooted' = rooted /\ peers' = peers /\ net' = net
  BY <1>1 DEF held, history
<1>3. SignedOK' /\ LogsOK' /\ DiskOK' /\ CheckpointsOK' /\ NetOK' /\ NodesOK' /\ RowsOK'
  <2>1. SignedOK' /\ LogsOK'
    BY <1>2 DEF WriteInv, SignedOK, LogsOK
  <2>2. DiskOK' /\ CheckpointsOK'
    BY <1>2 DEF WriteInv, DiskOK, CheckpointsOK
  <2>3. NetOK' /\ NodesOK'
    BY <1>2 DEF WriteInv, NetOK, NodesOK
  <2>4. RowsOK'
    BY <1>2 DEF WriteInv, RowsOK, keep
  <2> QED BY <2>1, <2>2, <2>3, <2>4
<1>4. posting = [m \in Node |-> posting[m]]
      /\ \A m \in Node : posting[m] = <<>> \/ \E v \in signed[m] \cup {<<>>} : posting[m] = <<v>>
  BY DEF WriteInv, PostingOK
<1>5. heads(n)[n] = ledger[n][n].tip
  BY DEF heads, HeadsOf
<1>6. ledger[n][n].tip \in signed[n] \cup {<<>>}
  BY LogOK DEF WriteInv, SignedOK, LogsOK
<1>7. posting'[n] = <<ledger[n][n].tip>> /\ \A m \in Node \ {n} : posting'[m] = posting[m]
  BY <1>1, <1>4, <1>5
<1>8. PostingOK'
  <2>1. posting' = [m \in Node |-> posting'[m]]
    BY <1>1, <1>4
  <2>2. \A m \in Node : posting'[m] = <<>> \/ \E v \in signed'[m] \cup {<<>>} : posting'[m] = <<v>>
    BY <1>2, <1>4, <1>6, <1>7
  <2> QED BY <2>1, <2>2 DEF PostingOK
<1>9. OwnOK'
  BY <1>2, <1>7 DEF WriteInv, OwnOK, snapshot
<1> QED BY <1>3, <1>8, <1>9 DEF WriteInv

(* Only the network changes.                                               *)
LEMMA NetKeeps ==
  ASSUME WriteInv, UNCHANGED <<held, rooted, posting, certified, signed, exposed, cut>>,
         NetOK', peers' \in [Node -> SUBSET Node]
  PROVE  WriteInv'
<1>1. /\ SignedOK' /\ LogsOK' /\ DiskOK' /\ CheckpointsOK' /\ PostingOK' /\ OwnOK' /\ RowsOK'
  BY Frame
<1>2. NodesOK'
  BY DEF WriteInv, NodesOK
<1> QED BY <1>1, <1>2 DEF WriteInv

(* A hello is heard and answered.                                          *)
LEMMA HelloKeeps ==
  ASSUME WriteInv, NEW n \in Node, NEW m \in Node, NEW theirs, HearHello(n, m, theirs)
  PROVE  WriteInv'
<1> DEFINE out == IF diffWant(n, theirs) # {} THEN send({m}, n, "want", diffWant(n, theirs))
                  ELSE IF aheadOf(n, theirs) THEN send({m}, n, "hello", heads(n)) ELSE {}
<1>1. /\ Takes(n, m, "hello", theirs, out)
      /\ UNCHANGED <<held, rooted, posting, certified, signed, history>>
  BY DEF HearHello
<1>2. \A p \in diffWant(n, theirs) : p[1] \in Node
  BY DEF diffWant
<1>3. \A msg \in send({m}, n, "want", diffWant(n, theirs)) : MsgOK(msg, signed, certified)
  BY <1>2, SendOK
<1>4. \A msg \in send({m}, n, "hello", heads(n)) : MsgOK(msg, signed, certified)
  BY SendOK
<1>5. \A msg \in out : MsgOK(msg, signed, certified)
  BY <1>3, <1>4
<1> HIDE DEF out
<1>6. NetOK' /\ peers' \in [Node -> SUBSET Node]
  BY <1>1, <1>5, TakesOK
<1> QED BY <1>1, <1>6, NetKeeps DEF history

(* Writes are asked for and served.                                        *)
LEMMA WantKeeps ==
  ASSUME WriteInv, NEW n \in Node, NEW m \in Node, NEW from, HearWant(n, m, from),
         \A p \in from : p[1] \in Node
  PROVE  WriteInv'
<1> DEFINE writes == UNION {{<<p[1], v>> : v \in writesFrom(ledger[n][p[1]], p[2])} : p \in from}
           out == IF writes = {} THEN {} ELSE send({m}, n, "writes", writes)
<1>1. /\ Takes(n, m, "want", from, out)
      /\ UNCHANGED <<held, rooted, posting, certified, signed, history>>
  BY DEF HearWant
<1>2. \A p \in writes : p[1] \in Node /\ p[2] \in signed[p[1]]
  <2> SUFFICES ASSUME NEW p \in from, NEW v \in writesFrom(ledger[n][p[1]], p[2])
               PROVE  p[1] \in Node /\ v \in signed[p[1]]
    OBVIOUS
  <2>1. p[1] \in Node
    OBVIOUS
  <2>2. Histories(signed[p[1]]) /\ ledger[n][p[1]] \in Log(signed[p[1]])
    BY <2>1 DEF WriteInv, SignedOK, LogsOK
  <2> QED BY <2>1, <2>2, WritesFromOK
<1> HIDE DEF writes
<1>3. \A msg \in send({m}, n, "writes", writes) : MsgOK(msg, signed, certified)
  BY <1>2, SendOK
<1>4. \A msg \in out : MsgOK(msg, signed, certified)
  BY <1>3
<1> HIDE DEF out
<1>5. NetOK' /\ peers' \in [Node -> SUBSET Node]
  BY <1>1, <1>4, TakesOK
<1> QED BY <1>1, <1>5, NetKeeps DEF history

(* An offer is heard, and the checkpoint asked for.                        *)
LEMMA OfferKeeps ==
  ASSUME WriteInv, NEW n \in Node, NEW m \in Node, NEW tip, NEW i, HearOffer(n, m, tip, i)
  PROVE  WriteInv'
<1> DEFINE out == IF wantSnapshot(n, i) \/ asksOutright(n, tip)
                    THEN send({m}, n, "snapshot-want", 0) ELSE {}
<1>1. /\ Takes(n, m, "offer", <<tip, i>>, out)
      /\ UNCHANGED <<held, rooted, posting, certified, signed, history>>
  BY DEF HearOffer
<1>2. \A msg \in send({m}, n, "snapshot-want", 0) : MsgOK(msg, signed, certified)
  BY SendOK
<1>3. \A msg \in out : MsgOK(msg, signed, certified)
  BY <1>2
<1> HIDE DEF out
<1>4. NetOK' /\ peers' \in [Node -> SUBSET Node]
  BY <1>1, <1>3, TakesOK
<1> QED BY <1>1, <1>4, NetKeeps DEF history

(* A checkpoint is asked for and served.                                   *)
LEMMA SnapshotWantKeeps ==
  ASSUME WriteInv, NEW n \in Node, NEW m \in Node, HearSnapshotWant(n, m)
  PROVE  WriteInv'
<1> DEFINE out == IF ckpt[n] = 0 THEN {} ELSE send({m}, n, "snapshot", ckpt[n])
<1>1. /\ Takes(n, m, "snapshot-want", 0, out)
      /\ UNCHANGED <<held, rooted, posting, certified, signed, history>>
  BY DEF HearSnapshotWant
<1>2. ASSUME ckpt[n] # 0
      PROVE  \A msg \in send({m}, n, "snapshot", ckpt[n]) : MsgOK(msg, signed, certified)
  <2>1. Len(certified) \in Nat /\ ckpt[n] \in 0..Len(certified)
    BY DEF WriteInv, CheckpointsOK
  <2>2. ckpt[n] \in 1..Len(certified)
    BY <2>1, <1>2
  <2> QED BY <2>2, SendOK
<1>3. \A msg \in out : MsgOK(msg, signed, certified)
  BY <1>2
<1> HIDE DEF out
<1>4. NetOK' /\ peers' \in [Node -> SUBSET Node]
  BY <1>1, <1>3, TakesOK
<1> QED BY <1>1, <1>4, NetKeeps DEF history

(* Nodes connect.                                                          *)
LEMMA ConnectKeeps ==
  ASSUME WriteInv, NEW n \in Node, NEW m \in Node, Connect(n, m)
  PROVE  WriteInv'
<1>1. /\ peers' = [peers EXCEPT ![n] = @ \cup {m}] /\ net' = net \cup greeting(n, m)
      /\ UNCHANGED <<held, rooted, posting, certified, signed, history, left>>
  BY DEF Connect
<1>2. peers' \in [Node -> SUBSET Node]
  BY <1>1 DEF WriteInv, NodesOK
<1>3. \A msg \in net \cup greeting(n, m) : MsgOK(msg, signed, certified)
  BY GreetingOK DEF WriteInv, NetOK
<1>4. NetOK'
  BY <1>1, <1>3 DEF NetOK
<1> QED BY <1>1, <1>2, <1>4, NetKeeps DEF history

(* A message is lost.                                                      *)
LEMMA LoseKeeps ==
  ASSUME WriteInv, NEW msg \in net, Lose(msg)
  PROVE  WriteInv'
<1>1. /\ net' \subseteq net
      /\ UNCHANGED <<held, rooted, posting, peers, certified, signed, exposed, cut, life>>
  BY DEF Lose
<1>2. NetOK' /\ peers' \in [Node -> SUBSET Node]
  BY <1>1 DEF WriteInv, NetOK, NodesOK
<1> QED BY <1>1, <1>2, NetKeeps

-----------------------------------------------------------------------------
(* The store.                                                              *)

(* The writes of writer w among those learned.                             *)
Of(w, learned) == {p[2] : p \in {q \in learned : q[1] = w}}

(* Rows for more writes.                                                   *)
LEMMA AsRowsOK ==
  ASSUME NEW S, IsFiniteSet(S), NEW T, T \subseteq S,
         NEW rows, rows \subseteq S \X Nat, IsFiniteSet(rows)
  PROVE  /\ rows \cup asRows(rows, T) \subseteq S \X Nat
         /\ IsFiniteSet(rows \cup asRows(rows, T))
         /\ WritesIn(rows \cup asRows(rows, T)) = WritesIn(rows) \cup T
<1> DEFINE same(v) == {r \in rows : Len(r[1]) = Len(v)}
           row == [v \in T |-> <<v, Cardinality(same(v))>>]
           new == asRows(rows, T)
<1>1. \A v \in T : Cardinality(same(v)) \in Nat
  <2> SUFFICES ASSUME NEW v \in T PROVE Cardinality(same(v)) \in Nat
    OBVIOUS
  <2>1. same(v) \in SUBSET rows
    OBVIOUS
  <2> HIDE DEF same
  <2> QED BY <2>1, FS_Subset, FS_CardinalityType
<1>2. new = {<<v, Cardinality(same(v))>> : v \in T}
  BY DEF asRows
<1> HIDE DEF same
<1>3. new = {row[v] : v \in T}
  BY <1>2
<1>4. row \in [T -> new]
  BY <1>2
<1>5. \A y \in new : \E x \in T : row[x] = y
  BY <1>2
<1>6. new \subseteq S \X Nat
  BY <1>1, <1>2
<1>7. \A r \in new : r[1] \in T
  BY <1>2
<1>8. \A v \in T : row[v] \in new /\ row[v][1] = v
  BY <1>4
<1> HIDE DEF new, row
<1>9. IsFiniteSet(new)
  <2>1. IsFiniteSet(T)
    BY FS_Subset
  <2>2. row \in Surjection(T, new)
    BY <1>4, <1>5 DEF Surjection
  <2> QED BY <2>1, <2>2, FS_Surjection
<1>10. IsFiniteSet(rows \cup new)
  BY <1>9, FS_Union
<1>11. WritesIn(rows \cup new) = WritesIn(rows) \cup T
  <2>1. \A v \in T : \E r \in new : r[1] = v
    BY <1>8
  <2> QED BY <1>7, <2>1 DEF WritesIn
<1> QED BY <1>6, <1>10, <1>11 DEF new

(* A disk has rows for each writer, and a checkpoint.                      *)
HasRows(d) == d = [rows |-> [w \in Node |-> d.rows[w]], snap |-> d.snap]

(* What is learned is written to the disk.                                 *)
LEMMA PersistOK ==
  ASSUME NEW sg, \A w \in Node : IsFiniteSet(sg[w]),
         NEW d, HasRows(d),
         \A w \in Node : d.rows[w] \subseteq sg[w] \X Nat /\ IsFiniteSet(d.rows[w]),
         NEW n \in Node, NEW learned, \A w \in Node : Of(w, learned) \subseteq sg[w]
  PROVE  /\ HasRows(persist(d, n, learned)) /\ persist(d, n, learned).snap = d.snap
         /\ \A w \in Node :
              /\ persist(d, n, learned).rows[w] \subseteq sg[w] \X Nat
              /\ IsFiniteSet(persist(d, n, learned).rows[w])
              /\ keep(n, w) => WritesIn(persist(d, n, learned).rows[w])
                                 = WritesIn(d.rows[w]) \cup Of(w, learned)
<1> DEFINE more == [w \in Node |-> IF keep(n, w)
                      THEN d.rows[w] \cup asRows(d.rows[w], Of(w, learned)) ELSE d.rows[w]]
           e == persist(d, n, learned)
<1>1. e = [d EXCEPT !.rows = more]
  BY DEF persist, Of
<1>2. e = [rows |-> more, snap |-> d.snap]
  <2> HIDE DEF more, e
  <2> QED BY <1>1 DEF HasRows
<1>3. e.rows = more /\ e.snap = d.snap
  <2> HIDE DEF more, e
  <2> QED BY <1>2
<1>4. ASSUME NEW w \in Node
      PROVE  /\ e.rows[w] \subseteq sg[w] \X Nat /\ IsFiniteSet(e.rows[w])
             /\ keep(n, w) => WritesIn(e.rows[w]) = WritesIn(d.rows[w]) \cup Of(w, learned)
  <2>1. e.rows[w] = IF keep(n, w)
                      THEN d.rows[w] \cup asRows(d.rows[w], Of(w, learned)) ELSE d.rows[w]
    <3> HIDE DEF e
    <3> QED BY <1>3
  <2> HIDE DEF e, more
  <2> DEFINE S == sg[w]
             T == Of(w, learned)
             rows == d.rows[w]
  <2>2. /\ IsFiniteSet(S) /\ T \subseteq S /\ rows \subseteq S \X Nat /\ IsFiniteSet(rows)
    OBVIOUS
  <2> HIDE DEF S, T, rows
  <2>3. /\ rows \cup asRows(rows, T) \subseteq S \X Nat
        /\ IsFiniteSet(rows \cup asRows(rows, T))
        /\ WritesIn(rows \cup asRows(rows, T)) = WritesIn(rows) \cup T
    BY <2>2, AsRowsOK
  <2>4. e.rows[w] = IF keep(n, w) THEN rows \cup asRows(rows, T) ELSE rows
    BY <2>1 DEF rows, T
  <2>5. /\ e.rows[w] \subseteq S \X Nat /\ IsFiniteSet(e.rows[w])
        /\ keep(n, w) => WritesIn(e.rows[w]) = WritesIn(rows) \cup T
    BY <2>2, <2>3, <2>4
  <2> QED BY <2>5 DEF S, T, rows
<1>5. HasRows(e)
  <2>1. more = [w \in Node |-> more[w]]
    OBVIOUS
  <2> HIDE DEF more, e
  <2> QED BY <1>2, <1>3, <2>1 DEF HasRows
<1> QED BY <1>3, <1>4, <1>5

-----------------------------------------------------------------------------
(* The steps that change what a node holds.                                *)

(* One node's log, disk and checkpoint become logs, d and c, and nothing   *)
(* is signed or certified.                                                 *)
LEMMA HeldKeeps ==
  ASSUME WriteInv, NEW n \in Node, NEW logs, NEW d, NEW c \in 0..Len(certified),
         ledger' = [ledger EXCEPT ![n] = logs], disk' = [disk EXCEPT ![n] = d],
         ckpt' = [ckpt EXCEPT ![n] = c], pendingSnap' \in [Node -> 0..Len(certified)],
         UNCHANGED <<certified, signed>>,
         posting' = posting \/ posting' = [posting EXCEPT ![n] = <<>>],
         cut' = cut \/ cut' = cut \cup {n},
         logs = [w \in Node |-> logs[w]], \A w \in Node : logs[w] \in Log(signed[w]),
         d = [rows |-> [w \in Node |-> d.rows[w]], snap |-> d.snap],
         \A w \in Node : d.rows[w] \subseteq signed[w] \X Nat /\ IsFiniteSet(d.rows[w]),
         d.snap \in 0..Len(certified),
         n \in cut' \/ ( /\ logs[n].tip = ledger[n][n].tip /\ d.snap <= c
                         /\ Covers(WritesIn(d.rows[n]), Len(snapshot(d.snap)[n]), logs[n].tip) ),
         \A w \in Node : keep(n, w) /\ OnePerSeq(signed[w]) =>
           Covers(WritesIn(d.rows[w]), logs[w].base, logs[w].tip),
         rooted' \subseteq Node, exposed' \subseteq Node, peers' \in [Node -> SUBSET Node], NetOK'
  PROVE  WriteInv'
<1>1. /\ certified' = certified /\ signed' = signed
  OBVIOUS
<1>2. /\ ledger = [m \in Node |-> ledger[m]] /\ disk = [m \in Node |-> disk[m]]
      /\ ckpt \in [Node -> 0..Len(certified)] /\ posting = [m \in Node |-> posting[m]]
  BY DEF WriteInv, LogsOK, DiskOK, CheckpointsOK, PostingOK
<1>3. /\ ledger'[n] = logs /\ disk'[n] = d /\ ckpt'[n] = c
      /\ \A m \in Node \ {n} : ledger'[m] = ledger[m] /\ disk'[m] = disk[m] /\ ckpt'[m] = ckpt[m]
      /\ ledger' = [m \in Node |-> ledger'[m]] /\ disk' = [m \in Node |-> disk'[m]]
  BY <1>2
<1>4. SignedOK'
  BY <1>1 DEF WriteInv, SignedOK
<1>5. LogsOK'
  <2>1. \A m, w \in Node : ledger[m][w] \in Log(signed[w])
    BY DEF WriteInv, LogsOK
  <2>2. \A m \in Node : ledger[m] = [w \in Node |-> ledger[m][w]]
    BY DEF WriteInv, LogsOK
  <2>3. \A m \in Node : ledger'[m] = [w \in Node |-> ledger'[m][w]]
    <3>1. ledger'[n] = [w \in Node |-> ledger'[n][w]]
      BY <1>3
    <3>2. ASSUME NEW m \in Node \ {n} PROVE ledger'[m] = [w \in Node |-> ledger'[m][w]]
      <4>1. ledger'[m] = ledger[m]
        BY <1>3
      <4> QED BY <4>1, <2>2
    <3> QED BY <3>1, <3>2
  <2>4. \A m, w \in Node : ledger'[m][w] \in Log(signed'[w])
    BY <1>1, <1>3, <2>1
  <2>5. ledger' = [m \in Node |-> [w \in Node |-> ledger'[m][w]]]
    BY <1>3, <2>3
  <2> QED BY <2>4, <2>5 DEF LogsOK
<1>6. DiskOK'
  <2>1. \A m \in Node : disk[m] = [rows |-> [w \in Node |-> disk[m].rows[w]], snap |-> disk[m].snap]
    BY DEF WriteInv, DiskOK
  <2> DEFINE whole(m) ==
         disk'[m] = [rows |-> [w \in Node |-> disk'[m].rows[w]], snap |-> disk'[m].snap]
  <2>2. \A m \in Node : whole(m)
    <3>1. whole(n)
      BY <1>3
    <3>2. ASSUME NEW m \in Node \ {n} PROVE whole(m)
      <4>1. disk'[m] = disk[m]
        BY <1>3
      <4> QED BY <4>1, <2>1
    <3> HIDE DEF whole
    <3> QED BY <3>1, <3>2
  <2>3. \A m, w \in Node : disk'[m].rows[w] \subseteq signed'[w] \X Nat /\ IsFiniteSet(disk'[m].rows[w])
    BY <1>1, <1>3 DEF WriteInv, DiskOK
  <2>4. \A m \in Node : disk'[m].snap \in 0..Len(certified')
    BY <1>1, <1>3 DEF WriteInv, DiskOK
  <2>5. disk' = [m \in Node |-> [rows |-> [w \in Node |-> disk'[m].rows[w]], snap |-> disk'[m].snap]]
    BY <1>3, <2>2
  <2> QED BY <2>3, <2>4, <2>5 DEF DiskOK
<1>7. CheckpointsOK'
  <2>1. ckpt' \in [Node -> 0..Len(certified)]
    BY <1>2
  <2> QED BY <1>1, <2>1 DEF WriteInv, CheckpointsOK
<1>8. NodesOK'
  <2>1. cut' \subseteq Node
    BY DEF WriteInv, NodesOK
  <2> QED BY <2>1 DEF NodesOK
<1>9. posting' = [m \in Node |-> posting'[m]]
      /\ \A m \in Node : posting'[m] = <<>> \/ posting'[m] = posting[m]
  BY <1>2
<1>10. PostingOK'
  BY <1>1, <1>9 DEF WriteInv, PostingOK
<1>11. OwnOK'
  <2> SUFFICES ASSUME NEW m \in Node \ cut'
               PROVE  /\ \A v \in signed'[m] : Extends(ledger'[m][m].tip, v)
                      /\ posting'[m] = <<>> \/ posting'[m] = <<ledger'[m][m].tip>>
                      /\ disk'[m].snap <= ckpt'[m]
                      /\ Covers(WritesIn(disk'[m].rows[m]), Len(snapshot(disk'[m].snap)[m]),
                                ledger'[m][m].tip)
    BY <1>1 DEF OwnOK, snapshot
  <2>1. m \in Node \ cut
    OBVIOUS
  <2>2. /\ \A v \in signed[m] : Extends(ledger[m][m].tip, v)
        /\ posting[m] = <<>> \/ posting[m] = <<ledger[m][m].tip>>
        /\ disk[m].snap <= ckpt[m]
        /\ Covers(WritesIn(disk[m].rows[m]), Len(snapshot(disk[m].snap)[m]), ledger[m][m].tip)
    BY <2>1 DEF WriteInv, OwnOK
  <2>3. CASE m = n
    <3>1. /\ logs[n].tip = ledger[n][n].tip /\ d.snap <= c
          /\ Covers(WritesIn(d.rows[n]), Len(snapshot(d.snap)[n]), logs[n].tip)
      BY <2>3
    <3> QED BY <1>1, <1>3, <1>9, <2>2, <2>3, <3>1
  <2>4. CASE m # n
    BY <1>1, <1>3, <1>9, <2>2, <2>4
  <2> QED BY <2>3, <2>4
<1>12. RowsOK'
  <2>1. \A m, w \in Node : keep(m, w) /\ OnePerSeq(signed[w]) =>
          Covers(WritesIn(disk'[m].rows[w]), ledger'[m][w].base, ledger'[m][w].tip)
    BY <1>3 DEF WriteInv, RowsOK
  <2> QED BY <1>1, <2>1 DEF RowsOK, keep
<1> QED BY <1>4, <1>5, <1>6, <1>7, <1>8, <1>10, <1>11, <1>12 DEF WriteInv

(* What stays as it is, said as a change of one node to what it has.       *)
LEMMA SameHeld ==
  ASSUME WriteInv, NEW n \in Node
  PROVE  /\ disk = [disk EXCEPT ![n] = disk[n]] /\ ckpt = [ckpt EXCEPT ![n] = ckpt[n]]
         /\ ckpt[n] \in 0..Len(certified) /\ disk[n].snap \in 0..Len(certified)
         /\ disk[n] = [rows |-> [w \in Node |-> disk[n].rows[w]], snap |-> disk[n].snap]
         /\ \A w \in Node : /\ disk[n].rows[w] \subseteq signed[w] \X Nat
                            /\ IsFiniteSet(disk[n].rows[w])
         /\ ledger[n] = [w \in Node |-> ledger[n][w]]
         /\ \A w \in Node : Histories(signed[w]) /\ ledger[n][w] \in Log(signed[w])
<1>1. disk = [m \in Node |-> disk[m]]
  BY DEF WriteInv, DiskOK
<1>2. disk = [disk EXCEPT ![n] = disk[n]]
  BY <1>1
<1>3. ckpt = [ckpt EXCEPT ![n] = ckpt[n]] /\ ckpt[n] \in 0..Len(certified)
  BY DEF WriteInv, CheckpointsOK
<1>4. disk[n] = [rows |-> [w \in Node |-> disk[n].rows[w]], snap |-> disk[n].snap]
  BY DEF WriteInv, DiskOK
<1>5. /\ disk[n].snap \in 0..Len(certified)
      /\ \A w \in Node : disk[n].rows[w] \subseteq signed[w] \X Nat /\ IsFiniteSet(disk[n].rows[w])
  BY DEF WriteInv, DiskOK
<1>6. ledger[n] = [w \in Node |-> ledger[n][w]]
  BY DEF WriteInv, LogsOK
<1>7. \A w \in Node : Histories(signed[w]) /\ ledger[n][w] \in Log(signed[w])
  BY DEF WriteInv, SignedOK, LogsOK
<1> QED BY <1>2, <1>3, <1>4, <1>5, <1>6, <1>7

(* What a node that has dropped nothing holds of its own.                  *)
LEMMA OwnHeld ==
  ASSUME WriteInv, NEW n \in Node \ cut
  PROVE  /\ OnePerSeq(signed[n]) /\ ledger[n][n].tip \in signed[n] \cup {<<>>}
         /\ \A u \in signed[n] \cup {<<>>} : Extends(u, ledger[n][n].tip) => u = ledger[n][n].tip
         /\ disk[n].snap <= ckpt[n]
         /\ Covers(WritesIn(disk[n].rows[n]), Len(snapshot(disk[n].snap)[n]), ledger[n][n].tip)
<1>1. Histories(signed[n]) /\ ledger[n][n].tip \in signed[n] \cup {<<>>}
  BY LogOK DEF WriteInv, SignedOK, LogsOK
<1>2. /\ \A v \in signed[n] : Extends(ledger[n][n].tip, v)
      /\ disk[n].snap <= ckpt[n]
      /\ Covers(WritesIn(disk[n].rows[n]), Len(snapshot(disk[n].snap)[n]), ledger[n][n].tip)
  BY DEF WriteInv, OwnOK
<1>3. /\ OnePerSeq(signed[n])
      /\ \A u \in signed[n] \cup {<<>>} : Extends(u, ledger[n][n].tip) => u = ledger[n][n].tip
  BY <1>1, <1>2, OwnTip
<1> QED BY <1>1, <1>2, <1>3

(* A write that waits is dropped.                                          *)
LEMMA DecayKeeps ==
  ASSUME WriteInv, NEW n \in Node, NEW w \in Node, Decay(n, w)
  PROVE  WriteInv'
<1>1. /\ UNCHANGED <<disk, ckpt, pendingSnap, rooted, posting, peers, net, certified, signed, history>>
      /\ \E v \in ledger[n][w].pend : ledger' = [ledger EXCEPT ![n][w].pend = @ \ {v}]
  BY DEF Decay
<1>2. PICK v \in ledger[n][w].pend : ledger' = [ledger EXCEPT ![n][w].pend = @ \ {v}]
  BY <1>1
<1> DEFINE l == ledger[n][w]
           k == [l EXCEPT !.pend = @ \ {v}]
           logs == [ledger[n] EXCEPT ![w] = k]
<1>3. ledger' = [ledger EXCEPT ![n] = logs]
  BY <1>2
<1>4. l \in Log(signed[w]) /\ Histories(signed[w]) /\ ledger[n] = [x \in Node |-> ledger[n][x]]
  BY SameHeld
<1>5. /\ l = [base |-> l.base, tip |-> l.tip, pend |-> l.pend]
      /\ l.base \in Nat /\ l.tip \in signed[w] \cup {<<>>} /\ l.base <= Len(l.tip)
      /\ l.pend \subseteq signed[w] /\ OnePerSeq(l.pend)
  <2> HIDE DEF l
  <2> QED BY <1>4, LogOK
<1>6. k.base = l.base /\ k.tip = l.tip /\ k \in Log(signed[w])
  <2> DEFINE P == l.pend \ {v}
  <2>1. P \subseteq signed[w] /\ OnePerSeq(P)
    BY <1>5 DEF OnePerSeq
  <2> HIDE DEF P
  <2>2. k = [base |-> l.base, tip |-> l.tip, pend |-> P]
    <3>1. k = [l EXCEPT !.pend = P]
      BY DEF P
    <3> HIDE DEF k, l
    <3> QED BY <3>1, <1>5
  <2> HIDE DEF k, l
  <2> QED BY <2>1, <2>2, <1>4, <1>5, LogMade
<1> HIDE DEF k
<1>7. logs = [x \in Node |-> logs[x]]
  BY <1>4
<1>8. \A x \in Node : /\ logs[x].base = ledger[n][x].base /\ logs[x].tip = ledger[n][x].tip
                      /\ logs[x] \in Log(signed[x])
  <2>1. logs[w] = k /\ \A x \in Node \ {w} : logs[x] = ledger[n][x]
    BY <1>4
  <2> HIDE DEF logs
  <2>2. ASSUME NEW x \in Node \ {w}
        PROVE  /\ logs[x].base = ledger[n][x].base /\ logs[x].tip = ledger[n][x].tip
               /\ logs[x] \in Log(signed[x])
    BY <2>1, SameHeld
  <2> QED BY <1>6, <2>1, <2>2
<1> HIDE DEF logs
<1>9. /\ disk' = [disk EXCEPT ![n] = disk[n]] /\ ckpt' = [ckpt EXCEPT ![n] = ckpt[n]]
      /\ posting' = posting /\ cut' = cut /\ pendingSnap' = pendingSnap
      /\ certified' = certified /\ signed' = signed /\ net' = net
  BY <1>1, SameHeld DEF history
<1>10. /\ rooted' \subseteq Node /\ exposed' \subseteq Node /\ peers' \in [Node -> SUBSET Node]
       /\ pendingSnap' \in [Node -> 0..Len(certified)]
  BY <1>1 DEF WriteInv, NodesOK, history, CheckpointsOK
<1>11. NetOK'
  BY <1>9 DEF WriteInv, NetOK
<1>12. n \in cut' \/ ( /\ logs[n].tip = ledger[n][n].tip /\ disk[n].snap <= ckpt[n]
                       /\ Covers(WritesIn(disk[n].rows[n]), Len(snapshot(disk[n].snap)[n]), logs[n].tip) )
  BY <1>8, <1>9, OwnHeld
<1>13. \A x \in Node : keep(n, x) /\ OnePerSeq(signed[x]) =>
          Covers(WritesIn(disk[n].rows[x]), logs[x].base, logs[x].tip)
  BY <1>8 DEF WriteInv, RowsOK
<1>14. \A x \in Node : logs[x] \in Log(signed[x])
  BY <1>8
<1> DEFINE d == disk[n]
           c == ckpt[n]
<1>15. /\ c \in 0..Len(certified) /\ d.snap \in 0..Len(certified)
       /\ d = [rows |-> [x \in Node |-> d.rows[x]], snap |-> d.snap]
       /\ \A x \in Node : d.rows[x] \subseteq signed[x] \X Nat /\ IsFiniteSet(d.rows[x])
  BY SameHeld
<1>16. /\ disk' = [disk EXCEPT ![n] = d] /\ ckpt' = [ckpt EXCEPT ![n] = c]
       /\ n \in cut' \/ ( /\ logs[n].tip = ledger[n][n].tip /\ d.snap <= c
                          /\ Covers(WritesIn(d.rows[n]), Len(snapshot(d.snap)[n]), logs[n].tip) )
       /\ \A x \in Node : keep(n, x) /\ OnePerSeq(signed[x]) =>
            Covers(WritesIn(d.rows[x]), logs[x].base, logs[x].tip)
  BY <1>9, <1>12, <1>13
<1> HIDE DEF c, d
<1> QED BY <1>3, <1>7, <1>9, <1>10, <1>11, <1>14, <1>15, <1>16, HeldKeeps

(* Writes are heard, applied and stored.                                   *)
LEMMA WritesKeep ==
  ASSUME WriteInv, NEW n \in Node, NEW m \in Node, NEW writes, HearWrites(n, m, writes),
         \A p \in writes : p[1] \in Node /\ p[2] \in signed[p[1]]
  PROVE  WriteInv'
<1> DEFINE came(w) == {p[2] : p \in {q \in writes : q[1] = w}}
           r == [w \in Node |-> applyAll(ledger[n][w], came(w))]
           logs == [w \in Node |-> r[w].log]
           learned == UNION {{<<w, v>> : v \in r[w].applied} : w \in Node}
           changed == learned # {} \/ \E w \in Node : r[w].buffered
           out == (IF learned = {} THEN {} ELSE send(peers[n] \ {m}, n, "writes", learned))
                  \cup (IF changed THEN send({m}, n, "hello", HeadsOf(logs)) ELSE {})
           d == persist(disk[n], n, learned)
           c == ckpt[n]
<1>1. /\ Takes(n, m, "writes", writes, out)
      /\ ledger' = [ledger EXCEPT ![n] = logs]
      /\ disk' = [disk EXCEPT ![n] = d]
      /\ exposed' = exposed \cup {w \in Node : r[w].fork}
      /\ UNCHANGED <<ckpt, pendingSnap, rooted, posting, certified, signed, cut, life, lost>>
  BY DEF HearWrites, stored
<1>2. \A w \in Node : /\ Histories(signed[w]) /\ ledger[n][w] \in Log(signed[w])
                      /\ came(w) \subseteq signed[w]
  <2>1. \A w \in Node : came(w) \subseteq signed[w]
    OBVIOUS
  <2>2. \A w \in Node : Histories(signed[w]) /\ ledger[n][w] \in Log(signed[w])
    BY SameHeld
  <2> QED BY <2>1, <2>2
<1> HIDE DEF came
<1>3. \A w \in Node : Applied(signed[w], ledger[n][w], r[w])
  BY <1>2, ApplyAllOK
<1> HIDE DEF r
<1>4. \A w \in Node : /\ logs[w] \in Log(signed[w]) /\ logs[w].base = ledger[n][w].base
                      /\ Extends(logs[w].tip, ledger[n][w].tip) /\ r[w].applied \subseteq signed[w]
                      /\ OnePerSeq(signed[w]) =>
                           Covers(r[w].applied, Len(ledger[n][w].tip), logs[w].tip)
  BY <1>3 DEF Applied
<1>5. \A p \in learned : p[1] \in Node /\ p[2] \in r[p[1]].applied
  OBVIOUS
<1>6. \A w \in Node : Of(w, learned) = r[w].applied
  <2> SUFFICES ASSUME NEW w \in Node PROVE Of(w, learned) = r[w].applied
    OBVIOUS
  <2>1. Of(w, learned) \subseteq r[w].applied
    BY <1>5 DEF Of
  <2>2. ASSUME NEW v \in r[w].applied PROVE v \in Of(w, learned)
    <3>1. <<w, v>> \in learned
      OBVIOUS
    <3> HIDE DEF learned
    <3> QED BY <3>1 DEF Of
  <2> QED BY <2>1, <2>2
<1>7. logs = [w \in Node |-> logs[w]]
  OBVIOUS
<1> HIDE DEF logs, learned
<1>8. \A p \in learned : p[1] \in Node /\ p[2] \in signed[p[1]]
  BY <1>4, <1>5
<1>9. \A msg \in out : MsgOK(msg, signed, certified)
  <2>1. peers[n] \ {m} \subseteq Node
    BY DEF WriteInv, NodesOK
  <2>2. \A msg \in send(peers[n] \ {m}, n, "writes", learned) : MsgOK(msg, signed, certified)
    BY <1>8, <2>1, SendOK
  <2>3. \A msg \in send({m}, n, "hello", HeadsOf(logs)) : MsgOK(msg, signed, certified)
    BY SendOK
  <2> HIDE DEF changed
  <2> QED BY <2>2, <2>3
<1> HIDE DEF out
<1>10. NetOK' /\ peers' \in [Node -> SUBSET Node]
  BY <1>1, <1>9, TakesOK
<1>11. /\ d = [rows |-> [w \in Node |-> d.rows[w]], snap |-> disk[n].snap]
       /\ \A w \in Node : /\ d.rows[w] \subseteq signed[w] \X Nat /\ IsFiniteSet(d.rows[w])
                          /\ keep(n, w) => WritesIn(d.rows[w])
                                             = WritesIn(disk[n].rows[w]) \cup r[w].applied
  <2>1. /\ \A w \in Node : IsFiniteSet(signed[w])
        /\ \A w \in Node : Of(w, learned) \subseteq signed[w]
    BY <1>2, <1>4, <1>6 DEF Histories
  <2> DEFINE e == disk[n]
             g == persist(e, n, learned)
  <2>2. HasRows(e)
    BY SameHeld DEF HasRows
  <2>3. \A w \in Node : e.rows[w] \subseteq signed[w] \X Nat /\ IsFiniteSet(e.rows[w])
    BY SameHeld
  <2>4. d = g
    OBVIOUS
  <2> HIDE DEF e, d
  <2>5. /\ HasRows(g) /\ g.snap = e.snap
        /\ \A w \in Node : /\ g.rows[w] \subseteq signed[w] \X Nat /\ IsFiniteSet(g.rows[w])
                           /\ keep(n, w) => WritesIn(g.rows[w])
                                              = WritesIn(e.rows[w]) \cup Of(w, learned)
    BY <2>1, <2>2, <2>3, PersistOK
  <2> HIDE DEF g
  <2> QED BY <2>4, <2>5, <1>6 DEF e, HasRows
<1> HIDE DEF d
<1>12. d.snap = disk[n].snap
  BY <1>11
<1>13. \A w \in Node : keep(n, w) /\ OnePerSeq(signed[w]) =>
         Covers(WritesIn(d.rows[w]), logs[w].base, logs[w].tip)
  <2> SUFFICES ASSUME NEW w \in Node, keep(n, w), OnePerSeq(signed[w])
               PROVE  Covers(WritesIn(d.rows[w]), logs[w].base, logs[w].tip)
    OBVIOUS
  <2>1. Covers(WritesIn(disk[n].rows[w]), ledger[n][w].base, ledger[n][w].tip)
    BY DEF WriteInv, RowsOK
  <2>2. ledger[n][w].tip \in Seq(Nat) /\ ledger[n][w].base \in Nat /\ logs[w].tip \in Seq(Nat)
    BY <1>2, <1>4, LogOK
  <2>3. Covers(WritesIn(disk[n].rows[w]) \cup r[w].applied, ledger[n][w].base, logs[w].tip)
    BY <1>4, <2>1, <2>2, CoversMore
  <2>4. WritesIn(d.rows[w]) = WritesIn(disk[n].rows[w]) \cup r[w].applied
    BY <1>11
  <2>5. logs[w].base = ledger[n][w].base
    BY <1>4
  <2> QED BY <2>3, <2>4, <2>5
<1>14. n \in cut' \/ ( /\ logs[n].tip = ledger[n][n].tip /\ d.snap <= c
                       /\ Covers(WritesIn(d.rows[n]), Len(snapshot(d.snap)[n]), logs[n].tip) )
  <2> SUFFICES ASSUME n \notin cut
               PROVE  /\ logs[n].tip = ledger[n][n].tip /\ disk[n].snap <= c
                      /\ Covers(WritesIn(d.rows[n]), Len(snapshot(disk[n].snap)[n]), logs[n].tip)
    BY <1>1, <1>12
  <2>1. n \in Node \ cut
    OBVIOUS
  <2>2. logs[n].tip \in signed[n] \cup {<<>>}
    BY <1>2, <1>4, LogOK
  <2>3. logs[n].tip = ledger[n][n].tip
    BY <1>4, <2>1, <2>2, OwnHeld
  <2>4. /\ disk[n].snap <= c
        /\ Covers(WritesIn(disk[n].rows[n]), Len(snapshot(disk[n].snap)[n]), ledger[n][n].tip)
    BY <2>1, OwnHeld
  <2>5. WritesIn(disk[n].rows[n]) \subseteq WritesIn(d.rows[n])
    BY <1>11 DEF keep
  <2> QED BY <2>3, <2>4, <2>5 DEF Covers
<1>15. /\ c \in 0..Len(certified) /\ d.snap \in 0..Len(certified)
       /\ ckpt' = [ckpt EXCEPT ![n] = c]
  BY <1>1, <1>12, SameHeld
<1> HIDE DEF c
<1>16. /\ certified' = certified /\ signed' = signed /\ posting' = posting /\ cut' = cut
       /\ rooted' \subseteq Node /\ exposed' \subseteq Node
       /\ pendingSnap' \in [Node -> 0..Len(certified)]
  BY <1>1 DEF WriteInv, NodesOK, CheckpointsOK
<1>17. d = [rows |-> [w \in Node |-> d.rows[w]], snap |-> d.snap]
  BY <1>11, <1>12
<1>18. \A w \in Node : d.rows[w] \subseteq signed[w] \X Nat /\ IsFiniteSet(d.rows[w])
  BY <1>11
<1>19. \A w \in Node : logs[w] \in Log(signed[w])
  BY <1>4
<1> QED BY <1>1, <1>7, <1>10, <1>13, <1>14, <1>15, <1>16, <1>17, <1>18, <1>19, HeldKeeps

(* A checkpoint is taken: the log goes on from it, and the rows below may  *)
(* go.                                                                     *)
LEMMA CheckpointKeeps ==
  ASSUME WriteInv, NEW n \in Node, NEW i \in DOMAIN certified, Checkpoint(n, i)
  PROVE  WriteInv'
<1> DEFINE h == certified[i]
           logs == [w \in Node |-> pruneBelow(ledger[n][w], h[w])]
           e == persistSnapshot(disk[n], i)
<1>1. /\ i > ckpt[n] /\ haveAllWrites(n, i)
      /\ ckpt' = [ckpt EXCEPT ![n] = i]
      /\ \E reclaimed \in BOOLEAN :
           disk' = [disk EXCEPT ![n] = IF reclaimed THEN pruneRows(e, h) ELSE e]
      /\ UNCHANGED <<pendingSnap, rooted, posting, peers, net, certified, signed, history, left>>
  BY DEF Checkpoint
<1>2. ledger' = [ledger EXCEPT ![n] = logs]
  BY DEF Checkpoint
<1>3. Len(certified) \in Nat /\ i \in 1..Len(certified) /\ i \in 0..Len(certified) /\ snapshot(i) = h
  <2>1. Len(certified) \in Nat /\ DOMAIN certified = 1..Len(certified)
    BY DEF WriteInv, CheckpointsOK
  <2> QED BY <2>1 DEF snapshot
<1>4. \A w \in Node : Histories(signed[w]) /\ ledger[n][w] \in Log(signed[w])
  BY SameHeld
<1>5. \A w \in Node : h[w] \in signed[w] \cup {<<>>} /\ Len(h[w]) \in Nat
  BY <1>3, SnapshotOK DEF WriteInv
<1>6. \A w \in Node : Extends(ledger[n][w].tip, h[w])
  <2> SUFFICES ASSUME NEW w \in Node PROVE Extends(ledger[n][w].tip, h[w])
    OBVIOUS
  <2>1. CASE h[w] = <<>>
    BY <2>1, <1>4, LogOK, ExtendsOrders
  <2>2. CASE h[w] # <<>>
    <3>1. idAt(ledger[n][w], seq(h[w])) = h[w] /\ h[w] \in signed[w]
      BY <1>1, <1>5, <2>2 DEF haveAllWrites
    <3> QED BY <3>1, <1>4, IdAtOK
  <2> QED BY <2>1, <2>2
<1>7. \A w \in Node : /\ logs[w] \in Log(signed[w]) /\ logs[w].tip = ledger[n][w].tip
                      /\ ledger[n][w].base <= logs[w].base
                      /\ ledger[n][w].tip = <<>> \/ Len(h[w]) <= logs[w].base
  <2> HIDE DEF h
  <2> QED BY <1>4, <1>5, <1>6, PruneOK
<1>8. logs = [w \in Node |-> logs[w]]
  OBVIOUS
<1> HIDE DEF logs
<1>9. PICK reclaimed \in BOOLEAN : disk' = [disk EXCEPT ![n] = IF reclaimed THEN pruneRows(e, h) ELSE e]
  BY <1>1
<1> DEFINE d == IF reclaimed THEN pruneRows(e, h) ELSE e
           left_(w) == {x \in disk[n].rows[w] : Len(x[1]) > Len(h[w])}
<1>10. e = [rows |-> disk[n].rows, snap |-> i] /\ e.rows = disk[n].rows
  <2>1. disk[n] = [rows |-> disk[n].rows, snap |-> disk[n].snap]
    <3>1. disk[n] = [rows |-> [w \in Node |-> disk[n].rows[w]], snap |-> disk[n].snap]
      BY SameHeld
    <3> QED BY <3>1
  <2> QED BY <2>1 DEF persistSnapshot
<1>11. disk[n].rows = [w \in Node |-> disk[n].rows[w]]
  <2>1. disk[n] = [rows |-> [w \in Node |-> disk[n].rows[w]], snap |-> disk[n].snap]
    BY SameHeld
  <2> QED BY <2>1
<1>12. pruneRows(e, h) = [rows |-> [w \in Node |-> left_(w)], snap |-> i]
  <2> DEFINE R == [w \in Node |-> {x \in e.rows[w] : Len(x[1]) > Len(h[w])}]
  <2>1. pruneRows(e, h) = [e EXCEPT !.rows = R]
    BY DEF pruneRows
  <2>2. R = [w \in Node |-> left_(w)]
    <3> HIDE DEF e
    <3> QED BY <1>10
  <2> HIDE DEF R
  <2>3. [e EXCEPT !.rows = R] = [rows |-> R, snap |-> i]
    <3> HIDE DEF e
    <3> QED BY <1>10
  <2> QED BY <2>1, <2>2, <2>3
<1> HIDE DEF e
<1>13. /\ d = [rows |-> d.rows, snap |-> i] /\ d.snap = i
       /\ d.rows = [w \in Node |-> d.rows[w]]
       /\ \A w \in Node : d.rows[w] = disk[n].rows[w] \/ d.rows[w] = left_(w)
  <2>1. CASE reclaimed
    <3> DEFINE R == [w \in Node |-> left_(w)]
    <3>1. d = [rows |-> R, snap |-> i]
      BY <2>1, <1>12
    <3>2. R = [w \in Node |-> R[w]] /\ \A w \in Node : R[w] = left_(w)
      OBVIOUS
    <3> HIDE DEF R, d, left_
    <3> QED BY <3>1, <3>2
  <2>2. CASE ~reclaimed
    <3>1. d = [rows |-> disk[n].rows, snap |-> i]
      BY <2>2, <1>10
    <3> HIDE DEF d, left_
    <3> QED BY <3>1, <1>11
  <2> QED BY <2>1, <2>2
<1>14. d = [rows |-> [w \in Node |-> d.rows[w]], snap |-> d.snap]
  <2> HIDE DEF d, left_
  <2> QED BY <1>13
<1>15. \A w \in Node : /\ d.rows[w] \subseteq disk[n].rows[w]
                       /\ \A x \in disk[n].rows[w] : Len(x[1]) > Len(h[w]) => x \in d.rows[w]
  <2> HIDE DEF d
  <2> QED BY <1>13
<1> HIDE DEF d, left_
<1>16. \A w \in Node : d.rows[w] \subseteq signed[w] \X Nat /\ IsFiniteSet(d.rows[w])
  <2> SUFFICES ASSUME NEW w \in Node
               PROVE  d.rows[w] \subseteq signed[w] \X Nat /\ IsFiniteSet(d.rows[w])
    OBVIOUS
  <2>1. disk[n].rows[w] \subseteq signed[w] \X Nat /\ IsFiniteSet(disk[n].rows[w])
    BY SameHeld
  <2> QED BY <2>1, <1>15, FS_Subset
<1>17. ASSUME NEW w \in Node, NEW b \in Nat, Covers(WritesIn(disk[n].rows[w]), b, ledger[n][w].tip),
              NEW a \in Nat, b <= a, Len(h[w]) <= a
       PROVE  Covers(WritesIn(d.rows[w]), a, ledger[n][w].tip)
  <2>1. ledger[n][w].tip \in Seq(Nat) /\ Len(ledger[n][w].tip) \in Nat
    BY <1>4, LogOK
  <2> SUFFICES ASSUME NEW k \in (a + 1)..Len(ledger[n][w].tip)
               PROVE  upTo(ledger[n][w].tip, k) \in WritesIn(d.rows[w])
    BY DEF Covers
  <2>2. k \in (b + 1)..Len(ledger[n][w].tip) /\ k \in 0..Len(ledger[n][w].tip) /\ Len(h[w]) < k
    BY <2>1, <1>5, <1>17
  <2>3. upTo(ledger[n][w].tip, k) \in WritesIn(disk[n].rows[w])
    BY <2>2, <1>17 DEF Covers
  <2>4. PICK x \in disk[n].rows[w] : x[1] = upTo(ledger[n][w].tip, k)
    BY <2>3 DEF WritesIn
  <2>5. Len(x[1]) = k
    BY <2>1, <2>2, <2>4, UpToOK
  <2>6. x \in d.rows[w]
    BY <2>2, <2>5, <1>5, <1>15
  <2> QED BY <2>4, <2>6 DEF WritesIn
<1>18. \A w \in Node : keep(n, w) /\ OnePerSeq(signed[w]) =>
         Covers(WritesIn(d.rows[w]), logs[w].base, logs[w].tip)
  <2> SUFFICES ASSUME NEW w \in Node, keep(n, w), OnePerSeq(signed[w])
               PROVE  Covers(WritesIn(d.rows[w]), logs[w].base, ledger[n][w].tip)
    BY <1>7
  <2>1. Covers(WritesIn(disk[n].rows[w]), ledger[n][w].base, ledger[n][w].tip)
    BY DEF WriteInv, RowsOK
  <2>2. ledger[n][w].base \in Nat /\ logs[w].base \in Nat
    BY <1>4, <1>7, LogOK
  <2>3. CASE ledger[n][w].tip = <<>>
    BY <2>2, <2>3, EmptySeq DEF Covers
  <2>4. CASE Len(h[w]) <= logs[w].base
    BY <1>7, <1>17, <2>1, <2>2, <2>4
  <2> QED BY <1>7, <2>3, <2>4
<1>19. n \in cut' \/ ( /\ logs[n].tip = ledger[n][n].tip /\ d.snap <= i
                       /\ Covers(WritesIn(d.rows[n]), Len(snapshot(d.snap)[n]), logs[n].tip) )
  <2> SUFFICES ASSUME n \notin cut
               PROVE  Covers(WritesIn(d.rows[n]), Len(h[n]), ledger[n][n].tip)
    BY <1>1, <1>3, <1>7, <1>13 DEF history
  <2>1. /\ disk[n].snap <= ckpt[n] /\ disk[n].snap \in 0..Len(certified) /\ ckpt[n] \in 0..Len(certified)
        /\ Covers(WritesIn(disk[n].rows[n]), Len(snapshot(disk[n].snap)[n]), ledger[n][n].tip)
    BY OwnHeld, SameHeld
  <2>2. disk[n].snap <= i
    BY <1>1, <1>3, <2>1
  <2>3. Len(snapshot(disk[n].snap)[n]) \in Nat /\ Len(snapshot(disk[n].snap)[n]) <= Len(h[n])
    BY <1>3, <2>1, <2>2, SnapshotOK DEF WriteInv
  <2> QED BY <1>5, <1>17, <2>1, <2>3
<1>20. /\ certified' = certified /\ signed' = signed /\ posting' = posting /\ cut' = cut
       /\ rooted' \subseteq Node /\ exposed' \subseteq Node /\ net' = net
       /\ pendingSnap' \in [Node -> 0..Len(certified)] /\ peers' \in [Node -> SUBSET Node]
  BY <1>1 DEF WriteInv, NodesOK, CheckpointsOK, history
<1>21. NetOK'
  BY <1>20 DEF WriteInv, NetOK
<1>22. /\ \A w \in Node : logs[w] \in Log(signed[w])
       /\ ckpt' = [ckpt EXCEPT ![n] = i] /\ d.snap \in 0..Len(certified)
  BY <1>1, <1>3, <1>7, <1>13
<1>23. disk' = [disk EXCEPT ![n] = d]
  BY <1>9 DEF d
<1> QED BY <1>2, <1>3, <1>8, <1>14, <1>16, <1>18, <1>19, <1>20, <1>21, <1>22, <1>23, HeldKeeps

(* The node rests on checkpoint i.                                         *)
LEMMA SeedKeeps ==
  ASSUME WriteInv, NEW n \in Node, NEW i \in 1..Len(certified), Seed(n, i),
         UNCHANGED <<posting, certified, signed, exposed>>, rooted' \subseteq Node,
         peers' \in [Node -> SUBSET Node], NetOK'
  PROVE  WriteInv'
<1> DEFINE h == certified[i]
           logs == [w \in Node |-> seedCheckpoint(ledger[n][w], h[w])]
           d == disk[n]
<1>1. /\ ckpt' = [ckpt EXCEPT ![n] = i] /\ pendingSnap' = [pendingSnap EXCEPT ![n] = 0]
      /\ cut' = IF Extends(logs[n].tip, ledger[n][n].tip) /\ ckpt[n] <= i THEN cut ELSE cut \cup {n}
      /\ disk' = disk
  BY DEF Seed
<1>2. ledger' = [ledger EXCEPT ![n] = logs]
  BY DEF Seed
<1>3. Len(certified) \in Nat /\ i \in 0..Len(certified) /\ snapshot(i) = h
  BY DEF WriteInv, CheckpointsOK, snapshot
<1>4. \A w \in Node : /\ Histories(signed[w]) /\ ledger[n][w] \in Log(signed[w])
                      /\ h[w] \in signed[w] \cup {<<>>}
  BY <1>3, SnapshotOK, SameHeld DEF WriteInv
<1>5. \A w \in Node : /\ logs[w] \in Log(signed[w])
                      /\ logs[w] = ledger[n][w] \/ logs[w].base = Len(logs[w].tip)
  <2> HIDE DEF h
  <2> QED BY <1>4, SeedOK
<1>6. logs = [w \in Node |-> logs[w]]
  OBVIOUS
<1> HIDE DEF logs
<1>7. /\ disk' = [disk EXCEPT ![n] = d] /\ d.snap \in 0..Len(certified)
      /\ d = [rows |-> [w \in Node |-> d.rows[w]], snap |-> d.snap]
  BY <1>1, SameHeld
<1>8. \A w \in Node : d.rows[w] \subseteq signed[w] \X Nat /\ IsFiniteSet(d.rows[w])
  BY SameHeld
<1>9. \A w \in Node : keep(n, w) /\ OnePerSeq(signed[w]) =>
        Covers(WritesIn(d.rows[w]), logs[w].base, logs[w].tip)
  <2> SUFFICES ASSUME NEW w \in Node, keep(n, w), OnePerSeq(signed[w])
               PROVE  Covers(WritesIn(d.rows[w]), logs[w].base, logs[w].tip)
    OBVIOUS
  <2>1. CASE logs[w] = ledger[n][w]
    BY <2>1 DEF WriteInv, RowsOK
  <2>2. CASE logs[w].base = Len(logs[w].tip)
    <3>1. logs[w].base \in Nat
      BY <1>4, <1>5, LogOK
    <3> QED BY <2>2, <3>1 DEF Covers
  <2> QED BY <1>5, <2>1, <2>2
<1>10. n \in cut' \/ ( /\ logs[n].tip = ledger[n][n].tip /\ d.snap <= i
                       /\ Covers(WritesIn(d.rows[n]), Len(snapshot(d.snap)[n]), logs[n].tip) )
  <2> SUFFICES ASSUME n \notin cut'
               PROVE  /\ logs[n].tip = ledger[n][n].tip /\ d.snap <= i
                      /\ Covers(WritesIn(d.rows[n]), Len(snapshot(d.snap)[n]), logs[n].tip)
    OBVIOUS
  <2>1. Extends(logs[n].tip, ledger[n][n].tip) /\ ckpt[n] <= i /\ n \in Node \ cut
    BY <1>1
  <2>2. logs[n].tip \in signed[n] \cup {<<>>}
    BY <1>4, <1>5, LogOK
  <2>3. logs[n].tip = ledger[n][n].tip
    BY <2>1, <2>2, OwnHeld
  <2>4. /\ d.snap <= ckpt[n] /\ d.snap \in 0..Len(certified) /\ ckpt[n] \in 0..Len(certified)
        /\ Covers(WritesIn(d.rows[n]), Len(snapshot(d.snap)[n]), ledger[n][n].tip)
    BY <2>1, OwnHeld, SameHeld
  <2> QED BY <1>3, <2>1, <2>3, <2>4
<1>11. /\ cut' = cut \/ cut' = cut \cup {n}
       /\ certified' = certified /\ signed' = signed /\ posting' = posting
       /\ exposed' \subseteq Node
  BY <1>1 DEF WriteInv, NodesOK
<1>12. pendingSnap' \in [Node -> 0..Len(certified)]
  <2>1. 0 \in 0..Len(certified)
    BY <1>3
  <2> QED BY <1>1, <2>1 DEF WriteInv, CheckpointsOK
<1>13. \A w \in Node : logs[w] \in Log(signed[w])
  BY <1>5
<1> HIDE DEF d
<1> QED BY <1>1, <1>2, <1>3, <1>6, <1>7, <1>8, <1>9, <1>10, <1>11, <1>12, <1>13, HeldKeeps

(* A checkpoint waits, or is not there, and nothing held changes.          *)
LEMMA PendingKeeps ==
  ASSUME WriteInv, UNCHANGED <<ledger, disk, ckpt, posting, certified, signed, exposed, cut>>,
         pendingSnap' \in [Node -> 0..Len(certified)], rooted' \subseteq Node,
         peers' \in [Node -> SUBSET Node], NetOK'
  PROVE  WriteInv'
<1>1. /\ ledger' = ledger /\ disk' = disk /\ ckpt' = ckpt /\ posting' = posting
      /\ certified' = certified /\ signed' = signed /\ exposed' = exposed /\ cut' = cut
  OBVIOUS
<1>2. SignedOK' /\ LogsOK' /\ DiskOK'
  BY <1>1 DEF WriteInv, SignedOK, LogsOK, DiskOK
<1>3. CheckpointsOK' /\ PostingOK' /\ NodesOK'
  BY <1>1 DEF WriteInv, CheckpointsOK, PostingOK, NodesOK
<1>4. OwnOK' /\ RowsOK'
  BY <1>1 DEF WriteInv, OwnOK, RowsOK, snapshot, keep
<1> QED BY <1>2, <1>3, <1>4 DEF WriteInv

(* A checkpoint is heard.                                                  *)
LEMMA SnapshotKeeps ==
  ASSUME WriteInv, NEW n \in Node, NEW m \in Node, NEW i \in 1..Len(certified),
         HearSnapshot(n, m, i)
  PROVE  WriteInv'
<1>1. UNCHANGED <<rooted, posting, certified, signed, exposed, lost>>
  BY DEF HearSnapshot
<1>2. rooted' \subseteq Node
  BY <1>1 DEF WriteInv, NodesOK
<1>3. CASE n \in rooted
  <2> DEFINE out == send(peers[n] \cup {m}, n, "hello", HeadsOf(ledger'[n]))
  <2>1. Seed(n, i) /\ Takes(n, m, "snapshot", i, out)
    BY <1>3 DEF HearSnapshot
  <2>2. peers[n] \cup {m} \subseteq Node
    BY DEF WriteInv, NodesOK
  <2>3. \A msg \in out : MsgOK(msg, signed, certified)
    BY <2>2, SendOK
  <2> HIDE DEF out
  <2>4. NetOK' /\ peers' \in [Node -> SUBSET Node]
    BY <1>1, <2>1, <2>3, TakesOK
  <2> QED BY <1>1, <1>2, <2>1, <2>4, SeedKeeps
<1>4. CASE n \notin rooted
  <2>1. /\ pendingSnap' = [pendingSnap EXCEPT ![n] = i] /\ Takes(n, m, "snapshot", i, {})
        /\ UNCHANGED <<ledger, disk, ckpt, cut, life>>
    BY <1>4 DEF HearSnapshot
  <2>2. NetOK' /\ peers' \in [Node -> SUBSET Node]
    BY <1>1, <2>1, TakesOK
  <2>3. pendingSnap' \in [Node -> 0..Len(certified)]
    <3>1. i \in 0..Len(certified)
      BY DEF WriteInv, CheckpointsOK
    <3> QED BY <2>1, <3>1 DEF WriteInv, CheckpointsOK
  <2> QED BY <1>1, <1>2, <2>1, <2>2, <2>3, PendingKeeps
<1> QED BY <1>3, <1>4

(* The heads are told to all peers.                                        *)
LEMMA AdvertisedOK ==
  ASSUME WriteInv, NEW n \in Node, UNCHANGED <<signed, certified>>,
         net' = net \/ net' = net \cup advertised(n)
  PROVE  NetOK'
<1>1. peers[n] \subseteq Node
  BY DEF WriteInv, NodesOK
<1>2. \A msg \in send(peers[n], n, "hello", HeadsOf(ledger'[n])) : MsgOK(msg, signed, certified)
  BY <1>1, SendOK
<1>3. \A msg \in advertised(n) : MsgOK(msg, signed, certified)
  BY <1>2 DEF advertised
<1>4. \A msg \in net : MsgOK(msg, signed, certified)
  BY DEF WriteInv, NetOK
<1>5. \A msg \in net' : MsgOK(msg, signed, certified)
  BY <1>3, <1>4
<1> QED BY <1>5 DEF NetOK

(* The anchors arrive, and a checkpoint that waited for them is taken.     *)
LEMMA RootKeeps ==
  ASSUME WriteInv, NEW n \in Node, Root(n)
  PROVE  WriteInv'
<1>1. /\ rooted' = rooted \cup {n}
      /\ UNCHANGED <<posting, peers, certified, signed, exposed, lost, left>>
  BY DEF Root
<1>2. rooted' \subseteq Node /\ peers' \in [Node -> SUBSET Node]
  BY <1>1 DEF WriteInv, NodesOK
<1>3. CASE pendingSnap[n] = 0
  <2>1. UNCHANGED <<held, cut, life, net>>
    BY <1>3 DEF Root
  <2>2. NetOK'
    BY <1>1, <2>1, AdvertisedOK
  <2>3. pendingSnap' \in [Node -> 0..Len(certified)]
    BY <2>1 DEF WriteInv, CheckpointsOK, held
  <2>4. UNCHANGED <<ledger, disk, ckpt, posting, certified, signed, exposed, cut>>
    BY <1>1, <2>1 DEF held
  <2> QED BY <1>2, <2>2, <2>3, <2>4, PendingKeeps
<1>4. CASE pendingSnap[n] # 0
  <2>1. Seed(n, pendingSnap[n]) /\ net' = net \cup advertised(n)
    BY <1>4 DEF Root
  <2>2. pendingSnap[n] \in 1..Len(certified)
    <3>1. Len(certified) \in Nat /\ pendingSnap[n] \in 0..Len(certified)
      BY DEF WriteInv, CheckpointsOK
    <3> QED BY <3>1, <1>4
  <2>3. NetOK'
    BY <1>1, <2>1, AdvertisedOK
  <2> QED BY <1>1, <1>2, <2>1, <2>2, <2>3, SeedKeeps
<1> QED BY <1>3, <1>4

(* What a node finds on its disk goes from the head of the checkpoint on.  *)
LEMMA BootOK ==
  ASSUME WriteInv, NEW n \in Node, NEW w \in Node
  PROVE  LET l == boot(disk[n])[w]
             h == snapshot(disk[n].snap)[w]
         IN  /\ l \in Log(signed[w]) /\ l.base = Len(h) /\ Len(h) \in Nat
             /\ OnePerSeq(signed[w]) => Covers(WritesIn(disk[n].rows[w]), Len(h), l.tip)
             /\ \A t \in signed[w] \cup {<<>>} :
                  OnePerSeq(signed[w]) /\ Covers(WritesIn(disk[n].rows[w]), Len(h), t)
                    => Extends(l.tip, t)
<1> DEFINE h == snapshot(disk[n].snap)[w]
           rows == disk[n].rows[w]
           S == signed[w]
           l == boot(disk[n])[w]
           s == [base |-> Len(h), tip |-> h, pend |-> {}]
<1>1. /\ Histories(S) /\ rows \subseteq S \X Nat
      /\ h \in S \cup {<<>>} /\ Len(h) \in Nat
  <2>1. disk[n].snap \in 0..Len(certified)
    BY SameHeld
  <2> QED BY <2>1, SameHeld, SnapshotOK DEF WriteInv
<1>2. l = replay(s, rows)
  BY SeedEmpty DEF boot
<1> HIDE DEF h, rows, S, l
<1>3. s \in Log(S)
  <2>1. OnePerSeq({}) /\ {} \subseteq S /\ Len(h) <= Len(h)
    BY <1>1 DEF OnePerSeq
  <2> QED BY <1>1, <2>1, LogMade
<1>4. s.pend = {} /\ s.base = Len(h) /\ s.tip = h
  OBVIOUS
<1>5. \A t \in S \cup {<<>>} :
        OnePerSeq(S) /\ Covers(WritesIn(rows), Len(h), t) => Extends(l.tip, t)
  BY <1>1, <1>2, ReplayAll
<1> HIDE DEF s
<1>6. Replayed(S, s, rows, l)
  BY <1>1, <1>2, <1>3, <1>4, ReplayOK
<1>7. l \in Log(S) /\ l.base = Len(h) /\ (OnePerSeq(S) => Covers(WritesIn(rows), Len(h), l.tip))
  BY <1>4, <1>6 DEF Replayed
<1> QED BY <1>1, <1>5, <1>7 DEF h, rows, S, l

(* A crash, and what the disk has is read again.                           *)
LEMMA CrashKeeps ==
  ASSUME WriteInv, NEW n \in Node, Crash(n)
  PROVE  WriteInv'
<1> DEFINE logs == boot(disk[n])
           d == disk[n]
           c == disk[n].snap
<1>1. /\ ledger' = [ledger EXCEPT ![n] = logs] /\ ckpt' = [ckpt EXCEPT ![n] = c]
      /\ pendingSnap' = [pendingSnap EXCEPT ![n] = 0] /\ rooted' = rooted \ {n}
      /\ posting' = [posting EXCEPT ![n] = <<>>] /\ peers' = [peers EXCEPT ![n] = {}]
      /\ UNCHANGED <<disk, net, certified, signed, exposed, cut, lost>>
  BY DEF Crash
<1>2. logs = [w \in Node |-> logs[w]]
  BY DEF boot
<1>3. \A w \in Node :
        /\ Histories(signed[w]) /\ ledger[n][w] \in Log(signed[w])
        /\ logs[w] \in Log(signed[w])
        /\ OnePerSeq(signed[w]) => Covers(WritesIn(d.rows[w]), logs[w].base, logs[w].tip)
  BY BootOK, SameHeld
<1>4. n \in cut' \/ ( /\ logs[n].tip = ledger[n][n].tip /\ d.snap <= c
                      /\ Covers(WritesIn(d.rows[n]), Len(snapshot(d.snap)[n]), logs[n].tip) )
  <2> SUFFICES ASSUME n \in Node \ cut
               PROVE  /\ logs[n].tip = ledger[n][n].tip /\ d.snap <= c
                      /\ Covers(WritesIn(d.rows[n]), Len(snapshot(d.snap)[n]), logs[n].tip)
    BY <1>1
  <2>1. /\ OnePerSeq(signed[n]) /\ ledger[n][n].tip \in signed[n] \cup {<<>>}
        /\ Covers(WritesIn(d.rows[n]), Len(snapshot(d.snap)[n]), ledger[n][n].tip)
    BY OwnHeld
  <2>2. Extends(logs[n].tip, ledger[n][n].tip)
    BY <2>1, BootOK
  <2>3. logs[n].tip \in signed[n] \cup {<<>>}
    BY <1>3, LogOK
  <2>4. logs[n].tip = ledger[n][n].tip
    BY <2>2, <2>3, OwnHeld
  <2>5. c \in 0..Len(certified) /\ d.snap = c
    BY SameHeld
  <2> QED BY <2>1, <2>4, <2>5
<1>5. /\ disk' = [disk EXCEPT ![n] = d] /\ c \in 0..Len(certified)
      /\ d = [rows |-> [w \in Node |-> d.rows[w]], snap |-> d.snap] /\ d.snap = c
  BY <1>1, SameHeld
<1>6. \A w \in Node : d.rows[w] \subseteq signed[w] \X Nat /\ IsFiniteSet(d.rows[w])
  BY SameHeld
<1>7. /\ certified' = certified /\ signed' = signed /\ cut' = cut
      /\ rooted' \subseteq Node /\ exposed' \subseteq Node /\ peers' \in [Node -> SUBSET Node]
  BY <1>1 DEF WriteInv, NodesOK
<1>8. pendingSnap' \in [Node -> 0..Len(certified)]
  <2>1. 0 \in 0..Len(certified)
    BY DEF WriteInv, CheckpointsOK
  <2> QED BY <1>1, <2>1 DEF WriteInv, CheckpointsOK
<1>9. NetOK'
  BY <1>1, AdvertisedOK
<1>10. /\ \A w \in Node : logs[w] \in Log(signed[w])
       /\ \A w \in Node : keep(n, w) /\ OnePerSeq(signed[w]) =>
            Covers(WritesIn(d.rows[w]), logs[w].base, logs[w].tip)
  BY <1>3
<1> HIDE DEF logs, c, d
<1> QED BY <1>1, <1>2, <1>4, <1>5, <1>6, <1>7, <1>8, <1>9, <1>10, HeldKeeps

(* A node left at block 0 drops what its disk had.                         *)
LEMMA DiscardKeeps ==
  ASSUME WriteInv, NEW n \in Node, Discard(n)
  PROVE  WriteInv'
<1> DEFINE logs == [w \in Node |-> EmptyLog]
           d == [rows |-> [w \in Node |-> {}], snap |-> 0]
<1>1. /\ ledger' = [ledger EXCEPT ![n] = logs] /\ disk' = [disk EXCEPT ![n] = d]
      /\ ckpt' = [ckpt EXCEPT ![n] = 0] /\ net' = net \cup advertised(n)
      /\ cut' = IF ledger[n][n].tip = <<>> THEN cut ELSE cut \cup {n}
      /\ UNCHANGED <<pendingSnap, rooted, posting, peers, certified, signed, exposed, lost, left>>
  BY DEF Discard
<1>2. \A w \in Node : logs[w] = EmptyLog /\ logs[w] \in Log(signed[w])
  BY EmptyLogOK
<1>3. logs = [w \in Node |-> logs[w]]
  OBVIOUS
<1> HIDE DEF logs
<1>4. d.snap = 0 /\ \A w \in Node : d.rows[w] = {}
  OBVIOUS
<1>5. HasRows(d)
  BY DEF HasRows
<1> HIDE DEF d
<1>6. \A A, b : b \in Nat => Covers(A, b, <<>>)
  BY EmptySeq DEF Covers
<1>7. \A w \in Node : logs[w].tip = <<>> /\ logs[w].base = 0
  BY <1>2 DEF EmptyLog
<1>8. \A w \in Node : keep(n, w) /\ OnePerSeq(signed[w]) =>
        Covers(WritesIn(d.rows[w]), logs[w].base, logs[w].tip)
  BY <1>6, <1>7
<1>9. n \in cut' \/ ( /\ logs[n].tip = ledger[n][n].tip /\ d.snap <= 0
                      /\ Covers(WritesIn(d.rows[n]), Len(snapshot(d.snap)[n]), logs[n].tip) )
  <2>1. Len(snapshot(d.snap)[n]) \in Nat
    BY <1>4, EmptySeq DEF snapshot, NoHeads
  <2>2. logs[n].tip = <<>>
    BY <1>7
  <2>3. Covers(WritesIn(d.rows[n]), Len(snapshot(d.snap)[n]), logs[n].tip)
    BY <1>6, <2>1, <2>2
  <2> QED BY <1>1, <1>4, <2>2, <2>3
<1>10. \A w \in Node : d.rows[w] \subseteq signed[w] \X Nat /\ IsFiniteSet(d.rows[w])
  BY <1>4, FS_EmptySet
<1>11. 0 \in 0..Len(certified) /\ d.snap \in 0..Len(certified)
  BY <1>4 DEF WriteInv, CheckpointsOK
<1>12. /\ certified' = certified /\ signed' = signed /\ posting' = posting
       /\ cut' = cut \/ cut' = cut \cup {n}
       /\ rooted' \subseteq Node /\ exposed' \subseteq Node /\ peers' \in [Node -> SUBSET Node]
       /\ pendingSnap' \in [Node -> 0..Len(certified)]
  BY <1>1 DEF WriteInv, NodesOK, CheckpointsOK
<1>13. NetOK'
  BY <1>1, AdvertisedOK
<1>14. d = [rows |-> [w \in Node |-> d.rows[w]], snap |-> d.snap]
  BY <1>5 DEF HasRows
<1>15. \A w \in Node : logs[w] \in Log(signed[w])
  BY <1>2
<1> QED BY <1>1, <1>3, <1>8, <1>9, <1>10, <1>11, <1>12, <1>13, <1>14, <1>15, HeldKeeps

-----------------------------------------------------------------------------
(* The steps by which more is certified or signed.                         *)

(* The heads of a node become a checkpoint.                                *)
LEMMA CertifyKeeps ==
  ASSUME WriteInv, NEW n \in Node, Certify(n)
  PROVE  WriteInv'
<1> DEFINE k == Len(certified)
           h == heads(n)
<1>1. /\ \A w \in Node : Len(snapshot(k)[w]) <= Len(h[w])
      /\ certified' = Append(certified, h)
      /\ UNCHANGED <<held, rooted, posting, peers, net, signed, history>>
  BY DEF Certify
<1>2. /\ ledger' = ledger /\ disk' = disk /\ ckpt' = ckpt /\ pendingSnap' = pendingSnap
      /\ signed' = signed /\ posting' = posting /\ cut' = cut /\ net' = net
      /\ rooted' = rooted /\ peers' = peers /\ exposed' = exposed
  BY <1>1 DEF held, history
<1>3. certified \in Seq([Node -> Seq(Nat)]) /\ k \in Nat
  BY DEF WriteInv, CheckpointsOK
<1>4. \A w \in Node : h[w] \in signed[w] \cup {<<>>} /\ h[w] \in Seq(Nat) /\ Len(h[w]) \in Nat
  <2> SUFFICES ASSUME NEW w \in Node
               PROVE  h[w] \in signed[w] \cup {<<>>} /\ h[w] \in Seq(Nat) /\ Len(h[w]) \in Nat
    OBVIOUS
  <2>1. Histories(signed[w]) /\ ledger[n][w] \in Log(signed[w])
    BY SameHeld
  <2>2. h[w] = ledger[n][w].tip
    BY DEF heads, HeadsOf
  <2> QED BY <2>1, <2>2, LogOK
<1>5. h = [w \in Node |-> h[w]]
  BY DEF heads, HeadsOf
<1> HIDE DEF h
<1>6. h \in [Node -> Seq(Nat)]
  BY <1>4, <1>5
<1>7. /\ certified' \in Seq([Node -> Seq(Nat)]) /\ Len(certified') = k + 1
      /\ certified'[k + 1] = h /\ \A i \in 1..k : certified'[i] = certified[i]
  BY <1>1, <1>3, <1>6
<1>8. \A i \in 1..Len(certified') : i \in 1..k \/ i = k + 1
  BY <1>3, <1>7
<1>9. \A i \in 0..k : snapshot(i)' = snapshot(i)
  BY <1>3, <1>7 DEF snapshot, NoHeads
<1>10. CheckpointsOK'
  <2>1. \A i \in 1..Len(certified'), w \in Node : certified'[i][w] \in signed'[w] \cup {<<>>}
    BY <1>2, <1>4, <1>7, <1>8 DEF WriteInv, CheckpointsOK
  <2>2. ASSUME NEW i \in 1..Len(certified'), NEW j \in 1..Len(certified'), NEW w \in Node, i <= j
        PROVE  Len(certified'[i][w]) <= Len(certified'[j][w])
    <3>1. CASE j \in 1..k
      <4>1. i \in 1..k
        BY <1>3, <1>8, <2>2, <3>1
      <4> QED BY <1>7, <2>2, <3>1, <4>1 DEF WriteInv, CheckpointsOK
    <3>2. CASE i = k + 1
      <4>1. j = k + 1
        BY <1>3, <1>8, <2>2, <3>2
      <4> QED BY <3>2, <4>1, <1>4, <1>7
    <3>3. CASE i \in 1..k /\ j = k + 1
      <4>1. i \in 0..k /\ k \in 0..k /\ i <= k /\ snapshot(i) = certified[i]
        BY <1>3, <3>3 DEF snapshot
      <4>2. Len(snapshot(i)[w]) <= Len(snapshot(k)[w])
        BY <4>1, SnapshotOK DEF WriteInv
      <4>3. Len(snapshot(i)[w]) \in Nat /\ Len(snapshot(k)[w]) \in Nat
        BY <4>1, SnapshotOK DEF WriteInv
      <4>4. Len(snapshot(k)[w]) <= Len(h[w]) /\ Len(h[w]) \in Nat
        BY <1>1, <1>4 DEF h
      <4>5. Len(certified[i][w]) <= Len(h[w])
        BY <4>1, <4>2, <4>3, <4>4
      <4> QED BY <4>5, <3>3, <1>7
    <3> QED BY <1>8, <3>1, <3>2, <3>3
  <2>3. ckpt' \in [Node -> 0..Len(certified')] /\ pendingSnap' \in [Node -> 0..Len(certified')]
    <3>1. 0..k \subseteq 0..Len(certified')
      BY <1>3, <1>7
    <3>2. ckpt \in [Node -> 0..k] /\ pendingSnap \in [Node -> 0..k]
      BY DEF WriteInv, CheckpointsOK
    <3> QED BY <1>2, <3>1, <3>2
  <2>4. \A i, j \in 1..Len(certified'), w \in Node :
          i <= j => Len(certified'[i][w]) <= Len(certified'[j][w])
    BY <2>2
  <2> QED BY <1>7, <2>1, <2>3, <2>4 DEF CheckpointsOK
<1>11. SignedOK' /\ LogsOK' /\ PostingOK' /\ NodesOK'
  BY <1>2 DEF WriteInv, SignedOK, LogsOK, PostingOK, NodesOK
<1>12. DiskOK'
  <2>1. \A m \in Node : disk[m].snap \in 0..Len(certified')
    BY <1>3, <1>7 DEF WriteInv, DiskOK
  <2> QED BY <1>2, <2>1 DEF WriteInv, DiskOK
<1>13. NetOK'
  <2>1. \A w \in Node : signed[w] \subseteq signed'[w]
    BY <1>2
  <2>2. Len(certified') \in Nat /\ Len(certified) <= Len(certified')
    BY <1>3, <1>7
  <2>3. \A msg \in net : MsgOK(msg, signed', certified')
    BY <2>1, <2>2, NetStays DEF WriteInv
  <2> QED BY <1>2, <2>3 DEF NetOK
<1>14. OwnOK'
  <2> SUFFICES ASSUME NEW m \in Node \ cut
               PROVE  Covers(WritesIn(disk[m].rows[m]), Len(snapshot(disk[m].snap)'[m]), ledger[m][m].tip)
    BY <1>2 DEF WriteInv, OwnOK
  <2>1. disk[m].snap \in 0..k
    BY DEF WriteInv, DiskOK
  <2>2. snapshot(disk[m].snap)' = snapshot(disk[m].snap)
    BY <1>2, <1>9, <2>1 DEF snapshot, NoHeads
  <2> QED BY <2>2 DEF WriteInv, OwnOK
<1>15. RowsOK'
  BY <1>2 DEF WriteInv, RowsOK, keep
<1> QED BY <1>10, <1>11, <1>12, <1>13, <1>14, <1>15 DEF WriteInv

(* A write is signed, applied, stored and sent.                            *)
LEMMA SubmitKeeps ==
  ASSUME WriteInv, NEW n \in Node, Submit(n)
  PROVE  WriteInv'
<1> DEFINE v == Head(posting[n])
           w == write(n, v)
           l == ledger[n][n]
           r == apply(l, w)
           k == r.log
           new == r.applied
           learned == {<<n, x>> : x \in new}
           e == disk[n]
           d == persist(e, n, learned)
           S == signed[n]
           T == S \cup {w}
<1>1. /\ posting[n] # <<>>
      /\ signed' = [signed EXCEPT ![n] = @ \cup {w}]
      /\ ledger' = [ledger EXCEPT ![n][n] = k]
      /\ disk' = [disk EXCEPT ![n] = d]
      /\ net' = net \cup IF learned = {} THEN {} ELSE send(peers[n], n, "writes", learned)
      /\ posting' = [posting EXCEPT ![n] = Tail(@)]
      /\ UNCHANGED <<ckpt, pendingSnap, rooted, peers, certified, exposed, cut, life, lost, left>>
  BY DEF Submit
<1>2. v \in S \cup {<<>>} /\ posting[n] = <<v>>
  BY <1>1 DEF WriteInv, PostingOK
<1>3. Histories(S) /\ l \in Log(S)
  BY SameHeld
<1>4. /\ v \in Seq(Nat) /\ Cardinality(S) + 1 \in Nat /\ w = Append(v, Cardinality(S) + 1)
  <2>1. Cardinality(S) \in Nat /\ S \subseteq Seq(Nat) /\ <<>> \in Seq(Nat)
    BY <1>3, HistoriesBounded, EmptySeq DEF Histories
  <2>2. w = Append(v, Cardinality(S) + 1)
    BY DEF write
  <2> HIDE DEF v, w, S
  <2>3. v \in Seq(Nat)
    BY <1>2, <2>1
  <2>4. Cardinality(S) + 1 \in Nat
    BY <2>1
  <2> QED BY <2>2, <2>3, <2>4
<1> HIDE DEF w, v
<1>5. w \in Seq(Nat) /\ w # <<>> /\ prev(w) = v /\ Histories(T)
  BY <1>2, <1>3, <1>4, AppendOK, HistoriesGrow
<1>6. l \in Log(T) /\ w \in T
  BY <1>3, LogGrows
<1>7. /\ k \in Log(T) /\ k.base = l.base /\ Extends(k.tip, l.tip)
      /\ new \subseteq l.pend \cup {w}
      /\ OnePerSeq(T) => Covers(new, Len(l.tip), k.tip)
  <2> HIDE DEF T, l
  <2> QED BY <1>5, <1>6, ApplyOK
<1>8. new \subseteq T
  BY <1>3, <1>7, LogOK
<1> HIDE DEF r, k, new
<1>9. \A p \in learned : p[1] = n /\ p[2] \in new
  OBVIOUS
<1>10. Of(n, learned) = new /\ \A x \in Node \ {n} : Of(x, learned) = {}
  <2>1. \A x \in new : <<n, x>> \in learned /\ <<n, x>>[1] = n /\ <<n, x>>[2] = x
    OBVIOUS
  <2> HIDE DEF learned
  <2>2. Of(n, learned) \subseteq new
    BY <1>9 DEF Of
  <2>3. new \subseteq Of(n, learned)
    BY <2>1 DEF Of
  <2>4. \A x \in Node \ {n} : Of(x, learned) = {}
    BY <1>9 DEF Of
  <2> QED BY <2>2, <2>3, <2>4
<1> HIDE DEF learned
<1>11. /\ signed'[n] = T /\ \A x \in Node \ {n} : signed'[x] = signed[x]
       /\ signed' = [x \in Node |-> signed'[x]]
  <2>1. signed = [x \in Node |-> signed[x]]
    BY DEF WriteInv, SignedOK
  <2> QED BY <1>1, <2>1
<1>12. \A x \in Node : signed[x] \subseteq signed'[x] /\ Histories(signed'[x])
  BY <1>5, <1>11 DEF WriteInv, SignedOK
<1>13. \A x \in Node : OnePerSeq(signed'[x]) => OnePerSeq(signed[x])
  BY <1>12 DEF OnePerSeq
<1> HIDE DEF T
<1>14. /\ ledger'[n][n] = k /\ ledger' = [m \in Node |-> [x \in Node |-> ledger'[m][x]]]
       /\ \A m, x \in Node : m # n \/ x # n => ledger'[m][x] = ledger[m][x]
  <2>1. ledger = [m \in Node |-> [x \in Node |-> ledger[m][x]]]
    BY DEF WriteInv, LogsOK
  <2> QED BY <1>1, <2>1
<1>15. /\ disk'[n] = d /\ \A m \in Node \ {n} : disk'[m] = disk[m]
       /\ disk' = [m \in Node |-> disk'[m]]
  <2>1. disk = [m \in Node |-> disk[m]]
    BY DEF WriteInv, DiskOK
  <2> QED BY <1>1, <2>1
<1>16. /\ HasRows(d) /\ d.snap = e.snap
       /\ \A x \in Node : /\ d.rows[x] \subseteq signed'[x] \X Nat /\ IsFiniteSet(d.rows[x])
                          /\ keep(n, x) => WritesIn(d.rows[x])
                                             = WritesIn(e.rows[x]) \cup Of(x, learned)
  <2>1. /\ \A x \in Node : IsFiniteSet(signed'[x])
        /\ \A x \in Node : Of(x, learned) \subseteq signed'[x]
    BY <1>8, <1>10, <1>11, <1>12 DEF Histories
  <2>2. HasRows(e)
    BY SameHeld DEF HasRows
  <2>3. \A x \in Node : e.rows[x] \subseteq signed'[x] \X Nat /\ IsFiniteSet(e.rows[x])
    <3>1. \A x \in Node : e.rows[x] \subseteq signed[x] \X Nat /\ IsFiniteSet(e.rows[x])
      BY SameHeld
    <3> HIDE DEF e
    <3> QED BY <1>12, <3>1
  <2> HIDE DEF e
  <2> QED BY <2>1, <2>2, <2>3, PersistOK
<1> HIDE DEF d
<1>17. SignedOK'
  BY <1>11, <1>12 DEF SignedOK
<1>18. LogsOK'
  <2>1. ASSUME NEW m \in Node, NEW x \in Node, m # n \/ x # n
        PROVE  ledger'[m][x] \in Log(signed'[x])
    <3>1. ledger[m][x] \in Log(signed[x])
      BY DEF WriteInv, LogsOK
    <3> QED BY <2>1, <3>1, <1>12, <1>14, LogGrows
  <2>2. ledger'[n][n] \in Log(signed'[n])
    BY <1>7, <1>11, <1>14
  <2> QED BY <1>14, <2>1, <2>2 DEF LogsOK
<1>19. \A m, x \in Node : /\ disk'[m].rows[x] \subseteq signed'[x] \X Nat
                          /\ IsFiniteSet(disk'[m].rows[x])
  <2>1. ASSUME NEW m \in Node \ {n}, NEW x \in Node
        PROVE  disk'[m].rows[x] \subseteq signed'[x] \X Nat /\ IsFiniteSet(disk'[m].rows[x])
    BY <1>12, <1>15 DEF WriteInv, DiskOK
  <2> QED BY <1>15, <1>16, <2>1
<1>20. DiskOK'
  <2> DEFINE whole(m) ==
        disk'[m] = [rows |-> [x \in Node |-> disk'[m].rows[x]], snap |-> disk'[m].snap]
  <2>1. ASSUME NEW m \in Node PROVE whole(m)
    <3>1. HasRows(disk[m])
      BY DEF WriteInv, DiskOK, HasRows
    <3>2. HasRows(disk'[m])
      BY <1>15, <1>16, <3>1
    <3> QED BY <3>2 DEF HasRows
  <2>2. disk' = [m \in Node |-> [rows |-> [x \in Node |-> disk'[m].rows[x]], snap |-> disk'[m].snap]]
    BY <1>15, <2>1
  <2> HIDE DEF whole
  <2>3. \A m \in Node : disk'[m].snap \in 0..Len(certified')
    BY <1>1, <1>15, <1>16 DEF WriteInv, DiskOK, e
  <2> QED BY <1>19, <2>2, <2>3 DEF DiskOK
<1>21. CheckpointsOK'
  <2>1. \A i \in 1..Len(certified), x \in Node : certified[i][x] \in signed'[x] \cup {<<>>}
    BY <1>12 DEF WriteInv, CheckpointsOK
  <2> QED BY <1>1, <2>1 DEF WriteInv, CheckpointsOK
<1>22. NetOK'
  <2>1. Len(certified') \in Nat /\ Len(certified) <= Len(certified')
    BY <1>1 DEF WriteInv, CheckpointsOK
  <2>2. \A msg \in net : MsgOK(msg, signed', certified')
    BY <1>12, <2>1, NetStays DEF WriteInv
  <2>3. \A p \in learned : p[1] \in Node /\ p[2] \in signed'[p[1]]
    BY <1>8, <1>9, <1>11
  <2>4. peers[n] \subseteq Node
    BY DEF WriteInv, NodesOK
  <2>5. \A msg \in send(peers[n], n, "writes", learned) : MsgOK(msg, signed', certified')
    BY <2>3, <2>4, SendOK
  <2>6. \A msg \in net' : MsgOK(msg, signed', certified')
    BY <1>1, <2>2, <2>5
  <2> QED BY <2>6 DEF NetOK
<1>23. NodesOK'
  BY <1>1 DEF WriteInv, NodesOK
<1>24. /\ posting' = [m \in Node |-> posting'[m]] /\ posting'[n] = <<>>
       /\ \A m \in Node \ {n} : posting'[m] = posting[m]
  <2>1. posting = [m \in Node |-> posting[m]]
    BY DEF WriteInv, PostingOK
  <2>2. Tail(<<v>>) = <<>>
    OBVIOUS
  <2> QED BY <1>1, <1>2, <2>1, <2>2
<1>25. PostingOK'
  <2>1. \A m \in Node \ {n} :
          posting'[m] = <<>> \/ \E x \in signed'[m] \cup {<<>>} : posting'[m] = <<x>>
    BY <1>11, <1>24 DEF WriteInv, PostingOK
  <2> QED BY <1>24, <2>1 DEF PostingOK
<1>26. ASSUME OnePerSeq(T), NEW b \in Nat, Covers(WritesIn(e.rows[n]), b, l.tip)
       PROVE  Covers(WritesIn(d.rows[n]), b, k.tip)
  <2>1. l.tip \in Seq(Nat) /\ k.tip \in Seq(Nat)
    BY <1>3, <1>5, <1>7, LogOK
  <2>2. Covers(WritesIn(e.rows[n]) \cup new, b, k.tip)
    BY <1>7, <1>26, <2>1, CoversMore
  <2>3. WritesIn(d.rows[n]) = WritesIn(e.rows[n]) \cup new
    BY <1>10, <1>16 DEF keep
  <2> QED BY <2>2, <2>3
<1>27. ASSUME n \notin cut
       PROVE  /\ k.tip = w /\ OnePerSeq(T) /\ \A x \in T : Extends(w, x)
              /\ e.snap <= ckpt[n]
              /\ Covers(WritesIn(e.rows[n]), Len(snapshot(e.snap)[n]), l.tip)
  <2>1. /\ \A x \in S : Extends(l.tip, x)
        /\ posting[n] = <<l.tip>> /\ e.snap <= ckpt[n]
        /\ Covers(WritesIn(e.rows[n]), Len(snapshot(e.snap)[n]), l.tip)
    BY <1>1, <1>27 DEF WriteInv, OwnOK
  <2>2. v = l.tip
    BY <1>2, <2>1
  <2>3. \A p \in l.pend : Len(p) <= Len(l.tip)
    BY <1>3, <2>1, LogOK DEF Extends
  <2>4. k = [base |-> l.base, tip |-> w, pend |-> l.pend]
    <3> HIDE DEF l, S
    <3> QED BY <1>3, <1>5, <2>2, <2>3, ApplyNext DEF k, r
  <2>5. k.tip = w
    BY <2>4
  <2>6. S \subseteq Seq(Nat) /\ l.tip \in Seq(Nat) /\ Extends(w, l.tip)
    BY <1>3, <1>5, <2>2, LogOK, PrevOK DEF Histories
  <2>7. \A x \in T : Extends(w, x)
    BY <1>5, <2>1, <2>6, ExtendsOrders DEF T
  <2>8. OnePerSeq(T)
    BY <1>5, <1>6, <2>7, OwnTip
  <2> QED BY <2>1, <2>5, <2>7, <2>8
<1>28. OwnOK'
  <2> SUFFICES ASSUME NEW m \in Node \ cut
               PROVE  /\ \A x \in signed'[m] : Extends(ledger'[m][m].tip, x)
                      /\ posting'[m] = <<>> \/ posting'[m] = <<ledger'[m][m].tip>>
                      /\ disk'[m].snap <= ckpt[m]
                      /\ Covers(WritesIn(disk'[m].rows[m]), Len(snapshot(disk'[m].snap)[m]),
                                ledger'[m][m].tip)
    BY <1>1 DEF OwnOK, snapshot
  <2>1. CASE m # n
    BY <2>1, <1>11, <1>14, <1>15, <1>24 DEF WriteInv, OwnOK
  <2>2. CASE m = n
    <3>1. n \notin cut
      BY <2>2
    <3>2. Len(snapshot(e.snap)[n]) \in Nat
      BY SameHeld, SnapshotOK DEF WriteInv
    <3>3. Covers(WritesIn(d.rows[n]), Len(snapshot(e.snap)[n]), k.tip)
      BY <1>26, <1>27, <3>1, <3>2
    <3> QED BY <2>2, <3>1, <3>3, <1>11, <1>14, <1>15, <1>16, <1>24, <1>27
  <2> QED BY <2>1, <2>2
<1>29. RowsOK'
  <2> SUFFICES ASSUME NEW m \in Node, NEW x \in Node, keep(m, x), OnePerSeq(signed'[x])
               PROVE  Covers(WritesIn(disk'[m].rows[x]), ledger'[m][x].base, ledger'[m][x].tip)
    BY DEF RowsOK, keep
  <2>1. Covers(WritesIn(disk[m].rows[x]), ledger[m][x].base, ledger[m][x].tip)
    BY <1>13 DEF WriteInv, RowsOK
  <2>2. CASE m # n
    BY <2>1, <2>2, <1>14, <1>15
  <2>3. CASE m = n /\ x # n
    <3>1. WritesIn(disk'[m].rows[x]) = WritesIn(disk[m].rows[x])
      BY <2>3, <1>10, <1>15, <1>16 DEF e
    <3> QED BY <2>1, <2>3, <3>1, <1>14
  <2>4. CASE m = n /\ x = n
    <3>1. Covers(WritesIn(e.rows[n]), l.base, l.tip) /\ OnePerSeq(T)
      BY <2>1, <2>4, <1>11
    <3>2. l.base \in Nat
      BY <1>3, LogOK
    <3>3. Covers(WritesIn(d.rows[n]), l.base, k.tip)
      BY <3>1, <3>2, <1>26
    <3> QED BY <2>4, <3>3, <1>7, <1>14, <1>15
  <2> QED BY <2>2, <2>3, <2>4
<1> QED BY <1>17, <1>18, <1>20, <1>21, <1>22, <1>23, <1>25, <1>28, <1>29 DEF WriteInv

-----------------------------------------------------------------------------
(* The theorems.                                                           *)

(* A message is heard.                                                     *)
LEMMA HearKeeps ==
  ASSUME WriteInv, NEW n \in Node, Hear(n)
  PROVE  WriteInv'
<1>1. PICK msg \in net :
        /\ msg[1] = n
        /\ \/ msg[3] = "hello" /\ HearHello(n, msg[2], msg[4])
           \/ msg[3] = "want" /\ HearWant(n, msg[2], msg[4])
           \/ msg[3] = "writes" /\ HearWrites(n, msg[2], msg[4])
           \/ msg[3] = "offer" /\ HearOffer(n, msg[2], msg[4][1], msg[4][2])
           \/ msg[3] = "snapshot-want" /\ HearSnapshotWant(n, msg[2])
           \/ msg[3] = "snapshot" /\ HearSnapshot(n, msg[2], msg[4])
  BY DEF Hear
<1>2. MsgOK(msg, signed, certified)
  BY DEF WriteInv, NetOK
<1>3. msg[2] \in Node
  BY <1>2 DEF MsgOK
<1>4. CASE msg[3] = "hello" /\ HearHello(n, msg[2], msg[4])
  BY <1>3, <1>4, HelloKeeps
<1>5. CASE msg[3] = "want" /\ HearWant(n, msg[2], msg[4])
  <2>1. \A p \in msg[4] : p[1] \in Node
    BY <1>2, <1>5 DEF MsgOK
  <2> QED BY <1>3, <1>5, <2>1, WantKeeps
<1>6. CASE msg[3] = "writes" /\ HearWrites(n, msg[2], msg[4])
  <2>1. \A p \in msg[4] : p[1] \in Node /\ p[2] \in signed[p[1]]
    BY <1>2, <1>6 DEF MsgOK
  <2> QED BY <1>3, <1>6, <2>1, WritesKeep
<1>7. CASE msg[3] = "offer" /\ HearOffer(n, msg[2], msg[4][1], msg[4][2])
  BY <1>3, <1>7, OfferKeeps
<1>8. CASE msg[3] = "snapshot-want" /\ HearSnapshotWant(n, msg[2])
  BY <1>3, <1>8, SnapshotWantKeeps
<1>9. CASE msg[3] = "snapshot" /\ HearSnapshot(n, msg[2], msg[4])
  <2>1. msg[4] \in 1..Len(certified)
    BY <1>2, <1>9 DEF MsgOK
  <2> QED BY <1>3, <1>9, <2>1, SnapshotKeeps
<1> QED BY <1>1, <1>4, <1>5, <1>6, <1>7, <1>8, <1>9

(* Every step keeps the invariant.                                         *)
LEMMA NextKeeps ==
  ASSUME WriteInv, [Next]_vars
  PROVE  WriteInv'
<1>1. ASSUME NEW n \in Node, StartPost(n) PROVE WriteInv'
  BY <1>1, StartPostKeeps
<1>2. ASSUME NEW n \in Node, Submit(n) PROVE WriteInv'
  BY <1>2, SubmitKeeps
<1>3. ASSUME NEW n \in Node, Hear(n) PROVE WriteInv'
  BY <1>3, HearKeeps
<1>4. ASSUME NEW n \in Node, Certify(n) PROVE WriteInv'
  BY <1>4, CertifyKeeps
<1>5. ASSUME NEW n \in Node, Root(n) PROVE WriteInv'
  BY <1>5, RootKeeps
<1>6. ASSUME NEW n \in Node, Crash(n) PROVE WriteInv'
  BY <1>6, CrashKeeps
<1>7. ASSUME NEW n \in Node, Discard(n) PROVE WriteInv'
  BY <1>7, DiscardKeeps
<1>8. ASSUME NEW n \in Node, NEW m \in Node, Connect(n, m) PROVE WriteInv'
  BY <1>8, ConnectKeeps
<1>9. ASSUME NEW n \in Node, NEW w \in Node, Decay(n, w) PROVE WriteInv'
  BY <1>9, DecayKeeps
<1>10. ASSUME NEW n \in Node, NEW i \in DOMAIN certified, Checkpoint(n, i) PROVE WriteInv'
  BY <1>10, CheckpointKeeps
<1>11. ASSUME NEW msg \in net, Lose(msg) PROVE WriteInv'
  BY <1>11, LoseKeeps
<1>12. CASE UNCHANGED vars
  <2>1. UNCHANGED <<held, rooted, posting, certified, signed, exposed, cut>> /\ net' = net /\ peers' = peers
    BY <1>12 DEF vars, held
  <2>2. NetOK' /\ peers' \in [Node -> SUBSET Node]
    BY <2>1 DEF WriteInv, NetOK, NodesOK
  <2> QED BY <2>1, <2>2, NetKeeps
<1> QED BY <1>1, <1>2, <1>3, <1>4, <1>5, <1>6, <1>7, <1>8, <1>9, <1>10, <1>11, <1>12 DEF Next

(* The invariant holds throughout, for any nodes, archivers and settings:  *)
(* writes held, stored and sent were signed, checkpoints only grow, and    *)
(* disks have what the logs have above their base.                         *)
THEOREM WriteSafe == Spec => []WriteInv
<1>1. Init => WriteInv
  BY InitKeeps
<1>2. WriteInv /\ [Next]_vars => WriteInv'
  BY NextKeeps
<1> QED BY <1>1, <1>2, PTL DEF Spec

(* Logs hold only what their writers have signed, and waiting writes of    *)
(* one seq are one (ledger.ts).                                            *)
THEOREM TypeCorrect == Spec => []TypeOK
<1>1. WriteInv => TypeOK
  <2> SUFFICES ASSUME WriteInv PROVE TypeOK
    OBVIOUS
  <2>1. \A n, w \in Node : ledger[n][w] \in Log(signed[w])
    BY DEF WriteInv, LogsOK
  <2>2. \A n \in Node : disk[n].snap <= Len(certified) /\ ckpt[n] <= Len(certified)
    <3>1. Len(certified) \in Nat /\ \A n \in Node : disk[n].snap \in 0..Len(certified)
                                                   /\ ckpt[n] \in 0..Len(certified)
      BY DEF WriteInv, DiskOK, CheckpointsOK
    <3> QED BY <3>1
  <2>3. ASSUME NEW n \in Node PROVE Len(posting[n]) <= 1
    <3>1. posting[n] = <<>> \/ \E v \in signed[n] \cup {<<>>} : posting[n] = <<v>>
      BY DEF WriteInv, PostingOK
    <3>2. CASE posting[n] = <<>>
      BY <3>2
    <3>3. ASSUME NEW v, posting[n] = <<v>> PROVE Len(posting[n]) <= 1
      BY <3>3
    <3> QED BY <3>1, <3>2, <3>3
  <2> QED BY <2>1, <2>2, <2>3 DEF TypeOK, WriteInv, NodesOK
<1> QED BY <1>1, WriteSafe, PTL

(* A writer that has dropped none of its writes signs one per seq, whatever*)
(* crashes there were (account.ts, daemon.ts).                             *)
THEOREM SlotsSignedOnce == Spec => []SlotSignedOnce
<1>1. WriteInv => SlotSignedOnce
  BY OwnHeld DEF SlotSignedOnce
<1> QED BY <1>1, WriteSafe, PTL

(* At whatever moment a node crashes, it finds all it keeps of an honest   *)
(* writer on its disk again (store.ts, daemon.ts).                         *)
THEOREM CrashNeverLoses == Spec => []CrashLosesNothing
<1>1. WriteInv => CrashLosesNothing
  <2> SUFFICES ASSUME WriteInv, NEW n \in Node, NEW w \in Node, keep(n, w), OnePerSeq(signed[w]),
                      ledger[n][w].base <= Len(snapshot(disk[n].snap)[w])
               PROVE  Extends(boot(disk[n])[w].tip, ledger[n][w].tip)
    BY DEF CrashLosesNothing
  <2> DEFINE b == ledger[n][w].base
             t == ledger[n][w].tip
             k == Len(snapshot(disk[n].snap)[w])
  <2>1. b \in Nat /\ Len(t) \in Nat /\ t \in signed[w] \cup {<<>>}
    BY SameHeld, LogOK
  <2>2. k \in Nat /\ b <= k
    BY BootOK
  <2>3. Covers(WritesIn(disk[n].rows[w]), b, t)
    BY DEF WriteInv, RowsOK
  <2> HIDE DEF b, t, k
  <2>4. \A i \in (k + 1)..Len(t) : i \in (b + 1)..Len(t)
    BY <2>1, <2>2
  <2>5. Covers(WritesIn(disk[n].rows[w]), k, t)
    BY <2>3, <2>4 DEF Covers
  <2> QED BY <2>1, <2>5, BootOK DEF t, k
<1> QED BY <1>1, WriteSafe, PTL

-----------------------------------------------------------------------------
(* The nodes implement Replicas.                                           *)

(* Nothing is signed, and no node holds another tip.                       *)
LEMMA StandsStill ==
  ASSUME LogsOK, LogsOK', UNCHANGED <<signed, life>>,
         \A m, w \in Node : ledger'[m][w].tip = ledger[m][w].tip
  PROVE  UNCHANGED Abstract!vars
<1>1. [m \in Node |-> heads(m)]' = [m \in Node |-> heads(m)]
  BY DEF heads, HeadsOf
<1> QED BY <1>1 DEF Abstract!vars

(* One node learns more, and at most one write is signed.                  *)
LEMMA Learns ==
  ASSUME WriteInv, WriteInv', NEW n \in Node, Abstract!MaySign, life' = life,
         \A m \in Node \ {n} : ledger'[m] = ledger[m],
         \A w \in Node : Extends(ledger'[n][w].tip, ledger[n][w].tip)
  PROVE  Abstract!Next
<1> DEFINE H == [m \in Node |-> heads(m)]
<1>1. \A m \in Node \ {n} : H'[m] = H[m]
  BY DEF heads, HeadsOf
<1>2. \A w \in Node : H[n][w] = ledger[n][w].tip /\ H'[n][w] = ledger'[n][w].tip
  BY DEF heads, HeadsOf
<1>3. \A w \in Node : Histories(signed'[w]) /\ ledger'[n][w] \in Log(signed'[w])
  BY DEF WriteInv, SignedOK, LogsOK
<1>4. \A w \in Node : ledger'[n][w].tip \in signed'[w] \cup {<<>>}
  BY <1>3, LogOK
<1>5. \A w \in Node : H'[n][w] \in signed'[w] \cup {<<>>} /\ Abstract!IsPrefixOf(H[n][w], H'[n][w])
  BY <1>2, <1>4 DEF Abstract!IsPrefixOf, Extends, upTo
<1>6. Abstract!Learn(n)
  BY <1>1, <1>5 DEF Abstract!Learn
<1> QED BY <1>6 DEF Abstract!Next

(* One node begins anew.                                                   *)
LEMMA BeginsAnew ==
  ASSUME WriteInv', NEW n \in Node, life' = [life EXCEPT ![n] = @ + 1], signed' = signed,
         \A m \in Node \ {n} : ledger'[m] = ledger[m]
  PROVE  Abstract!Next
<1> DEFINE H == [m \in Node |-> heads(m)]
<1>1. \A m \in Node \ {n} : H'[m] = H[m]
  BY DEF heads, HeadsOf
<1>2. \A w \in Node : H'[n][w] = ledger'[n][w].tip
  BY DEF heads, HeadsOf
<1>3. \A w \in Node : Histories(signed'[w]) /\ ledger'[n][w] \in Log(signed'[w])
  BY DEF WriteInv, SignedOK, LogsOK
<1>4. \A w \in Node : H'[n][w] \in signed[w] \cup {<<>>}
  BY <1>2, <1>3, LogOK
<1>5. Abstract!Anew(n)
  BY <1>1, <1>4 DEF Abstract!Anew
<1> QED BY <1>5 DEF Abstract!Next

(* Each step of the nodes is one of Replicas, or none.                     *)
LEMMA StepIsAbstract ==
  ASSUME WriteInv, WriteInv', [Next]_vars
  PROVE  Abstract!Next \/ UNCHANGED Abstract!vars
<1>1. /\ LogsOK /\ LogsOK'
      /\ ledger = [m \in Node |-> ledger[m]]
      /\ \A m, w \in Node : Histories(signed[w]) /\ ledger[m][w] \in Log(signed[w])
  BY DEF WriteInv, LogsOK, SignedOK
<1>2. ASSUME UNCHANGED <<signed, life, ledger>> PROVE UNCHANGED Abstract!vars
  BY <1>1, <1>2, StandsStill
<1>3. ASSUME NEW n \in Node, StartPost(n) PROVE UNCHANGED Abstract!vars
  BY <1>2, <1>3 DEF StartPost, held, history
<1>4. ASSUME NEW n \in Node, Submit(n) PROVE Abstract!Next
  <2> DEFINE v == Head(posting[n])
             w == write(n, v)
             l == ledger[n][n]
             S == signed[n]
             T == S \cup {w}
  <2>1. /\ posting[n] # <<>> /\ signed' = [signed EXCEPT ![n] = T] /\ life' = life
        /\ ledger' = [ledger EXCEPT ![n][n] = apply(l, w).log]
    BY <1>4 DEF Submit
  <2>2. Histories(S) /\ l \in Log(S) /\ v \in S \cup {<<>>}
    <3>1. posting[n] = <<>> \/ \E u \in S \cup {<<>>} : posting[n] = <<u>>
      BY DEF WriteInv, PostingOK
    <3>2. v \in S \cup {<<>>}
      BY <2>1, <3>1
    <3> QED BY <1>1, <3>2
  <2>3. Cardinality(S) \in Nat /\ S \cup {<<>>} \subseteq Seq(Nat)
    BY <2>2, HistoriesBounded, EmptySeq DEF Histories
  <2>4. w = Append(v, Cardinality(S) + 1)
    BY DEF write
  <2> HIDE DEF v, w
  <2>5. Histories(T) /\ w # <<>> /\ prev(w) = v
    <3>1. v \in Seq(Nat) /\ Cardinality(S) + 1 \in Nat
      BY <2>2, <2>3
    <3> QED BY <2>2, <2>4, <3>1, HistoriesGrow, AppendOK
  <2>6. Extends(apply(l, w).log.tip, l.tip)
    <3>1. l \in Log(T) /\ w \in T
      BY <2>2, LogGrows
    <3> HIDE DEF l, T
    <3> QED BY <2>5, <3>1, ApplyOK
  <2>7. \A m \in Node \ {n} : ledger'[m] = ledger[m]
    BY <2>1
  <2>8. \A x \in Node : Extends(ledger'[n][x].tip, ledger[n][x].tip)
    <3>1. ledger[n] = [x \in Node |-> ledger[n][x]]
      BY SameHeld
    <3>2. \A x \in Node : ledger[n][x].tip \in Seq(Nat)
      BY <1>1, LogOK
    <3>3. ledger'[n][n] = apply(l, w).log /\ \A x \in Node \ {n} : ledger'[n][x] = ledger[n][x]
      BY <1>1, <2>1, <3>1
    <3> QED BY <2>6, <3>2, <3>3, ExtendsOrders
  <2>9. Abstract!MaySign
    <3>1. CASE w \in S
      <4>1. T = S
        BY <3>1
      <4>2. signed = [x \in Node |-> signed[x]]
        BY DEF WriteInv, SignedOK
      <4>3. signed' = signed
        BY <2>1, <4>1, <4>2
      <4> QED BY <4>3 DEF Abstract!MaySign
    <3>2. CASE w \notin S
      <4>1. signed'[n] = T
        <5>1. signed = [x \in Node |-> signed[x]]
          BY DEF WriteInv, SignedOK
        <5> QED BY <2>1, <5>1
      <4>2. w \in signed'[n] \ signed[n]
        BY <3>2, <4>1
      <4>3. SubSeq(w, 1, Len(w) - 1) \in signed[n] \cup {<<>>}
        BY <2>2, <2>5 DEF prev, upTo
      <4>4. signed' = [signed EXCEPT ![n] = @ \cup {w}]
        BY <2>1
      <4> HIDE DEF S, T
      <4> QED BY <2>5, <4>2, <4>3, <4>4 DEF Abstract!MaySign
    <3> QED BY <3>1, <3>2
  <2> QED BY <2>1, <2>7, <2>8, <2>9, Learns
<1>5. Abstract!MaySign \/ signed' # signed
  BY DEF Abstract!MaySign
<1>6. ASSUME NEW n \in Node, NEW i \in Nat, Seed(n, i), signed' = signed PROVE Abstract!Next
  <2>1. life' = [life EXCEPT ![n] = @ + 1] /\ \A m \in Node \ {n} : ledger'[m] = ledger[m]
    BY <1>1, <1>6 DEF Seed
  <2> QED BY <1>6, <2>1, BeginsAnew
<1>7. ASSUME NEW n \in Node, NEW m \in Node, NEW writes, HearWrites(n, m, writes),
             \A p \in writes : p[1] \in Node /\ p[2] \in signed[p[1]]
      PROVE  Abstract!Next
  <2> DEFINE came(w) == {p[2] : p \in {q \in writes : q[1] = w}}
             r == [w \in Node |-> applyAll(ledger[n][w], came(w))]
             logs == [w \in Node |-> r[w].log]
  <2>1. ledger' = [ledger EXCEPT ![n] = logs] /\ signed' = signed /\ life' = life
    BY <1>7 DEF HearWrites
  <2>2. \A w \in Node : came(w) \subseteq signed[w]
    BY <1>7
  <2> HIDE DEF came
  <2>3. \A w \in Node : Applied(signed[w], ledger[n][w], r[w])
    BY <1>1, <2>2, ApplyAllOK
  <2> HIDE DEF r
  <2>4. \A w \in Node : Extends(logs[w].tip, ledger[n][w].tip)
    BY <2>3 DEF Applied
  <2> HIDE DEF logs
  <2>5. ledger'[n] = logs /\ \A x \in Node \ {n} : ledger'[x] = ledger[x]
    BY <1>1, <2>1
  <2> QED BY <1>5, <2>1, <2>4, <2>5, Learns
<1>8. ASSUME NEW n \in Node, NEW m \in Node, NEW i \in 1..Len(certified), HearSnapshot(n, m, i)
      PROVE  Abstract!Next \/ UNCHANGED Abstract!vars
  <2>1. signed' = signed
    BY <1>8 DEF HearSnapshot
  <2>2. CASE n \in rooted
    <3>1. Seed(n, i) /\ i \in Nat
      BY <1>8, <2>2 DEF HearSnapshot
    <3> QED BY <1>6, <2>1, <3>1
  <2>3. CASE n \notin rooted
    BY <1>2, <1>8, <2>1, <2>3 DEF HearSnapshot
  <2> QED BY <2>2, <2>3
<1>9. ASSUME NEW n \in Node, Hear(n) PROVE Abstract!Next \/ UNCHANGED Abstract!vars
  <2>1. PICK msg \in net :
          \/ msg[3] = "hello" /\ HearHello(n, msg[2], msg[4])
          \/ msg[3] = "want" /\ HearWant(n, msg[2], msg[4])
          \/ msg[3] = "writes" /\ HearWrites(n, msg[2], msg[4])
          \/ msg[3] = "offer" /\ HearOffer(n, msg[2], msg[4][1], msg[4][2])
          \/ msg[3] = "snapshot-want" /\ HearSnapshotWant(n, msg[2])
          \/ msg[3] = "snapshot" /\ HearSnapshot(n, msg[2], msg[4])
    BY <1>9 DEF Hear
  <2>2. MsgOK(msg, signed, certified)
    BY DEF WriteInv, NetOK
  <2>3. msg[2] \in Node
    BY <2>2 DEF MsgOK
  <2>4. CASE HearHello(n, msg[2], msg[4])
    BY <1>2, <2>4 DEF HearHello, held, history
  <2>5. CASE HearWant(n, msg[2], msg[4])
    BY <1>2, <2>5 DEF HearWant, held, history
  <2>6. CASE HearOffer(n, msg[2], msg[4][1], msg[4][2])
    BY <1>2, <2>6 DEF HearOffer, held, history
  <2>7. CASE HearSnapshotWant(n, msg[2])
    BY <1>2, <2>7 DEF HearSnapshotWant, held, history
  <2>8. CASE msg[3] = "writes" /\ HearWrites(n, msg[2], msg[4])
    <3>1. \A p \in msg[4] : p[1] \in Node /\ p[2] \in signed[p[1]]
      BY <2>2, <2>8 DEF MsgOK
    <3> QED BY <1>7, <2>3, <2>8, <3>1
  <2>9. CASE msg[3] = "snapshot" /\ HearSnapshot(n, msg[2], msg[4])
    <3>1. msg[4] \in 1..Len(certified)
      BY <2>2, <2>9 DEF MsgOK
    <3> QED BY <1>8, <2>3, <2>9, <3>1
  <2> QED BY <2>1, <2>4, <2>5, <2>6, <2>7, <2>8, <2>9
<1>10. ASSUME NEW n \in Node, Certify(n) PROVE UNCHANGED Abstract!vars
  BY <1>2, <1>10 DEF Certify, held, history
<1>11. ASSUME NEW n \in Node, Root(n) PROVE Abstract!Next \/ UNCHANGED Abstract!vars
  <2>1. signed' = signed
    BY <1>11 DEF Root
  <2>2. CASE pendingSnap[n] = 0
    BY <1>2, <1>11, <2>1, <2>2 DEF Root, held
  <2>3. CASE pendingSnap[n] # 0
    <3>1. Seed(n, pendingSnap[n])
      BY <1>11, <2>3 DEF Root
    <3>2. pendingSnap[n] \in 0..Len(certified)
      BY DEF WriteInv, CheckpointsOK
    <3>3. pendingSnap[n] \in Nat
      BY <3>2
    <3> QED BY <1>6, <2>1, <3>1, <3>3
  <2> QED BY <2>2, <2>3
<1>12. ASSUME NEW n \in Node, Crash(n) PROVE Abstract!Next
  <2>1. /\ life' = [life EXCEPT ![n] = @ + 1] /\ signed' = signed
        /\ \A m \in Node \ {n} : ledger'[m] = ledger[m]
    BY <1>1, <1>12 DEF Crash
  <2> QED BY <2>1, BeginsAnew
<1>13. ASSUME NEW n \in Node, Discard(n) PROVE Abstract!Next
  <2>1. /\ life' = [life EXCEPT ![n] = @ + 1] /\ signed' = signed
        /\ \A m \in Node \ {n} : ledger'[m] = ledger[m]
    BY <1>1, <1>13 DEF Discard
  <2> QED BY <2>1, BeginsAnew
<1>14. ASSUME NEW n \in Node, NEW m \in Node, Connect(n, m) PROVE UNCHANGED Abstract!vars
  BY <1>2, <1>14 DEF Connect, held, history
<1>15. ASSUME NEW n \in Node, NEW w \in Node, Decay(n, w) PROVE UNCHANGED Abstract!vars
  <2>1. /\ UNCHANGED <<signed, history>>
        /\ \E v \in ledger[n][w].pend : ledger' = [ledger EXCEPT ![n][w].pend = @ \ {v}]
    BY <1>15 DEF Decay
  <2>2. PICK v \in ledger[n][w].pend : ledger' = [ledger EXCEPT ![n][w].pend = @ \ {v}]
    BY <2>1
  <2> DEFINE k == [ledger[n][w] EXCEPT !.pend = @ \ {v}]
  <2>3. k.tip = ledger[n][w].tip
    <3>1. ledger[n][w] = [base |-> ledger[n][w].base, tip |-> ledger[n][w].tip, pend |-> ledger[n][w].pend]
      BY <1>1, LogOK
    <3> QED BY <3>1
  <2>4. ledger' = [ledger EXCEPT ![n][w] = k]
    BY <2>2
  <2> HIDE DEF k
  <2>5. ledger[n] = [x \in Node |-> ledger[n][x]]
    BY SameHeld
  <2>6. ledger'[n][w] = k /\ \A m, x \in Node : m # n \/ x # w => ledger'[m][x] = ledger[m][x]
    BY <1>1, <2>4, <2>5
  <2>7. \A m, x \in Node : ledger'[m][x].tip = ledger[m][x].tip
    BY <2>3, <2>6
  <2> QED BY <1>1, <2>1, <2>7, StandsStill DEF history
<1>16. ASSUME NEW n \in Node, NEW i \in DOMAIN certified, Checkpoint(n, i)
       PROVE  UNCHANGED Abstract!vars
  <2> DEFINE h == certified[i]
             logs == [w \in Node |-> pruneBelow(ledger[n][w], h[w])]
  <2>1. /\ UNCHANGED <<signed, history>> /\ haveAllWrites(n, i)
    BY <1>16 DEF Checkpoint
  <2>2. ledger' = [ledger EXCEPT ![n] = logs]
    BY <1>16 DEF Checkpoint
  <2>3. \A w \in Node : logs[w].tip = ledger[n][w].tip
    <3> SUFFICES ASSUME NEW w \in Node
                 PROVE  pruneBelow(ledger[n][w], h[w]).tip = ledger[n][w].tip
      OBVIOUS
    <3>1. h[w] \in signed[w] \cup {<<>>}
      <4>1. i \in 1..Len(certified)
        BY DEF WriteInv, CheckpointsOK
      <4> QED BY <4>1 DEF WriteInv, CheckpointsOK
    <3>2. CASE h[w] = <<>>
      <4>1. Extends(ledger[n][w].tip, <<>>)
        BY <1>1, LogOK, ExtendsOrders
      <4> HIDE DEF h
      <4> QED BY <1>1, <3>1, <3>2, <4>1, PruneOK
    <3>3. CASE h[w] # <<>>
      <4>1. idAt(ledger[n][w], seq(h[w])) = h[w] /\ h[w] \in signed[w]
        BY <2>1, <3>1, <3>3 DEF haveAllWrites
      <4> HIDE DEF h
      <4>2. Extends(ledger[n][w].tip, h[w])
        BY <1>1, <4>1, IdAtOK
      <4> QED BY <1>1, <3>1, <4>2, PruneOK
    <3> QED BY <3>2, <3>3
  <2> HIDE DEF logs
  <2>4. ledger'[n] = logs /\ \A m \in Node \ {n} : ledger'[m] = ledger[m]
    BY <1>1, <2>2
  <2>5. \A m, x \in Node : ledger'[m][x].tip = ledger[m][x].tip
    BY <2>3, <2>4
  <2> QED BY <1>1, <2>1, <2>5, StandsStill DEF history
<1>17. ASSUME NEW msg \in net, Lose(msg) PROVE UNCHANGED Abstract!vars
  BY <1>2, <1>17 DEF Lose, held
<1>18. CASE UNCHANGED vars
  BY <1>2, <1>18 DEF vars
<1> QED BY <1>3, <1>4, <1>9, <1>10, <1>11, <1>12, <1>13, <1>14, <1>15, <1>16, <1>17, <1>18
        DEF Next

(* Whatever is lost, repeated or reordered, and however often nodes crash  *)
(* or take over checkpoints, they do what Replicas promises (ledger.ts,    *)
(* node.ts): they hold whole histories of what was signed, and leave the   *)
(* branch they are on only when they begin anew.                           *)
THEOREM ImplementsReplicas == Spec => Replicated
<1>1. Init => Abstract!Init
  <2> SUFFICES ASSUME Init PROVE Abstract!Init
    OBVIOUS
  <2>1. [n \in Node |-> heads(n)] = [n \in Node |-> [w \in Node |-> <<>>]]
    BY DEF Init, heads, HeadsOf, EmptyLog
  <2>2. signed = [w \in Node |-> {}] /\ life = [n \in Node |-> 0]
    BY DEF Init
  <2> QED BY <2>1, <2>2 DEF Abstract!Init
<1>2. WriteInv /\ WriteInv' /\ [Next]_vars => [Abstract!Next]_(Abstract!vars)
  BY StepIsAbstract
<1> QED BY <1>1, <1>2, WriteSafe, PTL DEF Spec, Replicated, Abstract!Spec

=============================================================================
