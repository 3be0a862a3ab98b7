------------------------- MODULE OrderBoard_proofs --------------------------
(***************************************************************************)
(* Theorems of the order board, for every set of ids, parties, keys and    *)
(* hashes, every offer shape and every choice of the windows.              *)
(***************************************************************************)
EXTENDS OrderBoard, FiniteSetTheorems, FunctionTheorems, TLAPS

-----------------------------------------------------------------------------
(* Sums of fills.                                                          *)

(* The units of finitely many matches are finitely many.                   *)
LEMMA UnitsFinite ==
  ASSUME NEW v, NEW S, IsFiniteSet(S),
         \A m \in S : v.matches[m].makerAmount \in Nat
  PROVE  IsFiniteSet(UnitsOf(v, S)) /\ FillOf(v, S) \in Nat
<1> DEFINE U == {{m} \X (1..v.matches[m].makerAmount) : m \in S}
           f == [m \in S |-> {m} \X (1..v.matches[m].makerAmount)]
<1>1. f \in Surjection(S, U)
  BY DEF Surjection
<1>2. IsFiniteSet(U)
  BY <1>1, FS_Surjection
<1>3. \A T \in U : IsFiniteSet(T)
  <2> SUFFICES ASSUME NEW m \in S
               PROVE  IsFiniteSet({m} \X (1..v.matches[m].makerAmount))
    OBVIOUS
  <2>1. IsFiniteSet(1..v.matches[m].makerAmount)
    BY FS_Interval
  <2>2. IsFiniteSet({m})
    BY FS_Singleton
  <2> QED BY <2>1, <2>2, FS_Product
<1>4. IsFiniteSet(UNION U)
  BY <1>2, <1>3, FS_UNION
<1> QED BY <1>4, FS_CardinalityType DEF UnitsOf, FillOf

(* The units of one match of fill n.                                       *)
LEMMA UnitsOfOne ==
  ASSUME NEW m, NEW n \in Nat
  PROVE  Cardinality({m} \X (1..n)) = n
<1>1. IsFiniteSet(1..n) /\ Cardinality(1..n) = IF 1 > n THEN 0 ELSE n-1+1
  BY FS_Interval
<1>2. Cardinality(1..n) = n
  BY <1>1
<1>3. IsFiniteSet({m}) /\ Cardinality({m}) = 1
  BY FS_Singleton
<1>4. Cardinality({m} \X (1..n)) = Cardinality({m}) * Cardinality(1..n)
  BY <1>1, <1>3, FS_Product
<1>5. 1 * n = n
  OBVIOUS
<1> QED BY <1>2, <1>3, <1>4, <1>5

(* The fill of one match, and of none.                                     *)
LEMMA FillOfOne ==
  ASSUME NEW v, NEW m, v.matches[m].makerAmount \in Nat
  PROVE  FillOf(v, {m}) = v.matches[m].makerAmount /\ FillOf(v, {}) = 0
<1>1. UnitsOf(v, {m}) = {m} \X (1..v.matches[m].makerAmount)
  BY DEF UnitsOf
<1>2. UnitsOf(v, {}) = {}
  BY DEF UnitsOf
<1>3. FillOf(v, {m}) = v.matches[m].makerAmount
  BY <1>1, UnitsOfOne DEF FillOf
<1>4. FillOf(v, {}) = 0
  BY <1>2, FS_EmptySet DEF FillOf
<1> QED BY <1>3, <1>4

(* Fills add up over disjoint sets of matches.                             *)
LEMMA FillOfUnion ==
  ASSUME NEW v, NEW S, NEW T, IsFiniteSet(S), IsFiniteSet(T), S \cap T = {},
         \A m \in S \cup T : v.matches[m].makerAmount \in Nat
  PROVE  FillOf(v, S \cup T) = FillOf(v, S) + FillOf(v, T)
<1>1. UnitsOf(v, S \cup T) = UnitsOf(v, S) \cup UnitsOf(v, T)
  BY DEF UnitsOf
<1>2. UnitsOf(v, S) \cap UnitsOf(v, T) = {}
  BY DEF UnitsOf
<1>3. /\ IsFiniteSet(UnitsOf(v, S)) /\ FillOf(v, S) \in Nat
      /\ IsFiniteSet(UnitsOf(v, T)) /\ FillOf(v, T) \in Nat
  BY UnitsFinite
<1>4. Cardinality(UnitsOf(v, S) \cup UnitsOf(v, T))
        = Cardinality(UnitsOf(v, S)) + Cardinality(UnitsOf(v, T)) - Cardinality({})
  BY <1>2, <1>3, FS_Union
<1>5. Cardinality({}) = 0
  BY FS_EmptySet
<1>6. FillOf(v, S \cup T) = FillOf(v, S) + FillOf(v, T) - 0
  BY <1>1, <1>4, <1>5 DEF FillOf
<1> QED BY <1>3, <1>6

(* A fill depends on the matches' amounts only.                            *)
LEMMA FillOfSame ==
  ASSUME NEW v, NEW u, NEW S,
         \A m \in S : u.matches[m].makerAmount = v.matches[m].makerAmount
  PROVE  FillOf(u, S) = FillOf(v, S)
<1>1. {{m} \X (1..u.matches[m].makerAmount) : m \in S}
        = {{m} \X (1..v.matches[m].makerAmount) : m \in S}
  OBVIOUS
<1> QED BY <1>1 DEF FillOf, UnitsOf

-----------------------------------------------------------------------------
(* What advance leaves.                                                    *)

(* advance, map by map.                                                    *)
LEMMA AdvanceShape ==
  ASSUME NEW v, NEW h, NEW w, w = advance(v, h)
  PROVE  /\ DOMAIN w.offers = DOMAIN v.offers \ Expired(v, h)
         /\ \A o \in DOMAIN w.offers :
              w.offers[o] = RestoreCapacity(v, o, Unproven(v, h))
         /\ DOMAIN w.matches = DOMAIN v.matches \ Prunable(v, h)
         /\ \A m \in DOMAIN w.matches :
              w.matches[m] = IF m \in Unproven(v, h) THEN CancelUnproven(v.matches[m])
                                                    ELSE v.matches[m]
BY DEF advance, Without

(* Restoring keeps an offer an offer, and everything of it but `remaining'. *)
LEMMA RestoreShape ==
  ASSUME NEW v, NEW o \in DOMAIN v.offers, NEW S, v.offers[o] \in Offer,
         FillOf(v, S \cap MatchesOn(v, o)) \in Nat
  PROVE  /\ RestoreCapacity(v, o, S) \in Offer
         /\ RestoreCapacity(v, o, S).remaining
              = v.offers[o].remaining + FillOf(v, S \cap MatchesOn(v, o))
         /\ RestoreCapacity(v, o, S).give = v.offers[o].give
         /\ RestoreCapacity(v, o, S).expiresAt = v.offers[o].expiresAt
         /\ RestoreCapacity(v, o, S).maker = v.offers[o].maker
BY DEF RestoreCapacity, Offer

(* Giving a match up keeps it a match, and its terms.                      *)
LEMMA CancelShape ==
  ASSUME NEW m \in Match
  PROVE  /\ CancelUnproven(m) \in Match
         /\ CancelUnproven(m).status = "cancelled"
         /\ CancelUnproven(m).cancelled = [at |-> m.proofDeadline + 1, reason |-> "noProof"]
         /\ CancelUnproven(m).offerId = m.offerId
         /\ CancelUnproven(m).makerAmount = m.makerAmount
         /\ CancelUnproven(m).hash = m.hash
         /\ CancelUnproven(m).proofDeadline = m.proofDeadline
         /\ CancelUnproven(m).pruneAt = m.pruneAt
         /\ CancelUnproven(m).makerProof = m.makerProof
         /\ CancelUnproven(m).takerProof = m.takerProof
         /\ CancelUnproven(m).makerKey = m.makerKey
         /\ CancelUnproven(m).takerKey = m.takerKey
         /\ CancelUnproven(m).makerLock = m.makerLock
         /\ CancelUnproven(m).takerLock = m.takerLock
         /\ CancelUnproven(m).maker = m.maker
         /\ CancelUnproven(m).taker = m.taker
         /\ CancelUnproven(m).takerAmount = m.takerAmount
<1> DEFINE stamp == [at |-> m.proofDeadline + 1, reason |-> "noProof"]
           c == CancelUnproven(m)
<1>1. stamp \in [at : Nat, reason : {"noProof", "abort"}]
  BY DEF Match
<1>2. c = [[m EXCEPT !.status = "cancelled"] EXCEPT !.cancelled = stamp]
  BY Zenon DEF CancelUnproven
<1> HIDE DEF stamp, c
<1>3. [m EXCEPT !.status = "cancelled"] \in Match
  BY DEF Match
<1>4. c \in Match
  BY <1>1, <1>2, <1>3 DEF Match
<1>5. c.status = "cancelled" /\ c.cancelled = stamp
  BY <1>2 DEF Match
<1>6. /\ c.offerId = m.offerId /\ c.makerAmount = m.makerAmount
      /\ c.hash = m.hash /\ c.proofDeadline = m.proofDeadline /\ c.pruneAt = m.pruneAt
      /\ c.takerAmount = m.takerAmount /\ c.maker = m.maker /\ c.taker = m.taker
  BY <1>2 DEF Match
<1>7. /\ c.makerProof = m.makerProof /\ c.takerProof = m.takerProof
      /\ c.makerKey = m.makerKey /\ c.takerKey = m.takerKey
      /\ c.makerLock = m.makerLock /\ c.takerLock = m.takerLock
  BY <1>2 DEF Match
<1> QED BY <1>4, <1>5, <1>6, <1>7 DEF stamp, c

(* Every set of a sound view's matches is finite and has a fill.           *)
LEMMA FillsAreNaturals ==
  ASSUME NEW v, NEW u, ViewOK(v, u), NEW S \in SUBSET DOMAIN v.matches
  PROVE  /\ IsFiniteSet(S)
         /\ \A m \in S : v.matches[m].makerAmount \in Nat
         /\ FillOf(v, S) \in Nat
<1>1. IsFiniteSet(S)
  <2>1. S \in SUBSET MatchId
    BY DEF ViewOK
  <2> QED BY <2>1, BoardAssumption, FS_Subset
<1>2. \A m \in S : v.matches[m].makerAmount \in Nat
  BY DEF ViewOK, Match
<1> QED BY <1>1, <1>2, UnitsFinite

-----------------------------------------------------------------------------
(* advance keeps a view sound.                                             *)

(* An offer that advance leaves is the old one with the capacity it gained. *)
LEMMA AdvanceOffers ==
  ASSUME NEW v, NEW u, ViewOK(v, u), NEW h, NEW w, w = advance(v, h),
         NEW o \in DOMAIN w.offers
  PROVE  /\ o \in DOMAIN v.offers /\ v.offers[o] \in Offer /\ w.offers[o] \in Offer
         /\ w.offers[o].remaining = v.offers[o].remaining
               + FillOf(v, Unproven(v, h) \cap MatchesOn(v, o))
         /\ w.offers[o].give = v.offers[o].give
         /\ w.offers[o].expiresAt = v.offers[o].expiresAt
         /\ ~(w.offers[o].expiresAt <= h)
<1>1. o \in DOMAIN v.offers /\ ~(v.offers[o].expiresAt <= h)
  BY AdvanceShape DEF Expired
<1>2. w.offers[o] = RestoreCapacity(v, o, Unproven(v, h))
  BY AdvanceShape
<1>3. v.offers[o] \in Offer
  BY <1>1 DEF ViewOK
<1>4. FillOf(v, Unproven(v, h) \cap MatchesOn(v, o)) \in Nat
  <2>1. Unproven(v, h) \cap MatchesOn(v, o) \in SUBSET DOMAIN v.matches
    BY DEF Unproven
  <2> QED BY <2>1, FillsAreNaturals
<1>5. /\ w.offers[o] \in Offer
      /\ w.offers[o].remaining = v.offers[o].remaining
            + FillOf(v, Unproven(v, h) \cap MatchesOn(v, o))
      /\ w.offers[o].give = v.offers[o].give
      /\ w.offers[o].expiresAt = v.offers[o].expiresAt
  BY <1>1, <1>2, <1>3, <1>4, RestoreShape
<1> QED BY <1>1, <1>3, <1>5

(* advance touches nothing of a match but its status and its stamp.        *)
LEMMA AdvanceKeeps ==
  ASSUME NEW v, NEW u, ViewOK(v, u), NEW h, NEW w, w = advance(v, h),
         NEW m \in DOMAIN w.matches
  PROVE  /\ m \in DOMAIN v.matches /\ ~(v.matches[m].pruneAt <= h)
         /\ v.matches[m] \in Match /\ w.matches[m] \in Match
         /\ w.matches[m].status = IF m \in Unproven(v, h) THEN "cancelled"
                                                         ELSE v.matches[m].status
         /\ m \notin Unproven(v, h) => w.matches[m].cancelled = v.matches[m].cancelled
         /\ w.matches[m].offerId = v.matches[m].offerId
         /\ w.matches[m].makerAmount = v.matches[m].makerAmount
         /\ w.matches[m].hash = v.matches[m].hash
         /\ w.matches[m].proofDeadline = v.matches[m].proofDeadline
         /\ w.matches[m].pruneAt = v.matches[m].pruneAt
         /\ w.matches[m].makerProof = v.matches[m].makerProof
         /\ w.matches[m].takerProof = v.matches[m].takerProof
         /\ w.matches[m].makerKey = v.matches[m].makerKey
         /\ w.matches[m].takerKey = v.matches[m].takerKey
         /\ w.matches[m].makerLock = v.matches[m].makerLock
         /\ w.matches[m].takerLock = v.matches[m].takerLock
         /\ w.matches[m].maker = v.matches[m].maker
         /\ w.matches[m].taker = v.matches[m].taker
         /\ w.matches[m].takerAmount = v.matches[m].takerAmount
<1> DEFINE old == v.matches[m]
           new == w.matches[m]
<1>1. /\ m \in DOMAIN v.matches /\ ~(v.matches[m].pruneAt <= h) /\ new \in Match
      /\ new = IF m \in Unproven(v, h) THEN CancelUnproven(old) ELSE old
  <2>1. /\ m \in DOMAIN v.matches /\ ~(v.matches[m].pruneAt <= h)
        /\ new = IF m \in Unproven(v, h) THEN CancelUnproven(old) ELSE old
    BY AdvanceShape DEF Prunable
  <2>2. old \in Match
    BY <2>1 DEF ViewOK
  <2> HIDE DEF old
  <2>3. CancelUnproven(old) \in Match
    BY <2>2, CancelShape
  <2> QED BY <2>1, <2>2, <2>3 DEF old
<1>2. old \in Match
  BY <1>1 DEF ViewOK
<1> HIDE DEF old, new
<1>3. CASE m \notin Unproven(v, h)
  <2>1. new = old
    BY <1>1, <1>3
  <2> QED BY <2>1, <1>1, <1>2, <1>3 DEF old, new
<1>4. CASE m \in Unproven(v, h)
  <2>1. new = CancelUnproven(old)
    BY <1>1, <1>4
  <2>2. /\ new.status = "cancelled"
        /\ new.offerId = old.offerId
        /\ new.makerAmount = old.makerAmount
        /\ new.hash = old.hash
        /\ new.proofDeadline = old.proofDeadline
        /\ new.pruneAt = old.pruneAt
        /\ new.makerProof = old.makerProof
        /\ new.takerProof = old.takerProof
        /\ new.makerKey = old.makerKey
        /\ new.takerKey = old.takerKey
        /\ new.makerLock = old.makerLock
        /\ new.takerLock = old.takerLock
        /\ new.maker = old.maker
        /\ new.taker = old.taker
        /\ new.takerAmount = old.takerAmount
    BY <2>1, <1>2, CancelShape, Zenon
  <2> QED BY <2>2, <1>1, <1>2, <1>4 DEF old, new
<1> QED BY <1>3, <1>4

(* advance restores what it cancels and settles what it prunes: the open   *)
(* fills on an offer before are those open after, those restored and those *)
(* settled.                                                                *)
LEMMA AdvanceConserves ==
  ASSUME NEW v, NEW u, NEW h \in Nat, NEW done \in [OfferId -> Nat],
         ViewOK(v, u), Linked(v, u, done), Conserved(v, done),
         NEW w, w = advance(v, h)
  PROVE  Conserved(w, Settling(v, done, h))
<1> SUFFICES ASSUME NEW o \in DOMAIN w.offers
             PROVE  w.offers[o].remaining + FillOf(w, Open(w) \cap MatchesOn(w, o))
                      + Settling(v, done, h)[o] = w.offers[o].give.amount
  BY DEF Conserved
<1> DEFINE before   == Open(v) \cap MatchesOn(v, o)
           after    == Open(w) \cap MatchesOn(w, o)
           restored == Unproven(v, h) \cap MatchesOn(v, o)
           pruned   == PrunedInEscrow(v, h) \cap MatchesOn(v, o)
<1>1. o \in DOMAIN v.offers /\ o \in OfferId
  BY AdvanceOffers DEF ViewOK
<1>2. /\ before \in SUBSET DOMAIN v.matches /\ restored \in SUBSET DOMAIN v.matches
      /\ pruned \in SUBSET DOMAIN v.matches
  BY DEF Open, Unproven, PrunedInEscrow, Prunable
<1>3. \A m \in DOMAIN w.matches :
        /\ w.matches[m].makerAmount = v.matches[m].makerAmount
        /\ w.matches[m].offerId = v.matches[m].offerId
        /\ w.matches[m].status = IF m \in Unproven(v, h) THEN "cancelled"
                                                        ELSE v.matches[m].status
  BY AdvanceKeeps
<1>4. after = {m \in DOMAIN v.matches :
                 /\ v.matches[m].offerId = o /\ v.matches[m].status # "cancelled"
                 /\ ~(v.matches[m].pruneAt <= h) /\ m \notin Unproven(v, h)}
  <2>1. DOMAIN w.matches = {m \in DOMAIN v.matches : ~(v.matches[m].pruneAt <= h)}
    BY AdvanceShape DEF Prunable
  <2> QED BY <2>1, <1>3 DEF Open, MatchesOn
<1>5. before = after \cup (restored \cup pruned)
  <2>1. ASSUME NEW m \in before, m \notin after, m \notin restored
        PROVE  m \in pruned
    <3>1. v.matches[m].pruneAt <= h /\ m \notin Unproven(v, h)
      BY <2>1, <1>4 DEF Open, MatchesOn
    <3>2. v.matches[m] \in Match /\ v.matches[m].proofDeadline < v.matches[m].pruneAt
      BY DEF Open, ViewOK, Linked
    <3>3. ~(v.matches[m].proofDeadline < h) => v.matches[m].pruneAt > h
      BY <3>2 DEF Match
    <3>4. v.matches[m].status # "awaitingProofs"
      BY <3>1, <3>2, <3>3 DEF Unproven, Open, Match
    <3> QED BY <3>1, <3>2, <3>4 DEF Open, Match, PrunedInEscrow, Prunable, MatchesOn
  <2>2. after \subseteq before
    BY <1>4 DEF Open, MatchesOn
  <2>3. restored \subseteq before
    BY DEF Unproven, Open, MatchesOn
  <2>4. pruned \subseteq before
    BY DEF PrunedInEscrow, Prunable, Open, MatchesOn
  <2> QED BY <2>1, <2>2, <2>3, <2>4
<1>6. restored \cap pruned = {} /\ after \cap (restored \cup pruned) = {}
  BY <1>4 DEF Unproven, PrunedInEscrow, Prunable
<1>7. FillOf(w, after) = FillOf(v, after)
  BY <1>3, FillOfSame DEF Open
<1>8. FillOf(v, before) = FillOf(v, after) + (FillOf(v, restored) + FillOf(v, pruned))
  <2>1. after \in SUBSET DOMAIN v.matches
    BY <1>2, <1>5
  <2>2. FillOf(v, restored \cup pruned) = FillOf(v, restored) + FillOf(v, pruned)
    <3>1. /\ IsFiniteSet(restored) /\ IsFiniteSet(pruned)
          /\ \A m \in restored \cup pruned : v.matches[m].makerAmount \in Nat
      BY <1>2, FillsAreNaturals
    <3> QED BY <3>1, <1>6, FillOfUnion
  <2>3. FillOf(v, after \cup (restored \cup pruned))
          = FillOf(v, after) + FillOf(v, restored \cup pruned)
    <3>1. restored \cup pruned \in SUBSET DOMAIN v.matches
      BY <1>2
    <3>2. /\ IsFiniteSet(after) /\ IsFiniteSet(restored \cup pruned)
          /\ \A m \in after \cup (restored \cup pruned) : v.matches[m].makerAmount \in Nat
      BY <3>1, <2>1, FillsAreNaturals
    <3> QED BY <3>2, <1>6, FillOfUnion
  <2> QED BY <2>2, <2>3, <1>5
<1>9. /\ FillOf(v, after) \in Nat /\ FillOf(v, restored) \in Nat /\ FillOf(v, pruned) \in Nat
  <2>1. after \in SUBSET DOMAIN v.matches
    BY <1>2, <1>5
  <2> QED BY <2>1, <1>2, FillsAreNaturals
<1>10. v.offers[o].remaining + FillOf(v, before) + done[o] = v.offers[o].give.amount
  BY <1>1 DEF Conserved
<1>11. /\ w.offers[o].remaining = v.offers[o].remaining + FillOf(v, restored)
       /\ w.offers[o].give = v.offers[o].give
  BY AdvanceOffers
<1>12. Settling(v, done, h)[o] = done[o] + FillOf(v, pruned)
  BY <1>1 DEF Settling
<1>13. v.offers[o].remaining \in Nat /\ done[o] \in Nat
  BY <1>1 DEF ViewOK, Offer
<1> HIDE DEF before, after, restored, pruned
<1> QED BY <1>7, <1>8, <1>9, <1>10, <1>11, <1>12, <1>13 DEF after

(* The rest of soundness under advance, a part at a time.                  *)
LEMMA AdvanceSound ==
  ASSUME NEW v, NEW u, NEW g \in Nat, NEW h \in Nat, g <= h,
         NEW done \in [OfferId -> Nat], Sound(v, g, u, done),
         NEW w, w = advance(v, h)
  PROVE  Sound(w, h, u, Settling(v, done, h)) /\ Settling(v, done, h) \in [OfferId -> Nat]
<1>0. /\ ViewOK(v, u) /\ Linked(v, u, done) /\ Conserved(v, done)
      /\ TermsComplete(v) /\ FundedOpen(v) /\ Distinct(v) /\ InTime(v, g)
  BY DEF Sound
<1>1. ViewOK(w, u)
  <2>1. DOMAIN w.offers \subseteq u \cap OfferId /\ DOMAIN w.matches \subseteq u \cap MatchId
    BY <1>0, AdvanceShape DEF ViewOK
  <2>2. \A o \in DOMAIN w.offers : w.offers[o] \in Offer
    BY <1>0, AdvanceOffers
  <2>3. \A m \in DOMAIN w.matches : w.matches[m] \in Match
    BY <1>0, AdvanceKeeps
  <2> QED BY <2>1, <2>2, <2>3 DEF ViewOK
<1>2. Settling(v, done, h) \in [OfferId -> Nat]
  <2>1. ASSUME NEW o \in OfferId
        PROVE  FillOf(v, PrunedInEscrow(v, h) \cap MatchesOn(v, o)) \in Nat
    <3>1. PrunedInEscrow(v, h) \cap MatchesOn(v, o) \in SUBSET DOMAIN v.matches
      BY DEF PrunedInEscrow, Prunable
    <3> QED BY <1>0, <3>1, FillsAreNaturals
  <2> QED BY <2>1 DEF Settling
<1>3. Linked(w, u, Settling(v, done, h))
  <2>1. ASSUME NEW m \in DOMAIN w.matches
        PROVE  w.matches[m].offerId \in u /\ w.matches[m].proofDeadline < w.matches[m].pruneAt
    BY <1>0, AdvanceKeeps DEF Linked
  <2>2. ASSUME NEW o \in OfferId \ u
        PROVE  Settling(v, done, h)[o] = 0
    <3>1. PrunedInEscrow(v, h) \cap MatchesOn(v, o) = {}
      BY <1>0 DEF Linked, MatchesOn
    <3>2. UnitsOf(v, {}) = {}
      BY DEF UnitsOf
    <3>3. FillOf(v, {}) = 0
      BY <3>2, FS_EmptySet DEF FillOf
    <3>4. done[o] = 0
      BY <1>0 DEF Linked
    <3>5. Settling(v, done, h)[o]
            = done[o] + FillOf(v, PrunedInEscrow(v, h) \cap MatchesOn(v, o))
      BY DEF Settling
    <3>6. Settling(v, done, h)[o] = 0 + 0
      BY <3>1, <3>3, <3>4, <3>5
    <3> QED BY <3>6
  <2> QED BY <2>1, <2>2 DEF Linked
<1>4. Conserved(w, Settling(v, done, h))
  BY <1>0, AdvanceConserves
<1>5. TermsComplete(w) /\ FundedOpen(w)
  <2> SUFFICES ASSUME NEW m \in DOMAIN w.matches
               PROVE  /\ w.matches[m].status = "escrow"
                            => w.matches[m].makerProof /\ w.matches[m].takerProof
                      /\ w.matches[m].status = "awaitingProofs"
                            => ~(w.matches[m].makerProof /\ w.matches[m].takerProof)
                      /\ w.matches[m].makerProof <=> w.matches[m].makerKey # None
                      /\ w.matches[m].makerKey # w.matches[m].takerKey
                      /\ w.matches[m].makerLock \/ w.matches[m].takerLock
                            => w.matches[m].makerProof /\ w.matches[m].takerProof
                      /\ w.matches[m].makerLock => w.matches[m].status = "escrow"
    BY DEF TermsComplete, FundedOpen
  <2>1. m \in DOMAIN v.matches
    BY <1>0, AdvanceKeeps
  <2>2. /\ w.matches[m].makerProof = v.matches[m].makerProof
        /\ w.matches[m].takerProof = v.matches[m].takerProof
        /\ w.matches[m].makerKey = v.matches[m].makerKey
        /\ w.matches[m].takerKey = v.matches[m].takerKey
        /\ w.matches[m].makerLock = v.matches[m].makerLock
        /\ w.matches[m].takerLock = v.matches[m].takerLock
        /\ w.matches[m].status = IF m \in Unproven(v, h) THEN "cancelled"
                                                        ELSE v.matches[m].status
    BY <1>0, AdvanceKeeps
  <2>3. m \in Unproven(v, h) => v.matches[m].status = "awaitingProofs"
    BY DEF Unproven
  <2> QED BY <1>0, <2>1, <2>2, <2>3 DEF TermsComplete, FundedOpen
<1>6. Distinct(w)
  <2>1. \A m \in DOMAIN w.matches : m \in DOMAIN v.matches /\ w.matches[m].hash = v.matches[m].hash
    BY <1>0, AdvanceKeeps
  <2> QED BY <1>0, <2>1 DEF Distinct
<1>7. InTime(w, h)
  <2>1. ASSUME NEW o \in DOMAIN w.offers
        PROVE  h < w.offers[o].expiresAt
    <3>1. ~(w.offers[o].expiresAt <= h) /\ w.offers[o].expiresAt \in Nat
      BY <1>0, AdvanceOffers DEF Offer
    <3> QED BY <3>1
  <2>2. ASSUME NEW m \in DOMAIN w.matches
        PROVE  /\ h < w.matches[m].pruneAt
               /\ w.matches[m].status = "awaitingProofs" => h <= w.matches[m].proofDeadline
    <3>1. /\ m \in DOMAIN v.matches /\ ~(w.matches[m].pruneAt <= h)
          /\ w.matches[m].proofDeadline = v.matches[m].proofDeadline
          /\ w.matches[m].status = IF m \in Unproven(v, h) THEN "cancelled"
                                                          ELSE v.matches[m].status
      BY <1>0, AdvanceKeeps
    <3>2. w.matches[m].pruneAt \in Nat /\ w.matches[m].proofDeadline \in Nat
      BY <1>0, AdvanceKeeps DEF Match
    <3> QED BY <3>1, <3>2 DEF Unproven
  <2> QED BY <2>1, <2>2 DEF InTime
<1> QED BY <1>1, <1>2, <1>3, <1>4, <1>5, <1>6, <1>7 DEF Sound

-----------------------------------------------------------------------------
(* advance composes.                                                       *)

(* Views with the same offers and the same matches are the same view, and  *)
(* what advance builds is determined id by id.                             *)
LEMMA AdvanceExtensional ==
  ASSUME NEW v, NEW w, NEW a, NEW b,
         NEW x, x = advance(v, a), NEW y, y = advance(w, b),
         DOMAIN x.offers = DOMAIN y.offers, DOMAIN x.matches = DOMAIN y.matches,
         \A o \in DOMAIN x.offers : x.offers[o] = y.offers[o],
         \A m \in DOMAIN x.matches : x.matches[m] = y.matches[m]
  PROVE  x = y
<1>1. x = [offers |-> x.offers, matches |-> x.matches]
  BY DEF advance
<1>2. y = [offers |-> y.offers, matches |-> y.matches]
  BY DEF advance
<1>3. x.offers = y.offers
  <2>1. x.offers = [o \in DOMAIN x.offers |-> x.offers[o]]
    BY DEF advance, Without
  <2>2. y.offers = [o \in DOMAIN y.offers |-> y.offers[o]]
    BY DEF advance, Without
  <2> QED BY <2>1, <2>2, Zenon
<1>4. x.matches = y.matches
  <2>1. x.matches = [m \in DOMAIN x.matches |-> x.matches[m]]
    BY DEF advance, Without
  <2>2. y.matches = [m \in DOMAIN y.matches |-> y.matches[m]]
    BY DEF advance, Without
  <2> QED BY <2>1, <2>2, Zenon
<1> QED BY <1>1, <1>2, <1>3, <1>4, Zenon

(* What is given up on the way to b is what is given up on the way to a    *)
(* and then from there to b, each match once: none is pruned before its    *)
(* proof deadline.                                                         *)
LEMMA UnprovenSplits ==
  ASSUME NEW v, NEW u, NEW done, ViewOK(v, u), Linked(v, u, done),
         NEW a \in Nat, NEW b \in Nat, a <= b, NEW w, w = advance(v, a)
  PROVE  /\ Unproven(v, b) = Unproven(v, a) \cup Unproven(w, b)
         /\ Unproven(v, a) \cap Unproven(w, b) = {}
         /\ Unproven(w, b) \subseteq DOMAIN w.matches
<1>1. \A m \in DOMAIN v.matches :
        /\ v.matches[m].proofDeadline \in Nat /\ v.matches[m].pruneAt \in Nat
        /\ v.matches[m].proofDeadline < v.matches[m].pruneAt
  BY DEF ViewOK, Match, Linked
<1>2. DOMAIN w.matches = DOMAIN v.matches \ Prunable(v, a)
  BY AdvanceShape
<1>3. \A m \in DOMAIN w.matches :
        /\ w.matches[m].status = IF m \in Unproven(v, a) THEN "cancelled"
                                                        ELSE v.matches[m].status
        /\ w.matches[m].proofDeadline = v.matches[m].proofDeadline
  BY AdvanceKeeps
<1>4. Unproven(v, a) \subseteq Unproven(v, b)
  BY <1>1 DEF Unproven
<1>5. Unproven(w, b) \subseteq Unproven(v, b)
  BY <1>2, <1>3 DEF Unproven
<1>6. ASSUME NEW m \in Unproven(v, b), m \notin Unproven(v, a)
      PROVE  m \in Unproven(w, b)
  <2>1. m \in DOMAIN v.matches /\ ~(v.matches[m].proofDeadline < a)
    BY <1>6 DEF Unproven
  <2>2. m \in DOMAIN w.matches
    BY <2>1, <1>1, <1>2 DEF Prunable
  <2> QED BY <2>2, <1>3, <1>6 DEF Unproven
<1>7. \A m \in Unproven(w, b) : m \notin Unproven(v, a)
  BY <1>3 DEF Unproven
<1> QED BY <1>4, <1>5, <1>6, <1>7 DEF Unproven

(* Moving a well-formed view to a and then to b is moving it to b.         *)
LEMMA AdvanceTwice ==
  ASSUME NEW v, NEW u, NEW done, ViewOK(v, u), Linked(v, u, done),
         NEW a \in Nat, NEW b \in Nat, a <= b
  PROVE  advance(advance(v, a), b) = advance(v, b)
<1> DEFINE w == advance(v, a)
           x == advance(w, b)
           y == advance(v, b)
<1>1. /\ DOMAIN w.offers = DOMAIN v.offers \ Expired(v, a)
      /\ DOMAIN w.matches = DOMAIN v.matches \ Prunable(v, a)
      /\ DOMAIN x.offers = DOMAIN w.offers \ Expired(w, b)
      /\ DOMAIN x.matches = DOMAIN w.matches \ Prunable(w, b)
      /\ DOMAIN y.offers = DOMAIN v.offers \ Expired(v, b)
      /\ DOMAIN y.matches = DOMAIN v.matches \ Prunable(v, b)
  BY AdvanceShape
<1>2. /\ Unproven(v, b) = Unproven(v, a) \cup Unproven(w, b)
      /\ Unproven(v, a) \cap Unproven(w, b) = {}
      /\ Unproven(w, b) \subseteq DOMAIN w.matches
  BY UnprovenSplits
<1>3. \A m \in DOMAIN w.matches :
        /\ w.matches[m] = IF m \in Unproven(v, a) THEN CancelUnproven(v.matches[m])
                                                  ELSE v.matches[m]
        /\ w.matches[m].pruneAt = v.matches[m].pruneAt
        /\ w.matches[m].offerId = v.matches[m].offerId
        /\ w.matches[m].makerAmount = v.matches[m].makerAmount
  <2>1. \A m \in DOMAIN w.matches :
          w.matches[m] = IF m \in Unproven(v, a) THEN CancelUnproven(v.matches[m])
                                                 ELSE v.matches[m]
    BY AdvanceShape
  <2>2. \A m \in DOMAIN w.matches :
          /\ w.matches[m].pruneAt = v.matches[m].pruneAt
          /\ w.matches[m].offerId = v.matches[m].offerId
          /\ w.matches[m].makerAmount = v.matches[m].makerAmount
    BY AdvanceKeeps
  <2> QED BY <2>1, <2>2
<1>4. \A o \in DOMAIN w.offers :
        /\ w.offers[o] = RestoreCapacity(v, o, Unproven(v, a))
        /\ w.offers[o].expiresAt = v.offers[o].expiresAt
  <2>1. \A o \in DOMAIN w.offers : w.offers[o] = RestoreCapacity(v, o, Unproven(v, a))
    BY AdvanceShape
  <2>2. ASSUME NEW o \in DOMAIN w.offers
        PROVE  w.offers[o].expiresAt = v.offers[o].expiresAt
    <3>1. /\ o \in DOMAIN v.offers /\ v.offers[o] \in Offer
          /\ Unproven(v, a) \cap MatchesOn(v, o) \in SUBSET DOMAIN v.matches
      BY <1>1 DEF ViewOK, Unproven
    <3>2. FillOf(v, Unproven(v, a) \cap MatchesOn(v, o)) \in Nat
      BY <3>1, FillsAreNaturals
    <3>3. RestoreCapacity(v, o, Unproven(v, a)).expiresAt = v.offers[o].expiresAt
      BY <3>1, <3>2, RestoreShape
    <3> HIDE DEF w, x, y
    <3> QED BY <2>1, <3>3
  <2> QED BY <2>1, <2>2
<1>5. DOMAIN x.offers = DOMAIN y.offers
  <2>1. \A o \in DOMAIN v.offers : v.offers[o].expiresAt \in Nat
    BY DEF ViewOK, Offer
  <2> HIDE DEF w, x, y
  <2> QED BY <2>1, <1>1, <1>4 DEF Expired
<1>6. DOMAIN x.matches = DOMAIN y.matches
  <2>1. \A m \in DOMAIN v.matches : v.matches[m].pruneAt \in Nat
    BY DEF ViewOK, Match
  <2> HIDE DEF w, x, y
  <2> QED BY <2>1, <1>1, <1>3 DEF Prunable
<1>7. ASSUME NEW m \in DOMAIN x.matches
      PROVE  x.matches[m] = y.matches[m]
  <2>1. x.matches[m] = IF m \in Unproven(w, b) THEN CancelUnproven(w.matches[m])
                                               ELSE w.matches[m]
    BY AdvanceShape
  <2>2. y.matches[m] = IF m \in Unproven(v, b) THEN CancelUnproven(v.matches[m])
                                               ELSE v.matches[m]
    BY <1>6, AdvanceShape
  <2>3. m \in DOMAIN w.matches
    BY <1>1
  <2> HIDE DEF w, x, y
  <2> QED BY <2>1, <2>2, <2>3, <1>2, <1>3
<1>8. ASSUME NEW o \in DOMAIN x.offers
      PROVE  x.offers[o] = y.offers[o]
  <2> DEFINE first  == Unproven(v, a) \cap MatchesOn(v, o)
             second == Unproven(w, b) \cap MatchesOn(v, o)
             offer  == v.offers[o]
  <2>1. o \in DOMAIN w.offers /\ o \in DOMAIN v.offers /\ offer \in Offer
    BY <1>1 DEF ViewOK
  <2>2. Unproven(w, b) \cap MatchesOn(w, o) = second
    <3> HIDE DEF w
    <3> QED BY <1>1, <1>2, <1>3 DEF MatchesOn
  <2>3. FillOf(w, second) = FillOf(v, second)
    <3>1. \A m \in second : w.matches[m].makerAmount = v.matches[m].makerAmount
      BY <1>2, <1>3
    <3> QED BY <3>1, FillOfSame
  <2>4. /\ FillOf(v, Unproven(v, b) \cap MatchesOn(v, o)) = FillOf(v, first) + FillOf(v, second)
        /\ FillOf(v, first) \in Nat /\ FillOf(v, second) \in Nat
    <3>1. first \in SUBSET DOMAIN v.matches /\ second \in SUBSET DOMAIN v.matches
      BY DEF MatchesOn
    <3>2. first \cap second = {} /\ Unproven(v, b) \cap MatchesOn(v, o) = first \cup second
      BY <1>2
    <3> HIDE DEF first, second
    <3>3. /\ IsFiniteSet(first) /\ IsFiniteSet(second)
          /\ \A m \in first \cup second : v.matches[m].makerAmount \in Nat
          /\ FillOf(v, first) \in Nat /\ FillOf(v, second) \in Nat
      BY <3>1, FillsAreNaturals
    <3> QED BY <3>2, <3>3, FillOfUnion
  <2>5. x.offers[o] = RestoreCapacity(w, o, Unproven(w, b))
    BY AdvanceShape
  <2>6. y.offers[o] = RestoreCapacity(v, o, Unproven(v, b))
    BY <1>5, AdvanceShape
  <2>7. w.offers[o] = [offer EXCEPT !.remaining = @ + FillOf(v, first)]
    BY <2>1, <1>4 DEF RestoreCapacity
  <2>8. x.offers[o] = [w.offers[o] EXCEPT !.remaining = @ + FillOf(v, second)]
    BY <2>2, <2>3, <2>5 DEF RestoreCapacity
  <2>9. y.offers[o] = [offer EXCEPT !.remaining = @ + (FillOf(v, first) + FillOf(v, second))]
    BY <2>4, <2>6 DEF RestoreCapacity
  <2> DEFINE p == FillOf(v, first)
             q == FillOf(v, second)
  <2>10. p \in Nat /\ q \in Nat
    BY <2>4
  <2>11. /\ w.offers[o] = [offer EXCEPT !.remaining = offer.remaining + p]
         /\ x.offers[o] = [w.offers[o] EXCEPT !.remaining = w.offers[o].remaining + q]
         /\ y.offers[o] = [offer EXCEPT !.remaining = offer.remaining + (p + q)]
    BY <2>7, <2>8, <2>9
  <2> HIDE DEF w, x, y, first, second, p, q, offer
  <2>12. offer.remaining \in Nat
    BY <2>1 DEF Offer
  <2>13. w.offers[o].remaining = offer.remaining + p
    BY <2>1, <2>11 DEF Offer
  <2>14. w.offers[o].remaining + q = offer.remaining + (p + q)
    BY <2>10, <2>12, <2>13
  <2>15. x.offers[o] = [offer EXCEPT !.remaining = w.offers[o].remaining + q]
    BY <2>1, <2>11, Zenon DEF Offer
  <2> QED BY <2>11, <2>14, <2>15
<1> QED BY <1>5, <1>6, <1>7, <1>8, AdvanceExtensional

-----------------------------------------------------------------------------
(* The ops keep a view sound.                                              *)

(* Open matches and their fills are read off the matches alone.            *)
LEMMA SameMatches ==
  ASSUME NEW v, NEW w, w.matches = v.matches
  PROVE  \A o : FillOf(w, Open(w) \cap MatchesOn(w, o)) = FillOf(v, Open(v) \cap MatchesOn(v, o))
BY DEF Open, MatchesOn, FillOf, UnitsOf

(* A posted offer starts with its whole capacity: nothing reserves an id   *)
(* that was never used.                                                    *)
LEMMA PostSound ==
  ASSUME NEW v, NEW u, NEW h \in Nat, NEW done \in [OfferId -> Nat], Sound(v, h, u, done),
         NEW id \in OfferId, id \notin u, NEW p \in Party, NEW op \in PostOp,
         NEW w, w = Posted(v, id, p, op, h)
  PROVE  Sound(w, h, u \cup {id}, done)
<1> DEFINE offer == [maker |-> p, give |-> op.give, want |-> op.want, minFill |-> op.minFill,
                     remaining |-> op.give.amount, postedAt |-> h, expiresAt |-> h + op.expiresIn]
<1>0. /\ ViewOK(v, u) /\ Linked(v, u, done) /\ Conserved(v, done)
      /\ TermsComplete(v) /\ FundedOpen(v) /\ Distinct(v) /\ InTime(v, h)
  BY DEF Sound
<1>1. /\ w.matches = v.matches /\ DOMAIN w.offers = DOMAIN v.offers \cup {id}
      /\ w.offers[id] = offer
      /\ \A o \in DOMAIN v.offers : o # id /\ w.offers[o] = v.offers[o]
  <2>1. w = [offers |-> Put(v.offers, id, offer), matches |-> v.matches]
    BY Zenon DEF Posted
  <2>2. w.matches = v.matches /\ w.offers = Put(v.offers, id, offer)
    BY <2>1
  <2>3. \A o \in DOMAIN v.offers : o # id
    BY <1>0 DEF ViewOK
  <2> HIDE DEF offer
  <2> QED BY <2>2, <2>3 DEF Put
<1>2. op \in WellFormedPost
  BY FoldAssumption
<1>3. offer \in Offer /\ offer.remaining = offer.give.amount /\ offer.give = op.give
      /\ h < offer.expiresAt
  BY <1>2 DEF WellFormedPost, Offer, Leg
<1> HIDE DEF offer
<1>4. ViewOK(w, u \cup {id})
  BY <1>0, <1>1, <1>3 DEF ViewOK
<1>5. Linked(w, u \cup {id}, done)
  BY <1>0, <1>1 DEF Linked
<1>6. Conserved(w, done)
  <2> SUFFICES ASSUME NEW o \in DOMAIN w.offers
               PROVE  w.offers[o].remaining + FillOf(w, Open(w) \cap MatchesOn(w, o)) + done[o]
                        = w.offers[o].give.amount
    BY DEF Conserved
  <2>1. FillOf(w, Open(w) \cap MatchesOn(w, o)) = FillOf(v, Open(v) \cap MatchesOn(v, o))
    BY <1>1, SameMatches
  <2>2. CASE o # id
    BY <2>1, <2>2, <1>0, <1>1 DEF Conserved
  <2>3. CASE o = id
    <3>1. Open(v) \cap MatchesOn(v, id) = {}
      BY <1>0 DEF Linked, MatchesOn, Open
    <3>2. UnitsOf(v, {}) = {}
      BY DEF UnitsOf
    <3>3. FillOf(v, {}) = 0
      BY <3>2, FS_EmptySet DEF FillOf
    <3>4. done[id] = 0
      BY <1>0 DEF Linked
    <3>5. offer.remaining \in Nat
      BY <1>3 DEF Offer
    <3>6. /\ w.offers[o].remaining = offer.remaining
          /\ w.offers[o].give.amount = offer.remaining
      BY <2>3, <1>1, <1>3
    <3>7. FillOf(w, Open(w) \cap MatchesOn(w, o)) = 0 /\ done[o] = 0
      BY <2>1, <2>3, <3>1, <3>3, <3>4
    <3> QED BY <3>5, <3>6, <3>7
  <2> QED BY <2>2, <2>3
<1>7. TermsComplete(w) /\ FundedOpen(w) /\ Distinct(w)
  BY <1>0, <1>1 DEF TermsComplete, FundedOpen, Distinct
<1>8. InTime(w, h)
  BY <1>0, <1>1, <1>3 DEF InTime
<1> QED BY <1>4, <1>5, <1>6, <1>7, <1>8 DEF Sound

(* Cancelling an offer leaves its matches alone.                           *)
LEMMA CancelSound ==
  ASSUME NEW v, NEW u, NEW h \in Nat, NEW done \in [OfferId -> Nat], Sound(v, h, u, done),
         NEW c, NEW w, w = Cancelled(v, c)
  PROVE  Sound(w, h, u, done)
<1>0. /\ ViewOK(v, u) /\ Linked(v, u, done) /\ Conserved(v, done)
      /\ TermsComplete(v) /\ FundedOpen(v) /\ Distinct(v) /\ InTime(v, h)
  BY DEF Sound
<1>1. /\ w.matches = v.matches /\ DOMAIN w.offers \subseteq DOMAIN v.offers
      /\ \A o \in DOMAIN w.offers : w.offers[o] = v.offers[o]
  <2>1. w.matches = v.matches /\ w.offers = Without(v.offers, {c})
    BY DEF Cancelled
  <2> QED BY <2>1 DEF Without
<1>2. ViewOK(w, u)
  BY <1>0, <1>1 DEF ViewOK
<1>3. Conserved(w, done)
  <2>1. ASSUME NEW o \in DOMAIN w.offers
        PROVE  FillOf(w, Open(w) \cap MatchesOn(w, o)) = FillOf(v, Open(v) \cap MatchesOn(v, o))
    BY <1>1, SameMatches
  <2> QED BY <2>1, <1>0, <1>1 DEF Conserved
<1>4. TermsComplete(w) /\ FundedOpen(w) /\ Distinct(w) /\ Linked(w, u, done)
  BY <1>0, <1>1 DEF TermsComplete, FundedOpen, Distinct, Linked
<1>5. InTime(w, h)
  BY <1>0, <1>1 DEF InTime
<1> QED BY <1>2, <1>3, <1>4, <1>5 DEF Sound

(* A take moves its fill from the offer to the match.                      *)
LEMMA TakeSound ==
  ASSUME NEW v, NEW u, NEW h \in Nat, NEW done \in [OfferId -> Nat], Sound(v, h, u, done),
         NEW id \in MatchId, id \notin u, NEW p \in Party, NEW c, NEW fill \in FillAmount,
         NEW hash \in Hash, NEW key \in Key, TakeAccepted(v, id, p, c, fill, hash),
         NEW w, w = Taken(v, id, p, c, fill, hash, key, h)
  PROVE  Sound(w, h, u \cup {id}, done)
<1> DEFINE offer == v.offers[c]
           left  == [offer EXCEPT !.remaining = @ - fill]
           match == [offerId |-> c, maker |-> offer.maker, taker |-> p,
                     makerChain |-> offer.give.chain, makerAmount |-> fill,
                     takerChain |-> offer.want.chain, takerAmount |-> proRata(offer, fill),
                     hash |-> hash, takerKey |-> key, makerKey |-> None,
                     status |-> "awaitingProofs", takenAt |-> h,
                     proofDeadline |-> h + PROOF_WINDOW,
                     pruneAt |-> h + matchLifetime(offer.want.chain),
                     makerProof |-> FALSE, takerProof |-> FALSE,
                     makerLock |-> FALSE, takerLock |-> FALSE, cancelled |-> None]
<1>0. /\ ViewOK(v, u) /\ Linked(v, u, done) /\ Conserved(v, done)
      /\ TermsComplete(v) /\ FundedOpen(v) /\ Distinct(v) /\ InTime(v, h)
  BY DEF Sound
<1>1. /\ c \in DOMAIN v.offers /\ offer \in Offer /\ c \in OfferId /\ c \in u
      /\ fill \in Nat \ {0} /\ fill <= offer.remaining
      /\ proRata(offer, fill) >= DUST[offer.want.chain]
      /\ \A m \in DOMAIN v.matches : v.matches[m].hash # hash
  BY <1>0, FoldAssumption DEF TakeAccepted, ViewOK
<1>2. /\ w.offers = [v.offers EXCEPT ![c] = left]
      /\ w.matches = Put(v.matches, id, match)
  <2>1. w = [offers |-> [v.offers EXCEPT ![c] = left], matches |-> Put(v.matches, id, match)]
    BY Zenon DEF Taken
  <2> QED BY <2>1
<1>3. /\ left \in Offer /\ left.remaining = offer.remaining - fill /\ left.give = offer.give
      /\ left.expiresAt = offer.expiresAt
  <2>1. offer.remaining - fill \in Nat
    BY <1>1 DEF Offer
  <2> HIDE DEF offer
  <2> QED BY <2>1, <1>1 DEF Offer
<1>4. proRata(offer, fill) \in Nat
  <2>1. /\ offer.want.amount \in Nat /\ offer.give.amount \in Nat \ {0}
        /\ offer.want.chain \in Chain
    BY <1>1 DEF Offer, Leg
  <2>2. proRata(offer, fill) \in Int
    BY <2>1, <1>1 DEF proRata
  <2>3. DUST[offer.want.chain] \in Nat
    BY <2>1, FoldAssumption
  <2> QED BY <2>2, <2>3, <1>1
<1>5. /\ match \in Match /\ match.offerId = c /\ match.makerAmount = fill
      /\ match.hash = hash /\ match.status = "awaitingProofs"
      /\ ~match.makerProof /\ ~match.makerLock /\ ~match.takerLock
      /\ match.makerKey = None /\ match.takerKey = key
      /\ match.proofDeadline < match.pruneAt /\ h < match.pruneAt /\ h <= match.proofDeadline
  <2>1. /\ offer.maker \in Party /\ offer.give.chain \in Chain /\ offer.want.chain \in Chain
    BY <1>1 DEF Offer, Leg
  <2>2. /\ matchLifetime(offer.want.chain) \in Nat
        /\ PROOF_WINDOW \in Nat /\ PROOF_WINDOW < matchLifetime(offer.want.chain)
    <3>1. RefundAnchors[offer.want.chain] \in Nat
      BY <2>1, FoldAssumption
    <3> QED BY <3>1, FoldAssumption DEF matchLifetime
  <2> HIDE DEF offer
  <2>3. match \in Match
    BY <1>1, <1>4, <2>1, <2>2 DEF Match
  <2> QED BY <2>2, <2>3
<1>6. id \notin DOMAIN v.matches
  BY <1>0 DEF ViewOK
<1> HIDE DEF offer, left, match
<1>7. /\ DOMAIN w.offers = DOMAIN v.offers /\ w.offers[c] = left
      /\ \A o \in DOMAIN v.offers : o # c => w.offers[o] = v.offers[o]
      /\ DOMAIN w.matches = DOMAIN v.matches \cup {id} /\ w.matches[id] = match
      /\ \A m \in DOMAIN v.matches : m # id /\ w.matches[m] = v.matches[m]
  BY <1>1, <1>2, <1>6 DEF Put
<1>8. ViewOK(w, u \cup {id})
  <2>1. \A o \in DOMAIN w.offers : w.offers[o] \in Offer
    BY <1>0, <1>3, <1>7 DEF ViewOK
  <2>2. \A m \in DOMAIN w.matches : w.matches[m] \in Match
    BY <1>0, <1>5, <1>7 DEF ViewOK
  <2> QED BY <1>0, <1>7, <2>1, <2>2 DEF ViewOK
<1>9. Linked(w, u \cup {id}, done)
  BY <1>0, <1>1, <1>5, <1>7 DEF Linked
<1>10. Conserved(w, done)
  <2> SUFFICES ASSUME NEW o \in DOMAIN w.offers
               PROVE  w.offers[o].remaining + FillOf(w, Open(w) \cap MatchesOn(w, o)) + done[o]
                        = w.offers[o].give.amount
    BY DEF Conserved
  <2> DEFINE before == Open(v) \cap MatchesOn(v, o)
             after  == Open(w) \cap MatchesOn(w, o)
  <2>1. before \in SUBSET DOMAIN v.matches /\ id \notin before
    BY <1>6 DEF Open
  <2>2. FillOf(w, before) = FillOf(v, before)
    BY <2>1, <1>7, FillOfSame
  <2>3. v.offers[o].remaining + FillOf(v, before) + done[o] = v.offers[o].give.amount
    BY <1>0, <1>7 DEF Conserved
  <2>4. CASE o # c
    <3>1. after = before
      BY <2>4, <1>5, <1>6, <1>7 DEF Open, MatchesOn
    <3> QED BY <3>1, <2>2, <2>3, <2>4, <1>7
  <2>5. CASE o = c
    <3>1. after = before \cup {id}
      BY <2>5, <1>5, <1>6, <1>7 DEF Open, MatchesOn
    <3>2. /\ IsFiniteSet(before) /\ IsFiniteSet({id}) /\ FillOf(v, before) \in Nat
          /\ \A m \in before : v.matches[m].makerAmount \in Nat
      BY <2>1, <1>0, FillsAreNaturals, FS_Singleton
    <3>3. \A m \in before \cup {id} : w.matches[m].makerAmount \in Nat
      BY <3>2, <2>1, <1>1, <1>5, <1>7
    <3>4. before \cap {id} = {}
      BY <2>1
    <3>5. FillOf(w, {id}) = fill
      <4>1. w.matches[id].makerAmount = fill /\ w.matches[id].makerAmount \in Nat
        BY <1>1, <1>5, <1>7
      <4> QED BY <4>1, FillOfOne
    <3> HIDE DEF before, after
    <3>6. FillOf(w, after) = FillOf(v, before) + fill
      BY <3>1, <3>2, <3>3, <3>4, <3>5, <2>2, FillOfUnion
    <3>7. /\ offer.remaining \in Nat /\ done[o] \in Nat /\ fill \in Nat
          /\ w.offers[o].remaining = offer.remaining - fill
          /\ w.offers[o].give = offer.give
      BY <2>5, <1>1, <1>3, <1>7 DEF Offer
    <3>8. offer.remaining + FillOf(v, before) + done[o] = offer.give.amount
      BY <2>3, <2>5 DEF offer
    <3>9. (offer.remaining - fill) + (FillOf(v, before) + fill) + done[o] = offer.give.amount
      BY <3>2, <3>7, <3>8
    <3> QED BY <3>6, <3>7, <3>9 DEF after
  <2> QED BY <2>4, <2>5
<1>11. TermsComplete(w) /\ FundedOpen(w)
  <2>1. match.makerKey # match.takerKey
    BY <1>5, FoldAssumption
  <2> QED BY <1>0, <1>5, <1>7, <2>1 DEF TermsComplete, FundedOpen
<1>12. Distinct(w)
  BY <1>0, <1>1, <1>5, <1>7 DEF Distinct
<1>13. InTime(w, h)
  <2>1. \A o \in DOMAIN w.offers : h < w.offers[o].expiresAt
    BY <1>0, <1>3, <1>7 DEF InTime, offer
  <2>2. \A m \in DOMAIN w.matches :
          /\ h < w.matches[m].pruneAt
          /\ w.matches[m].status = "awaitingProofs" => h <= w.matches[m].proofDeadline
    BY <1>0, <1>5, <1>7 DEF InTime
  <2> QED BY <2>1, <2>2 DEF InTime
<1> QED BY <1>8, <1>9, <1>10, <1>11, <1>12, <1>13 DEF Sound

(* Replacing an open match by an open match of the same terms keeps a view *)
(* sound, if the new match is complete in its own right.                   *)
LEMMA MatchUpdateSound ==
  ASSUME NEW v, NEW u, NEW h \in Nat, NEW done \in [OfferId -> Nat], Sound(v, h, u, done),
         NEW m \in DOMAIN v.matches, NEW new \in Match,
         v.matches[m].status # "cancelled", new.status # "cancelled",
         new.status = "awaitingProofs" => v.matches[m].status = "awaitingProofs",
         new.offerId = v.matches[m].offerId, new.makerAmount = v.matches[m].makerAmount,
         new.hash = v.matches[m].hash, new.pruneAt = v.matches[m].pruneAt,
         new.proofDeadline = v.matches[m].proofDeadline,
         new.status = "escrow" <=> new.makerProof /\ new.takerProof,
         new.makerProof <=> new.makerKey # None, new.makerKey # new.takerKey,
         new.makerLock \/ new.takerLock => new.status = "escrow",
         NEW w, w = WithMatch(v, m, new)
  PROVE  Sound(w, h, u, done)
<1>0. /\ ViewOK(v, u) /\ Linked(v, u, done) /\ Conserved(v, done)
      /\ TermsComplete(v) /\ FundedOpen(v) /\ Distinct(v) /\ InTime(v, h)
  BY DEF Sound
<1>1. /\ w.offers = v.offers /\ DOMAIN w.matches = DOMAIN v.matches /\ w.matches[m] = new
      /\ \A n \in DOMAIN v.matches : n # m => w.matches[n] = v.matches[n]
  BY DEF WithMatch
<1>2. \A n \in DOMAIN v.matches :
        /\ w.matches[n].offerId = v.matches[n].offerId
        /\ w.matches[n].makerAmount = v.matches[n].makerAmount
        /\ w.matches[n].hash = v.matches[n].hash
        /\ w.matches[n].pruneAt = v.matches[n].pruneAt
        /\ w.matches[n].proofDeadline = v.matches[n].proofDeadline
        /\ (w.matches[n].status # "cancelled") <=> (v.matches[n].status # "cancelled")
        /\ w.matches[n].status = "awaitingProofs" => v.matches[n].status = "awaitingProofs"
  BY <1>1
<1>3. ViewOK(w, u)
  BY <1>0, <1>1 DEF ViewOK
<1>4. Linked(w, u, done)
  BY <1>0, <1>1, <1>2 DEF Linked
<1>5. Conserved(w, done)
  <2>1. ASSUME NEW o \in DOMAIN w.offers
        PROVE  FillOf(w, Open(w) \cap MatchesOn(w, o)) = FillOf(v, Open(v) \cap MatchesOn(v, o))
    <3>1. Open(w) \cap MatchesOn(w, o) = Open(v) \cap MatchesOn(v, o)
      BY <1>1, <1>2 DEF Open, MatchesOn
    <3>2. \A n \in Open(v) \cap MatchesOn(v, o) :
            w.matches[n].makerAmount = v.matches[n].makerAmount
      BY <1>2 DEF Open
    <3>3. FillOf(w, Open(v) \cap MatchesOn(v, o)) = FillOf(v, Open(v) \cap MatchesOn(v, o))
      BY <3>2, FillOfSame
    <3> QED BY <3>1, <3>3
  <2>2. ASSUME NEW o \in DOMAIN w.offers
        PROVE  w.offers[o].remaining + FillOf(w, Open(w) \cap MatchesOn(w, o)) + done[o]
                 = w.offers[o].give.amount
    <3>1. v.offers[o].remaining + FillOf(v, Open(v) \cap MatchesOn(v, o)) + done[o]
            = v.offers[o].give.amount
      BY <1>0, <1>1 DEF Conserved
    <3> QED BY <3>1, <2>1, <1>1
  <2> QED BY <2>2 DEF Conserved
<1>6. TermsComplete(w) /\ FundedOpen(w)
  <2>1. new.status \in {"awaitingProofs", "escrow"}
    BY DEF Match
  <2> QED BY <2>1, <1>0, <1>1 DEF TermsComplete, FundedOpen
<1>7. Distinct(w)
  BY <1>0, <1>1, <1>2 DEF Distinct
<1>8. InTime(w, h)
  BY <1>0, <1>1, <1>2 DEF InTime
<1> QED BY <1>3, <1>4, <1>5, <1>6, <1>7, <1>8 DEF Sound

(* The maker's proof, and with both proofs the step into escrow.           *)
LEMMA MakerProofSound ==
  ASSUME NEW v, NEW u, NEW h \in Nat, NEW done \in [OfferId -> Nat], Sound(v, h, u, done),
         NEW p, NEW m, NEW key \in Key \cup {None}, NEW chain,
         MakerProofAccepted(v, p, m, key, chain, h),
         NEW w, w = MakerProven(v, m, key)
  PROVE  Sound(w, h, u, done)
<1> DEFINE old == v.matches[m]
           mid == [old EXCEPT !.makerProof = TRUE, !.makerKey = key]
           new == IntoEscrow(mid)
<1>1. /\ m \in DOMAIN v.matches /\ old.status = "awaitingProofs" /\ key # None
      /\ key # old.takerKey /\ ~old.makerProof /\ old \in Match
  BY DEF MakerProofAccepted, AwaitsProof, Sound, ViewOK
<1>2. /\ ~(old.makerLock \/ old.takerLock)
  BY <1>1 DEF Sound, TermsComplete
<1>3. w = WithMatch(v, m, new)
  BY Zenon DEF MakerProven
<1> HIDE DEF old
<1>4. /\ mid \in Match /\ mid.makerProof /\ mid.makerKey = key /\ mid.takerKey = old.takerKey
      /\ mid.takerProof = old.takerProof /\ mid.status = "awaitingProofs"
      /\ mid.offerId = old.offerId /\ mid.makerAmount = old.makerAmount /\ mid.hash = old.hash
      /\ mid.pruneAt = old.pruneAt /\ mid.proofDeadline = old.proofDeadline
      /\ mid.makerLock = old.makerLock /\ mid.takerLock = old.takerLock
  BY <1>1 DEF Match
<1> HIDE DEF mid
<1>5. /\ new \in Match /\ new.makerProof /\ new.makerKey = key /\ new.takerKey = old.takerKey
      /\ new.takerProof = mid.takerProof
      /\ new.status = IF mid.takerProof THEN "escrow" ELSE "awaitingProofs"
      /\ new.offerId = old.offerId /\ new.makerAmount = old.makerAmount /\ new.hash = old.hash
      /\ new.pruneAt = old.pruneAt /\ new.proofDeadline = old.proofDeadline
      /\ new.makerLock = old.makerLock /\ new.takerLock = old.takerLock
  BY <1>4 DEF IntoEscrow, Match
<1> HIDE DEF new
<1>6. /\ new.status # "cancelled" /\ new.makerKey # None /\ new.makerKey # new.takerKey
      /\ ~(new.makerLock \/ new.takerLock)
      /\ new.status = "escrow" <=> new.makerProof /\ new.takerProof
  BY <1>1, <1>2, <1>5
<1> QED BY <1>1, <1>3, <1>5, <1>6, MatchUpdateSound DEF old

(* The taker's proof, likewise.                                            *)
LEMMA TakerProofSound ==
  ASSUME NEW v, NEW u, NEW h \in Nat, NEW done \in [OfferId -> Nat], Sound(v, h, u, done),
         NEW p, NEW m, NEW key, NEW chain,
         TakerProofAccepted(v, p, m, key, chain, h),
         NEW w, w = TakerProven(v, m)
  PROVE  Sound(w, h, u, done)
<1> DEFINE old == v.matches[m]
           mid == [old EXCEPT !.takerProof = TRUE]
           new == IntoEscrow(mid)
<1>1. /\ m \in DOMAIN v.matches /\ old.status = "awaitingProofs"
      /\ ~old.takerProof /\ old \in Match
  BY DEF TakerProofAccepted, AwaitsProof, Sound, ViewOK
<1>2. /\ ~(old.makerLock \/ old.takerLock)
      /\ old.makerProof <=> old.makerKey # None
      /\ old.makerKey # old.takerKey
  BY <1>1 DEF Sound, TermsComplete
<1>3. w = WithMatch(v, m, new)
  BY Zenon DEF TakerProven
<1> HIDE DEF old
<1>4. /\ mid \in Match /\ mid.takerProof /\ mid.makerKey = old.makerKey
      /\ mid.takerKey = old.takerKey
      /\ mid.makerProof = old.makerProof /\ mid.status = "awaitingProofs"
      /\ mid.offerId = old.offerId /\ mid.makerAmount = old.makerAmount /\ mid.hash = old.hash
      /\ mid.pruneAt = old.pruneAt /\ mid.proofDeadline = old.proofDeadline
      /\ mid.makerLock = old.makerLock /\ mid.takerLock = old.takerLock
  BY <1>1 DEF Match
<1> HIDE DEF mid
<1>5. /\ new \in Match /\ new.takerProof /\ new.makerKey = old.makerKey
      /\ new.takerKey = old.takerKey /\ new.makerProof = old.makerProof
      /\ new.status = IF mid.makerProof THEN "escrow" ELSE "awaitingProofs"
      /\ new.offerId = old.offerId /\ new.makerAmount = old.makerAmount /\ new.hash = old.hash
      /\ new.pruneAt = old.pruneAt /\ new.proofDeadline = old.proofDeadline
      /\ new.makerLock = old.makerLock /\ new.takerLock = old.takerLock
  BY <1>4 DEF IntoEscrow, Match
<1> HIDE DEF new
<1>6. /\ new.status # "cancelled" /\ new.makerKey # new.takerKey
      /\ new.makerProof <=> new.makerKey # None
      /\ ~(new.makerLock \/ new.takerLock)
      /\ new.status = "escrow" <=> new.makerProof /\ new.takerProof
  BY <1>1, <1>2, <1>4, <1>5
<1> QED BY <1>1, <1>3, <1>5, <1>6, MatchUpdateSound DEF old

(* A lock hint is recorded in escrow and changes nothing else.             *)
LEMMA LockSound ==
  ASSUME NEW v, NEW u, NEW h \in Nat, NEW done \in [OfferId -> Nat], Sound(v, h, u, done),
         NEW m, InEscrow(v, m),
         NEW w, w = MakerLocked(v, m) \/ w = TakerLocked(v, m)
  PROVE  Sound(w, h, u, done)
<1> DEFINE old == v.matches[m]
           mkr == [old EXCEPT !.makerLock = TRUE]
           tkr == [old EXCEPT !.takerLock = TRUE]
<1>1. m \in DOMAIN v.matches /\ old.status = "escrow" /\ old \in Match
  BY DEF InEscrow, Sound, ViewOK
<1>2. /\ old.makerProof /\ old.takerProof
      /\ old.makerProof <=> old.makerKey # None
      /\ old.makerKey # old.takerKey
  BY <1>1 DEF Sound, TermsComplete
<1>3. w = WithMatch(v, m, mkr) \/ w = WithMatch(v, m, tkr)
  BY Zenon DEF MakerLocked, TakerLocked
<1> HIDE DEF old
<1>4. ASSUME NEW new \in {mkr, tkr}
      PROVE  /\ new \in Match /\ new.status = "escrow"
             /\ new.makerProof = old.makerProof /\ new.takerProof = old.takerProof
             /\ new.makerKey = old.makerKey /\ new.takerKey = old.takerKey
             /\ new.offerId = old.offerId /\ new.makerAmount = old.makerAmount
             /\ new.hash = old.hash /\ new.pruneAt = old.pruneAt
             /\ new.proofDeadline = old.proofDeadline
  <2>1. CASE new = mkr
    BY <2>1, <1>1 DEF Match
  <2>2. CASE new = tkr
    BY <2>2, <1>1 DEF Match
  <2> QED BY <2>1, <2>2
<1>5. PICK new \in {mkr, tkr} : w = WithMatch(v, m, new)
  BY <1>3
<1> HIDE DEF mkr, tkr
<1>6. /\ new \in Match /\ new.status = "escrow" /\ new.status # "cancelled"
      /\ new.status = "escrow" <=> new.makerProof /\ new.takerProof
      /\ new.makerProof <=> new.makerKey # None
      /\ new.makerKey # new.takerKey /\ old.status # "cancelled"
  BY <1>1, <1>2, <1>4, <1>5
<1>7. /\ new.offerId = old.offerId /\ new.makerAmount = old.makerAmount
      /\ new.hash = old.hash /\ new.pruneAt = old.pruneAt
      /\ new.proofDeadline = old.proofDeadline
  BY <1>4, <1>5
<1> QED BY <1>1, <1>5, <1>6, <1>7, MatchUpdateSound DEF old

(* An abort gives the fill back to the offer, if it is still listed.       *)
LEMMA AbortSound ==
  ASSUME NEW v, NEW u, NEW h \in Nat, NEW done \in [OfferId -> Nat], Sound(v, h, u, done),
         NEW p, NEW m, AbortAccepted(v, p, m),
         NEW w, w = Aborted(v, m, h)
  PROVE  Sound(w, h, u, done)
<1> DEFINE old == v.matches[m]
           stamp == [at |-> h, reason |-> "abort"]
           new == [old EXCEPT !.status = "cancelled", !.cancelled = stamp]
<1>0. /\ ViewOK(v, u) /\ Linked(v, u, done) /\ Conserved(v, done)
      /\ TermsComplete(v) /\ FundedOpen(v) /\ Distinct(v) /\ InTime(v, h)
  BY DEF Sound
<1>1. /\ m \in DOMAIN v.matches /\ old \in Match /\ old.status # "cancelled" /\ ~old.makerLock
  BY <1>0 DEF AbortAccepted, ViewOK
<1>2. /\ w.offers = [o \in DOMAIN v.offers |-> RestoreCapacity(v, o, {m})]
      /\ w.matches = [v.matches EXCEPT ![m] = new]
  BY DEF Aborted
<1>3. stamp \in [at : Nat, reason : {"noProof", "abort"}]
  OBVIOUS
<1> HIDE DEF old, stamp
<1>4. /\ new \in Match /\ new.status = "cancelled" /\ new.makerLock = old.makerLock
      /\ new.makerProof = old.makerProof /\ new.takerProof = old.takerProof
      /\ new.makerKey = old.makerKey /\ new.takerKey = old.takerKey
      /\ new.takerLock = old.takerLock
      /\ new.offerId = old.offerId /\ new.makerAmount = old.makerAmount
      /\ new.hash = old.hash /\ new.pruneAt = old.pruneAt
      /\ new.proofDeadline = old.proofDeadline
  BY <1>1, <1>3 DEF Match
<1> HIDE DEF new
<1>5. /\ DOMAIN w.matches = DOMAIN v.matches /\ w.matches[m] = new
      /\ \A n \in DOMAIN v.matches : n # m => w.matches[n] = v.matches[n]
  BY <1>2, <1>1
<1>6. ASSUME NEW o \in DOMAIN v.offers
      PROVE  /\ o \in DOMAIN w.offers /\ w.offers[o] \in Offer
             /\ w.offers[o].remaining = v.offers[o].remaining
                                          + FillOf(v, {m} \cap MatchesOn(v, o))
             /\ w.offers[o].give = v.offers[o].give
             /\ w.offers[o].expiresAt = v.offers[o].expiresAt
             /\ FillOf(v, {m} \cap MatchesOn(v, o)) \in Nat
  <2>1. w.offers[o] = RestoreCapacity(v, o, {m}) /\ o \in DOMAIN w.offers
    BY <1>2
  <2>2. {m} \cap MatchesOn(v, o) \in SUBSET DOMAIN v.matches
    BY <1>1
  <2>3. FillOf(v, {m} \cap MatchesOn(v, o)) \in Nat
    BY <2>2, <1>0, FillsAreNaturals
  <2>4. v.offers[o] \in Offer
    BY <1>0 DEF ViewOK
  <2> QED BY <2>1, <2>3, <2>4, RestoreShape
<1>7. DOMAIN w.offers = DOMAIN v.offers
  BY <1>2
<1>8. ViewOK(w, u)
  <2>1. \A o \in DOMAIN w.offers : w.offers[o] \in Offer
    BY <1>6, <1>7
  <2>2. \A n \in DOMAIN w.matches : w.matches[n] \in Match
    BY <1>0, <1>4, <1>5 DEF ViewOK
  <2> QED BY <1>0, <1>5, <1>7, <2>1, <2>2 DEF ViewOK
<1>9. Linked(w, u, done)
  BY <1>0, <1>1, <1>4, <1>5 DEF Linked, old
<1>10. Conserved(w, done)
  <2> SUFFICES ASSUME NEW o \in DOMAIN w.offers
               PROVE  w.offers[o].remaining + FillOf(w, Open(w) \cap MatchesOn(w, o)) + done[o]
                        = w.offers[o].give.amount
    BY DEF Conserved
  <2> DEFINE before   == Open(v) \cap MatchesOn(v, o)
             after    == Open(w) \cap MatchesOn(w, o)
             restored == {m} \cap MatchesOn(v, o)
  <2>1. before \in SUBSET DOMAIN v.matches
    BY DEF Open
  <2>2. after = before \ {m}
    BY <1>4, <1>5, <1>1 DEF Open, MatchesOn
  <2>3. before = after \cup restored /\ after \cap restored = {}
    BY <2>2, <1>1 DEF Open, MatchesOn, old
  <2>4. \A n \in after : w.matches[n].makerAmount = v.matches[n].makerAmount
    BY <2>1, <2>2, <1>5
  <2>5. after \in SUBSET DOMAIN v.matches /\ restored \in SUBSET DOMAIN v.matches
    BY <2>1, <2>3
  <2> HIDE DEF before, after, restored
  <2>6. FillOf(w, after) = FillOf(v, after)
    BY <2>4, FillOfSame
  <2>7. /\ IsFiniteSet(after) /\ IsFiniteSet(restored) /\ FillOf(v, after) \in Nat
        /\ \A n \in after \cup restored : v.matches[n].makerAmount \in Nat
    BY <2>5, <1>0, FillsAreNaturals
  <2>8. FillOf(v, before) = FillOf(v, after) + FillOf(v, restored)
    BY <2>3, <2>7, FillOfUnion
  <2>9. v.offers[o].remaining + FillOf(v, before) + done[o] = v.offers[o].give.amount
    BY <1>0, <1>7 DEF Conserved, before
  <2>10. /\ w.offers[o].remaining = v.offers[o].remaining + FillOf(v, restored)
         /\ w.offers[o].give = v.offers[o].give /\ FillOf(v, restored) \in Nat
    BY <1>6, <1>7 DEF restored
  <2>11. v.offers[o].remaining \in Nat /\ done[o] \in Nat
    BY <1>0, <1>7 DEF ViewOK, Offer
  <2> QED BY <2>6, <2>7, <2>8, <2>9, <2>10, <2>11 DEF after
<1>11. TermsComplete(w) /\ FundedOpen(w)
  BY <1>0, <1>1, <1>4, <1>5 DEF TermsComplete, FundedOpen, old
<1>12. Distinct(w)
  BY <1>0, <1>1, <1>4, <1>5 DEF Distinct, old
<1>13. InTime(w, h)
  <2>1. \A o \in DOMAIN w.offers : h < w.offers[o].expiresAt
    BY <1>0, <1>6, <1>7 DEF InTime
  <2>2. \A n \in DOMAIN w.matches :
          /\ h < w.matches[n].pruneAt
          /\ w.matches[n].status = "awaitingProofs" => h <= w.matches[n].proofDeadline
    BY <1>0, <1>1, <1>4, <1>5 DEF InTime, old
  <2> QED BY <2>1, <2>2 DEF InTime
<1> QED BY <1>8, <1>9, <1>10, <1>11, <1>12, <1>13 DEF Sound

-----------------------------------------------------------------------------
(* The state machine.                                                      *)

(* The empty board is sound.                                               *)
LEMMA InitSound == Init => BoardInv
<1> SUFFICES ASSUME Init PROVE BoardInv
  OBVIOUS
<1>1. /\ view.offers = <<>> /\ view.matches = <<>> /\ height = 0 /\ used = {}
      /\ settled = [o \in OfferId |-> 0]
  BY DEF Init, emptyView
<1>2. DOMAIN view.offers = {} /\ DOMAIN view.matches = {}
  BY <1>1
<1>3. TypeOK
  BY <1>1, <1>2 DEF TypeOK, ViewOK
<1>4. Sound(view, height, used, settled)
  BY <1>1, <1>2 DEF Sound, ViewOK, Linked, Conserved, TermsComplete, FundedOpen, Distinct, InTime
<1> QED BY <1>3, <1>4 DEF BoardInv

(* A step that leaves a sound view leaves the invariant.                   *)
LEMMA FoldsSound ==
  ASSUME BoardInv, NEW h, NEW after, Folds(h, after),
         used' \subseteq OfferId \cup MatchId,
         ASSUME h \in Nat, Sound(advance(view, h), h, used, Settling(view, settled, h)),
                Settling(view, settled, h) \in [OfferId -> Nat]
         PROVE  Sound(after, h, used', Settling(view, settled, h))
  PROVE  BoardInv'
<1>1. height \in Nat /\ h \in Nat /\ height <= h
  BY BoardAssumption DEF BoardInv, TypeOK, Folds
<1>2. /\ Sound(advance(view, h), h, used, Settling(view, settled, h))
      /\ Settling(view, settled, h) \in [OfferId -> Nat]
  <2>1. Sound(view, height, used, settled) /\ settled \in [OfferId -> Nat]
    BY DEF BoardInv, TypeOK
  <2> QED BY <1>1, <2>1, AdvanceSound
<1>3. Sound(after, h, used', Settling(view, settled, h))
  BY <1>1, <1>2
<1>4. view' = after /\ height' = h /\ settled' = Settling(view, settled, h)
  BY DEF Folds
<1>5. Sound(view', height', used', settled')
  BY <1>3, <1>4
<1>6. ViewOK(view', used')
  BY <1>5 DEF Sound
<1> QED BY <1>1, <1>2, <1>4, <1>5, <1>6 DEF BoardInv, TypeOK

(* Every action keeps the invariant.                                       *)
LEMMA StepSound == BoardInv /\ [Next]_vars => BoardInv'
<1> SUFFICES ASSUME BoardInv, [Next]_vars
             PROVE  BoardInv'
  OBVIOUS
<1> DEFINE v(h) == advance(view, h)
           d(h) == Settling(view, settled, h)
<1>0. used \subseteq OfferId \cup MatchId
  BY DEF BoardInv, TypeOK
<1>1. ASSUME NEW h, Tick(h)
      PROVE  BoardInv'
  <2>1. Folds(h, v(h)) /\ used' = used
    BY <1>1 DEF Tick
  <2> QED BY <2>1, <1>0, FoldsSound
<1>2. ASSUME NEW h, NEW id \in OfferId, NEW w \in Party, NEW op \in PostOp, Post(id, w, op, h)
      PROVE  BoardInv'
  <2>1. CASE PostAccepted(v(h), id, op)
    <3>1. id \notin used /\ Folds(h, Posted(v(h), id, w, op, h)) /\ used' = used \cup {id}
      BY <1>2, <2>1 DEF Post
    <3>2. ASSUME h \in Nat, Sound(v(h), h, used, d(h)), d(h) \in [OfferId -> Nat]
          PROVE  Sound(Posted(v(h), id, w, op, h), h, used', d(h))
      BY <3>1, <3>2, PostSound
    <3> QED BY <3>1, <3>2, <1>0, FoldsSound
  <2>2. CASE ~PostAccepted(v(h), id, op)
    <3>1. Folds(h, v(h)) /\ used' = used
      BY <1>2, <2>2 DEF Post
    <3> QED BY <3>1, <1>0, FoldsSound
  <2> QED BY <2>1, <2>2
<1>3. ASSUME NEW h, NEW w \in Party, NEW o \in OfferId, Cancel(w, o, h)
      PROVE  BoardInv'
  <2>1. used' = used /\ (Folds(h, Cancelled(v(h), o)) \/ Folds(h, v(h)))
    BY <1>3 DEF Cancel
  <2>2. ASSUME h \in Nat, Sound(v(h), h, used, d(h)), d(h) \in [OfferId -> Nat]
        PROVE  Sound(Cancelled(v(h), o), h, used', d(h))
    BY <2>1, <2>2, CancelSound
  <2> QED BY <2>1, <2>2, <1>0, FoldsSound
<1>4. ASSUME NEW h, NEW id \in MatchId, NEW w \in Party, NEW o \in OfferId, NEW fill \in FillAmount,
             NEW hash \in Hash, NEW key \in Key, Take(id, w, o, fill, hash, key, h)
      PROVE  BoardInv'
  <2>1. CASE TakeAccepted(v(h), id, w, o, fill, hash)
    <3>1. /\ id \notin used /\ Folds(h, Taken(v(h), id, w, o, fill, hash, key, h))
          /\ used' = used \cup {id}
      BY <1>4, <2>1 DEF Take
    <3>2. ASSUME h \in Nat, Sound(v(h), h, used, d(h)), d(h) \in [OfferId -> Nat]
          PROVE  Sound(Taken(v(h), id, w, o, fill, hash, key, h), h, used', d(h))
      BY <3>1, <3>2, <2>1, TakeSound
    <3> QED BY <3>1, <3>2, <1>0, FoldsSound
  <2>2. CASE ~TakeAccepted(v(h), id, w, o, fill, hash)
    <3>1. Folds(h, v(h)) /\ used' = used
      BY <1>4, <2>2 DEF Take
    <3> QED BY <3>1, <1>0, FoldsSound
  <2> QED BY <2>1, <2>2
<1>5. ASSUME NEW h, NEW w \in Party, NEW m \in MatchId, NEW key \in Key \cup {None},
             NEW chain \in Chain, Proof(w, m, key, chain, h)
      PROVE  BoardInv'
  <2>1. CASE MakerProofAccepted(v(h), w, m, key, chain, h)
    <3>1. Folds(h, MakerProven(v(h), m, key)) /\ used' = used
      BY <1>5, <2>1 DEF Proof
    <3>2. ASSUME h \in Nat, Sound(v(h), h, used, d(h)), d(h) \in [OfferId -> Nat]
          PROVE  Sound(MakerProven(v(h), m, key), h, used', d(h))
      BY <3>1, <3>2, <2>1, MakerProofSound
    <3> QED BY <3>1, <3>2, <1>0, FoldsSound
  <2>2. CASE ~MakerProofAccepted(v(h), w, m, key, chain, h)
             /\ TakerProofAccepted(v(h), w, m, key, chain, h)
    <3>1. Folds(h, TakerProven(v(h), m)) /\ used' = used
      BY <1>5, <2>2 DEF Proof
    <3>2. ASSUME h \in Nat, Sound(v(h), h, used, d(h)), d(h) \in [OfferId -> Nat]
          PROVE  Sound(TakerProven(v(h), m), h, used', d(h))
      BY <3>1, <3>2, <2>2, TakerProofSound
    <3> QED BY <3>1, <3>2, <1>0, FoldsSound
  <2>3. CASE ~MakerProofAccepted(v(h), w, m, key, chain, h)
             /\ ~TakerProofAccepted(v(h), w, m, key, chain, h)
    <3>1. Folds(h, v(h)) /\ used' = used
      BY <1>5, <2>3 DEF Proof
    <3> QED BY <3>1, <1>0, FoldsSound
  <2> QED BY <2>1, <2>2, <2>3
<1>6. ASSUME NEW h, NEW w \in Party, NEW m \in MatchId, Locked(w, m, h)
      PROVE  BoardInv'
  <2>1. CASE MakerLockAccepted(v(h), w, m) \/ TakerLockAccepted(v(h), w, m)
    <3>1. PICK after \in {MakerLocked(v(h), m), TakerLocked(v(h), m)} :
            Folds(h, after) /\ used' = used
      BY <1>6, <2>1 DEF Locked
    <3>2. ASSUME h \in Nat, Sound(v(h), h, used, d(h)), d(h) \in [OfferId -> Nat]
          PROVE  Sound(after, h, used', d(h))
      <4>1. InEscrow(v(h), m)
        BY <2>1 DEF MakerLockAccepted, TakerLockAccepted
      <4> QED BY <3>1, <3>2, <4>1, LockSound
    <3> QED BY <3>1, <3>2, <1>0, FoldsSound
  <2>2. CASE ~MakerLockAccepted(v(h), w, m) /\ ~TakerLockAccepted(v(h), w, m)
    <3>1. Folds(h, v(h)) /\ used' = used
      BY <1>6, <2>2 DEF Locked
    <3> QED BY <3>1, <1>0, FoldsSound
  <2> QED BY <2>1, <2>2
<1>7. ASSUME NEW h, NEW w \in Party, NEW m \in MatchId, Abort(w, m, h)
      PROVE  BoardInv'
  <2>1. CASE AbortAccepted(v(h), w, m)
    <3>1. Folds(h, Aborted(v(h), m, h)) /\ used' = used
      BY <1>7, <2>1 DEF Abort
    <3>2. ASSUME h \in Nat, Sound(v(h), h, used, d(h)), d(h) \in [OfferId -> Nat]
          PROVE  Sound(Aborted(v(h), m, h), h, used', d(h))
      BY <3>1, <3>2, <2>1, AbortSound
    <3> QED BY <3>1, <3>2, <1>0, FoldsSound
  <2>2. CASE ~AbortAccepted(v(h), w, m)
    <3>1. Folds(h, v(h)) /\ used' = used
      BY <1>7, <2>2 DEF Abort
    <3> QED BY <3>1, <1>0, FoldsSound
  <2> QED BY <2>1, <2>2
<1>8. CASE UNCHANGED vars
  BY <1>8 DEF vars, BoardInv, TypeOK
<1> QED BY <1>1, <1>2, <1>3, <1>4, <1>5, <1>6, <1>7, <1>8 DEF Next

(* The invariant holds in every reachable state.                           *)
THEOREM BoardSafe == Spec => []BoardInv
BY InitSound, StepSound, PTL DEF Spec

(* The board's state is always well formed, whatever writes are folded at  *)
(* whatever heights (src/market/fold.ts).                                  *)
THEOREM TypeCorrect == Spec => []TypeOK
<1>1. BoardInv => TypeOK
  BY DEF BoardInv
<1> QED BY <1>1, BoardSafe, PTL

(* No unit of an offer is promised twice or lost, for every number of      *)
(* offers, matches and parties and every price and window (offer.take,     *)
(* swap.abort and advance of fold.ts).                                     *)
THEOREM CapacityAlwaysConserved == Spec => []CapacityConserved
<1>1. BoardInv => CapacityConserved
  BY DEF BoardInv, Sound, CapacityConserved
<1> QED BY <1>1, BoardSafe, PTL

(* Escrow always has complete terms: both proofs and a maker key that is   *)
(* not the taker's (swap.proof, swap.locked, swap.abort and advance of     *)
(* fold.ts).                                                               *)
THEOREM EscrowAlwaysHasTerms == Spec => []EscrowHasTerms
<1>1. BoardInv => EscrowHasTerms
  BY DEF BoardInv, Sound, EscrowHasTerms
<1> QED BY <1>1, BoardSafe, PTL

(* A swap the maker has funded on the record is never cancelled, whatever  *)
(* the order of ops and deadlines (swap.locked, swap.abort and advance of  *)
(* fold.ts).                                                               *)
THEOREM FundedIsNeverCancelled == Spec => []FundedNeverCancelled
<1>1. BoardInv => FundedNeverCancelled
  BY DEF BoardInv, Sound, FundedNeverCancelled
<1> QED BY <1>1, BoardSafe, PTL

(* No two matches on the board ever share a hash (offer.take of fold.ts).  *)
THEOREM HashesAlwaysDistinct == Spec => []HashesDistinct
<1>1. BoardInv => HashesDistinct
  BY DEF BoardInv, Sound, HashesDistinct
<1> QED BY <1>1, BoardSafe, PTL

(* Nothing timed outlives its deadline (advance of fold.ts).               *)
THEOREM DeadlinesAlwaysKept == Spec => []DeadlinesKept
<1>1. BoardInv => DeadlinesKept
  BY DEF BoardInv, Sound, DeadlinesKept
<1> QED BY <1>1, BoardSafe, PTL

(* A reachable board reaches the same view in one advance or in two, for   *)
(* any two heights: a node that folds from a checkpoint agrees with one    *)
(* that folds from the start (header of fold.ts).                          *)
THEOREM AdvanceIsPathIndependent == Spec => []AdvancePathIndependent
<1>1. BoardInv => AdvancePathIndependent
  <2> SUFFICES ASSUME BoardInv, NEW a \in height..MaxHeight, NEW b \in a..MaxHeight
               PROVE  advance(advance(view, a), b) = advance(view, b)
    BY DEF AdvancePathIndependent
  <2>1. ViewOK(view, used) /\ Linked(view, used, settled) /\ height \in Nat
    BY DEF BoardInv, TypeOK, Sound
  <2>2. a \in Nat /\ b \in Nat /\ a <= b
    BY <2>1, BoardAssumption
  <2> QED BY <2>1, <2>2, AdvanceTwice
<1> QED BY <1>1, BoardSafe, PTL

-----------------------------------------------------------------------------
(* What a step may do to a match.                                          *)

(* Matches on the board of v that are not on the board of w were due for   *)
(* pruning by h, the others only moved forward.                            *)
MovesForward(v, w, h) ==
  \A m \in DOMAIN v.matches :
    \/ m \notin DOMAIN w.matches /\ v.matches[m].pruneAt <= h
    \/ m \in DOMAIN w.matches /\ Forward(v.matches[m], w.matches[m])

(* Moving forward is transitive.                                           *)
LEMMA ForwardTwice ==
  ASSUME NEW a, NEW b \in Match, NEW c, Forward(a, b), Forward(b, c)
  PROVE  Forward(a, c)
<1>1. TermsOf(c) = TermsOf(a)
  BY DEF Forward
<1>2. a.makerKey # None => c.makerKey = a.makerKey
  BY DEF Forward
<1>3. (a.makerLock => c.makerLock) /\ (a.takerLock => c.takerLock)
  BY Zenon DEF Forward
<1>4. /\ a.status = "escrow" => c.status # "awaitingProofs"
      /\ a.status = "cancelled" => c.status = "cancelled" /\ c.cancelled = a.cancelled
  <2>1. b.status \in {"awaitingProofs", "escrow", "cancelled"}
    BY DEF Match
  <2> QED BY <2>1 DEF Forward
<1> QED BY <1>1, <1>2, <1>3, <1>4 DEF Forward

(* A match that does not change has not gone back.                         *)
LEMMA ForwardSame == ASSUME NEW m PROVE Forward(m, m)
BY DEF Forward

(* Time alone only moves matches forward.                                  *)
LEMMA AdvanceForward ==
  ASSUME NEW v, NEW u, ViewOK(v, u), TermsComplete(v), NEW h \in Nat
  PROVE  MovesForward(v, advance(v, h), h)
<1> DEFINE w == advance(v, h)
<1> SUFFICES ASSUME NEW m \in DOMAIN v.matches, m \in DOMAIN w.matches
             PROVE  Forward(v.matches[m], w.matches[m])
  BY AdvanceShape DEF MovesForward, Prunable
<1> DEFINE old == v.matches[m]
           new == w.matches[m]
<1>1. /\ new.maker = old.maker /\ new.taker = old.taker
      /\ new.makerAmount = old.makerAmount /\ new.takerAmount = old.takerAmount
      /\ new.hash = old.hash /\ new.takerKey = old.takerKey
      /\ new.proofDeadline = old.proofDeadline /\ new.pruneAt = old.pruneAt
      /\ new.makerKey = old.makerKey
      /\ new.makerLock = old.makerLock /\ new.takerLock = old.takerLock
  BY AdvanceKeeps
<1>2. /\ new.status = IF m \in Unproven(v, h) THEN "cancelled" ELSE old.status
      /\ m \notin Unproven(v, h) => new.cancelled = old.cancelled
      /\ m \in Unproven(v, h) => old.status = "awaitingProofs"
  BY AdvanceKeeps DEF Unproven
<1> HIDE DEF old, new
<1>3. Forward(old, new)
  BY <1>1, <1>2 DEF Forward, TermsOf
<1> QED BY <1>3 DEF old, new

(* Replacing a match by one that is further leaves the others alone.       *)
LEMMA WithMatchForward ==
  ASSUME NEW w, NEW m \in DOMAIN w.matches, NEW new, Forward(w.matches[m], new)
  PROVE  /\ DOMAIN WithMatch(w, m, new).matches = DOMAIN w.matches
         /\ \A n \in DOMAIN w.matches : Forward(w.matches[n], WithMatch(w, m, new).matches[n])
<1>1. WithMatch(w, m, new).matches = [w.matches EXCEPT ![m] = new]
  BY DEF WithMatch
<1>2. \A n \in DOMAIN w.matches :
        WithMatch(w, m, new).matches[n] = IF n = m THEN new ELSE w.matches[n]
  BY <1>1
<1> QED BY <1>1, <1>2, ForwardSame

(* No op takes a match back, drops one or adds one under a used id.        *)
OpForward(w, after, u) ==
  /\ DOMAIN w.matches \subseteq DOMAIN after.matches
  /\ DOMAIN after.matches \cap u \subseteq DOMAIN w.matches
  /\ \A m \in DOMAIN w.matches : Forward(w.matches[m], after.matches[m])

(* Posting, cancelling and taking an offer leave every match as it is.     *)
LEMMA OfferOpsForward ==
  ASSUME NEW w, NEW u
  PROVE  /\ \A id, p, op, h : OpForward(w, Posted(w, id, p, op, h), u)
         /\ \A o : OpForward(w, Cancelled(w, o), u)
         /\ \A id, p, o, fill, hash, key, h :
              id \notin DOMAIN w.matches \cup u => OpForward(w, Taken(w, id, p, o, fill, hash, key, h), u)
<1>1. ASSUME NEW x, x.matches = w.matches PROVE OpForward(w, x, u)
  BY <1>1, ForwardSame DEF OpForward
<1>2. ASSUME NEW id, NEW p, NEW op, NEW h PROVE OpForward(w, Posted(w, id, p, op, h), u)
  <2>1. Posted(w, id, p, op, h).matches = w.matches
    BY DEF Posted
  <2> QED BY <2>1, <1>1
<1>3. ASSUME NEW o PROVE OpForward(w, Cancelled(w, o), u)
  <2>1. Cancelled(w, o).matches = w.matches
    BY DEF Cancelled
  <2> QED BY <2>1, <1>1
<1>4. ASSUME NEW id, NEW p, NEW o, NEW fill, NEW hash, NEW key, NEW h, id \notin DOMAIN w.matches \cup u
      PROVE  OpForward(w, Taken(w, id, p, o, fill, hash, key, h), u)
  <2> DEFINE x == Taken(w, id, p, o, fill, hash, key, h)
  <2>1. \E match : x.matches = Put(w.matches, id, match)
    BY DEF Taken
  <2>2. /\ DOMAIN x.matches = DOMAIN w.matches \cup {id}
        /\ \A m \in DOMAIN w.matches : x.matches[m] = w.matches[m]
    <3> HIDE DEF x
    <3> QED BY <2>1, <1>4 DEF Put
  <2> QED BY <2>2, <1>4, ForwardSame DEF OpForward
<1> QED BY <1>2, <1>3, <1>4

(* The ops on a match only move it forward.                                *)
LEMMA MatchOpsForward ==
  ASSUME NEW w, NEW u, ViewOK(w, u), TermsComplete(w), NEW p, NEW m, NEW h
  PROVE  /\ \A key, chain : MakerProofAccepted(w, p, m, key, chain, h)
                              => OpForward(w, MakerProven(w, m, key), u)
         /\ \A key, chain : TakerProofAccepted(w, p, m, key, chain, h)
                              => OpForward(w, TakerProven(w, m), u)
         /\ MakerLockAccepted(w, p, m) => OpForward(w, MakerLocked(w, m), u)
         /\ TakerLockAccepted(w, p, m) => OpForward(w, TakerLocked(w, m), u)
         /\ AbortAccepted(w, p, m) => OpForward(w, Aborted(w, m, h), u)
<1> DEFINE old == w.matches[m]
<1> SUFFICES ASSUME m \in DOMAIN w.matches
             PROVE  /\ \A key, chain : MakerProofAccepted(w, p, m, key, chain, h)
                              => OpForward(w, MakerProven(w, m, key), u)
                    /\ \A key, chain : TakerProofAccepted(w, p, m, key, chain, h)
                              => OpForward(w, TakerProven(w, m), u)
                    /\ MakerLockAccepted(w, p, m) => OpForward(w, MakerLocked(w, m), u)
                    /\ TakerLockAccepted(w, p, m) => OpForward(w, TakerLocked(w, m), u)
                    /\ AbortAccepted(w, p, m) => OpForward(w, Aborted(w, m, h), u)
  BY Zenon DEF MakerProofAccepted, TakerProofAccepted, AwaitsProof, MakerLockAccepted,
               TakerLockAccepted, InEscrow, AbortAccepted
<1>1. old \in Match /\ (old.makerProof <=> old.makerKey # None)
  BY DEF ViewOK, TermsComplete
<1>2. ASSUME NEW new, Forward(old, new) PROVE OpForward(w, WithMatch(w, m, new), u)
  BY <1>2, WithMatchForward, Zenon DEF OpForward
<1> HIDE DEF old
<1>3. ASSUME NEW key, NEW chain, MakerProofAccepted(w, p, m, key, chain, h)
      PROVE  OpForward(w, MakerProven(w, m, key), u)
  <2> DEFINE new == IntoEscrow([old EXCEPT !.makerProof = TRUE, !.makerKey = key])
  <2>1. old.status = "awaitingProofs" /\ old.makerKey = None
    BY <1>1, <1>3 DEF MakerProofAccepted, AwaitsProof, old
  <2>2. Forward(old, new)
    BY <1>1, <2>1 DEF Forward, TermsOf, IntoEscrow, Match
  <2>3. MakerProven(w, m, key) = WithMatch(w, m, new)
    BY DEF MakerProven, old
  <2> HIDE DEF new
  <2> QED BY <2>2, <2>3, <1>2
<1>4. ASSUME NEW key, NEW chain, TakerProofAccepted(w, p, m, key, chain, h)
      PROVE  OpForward(w, TakerProven(w, m), u)
  <2> DEFINE new == IntoEscrow([old EXCEPT !.takerProof = TRUE])
  <2>1. old.status = "awaitingProofs"
    BY <1>4 DEF TakerProofAccepted, AwaitsProof, old
  <2>2. Forward(old, new)
    BY <1>1, <2>1 DEF Forward, TermsOf, IntoEscrow, Match
  <2>3. TakerProven(w, m) = WithMatch(w, m, new)
    BY DEF TakerProven, old
  <2> HIDE DEF new
  <2> QED BY <2>2, <2>3, <1>2
<1>5. OpForward(w, MakerLocked(w, m), u) /\ OpForward(w, TakerLocked(w, m), u)
  <2>1. Forward(old, [old EXCEPT !.makerLock = TRUE])
    BY <1>1 DEF Forward, TermsOf, Match
  <2>2. Forward(old, [old EXCEPT !.takerLock = TRUE])
    BY <1>1 DEF Forward, TermsOf, Match
  <2> QED BY <2>1, <2>2, <1>2 DEF MakerLocked, TakerLocked, old
<1>6. ASSUME AbortAccepted(w, p, m) PROVE OpForward(w, Aborted(w, m, h), u)
  <2> DEFINE new == [old EXCEPT !.status = "cancelled",
                                !.cancelled = [at |-> h, reason |-> "abort"]]
  <2>1. old.status # "cancelled"
    BY <1>6 DEF AbortAccepted, old
  <2>2. Forward(old, new)
    BY <1>1, <2>1 DEF Forward, TermsOf, Match
  <2>3. Aborted(w, m, h).matches = WithMatch(w, m, new).matches
    BY DEF Aborted, WithMatch, old
  <2> HIDE DEF new
  <2> QED BY <2>2, <2>3, <1>2 DEF OpForward
<1> QED BY <1>3, <1>4, <1>5, <1>6

(* A step folds an op, or none, into the view moved to some height.        *)
LEMMA StepForward ==
  BoardInv /\ [Next]_vars =>
    \A m \in DOMAIN view.matches :
       \/ m \notin DOMAIN view'.matches /\ view.matches[m].pruneAt <= height'
       \/ m \in DOMAIN view'.matches /\ Forward(view.matches[m], view'.matches[m])
<1> SUFFICES ASSUME BoardInv, [Next]_vars, NEW m \in DOMAIN view.matches
             PROVE  \/ m \notin DOMAIN view'.matches /\ view.matches[m].pruneAt <= height'
                    \/ m \in DOMAIN view'.matches /\ Forward(view.matches[m], view'.matches[m])
  OBVIOUS
<1> DEFINE w(h) == advance(view, h)
<1>0. /\ Sound(view, height, used, settled) /\ ViewOK(view, used) /\ TermsComplete(view)
      /\ height \in Nat /\ settled \in [OfferId -> Nat]
  BY DEF BoardInv, Sound, TypeOK
<1> DEFINE Goal == \/ m \notin DOMAIN view'.matches /\ view.matches[m].pruneAt <= height'
                   \/ m \in DOMAIN view'.matches /\ Forward(view.matches[m], view'.matches[m])
<1>1. ASSUME NEW h, NEW after, Folds(h, after),
             ASSUME ViewOK(w(h), used), TermsComplete(w(h))
             PROVE  OpForward(w(h), after, used)
      PROVE  Goal
  <2>1. h \in Nat /\ height <= h /\ view' = after /\ height' = h
    BY <1>0, <1>1, BoardAssumption DEF Folds
  <2>2. ViewOK(w(h), used) /\ TermsComplete(w(h))
    BY <1>0, <2>1, AdvanceSound DEF Sound
  <2>3. OpForward(w(h), after, used)
    BY <1>1, <2>2
  <2>4. MovesForward(view, w(h), h) /\ m \in used
    BY <1>0, <2>1, AdvanceForward DEF ViewOK
  <2> HIDE DEF w
  <2>5. CASE m \notin DOMAIN w(h).matches
    <3>1. view.matches[m].pruneAt <= h /\ m \notin DOMAIN after.matches
      BY <2>3, <2>4, <2>5 DEF MovesForward, OpForward
    <3> QED BY <3>1, <2>1
  <2>6. CASE m \in DOMAIN w(h).matches
    <3>1. /\ Forward(view.matches[m], w(h).matches[m])
          /\ Forward(w(h).matches[m], after.matches[m])
          /\ m \in DOMAIN after.matches /\ w(h).matches[m] \in Match
      BY <2>2, <2>3, <2>4, <2>6 DEF MovesForward, OpForward, ViewOK
    <3> QED BY <3>1, <2>1, ForwardTwice
  <2> QED BY <2>5, <2>6
<1> HIDE DEF Goal
<1>2. ASSUME NEW h, Folds(h, w(h)) PROVE Goal
  <2>1. OpForward(w(h), w(h), used)
    BY ForwardSame DEF OpForward
  <2> QED BY <1>2, <2>1, <1>1
<1>3. ASSUME NEW h, NEW id \in OfferId, NEW p \in Party, NEW op \in PostOp, Post(id, p, op, h)
      PROVE  Goal
  <2>1. Folds(h, w(h)) \/ Folds(h, Posted(w(h), id, p, op, h))
    BY <1>3 DEF Post
  <2>2. OpForward(w(h), Posted(w(h), id, p, op, h), used)
    BY OfferOpsForward
  <2> QED BY <2>1, <2>2, <1>1, <1>2
<1>4. ASSUME NEW h, NEW p \in Party, NEW o \in OfferId, Cancel(p, o, h)
      PROVE  Goal
  <2>1. Folds(h, w(h)) \/ Folds(h, Cancelled(w(h), o))
    BY <1>4 DEF Cancel
  <2>2. OpForward(w(h), Cancelled(w(h), o), used)
    BY OfferOpsForward
  <2> QED BY <2>1, <2>2, <1>1, <1>2
<1>5. ASSUME NEW h, NEW id \in MatchId, NEW p \in Party, NEW o \in OfferId, NEW fill \in FillAmount,
             NEW hash \in Hash, NEW key \in Key, Take(id, p, o, fill, hash, key, h)
      PROVE  Goal
  <2>1. id \notin used /\ (Folds(h, w(h)) \/ Folds(h, Taken(w(h), id, p, o, fill, hash, key, h)))
    BY <1>5 DEF Take
  <2>2. ASSUME ViewOK(w(h), used)
        PROVE  OpForward(w(h), Taken(w(h), id, p, o, fill, hash, key, h), used)
    BY <2>1, <2>2, OfferOpsForward DEF ViewOK
  <2> QED BY <2>1, <2>2, <1>1, <1>2
<1>6. ASSUME NEW h, NEW p \in Party, NEW n \in MatchId, NEW key \in Key \cup {None},
             NEW chain \in Chain, Proof(p, n, key, chain, h)
      PROVE  Goal
  <2>1. \/ Folds(h, w(h))
        \/ /\ MakerProofAccepted(w(h), p, n, key, chain, h)
           /\ Folds(h, MakerProven(w(h), n, key))
        \/ /\ TakerProofAccepted(w(h), p, n, key, chain, h)
           /\ Folds(h, TakerProven(w(h), n))
    BY <1>6 DEF Proof
  <2>2. ASSUME ViewOK(w(h), used), TermsComplete(w(h))
        PROVE  /\ MakerProofAccepted(w(h), p, n, key, chain, h)
                     => OpForward(w(h), MakerProven(w(h), n, key), used)
               /\ TakerProofAccepted(w(h), p, n, key, chain, h)
                     => OpForward(w(h), TakerProven(w(h), n), used)
    BY <2>2, MatchOpsForward
  <2> QED BY <2>1, <2>2, <1>1, <1>2
<1>7. ASSUME NEW h, NEW p \in Party, NEW n \in MatchId, Locked(p, n, h) \/ Abort(p, n, h)
      PROVE  Goal
  <2>1. \/ Folds(h, w(h))
        \/ MakerLockAccepted(w(h), p, n) /\ Folds(h, MakerLocked(w(h), n))
        \/ TakerLockAccepted(w(h), p, n) /\ Folds(h, TakerLocked(w(h), n))
        \/ AbortAccepted(w(h), p, n) /\ Folds(h, Aborted(w(h), n, h))
    BY <1>7 DEF Locked, Abort
  <2>2. ASSUME ViewOK(w(h), used), TermsComplete(w(h))
        PROVE  /\ MakerLockAccepted(w(h), p, n) => OpForward(w(h), MakerLocked(w(h), n), used)
               /\ TakerLockAccepted(w(h), p, n) => OpForward(w(h), TakerLocked(w(h), n), used)
               /\ AbortAccepted(w(h), p, n) => OpForward(w(h), Aborted(w(h), n, h), used)
    BY <2>2, MatchOpsForward
  <2> QED BY <2>1, <2>2, <1>1, <1>2
<1>8. ASSUME UNCHANGED vars PROVE Goal
  <2>1. m \in DOMAIN view'.matches /\ view'.matches[m] = view.matches[m]
    BY <1>8 DEF vars
  <2> QED BY <2>1, ForwardSame DEF Goal
<1>9. ASSUME NEW h, Tick(h) PROVE Goal
  BY <1>9, <1>2 DEF Tick
<1>10. Goal
  <2> HIDE DEF w
  <2>1. CASE Next
    BY <2>1, <1>3, <1>4, <1>5, <1>6, <1>7, <1>9 DEF Next
  <2> QED BY <2>1, <1>8
<1> QED BY <1>10 DEF Goal

(* A match only moves forward and leaves the board no earlier than its     *)
(* prune height, in every step of every board (applyOp and advance of      *)
(* fold.ts).                                                               *)
THEOREM MatchesMoveForward == Spec => MatchesOnlyMoveForward
<1>1. BoardInv /\ [Next]_vars =>
        \A m \in DOMAIN view.matches :
          \/ m \notin DOMAIN view'.matches /\ view.matches[m].pruneAt <= height'
          \/ m \in DOMAIN view'.matches /\ Forward(view.matches[m], view'.matches[m])
  BY StepForward
<1> QED BY <1>1, BoardSafe, PTL DEF Spec, MatchesOnlyMoveForward

=============================================================================
