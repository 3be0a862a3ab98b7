----------------------------- MODULE OrderBoard -----------------------------
(***************************************************************************)
(* The order board as a state machine: the view that a certified write     *)
(* history folds to (src/market/fold.ts).                                  *)
(*                                                                         *)
(* A write certified at anchor height h first moves the view to h, then    *)
(* its op is applied, or is rejected and changes nothing.  Both halves are *)
(* one action here; the condition of the op decides between the outcomes.  *)
(* Ids are write ids and the fold sees a write once, so an id that entered *)
(* the view (`used') never enters it again.                                *)
(***************************************************************************)
EXTENDS OrderFold

CONSTANT MaxHeight        \* bounds the heights that TLC explores

ASSUME BoardAssumption == IsFiniteSet(MatchId) /\ MaxHeight \in Nat

VARIABLES
  view,     \* the folded state: offers and matches by id
  height,   \* the height the view has been advanced to
  used,     \* ids of the writes that put an offer or a match into the view
  settled   \* history: per offer, the fills of matches pruned in escrow

vars == <<view, height, used, settled>>

Init ==
  /\ view = emptyView
  /\ height = 0
  /\ used = {}
  /\ settled = [o \in OfferId |-> 0]

(* The fills that pruning at height h takes off the board in escrow are    *)
(* settled: no cancellation will give them back.                           *)
PrunedInEscrow(v, h) == {m \in Prunable(v, h) : v.matches[m].status = "escrow"}
Settling(v, done, h) ==
  [o \in OfferId |-> done[o] + FillOf(v, PrunedInEscrow(v, h) \cap MatchesOn(v, o))]

(* A write certified at h turns the advanced view into `after'.            *)
Folds(h, after) ==
  /\ h \in height..MaxHeight
  /\ view' = after
  /\ height' = h
  /\ settled' = Settling(view, settled, h)

(* Time alone: computeView ends with advance(view, nowHeight).             *)
Tick(h) == h > height /\ Folds(h, advance(view, h)) /\ UNCHANGED used

Post(id, w, op, h) ==
  LET v  == advance(view, h)
      ok == PostAccepted(v, id, op)
  IN  /\ id \notin used
      /\ Folds(h, IF ok THEN Posted(v, id, w, op, h) ELSE v)
      /\ used' = IF ok THEN used \cup {id} ELSE used

Cancel(w, o, h) ==
  LET v == advance(view, h)
  IN  /\ Folds(h, IF CancelAccepted(v, w, o) THEN Cancelled(v, o) ELSE v)
      /\ UNCHANGED used

Take(id, w, o, fill, hash, takerKey, h) ==
  LET v  == advance(view, h)
      ok == TakeAccepted(v, id, w, o, fill, hash)
  IN  /\ id \notin used
      /\ Folds(h, IF ok THEN Taken(v, id, w, o, fill, hash, takerKey, h) ELSE v)
      /\ used' = IF ok THEN used \cup {id} ELSE used

Proof(w, m, makerKey, chain, h) ==
  LET v == advance(view, h)
  IN  /\ Folds(h, IF MakerProofAccepted(v, w, m, makerKey, chain, h)
                    THEN MakerProven(v, m, makerKey)
                  ELSE IF TakerProofAccepted(v, w, m, makerKey, chain, h)
                    THEN TakerProven(v, m)
                  ELSE v)
      /\ UNCHANGED used

Locked(w, m, h) ==
  LET v == advance(view, h)
  IN  /\ Folds(h, IF MakerLockAccepted(v, w, m) THEN MakerLocked(v, m)
                  ELSE IF TakerLockAccepted(v, w, m) THEN TakerLocked(v, m)
                  ELSE v)
      /\ UNCHANGED used

Abort(w, m, h) ==
  LET v == advance(view, h)
  IN  /\ Folds(h, IF AbortAccepted(v, w, m) THEN Aborted(v, m, h) ELSE v)
      /\ UNCHANGED used

Next ==
  \E h \in 0..MaxHeight :
    \/ Tick(h)
    \/ \E id \in OfferId, w \in Party, op \in PostOp : Post(id, w, op, h)
    \/ \E w \in Party, o \in OfferId : Cancel(w, o, h)
    \/ \E id \in MatchId, w \in Party, o \in OfferId, fill \in FillAmount,
          hash \in Hash, key \in Key : Take(id, w, o, fill, hash, key, h)
    \/ \E w \in Party, m \in MatchId, key \in Key \cup {None}, chain \in Chain :
          Proof(w, m, key, chain, h)
    \/ \E w \in Party, m \in MatchId : Locked(w, m, h) \/ Abort(w, m, h)

Spec == Init /\ [][Next]_vars

-----------------------------------------------------------------------------
(* Types.                                                                  *)

Offer == [maker : Party, give : Leg, want : Leg, minFill : Nat \ {0},
          remaining : Nat, postedAt : Nat, expiresAt : Nat]

Match == [offerId : OfferId, maker : Party, taker : Party,
          makerChain : Chain, makerAmount : Nat \ {0},
          takerChain : Chain, takerAmount : Nat,
          hash : Hash, takerKey : Key, makerKey : Key \cup {None},
          status : {"awaitingProofs", "escrow", "cancelled"},
          takenAt : Nat, proofDeadline : Nat, pruneAt : Nat,
          makerProof : BOOLEAN, takerProof : BOOLEAN,
          makerLock : BOOLEAN, takerLock : BOOLEAN,
          cancelled : {None} \cup [at : Nat, reason : {"noProof", "abort"}]]

(* The view v holds offers and matches as src/market/state.ts declares     *)
(* them, under ids in u.                                                   *)
ViewOK(v, u) ==
  /\ DOMAIN v.offers \subseteq u \cap OfferId
  /\ DOMAIN v.matches \subseteq u \cap MatchId
  /\ \A o \in DOMAIN v.offers : v.offers[o] \in Offer
  /\ \A m \in DOMAIN v.matches : v.matches[m] \in Match

(* The state is well formed.                                               *)
TypeOK ==
  /\ height \in Nat
  /\ used \subseteq OfferId \cup MatchId
  /\ settled \in [OfferId -> Nat]
  /\ ViewOK(view, used)

-----------------------------------------------------------------------------
(* Safety, as predicates of a view and then as invariants.                 *)

Conserved(v, done) ==
  \A o \in DOMAIN v.offers :
    v.offers[o].remaining + FillOf(v, Open(v) \cap MatchesOn(v, o)) + done[o]
      = v.offers[o].give.amount

TermsComplete(v) ==
  \A m \in DOMAIN v.matches :
    LET match == v.matches[m]
        both  == match.makerProof /\ match.takerProof
    IN  /\ match.status = "escrow" => both
        /\ match.status = "awaitingProofs" => ~both
        /\ match.makerProof <=> match.makerKey # None
        /\ match.makerKey # match.takerKey
        /\ match.makerLock \/ match.takerLock => both

FundedOpen(v) ==
  \A m \in DOMAIN v.matches : v.matches[m].makerLock => v.matches[m].status = "escrow"

Distinct(v) ==
  \A m, n \in DOMAIN v.matches : m # n => v.matches[m].hash # v.matches[n].hash

InTime(v, h) ==
  /\ \A o \in DOMAIN v.offers : h < v.offers[o].expiresAt
  /\ \A m \in DOMAIN v.matches :
       /\ h < v.matches[m].pruneAt
       /\ v.matches[m].status = "awaitingProofs" => h <= v.matches[m].proofDeadline

(* No unit of an offer is promised twice and none is lost: what is still   *)
(* takeable, what open matches reserve and what was pruned in escrow add   *)
(* up to what the maker offered (takes reserve, cancellations restore,     *)
(* each once: fold.ts, offer.take, swap.abort and advance).                *)
CapacityConserved == Conserved(view, settled)

(* An HTLC is only ever built from complete terms: escrow means both       *)
(* proofs and a maker key that is not the taker's, and a match awaiting    *)
(* proofs is missing one of them and has no lock on record (swap.proof,    *)
(* swap.locked).                                                           *)
EscrowHasTerms == TermsComplete(view)

(* A match whose maker has a lock on record is in escrow until it is       *)
(* pruned: no order of ops and deadlines cancels a swap the maker has      *)
(* already funded (swap.locked against swap.abort and advance).            *)
FundedNeverCancelled == FundedOpen(view)

(* Two matches on the board never share a hash, so a secret revealed for   *)
(* one swap opens no other (offer.take).                                   *)
HashesDistinct == Distinct(view)

(* Nothing timed outlives its deadline: whatever op was folded last, at    *)
(* whatever height, the board shows no expired offer, no record due for    *)
(* pruning and no match still waiting past its proof deadline (advance).   *)
DeadlinesKept == InTime(view, height)

(* Every match refers to an offer that was posted, lives past its proof    *)
(* deadline, and only posted offers have settled fills: what conservation  *)
(* rests on when a fresh offer id appears and when a record is pruned.     *)
Linked(v, u, done) ==
  /\ \A m \in DOMAIN v.matches :
       v.matches[m].offerId \in u /\ v.matches[m].proofDeadline < v.matches[m].pruneAt
  /\ \A o \in OfferId \ u : done[o] = 0

(* The inductive invariant, as a predicate of any view and height.         *)
Sound(v, h, u, done) ==
  /\ ViewOK(v, u) /\ Linked(v, u, done) /\ Conserved(v, done)
  /\ TermsComplete(v) /\ FundedOpen(v) /\ Distinct(v) /\ InTime(v, h)

(* The inductive invariant: the parts above together.                      *)
BoardInv == TypeOK /\ Sound(view, height, used, settled)

(* Moving to a height in two steps or in one reaches the same view, the    *)
(* claim that makes a checkpoint resumable (header of fold.ts).            *)
AdvancePathIndependent ==
  \A a \in height..MaxHeight : \A b \in a..MaxHeight :
    advance(advance(view, a), b) = advance(view, b)

-----------------------------------------------------------------------------
(* Action properties.                                                      *)

(* The terms both sides build their HTLCs from.                            *)
TermsOf(m) ==
  [maker |-> m.maker, taker |-> m.taker, makerAmount |-> m.makerAmount,
   takerAmount |-> m.takerAmount, hash |-> m.hash, takerKey |-> m.takerKey,
   proofDeadline |-> m.proofDeadline, pruneAt |-> m.pruneAt]

Forward(old, new) ==
  /\ TermsOf(new) = TermsOf(old)
  /\ old.makerKey # None => new.makerKey = old.makerKey
  /\ old.makerLock => new.makerLock
  /\ old.takerLock => new.takerLock
  /\ old.status = "escrow" => new.status # "awaitingProofs"
  /\ old.status = "cancelled" => new.status = "cancelled" /\ new.cancelled = old.cancelled

(* A match only moves forward: its terms never change, its maker key and   *)
(* lock hints are set once, a cancelled match stays cancelled with the     *)
(* stamp it got, and the record leaves the board no earlier than its prune *)
(* height, so a refund lookup never comes too late (applyOp, advance).     *)
MatchesOnlyMoveForward ==
  [][\A m \in DOMAIN view.matches :
       \/ m \notin DOMAIN view'.matches /\ view.matches[m].pruneAt <= height'
       \/ m \in DOMAIN view'.matches /\ Forward(view.matches[m], view'.matches[m])]_vars

=============================================================================
