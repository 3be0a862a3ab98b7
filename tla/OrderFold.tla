----------------------------- MODULE OrderFold ------------------------------
(***************************************************************************)
(* The transitions of the order board, as operators on a view: the timed   *)
(* ones (`advance') and one pair per op, the condition under which the op  *)
(* is accepted and the view it leaves (src/market/fold.ts, with the state  *)
(* of src/market/state.ts and the shapes of src/market/ops.ts).            *)
(*                                                                         *)
(* Abstracted data: of a proof of funds and of a lock hint the model keeps *)
(* whether one is recorded, keys and hashes are model values, and the      *)
(* fields that are functions of the chain (refund windows) are left out.   *)
(*                                                                         *)
(* A definition named X_Fault, right before X, is X with one fault in it:  *)
(* each shows that some property notices that fault.  Nothing uses it.     *)
(***************************************************************************)
EXTENDS Integers, FiniteSets, Functions

CONSTANTS
  OfferId,        \* ids of `offer.post' writes
  MatchId,        \* ids of `offer.take' writes
  Party,          \* writers
  Chain,          \* "bitcoin" and "litecoin" in the code
  Key, Hash,      \* x-only keys and HTLC hashes
  None,           \* null
  PostOp,         \* the well-formed `offer.post' payloads
  FillAmount,     \* the fills a take may ask for
  DUST,           \* smallest HTLC output per chain
  PROOF_WINDOW, TAKER_LOCK_WINDOW, PRUNE_MARGIN,
  RefundAnchors   \* the initiator's refund window per chain, in anchors

Leg == [chain : Chain, amount : Nat \ {0}]

(* What parseOp guarantees of an `offer.post' payload (market/ops.ts).     *)
WellFormedPost ==
  [give : Leg, want : Leg, minFill : Nat \ {0}, expiresIn : Nat \ {0}]

ASSUME FoldAssumption ==
  /\ None \notin Key /\ None \notin Nat
  /\ \A p \in PostOp : p \in WellFormedPost /\ p.minFill <= p.give.amount
  /\ FillAmount \subseteq Nat \ {0}
  /\ \A c \in Chain : DUST[c] \in Nat /\ RefundAnchors[c] \in Nat
  /\ PROOF_WINDOW \in Nat /\ TAKER_LOCK_WINDOW \in Nat /\ PRUNE_MARGIN \in Nat
  /\ TAKER_LOCK_WINDOW > 0

-----------------------------------------------------------------------------
(* Maps.                                                                   *)

Put(f, k, v) == [x \in DOMAIN f \cup {k} |-> IF x = k THEN v ELSE f[x]]
Without(f, gone) == [x \in DOMAIN f \ gone |-> f[x]]

-----------------------------------------------------------------------------
(* The view, and the quantities read off it.                               *)

emptyView == [offers |-> <<>>, matches |-> <<>>]

(* Anchors a match record lives after its take.                            *)
matchLifetime(takerChain) ==
  PROOF_WINDOW + TAKER_LOCK_WINDOW + RefundAnchors[takerChain] + PRUNE_MARGIN

(* The want-leg owed for a fill of `fill' give-units.                      *)
proRata(offer, fill) == (fill * offer.want.amount) \div offer.give.amount

(* The fills of the matches in S, one pair for each unit of each fill, so  *)
(* that a sum of fills is the size of a set.                               *)
UnitsOf(view, S) == UNION {{m} \X (1..view.matches[m].makerAmount) : m \in S}
FillOf(view, S) == Cardinality(UnitsOf(view, S))

MatchesOn(view, o) == {m \in DOMAIN view.matches : view.matches[m].offerId = o}
Open(view) == {m \in DOMAIN view.matches : view.matches[m].status # "cancelled"}

-----------------------------------------------------------------------------
(* The timed transitions.                                                  *)

(* Matches whose proof deadline passed before h, matches and offers whose  *)
(* last height passed by h.                                                *)
Unproven_AnyStatus(view, h) ==
  {m \in DOMAIN view.matches : view.matches[m].proofDeadline < h}

Unproven(view, h) ==
  {m \in DOMAIN view.matches : /\ view.matches[m].status = "awaitingProofs"
                               /\ view.matches[m].proofDeadline < h}
Prunable(view, h) == {m \in DOMAIN view.matches : view.matches[m].pruneAt <= h}
Expired_Late(view, h) == {o \in DOMAIN view.offers : view.offers[o].expiresAt < h}
Expired(view, h) == {o \in DOMAIN view.offers : view.offers[o].expiresAt <= h}

(* A match given up for want of a proof is stamped with the deadline, not  *)
(* with the height at which the fold notices.                              *)
CancelUnproven(m) ==
  [m EXCEPT !.status = "cancelled",
            !.cancelled = [at |-> m.proofDeadline + 1, reason |-> "noProof"]]

(* restoreCapacity, for all the matches in S at once.                      *)
RestoreCapacity(view, o, S) ==
  [view.offers[o] EXCEPT !.remaining = @ + FillOf(view, S \cap MatchesOn(view, o))]

advance_PruneFirst(view, h) ==
  LET unproven == Unproven(view, h) \ Prunable(view, h)
      offers   == [o \in DOMAIN view.offers |-> RestoreCapacity(view, o, unproven)]
      matches  == [m \in DOMAIN view.matches |->
                     IF m \in unproven THEN CancelUnproven(view.matches[m])
                                       ELSE view.matches[m]]
  IN  [offers  |-> Without(offers, Expired(view, h)),
       matches |-> Without(matches, Prunable(view, h))]

(* advance: cancel and restore, drop old matches, then drop old offers.    *)
advance(view, h) ==
  LET unproven == Unproven(view, h)
      offers   == [o \in DOMAIN view.offers |-> RestoreCapacity(view, o, unproven)]
      matches  == [m \in DOMAIN view.matches |->
                     IF m \in unproven THEN CancelUnproven(view.matches[m])
                                       ELSE view.matches[m]]
  IN  [offers  |-> Without(offers, Expired(view, h)),
       matches |-> Without(matches, Prunable(view, h))]

-----------------------------------------------------------------------------
(* The ops: for each the condition under which applyOp accepts it, on a    *)
(* view already advanced to the certifying height h, and the view it       *)
(* leaves.                                                                 *)

PostAccepted(view, id, op) ==
  /\ op.give.amount >= DUST[op.give.chain]
  /\ op.want.amount >= DUST[op.want.chain]
  /\ op.minFill >= DUST[op.give.chain]
  /\ proRata(op, op.minFill) >= DUST[op.want.chain]
  /\ id \notin DOMAIN view.offers

Posted(view, id, w, op, h) ==
  LET offer == [maker |-> w, give |-> op.give, want |-> op.want, minFill |-> op.minFill,
                remaining |-> op.give.amount, postedAt |-> h, expiresAt |-> h + op.expiresIn]
  IN  [offers |-> Put(view.offers, id, offer), matches |-> view.matches]

CancelAccepted(view, w, o) == o \in DOMAIN view.offers /\ view.offers[o].maker = w

Cancelled(view, o) ==
  [offers |-> Without(view.offers, {o}), matches |-> view.matches]

TakeAccepted_Oversold(view, id, w, o, fill, hash) ==
  /\ o \in DOMAIN view.offers
  /\ view.offers[o].maker # w /\ fill >= view.offers[o].minFill
  /\ id \notin DOMAIN view.matches
  /\ \A m \in DOMAIN view.matches : view.matches[m].hash # hash

TakeAccepted_AnyHash(view, id, w, o, fill, hash) ==
  /\ o \in DOMAIN view.offers
  /\ LET offer == view.offers[o]
     IN  offer.maker # w /\ offer.minFill <= fill /\ fill <= offer.remaining
  /\ id \notin DOMAIN view.matches

TakeAccepted(view, id, w, o, fill, hash) ==
  /\ o \in DOMAIN view.offers
  /\ LET offer == view.offers[o]
     IN  /\ offer.maker # w
         /\ offer.minFill <= fill /\ fill <= offer.remaining
         /\ fill >= DUST[offer.give.chain]
         /\ proRata(offer, fill) >= DUST[offer.want.chain]
  /\ id \notin DOMAIN view.matches
  /\ \A m \in DOMAIN view.matches : view.matches[m].hash # hash

Taken(view, id, w, o, fill, hash, takerKey, h) ==
  LET offer == view.offers[o]
      match == [offerId |-> o, maker |-> offer.maker, taker |-> w,
                makerChain |-> offer.give.chain, makerAmount |-> fill,
                takerChain |-> offer.want.chain, takerAmount |-> proRata(offer, fill),
                hash |-> hash, takerKey |-> takerKey, makerKey |-> None,
                status |-> "awaitingProofs", takenAt |-> h,
                proofDeadline |-> h + PROOF_WINDOW,
                pruneAt |-> h + matchLifetime(offer.want.chain),
                makerProof |-> FALSE, takerProof |-> FALSE,
                makerLock |-> FALSE, takerLock |-> FALSE, cancelled |-> None]
      left  == [offer EXCEPT !.remaining = @ - fill]
  IN  [offers  |-> [view.offers EXCEPT ![o] = left],
       matches |-> Put(view.matches, id, match)]

AwaitsProof(view, m, h) ==
  /\ m \in DOMAIN view.matches
  /\ view.matches[m].status = "awaitingProofs"
  /\ h <= view.matches[m].proofDeadline

MakerProofAccepted(view, w, m, makerKey, chain, h) ==
  /\ AwaitsProof(view, m, h)
  /\ w = view.matches[m].maker
  /\ ~view.matches[m].makerProof
  /\ makerKey # None /\ makerKey # view.matches[m].takerKey
  /\ chain = view.matches[m].makerChain

TakerProofAccepted(view, w, m, makerKey, chain, h) ==
  /\ AwaitsProof(view, m, h)
  /\ w # view.matches[m].maker /\ w = view.matches[m].taker
  /\ ~view.matches[m].takerProof
  /\ makerKey = None
  /\ chain = view.matches[m].takerChain

IntoEscrow_OneProof(m) ==
  IF m.makerProof \/ m.takerProof THEN [m EXCEPT !.status = "escrow"] ELSE m

(* A match is in escrow as soon as both proofs are in.                     *)
IntoEscrow(m) ==
  IF m.makerProof /\ m.takerProof THEN [m EXCEPT !.status = "escrow"] ELSE m

WithMatch(view, m, match) ==
  [offers |-> view.offers, matches |-> [view.matches EXCEPT ![m] = match]]

MakerProven(view, m, makerKey) ==
  WithMatch(view, m,
    IntoEscrow([view.matches[m] EXCEPT !.makerProof = TRUE, !.makerKey = makerKey]))

TakerProven(view, m) ==
  WithMatch(view, m, IntoEscrow([view.matches[m] EXCEPT !.takerProof = TRUE]))

InEscrow(view, m) == m \in DOMAIN view.matches /\ view.matches[m].status = "escrow"

MakerLockAccepted(view, w, m) ==
  InEscrow(view, m) /\ w = view.matches[m].maker /\ ~view.matches[m].makerLock

TakerLockAccepted(view, w, m) ==
  /\ InEscrow(view, m)
  /\ w # view.matches[m].maker /\ w = view.matches[m].taker
  /\ ~view.matches[m].takerLock

MakerLocked(view, m) ==
  WithMatch(view, m, [view.matches[m] EXCEPT !.makerLock = TRUE])
TakerLocked(view, m) ==
  WithMatch(view, m, [view.matches[m] EXCEPT !.takerLock = TRUE])

AbortAccepted_Again(view, w, m) ==
  /\ m \in DOMAIN view.matches
  /\ w = view.matches[m].maker /\ ~view.matches[m].makerLock

AbortAccepted_Funded(view, w, m) ==
  /\ m \in DOMAIN view.matches
  /\ w = view.matches[m].maker /\ view.matches[m].status # "cancelled"

AbortAccepted(view, w, m) ==
  /\ m \in DOMAIN view.matches
  /\ w = view.matches[m].maker
  /\ view.matches[m].status # "cancelled"
  /\ ~view.matches[m].makerLock

Aborted(view, m, h) ==
  [offers  |-> [o \in DOMAIN view.offers |-> RestoreCapacity(view, o, {m})],
   matches |-> [view.matches EXCEPT ![m] =
                  [@ EXCEPT !.status = "cancelled",
                            !.cancelled = [at |-> h, reason |-> "abort"]]]]

=============================================================================
