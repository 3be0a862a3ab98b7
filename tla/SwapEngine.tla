----------------------------- MODULE SwapEngine -----------------------------
(***************************************************************************)
(* One match carried through its atomic swap: the engines of the taker and *)
(* of the maker (src/swap/engine.ts), the order board they post to, and    *)
(* the HTLCs on the two chains.                                            *)
(*                                                                         *)
(* A pass is cut where it sends something, and before it decides to lock:  *)
(* what it reads up to there is read at one moment, and a later step acts  *)
(* on what an earlier one read.                                            *)
(* A side is the record the engine keeps per match; `side' is the copy in  *)
(* memory and `disk' the copy in its file.                                 *)
(*                                                                         *)
(* Abstracted data: an HTLC is an output of the exact agreed amount at the *)
(* agreed address, numbered per chain; its height is kept as its number of *)
(* confirmations, 0 in the mempool.  The stages that are not terminal are  *)
(* one, "active", and lockPosted is left out: a hint posted again is       *)
(* refused by the dry run or folded once.  Blocks take BlockSeconds and    *)
(* the clocks of the chains drift apart by at most MaxDrift seconds.       *)
(*                                                                         *)
(* A definition X_Fault is X with a fault that X could have had; no        *)
(* specification uses it.                                                  *)
(***************************************************************************)
EXTENDS OrderFold, Sequences

CONSTANTS
  taker, maker, TakerChain, MakerChain,
  theOffer, theMatch, theHash, takerKey, makerKey,
  RefundBlocks, BlockSeconds, Confirmations,      \* per chain
  windowMarginSecs, lockMarginAnchors,            \* the engine's policy
  MaxDrift,       \* seconds one chain's clock may run ahead of the other's
  MaxLocks,       \* bounds the outputs per chain
  Settings        \* what may happen: see setting

Side == {taker, maker}
MyChain(p) == IF p = taker THEN TakerChain ELSE MakerChain
TheirChain(p) == IF p = taker THEN MakerChain ELSE TakerChain

ASSUME SwapAssumption ==
  /\ taker # maker /\ Side \subseteq Party
  /\ TakerChain # MakerChain /\ {TakerChain, MakerChain} \subseteq Chain
  /\ \A post \in PostOp : post.give.chain = MakerChain /\ post.want.chain = TakerChain
  /\ theOffer \in OfferId /\ theMatch \in MatchId /\ theHash \in Hash
  /\ {takerKey, makerKey} \subseteq Key /\ takerKey # makerKey
  /\ \A c \in {TakerChain, MakerChain} :
       {RefundBlocks[c], BlockSeconds[c], Confirmations[c]} \subseteq Nat \ {0}
  /\ {windowMarginSecs, lockMarginAnchors, MaxDrift, MaxLocks} \subseteq Nat
  /\ Settings \subseteq [vigilant : SUBSET Side, height : Nat, faults : Nat,
                         lag : BOOLEAN, timely : BOOLEAN]

VARIABLES
  view, height,   \* the board and its height
  flight,         \* ops written by a party and not certified yet
  side, disk,     \* per party its record of the match, None before and after
  posts,          \* per party and kind of op: "no", "pending" or "posted"
  at, seen,       \* where in a pass a party is, and what it has read
  stale,          \* parties whose lock intent is older than the grace time
  outs,           \* per chain the outputs paying the HTLC of the terms
  lead,           \* seconds TakerChain's clock is ahead of MakerChain's
  due,            \* those that keep up and owe a pass since the last block
  faults,         \* faults so far
  setting         \* the parties that keep up with every block, the greatest
                  \* height of the board, how many crashes, failed calls and
                  \* evictions there are, whether an explorer may not list
                  \* yet what it was sent, and whether it does list it, and
                  \* a pass ends, within the grace time of a lock intent

board  == <<view, height, flight>>
engine == <<side, disk, posts, at, seen, stale>>
chains == <<outs, lead>>
vars   == <<board, engine, chains, due, faults, setting>>

Terminal == {"refunded", "done", "cancelled", "failed"}

NewSide ==
  [stage |-> "active", makerKey |-> FALSE, theirProof |-> "unverified",
   lockIntent |-> FALSE, myLock |-> 0, theirLock |-> 0,
   claim |-> FALSE, refund |-> FALSE, abort |-> FALSE]

Nothing == [h |-> 0, pruned |-> FALSE, hint |-> FALSE, mine |-> <<>>, theirs |-> <<>>]
NoPosts == [k \in {"proof", "locked", "abort"} |-> "no"]

Init ==
  /\ \E post \in PostOp, fill \in FillAmount :
       view = Taken(Posted(emptyView, theOffer, maker, post, 0),
                    theMatch, taker, theOffer, fill, theHash, takerKey, 0)
  /\ height = 0 /\ flight = {}
  /\ side = [p \in Side |-> None] /\ disk = side
  /\ posts = [p \in Side |-> NoPosts]
  /\ at = [p \in Side |-> "idle"] /\ seen = [p \in Side |-> Nothing]
  /\ stale = {}
  /\ outs = [c \in {TakerChain, MakerChain} |-> <<>>] /\ lead = 0
  /\ setting \in Settings /\ due = setting.vigilant /\ faults = 0

-----------------------------------------------------------------------------
(* The board.                                                              *)

boardMatch == IF theMatch \in DOMAIN view.matches THEN view.matches[theMatch] ELSE None
lockDeadline == PROOF_WINDOW + TAKER_LOCK_WINDOW
pruned(h) == h >= matchLifetime(TakerChain)

Accepted(v, op, h) ==
  CASE op.kind = "proof" /\ op.by = maker ->
         MakerProofAccepted(v, maker, theMatch, makerKey, MakerChain, h)
    [] op.kind = "proof" /\ op.by = taker ->
         TakerProofAccepted(v, taker, theMatch, None, TakerChain, h)
    [] op.kind = "locked" /\ op.by = maker -> MakerLockAccepted(v, maker, theMatch)
    [] op.kind = "locked" /\ op.by = taker -> TakerLockAccepted(v, taker, theMatch)
    [] op.kind = "abort" -> AbortAccepted(v, op.by, theMatch)

After(v, op, h) ==
  CASE op.kind = "proof" /\ op.by = maker -> MakerProven(v, theMatch, makerKey)
    [] op.kind = "proof" /\ op.by = taker -> TakerProven(v, theMatch)
    [] op.kind = "locked" /\ op.by = maker -> MakerLocked(v, theMatch)
    [] op.kind = "locked" /\ op.by = taker -> TakerLocked(v, theMatch)
    [] op.kind = "abort" -> Aborted(v, theMatch, h)

(* The board prunes a match after the taker's refund window, which is what *)
(* its lifetime in anchors is made of.                                     *)
RefundsOpen ==
  \A i \in DOMAIN outs[TakerChain] : outs[TakerChain][i].confs >= RefundBlocks[TakerChain]

Anchor ==
  /\ height < setting.height
  /\ pruned(height + 1) => RefundsOpen
  /\ height' = height + 1
  /\ view' = advance(view, height + 1)
  /\ UNCHANGED <<flight, engine, chains, due, faults, setting>>

(* A written op reaches the board; the fold may still reject it.           *)
Certify(op) ==
  /\ op \in flight
  /\ flight' = flight \ {op}
  /\ view' = IF Accepted(view, op, height) THEN After(view, op, height) ELSE view
  /\ UNCHANGED <<height, engine, chains, due, faults, setting>>

-----------------------------------------------------------------------------
(* The chains.                                                             *)

Deepest == [c \in {TakerChain, MakerChain} |-> RefundBlocks[c] + 1]

Mined(o, c) ==
  [o EXCEPT !.confs = IF @ < Deepest[c] THEN @ + 1 ELSE @,
            !.listed = TRUE, !.mined = o.spend # "none"]

(* The next block of chain c takes in all of its mempool.  It comes after  *)
(* the parties that keep up, and still hold the match, have made a pass    *)
(* since the last one.                                                     *)
Block(c) ==
  LET ahead == IF c = TakerChain THEN lead + BlockSeconds[c] ELSE lead - BlockSeconds[c]
  IN  /\ \A p \in due : side[p] = None /\ boardMatch = None
      /\ ahead \in -MaxDrift..MaxDrift
      /\ lead' = ahead
      /\ outs' = [outs EXCEPT ![c] = [i \in DOMAIN @ |-> Mined(@[i], c)]]
      /\ due' = setting.vigilant
      /\ UNCHANGED <<board, engine, faults, setting>>

Fault == faults < setting.faults /\ faults' = faults + 1

(* A spend falls out of the mempool before it is mined.                    *)
Evict(c, i) ==
  /\ i \in DOMAIN outs[c] /\ outs[c][i].spend # "none" /\ ~outs[c][i].mined
  /\ Fault
  /\ outs' = [outs EXCEPT ![c][i].spend = "none"]
  /\ UNCHANGED <<board, engine, lead, due, setting>>

(* The explorers list an output they were sent.                            *)
List(c, i) ==
  /\ i \in DOMAIN outs[c] /\ ~outs[c][i].listed
  /\ outs' = [outs EXCEPT ![c][i].listed = TRUE]
  /\ UNCHANGED <<board, engine, lead, due, faults, setting>>

(* The outputs an explorer lists, by number.                               *)
scan(c) ==
  [i \in {j \in DOMAIN outs[c] : outs[c][j].listed} |-> outs[c][i]]

(* The HTLC of chain c gets funded.                                        *)
Funding(c) ==
  [outs EXCEPT ![c] =
     Append(@, [confs |-> 0, listed |-> ~setting.lag, spend |-> "none", mined |-> FALSE])]

(* What fundHtlc may do: make an output, or, as an explorer that does not  *)
(* list the last one lists its coins, send the same transaction again.     *)
Fundings(c) ==
  {new \in {Funding(c)} : Len(outs[c]) < MaxLocks}
    \cup {same \in {outs} : outs[c] # <<>> /\ ~outs[c][Len(outs[c])].listed}

(* A spend of output i is sent: taken in unless the output has a spend or, *)
(* for a refund, is not old enough.                                        *)
Spending(c, i, how) ==
  IF outs[c][i].spend = "none" /\ (how = "refund" => outs[c][i].confs >= RefundBlocks[c])
    THEN [outs EXCEPT ![c][i].spend = how]
    ELSE outs

(* An output of the exact amount, 0 if there is none: unspent and          *)
(* confirmed first, then the oldest.                                       *)
pickExact(found, unspentOnly) ==
  LET Rank(i) == IF found[i].spend # "none" THEN 2 ELSE IF found[i].confs = 0 THEN 1 ELSE 0
      Good == {i \in DOMAIN found : unspentOnly => found[i].spend = "none"}
      Before(i, j) ==
        \/ Rank(i) < Rank(j)
        \/ Rank(i) = Rank(j) /\ found[i].confs > found[j].confs
        \/ Rank(i) = Rank(j) /\ found[i].confs = found[j].confs /\ i < j
  IN  IF Good = {} THEN 0 ELSE CHOOSE i \in Good : \A j \in Good \ {i} : Before(i, j)

-----------------------------------------------------------------------------
(* Parts of a pass.  A pass has its record s of the match and a reading r: *)
(* the height, as long as it is of use, whether the match is due for       *)
(* pruning, whether my lock hint is missing on the board, and the HTLCs.   *)

Hold(p, s) == side' = [side EXCEPT ![p] = s]
Save(p, s) == Hold(p, s) /\ disk' = [disk EXCEPT ![p] = s]

(* The pass awaits the network at `step', remembering its reading.         *)
Await(p, step, r) ==
  at' = [at EXCEPT ![p] = step] /\ seen' = [seen EXCEPT ![p] = r] /\ UNCHANGED due

(* postOp: one op of a kind in flight.  An op once written is not lost, so *)
(* the repost REPOST_AFTER anchors later finds nothing to do.              *)
postOp(p, kind, when) ==
  posts' = IF when /\ posts[p][kind] = "no" THEN [posts EXCEPT ![p][kind] = "pending"]
                                            ELSE posts

(* A fault: a pruned match is dropped though its side is not over.         *)
End_DropsAny(p, s, r) ==
  LET kept == IF r.pruned THEN None ELSE s
  IN  /\ Save(p, kept)
      /\ at' = [at EXCEPT ![p] = "idle"] /\ seen' = [seen EXCEPT ![p] = Nothing]
      /\ due' = due \ {p}

(* The end of a pass: save what changed, or drop the file of a pruned      *)
(* match whose side is over.                                               *)
End(p, s, r) ==
  LET kept == IF r.pruned /\ s.stage \in Terminal THEN None ELSE s
  IN  /\ Save(p, kept)
      /\ at' = [at EXCEPT ![p] = "idle"] /\ seen' = [seen EXCEPT ![p] = Nothing]
      /\ due' = due \ {p}

Finish(p, s, r, stage) == End(p, [s EXCEPT !.stage = stage], r)

Status(m) == IF m = None THEN "none" ELSE m.status

(* A counterparty proof is verified: a verdict, or the explorer fails and  *)
(* it stays open.                                                          *)
Verified(s, verdict) ==
  \/ verdict \in {"ok", "bad"} /\ UNCHANGED faults
  \/ verdict = s.theirProof /\ Fault
NotVerified(s, verdict) == verdict = s.theirProof /\ UNCHANGED faults

(* A fault: a fresh intent does not hold the funding back.                 *)
Lock_NoGrace(p, s, r) ==
  /\ Save(p, [s EXCEPT !.lockIntent = TRUE])
  /\ stale' = stale \ {p}
  /\ Await(p, "funding", [r EXCEPT !.h = 0])

(* lock: not while an intent is fresh; otherwise record one and fund.      *)
Lock(p, s, r) ==
  IF s.lockIntent /\ p \notin stale
    THEN End(p, s, r) /\ UNCHANGED stale
    ELSE /\ Save(p, [s EXCEPT !.lockIntent = TRUE])
         /\ stale' = stale \ {p}
         /\ Await(p, "funding", [r EXCEPT !.h = 0])

-----------------------------------------------------------------------------
(* With my lock known.                                                     *)

(* How output i was spent as far as a scan shows, "gone" if it is not      *)
(* listed.                                                                 *)
SpentBy(found, i) == IF i \in DOMAIN found THEN found[i].spend ELSE "gone"
MinedBy(found, i, how) == SpentBy(found, i) = how /\ found[i].mined

(* The stage at the end of a pass that knew my lock.                       *)
StageOf(p, s, mine, theirs) ==
  LET claimConfirmed  == s.claim /\ MinedBy(theirs, s.theirLock, "claim")
      refundConfirmed == s.refund /\ MinedBy(mine, s.myLock, "refund")
      claimLost       == s.claim /\ SpentBy(theirs, s.theirLock) = "refund"
      counterClaimed  == SpentBy(mine, s.myLock) = "claim"
  IN  IF p = taker
        THEN CASE claimConfirmed /\ (counterClaimed \/ refundConfirmed) -> "done"
               [] refundConfirmed /\ ~claimConfirmed -> "refunded"
               [] OTHER -> "active"
        ELSE CASE claimConfirmed -> "done"
               [] claimLost -> "failed"
               [] ~s.claim /\ refundConfirmed -> "refunded"
               [] OTHER -> "active"

(* maybeRefund: send the refund of my unspent lock once it is old enough,  *)
(* and again as long as it stays unspent.  Otherwise the pass is over.     *)
RefundOrEnd(p, s, r) ==
  LET unspent == SpentBy(r.mine, s.myLock) = "none"
      ripe == unspent /\ r.mine[s.myLock].confs >= RefundBlocks[MyChain(p)]
  IN  CASE unspent /\ s.refund ->
             Hold(p, s) /\ UNCHANGED disk /\ Await(p, "refunding", r)
        [] ripe /\ ~s.refund ->
             Save(p, [s EXCEPT !.refund = TRUE]) /\ Await(p, "refunding", r)
        [] OTHER -> Finish(p, s, r, StageOf(p, s, r.mine, r.theirs))

(* A quarter of the maker's window is left ahead of a first claim.         *)
claimSafetyBlocks == (RefundBlocks[MakerChain] + 3) \div 4

(* The taker claims a lock deep enough and young enough; the maker once    *)
(* a claim of its own lock shows the secret.                               *)
MayClaim(p, s, r, out) ==
  IF p = taker
    THEN /\ out.confs >= Confirmations[MakerChain]
         /\ out.confs <= RefundBlocks[MakerChain] - claimSafetyBlocks
    ELSE SpentBy(r.mine, s.myLock) = "claim"

(* Post the hint, look at the other HTLC, claim it when it may be claimed  *)
(* or send the claim again.                                                *)
WithLock(p, s, reading) ==
  LET theirs == scan(TheirChain(p))
      i == IF s.theirLock # 0 THEN s.theirLock ELSE pickExact(theirs, p = maker)
      t == IF p = maker THEN [s EXCEPT !.theirLock = i] ELSE s
      r == [reading EXCEPT !.theirs = theirs, !.hint = FALSE]
      open == SpentBy(theirs, i) = "none"
  IN  /\ postOp(p, "locked", reading.hint)
      /\ CASE open /\ s.claim -> Hold(p, t) /\ UNCHANGED disk /\ Await(p, "claiming", r)
           [] open /\ ~s.claim /\ MayClaim(p, s, r, theirs[i]) ->
                Save(p, [t EXCEPT !.theirLock = i, !.claim = TRUE]) /\ Await(p, "claiming", r)
           [] OTHER -> RefundOrEnd(p, t, r)

-----------------------------------------------------------------------------
(* Without a lock, in escrow.                                              *)

(* The taker locks while the window is open and the maker's proof is good. *)
TakerDecides(s, r) ==
  CASE s.theirProof = "unverified" -> End(taker, s, r) /\ UNCHANGED stale
    [] s.theirProof = "bad" -> Finish(taker, s, r, "failed") /\ UNCHANGED stale
    [] s.theirProof = "ok" /\ r.h > lockDeadline - lockMarginAnchors ->
         Finish(taker, s, r, "cancelled") /\ UNCHANGED stale
    [] OTHER -> Lock(taker, s, r)

(* A fault: the margin between the two refund windows is left out.         *)
WindowTooShort_NoMargin(out) ==
  (RefundBlocks[TakerChain] - out.confs + 1) * BlockSeconds[TakerChain]
    < (RefundBlocks[MakerChain] + 1) * BlockSeconds[MakerChain]

(* The taker's refund must open later than mine would, by a margin.        *)
WindowTooShort(out) ==
  (RefundBlocks[TakerChain] - out.confs + 1) * BlockSeconds[TakerChain]
    < (RefundBlocks[MakerChain] + 1) * BlockSeconds[MakerChain] + windowMarginSecs

(* When the maker aborts: on a lock it cannot use, or for want of one; i   *)
(* is the taker's unspent lock, 0 if none is seen.                         *)
MustAbort(s, r, theirs, i) ==
  IF i = 0
    THEN \/ pickExact(theirs, FALSE) # 0      \* locked and refunded
         \/ s.theirProof = "bad" \/ r.h > lockDeadline
  ELSE IF theirs[i].confs < Confirmations[TakerChain]
    THEN r.h > lockDeadline + TAKER_LOCK_WINDOW
    ELSE WindowTooShort(theirs[i])

(* A fault: an abort is posted but the side goes on.                       *)
MakerDecides_GoesOn(s, r, theirs) ==
  LET i == pickExact(theirs, TRUE)
  IN  CASE MustAbort(s, r, theirs, i) ->
             End(maker, s, r) /\ postOp(maker, "abort", TRUE) /\ UNCHANGED stale
        [] ~MustAbort(s, r, theirs, i)
             /\ (i = 0 \/ theirs[i].confs < Confirmations[TakerChain]) ->
             End(maker, s, r) /\ UNCHANGED <<posts, stale>>
        [] OTHER -> Lock(maker, [s EXCEPT !.theirLock = i], r) /\ UNCHANGED posts

(* The maker locks once the taker's lock stands, or aborts.                *)
MakerDecides(s, r, theirs) ==
  LET i == pickExact(theirs, TRUE)
  IN  CASE s.abort \/ MustAbort(s, r, theirs, i) ->
             /\ Finish(maker, [s EXCEPT !.abort = TRUE], r, "cancelled")
             /\ postOp(maker, "abort", TRUE) /\ UNCHANGED stale
        [] ~s.abort /\ ~MustAbort(s, r, theirs, i)
             /\ (i = 0 \/ theirs[i].confs < Confirmations[TakerChain]) ->
             End(maker, s, r) /\ UNCHANGED <<posts, stale>>
        [] OTHER -> Lock(maker, [s EXCEPT !.theirLock = i], r) /\ UNCHANGED posts

-----------------------------------------------------------------------------
(* A pass, from its start to where it first sends something.               *)

Read(p) ==
  LET m == boardMatch
  IN  [h |-> 0, pruned |-> pruned(height), mine |-> scan(MyChain(p)), theirs |-> <<>>,
       hint |-> /\ Status(m) = "escrow"
                /\ IF p = taker THEN ~m.takerLock ELSE ~m.makerLock]

(* The record a pass starts from: the match is adopted off the board.      *)
Adopted(p) ==
  [(IF side[p] = None THEN NewSide ELSE side[p]) EXCEPT
     !.makerKey = @ \/ (boardMatch # None /\ boardMatch.makerKey # None)]

Starts(p) == at[p] = "idle" /\ (side[p] # None \/ boardMatch # None)

(* A side that is over and never locked does nothing.                      *)
Dormant(s) == s.stage \in Terminal /\ s.myLock = 0

DormantPass(p) ==
  LET s == Adopted(p)
  IN  /\ Starts(p) /\ Dormant(s)
      /\ End(p, s, Read(p))
      /\ UNCHANGED <<board, chains, posts, stale, faults, setting>>

(* My lock: the recorded one, or one found on the chain; 0 if none.        *)
KnownLock(s, r) == IF s.myLock # 0 THEN s.myLock ELSE pickExact(r.mine, FALSE)

(* While proofs are awaited: post mine and verify the counterparty's.      *)
ProofsPass(p) ==
  LET m == boardMatch
      s == Adopted(p)
      r == Read(p)
      verify == /\ s.theirProof = "unverified" /\ s.myLock = 0
                /\ IF p = taker THEN m.makerProof ELSE m.takerProof
  IN  /\ Starts(p) /\ ~Dormant(s) /\ Status(m) = "awaitingProofs"
      /\ postOp(p, "proof", IF p = taker THEN ~m.takerProof ELSE ~m.makerProof)
      /\ \E verdict \in {"unverified", "ok", "bad"} :
           /\ IF verify THEN Verified(s, verdict) ELSE NotVerified(s, verdict)
           /\ End(p, [s EXCEPT !.theirProof = verdict], r)
      /\ UNCHANGED <<board, chains, stale, setting>>

(* The match is cancelled or gone and no lock of mine is known.            *)
GiveUpPass(p) ==
  LET s == Adopted(p)
      r == Read(p)
  IN  /\ Starts(p) /\ ~Dormant(s)
      /\ KnownLock(s, r) = 0 \/ (p = taker /\ ~s.makerKey)
      /\ Status(boardMatch) = "cancelled" \/ r.pruned
      /\ Finish(p, s, r, "cancelled")
      /\ UNCHANGED <<board, chains, posts, stale, faults, setting>>

(* In escrow, before my lock: my chain is read, and the pass awaits more.  *)
EscrowPass(p) ==
  LET s == Adopted(p)
      r == Read(p)
  IN  /\ Starts(p) /\ ~Dormant(s) /\ KnownLock(s, r) = 0
      /\ Status(boardMatch) = "escrow" /\ ~r.pruned
      /\ Hold(p, s) /\ UNCHANGED disk /\ Await(p, "scanned", [r EXCEPT !.h = height])
      /\ UNCHANGED <<board, chains, posts, stale, faults, setting>>

(* It goes on with what it has read, whatever has happened since.          *)
Decide(p) ==
  LET s == side[p]
      r == seen[p]
      theirs == scan(TheirChain(p))
      verify == /\ s.theirProof = "unverified"
                /\ p = maker => pickExact(theirs, FALSE) = 0
  IN  /\ at[p] = "scanned"
      /\ \E verdict \in {"unverified", "ok", "bad"} :
           LET v == [s EXCEPT !.theirProof = verdict]
           IN  /\ IF verify THEN Verified(s, verdict) ELSE NotVerified(s, verdict)
               /\ IF p = taker THEN TakerDecides(v, r) /\ UNCHANGED posts
                               ELSE MakerDecides(v, r, theirs)
      /\ UNCHANGED <<board, chains, setting>>

(* A fault: the outpoint next to the one that was made is recorded.        *)
Knowing_NextOutput(s, i) ==
  [s EXCEPT !.myLock = i + 1, !.lockIntent = FALSE, !.theirProof = "unverified"]

(* My lock is known, or is found on the chain and adopted; the verdict on  *)
(* the counterparty's proof is of no more use.                             *)
Knowing(s, i) ==
  [s EXCEPT !.myLock = i, !.lockIntent = FALSE, !.theirProof = "unverified"]

LockedPass(p) ==
  LET s == Adopted(p)
      r == Read(p)
      i == KnownLock(s, r)
  IN  /\ Starts(p) /\ ~Dormant(s) /\ i # 0
      /\ WithLock(p, Knowing(s, i), r) /\ stale' = stale \ {p}
      /\ UNCHANGED <<board, chains, faults, setting>>

(* An explorer does not answer: the pass comes to nothing.                 *)
PassFails(p) ==
  /\ Fault
  /\ \/ Starts(p) /\ End(p, Adopted(p), Read(p))
     \/ at[p] = "scanned" /\ End(p, side[p], seen[p])
  /\ UNCHANGED <<board, chains, posts, stale, setting>>

-----------------------------------------------------------------------------
(* A pass, from a call to the network on.                                  *)

(* fundHtlc: a transaction is sent, or the call fails, before or after the *)
(* network took it; with an HTLC made, also for want of other coins.       *)
Fund(p) ==
  LET c == MyChain(p)
  IN  /\ at[p] = "funding"
      /\ \/ /\ outs' \in Fundings(c) /\ Await(p, "funded", seen[p])
            /\ UNCHANGED <<side, disk, faults>>
         \/ outs' \in {outs} \cup Fundings(c) /\ Fault /\ End(p, side[p], seen[p])
         \/ outs[c] # <<>> /\ UNCHANGED <<outs, faults>> /\ End(p, side[p], seen[p])
      /\ UNCHANGED <<board, lead, posts, stale, setting>>

(* The call answered: my lock is the output it made, not yet in my scan.   *)
Funded(p) ==
  /\ at[p] = "funded"
  /\ WithLock(p, Knowing(side[p], Len(outs[MyChain(p)])), seen[p]) /\ stale' = stale \ {p}
  /\ UNCHANGED <<board, chains, faults, setting>>

(* Send the claim.  An error is only noted.                                *)
Claim(p) ==
  LET s == side[p]
  IN  /\ at[p] = "claiming"
      /\ \/ outs' = Spending(TheirChain(p), s.theirLock, "claim") /\ UNCHANGED faults
         \/ UNCHANGED outs /\ Fault
      /\ RefundOrEnd(p, s, seen[p])
      /\ UNCHANGED <<board, lead, posts, stale, setting>>

(* Send the refund, and conclude from what the pass has read.              *)
Refund(p) ==
  LET s == side[p]
  IN  /\ at[p] = "refunding"
      /\ \/ outs' = Spending(MyChain(p), s.myLock, "refund") /\ UNCHANGED faults
         \/ UNCHANGED outs /\ Fault
      /\ Finish(p, s, seen[p], StageOf(p, s, seen[p].mine, seen[p].theirs))
      /\ UNCHANGED <<board, lead, posts, stale, setting>>

-----------------------------------------------------------------------------
(* Around the passes.                                                      *)

(* An op is dry-run against the board at the next height and written.      *)
Submit(p, kind) ==
  LET op == [by |-> p, kind |-> kind]
      ok == Accepted(advance(view, height + 1), op, height + 1)
  IN  /\ posts[p][kind] = "pending"
      /\ \/ /\ ok
            /\ flight' = flight \cup {op}
            /\ posts' = [posts EXCEPT ![p][kind] = "posted"]
            /\ UNCHANGED faults
         \/ /\ IF ok THEN Fault ELSE UNCHANGED faults
            /\ posts' = [posts EXCEPT ![p][kind] = "no"]
            /\ UNCHANGED flight
      /\ UNCHANGED <<view, height, side, disk, at, seen, stale, chains, due, setting>>

(* LOCK_INTENT_GRACE_MS have passed since a lock intent was recorded, at   *)
(* any moment, or where all is timely after a pass and a listing.          *)
GraceOver(p) ==
  /\ side[p] # None /\ side[p].lockIntent /\ p \notin stale
  /\ setting.timely =>
       at[p] = "idle" /\ \A i \in DOMAIN outs[MyChain(p)] : outs[MyChain(p)][i].listed
  /\ stale' = stale \cup {p}
  /\ UNCHANGED <<board, side, disk, posts, at, seen, chains, due, faults, setting>>

(* The daemon stops and starts: memory is lost, files are loaded.          *)
Crash(p) ==
  /\ side[p] # None /\ Fault
  /\ side' = [side EXCEPT ![p] = disk[p]]
  /\ posts' = [posts EXCEPT ![p] = NoPosts]
  /\ at' = [at EXCEPT ![p] = "idle"] /\ seen' = [seen EXCEPT ![p] = Nothing]
  /\ UNCHANGED <<board, disk, stale, chains, due, setting>>

Pass(p) ==
  \/ DormantPass(p) \/ ProofsPass(p) \/ GiveUpPass(p) \/ EscrowPass(p) \/ LockedPass(p)
  \/ Decide(p) \/ Fund(p) \/ Funded(p) \/ Claim(p) \/ Refund(p)

Next ==
  \/ Anchor
  \/ \E op \in flight : Certify(op)
  \/ \E c \in {TakerChain, MakerChain} :
       Block(c) \/ \E i \in 1..MaxLocks : Evict(c, i) \/ List(c, i)
  \/ \E p \in Side :
       \/ Pass(p) \/ PassFails(p) \/ GraceOver(p) \/ Crash(p)
       \/ \E kind \in {"proof", "locked", "abort"} : Submit(p, kind)

Spec == Init /\ [][Next]_vars

-----------------------------------------------------------------------------
(* Types.                                                                  *)

SideRecord ==
  [stage : {"active"} \cup Terminal, makerKey : BOOLEAN,
   theirProof : {"unverified", "ok", "bad"}, lockIntent : BOOLEAN,
   myLock : 0..MaxLocks, theirLock : 0..MaxLocks, claim : BOOLEAN,
   refund : BOOLEAN, abort : BOOLEAN]

ASSUME NoneAssumption == None \notin SideRecord

Output(c) ==
  [confs : 0..Deepest[c], listed : BOOLEAN, spend : {"none", "claim", "refund"}, mined : BOOLEAN]

(* The state is well formed, a mined spend spends a mined output, and the  *)
(* outpoints a side keeps, in memory or in its file, exist.                *)
TypeOK ==
  /\ height \in 0..setting.height /\ faults \in 0..setting.faults /\ lead \in -MaxDrift..MaxDrift
  /\ flight \subseteq [by : Side, kind : {"proof", "locked", "abort"}]
  /\ side \in [Side -> SideRecord \cup {None}] /\ disk \in [Side -> SideRecord \cup {None}]
  /\ posts \in [Side -> [{"proof", "locked", "abort"} -> {"no", "pending", "posted"}]]
  /\ at \in [Side -> {"idle", "scanned", "funding", "funded", "claiming", "refunding"}]
  /\ stale \subseteq Side /\ due \subseteq setting.vigilant /\ setting \in Settings
  /\ \A c \in {TakerChain, MakerChain} : \A i \in DOMAIN outs[c] :
       /\ outs[c][i] \in Output(c)
       /\ outs[c][i].mined => outs[c][i].confs > 0 /\ outs[c][i].spend # "none"
  /\ \A p \in Side : \A s \in {side[p], disk[p]} \ {None} :
       s.myLock <= Len(outs[MyChain(p)]) /\ s.theirLock <= Len(outs[TheirChain(p)])

-----------------------------------------------------------------------------
(* Safety.                                                                 *)

Settled(c, how) == \E i \in DOMAIN outs[c] : outs[c][i].mined /\ outs[c][i].spend = how

(* A party that keeps up never pays for nothing: its HTLC is not claimed   *)
(* when the other one went back to the counterparty, whatever the order of *)
(* passes and blocks, however the counterparty stalls, and through a crash *)
(* or a failed call (stepTaker, stepMaker, maybeRefund): as long as the    *)
(* explorers list at once what they were sent, see NoLockForgotten.        *)
NobodyLoses ==
  \A p \in setting.vigilant :
    ~setting.lag => ~(Settled(MyChain(p), "claim") /\ Settled(TheirChain(p), "refund"))

(* No engine funds its HTLC twice, whatever crashes or fails between the   *)
(* intent, the broadcast and the saved outpoint (lock, adoptLock), where   *)
(* explorers list at once, whenever the grace time ends, and where they    *)
(* list late but in time: else a pass that found nothing can fund again.   *)
NeverLocksTwice ==
  (setting.lag => setting.timely) => \A c \in {TakerChain, MakerChain} : Len(outs[c]) <= 1

(* While an HTLC of a party is unspent and it has not been paid, its       *)
(* engine has not closed the match without a record of the lock: no money  *)
(* is left that no pass will refund (the early return on a terminal stage, *)
(* finish, drop).                                                          *)
NoLockForgotten ==
  \A p \in setting.vigilant : \A i \in DOMAIN outs[MyChain(p)] :
    outs[MyChain(p)][i].spend = "none" /\ ~Settled(TheirChain(p), "claim") =>
      side[p] # None /\ (side[p].stage \in Terminal => side[p].myLock # 0)

(* So it is where the explorers list at once what they were sent.          *)
NoListedLockForgotten == ~setting.lag => NoLockForgotten

(* The board's lock hints are true, and a match the maker aborted is one   *)
(* it never funds, unless a lock of its own was not listed: it gave the    *)
(* fill back to its offer (swap.locked, swap.abort and the order of the    *)
(* checks in stepMaker).                                                   *)
BoardMatchesChain ==
  boardMatch # None =>
    /\ boardMatch.makerLock => outs[MakerChain] # <<>>
    /\ boardMatch.takerLock => outs[TakerChain] # <<>>
    /\ boardMatch.status = "cancelled" /\ ~setting.lag => outs[MakerChain] = <<>>

-----------------------------------------------------------------------------
(* Liveness.                                                               *)

(* Engines tick on a timer and the chains go on: one that waits for the    *)
(* other is followed by it, their clocks being bound by MaxDrift.          *)
Fairness ==
  /\ \A p \in Side : WF_vars(p \in setting.vigilant /\ Pass(p))
  /\ WF_vars(\E c \in {TakerChain, MakerChain} : Block(c))

FairSpec == Spec /\ Fairness

(* Besides, written ops are submitted and certified.                       *)
PostSpec ==
  /\ FairSpec
  /\ \A p \in Side : \A kind \in {"proof", "locked", "abort"} : WF_vars(Submit(p, kind))
  /\ WF_vars(\E op \in flight : Certify(op))

(* What a party that keeps up has locked is claimed or refunded in the     *)
(* end, whatever the other does (maybeRefund).                             *)
LocksResolve ==
  \A p \in Side : (p \in setting.vigilant /\ outs[MyChain(p)] # <<>>)
    ~> \A i \in DOMAIN outs[MyChain(p)] : outs[MyChain(p)][i].mined

(* An abort the maker decided on reaches the board: a failed post is       *)
(* "retr[ied] on a later tick" (engine.ts, postOp).                        *)
AbortReachesBoard ==
  (maker \in setting.vigilant /\ disk[maker] # None /\ disk[maker].abort)
    ~> (boardMatch # None => boardMatch.status = "cancelled")

=============================================================================
