-------------------------- MODULE SwapEngine_proofs -------------------------
(***************************************************************************)
(* Theorems of the swap engine, for any windows, margins and settings: its *)
(* state is well formed and the board does not lie about the chains; and   *)
(* where explorers list at once, or in time, no engine funds its HTLC      *)
(* twice.                                                                  *)
(***************************************************************************)
EXTENDS SwapEngine, SequenceTheorems, WellFoundedInduction, TLAPS

Chains == {TakerChain, MakerChain}

(* There is at most one HTLC per chain; listed at once if explorers are.   *)
OutsOK ==
  /\ outs = [c \in Chains |-> outs[c]]
  /\ \A c \in Chains :
       /\ outs[c] \in Seq(Output(c)) /\ Len(outs[c]) <= 1
       /\ outs[c] # <<>> => MaxLocks >= 1 /\ (~setting.lag => outs[c][1].listed)

HasLock(p) == outs[MyChain(p)] # <<>>

(* What a scan found is an HTLC, and a spend that was mined stays.         *)
FoundOK(found, c) ==
  \A i \in DOMAIN found :
    /\ i = 1 /\ outs[c] # <<>> /\ found[i] \in Output(c)
    /\ found[i].mined => found[i].spend # "none"
                         /\ outs[c][i].mined /\ outs[c][i].spend = found[i].spend

ReadOK(p, r) ==
  /\ FoundOK(r.mine, MyChain(p)) /\ FoundOK(r.theirs, TheirChain(p))
  /\ r = [h |-> r.h, pruned |-> r.pruned, hint |-> r.hint, mine |-> r.mine, theirs |-> r.theirs]
  /\ r.pruned => pruned(height)

SeenOK(p) == seen = [q \in Side |-> seen[q]] /\ ReadOK(p, seen[p])

(* The match on the board is the one, and it is not due for pruning.       *)
MatchFields ==
  {"maker", "taker", "takerKey", "makerKey", "status", "pruneAt", "proofDeadline",
   "makerProof", "takerProof", "makerLock", "takerLock", "cancelled"}

MatchOK(m) ==
  /\ MatchFields \subseteq DOMAIN m
  /\ m.maker = maker /\ m.taker = taker
  /\ m.pruneAt = matchLifetime(TakerChain) /\ height < m.pruneAt
  /\ m.status \in {"awaitingProofs", "escrow", "cancelled"}
  /\ m.makerProof => m.makerKey # None
  /\ m.status = "escrow" => m.makerProof

(* A record of a party whose HTLC is funded: it has the outpoint, or an    *)
(* intent that holds a second funding back, or a scan will find the HTLC,  *)
(* or the match is over for it.  The file is as good as the memory.        *)
LockKnown(p, s) ==
  HasLock(p) =>
    IF s = None
      THEN pruned(height)
      ELSE \/ s.myLock # 0 \/ s.stage \in Terminal \/ outs[MyChain(p)][1].listed
           \/ s.lockIntent /\ p \notin stale

(* It did not end without knowing the HTLC, unless it was not listed.      *)
LockKept(p, s) ==
  HasLock(p) /\ ~setting.lag /\ s # None /\ s.stage \in Terminal => s.myLock # 0

(* The taker ends, having locked, when it is refunded or has claimed.      *)
TakerEnds(s) ==
  HasLock(taker) /\ s # None => s.makerKey
TakerResolved(s) ==
  HasLock(taker) /\ ~setting.lag /\ (s # None => s.stage \in Terminal) =>
    \/ outs[TakerChain][1].mined /\ outs[TakerChain][1].spend = "refund"
    \/ Settled(MakerChain, "claim")

(* A claim is of an HTLC that was found.                                   *)
RecordOK(p, s) ==
  /\ LockKnown(p, s) /\ LockKept(p, s)
  /\ s # None /\ s.claim => s.theirLock # 0 /\ s.myLock # 0
  /\ p = taker => TakerEnds(s) /\ TakerResolved(s)

(* Where a pass is.                                                        *)
StepOK(p) ==
  /\ IF at[p] = "idle" THEN disk[p] = side[p] ELSE side[p] # None
  /\ at[p] = "scanned" =>
       /\ side[p].stage = "active" /\ side[p].myLock = 0
       /\ p = taker => side[p].makerKey
       /\ HasLock(p) => setting.lag /\ side[p].lockIntent /\ p \notin stale
  /\ at[p] \in {"funding", "funded"} =>
       /\ disk[p] = side[p] /\ (setting.lag => p \notin stale)
       /\ side[p].stage = "active" /\ side[p].lockIntent /\ side[p].myLock = 0
       /\ p = taker => side[p].makerKey
  /\ at[p] = "funding" => ~HasLock(p)
  /\ at[p] = "funded" => HasLock(p)
  /\ at[p] = "claiming" =>
       /\ side[p].myLock # 0 /\ side[p].theirLock # 0
       /\ side[p].claim /\ disk[p] # None /\ disk[p].claim
  /\ at[p] = "refunding" => side[p].myLock # 0

(* Ops on their way: a hint is of an HTLC that is there, an abort is of a  *)
(* maker that is through.                                                  *)
Way(p, kind) == posts[p][kind] = "pending" \/ [by |-> p, kind |-> kind] \in flight

WayOK ==
  /\ \A p \in Side : Way(p, "locked") => HasLock(p)
  /\ ~Way(taker, "abort")
  /\ Way(maker, "abort") =>
       /\ at[maker] = "idle" /\ (~setting.lag => ~HasLock(maker))
       /\ IF side[maker] = None THEN pruned(height) ELSE Dormant(side[maker])

(* What the board says of the chains.                                      *)
SaysOK(m) ==
  /\ MatchOK(m)
  /\ m.makerLock => HasLock(maker)
  /\ m.takerLock => HasLock(taker)
  /\ m.status = "awaitingProofs" => \A p \in Side : at[p] = "idle" /\ ~HasLock(p)
  /\ m.status = "cancelled" =>
       at[maker] \notin {"scanned", "funding"} /\ (~setting.lag => ~HasLock(maker))

Matched == {view.matches[k] : k \in DOMAIN view.matches \cap {theMatch}}

BoardOK == \A m \in Matched : SaysOK(m)

(* Explorers list what they were sent, and passes end, within the grace    *)
(* time of a lock intent; or what was sent is listed at once.              *)
Timely == setting.lag => setting.timely

(* The inductive invariant where that is so.                               *)
SwapInv ==
  /\ Timely /\ TypeOK /\ OutsOK /\ BoardOK /\ WayOK
  /\ \A p \in Side :
       SeenOK(p) /\ RecordOK(p, side[p]) /\ RecordOK(p, disk[p]) /\ StepOK(p)

-----------------------------------------------------------------------------
(* Outputs and scans.                                                      *)

LEMMA SideChains ==
  ASSUME NEW p \in Side
  PROVE  /\ MyChain(p) \in Chains /\ TheirChain(p) \in Chains
         /\ MyChain(p) # TheirChain(p)
         /\ MyChain(taker) = TakerChain /\ MyChain(maker) = MakerChain
         /\ TheirChain(taker) = MakerChain /\ TheirChain(maker) = TakerChain
BY SwapAssumption DEF Side, MyChain, TheirChain, Chains

(* A sequence of one element at most.                                      *)
LEMMA ShortSeq ==
  ASSUME NEW S, NEW s \in Seq(S), Len(s) <= 1
  PROVE  /\ DOMAIN s = IF s = <<>> THEN {} ELSE {1}
         /\ s = <<>> => Len(s) = 0
         /\ s # <<>> => Len(s) = 1 /\ s[1] \in S
<1>1. Len(s) \in Nat /\ DOMAIN s = 1..Len(s)
  BY LenProperties
<1>2. Len(s) \in {0, 1}
  <2>1. ASSUME NEW n \in Nat, n <= 1 PROVE n \in {0, 1}
    BY <2>1
  <2> QED BY <1>1, <2>1
<1>3. s = <<>> <=> Len(s) = 0
  BY EmptySeq
<1>4. CASE s = <<>>
  BY <1>1, <1>3, <1>4
<1>5. CASE s # <<>>
  <2>1. Len(s) = 1
    BY <1>2, <1>3, <1>5
  <2>2. s[1] \in S
    BY <2>1, ElementOfSeq
  <2> QED BY <1>1, <1>5, <2>1, <2>2
<1> QED BY <1>4, <1>5

(* An output of a chain that has one.                                      *)
LEMMA OneOutput ==
  ASSUME OutsOK, NEW c \in Chains
  PROVE  /\ DOMAIN outs[c] = IF outs[c] = <<>> THEN {} ELSE {1}
         /\ outs[c] = <<>> => Len(outs[c]) = 0
         /\ outs[c] # <<>> => Len(outs[c]) = 1 /\ outs[c][1] \in Output(c)
<1>1. outs[c] \in Seq(Output(c)) /\ Len(outs[c]) <= 1
  BY DEF OutsOK
<1> QED BY <1>1, ShortSeq

(* Of what was found, one output at most, pickExact picks that one.        *)
LEMMA PickOne ==
  ASSUME NEW found, NEW u \in BOOLEAN, DOMAIN found \subseteq {1}
  PROVE  pickExact(found, u) = IF 1 \in DOMAIN found /\ (u => found[1].spend = "none")
                                 THEN 1 ELSE 0
<1> DEFINE Good == {i \in DOMAIN found : u => found[i].spend = "none"}
<1>1. CASE 1 \in DOMAIN found /\ (u => found[1].spend = "none")
  <2>1. Good = {1}
    BY <1>1
  <2>2. Good # {} /\ \A i \in Good : Good \ {i} = {}
    BY <2>1
  <2>3. pickExact(found, u) \in Good
    <3> HIDE DEF Good
    <3> QED BY <2>2 DEF pickExact, Good
  <2> QED BY <1>1, <2>1, <2>3
<1>2. CASE ~(1 \in DOMAIN found /\ (u => found[1].spend = "none"))
  <2>1. Good = {}
    BY <1>2
  <2> QED BY <1>2, <2>1 DEF pickExact
<1> QED BY <1>1, <1>2

(* A scan finds the output if it is listed.                                *)
LEMMA ScanOK ==
  ASSUME TypeOK, OutsOK, NEW c \in Chains
  PROVE  /\ FoundOK(scan(c), c)
         /\ DOMAIN scan(c) = IF outs[c] # <<>> /\ outs[c][1].listed THEN {1} ELSE {}
         /\ \A i \in DOMAIN scan(c) : scan(c)[i] = outs[c][1]
<1>1. DOMAIN outs[c] = IF outs[c] = <<>> THEN {} ELSE {1}
  BY OneOutput
<1>2. outs[c] # <<>> => outs[c][1] \in Output(c)
  BY OneOutput
<1>3. \A i \in DOMAIN outs[c] : outs[c][i].mined => outs[c][i].spend # "none"
  BY DEF TypeOK, Chains
<1>4. /\ DOMAIN scan(c) = IF outs[c] # <<>> /\ outs[c][1].listed THEN {1} ELSE {}
      /\ \A i \in DOMAIN scan(c) : scan(c)[i] = outs[c][1]
  BY <1>1 DEF scan
<1> QED BY <1>1, <1>2, <1>3, <1>4 DEF FoundOK

-----------------------------------------------------------------------------
(* What is kept while outputs are added, listed and spent.                 *)

Grows ==
  \A c \in Chains : outs[c] # <<>> =>
    /\ outs'[c] # <<>>
    /\ outs[c][1].listed => outs'[c][1].listed
    /\ outs[c][1].mined => outs'[c][1].mined /\ outs'[c][1].spend = outs[c][1].spend

LEMMA LockStays ==
  ASSUME Grows, NEW p \in Side, HasLock(p)
  PROVE  HasLock(p)'
BY SideChains DEF Grows, HasLock

(* The chains whose output was claimed or refunded stay so.                *)
LEMMA SettledStays ==
  ASSUME OutsOK, OutsOK', Grows, NEW c \in Chains, NEW how, Settled(c, how)
  PROVE  Settled(c, how)'
<1>1. outs[c] \in Seq(Output(c)) /\ Len(outs[c]) <= 1
  BY DEF OutsOK
<1>2. outs'[c] \in Seq(Output(c)) /\ Len(outs'[c]) <= 1
  BY DEF OutsOK, Output, Deepest
<1>3. DOMAIN outs[c] = (IF outs[c] = <<>> THEN {} ELSE {1})
      /\ DOMAIN outs'[c] = (IF outs'[c] = <<>> THEN {} ELSE {1})
  BY <1>1, <1>2, ShortSeq
<1>4. outs[c] # <<>> /\ outs[c][1].mined /\ outs[c][1].spend = how
  BY <1>3 DEF Settled
<1>5. outs'[c] # <<>> /\ outs'[c][1].mined /\ outs'[c][1].spend = how
  BY <1>4 DEF Grows
<1> QED BY <1>3, <1>5 DEF Settled

LEMMA FoundKept ==
  ASSUME NEW c \in Chains, NEW found, FoundOK(found, c), Grows
  PROVE  FoundOK(found, c)'
<1>1. Output(c)' = Output(c)
  BY DEF Output, Deepest
<1> SUFFICES ASSUME NEW i \in DOMAIN found
             PROVE  /\ i = 1 /\ outs'[c] # <<>> /\ found[i] \in Output(c)
                    /\ found[i].mined => found[i].spend # "none"
                                         /\ outs'[c][i].mined /\ outs'[c][i].spend = found[i].spend
  BY <1>1 DEF FoundOK
<1>2. /\ i = 1 /\ outs[c] # <<>> /\ found[i] \in Output(c)
      /\ found[i].mined => found[i].spend # "none"
                           /\ outs[c][i].mined /\ outs[c][i].spend = found[i].spend
  BY DEF FoundOK
<1>3. outs'[c] # <<>> /\ (outs[c][1].mined => outs'[c][1].mined /\ outs'[c][1].spend = outs[c][1].spend)
  BY <1>2 DEF Grows
<1> QED BY <1>2, <1>3

LEMMA Lifetime ==
  matchLifetime(TakerChain) \in Nat /\ matchLifetime(TakerChain) > 0
<1>1. RefundAnchors[TakerChain] \in Nat
  BY FoldAssumption, SwapAssumption
<1>2. /\ PROOF_WINDOW \in Nat /\ TAKER_LOCK_WINDOW \in Nat /\ PRUNE_MARGIN \in Nat
      /\ TAKER_LOCK_WINDOW > 0
  BY FoldAssumption
<1> QED BY <1>1, <1>2 DEF matchLifetime

LEMMA SettingTypes ==
  ASSUME TypeOK
  PROVE  /\ setting.height \in Nat /\ setting.faults \in Nat /\ setting.lag \in BOOLEAN
         /\ setting.vigilant \subseteq Side /\ height \in Nat /\ faults \in Nat
<1>1. setting \in [vigilant : SUBSET Side, height : Nat, faults : Nat,
                   lag : BOOLEAN, timely : BOOLEAN]
  BY SwapAssumption DEF TypeOK
<1>2. height \in 0..setting.height /\ faults \in 0..setting.faults
  BY DEF TypeOK
<1> QED BY <1>1, <1>2

LEMMA PrunedStays ==
  ASSUME TypeOK, height' \in Nat, height <= height', pruned(height)
  PROVE  pruned(height)'
BY Lifetime, SettingTypes DEF pruned

(* A record stays sound while its owner's HTLC is not funded meanwhile.    *)
LEMMA RecordKept ==
  ASSUME TypeOK, OutsOK, OutsOK', Grows, UNCHANGED setting,
         height' \in Nat, height <= height',
         NEW p \in Side, NEW s, RecordOK(p, s), HasLock(p)' => HasLock(p),
         p \in stale' => p \in stale \/ (HasLock(p) => outs[MyChain(p)][1].listed)
  PROVE  RecordOK(p, s)'
<1>1. LockKnown(p, s)'
  <2>1. pruned(height) => pruned(height)'
    BY PrunedStays
  <2>2. HasLock(p) /\ outs[MyChain(p)][1].listed => outs'[MyChain(p)][1].listed
    BY SideChains DEF HasLock, Grows
  <2> QED BY <2>1, <2>2 DEF RecordOK, LockKnown
<1>2. LockKept(p, s)'
  BY DEF RecordOK, LockKept
<1>3. ASSUME p = taker PROVE TakerEnds(s)' /\ TakerResolved(s)'
  <2>1. TakerEnds(s)'
    BY <1>3 DEF RecordOK, TakerEnds
  <2>2. Settled(MakerChain, "claim") => Settled(MakerChain, "claim")'
    BY SettledStays DEF Chains
  <2>3. HasLock(taker) /\ outs[TakerChain][1].mined =>
          outs'[TakerChain][1].mined /\ outs'[TakerChain][1].spend = outs[TakerChain][1].spend
    BY SideChains, <1>3 DEF Grows, HasLock
  <2> QED BY <1>3, <2>1, <2>2, <2>3 DEF RecordOK, TakerResolved
<1> QED BY <1>1, <1>2, <1>3 DEF RecordOK

-----------------------------------------------------------------------------
(* The board.                                                              *)

LEMMA AdvanceMatch ==
  ASSUME NEW v, NEW h, NEW k \in DOMAIN advance(v, h).matches
  PROVE  /\ k \in DOMAIN v.matches /\ ~(v.matches[k].pruneAt <= h)
         /\ \/ advance(v, h).matches[k] = v.matches[k]
            \/ /\ v.matches[k].status = "awaitingProofs"
               /\ advance(v, h).matches[k] = CancelUnproven(v.matches[k])
<1> DEFINE ms == [m \in DOMAIN v.matches |->
                    IF m \in Unproven(v, h) THEN CancelUnproven(v.matches[m])
                                            ELSE v.matches[m]]
<1>1. advance(v, h).matches = Without(ms, Prunable(v, h))
  BY DEF advance
<1>2. /\ k \in DOMAIN v.matches /\ k \notin Prunable(v, h)
      /\ advance(v, h).matches[k] = ms[k]
  BY <1>1 DEF Without
<1>3. ms[k] = IF k \in Unproven(v, h) THEN CancelUnproven(v.matches[k]) ELSE v.matches[k]
  BY <1>2
<1>4. ~(v.matches[k].pruneAt <= h)
  BY <1>2 DEF Prunable
<1>5. k \in Unproven(v, h) => v.matches[k].status = "awaitingProofs"
  BY DEF Unproven
<1> HIDE DEF ms
<1> QED BY <1>2, <1>3, <1>4, <1>5

(* The match after a step that only concerns the board.                    *)
LEMMA SaysChanged ==
  ASSUME TypeOK, NEW m, SaysOK(m), NEW n, UNCHANGED <<at, outs, setting>>,
         MatchFields \subseteq DOMAIN n,
         n.maker = m.maker, n.taker = m.taker, n.pruneAt = m.pruneAt, height' < n.pruneAt,
         n.status \in {"awaitingProofs", "escrow", "cancelled"},
         n.makerProof => n.makerKey # None, n.status = "escrow" => n.makerProof,
         n.makerLock => m.makerLock \/ HasLock(maker),
         n.takerLock => m.takerLock \/ HasLock(taker),
         n.status = "awaitingProofs" => m.status = "awaitingProofs",
         n.status = "cancelled" =>
           \/ m.status \in {"cancelled", "awaitingProofs"}
           \/ at[maker] = "idle" /\ (~setting.lag => ~HasLock(maker))
  PROVE  SaysOK(n)'
<1>1. \A p \in Side : HasLock(p)' <=> HasLock(p)
  BY DEF HasLock
<1>2. taker \in Side /\ maker \in Side
  BY DEF Side
<1>3. MatchOK(n)'
  BY DEF SaysOK, MatchOK
<1>4. n.status = "cancelled" =>
        at[maker] \notin {"scanned", "funding"} /\ (~setting.lag => ~HasLock(maker))
  BY <1>2 DEF SaysOK
<1> QED BY <1>1, <1>2, <1>3, <1>4 DEF SaysOK

LEMMA AnchorSays ==
  ASSUME TypeOK, BoardOK, Anchor
  PROVE  BoardOK'
<1> SUFFICES ASSUME NEW n \in Matched' PROVE SaysOK(n)'
  BY DEF BoardOK
<1>1. /\ view' = advance(view, height + 1) /\ height' = height + 1
      /\ UNCHANGED <<at, outs, setting>>
  BY DEF Anchor, engine, chains
<1>2. PICK m : m = view.matches[theMatch]
  OBVIOUS
<1>3. theMatch \in DOMAIN view'.matches /\ n = view'.matches[theMatch]
  BY DEF Matched
<1>4. /\ theMatch \in DOMAIN view.matches /\ ~(m.pruneAt <= height + 1)
      /\ n = m \/ (m.status = "awaitingProofs" /\ n = CancelUnproven(m))
  <2>1. theMatch \in DOMAIN advance(view, height + 1).matches
    BY <1>1, <1>3
  <2>2. /\ theMatch \in DOMAIN view.matches
        /\ ~(view.matches[theMatch].pruneAt <= height + 1)
        /\ \/ advance(view, height + 1).matches[theMatch] = view.matches[theMatch]
           \/ /\ view.matches[theMatch].status = "awaitingProofs"
              /\ advance(view, height + 1).matches[theMatch]
                   = CancelUnproven(view.matches[theMatch])
    BY <2>1, AdvanceMatch
  <2> QED BY <2>2, <1>1, <1>2, <1>3
<1>5. SaysOK(m)
  BY <1>2, <1>4 DEF BoardOK, Matched
<1>6. MatchOK(m)
  BY <1>5 DEF SaysOK
<1>7. /\ n.pruneAt = m.pruneAt /\ n.maker = m.maker /\ n.taker = m.taker
      /\ n.makerLock = m.makerLock /\ n.takerLock = m.takerLock
      /\ n.makerProof = m.makerProof /\ n.makerKey = m.makerKey
      /\ MatchFields \subseteq DOMAIN n
      /\ n.status = m.status \/ (n.status = "cancelled" /\ m.status = "awaitingProofs")
  <2>1. CASE n = m
    <3>1. MatchFields \subseteq DOMAIN m
      BY <1>6 DEF MatchOK
    <3> QED BY <3>1, <2>1
  <2>2. CASE m.status = "awaitingProofs" /\ n = CancelUnproven(m)
    <3>1. DOMAIN n = DOMAIN m
      BY <2>2 DEF CancelUnproven
    <3> QED BY <3>1, <2>2, <1>6 DEF CancelUnproven, MatchOK, MatchFields
  <2> QED BY <1>4, <2>1, <2>2
<1>8. height' < n.pruneAt
  <2>1. height \in Nat /\ m.pruneAt \in Nat
    BY <1>6, Lifetime, SettingTypes DEF MatchOK
  <2> QED BY <2>1, <1>1, <1>4, <1>7
<1>9. SaysOK(n)'
  BY <1>1, <1>5, <1>6, <1>7, <1>8, SaysChanged DEF MatchOK
<1> QED BY <1>9

(* What an op that is accepted makes of the match.                         *)
LEMMA CertifySays ==
  ASSUME TypeOK, BoardOK, WayOK, NEW op \in flight, Certify(op)
  PROVE  BoardOK'
<1> SUFFICES ASSUME NEW n \in Matched' PROVE SaysOK(n)'
  BY DEF BoardOK
<1>1. UNCHANGED <<height, at, outs, setting>>
  BY DEF Certify, engine, chains
<1>2. theMatch \in DOMAIN view'.matches /\ n = view'.matches[theMatch]
  BY DEF Matched
<1>3. CASE ~Accepted(view, op, height)
  <2>1. view' = view
    BY <1>3 DEF Certify
  <2>2. SaysOK(n)
    BY <2>1, <1>2 DEF BoardOK, Matched
  <2>3. MatchOK(n) /\ UNCHANGED height
    BY <1>1, <2>2 DEF SaysOK
  <2> QED BY <1>1, <2>2, <2>3, SaysChanged DEF MatchOK
<1>4. CASE Accepted(view, op, height)
  <2>0. view' = After(view, op, height)
    BY <1>4 DEF Certify
  <2>1. op = [by |-> op.by, kind |-> op.kind] /\ op.by \in Side
        /\ op.kind \in {"proof", "locked", "abort"}
    BY DEF TypeOK
  <2>2. PICK m : m = view.matches[theMatch]
    OBVIOUS
  <2>3. theMatch \in DOMAIN view.matches => SaysOK(m) /\ MatchOK(m)
    BY <2>2 DEF BoardOK, Matched, SaysOK
  <2>4. taker # maker /\ taker \in Side /\ maker \in Side /\ makerKey # None
    BY SwapAssumption, FoldAssumption DEF Side
  <2>5. CASE op.kind = "proof" /\ op.by = maker
    <3>1. MakerProofAccepted(view, maker, theMatch, makerKey, MakerChain, height)
      BY <1>4, <2>4, <2>5 DEF Accepted
    <3>2. theMatch \in DOMAIN view.matches /\ m.status = "awaitingProofs"
      BY <3>1, <2>2 DEF MakerProofAccepted, AwaitsProof
    <3>3. n = IntoEscrow([m EXCEPT !.makerProof = TRUE, !.makerKey = makerKey])
      BY <1>2, <2>0, <2>2, <2>4, <2>5, <3>2 DEF After, MakerProven, WithMatch
    <3>4. MatchOK(m) /\ SaysOK(m)
      BY <2>3, <3>2
    <3>5. /\ DOMAIN n = DOMAIN m /\ n.maker = m.maker /\ n.taker = m.taker
          /\ n.pruneAt = m.pruneAt /\ n.makerKey = makerKey /\ n.makerProof
          /\ n.makerLock = m.makerLock /\ n.takerLock = m.takerLock
          /\ n.status \in {"awaitingProofs", "escrow"}
      BY <3>2, <3>3, <3>4 DEF IntoEscrow, MatchOK, MatchFields
    <3> QED BY <1>1, <2>4, <3>2, <3>4, <3>5, SaysChanged DEF MatchOK
  <2>6. CASE op.kind = "proof" /\ op.by = taker
    <3>1. TakerProofAccepted(view, taker, theMatch, None, TakerChain, height)
      BY <1>4, <2>6, <2>4 DEF Accepted
    <3>2. theMatch \in DOMAIN view.matches /\ m.status = "awaitingProofs"
      BY <3>1, <2>2 DEF TakerProofAccepted, AwaitsProof
    <3>3. n = IntoEscrow([m EXCEPT !.takerProof = TRUE])
      BY <1>2, <2>0, <2>2, <2>4, <2>6, <3>2 DEF After, TakerProven, WithMatch
    <3>4. MatchOK(m) /\ SaysOK(m)
      BY <2>3, <3>2
    <3>5. /\ DOMAIN n = DOMAIN m /\ n.maker = m.maker /\ n.taker = m.taker
          /\ n.pruneAt = m.pruneAt /\ n.makerKey = m.makerKey /\ n.makerProof = m.makerProof
          /\ n.makerLock = m.makerLock /\ n.takerLock = m.takerLock
          /\ n.status \in {"awaitingProofs", "escrow"}
          /\ n.status = "escrow" => m.makerProof
      BY <3>2, <3>3, <3>4 DEF IntoEscrow, MatchOK, MatchFields
    <3> QED BY <1>1, <3>2, <3>4, <3>5, SaysChanged DEF MatchOK
  <2>7. CASE op.kind = "locked"
    <3>1. Way(op.by, "locked") /\ HasLock(op.by)
      BY <2>1, <2>7 DEF Way, WayOK
    <3>2. theMatch \in DOMAIN view.matches /\ m.status = "escrow"
      BY <1>4, <2>1, <2>2, <2>4, <2>7
         DEF Accepted, Side, MakerLockAccepted, TakerLockAccepted, InEscrow
    <3>3. MatchOK(m) /\ SaysOK(m)
      BY <2>3, <3>2
    <3>4. \/ op.by = maker /\ n = [m EXCEPT !.makerLock = TRUE]
          \/ op.by = taker /\ n = [m EXCEPT !.takerLock = TRUE]
      BY <1>2, <2>0, <2>1, <2>2, <2>4, <2>7, <3>2
         DEF After, Side, MakerLocked, TakerLocked, WithMatch
    <3>5. /\ DOMAIN n = DOMAIN m /\ n.maker = m.maker /\ n.taker = m.taker
          /\ n.pruneAt = m.pruneAt /\ n.makerKey = m.makerKey /\ n.makerProof = m.makerProof
          /\ n.makerLock => m.makerLock \/ HasLock(maker)
          /\ n.takerLock => m.takerLock \/ HasLock(taker)
          /\ n.status = m.status
      BY <3>1, <3>3, <3>4 DEF MatchOK, MatchFields
    <3> QED BY <1>1, <3>2, <3>3, <3>5, SaysChanged DEF MatchOK
  <2>8. CASE op.kind = "abort"
    <3>1. AbortAccepted(view, op.by, theMatch)
      BY <1>4, <2>8 DEF Accepted
    <3>2. theMatch \in DOMAIN view.matches /\ op.by = m.maker
      BY <3>1, <2>2 DEF AbortAccepted
    <3>3. MatchOK(m) /\ SaysOK(m)
      BY <2>3, <3>2
    <3>4. at[maker] = "idle" /\ (~setting.lag => ~HasLock(maker))
      BY <2>1, <2>8, <3>2, <3>3 DEF WayOK, Way, MatchOK
    <3>5. n = [m EXCEPT !.status = "cancelled",
                        !.cancelled = [at |-> height, reason |-> "abort"]]
      BY <1>2, <2>0, <2>2, <2>8, <3>2 DEF After, Aborted
    <3>6. /\ DOMAIN n = DOMAIN m /\ n.maker = m.maker /\ n.taker = m.taker
          /\ n.pruneAt = m.pruneAt /\ n.makerKey = m.makerKey /\ n.makerProof = m.makerProof
          /\ n.makerLock = m.makerLock /\ n.takerLock = m.takerLock
          /\ n.status = "cancelled"
      BY <3>3, <3>5 DEF MatchOK, MatchFields
    <3> QED BY <1>1, <3>3, <3>4, <3>6, SaysChanged DEF MatchOK
  <2> QED BY <2>1, <2>5, <2>6, <2>7, <2>8 DEF Side
<1> QED BY <1>3, <1>4

-----------------------------------------------------------------------------
(* Steps of the chains.                                                    *)

LEMMA ShortMap ==
  ASSUME NEW S, NEW s \in Seq(S), Len(s) <= 1, NEW T, NEW f,
         f = [i \in DOMAIN s |-> f[i]], \A i \in DOMAIN s : f[i] \in T
  PROVE  /\ f \in Seq(T) /\ Len(f) = Len(s)
         /\ f = <<>> <=> s = <<>>
<1>1. Len(s) \in Nat /\ DOMAIN s = 1..Len(s)
  BY LenProperties
<1>2. f \in [1..Len(s) -> T]
  BY <1>1
<1>3. f \in Seq(T)
  BY <1>1, <1>2
<1>4. Len(f) \in Nat /\ DOMAIN f = 1..Len(f)
  BY <1>3, LenProperties
<1>5. Len(f) = Len(s)
  BY <1>1, <1>2, <1>4
<1> QED BY <1>3, <1>5, EmptySeq

(* Outputs that were there are mined, listed or lose a spend.              *)
LEMMA ChainKeeps ==
  ASSUME SwapInv, TypeOK', OutsOK', Grows, UNCHANGED <<board, engine, setting>>,
         \A p \in Side : HasLock(p)' => HasLock(p)
  PROVE  SwapInv'
<1>1. UNCHANGED <<view, height, flight, side, disk, posts, at, seen, stale>>
  BY DEF board, engine
<1>2. TypeOK /\ OutsOK /\ BoardOK /\ WayOK
  BY DEF SwapInv
<1>3. height' \in Nat /\ height <= height'
  BY <1>1, <1>2, SettingTypes
<1>4. \A p \in Side : HasLock(p)' <=> HasLock(p)
  BY LockStays
<1>5. ASSUME NEW p \in Side
      PROVE  (SeenOK(p) /\ RecordOK(p, side[p]) /\ RecordOK(p, disk[p]) /\ StepOK(p))'
  <2>1. SeenOK(p) /\ RecordOK(p, side[p]) /\ RecordOK(p, disk[p]) /\ StepOK(p)
    BY DEF SwapInv
  <2>2. SeenOK(p)'
    BY <1>1, <2>1, SideChains, FoundKept DEF SeenOK, ReadOK, pruned
  <2>3. RecordOK(p, side[p])'
    <3>1. PICK s : s = side[p]
      OBVIOUS
    <3>2. RecordOK(p, s)'
      BY <1>1, <1>2, <1>3, <1>4, <2>1, <3>1, RecordKept
    <3> QED BY <1>1, <3>1, <3>2
  <2>4. RecordOK(p, disk[p])'
    <3>1. PICK s : s = disk[p]
      OBVIOUS
    <3>2. RecordOK(p, s)'
      BY <1>1, <1>2, <1>3, <1>4, <2>1, <3>1, RecordKept
    <3> QED BY <1>1, <3>1, <3>2
  <2>5. StepOK(p)'
    BY <1>1, <1>4, <2>1 DEF StepOK
  <2> QED BY <2>2, <2>3, <2>4, <2>5
<1>6. WayOK'
  <2>1. \A p \in Side : \A kind : Way(p, kind)' <=> Way(p, kind)
    BY <1>1 DEF Way
  <2>2. taker \in Side /\ maker \in Side
    BY DEF Side
  <2>3. pruned(height)' <=> pruned(height)
    BY <1>1 DEF pruned
  <2> QED BY <1>1, <1>2, <1>4, <2>1, <2>2, <2>3 DEF WayOK
<1>7. BoardOK'
  <2> SUFFICES ASSUME NEW n \in Matched' PROVE SaysOK(n)'
    BY DEF BoardOK
  <2>1. n \in Matched
    BY <1>1 DEF Matched
  <2>2. SaysOK(n)
    BY <1>2, <2>1 DEF BoardOK
  <2> QED BY <1>1, <1>4, <2>2 DEF SaysOK, MatchOK, Side
<1> QED BY <1>5, <1>6, <1>7 DEF SwapInv, Timely

(* What TypeOK says of the outputs of a chain.                             *)
OutputsOK(c) ==
  \A i \in DOMAIN outs[c] :
    /\ outs[c][i] \in Output(c)
    /\ outs[c][i].mined => outs[c][i].confs > 0 /\ outs[c][i].spend # "none"

(* One output of a chain that has one becomes another.                     *)
LEMMA OutputChanges ==
  ASSUME TypeOK, OutsOK, NEW c \in Chains, outs[c] # <<>>, NEW o \in Output(c), NEW f,
         f = [i \in DOMAIN outs[c] |-> o], outs' = [outs EXCEPT ![c] = f], UNCHANGED setting,
         o.mined => o.confs > 0 /\ o.spend # "none", outs[c][1].listed => o.listed,
         outs[c][1].mined => o.mined /\ o.spend = outs[c][1].spend
  PROVE  /\ OutsOK' /\ Grows
         /\ \A d \in Chains : OutputsOK(d)' /\ Len(outs'[d]) = Len(outs[d])
         /\ \A p \in Side : HasLock(p)' => HasLock(p)
         /\ outs'[c][1] = o /\ \A d \in Chains : d # c => outs'[d] = outs[d]
<1>1. DOMAIN outs[c] = {1} /\ outs[c] \in Seq(Output(c)) /\ Len(outs[c]) <= 1
  BY OneOutput DEF OutsOK
<1>2. f \in Seq(Output(c)) /\ Len(f) = Len(outs[c]) /\ f # <<>>
  <2>1. f = [i \in DOMAIN outs[c] |-> f[i]] /\ \A i \in DOMAIN outs[c] : f[i] \in Output(c)
    OBVIOUS
  <2> QED BY <1>1, <2>1, ShortMap
<1>3. f[1] = o /\ DOMAIN f = {1}
  BY <1>1
<1>4. /\ outs' = [d \in Chains |-> outs'[d]] /\ outs'[c] = f
      /\ \A d \in Chains : d # c => outs'[d] = outs[d]
  BY DEF OutsOK
<1>5. OutsOK'
  <2>1. \A d \in Chains : outs[d] \in Seq(Output(d)) /\ Len(outs[d]) <= 1
    BY DEF OutsOK
  <2>2. \A d \in Chains : outs'[d] \in Seq(Output(d)) /\ Len(outs'[d]) <= 1
    BY <1>1, <1>2, <1>4, <2>1
  <2>3. \A d \in Chains : outs'[d] # <<>> /\ ~setting'.lag => outs'[d][1].listed
    BY <1>3, <1>4 DEF OutsOK
  <2> QED BY <1>4, <2>2, <2>3 DEF OutsOK, Output, Deepest
<1>6. Grows
  BY <1>2, <1>3, <1>4 DEF Grows
<1>7. ASSUME NEW d \in Chains PROVE OutputsOK(d)' /\ Len(outs'[d]) = Len(outs[d])
  <2>1. OutputsOK(d)
    BY DEF TypeOK, Chains, OutputsOK
  <2>2. CASE d = c
    BY <1>2, <1>3, <1>4, <2>2 DEF OutputsOK, Output, Deepest
  <2>3. CASE d # c
    BY <1>4, <2>1, <2>3 DEF OutputsOK, Output, Deepest
  <2> QED BY <2>2, <2>3
<1>8. \A p \in Side : HasLock(p)' => HasLock(p)
  BY <1>4, SideChains DEF HasLock
<1> QED BY <1>3, <1>4, <1>5, <1>6, <1>7, <1>8

(* Types after a step of the chains.                                       *)
LEMMA ChainTypes ==
  ASSUME TypeOK, UNCHANGED <<board, engine, setting>>,
         lead' \in -MaxDrift..MaxDrift, due' \subseteq setting.vigilant,
         faults' \in 0..setting.faults,
         \A d \in Chains : OutputsOK(d)' /\ Len(outs'[d]) = Len(outs[d])
  PROVE  TypeOK'
<1>1. UNCHANGED <<view, height, flight, side, disk, posts, at, seen, stale, setting>>
  BY DEF board, engine
<1>2. \A p \in Side : \A s \in {side[p], disk[p]} \ {None} :
        s.myLock <= Len(outs'[MyChain(p)]) /\ s.theirLock <= Len(outs'[TheirChain(p)])
  BY SideChains DEF TypeOK
<1>3. \A c \in Chains : OutputsOK(c)'
  OBVIOUS
<1> QED BY <1>1, <1>2, <1>3 DEF TypeOK, OutputsOK, Chains, Output, Deepest, SideRecord

LEMMA DeepestOK ==
  ASSUME NEW c \in Chains
  PROVE  Deepest[c] = RefundBlocks[c] + 1 /\ RefundBlocks[c] \in Nat \ {0} /\ Deepest[c] \in Nat
BY SwapAssumption DEF Deepest, Chains

LEMMA MinedShape ==
  ASSUME NEW c, NEW b \in Output(c), NEW o, o = Mined(b, c)
  PROVE  /\ o.spend = b.spend /\ o.mined = (b.spend # "none") /\ o.listed = TRUE
         /\ o.confs = IF b.confs < Deepest[c] THEN b.confs + 1 ELSE b.confs
         /\ o = [confs |-> o.confs, listed |-> o.listed, spend |-> o.spend, mined |-> o.mined]
<1> DEFINE deeper == IF b.confs < Deepest[c] THEN b.confs + 1 ELSE b.confs
           spent == b.spend # "none"
<1>1. o = [b EXCEPT !.confs = deeper, !.listed = TRUE, !.mined = spent]
  BY DEF Mined
<1> HIDE DEF deeper, spent
<1>2. /\ o.confs = deeper /\ o.listed = TRUE /\ o.mined = spent /\ o.spend = b.spend
      /\ o = [confs |-> o.confs, listed |-> o.listed, spend |-> o.spend, mined |-> o.mined]
  BY <1>1 DEF Output
<1> QED BY <1>2 DEF deeper, spent

(* A block takes in the mempool of its chain.                              *)
LEMMA BlockOut ==
  ASSUME SwapInv, NEW c \in Chains, Block(c)
  PROVE  /\ OutsOK' /\ Grows
         /\ \A d \in Chains : OutputsOK(d)' /\ Len(outs'[d]) = Len(outs[d])
         /\ \A p \in Side : HasLock(p)' => HasLock(p)
         /\ \A d \in Chains : d # c => outs'[d] = outs[d]
         /\ outs[c] # <<>> =>
              /\ outs'[c][1].spend = outs[c][1].spend
              /\ outs'[c][1].mined = (outs[c][1].spend # "none")
              /\ outs'[c][1].confs = IF outs[c][1].confs < Deepest[c]
                                       THEN outs[c][1].confs + 1 ELSE outs[c][1].confs
<1>1. TypeOK /\ OutsOK
  BY DEF SwapInv
<1>2. /\ UNCHANGED setting
      /\ outs' = [outs EXCEPT ![c] = [i \in DOMAIN outs[c] |-> Mined(outs[c][i], c)]]
  BY DEF Block
<1>3. CASE outs[c] = <<>>
  <2>1. [i \in DOMAIN outs[c] |-> Mined(outs[c][i], c)] = <<>>
    <3>1. DOMAIN outs[c] = {}
      BY <1>1, <1>3, OneOutput
    <3> QED BY <3>1
  <2>2. outs' = outs
    BY <1>1, <1>2, <1>3, <2>1 DEF OutsOK
  <2>3. OutsOK' /\ Grows
    BY <1>1, <1>2, <2>2 DEF OutsOK, Grows, Output, Deepest
  <2>4. \A d \in Chains : OutputsOK(d)' /\ Len(outs'[d]) = Len(outs[d])
    BY <1>1, <2>2 DEF TypeOK, OutputsOK, Chains, Output, Deepest
  <2>5. \A p \in Side : HasLock(p)' => HasLock(p)
    BY <2>2 DEF HasLock
  <2> QED BY <1>3, <2>2, <2>3, <2>4, <2>5
<1>4. CASE outs[c] # <<>>
  <2> DEFINE b == outs[c][1]
             o == Mined(b, c)
             f == [i \in DOMAIN outs[c] |-> o]
  <2>1. DOMAIN outs[c] = {1} /\ b \in Output(c)
    BY <1>1, <1>4, OneOutput
  <2>2. /\ o.spend = b.spend /\ o.mined = (b.spend # "none") /\ o.listed = TRUE
        /\ o.confs = IF b.confs < Deepest[c] THEN b.confs + 1 ELSE b.confs
        /\ o = [confs |-> o.confs, listed |-> o.listed, spend |-> o.spend, mined |-> o.mined]
    BY <2>1, MinedShape
  <2>3. o \in Output(c) /\ o.confs > 0
    <3>1. b.confs \in 0..Deepest[c] /\ Deepest[c] \in Nat /\ Deepest[c] > 0
      BY <2>1, DeepestOK DEF Output
    <3>2. o.confs \in 0..Deepest[c] /\ o.confs > 0
      <4> HIDE DEF o, b
      <4> QED BY <2>2, <3>1
    <3>3. o.listed \in BOOLEAN /\ o.mined \in BOOLEAN /\ o.spend \in {"none", "claim", "refund"}
      BY <2>1, <2>2 DEF Output
    <3> HIDE DEF o, b
    <3> QED BY <2>2, <3>2, <3>3 DEF Output
  <2>4. outs' = [outs EXCEPT ![c] = f] /\ f = [i \in DOMAIN outs[c] |-> o]
    BY <1>2, <2>1
  <2>5. b.mined => b.spend # "none"
    BY <1>1, <2>1 DEF TypeOK, Chains
  <2>6. /\ o.mined => o.confs > 0 /\ o.spend # "none"
        /\ outs[c][1].listed => o.listed
        /\ outs[c][1].mined => o.mined /\ o.spend = outs[c][1].spend
    BY <2>2, <2>3, <2>5
  <2> HIDE DEF o, f
  <2>7. /\ OutsOK' /\ Grows
        /\ \A d \in Chains : OutputsOK(d)' /\ Len(outs'[d]) = Len(outs[d])
        /\ \A p \in Side : HasLock(p)' => HasLock(p)
        /\ outs'[c][1] = o /\ \A d \in Chains : d # c => outs'[d] = outs[d]
    BY <1>1, <1>2, <1>4, <2>3, <2>4, <2>6, OutputChanges
  <2> QED BY <2>2, <2>7
<1> QED BY <1>3, <1>4

LEMMA BlockKeeps ==
  ASSUME SwapInv, NEW c \in Chains, Block(c)
  PROVE  SwapInv'
<1>1. TypeOK /\ OutsOK
  BY DEF SwapInv
<1>2. /\ UNCHANGED <<board, engine, faults, setting>>
      /\ lead' \in -MaxDrift..MaxDrift /\ due' = setting.vigilant
  BY DEF Block
<1>3. faults' \in 0..setting.faults /\ UNCHANGED setting
  BY <1>1, <1>2 DEF TypeOK
<1>4. /\ OutsOK' /\ Grows
      /\ \A d \in Chains : OutputsOK(d)' /\ Len(outs'[d]) = Len(outs[d])
      /\ \A p \in Side : HasLock(p)' => HasLock(p)
  BY BlockOut
<1>5. TypeOK'
  BY <1>1, <1>2, <1>3, <1>4, ChainTypes
<1> QED BY <1>2, <1>4, <1>5, ChainKeeps

(* An output loses its spend, which is a fault, or is listed.              *)
LEMMA EvictListOut ==
  ASSUME SwapInv, NEW c \in Chains, NEW i, Evict(c, i) \/ List(c, i)
  PROVE  /\ outs[c] # <<>> /\ OutsOK' /\ Grows
         /\ \A d \in Chains : OutputsOK(d)' /\ Len(outs'[d]) = Len(outs[d])
         /\ \A p \in Side : HasLock(p)' => HasLock(p)
         /\ \A d \in Chains : d # c => outs'[d] = outs[d]
         /\ outs'[c][1].confs = outs[c][1].confs /\ outs'[c][1].mined = outs[c][1].mined
         /\ \/ outs'[c][1].spend = outs[c][1].spend
            \/ outs'[c][1].spend = "none" /\ Fault
<1>1. TypeOK /\ OutsOK
  BY DEF SwapInv
<1>2. i \in DOMAIN outs[c] /\ UNCHANGED setting
  BY DEF Evict, List
<1>3. outs[c] # <<>> /\ DOMAIN outs[c] = {1} /\ i = 1
  BY <1>1, <1>2, OneOutput
<1>4. outs[c][1] \in Output(c)
  BY <1>1, <1>3, OneOutput
<1>5. PICK o \in Output(c) :
        /\ outs' = [outs EXCEPT ![c] = [j \in DOMAIN outs[c] |-> o]]
        /\ o.mined => o.confs > 0 /\ o.spend # "none"
        /\ outs[c][1].listed => o.listed
        /\ outs[c][1].mined => o.mined /\ o.spend = outs[c][1].spend
        /\ o.confs = outs[c][1].confs /\ o.mined = outs[c][1].mined
        /\ o.spend = outs[c][1].spend \/ (o.spend = "none" /\ Fault)
  <2> DEFINE b == outs[c][1]
  <2>0. b.mined => b.confs > 0 /\ b.spend # "none"
    BY <1>1, <1>3 DEF TypeOK, Chains
  <2>1. CASE Evict(c, i)
    <3> DEFINE o == [b EXCEPT !.spend = "none"]
    <3>1. o \in Output(c)
      BY <1>4 DEF Output
    <3>2. outs' = [outs EXCEPT ![c] = [outs[c] EXCEPT ![1] = o]] /\ ~b.mined /\ Fault
      BY <1>3, <2>1 DEF Evict
    <3>3. [outs[c] EXCEPT ![1] = o] = [j \in DOMAIN outs[c] |-> o]
      <4>1. outs[c] = [j \in DOMAIN outs[c] |-> outs[c][j]]
        BY <1>1 DEF OutsOK
      <4> HIDE DEF o
      <4> QED BY <1>3, <4>1
    <3>4. o.mined = b.mined /\ o.listed = b.listed /\ o.confs = b.confs /\ o.spend = "none"
      BY <1>4 DEF Output
    <3> HIDE DEF o
    <3> QED BY <3>1, <3>2, <3>3, <3>4
  <2>2. CASE List(c, i)
    <3> DEFINE o == [b EXCEPT !.listed = TRUE]
    <3>1. o \in Output(c)
      BY <1>4 DEF Output
    <3>2. outs' = [outs EXCEPT ![c] = [outs[c] EXCEPT ![1] = o]]
      BY <1>3, <2>2 DEF List
    <3>3. [outs[c] EXCEPT ![1] = o] = [j \in DOMAIN outs[c] |-> o]
      <4>1. outs[c] = [j \in DOMAIN outs[c] |-> outs[c][j]]
        BY <1>1 DEF OutsOK
      <4> HIDE DEF o
      <4> QED BY <1>3, <4>1
    <3>4. /\ o.mined = b.mined /\ o.listed = TRUE /\ o.spend = b.spend /\ o.confs = b.confs
      BY <1>4 DEF Output
    <3> HIDE DEF o
    <3> QED BY <2>0, <3>1, <3>2, <3>3, <3>4
  <2> QED BY <2>1, <2>2
<1>6. PICK f : f = [j \in DOMAIN outs[c] |-> o]
  OBVIOUS
<1>7. /\ OutsOK' /\ Grows
      /\ \A d \in Chains : OutputsOK(d)' /\ Len(outs'[d]) = Len(outs[d])
      /\ \A p \in Side : HasLock(p)' => HasLock(p)
      /\ outs'[c][1] = o /\ \A d \in Chains : d # c => outs'[d] = outs[d]
  BY <1>1, <1>2, <1>3, <1>5, <1>6, OutputChanges
<1> QED BY <1>3, <1>5, <1>7

LEMMA EvictListKeep ==
  ASSUME SwapInv, NEW c \in Chains, NEW i, Evict(c, i) \/ List(c, i)
  PROVE  SwapInv'
<1>1. TypeOK /\ OutsOK
  BY DEF SwapInv
<1>2. /\ UNCHANGED <<board, engine, setting, lead, due>>
      /\ lead' \in -MaxDrift..MaxDrift /\ due' \subseteq setting.vigilant
  BY <1>1 DEF Evict, List, TypeOK
<1>3. faults' \in 0..setting.faults /\ UNCHANGED setting
  <2>1. faults' = faults \/ (faults < setting.faults /\ faults' = faults + 1)
    BY DEF Evict, List, Fault
  <2>2. faults \in 0..setting.faults /\ setting.faults \in Nat
    BY <1>1, SettingTypes DEF TypeOK
  <2> QED BY <1>2, <2>1, <2>2
<1>4. /\ OutsOK' /\ Grows
      /\ \A d \in Chains : OutputsOK(d)' /\ Len(outs'[d]) = Len(outs[d])
      /\ \A p \in Side : HasLock(p)' => HasLock(p)
  BY EvictListOut
<1>5. TypeOK'
  BY <1>1, <1>2, <1>3, <1>4, ChainTypes
<1> QED BY <1>2, <1>4, <1>5, ChainKeeps

-----------------------------------------------------------------------------
(* Steps beside the passes.                                                *)

LEMMA SameOuts ==
  ASSUME OutsOK, UNCHANGED <<outs, setting>>
  PROVE  OutsOK' /\ Grows /\ \A p \in Side : HasLock(p)' <=> HasLock(p)
BY DEF OutsOK, Grows, HasLock, Output, Deepest

(* The parties keep what they have while the board moves.                  *)
LEMMA PartiesKept ==
  ASSUME SwapInv, UNCHANGED <<outs, setting, side, disk, at, seen, stale>>,
         height' \in Nat, height <= height', NEW p \in Side
  PROVE  (SeenOK(p) /\ RecordOK(p, side[p]) /\ RecordOK(p, disk[p]) /\ StepOK(p))'
<1>1. TypeOK /\ OutsOK
  BY DEF SwapInv
<1>2. OutsOK' /\ Grows /\ \A q \in Side : HasLock(q)' <=> HasLock(q)
  BY <1>1, SameOuts
<1>3. SeenOK(p) /\ RecordOK(p, side[p]) /\ RecordOK(p, disk[p]) /\ StepOK(p)
  BY DEF SwapInv
<1>4. SeenOK(p)'
  BY <1>1, <1>2, <1>3, SideChains, FoundKept, PrunedStays DEF SeenOK, ReadOK
<1>5. RecordOK(p, side[p])'
  <2>1. PICK s : s = side[p]
    OBVIOUS
  <2>2. RecordOK(p, s)'
    BY <1>1, <1>2, <1>3, <2>1, RecordKept
  <2> QED BY <2>1, <2>2
<1>6. RecordOK(p, disk[p])'
  <2>1. PICK s : s = disk[p]
    OBVIOUS
  <2>2. RecordOK(p, s)'
    BY <1>1, <1>2, <1>3, <2>1, RecordKept
  <2> QED BY <2>1, <2>2
<1>7. StepOK(p)'
  BY <1>2, <1>3 DEF StepOK
<1> QED BY <1>4, <1>5, <1>6, <1>7

LEMMA AnchorKeeps ==
  ASSUME SwapInv, Anchor
  PROVE  SwapInv'
<1>1. TypeOK /\ OutsOK /\ BoardOK /\ WayOK
  BY DEF SwapInv
<1>2. /\ height' = height + 1 /\ height < setting.height
      /\ UNCHANGED <<flight, engine, chains, due, faults, setting>>
  BY DEF Anchor
<1>3. height' \in 0..setting.height /\ height' \in Nat /\ height <= height'
  BY <1>1, <1>2, SettingTypes
<1>4. TypeOK'
  BY <1>1, <1>2, <1>3 DEF TypeOK, engine, chains, SideRecord, Output, Deepest
<1>5. OutsOK' /\ \A p \in Side : HasLock(p)' <=> HasLock(p)
  BY <1>1, <1>2, SameOuts DEF chains
<1>6. BoardOK'
  BY <1>1, AnchorSays
<1>7. WayOK'
  <2>1. \A p \in Side : \A kind : Way(p, kind)' <=> Way(p, kind)
    BY <1>2 DEF Way, engine
  <2>2. pruned(height) => pruned(height)'
    BY <1>1, <1>3, PrunedStays
  <2>3. taker \in Side /\ maker \in Side
    BY DEF Side
  <2> QED BY <1>1, <1>2, <1>5, <2>1, <2>2, <2>3 DEF WayOK, engine
<1>8. \A p \in Side :
        (SeenOK(p) /\ RecordOK(p, side[p]) /\ RecordOK(p, disk[p]) /\ StepOK(p))'
  BY <1>2, <1>3, PartiesKept DEF engine, chains
<1> QED BY <1>2, <1>4, <1>5, <1>6, <1>7, <1>8 DEF SwapInv, Timely

LEMMA CertifyKeeps ==
  ASSUME SwapInv, NEW op \in flight, Certify(op)
  PROVE  SwapInv'
<1>1. TypeOK /\ OutsOK /\ BoardOK /\ WayOK
  BY DEF SwapInv
<1>2. /\ flight' = flight \ {op}
      /\ UNCHANGED <<height, engine, chains, due, faults, setting>>
  BY DEF Certify
<1>3. height' \in Nat /\ height <= height'
  BY <1>1, <1>2, SettingTypes
<1>4. TypeOK'
  BY <1>1, <1>2 DEF TypeOK, engine, chains, SideRecord, Output, Deepest
<1>5. OutsOK' /\ \A p \in Side : HasLock(p)' <=> HasLock(p)
  BY <1>1, <1>2, SameOuts DEF chains
<1>6. BoardOK'
  BY <1>1, CertifySays
<1>7. WayOK'
  <2>1. \A p \in Side : \A kind : Way(p, kind)' => Way(p, kind)
    BY <1>2 DEF Way, engine
  <2>2. pruned(height)' <=> pruned(height)
    BY <1>2 DEF pruned
  <2>3. taker \in Side /\ maker \in Side
    BY DEF Side
  <2> QED BY <1>1, <1>2, <1>5, <2>1, <2>2, <2>3 DEF WayOK, engine
<1>8. \A p \in Side :
        (SeenOK(p) /\ RecordOK(p, side[p]) /\ RecordOK(p, disk[p]) /\ StepOK(p))'
  BY <1>2, <1>3, PartiesKept DEF engine, chains
<1> QED BY <1>2, <1>4, <1>5, <1>6, <1>7, <1>8 DEF SwapInv, Timely

LEMMA SubmitKeeps ==
  ASSUME SwapInv, NEW p \in Side, NEW kind \in {"proof", "locked", "abort"}, Submit(p, kind)
  PROVE  SwapInv'
<1>1. TypeOK /\ OutsOK /\ BoardOK /\ WayOK
  BY DEF SwapInv
<1>2. PICK op : op = [by |-> p, kind |-> kind]
  OBVIOUS
<1>3. /\ posts[p][kind] = "pending" /\ flight' \in {flight, flight \cup {op}}
      /\ \E to \in {"posted", "no"} : posts' = [posts EXCEPT ![p][kind] = to]
      /\ UNCHANGED <<view, height, side, disk, at, seen, stale, chains, due, setting>>
      /\ faults' = faults \/ (faults < setting.faults /\ faults' = faults + 1)
  BY <1>2 DEF Submit, Fault
<1>4. height' \in Nat /\ height <= height' /\ faults' \in 0..setting.faults
  BY <1>1, <1>3, SettingTypes DEF TypeOK
<1>5. /\ flight' \subseteq [by : Side, kind : {"proof", "locked", "abort"}]
      /\ posts' \in [Side -> [{"proof", "locked", "abort"} -> {"no", "pending", "posted"}]]
  BY <1>1, <1>2, <1>3 DEF TypeOK
<1>6. TypeOK'
  BY <1>1, <1>3, <1>4, <1>5 DEF TypeOK, chains, SideRecord, Output, Deepest
<1>7. OutsOK' /\ \A q \in Side : HasLock(q)' <=> HasLock(q)
  BY <1>1, <1>3, SameOuts DEF chains
<1>8. WayOK'
  <2>1. \A q \in Side : \A k \in {"proof", "locked", "abort"} : Way(q, k)' => Way(q, k)
    <3> SUFFICES ASSUME NEW q \in Side, NEW k \in {"proof", "locked", "abort"}, Way(q, k)'
                 PROVE  Way(q, k)
      OBVIOUS
    <3>1. posts'[q][k] = "pending" => posts[q][k] = "pending"
      BY <1>1, <1>3 DEF TypeOK
    <3>2. [by |-> q, kind |-> k] \in flight' => [by |-> q, kind |-> k] \in flight \/ (q = p /\ k = kind)
      BY <1>2, <1>3
    <3> QED BY <1>3, <3>1, <3>2 DEF Way
  <2>2. pruned(height)' <=> pruned(height)
    BY <1>3 DEF pruned
  <2>3. taker \in Side /\ maker \in Side
    BY DEF Side
  <2> QED BY <1>1, <1>3, <1>7, <2>1, <2>2, <2>3 DEF WayOK
<1>9. BoardOK'
  <2> SUFFICES ASSUME NEW n \in Matched' PROVE SaysOK(n)'
    BY DEF BoardOK
  <2>1. n \in Matched
    BY <1>3 DEF Matched
  <2>2. SaysOK(n)
    BY <1>1, <2>1 DEF BoardOK
  <2> QED BY <1>3, <1>7, <2>2 DEF SaysOK, MatchOK, Side
<1>10. \A q \in Side :
         (SeenOK(q) /\ RecordOK(q, side[q]) /\ RecordOK(q, disk[q]) /\ StepOK(q))'
  BY <1>3, <1>4, PartiesKept DEF chains
<1> QED BY <1>3, <1>6, <1>7, <1>8, <1>9, <1>10 DEF SwapInv, Timely

-----------------------------------------------------------------------------
(* Steps of a party: its record, its file, where its pass is, what it has  *)
(* read and what it posts.                                                 *)

PartyStep(p, s, d, a, r, w) ==
  /\ UNCHANGED <<board, lead, setting>> /\ due' \subseteq due
  /\ side' = [side EXCEPT ![p] = s] /\ disk' = [disk EXCEPT ![p] = d]
  /\ at' = [at EXCEPT ![p] = a] /\ seen' = [seen EXCEPT ![p] = r]
  /\ posts' = [posts EXCEPT ![p] = w]
  /\ stale' \subseteq Side /\ \A q \in Side \ {p} : q \in stale' <=> q \in stale
  /\ faults' \in 0..setting.faults

OutputsStep(p) ==
  /\ OutsOK' /\ Grows /\ \A c \in Chains : OutputsOK(c)'
  /\ \A q \in Side \ {p} : HasLock(q)' => HasLock(q)

(* A record of p that is well formed.                                      *)
Fits(p, s) ==
  s # None =>
    /\ s \in SideRecord
    /\ s.myLock <= Len(outs[MyChain(p)]) /\ s.theirLock <= Len(outs[TheirChain(p)])

LEMMA FitsKept ==
  ASSUME OutsOK, OutsOK', Grows, NEW p \in Side, NEW s, Fits(p, s)
  PROVE  Fits(p, s)'
<1>1. \A c \in Chains : outs[c] \in Seq(Output(c)) /\ Len(outs[c]) <= 1
  BY DEF OutsOK
<1>2. \A c \in Chains : outs'[c] \in Seq(Output(c)) /\ Len(outs'[c]) <= 1
  BY DEF OutsOK, Output, Deepest
<1>3. ASSUME NEW c \in Chains, NEW n \in Nat, n <= Len(outs[c]) PROVE n <= Len(outs'[c])
  <2>1. CASE outs[c] = <<>>
    <3>1. Len(outs[c]) = 0 /\ Len(outs'[c]) \in Nat
      BY <1>2, <2>1, LenProperties
    <3> QED BY <1>3, <3>1
  <2>2. CASE outs[c] # <<>>
    <3>1. outs'[c] # <<>>
      BY <2>2 DEF Grows
    <3>2. Len(outs[c]) = 1 /\ Len(outs'[c]) = 1
      BY <1>1, <1>2, <2>2, <3>1, ShortSeq
    <3> QED BY <1>3, <3>2
  <2> QED BY <2>1, <2>2
<1>4. s # None => s.myLock \in Nat /\ s.theirLock \in Nat
  BY SwapAssumption DEF Fits, SideRecord
<1> QED BY <1>3, <1>4, SideChains DEF Fits, SideRecord

LEMMA FitsSides ==
  ASSUME TypeOK, NEW p \in Side
  PROVE  Fits(p, side[p]) /\ Fits(p, disk[p])
<1>1. side[p] \in SideRecord \cup {None} /\ disk[p] \in SideRecord \cup {None}
  BY DEF TypeOK
<1>2. \A s \in {side[p], disk[p]} \ {None} :
        s.myLock <= Len(outs[MyChain(p)]) /\ s.theirLock <= Len(outs[TheirChain(p)])
  BY DEF TypeOK
<1> QED BY <1>1, <1>2 DEF Fits

LEMMA PassTypes ==
  ASSUME TypeOK, OutsOK, NEW p \in Side, NEW s, NEW d, NEW r,
         NEW a \in {"idle", "scanned", "funding", "funded", "claiming", "refunding"},
         NEW w \in [{"proof", "locked", "abort"} -> {"no", "pending", "posted"}],
         PartyStep(p, s, d, a, r, w), OutputsStep(p), Fits(p, s)', Fits(p, d)'
  PROVE  TypeOK'
<1>1. /\ side' \in [Side -> SideRecord \cup {None}] /\ disk' \in [Side -> SideRecord \cup {None}]
      /\ at' \in [Side -> {"idle", "scanned", "funding", "funded", "claiming", "refunding"}]
      /\ posts' \in [Side -> [{"proof", "locked", "abort"} -> {"no", "pending", "posted"}]]
  <2>1. s \in SideRecord \cup {None} /\ d \in SideRecord \cup {None}
    BY DEF Fits, SideRecord
  <2> QED BY <2>1 DEF PartyStep, TypeOK
<1>2. ASSUME NEW q \in Side, NEW t \in {side'[q], disk'[q]} \ {None}
      PROVE  t.myLock <= Len(outs'[MyChain(q)]) /\ t.theirLock <= Len(outs'[TheirChain(q)])
  <2>1. Fits(q, t)'
    <3>1. CASE q = p
      <4>1. t = s \/ t = d
        BY <3>1 DEF PartyStep, TypeOK
      <4> QED BY <3>1, <4>1
    <3>2. CASE q # p
      <4>1. t = side[q] \/ t = disk[q]
        BY <3>2 DEF PartyStep, TypeOK
      <4>2. Fits(q, t)
        BY <4>1, FitsSides
      <4> QED BY <4>2, FitsKept DEF OutputsStep
    <3> QED BY <3>1, <3>2
  <2> QED BY <2>1 DEF Fits
<1>3. /\ height' \in 0..setting'.height /\ faults' \in 0..setting'.faults
      /\ lead' \in -MaxDrift..MaxDrift /\ setting' \in Settings
      /\ flight' \subseteq [by : Side, kind : {"proof", "locked", "abort"}]
      /\ stale' \subseteq Side /\ due' \subseteq setting'.vigilant
  BY DEF PartyStep, TypeOK, board
<1>4. \A c \in {TakerChain, MakerChain} : \A i \in DOMAIN outs'[c] :
        /\ outs'[c][i] \in Output(c)'
        /\ outs'[c][i].mined => outs'[c][i].confs > 0 /\ outs'[c][i].spend # "none"
  BY DEF OutputsStep, OutputsOK, Chains
<1> QED BY <1>1, <1>2, <1>3, <1>4 DEF TypeOK, SideRecord

(* What the invariant asks of the board when p has posted w, is at a and   *)
(* has the record s.                                                       *)
PostsOK(p, s, a, w) ==
  /\ w["locked"] = "pending" => posts[p]["locked"] = "pending" \/ HasLock(p)
  /\ p = taker => w["abort"] # "pending"
  /\ p = maker /\ (Way(maker, "abort") \/ w["abort"] = "pending") =>
       /\ a = "idle" /\ (~setting.lag => ~HasLock(maker)')
       /\ IF s = None THEN pruned(height) ELSE Dormant(s)

BoardAgrees(p, a) ==
  \A m \in Matched :
    /\ m.status = "awaitingProofs" => a = "idle" /\ ~HasLock(p)'
    /\ p = maker /\ m.status = "cancelled" =>
         a \notin {"scanned", "funding"} /\ (~setting.lag => ~HasLock(maker)')

(* The other party keeps what it has.                                      *)
LEMMA OtherKept ==
  ASSUME SwapInv, NEW p \in Side, NEW s, NEW d, NEW a, NEW r, NEW w,
         PartyStep(p, s, d, a, r, w), OutputsStep(p), NEW q \in Side, q # p
  PROVE  (SeenOK(q) /\ RecordOK(q, side[q]) /\ RecordOK(q, disk[q]) /\ StepOK(q))'
<1>1. /\ TypeOK /\ OutsOK /\ OutsOK' /\ Grows
      /\ SeenOK(q) /\ RecordOK(q, side[q]) /\ RecordOK(q, disk[q]) /\ StepOK(q)
  BY DEF SwapInv, OutputsStep
<1>2. /\ side'[q] = side[q] /\ disk'[q] = disk[q] /\ at'[q] = at[q] /\ seen'[q] = seen[q]
      /\ seen' = [t \in Side |-> seen'[t]] /\ (q \in stale' <=> q \in stale)
      /\ UNCHANGED <<view, height, setting>>
  BY <1>1 DEF PartyStep, TypeOK, SeenOK, ReadOK, board
<1>3. HasLock(q)' <=> HasLock(q)
  BY LockStays DEF OutputsStep
<1>4. SeenOK(q)'
  BY <1>1, <1>2, SideChains, FoundKept DEF SeenOK, ReadOK, pruned
<1>5. height' \in Nat /\ height <= height'
  BY <1>1, <1>2, SettingTypes
<1>6. RecordOK(q, side[q])'
  <2>1. PICK t : t = side[q]
    OBVIOUS
  <2>2. RecordOK(q, t)'
    BY <1>1, <1>2, <1>3, <1>5, <2>1, RecordKept
  <2> QED BY <1>2, <2>1, <2>2
<1>7. RecordOK(q, disk[q])'
  <2>1. PICK t : t = disk[q]
    OBVIOUS
  <2>2. RecordOK(q, t)'
    BY <1>1, <1>2, <1>3, <1>5, <2>1, RecordKept
  <2> QED BY <1>2, <2>1, <2>2
<1>8. StepOK(q)'
  BY <1>1, <1>2, <1>3 DEF StepOK
<1> QED BY <1>4, <1>6, <1>7, <1>8

LEMMA PartyWay ==
  ASSUME SwapInv, NEW p \in Side, NEW s, NEW d, NEW a, NEW r, NEW w,
         PartyStep(p, s, d, a, r, w), OutputsStep(p), PostsOK(p, s, a, w)
  PROVE  WayOK'
<1>1. TypeOK /\ WayOK /\ Grows
  BY DEF SwapInv, OutputsStep
<1>2. UNCHANGED <<flight, height, setting>>
  BY DEF PartyStep, board
<1>3. /\ posts'[p] = w /\ side'[p] = s /\ at'[p] = a
      /\ \A q \in Side \ {p} : /\ posts'[q] = posts[q] /\ side'[q] = side[q] /\ at'[q] = at[q]
                               /\ HasLock(q)' <=> HasLock(q)
  BY <1>1, LockStays DEF PartyStep, TypeOK, OutputsStep
<1>4. \A q \in Side \ {p} : \A k : Way(q, k)' <=> Way(q, k)
  BY <1>2, <1>3 DEF Way
<1>5. \A k : Way(p, k)' => Way(p, k) \/ w[k] = "pending"
  BY <1>2, <1>3 DEF Way
<1>6. ASSUME NEW q \in Side, Way(q, "locked")' PROVE HasLock(q)'
  <2>1. CASE q = p
    <3>1. Way(p, "locked") => HasLock(p)
      BY <1>1 DEF WayOK
    <3>2. HasLock(p)
      BY <1>5, <1>6, <2>1, <3>1 DEF PostsOK, Way
    <3> QED BY <1>1, <2>1, <3>2, LockStays
  <2>2. CASE q # p
    BY <1>1, <1>3, <1>4, <1>6, <2>2 DEF WayOK
  <2> QED BY <2>1, <2>2
<1>7. ~Way(taker, "abort")'
  <2>1. taker \in Side /\ ~Way(taker, "abort")
    BY <1>1 DEF Side, WayOK
  <2> QED BY <1>4, <1>5, <2>1 DEF PostsOK
<1>8. ASSUME Way(maker, "abort")'
      PROVE  /\ at'[maker] = "idle" /\ (~setting'.lag => ~HasLock(maker)')
             /\ IF side'[maker] = None THEN pruned(height)' ELSE Dormant(side'[maker])
  <2>1. maker \in Side
    BY DEF Side
  <2>2. pruned(height)' <=> pruned(height)
    BY <1>2 DEF pruned
  <2>3. CASE p = maker
    BY <1>2, <1>3, <1>5, <1>8, <2>2, <2>3 DEF PostsOK
  <2>4. CASE p # maker
    BY <1>1, <1>2, <1>3, <1>4, <1>8, <2>1, <2>2, <2>4 DEF WayOK
  <2> QED BY <2>3, <2>4
<1> QED BY <1>6, <1>7, <1>8 DEF WayOK, Dormant

LEMMA PartyBoard ==
  ASSUME SwapInv, NEW p \in Side, NEW s, NEW d, NEW a, NEW r, NEW w,
         PartyStep(p, s, d, a, r, w), OutputsStep(p), BoardAgrees(p, a)
  PROVE  BoardOK'
<1> SUFFICES ASSUME NEW n \in Matched' PROVE SaysOK(n)'
  BY DEF BoardOK
<1>1. UNCHANGED <<view, height, setting>>
  BY DEF PartyStep, board
<1>2. n \in Matched
  BY <1>1 DEF Matched
<1>3. SaysOK(n)
  BY <1>2 DEF SwapInv, BoardOK
<1>4. TypeOK /\ Grows
  BY DEF SwapInv, OutputsStep
<1>5. /\ at'[p] = a
      /\ \A q \in Side \ {p} : at'[q] = at[q] /\ (HasLock(q)' <=> HasLock(q))
  BY <1>4, LockStays DEF PartyStep, TypeOK, OutputsStep
<1>6. \A q \in Side : HasLock(q) => HasLock(q)'
  BY <1>4, LockStays
<1>7. maker \in Side /\ taker \in Side
  BY DEF Side
<1>8. MatchOK(n)'
  BY <1>1, <1>3 DEF SaysOK, MatchOK
<1>9. n.status = "awaitingProofs" => \A q \in Side : at'[q] = "idle" /\ ~HasLock(q)'
  BY <1>2, <1>3, <1>5 DEF BoardAgrees, SaysOK
<1>10. n.status = "cancelled" =>
         at'[maker] \notin {"scanned", "funding"} /\ (~setting'.lag => ~HasLock(maker)')
  BY <1>1, <1>2, <1>3, <1>5, <1>7 DEF BoardAgrees, SaysOK
<1> QED BY <1>3, <1>6, <1>7, <1>8, <1>9, <1>10 DEF SaysOK

(* What is to be shown of a step of p.                                     *)
LEMMA PartyKeeps ==
  ASSUME SwapInv, NEW p \in Side, NEW s, NEW d, NEW r,
         NEW a \in {"idle", "scanned", "funding", "funded", "claiming", "refunding"},
         NEW w \in [{"proof", "locked", "abort"} -> {"no", "pending", "posted"}],
         PartyStep(p, s, d, a, r, w), OutputsStep(p), PostsOK(p, s, a, w), BoardAgrees(p, a),
         Fits(p, s)', Fits(p, d)', RecordOK(p, s)', RecordOK(p, d)', SeenOK(p)', StepOK(p)'
  PROVE  SwapInv'
<1>1. TypeOK /\ OutsOK /\ OutsOK'
  BY DEF SwapInv, OutputsStep
<1>2. TypeOK'
  BY <1>1, PassTypes
<1>3. WayOK' /\ BoardOK'
  BY PartyWay, PartyBoard
<1>4. side'[p] = s /\ disk'[p] = d
  BY <1>1 DEF PartyStep, TypeOK
<1>5. RecordOK(p, side[p])'
  BY <1>4
<1>6. RecordOK(p, disk[p])'
  BY <1>4
<1>7. \A q \in Side :
        (SeenOK(q) /\ RecordOK(q, side[q]) /\ RecordOK(q, disk[q]) /\ StepOK(q))'
  BY <1>5, <1>6, OtherKept
<1>8. Timely'
  BY DEF SwapInv, Timely, PartyStep
<1> QED BY <1>1, <1>2, <1>3, <1>7, <1>8 DEF SwapInv

(* A board that a step of p does not contradict, its HTLC being as before. *)
LEMMA StillAgrees ==
  ASSUME SwapInv, NEW p \in Side, HasLock(p)' <=> HasLock(p),
         NEW a, a \notin {"scanned", "funding"}, a = "idle" \/ HasLock(p)
  PROVE  BoardAgrees(p, a)
<1> SUFFICES ASSUME NEW m \in Matched
             PROVE  /\ m.status = "awaitingProofs" => a = "idle" /\ ~HasLock(p)'
                    /\ p = maker /\ m.status = "cancelled" =>
                         a \notin {"scanned", "funding"} /\ (~setting.lag => ~HasLock(maker)')
  BY DEF BoardAgrees
<1>1. SaysOK(m)
  BY DEF SwapInv, BoardOK
<1> QED BY <1>1 DEF SaysOK

LEMMA SameOutputs ==
  ASSUME SwapInv, UNCHANGED <<outs, setting>>, NEW p \in Side
  PROVE  OutputsStep(p) /\ (HasLock(p)' <=> HasLock(p))
<1>1. TypeOK /\ OutsOK
  BY DEF SwapInv
<1>2. OutsOK' /\ Grows /\ \A q \in Side : HasLock(q)' <=> HasLock(q)
  BY <1>1, SameOuts
<1>3. \A c \in Chains : OutputsOK(c)'
  BY <1>1 DEF TypeOK, OutputsOK, Chains, Output, Deepest
<1> QED BY <1>2, <1>3 DEF OutputsStep

(* A pass that has read nothing.                                           *)
LEMMA NothingSeen ==
  ASSUME NEW p, seen' = [q \in Side |-> seen'[q]], seen'[p] = Nothing
  PROVE  SeenOK(p)'
<1>1. seen'[p].mine = <<>> /\ seen'[p].theirs = <<>> /\ ~seen'[p].pruned
  BY DEF Nothing
<1>2. seen'[p] = [h |-> seen'[p].h, pruned |-> seen'[p].pruned, hint |-> seen'[p].hint,
                  mine |-> seen'[p].mine, theirs |-> seen'[p].theirs]
  BY DEF Nothing
<1>3. FoundOK(seen[p].mine, MyChain(p))' /\ FoundOK(seen[p].theirs, TheirChain(p))'
  BY <1>1 DEF FoundOK
<1> QED BY <1>1, <1>2, <1>3 DEF SeenOK, ReadOK

(* The faults that are left.                                               *)
LEMMA FaultTypes ==
  ASSUME TypeOK, Fault \/ UNCHANGED faults
  PROVE  faults' \in 0..setting.faults
BY SettingTypes DEF Fault, TypeOK

(* What p has, it has after a step that leaves the outputs.                *)
LEMMA SameRecord ==
  ASSUME SwapInv, UNCHANGED <<outs, setting, height>>, NEW p \in Side, NEW s, RecordOK(p, s),
         p \in stale' => p \in stale \/ (HasLock(p) => outs[MyChain(p)][1].listed)
  PROVE  RecordOK(p, s)'
<1>1. TypeOK /\ OutsOK
  BY DEF SwapInv
<1>2. OutsOK' /\ Grows /\ \A q \in Side : HasLock(q)' <=> HasLock(q)
  BY <1>1, SameOuts
<1>3. height' \in Nat /\ height <= height'
  BY <1>1, SettingTypes
<1> QED BY <1>1, <1>2, <1>3, RecordKept

LEMMA GraceKeeps ==
  ASSUME SwapInv, NEW p \in Side, GraceOver(p)
  PROVE  SwapInv'
<1>1. TypeOK /\ OutsOK /\ WayOK /\ RecordOK(p, side[p]) /\ RecordOK(p, disk[p])
      /\ SeenOK(p) /\ StepOK(p)
  BY DEF SwapInv
<1>2. /\ UNCHANGED <<board, side, disk, posts, at, seen, chains, due, faults, setting>>
      /\ stale' = stale \cup {p}
      /\ setting.lag =>
           at[p] = "idle" /\ \A i \in DOMAIN outs[MyChain(p)] : outs[MyChain(p)][i].listed
  BY DEF GraceOver, SwapInv, Timely
<1>3. PICK s, d, a, r, w :
        s = side[p] /\ d = disk[p] /\ a = at[p] /\ r = seen[p] /\ w = posts[p]
  OBVIOUS
<1>4. /\ a \in {"idle", "scanned", "funding", "funded", "claiming", "refunding"}
      /\ w \in [{"proof", "locked", "abort"} -> {"no", "pending", "posted"}]
  BY <1>1, <1>2, <1>3 DEF TypeOK
<1>5. PartyStep(p, s, d, a, r, w)
  <2>1. faults' \in 0..setting.faults
    BY <1>1, <1>2, FaultTypes
  <2> QED BY <1>1, <1>2, <1>3, <2>1 DEF PartyStep, TypeOK, SeenOK, ReadOK, chains
<1>6. OutputsStep(p) /\ (HasLock(p)' <=> HasLock(p))
  BY <1>2, SameOutputs DEF chains
<1>7. HasLock(p) => outs[MyChain(p)][1].listed
  <2>1. MyChain(p) \in Chains
    BY SideChains
  <2>2. setting.lag /\ HasLock(p) => outs[MyChain(p)][1].listed
    BY <1>1, <1>2, <2>1, OneOutput DEF HasLock
  <2>3. ~setting.lag /\ HasLock(p) => outs[MyChain(p)][1].listed
    BY <1>1, <2>1 DEF OutsOK, HasLock
  <2> QED BY <2>2, <2>3
<1>8. PostsOK(p, s, a, w)
  BY <1>1, <1>2, <1>3, <1>6 DEF PostsOK, WayOK, Way
<1>9. BoardAgrees(p, a)
  BY <1>3, <1>6 DEF BoardAgrees, SwapInv, BoardOK, SaysOK
<1>10. RecordOK(p, s)' /\ RecordOK(p, d)'
  BY <1>1, <1>2, <1>3, <1>7, SameRecord DEF chains, board
<1>11. Fits(p, s)' /\ Fits(p, d)'
  BY <1>1, <1>3, <1>6, FitsSides, FitsKept DEF OutputsStep
<1>12. SeenOK(p)'
  BY <1>1, <1>2, <1>6, SideChains, FoundKept DEF SeenOK, ReadOK, pruned, OutputsStep, board
<1>13. StepOK(p)'
  BY <1>1, <1>2, <1>6 DEF StepOK
<1> QED BY <1>4, <1>5, <1>6, <1>8, <1>9, <1>10, <1>11, <1>12, <1>13, PartyKeeps

(* A restart: the file is as good as the memory was.                       *)
LEMMA CrashKeeps ==
  ASSUME SwapInv, NEW p \in Side, Crash(p)
  PROVE  SwapInv'
<1>1. TypeOK /\ OutsOK /\ WayOK /\ RecordOK(p, side[p]) /\ RecordOK(p, disk[p])
      /\ SeenOK(p) /\ StepOK(p)
  BY DEF SwapInv
<1>2. /\ UNCHANGED <<board, disk, stale, chains, due, setting>> /\ Fault
      /\ side' = [side EXCEPT ![p] = disk[p]] /\ posts' = [posts EXCEPT ![p] = NoPosts]
      /\ at' = [at EXCEPT ![p] = "idle"] /\ seen' = [seen EXCEPT ![p] = Nothing]
  BY DEF Crash
<1>3. PICK d : d = disk[p]
  OBVIOUS
<1>4. NoPosts \in [{"proof", "locked", "abort"} -> {"no", "pending", "posted"}]
  BY DEF NoPosts
<1>5. PartyStep(p, d, d, "idle", Nothing, NoPosts)
  <2>1. faults' \in 0..setting.faults
    BY <1>1, <1>2, FaultTypes
  <2> QED BY <1>1, <1>2, <1>3, <2>1 DEF PartyStep, TypeOK, chains
<1>6. OutputsStep(p) /\ (HasLock(p)' <=> HasLock(p))
  BY <1>2, SameOutputs DEF chains
<1>7. PostsOK(p, d, "idle", NoPosts)
  BY <1>1, <1>2, <1>3, <1>6 DEF PostsOK, NoPosts, WayOK, StepOK
<1>8. BoardAgrees(p, "idle")
  BY <1>6, StillAgrees
<1>9. RecordOK(p, d)'
  BY <1>1, <1>2, <1>3, SameRecord DEF chains, board
<1>10. Fits(p, d)'
  BY <1>1, <1>3, <1>6, FitsSides, FitsKept DEF OutputsStep
<1>11. seen'[p] = Nothing /\ side'[p] = d /\ disk'[p] = d /\ at'[p] = "idle"
  BY <1>1, <1>2, <1>3 DEF SeenOK, ReadOK, TypeOK
<1>12. SeenOK(p)'
  <2>1. seen' = [q \in Side |-> seen'[q]]
    BY <1>1, <1>2 DEF SeenOK, ReadOK
  <2> QED BY <1>11, <2>1, NothingSeen
<1>13. StepOK(p)'
  BY <1>11 DEF StepOK
<1> QED BY <1>4, <1>5, <1>6, <1>7, <1>8, <1>9, <1>10, <1>12, <1>13, PartyKeeps

-----------------------------------------------------------------------------
(* The start and the end of a pass.                                        *)

LEMMA OnBoard ==
  ASSUME SwapInv, boardMatch # None
  PROVE  boardMatch \in Matched /\ SaysOK(boardMatch) /\ MatchOK(boardMatch) /\ ~pruned(height)
<1>1. boardMatch \in Matched
  BY DEF boardMatch, Matched
<1>2. SaysOK(boardMatch) /\ MatchOK(boardMatch)
  BY <1>1 DEF SwapInv, BoardOK, SaysOK
<1>3. height \in Nat
  BY SettingTypes DEF SwapInv
<1>4. ~pruned(height)
  BY <1>2, <1>3, Lifetime DEF pruned, MatchOK
<1> QED BY <1>1, <1>2, <1>4

LEMMA NewSideOK ==
  NewSide \in SideRecord
BY SwapAssumption DEF NewSide, SideRecord

LEMMA AdoptedOK ==
  ASSUME SwapInv, NEW p \in Side, Starts(p), NEW s, s = Adopted(p)
  PROVE  /\ s \in SideRecord /\ Fits(p, s) /\ RecordOK(p, s)
         /\ at[p] = "idle" /\ disk[p] = side[p]
         /\ p = maker /\ Way(maker, "abort") => Dormant(s) /\ (~setting.lag => ~HasLock(maker))
         /\ boardMatch # None /\ boardMatch.makerKey # None => s.makerKey
         /\ s.claim => disk[p] # None /\ disk[p].claim
<1>1. TypeOK /\ OutsOK /\ WayOK /\ RecordOK(p, side[p]) /\ StepOK(p)
  BY DEF SwapInv
<1>2. at[p] = "idle" /\ disk[p] = side[p] /\ (side[p] # None \/ boardMatch # None)
  BY <1>1 DEF Starts, StepOK
<1>3. PICK b : b = IF side[p] = None THEN NewSide ELSE side[p]
  OBVIOUS
<1>4. PICK key \in BOOLEAN :
        key = (b.makerKey \/ (boardMatch # None /\ boardMatch.makerKey # None))
  OBVIOUS
<1>5. s = [b EXCEPT !.makerKey = key]
  BY <1>3, <1>4 DEF Adopted
<1>6. b \in SideRecord /\ Fits(p, b)
  <2>1. CASE side[p] = None
    <3>1. Len(outs[MyChain(p)]) >= 0 /\ Len(outs[TheirChain(p)]) >= 0
      <4>1. \A c \in Chains : Len(outs[c]) \in Nat
        BY <1>1, LenProperties DEF OutsOK
      <4> QED BY <4>1, SideChains
    <3>2. b = NewSide /\ b.myLock = 0 /\ b.theirLock = 0
      BY <1>3, <2>1 DEF NewSide
    <3> QED BY <3>1, <3>2, NewSideOK DEF Fits
  <2>2. CASE side[p] # None
    BY <1>1, <1>3, <2>2, FitsSides DEF Fits
  <2> QED BY <2>1, <2>2
<1>7. /\ s \in SideRecord /\ s # None /\ s.makerKey = key
      /\ s.stage = b.stage /\ s.myLock = b.myLock /\ s.theirLock = b.theirLock
      /\ s.lockIntent = b.lockIntent /\ s.claim = b.claim
  BY <1>5, <1>6, NoneAssumption DEF SideRecord
<1>8. Fits(p, s)
  BY <1>6, <1>7, NoneAssumption DEF Fits
<1>9. RecordOK(p, s)
  <2>1. CASE side[p] = None
    <3>1. ~pruned(height)
      BY <1>2, <2>1, OnBoard
    <3>2. ~HasLock(p)
      BY <1>1, <2>1, <3>1 DEF RecordOK, LockKnown
    <3>3. ~s.claim
      BY <1>3, <1>7, <2>1 DEF NewSide
    <3> QED BY <3>2, <3>3 DEF RecordOK, LockKnown, LockKept, TakerEnds, TakerResolved
  <2>2. CASE side[p] # None
    <3>1. RecordOK(p, b) /\ b # None
      BY <1>1, <1>3, <2>2
    <3>2. b.makerKey => s.makerKey
      BY <1>4, <1>7
    <3> QED BY <1>7, <3>1, <3>2 DEF RecordOK, LockKnown, LockKept, TakerEnds, TakerResolved
  <2> QED BY <2>1, <2>2
<1>10. ASSUME p = maker, Way(maker, "abort")
       PROVE  Dormant(s) /\ (~setting.lag => ~HasLock(maker))
  <2>1. side[maker] # None
    <3>1. side[maker] = None => pruned(height)
      BY <1>1, <1>10 DEF WayOK
    <3>2. side[maker] = None => ~pruned(height)
      BY <1>2, <1>10, OnBoard
    <3> QED BY <3>1, <3>2
  <2>2. Dormant(b)
    BY <1>1, <1>3, <1>10, <2>1 DEF WayOK
  <2> QED BY <1>1, <1>7, <1>10, <2>2 DEF Dormant, WayOK
<1>11. boardMatch # None /\ boardMatch.makerKey # None => s.makerKey
  BY <1>4, <1>7
<1>12. s.claim => disk[p] # None /\ disk[p].claim
  BY <1>2, <1>3, <1>7 DEF NewSide
<1> QED BY <1>2, <1>7, <1>8, <1>9, <1>10, <1>11, <1>12

(* A pass may drop the record of a match that is over and pruned.          *)
LEMMA EndKeeps ==
  ASSUME SwapInv, NEW p \in Side, NEW s \in SideRecord, NEW r, End(p, s, r),
         UNCHANGED <<board, lead, setting>>, stale' \in {stale, stale \ {p}},
         Fault \/ UNCHANGED faults,
         NEW w \in [{"proof", "locked", "abort"} -> {"no", "pending", "posted"}],
         posts' = [posts EXCEPT ![p] = w], OutputsStep(p), PostsOK(p, s, "idle", w),
         BoardAgrees(p, "idle"), Fits(p, s)', RecordOK(p, s)', r.pruned => pruned(height)
  PROVE  SwapInv'
<1>1. TypeOK /\ SeenOK(p)
  BY DEF SwapInv
<1>2. PICK kept : kept = IF r.pruned /\ s.stage \in Terminal THEN None ELSE s
  OBVIOUS
<1>3. PartyStep(p, kept, kept, "idle", Nothing, w)
  <2>1. faults' \in 0..setting.faults
    BY <1>1, FaultTypes
  <2> QED BY <1>1, <1>2, <2>1 DEF End, Save, Hold, PartyStep, TypeOK
<1>4. seen'[p] = Nothing /\ side'[p] = kept /\ disk'[p] = kept /\ at'[p] = "idle"
      /\ seen' = [q \in Side |-> seen'[q]]
  BY <1>1, <1>3 DEF SeenOK, ReadOK, TypeOK, PartyStep
<1>5. SeenOK(p)'
  BY <1>4, NothingSeen
<1>6. StepOK(p)'
  BY <1>4 DEF StepOK
<1>7. s # None
  BY NoneAssumption
<1>8. PostsOK(p, kept, "idle", w)
  BY <1>2, <1>7 DEF PostsOK
<1>9. Fits(p, kept)'
  BY <1>2 DEF Fits
<1>10. RecordOK(p, kept)'
  <2>1. CASE kept = s
    BY <2>1
  <2>2. CASE kept = None /\ r.pruned /\ s.stage \in Terminal
    <3>1. pruned(height)'
      BY <2>2 DEF pruned, board
    <3> QED BY <1>7, <2>2, <3>1 DEF RecordOK, LockKnown, LockKept, TakerEnds, TakerResolved
  <2> QED BY <1>2, <2>1, <2>2
<1> QED BY <1>3, <1>5, <1>6, <1>8, <1>9, <1>10, PartyKeeps

(* The same where the chains stay as they are.                             *)
LEMMA EndThere ==
  ASSUME SwapInv, NEW p \in Side, NEW s \in SideRecord, NEW r, End(p, s, r),
         UNCHANGED <<board, chains, setting, stale>>, Fault \/ UNCHANGED faults,
         NEW w \in [{"proof", "locked", "abort"} -> {"no", "pending", "posted"}],
         posts' = [posts EXCEPT ![p] = w], PostsOK(p, s, "idle", w),
         Fits(p, s), RecordOK(p, s), r.pruned => pruned(height)
  PROVE  SwapInv'
<1>1. TypeOK /\ OutsOK
  BY DEF SwapInv
<1>2. OutputsStep(p) /\ (HasLock(p)' <=> HasLock(p))
  BY SameOutputs DEF chains
<1>3. BoardAgrees(p, "idle")
  BY <1>2, StillAgrees
<1>4. Fits(p, s)'
  BY <1>1, <1>2, FitsKept DEF OutputsStep
<1>5. RecordOK(p, s)'
  BY SameRecord DEF board, chains
<1>6. UNCHANGED <<board, lead, setting>> /\ stale' \in {stale, stale \ {p}}
  BY DEF chains
<1> QED BY <1>2, <1>3, <1>4, <1>5, <1>6, EndKeeps

(* One op at most becomes pending.                                         *)
LEMMA PostOpShape ==
  ASSUME TypeOK, NEW p \in Side, NEW kind \in {"proof", "locked", "abort"}, NEW when,
         postOp(p, kind, when)
  PROVE  \E w \in [{"proof", "locked", "abort"} -> {"no", "pending", "posted"}] :
           /\ posts' = [posts EXCEPT ![p] = w]
           /\ \A k \in {"proof", "locked", "abort"} :
                w[k] = "pending" => posts[p][k] = "pending" \/ (k = kind /\ when)
<1>1. posts[p] \in [{"proof", "locked", "abort"} -> {"no", "pending", "posted"}]
  BY DEF TypeOK
<1>2. CASE when /\ posts[p][kind] = "no"
  <2>1. PICK w : w = [posts[p] EXCEPT ![kind] = "pending"]
    OBVIOUS
  <2>2. w \in [{"proof", "locked", "abort"} -> {"no", "pending", "posted"}]
    BY <1>1, <2>1
  <2>3. posts' = [posts EXCEPT ![p] = w]
    BY <1>2, <2>1 DEF postOp, TypeOK
  <2>4. \A k \in {"proof", "locked", "abort"} :
          w[k] = "pending" => posts[p][k] = "pending" \/ (k = kind /\ when)
    BY <1>1, <1>2, <2>1
  <2> QED BY <2>2, <2>3, <2>4
<1>3. CASE ~(when /\ posts[p][kind] = "no")
  <2>1. posts' = [posts EXCEPT ![p] = posts[p]]
    BY <1>3 DEF postOp, TypeOK
  <2> QED BY <1>1, <2>1
<1> QED BY <1>2, <1>3

LEMMA NoPostShape ==
  ASSUME TypeOK, NEW p \in Side, UNCHANGED posts
  PROVE  /\ posts[p] \in [{"proof", "locked", "abort"} -> {"no", "pending", "posted"}]
         /\ posts' = [posts EXCEPT ![p] = posts[p]]
BY DEF TypeOK

-----------------------------------------------------------------------------
(* A pass that knows the HTLC of its party.                                *)

(* Nothing is posted that the chains do not bear out, and no abort.        *)
Quiet(p, w) ==
  /\ w["locked"] = "pending" => posts[p]["locked"] = "pending" \/ HasLock(p)
  /\ w["abort"] # "pending" /\ (p = maker => ~Way(maker, "abort"))

LEMMA ReadKept ==
  ASSUME Grows, UNCHANGED height, NEW p \in Side, NEW r, ReadOK(p, r)
  PROVE  ReadOK(p, r)'
<1>1. FoundOK(r.mine, MyChain(p))' /\ FoundOK(r.theirs, TheirChain(p))'
  BY SideChains, FoundKept DEF ReadOK
<1> QED BY <1>1 DEF ReadOK, pruned

LEMMA KnownHas ==
  ASSUME OutsOK, NEW p \in Side, NEW s \in SideRecord, Fits(p, s)
  PROVE  /\ s.myLock # 0 => s.myLock = 1 /\ HasLock(p)
         /\ s.theirLock # 0 => s.theirLock = 1 /\ outs[TheirChain(p)] # <<>>
<1>1. \A c \in Chains : Len(outs[c]) \in Nat /\ Len(outs[c]) <= 1 /\ (outs[c] = <<>> => Len(outs[c]) = 0)
  BY OneOutput, LenProperties DEF OutsOK
<1>2. s.myLock \in Nat /\ s.theirLock \in Nat /\ s # None
  BY SwapAssumption, NoneAssumption DEF SideRecord
<1>3. s.myLock <= Len(outs[MyChain(p)]) /\ s.theirLock <= Len(outs[TheirChain(p)])
  BY <1>2 DEF Fits
<1> QED BY <1>1, <1>2, <1>3, SideChains DEF HasLock

(* A pass that goes on to send a claim or a refund.                        *)
LEMMA SendKeeps ==
  ASSUME SwapInv, NEW p \in Side, NEW s \in SideRecord, NEW d \in {s, disk[p]}, NEW r,
         NEW a \in {"claiming", "refunding"}, Hold(p, s), disk' = [disk EXCEPT ![p] = d],
         Await(p, a, r), UNCHANGED <<board, lead, setting>>, stale' \in {stale, stale \ {p}}, Fault \/ UNCHANGED faults,
         NEW w \in [{"proof", "locked", "abort"} -> {"no", "pending", "posted"}],
         posts' = [posts EXCEPT ![p] = w], OutputsStep(p), HasLock(p)' <=> HasLock(p),
         Quiet(p, w), Fits(p, s), RecordOK(p, s), ReadOK(p, r), s.myLock # 0,
         a = "claiming" => s.theirLock # 0 /\ s.claim /\ d # None /\ d.claim
  PROVE  SwapInv'
<1>1. TypeOK /\ OutsOK /\ SeenOK(p) /\ RecordOK(p, disk[p]) /\ OutsOK' /\ Grows
  BY DEF SwapInv, OutputsStep
<1>2. PartyStep(p, s, d, a, r, w)
  <2>1. faults' \in 0..setting.faults
    BY <1>1, FaultTypes
  <2> QED BY <1>1, <2>1 DEF Hold, Await, PartyStep, TypeOK
<1>3. HasLock(p)
  BY <1>1, KnownHas
<1>4. BoardAgrees(p, a)
  BY <1>3, StillAgrees
<1>5. PostsOK(p, s, a, w)
  BY DEF PostsOK, Quiet
<1>6. Fits(p, s)' /\ Fits(p, d)'
  BY <1>1, FitsSides, FitsKept
<1>7. RecordOK(p, s)' /\ RecordOK(p, d)'
  <2>1. height' \in Nat /\ height <= height'
    BY <1>1, SettingTypes DEF board
  <2> QED BY <1>1, <2>1, RecordKept
<1>8. /\ seen'[p] = r /\ side'[p] = s /\ disk'[p] = d /\ at'[p] = a
      /\ seen' = [q \in Side |-> seen'[q]]
  BY <1>1, <1>2 DEF SeenOK, TypeOK, PartyStep
<1>9. SeenOK(p)'
  <2>1. ReadOK(p, r)'
    BY <1>1, ReadKept DEF board
  <2>2. ReadOK(p, seen[p])'
    BY <1>8, <2>1
  <2> QED BY <1>8, <2>2 DEF SeenOK
<1>10. StepOK(p)'
  BY <1>8, NoneAssumption DEF StepOK
<1> QED BY <1>2, <1>4, <1>5, <1>6, <1>7, <1>9, <1>10, PartyKeeps

(* A taker that ends with its HTLC known is refunded, or has claimed.      *)
LEMMA StageResolved ==
  ASSUME NEW s, NEW r, ReadOK(taker, r), OutsOK,
         StageOf(taker, s, r.mine, r.theirs) \in Terminal
  PROVE  \/ outs[TakerChain][1].mined /\ outs[TakerChain][1].spend = "refund"
         \/ Settled(MakerChain, "claim")
<1>1. FoundOK(r.mine, TakerChain) /\ FoundOK(r.theirs, MakerChain)
  BY SwapAssumption DEF ReadOK, MyChain, TheirChain
<1>2. \/ s.claim /\ MinedBy(r.theirs, s.theirLock, "claim")
      \/ s.refund /\ MinedBy(r.mine, s.myLock, "refund")
  BY DEF StageOf, Terminal
<1>3. CASE MinedBy(r.theirs, s.theirLock, "claim")
  <2>1. s.theirLock \in DOMAIN r.theirs /\ r.theirs[s.theirLock].mined
        /\ r.theirs[s.theirLock].spend = "claim"
    BY <1>3 DEF MinedBy, SpentBy
  <2>2. outs[MakerChain] # <<>> /\ outs[MakerChain][1].mined /\ outs[MakerChain][1].spend = "claim"
    BY <1>1, <2>1 DEF FoundOK
  <2>3. 1 \in DOMAIN outs[MakerChain]
    BY <2>2, OneOutput DEF Chains
  <2> QED BY <2>2, <2>3 DEF Settled
<1>4. CASE MinedBy(r.mine, s.myLock, "refund")
  <2>1. s.myLock \in DOMAIN r.mine /\ r.mine[s.myLock].mined
        /\ r.mine[s.myLock].spend = "refund"
    BY <1>4 DEF MinedBy, SpentBy
  <2> QED BY <1>1, <2>1 DEF FoundOK
<1> QED BY <1>2, <1>3, <1>4

(* A pass that ends with the HTLC of its party known.                      *)
LEMMA FinishKeeps ==
  ASSUME SwapInv, NEW p \in Side, NEW s \in SideRecord, NEW r, NEW stage,
         stage = StageOf(p, s, r.mine, r.theirs), Finish(p, s, r, stage),
         UNCHANGED <<board, lead, setting>>, stale' \in {stale, stale \ {p}},
         Fault \/ UNCHANGED faults,
         NEW w \in [{"proof", "locked", "abort"} -> {"no", "pending", "posted"}],
         posts' = [posts EXCEPT ![p] = w], OutputsStep(p), HasLock(p)' <=> HasLock(p),
         Quiet(p, w), Fits(p, s), RecordOK(p, s), ReadOK(p, r), s.myLock # 0
  PROVE  SwapInv'
<1>1. TypeOK /\ OutsOK /\ OutsOK' /\ Grows
  BY DEF SwapInv, OutputsStep
<1>2. PICK t : t = [s EXCEPT !.stage = stage]
  OBVIOUS
<1>3. stage \in {"active"} \cup Terminal
  BY DEF StageOf, Terminal
<1>4. /\ t \in SideRecord /\ t.stage = stage /\ t.myLock = s.myLock /\ t.theirLock = s.theirLock
      /\ t.makerKey = s.makerKey /\ t.claim = s.claim /\ t.lockIntent = s.lockIntent
  BY <1>2, <1>3 DEF SideRecord
<1>5. s # None /\ t # None
  BY <1>4, NoneAssumption
<1>6. HasLock(p)
  BY <1>1, KnownHas
<1>7. RecordOK(p, t)
  <2>1. ASSUME p = taker, stage \in Terminal
        PROVE  \/ outs[TakerChain][1].mined /\ outs[TakerChain][1].spend = "refund"
               \/ Settled(MakerChain, "claim")
    BY <1>1, <2>1, StageResolved
  <2> QED BY <1>4, <1>5, <2>1 DEF RecordOK, LockKnown, LockKept, TakerEnds, TakerResolved
<1>8. Fits(p, t)
  BY <1>4, <1>5 DEF Fits
<1>9. RecordOK(p, t)'
  <2>1. height' \in Nat /\ height <= height'
    BY <1>1, SettingTypes DEF board
  <2> QED BY <1>1, <1>7, <2>1, RecordKept
<1>10. Fits(p, t)'
  BY <1>1, <1>8, FitsKept
<1>11. PostsOK(p, t, "idle", w)
  BY DEF PostsOK, Quiet
<1>12. BoardAgrees(p, "idle")
  BY StillAgrees
<1>13. End(p, t, r)
  BY <1>2 DEF Finish
<1> QED BY <1>4, <1>9, <1>10, <1>11, <1>12, <1>13, EndKeeps DEF ReadOK

LEMMA RefundOrEndKeeps ==
  ASSUME SwapInv, NEW p \in Side, NEW s \in SideRecord, NEW r, RefundOrEnd(p, s, r),
         UNCHANGED <<board, lead, setting>>, stale' \in {stale, stale \ {p}},
         Fault \/ UNCHANGED faults,
         NEW w \in [{"proof", "locked", "abort"} -> {"no", "pending", "posted"}],
         posts' = [posts EXCEPT ![p] = w], OutputsStep(p), HasLock(p)' <=> HasLock(p),
         Quiet(p, w), Fits(p, s), RecordOK(p, s), ReadOK(p, r), s.myLock # 0
  PROVE  SwapInv'
<1>1. TypeOK
  BY DEF SwapInv
<1>2. CASE Hold(p, s) /\ UNCHANGED disk /\ Await(p, "refunding", r)
  <2>1. disk' = [disk EXCEPT ![p] = disk[p]]
    BY <1>1, <1>2 DEF TypeOK
  <2> QED BY <1>2, <2>1, SendKeeps
<1>3. CASE Save(p, [s EXCEPT !.refund = TRUE]) /\ Await(p, "refunding", r)
  <2>1. PICK t : t = [s EXCEPT !.refund = TRUE]
    OBVIOUS
  <2>2. /\ t \in SideRecord /\ t.stage = s.stage /\ t.myLock = s.myLock /\ t.theirLock = s.theirLock
        /\ t.makerKey = s.makerKey /\ t.claim = s.claim /\ t.lockIntent = s.lockIntent
    BY <2>1 DEF SideRecord
  <2>3. s # None /\ t # None
    BY <2>2, NoneAssumption
  <2>4. RecordOK(p, t)
    BY <2>2, <2>3 DEF RecordOK, LockKnown, LockKept, TakerEnds, TakerResolved
  <2>5. Fits(p, t)
    BY <2>2, <2>3 DEF Fits
  <2> QED BY <1>3, <2>1, <2>2, <2>4, <2>5, SendKeeps DEF Save, Hold
<1>4. CASE Finish(p, s, r, StageOf(p, s, r.mine, r.theirs))
  BY <1>4, FinishKeeps
<1> QED BY <1>2, <1>3, <1>4 DEF RefundOrEnd

(* Nothing of an engine that is not through is on its way as an abort.     *)
LEMMA QuietPosts ==
  ASSUME SwapInv, NEW p \in Side, p = maker => ~Way(maker, "abort"), NEW w, NEW when,
         \A k \in {"proof", "locked", "abort"} :
           w[k] = "pending" => posts[p][k] = "pending" \/ (k = "locked" /\ when),
         when => HasLock(p)
  PROVE  Quiet(p, w)
<1>1. ~Way(p, "abort")
  BY DEF SwapInv, WayOK, Side
<1> QED BY <1>1 DEF Quiet, Way

LEMMA WithLockKeeps ==
  ASSUME SwapInv, NEW p \in Side, NEW s \in SideRecord, NEW reading, WithLock(p, s, reading),
         UNCHANGED <<board, chains, faults, setting>>, stale' = stale \ {p},
         p = maker => ~Way(maker, "abort"),
         Fits(p, s), RecordOK(p, s), ReadOK(p, reading), s.myLock # 0,
         s.claim => disk[p] # None /\ disk[p].claim
  PROVE  SwapInv'
<1>1. TypeOK /\ OutsOK
  BY DEF SwapInv
<1>2. /\ UNCHANGED <<board, lead, setting>> /\ stale' \in {stale, stale \ {p}}
      /\ (Fault \/ UNCHANGED faults) /\ OutputsStep(p) /\ (HasLock(p)' <=> HasLock(p))
  BY SameOutputs DEF chains
<1>3. PICK theirs : theirs = scan(TheirChain(p))
  OBVIOUS
<1>4. /\ FoundOK(theirs, TheirChain(p)) /\ DOMAIN theirs \subseteq {1}
      /\ 1 \in DOMAIN theirs => outs[TheirChain(p)] # <<>>
  BY <1>1, <1>3, ScanOK, SideChains
<1>5. PICK i : i = IF s.theirLock # 0 THEN s.theirLock ELSE pickExact(theirs, p = maker)
  OBVIOUS
<1>6. /\ s.theirLock # 0 => i = s.theirLock
      /\ i \in {0, 1} /\ (i # 0 => i = 1 /\ outs[TheirChain(p)] # <<>>)
  <2>1. CASE s.theirLock # 0
    BY <1>1, <1>5, <2>1, KnownHas
  <2>2. CASE s.theirLock = 0
    <3>1. (p = maker) \in BOOLEAN
      OBVIOUS
    <3>2. i = 0 \/ (i = 1 /\ 1 \in DOMAIN theirs)
      BY <1>4, <1>5, <2>2, PickOne
    <3> QED BY <1>4, <2>2, <3>2
  <2> QED BY <2>1, <2>2
<1>7. PICK r : r = [reading EXCEPT !.theirs = theirs, !.hint = FALSE]
  OBVIOUS
<1>8. ReadOK(p, r)
  BY <1>4, <1>7 DEF ReadOK
<1>9. HasLock(p)
  BY <1>1, KnownHas
<1>10. PICK w \in [{"proof", "locked", "abort"} -> {"no", "pending", "posted"}] :
         /\ posts' = [posts EXCEPT ![p] = w]
         /\ \A k \in {"proof", "locked", "abort"} :
              w[k] = "pending" => posts[p][k] = "pending" \/ (k = "locked" /\ reading.hint)
  BY <1>1, PostOpShape DEF WithLock
<1>11. Quiet(p, w)
  BY <1>9, <1>10, QuietPosts
<1>12. Len(outs[TheirChain(p)]) \in Nat /\ (i # 0 => i <= Len(outs[TheirChain(p)])) /\ i \in 0..MaxLocks
  <2>1. TheirChain(p) \in Chains
    BY SideChains
  <2>2. i # 0 => Len(outs[TheirChain(p)]) = 1
    BY <1>1, <1>6, <2>1, OneOutput
  <2>3. Len(outs[TheirChain(p)]) \in Nat /\ MaxLocks \in Nat
    BY <1>1, <2>1, SwapAssumption, LenProperties DEF OutsOK
  <2>4. i # 0 => MaxLocks >= 1
    BY <1>1, <1>6, <2>1 DEF OutsOK
  <2> QED BY <1>6, <2>2, <2>3, <2>4
<1>13. PICK t : t = IF p = maker THEN [s EXCEPT !.theirLock = i] ELSE s
  OBVIOUS
<1>14. s # None /\ (s.claim => i = s.theirLock /\ i # 0)
  BY <1>6, NoneAssumption DEF RecordOK
<1>15. /\ t \in SideRecord /\ t.stage = s.stage /\ t.myLock = s.myLock
       /\ t.theirLock \in {s.theirLock, i} /\ (p = maker => t.theirLock = i)
       /\ t.makerKey = s.makerKey /\ t.claim = s.claim /\ t.lockIntent = s.lockIntent
  BY <1>12, <1>13 DEF SideRecord
<1>16. t # None
  BY <1>15, NoneAssumption
<1>17. Fits(p, t)
  <2>1. t.theirLock <= Len(outs[TheirChain(p)])
    <3>1. s.theirLock <= Len(outs[TheirChain(p)])
      BY <1>14 DEF Fits
    <3>2. i <= Len(outs[TheirChain(p)])
      BY <1>6, <1>12
    <3> QED BY <1>15, <3>1, <3>2
  <2> QED BY <1>14, <1>15, <2>1 DEF Fits
<1>18. RecordOK(p, t)
  <2>1. t.claim => t.theirLock # 0 /\ t.myLock # 0
    BY <1>14, <1>15
  <2> QED BY <1>14, <1>15, <1>16, <2>1
          DEF RecordOK, LockKnown, LockKept, TakerEnds, TakerResolved
<1>19. CASE SpentBy(theirs, i) = "none" /\ s.claim
            /\ Hold(p, t) /\ UNCHANGED disk /\ Await(p, "claiming", r)
  <2>1. disk' = [disk EXCEPT ![p] = disk[p]]
    BY <1>1, <1>19 DEF TypeOK
  <2>2. t.theirLock # 0 /\ t.claim
    BY <1>14, <1>15, <1>19
  <2> QED BY <1>2, <1>8, <1>10, <1>11, <1>15, <1>17, <1>18, <1>19, <2>1, <2>2, SendKeeps
<1>20. CASE SpentBy(theirs, i) = "none" /\ Await(p, "claiming", r)
            /\ Save(p, [t EXCEPT !.theirLock = i, !.claim = TRUE])
  <2>1. i # 0
    <3>1. 0 \notin DOMAIN theirs
      BY <1>4
    <3> QED BY <1>20, <3>1 DEF SpentBy
  <2>2. PICK u : u = [t EXCEPT !.theirLock = i, !.claim = TRUE]
    OBVIOUS
  <2>3. /\ u \in SideRecord /\ u.stage = s.stage /\ u.myLock = s.myLock /\ u.theirLock = i
        /\ u.claim /\ u.makerKey = s.makerKey /\ u.lockIntent = s.lockIntent
    BY <1>12, <1>15, <2>2 DEF SideRecord
  <2>4. u # None
    BY <2>3, NoneAssumption
  <2>5. RecordOK(p, u)
    BY <1>14, <2>1, <2>3, <2>4 DEF RecordOK, LockKnown, LockKept, TakerEnds, TakerResolved
  <2>6. Fits(p, u)
    BY <1>12, <1>14, <2>1, <2>3 DEF Fits
  <2>7. Hold(p, u) /\ disk' = [disk EXCEPT ![p] = u]
    BY <1>20, <2>2 DEF Save
  <2> QED BY <1>2, <1>8, <1>10, <1>11, <1>20, <2>1, <2>3, <2>4, <2>5, <2>6, <2>7, SendKeeps
<1>21. CASE RefundOrEnd(p, t, r)
  BY <1>2, <1>8, <1>10, <1>11, <1>15, <1>17, <1>18, <1>21, RefundOrEndKeeps
<1>22. \/ /\ SpentBy(theirs, i) = "none" /\ s.claim
          /\ Hold(p, t) /\ UNCHANGED disk /\ Await(p, "claiming", r)
       \/ /\ SpentBy(theirs, i) = "none" /\ Await(p, "claiming", r)
          /\ Save(p, [t EXCEPT !.theirLock = i, !.claim = TRUE])
       \/ RefundOrEnd(p, t, r)
  BY <1>3, <1>5, <1>7, <1>13 DEF WithLock
<1> QED BY <1>19, <1>20, <1>21, <1>22

-----------------------------------------------------------------------------
(* The passes.                                                             *)

LEMMA ReadReads ==
  ASSUME SwapInv, NEW p \in Side
  PROVE  /\ ReadOK(p, Read(p)) /\ (Read(p).pruned <=> pruned(height))
         /\ Read(p).mine = scan(MyChain(p))
<1>1. FoundOK(scan(MyChain(p)), MyChain(p))
  BY ScanOK, SideChains DEF SwapInv
<1>2. PICK r : r = Read(p)
  OBVIOUS
<1>3. /\ r.mine = scan(MyChain(p)) /\ r.theirs = <<>> /\ r.pruned = pruned(height)
      /\ r = [h |-> r.h, pruned |-> r.pruned, hint |-> r.hint, mine |-> r.mine, theirs |-> r.theirs]
  BY <1>2 DEF Read
<1>4. FoundOK(<<>>, TheirChain(p))
  BY DEF FoundOK
<1> QED BY <1>1, <1>2, <1>3, <1>4 DEF ReadOK

(* What the HTLC of p is worth to a pass that knows of none.               *)
LEMMA UnknownLock ==
  ASSUME SwapInv, NEW p \in Side, NEW s, KnownLock(s, Read(p)) = 0
  PROVE  s.myLock = 0 /\ (HasLock(p) => ~outs[MyChain(p)][1].listed /\ setting.lag)
<1>1. TypeOK /\ OutsOK /\ MyChain(p) \in Chains /\ Read(p).mine = scan(MyChain(p))
  BY SideChains, ReadReads DEF SwapInv
<1>2. PICK found : found = scan(MyChain(p))
  OBVIOUS
<1>3. DOMAIN found = IF outs[MyChain(p)] # <<>> /\ outs[MyChain(p)][1].listed THEN {1} ELSE {}
  BY <1>1, <1>2, ScanOK
<1>4. s.myLock = 0 /\ pickExact(found, FALSE) = 0
  BY <1>1, <1>2 DEF KnownLock
<1>5. 1 \notin DOMAIN found
  <2>1. DOMAIN found \subseteq {1} /\ FALSE \in BOOLEAN
    BY <1>3
  <2>2. 1 \in DOMAIN found => pickExact(found, FALSE) = 1
    BY <2>1, PickOne
  <2>3. 1 # 0
    OBVIOUS
  <2> QED BY <1>4, <2>2, <2>3
<1> QED BY <1>1, <1>3, <1>4, <1>5 DEF HasLock, OutsOK

LEMMA DormantKeeps ==
  ASSUME SwapInv, NEW p \in Side, Starts(p), End(p, Adopted(p), Read(p)),
         UNCHANGED <<board, chains, posts, stale, setting>>, Fault \/ UNCHANGED faults
  PROVE  SwapInv'
<1>1. TypeOK
  BY DEF SwapInv
<1>2. PICK s : s = Adopted(p)
  OBVIOUS
<1>3. /\ Starts(p) /\ End(p, s, Read(p)) /\ (Fault \/ UNCHANGED faults)
      /\ UNCHANGED <<board, chains, posts, stale, setting>>
  BY <1>2
<1>4. /\ s \in SideRecord /\ Fits(p, s) /\ RecordOK(p, s)
      /\ p = maker /\ Way(maker, "abort") => Dormant(s) /\ (~setting.lag => ~HasLock(maker))
  BY <1>2, <1>3, AdoptedOK
<1>5. Read(p).pruned => pruned(height)
  BY ReadReads
<1>6. PostsOK(p, s, "idle", posts[p])
  <2>1. ~Way(taker, "abort") /\ taker \in Side
    BY DEF SwapInv, WayOK, Side
  <2>2. HasLock(p)' <=> HasLock(p)
    BY <1>3 DEF chains, HasLock
  <2> QED BY <1>4, <2>1, <2>2, NoneAssumption DEF PostsOK, Way
<1>7. posts[p] \in [{"proof", "locked", "abort"} -> {"no", "pending", "posted"}]
      /\ posts' = [posts EXCEPT ![p] = posts[p]]
  BY <1>1, <1>3, NoPostShape
<1> QED BY <1>3, <1>4, <1>5, <1>6, <1>7, EndThere

(* A pass that is not dormant and ends without an HTLC of its own.         *)
LEMMA QuietEnd ==
  ASSUME SwapInv, NEW p \in Side, NEW s \in SideRecord, NEW r, End(p, s, r),
         UNCHANGED <<board, chains, setting, stale>>, Fault \/ UNCHANGED faults,
         NEW w \in [{"proof", "locked", "abort"} -> {"no", "pending", "posted"}],
         posts' = [posts EXCEPT ![p] = w], Quiet(p, w),
         Fits(p, s), RecordOK(p, s), r.pruned => pruned(height)
  PROVE  SwapInv'
<1>1. PostsOK(p, s, "idle", w)
  BY DEF PostsOK, Quiet
<1> QED BY <1>1, EndThere

(* A change of a record that the invariant does not look at.               *)
LEMMA Untouched ==
  ASSUME NEW p \in Side, NEW s \in SideRecord, Fits(p, s), RecordOK(p, s), NEW v \in SideRecord,
         v.stage = s.stage, v.myLock = s.myLock, v.theirLock = s.theirLock,
         v.makerKey = s.makerKey, v.claim = s.claim, v.lockIntent = s.lockIntent
  PROVE  Fits(p, v) /\ RecordOK(p, v)
BY NoneAssumption DEF Fits, RecordOK, LockKnown, LockKept, TakerEnds, TakerResolved

LEMMA ProofsKeep ==
  ASSUME SwapInv, NEW p \in Side, ProofsPass(p)
  PROVE  SwapInv'
<1>1. TypeOK
  BY DEF SwapInv
<1>2. PICK s : s = Adopted(p)
  OBVIOUS
<1>3. PICK verdict \in {"unverified", "ok", "bad"} :
        End(p, [s EXCEPT !.theirProof = verdict], Read(p)) /\ (Fault \/ UNCHANGED faults)
  BY <1>2 DEF ProofsPass, Verified, NotVerified
<1>4. PICK when : postOp(p, "proof", when)
  BY DEF ProofsPass
<1>5. Starts(p) /\ ~Dormant(s) /\ UNCHANGED <<board, chains, stale, setting>>
  BY <1>2 DEF ProofsPass
<1>6. /\ s \in SideRecord /\ Fits(p, s) /\ RecordOK(p, s)
      /\ p = maker => ~Way(maker, "abort")
  BY <1>2, <1>5, AdoptedOK
<1>7. PICK v : v = [s EXCEPT !.theirProof = verdict]
  OBVIOUS
<1>8. /\ v \in SideRecord /\ v.stage = s.stage /\ v.myLock = s.myLock /\ v.theirLock = s.theirLock
      /\ v.makerKey = s.makerKey /\ v.claim = s.claim /\ v.lockIntent = s.lockIntent
  BY <1>6, <1>7 DEF SideRecord
<1>9. Fits(p, v) /\ RecordOK(p, v)
  BY <1>6, <1>8, Untouched
<1>10. PICK w \in [{"proof", "locked", "abort"} -> {"no", "pending", "posted"}] :
         /\ posts' = [posts EXCEPT ![p] = w]
         /\ \A k \in {"proof", "locked", "abort"} :
              w[k] = "pending" => posts[p][k] = "pending" \/ (k = "proof" /\ when)
  BY <1>1, <1>4, PostOpShape
<1>11. Quiet(p, w)
  <2>1. \A k \in {"proof", "locked", "abort"} :
          w[k] = "pending" => posts[p][k] = "pending" \/ k = "proof"
    BY <1>10
  <2>2. ~Way(p, "abort")
    BY <1>6 DEF SwapInv, WayOK, Side
  <2> QED BY <1>6, <2>1, <2>2 DEF Quiet, Way
<1>12. Read(p).pruned => pruned(height)
  BY ReadReads
<1> QED BY <1>3, <1>5, <1>7, <1>8, <1>9, <1>10, <1>11, <1>12, QuietEnd

(* The posts of a pass that posts nothing.                                 *)
LEMMA QuietSame ==
  ASSUME SwapInv, NEW p \in Side, p = maker => ~Way(maker, "abort")
  PROVE  Quiet(p, posts[p])
BY QuietPosts

LEMMA FailKeeps ==
  ASSUME SwapInv, NEW p \in Side, PassFails(p)
  PROVE  SwapInv'
<1>1. CASE Starts(p) /\ End(p, Adopted(p), Read(p))
  BY <1>1, DormantKeeps DEF PassFails
<1>2. CASE at[p] = "scanned" /\ End(p, side[p], seen[p])
  <2>1. TypeOK /\ WayOK /\ SeenOK(p) /\ RecordOK(p, side[p]) /\ StepOK(p)
    BY DEF SwapInv
  <2>2. PICK s : s = side[p]
    OBVIOUS
  <2>3. s \in SideRecord /\ Fits(p, s)
    BY <1>2, <2>1, <2>2, FitsSides DEF StepOK, TypeOK
  <2>4. posts[p] \in [{"proof", "locked", "abort"} -> {"no", "pending", "posted"}]
        /\ posts' = [posts EXCEPT ![p] = posts[p]]
    BY <2>1, NoPostShape DEF PassFails
  <2>5. Quiet(p, posts[p])
    <3>1. p = maker => ~Way(maker, "abort")
      BY <1>2, <2>1 DEF WayOK
    <3> QED BY <3>1, QuietSame
  <2>6. seen[p].pruned => pruned(height)
    BY <2>1 DEF SeenOK, ReadOK
  <2> QED BY <1>2, <2>1, <2>2, <2>3, <2>4, <2>5, <2>6, QuietEnd DEF PassFails
<1> QED BY <1>1, <1>2 DEF PassFails

(* A record that comes to an end with no HTLC known of.                    *)
LEMMA GivenUp ==
  ASSUME SwapInv, NEW p \in Side, NEW s \in SideRecord, Fits(p, s), RecordOK(p, s),
         ~setting.lag => ~HasLock(p), NEW stage \in Terminal, NEW t \in SideRecord,
         t.stage = stage, t.myLock = s.myLock, t.theirLock = s.theirLock,
         t.makerKey = s.makerKey, t.claim = s.claim
  PROVE  Fits(p, t) /\ RecordOK(p, t)
BY NoneAssumption DEF Fits, RecordOK, LockKnown, LockKept, TakerEnds, TakerResolved

LEMMA GiveUpKeeps ==
  ASSUME SwapInv, NEW p \in Side, GiveUpPass(p)
  PROVE  SwapInv'
<1>1. TypeOK
  BY DEF SwapInv
<1>2. PICK s : s = Adopted(p)
  OBVIOUS
<1>3. /\ Starts(p) /\ ~Dormant(s) /\ UNCHANGED <<board, chains, posts, stale, faults, setting>>
      /\ KnownLock(s, Read(p)) = 0 \/ (p = taker /\ ~s.makerKey)
      /\ End(p, [s EXCEPT !.stage = "cancelled"], Read(p))
  BY <1>2 DEF GiveUpPass, Finish
<1>4. /\ s \in SideRecord /\ Fits(p, s) /\ RecordOK(p, s)
      /\ p = maker => ~Way(maker, "abort")
  BY <1>2, <1>3, AdoptedOK
<1>5. ~setting.lag => ~HasLock(p)
  <2>1. CASE KnownLock(s, Read(p)) = 0
    BY <2>1, UnknownLock
  <2>2. CASE p = taker /\ ~s.makerKey
    BY <1>4, <2>2, NoneAssumption DEF RecordOK, TakerEnds
  <2> QED BY <1>3, <2>1, <2>2
<1>6. PICK t : t = [s EXCEPT !.stage = "cancelled"]
  OBVIOUS
<1>7. /\ t \in SideRecord /\ t.stage = "cancelled" /\ t.myLock = s.myLock
      /\ t.theirLock = s.theirLock /\ t.makerKey = s.makerKey /\ t.claim = s.claim
  BY <1>4, <1>6 DEF SideRecord, Terminal
<1>8. Fits(p, t) /\ RecordOK(p, t)
  <2>1. "cancelled" \in Terminal
    BY DEF Terminal
  <2> QED BY <1>4, <1>5, <1>7, <2>1, GivenUp
<1>9. posts[p] \in [{"proof", "locked", "abort"} -> {"no", "pending", "posted"}]
      /\ posts' = [posts EXCEPT ![p] = posts[p]]
  BY <1>1, <1>3, NoPostShape
<1>10. Quiet(p, posts[p])
  BY <1>4, QuietSame
<1>11. Read(p).pruned => pruned(height)
  BY ReadReads
<1> QED BY <1>3, <1>6, <1>7, <1>8, <1>9, <1>10, <1>11, QuietEnd

(* No second HTLC is funded: the first one would have been found, or the   *)
(* intent to make it is fresh.                                             *)
LEMMA LockKeeps ==
  ASSUME SwapInv, NEW p \in Side, NEW s \in SideRecord, Fits(p, s), RecordOK(p, s),
         s.stage = "active", s.myLock = 0, p = taker => s.makerKey,
         HasLock(p) => s.lockIntent /\ p \notin stale,
         NEW r, ReadOK(p, r), Lock(p, s, r), at[p] = "scanned",
         UNCHANGED <<board, chains, setting, posts>>, Fault \/ UNCHANGED faults
  PROVE  SwapInv'
<1>1. TypeOK /\ OutsOK /\ SeenOK(p) /\ WayOK /\ BoardOK
  BY DEF SwapInv
<1>2. PICK w \in [{"proof", "locked", "abort"} -> {"no", "pending", "posted"}] :
        w = posts[p] /\ posts' = [posts EXCEPT ![p] = w]
  BY <1>1, NoPostShape
<1>3. Quiet(p, w)
  <2>1. p = maker => ~Way(maker, "abort")
    BY <1>1 DEF WayOK
  <2> QED BY <1>2, <2>1, QuietSame
<1>4. CASE s.lockIntent /\ p \notin stale
  <2>1. End(p, s, r) /\ UNCHANGED stale
    BY <1>4 DEF Lock
  <2> QED BY <1>2, <1>3, <2>1, QuietEnd DEF ReadOK
<1>5. CASE ~(s.lockIntent /\ p \notin stale)
  <2>1. PICK t : t = [s EXCEPT !.lockIntent = TRUE]
    OBVIOUS
  <2>2. /\ t \in SideRecord /\ t.stage = "active" /\ t.myLock = s.myLock
        /\ t.theirLock = s.theirLock /\ t.makerKey = s.makerKey /\ t.claim = s.claim
        /\ t.lockIntent
    BY <2>1 DEF SideRecord
  <2>3. s # None /\ t # None
    BY <2>2, NoneAssumption
  <2>4. PICK u : u = [r EXCEPT !.h = 0]
    OBVIOUS
  <2>5. Save(p, t) /\ stale' = stale \ {p} /\ Await(p, "funding", u)
    BY <1>5, <2>1, <2>4 DEF Lock
  <2>6. ~HasLock(p)
    BY <1>5
  <2>7. OutputsStep(p) /\ (HasLock(p)' <=> HasLock(p))
    BY SameOutputs DEF chains
  <2>8. PartyStep(p, t, t, "funding", u, w)
    <3>1. faults' \in 0..setting.faults
      BY <1>1, FaultTypes
    <3> QED BY <1>1, <1>2, <2>5, <3>1 DEF Save, Hold, Await, PartyStep, TypeOK, chains
  <2>9. Fits(p, t)' /\ RecordOK(p, t)'
    <3>1. Fits(p, t) /\ RecordOK(p, t)
      BY <2>2, <2>3, <2>6 DEF Fits, RecordOK, LockKnown, LockKept, TakerEnds, TakerResolved
    <3>2. Fits(p, t)'
      BY <1>1, <2>7, <3>1, FitsKept DEF OutputsStep
    <3>3. RecordOK(p, t)'
      BY <2>5, <3>1, SameRecord DEF board, chains
    <3> QED BY <3>2, <3>3
  <2>10. seen'[p] = u /\ side'[p] = t /\ disk'[p] = t /\ at'[p] = "funding"
         /\ seen' = [q \in Side |-> seen'[q]]
    BY <1>1, <2>8 DEF SeenOK, TypeOK, PartyStep
  <2>11. SeenOK(p)'
    <3>1. ReadOK(p, u)
      BY <2>4 DEF ReadOK
    <3>2. ReadOK(p, u)'
      BY <2>7, <3>1, ReadKept DEF board, OutputsStep
    <3>3. ReadOK(p, seen[p])'
      BY <2>10, <3>2
    <3> QED BY <2>10, <3>3 DEF SeenOK
  <2>12. StepOK(p)'
    BY <2>2, <2>3, <2>5, <2>6, <2>7, <2>10 DEF StepOK
  <2>13. PostsOK(p, t, "funding", w)
    BY <1>3 DEF PostsOK, Quiet
  <2>14. BoardAgrees(p, "funding")
    BY <1>1 DEF BoardAgrees, BoardOK, SaysOK
  <2> QED BY <2>7, <2>8, <2>9, <2>11, <2>12, <2>13, <2>14, PartyKeeps
<1> QED BY <1>4, <1>5

(* A pass that has not found an HTLC of its own: there is none, or it is   *)
(* not listed and its intent is fresh.                                     *)
LEMMA EscrowKeeps ==
  ASSUME SwapInv, NEW p \in Side, EscrowPass(p)
  PROVE  SwapInv'
<1>1. TypeOK /\ OutsOK /\ SeenOK(p) /\ RecordOK(p, disk[p])
  BY DEF SwapInv
<1>2. PICK s : s = Adopted(p)
  OBVIOUS
<1>3. PICK r : r = [Read(p) EXCEPT !.h = height]
  OBVIOUS
<1>4. /\ Starts(p) /\ ~Dormant(s) /\ KnownLock(s, Read(p)) = 0
      /\ Status(boardMatch) = "escrow"
      /\ Hold(p, s) /\ UNCHANGED disk /\ Await(p, "scanned", r)
      /\ UNCHANGED <<board, chains, posts, stale, faults, setting>>
  BY <1>2, <1>3 DEF EscrowPass
<1>5. /\ s \in SideRecord /\ Fits(p, s) /\ RecordOK(p, s)
      /\ p = maker => ~Way(maker, "abort")
      /\ boardMatch # None /\ boardMatch.makerKey # None => s.makerKey
  BY <1>2, <1>4, AdoptedOK
<1>6. boardMatch # None /\ boardMatch.status = "escrow"
  BY <1>4 DEF Status
<1>7. s.makerKey /\ s # None
  <2>1. boardMatch.makerKey # None
    BY <1>6, OnBoard DEF MatchOK
  <2> QED BY <1>5, <1>6, <2>1, NoneAssumption
<1>8. s.myLock = 0 /\ (HasLock(p) => ~outs[MyChain(p)][1].listed /\ setting.lag)
  BY <1>4, UnknownLock
<1>9. s.stage = "active"
  BY <1>4, <1>5, <1>8 DEF Dormant, SideRecord
<1>10. HasLock(p) => setting.lag /\ s.lockIntent /\ p \notin stale
  BY <1>5, <1>7, <1>8, <1>9 DEF RecordOK, LockKnown, Terminal
<1>11. PICK d, w : d = disk[p] /\ w = posts[p]
  OBVIOUS
<1>12. /\ w \in [{"proof", "locked", "abort"} -> {"no", "pending", "posted"}]
       /\ posts' = [posts EXCEPT ![p] = w]
  BY <1>1, <1>4, <1>11, NoPostShape
<1>13. OutputsStep(p) /\ (HasLock(p)' <=> HasLock(p))
  BY <1>4, SameOutputs DEF chains
<1>14. PartyStep(p, s, d, "scanned", r, w)
  <2>1. faults' \in 0..setting.faults
    BY <1>1, <1>4, FaultTypes
  <2> QED BY <1>1, <1>4, <1>11, <1>12, <2>1 DEF Hold, Await, PartyStep, TypeOK, chains
<1>15. Fits(p, s)' /\ Fits(p, d)'
  BY <1>1, <1>5, <1>11, <1>13, FitsSides, FitsKept DEF OutputsStep
<1>16. RecordOK(p, s)' /\ RecordOK(p, d)'
  BY <1>1, <1>4, <1>5, <1>11, SameRecord DEF board, chains
<1>17. seen'[p] = r /\ side'[p] = s /\ disk'[p] = d /\ at'[p] = "scanned"
       /\ seen' = [q \in Side |-> seen'[q]]
  BY <1>1, <1>14 DEF SeenOK, TypeOK, PartyStep
<1>18. SeenOK(p)'
  <2>1. ReadOK(p, r)
    BY <1>3, ReadReads DEF ReadOK
  <2>2. ReadOK(p, r)'
    BY <1>4, <1>13, <2>1, ReadKept DEF board, OutputsStep
  <2>3. ReadOK(p, seen[p])'
    BY <1>17, <2>2
  <2> QED BY <1>17, <2>3 DEF SeenOK
<1>19. StepOK(p)'
  BY <1>4, <1>7, <1>8, <1>9, <1>10, <1>13, <1>17 DEF StepOK
<1>20. PostsOK(p, s, "scanned", w)
  <2>1. Quiet(p, w)
    BY <1>5, <1>11, QuietSame
  <2> QED BY <2>1 DEF PostsOK, Quiet
<1>21. BoardAgrees(p, "scanned")
  <2>1. \A m \in Matched : m = boardMatch
    BY DEF Matched, boardMatch
  <2> QED BY <1>6, <2>1 DEF BoardAgrees
<1> QED BY <1>12, <1>13, <1>14, <1>15, <1>16, <1>18, <1>19, <1>20, <1>21, PartyKeeps

LEMMA DecideKeeps ==
  ASSUME SwapInv, NEW p \in Side, Decide(p)
  PROVE  SwapInv'
<1>1. TypeOK /\ OutsOK /\ WayOK /\ StepOK(p) /\ SeenOK(p) /\ RecordOK(p, side[p])
  BY DEF SwapInv
<1>2. PICK s : s = side[p]
  OBVIOUS
<1>3. PICK r : r = seen[p]
  OBVIOUS
<1>4. PICK theirs : theirs = scan(TheirChain(p))
  OBVIOUS
<1>5. at[p] = "scanned" /\ UNCHANGED <<board, chains, setting>>
  BY DEF Decide
<1>6. PICK verdict \in {"unverified", "ok", "bad"} :
        LET v == [s EXCEPT !.theirProof = verdict]
        IN  /\ Fault \/ UNCHANGED faults
            /\ IF p = taker THEN TakerDecides(v, r) /\ UNCHANGED posts
                            ELSE MakerDecides(v, r, theirs)
  BY <1>2, <1>3, <1>4 DEF Decide, Verified, NotVerified
<1>7. /\ s \in SideRecord /\ Fits(p, s) /\ RecordOK(p, s) /\ ReadOK(p, r)
      /\ p = maker => ~Way(maker, "abort")
  BY <1>1, <1>2, <1>3, <1>5, FitsSides DEF StepOK, TypeOK, SeenOK, WayOK
<1>8. /\ s.stage = "active" /\ s.myLock = 0 /\ (p = taker => s.makerKey)
      /\ HasLock(p) => setting.lag /\ s.lockIntent /\ p \notin stale
  BY <1>1, <1>2, <1>5 DEF StepOK
<1>9. PICK v : v = [s EXCEPT !.theirProof = verdict]
  OBVIOUS
<1>10. /\ v \in SideRecord /\ v.stage = s.stage /\ v.myLock = s.myLock
       /\ v.theirLock = s.theirLock /\ v.makerKey = s.makerKey /\ v.claim = s.claim
       /\ v.lockIntent = s.lockIntent
  BY <1>7, <1>9 DEF SideRecord
<1>11. Fits(p, v) /\ RecordOK(p, v)
  BY <1>7, <1>10, Untouched
<1>12. ~setting.lag => ~HasLock(p)
  BY <1>8
<1>13. v.stage = "active" /\ v.myLock = 0 /\ (r.pruned => pruned(height))
  BY <1>7, <1>8, <1>10 DEF ReadOK
<1>14. PICK w \in [{"proof", "locked", "abort"} -> {"no", "pending", "posted"}] : w = posts[p]
  BY <1>1 DEF TypeOK
<1>15. Quiet(p, w)
  BY <1>7, <1>14, QuietSame
<1>16. UNCHANGED posts => posts' = [posts EXCEPT ![p] = w]
  BY <1>1, <1>14 DEF TypeOK
<1>17. /\ Fault \/ UNCHANGED faults
       /\ p = taker => TakerDecides(v, r) /\ UNCHANGED posts
       /\ p = maker => MakerDecides(v, r, theirs)
  BY <1>6, <1>9, SwapAssumption
<1>18. ASSUME UNCHANGED <<posts, stale>>, End(p, v, r)
       PROVE  SwapInv'
  BY <1>5, <1>10, <1>11, <1>13, <1>14, <1>15, <1>16, <1>17, <1>18, QuietEnd
<1>19. CASE p = taker
  <2>1. UNCHANGED posts /\ TakerDecides(v, r)
    BY <1>17, <1>19
  <2>2. CASE End(taker, v, r) /\ UNCHANGED stale
    BY <1>18, <1>19, <2>1, <2>2
  <2>3. ASSUME NEW stage \in Terminal, Finish(taker, v, r, stage), UNCHANGED stale
        PROVE  SwapInv'
    <3>1. PICK t : t = [v EXCEPT !.stage = stage]
      OBVIOUS
    <3>2. /\ t \in SideRecord /\ t.stage = stage /\ t.myLock = v.myLock
          /\ t.theirLock = v.theirLock /\ t.makerKey = v.makerKey /\ t.claim = v.claim
      BY <1>10, <3>1 DEF SideRecord
    <3>3. Fits(p, t) /\ RecordOK(p, t)
      BY <1>10, <1>11, <1>12, <3>2, GivenUp
    <3>4. End(p, t, r)
      BY <1>19, <2>3, <3>1 DEF Finish
    <3> QED BY <1>5, <1>13, <1>14, <1>15, <1>16, <1>17, <2>1, <2>3, <3>2, <3>3, <3>4, QuietEnd
  <2>4. CASE Lock(taker, v, r)
    BY <1>5, <1>7, <1>8, <1>10, <1>11, <1>13, <1>17, <1>19, <2>1, <2>4, LockKeeps
  <2>5. {"failed", "cancelled"} \subseteq Terminal
    BY DEF Terminal
  <2> QED BY <2>1, <2>2, <2>3, <2>4, <2>5 DEF TakerDecides
<1>20. CASE p = maker
  <2> DEFINE i == pickExact(theirs, TRUE)
  <2>1. MakerDecides(v, r, theirs)
    BY <1>17, <1>20
  <2>2. CASE End(maker, v, r) /\ UNCHANGED <<posts, stale>>
    BY <1>18, <1>20, <2>2
  <2>3. CASE /\ Finish(maker, [v EXCEPT !.abort = TRUE], r, "cancelled")
             /\ postOp(maker, "abort", TRUE) /\ UNCHANGED stale
    <3>1. PICK t : t = [[v EXCEPT !.abort = TRUE] EXCEPT !.stage = "cancelled"]
      OBVIOUS
    <3>2. /\ t \in SideRecord /\ t.stage = "cancelled" /\ t.myLock = v.myLock
          /\ t.theirLock = v.theirLock /\ t.makerKey = v.makerKey /\ t.claim = v.claim
      BY <1>10, <3>1 DEF SideRecord, Terminal
    <3>3. Fits(p, t) /\ RecordOK(p, t)
      <4>1. "cancelled" \in Terminal
        BY DEF Terminal
      <4> QED BY <1>10, <1>11, <1>12, <3>2, <4>1, GivenUp
    <3>4. End(p, t, r)
      BY <1>20, <2>3, <3>1 DEF Finish
    <3>5. PICK u \in [{"proof", "locked", "abort"} -> {"no", "pending", "posted"}] :
            /\ posts' = [posts EXCEPT ![p] = u]
            /\ \A k \in {"proof", "locked", "abort"} :
                 u[k] = "pending" => posts[p][k] = "pending" \/ k = "abort"
      <4>1. PICK when : postOp(p, "abort", when)
        BY <1>20, <2>3
      <4> QED BY <1>1, <4>1, PostOpShape
    <3>6. PostsOK(p, t, "idle", u)
      <4>1. HasLock(p)' <=> HasLock(p)
        BY <1>5 DEF chains, HasLock
      <4>2. Dormant(t) /\ t # None
        BY <1>13, <3>2, NoneAssumption DEF Dormant, Terminal
      <4>3. u["locked"] = "pending" => posts[p]["locked"] = "pending"
        BY <3>5
      <4> QED BY <1>12, <1>20, <4>1, <4>2, <4>3, SwapAssumption DEF PostsOK
    <3> QED BY <1>5, <1>13, <1>17, <2>3, <3>2, <3>3, <3>4, <3>5, <3>6, EndThere
  <2>4. CASE Lock(maker, [v EXCEPT !.theirLock = i], r) /\ UNCHANGED posts
              /\ i # 0
    <3>1. /\ DOMAIN theirs \subseteq {1}
          /\ 1 \in DOMAIN theirs => outs[TheirChain(p)] # <<>>
      BY <1>1, <1>4, ScanOK, SideChains
    <3>2. i = 1 /\ 1 \in DOMAIN theirs
      <4>1. TRUE \in BOOLEAN
        OBVIOUS
      <4> QED BY <2>4, <3>1, <4>1, PickOne
    <3>3. MaxLocks \in Nat /\ MaxLocks >= 1 /\ Len(outs[TheirChain(p)]) = 1
      <4>1. TheirChain(p) \in Chains
        BY SideChains
      <4> QED BY <1>1, <3>1, <3>2, <4>1, SwapAssumption, OneOutput DEF OutsOK
    <3>4. PICK t : t = [v EXCEPT !.theirLock = i]
      OBVIOUS
    <3>5. /\ t \in SideRecord /\ t.stage = "active" /\ t.myLock = v.myLock /\ t.theirLock = 1
          /\ t.makerKey = v.makerKey /\ t.claim = v.claim /\ t.lockIntent = v.lockIntent
      <4>1. 1 \in 0..MaxLocks
        BY <3>3
      <4> HIDE DEF i
      <4> QED BY <1>10, <1>13, <3>2, <3>4, <4>1 DEF SideRecord
    <3>6. v # None /\ t # None
      BY <1>10, <3>5, NoneAssumption
    <3>7. Fits(p, t)
      BY <1>11, <3>3, <3>5, <3>6 DEF Fits
    <3>8. RecordOK(p, t)
      BY <1>11, <1>13, <3>5, <3>6 DEF RecordOK, LockKnown, LockKept, TakerEnds, TakerResolved
    <3> QED BY <1>5, <1>7, <1>8, <1>10, <1>13, <1>17, <1>20, <2>4, <3>4, <3>5, <3>7, <3>8,
               SwapAssumption, LockKeeps
  <2>5. \/ End(maker, v, r) /\ UNCHANGED <<posts, stale>>
        \/ /\ Finish(maker, [v EXCEPT !.abort = TRUE], r, "cancelled")
           /\ postOp(maker, "abort", TRUE) /\ UNCHANGED stale
        \/ /\ Lock(maker, [v EXCEPT !.theirLock = i], r) /\ UNCHANGED posts
           /\ i # 0
    BY <2>1 DEF MakerDecides
  <2> QED BY <2>2, <2>3, <2>4, <2>5
<1> QED BY <1>19, <1>20 DEF Side

LEMMA LockedKeeps ==
  ASSUME SwapInv, NEW p \in Side, LockedPass(p)
  PROVE  SwapInv'
<1>1. TypeOK /\ OutsOK
  BY DEF SwapInv
<1>2. PICK s : s = Adopted(p)
  OBVIOUS
<1>3. PICK r : r = Read(p)
  OBVIOUS
<1>4. PICK i : i = KnownLock(s, r)
  OBVIOUS
<1>5. /\ Starts(p) /\ ~Dormant(s) /\ i # 0 /\ WithLock(p, Knowing(s, i), r)
      /\ stale' = stale \ {p} /\ UNCHANGED <<board, chains, faults, setting>>
  BY <1>2, <1>3, <1>4 DEF LockedPass
<1>6. /\ s \in SideRecord /\ Fits(p, s) /\ RecordOK(p, s)
      /\ p = maker => ~Way(maker, "abort")
      /\ s.claim => disk[p] # None /\ disk[p].claim
  BY <1>2, <1>5, AdoptedOK
<1>7. i = 1 /\ HasLock(p)
  <2>1. CASE s.myLock # 0
    BY <1>1, <1>4, <1>6, <2>1, KnownHas DEF KnownLock
  <2>2. CASE s.myLock = 0
    <3>1. PICK found : found = scan(MyChain(p))
      OBVIOUS
    <3>2. /\ DOMAIN found \subseteq {1}
          /\ 1 \in DOMAIN found => outs[MyChain(p)] # <<>>
      BY <1>1, <3>1, ScanOK, SideChains
    <3>3. i = pickExact(found, FALSE)
      BY <1>3, <1>4, <2>2, <3>1, ReadReads DEF KnownLock
    <3>4. FALSE \in BOOLEAN
      OBVIOUS
    <3>5. i = 1 /\ 1 \in DOMAIN found
      BY <1>5, <3>2, <3>3, <3>4, PickOne
    <3> QED BY <3>2, <3>5 DEF HasLock
  <2> QED BY <2>1, <2>2
<1>8. PICK t : t = Knowing(s, i)
  OBVIOUS
<1>9. Len(outs[MyChain(p)]) = 1 /\ MaxLocks \in Nat /\ MaxLocks >= 1
  <2>1. MyChain(p) \in Chains
    BY SideChains
  <2> QED BY <1>1, <1>7, <2>1, SwapAssumption, OneOutput DEF OutsOK, HasLock
<1>10. /\ t \in SideRecord /\ t.stage = s.stage /\ t.myLock = 1 /\ t.theirLock = s.theirLock
       /\ t.makerKey = s.makerKey /\ t.claim = s.claim
  <2>1. 1 \in 0..MaxLocks
    BY <1>9
  <2> QED BY <1>6, <1>7, <1>8, <2>1 DEF Knowing, SideRecord
<1>11. s # None /\ t # None
  BY <1>6, <1>10, NoneAssumption
<1>12. Fits(p, t)
  BY <1>6, <1>9, <1>10, <1>11 DEF Fits
<1>13. RecordOK(p, t)
  BY <1>6, <1>10, <1>11 DEF RecordOK, LockKnown, LockKept, TakerEnds, TakerResolved
<1>14. ReadOK(p, r)
  BY <1>3, ReadReads
<1> QED BY <1>5, <1>6, <1>8, <1>10, <1>12, <1>13, <1>14, WithLockKeeps

LEMMA FundedKeeps ==
  ASSUME SwapInv, NEW p \in Side, Funded(p)
  PROVE  SwapInv'
<1>1. TypeOK /\ OutsOK /\ WayOK /\ StepOK(p) /\ SeenOK(p) /\ RecordOK(p, side[p])
  BY DEF SwapInv
<1>2. /\ at[p] = "funded" /\ WithLock(p, Knowing(side[p], Len(outs[MyChain(p)])), seen[p])
      /\ stale' = stale \ {p} /\ UNCHANGED <<board, chains, faults, setting>>
  BY DEF Funded
<1>3. PICK s : s = side[p]
  OBVIOUS
<1>4. HasLock(p) /\ s # None /\ s \in SideRecord /\ s.stage = "active" /\ Fits(p, s)
  BY <1>1, <1>2, <1>3, FitsSides DEF StepOK, TypeOK
<1>5. Len(outs[MyChain(p)]) = 1 /\ MaxLocks \in Nat /\ MaxLocks >= 1
  <2>1. MyChain(p) \in Chains
    BY SideChains
  <2> QED BY <1>1, <1>4, <2>1, SwapAssumption, OneOutput DEF OutsOK, HasLock
<1>6. PICK t : t = Knowing(s, 1)
  OBVIOUS
<1>7. /\ t \in SideRecord /\ t.stage = s.stage /\ t.myLock = 1 /\ t.theirLock = s.theirLock
      /\ t.makerKey = s.makerKey /\ t.claim = s.claim
  <2>1. 1 \in 0..MaxLocks
    BY <1>5
  <2> QED BY <1>4, <1>6, <2>1 DEF Knowing, SideRecord
<1>8. t # None
  BY <1>7, NoneAssumption
<1>9. Fits(p, t)
  BY <1>4, <1>5, <1>7, <1>8 DEF Fits
<1>10. RecordOK(p, t)
  BY <1>1, <1>3, <1>4, <1>7, <1>8 DEF RecordOK, LockKnown, LockKept, TakerEnds, TakerResolved
<1>11. p = maker => ~Way(maker, "abort")
  BY <1>1, <1>2 DEF WayOK
<1>12. ReadOK(p, seen[p])
  BY <1>1 DEF SeenOK
<1>13. ~t.claim
  BY <1>1, <1>2, <1>3, <1>4, <1>7 DEF RecordOK, StepOK
<1> QED BY <1>2, <1>3, <1>5, <1>6, <1>7, <1>9, <1>10, <1>11, <1>12, <1>13, WithLockKeeps

(* The HTLC that is funded is the first one.                               *)
LEMMA FundOut ==
  ASSUME SwapInv, NEW p \in Side, at[p] = "funding", outs' \in Fundings(MyChain(p)),
         UNCHANGED setting
  PROVE  /\ OutputsStep(p) /\ HasLock(p)'
         /\ \A d \in Chains : d # MyChain(p) => outs'[d] = outs[d]
         /\ outs'[MyChain(p)][1].confs = 0 /\ outs'[MyChain(p)][1].spend = "none"
         /\ ~outs'[MyChain(p)][1].mined
<1>1. TypeOK /\ OutsOK /\ StepOK(p)
  BY DEF SwapInv
<1>2. PICK c \in Chains : c = MyChain(p)
  BY SideChains
<1>3. outs[c] = <<>> /\ Len(outs[c]) = 0
  BY <1>1, <1>2, OneOutput DEF StepOK, HasLock
<1>0. Len(outs[c]) < MaxLocks /\ outs' = Funding(c)
  BY <1>2, <1>3 DEF Fundings
<1>4. PICK o : o = [confs |-> 0, listed |-> ~setting.lag, spend |-> "none", mined |-> FALSE]
  OBVIOUS
<1>5. o \in Output(c) /\ ~o.mined /\ o.listed = ~setting.lag
  <2>1. 0 \in 0..Deepest[c]
    BY DeepestOK
  <2> QED BY <1>4, <2>1 DEF Output
<1>6. outs' = [outs EXCEPT ![c] = <<o>>]
  <2>1. Append(outs[c], o) = <<o>>
    BY <1>3
  <2> QED BY <1>0, <1>4, <2>1 DEF Funding
<1>7. /\ outs' = [d \in Chains |-> outs'[d]] /\ outs'[c] = <<o>>
      /\ \A d \in Chains : d # c => outs'[d] = outs[d]
  BY <1>1, <1>6 DEF OutsOK
<1>8. <<o>> \in Seq(Output(c)) /\ Len(<<o>>) <= 1 /\ DOMAIN <<o>> = {1} /\ <<o>> # <<>>
      /\ <<o>>[1] = o
  BY <1>5
<1>9. MaxLocks \in Nat /\ MaxLocks >= 1
  BY <1>0, <1>3, SwapAssumption
<1>10. OutsOK'
  <2>1. \A d \in Chains : outs'[d] \in Seq(Output(d)) /\ Len(outs'[d]) <= 1
    BY <1>1, <1>7, <1>8 DEF OutsOK
  <2>2. \A d \in Chains : outs'[d] # <<>> => MaxLocks >= 1 /\ (~setting'.lag => outs'[d][1].listed)
    BY <1>1, <1>5, <1>7, <1>8, <1>9 DEF OutsOK
  <2> QED BY <1>7, <2>1, <2>2 DEF OutsOK, Output, Deepest
<1>11. Grows
  BY <1>3, <1>7 DEF Grows
<1>12. ASSUME NEW d \in Chains PROVE OutputsOK(d)'
  <2>1. OutputsOK(d)
    BY <1>1 DEF TypeOK, Chains, OutputsOK
  <2>2. CASE d = c
    BY <1>5, <1>7, <1>8, <2>2 DEF OutputsOK, Output, Deepest
  <2>3. CASE d # c
    BY <1>7, <2>1, <2>3 DEF OutputsOK, Output, Deepest
  <2> QED BY <2>2, <2>3
<1>13. HasLock(p)'
  BY <1>2, <1>7, <1>8 DEF HasLock
<1>14. \A q \in Side \ {p} : HasLock(q)' => HasLock(q)
  <2> SUFFICES ASSUME NEW q \in Side \ {p} PROVE MyChain(q) # c /\ MyChain(q) \in Chains
    BY <1>7 DEF HasLock
  <2> QED BY <1>2, SideChains, SwapAssumption DEF Side, Chains
<1>15. /\ \A d \in Chains : d # MyChain(p) => outs'[d] = outs[d]
       /\ outs'[MyChain(p)][1] = o
  BY <1>2, <1>7, <1>8
<1> QED BY <1>4, <1>10, <1>11, <1>12, <1>13, <1>14, <1>15 DEF OutputsStep

LEMMA FundKeeps ==
  ASSUME SwapInv, NEW p \in Side, Fund(p)
  PROVE  SwapInv'
<1>1. TypeOK /\ OutsOK /\ WayOK /\ BoardOK /\ StepOK(p) /\ SeenOK(p) /\ RecordOK(p, side[p])
  BY DEF SwapInv
<1>2. at[p] = "funding" /\ UNCHANGED <<board, lead, posts, stale, setting>>
  BY DEF Fund
<1>3. PICK s, r : s = side[p] /\ r = seen[p]
  OBVIOUS
<1>4. /\ disk[p] = s /\ (setting.lag => p \notin stale) /\ s # None /\ s.stage = "active" /\ s.lockIntent
      /\ s.myLock = 0 /\ (p = taker => s.makerKey) /\ ~HasLock(p)
      /\ s \in SideRecord /\ Fits(p, s)
  BY <1>1, <1>2, <1>3, FitsSides DEF StepOK, TypeOK
<1>5. OutputsStep(p)
  <2>1. UNCHANGED outs \/ outs' \in Fundings(MyChain(p))
    BY DEF Fund
  <2> QED BY <1>2, <2>1, FundOut, SameOutputs
<1>6. OutsOK' /\ Grows
  BY <1>5 DEF OutputsStep
<1>7. Fits(p, s)'
  BY <1>1, <1>4, <1>6, FitsKept
<1>8. RecordOK(p, s)'
  <2>1. ~setting'.lag /\ HasLock(p)' => outs'[MyChain(p)][1].listed
    BY <1>6, SideChains DEF OutsOK, HasLock
  <2> QED BY <1>1, <1>2, <1>3, <1>4, <2>1
          DEF RecordOK, LockKnown, LockKept, TakerEnds, TakerResolved, Terminal
<1>9. PICK w \in [{"proof", "locked", "abort"} -> {"no", "pending", "posted"}] :
        w = posts[p] /\ posts' = [posts EXCEPT ![p] = w]
  BY <1>1, <1>2, NoPostShape
<1>10. p = maker => ~Way(maker, "abort")
  BY <1>1, <1>2 DEF WayOK
<1>11. Quiet(p, w)
  BY <1>9, <1>10, QuietSame
<1>12. \A a : PostsOK(p, s, a, w)
  BY <1>11 DEF PostsOK, Quiet
<1>13. \A m \in Matched : m.status # "awaitingProofs" /\ (p = maker => m.status # "cancelled")
  BY <1>1, <1>2 DEF BoardOK, SaysOK
<1>14. \A a : BoardAgrees(p, a)
  BY <1>13 DEF BoardAgrees
<1>15. CASE outs' \in Fundings(MyChain(p)) /\ Await(p, "funded", seen[p])
             /\ UNCHANGED <<side, disk, faults>>
  <2>1. PartyStep(p, s, s, "funded", r, w)
    <3>1. faults' \in 0..setting.faults
      BY <1>1, <1>15, FaultTypes
    <3>2. side' = [side EXCEPT ![p] = s] /\ disk' = [disk EXCEPT ![p] = s]
      BY <1>1, <1>3, <1>4, <1>15 DEF TypeOK
    <3>3. /\ at' = [at EXCEPT ![p] = "funded"] /\ seen' = [seen EXCEPT ![p] = r]
          /\ due' \subseteq due
      BY <1>3, <1>15 DEF Await
    <3>4. stale' \subseteq Side /\ \A q \in Side \ {p} : q \in stale' <=> q \in stale
      BY <1>1, <1>2 DEF TypeOK
    <3> QED BY <1>2, <1>9, <3>1, <3>2, <3>3, <3>4 DEF PartyStep
  <2>2. HasLock(p)'
    BY <1>2, <1>15, FundOut
  <2>3. seen'[p] = r /\ side'[p] = s /\ disk'[p] = s /\ at'[p] = "funded"
        /\ seen' = [q \in Side |-> seen'[q]]
    BY <1>1, <2>1 DEF SeenOK, TypeOK, PartyStep
  <2>4. SeenOK(p)'
    <3>1. ReadOK(p, r)'
      BY <1>1, <1>2, <1>3, <1>6, ReadKept DEF board, SeenOK
    <3>2. ReadOK(p, seen[p])'
      BY <2>3, <3>1
    <3> QED BY <2>3, <3>2 DEF SeenOK
  <2>5. StepOK(p)'
    BY <1>2, <1>4, <2>2, <2>3 DEF StepOK
  <2> QED BY <1>5, <1>7, <1>8, <1>12, <1>14, <2>1, <2>4, <2>5, PartyKeeps
<1>16. CASE (Fault \/ UNCHANGED faults) /\ End(p, side[p], seen[p])
  <2>1. r.pruned => pruned(height)
    BY <1>1, <1>3 DEF SeenOK, ReadOK
  <2> QED BY <1>2, <1>3, <1>4, <1>5, <1>7, <1>8, <1>9, <1>12, <1>14, <1>16, <2>1, EndKeeps
<1> QED BY <1>15, <1>16 DEF Fund

(* The HTLC a claim or a refund spends has no spend yet.                   *)
LEMMA SpendOut ==
  ASSUME SwapInv, NEW p \in Side, NEW c \in Chains, outs[c] # <<>>, UNCHANGED setting,
         NEW how \in {"claim", "refund"}, outs' = Spending(c, 1, how) \/ UNCHANGED outs
  PROVE  /\ OutputsStep(p) /\ (HasLock(p)' <=> HasLock(p))
         /\ \A d \in Chains : d # c => outs'[d] = outs[d]
         /\ outs'[c][1].confs = outs[c][1].confs /\ outs'[c][1].mined = outs[c][1].mined
         /\ \/ outs'[c][1].spend = outs[c][1].spend
            \/ /\ outs[c][1].spend = "none" /\ outs'[c][1].spend = how
               /\ how = "refund" => outs[c][1].confs >= RefundBlocks[c]
<1>1. TypeOK /\ OutsOK
  BY DEF SwapInv
<1>2. CASE UNCHANGED outs
  BY <1>2, SameOutputs
<1>3. CASE outs' # outs
  <2>1. DOMAIN outs[c] = {1} /\ outs[c][1] \in Output(c)
    BY <1>1, OneOutput
  <2>2. /\ outs[c][1].spend = "none" /\ outs' = [outs EXCEPT ![c][1].spend = how]
        /\ how = "refund" => outs[c][1].confs >= RefundBlocks[c]
    BY <1>3 DEF Spending
  <2>3. ~outs[c][1].mined
    BY <1>1, <2>1, <2>2 DEF TypeOK, Chains
  <2>4. PICK o : o = [outs[c][1] EXCEPT !.spend = how]
    OBVIOUS
  <2>5. /\ o \in Output(c) /\ o.spend = how /\ o.listed = outs[c][1].listed
        /\ ~o.mined /\ o.confs = outs[c][1].confs /\ o.mined = outs[c][1].mined
    BY <2>1, <2>3, <2>4 DEF Output
  <2>6. PICK f : f = [i \in DOMAIN outs[c] |-> o]
    OBVIOUS
  <2>7. outs' = [outs EXCEPT ![c] = f]
    <3>1. outs' = [outs EXCEPT ![c] = [outs[c] EXCEPT ![1] = o]]
      BY <2>2, <2>4
    <3>2. outs[c] \in Seq(Output(c))
      BY <1>1 DEF OutsOK
    <3>3. [outs[c] EXCEPT ![1] = o] = f
      BY <2>1, <2>6, <3>2
    <3> QED BY <3>1, <3>3
  <2>8. /\ OutsOK' /\ Grows /\ (\A d \in Chains : OutputsOK(d)')
        /\ \A q \in Side : HasLock(q)' => HasLock(q)
        /\ outs'[c][1] = o /\ \A d \in Chains : d # c => outs'[d] = outs[d]
    BY <1>1, <2>3, <2>5, <2>6, <2>7, OutputChanges
  <2>9. HasLock(p) => HasLock(p)'
    BY <2>8, LockStays
  <2> QED BY <2>2, <2>5, <2>8, <2>9 DEF OutputsStep
<1> QED BY <1>2, <1>3

LEMMA ClaimKeeps ==
  ASSUME SwapInv, NEW p \in Side, Claim(p)
  PROVE  SwapInv'
<1>1. TypeOK /\ OutsOK /\ WayOK /\ StepOK(p) /\ SeenOK(p) /\ RecordOK(p, side[p])
  BY DEF SwapInv
<1>2. PICK s : s = side[p]
  OBVIOUS
<1>3. /\ at[p] = "claiming" /\ RefundOrEnd(p, s, seen[p]) /\ (Fault \/ UNCHANGED faults)
      /\ outs' = Spending(TheirChain(p), s.theirLock, "claim") \/ UNCHANGED outs
      /\ UNCHANGED <<board, lead, posts, stale, setting>>
  BY <1>2 DEF Claim
<1>4. s \in SideRecord /\ Fits(p, s) /\ s.myLock # 0 /\ s.theirLock # 0
  BY <1>1, <1>2, <1>3, FitsSides DEF StepOK, TypeOK
<1>5. s.theirLock = 1 /\ outs[TheirChain(p)] # <<>>
  BY <1>1, <1>4, KnownHas
<1>6. OutputsStep(p) /\ (HasLock(p)' <=> HasLock(p))
  BY <1>3, <1>5, SideChains, SpendOut
<1>7. posts[p] \in [{"proof", "locked", "abort"} -> {"no", "pending", "posted"}]
      /\ posts' = [posts EXCEPT ![p] = posts[p]]
  BY <1>1, <1>3, NoPostShape
<1>8. Quiet(p, posts[p])
  BY <1>1, <1>3, QuietSame DEF WayOK
<1>9. ReadOK(p, seen[p])
  BY <1>1 DEF SeenOK
<1> QED BY <1>1, <1>2, <1>3, <1>4, <1>6, <1>7, <1>8, <1>9, RefundOrEndKeeps

LEMMA RefundKeeps ==
  ASSUME SwapInv, NEW p \in Side, Refund(p)
  PROVE  SwapInv'
<1>1. TypeOK /\ OutsOK /\ WayOK /\ StepOK(p) /\ SeenOK(p) /\ RecordOK(p, side[p])
  BY DEF SwapInv
<1>2. PICK s : s = side[p]
  OBVIOUS
<1>3. /\ at[p] = "refunding" /\ (Fault \/ UNCHANGED faults)
      /\ Finish(p, s, seen[p], StageOf(p, s, seen[p].mine, seen[p].theirs))
      /\ outs' = Spending(MyChain(p), s.myLock, "refund") \/ UNCHANGED outs
      /\ UNCHANGED <<board, lead, posts, stale, setting>>
  BY <1>2 DEF Refund
<1>4. s \in SideRecord /\ Fits(p, s) /\ s.myLock # 0
  BY <1>1, <1>2, <1>3, FitsSides DEF StepOK, TypeOK
<1>5. s.myLock = 1 /\ outs[MyChain(p)] # <<>>
  BY <1>1, <1>4, KnownHas DEF HasLock
<1>6. OutputsStep(p) /\ (HasLock(p)' <=> HasLock(p))
  BY <1>3, <1>5, SideChains, SpendOut
<1>7. posts[p] \in [{"proof", "locked", "abort"} -> {"no", "pending", "posted"}]
      /\ posts' = [posts EXCEPT ![p] = posts[p]]
  BY <1>1, <1>3, NoPostShape
<1>8. Quiet(p, posts[p])
  BY <1>1, <1>3, QuietSame DEF WayOK
<1>9. ReadOK(p, seen[p])
  BY <1>1 DEF SeenOK
<1> QED BY <1>1, <1>2, <1>3, <1>4, <1>6, <1>7, <1>8, <1>9, FinishKeeps

-----------------------------------------------------------------------------
(* The invariant holds at first, and of every step.                        *)

LEMMA SwapInit ==
  ASSUME Init
  PROVE  /\ Timely => SwapInv
         /\ TypeOK /\ BoardOK /\ outs = [c \in Chains |-> <<>>]
         /\ \A p \in Side : at[p] = "idle" /\ ~Way(p, "locked")
<1>1. /\ height = 0 /\ flight = {} /\ side = [p \in Side |-> None] /\ disk = side
      /\ posts = [p \in Side |-> NoPosts] /\ at = [p \in Side |-> "idle"]
      /\ seen = [p \in Side |-> Nothing] /\ stale = {}
      /\ outs = [c \in Chains |-> <<>>] /\ lead = 0
      /\ setting \in Settings /\ due = setting.vigilant /\ faults = 0
  BY DEF Init, Chains
<1>2. /\ setting.height \in Nat /\ setting.faults \in Nat /\ MaxDrift \in Nat
  BY <1>1, SwapAssumption
<1>3. TypeOK
  <2>1. 0 \in 0..setting.height /\ 0 \in 0..setting.faults /\ 0 \in -MaxDrift..MaxDrift
    BY <1>2
  <2>2. posts \in [Side -> [{"proof", "locked", "abort"} -> {"no", "pending", "posted"}]]
    BY <1>1 DEF NoPosts
  <2>3. \A c \in {TakerChain, MakerChain} : DOMAIN outs[c] = {}
    BY <1>1 DEF Chains
  <2> QED BY <1>1, <2>1, <2>2, <2>3 DEF TypeOK
<1>4. OutsOK
  BY <1>1 DEF OutsOK
<1>5. \A p \in Side : ~HasLock(p)
  BY <1>1, SideChains DEF HasLock
<1>6. WayOK
  BY <1>1 DEF WayOK, Way, NoPosts, Side
<1>7. BoardOK
  <2>1. PICK post \in PostOp, fill \in FillAmount :
          view = Taken(Posted(emptyView, theOffer, maker, post, 0),
                       theMatch, taker, theOffer, fill, theHash, takerKey, 0)
    BY DEF Init
  <2> SUFFICES ASSUME NEW m \in Matched PROVE SaysOK(m)
    BY DEF BoardOK
  <2>2. PICK before : before = Posted(emptyView, theOffer, maker, post, 0)
    OBVIOUS
  <2>3. before.offers[theOffer].maker = maker /\ before.offers[theOffer].want = post.want
    BY <2>2 DEF Posted, Put, emptyView
  <2>4. PICK took :
          took = [offerId |-> theOffer, maker |-> before.offers[theOffer].maker, taker |-> taker,
                  makerChain |-> before.offers[theOffer].give.chain, makerAmount |-> fill,
                  takerChain |-> before.offers[theOffer].want.chain,
                  takerAmount |-> proRata(before.offers[theOffer], fill),
                  hash |-> theHash, takerKey |-> takerKey, makerKey |-> None,
                  status |-> "awaitingProofs", takenAt |-> 0,
                  proofDeadline |-> 0 + PROOF_WINDOW,
                  pruneAt |-> 0 + matchLifetime(before.offers[theOffer].want.chain),
                  makerProof |-> FALSE, takerProof |-> FALSE,
                  makerLock |-> FALSE, takerLock |-> FALSE, cancelled |-> None]
    OBVIOUS
  <2>5. view.matches = Put(before.matches, theMatch, took)
    BY <2>1, <2>2, <2>4 DEF Taken
  <2>6. m = took
    BY <2>5 DEF Matched, Put
  <2>7. took.pruneAt = matchLifetime(TakerChain)
    BY <2>3, <2>4, SwapAssumption, Lifetime
  <2>8. MatchOK(took)
    <3>1. MatchFields \subseteq DOMAIN took
      BY <2>4 DEF MatchFields
    <3>2. /\ took.maker = maker /\ took.taker = taker /\ took.status = "awaitingProofs"
          /\ took.makerProof = FALSE
      BY <2>3, <2>4
    <3>3. height < took.pruneAt
      BY <1>1, <2>7, Lifetime
    <3> QED BY <2>7, <3>1, <3>2, <3>3 DEF MatchOK
  <2>9. took.makerLock = FALSE /\ took.takerLock = FALSE /\ took.status = "awaitingProofs"
    BY <2>4
  <2> QED BY <1>1, <1>5, <2>6, <2>8, <2>9 DEF SaysOK
<1>8. ASSUME NEW p \in Side
      PROVE  SeenOK(p) /\ RecordOK(p, side[p]) /\ RecordOK(p, disk[p]) /\ StepOK(p)
  <2>1. SeenOK(p)
    BY <1>1 DEF SeenOK, ReadOK, FoundOK, Nothing
  <2>2. RecordOK(p, None)
    BY <1>5, <1>8 DEF RecordOK, LockKnown, LockKept, TakerEnds, TakerResolved
  <2>3. side[p] = None /\ disk[p] = None /\ at[p] = "idle"
    BY <1>1
  <2> QED BY <2>1, <2>2, <2>3 DEF StepOK
<1>9. \A p \in Side : at[p] = "idle" /\ ~Way(p, "locked")
  BY <1>1 DEF Way, NoPosts
<1> QED BY <1>1, <1>3, <1>4, <1>6, <1>7, <1>8, <1>9 DEF SwapInv

LEMMA SwapNext ==
  ASSUME SwapInv, [Next]_vars
  PROVE  SwapInv'
<1>1. CASE Anchor
  BY <1>1, AnchorKeeps
<1>2. ASSUME NEW op \in flight, Certify(op) PROVE SwapInv'
  BY <1>2, CertifyKeeps
<1>3. ASSUME NEW c \in {TakerChain, MakerChain},
             Block(c) \/ \E i \in 1..MaxLocks : Evict(c, i) \/ List(c, i)
      PROVE  SwapInv'
  BY <1>3, BlockKeeps, EvictListKeep DEF Chains
<1>4. ASSUME NEW p \in Side,
             \/ Pass(p) \/ PassFails(p) \/ GraceOver(p) \/ Crash(p)
             \/ \E kind \in {"proof", "locked", "abort"} : Submit(p, kind)
      PROVE  SwapInv'
  <2>1. CASE Pass(p)
    <3>1. CASE DormantPass(p)
      BY <3>1, DormantKeeps DEF DormantPass
    <3> QED BY <2>1, <3>1, ProofsKeep, GiveUpKeeps, EscrowKeeps, DecideKeeps, LockedKeeps,
               FundKeeps, FundedKeeps, ClaimKeeps, RefundKeeps DEF Pass
  <2>2. CASE PassFails(p) \/ GraceOver(p) \/ Crash(p)
    BY <2>2, FailKeeps, GraceKeeps, CrashKeeps
  <2>3. CASE \E kind \in {"proof", "locked", "abort"} : Submit(p, kind)
    BY <2>3, SubmitKeeps
  <2> QED BY <1>4, <2>1, <2>2, <2>3
<1>5. CASE UNCHANGED vars
  <2>1. UNCHANGED <<board, engine, setting, outs, lead, due, faults>>
    BY <1>5 DEF vars, chains
  <2>2. TypeOK /\ OutsOK
    BY DEF SwapInv
  <2>3. OutsOK' /\ Grows /\ \A p \in Side : HasLock(p)' <=> HasLock(p)
    BY <2>1, <2>2, SameOuts
  <2>4. TypeOK'
    BY <2>1, <2>2 DEF TypeOK, board, engine, SideRecord, Output, Deepest
  <2> QED BY <2>1, <2>3, <2>4, ChainKeeps
<1> QED BY <1>1, <1>2, <1>3, <1>4, <1>5 DEF Next

(* What may happen is settled at the start.                                *)
LEMMA SettingKept ==
  ASSUME [Next]_vars
  PROVE  setting' = setting
<1>1. CASE Anchor \/ \E op \in flight : Certify(op)
  BY <1>1 DEF Anchor, Certify
<1>2. CASE \E c \in {TakerChain, MakerChain} :
             Block(c) \/ \E i \in 1..MaxLocks : Evict(c, i) \/ List(c, i)
  BY <1>2 DEF Block, Evict, List
<1>3. ASSUME NEW p \in Side, Pass(p) PROVE setting' = setting
  BY <1>3 DEF Pass, DormantPass, ProofsPass, GiveUpPass, EscrowPass, LockedPass,
              Decide, Fund, Funded, Claim, Refund
<1>4. CASE \E p \in Side :
             \/ PassFails(p) \/ GraceOver(p) \/ Crash(p)
             \/ \E kind \in {"proof", "locked", "abort"} : Submit(p, kind)
  BY <1>4 DEF PassFails, GraceOver, Crash, Submit
<1>5. CASE UNCHANGED vars
  BY <1>5 DEF vars
<1> QED BY <1>1, <1>2, <1>3, <1>4, <1>5 DEF Next

(* The inductive invariant: what a record, its file, a reading and the ops *)
(* on their way say of the HTLCs is true, for any windows, margins, faults *)
(* and order of steps, where what is sent is listed at once or in time.    *)
THEOREM SwapSafe == Spec => [](Timely => SwapInv)
<1>1. Init => (Timely => SwapInv)
  BY SwapInit
<1>2. (Timely => SwapInv) /\ [Next]_vars => (Timely => SwapInv)'
  <2> SUFFICES ASSUME Timely => SwapInv, [Next]_vars, Timely' PROVE SwapInv'
    OBVIOUS
  <2>1. Timely
    BY SettingKept DEF Timely
  <2> QED BY <2>1, SwapNext
<1> QED BY <1>1, <1>2, PTL DEF Spec

(* No engine funds its HTLC twice, whatever crashes or fails between the   *)
(* intent, the broadcast and the saved outpoint (lock, adoptLock): at      *)
(* whatever moment the grace time ends where explorers list at once what   *)
(* they are sent, and where they list it, and passes end, within it.       *)
THEOREM LockedOnce == Spec => []NeverLocksTwice
<1>1. (Timely => SwapInv) => NeverLocksTwice
  BY DEF SwapInv, OutsOK, NeverLocksTwice, Chains, Timely
<1> QED BY <1>1, SwapSafe, PTL

-----------------------------------------------------------------------------
(* Without any assumption on the grace time an HTLC may be funded twice.   *)
(* What is well formed then still is, and so are the hints on the board.   *)

(* There may be several outputs per chain.                                 *)
ManyOuts ==
  /\ outs = [c \in Chains |-> outs[c]]
  /\ \A c \in Chains : outs[c] \in Seq(Output(c)) /\ Len(outs[c]) <= MaxLocks

(* The hints on the board are true, and so are those on their way.         *)
HintsOK ==
  \A m \in Matched :
    /\ MatchFields \subseteq DOMAIN m
    /\ m.makerLock => HasLock(maker)
    /\ m.takerLock => HasLock(taker)

PartyOK(p) ==
  /\ at[p] # "idle" => side[p] # None
  /\ at[p] = "funded" => HasLock(p)
  /\ Way(p, "locked") => HasLock(p)

(* The inductive invariant of every setting.                               *)
WideInv == TypeOK /\ ManyOuts /\ HintsOK /\ \A p \in Side : PartyOK(p)

LEMMA OutsLength ==
  ASSUME ManyOuts, NEW c \in Chains
  PROVE  /\ Len(outs[c]) \in Nat /\ Len(outs[c]) <= MaxLocks
         /\ DOMAIN outs[c] = 1..Len(outs[c]) /\ outs[c] \in Seq(Output(c))
         /\ outs[c] # <<>> <=> Len(outs[c]) > 0
<1>1. outs[c] \in Seq(Output(c)) /\ Len(outs[c]) <= MaxLocks
  BY DEF ManyOuts
<1>2. Len(outs[c]) \in Nat /\ DOMAIN outs[c] = 1..Len(outs[c])
  BY <1>1, LenProperties
<1>3. outs[c] # <<>> => Len(outs[c]) \in Nat \ {0}
  BY <1>1, EmptySeq
<1>4. outs[c] = <<>> => Len(outs[c]) = 0
  BY EmptySeq
<1> QED BY <1>1, <1>2, <1>3, <1>4

LEMMA LeastOf ==
  ASSUME NEW T, T \subseteq Nat, T # {}
  PROVE  \E x \in T : \A y \in T : x <= y
<1>1. IsWellFoundedOn(OpToRel(<, Nat), Nat)
  BY NatLessThanWellFounded
<1>2. PICK x \in T : \A y \in T : ~(<<y, x>> \in OpToRel(<, Nat))
  BY <1>1, WFMin
<1>3. ASSUME NEW y \in T PROVE x <= y
  <2>1. x \in Nat /\ y \in Nat
    OBVIOUS
  <2>2. ~(y < x)
    BY <1>2, <2>1 DEF OpToRel
  <2> QED BY <2>1, <2>2
<1> QED BY <1>3

(* pickExact picks one of the outputs it was given, however many.          *)
LEMMA PickMany ==
  ASSUME NEW found, NEW u \in BOOLEAN, NEW D \in Nat, DOMAIN found \subseteq Nat,
         \A i \in DOMAIN found : found[i].confs \in 0..D
  PROVE  pickExact(found, u) \in DOMAIN found \cup {0}
<1> DEFINE Rank(i) == IF found[i].spend # "none" THEN 2 ELSE IF found[i].confs = 0 THEN 1 ELSE 0
           Good == {i \in DOMAIN found : u => found[i].spend = "none"}
           Before(i, j) ==
             \/ Rank(i) < Rank(j)
             \/ Rank(i) = Rank(j) /\ found[i].confs > found[j].confs
             \/ Rank(i) = Rank(j) /\ found[i].confs = found[j].confs /\ i < j
<1>1. CASE Good = {}
  BY <1>1 DEF pickExact
<1>2. CASE Good # {}
  <2>1. \A i \in Good : Rank(i) \in 0..2 /\ found[i].confs \in 0..D /\ i \in Nat
    OBVIOUS
  <2> HIDE DEF Good, Rank
  <2>2. PICK a \in {Rank(i) : i \in Good} : \A b \in {Rank(i) : i \in Good} : a <= b
    BY <1>2, <2>1, LeastOf
  <2> DEFINE First == {i \in Good : Rank(i) = a}
  <2>3. First # {} /\ \A i \in First : D - found[i].confs \in Nat
    BY <2>1, <2>2
  <2> HIDE DEF First
  <2>4. PICK b \in {D - found[i].confs : i \in First} :
          \A d \in {D - found[i].confs : i \in First} : b <= d
    BY <2>3, LeastOf
  <2> DEFINE Oldest == {i \in First : D - found[i].confs = b}
  <2>5. Oldest # {} /\ Oldest \subseteq Nat
    BY <2>1, <2>4 DEF First
  <2> HIDE DEF Oldest
  <2>6. PICK i \in Oldest : \A j \in Oldest : i <= j
    BY <2>5, LeastOf
  <2>7. i \in Good /\ Rank(i) = a /\ D - found[i].confs = b
    BY <2>6 DEF Oldest, First
  <2>8. ASSUME NEW j \in Good \ {i} PROVE Before(i, j)
    <3>1. /\ Rank(i) \in 0..2 /\ Rank(j) \in 0..2 /\ found[i].confs \in 0..D
          /\ found[j].confs \in 0..D /\ i \in Nat /\ j \in Nat /\ i # j
      BY <2>1, <2>7
    <3>2. Rank(i) <= Rank(j)
      BY <2>2, <2>7
    <3>3. Rank(j) = Rank(i) => D - found[i].confs <= D - found[j].confs
      BY <2>4, <2>7 DEF First
    <3>4. Rank(j) = Rank(i) /\ found[j].confs = found[i].confs => i <= j
      BY <2>4, <2>6, <2>7 DEF Oldest, First
    <3> QED BY <3>1, <3>2, <3>3, <3>4
  <2>9. pickExact(found, u) = CHOOSE k \in Good : \A j \in Good \ {k} : Before(k, j)
    BY <1>2 DEF pickExact, Good, Rank
  <2> HIDE DEF Before
  <2>10. (CHOOSE k \in Good : \A j \in Good \ {k} : Before(k, j)) \in Good
    BY <2>7, <2>8
  <2> QED BY <2>9, <2>10 DEF Good
<1> QED BY <1>1, <1>2

(* What a scan of a chain picks is 0 or one of its outputs.                *)
LEMMA ScanPicks ==
  ASSUME ManyOuts, NEW c \in Chains, NEW u \in BOOLEAN
  PROVE  /\ pickExact(scan(c), u) \in 0..MaxLocks
         /\ pickExact(scan(c), u) <= Len(outs[c])
         /\ pickExact(scan(c), u) # 0 => outs[c] # <<>>
<1>1. /\ Len(outs[c]) \in Nat /\ Len(outs[c]) <= MaxLocks /\ MaxLocks \in Nat
      /\ DOMAIN outs[c] = 1..Len(outs[c]) /\ outs[c] \in Seq(Output(c))
      /\ outs[c] # <<>> <=> Len(outs[c]) > 0
  BY OutsLength, SwapAssumption
<1>2. PICK found : found = scan(c)
  OBVIOUS
<1>3. /\ DOMAIN found \subseteq 1..Len(outs[c])
      /\ \A i \in DOMAIN found : found[i].confs \in 0..Deepest[c]
  <2>1. \A i \in 1..Len(outs[c]) : outs[c][i] \in Output(c)
    BY <1>1, ElementOfSeq
  <2> QED BY <1>1, <1>2, <2>1 DEF scan, Output
<1>4. pickExact(found, u) \in DOMAIN found \cup {0}
  <2>1. DOMAIN found \subseteq Nat /\ Deepest[c] \in Nat
    BY <1>3, DeepestOK
  <2> QED BY <1>3, <2>1, PickMany
<1> QED BY <1>1, <1>2, <1>3, <1>4

(* Outputs are well formed, and there are no fewer than before.            *)
OutsGrow ==
  /\ ManyOuts' /\ \A c \in Chains : OutputsOK(c)' /\ Len(outs[c]) <= Len(outs'[c])

(* One step of what is around the pass of p, and what p posts.             *)
Around(p) ==
  /\ UNCHANGED <<board, lead, setting>> /\ OutsGrow
  /\ stale' \subseteq Side /\ (Fault \/ UNCHANGED faults)
  /\ \E w \in [{"proof", "locked", "abort"} -> {"no", "pending", "posted"}] :
       /\ posts' = [posts EXCEPT ![p] = w]
       /\ w["locked"] = "pending" => posts[p]["locked"] = "pending" \/ HasLock(p)

LEMMA SameGrow ==
  ASSUME TypeOK, ManyOuts, UNCHANGED outs
  PROVE  OutsGrow
<1>1. \A c \in Chains : Len(outs[c]) \in Nat /\ OutputsOK(c)
  BY OutsLength DEF TypeOK, OutputsOK, Chains
<1>2. ManyOuts'
  BY DEF ManyOuts, Output, Deepest
<1>3. ASSUME NEW c \in Chains PROVE OutputsOK(c)' /\ Len(outs[c]) <= Len(outs'[c])
  <2>1. PICK n \in Nat : n = Len(outs[c])
    BY <1>1
  <2>2. n <= n
    BY <2>1
  <2>3. OutputsOK(c)'
    BY <1>1 DEF OutputsOK, Output, Deepest
  <2> QED BY <2>1, <2>2, <2>3
<1> QED BY <1>2, <1>3 DEF OutsGrow

LEMMA LocksGrow ==
  ASSUME ManyOuts, OutsGrow, NEW p \in Side
  PROVE  HasLock(p) => HasLock(p)'
<1>1. MyChain(p) \in Chains /\ MyChain(p)' = MyChain(p)
  BY SideChains DEF MyChain
<1>2. Len(outs[MyChain(p)]) \in Nat /\ (outs[MyChain(p)] # <<>> <=> Len(outs[MyChain(p)]) > 0)
  BY <1>1, OutsLength
<1>3. outs'[MyChain(p)] = <<>> => Len(outs'[MyChain(p)]) = 0
  BY EmptySeq
<1>4. Len(outs[MyChain(p)]) <= Len(outs'[MyChain(p)])
  BY <1>1 DEF OutsGrow
<1> QED BY <1>1, <1>2, <1>3, <1>4 DEF HasLock

LEMMA FitsGrow ==
  ASSUME ManyOuts, OutsGrow, NEW p \in Side, NEW s, Fits(p, s)
  PROVE  Fits(p, s)'
<1>1. \A c \in Chains : /\ Len(outs[c]) \in Nat /\ Len(outs[c]) <= Len(outs'[c])
                        /\ Len(outs'[c]) \in Nat
  <2>1. \A c \in Chains : Len(outs'[c]) \in Nat
    BY LenProperties DEF OutsGrow, ManyOuts
  <2> QED BY <2>1, OutsLength DEF OutsGrow
<1>2. s # None => s.myLock \in Nat /\ s.theirLock \in Nat
  BY SwapAssumption DEF Fits, SideRecord
<1>3. MyChain(p) \in Chains /\ TheirChain(p) \in Chains
  BY SideChains
<1> QED BY <1>1, <1>2, <1>3 DEF Fits, SideRecord, MyChain, TheirChain

LEMMA FaultCounts ==
  ASSUME TypeOK, UNCHANGED setting, Fault \/ UNCHANGED faults
  PROVE  faults' \in 0..setting.faults
BY SettingTypes DEF TypeOK, Fault

(* A pass of p leaves the record s, the file d and p at a.                 *)
Leaves(p, s, d, a) ==
  /\ side' = [side EXCEPT ![p] = s] /\ disk' = [disk EXCEPT ![p] = d]
  /\ at' = [at EXCEPT ![p] = a] /\ due' \subseteq due
  /\ a # "idle" => s # None
  /\ a = "funded" => HasLock(p)'

LEMMA WideStep ==
  ASSUME WideInv, NEW p \in Side, Around(p), NEW s, NEW d, Fits(p, s), Fits(p, d),
         NEW a \in {"idle", "scanned", "funding", "funded", "claiming", "refunding"},
         Leaves(p, s, d, a)
  PROVE  WideInv'
<1>1. TypeOK /\ ManyOuts /\ OutsGrow /\ ManyOuts' /\ UNCHANGED <<board, lead, setting>>
  BY DEF WideInv, Around, OutsGrow
<1> USE DEF Leaves
<1>2. PICK w \in [{"proof", "locked", "abort"} -> {"no", "pending", "posted"}] :
        /\ posts' = [posts EXCEPT ![p] = w]
        /\ w["locked"] = "pending" => posts[p]["locked"] = "pending" \/ HasLock(p)
  BY DEF Around
<1>3. TypeOK'
  <2>1. s \in SideRecord \cup {None} /\ d \in SideRecord \cup {None}
    BY DEF Fits
  <2>2. /\ side' \in [Side -> SideRecord \cup {None}] /\ disk' \in [Side -> SideRecord \cup {None}]
        /\ at' \in [Side -> {"idle", "scanned", "funding", "funded", "claiming", "refunding"}]
        /\ posts' \in [Side -> [{"proof", "locked", "abort"} -> {"no", "pending", "posted"}]]
    BY <1>1, <1>2, <2>1 DEF TypeOK
  <2>3. ASSUME NEW q \in Side, NEW t \in {side'[q], disk'[q]} \ {None}
        PROVE  t.myLock <= Len(outs'[MyChain(q)]) /\ t.theirLock <= Len(outs'[TheirChain(q)])
    <3>1. t \in {s, d} \/ t \in {side[q], disk[q]}
      BY <1>1 DEF TypeOK
    <3>2. Fits(q, side[q]) /\ Fits(q, disk[q])
      BY <1>1, FitsSides
    <3>3. q = p \/ t \in {side[q], disk[q]}
      BY <1>1 DEF TypeOK
    <3>4. Fits(q, t)
      BY <3>1, <3>2, <3>3, <1>1 DEF TypeOK
    <3>5. Fits(q, t)'
      BY <1>1, <3>4, FitsGrow
    <3> QED BY <3>5 DEF Fits, MyChain, TheirChain
  <2>4. /\ height' \in 0..setting'.height /\ faults' \in 0..setting'.faults
        /\ lead' \in -MaxDrift..MaxDrift /\ setting' \in Settings
        /\ flight' \subseteq [by : Side, kind : {"proof", "locked", "abort"}]
        /\ stale' \subseteq Side /\ due' \subseteq setting'.vigilant
    BY <1>1, FaultCounts DEF Around, TypeOK, board
  <2>5. \A c \in {TakerChain, MakerChain} : \A i \in DOMAIN outs'[c] :
          /\ outs'[c][i] \in Output(c)'
          /\ outs'[c][i].mined => outs'[c][i].confs > 0 /\ outs'[c][i].spend # "none"
    BY <1>1 DEF OutsGrow, OutputsOK, Chains
  <2> QED BY <2>2, <2>3, <2>4, <2>5 DEF TypeOK, SideRecord
<1>4. taker \in Side /\ maker \in Side /\ \A q \in Side : HasLock(q) => HasLock(q)'
  BY <1>1, LocksGrow DEF Side
<1>5. HintsOK'
  <2>1. Matched' = Matched
    BY <1>1 DEF board, Matched
  <2> QED BY <1>4, <2>1 DEF WideInv, HintsOK, MatchFields
<1>6. ASSUME NEW q \in Side PROVE PartyOK(q)'
  <2>1. PartyOK(q)
    BY DEF WideInv
  <2>2. Way(q, "locked")' => Way(q, "locked") \/ HasLock(q)
    <3>1. posts'[q]["locked"] = "pending" => posts[q]["locked"] = "pending" \/ HasLock(q)
      BY <1>1, <1>2 DEF TypeOK
    <3> QED BY <1>1, <3>1 DEF Way, board
  <2>3. CASE q = p
    BY <1>1, <1>4, <2>1, <2>2, <2>3 DEF PartyOK, TypeOK
  <2>4. CASE q # p
    BY <1>1, <1>4, <2>1, <2>2, <2>4 DEF PartyOK, TypeOK
  <2> QED BY <2>3, <2>4
<1> QED BY <1>1, <1>3, <1>5, <1>6 DEF WideInv

(* A pass that ends keeps its record, or drops it.                         *)
LEMMA WideEnd ==
  ASSUME WideInv, NEW p \in Side, Around(p), NEW s, Fits(p, s), NEW r, End(p, s, r)
  PROVE  WideInv'
<1>1. PICK kept : /\ kept = s \/ kept = None
                  /\ side' = [side EXCEPT ![p] = kept] /\ disk' = [disk EXCEPT ![p] = kept]
                  /\ at' = [at EXCEPT ![p] = "idle"] /\ due' = due \ {p}
  BY DEF End, Save, Hold
<1>2. Fits(p, kept) /\ Leaves(p, kept, kept, "idle")
  BY <1>1 DEF Fits, Leaves
<1> QED BY <1>2, WideStep

LEMMA WideFinish ==
  ASSUME WideInv, NEW p \in Side, Around(p), NEW s \in SideRecord, Fits(p, s), NEW r,
         NEW stage \in {"active"} \cup Terminal, Finish(p, s, r, stage)
  PROVE  WideInv'
<1>1. PICK t : t = [s EXCEPT !.stage = stage]
  OBVIOUS
<1>2. t \in SideRecord /\ t.myLock = s.myLock /\ t.theirLock = s.theirLock
  BY <1>1 DEF SideRecord
<1>3. Fits(p, t)
  BY <1>2, NoneAssumption DEF Fits
<1> QED BY <1>1, <1>3, WideEnd DEF Finish

(* A pass that sends something goes on later.                              *)
LEMMA WideSend ==
  ASSUME WideInv, NEW p \in Side, Around(p), NEW s \in SideRecord, Fits(p, s), Hold(p, s),
         UNCHANGED disk \/ disk' = [disk EXCEPT ![p] = s], NEW r,
         NEW a \in {"scanned", "funding", "funded", "claiming", "refunding"},
         Await(p, a, r), a = "funded" => HasLock(p)'
  PROVE  WideInv'
<1>1. TypeOK
  BY DEF WideInv
<1>2. PICK d : d \in {s, disk[p]} /\ disk' = [disk EXCEPT ![p] = d]
  BY <1>1 DEF TypeOK
<1>3. Fits(p, d)
  BY <1>1, <1>2, FitsSides
<1>4. s # None
  BY NoneAssumption
<1>5. Leaves(p, s, d, a)
  BY <1>2, <1>4 DEF Hold, Await, Leaves
<1> QED BY <1>3, <1>5, WideStep

LEMMA WideRefundOrEnd ==
  ASSUME WideInv, NEW p \in Side, Around(p), NEW s \in SideRecord, Fits(p, s), NEW r,
         RefundOrEnd(p, s, r)
  PROVE  WideInv'
<1>1. CASE Hold(p, s) /\ UNCHANGED disk /\ Await(p, "refunding", r)
  BY <1>1, WideSend
<1>2. CASE Save(p, [s EXCEPT !.refund = TRUE]) /\ Await(p, "refunding", r)
  <2>1. PICK t : t = [s EXCEPT !.refund = TRUE]
    OBVIOUS
  <2>2. t \in SideRecord /\ t.myLock = s.myLock /\ t.theirLock = s.theirLock
    BY <2>1 DEF SideRecord
  <2>3. Fits(p, t)
    BY <2>2, NoneAssumption DEF Fits
  <2> QED BY <1>2, <2>1, <2>2, <2>3, WideSend DEF Save
<1>3. CASE Finish(p, s, r, StageOf(p, s, r.mine, r.theirs))
  <2>1. PICK stage : stage = StageOf(p, s, r.mine, r.theirs)
    OBVIOUS
  <2>2. stage \in {"active"} \cup Terminal
    BY <2>1 DEF StageOf, Terminal
  <2> QED BY <1>3, <2>1, <2>2, WideFinish
<1> QED BY <1>1, <1>2, <1>3 DEF RefundOrEnd

(* The outputs stay while a pass reads.                                    *)
LEMMA WidePosts ==
  ASSUME WideInv, NEW p \in Side, UNCHANGED <<board, chains, setting>>,
         stale' \in {stale, stale \ {p}}, Fault \/ UNCHANGED faults,
         \/ UNCHANGED posts
         \/ \E kind \in {"proof", "locked", "abort"} : \E when \in BOOLEAN :
              postOp(p, kind, when) /\ (kind = "locked" => HasLock(p))
  PROVE  Around(p)
<1>1. TypeOK /\ ManyOuts
  BY DEF WideInv
<1>2. OutsGrow /\ stale' \subseteq Side
  BY <1>1, SameGrow DEF chains, TypeOK
<1>3. \E w \in [{"proof", "locked", "abort"} -> {"no", "pending", "posted"}] :
        /\ posts' = [posts EXCEPT ![p] = w]
        /\ w["locked"] = "pending" => posts[p]["locked"] = "pending" \/ HasLock(p)
  <2>1. CASE UNCHANGED posts
    BY <1>1, <2>1, NoPostShape
  <2>2. ASSUME NEW kind \in {"proof", "locked", "abort"}, NEW when \in BOOLEAN,
               postOp(p, kind, when), kind = "locked" => HasLock(p)
        PROVE  \E w \in [{"proof", "locked", "abort"} -> {"no", "pending", "posted"}] :
                 /\ posts' = [posts EXCEPT ![p] = w]
                 /\ w["locked"] = "pending" => posts[p]["locked"] = "pending" \/ HasLock(p)
    BY <1>1, <2>2, PostOpShape
  <2> QED BY <2>1, <2>2
<1> QED BY <1>2, <1>3 DEF Around, chains

LEMMA WideWithLock ==
  ASSUME WideInv, NEW p \in Side, NEW s \in SideRecord, Fits(p, s), NEW r, HasLock(p),
         WithLock(p, s, r), stale' = stale \ {p}, UNCHANGED <<board, chains, setting, faults>>
  PROVE  WideInv'
<1>1. PICK theirs : theirs = scan(TheirChain(p))
  OBVIOUS
<1>2. PICK i : i = IF s.theirLock # 0 THEN s.theirLock ELSE pickExact(theirs, p = maker)
  OBVIOUS
<1>3. PICK t : t = IF p = maker THEN [s EXCEPT !.theirLock = i] ELSE s
  OBVIOUS
<1>4. PICK q : q = [r EXCEPT !.theirs = theirs, !.hint = FALSE]
  OBVIOUS
<1>5. /\ postOp(p, "locked", r.hint)
      /\ \/ Hold(p, t) /\ UNCHANGED disk /\ Await(p, "claiming", q)
         \/ Save(p, [t EXCEPT !.theirLock = i, !.claim = TRUE]) /\ Await(p, "claiming", q)
         \/ RefundOrEnd(p, t, q)
  BY <1>1, <1>2, <1>3, <1>4 DEF WithLock
<1>6. Around(p)
  <2>1. PICK when \in BOOLEAN : postOp(p, "locked", when)
    BY <1>5 DEF postOp
  <2> QED BY <2>1, WidePosts
<1>7. i \in 0..MaxLocks /\ i <= Len(outs[TheirChain(p)])
  <2>1. TheirChain(p) \in Chains /\ (p = maker) \in BOOLEAN
    BY SideChains
  <2>2. /\ pickExact(theirs, p = maker) \in 0..MaxLocks
        /\ pickExact(theirs, p = maker) <= Len(outs[TheirChain(p)])
    BY <1>1, <2>1, ScanPicks DEF WideInv
  <2> QED BY <1>2, <2>2, NoneAssumption DEF Fits, SideRecord
<1>8. t \in SideRecord /\ t.myLock = s.myLock /\ t.theirLock \in {s.theirLock, i}
  BY <1>3, <1>7 DEF SideRecord
<1>9. Fits(p, t)
  BY <1>7, <1>8, NoneAssumption DEF Fits
<1>10. CASE Hold(p, t) /\ UNCHANGED disk /\ Await(p, "claiming", q)
  BY <1>6, <1>8, <1>9, <1>10, WideSend
<1>11. CASE Save(p, [t EXCEPT !.theirLock = i, !.claim = TRUE]) /\ Await(p, "claiming", q)
  <2>1. PICK u : u = [t EXCEPT !.theirLock = i, !.claim = TRUE]
    OBVIOUS
  <2>2. u \in SideRecord /\ u.myLock = t.myLock /\ u.theirLock = i
    BY <1>7, <1>8, <2>1 DEF SideRecord
  <2>3. Fits(p, u)
    BY <1>7, <1>8, <1>9, <2>2, NoneAssumption DEF Fits
  <2> QED BY <1>6, <1>11, <2>1, <2>2, <2>3, WideSend DEF Save
<1>12. CASE RefundOrEnd(p, t, q)
  BY <1>6, <1>8, <1>9, <1>12, WideRefundOrEnd
<1> QED BY <1>5, <1>10, <1>11, <1>12

(* The record a pass starts from.                                          *)
LEMMA WideAdopted ==
  ASSUME WideInv, NEW p \in Side, NEW s, s = Adopted(p)
  PROVE  s \in SideRecord /\ Fits(p, s)
<1>1. TypeOK /\ ManyOuts
  BY DEF WideInv
<1>2. PICK b : b = IF side[p] = None THEN NewSide ELSE side[p]
  OBVIOUS
<1>3. PICK key \in BOOLEAN :
        key = (b.makerKey \/ (boardMatch # None /\ boardMatch.makerKey # None))
  OBVIOUS
<1>4. s = [b EXCEPT !.makerKey = key]
  BY <1>2, <1>3 DEF Adopted
<1>5. b \in SideRecord /\ Fits(p, b)
  <2>1. CASE side[p] = None
    <3>1. Len(outs[MyChain(p)]) >= 0 /\ Len(outs[TheirChain(p)]) >= 0
      <4>1. \A c \in Chains : Len(outs[c]) \in Nat
        BY <1>1, OutsLength
      <4> QED BY <4>1, SideChains
    <3>2. b = NewSide /\ b.myLock = 0 /\ b.theirLock = 0
      BY <1>2, <2>1 DEF NewSide
    <3> QED BY <3>1, <3>2, NewSideOK DEF Fits
  <2>2. CASE side[p] # None
    BY <1>1, <1>2, <2>2, FitsSides DEF Fits
  <2> QED BY <2>1, <2>2
<1>6. s \in SideRecord /\ s.myLock = b.myLock /\ s.theirLock = b.theirLock
  BY <1>4, <1>5 DEF SideRecord
<1> QED BY <1>5, <1>6, NoneAssumption DEF Fits

(* A pass that reads and ends, or goes on to decide.                       *)
LEMMA WideQuiet ==
  ASSUME WideInv, NEW p \in Side,
         DormantPass(p) \/ ProofsPass(p) \/ GiveUpPass(p) \/ EscrowPass(p)
  PROVE  WideInv'
<1>1. PICK s : s = Adopted(p)
  OBVIOUS
<1>2. s \in SideRecord /\ Fits(p, s)
  BY <1>1, WideAdopted
<1>3. CASE DormantPass(p)
  <2>1. Around(p)
    BY <1>3, WidePosts DEF DormantPass
  <2> QED BY <1>1, <1>2, <1>3, <2>1, WideEnd DEF DormantPass
<1>4. CASE ProofsPass(p)
  <2>1. PICK verdict \in {"unverified", "ok", "bad"} :
          /\ End(p, [s EXCEPT !.theirProof = verdict], Read(p))
          /\ Fault \/ UNCHANGED faults
    BY <1>1, <1>4 DEF ProofsPass, Verified, NotVerified
  <2>2. PICK when \in BOOLEAN : postOp(p, "proof", when)
    BY <1>4 DEF ProofsPass, postOp
  <2>3. Around(p)
    BY <1>4, <2>1, <2>2, WidePosts DEF ProofsPass
  <2>4. PICK t : t = [s EXCEPT !.theirProof = verdict]
    OBVIOUS
  <2>5. t \in SideRecord /\ t.myLock = s.myLock /\ t.theirLock = s.theirLock
    BY <1>2, <2>4 DEF SideRecord
  <2>6. Fits(p, t)
    BY <1>2, <2>5, NoneAssumption DEF Fits
  <2> QED BY <2>1, <2>3, <2>4, <2>6, WideEnd
<1>5. CASE GiveUpPass(p)
  <2>1. Around(p)
    BY <1>5, WidePosts DEF GiveUpPass
  <2>2. Finish(p, s, Read(p), "cancelled") /\ "cancelled" \in {"active"} \cup Terminal
    BY <1>1, <1>5 DEF GiveUpPass, Terminal
  <2> QED BY <1>2, <2>1, <2>2, WideFinish
<1>6. CASE EscrowPass(p)
  <2>1. Around(p)
    BY <1>6, WidePosts DEF EscrowPass
  <2> QED BY <1>1, <1>2, <1>6, <2>1, WideSend DEF EscrowPass
<1> QED BY <1>3, <1>4, <1>5, <1>6

(* lock: the pass ends, or goes on to fund.                                *)
LEMMA WideLock ==
  ASSUME WideInv, NEW p \in Side, NEW s \in SideRecord, Fits(p, s), NEW r, Lock(p, s, r),
         UNCHANGED <<board, chains, posts, setting>>, Fault \/ UNCHANGED faults
  PROVE  WideInv'
<1>1. Around(p)
  BY WidePosts DEF Lock
<1>2. CASE End(p, s, r)
  BY <1>1, <1>2, WideEnd
<1>3. CASE /\ Save(p, [s EXCEPT !.lockIntent = TRUE])
           /\ Await(p, "funding", [r EXCEPT !.h = 0])
  <2>1. PICK t : t = [s EXCEPT !.lockIntent = TRUE]
    OBVIOUS
  <2>2. t \in SideRecord /\ t.myLock = s.myLock /\ t.theirLock = s.theirLock
    BY <2>1 DEF SideRecord
  <2>3. Fits(p, t)
    BY <2>2, NoneAssumption DEF Fits
  <2> QED BY <1>1, <1>3, <2>1, <2>2, <2>3, WideSend DEF Save
<1> QED BY <1>2, <1>3 DEF Lock

LEMMA WideDecide ==
  ASSUME WideInv, NEW p \in Side, Decide(p)
  PROVE  WideInv'
<1>1. TypeOK /\ ManyOuts /\ PartyOK(p)
  BY DEF WideInv
<1>2. PICK theirs : theirs = scan(TheirChain(p))
  OBVIOUS
<1>3. PICK verdict \in {"unverified", "ok", "bad"} :
        LET v == [side[p] EXCEPT !.theirProof = verdict]
        IN  /\ Fault \/ UNCHANGED faults
            /\ IF p = taker THEN TakerDecides(v, seen[p]) /\ UNCHANGED posts
                            ELSE MakerDecides(v, seen[p], theirs)
  BY <1>2 DEF Decide, Verified, NotVerified
<1>4. PICK v : v = [side[p] EXCEPT !.theirProof = verdict]
  OBVIOUS
<1>5. /\ Fault \/ UNCHANGED faults
      /\ p = taker => TakerDecides(v, seen[p]) /\ UNCHANGED posts
      /\ p = maker => MakerDecides(v, seen[p], theirs)
  BY <1>3, <1>4, SwapAssumption
<1>6. side[p] \in SideRecord /\ Fits(p, side[p]) /\ UNCHANGED <<board, chains, setting>>
  BY <1>1, FitsSides DEF Decide, PartyOK, TypeOK
<1>7. v \in SideRecord /\ v.myLock = side[p].myLock /\ v.theirLock = side[p].theirLock
  BY <1>4, <1>6 DEF SideRecord
<1>8. Fits(p, v)
  BY <1>6, <1>7, NoneAssumption DEF Fits
<1>9. {"failed", "cancelled"} \subseteq {"active"} \cup Terminal
  BY DEF Terminal
<1>10. CASE p = taker
  <2>1. UNCHANGED stale => Around(p)
    BY <1>5, <1>6, <1>10, WidePosts
  <2>2. \/ UNCHANGED stale /\ End(p, v, seen[p])
        \/ UNCHANGED stale /\ Finish(p, v, seen[p], "failed")
        \/ UNCHANGED stale /\ Finish(p, v, seen[p], "cancelled")
        \/ Lock(p, v, seen[p])
    BY <1>5, <1>10 DEF TakerDecides
  <2> QED BY <1>5, <1>6, <1>7, <1>8, <1>9, <1>10, <2>1, <2>2, WideEnd, WideFinish, WideLock
<1>11. CASE p = maker
  <2>1. PICK i : i = pickExact(theirs, TRUE)
    OBVIOUS
  <2>2. \/ /\ Finish(p, [v EXCEPT !.abort = TRUE], seen[p], "cancelled")
           /\ postOp(p, "abort", TRUE) /\ UNCHANGED stale
        \/ End(p, v, seen[p]) /\ UNCHANGED <<posts, stale>>
        \/ Lock(p, [v EXCEPT !.theirLock = i], seen[p]) /\ UNCHANGED posts
    BY <1>5, <1>11, <2>1 DEF MakerDecides
  <2>3. CASE /\ Finish(p, [v EXCEPT !.abort = TRUE], seen[p], "cancelled")
             /\ postOp(p, "abort", TRUE) /\ UNCHANGED stale
    <3>1. PICK t : t = [v EXCEPT !.abort = TRUE]
      OBVIOUS
    <3>2. t \in SideRecord /\ t.myLock = v.myLock /\ t.theirLock = v.theirLock
      BY <1>7, <3>1 DEF SideRecord
    <3>3. Fits(p, t)
      BY <1>7, <1>8, <3>2, NoneAssumption DEF Fits
    <3>4. Around(p)
      BY <1>5, <1>6, <2>3, WidePosts
    <3> QED BY <1>9, <2>3, <3>1, <3>2, <3>3, <3>4, WideFinish
  <2>4. CASE End(p, v, seen[p]) /\ UNCHANGED <<posts, stale>>
    <3>1. Around(p)
      BY <1>5, <1>6, <2>4, WidePosts
    <3> QED BY <1>8, <2>4, <3>1, WideEnd
  <2>5. CASE Lock(p, [v EXCEPT !.theirLock = i], seen[p]) /\ UNCHANGED posts
    <3>1. PICK t : t = [v EXCEPT !.theirLock = i]
      OBVIOUS
    <3>2. i \in 0..MaxLocks /\ i <= Len(outs[TheirChain(p)])
      BY <1>1, <1>2, <2>1, SideChains, ScanPicks
    <3>3. t \in SideRecord /\ t.myLock = v.myLock /\ t.theirLock = i
      BY <1>7, <3>1, <3>2 DEF SideRecord
    <3>4. Fits(p, t)
      BY <1>7, <1>8, <3>2, <3>3, NoneAssumption DEF Fits
    <3> QED BY <1>5, <1>6, <2>5, <3>1, <3>3, <3>4, WideLock
  <2> QED BY <2>2, <2>3, <2>4, <2>5
<1> QED BY <1>10, <1>11 DEF Side

(* A pass that knows the HTLC of its party, recorded, found or just made.  *)
LEMMA WideLocked ==
  ASSUME WideInv, NEW p \in Side, LockedPass(p) \/ Funded(p)
  PROVE  WideInv'
<1>1. TypeOK /\ ManyOuts /\ PartyOK(p) /\ MyChain(p) \in Chains
  BY SideChains DEF WideInv
<1>2. PICK n \in Nat : n = Len(outs[MyChain(p)]) /\ n <= MaxLocks /\ (HasLock(p) <=> n > 0)
  BY <1>1, OutsLength DEF HasLock
<1>3. ASSUME NEW s \in SideRecord, Fits(p, s), NEW i \in 1..MaxLocks, i <= n, NEW r,
             WithLock(p, Knowing(s, i), r), stale' = stale \ {p},
             UNCHANGED <<board, chains, faults, setting>>
      PROVE  WideInv'
  <2>1. PICK t : t = Knowing(s, i)
    OBVIOUS
  <2>2. t \in SideRecord /\ t.myLock = i /\ t.theirLock = s.theirLock
    <3>1. i \in 0..MaxLocks
      BY SwapAssumption
    <3> QED BY <2>1, <3>1 DEF Knowing, SideRecord
  <2>3. Fits(p, t)
    BY <1>2, <1>3, <2>2, NoneAssumption DEF Fits
  <2>4. HasLock(p)
    BY <1>2, <1>3, SwapAssumption
  <2> QED BY <1>3, <2>1, <2>2, <2>3, <2>4, WideWithLock
<1>4. CASE LockedPass(p)
  <2>1. PICK s, r : s = Adopted(p) /\ r = Read(p)
    OBVIOUS
  <2>2. PICK i : i = KnownLock(s, r)
    OBVIOUS
  <2>3. s \in SideRecord /\ Fits(p, s)
    BY <2>1, WideAdopted
  <2>4. i # 0 /\ WithLock(p, Knowing(s, i), r) /\ stale' = stale \ {p}
        /\ UNCHANGED <<board, chains, faults, setting>>
    BY <1>4, <2>1, <2>2 DEF LockedPass
  <2>5. r.mine = scan(MyChain(p))
    BY <2>1 DEF Read
  <2>6. i \in 0..MaxLocks /\ i <= n
    <3>1. pickExact(r.mine, FALSE) \in 0..MaxLocks /\ pickExact(r.mine, FALSE) <= n
      BY <1>1, <1>2, <2>5, ScanPicks
    <3>2. s.myLock \in 0..MaxLocks /\ s.myLock <= n
      BY <1>2, <2>3, NoneAssumption DEF Fits, SideRecord
    <3> QED BY <2>2, <3>1, <3>2 DEF KnownLock
  <2>7. i \in 1..MaxLocks
    BY <2>4, <2>6, SwapAssumption
  <2> QED BY <1>3, <2>3, <2>4, <2>6, <2>7
<1>5. CASE Funded(p)
  <2>1. side[p] \in SideRecord /\ Fits(p, side[p]) /\ HasLock(p)
    BY <1>1, <1>5, FitsSides DEF Funded, PartyOK, TypeOK
  <2>2. n \in 1..MaxLocks /\ n <= n
    BY <1>2, <2>1, SwapAssumption
  <2> QED BY <1>2, <1>3, <1>5, <2>1, <2>2 DEF Funded
<1> QED BY <1>4, <1>5

(* The outputs of one chain become others, no fewer.                       *)
LEMMA ChainGrows ==
  ASSUME TypeOK, ManyOuts, NEW c \in Chains, NEW f \in Seq(Output(c)),
         outs' = [outs EXCEPT ![c] = f], Len(outs[c]) <= Len(f), Len(f) <= MaxLocks,
         \A i \in DOMAIN f : f[i].mined => f[i].confs > 0 /\ f[i].spend # "none"
  PROVE  OutsGrow /\ outs'[c] = f
<1>1. outs' = [d \in Chains |-> outs'[d]] /\ outs'[c] = f
      /\ \A d \in Chains : d # c => outs'[d] = outs[d]
  BY DEF ManyOuts
<1>2. \A d \in Chains : Output(d)' = Output(d)
  BY DEF Output, Deepest
<1>3. ManyOuts'
  BY <1>1, <1>2 DEF ManyOuts
<1>4. ASSUME NEW d \in Chains PROVE OutputsOK(d)' /\ Len(outs[d]) <= Len(outs'[d])
  <2>1. CASE d = c
    <3>1. \A i \in DOMAIN f : f[i] \in Output(c)
      BY ElementOfSeq, LenProperties
    <3> QED BY <1>1, <1>2, <2>1, <3>1 DEF OutputsOK
  <2>2. CASE d # c
    <3>1. OutputsOK(d) /\ Len(outs[d]) \in Nat
      BY OutsLength DEF TypeOK, OutputsOK, Chains
    <3> QED BY <1>1, <1>2, <2>2, <3>1 DEF OutputsOK
  <2> QED BY <2>1, <2>2
<1> QED BY <1>1, <1>3, <1>4 DEF OutsGrow

(* Each output of one chain becomes another.                               *)
LEMMA MapGrows ==
  ASSUME TypeOK, ManyOuts, NEW c \in Chains, NEW f, f = [i \in DOMAIN outs[c] |-> f[i]],
         outs' = [outs EXCEPT ![c] = f],
         \A i \in DOMAIN outs[c] :
           f[i] \in Output(c) /\ (f[i].mined => f[i].confs > 0 /\ f[i].spend # "none")
  PROVE  OutsGrow
<1>1. /\ Len(outs[c]) \in Nat /\ Len(outs[c]) <= MaxLocks /\ DOMAIN outs[c] = 1..Len(outs[c])
  BY OutsLength
<1>2. f \in [1..Len(outs[c]) -> Output(c)]
  BY <1>1
<1>3. f \in Seq(Output(c))
  BY <1>1, <1>2
<1>4. Len(f) = Len(outs[c])
  BY <1>1, <1>2, <1>3, LenProperties
<1>5. Len(outs[c]) <= Len(f) /\ Len(f) <= MaxLocks
  BY <1>1, <1>4
<1>6. \A i \in DOMAIN f : f[i].mined => f[i].confs > 0 /\ f[i].spend # "none"
  BY <1>1, <1>2
<1> QED BY <1>3, <1>5, <1>6, ChainGrows

(* What is around a pass that posts nothing.                               *)
LEMMA AroundOuts ==
  ASSUME WideInv, NEW p \in Side, OutsGrow, UNCHANGED <<board, lead, setting, posts>>,
         stale' \subseteq Side, Fault \/ UNCHANGED faults
  PROVE  Around(p)
<1>1. /\ posts[p] \in [{"proof", "locked", "abort"} -> {"no", "pending", "posted"}]
      /\ posts' = [posts EXCEPT ![p] = posts[p]]
  BY NoPostShape DEF WideInv
<1>2. PICK w : w = posts[p]
  OBVIOUS
<1>3. /\ w \in [{"proof", "locked", "abort"} -> {"no", "pending", "posted"}]
      /\ posts' = [posts EXCEPT ![p] = w]
      /\ w["locked"] = "pending" => posts[p]["locked"] = "pending" \/ HasLock(p)
  BY <1>1, <1>2
<1> QED BY <1>3 DEF Around

(* fundHtlc makes an output, or one that was made stays.                   *)
LEMMA FundGrows ==
  ASSUME WideInv, NEW p \in Side, UNCHANGED setting
  PROVE  /\ outs' \in Fundings(MyChain(p)) => OutsGrow /\ HasLock(p)'
         /\ outs' = outs => OutsGrow
<1>1. TypeOK /\ ManyOuts /\ MyChain(p) \in Chains /\ setting.lag \in BOOLEAN
  BY SideChains, SwapAssumption DEF WideInv, TypeOK
<1>2. outs' = outs => OutsGrow
  BY <1>1, SameGrow
<1>3. PICK c \in Chains : c = MyChain(p) /\ c = MyChain(p)'
  BY <1>1 DEF MyChain
<1>4. CASE outs' = Funding(c) /\ Len(outs[c]) < MaxLocks
  <2>1. PICK o : o = [confs |-> 0, listed |-> ~setting.lag, spend |-> "none", mined |-> FALSE]
    OBVIOUS
  <2>2. o \in Output(c) /\ o.mined = FALSE
    <3>1. (~setting.lag) \in BOOLEAN /\ 0 \in 0..Deepest[c]
      BY DeepestOK
    <3> QED BY <2>1, <3>1 DEF Output
  <2>3. PICK f : f = Append(outs[c], o)
    OBVIOUS
  <2>4. /\ outs[c] \in Seq(Output(c)) /\ Len(outs[c]) \in Nat /\ MaxLocks \in Nat
        /\ DOMAIN outs[c] = 1..Len(outs[c]) /\ outs' = [outs EXCEPT ![c] = f]
    BY <1>1, <1>4, <2>1, <2>3, OutsLength, SwapAssumption DEF Funding
  <2>5. /\ f \in Seq(Output(c)) /\ Len(f) = Len(outs[c]) + 1
        /\ \A i \in 1..Len(f) : f[i] = IF i <= Len(outs[c]) THEN outs[c][i] ELSE o
    BY <2>2, <2>3, <2>4, AppendProperties
  <2>6. Len(outs[c]) <= Len(f) /\ Len(f) <= MaxLocks /\ Len(f) # 0
    BY <1>4, <2>4, <2>5
  <2>7. \A i \in DOMAIN f : f[i].mined => f[i].confs > 0 /\ f[i].spend # "none"
    <3>1. \A i \in DOMAIN outs[c] :
            outs[c][i].mined => outs[c][i].confs > 0 /\ outs[c][i].spend # "none"
      BY <1>1 DEF TypeOK, Chains
    <3>2. DOMAIN f = 1..Len(f)
      BY <2>5, LenProperties
    <3>3. ASSUME NEW i \in 1..Len(f), i <= Len(outs[c]) PROVE i \in DOMAIN outs[c]
      BY <2>4, <3>3
    <3> QED BY <2>2, <2>5, <3>1, <3>2, <3>3
  <2>8. OutsGrow /\ outs'[c] = f
    BY <1>1, <2>4, <2>5, <2>6, <2>7, ChainGrows
  <2>9. f # <<>>
    BY <2>6, EmptySeq
  <2> QED BY <1>3, <2>8, <2>9 DEF HasLock
<1>5. CASE outs' = outs /\ outs[c] # <<>>
  BY <1>2, <1>3, <1>5 DEF HasLock
<1>6. outs' \in Fundings(c) =>
        (outs' = Funding(c) /\ Len(outs[c]) < MaxLocks) \/ (outs' = outs /\ outs[c] # <<>>)
  BY DEF Fundings
<1> QED BY <1>2, <1>3, <1>4, <1>5, <1>6

(* A claim or a refund is taken in or not.                                 *)
LEMMA SpendGrows ==
  ASSUME WideInv, NEW c \in Chains, NEW i, NEW how \in {"claim", "refund"},
         outs' = Spending(c, i, how) \/ outs' = outs, UNCHANGED setting
  PROVE  OutsGrow
<1>1. TypeOK /\ ManyOuts
  BY DEF WideInv
<1>2. CASE outs' = outs
  BY <1>1, <1>2, SameGrow
<1>3. CASE outs[c][i].spend = "none" /\ outs' = [outs EXCEPT ![c][i].spend = how]
  <2>1. PICK f : f = [outs[c] EXCEPT ![i].spend = how]
    OBVIOUS
  <2>2. outs' = [outs EXCEPT ![c] = f] /\ f = [j \in DOMAIN outs[c] |-> f[j]]
    BY <1>1, <1>3, <2>1, OutsLength
  <2>3. ASSUME NEW j \in DOMAIN outs[c]
        PROVE  f[j] \in Output(c) /\ (f[j].mined => f[j].confs > 0 /\ f[j].spend # "none")
    <3>1. /\ outs[c][j] \in Output(c)
          /\ outs[c][j].mined => outs[c][j].confs > 0 /\ outs[c][j].spend # "none"
      BY <1>1 DEF TypeOK, Chains
    <3>2. CASE j = i
      <4>1. f[j] = [outs[c][j] EXCEPT !.spend = how]
        BY <2>1, <3>2
      <4> QED BY <1>3, <3>1, <3>2, <4>1 DEF Output
    <3>3. CASE j # i
      BY <2>1, <3>1, <3>3
    <3> QED BY <3>2, <3>3
  <2> QED BY <1>1, <2>2, <2>3, MapGrows
<1> QED BY <1>2, <1>3 DEF Spending

(* A pass from a call to the network on.                                   *)
LEMMA WideCalls ==
  ASSUME WideInv, NEW p \in Side, Fund(p) \/ Claim(p) \/ Refund(p)
  PROVE  WideInv'
<1>1. TypeOK /\ ManyOuts /\ PartyOK(p) /\ MyChain(p) \in Chains /\ TheirChain(p) \in Chains
  BY SideChains DEF WideInv
<1>2. side[p] \in SideRecord /\ Fits(p, side[p])
  BY <1>1, FitsSides DEF Fund, Claim, Refund, PartyOK, TypeOK
<1>3. /\ UNCHANGED <<board, lead, setting, posts>> /\ stale' \subseteq Side
      /\ Fault \/ UNCHANGED faults
  BY <1>1 DEF Fund, Claim, Refund, TypeOK
<1>4. OutsGrow => Around(p)
  BY <1>3, AroundOuts
<1>5. CASE Fund(p)
  <2>1. \/ /\ outs' \in Fundings(MyChain(p)) /\ Await(p, "funded", seen[p])
           /\ UNCHANGED <<side, disk>>
        \/ /\ outs' \in {outs} \cup Fundings(MyChain(p)) /\ End(p, side[p], seen[p])
    BY <1>5 DEF Fund
  <2>2. OutsGrow
    BY <1>3, <2>1, FundGrows
  <2>3. CASE /\ outs' \in Fundings(MyChain(p)) /\ Await(p, "funded", seen[p])
             /\ UNCHANGED <<side, disk>>
    <3>1. HasLock(p)'
      BY <1>3, <2>3, FundGrows
    <3>2. Hold(p, side[p])
      BY <1>1, <2>3 DEF Hold, TypeOK
    <3> QED BY <1>2, <1>4, <2>2, <2>3, <3>1, <3>2, WideSend
  <2>4. CASE End(p, side[p], seen[p])
    BY <1>2, <1>4, <2>2, <2>4, WideEnd
  <2> QED BY <2>1, <2>3, <2>4
<1>6. CASE Claim(p)
  <2>1. outs' = Spending(TheirChain(p), side[p].theirLock, "claim") \/ outs' = outs
    BY <1>6 DEF Claim
  <2>2. OutsGrow
    BY <1>1, <1>3, <2>1, SpendGrows
  <2> QED BY <1>2, <1>4, <1>6, <2>2, WideRefundOrEnd DEF Claim
<1>7. CASE Refund(p)
  <2>1. outs' = Spending(MyChain(p), side[p].myLock, "refund") \/ outs' = outs
    BY <1>7 DEF Refund
  <2>2. OutsGrow
    BY <1>1, <1>3, <2>1, SpendGrows
  <2>3. PICK stage : stage = StageOf(p, side[p], seen[p].mine, seen[p].theirs)
    OBVIOUS
  <2>4. stage \in {"active"} \cup Terminal
    BY <2>3 DEF StageOf, Terminal
  <2>5. Finish(p, side[p], seen[p], stage)
    BY <1>7, <2>3 DEF Refund
  <2> QED BY <1>2, <1>4, <2>2, <2>4, <2>5, WideFinish
<1> QED BY <1>5, <1>6, <1>7

(* A pass that fails, a crash and the end of the grace time.               *)
LEMMA WideFaults ==
  ASSUME WideInv, NEW p \in Side, PassFails(p) \/ Crash(p) \/ GraceOver(p)
  PROVE  WideInv'
<1>1. TypeOK /\ ManyOuts /\ PartyOK(p) /\ Fits(p, side[p]) /\ Fits(p, disk[p])
  BY FitsSides DEF WideInv
<1>2. CASE PassFails(p)
  <2>1. Around(p)
    BY <1>2, WidePosts DEF PassFails
  <2>2. PICK s, r : End(p, s, r) /\ (s = Adopted(p) \/ s = side[p])
    BY <1>2 DEF PassFails
  <2>3. Fits(p, s)
    BY <1>1, <2>2, WideAdopted
  <2> QED BY <2>1, <2>2, <2>3, WideEnd
<1>3. OutsGrow
  BY <1>1, SameGrow DEF PassFails, Crash, GraceOver, chains
<1>4. CASE Crash(p)
  <2>1. PICK w : w = NoPosts
    OBVIOUS
  <2>2. /\ w \in [{"proof", "locked", "abort"} -> {"no", "pending", "posted"}]
        /\ posts' = [posts EXCEPT ![p] = w] /\ w["locked"] # "pending"
    BY <1>4, <2>1 DEF Crash, NoPosts
  <2>3. /\ UNCHANGED <<board, lead, setting>> /\ stale' \subseteq Side
        /\ Fault \/ UNCHANGED faults
    BY <1>1, <1>4 DEF Crash, chains, TypeOK
  <2>4. Around(p)
    BY <1>3, <2>2, <2>3 DEF Around
  <2>5. Leaves(p, disk[p], disk[p], "idle")
    BY <1>1, <1>4 DEF Crash, Leaves, TypeOK
  <2> QED BY <1>1, <2>4, <2>5, WideStep
<1>5. CASE GraceOver(p)
  <2>1. /\ UNCHANGED <<board, lead, setting, posts>> /\ UNCHANGED <<side, disk, at, outs, due>>
        /\ stale' \subseteq Side /\ (Fault \/ UNCHANGED faults)
    BY <1>1, <1>5 DEF GraceOver, chains, TypeOK
  <2>2. Around(p)
    BY <1>3, <2>1, AroundOuts
  <2>3. PICK a \in {"idle", "scanned", "funding", "funded", "claiming", "refunding"} : a = at[p]
    BY <1>1 DEF TypeOK
  <2>4. Leaves(p, side[p], disk[p], a)
    BY <1>1, <2>1, <2>3 DEF Leaves, PartyOK, HasLock, MyChain, TypeOK
  <2> QED BY <1>1, <2>2, <2>4, WideStep
<1> QED BY <1>2, <1>4, <1>5

(* A step of the chains.                                                   *)
LEMMA WideChain ==
  ASSUME WideInv, OutsGrow, UNCHANGED <<board, engine, setting>>,
         lead' \in -MaxDrift..MaxDrift, due' \subseteq setting.vigilant,
         Fault \/ UNCHANGED faults
  PROVE  WideInv'
<1>1. TypeOK /\ ManyOuts /\ ManyOuts' /\ HintsOK
  BY DEF WideInv, OutsGrow
<1>2. UNCHANGED <<view, height, flight, side, disk, posts, at, seen, stale, setting>>
  BY DEF board, engine
<1>3. TypeOK'
  <2>1. ASSUME NEW q \in Side, NEW t \in {side[q], disk[q]} \ {None}
        PROVE  t.myLock <= Len(outs'[MyChain(q)]) /\ t.theirLock <= Len(outs'[TheirChain(q)])
    <3>1. Fits(q, t)
      BY <1>1, FitsSides
    <3>2. Fits(q, t)'
      BY <1>1, <3>1, FitsGrow
    <3> QED BY <3>2 DEF Fits, MyChain, TheirChain
  <2>2. faults' \in 0..setting.faults
    BY <1>1, <1>2, FaultCounts
  <2>3. \A c \in Chains : OutputsOK(c)'
    BY DEF OutsGrow
  <2> QED BY <1>1, <1>2, <2>1, <2>2, <2>3
          DEF TypeOK, OutputsOK, Chains, Output, Deepest, SideRecord, MyChain, TheirChain
<1>4. taker \in Side /\ maker \in Side /\ \A q \in Side : HasLock(q) => HasLock(q)'
  BY <1>1, LocksGrow DEF Side
<1>5. HintsOK'
  BY <1>1, <1>2, <1>4 DEF HintsOK, Matched, MatchFields
<1>6. \A q \in Side : PartyOK(q)'
  BY <1>2, <1>4 DEF WideInv, PartyOK, Way
<1> QED BY <1>1, <1>3, <1>5, <1>6 DEF WideInv

LEMMA WideChains ==
  ASSUME WideInv, NEW c \in Chains, NEW i, Block(c) \/ Evict(c, i) \/ List(c, i)
  PROVE  WideInv'
<1>1. TypeOK /\ ManyOuts
  BY DEF WideInv
<1>2. /\ UNCHANGED <<board, engine, setting>> /\ lead' \in -MaxDrift..MaxDrift
      /\ due' \subseteq setting.vigilant /\ (Fault \/ UNCHANGED faults)
  BY <1>1 DEF Block, Evict, List, TypeOK
<1>3. \A j \in DOMAIN outs[c] :
        /\ outs[c][j] \in Output(c)
        /\ outs[c][j].mined => outs[c][j].confs > 0 /\ outs[c][j].spend # "none"
  BY <1>1 DEF TypeOK, Chains
<1>4. CASE Block(c)
  <2>1. PICK f : f = [j \in DOMAIN outs[c] |-> Mined(outs[c][j], c)]
    OBVIOUS
  <2>2. outs' = [outs EXCEPT ![c] = f]
    BY <1>4, <2>1 DEF Block
  <2>3. ASSUME NEW j \in DOMAIN outs[c]
        PROVE  f[j] \in Output(c) /\ (f[j].mined => f[j].confs > 0 /\ f[j].spend # "none")
    <3>1. PICK b \in Output(c) : b = outs[c][j]
      BY <1>3
    <3>2. PICK o : o = Mined(b, c) /\ f[j] = o
      BY <2>1, <3>1
    <3>3. /\ o.spend = b.spend /\ o.mined = (b.spend # "none") /\ o.listed = TRUE
          /\ o.confs = IF b.confs < Deepest[c] THEN b.confs + 1 ELSE b.confs
          /\ o = [confs |-> o.confs, listed |-> o.listed, spend |-> o.spend, mined |-> o.mined]
      BY <3>2, MinedShape
    <3>4. b.confs \in 0..Deepest[c] /\ Deepest[c] \in Nat /\ Deepest[c] > 0
      BY DeepestOK DEF Output
    <3>5. o.confs \in 0..Deepest[c] /\ o.confs > 0
      BY <3>3, <3>4
    <3>6. o.listed \in BOOLEAN /\ o.mined \in BOOLEAN /\ o.spend \in {"none", "claim", "refund"}
      BY <3>3 DEF Output
    <3>7. o \in Output(c)
      BY <3>3, <3>5, <3>6 DEF Output
    <3> QED BY <3>2, <3>3, <3>5, <3>7
  <2>4. f = [j \in DOMAIN outs[c] |-> f[j]]
    BY <2>1
  <2>5. OutsGrow
    BY <1>1, <2>2, <2>3, <2>4, MapGrows
  <2> QED BY <1>2, <2>5, WideChain
<1>5. CASE Evict(c, i) \/ List(c, i)
  <2>1. PICK o : /\ i \in DOMAIN outs[c] /\ o \in Output(c)
                 /\ outs' = [outs EXCEPT ![c][i] = o]
                 /\ o.mined => o.confs > 0 /\ o.spend # "none"
    <3>1. CASE Evict(c, i)
      <4>1. PICK o : o = [outs[c][i] EXCEPT !.spend = "none"]
        OBVIOUS
      <4>2. o \in Output(c) /\ o.mined = FALSE
        BY <1>3, <3>1, <4>1 DEF Evict, Output
      <4> QED BY <3>1, <4>1, <4>2 DEF Evict
    <3>2. CASE List(c, i)
      <4>1. PICK o : o = [outs[c][i] EXCEPT !.listed = TRUE]
        OBVIOUS
      <4>2. /\ o \in Output(c) /\ o.mined = outs[c][i].mined
            /\ o.confs = outs[c][i].confs /\ o.spend = outs[c][i].spend
        BY <1>3, <3>2, <4>1 DEF List, Output
      <4> QED BY <1>3, <3>2, <4>1, <4>2 DEF List
    <3> QED BY <1>5, <3>1, <3>2
  <2>2. PICK f : f = [outs[c] EXCEPT ![i] = o]
    OBVIOUS
  <2>3. outs' = [outs EXCEPT ![c] = f] /\ f = [j \in DOMAIN outs[c] |-> f[j]]
    BY <1>1, <2>1, <2>2, OutsLength
  <2>4. \A j \in DOMAIN outs[c] :
          f[j] \in Output(c) /\ (f[j].mined => f[j].confs > 0 /\ f[j].spend # "none")
    BY <1>3, <2>1, <2>2
  <2>5. OutsGrow
    BY <1>1, <2>3, <2>4, MapGrows
  <2> QED BY <1>2, <2>5, WideChain
<1> QED BY <1>4, <1>5

(* A step of the board, or of what is on its way there.                    *)
LEMMA WideBoard ==
  ASSUME WideInv, UNCHANGED <<side, disk, at, seen, stale, outs, lead, due, setting>>,
         height' \in 0..setting.height, Fault \/ UNCHANGED faults,
         flight' \subseteq [by : Side, kind : {"proof", "locked", "abort"}],
         posts' \in [Side -> [{"proof", "locked", "abort"} -> {"no", "pending", "posted"}]],
         \A q \in Side : Way(q, "locked")' => Way(q, "locked"), HintsOK'
  PROVE  WideInv'
<1>1. TypeOK /\ ManyOuts
  BY DEF WideInv
<1>2. faults' \in 0..setting.faults
  BY <1>1, FaultCounts
<1>3. TypeOK'
  BY <1>1, <1>2 DEF TypeOK, SideRecord, Output, Deepest
<1>4. ManyOuts'
  BY <1>1 DEF ManyOuts, Output, Deepest
<1>5. \A q \in Side : PartyOK(q)'
  BY DEF WideInv, PartyOK, HasLock
<1> QED BY <1>3, <1>4, <1>5 DEF WideInv

LEMMA WideSubmit ==
  ASSUME WideInv, NEW p \in Side, NEW kind \in {"proof", "locked", "abort"}, Submit(p, kind)
  PROVE  WideInv'
<1>1. TypeOK /\ HintsOK
  BY DEF WideInv
<1>2. PICK op : op = [by |-> p, kind |-> kind]
  OBVIOUS
<1>3. /\ posts[p][kind] = "pending" /\ flight' \in {flight, flight \cup {op}}
      /\ \E to \in {"posted", "no"} : posts' = [posts EXCEPT ![p][kind] = to]
      /\ UNCHANGED <<side, disk, at, seen, stale, outs, lead, due, setting>>
      /\ UNCHANGED <<view, height>> /\ (Fault \/ UNCHANGED faults)
  BY <1>2 DEF Submit, chains
<1>4. /\ flight' \subseteq [by : Side, kind : {"proof", "locked", "abort"}]
      /\ posts' \in [Side -> [{"proof", "locked", "abort"} -> {"no", "pending", "posted"}]]
      /\ height' \in 0..setting.height
  BY <1>1, <1>2, <1>3 DEF TypeOK
<1>5. ASSUME NEW q \in Side, Way(q, "locked")' PROVE Way(q, "locked")
  <2>1. posts'[q]["locked"] = "pending" => posts[q]["locked"] = "pending"
    BY <1>1, <1>3 DEF TypeOK
  <2>2. [by |-> q, kind |-> "locked"] \in flight' =>
          [by |-> q, kind |-> "locked"] \in flight \/ (q = p /\ "locked" = kind)
    BY <1>2, <1>3
  <2> QED BY <1>3, <1>5, <2>1, <2>2 DEF Way
<1>6. HintsOK'
  BY <1>1, <1>3 DEF HintsOK, Matched, MatchFields, HasLock
<1> QED BY <1>3, <1>4, <1>5, <1>6, WideBoard

(* The match after a step of the board.                                    *)
LEMMA HintsChanged ==
  ASSUME TypeOK, HintsOK, UNCHANGED outs,
         \A n \in Matched' :
           /\ MatchFields \subseteq DOMAIN n
           /\ n.makerLock => HasLock(maker) \/ \E m \in Matched : m.makerLock
           /\ n.takerLock => HasLock(taker) \/ \E m \in Matched : m.takerLock
  PROVE  HintsOK'
<1>1. /\ HasLock(maker)' <=> HasLock(maker)
      /\ HasLock(taker)' <=> HasLock(taker)
  BY DEF HasLock, MyChain
<1>2. ASSUME NEW n \in Matched'
      PROVE  /\ MatchFields \subseteq DOMAIN n
             /\ n.makerLock => HasLock(maker)
             /\ n.takerLock => HasLock(taker)
  BY <1>1 DEF HintsOK
<1> QED BY <1>1, <1>2 DEF HintsOK, MatchFields

LEMMA WideAnchor ==
  ASSUME WideInv, Anchor
  PROVE  WideInv'
<1>1. TypeOK /\ HintsOK
  BY DEF WideInv
<1>2. /\ view' = advance(view, height + 1) /\ UNCHANGED <<flight, posts>>
      /\ UNCHANGED <<side, disk, at, seen, stale, outs, lead, due, setting>>
      /\ UNCHANGED faults /\ height' \in 0..setting.height
  BY <1>1, SettingTypes DEF Anchor, engine, chains
<1>3. ASSUME NEW n \in Matched'
      PROVE  \E m \in Matched :
               /\ MatchFields \subseteq DOMAIN n
               /\ n.makerLock = m.makerLock /\ n.takerLock = m.takerLock
  <2>1. theMatch \in DOMAIN advance(view, height + 1).matches
        /\ n = advance(view, height + 1).matches[theMatch]
    BY <1>2 DEF Matched
  <2>2. PICK m : m = view.matches[theMatch]
    OBVIOUS
  <2>3. /\ theMatch \in DOMAIN view.matches
        /\ n = m \/ n = CancelUnproven(m)
    BY <2>1, <2>2, AdvanceMatch
  <2>4. m \in Matched /\ MatchFields \subseteq DOMAIN m
    BY <1>1, <2>2, <2>3 DEF Matched, HintsOK
  <2>5. CASE n = CancelUnproven(m)
    <3>1. DOMAIN n = DOMAIN m
      BY <2>5 DEF CancelUnproven
    <3>2. n.makerLock = m.makerLock /\ n.takerLock = m.takerLock
      BY <2>4, <2>5 DEF CancelUnproven, MatchFields
    <3> QED BY <2>4, <3>1, <3>2
  <2> QED BY <2>3, <2>4, <2>5
<1>4. HintsOK'
  BY <1>1, <1>2, <1>3, HintsChanged
<1>5. \A q \in Side : Way(q, "locked")' => Way(q, "locked")
  BY <1>2 DEF Way
<1>6. /\ flight' \subseteq [by : Side, kind : {"proof", "locked", "abort"}]
      /\ posts' \in [Side -> [{"proof", "locked", "abort"} -> {"no", "pending", "posted"}]]
  BY <1>1, <1>2 DEF TypeOK
<1> QED BY <1>2, <1>4, <1>5, <1>6, WideBoard

(* An op that is accepted sets no hint but that of a party with an HTLC.   *)
LEMMA WideCertify ==
  ASSUME WideInv, NEW op \in flight, Certify(op)
  PROVE  WideInv'
<1>1. TypeOK /\ HintsOK
  BY DEF WideInv
<1>2. /\ flight' \subseteq flight /\ UNCHANGED <<height, posts, faults>>
      /\ UNCHANGED <<side, disk, at, seen, stale, outs, lead, due, setting>>
  BY DEF Certify, engine, chains
<1>3. op = [by |-> op.by, kind |-> op.kind] /\ op.by \in Side
      /\ op.kind \in {"proof", "locked", "abort"}
  BY <1>1 DEF TypeOK
<1>4. ASSUME NEW n \in Matched'
      PROVE  /\ MatchFields \subseteq DOMAIN n
             /\ n.makerLock => HasLock(maker) \/ \E m \in Matched : m.makerLock
             /\ n.takerLock => HasLock(taker) \/ \E m \in Matched : m.takerLock
  <2>1. theMatch \in DOMAIN view'.matches /\ n = view'.matches[theMatch]
    BY DEF Matched
  <2>2. CASE view' = view
    BY <1>1, <2>1, <2>2 DEF Matched, HintsOK
  <2>3. CASE Accepted(view, op, height) /\ view' = After(view, op, height)
    <3>1. PICK m : m = view.matches[theMatch]
      OBVIOUS
    <3>2. taker # maker
      BY SwapAssumption
    <3>3. theMatch \in DOMAIN view.matches => m \in Matched /\ MatchFields \subseteq DOMAIN m
      BY <1>1, <3>1 DEF Matched, HintsOK
    <3>4. CASE op.kind = "proof" /\ op.by = maker
      <4>1. theMatch \in DOMAIN view.matches
        BY <2>3, <3>2, <3>4 DEF Accepted, MakerProofAccepted, AwaitsProof
      <4>2. n = IntoEscrow([m EXCEPT !.makerProof = TRUE, !.makerKey = makerKey])
        BY <2>1, <2>3, <3>1, <3>2, <3>4, <4>1 DEF After, MakerProven, WithMatch
      <4>3. /\ DOMAIN n = DOMAIN m
            /\ n.makerLock = m.makerLock /\ n.takerLock = m.takerLock
        BY <3>3, <4>1, <4>2 DEF IntoEscrow, MatchFields
      <4> QED BY <3>3, <4>1, <4>3
    <3>5. CASE op.kind = "proof" /\ op.by = taker
      <4>1. theMatch \in DOMAIN view.matches
        BY <2>3, <3>2, <3>5 DEF Accepted, TakerProofAccepted, AwaitsProof
      <4>2. n = IntoEscrow([m EXCEPT !.takerProof = TRUE])
        BY <2>1, <2>3, <3>1, <3>2, <3>5, <4>1 DEF After, TakerProven, WithMatch
      <4>3. /\ DOMAIN n = DOMAIN m
            /\ n.makerLock = m.makerLock /\ n.takerLock = m.takerLock
        BY <3>3, <4>1, <4>2 DEF IntoEscrow, MatchFields
      <4> QED BY <3>3, <4>1, <4>3
    <3>6. CASE op.kind = "locked"
      <4>1. Way(op.by, "locked") /\ HasLock(op.by)
        BY <1>3, <3>6 DEF Way, WideInv, PartyOK
      <4>2. theMatch \in DOMAIN view.matches
        BY <1>3, <2>3, <3>2, <3>6
           DEF Accepted, Side, MakerLockAccepted, TakerLockAccepted, InEscrow
      <4>3. \/ op.by = maker /\ n = [m EXCEPT !.makerLock = TRUE]
            \/ op.by = taker /\ n = [m EXCEPT !.takerLock = TRUE]
        BY <1>3, <2>1, <2>3, <3>1, <3>2, <3>6, <4>2
           DEF After, Side, MakerLocked, TakerLocked, WithMatch
      <4>4. /\ DOMAIN n = DOMAIN m
            /\ n.makerLock => m.makerLock \/ HasLock(maker)
            /\ n.takerLock => m.takerLock \/ HasLock(taker)
        BY <3>3, <4>1, <4>2, <4>3 DEF MatchFields
      <4> QED BY <3>3, <4>2, <4>4
    <3>7. CASE op.kind = "abort"
      <4>1. theMatch \in DOMAIN view.matches
        BY <2>3, <3>7 DEF Accepted, AbortAccepted
      <4>2. n = [m EXCEPT !.status = "cancelled",
                          !.cancelled = [at |-> height, reason |-> "abort"]]
        BY <2>1, <2>3, <3>1, <3>7, <4>1 DEF After, Aborted
      <4>3. /\ DOMAIN n = DOMAIN m
            /\ n.makerLock = m.makerLock /\ n.takerLock = m.takerLock
        BY <3>3, <4>1, <4>2 DEF MatchFields
      <4> QED BY <3>3, <4>1, <4>3
    <3> QED BY <1>3, <3>4, <3>5, <3>6, <3>7 DEF Side
  <2> QED BY <2>2, <2>3 DEF Certify
<1>5. HintsOK'
  BY <1>1, <1>2, <1>4, HintsChanged
<1>6. \A q \in Side : Way(q, "locked")' => Way(q, "locked")
  BY <1>2 DEF Way
<1>7. /\ flight' \subseteq [by : Side, kind : {"proof", "locked", "abort"}]
      /\ posts' \in [Side -> [{"proof", "locked", "abort"} -> {"no", "pending", "posted"}]]
      /\ height' \in 0..setting.height
  BY <1>1, <1>2 DEF TypeOK
<1> QED BY <1>2, <1>5, <1>6, <1>7, WideBoard

LEMMA WideInit ==
  ASSUME Init
  PROVE  WideInv
<1>1. /\ TypeOK /\ BoardOK /\ outs = [c \in Chains |-> <<>>]
      /\ \A p \in Side : at[p] = "idle" /\ ~Way(p, "locked")
  BY SwapInit
<1>2. ManyOuts
  <2>1. \A c \in Chains : outs[c] = <<>> /\ <<>> \in Seq(Output(c)) /\ Len(outs[c]) = 0
    BY <1>1, EmptySeq
  <2> QED BY <1>1, <2>1, SwapAssumption DEF ManyOuts
<1>3. HintsOK
  BY <1>1 DEF BoardOK, SaysOK, MatchOK, HintsOK
<1> QED BY <1>1, <1>2, <1>3 DEF WideInv, PartyOK

LEMMA WideNext ==
  ASSUME WideInv, [Next]_vars
  PROVE  WideInv'
<1>1. CASE Anchor
  BY <1>1, WideAnchor
<1>2. ASSUME NEW op \in flight, Certify(op) PROVE WideInv'
  BY <1>2, WideCertify
<1>3. ASSUME NEW c \in {TakerChain, MakerChain},
             Block(c) \/ \E i \in 1..MaxLocks : Evict(c, i) \/ List(c, i)
      PROVE  WideInv'
  BY <1>3, WideChains DEF Chains
<1>4. ASSUME NEW p \in Side,
             \/ Pass(p) \/ PassFails(p) \/ GraceOver(p) \/ Crash(p)
             \/ \E kind \in {"proof", "locked", "abort"} : Submit(p, kind)
      PROVE  WideInv'
  <2>1. CASE Pass(p)
    BY <2>1, WideQuiet, WideDecide, WideLocked, WideCalls DEF Pass
  <2>2. CASE PassFails(p) \/ GraceOver(p) \/ Crash(p)
    BY <2>2, WideFaults
  <2>3. CASE \E kind \in {"proof", "locked", "abort"} : Submit(p, kind)
    BY <2>3, WideSubmit
  <2> QED BY <1>4, <2>1, <2>2, <2>3
<1>5. CASE UNCHANGED vars
  <2>1. UNCHANGED <<board, engine, setting, chains, lead, due, faults>>
    BY <1>5 DEF vars, chains
  <2>2. TypeOK /\ ManyOuts /\ UNCHANGED outs
    BY <2>1 DEF WideInv, chains
  <2>3. OutsGrow
    BY <2>2, SameGrow
  <2>4. lead' \in -MaxDrift..MaxDrift /\ due' \subseteq setting.vigilant
    BY <2>1, <2>2 DEF TypeOK
  <2> QED BY <2>1, <2>3, <2>4, WideChain
<1> QED BY <1>1, <1>2, <1>3, <1>4, <1>5 DEF Next

(* The invariant of every setting: however many HTLCs a chain has, a pass  *)
(* that awaits a call has a record, and an outpoint recorded or a hint on  *)
(* its way to the board is of an HTLC that is there (engine.ts).           *)
THEOREM SwapWide == Spec => []WideInv
BY WideInit, WideNext, PTL DEF Spec

(* The state of the swap is well formed whatever the explorers list, and   *)
(* the outpoints kept in memory and on disk exist (engine.ts, SwapSide).   *)
THEOREM SwapTypes == Spec => []TypeOK
<1>1. WideInv => TypeOK
  BY DEF WideInv
<1> QED BY <1>1, SwapWide, PTL

(* The lock hints on the board are true, and a match the maker aborted is  *)
(* one it never funds (swap.locked, swap.abort, stepMaker).                *)
THEOREM BoardTrue == Spec => []BoardMatchesChain
<1>1. WideInv /\ (Timely => SwapInv) => BoardMatchesChain
  <2> SUFFICES ASSUME WideInv, Timely => SwapInv, boardMatch # None PROVE BoardMatchesChain
    BY DEF BoardMatchesChain
  <2>1. boardMatch \in Matched
    BY DEF boardMatch, Matched
  <2>2. /\ boardMatch.makerLock => HasLock(maker)
        /\ boardMatch.takerLock => HasLock(taker)
    BY <2>1 DEF WideInv, HintsOK
  <2>3. boardMatch.status = "cancelled" /\ ~setting.lag => ~HasLock(maker)
    BY OnBoard DEF SaysOK, Timely
  <2>4. MyChain(maker) = MakerChain /\ MyChain(taker) = TakerChain
    BY SwapAssumption DEF MyChain
  <2> QED BY <2>2, <2>3, <2>4 DEF BoardMatchesChain, HasLock
<1> QED BY <1>1, SwapWide, SwapSafe, PTL

=============================================================================
