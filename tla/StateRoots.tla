----------------------------- MODULE StateRoots -----------------------------
(***************************************************************************)
(* What the anchors say of the writes.  An anchor certifies, per writer,   *)
(* how far its writes go (heads), carries only what changed (headsDelta)   *)
(* and commits to all of it (stateRoot) and to the board its predecessor   *)
(* certifies (appRoot).  Nodes rebuild heads from deltas, fold boards from *)
(* the writes they hold, keep checkpoints and prune behind them, and join  *)
(* from the checkpoint of another node (src/consensus/anchor.ts, order.ts, *)
(* the heads in chain.ts, and the checkpoints of src/daemon.ts).           *)
(*                                                                         *)
(* An anchor is the sequence of the links from block 0, the empty          *)
(* sequence, to itself, a link being what its producer put into it.  Roots *)
(* are injective: a root is the very thing it commits to.  Writers do not  *)
(* fork, so a write is its writer and its number, and heads are a number   *)
(* per writer, 0 for none.  A board is the order in which writes have been *)
(* folded and the height it has come to; OrderBoard says what the fold     *)
(* makes of it.                                                            *)
(*                                                                         *)
(* Every anchor weighs the same and its proofs are valid.  A branch beside *)
(* the one a node follows stays one anchor long (SideBranch), so that no   *)
(* lock stands in the way of the heavier; AnchorChain has the longer ones. *)
(* How writes travel, and what a crash leaves of them, is in WriteSync.    *)
(*                                                                         *)
(* A definition X_Fault is X with a fault that X could have had; no        *)
(* specification uses it.                                                  *)
(***************************************************************************)
EXTENDS Integers, Sequences, FiniteSets, FiniteSetsExt

CONSTANTS
  Node,          \* the nodes, each of them a producer
  rank,          \* the order of the ids of two anchors of one height
  Writer,
  home,          \* per writer the node it posts at
  None,          \* no anchor, no snapshot
  finalityDepth, settleDepth,
  Settings,      \* how the nodes may be configured
  MaxRestarts    \* bounds the restarts

(* margin is how many anchors are kept below a checkpoint, every the       *)
(* cadence of checkpoints; joins says whether nodes start again and take   *)
(* over checkpoints, farming which of them produce, heartbeat whether they *)
(* do so now and then when there is nothing to bury.  Heights and writes   *)
(* are bounded by maxHeight and maxSigned.                                 *)
Setting ==
  [margin : Nat, every : Nat \ {0}, joins : BOOLEAN, farming : SUBSET Node,
   heartbeat : BOOLEAN, maxHeight : Nat, maxSigned : Nat]

ASSUME StateRootsAssumption ==
  /\ IsFiniteSet(Node) /\ IsFiniteSet(Writer)
  /\ rank \in [Node -> Nat] /\ \A n, m \in Node : rank[n] = rank[m] => n = m
  /\ home \in [Writer -> Node]
  /\ {finalityDepth, settleDepth} \subseteq Nat \ {0}
  /\ Settings \subseteq Setting
  /\ MaxRestarts \in Nat

(* A board, a link and an anchor.                                          *)
Heads == [Writer -> Nat]
Board == [height : Nat, folded : Seq([height : Nat, writes : SUBSET (Writer \X Nat)])]
Link ==
  [by : Node, headsDelta : UNION {[W -> Nat] : W \in SUBSET Writer}, stateRoot : Heads,
   appRoot : Board]
Anchor == Seq(Link)
Snapshot == [anchor : Anchor, heads : Heads, state : Board]

ASSUME NoneAssumption == None \notin Anchor \cup Snapshot

VARIABLES
  node,      \* per node what it holds
  draft,     \* per node the anchor its producer works on, or None
  signed,    \* per writer how many writes it has signed
  restarts,  \* restarts so far
  setting    \* how the nodes are configured

vars == <<node, draft, signed, restarts, setting>>

-----------------------------------------------------------------------------
(* Anchors and heads.                                                      *)

height(a) == Len(a)
upTo(a, h) == SubSeq(a, 1, h)
prev(a) == upTo(a, height(a) - 1)
top(a) == a[height(a)]
IsBelow(a, b) == height(a) <= height(b) /\ upTo(b, height(a)) = a

NoHeads == [w \in Writer |-> 0]

(* What stateRoot commits to.                                              *)
headsOf(a) == IF a = <<>> THEN NoHeads ELSE top(a).stateRoot

(* The writers whose head has changed.                                     *)
diffHeads(heads, next) ==
  [w \in {w \in Writer : next[w] # 0 /\ next[w] # heads[w]} |-> next[w]]

applyHeadsDelta(heads, delta) ==
  [w \in Writer |-> IF w \in DOMAIN delta THEN delta[w] ELSE heads[w]]

heavier(a, b) ==
  \/ height(a) > height(b)
  \/ a # b /\ height(a) = height(b) /\ rank[top(a).by] < rank[top(b).by]

-----------------------------------------------------------------------------
(* What a node holds: anchors, its tip, the floor it has pruned to and the *)
(* heads there; of each writer's writes those after seed, up to have; its  *)
(* last checkpoint, the one it has on disk, and one it waits to verify.    *)

AtGenesis ==
  [anchors |-> {<<>>}, tip |-> <<>>, floor |-> None, floorHeads |-> NoHeads,
   have |-> NoHeads, seed |-> NoHeads, snap |-> None, disk |-> None, pending |-> None]

(* The heights that a walk back from a passes.                             *)
Walk(c, a) == {h \in 0..height(a) : \A i \in h..height(a) : upTo(a, i) \in c.anchors}
chainTo(c, a) == {upTo(a, h) : h \in Walk(c, a)}

(* Heads built from deltas, from the lowest anchor the node holds on.      *)
accumulate(c, a) ==
  LET low == Min(Walk(c, a))
      start == IF upTo(a, low) = c.floor THEN c.floorHeads ELSE NoHeads
      first == IF upTo(a, low) = c.floor THEN low + 1 ELSE Max({low, 1})
      of(w) == {h \in first..height(a) : w \in DOMAIN a[h].headsDelta}
  IN  [w \in Writer |-> IF of(w) = {} THEN start[w] ELSE a[Max(of(w))].headsDelta[w]]

headsAt(c, a) ==
  CASE a \notin c.anchors -> NoHeads
    [] a \in c.anchors /\ a = c.tip -> headsOf(a)
    [] a \in c.anchors /\ a # c.tip /\ a = c.floor -> c.floorHeads
    [] OTHER -> accumulate(c, a)

(* Fault: it is enough to have something of every writer.                  *)
haveAllWrites_Fault(c, heads) == \A w \in Writer : heads[w] # 0 => c.have[w] # 0

(* Is every write up to heads applied here, or pruned right at its head?   *)
haveAllWrites(c, heads) ==
  \A w \in Writer : heads[w] # 0 => c.seed[w] <= heads[w] /\ heads[w] <= c.have[w]

-----------------------------------------------------------------------------
(* Boards.                                                                 *)

emptyView == [height |-> 0, folded |-> <<>>]
base(c) == IF c.snap = None THEN emptyView ELSE c.snap.state

(* Fault: a write counts from the last anchor that names its writer.       *)
epochOf_Fault(c, a, x) ==
  LET named == {h \in Walk(c, a) \ {0} : x[1] \in DOMAIN a[h].headsDelta}
  IN  IF named = {} THEN height(a) + 1 ELSE Max(named)

(* The height of the first anchor held on the way to a that certifies the  *)
(* write x, above them all if none does.                                   *)
epochOf(c, a, x) ==
  LET certifying == {h \in Walk(c, a) \ {0} :
                       x[1] \in DOMAIN a[h].headsDelta /\ x[2] <= a[h].headsDelta[x[1]]}
  IN  IF certifying = {} THEN height(a) + 1 ELSE Min(certifying)

(* Numbers in order: the i-th has i - 1 of them below it.                  *)
sorted(S) ==
  [i \in 1..Cardinality(S) |-> CHOOSE e \in S : Cardinality({f \in S : f < e}) = i - 1]

(* The writes that have an epoch, those of each in one group, in order.    *)
computeView(view, epoch, now) ==
  LET epochs == sorted({epoch[x] : x \in DOMAIN epoch})
      group(e) == [height |-> Min({e, now}), writes |-> {x \in DOMAIN epoch : epoch[x] = e}]
  IN  [height |-> Max({view.height, now}),
       folded |-> view.folded \o [i \in DOMAIN epochs |-> group(epochs[i])]]

allWrites(c) == UNION {{<<w, s>> : s \in (c.seed[w] + 1)..c.have[w]} : w \in Writer}

(* The board that a certifies, as this node folds it.                      *)
viewAt(c, a) ==
  LET heads == headsAt(c, a)
      included == {x \in allWrites(c) : x[2] <= heads[x[1]]}
  IN  computeView(base(c), [x \in included |-> epochOf(c, a, x)], height(a))

(* A root that cannot be judged for want of writes is let through.         *)
checkAppRoot_Fault(c, a) == top(a).appRoot = viewAt(c, prev(a))
checkAppRoot(c, a) ==
  haveAllWrites(c, headsAt(c, prev(a))) => top(a).appRoot = viewAt(c, prev(a))

-----------------------------------------------------------------------------
(* Adding anchors.                                                         *)

verifyAnchor(c, a) ==
  /\ applyHeadsDelta(headsAt(c, prev(a)), top(a).headsDelta) = top(a).stateRoot
  /\ checkAppRoot(c, a)

add(c, a) ==
  IF a \in c.anchors \/ a = <<>> \/ prev(a) \notin c.anchors \/ ~verifyAnchor(c, a)
    THEN c
    ELSE [c EXCEPT !.anchors = @ \cup {a}, !.tip = IF heavier(a, @) THEN a ELSE @]

(* The anchors on the way to a, from height low on, are added in order.    *)
addChain(c, a, low) ==
  LET added[h \in 0..height(a)] ==
        IF h = 0 \/ h < low THEN c ELSE add(added[h - 1], upTo(a, h))
  IN  added[height(a)]

(* The anchor k below the tip, or as far as there are anchors.             *)
finalized(c, k) == upTo(c.tip, Max({Min(Walk(c, c.tip)), height(c.tip) - k}))

(* A floor is settled.                                                     *)
settled(c) ==
  LET a == finalized(c, settleDepth)
  IN  IF c.floor # None /\ height(a) < height(c.floor) THEN c.floor ELSE a

(* Fault: it is enough that the tip has it.                                *)
headsCovered_Fault(c) == \A w \in Writer : c.have[w] <= headsAt(c, c.tip)[w]

(* Is all that the node has of the writers buried finalityDepth deep?      *)
headsCovered(c) ==
  \A w \in Writer : c.have[w] <= headsAt(c, finalized(c, finalityDepth))[w]

pruneBelow(seed, heads) == [w \in Writer |-> Max({seed[w], heads[w]})]

(* Fault: the heads at the floor are taken after its ancestors are gone.   *)
prune_Fault(c, h) ==
  LET lowest == IF c.floor = None THEN 0 ELSE height(c.floor)
      d == [c EXCEPT !.anchors = {a \in @ : height(a) >= h}]
  IN  IF h <= lowest \/ h \notin Walk(c, c.tip)
        THEN c
        ELSE [d EXCEPT !.floor = upTo(c.tip, h), !.floorHeads = headsAt(d, upTo(c.tip, h))]

(* All anchors below height h are dropped, and the heads at h kept.        *)
prune(c, h) ==
  LET lowest == IF c.floor = None THEN 0 ELSE height(c.floor)
      floor == upTo(c.tip, h)
  IN  IF h <= lowest \/ h \notin Walk(c, c.tip)
        THEN c
        ELSE [c EXCEPT !.anchors = {a \in @ : height(a) >= h},
                       !.floor = floor, !.floorHeads = headsAt(c, floor)]

(* The board of the last boundary that is settled becomes the base of all  *)
(* folds, and what is below it goes.                                       *)
maybeCheckpoint(c) ==
  LET fin == settled(c)
      target == (height(fin) \div setting.every) * setting.every
      last == IF c.snap = None THEN -1 ELSE height(c.snap.anchor)
      ckpt == upTo(fin, target)
      heads == headsAt(c, ckpt)
      snap == [anchor |-> ckpt, heads |-> heads, state |-> viewAt(c, ckpt)]
      reached == target > 0 /\ target > last /\ ckpt \in chainTo(c, fin)
  IN  IF ~reached \/ heads = NoHeads \/ ~haveAllWrites(c, heads)
        THEN c
        ELSE prune([c EXCEPT !.snap = snap, !.disk = snap, !.seed = pruneBelow(@, heads)],
                   target - setting.margin)

(* The anchor on this node's line that commits to the board of a.          *)
children(c, a) == {b \in chainTo(c, c.tip) : b # <<>> /\ prev(b) = a}

authentic(c, s) ==
  /\ s.heads = headsOf(s.anchor)
  /\ \E b \in children(c, s.anchor) : top(b).appRoot = s.state

(* What a writer's chain is when the checkpoint that covers it is seeded.  *)
seeded(own, heads) == [w \in Writer |-> IF heads[w] = 0 THEN own[w] ELSE heads[w]]

(* Fault: the writes are pruned and the chain does not move up.            *)
seedCheckpoint_Fault(c, heads) == [c EXCEPT !.seed = seeded(@, heads)]
seedCheckpoint(c, heads) == [c EXCEPT !.have = seeded(@, heads), !.seed = seeded(@, heads)]

(* A checkpoint is taken over once the child of its anchor vouches for it. *)
ingestSnapshot(c, s) ==
  IF s.anchor \in c.anchors /\ (children(c, s.anchor) # {} \/ s.heads # headsOf(s.anchor))
    THEN IF authentic(c, s)
           THEN [seedCheckpoint(c, s.heads) EXCEPT !.snap = s, !.pending = None]
           ELSE c
    ELSE [c EXCEPT !.pending = s]

tryPendingSnapshot(c) == IF c.pending = None THEN c ELSE ingestSnapshot(c, c.pending)

(* What follows a move of the tip.                                         *)
onTip(c, before) ==
  IF c.tip = before THEN c ELSE tryPendingSnapshot(maybeCheckpoint(c))

-----------------------------------------------------------------------------
(* Joining.                                                                *)

(* A fresh node takes the anchor of the checkpoint it has pulled for its   *)
(* root, with what the sender of the chain up to a holds below it.         *)
canAdopt(c, a, low) ==
  /\ c.pending # None
  /\ IsBelow(c.pending.anchor, a) /\ height(c.pending.anchor) >= low
  /\ c.pending.heads = headsOf(c.pending.anchor)

adopt(c, low) ==
  LET floor == c.pending.anchor
  IN  [c EXCEPT !.anchors = {upTo(floor, h) : h \in low..height(floor)},
                !.tip = floor, !.floor = floor, !.floorHeads = c.pending.heads]

(* What becomes of a node that hears of a chain from height low up to a.   *)
ingestAnchors(c, a, low) ==
  IF c.tip = None \/ (c.tip = <<>> /\ low > 1)
    THEN IF canAdopt(c, a, low) THEN onTip(addChain(adopt(c, low), a, low), None) ELSE c
    ELSE onTip(addChain(c, a, low), c.tip)

-----------------------------------------------------------------------------
Init ==
  /\ setting \in Settings
  /\ node = [n \in Node |-> AtGenesis]
  /\ draft = [n \in Node |-> None]
  /\ signed = NoHeads
  /\ restarts = 0

(* A writer posts at its home.  One that has lost writes of its own waits  *)
(* until it has them again; WriteSync has those that do not.               *)
Post(w) ==
  LET c == node[home[w]]
  IN  /\ MapThenSumSet(LAMBDA v : signed[v], Writer) < setting.maxSigned
      /\ c.have[w] = signed[w]
      /\ signed' = [signed EXCEPT ![w] = @ + 1]
      /\ node' = [node EXCEPT ![home[w]].have[w] = @ + 1]
      /\ UNCHANGED <<draft, restarts, setting>>

(* The next write of w reaches n from a node that still has it.            *)
Pull(n, w) ==
  LET next == node[n].have[w] + 1
  IN  /\ \E m \in Node : node[m].seed[w] < next /\ next <= node[m].have[w]
      /\ node' = [node EXCEPT ![n].have[w] = next]
      /\ UNCHANGED <<draft, signed, restarts, setting>>

(* The link that producer n adds to the tip of c: the heads it has now and *)
(* the board it folds now, whether or not it has all the writes.           *)
mineAnchor(n, c) ==
  [by |-> n, headsDelta |-> diffHeads(headsAt(c, c.tip), c.have),
   stateRoot |-> c.have, appRoot |-> viewAt(c, c.tip)]

(* The producer begins on its tip, to bury what it has, or for the sake of *)
(* the weight (runAdaptive).  It builds at most once on an anchor.         *)
Start(n) ==
  LET c == node[n]
  IN  /\ n \in setting.farming
      /\ draft[n] = None /\ c.tip # None /\ height(c.tip) < setting.maxHeight
      /\ setting.heartbeat \/ ~headsCovered(c)
      /\ \A m \in Node : \A b \in node[m].anchors :
           ~(b # <<>> /\ prev(b) = c.tip /\ top(b).by = n)
      /\ draft' = [draft EXCEPT ![n] = Append(c.tip, mineAnchor(n, c))]
      /\ UNCHANGED <<node, signed, restarts, setting>>

(* At most the last anchor of the shorter is off the line of the longer,   *)
(* of a and any tip, and no node has settled on another line.              *)
SideBranch(a) ==
  \A m \in Node :
    /\ node[m].tip # None =>
         LET shared == Max({Min({height(a), height(node[m].tip)}) - 1, 0})
         IN  upTo(a, shared) = upTo(node[m].tip, shared)
    /\ node[m].snap # None => IsBelow(node[m].snap.anchor, a)

(* Its anchor is done.                                                     *)
Mint(n) ==
  /\ draft[n] # None /\ SideBranch(draft[n])
  /\ node' = [node EXCEPT ![n] = onTip(add(@, draft[n]), @.tip)]
  /\ draft' = [draft EXCEPT ![n] = None]
  /\ UNCHANGED <<signed, restarts, setting>>

(* The prover finds no proof this round.  That is as if it had not begun,  *)
(* unless its draft has been outrun.                                       *)
NoProof(n) ==
  /\ draft[n] # None /\ height(draft[n]) <= height(node[n].tip)
  /\ draft' = [draft EXCEPT ![n] = None]
  /\ UNCHANGED <<node, signed, restarts, setting>>

(* The tips that m has or had, of interest to n, and what n makes of the   *)
(* chain of m up to a.                                                     *)
hearable(n, m) ==
  IF node[m].tip = None THEN {}
    ELSE {a \in chainTo(node[m], node[m].tip) \ node[n].anchors :
            node[n].tip # None => height(a) >= height(node[n].tip)}
hearing(n, m, a) == ingestAnchors(node[n], a, Min(Walk(node[m], node[m].tip)))

(* n hears of the chain of m, as it is or as it was when its tip was lower.*)
Hear(n, m) ==
  /\ \E a \in hearable(n, m) : node' = [node EXCEPT ![n] = hearing(n, m, a)]
  /\ UNCHANGED <<draft, signed, restarts, setting>>

(* A node without writes, or with block 0 at most, pulls the checkpoint of *)
(* another.                                                                *)
Fetch(n, m) ==
  /\ setting.joins
  /\ node[n].tip \in {None, <<>>} \/ node[n].have = NoHeads
  /\ node[m].snap # None
  /\ node' = [node EXCEPT ![n] = ingestSnapshot(@, node[m].snap)]
  /\ UNCHANGED <<draft, signed, restarts, setting>>

(* A node starts again from what it has on disk.  Anchors are not, and a   *)
(* checkpoint taken over from another node is not.                         *)
boot(c) ==
  LET heads == IF c.disk = None THEN NoHeads ELSE c.disk.heads
  IN  [AtGenesis EXCEPT !.anchors = {}, !.tip = None, !.snap = c.disk, !.disk = c.disk,
         !.seed = heads,
         !.have = [w \in Writer |-> IF c.seed[w] = heads[w] THEN c.have[w] ELSE heads[w]]]

Restart(n) ==
  /\ setting.joins /\ restarts < MaxRestarts
  /\ restarts' = restarts + 1
  /\ node' = [node EXCEPT ![n] = boot(@)]
  /\ draft' = [draft EXCEPT ![n] = None]
  /\ UNCHANGED <<signed, setting>>

(* Nobody was there to join: the node roots at block 0, and what it had on *)
(* disk of another chain goes.                                             *)
RootAtGenesis(n) ==
  LET c == node[n]
  IN  /\ c.tip = None
      /\ node' = [node EXCEPT ![n] =
           IF c.snap = None THEN [c EXCEPT !.anchors = {<<>>}, !.tip = <<>>]
                            ELSE [AtGenesis EXCEPT !.pending = c.pending]]
      /\ UNCHANGED <<draft, signed, restarts, setting>>

Next ==
  \/ \E w \in Writer : Post(w)
  \/ \E n \in Node :
       \/ \E w \in Writer : Pull(n, w)
       \/ Start(n) \/ Mint(n) \/ NoProof(n) \/ Restart(n) \/ RootAtGenesis(n)
       \/ \E m \in Node \ {n} : Fetch(n, m) \/ Hear(n, m)

Spec == Init /\ [][Next]_vars

(* Where producers rest, each that has something to bury goes on, and what *)
(* it and the writers send arrives: weak fairness, written out for Mint and *)
(* Hear with the states in which they change something.                    *)
Resting == ~setting.heartbeat
Mintable == Resting /\ \E n \in Node : draft[n] # None /\ SideBranch(draft[n])
Hearable ==
  Resting /\ \E n, m \in Node : \E a \in hearable(n, m) : hearing(n, m, a) # node[n]

FairSpec ==
  /\ Spec
  /\ WF_vars(Resting /\ \E n \in Node : Start(n))
  /\ WF_vars(Resting /\ \E n \in Node, w \in Writer : Pull(n, w))
  /\ []<>~Mintable \/ []<><<Resting /\ \E n \in Node : Mint(n)>>_vars
  /\ []<>~Hearable \/ []<><<Resting /\ \E n, m \in Node : Hear(n, m)>>_vars

-----------------------------------------------------------------------------
(* Types.                                                                  *)

IsLink(l) ==
  /\ l.by \in Node /\ l.stateRoot \in Heads
  /\ DOMAIN l.headsDelta \subseteq Writer
  /\ \A w \in DOMAIN l.headsDelta : l.headsDelta[w] = l.stateRoot[w] /\ l.stateRoot[w] > 0
IsAnchor(a) == \A i \in DOMAIN a : IsLink(a[i])

(* The state is well formed: no node has more of a writer than it signed,  *)
(* or less than it has pruned, and tip and floor are among its anchors.    *)
TypeOK ==
  /\ setting \in Settings /\ restarts \in 0..MaxRestarts
  /\ signed \in Heads
  /\ \A n \in Node :
       LET c == node[n]
       IN  /\ draft[n] = None \/ IsAnchor(draft[n])
           /\ \A a \in c.anchors : IsAnchor(a)
           /\ {c.tip, c.floor} \subseteq c.anchors \cup {None}
           /\ {c.have, c.seed, c.floorHeads} \subseteq Heads
           /\ \A w \in Writer : c.seed[w] <= c.have[w] /\ c.have[w] <= signed[w]

-----------------------------------------------------------------------------
(* Safety.                                                                 *)

(* Every anchor that stands on a node's floor: the node can rebuild the    *)
(* heads it certifies, whatever has been pruned below it and however the   *)
(* node has come to its floor.  So says the comment on adopt.              *)
HeadsRebuilt ==
  \A n \in Node : \A a \in node[n].anchors :
    LET c == node[n]
    IN  a # <<>> /\ (c.floor = None \/ IsBelow(c.floor, a)) => headsAt(c, a) = headsOf(a)

(* The board of a, folded by one who holds everything since block 0.       *)
Whole(a) ==
  [AtGenesis EXCEPT !.anchors = {upTo(a, h) : h \in 0..height(a)}, !.tip = a, !.have = headsOf(a)]
boardOf(a) == viewAt(Whole(a), a)

(* Heads never go back on the way to a.  The code does not see to that: a  *)
(* producer that lacks writes certifies less than the anchor it builds on. *)
Advances(a) ==
  \A i \in DOMAIN a : \A w \in Writer : headsOf(upTo(a, i - 1))[w] <= headsOf(upTo(a, i))[w]

(* The settled history of c is below a.                                    *)
Follows(c, a) == c.snap = None \/ IsBelow(c.snap.anchor, a)

(* Nodes that hold what an anchor certifies fold the same board for it:    *)
(* the one that has pruned its writes and anchors, the one that came by a  *)
(* checkpoint and the one that has everything (orderingFor, viewAtAnchor). *)
BoardsAgree ==
  \A n \in Node : \A a \in node[n].anchors :
    LET c == node[n]
    IN  Follows(c, a) /\ Advances(a) /\ haveAllWrites(c, headsOf(a))
          => viewAt(c, a) = boardOf(a)

(* A checkpoint that a node keeps, serves and folds from is what its       *)
(* anchor commits to, so that whoever pulls it can verify it               *)
(* (maybeCheckpoint, ingestSnapshot).                                      *)
Committed(s) ==
  s # None => /\ s.heads = headsOf(s.anchor)
              /\ Advances(s.anchor) => s.state = boardOf(s.anchor)
CheckpointsCommitted ==
  \A n \in Node : Committed(node[n].snap) /\ Committed(node[n].disk)

(* All roots on the way to a are those of one who holds everything.        *)
Right(a) ==
  Advances(a) /\ \A i \in DOMAIN a : a[i].appRoot = boardOf(upTo(a, i - 1))

(* No node is shut out: an anchor that is right is accepted by all that    *)
(* hold the one below it, unless it leaves what they have settled.         *)
RightIsAccepted ==
  \A n, m \in Node : \A a \in node[m].anchors :
    LET c == node[n]
    IN  /\ a # <<>> /\ prev(a) \in c.anchors
        /\ c.floor = None \/ IsBelow(c.floor, prev(a))
        /\ Follows(c, prev(a)) /\ Right(a)
        => a \in add(c, a).anchors

-----------------------------------------------------------------------------
(* Liveness.                                                               *)

(* Whatever is written is certified in the end, as deep as counts for      *)
(* final, at every node, although producers rest as soon as they find that *)
(* they have nothing left to bury (runAdaptive, headsCovered).             *)
Buried ==
  <>[](Resting =>
         \A n \in Node : headsOf(finalized(node[n], finalityDepth)) = signed)

=============================================================================
