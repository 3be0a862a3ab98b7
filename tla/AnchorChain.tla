----------------------------- MODULE AnchorChain ----------------------------
(***************************************************************************)
(* The anchor chains of the nodes of one network: what each of them holds, *)
(* which anchor is its tip, what it has locked and settled                 *)
(* (src/consensus/chain.ts), the anchors they produce and hear of.         *)
(*                                                                         *)
(* An anchor is the sequence of the links from block 0, the empty sequence,*)
(* to itself, a link being its producer, its difficulty and the weight up  *)
(* to it: its id commits to just that history, and a node builds at most   *)
(* once on an anchor.  Its height is its length and its predecessor is all *)
(* but its last element.                                                   *)
(*                                                                         *)
(* Proofs are valid, difficulties are checked (src/consensus/difficulty.ts)*)
(* and heads and roots are in StateRoots.  The check of an anchor awaits,  *)
(* but the choice of the tip reads everything afterwards and at once, so   *)
(* `add' is one step.                                                      *)
(*                                                                         *)
(* A definition X_Fault, or X_ and the kind of fault, is X with a fault    *)
(* that X could have had; no specification uses it.                        *)
(***************************************************************************)
EXTENDS Integers, Sequences, FiniteSets, FiniteSetsExt, Sums

CONSTANTS
  Node,            \* the nodes, each of them a producer
  None,            \* no anchor
  History,         \* the anchor that all nodes have followed
  effort,          \* per producer the iterations its anchors take per unit of difficulty
  schedule,        \* how the difficulty is set anew
  Ranks,           \* rankings of the producers that order the ids of a height
  lockDepth, settleDepth, FORK_WINDOW,
  KeepMargin,      \* anchors kept below the settled one when pruning
  CHECKPOINT_EVERY, AdoptQuorum,
  OlderToo,        \* may a node start from a checkpoint that is no longer the last?
  Limits           \* bounds on heights, on what each produces and on restarts,
                   \* of which one applies

Link == [by : Node, difficulty : Nat \ {0}, weight : Nat]
Anchor == Seq(Link)

ASSUME ChainAssumption ==
  /\ IsFiniteSet(Node) /\ None \notin Anchor
  /\ History \in Anchor
  /\ effort \in [Node -> Nat \ {0}]
  /\ schedule \in [base : Nat \ {0}, targetIters : Nat \ {0}, epoch : Nat \ {0},
                   window : Nat \ {0}, maxStep : Nat \ {0}]
  /\ Ranks \subseteq [Node -> Nat]
  /\ \A rank \in Ranks : \A p, q \in Node : p # q => rank[p] # rank[q]
  /\ {lockDepth, settleDepth, FORK_WINDOW, KeepMargin} \subseteq Nat
  /\ {CHECKPOINT_EVERY, AdoptQuorum} \subseteq Nat \ {0}
  /\ Limits \subseteq [height : Nat, restarts : Nat] /\ OlderToo \in BOOLEAN
  /\ \A l \in Limits : Len(History) <= l.height
  /\ lockDepth <= settleDepth

VARIABLES
  chain,     \* per node what it holds and has chosen
  draft,     \* per node the anchor its producer is working on, or None
  luck,      \* per height the ranking of producers that orders the ids
  restarts,  \* restarts so far
  limit      \* the bounds that apply

vars == <<chain, draft, luck, restarts, limit>>

-----------------------------------------------------------------------------
(* Anchors.                                                                *)

height(a) == Len(a)
ancestor(a, h) == SubSeq(a, 1, h)
prev(a) == ancestor(a, height(a) - 1)

(* The heights that a walk back from a passes before it leaves H.          *)
Walk(H, a) == {h \in 0..height(a) : \A i \in h..height(a) : ancestor(a, i) \in H}

descendsFrom(H, a, x) == height(x) \in Walk(H, a) /\ ancestor(a, height(x)) = x

(* The ancestor of a that is k deep, or the lowest that is held.           *)
finalized(H, a, k) == ancestor(a, Max({height(a) - k, Min(Walk(H, a))}))

-----------------------------------------------------------------------------
(* Difficulty and weight.                                                  *)

(* No move by more than maxStep at once, and never below one.              *)
clampStep(current, next) ==
  LET lo == current \div schedule.maxStep
      hi == current * schedule.maxStep
  IN  Max({1, Min({hi, Max({lo, next})})})

(* Scaled so that an anchor would have taken targetIters, on the average.  *)
retarget(current, spent, count) ==
  LET observed == spent \div count
  IN  clampStep(current, IF observed = 0 THEN current * schedule.maxStep
                                         ELSE (current * schedule.targetIters) \div observed)

(* The heights that are averaged for an anchor on a, of those in reach.    *)
Window(reach, a) == {h \in reach : h > height(a) - schedule.window}

difficulty(a) == IF a = <<>> THEN schedule.base ELSE a[height(a)].difficulty
weight(a) == IF a = <<>> THEN schedule.base ELSE a[height(a)].weight

(* What a node that holds H demands of an anchor on a (nextDifficulty).    *)
difficultyFor(H, a) ==
  LET heights == Window(Walk(H, a), a)
      iters == [h \in heights |-> IF h = 0 THEN 0 ELSE a[h].difficulty * effort[a[h].by]]
  IN  IF (height(a) + 1) % schedule.epoch # 0
        THEN difficulty(a)
        ELSE retarget(difficulty(a), sumOf(iters, heights), Cardinality(heights))

(* The anchor that p, holding H, builds on a.                              *)
mined(H, a, p) ==
  LET d == difficultyFor(H, a)
  IN  Append(a, [by |-> p, difficulty |-> d, weight |-> weight(a) + d])

(* The order of ids: any total order.  Of two anchors of one height it is  *)
(* decided by the last producers in which they differ, and of two heights  *)
(* by whether the luckiest producer made the higher one.                   *)
by(a, h) == a[h].by
lucky(a) == \A p \in Node : luck[height(a)][by(a, height(a))] <= luck[height(a)][p]

lowerId(a, b) ==
  \/ height(a) > height(b) /\ lucky(a)
  \/ height(a) < height(b) /\ ~lucky(b)
  \/ /\ height(a) = height(b)
     /\ \E i \in 1..height(a) : /\ luck[i][by(a, i)] < luck[i][by(b, i)]
                                /\ \A j \in (i + 1)..height(a) : by(a, j) = by(b, j)

(* Fault: of two equally heavy anchors the later one wins.                 *)
heavier_Fault(a, b) == a # b /\ weight(a) >= weight(b)

heavier(a, b) ==
  weight(a) > weight(b) \/ (weight(a) = weight(b) /\ lowerId(a, b))

-----------------------------------------------------------------------------
(* Two branches, one that ends at a and one that ends at t.                *)

(* The heights of the anchors they share, as far as both are held.         *)
Shared(H, a, t) ==
  {h \in Walk(H, a) \cap Walk(H, t) : ancestor(a, h) = ancestor(t, h)}

(* The heights of the anchors at and below f whose producers have a say.   *)
Reference(H, f) ==
  {h \in 1..height(f) : h > height(f) - FORK_WINDOW /\ h \in Walk(H, f)}

(* The producers of the anchors above height f.                            *)
Producers(a, f) == {by(a, i) : i \in (f + 1)..height(a)}

(* Is the branch to a backed by producers that hold a strict majority of   *)
(* the reference and have not built on the other branch, from height f on? *)
Final(H, a, t, f) ==
  LET ref == Reference(H, ancestor(a, f))
      support == {h \in ref : by(a, h) \in Producers(a, f) \ Producers(t, f)}
  IN  2 * Cardinality(support) > Cardinality(ref)

(* resolveFork: what to lock if a's branch is to take over from the tip t, *)
(* None if it is not, and whether it does so even though it is lighter.    *)
resolveFork(H, a, t) ==
  IF Shared(H, a, t) = {}
    THEN [switchTo |-> None, final |-> FALSE]
    ELSE LET f == Max(Shared(H, a, t))
         IN  CASE Final(H, t, a, f) -> [switchTo |-> None, final |-> FALSE]
               [] ~Final(H, t, a, f) /\ Final(H, a, t, f) ->
                    [switchTo |-> ancestor(a, f + 1), final |-> TRUE]
               [] OTHER -> [switchTo |-> ancestor(a, f), final |-> FALSE]

-----------------------------------------------------------------------------
(* What one node holds and has chosen.                                     *)

installGenesis ==
  [anchors |-> {<<>>}, tip |-> <<>>, locked |-> <<>>, settled |-> <<>>, floor |-> 0,
   conflict |-> FALSE]

(* updateLock: what was locked, or settled, gives way to what is higher.   *)
Higher(H, cur, new) == IF cur \notin H \/ height(new) > height(cur) THEN new ELSE cur

setTip(c, a, lock) ==
  [c EXCEPT !.tip = a,
            !.locked = Higher(c.anchors, lock, finalized(c.anchors, a, lockDepth)),
            !.settled = Higher(c.anchors, @, finalized(c.anchors, a, settleDepth))]

(* Settlement is absolute: no switch to a branch without the settled one.  *)
loyal_Fault(c, a) == TRUE
loyal(c, a) == descendsFrom(c.anchors, a, c.settled)

(* A switch locks anew, on the winning branch.                             *)
relock_Fault(c, verdict) == c.locked
relock(c, verdict) == verdict.switchTo

(* What a node with record c makes of an anchor a that it holds.           *)
choose(c, a) ==
  LET follows == descendsFrom(c.anchors, a, c.locked)
      best == heavier(a, c.tip)
      verdict == resolveFork(c.anchors, a, c.tip)
      wins == verdict.switchTo # None /\ (verdict.final \/ best)
  IN  CASE follows /\ best -> setTip(c, a, c.locked)
        [] ~follows /\ wins /\ loyal(c, a) -> setTip(c, a, relock(c, verdict))
        [] ~follows /\ wins /\ ~loyal(c, a) -> [c EXCEPT !.conflict = TRUE]
        [] OTHER -> c

(* An anchor is added that is new, links to one that is held, and has the  *)
(* difficulty that is demanded there.                                      *)
valid(c, a) ==
  /\ a \notin c.anchors /\ prev(a) \in c.anchors
  /\ difficulty(a) = difficultyFor(c.anchors, prev(a))
add(c, a) == IF valid(c, a) THEN choose([c EXCEPT !.anchors = @ \cup {a}], a) ELSE c

(* The anchor whose state the node keeps as its checkpoint.                *)
Boundary(a) == ancestor(a, (height(a) \div CHECKPOINT_EVERY) * CHECKPOINT_EVERY)

-----------------------------------------------------------------------------
(* The nodes.                                                              *)

(* Faults: the floor follows the tip and nothing holds it back; no margin. *)
PruneFloor_Tip(c) == height(Boundary(c.tip)) - KeepMargin
PruneFloor_NoMargin(c) == height(Boundary(c.settled))

(* Below what height a node drops its anchors once it has a checkpoint:    *)
(* never what is locked or settled.                                        *)
PruneFloor(c) ==
  LET asked == height(Boundary(c.settled)) - KeepMargin
  IN  Min({asked, height(c.locked), height(c.settled)})

(* All nodes have added the anchors up to History, and nothing else.       *)
upTo(a) == {ancestor(a, h) : h \in 0..height(a)}

ASSUME HistoryAssumption ==
  \A h \in 1..height(History) :
    LET a == ancestor(History, h - 1)
    IN  ancestor(History, h) = mined(upTo(a), a, by(History, h))

following ==
  LET H == upTo(History)
  IN  [anchors |-> H, tip |-> History, locked |-> finalized(H, History, lockDepth),
       settled |-> finalized(H, History, settleDepth), floor |-> 0, conflict |-> FALSE]

Init ==
  /\ limit \in Limits
  /\ luck \in [1..limit.height -> Ranks]
  /\ chain = [n \in Node |-> following]
  /\ draft = [n \in Node |-> None]
  /\ restarts = 0

(* What m has not heard yet and could link to what it holds.               *)
Missing(m) ==
  {a \in UNION {chain[n].anchors : n \in Node} \ chain[m].anchors :
     height(a) > 0 /\ prev(a) \in chain[m].anchors}

(* A producer begins, on its tip and at the difficulty it demands there.   *)
Start(n) ==
  LET c == chain[n]
  IN  /\ draft[n] = None /\ height(c.tip) < limit.height
      /\ draft' = [draft EXCEPT ![n] = mined(c.anchors, c.tip, n)]
      /\ UNCHANGED <<chain, luck, restarts, limit>>

(* Its anchor is done and is added to its own chain first.                 *)
Mint(n) ==
  LET a == draft[n]
  IN  /\ a # None
      /\ \A m \in Node : a \notin chain[m].anchors
      /\ chain' = [chain EXCEPT ![n] = add(@, a)]
      /\ draft' = [draft EXCEPT ![n] = None]
      /\ UNCHANGED <<luck, restarts, limit>>

(* The prover finds no proof this round.                                   *)
NoProof(n) ==
  /\ draft[n] # None
  /\ draft' = [draft EXCEPT ![n] = None]
  /\ UNCHANGED <<chain, luck, restarts, limit>>

(* n hears of an anchor that some other node holds.                        *)
Hear(n, a) ==
  /\ a \in Missing(n)
  /\ chain' = [chain EXCEPT ![n] = add(@, a)]
  /\ UNCHANGED <<draft, luck, restarts, limit>>

(* A new checkpoint, and all below it but a margin is dropped.             *)
Prune(n) ==
  LET c == chain[n]
      floor == PruneFloor(c)
  IN  /\ floor > c.floor /\ floor \in Walk(c.anchors, c.tip)
      /\ chain' = [chain EXCEPT ![n] = [c EXCEPT !.anchors = {a \in @ : height(a) >= floor},
                                                 !.floor = floor]]
      /\ UNCHANGED <<draft, luck, restarts, limit>>

(* A node starts again.  Anchors are not kept on disk.                     *)
Restart(n) ==
  /\ restarts < limit.restarts /\ restarts' = restarts + 1
  /\ chain' = [chain EXCEPT ![n] = installGenesis]
  /\ draft' = [draft EXCEPT ![n] = None]
  /\ UNCHANGED <<luck, limit>>

(* The anchors of the checkpoints a node with record c has offered: of its *)
(* checkpoint and, where a fresh node may still have one it was sent       *)
(* before, of those that came before it.                                   *)
Offered(c) ==
  {Boundary(c.settled)} \cup
    {Boundary(ancestor(c.settled, h)) : h \in {k \in 0..height(c.settled) : OlderToo}}

(* A node that has nothing but block 0 takes a checkpoint enough others    *)
(* have offered for its root, with what m still holds below it, if that is *)
(* enough to set difficulties anew above it.                               *)
Adopt(n, m, floor) ==
  LET offering == {k \in Node \ {n} : floor \in Offered(chain[k])}
      heights == Walk(chain[m].anchors, floor)
      run == {ancestor(floor, h) : h \in heights}
  IN  /\ chain[n].anchors = {<<>>}
      /\ m # n /\ height(floor) > 0 /\ floor \in chain[m].anchors
      /\ Cardinality(offering) >= AdoptQuorum
      /\ height(floor) % schedule.epoch = 0
      /\ Cardinality(heights) > schedule.window - schedule.epoch
      /\ chain' = [chain EXCEPT ![n] =
           [anchors |-> run, tip |-> floor, locked |-> floor, settled |-> floor,
            floor |-> height(floor), conflict |-> FALSE]]
      /\ UNCHANGED <<draft, luck, restarts, limit>>

Next ==
  \E n \in Node :
    \/ Start(n) \/ Mint(n) \/ NoProof(n) \/ Prune(n) \/ Restart(n)
    \/ \E a \in Missing(n) : Hear(n, a)
    \/ \E m \in Node : \E floor \in Offered(chain[m]) : Adopt(n, m, floor)

Spec == Init /\ [][Next]_vars

-----------------------------------------------------------------------------
(* Types.                                                                  *)

(* The state is well formed: what a node has chosen is what it holds.      *)
TypeOK ==
  /\ restarts \in 0..limit.restarts
  /\ \A n \in Node :
       /\ draft[n] = None \/ draft[n] \in Anchor
       /\ chain[n].anchors \subseteq Anchor
       /\ {chain[n].tip, chain[n].locked, chain[n].settled} \subseteq chain[n].anchors
       /\ chain[n].conflict \in BOOLEAN

-----------------------------------------------------------------------------
(* Safety.                                                                 *)

IsBelow(a, b) == height(a) <= height(b) /\ ancestor(b, height(a)) = a

(* A tip stands on what its node has locked, and that on what the node has *)
(* settled, in an unbroken line of held anchors: neither a switch to an    *)
(* older branch nor pruning takes the ground from under it (setTip,        *)
(* updateLock, prune).                                                     *)
Nested ==
  \A n \in Node :
    LET c == chain[n]
    IN  /\ descendsFrom(c.anchors, c.tip, c.locked)
        /\ descendsFrom(c.anchors, c.locked, c.settled)

(* What a node has settled it never gives up while it runs, whatever       *)
(* branch wins the fork resolution (add).                                  *)
SettledStays ==
  [][restarts' = restarts =>
       \A n \in Node : IsBelow(chain[n].settled, chain'[n].settled)]_vars

(* Pruning is a local matter (prune, nextDifficulty): whatever anchor comes*)
(* next, or is built on the tip, a node decides as it would if it still had*)
(* all the ancestors of what it holds, whether it is to follow the anchor  *)
(* or to refuse it for its difficulty.                                     *)
Whole(c) ==
  [c EXCEPT !.anchors = UNION {upTo(a) : a \in @}]
Choice(c) == <<c.tip, c.locked, c.settled>>
PruneInvisible ==
  \A n \in Node : \A a \in Missing(n) \cup
                       {mined(Whole(chain[n]).anchors, chain[n].tip, p) : p \in Node} :
    height(a) <= limit.height =>
      Choice(add(chain[n], a)) = Choice(add(Whole(chain[n]), a))

(* Two nodes that hold each other's tip, and would take it: then each goes *)
(* over to the branch that the other leaves.                               *)
Swap(n, m) ==
  LET t == chain[n].tip
      u == chain[m].tip
  IN  /\ t # u /\ t \in chain[m].anchors /\ u \in chain[n].anchors
      /\ choose(chain[n], u).tip = u /\ choose(chain[m], t).tip = t

(* Has n locked past the fork of its tip and m's?                          *)
Bound(n, m) == ~descendsFrom(chain[n].anchors, chain[m].tip, chain[n].locked)

(* The two ends of a fork do not contradict each other if both nodes have  *)
(* locked past it, or neither has: they do not swap, though each judges    *)
(* with its own lock, its own settled anchor and what it has left of the   *)
(* history below the fork (resolveFork, heavier).  If only one of them has, *)
(* it asks who has the majority, the other what is heavier, and with three *)
(* producers they can swap.                                                *)
AlikeYield ==
  \A n, m \in Node : (Bound(n, m) <=> Bound(m, n)) => ~Swap(n, m)

(* Nodes that hold the same anchors and have settled the same have the     *)
(* same tip.  So says a comment in add; AnchorVerdict shows that it is not *)
(* so.                                                                     *)
SameAnchorsSameTip ==
  \A n, m \in Node :
    chain[n].anchors = chain[m].anchors /\ chain[n].settled = chain[m].settled
      => chain[n].tip = chain[m].tip

=============================================================================
