----------------------------- MODULE WriteSync ------------------------------
(***************************************************************************)
(* Nodes that write, exchange their writes and checkpoints, keep them on   *)
(* disk and start again: accounts (src/market/account.ts), the gossip of   *)
(* writes and checkpoints (src/sync/node.ts), the store                    *)
(* (src/store/store.ts) and what the daemon does with it (src/daemon.ts).  *)
(*                                                                         *)
(* A node has one account, so writers are nodes.  Handlers run to their    *)
(* end; messages are lost, repeated and reordered, and two alike that are  *)
(* on their way to the same node are one.  A message is a tuple of its     *)
(* receiver, its sender, its kind and its body.                            *)
(*                                                                         *)
(* Checkpoints are numbered.  What the anchor chain certifies and settles  *)
(* comes from outside (see AnchorChain): a node is rooted when its chain   *)
(* has a tip above block 0, and it then holds the anchors of all the       *)
(* checkpoints there are and their children.  One peer vouching for a      *)
(* checkpoint is enough, as it is by default.                              *)
(*                                                                         *)
(* A definition X_Fault is X with a fault that X could have had; no        *)
(* specification uses it.                                                  *)
(***************************************************************************)
EXTENDS Ledger, FiniteSets

CONSTANTS
  Node,       \* the nodes, each of them a writer
  Archiver,   \* those that persist every write, not just their own
  Settings    \* what may happen, and how often

ASSUME SettingsAssumption ==
  /\ IsFiniteSet(Node) /\ Archiver \subseteq Node
  /\ Settings \subseteq
       [links : SUBSET SUBSET Node, met : BOOLEAN, fresh : SUBSET Node,
        posts : [Node -> Nat], crashes : [Node -> Nat],
        losses : Nat, repeats : Nat, decays : Nat, checkpoints : Nat]

VARIABLES
  ledger,       \* per node and writer the log it holds
  disk,         \* per node the rows of its store and its latest checkpoint
  ckpt,         \* per node the checkpoint it rests on and serves, 0 if none
  pendingSnap,  \* per node a checkpoint it cannot authenticate yet, or 0
  rooted,       \* the nodes whose anchor chain has a tip above block 0
  posting,      \* per node the posts under way: the writes they follow
  peers,        \* per node those it has a connection to
  net,          \* the messages on their way
  certified,    \* the heads of the checkpoints so far
  signed,       \* per writer what it has signed so far
  exposed,      \* history: the writers of which some node has seen a fork
  cut,          \* history: the nodes that dropped writes of their own, or have gone back
                \* to a checkpoint before the one they had
  life,         \* history: how often a node has begun anew
  lost,         \* history: whether a message was lost
  left          \* what may still happen

held == <<ledger, disk, ckpt, pendingSnap>>
history == <<exposed, cut, life, lost>>
vars == <<ledger, disk, ckpt, pendingSnap, rooted, posting, peers, net, certified,
          signed, exposed, cut, life, lost, left>>

NoHeads == [w \in Node |-> <<>>]

Init ==
  /\ left \in Settings
  /\ ledger = [n \in Node |-> [w \in Node |-> EmptyLog]]
  /\ disk = [n \in Node |-> [rows |-> [w \in Node |-> {}], snap |-> 0]]
  /\ ckpt = [n \in Node |-> 0] /\ pendingSnap = [n \in Node |-> 0]
  /\ rooted = Node \ left.fresh
  /\ posting = [n \in Node |-> <<>>]
  /\ peers = [n \in Node |-> IF left.met THEN {m \in Node : {n, m} \in left.links} \ {n} ELSE {}]
  /\ net = {}
  /\ certified = <<>>
  /\ signed = [n \in Node |-> {}]
  /\ exposed = {} /\ cut = {} /\ life = [n \in Node |-> 0] /\ lost = FALSE

Spend(what) == left[what] > 0 /\ left' = [left EXCEPT ![what] = @ - 1]

-----------------------------------------------------------------------------
(* What a node knows and says.                                             *)

HeadsOf(logs) == [w \in Node |-> logs[w].tip]
heads(n) == HeadsOf(ledger[n])
snapshot(i) == IF i = 0 THEN NoHeads ELSE certified[i]

send(to, n, kind, body) == {<<m, n, kind, body>> : m \in to}

(* What a peer with these heads is asked for: what it is ahead by, and     *)
(* what it has at its head if that is something else.                      *)
diffWant(n, theirs) ==
  LET mine(w) == nextSeq(ledger[n][w])
      ahead == {w \in Node : Len(theirs[w]) > mine(w)}
      other == {w \in Node \ ahead :
                  theirs[w] # <<>> /\ idAt(ledger[n][w], seq(theirs[w])) # theirs[w]}
  IN  {<<w, mine(w)>> : w \in ahead} \cup {<<w, seq(theirs[w])>> : w \in other}

(* Fault: it is told so too when it has the same.                          *)
aheadOf_Fault(n, theirs) == \E w \in Node : nextSeq(ledger[n][w]) >= Len(theirs[w])
aheadOf(n, theirs) == \E w \in Node : nextSeq(ledger[n][w]) > Len(theirs[w])

(* addPeer: the heads; the anchor tip and the checkpoint as one message,   *)
(* left out while no checkpoint exists that it could lead to.              *)
greeting(n, m) ==
  send({m}, n, "hello", heads(n)) \cup
  IF certified = <<>> THEN {} ELSE send({m}, n, "offer", <<n \in rooted, ckpt[n]>>)

haveAllWrites(n, i) ==
  \A w \in Node : certified[i][w] # <<>> =>
    idAt(ledger[n][w], seq(certified[i][w])) = certified[i][w]

-----------------------------------------------------------------------------
(* The store: rows (see Ledger) and the latest checkpoint.                 *)

keep(n, w) == n \in Archiver \/ w = n

asRows(rows, S) == {<<v, Cardinality({r \in rows : Len(r[1]) = Len(v)})>> : v \in S}

(* learned holds pairs of a writer and a write.                            *)
persist(d, n, learned) ==
  [d EXCEPT !.rows =
     [w \in Node |->
        IF keep(n, w) THEN @[w] \cup asRows(@[w], {p[2] : p \in {q \in learned : q[1] = w}})
        ELSE @[w]]]

(* Rows at or below the heads go.                                          *)
pruneRows(d, h) ==
  [d EXCEPT !.rows = [w \in Node |-> {r \in @[w] : Len(r[1]) > Len(h[w])}]]

persistSnapshot(d, i) == [d EXCEPT !.snap = i]

(* What a node has again after a restart.                                  *)
boot(d) ==
  [w \in Node |-> replay(seedCheckpoint(EmptyLog, snapshot(d.snap)[w]), d.rows[w])]

-----------------------------------------------------------------------------
(* Posting.                                                                *)

(* Fault: posts do not wait for one another.                               *)
inTurn_Fault(n) == Len(posting[n]) < 2
inTurn(n) == posting[n] = <<>>

(* post: the place of the next write is read, then its cooldown is paid.   *)
StartPost(n) ==
  /\ left.posts[n] > 0 /\ inTurn(n)
  /\ left' = [left EXCEPT !.posts[n] = @ - 1]
  /\ posting' = [posting EXCEPT ![n] = Append(@, heads(n)[n])]
  /\ UNCHANGED <<held, rooted, peers, net, certified, signed, history>>

(* The write that follows on v, of a content not used before.              *)
write(n, v) == Append(v, Cardinality(signed[n]) + 1)

(* It is signed and submitted; a fork of its own the node does not tell.   *)
Submit(n) ==
  /\ posting[n] # <<>>
  /\ LET w == write(n, Head(posting[n]))
         r == apply(ledger[n][n], w)
         learned == {<<n, v>> : v \in r.applied}
     IN  /\ signed' = [signed EXCEPT ![n] = @ \cup {w}]
         /\ ledger' = [ledger EXCEPT ![n][n] = r.log]
         /\ disk' = [disk EXCEPT ![n] = persist(@, n, learned)]
         /\ net' = net \cup IF learned = {} THEN {} ELSE send(peers[n], n, "writes", learned)
  /\ posting' = [posting EXCEPT ![n] = Tail(@)]
  /\ UNCHANGED <<ckpt, pendingSnap, rooted, peers, certified, exposed, cut, life, lost, left>>

-----------------------------------------------------------------------------
(* The network.                                                            *)

(* A peer's presence is seen, or its frame when there is no connection.    *)
Connect(n, m) ==
  /\ {n, m} \in left.links /\ n # m /\ m \notin peers[n]
  /\ peers' = [peers EXCEPT ![n] = @ \cup {m}]
  /\ net' = net \cup greeting(n, m)
  /\ UNCHANGED <<held, rooted, posting, certified, signed, history, left>>

(* Node n takes a message from the network, which may have another copy of *)
(* it, and sends out.                                                      *)
Takes(n, m, kind, body, out) ==
  /\ peers' = [peers EXCEPT ![n] = @ \cup {m}]
  /\ \E again \in {0, 1} :
       /\ again <= left.repeats
       /\ left' = [left EXCEPT !.repeats = @ - again]
       /\ net' = out \cup (IF m \in peers[n] THEN {} ELSE greeting(n, m))
                     \cup (IF again = 1 THEN net ELSE net \ {<<n, m, kind, body>>})

HearHello(n, m, theirs) ==
  /\ Takes(n, m, "hello", theirs,
           IF diffWant(n, theirs) # {} THEN send({m}, n, "want", diffWant(n, theirs))
           ELSE IF aheadOf(n, theirs) THEN send({m}, n, "hello", heads(n)) ELSE {})
  /\ UNCHANGED <<held, rooted, posting, certified, signed, history>>

HearWant(n, m, from) ==
  LET writes == UNION {{<<p[1], v>> : v \in writesFrom(ledger[n][p[1]], p[2])} : p \in from}
  IN  /\ Takes(n, m, "want", from, IF writes = {} THEN {} ELSE send({m}, n, "writes", writes))
      /\ UNCHANGED <<held, rooted, posting, certified, signed, history>>

(* Fault: what was learned is passed on, but not to the store.             *)
stored_Fault(learned) == {}
stored(learned) == learned

(* An announcement, or writes that were asked for.                         *)
HearWrites(n, m, writes) ==
  LET r == [w \in Node |-> applyAll(ledger[n][w], {p[2] : p \in {q \in writes : q[1] = w}})]
      logs == [w \in Node |-> r[w].log]
      learned == UNION {{<<w, v>> : v \in r[w].applied} : w \in Node}
      changed == learned # {} \/ \E w \in Node : r[w].buffered
  IN  /\ Takes(n, m, "writes", writes,
               (IF learned = {} THEN {} ELSE send(peers[n] \ {m}, n, "writes", learned))
               \cup (IF changed THEN send({m}, n, "hello", HeadsOf(logs)) ELSE {}))
      /\ ledger' = [ledger EXCEPT ![n] = logs]
      /\ disk' = [disk EXCEPT ![n] = persist(@, n, stored(learned))]
      /\ exposed' = exposed \cup {w \in Node : r[w].fork}
      /\ UNCHANGED <<ckpt, pendingSnap, rooted, posting, certified, signed, cut, life, lost>>

Lose(msg) ==
  /\ msg \in net /\ Spend("losses")
  /\ net' = net \ {msg} /\ lost' = TRUE
  /\ UNCHANGED <<held, rooted, posting, peers, certified, signed, exposed, cut, life>>

(* A write has waited for too many others to be applied.                   *)
Decay(n, w) ==
  /\ Spend("decays")
  /\ \E v \in ledger[n][w].pend : ledger' = [ledger EXCEPT ![n][w].pend = @ \ {v}]
  /\ UNCHANGED <<disk, ckpt, pendingSnap, rooted, posting, peers, net, certified, signed, history>>

-----------------------------------------------------------------------------
(* Checkpoints.                                                            *)

(* The anchors settle what some node has: external.                        *)
Certify(n) ==
  /\ Spend("checkpoints")
  /\ heads(n) # NoHeads
  /\ \A w \in Node : Len(snapshot(Len(certified))[w]) <= Len(heads(n)[w])
  /\ certified' = Append(certified, heads(n))
  /\ UNCHANGED <<held, rooted, posting, peers, net, signed, history>>

(* maybeCheckpoint, after the tip has moved.  The store may fail between   *)
(* the two things it is told to do.                                        *)
Checkpoint(n, i) ==
  /\ n \in rooted /\ i > ckpt[n] /\ haveAllWrites(n, i)
  /\ ckpt' = [ckpt EXCEPT ![n] = i]
  /\ ledger' = [ledger EXCEPT ![n] = [w \in Node |-> pruneBelow(@[w], certified[i][w])]]
  /\ \E reclaimed \in BOOLEAN :
       LET d == persistSnapshot(disk[n], i)
       IN  disk' = [disk EXCEPT ![n] = IF reclaimed THEN pruneRows(d, certified[i]) ELSE d]
  /\ UNCHANGED <<pendingSnap, rooted, posting, peers, net, certified, signed, history, left>>

(* ingestSnapshot: the node rests on checkpoint i, whatever it had.        *)
Seed(n, i) ==
  LET logs == [w \in Node |-> seedCheckpoint(ledger[n][w], certified[i][w])]
  IN  /\ ledger' = [ledger EXCEPT ![n] = logs]
      /\ ckpt' = [ckpt EXCEPT ![n] = i] /\ pendingSnap' = [pendingSnap EXCEPT ![n] = 0]
      /\ life' = [life EXCEPT ![n] = @ + 1]
      /\ cut' = IF Extends(logs[n].tip, ledger[n][n].tip) /\ ckpt[n] <= i THEN cut
                ELSE cut \cup {n}
      /\ UNCHANGED disk

advertised(n) == send(peers[n], n, "hello", HeadsOf(ledger'[n]))

(* A node that has nothing, or stands at block 0, asks for a later         *)
(* checkpoint.                                                             *)
wantSnapshot(n, i) ==
  ((\A w \in Node : ledger[n][w] = EmptyLog) \/ n \notin rooted) /\ i > ckpt[n]

(* At block 0 it asks too when it hears of a tip.                          *)
asksOutright(n, tip) == tip /\ n \notin rooted

HearOffer(n, m, tip, i) ==
  /\ Takes(n, m, "offer", <<tip, i>>,
           IF wantSnapshot(n, i) \/ asksOutright(n, tip)
             THEN send({m}, n, "snapshot-want", 0) ELSE {})
  /\ UNCHANGED <<held, rooted, posting, certified, signed, history>>

HearSnapshotWant(n, m) ==
  /\ Takes(n, m, "snapshot-want", 0,
           IF ckpt[n] = 0 THEN {} ELSE send({m}, n, "snapshot", ckpt[n]))
  /\ UNCHANGED <<held, rooted, posting, certified, signed, history>>

HearSnapshot(n, m, i) ==
  /\ IF n \in rooted
       THEN /\ Seed(n, i)
            /\ Takes(n, m, "snapshot", i, send(peers[n] \cup {m}, n, "hello", HeadsOf(ledger'[n])))
       ELSE /\ pendingSnap' = [pendingSnap EXCEPT ![n] = i]
            /\ Takes(n, m, "snapshot", i, {})
            /\ UNCHANGED <<ledger, disk, ckpt, cut, life>>
  /\ UNCHANGED <<rooted, posting, certified, signed, exposed, lost>>

(* The anchors of a peer arrive, and a checkpoint that waits for them is   *)
(* taken.                                                                  *)
Root(n) ==
  /\ n \notin rooted /\ peers[n] \cap rooted # {}
  /\ rooted' = rooted \cup {n}
  /\ IF pendingSnap[n] = 0 THEN UNCHANGED <<held, cut, life, net>>
     ELSE Seed(n, pendingSnap[n]) /\ net' = net \cup advertised(n)
  /\ UNCHANGED <<posting, peers, certified, signed, exposed, lost, left>>

-----------------------------------------------------------------------------
(* A crash and the next start, a replay before any message is heard.       *)

Crash(n) ==
  /\ left.crashes[n] > 0 /\ left' = [left EXCEPT !.crashes[n] = @ - 1]
  /\ ledger' = [ledger EXCEPT ![n] = boot(disk[n])]
  /\ ckpt' = [ckpt EXCEPT ![n] = disk[n].snap]
  /\ pendingSnap' = [pendingSnap EXCEPT ![n] = 0]
  /\ rooted' = rooted \ {n}
  /\ posting' = [posting EXCEPT ![n] = <<>>]
  /\ peers' = [peers EXCEPT ![n] = {}]
  /\ life' = [life EXCEPT ![n] = @ + 1]
  /\ UNCHANGED <<disk, net, certified, signed, exposed, cut, lost>>

(* No anchors came in time after the start, so the node is left at block 0.*)
LeftAtGenesis(n) == n \notin rooted

(* discardOffChainCheckpoint: what the disk had is dropped.                *)
Discard(n) ==
  /\ LeftAtGenesis(n) /\ ckpt[n] > 0
  /\ ledger' = [ledger EXCEPT ![n] = [w \in Node |-> EmptyLog]]
  /\ disk' = [disk EXCEPT ![n] = [rows |-> [w \in Node |-> {}], snap |-> 0]]
  /\ ckpt' = [ckpt EXCEPT ![n] = 0]
  /\ net' = net \cup advertised(n)
  /\ life' = [life EXCEPT ![n] = @ + 1]
  /\ cut' = IF ledger[n][n].tip = <<>> THEN cut ELSE cut \cup {n}
  /\ UNCHANGED <<pendingSnap, rooted, posting, peers, certified, signed, exposed, lost, left>>

-----------------------------------------------------------------------------
Hear(n) ==
  \E msg \in net :
    /\ msg[1] = n
    /\ \/ msg[3] = "hello" /\ HearHello(n, msg[2], msg[4])
       \/ msg[3] = "want" /\ HearWant(n, msg[2], msg[4])
       \/ msg[3] = "writes" /\ HearWrites(n, msg[2], msg[4])
       \/ msg[3] = "offer" /\ HearOffer(n, msg[2], msg[4][1], msg[4][2])
       \/ msg[3] = "snapshot-want" /\ HearSnapshotWant(n, msg[2])
       \/ msg[3] = "snapshot" /\ HearSnapshot(n, msg[2], msg[4])

Next ==
  \/ \E n \in Node : StartPost(n) \/ Submit(n) \/ Hear(n) \/ Certify(n) \/ Root(n)
                       \/ Crash(n) \/ Discard(n)
  \/ \E n, m \in Node : Connect(n, m) \/ Decay(n, m)
  \/ \E n \in Node, i \in DOMAIN certified : Checkpoint(n, i)
  \/ \E msg \in net : Lose(msg)

Spec == Init /\ [][Next]_vars

(* What is on its way arrives: weak fairness of hearing, written out with  *)
(* the states in which there is something to hear.                         *)
FairSpec == Spec /\ ([]<>(net = {}) \/ []<><<\E n \in Node : Hear(n)>>_vars)

-----------------------------------------------------------------------------
(* Properties.                                                             *)

TypeOK ==
  /\ \A n, w \in Node : ledger[n][w] \in Log(signed[w])
  /\ \A n \in Node : disk[n].snap <= Len(certified) /\ ckpt[n] <= Len(certified)
  /\ rooted \subseteq Node /\ exposed \subseteq Node /\ cut \subseteq Node
  /\ peers \in [Node -> SUBSET Node]
  /\ \A n \in Node : Len(posting[n]) <= 1

(* A writer signs one write per seq: posts of an account take their turns  *)
(* (account.ts), and what it has signed is on its disk before anyone hears *)
(* of it, so a restart does not forget it.  It holds as long as the node   *)
(* does not itself drop writes of its own (cut): one that takes over a     *)
(* checkpoint drops those above it (ledger.ts, seedCheckpoint), and one    *)
(* that roots at block 0 may drop all, and signs others in their place.    *)
(* One that goes back to a checkpoint before the one it had may write a    *)
(* third over it on its disk, whose rows are gone, and a restart then      *)
(* drops them (daemon.ts, ingestSnapshot).                                 *)
SlotSignedOnce == \A n \in Node \ cut : OnePerSeq(signed[n])

(* A node finds on its disk again, at whatever moment it crashes, all that *)
(* it keeps of a writer it has not pruned beyond the checkpoint there: the *)
(* rows are written as writes are applied, the checkpoint is written before*)
(* rows are reclaimed, and those left over by a failure do no harm.  Forks *)
(* are set aside.                                                          *)
CrashLosesNothing ==
  \A n, w \in Node :
    /\ keep(n, w) /\ OnePerSeq(signed[w])
    /\ ledger[n][w].base <= Len(snapshot(disk[n].snap)[w])
    => Extends(boot(disk[n])[w].tip, ledger[n][w].tip)

Linked2(n, m) == n \in peers[m] /\ m \in peers[n]
Quiet == net = {} /\ ~lost

(* When all messages have arrived, connected nodes hold the same writes,   *)
(* unless one was pruned beyond what the other one has: whatever is heard  *)
(* is passed on, and a hello tells what it lacks (node.ts).                *)
QuietMeansAgreed ==
  Quiet => \A n, m \in Node : Linked2(n, m) =>
    \A w \in Node :
      \/ ledger[n][w].tip = ledger[m][w].tip
      \/ ~OnePerSeq(signed[w])
      \/ nextSeq(ledger[n][w]) < ledger[m][w].base
      \/ nextSeq(ledger[m][w]) < ledger[n][w].base

(* When all messages have arrived and connected nodes both hold a write of *)
(* one writer at one seq, but not the same, somebody has the proof of it   *)
(* (node.ts, diffWant).                                                    *)
ForkExposed ==
  Quiet => \A n, m \in Node : Linked2(n, m) =>
    \A w \in Node \ exposed :
      \A s \in (ledger[n][w].base..(nextSeq(ledger[n][w]) - 1))
                 \cap (ledger[m][w].base..(nextSeq(ledger[m][w]) - 1)) :
        at(ledger[n][w], s) = at(ledger[m][w], s)

(* The gossip falls quiet (node.ts): no exchange of messages feeds itself. *)
FallsQuiet == <>[](net = {})

(* Whatever is lost, repeated or reordered, each node holds whole histories*)
(* of what was signed and stays on the branch it is on, as long as it does *)
(* not begin anew.                                                         *)
Abstract == INSTANCE Replicas WITH Writer <- Node, held <- [n \in Node |-> heads(n)]
Replicated == Abstract!Spec

=============================================================================
