# A verification project for Gavl

TLA+ models of the Gavl node (TypeScript, `src/src/`), the TLC configurations
that check them and TLAPS proofs about them. Paths below are those of the
repository (`src/market/fold.ts` is the fold of the order board).

## The system

Gavl is a peer-to-peer order board for swaps between Bitcoin and Litecoin.
Every node keeps append-only, signed chains of writes, one per author; a chain
of *anchors* (blocks backed by proofs of space and time) certifies how far each
author's chain has come; folding the certified writes gives the order board;
and an engine in each daemon carries the matches of its own identities through
hash-locked contracts (HTLCs) on the two coin chains.

| component | state | operations | speaks to |
|---|---|---|---|
| order board (`market/fold`, `state`, `ops`) | offers, matches | `advance`, `applyOp` for seven ops, `computeView` | pure; folded by the daemon |
| swap engine (`swap/engine`) | per match a file: stage, lock, claim, refund, intent; posts in flight | `pass` over every match, `postOp`, crash and `load` | board (read), explorers and wallet (await), daemon's `submit` |
| chain wallet, explorer client, proof of funds (`wallet/chainwallet`, `chains/esplora`, `swap/proof`) | outputs spent by this wallet | fund, prove, verify; HTTP with retries | the coin chains |
| scripts and keys (`swap/htlc`, `keys`, `networks`) | none | pure functions over bytes | |
| anchor chain (`consensus/chain`, `order`) | anchors by id, tip, locked and settled anchors, pruning floor and the heads there | `add`, fork choice, `headsAt`, `prune`, `adopt`, `installGenesis` | daemon, gossip node |
| anchors and difficulty (`consensus/anchor`, `difficulty`, `space`, `genesis`) | none | mine and verify one anchor, retarget | proofs of space and time |
| producer (`consensus/producer`) | none | read the tip, wait for a delay, submit an anchor | anchor chain |
| writer chains and ledger (`chain/writer`, `ledger/ledger`, `market/account`) | a chain per author, a buffer of early writes, a checkpoint base | append, `apply`, `seedCheckpoint`, `pruneBelow`, `reset` | gossip node, store |
| gossip node (`sync/node`, `messages`, `known-peers`) | peers and their heads, snapshot offers and quorum | hello, want, writes, anchors, snapshots | transport, ledger, anchor chain |
| transport (`sync/chunk`, `nostr`, `memory`) | partial messages, subscriptions, presences, connections, pins | split, reassemble, expire, evict, re-arm | relays |
| daemon and store (`daemon`, `store`) | log and snapshot on disk, checkpoint, deferred checks | submit, checkpoint, bootstrap, switch channel | everything above |
| proofs of space and time (`pos`, `pot`, `chia`), encoding (`det`), seed file, configuration, HTTP server, desktop client | - | cryptography and I/O | |

### What is hard in it

* **Fold**: deadlines off by one against each other, capacity given back twice,
  ops that cross (lock hint, abort, deadline), one jump in height or many.
* **Swap engine**: two parties, a board and two chains move between the network
  calls of one pass; a process dies between a saved intent, a broadcast and a
  saved outpoint; a call fails after the network took the transaction; an
  explorer lists late; the counterparty stalls at the worst moment.
* **Anchor chain**: anchors in any order, an anchor that is finished on a tip
  that lost, verdicts that depend on what was locked when, pruning that removes
  anchors that a verdict or a retarget counts.
* **State in anchors**: heads rebuilt from deltas over a pruned chain, boards
  folded from a checkpoint and from the beginning, a check that waits for writes.
* **Ledger and gossip**: lost, repeated and reordered frames, buffered writes
  that decay, checkpoints taken over while writes arrive, a writer that starts
  again and must not sign one number twice.
* **Store and daemon**: a crash between an append, the snapshot and the pruning
  of the log; a node that roots at block 0 with another chain's state on disk.
* **Transport**: parts of messages that come twice, late or never, buffers at
  their limits, subscriptions that close while a retry is waiting, peers that
  are gone and still heard of.

`PROJECT.json` lists each of these at its line, with the properties that catch
it or the reason why none does.

## Modules

| module | models | source |
|---|---|---|
| `OrderFold` | the transitions of the board, as operators on a view | `market/fold.ts`, `state.ts`, `ops.ts` |
| `OrderBoard` | the board as a state machine over certified writes | the same |
| `SwapEngine` | both engines of one match, the board they post to, the HTLCs on two chains | `swap/engine.ts`, what it uses of the wallet, the explorer client and the daemon |
| `Sums` | the sum of some elements of a function | |
| `AnchorChain` | the anchors several nodes hold, produce and hear of, what each has chosen, locked and settled, and the difficulty it demands | `consensus/chain.ts`, `difficulty.ts`, `producer.ts` |
| `StateRoots` | the heads and boards that anchors commit to, checkpoints, joining | `consensus/anchor.ts`, `order.ts`, `chain.ts`, `daemon.ts` |
| `Ledger` | one writer's chain at one node, as operators on a log | `ledger/ledger.ts`, `chain/writer.ts` |
| `Replicas` | abstract: what replicating the writes promises | |
| `WriteSync` | nodes that write, gossip, store, crash and start again | `sync/node.ts`, `market/account.ts`, `store/store.ts`, `daemon.ts` |
| `Chunks` | splitting and reassembling messages, as operators on a reassembler | `sync/chunk.ts` |
| `Transport` | one node, its relays and the peers it hears through them | `sync/nostr.ts`, `known-peers.ts`, the peers of `sync/node.ts` |
| `X_proofs` | lemmas and theorems about `X`: `OrderBoard`, `SwapEngine`, `Transport` (with `Chunks`), `AnchorChain`, `StateRoots`, `WriteSync` (with `Ledger` and `Replicas`), `Sums` | |
| `SwapTime_proofs` | the theorems of `SwapEngine` that rest on margins and clocks | |
| `MC...` | small instances for TLC | |

`SwapEngine` extends `OrderFold`: its board is moved by the very operators that
`OrderBoard` is checked and proved with. `WriteSync` extends `Ledger`, and
`Transport` extends `Chunks`, in the same way. `WriteSync` implements
`Replicas` (`Replicated == Abstract!Spec`, what a node holds being the tips of
its logs). `AnchorChain` and `Chunks` sum difficulties and bytes with `Sums`.
`StateRoots` puts anchors, heads, boards and checkpoints together;
it leaves to `AnchorChain` the long forks, to `WriteSync` how writes travel
and what a crash leaves of them, and to `OrderBoard` what the fold makes of
writes in their order.

A definition named `X_Fault` (or `X_` and the kind of fault) is `X` with one
plausible fault in it; no specification uses it, it only serves to show that a
property notices the fault. Every property of a passing run has such a fault,
listed in `PROJECT.json`.

### OrderFold and OrderBoard

A view is a record of two functions, offers and matches by id. `advance` is one
operator for the loop of the source: it cancels unproven matches and restores
their fill, drops matches past `pruneAt`, drops expired offers. Each op is a
pair: a condition (`TakeAccepted`, the early returns of `applyOp`) and a result
(`Taken`). In `OrderBoard` an action is one certified write at height `h`: the
view advances to `h`, then the op applies or is rejected, as in the loop of
`computeView`. `used` stands for write ids being unique; `settled` is a history
variable, the fills of matches that were pruned in escrow, which no one gives
back. Sums of fills are sizes of sets of units, so that no definition recurses.

Abstracted: of a proof of funds and a lock hint only whether it is recorded;
keys, hashes and ids are model values; the character-level checks of `parseOp`
and the encoding of the state are left out.

### SwapEngine

`view` and `height` are the board, `flight` the ops that were written and are
not certified. Per party, `side` is the engine's record in memory and `disk`
its file, `posts` the ops in flight per kind, `at` and `seen` where in a pass
the party is and what the pass has read, `stale` the parties whose lock intent
has outlived its grace time. `outs` are the HTLC outputs per chain with confirmations,
listing by the explorer and spend; `lead` is how far one chain's clock is ahead.

A pass of the engine awaits several explorer calls. The model cuts it where it
*sends* something (`Fund`, `Claim`, `Refund`), because there other parties see a
change: a pass starts in one of `DormantPass`, `ProofsPass`, `GiveUpPass`,
`EscrowPass`, `LockedPass` (the early returns of `stepTaker` and `stepMaker`,
in their order), reads the board and the chains at that moment, and later steps
act on that reading. On the way to a lock it is cut once more: `EscrowPass` scans the
chain of my own HTLC and awaits the scan of the other one and the verdict on a proof,
`Decide` goes on from there with what was found and tests the grace time of the
intent. `GraceOver` ends it: `lock` compares times, so that it ends at any moment,
within a pass and during `fundHtlc` too, unless the setting is `timely`. `Fundings`
are what `fundHtlc` may make of the coins that are listed: a new output, or the same
transaction again while its change is not. `Fund` may fail before or after the
network took the transaction, or for want of other coins; `PassFails` is an explorer that does not answer; `Crash` loses
memory and loads the file; `Evict` drops a spend from a mempool. Ops are posted
beside the passes (`postOp`, `Submit`) and certified later (`Certify`).

Abstracted: amounts are exact or the output is not there, every stage that is
not terminal is one, the hash and keys derived from the seed match the board.
Not modelled: `nolock` mode, a match between two identities of one daemon, a
channel switch.

The environment keeps to bounds the swap's design rests on. The clocks of the
two chains drift apart by at most `MaxDrift`. A *vigilant* party makes a pass
between two blocks (the engine ticks every five seconds, blocks take minutes);
the other party may stop at any point. And the board does not prune a match
before the taker's refund is open, which is what the match's lifetime in anchors
is computed from (`matchLifetime`). `setting`, chosen once, says who is
vigilant, how high the board may come, how many faults there are, whether
explorers may list late (`lag`), and whether the grace time of thirty seconds is
long enough all the same (`timely`): it ends between two passes, and not before the
explorers list what was sent.

### AnchorChain

An anchor is the sequence of links (producer, difficulty, weight) that leads
from block 0 to it, so that its id, predecessor and height need no state. `chain`
is per node the record of `chain.ts`: the anchors held, tip, locked, settled,
pruning floor and whether a conflict with settled history was reported. `draft`
is the anchor a producer works on: `Start` reads tip and difficulty, `Mint`
submits it whatever happened since, `NoProof` is a round without an anchor.
`luck` orders the ids.

`History` is an anchor that all nodes have followed before the model begins.
Its links have the difficulties the schedule demands of them
(`HistoryAssumption`), so that a node that starts with it is one the code could
have brought there.

`difficultyFor` is `nextDifficulty`: at the boundary of an epoch the iterations
of the anchors in the window, as far as they are held, are averaged and the
difficulty moves by at most `maxStep`. The iterations of an anchor are its
difficulty times the `effort` of its producer, which stands for the hardware of
producers being different. `valid` refuses an anchor with any other difficulty.

`Hear` adds an anchor some other node holds, as soon as its predecessor is
there: messages are delayed and reordered at will, a lost one is a late one, and
what cannot be linked is asked for again by the source. `add` is one step: it
await. `Prune` is `maybeCheckpoint` with what it does to the anchors, `Restart`
and `Adopt` are a node that comes back without its anchors, which are not on
disk, and roots at block 0 or at a checkpoint a quorum has offered: the last one, or
one before (`Offered`, if `OlderToo`), with what the others have left below it by then.

Abstracted: proofs are valid; a node builds at most once on an anchor; heads
and roots are in `StateRoots`. Heights and restarts are bounded by `limit`.

### StateRoots

A link is what its producer put into an anchor: `headsDelta`, `stateRoot`,
`appRoot`. Roots are injective, so a root *is* what it commits to: heads (a
number per writer) and a board (the groups of writes folded so far, and the
height). `node` is per node the anchors, tip, floor and `floorHeads`; of every
writer the writes above `seed` up to `have`; its checkpoint `snap`, the one it
has on `disk`, and one that waits to be verified (`pending`).

`Start` computes delta, heads and board of the anchor as `produceOne` and
`mineAnchor` do, before the delay; `Mint` adds it. `add` verifies the roots
against the heads rebuilt from what the node holds (`accumulate`) and the board
folded from its own base (`viewAt`), and lets an app root through when writes
are missing (`checkAppRoot`). Every move of the tip is followed, in the same
step, by `maybeCheckpoint` and `tryPendingSnapshot`, as in `wireTipCadence`.
`Fetch` is a snapshot that comes from a peer, `Hear` the chain of another node,
which a fresh node roots itself with (`adopt`), `Restart` and `RootAtGenesis`
the daemon's boot and bootstrap. `Post` and `Pull` are the writes. `Start` also
has the decision of `runAdaptive`: a producer whose heads are covered
`finalityDepth` deep (`headsCovered`) begins nothing, but for the heartbeat, a
slow trickle of anchors that a setting grants or not.

Abstracted: every anchor weighs the same and its proofs are valid; writers do
not fork; a branch stays one anchor long and leaves settled history alone
(`SideBranch`), so that no lock stands in the way of the heavier one.

### Ledger, Replicas and WriteSync

The id of a write commits to the one before it, so a write *is* its history, a
sequence of contents: its number is its length less one, two writes of one
length are a fork. `Ledger` has the log of one writer at one node: `base`,
`tip`, `pend`. `apply` follows the early returns of `ledger.ts`: below the
base, known, a fork, ahead and buffered, next in line and drained (`drain` also
has the buffered write that does not link, which makes `apply` report failure).
`applyAll` takes the writes of a message from the lowest number on, as the
source sorts them. `replay` does the same with the rows of a store: a row is a
write with the number of rows of its seq that were written before it, so that
those of one seq come in the order of writing and rows are a set.

In `WriteSync` a node has one account, so writers are nodes. `ledger` is its
memory, `disk` the rows of its log and its snapshot, `net` the messages. Every
handler of `node.ts` is one action, named after its message, with everything it
sends in answer: `HearHello` (`diffWant`, `aheadOf`), `HearWant`, `HearWrites`
(apply, persist, pass on, hello), `HearOffer`, `HearSnapshotWant`,
`HearSnapshot`. `Takes` adds the peer a message comes from and greets it. A post
is cut where it waits for its proofs of time: `StartPost` reads the head,
`Submit` signs and applies. `Checkpoint` replaces the snapshot and then prunes
rows, or fails between the two; `Crash` is a crash at any such point and the
replay of the next start; `Root` and `Discard` are a node that finds peers to
join, and one that does not and drops what its disk has. Messages are lost,
repeated and reordered, buffered writes decay.

Abstracted: what the anchor chain settles comes from outside (`Certify`: heads
some node holds, never going back); one peer vouching for a snapshot is enough,
the default; a message that is on its way twice to one node is one; plots and
time proofs are valid. `exposed`, `cut`, `life` and `lost` are history. A node
is `cut` once it has dropped writes of its own, or has taken over a checkpoint
older than the one it had; why the latter matters was found by looking for the
inductive invariant (see below). `CrashLosesNothing` is about writers that the
node has not pruned beyond the checkpoint on its disk: a checkpoint taken over
from a peer is only in memory until the next boundary.

### Chunks and Transport

`Chunks` has `splitPayload` and the `Reassembler`: of a payload only its length
matters, times are ages, and which of several equally old partial messages is
evicted is left open (`shed`: any that brings the buffer back within its bytes,
from the oldest on). `Transport` is one node: per relay the arming its
subscriptions are from (`relaySubs`, `live`, `timers`), per peer the last
presence and frame, the connections of the transport (`active`) and of the
gossip node (`conns`) with the votes for a checkpoint that came over them, the
pins in memory and on disk. Peers and relays are the environment: a peer
publishes to all relays, each passes the event on once, at any time, or loses it
or replays it when subscribed again. `OnClose`, `ReArm`, `HearPresence`,
`HearFrame`, `Sweep`, `Dial`, `Unpin`, `Leave` and `Join` are handlers and
timers of `nostr.ts` and the calls of the daemon; `Tick` is time.

`opened` numbers the armings of a relay, as the closures of `armRelay` do.
`DeliveredOnce` counts as late what comes more than `ChunkTtl` after delivery,
from however many relays: a message is remembered from when it was put
together, and each relay may be slow after the one before.

Abstracted: encryption and names of producers; every message is a vote.

## Runs

| run | question | bounds |
|---|---|---|
| `order_board` | does every order of ops and deadlines keep the board sound? | one offer, two matches, two parties, two hashes, heights 0..3, windows of one anchor |
| `swap_safe` | does a party that keeps up ever pay for nothing, does anyone lock twice or forget a lock, does the board lie about the chains? | one fault; either party stalls at will, or both keep up with heights to 3, or explorers list late, in time or not; refund windows 3 and 7, margin 3; 1633963 states |
| `swap_live` | is what was locked claimed or refunded in the end? | both keep up with a fault, or the counterparty stops for good; windows 2 and 3 |
| `swap_forgotten` | can a lock be forgotten when explorers list late? (it can) | one fault |
| `swap_abort_lost` | is an abort whose post failed posted again? (it is not) | one fault |
| `anchor_chain` | do locks, settlement, pruning and difficulty survive forks in any order, a restart and a bootstrap? | two nodes, two anchors in common, heights to 4 with a restart or to 6 without, lock depth 1, settlement depth 2, fork window 2, margin 1, retarget at every anchor over a window of two, checkpoints that are no longer the last; 158818 states |
| `anchor_verdict` | do nodes with the same anchors choose the same tip? (they do not) | two nodes, the default depths 2 and 6, heights to 4 |
| `write_sync` | do writes survive loss, repetition, reordering, decay, crashes and checkpoints, and do nodes agree when all is quiet? | nine settings of two nodes, or three in a line, with up to three posts and two checkpoints; 218333 states |
| `fork_hidden` | is a fork noticed by nodes that have both branches? (it is not) | two nodes, three posts, a crash, a checkpoint |
| `transport` | are messages put together, peers and pins kept, relays heard again, within all limits? | nine settings: echoes of two relays, or of three that are each slower than the one before, a crowd and a flood of messages, more peers than room, pins that fill the room, relays that close, a channel left, and a bit of each; 156718 states |
| `state_roots` | do nodes agree on heads and boards, whatever they have pruned and however they joined, and is what is posted buried before all rest? | two nodes, two writers; forks and pruning without a margin to height 3, a young network with restarts and joining to height 4, or one that rests, without heartbeat, whose anchors stay below the bound; finality and settlement depth 1 |
| `heads_lost` | can a node that joined rebuild heads? (not always) | heights to 5, margin 1 |

A module whose actions are rarely of interest all at once has a variable
(`setting`, `left`, `limit`) that is chosen in the initial state among a few
combinations of what may happen; TLC checks all of them in one run.

Why the bounds are enough. *Board*: its ops touch one offer and at most two of
its matches; two matches compete for a capacity that holds only one of them or
both; four heights with windows of one anchor let each deadline fall before, at
and after every op. *Swap*: each party locks once, and a wrong second lock
already shows with `MaxLocks = 2`; a single fault at any of the points of a pass
is what the recovery of the engine is written for. The windows are small but
keep their order: the grace time may end at every step of a pass where explorers list
at once, and where they do not and are not `timely` the board is checked against
chains with two HTLCs of one party. The taker's window outlasts the maker's by more than the margin, and
with the margin smaller than what one fault costs, `NobodyLoses` is violated.
*Anchors*: with lock depth 1 and settlement depth 2 a height of 4 has forks
below, at and above what is locked and settled; height 6 has pruned ancestors
inside the retarget window, and with a window longer than the margin allows
`PruneInvisible` is violated. *Writes*: a gap needs two writes, a buffer in use
one more; three nodes in a line make one of them a relay; every way to lose
something (a message, the memory, the buffer, the end of a checkpoint) happens
once at any point. *Transport*: the limits have the real proportions (what is
kept of all messages is about half of the greatest message), each is reached in
a setting of its own. *State*: three heights fork, settle, checkpoint and prune;
the fourth gives a joined node a successor to verify its checkpoint with; two
posts let one arrive while the producer rests.

### Fairness

`SwapEngine!Fairness` says that a vigilant party's engine goes on with its
passes (a timer calls `poke` every `tickMs`) and that some chain gets a block.
`PostSpec` adds that ops in the making are submitted and written ops certified;
it is used only for the run about aborts, where it makes the counterexample one
in which nobody simply stops. `WriteSync!FairSpec` says that what is on its way
arrives (weak fairness of `Hear`, written out with the states in which there is
something to hear, which is when `net` is not empty), so that `FallsQuiet` fails
for exchanges that feed themselves and for nothing else; losses, crashes and
posts are bounded. `Transport!FairSpec` says
that timers fire (`Tick`, `Sweep`, the re-arming), that a channel that was left
is followed by another one, and that what a relay passes on arrives or is
dropped; no peer is obliged to anything. `StateRoots!FairSpec` says, where
producers rest, that one with something to bury goes on (the loop of
`runAdaptive` comes around), that its anchor is finished, and that anchors and
writes arrive (they are offered again, see `WriteSync`). It grants no heartbeat,
so that `Buried` rests on `headsCovered` alone. The fairness of `Mint` and `Hear`
is written out, with the states in which they change something, since TLC is slow
to find out whether so large a step is enabled.

### What the violated runs show

* `swap_forgotten`: `fundHtlc` fails after the network took the transaction, the
  explorer does not list the output yet, and the next pass finds the lock
  window closed or the match cancelled. The side becomes terminal without a
  lock, and from then on a pass returns before it scans the chain. The money
  stays in the HTLC until someone refunds it by hand. With explorers that lag,
  more than a delay is at stake: the maker's funding fails although it was
  taken, the maker aborts before the output is listed, the taker claims it, the
  maker no longer looks, and the taker has its own lock back after the window.
  `NobodyLoses` is therefore stated for explorers that list at once.
* `swap_abort_lost`: the maker aborts, posting the op fails. The comment says
  "retry on a later tick", but the side is terminal and the next pass returns
  before it would. The match stays in escrow and its fill stays reserved.
* `anchor_verdict`: a comment in `add` says that every node that holds the same
  anchors reaches the same verdict on a fork. It depends on the order: a node
  that had a branch before it locked the other one never weighs the two by the
  rule of majorities, a node that had them the other way round does. Both then
  hold the same anchors, and stay apart until new ones are made.
* `fork_hidden`: a comment on `diffWant` says that where two nodes disagree on a
  write both have, it is pulled so that the fork is exposed. A peer that is
  *ahead* is only asked for what lies beyond the own head; that does not link
  and is refused, and nobody ever sees the two writes of one number side by side.
* `heads_lost`: a comment on `adopt` says that the full heads of the floor make
  the missing ancestry unnecessary. With ancestors below the floor, which the
  difficulty window demands, the walk for heads runs past the floor to the
  lowest ancestor and starts from nothing there: writers that were quiet in
  between are lost for every anchor but the tip.

### What else the models are told to leave alone

Writing the models showed more that no run states, because a property would
have to say something the repository nowhere promises, because another run shows
much the same, or because a condition or a bound keeps the case out of the property that
would be broken. Each is named at its place in the modules.

* An engine can fund its HTLC twice, though the comment on `lock` says "at most once
  (persisted intent + the caller's chain scan)" (`swap/engine.ts:830`). The scan comes
  before the other calls of the pass, and the grace time, which is thirty seconds on the
  clock, is tested after them (lines 665, 682 to 719, 833). So: the call to fund fails
  though the network took the transaction; a later pass scans before the explorer lists
  it; then it is listed and the thirty seconds are over; the pass goes on and, the coins
  of the first HTLC being gone from the wallet's list, funds a second one with others.
  (As long as it is not listed the wallet takes the same coins, and sends the same
  transaction once more.) A call that itself takes longer than the grace time leaves an
  intent that holds nothing back from the start. `NeverLocksTwice` is therefore
  stated for explorers that list at once, whenever the grace time ends, and for those that
  list late where it is long enough (`timely`); without that clause TLC finds the trace
  above in the setting of `swap_safe` that is not `timely`.
* A node that roots itself at a checkpoint the others have moved on from has fewer
  anchors below its floor than they: down to what `adopt` asks for, the window of the
  difficulty less an epoch. `PruneInvisible` and `AlikeYield` are checked with such
  nodes where this still covers the windows, and proved where it does
  (`MarginCovers`); by default a fork looks back on 64 anchors (`consensus/chain.ts:56`)
  and it does not.
* Heads go back when a producer holds fewer of a writer's writes than the anchor
  it builds on certifies (`consensus/anchor.ts:85`): `BoardsAgree`,
  `CheckpointsCommitted` and `RightIsAccepted` are about chains where they
  advance (`Advances`).
* An app root let through for want of writes is not checked when these arrive
  (`daemon.ts:550`, `556`), and a producer without them commits a wrong one.
* `seedCheckpoint` leaves what was seeded before of writers that the adopted
  heads do not have; `SideBranch` keeps such checkpoints apart.
* A node drops writes of its own above a checkpoint it takes over, or all of
  them when it roots at block 0, and signs others under their numbers (`cut`).
* `ingestSnapshot` does not compare heights (`daemon.ts:320-344`; only
  `wantSnapshot` does, and a node at block 0 that hears of a tip asks without
  it), so a node may take over an older checkpoint than the one on its disk,
  whose rows are reclaimed. If it then takes one in between, that becomes the
  latest on disk, the next start finds neither the rows nor the later heads, and
  the account signs numbers a second time. `SlotSignedOnce` was not inductive
  without setting such a node aside (`cut`); with three checkpoints and two
  restarts it is false otherwise.
* A checkpoint that was taken over is only in memory until the next boundary; an
  own post under way across one that goes back is only buffered.
* A message of 513 to 1024 parts is sent and never received: the parts exceed
  what a receiver keeps in all (`sync/chunk.ts:82` against 46). A sender with
  more than `maxPartialPerSender` long messages at once loses the oldest.
* A node that is rooted, but behind what its peers have pruned, asks for no
  snapshot; it stays until it starts again.
* A comment says that a peer in the middle of sending counts as alive
  (`sync/nostr.ts:380`); the sweep looks at presences only (line 358).
* Of two branches "every node picks the same one", says the comment on `resolveFork`
  (`consensus/chain.ts:243`). Only a node that has locked past the fork asks who has
  the majority; any other takes the heavier branch (lines 209 to 211). With three
  producers one node can stand on a heavy branch of a minority, with a lock beyond
  the fork, and another, that came to the majority's branch from a third one, have
  no lock there: with the next anchors each goes over to the branch the other
  leaves. It heals once both have locked past the fork. `AlikeYield` is therefore
  about pairs of which both have locked past the fork, or neither has.
* A producer that finishes an anchor on a tip it has left can undo a lock by
  itself, which the reasoning at `consensus/chain.ts:31` does not count.

## Proofs

Each `X_proofs` proves, for all values of the constants that satisfy the named
assumptions, an inductive invariant of `X`, and from it the properties the runs
check. All of them are theorems about `Spec`, without fairness.

### The order board (`OrderBoard_proofs`)

For all sets of offers, matches, parties, chains and hashes, all payloads that
`parseOp` lets through and all windows (`FoldAssumption`, `BoardAssumption`:
`MatchId` finite, `TAKER_LOCK_WINDOW > 0`, well-formed payloads).

* `BoardSafe`: `Spec => []BoardInv`, and from it `TypeCorrect`,
  `CapacityAlwaysConserved`, `EscrowAlwaysHasTerms`, `FundedIsNeverCancelled`,
  `HashesAlwaysDistinct`, `DeadlinesAlwaysKept`.
* `AdvanceIsPathIndependent`: `advance` twice is `advance` once, by comparing
  which matches either way cancels, keeps and drops; it needs of the invariant
  only that the proof deadline lies before the prune height.
* `MatchesMoveForward`: the action property, one lemma per op and one for
  `advance`, and that going forward is transitive, since a write is both.

Conservation is not inductive by itself. A new offer's id must not be one that
an old match refers to (`Linked`: matches refer to used ids, unused ids have
nothing settled), a match that is pruned must not be awaiting proofs any more
or its fill would be lost (`InTime`, and `Linked` again), and an abort must not
hit a match the maker funded. The proof follows the code: lemmas about sums of
fills, a lemma per part of the invariant for `advance`, one lemma per op, and the
step that composes the two halves of a write.

### The swap engine (`SwapEngine_proofs`, `SwapTime_proofs`)

For any offer between the two chains, any windows, block times, margins, drift
and settings (`SwapAssumption`: positive windows and block times, offers that
give on one chain and want on the other; `NoneAssumption`: no record is `None`).

* `SwapSafe`: `Spec => [](Timely => SwapInv)`, and `LockedOnce` (`NeverLocksTwice`).
  `Timely` is what that property is stated under: explorers list at once, whenever the
  grace time ends, or late but within it.
* `SwapWide`: `Spec => []WideInv`, and `SwapTypes` (`TypeOK`) and `BoardTrue`
  (`BoardMatchesChain`), in every setting: however late explorers list, whenever the
  grace time ends and also where a party has funded twice.
* `SwapTime`: `Spec => []TimeInv`, and `NobodyPaysForNothing` and `NoLockLeft`:
  `NobodyLoses` and `NoListedLockForgotten` hold where the margins are wide enough
  for the faults there may be (`WideEnough`).
* `PolicyWide`: with the margin of four hours, the block times and the twelve hours
  of the shorter window that the source has (`config.ts:99`,
  `swap/networks.ts:47-48`, `swap/htlc.ts:44`) and clocks half an hour apart, that
  is so for six faults in one swap, whichever chain is the maker's.

`NeverLocksTwice` is far from inductive. What keeps an engine from funding twice
is spread over the record in memory, the file, the reading of the pass it is in
and the grace time of its intent. `SwapInv` says of each of them what it may claim
where no party has more than one HTLC:
a record that knows a lock or a claim has an HTLC on the chain to show for it
(`RecordOK`); what a pass has found is there, and a spend it has seen mined stays
(`SeenOK`); a party about to fund has its intent on disk, fresh, and no HTLC
(`StepOK`); an op on its way tells of an HTLC that is there, or comes from a maker
that is through (`WayOK`). From the last two follows what the board may say (`BoardOK`).
Where explorers list at once a pass that has scanned and found nothing is right until
it funds, since nobody else does, and the intent is not needed; where they list late the
intent has to be fresh for as long as an HTLC is not listed, and that is what `timely`
grants and the clock of `lock` does not. `WideInv` keeps what is left without it: any
number of HTLCs, of which those that sides, files and readings speak of exist (`ManyOuts`,
`PartyOK`), and hints with an HTLC behind them (`HintsOK`).

`TimeInv` adds the race. The maker funds only against an HTLC of the taker that is
young; from then on the ages of both are tied together by the block times and the
drift (`Early`, `Funds`), and once the taker has claimed, the maker's claim comes
before the taker's refund opens (`Late`). Nobody but the taker has the secret before
the taker claims, which it does only with its own HTLC listed (`TakerTold`), and it
claims while the maker's HTLC is young (`TakerHolds`). Every fault, wherever it
strikes, costs two blocks at most: the one before the next pass, and one more if it
struck in the midst of one. So the invariant counts the blocks that may come
before a claim (`ClaimWaits`), and the margins have to pay for them:
`claimSafetyBlocks >= 2 * faults + 2` for the taker, and for the maker twice the
drift and `2 * faults + 2` blocks of both chains. `TimeInv` was checked with TLC on
small instances first. The run `swap_safe` has margins narrower than `WideEnough`
and one fault, so run and theorem say different things: the run that in small
windows even less suffices, the theorem that for real ones the margin is enough.

### The transport (`Transport_proofs`)

For any peers, relays, limits and settings (`ChunksAssumption`: positive limits;
`TransportAssumption`: finite peers and relays, room for at least one).

* `TransportSafe`: `Spec => []TransportInv`, and `TypeCorrect`,
  `BufferAlwaysBounded`, `NeverDeliveredTwice`, `VotesAlwaysFromConnections`,
  `PinsAlwaysKeptInRoom`, `AlwaysArmedOnce`.
* `AlwaysHeard`: `WhatArrivedIsHeard`, a message all of whose parts have come within
  the limits has been passed on.

`AlwaysArmedOnce` needs `RelaysOK`: only the last arming of a relay can be open,
none while a re-arming is due, and none that is closed comes back. The buffer's
bound is proved of `accept` as such (`AcceptOK`): whatever was evicted for the
sender and for the bytes, what is counted is the sum of the parts that are there
(`Sums_proofs`), at most one partial message is incomplete beyond the limits, and
that one is the newest. `NeverDeliveredTwice` needs that a message that was
delivered and is not forgotten is still in `done` (`Remembered`), which holds only
because ages of both run together; trying to prove the earlier form of
`DeliveredOnce`, which began to count lateness anew at every relay, showed it to be
false with three relays (`MCSlowEchoes` in the run is that case).

`AlwaysHeard` needs `Gathering`: of a message that nothing was too late or too much
for, what has arrived is exactly what its partial message holds, with the same age,
unless its time is over. That partial is never evicted, because all that may be in
the making together stays within the bytes and the number per sender (`Room`). An
earlier form of the property took it that a pinned peer can always connect. The
proof failed for one that is pinned only after its message came: by then the pins of
others had filled the room and the message was refused. `MayConnect` therefore asks
for room beside the pins of others, and the setting `MCDials` of the run has such pins.

### Anchor chains (`AnchorChain_proofs`)

For any nodes, depths, windows, efforts and schedules (`ChainAssumption`;
`HistoryAssumption`: the common anchors have the difficulty that was demanded).

* `ChainSafe`: `Spec => []ChainInv`, and `TypeCorrect`, `AlwaysNested`,
  `SettledNeverGivenUp`.
* `OneBranchFinal`: of two branches above one ancestor at most one has a strict
  majority of the producers that have a say.
* `PruningUnseen`: `Spec => [](MarginCovers => PruneInvisible)`. Nothing that was
  pruned changes whether a node takes an anchor, or what it follows, locks and
  settles then.
* `AlikeNeverSwap`: `Spec => [](MarginCovers => AlikeYield)`. Two nodes that have
  both locked past a fork, or neither, do not swap branches.

`Nested` speaks of what a node has chosen; to keep it over a switch, pruning and
a bootstrap the invariant says that what lies between tip, locked and settled is
*held* (`KeptOK`, with `descendsFrom` over the anchors of the node). The lemmas
follow `add`: walking back (`WalkOK`), the finalized ancestor (`FinalizedOK`), the
verdict on a fork (`ForkOK`), the new tip (`ChooseOK`, `SetTipOK`), and pruning,
which leaves what is above the floor linked (`PruneOK`).

`MarginCovers` says that the fork window and the window of the schedule are no longer
than the margin of anchors left below a checkpoint, plus the checkpoint's own
(`FORK_WINDOW` is 64, `consensus/chain.ts:56`; the margin is the greater of 256 and
the schedule's window, `daemon.ts:173, 607`). Where nodes may start from a checkpoint
that is no longer the last (`OlderToo`), the margin is no more than `adopt` grants them (`Margin`). The run is exactly at this bound, and
its mutant, which prunes without a margin, is beyond it. `PruningUnseen` needs
`RoomInv`: what a node holds goes down to one height without a gap, for side branches
as well (`Rooted`), and that height is 0 or lies the margin below the last boundary
that is settled (`Spare`), after an adoption too, since a peer serves the margin it
has kept along with its checkpoint, and below an older one no less than `adopt` asks for. Every fork a node weighs is above what it has settled, so all the anchors
that a verdict or a retarget counts are there, and the decision is that of a node
that has pruned nothing.

That is what makes two nodes comparable: with it each judges a fork as if it held
the whole history, so that both count the same reference weights. If both have
locked past the fork, both ask for the majority, of which there is one; if neither
has, both take the heavier branch, of which there is one (`OrderInv`: ids are ordered
as far as the bound on heights reaches). The property was stated for all pairs first;
the attempt to prove it led to the pair of which one has a lock and the other has
not, which is listed above among what the models are told to leave alone.

### Writes (`WriteSync_proofs`)

For any nodes, archivers and settings; `SettingsAssumption` is not used.

* `WriteSafe`: `Spec => []WriteInv`, and `TypeCorrect`, `SlotsSignedOnce`,
  `CrashNeverLoses`.
* `ImplementsReplicas`: `Spec => Replicated`. A step of the nodes is a `Learn` of
  one node, an `Anew` of one node, or changes nothing that `Replicas` speaks of.
* `ApplyAllOK` and `ReplayAll`: what applying a set of writes, and
  replaying rows, does to a log.

`WriteInv` says that whatever a node holds, stores, has certified or has on its
way was signed, all of it from the first write on (`Histories`); that checkpoints
do not go back; and two things about disks. `RowsOK`: the rows a node has of an
unforked writer cover its log above the base, for as long as it keeps that writer
at all. `OwnOK`: a writer that has dropped nothing holds all it ever signed, its
post under way follows on its tip, and its rows cover its log above the
checkpoint *on disk*, which is not later than the one it rests on. It follows
that a restart brings it back to exactly its tip, and that the next write takes a
number never used. `OwnOK` failed to be inductive in one step only, the one of
`ingestSnapshot` described above. The lemma about `replay` is where the order of
rows enters: of an unforked writer each round of one seq extends the log by the
one write there is, whatever was left in the store below the base; it is proved
without induction over the rows, by a least round that goes wrong
(`LeastExists`), as are those about the recursive functions in `applyAll` and
`replay`.

### State in anchors (`StateRoots_proofs`)

For any nodes, writers, depths, margins and cadences (`StateRootsAssumption`: finite
nodes and writers, ids ordered by `rank`; `NoneAssumption`: `None` is neither an
anchor nor a checkpoint).

* `RootsSafe`: `Spec => []RootsInv`, and from it `RootsTypes`, in every setting:
  nothing that any node holds, drafts, keeps on disk or has pulled certifies a write
  that was not signed, and a delta never differs from its root.
* `LinesSafe`: `Spec => []AloneInv`, where `AloneInv` adds `LinesInv` in the settings
  in which nodes do not join. From it, in these settings, `HeadsStayKnown`
  (`HeadsRebuilt`), `OneBoard` (`BoardsAgree`), `CheckpointsRight`
  (`CheckpointsCommitted`) and `NobodyShutOut` (`RightIsAccepted`).

None of the four is inductive, and each leans on the others: a checkpoint is right
because the board folded for it is, that board because the one before it was and
because heads could be rebuilt, and these because the floor a node pruned to took
its heads while they still could be. `LinesInv` has three parts. `LineOK`: what a
node holds goes down to its floor without a gap, each root is its predecessor's with
the delta applied, and the floor keeps the heads it certifies. `BaseOK`: the
checkpoint is on the line of the tip and below it, and what is pruned of each writer
is what its anchor certifies. `Agree`: of any two anchors anywhere, at most the last
of the shorter is off the line of the longer. It is `SideBranch` that keeps
`Agree`, and what it gives is that the children of a settled anchor share it, so
that a pruned line never has to be left.

*Heads* (`Rebuilt`): the head of a writer at an anchor is that of the last delta
that names it above the floor, or else that of the floor. *Boards* (`BoardIsWhole`):
the epoch of a write at or below the checkpoint's heads lies at or below the
checkpoint (`EpBelow`), that of a write above them lies above it and is found by
a walk that ends at the floor (`EpAbove`); so the sorted epochs of the whole history
are those below followed by those above (`SortedInTurn`, `GroupsInTurn`,
`BoardInTurn`), and folding the rest on top of the checkpoint's board is folding
everything. This is where `Advances` is needed: where a producer certifies less
than the anchor it builds on, a write has a later epoch for one who has pruned than
for one who has not. That adding a chain of anchors keeps an invariant is proved of
the recursive function in `addChain` without induction over it, by the least anchor
that breaks it (`AddedUpToExists`, `AddChainKeeps`).

Where nodes join, `HeadsRebuilt` does not hold (run `heads_lost`), and what the others
need of it is missing too. Whether they hold where nobody has pruned the anchors that
joiners are sent is checked, not proved: the young network of the run `state_roots`.
Both invariants were checked with TLC on instances of that run before they were proved.

### What stays with TLC

* Everything that is liveness, which the prover does not handle: `FallsQuiet`,
  `HearsAgain`, `GhostsGo`, `LocksResolve`, `AbortReachesBoard`, `Buried`.
* `QuietMeansAgreed`: what nodes have told each other when nothing is on its way
  is spread over all messages that were ever sent and answered; the invariant
  would have to name, for each pair of nodes, the message that repairs each
  difference.
* `NobodyLoses` and `NoListedLockForgotten` with margins too narrow for
  `WideEnough`: whether they hold then depends on the very numbers.
* Heads, boards, checkpoints and acceptance in `StateRoots` where nodes join: one
  that has taken over a checkpoint may hold writes, a base and a floor of different
  ages, with one more checkpoint pending, and is right only where no anchors were
  pruned. The young network of `state_roots` checks it.
* The violated runs, which are counterexamples.

No module uses a `RECURSIVE` operator: recursion is a recursive function or a
fold, so that all of them can be proved about.

## Plan

The modules of the plan are written, and every safety property of a passing run is
proved, but for `QuietMeansAgreed`, some only under the conditions named above (wide
margins, `MarginCovers`, nodes that do not join). What could follow is an invariant
for `QuietMeansAgreed`, and `StateRoots` with nodes that join a network whose anchors
reach down to block 0.

## Not modelled

* Cryptography: signatures, the proofs of space and time and the child processes
  that make them, encodings, key derivation, tapscript. They are valid or not,
  injective or not, and hold no protocol state.
* Coin selection, fees and the outputs the chain wallet has spent; the retries
  and the HTTP of the explorer client.
* In the engine: `nolock`, a match between two identities of one daemon. In the
  daemon: channel switches, farming control and status. In the producer: the
  pacing of `runAdaptive` and the interval of its heartbeat. In the gossip node: the beacons and warnings of the
  replication floor, a genesis mismatch. In the store: a torn line at the end of
  the log.
* The seed file, configuration, HTTP server and desktop client, which are I/O
  over the daemon.
