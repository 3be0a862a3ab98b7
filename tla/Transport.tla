----------------------------- MODULE Transport ------------------------------
(***************************************************************************)
(* What one node does with the relays it listens to and the peers it hears *)
(* through them (src/sync/nostr.ts, and what src/sync/node.ts keeps of a   *)
(* connection): subscriptions that close, presences, frames and chunks     *)
(* that come from every relay, more peers than there is room for, pins     *)
(* that outlive a restart (src/sync/known-peers.ts, src/daemon.ts).        *)
(*                                                                         *)
(* Every message is a vote for a checkpoint, an offer or the checkpoint    *)
(* itself.  Peers and relays are external: a peer publishes to all relays, *)
(* each of which passes an event on once, at any time, or loses it.        *)
(* Times are ages, which grow together up to where they make no difference *)
(* any more.  Signatures and the names of producers are left out.          *)
(*                                                                         *)
(* A definition X_Fault is X with a fault that X could have had; no        *)
(* specification uses it.                                                  *)
(***************************************************************************)
EXTENDS Chunks

CONSTANTS
  Peer, Relay, Checkpoint,
  MaxPeers,      \* connections to peers that are not pinned
  PresenceTtl,   \* the age up to which a sign of life counts
  None,          \* no checkpoint
  Settings       \* what may happen, and how often

ASSUME TransportAssumption ==
  /\ IsFiniteSet(Peer) /\ IsFiniteSet(Relay) /\ None \notin Checkpoint
  /\ MaxPeers \in Nat \ {0} /\ PresenceTtl \in Nat
  /\ Settings \subseteq
       [via : SUBSET Relay, says : [Peer -> Nat], sizes : SUBSET (Nat \ {0}), announces : [Peer -> Nat],
        pins : SUBSET Peer, closes : Nat, losses : Nat, leaves : Nat]

VARIABLES
  joined,       \* whether there is a transport now
  relaySubs,    \* per relay the arming its subscriptions are from, 0 if none
  live,         \* the subscriptions whose onclose was not called yet
  timers,       \* per relay the re-armings that are due
  arms,         \* per relay how often it was armed
  closed,       \* the armings that have closed
  active,       \* the peers that have a connection
  conns,        \* the peers of the connections that the gossip node has
  offers,       \* per peer its vote
  seen,         \* per peer the age of its last presence, Never if there is none
  lastFrame,    \* per peer the age of its last frame, Never if there is none
  pinned,       \* the peers that keep their connection
  known,        \* those that are pinned on disk
  reasm,        \* the reassembler
  presences,    \* per peer the age of the presence the relays have, or Never
  air,          \* the events on their way, each from one relay
  said,         \* history: per message its parts and what became of them
  left          \* what may still happen

relays == <<relaySubs, live, timers, arms, closed>>
links == <<active, conns, offers>>
life == <<seen, lastFrame>>
pins == <<pinned, known>>
vars == <<joined, relaySubs, live, timers, arms, closed, active, conns, offers, seen,
          lastFrame, pinned, known, reasm, presences, air, said, left>>

Never == PresenceTtl + 2
Subs == {"presence", "direct"}

(* The subscriptions of arming k of relay r.                               *)
opened(r, k) == {<<r, k, s>> : s \in Subs}

NoVotes == [p \in Peer |-> None]
NoSigns == [p \in Peer |-> Never]

Init ==
  /\ left \in Settings
  /\ joined = TRUE
  /\ relaySubs = [r \in Relay |-> IF r \in left.via THEN 1 ELSE 0] /\ arms = relaySubs
  /\ live = UNION {opened(r, 1) : r \in left.via}
  /\ timers = [r \in Relay |-> 0] /\ closed = {}
  /\ active = {} /\ conns = {} /\ offers = NoVotes
  /\ seen = NoSigns /\ lastFrame = NoSigns
  /\ pinned = {} /\ known = {}
  /\ reasm = Empty
  /\ presences = NoSigns /\ air = {}
  /\ said = <<>>

Spend(what) == left[what] > 0 /\ left' = [left EXCEPT ![what] = @ - 1]

-----------------------------------------------------------------------------
(* Relays.                                                                 *)

presence(p) == [kind |-> "presence", from |-> p, age |-> presences[p]]

(* The presences a relay has stored.                                       *)
replayed(r) == {<<r, presence(p)>> : p \in {q \in Peer : presences[q] # Never}}

(* Fault: the subscriptions of one arming each ask for another one.        *)
heardOf_Fault(r, k) == FALSE
heardOf(r, k) == <<r, k>> \in closed

(* Fault: it is left at that.                                              *)
retries_Fault == 0
retries == IF joined THEN 1 ELSE 0

(* onclose: the relay has closed a subscription, or it was closed from     *)
(* here.  The first one of an arming closes the others and re-arms later.  *)
OnClose(r, k, s) ==
  /\ <<r, k, s>> \in live
  /\ live' = live \ {<<r, k, s>>}
  /\ IF relaySubs[r] = k THEN Spend("closes") ELSE UNCHANGED left
  /\ IF heardOf(r, k) THEN UNCHANGED <<relaySubs, timers, closed>>
     ELSE /\ closed' = closed \cup {<<r, k>>}
          /\ relaySubs' = [relaySubs EXCEPT ![r] = 0]
          /\ timers' = [timers EXCEPT ![r] = @ + retries]
  /\ UNCHANGED <<joined, arms, links, life, pins, reasm, presences, air, said>>

armRelay(r) ==
  /\ arms' = [arms EXCEPT ![r] = @ + 1]
  /\ relaySubs' = [relaySubs EXCEPT ![r] = arms'[r]]
  /\ live' = live \cup opened(r, arms'[r])
  /\ air' = air \cup replayed(r)

ReArm(r) ==
  /\ timers[r] > 0 /\ timers' = [timers EXCEPT ![r] = @ - 1]
  /\ IF joined THEN armRelay(r) ELSE UNCHANGED <<arms, relaySubs, live, air>>
  /\ UNCHANGED <<joined, closed, links, life, pins, reasm, presences, said, left>>

(* Events come from this relay.                                            *)
listens(r, s) == relaySubs[r] # 0 /\ <<r, relaySubs[r], s>> \in live

-----------------------------------------------------------------------------
(* The peer set.                                                           *)

Links(a, c, o) == [active |-> a, conns |-> c, offers |-> o]

(* Fault: the gossip node is not told.                                     *)
fireClose_Fault(o, p) == [o EXCEPT !.active = @ \ {p}]

(* The connection to p is closed and its vote no longer counts.            *)
fireClose(o, p) == Links(o.active \ {p}, o.conns \ {p}, [o.offers EXCEPT ![p] = None])

(* The peers heard of least recently, of those that are not pinned.        *)
leastRecent(o, frames, signs) ==
  LET age(p) == IF frames[p] # Never THEN frames[p] ELSE signs[p]
  IN  {p \in o.active \ pinned : \A q \in o.active \ pinned : age(q) <= age(p)}

(* Fault: nobody has to leave.                                             *)
hasRoom_Fault(o, p, pinnedToo) == TRUE
hasRoom(o, p, pinnedToo) == Cardinality(o.active) < MaxPeers \/ p \in pinnedToo

(* activate: the links there may be once p has a connection, if it can     *)
(* have one.                                                               *)
activate(o, p, frames, signs, pinnedToo) ==
  LET with(q) == Links(q.active \cup {p}, q.conns \cup {p}, q.offers)
      victims == leastRecent(o, frames, signs)
  IN  IF p \in o.active THEN {o}
      ELSE IF hasRoom(o, p, pinnedToo) THEN {with(o)}
      ELSE IF victims = {} THEN {o}
      ELSE {with(fireClose(o, v)) : v \in victims}

TheLinks == Links(active, conns, offers)
Become(o) == active' = o.active /\ conns' = o.conns /\ offers' = o.offers

HearPresence(r, e) ==
  /\ e.kind = "presence" /\ listens(r, "presence")
  /\ IF e.age > PresenceTtl THEN UNCHANGED <<seen, links>>
     ELSE /\ seen' = [seen EXCEPT ![e.from] = 0]
          /\ \E o \in activate(TheLinks, e.from, lastFrame, seen', pinned) : Become(o)
  /\ air' = air \ {<<r, e>>}
  /\ UNCHANGED <<joined, relays, lastFrame, pins, reasm, presences, said, left>>

(* Fault: those heard of before their presence are not put down.           *)
signs_Fault(p) == seen
signs(p) == IF seen[p] = Never THEN [seen EXCEPT ![p] = 0] ELSE seen

(* What has become of a message: the parts that came, how often it was     *)
(* delivered, its age since then or else since the last part, and whether  *)
(* a part came later than it is remembered.                                *)
Noted(m, i, whole) ==
  LET s == said[m]
      late == s.age > ChunkTtl /\ s.arrived # {}
  IN  [said EXCEPT ![m] = [s EXCEPT !.arrived = s.arrived \cup {i}, !.age = IF s.heard > 0 THEN s.age ELSE 0,
                                    !.late = s.late \/ late,
                                    !.heard = IF whole /\ s.heard < 2 THEN s.heard + 1 ELSE s.heard]]

(* deliver: the gossip node has the vote, if there is a connection.        *)
deliver(o, m) ==
  IF m[1] \in o.active THEN [o EXCEPT !.offers[m[1]] = said[m].vote] ELSE o

(* onWire: a message in one event, or a part of one.                       *)
HearFrame(r, e) ==
  /\ e.kind = "frame" /\ listens(r, "direct")
  /\ LET m == e.msg
         total == Len(said[m].parts)
         outcomes == IF total = 1 THEN {Outcome(reasm.partials, reasm.done, TRUE)}
                     ELSE accept(reasm, m, e.index, total, said[m].parts[e.index])
     IN  /\ lastFrame' = [lastFrame EXCEPT ![m[1]] = 0]
         /\ seen' = signs(m[1])
         /\ \E a \in outcomes :
              /\ reasm' = a.reasm
              /\ IF a.whole
                   THEN \E o \in activate(TheLinks, m[1], lastFrame', seen', pinned) :
                          /\ Become(deliver(o, m))
                          /\ said' = Noted(m, e.index, m[1] \in o.active)
                   ELSE said' = Noted(m, e.index, FALSE) /\ UNCHANGED links
  /\ air' = air \ {<<r, e>>}
  /\ UNCHANGED <<joined, relays, pins, presences, left>>

gone(p) == seen[p] # Never /\ seen[p] > PresenceTtl

(* sweepStale, now and then: a peer without a recent presence is dropped.  *)
Sweep ==
  LET stale == {p \in Peer : gone(p)}
      dropped == (active \cap stale) \ pinned
  IN  /\ joined
      /\ seen' = [p \in Peer |-> IF p \in stale THEN Never ELSE seen[p]]
      /\ lastFrame' = [p \in Peer |-> IF p \in stale THEN Never ELSE lastFrame[p]]
      /\ active' = active \ dropped /\ conns' = conns \ dropped
      /\ offers' = [p \in Peer |-> IF p \in dropped THEN None ELSE offers[p]]
      /\ UNCHANGED <<joined, relays, pins, reasm, presences, air, said, left>>

-----------------------------------------------------------------------------
(* Pins, and a transport that ends and begins.                             *)

(* dialPeer: the pin is kept on disk, or only as long as this transport.   *)
Dial(p) ==
  /\ p \in left.pins /\ left' = [left EXCEPT !.pins = @ \ {p}]
  /\ \E kept \in BOOLEAN : known' = IF kept THEN known \cup {p} ELSE known
  /\ IF joined
       THEN /\ pinned' = pinned \cup {p}
            /\ \E o \in activate(TheLinks, p, lastFrame, seen, pinned') : Become(o)
       ELSE UNCHANGED <<pinned, links>>
  /\ UNCHANGED <<joined, relays, life, reasm, presences, air, said>>

(* It is not dialed again, but keeps the connection it has.                *)
Unpin(p) ==
  /\ p \in known /\ known' = known \ {p}
  /\ UNCHANGED <<joined, relays, links, life, pinned, reasm, presences, air, said, left>>

(* destroy: the channel is left.                                           *)
Leave ==
  /\ joined /\ Spend("leaves") /\ joined' = FALSE
  /\ relaySubs' = [r \in Relay |-> 0]
  /\ closed' = closed \cup {<<r, arms[r]>> : r \in Relay}
  /\ active' = {} /\ conns' = {} /\ offers' = NoVotes
  /\ UNCHANGED <<live, timers, arms, life, pins, reasm, presences, air, said>>

(* joinMesh: a new transport on all relays, and the known peers dialed.    *)
(* Whatever the old one still hears of its relays does nothing.            *)
Join ==
  /\ ~joined /\ joined' = TRUE
  /\ arms' = [r \in Relay |-> IF r \in left.via THEN arms[r] + 1 ELSE 0] /\ relaySubs' = arms'
  /\ live' = live \cup UNION {opened(r, arms'[r]) : r \in left.via}
  /\ timers' = [r \in Relay |-> 0]
  /\ pinned' = known /\ active' = known /\ conns' = known /\ offers' = NoVotes
  /\ seen' = NoSigns /\ lastFrame' = NoSigns /\ reasm' = Empty
  /\ air' = air \cup UNION {replayed(r) : r \in left.via}
  /\ said' = [m \in DOMAIN said |-> [said[m] EXCEPT !.arrived = {}, !.late = FALSE, !.heard = 0]]
  /\ UNCHANGED <<closed, known, presences, left>>

-----------------------------------------------------------------------------
(* The peers, the relays and the time.                                     *)

Announce(p) ==
  /\ left.announces[p] > 0 /\ left' = [left EXCEPT !.announces[p] = @ - 1]
  /\ presences' = [presences EXCEPT ![p] = 0]
  /\ air' = air \cup {<<r, [kind |-> "presence", from |-> p, age |-> 0]>> : r \in left.via}
  /\ UNCHANGED <<joined, relays, links, life, pins, reasm, said>>

(* publishDirect: nothing is published if there would be too many parts.   *)
Say(p, size, c) ==
  LET m == <<p, left.says[p]>>
      parts == splitPayload(size)
  IN  /\ left.says[p] > 0 /\ left' = [left EXCEPT !.says[p] = @ - 1]
      /\ said' = [x \in DOMAIN said \cup {m} |->
                    IF x \in DOMAIN said THEN said[x]
                    ELSE [parts |-> parts, vote |-> c, arrived |-> {}, age |-> 0, late |-> FALSE, heard |-> 0]]
      /\ air' = air \cup {<<r, [kind |-> "frame", msg |-> m, index |-> i]>> :
                            r \in left.via, i \in DOMAIN parts}
      /\ UNCHANGED <<joined, relays, links, life, pins, reasm, presences>>

(* A relay is not listened to, or does not pass an event on.               *)
Drop(r, e) ==
  /\ \/ ~listens(r, IF e.kind = "presence" THEN "presence" ELSE "direct") /\ UNCHANGED left
     \/ Spend("losses")
  /\ air' = air \ {<<r, e>>}
  /\ UNCHANGED <<joined, relays, links, life, pins, reasm, presences, said>>

Tick ==
  LET older(n) == IF n = Never THEN n ELSE IF n > PresenceTtl THEN n ELSE n + 1
  IN  /\ seen' = [p \in Peer |-> older(seen[p])]
      /\ lastFrame' = [p \in Peer |-> older(lastFrame[p])]
      /\ presences' = [p \in Peer |-> older(presences[p])]
      /\ reasm' = olderBy1(reasm)
      /\ said' = [m \in DOMAIN said |->
                    [said[m] EXCEPT !.age = IF @ > ChunkTtl THEN @ ELSE @ + 1]]
      /\ air' = {IF x[2].kind = "presence" THEN <<x[1], [x[2] EXCEPT !.age = older(@)]>> ELSE x : x \in air}
      /\ UNCHANGED <<joined, relays, links, pins, left>>

-----------------------------------------------------------------------------
Next ==
  \/ \E r \in Relay : ReArm(r)
  \/ \E x \in live : OnClose(x[1], x[2], x[3])
  \/ \E x \in air : HearPresence(x[1], x[2]) \/ HearFrame(x[1], x[2]) \/ Drop(x[1], x[2])
  \/ \E p \in Peer : Dial(p) \/ Unpin(p) \/ Announce(p)
  \/ \E p \in Peer, size \in left.sizes, c \in Checkpoint : Say(p, size, c)
  \/ Sweep \/ Leave \/ Join \/ Tick

Spec == Init /\ [][Next]_vars

(* Timers fire, a channel that was left is followed by another one, and    *)
(* what a relay passes on arrives.                                         *)
FairSpec ==
  /\ Spec
  /\ WF_vars(Tick) /\ WF_vars(Sweep) /\ WF_vars(Join)
  /\ \A r \in Relay : WF_vars(ReArm(r))
  /\ WF_vars(\E x \in air : HearPresence(x[1], x[2]) \/ HearFrame(x[1], x[2]) \/ Drop(x[1], x[2]))

-----------------------------------------------------------------------------
(* Properties.                                                             *)

TypeOK ==
  /\ joined \in BOOLEAN
  /\ relaySubs \in [Relay -> Nat] /\ arms \in [Relay -> Nat] /\ timers \in [Relay -> Nat]
  /\ active \subseteq Peer /\ pinned \subseteq Peer /\ known \subseteq Peer
  /\ offers \in [Peer -> Checkpoint \cup {None}]
  /\ seen \in [Peer -> 0..Never] /\ lastFrame \in [Peer -> 0..Never]
  /\ \A p \in reasm.partials :
       /\ p.total \in 2..MaxParts /\ Cardinality(p.have) < p.total
       /\ p.bytes = sumOf(said[p.msg].parts, p.have)

(* However many messages are in the making, and from however many peers,   *)
(* no more is kept of them than the limits of the reassembler (chunk.ts).  *)
BufferBounded ==
  /\ buffered(reasm.partials) <= MaxBytes
  /\ \A p \in Peer : Cardinality(of(reasm.partials, p)) <= MaxPartial

InParts(m) == Len(said[m].parts) > 1
AllArrived(m) == said[m].parts # <<>> /\ said[m].arrived = DOMAIN said[m].parts /\ ~said[m].late
(* The pins of others leave room for p, and always have.                   *)
MayConnect(p) == Cardinality(pinned \ {p}) < MaxPeers
length(m) == sumOf(said[m].parts, DOMAIN said[m].parts)

(* A message whose parts have all arrived, each not long after another, is *)
(* delivered, in whatever order and from however many relays they came:    *)
(* unless its sender has too many at once, or all are too much to be kept. *)
WhatArrivedIsHeard ==
  \A m \in DOMAIN said :
    LET bulk == {n \in DOMAIN said : InParts(n)}
    IN  /\ joined /\ AllArrived(m) /\ MayConnect(m[1])
        /\ Cardinality({n \in bulk : n[1] = m[1]}) <= MaxPartial
        /\ sumOf([n \in bulk |-> length(n)], bulk) <= MaxBytes
        => said[m].heard > 0

(* A message in parts is delivered once although every relay passes on all *)
(* of it (chunk.ts, done).                                                 *)
DeliveredOnce == \A m \in DOMAIN said : InParts(m) /\ ~said[m].late => said[m].heard <= 1

(* The gossip node has the connections that the transport has, and counts  *)
(* the votes of no others (node.ts, addPeer).                              *)
VotesFromConnections == conns = active /\ \A p \in Peer \ conns : offers[p] = None

(* Peers that are pinned always have a connection, those pinned on disk    *)
(* also after the next start, and all others share the room there is.      *)
PinsKeptInRoom ==
  joined => /\ known \subseteq pinned /\ pinned \subseteq active
            /\ Cardinality(active \ pinned) <= MaxPeers

(* A relay is subscribed to once, however its subscriptions close.         *)
ArmedOnce ==
  joined => \A r \in left.via :
    /\ timers[r] <= 1 /\ (timers[r] = 1 => relaySubs[r] = 0)
    /\ \A k \in 1..arms[r] : <<r, k>> \notin closed => k = relaySubs[r]

(* A relay that has closed subscriptions is heard again (nostr.ts,         *)
(* armRelay: a node must not stay deaf on a relay for good).               *)
HearsAgain == \A r \in Relay : <>[](r \in left.via => relaySubs[r] # 0)

(* A peer from which nothing comes any more loses its connection, whether  *)
(* a presence or only frames of it were ever heard (nostr.ts, sweepStale). *)
GhostsGo == \A p \in Peer : <>[](p \in active => p \in pinned)

=============================================================================
