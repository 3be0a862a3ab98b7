---------------------------- MODULE MCTransport -----------------------------
(* Small instances of Transport, each about one of its parts.  The limits  *)
(* have the proportions of the real ones: what is kept of all messages is  *)
(* about half of what the greatest number of parts may be.                 *)
EXTENDS Transport

CONSTANTS p1, p2, p3, r1, r2, r3

Each(a, b, c) == [p \in Peer |-> CASE p = p1 -> a [] p = p2 -> b [] OTHER -> c]

Calm ==
  [via |-> {r1}, says |-> Each(0, 0, 0), sizes |-> {1}, announces |-> Each(0, 0, 0), pins |-> {},
   closes |-> 0, losses |-> 0, leaves |-> 0]

(* A message in three parts, every one of which comes from two relays.     *)
MCEchoes == [Calm EXCEPT !.via = {r1, r2}, !.says = Each(1, 0, 0), !.sizes = {11}]
(* One in two parts from three relays, each slower than the one before.    *)
MCSlowEchoes == [Calm EXCEPT !.via = {r1, r2, r3}, !.says = Each(1, 0, 0), !.sizes = {8}]
(* Messages of three parts, of two peers, that are too much together; and   *)
(* too many of one peer.                                                   *)
MCCrowd == [Calm EXCEPT !.says = Each(1, 1, 0), !.sizes = {11}]
MCFlood == [Calm EXCEPT !.says = Each(3, 0, 0), !.sizes = {8}]
(* More peers than there is room for, one of which may be pinned.          *)
MCPeers == [Calm EXCEPT !.says = Each(1, 1, 1), !.announces = Each(1, 0, 0), !.pins = {p2}]
(* Pins that take all the room, and a peer that is heard before it is      *)
(* pinned itself.                                                          *)
MCDials == [Calm EXCEPT !.says = Each(0, 0, 1), !.pins = {p1, p2, p3}]
(* Relays that close subscriptions.                                        *)
MCRelays == [Calm EXCEPT !.via = {r1, r2}, !.announces = Each(1, 0, 0), !.closes = 2]
(* A channel that is left for another one, with pins and without.          *)
MCLeaves == [Calm EXCEPT !.announces = Each(1, 1, 0), !.pins = {p1}, !.leaves = 1]
MCAll ==
  [Calm EXCEPT !.says = Each(1, 0, 0), !.sizes = {8}, !.announces = Each(1, 0, 0),
               !.closes = 1, !.losses = 1]

MCSettings ==
  {MCEchoes, MCSlowEchoes, MCCrowd, MCFlood, MCPeers, MCDials, MCRelays, MCLeaves, MCAll}

=============================================================================
