---------------------------- MODULE MCStateRoots ----------------------------
(* Small instances of StateRoots.                                          *)
EXTENDS StateRoots

CONSTANTS n1, n2, w1, w2

MCrank == [n \in Node |-> IF n = n1 THEN 1 ELSE 2]
MCNode == {n1, n2}
MCWriter == {w1, w2}
MChome == [w \in Writer |-> IF w = w1 THEN n1 ELSE n2]

(* Nodes that fork and prune at once and do not join, and a young network, *)
(* where the chains still reach down to block 0, that nodes join.          *)
MCPruning ==
  [margin |-> 0, every |-> 1, joins |-> FALSE, farming |-> Node,
   heartbeat |-> TRUE, maxHeight |-> 3, maxSigned |-> 2]
MCYoung ==
  [margin |-> 9, every |-> 2, joins |-> TRUE, farming |-> {n1},
   heartbeat |-> TRUE, maxHeight |-> 4, maxSigned |-> 3]
(* A producer that rests when it has nothing to bury: no anchor is as high *)
(* as the bound.                                                           *)
MCResting ==
  [margin |-> 9, every |-> 1, joins |-> FALSE, farming |-> {n1},
   heartbeat |-> FALSE, maxHeight |-> 7, maxSigned |-> 2]

MCSettings == {MCPruning, MCYoung, MCResting}

(* Nodes that join a network that has pruned its anchors.                  *)
MCMature ==
  {[margin |-> 1, every |-> 1, joins |-> TRUE, farming |-> {n1},
    heartbeat |-> TRUE, maxHeight |-> 5, maxSigned |-> 1]}

=============================================================================
