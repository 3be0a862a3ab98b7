---------------------------- MODULE MCAnchorChain ---------------------------
(* Small instances of AnchorChain.                                         *)
EXTENDS AnchorChain, SequencesExt

CONSTANTS n1, n2

(* All rankings of the producers at a height, or n1 before n2 at all.      *)
MCRanks == {rank \in [Node -> 1..Cardinality(Node)] :
              \A p, q \in Node : p # q => rank[p] # rank[q]}
MCOneRank == {[n \in Node |-> IF n = n1 THEN 1 ELSE 2]}

(* The anchors of n1 take longer than they should, those of n2 less. The   *)
(* window is longer than an epoch, as it is by default.                    *)
MCeffort == [n \in Node |-> IF n = n1 THEN 3 ELSE 1]
MCSchedule == [base |-> 4, targetIters |-> 8, epoch |-> 1, window |-> 2, maxStep |-> 2]
MCNoSchedule == [base |-> 1, targetIters |-> 1, epoch |-> 9, window |-> 1, maxStep |-> 1]

(* Nodes that start again, and higher chains at nodes that do not.         *)
MCLimits ==
  {[height |-> 4, restarts |-> 1],
   [height |-> 6, restarts |-> 0]}
MCLow == {[height |-> 4, restarts |-> 0]}

(* What all nodes have followed: nothing, or an anchor of each producer.   *)
MCNoHistory == <<>>
MCOnePair == FoldLeft(LAMBDA a, p : mined(upTo(a), a, p), <<>>, <<n1, n2>>)

=============================================================================
