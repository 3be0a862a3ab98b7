---------------------------- MODULE MCOrderBoard ----------------------------
(* Small instances of OrderBoard: one posted offer shape per direction of  *)
(* the BTC/LTC market, windows of one or two anchors.                      *)
EXTENDS OrderBoard, TLC

CONSTANTS btc, ltc

MCChain == {btc, ltc}
MCDUST == [c \in MCChain |-> IF c = btc THEN 1 ELSE 2]
MCRefundAnchors == [c \in MCChain |-> 1]

(* Five for six in fills of two or more, once listed for less than a match *)
(* lives and once for longer, so that matches and offers outlive each      *)
(* other both ways (MAX_OFFER_TTL is 2880 anchors, a match lives 2200).    *)
MCPostOp ==
  {[give |-> [chain |-> btc, amount |-> 5], want |-> [chain |-> ltc, amount |-> 6],
    minFill |-> 2, expiresIn |-> 2],
   [give |-> [chain |-> btc, amount |-> 5], want |-> [chain |-> ltc, amount |-> 6],
    minFill |-> 2, expiresIn |-> 9]}

BoardSymmetry == Permutations(MatchId) \cup Permutations(Hash) \cup Permutations(Key)

=============================================================================
