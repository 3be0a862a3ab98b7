---------------------------- MODULE MCSwapEngine ----------------------------
(* Small instances of SwapEngine: one match, five for six, windows of a    *)
(* few anchors and blocks.                                                 *)
EXTENDS SwapEngine

CONSTANT MakerWindow, TakerWindow   \* refund windows in blocks

MCChain == {TakerChain, MakerChain}
MCParty == {taker, maker}
MCKey == {takerKey, makerKey}
MCOne == [c \in MCChain |-> 1]
MCNine == [c \in MCChain |-> 9]
MCRefundBlocks == [c \in MCChain |-> IF c = TakerChain THEN TakerWindow ELSE MakerWindow]
MCPostOp ==
  {[give |-> [chain |-> MakerChain, amount |-> 5], want |-> [chain |-> TakerChain, amount |-> 6],
    minFill |-> 2, expiresIn |-> 9]}

With(who, h, f, lags, intime) ==
  [vigilant |-> who, height |-> h, faults |-> f, lag |-> lags, timely |-> intime]

(* One party stalls at will; both keep up; explorers lag behind, within    *)
(* the grace time and beyond it.                                           *)
MCSafe ==
  {With({taker}, 0, 1, FALSE, FALSE), With({maker}, 0, 1, FALSE, FALSE),
   With(Side, 3, 1, FALSE, FALSE),
   With(Side, 3, 1, TRUE, TRUE), With(Side, 0, 1, TRUE, FALSE)}
(* Both keep up, with a fault; one stops for good, without.                *)
MCLive ==
  {With(Side, 0, 1, FALSE, FALSE), With({taker}, 3, 0, FALSE, FALSE),
   With({maker}, 0, 0, FALSE, FALSE)}
MCLag == {With(Side, 3, 1, TRUE, TRUE)}
MCBoth == {With(Side, 3, 1, FALSE, FALSE)}

=============================================================================
