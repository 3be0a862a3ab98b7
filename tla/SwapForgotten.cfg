CONSTANTS
  taker = taker
  maker = maker
  TakerChain = ltc
  MakerChain = btc
  takerKey = k1
  makerKey = k2
  theOffer = o1
  theMatch = m1
  theHash = x1
  None = None
  OfferId = {o1}
  MatchId = {m1}
  Hash = {x1}
  Party <- MCParty
  Chain <- MCChain
  Key <- MCKey
  PostOp <- MCPostOp
  FillAmount = {5}
  DUST <- MCOne
  PROOF_WINDOW = 1
  TAKER_LOCK_WINDOW = 1
  PRUNE_MARGIN = 0
  RefundAnchors <- MCOne
  RefundBlocks <- MCRefundBlocks
  BlockSeconds <- MCOne
  Confirmations <- MCOne
  MakerWindow = 2
  TakerWindow = 5
  windowMarginSecs = 1
  lockMarginAnchors = 0
  MaxDrift = 1
  MaxLocks = 2
  Settings <- MCLag
SPECIFICATION Spec
INVARIANTS
  NoLockForgotten
CHECK_DEADLOCK FALSE
