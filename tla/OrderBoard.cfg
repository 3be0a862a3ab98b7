CONSTANTS
  btc = btc
  ltc = ltc
  None = None
  OfferId = {o1}
  MatchId = {m1, m2}
  Party = {alice, bob}
  Key = {k1, k2}
  Hash = {x1, x2}
  Chain <- MCChain
  PostOp <- MCPostOp
  FillAmount = {2, 3}
  DUST <- MCDUST
  RefundAnchors <- MCRefundAnchors
  PROOF_WINDOW = 1
  TAKER_LOCK_WINDOW = 1
  PRUNE_MARGIN = 0
  MaxHeight = 3
SPECIFICATION Spec
SYMMETRY BoardSymmetry
INVARIANTS
  TypeOK
  CapacityConserved
  EscrowHasTerms
  FundedNeverCancelled
  HashesDistinct
  DeadlinesKept
  AdvancePathIndependent
PROPERTIES
  MatchesOnlyMoveForward
CHECK_DEADLOCK FALSE
