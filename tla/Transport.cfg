CONSTANTS
  p1 = p1
  p2 = p2
  p3 = p3
  r1 = r1
  r2 = r2
  r3 = r3
  Peer = {p1, p2, p3}
  Relay = {r1, r2, r3}
  Checkpoint = {c1}
  None = None
  MaxContent = 7
  MaxParts = 7
  MaxPartial = 2
  MaxBytes = 24
  ChunkTtl = 1
  MaxPeers = 2
  PresenceTtl = 2
  Settings <- MCSettings
SPECIFICATION FairSpec
INVARIANTS
  TypeOK
  BufferBounded
  WhatArrivedIsHeard
  DeliveredOnce
  VotesFromConnections
  PinsKeptInRoom
  ArmedOnce
PROPERTIES
  HearsAgain
  GhostsGo
CHECK_DEADLOCK FALSE
