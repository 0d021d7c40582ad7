SPECIFICATION GossipSpec
CONSTANTS
  g = g
  a1 = a1
  b1 = b1
  b2 = b2
  ca1 = ca1
  cb1 = cb1
  cb2 = cb2
  m = m
  none = none
  nohash = nohash
  n1 = n1
  n2 = n2
  n3 = n3
  s = s
  Address <- MCAddress
  NoAddress = none
  Tx <- MCTx
  From <- MCFrom
  To <- MCTo
  Amount <- MCAmount
  Fee <- MCFee
  Signed <- MCSigned
  MiningReward = 2
  Modulus = 1024
  Block <- MCBlock
  Genesis = g
  NoHash = nohash
  Index <- MCIndex
  PrevHash <- MCPrevHash
  Depth <- MCIndex
  Difficulty <- MCDifficulty
  Sealed <- MCSealed
  Transactions <- MCTransactions
  DefaultDifficulty = 4
  MaxSide = 1
  MaxAhead = 1
  Node <- Three
  Stranger <- Silent
  Finder <- ThreeFinders
  Configured <- Ring
  Offers <- NoOffer
  MaxPeers = 2
  Fleeting <- Expiring
  MaxFaults = 0
INVARIANTS ForwardedOnce
PROPERTIES GossipDiesOut
CHECK_DEADLOCK FALSE
