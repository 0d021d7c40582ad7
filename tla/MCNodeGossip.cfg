SPECIFICATION NodeSpec
CONSTANTS
  g = g
  p1 = p1
  a2 = a2
  b2 = b2
  b3 = b3
  r3 = r3
  cp1 = cp1
  ca2 = ca2
  cb2 = cb2
  cb3 = cb3
  cr3 = cr3
  pay = pay
  m = m
  x = x
  none = none
  nohash = nohash
  w1 = w1
  w2 = w2
  timer = timer
  tall = tall
  silent = silent
  Address <- MCAddress
  NoAddress = none
  Tx <- MCTx
  From <- MCFrom
  To <- MCTo
  Amount <- MCAmount
  Fee <- MCFee
  Signed <- MCSigned
  MiningReward = 2
  Modulus = 1024
  Genesis = g
  NoHash = nohash
  DefaultDifficulty = 4
  MaxSide = 2
  MaxAhead = 1
  MinerAddress = m
  Block <- MCReplay
  Index <- MCIndex
  Depth <- MCIndex
  PrevHash <- MCPrevHash
  Difficulty <- MCDifficulty
  Sealed <- MCSealed
  Transactions <- MCTransactions
  Worker <- OneHandler
  Periodic <- Nobody
  Peer <- Nobody
  PeerChains <- NoChains
  Serves <- ServesNothing
  Mining = TRUE
INVARIANTS
  NodeTypeOK
  
PROPERTY ImplementsChain
CHECK_DEADLOCK FALSE
