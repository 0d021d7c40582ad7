SPECIFICATION FairNodeSpec
CONSTANTS
  g = g
  p1 = p1
  a2 = a2
  b2 = b2
  b3 = b3
  r3 = r3
  cp1 = cp1
  ca2 = ca2
  cb2 = cb2
  cb3 = cb3
  cr3 = cr3
  pay = pay
  m = m
  x = x
  none = none
  nohash = nohash
  w1 = w1
  w2 = w2
  timer = timer
  tall = tall
  silent = silent
  Address <- MCAddress
  NoAddress = none
  Tx <- CoinbaseTx
  From <- FromNobody
  To <- ToMiner
  Amount <- Reward
  Fee <- NoFee
  Signed <- SignedCoinbase
  MiningReward = 2
  Modulus = 1024
  Genesis = g
  NoHash = nohash
  DefaultDifficulty = 4
  MaxSide = 2
  MaxAhead = 1
  MinerAddress = m
  Block <- MCBlock
  Index <- MCIndexTree
  Depth <- MCIndexTree
  PrevHash <- MCPrevHashTree
  Difficulty <- MCDifficultyTree
  Sealed <- MCSealedTree
  Transactions <- CoinbaseOnly
  Worker <- HandlerAndTimer
  Periodic <- Timer
  Peer <- TwoPeers
  PeerChains <- PeerChain
  Serves <- ServesBOrNothing
  Mining = FALSE
PROPERTY CatchesUp
CHECK_DEADLOCK FALSE
