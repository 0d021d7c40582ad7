SPECIFICATION Spec
CONSTANTS
  g = g
  a1 = a1
  a2 = a2
  b1 = b1
  b2 = b2
  b3 = b3
  d1 = d1
  ca1 = ca1
  ca2 = ca2
  cb1 = cb1
  cb2 = cb2
  cb3 = cb3
  cd1 = cd1
  pay = pay
  onward = onward
  m = m
  x = x
  none = none
  nohash = nohash
  w1 = w1
  w2 = w2
  Address <- MCAddress
  NoAddress = none
  Tx <- MCTx
  From <- MCFrom
  To <- MCTo
  Amount <- MCAmount
  Fee <- MCFee
  Signed <- MCSigned
  MiningReward = 2
  Modulus = 1024
  Block <- MCBlock
  Genesis = g
  NoHash = nohash
  Index <- MCIndex
  PrevHash <- MCPrevHash
  Depth <- MCIndex
  Difficulty <- MCDifficulty
  Sealed <- MCSealed
  Transactions <- MCOverspending
  DefaultDifficulty = 4
  MaxSide = 3
  MaxAhead = 2
  Worker <- MCWorker
  PeerChains <- MCPeerChains
SYMMETRY MCSymmetry
INVARIANT LedgerMatchesChain
