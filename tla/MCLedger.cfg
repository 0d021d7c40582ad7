SPECIFICATION Spec
CONSTANTS
  a = a
  b = b
  none = none
  c0 = c0
  c1 = c1
  c2 = c2
  ab = ab
  ba = ba
  bb = bb
  Address <- MCAddress
  NoAddress = none
  Tx <- MCTx
  From <- MCFrom
  To <- MCTo
  Amount <- MCAmount
  Fee <- MCFee
  Signed <- MCSigned
  MiningReward = 3
  Modulus = 256
  Bodies <- MCBodies
  MaxBlocks = 5
INVARIANTS
  TypeOK
  
  
  
  MinerBodyApplies
  RebuildAgrees
