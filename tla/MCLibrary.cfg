SPECIFICATION LibrarySpec
CONSTANTS
  txA = txA
  txB = txB
  b1 = b1
  r1 = r1
  p1 = p1
  p2 = p2
  NoTx = NoTx
  NoBlock = NoBlock
  TxId <- MCTxId
  Vout <- MCVout
  Height <- MCHeight
  StripeCount = 2
  striperOf <- MCStriperOf
  BlockHash <- MCBlockHash
  Root <- MCRoot
  Leaves <- MCLeaves
  Pruners = {p1, p2}
  Word = 6
  Policies <- MCPolicies
  HashPair <- MCHashPair
  Subtrees <- MCSubtrees
  Blocks <- MCBlocks
  MaxLeaves = 9
  MaxSubtrees = 6
  MaxDepth = 5
  MaxSubtreeDepth = 3
  Limbs = 2
  Width = 4
  feC = 5
  CurveP = 163
  CurveN = 139
  CurveG <- MCCurveG
  ScalarBits = 8
  Seeds = {0, 1, 35, 40, 137, 138}
  Hashes = {0, 1, 139, 255}
  MaxTries = 2
  Clients = {c1, c2}
  Watched = c1
  Handlers = {h1, h2}
  Rate = 2
  PerSecond = 2
  Minute = 4
  MaxBuckets = 1
  MaxLag = 1
  MaxTime = 6
  Windows <- MCWindows
  NoReq = NoReq
SYMMETRY MCSymmetry
INVARIANTS BandComplete FloorHeld GapFree BuiltProofVerifies DepthLaw FieldExact LadderExact SignedVerifies WindowBound
PROPERTIES ContractHolds DeniedOnlyWhenBusy
CHECK_DEADLOCK FALSE
