SPECIFICATION QSpec
CONSTANTS
  parent = parent
  child = child
  rival = rival
  cb1 = cb1
  cb2 = cb2
  cb3 = cb3
  cb4 = cb4
  cb5 = cb5
  NoTx = NoTx
  NoBlock = NoBlock
  TxId <- MCTxId
  Vout <- MCVout
  Height <- MCHeight
  StripeCount = 2
  striperOf <- MCStriperOf
  BlockHash <- MCBlockHash
  Root <- MCRoot
  Leaves <- MCLeaves
  Inputs <- MCInputs
  NOut <- MCNOut
  Coinbase <- MCCoinbase
  Bodies <- MCBodies
  Prefix <- MCPrefix
  Policies <- MCPolicies
  Deployments <- Windowed
  Bits = 2
  Queried <- MCQueried
  StartHeight = 1
  MaxHeight = 3
  MaxBlocks = 3
  Word = 16
CHECK_DEADLOCK FALSE
INVARIANT NeverFalseAbsent
