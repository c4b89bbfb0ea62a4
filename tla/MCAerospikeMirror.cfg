SPECIFICATION HalfSpec
CONSTANTS
  tx1 = tx1
  block1 = block1
  root1 = root1
  NoTx = NoTx
  NoBlock = NoBlock
  TxId <- MCTxId
  Outpoint <- MCOutpoint
  Height <- MCHeight
  BlockHash <- MCBlockHash
  Root <- MCRoot
INVARIANT PruneMirrorsReference
