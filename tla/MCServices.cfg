SPECIFICATION ServicesSpec
CONSTANTS
  clientKey = clientKey
  ServerKey = ServerKey
  NoCommitment = NoCommitment
  utxo1 = utxo1
  seen = seen
  path = path
  QueryType <- MCQueryType
  Configs <- MCConfigs
  Word64 = 64
  MaxAccesses = 4
  MaxTime = 4
  three = three
  two = two
  once = once
  wrapped = wrapped
  small = small
  untriggered = untriggered
  clientA = clientA
  clientB = clientB
  ask = seen
  o1 = o1
  o2 = o2
  t1 = t1
  t2 = t2
  Ids = {three, two, once, wrapped, small, untriggered}
  ConfigOf <- MCConfigOf
  Openers = {o1, o2}
  Threads = {t1, t2}
  MinDeposit = 2
  MaxChannels = 1
  MaxBadAttempts = 2
  MaxObjects = 2
  MaxRequests = 4
  r1 = r1
  r2 = r2
  r3 = r3
  r4 = r4
  NoTimer = NoTimer
  Req <- MCReq
  Reference <- MCReference
  MaxBatch = 3
  Workers = 2
  tx1 = tx1
  block1 = block1
  root1 = root1
  NoTx = NoTx
  NoBlock = NoBlock
  TxId <- MCTxId
  Outpoint <- MCOutpoint
  Height <- MCHeight
  BlockHash <- MCBlockHash
  Root <- MCRoot
CHECK_DEADLOCK FALSE
INVARIANTS Prepaid  DeadlineSuffices FeeCollected ServedPrepaid BudgetHeld NoneStranded BatchBound OneResult BandsSound BandsComplete TxListed
PROPERTIES QuoteHonored GateServes
