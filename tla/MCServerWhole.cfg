SPECIFICATION SessionSpec
CONSTANTS
  clientKey = clientKey
  ServerKey = ServerKey
  NoCommitment = NoCommitment
  utxo1 = utxo1
  seen = seen
  path = path
  QueryType <- MCQueryType
  Configs <- CountOnly
  Word64 = 64
  MaxAccesses = 4
  MaxTime = 4
CHECK_DEADLOCK FALSE
INVARIANT ServerWhole
