SPECIFICATION OperatorSpec
CONSTANTS
  Word = 8
  paid = paid
  Me = me
  NOps = 2
  Txs <- MCTxs
  TxHeight <- MCTxHeight
  SpendHeight <- MCSpendHeight
  Policies <- MCPolicies
  StartHeight = 0
  MaxHeight = 1
  MaxAsked = 1
  MaxSigned = 2
  MaxRestarts = 1
INVARIANTS ViewIsTip CleanNeverEquivocates CleanDenialsTrue  UnanimityIsHonest
PROPERTY CatchesUp
