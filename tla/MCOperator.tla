----------------------------- MODULE MCOperator -----------------------------
(* The server and the client over it: a transaction mined in block 0 and     *)
(* spent in block 1, on the chain of these two blocks, with everything kept  *)
(* for long and with both its records freed at tip 1.  In the part "server"  *)
(* the handlers sign; in the part "client" the client calls.                 *)
EXTENDS MultiClient
CONSTANT paid
VARIABLE part
MCTxs == {paid}
MCTxHeight == [t \in MCTxs |-> 0]
MCSpendHeight == [t \in MCTxs |-> 1]
NeverMined == [t \in MCTxs |-> Never]
P(horizon, window, retain) ==
  [ReorgHorizon |-> horizon, RecencyWindow |-> window, IndexRetention |-> retain]
MCPolicies == {P(2, 0, 0), P(0, 0, 1)}

OperatorVars == <<clientVars, part>>
OperatorInit == ClientInit /\ part \in {"server", "client"}
OperatorNext ==
  /\ UNCHANGED part
  /\ \/ part = "server" /\ Next /\ UNCHANGED call
     \/ part = "client" /\ ClientNext /\ asked' = {} /\ ~atLimit'
OperatorSpec == OperatorInit /\ [][OperatorNext]_OperatorVars /\ Fairness
=============================================================================
