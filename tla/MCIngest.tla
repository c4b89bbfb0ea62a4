------------------------------ MODULE MCIngest ------------------------------
(* Up to MaxBlocks blocks over three transactions: parent spends the first   *)
(* block's coinbase, child and rival spend one of parent's outputs on two    *)
(* branches.                                                                 *)
EXTENDS Ingest
CONSTANTS parent, child, rival, cb1, cb2, cb3, cb4, cb5
Coinbases == <<cb1, cb2, cb3, cb4, cb5>>
MCCoinbase == SubSeq(Coinbases, 1, MaxBlocks)
MCTxId == {parent, child, rival} \cup ToSet(MCCoinbase)
MCInputs == [t \in MCTxId |->
  CASE t = parent -> << <<cb1, 0>> >> [] t \in {child, rival} -> << <<parent, 0>> >>
    [] OTHER -> <<>>]
MCNOut == [t \in MCTxId |-> IF t = parent THEN 2 ELSE 1]
MCVout == {0, 1}
MCHeight == 0 .. MaxHeight
MCBlockHash == 1 .. MaxBlocks
MCBodies == {<<>>, <<parent>>, <<child>>, <<rival>>, <<parent, child>>}
MCStriperOf == [t \in MCTxId |-> IF t = parent THEN 0 ELSE 1]
MCRoot == {}
MCLeaves == {}
P(horizon, window, index) ==
  [ReorgHorizon |-> horizon, RecencyWindow |-> window, IndexRetention |-> index]
MCPrefix == [t \in MCTxId |-> CASE t = parent -> 0 [] t = rival -> 1 [] t = child -> 2 [] OTHER -> 3]
Deploy(p, k, id) == [policy |-> p, k |-> k, id |-> id]
(* One server with deep reorgs and the index kept for good, or with none, a  *)
(* recency window and an index window; a shard with parent and rival, and    *)
(* one with child and the coinbases.                                         *)
MCDeployments ==
  {Deploy(P(2, 0, 0), 0, 0), Deploy(P(0, 1, 2), 0, 0), Deploy(P(1, 0, 1), 1, 0), Deploy(P(1, 0, 0), 1, 1)}
Unsharded == {Deploy(P(1, 0, 1), 0, 0)}
Windowed == {Deploy(P(0, 0, 1), 0, 0)}
Sharded == {Deploy(P(1, 0, 0), 1, 0)}
MCPolicies == {d.policy : d \in MCDeployments \cup Windowed}
MCQueried == {parent, child}
=============================================================================
