------------------------------- MODULE MCStore -------------------------------
(* Two transactions, one in each of two stripes, one output each, and two    *)
(* heights: enough for re-spends, overwrites and stale band entries between  *)
(* the stripes of two prunes.                                                *)
EXTENDS StoreClients
CONSTANTS txA, txB, b1, r1, p1, p2
MCTxId == {txA, txB}
MCVout == {0}
MCHeight == {0, 1}
MCStriperOf == [t \in MCTxId |-> IF t = txA THEN 0 ELSE 1]
MCBlockHash == {b1}
MCRoot == {r1}
MCLeaves == {<<txA>>}
=============================================================================
