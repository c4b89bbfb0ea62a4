------------------------------- MODULE MCPaid -------------------------------
(* Channels of three accesses that settle after two, of two after an upfront *)
(* fee, of two that settle after one, and one whose first price wraps to 0;  *)
(* and two requests to open that are refused: a deposit below MinDeposit,    *)
(* and no settlement trigger.  Prices are flat, so one kind of query is      *)
(* enough.                                                                   *)
EXTENDS PaidServer, TLC
CONSTANTS three, two, once, wrapped, small, untriggered, clientA, clientB, ask, o1, o2, t1, t2
PaidCfg(id, client, deposit, price, settleFee, n) ==
  [funding |-> id, clientPub |-> client, deposit |-> deposit, fundingValue |-> deposit,
   fee |-> 0, n |-> n, refundLock |-> 0, settleBefore |-> IF n = 0 THEN 9 ELSE 0,
   pricing |-> [flat |-> TRUE, flatPrice |-> price, perType |-> [q \in QueryType |-> 0],
                settleFee |-> settleFee, feeMode |-> "upfront"]]
MCConfigOf ==
     (three :> PaidCfg(three, clientA, 3, 1, 0, 2))
  @@ (two :> PaidCfg(two, clientB, 3, 1, 1, 0))
  @@ (once :> PaidCfg(once, clientB, 2, 1, 0, 1))
  @@ (wrapped :> PaidCfg(wrapped, clientA, 2, Word64 - 1, 1, 1))
  @@ (small :> PaidCfg(small, clientA, 1, 1, 0, 0))
  @@ (untriggered :> [PaidCfg(untriggered, clientA, 3, 1, 0, 0) EXCEPT !.settleBefore = 0])
=============================================================================
