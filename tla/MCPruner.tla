------------------------------ MODULE MCPruner ------------------------------
(* Policies with and without a horizon, a window and index retention; the    *)
(* last one keeps everything the heights can express.                        *)
EXTENDS Pruner
P(horizon, window, index) ==
  [ReorgHorizon |-> horizon, RecencyWindow |-> window, IndexRetention |-> index]
MCPolicies == {P(0, 0, 0), P(2, 0, 1), P(1, 1, 3), P(0, 2, 2), P(2, 3, 5)}
=============================================================================
