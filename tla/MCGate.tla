------------------------------- MODULE MCGate -------------------------------
(* Four requests in batches of up to three, which two goroutines verify: a   *)
(* full batch and the beginning of the next, with timers that fire while     *)
(* they are stopped.                                                         *)
EXTENDS Gate
CONSTANTS r1, r2, r3, r4
MCReq == {r1, r2, r3, r4}
MCReference == [r \in MCReq |-> r \in {r1, r3, r4}]
=============================================================================
