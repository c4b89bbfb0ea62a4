----------------------------- MODULE MCServices -----------------------------
(* The services around ingest and queries, which share no state: a payment   *)
(* channel, the registry of channels, the verification gate, and the         *)
(* Aerospike backend.  A behaviour runs the part it starts with and leaves   *)
(* the others at one initial state.                                          *)
EXTENDS MCChannel, MCPaid, MCGate, MCAerospike

VARIABLE part

ServicesInit ==
  /\ part \in {"channel", "registry", "gate", "aerospike"}
  /\ SessionInit /\ (part # "channel" => ch \in {Open(cfg) : cfg \in CountOnly})
  /\ PaidInit
  /\ Init
  /\ AeroInit

ServicesNext ==
  /\ UNCHANGED part
  /\ \/ part = "channel" /\ SessionNext /\ UNCHANGED <<paidVars, vars, aeroVars>>
     \/ /\ part = "registry" /\ PaidNext /\ UNCHANGED <<sessionVars, vars, aeroVars>>
        /\ \A t \in Threads : req'[t].pc # "idle" => req'[t].q = ask
     \/ part = "gate" /\ Next /\ UNCHANGED <<sessionVars, paidVars, aeroVars>>
     \/ part = "aerospike" /\ HalfNext /\ UNCHANGED <<sessionVars, paidVars, vars>>

ServicesSpec ==
  /\ ServicesInit
  /\ [][ServicesNext]_<<part, sessionVars, paidVars, vars, aeroVars>>
  /\ Fairness
=============================================================================
