----------------------------- MODULE MCLibrary -----------------------------
(* The packages the server is built from, which share no state: a behaviour  *)
(* runs the part it starts with and leaves the others at one initial state.  *)
EXTENDS MCStore, MCPruner, Merkle, FieldLimbs, Signer, Limiter, TLC

CONSTANTS MaxLeaves, MaxSubtrees

VARIABLE part

(* Trees of distinct leaves; a digest is its preimage.                       *)
MCHashPair(l, r) == <<l, r>>
MCSubtrees == {[i \in 1 .. n |-> <<i>>] : n \in 1 .. MaxLeaves}
MCBlocks == {[i \in 1 .. n |-> <<i + MaxLeaves>>] : n \in 1 .. MaxSubtrees}

(* 139 points, some x above 139 and two x = 139.                             *)
MCCurveG == <<2, 34>>

Span(from, upto) == [from |-> from, upto |-> upto]
MCWindows == {Span(0, 1), Span(1, 2), Span(2, 3), Span(5, 6), Span(0, 5), Span(0, 6)}
MCSymmetry == Permutations(Handlers)

LibraryInit ==
  /\ part \in {"store", "pruner", "merkle", "field", "sign", "limit"}
  /\ ClientsInit
  /\ PrunerInit /\ (part # "pruner" => policy = P(0, 0, 0))
  /\ LimiterInit /\ (part # "limit" => window = Span(0, 1))
  /\ FieldInit
  /\ SignInit /\ (part # "sign" => d = 1 /\ hash = 0)
  /\ Init /\ (part # "merkle" => Len(layers[1][1]) = 1)

LibraryNext ==
  /\ UNCHANGED part
  /\ \/ /\ part = "store" /\ ClientsNext
        /\ UNCHANGED <<prunerVars, vars, fieldVars, signVars, limiterVars>>
     \/ /\ part = "pruner" /\ PrunerNext
        /\ UNCHANGED <<clientVars, vars, fieldVars, signVars, limiterVars>>
     \/ /\ part = "merkle" /\ Next
        /\ UNCHANGED <<clientVars, prunerVars, fieldVars, signVars, limiterVars>>
     \/ /\ part = "field" /\ FieldNext
        /\ UNCHANGED <<clientVars, prunerVars, vars, signVars, limiterVars>>
     \/ /\ part = "sign" /\ SignNext
        /\ UNCHANGED <<clientVars, prunerVars, vars, fieldVars, limiterVars>>
     \/ /\ part = "limit" /\ LimiterNext
        /\ UNCHANGED <<clientVars, prunerVars, vars, fieldVars, signVars>>

LibrarySpec ==
  LibraryInit /\ [][LibraryNext]_<<part, clientVars, prunerVars, vars, fieldVars, signVars, limiterVars>>
=============================================================================
