-------------------------------- MODULE Prune --------------------------------
(***************************************************************************)
(* The arithmetic of spend-depth retention, prune/prune.go: the policy and *)
(* the bands a tip advance sweeps.  Heights are uint32; Word is the number *)
(* of their values (2^32 in the code), and additions wrap at it.           *)
(***************************************************************************)
EXTENDS Naturals

CONSTANTS
  Word,               \* number of uint32 values
  Policies            \* the policies a node may be started with

Uint32 == 0 .. Word - 1

(* The deepest reorg the node commits to surviving, the extra retention on   *)
(* top of it, and the depth at which index records are freed (0 = never).    *)
Policy == [ReorgHorizon : Uint32, RecencyWindow : Uint32, IndexRetention : Uint32]

(* A policy built by PolicyWithD(d, horizon), which refuses d < horizon: the *)
(* sum below is that d, so it is a uint32.                                   *)
ASSUME PolicyAssumption ==
  /\ Word \in Nat \ {0}
  /\ Policies \subseteq Policy
  /\ \A p \in Policies : p.ReorgHorizon + p.RecencyWindow \in Uint32

(* Mutant: the reorg horizon is left out of the depth.                       *)
DWithoutHorizon(p) == p.RecencyWindow

D(p) == (p.ReorgHorizon + p.RecencyWindow) % Word

(* Mutant: only the newest band is swept.                                    *)
SweepStartNewest(prevTip, hadTip, tip, d) == tip - d

SweepStart(prevTip, hadTip, tip, d) ==
  IF ~hadTip THEN tip - d
  ELSE IF prevTip >= d THEN ((prevTip - d) + 1) % Word
  ELSE 0

(* The heights sweep passes to its prune function, in increasing order.      *)
SweepBands(prevTip, hadTip, tip, d) ==
  IF tip < d THEN {} ELSE SweepStart(prevTip, hadTip, tip, d) .. (tip - d)
=============================================================================
