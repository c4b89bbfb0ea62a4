------------------------------- MODULE Pruner -------------------------------
(***************************************************************************)
(* The Pruner of prune/prune.go fed with arbitrary tips: consecutive       *)
(* blocks, jumps (catch-up, a rejected block), repeats and lower tips      *)
(* after a rollback.  The store is represented by the heights it was asked *)
(* to prune.  A backend call may fail; sweep then stops at that height     *)
(* while lastTip has already moved.                                        *)
(***************************************************************************)
EXTENDS Prune

VARIABLES
  policy,                 \* the Pruner's fields
  lastTip, hasTip,
  err,                    \* whether the last OnNewBlock returned an error
  failed,                 \* history: whether some OnNewBlock did
  swept,                  \* history: heights PruneSpentAtHeight succeeded for
  freed,                  \* history: heights PruneIndexAtHeight succeeded for
  firstTip, maxTip        \* history: the first and the highest tip announced

prunerVars == <<policy, lastTip, hasTip, err, failed, swept, freed, firstTip, maxTip>>

PrunerInit ==
  /\ policy \in Policies
  /\ lastTip = 0 /\ hasTip = FALSE /\ err = FALSE /\ failed = FALSE
  /\ swept = {} /\ freed = {} /\ firstTip = 0 /\ maxTip = 0

Announce(tip) ==
  /\ lastTip' = tip
  /\ hasTip' = TRUE
  /\ maxTip' = IF hasTip /\ maxTip > tip THEN maxTip ELSE tip
  /\ firstTip' = IF hasTip THEN firstTip ELSE tip
  /\ UNCHANGED policy

SpentBands(tip) == SweepBands(lastTip, hasTip, tip, D(policy))
IndexBands(tip) ==
  {h \in SweepBands(lastTip, hasTip, tip, policy.IndexRetention) : policy.IndexRetention > 0}

OnNewBlock(tip) ==
  /\ Announce(tip)
  /\ err' = FALSE /\ UNCHANGED failed
  /\ swept' = swept \cup SpentBands(tip)
  /\ freed' = freed \cup IndexBands(tip)

(* The store fails on height `bad`, the heights below it being done; a        *)
(* failure of the first sweep leaves the second one out.                      *)
OnNewBlockFails(tip, bad) ==
  /\ Announce(tip)
  /\ err' = TRUE /\ failed' = TRUE
  /\ \/ /\ bad \in SpentBands(tip)
        /\ swept' = swept \cup {h \in SpentBands(tip) : h < bad}
        /\ UNCHANGED freed
     \/ /\ bad \in IndexBands(tip)
        /\ swept' = swept \cup SpentBands(tip)
        /\ freed' = freed \cup {h \in IndexBands(tip) : h < bad}

PrunerNext ==
  \/ \E tip \in Uint32 : OnNewBlock(tip)
  \/ \E tip \in Uint32, bad \in Uint32 : OnNewBlockFails(tip, bad)

PrunerSpec == PrunerInit /\ [][PrunerNext]_prunerVars

-----------------------------------------------------------------------------
(* The fields are uint32 heights and flags, the histories sets of heights.   *)
PrunerTypeOK ==
  /\ policy \in Policies
  /\ lastTip \in Uint32 /\ hasTip \in BOOLEAN /\ err \in BOOLEAN /\ failed \in BOOLEAN
  /\ swept \in SUBSET Uint32 /\ freed \in SUBSET Uint32
  /\ firstTip \in Uint32 /\ maxTip \in Uint32

(* FloorHeld: no spend band is pruned while a reorg of ReorgHorizon blocks   *)
(* from the highest tip could still roll its spends back, and no index data  *)
(* is freed inside its retention window: through tip jumps, repeats and      *)
(* rollbacks, a pruned height lies at least the promised number of blocks    *)
(* below the highest tip announced.                                          *)
FloorHeld ==
  /\ \A h \in swept : hasTip /\ h + policy.ReorgHorizon <= maxTip
  /\ \A h \in freed : policy.IndexRetention > 0 /\ h + policy.IndexRetention <= maxTip

(* Every height that came to lie d below the tip since the first call is in S. *)
Complete(d, S) ==
  \A h \in Uint32 : firstTip <= h + d /\ h + d <= maxTip => h \in S

NothingLeft ==
  /\ Complete(D(policy), swept)
  /\ policy.IndexRetention > 0 => Complete(policy.IndexRetention, freed)

(* GapFree: as long as no store call has failed, every spend band that has   *)
(* come to depth > D since the first OnNewBlock has been pruned, and every   *)
(* height that left the index window freed, however the tip moved ("a tip    *)
(* jump ... cannot leave skipped bands unpruned").                           *)
GapFree == hasTip /\ ~failed => NothingLeft
=============================================================================
