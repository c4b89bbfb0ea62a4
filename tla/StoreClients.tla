---------------------------- MODULE StoreClients ----------------------------
(***************************************************************************)
(* The output records of the in-memory store under concurrent callers:     *)
(* "all methods are safe for concurrent use" (store/store.go), so any call *)
(* may follow any other with any arguments, and calls run between the      *)
(* stripes of a prune, other prunes among them.  The index records are     *)
(* other maps, which no call on an output touches.                         *)
(***************************************************************************)
EXTENDS MemStore

CONSTANT Pruners    \* the callers that prune

VARIABLE pruner     \* those in a call -> the height and the next stripe

clientVars == <<storeVars, pruner>>

ClientsInit == StoreInit /\ pruner = [c \in {} |-> 0]

PutOut == \E op \in Outpoint, u \in UTXORec : PutUTXO(op, u)
Spend == \E op \in Outpoint, by \in TxId, h \in Height : SpendUTXO(op, by, h)
Unspend == \E op \in Outpoint : UnspendUTXO(op)
DelOut == \E op \in Outpoint : DeleteUTXO(op)
Call == (PutOut \/ Spend \/ Unspend \/ DelOut) /\ UNCHANGED pruner

BeginPrune(c, h) ==
  /\ c \notin DOMAIN pruner
  /\ pruner' = Store(pruner, c, [h |-> h, next |-> 0])
  /\ UNCHANGED storeVars

PruneNext(c) ==
  /\ pruner[c].next < StripeCount
  /\ PruneStripe(pruner[c].h, pruner[c].next)
  /\ pruner' = [pruner EXCEPT ![c].next = @ + 1]

EndPrune(c) ==
  /\ pruner[c].next = StripeCount
  /\ pruner' = Without(pruner, {c})
  /\ UNCHANGED storeVars

ClientsNext ==
  \/ Call
  \/ \E c \in Pruners, h \in Height : BeginPrune(c, h)
  \/ \E c \in DOMAIN pruner : PruneNext(c)
  \/ \E c \in DOMAIN pruner : EndPrune(c)

ClientsSpec == ClientsInit /\ [][ClientsNext]_clientVars

-----------------------------------------------------------------------------
(* The output records, the prune bands and the running prunes have their    *)
(* types.                                                                   *)
TypeOK ==
  /\ DOMAIN utxo \subseteq Outpoint
  /\ \A op \in DOMAIN utxo : utxo[op] \in UTXORec
  /\ utxo = [op \in DOMAIN utxo |-> utxo[op]]
  /\ spentIdx \in [Height -> SUBSET Outpoint]
  /\ DOMAIN pruner \subseteq Pruners
  /\ \A c \in DOMAIN pruner : pruner[c] \in [h : Height, next : 0 .. StripeCount]
  /\ pruner = [c \in DOMAIN pruner |-> pruner[c]]

(* BandComplete: every spent record stands in the prune band of the height  *)
(* it was spent at, whatever calls came before (re-spends at another        *)
(* height, overwrites, rollbacks, prunes that are not over).  A spent       *)
(* record outside its band would never be found by PruneSpentAtHeight and   *)
(* would leak.                                                              *)
BandComplete ==
  \A op \in DOMAIN utxo :
    utxo[op].spent => op \in spentIdx[utxo[op].spentHeight]

(* What a running prune still owes: the records spent at its height in the  *)
(* stripes to come.                                                         *)
Due(c) ==
  {op \in DOMAIN utxo :
     /\ utxo[op].spent /\ utxo[op].spentHeight = pruner[c].h
     /\ striperOf[op[1]] >= pruner[c].next}

(* A slice is a stripe.                                                     *)
Running ==
  [c \in DOMAIN pruner |-> [h |-> pruner[c].h, due |-> Due(c), slices |-> pruner[c].next]]

Contract == INSTANCE SpendContract WITH running <- Running

(* ContractHolds: although a prune lets go of the store between stripes,    *)
(* and a band may hold stale outpoints (re-spent at another height,         *)
(* overwritten as unspent, deleted), it deletes only records spent at its   *)
(* height and misses none that stood from its beginning to its end: the     *)
(* store implements SpendContract.                                          *)
ContractHolds == Contract!Spec
=============================================================================
