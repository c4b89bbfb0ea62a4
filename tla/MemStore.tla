------------------------------ MODULE MemStore ------------------------------
(***************************************************************************)
(* The in-memory backend, store/mem: the maps of the stripes and of the    *)
(* Store, and one action per exported method that changes them.  The       *)
(* stripes partition the keys by their first byte.  A call on one output   *)
(* holds its stripe's lock throughout, so it is one step;                  *)
(* PruneSpentAtHeight locks the stripes one after the other and is one     *)
(* step per stripe.  PutTxIndex and PutBlock lock the stripe and then imu, *)
(* under which only hidx is touched: hidx is read by PruneIndexAtHeight    *)
(* alone, which runs in the goroutine that makes those calls, so no one    *)
(* can see the store between the two.                                      *)
(***************************************************************************)
EXTENDS Records

CONSTANTS
  Vout,             \* output numbers
  StripeCount,      \* 256 in the code
  striperOf,        \* txid -> its first byte
  BlockHash,        \* block hashes
  Root,             \* subtree roots
  Leaves,           \* the leaf sequences a subtree can have
  NoBlock           \* the zero hash as a block

ASSUME HeightAssumption == Height \subseteq Nat /\ 0 \in Height
ASSUME ZeroHashAssumption == NoTx \notin TxId /\ NoBlock \notin BlockHash
ASSUME StripeAssumption ==
  StripeCount \in Nat /\ striperOf \in [TxId -> 0 .. StripeCount - 1]

VARIABLES
  txindex,          \* txid -> where the transaction was mined
  utxo,             \* outpoint -> its output, unspent or recently spent
  spentIdx,         \* spentHeight -> outpoints spent there (prune bands)
  subtree,          \* subtree root -> its leaves
  blocks,           \* block hash -> block record
  hdr,              \* height -> header
  hidx              \* height -> the records stored for it (heightEntry)

utxoVars == <<utxo, spentIdx>>
indexVars == <<txindex, subtree, blocks, hdr, hidx>>
storeVars == <<txindex, utxo, spentIdx, subtree, blocks, hdr, hidx>>

Outpoint == TxId \X Vout

(* store.TxIndex; block times and SeenTime are left out.                   *)
TxIndexRec ==
  [mined : BOOLEAN, block : BlockHash \cup {NoBlock}, height : Height,
   si : Nat, li : Nat]

(* heightEntry: block is NoBlock while hasBlock is false; the txids and     *)
(* subtrees lists are only ever walked to delete, so they are sets.         *)
HeightEntry ==
  [block : BlockHash \cup {NoBlock}, subtrees : SUBSET Root, txids : SUBSET TxId]

EntryAt(h) ==
  IF h \in DOMAIN hidx THEN hidx[h]
  ELSE [block |-> NoBlock, subtrees |-> {}, txids |-> {}]

StoreInit ==
  /\ txindex = [t \in {} |-> NoTx]
  /\ utxo = [op \in {} |-> Unspent]
  /\ spentIdx = [h \in Height |-> {}]
  /\ subtree = [r \in {} |-> <<>>]
  /\ blocks = [b \in {} |-> NoBlock]
  /\ hdr = [h \in {} |-> NoBlock]
  /\ hidx = [h \in {} |-> NoBlock]

-----------------------------------------------------------------------------
(* Index records.                                                          *)

PutTxIndex(txid, ix) ==
  /\ txindex' = Store(txindex, txid, ix)
  /\ hidx' = IF ix.mined /\ txid \notin DOMAIN txindex
               THEN Store(hidx, ix.height,
                          [EntryAt(ix.height) EXCEPT !.txids = @ \cup {txid}])
               ELSE hidx
  /\ UNCHANGED <<utxo, spentIdx, subtree, blocks, hdr>>

DeleteTxIndex(txid) ==
  /\ txindex' = Without(txindex, {txid})
  /\ UNCHANGED <<utxo, spentIdx, subtree, blocks, hdr, hidx>>

PutSubtree(root, leaves) ==
  /\ subtree' = Store(subtree, root, leaves)
  /\ UNCHANGED <<txindex, utxo, spentIdx, blocks, hdr, hidx>>

(* Mutant: the height entry does not get the block's subtrees.               *)
PutBlockWithoutSubtrees(b, rec) ==
  /\ blocks' = Store(blocks, b, rec)
  /\ hidx' = Store(hidx, rec.height, [EntryAt(rec.height) EXCEPT !.block = b])
  /\ UNCHANGED <<txindex, utxo, spentIdx, subtree, hdr>>

(* rec is a store.BlockRec: at least its height and its SubtreeRoots.        *)
PutBlock(b, rec) ==
  /\ blocks' = Store(blocks, b, rec)
  /\ hidx' = Store(hidx, rec.height,
                   [EntryAt(rec.height) EXCEPT
                      !.block = b,
                      !.subtrees = {rec.roots[i] : i \in DOMAIN rec.roots}])
  /\ UNCHANGED <<txindex, utxo, spentIdx, subtree, hdr>>

(* Mutant: the first header of a height is kept.                             *)
PutHeaderOnce(height, header) ==
  /\ hdr' = IF height \in DOMAIN hdr THEN hdr ELSE Store(hdr, height, header)
  /\ UNCHANGED <<txindex, utxo, spentIdx, subtree, blocks, hidx>>

PutHeader(height, header) ==
  /\ hdr' = Store(hdr, height, header)
  /\ UNCHANGED <<txindex, utxo, spentIdx, subtree, blocks, hidx>>

-----------------------------------------------------------------------------
(* Output records and the prune bands.  A band that is the empty set is one *)
(* deindexSpent has deleted.                                               *)

IndexSpent(idx, op, h) == [idx EXCEPT ![h] = @ \cup {op}]
DeindexSpent(idx, op, h) == [idx EXCEPT ![h] = @ \ {op}]

PutUTXO(op, u) ==
  /\ utxo' = Store(utxo, op, u)
  /\ spentIdx' = IF u.spent THEN IndexSpent(spentIdx, op, u.spentHeight) ELSE spentIdx
  /\ UNCHANGED indexVars

(* Mutant: a record already spent is not indexed again.                      *)
SpendUTXOIndexedOnce(op, by, h) ==
  /\ IF op \in DOMAIN utxo
       THEN /\ utxo' = Store(utxo, op, SpentRec(by, h))
            /\ spentIdx' = IF utxo[op].spent THEN spentIdx ELSE IndexSpent(spentIdx, op, h)
       ELSE UNCHANGED utxoVars
  /\ UNCHANGED indexVars

(* SpendUTXO leaves the band of an earlier spend of op as it is.            *)
SpendUTXO(op, by, h) ==
  /\ IF op \in DOMAIN utxo
       THEN /\ utxo' = Store(utxo, op, SpentRec(by, h))
            /\ spentIdx' = IndexSpent(spentIdx, op, h)
       ELSE UNCHANGED utxoVars
  /\ UNCHANGED indexVars

Deindexed(op) ==
  IF utxo[op].spent THEN DeindexSpent(spentIdx, op, utxo[op].spentHeight) ELSE spentIdx

UnspendUTXO(op) ==
  /\ IF op \in DOMAIN utxo
       THEN /\ utxo' = Store(utxo, op, Unspent)
            /\ spentIdx' = Deindexed(op)
       ELSE UNCHANGED utxoVars
  /\ UNCHANGED indexVars

DeleteUTXO(op) ==
  /\ IF op \in DOMAIN utxo
       THEN /\ utxo' = Without(utxo, {op})
            /\ spentIdx' = Deindexed(op)
       ELSE UNCHANGED utxoVars
  /\ UNCHANGED indexVars

(* The part of band h that lies in stripe s.                                *)
Band(h, s) == {op \in spentIdx[h] : striperOf[op[1]] = s}

(* Mutant: the whole band goes, stale entries included.                      *)
PrunableUnguarded(h, s) == Band(h, s)

(* Its outpoints that still are spends at h.                                *)
Prunable(h, s) ==
  {op \in Band(h, s) : op \in DOMAIN utxo /\ utxo[op].spent /\ utxo[op].spentHeight = h}

(* PruneSpentAtHeight while it holds the lock of stripe s.                  *)
PruneStripe(h, s) ==
  /\ utxo' = Without(utxo, Prunable(h, s))
  /\ spentIdx' = [spentIdx EXCEPT ![h] = @ \ Band(h, s)]
  /\ UNCHANGED indexVars

-----------------------------------------------------------------------------
(* PruneIndexAtHeight takes the height's entry under imu and then deletes   *)
(* the block, the subtrees, the transactions and the header, each under a   *)
(* lock of its own; a concurrent reader can see the steps between.          *)

TakeHeightEntry(h) ==
  /\ hidx' = Without(hidx, {h})
  /\ UNCHANGED <<txindex, utxo, spentIdx, subtree, blocks, hdr>>

DropBlock(e) ==
  /\ blocks' = Without(blocks, {e.block})
  /\ UNCHANGED <<txindex, utxo, spentIdx, subtree, hdr, hidx>>

DropSubtrees(e) ==
  /\ subtree' = Without(subtree, e.subtrees)
  /\ UNCHANGED <<txindex, utxo, spentIdx, blocks, hdr, hidx>>

DropTxs(e) ==
  /\ txindex' = Without(txindex, e.txids)
  /\ UNCHANGED <<utxo, spentIdx, subtree, blocks, hdr, hidx>>

DropHeader(h) ==
  /\ hdr' = Without(hdr, {h})
  /\ UNCHANGED <<txindex, utxo, spentIdx, subtree, blocks, hidx>>
=============================================================================
