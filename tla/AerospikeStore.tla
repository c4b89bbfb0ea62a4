--------------------------- MODULE AerospikeStore ---------------------------
(***************************************************************************)
(* The Aerospike backend, store/aerospike/aerospike.go: each map is a set  *)
(* of records on the cluster and each method a few separate requests, any  *)
(* of which can fail: without effect, or in doubt (applied, but an error   *)
(* is returned).  A crash between two requests is an answer in doubt that  *)
(* nobody reads.  Some errors are returned to the caller (`told`), some    *)
(* are dropped by the code (`dropped`).  The ingestor is the only writer.  *)
(* The records outlive it: started again it puts and spends from the first *)
(* block on, over what the cluster kept, so any call can meet any record.  *)
(***************************************************************************)
EXTENDS Records

CONSTANTS Outpoint, BlockHash, Root, NoBlock

VARIABLES
  utxo,             \* set "utxo": outpoint -> record
  spentIdx,         \* set "spentidx": height -> outpoints of bin "ops"
  txindex,          \* set "txindex": txid -> height of its block
  heightIdx,        \* set "heightidx": height -> bins blk, subs, txids
  block,            \* set "block": hashes stored
  subtree,          \* set "subtree": roots stored
  header,           \* set "header": heights stored
  told,             \* outpoints and txids of calls that returned an error
  dropped,          \* those of a request whose failure the code ignored
  rewritten         \* outpoints put or spent while their record was spent

utxoVars == <<utxo, spentIdx>>
indexVars == <<txindex, heightIdx, block, subtree, header>>
aeroVars == <<utxoVars, indexVars, told, dropped, rewritten>>

NoEntry == [blk |-> NoBlock, subs |-> {}, txids |-> {}]

AeroInit ==
  /\ utxo = [op \in {} |-> Unspent]
  /\ spentIdx = [h \in Height |-> {}]
  /\ txindex = [t \in {} |-> 0] /\ heightIdx = [h \in Height |-> NoEntry]
  /\ block = {} /\ subtree = {} /\ header = {}
  /\ told = {} /\ dropped = {} /\ rewritten = {}

(* What a write request can come back with, and whether it took effect.      *)
Results == {"ok", "fails", "doubt"}
Applied(r) == r # "fails"

Tell(key, rs) == told' = IF rs = {"ok"} THEN told ELSE told \cup {key}
Drop(keys) == dropped' = dropped \cup keys

-----------------------------------------------------------------------------
(* The output records.                                                       *)

Record(op) == utxo[op]
Deindexed(op, r) ==
  IF Record(op).spent /\ Applied(r)
  THEN [spentIdx EXCEPT ![Record(op).spentHeight] = @ \ {op}] ELSE spentIdx
DropDeindex(op, r) == Drop(IF Record(op).spent /\ r = "fails" THEN {op} ELSE {})

(* The client's Put replaces a record without looking at it: the band of a   *)
(* record that was spent still lists it.                                     *)
Rewrite(op, put) ==
  rewritten' = IF op \in DOMAIN utxo /\ Record(op).spent /\ Applied(put)
               THEN rewritten \cup {op} ELSE rewritten

(* PutUTXO of an unspent record, the only kind the ingestor puts.            *)
PutUnspent(op, put) == utxo' = IF Applied(put) THEN Store(utxo, op, Unspent) ELSE utxo

PutUTXO(op, put) ==
  /\ PutUnspent(op, put)
  /\ Rewrite(op, put)
  /\ Tell(op, {put})
  /\ UNCHANGED <<spentIdx, indexVars, dropped>>

(* Mutant: the band is written first.                                        *)
SpendUTXOIndexFirst(op, by, h, put, append) ==
  /\ op \in DOMAIN utxo
  /\ spentIdx' = IF Applied(append) THEN [spentIdx EXCEPT ![h] = @ \cup {op}] ELSE spentIdx
  /\ utxo' = IF append = "ok" /\ Applied(put) THEN Store(utxo, op, SpentRec(by, h)) ELSE utxo
  /\ Tell(op, IF append = "ok" THEN {put} ELSE {append})
  /\ Rewrite(op, put)
  /\ UNCHANGED <<indexVars, dropped>>

(* Mutant: the append's error is not returned.                               *)
SpendUTXOUntold(op, by, h, put, append) ==
  /\ op \in DOMAIN utxo
  /\ utxo' = IF Applied(put) THEN Store(utxo, op, SpentRec(by, h)) ELSE utxo
  /\ spentIdx' = IF put = "ok" /\ Applied(append) THEN [spentIdx EXCEPT ![h] = @ \cup {op}] ELSE spentIdx
  /\ Tell(op, {put}) /\ Rewrite(op, put)
  /\ UNCHANGED <<indexVars, dropped>>

(* Read, put the record, then append to the band: the append is only made    *)
(* when the put has succeeded.                                               *)
SpendUTXO(op, by, h, put, append) ==
  /\ op \in DOMAIN utxo
  /\ utxo' = IF Applied(put) THEN Store(utxo, op, SpentRec(by, h)) ELSE utxo
  /\ spentIdx' = IF put = "ok" /\ Applied(append) THEN [spentIdx EXCEPT ![h] = @ \cup {op}] ELSE spentIdx
  /\ Tell(op, IF put = "ok" THEN {append} ELSE {put}) /\ Rewrite(op, put)
  /\ UNCHANGED <<indexVars, dropped>>

UnspendUTXO(op, deindex, put) ==
  /\ op \in DOMAIN utxo
  /\ spentIdx' = Deindexed(op, deindex)
  /\ PutUnspent(op, put)
  /\ DropDeindex(op, deindex) /\ Tell(op, {put})
  /\ UNCHANGED <<indexVars, rewritten>>

DeleteUTXO(op, deindex, delete) ==
  /\ op \in DOMAIN utxo
  /\ spentIdx' = Deindexed(op, deindex)
  /\ utxo' = IF Applied(delete) THEN Without(utxo, {op}) ELSE utxo
  /\ DropDeindex(op, deindex) /\ Tell(op, {delete})
  /\ UNCHANGED <<indexVars, rewritten>>

(* The read before any of these fails: nothing is written.                   *)
GetFails(op) ==
  /\ told' = told \cup {op}
  /\ UNCHANGED <<utxoVars, indexVars, dropped, rewritten>>

(* Every outpoint listed is deleted, whatever its record says; `lost` are    *)
(* the deletions that fail, which are not looked at, nor is that of the band. *)
PruneSpentAtHeight(h, lost, clear) ==
  /\ lost \subseteq spentIdx[h]
  /\ utxo' = Without(utxo, spentIdx[h] \ lost)
  /\ spentIdx' = IF Applied(clear) THEN [spentIdx EXCEPT ![h] = {}] ELSE spentIdx
  /\ Drop(lost \cup IF clear = "fails" THEN spentIdx[h] ELSE {})
  /\ UNCHANGED <<indexVars, told, rewritten>>

-----------------------------------------------------------------------------
(* The index records.  The ingestor stores mined entries only.               *)

PutTxIndex(t, h, put, append) ==
  /\ txindex' = IF Applied(put) THEN Store(txindex, t, h) ELSE txindex
  /\ heightIdx' = IF put = "ok" /\ Applied(append)
                  THEN [heightIdx EXCEPT ![h].txids = @ \cup {t}] ELSE heightIdx
  /\ Tell(t, IF put = "ok" THEN {append} ELSE {put})
  /\ UNCHANGED <<utxoVars, block, subtree, header, dropped, rewritten>>

DeleteTxIndex(t, delete) ==
  /\ txindex' = IF Applied(delete) THEN Without(txindex, {t}) ELSE txindex
  /\ Tell(t, {delete})
  /\ UNCHANGED <<utxoVars, heightIdx, block, subtree, header, dropped, rewritten>>

PutSubtree(r, put) ==
  /\ subtree' = IF Applied(put) THEN subtree \cup {r} ELSE subtree
  /\ UNCHANGED <<utxoVars, txindex, heightIdx, block, header, told, dropped, rewritten>>

(* Mutant: the height record is replaced, its txids with it.                 *)
PutBlockReplaces(b, h, subs, put, note) ==
  /\ block' = IF Applied(put) THEN block \cup {b} ELSE block
  /\ heightIdx' = IF put = "ok" /\ Applied(note)
                  THEN [heightIdx EXCEPT ![h] = [blk |-> b, subs |-> subs, txids |-> {}]] ELSE heightIdx
  /\ UNCHANGED <<utxoVars, txindex, subtree, header, told, dropped, rewritten>>

(* The second request writes the bins blk and subs and leaves txids.         *)
PutBlock(b, h, subs, put, note) ==
  /\ block' = IF Applied(put) THEN block \cup {b} ELSE block
  /\ heightIdx' = IF put = "ok" /\ Applied(note)
                  THEN [heightIdx EXCEPT ![h].blk = b, ![h].subs = subs] ELSE heightIdx
  /\ UNCHANGED <<utxoVars, txindex, subtree, header, told, dropped, rewritten>>

PutHeader(h, put) ==
  /\ header' = IF Applied(put) THEN header \cup {h} ELSE header
  /\ UNCHANGED <<utxoVars, txindex, heightIdx, block, subtree, told, dropped, rewritten>>

(* The deletions that fail are not looked at, and the height record, which   *)
(* lists what they left, is deleted all the same.                            *)
PruneIndexAtHeight(h, lostTxs, clear) ==
  /\ lostTxs \subseteq heightIdx[h].txids
  /\ \E lost \in SUBSET {"block", "subtrees", "header"} :
       /\ block' = IF "block" \in lost THEN block ELSE block \ {heightIdx[h].blk}
       /\ subtree' = IF "subtrees" \in lost THEN subtree ELSE subtree \ heightIdx[h].subs
       /\ header' = IF "header" \in lost THEN header ELSE header \ {h}
  /\ txindex' = Without(txindex, heightIdx[h].txids \ lostTxs)
  /\ heightIdx' = IF Applied(clear) THEN [heightIdx EXCEPT ![h] = NoEntry] ELSE heightIdx
  /\ Drop(lostTxs)
  /\ UNCHANGED <<utxoVars, told, rewritten>>

UtxoNext ==
  \/ \E op \in Outpoint, r \in Results : PutUTXO(op, r)
  \/ \E op \in Outpoint, by \in TxId, h \in Height, r, q \in Results : SpendUTXO(op, by, h, r, q)
  \/ \E op \in Outpoint, r, q \in Results : UnspendUTXO(op, r, q)
  \/ \E op \in Outpoint, r, q \in Results : DeleteUTXO(op, r, q)
  \/ \E op \in Outpoint : GetFails(op)
  \/ \E h \in Height, r \in Results : \E lost \in SUBSET spentIdx[h] : PruneSpentAtHeight(h, lost, r)

IndexNext ==
  \/ \E t \in TxId, h \in Height, r, q \in Results : PutTxIndex(t, h, r, q)
  \/ \E t \in TxId, r \in Results : DeleteTxIndex(t, r)
  \/ \E x \in Root, r \in Results : PutSubtree(x, r)
  \/ \E b \in BlockHash, h \in Height, r, q \in Results : PutBlock(b, h, Root, r, q)
  \/ \E h \in Height, r \in Results : PutHeader(h, r)
  \/ \E h \in Height, r \in Results : \E lost \in SUBSET heightIdx[h].txids : PruneIndexAtHeight(h, lost, r)

AeroNext == UtxoNext \/ IndexNext

AeroSpec == AeroInit /\ [][AeroNext]_aeroVars

-----------------------------------------------------------------------------
(* The prune looks at no record, so it relies on the bands: an outpoint      *)
(* listed at h is a record spent at h.  No error that a caller was told of   *)
(* breaks this.  A prune can delete a live output only after a failure that  *)
(* the code ignored, or after a put or spend over a record that was spent.   *)
BandsSound ==
  \A h \in Height : \A op \in spentIdx[h] \ (dropped \cup rewritten) :
    op \in DOMAIN utxo /\ Record(op).spent /\ Record(op).spentHeight = h

(* aerospike.go:3, "mirrors the in-memory reference (store/mem) record-for-  *)
(* record": with no request failing, a prune deletes what the reference      *)
(* deletes, the records of the band that are spent at its height.  It does   *)
(* not: an output put again over its spent record is deleted while unspent.  *)
PruneMirrorsReference ==
  told = {} /\ dropped = {} =>
    \A h \in Height : \A op \in spentIdx[h] \cap DOMAIN utxo :
      Record(op).spent /\ Record(op).spentHeight = h

(* A spent record is listed in its band and will be pruned, unless a call on *)
(* it returned an error or a failure was ignored.                            *)
BandsComplete ==
  \A op \in DOMAIN utxo \ (told \cup dropped) :
    Record(op).spent => op \in spentIdx[Record(op).spentHeight]

(* An index entry is listed under its height and will be freed, unless a     *)
(* call on it returned an error or its deletion failed unnoticed.            *)
TxListed ==
  \A t \in DOMAIN txindex \ (told \cup dropped) : t \in heightIdx[txindex[t]].txids
=============================================================================
