-------------------------- MODULE AerospikeProofs --------------------------
(***************************************************************************)
(* Proofs about the Aerospike backend, for any keys and heights and any    *)
(* requests that fail.                                                     *)
(***************************************************************************)
EXTENDS AerospikeStore, TLAPS

(* Bands and height records exist for heights, and records name heights.     *)
UtxoType ==
  /\ spentIdx \in [Height -> SUBSET Outpoint]
  /\ \A op \in DOMAIN utxo : Record(op).spent => Record(op).spentHeight \in Height

HeightRec == [blk : BlockHash \cup {NoBlock}, subs : SUBSET Root, txids : SUBSET TxId]
IndexType ==
  /\ heightIdx \in [Height -> HeightRec]
  /\ \A t \in DOMAIN txindex : txindex[t] \in Height

UtxoInv == UtxoType /\ BandsSound /\ BandsComplete
IndexInv == IndexType /\ TxListed
IInv == UtxoInv /\ IndexInv

(* What went wrong with a key is remembered: the three sets only grow.       *)
Remembered == told \subseteq told' /\ dropped \subseteq dropped' /\ rewritten \subseteq rewritten'

LEMMA RecordFacts ==
  /\ ~Unspent.spent
  /\ \A by, h : SpentRec(by, h).spent /\ SpentRec(by, h).spentHeight = h
  BY DEF Unspent, SpentRec

LEMMA TellGrows == ASSUME NEW key, NEW rs, Tell(key, rs)
                   PROVE  told \subseteq told' /\ (rs # {"ok"} => key \in told')
  BY DEF Tell

LEMMA DropGrows == ASSUME NEW K, Drop(K)
                   PROVE  dropped \subseteq dropped' /\ K \subseteq dropped'
  BY DEF Drop

LEMMA RewriteGrows ==
  ASSUME NEW op, NEW r, Rewrite(op, r)
  PROVE  /\ rewritten \subseteq rewritten'
         /\ op \in DOMAIN utxo /\ utxo[op].spent /\ Applied(r) => op \in rewritten'
  BY DEF Rewrite, Record

(* What happens to one half leaves the invariant of the other.               *)
LEMMA UtxoFrame == UtxoInv /\ UNCHANGED utxoVars /\ Remembered => UtxoInv'
  BY DEF UtxoInv, UtxoType, BandsSound, BandsComplete, Record, utxoVars, Remembered

LEMMA IndexFrame == IndexInv /\ UNCHANGED indexVars /\ Remembered => IndexInv'
  BY DEF IndexInv, IndexType, TxListed, indexVars, Remembered

LEMMA InitInv == AeroInit => IInv
  <1> SUFFICES ASSUME AeroInit PROVE IInv
    OBVIOUS
  <1>1. DOMAIN utxo = {} /\ spentIdx = [h \in Height |-> {}]
    BY DEF AeroInit
  <1>2. UtxoInv
    BY <1>1 DEF UtxoInv, UtxoType, BandsSound, BandsComplete
  <1>3. IndexInv
    BY DEF AeroInit, IndexInv, IndexType, TxListed, HeightRec, NoEntry
  <1> QED
    BY <1>2, <1>3 DEF IInv

-----------------------------------------------------------------------------
LEMMA PutStep ==
  ASSUME UtxoInv, NEW op \in Outpoint, NEW r \in Results, PutUTXO(op, r)
  PROVE  UtxoInv' /\ UNCHANGED indexVars /\ Remembered
  <1>1. UNCHANGED indexVars /\ Remembered /\ spentIdx' = spentIdx
    BY TellGrows, RewriteGrows DEF PutUTXO, Remembered
  <1>2. CASE ~Applied(r)
    BY <1>1, <1>2, UtxoFrame DEF PutUTXO, PutUnspent, utxoVars
  <1>3. CASE Applied(r)
    <2>1. /\ DOMAIN utxo' = DOMAIN utxo \cup {op} /\ ~utxo'[op].spent
          /\ \A y \in DOMAIN utxo : y # op => utxo'[y] = utxo[y]
      <3>1. utxo' = Store(utxo, op, Unspent)
        BY <1>3 DEF PutUTXO, PutUnspent
      <3>2. DOMAIN utxo' = DOMAIN utxo \cup {op} /\ utxo'[op] = Unspent
        BY <3>1 DEF Store
      <3>3. \A y \in DOMAIN utxo : y # op => utxo'[y] = utxo[y]
        BY <3>1 DEF Store
      <3> QED
        BY <3>1, <3>2, <3>3, RecordFacts
    <2>2. \A g \in Height : op \in spentIdx[g] => op \in dropped' \cup rewritten'
      <3>1. Rewrite(op, r)
        BY DEF PutUTXO
      <3> QED
        BY <1>1, <1>3, <3>1, RewriteGrows DEF UtxoInv, BandsSound, Record, Remembered
    <2>3. UtxoType' /\ BandsComplete'
      BY <1>1, <2>1 DEF UtxoInv, UtxoType, BandsComplete, Record, Remembered
    <2>4. BandsSound'
      BY <1>1, <2>1, <2>2 DEF UtxoInv, BandsSound, Record, Remembered
    <2> QED
      BY <1>1, <2>3, <2>4 DEF UtxoInv
  <1> QED
    BY <1>2, <1>3, <1>1

LEMMA SpendStep ==
  ASSUME UtxoInv, NEW op \in Outpoint, NEW by \in TxId, NEW h \in Height,
         NEW r \in Results, NEW q \in Results, SpendUTXO(op, by, h, r, q)
  PROVE  UtxoInv' /\ UNCHANGED indexVars /\ Remembered
  <1>1. /\ UNCHANGED indexVars /\ Remembered /\ dropped' = dropped
        /\ r # "ok" => op \in told'
        /\ r = "ok" /\ q # "ok" => op \in told'
    BY RewriteGrows DEF SpendUTXO, Remembered, Tell
  <1>2. CASE ~Applied(r)
    BY <1>1, <1>2, UtxoFrame DEF SpendUTXO, Applied, utxoVars
  <1>3. CASE Applied(r)
    <2>1. /\ op \in DOMAIN utxo /\ DOMAIN utxo' = DOMAIN utxo
          /\ utxo'[op].spent /\ utxo'[op].spentHeight = h
          /\ \A y \in DOMAIN utxo : y # op => utxo'[y] = utxo[y]
      <3>1. op \in DOMAIN utxo /\ utxo' = Store(utxo, op, SpentRec(by, h))
        BY <1>3 DEF SpendUTXO, Record
      <3>2. DOMAIN utxo' = DOMAIN utxo \cup {op} /\ utxo'[op] = SpentRec(by, h)
        BY <3>1 DEF Store
      <3>3. \A y \in DOMAIN utxo : y # op => utxo'[y] = utxo[y]
        BY <3>1 DEF Store
      <3> QED
        BY <3>1, <3>2, <3>3, RecordFacts
    <2>2. /\ spentIdx' \in [Height -> SUBSET Outpoint]
          /\ \A g \in Height : spentIdx[g] \subseteq spentIdx'[g]
          /\ \A g \in Height : spentIdx'[g] \subseteq spentIdx[g] \cup {op}
          /\ \A g \in Height : g # h => spentIdx'[g] = spentIdx[g]
          /\ op \in spentIdx'[h] \/ op \in told'
      BY <1>1 DEF SpendUTXO, UtxoInv, UtxoType, Applied
    <2>3. \A g \in Height : op \in spentIdx[g] => op \in dropped' \cup rewritten'
      <3>1. Rewrite(op, r)
        BY DEF SpendUTXO
      <3> QED
        BY <1>1, <1>3, <3>1, RewriteGrows DEF UtxoInv, BandsSound, Record, Remembered
    <2>4. UtxoType'
      BY <2>1, <2>2 DEF UtxoInv, UtxoType, Record
    <2>5. BandsSound'
      BY <1>1, <2>1, <2>2, <2>3 DEF UtxoInv, BandsSound, Record, Remembered
    <2>6. BandsComplete'
      BY <1>1, <2>1, <2>2 DEF UtxoInv, UtxoType, BandsComplete, Record, Remembered
    <2> QED
      BY <1>1, <2>4, <2>5, <2>6 DEF UtxoInv
  <1> QED
    BY <1>2, <1>3, <1>1

(* Removing an outpoint from its band: it is then in no band, unless the     *)
(* request failed and the failure was dropped, or it had been rewritten.     *)
LEMMA Deindexing ==
  ASSUME UtxoInv, NEW op \in DOMAIN utxo, NEW r \in Results,
         spentIdx' = Deindexed(op, r), DropDeindex(op, r), rewritten' = rewritten
  PROVE  /\ spentIdx' \in [Height -> SUBSET Outpoint]
         /\ \A g \in Height : spentIdx'[g] \subseteq spentIdx[g]
         /\ \A g \in Height : spentIdx[g] \subseteq spentIdx'[g] \cup {op}
         /\ dropped \subseteq dropped'
         /\ \A g \in Height : op \in spentIdx'[g] => op \in dropped' \cup rewritten'
  <1>1. dropped \subseteq dropped' /\ (utxo[op].spent /\ ~Applied(r) => op \in dropped')
    BY DEF DropDeindex, Drop, Applied, Record
  <1>2. /\ spentIdx' \in [Height -> SUBSET Outpoint]
        /\ \A g \in Height : spentIdx'[g] \subseteq spentIdx[g]
        /\ \A g \in Height : spentIdx[g] \subseteq spentIdx'[g] \cup {op}
    BY DEF Deindexed, UtxoInv, UtxoType, Record
  <1>3. ASSUME NEW g \in Height, op \in spentIdx'[g], op \notin dropped' \cup rewritten'
        PROVE  FALSE
    <2>1. utxo[op].spent /\ utxo[op].spentHeight = g
      BY <1>1, <1>2, <1>3 DEF UtxoInv, BandsSound, Record
    <2>2. Applied(r)
      BY <1>1, <1>3, <2>1
    <2> QED
      BY <1>3, <2>1, <2>2 DEF Deindexed, Record, UtxoInv, UtxoType
  <1> QED
    BY <1>1, <1>2, <1>3

LEMMA UnspendStep ==
  ASSUME UtxoInv, NEW op \in Outpoint, NEW r \in Results, NEW q \in Results, UnspendUTXO(op, r, q)
  PROVE  UtxoInv' /\ UNCHANGED indexVars /\ Remembered
  <1>1. /\ op \in DOMAIN utxo /\ UNCHANGED <<indexVars, rewritten>> /\ told \subseteq told'
        /\ ~Applied(q) => op \in told'
    BY TellGrows DEF UnspendUTXO, Applied
  <1>2. /\ spentIdx' \in [Height -> SUBSET Outpoint]
        /\ \A g \in Height : spentIdx'[g] \subseteq spentIdx[g]
        /\ \A g \in Height : spentIdx[g] \subseteq spentIdx'[g] \cup {op}
        /\ dropped \subseteq dropped'
        /\ \A g \in Height : op \in spentIdx'[g] => op \in dropped' \cup rewritten'
    BY <1>1, Deindexing DEF UnspendUTXO
  <1>3. /\ DOMAIN utxo' = DOMAIN utxo
        /\ \A y \in DOMAIN utxo : y # op => utxo'[y] = utxo[y]
        /\ utxo'[op] = utxo[op] \/ ~utxo'[op].spent
        /\ utxo'[op].spent => op \in told'
    <2>1. CASE ~Applied(q)
      BY <1>1, <2>1 DEF UnspendUTXO, PutUnspent
    <2>2. CASE Applied(q)
      <3>1. utxo' = Store(utxo, op, Unspent)
        BY <2>2 DEF UnspendUTXO, PutUnspent
      <3>2. DOMAIN utxo' = DOMAIN utxo \cup {op} /\ utxo'[op] = Unspent
        BY <3>1 DEF Store
      <3>3. \A y \in DOMAIN utxo : y # op => utxo'[y] = utxo[y]
        BY <3>1 DEF Store
      <3> QED
        BY <1>1, <3>2, <3>3, RecordFacts
    <2> QED
      BY <2>1, <2>2
  <1>4. UtxoType' /\ BandsSound'
    BY <1>1, <1>2, <1>3 DEF UtxoInv, UtxoType, BandsSound, Record
  <1>5. BandsComplete'
    BY <1>1, <1>2, <1>3 DEF UtxoInv, UtxoType, BandsComplete, Record
  <1> QED
    BY <1>1, <1>2, <1>4, <1>5 DEF UtxoInv, Remembered

LEMMA DeleteStep ==
  ASSUME UtxoInv, NEW op \in Outpoint, NEW r \in Results, NEW q \in Results, DeleteUTXO(op, r, q)
  PROVE  UtxoInv' /\ UNCHANGED indexVars /\ Remembered
  <1>1. /\ op \in DOMAIN utxo /\ UNCHANGED <<indexVars, rewritten>> /\ told \subseteq told'
        /\ ~Applied(q) => op \in told'
    BY TellGrows DEF DeleteUTXO, Applied
  <1>2. /\ spentIdx' \in [Height -> SUBSET Outpoint]
        /\ \A g \in Height : spentIdx'[g] \subseteq spentIdx[g]
        /\ \A g \in Height : spentIdx[g] \subseteq spentIdx'[g] \cup {op}
        /\ dropped \subseteq dropped'
        /\ \A g \in Height : op \in spentIdx'[g] => op \in dropped' \cup rewritten'
    BY <1>1, Deindexing DEF DeleteUTXO
  <1>3. /\ DOMAIN utxo' \subseteq DOMAIN utxo /\ DOMAIN utxo \subseteq DOMAIN utxo' \cup {op}
        /\ \A y \in DOMAIN utxo' : utxo'[y] = utxo[y]
        /\ op \in DOMAIN utxo' => op \in told'
    <2>1. CASE ~Applied(q)
      BY <1>1, <2>1 DEF DeleteUTXO
    <2>2. CASE Applied(q)
      <3>1. utxo' = Without(utxo, {op})
        BY <2>2 DEF DeleteUTXO
      <3>2. DOMAIN utxo' = DOMAIN utxo \ {op} /\ \A y \in DOMAIN utxo \ {op} : utxo'[y] = utxo[y]
        BY <3>1 DEF Without
      <3> QED
        BY <3>2
    <2> QED
      BY <2>1, <2>2
  <1>4. UtxoType' /\ BandsSound'
    BY <1>1, <1>2, <1>3 DEF UtxoInv, UtxoType, BandsSound, Record
  <1>5. BandsComplete'
    BY <1>1, <1>2, <1>3 DEF UtxoInv, UtxoType, BandsComplete, Record
  <1> QED
    BY <1>1, <1>2, <1>4, <1>5 DEF UtxoInv, Remembered

LEMMA PruneStep ==
  ASSUME UtxoInv, NEW h \in Height, NEW lost \in SUBSET spentIdx[h], NEW r \in Results,
         PruneSpentAtHeight(h, lost, r)
  PROVE  UtxoInv' /\ UNCHANGED indexVars /\ Remembered
  <1>1. /\ UNCHANGED <<indexVars, told, rewritten>> /\ dropped \subseteq dropped' /\ lost \subseteq dropped'
        /\ ~Applied(r) => spentIdx[h] \subseteq dropped'
    BY DEF PruneSpentAtHeight, Drop, Applied
  <1>2. /\ DOMAIN utxo' = DOMAIN utxo \ (spentIdx[h] \ lost)
        /\ \A y \in DOMAIN utxo' : utxo'[y] = utxo[y]
    <2>1. utxo' = Without(utxo, spentIdx[h] \ lost)
      BY DEF PruneSpentAtHeight
    <2> QED
      BY <2>1 DEF Without
  <1>3. /\ spentIdx' \in [Height -> SUBSET Outpoint]
        /\ \A g \in Height : g # h => spentIdx'[g] = spentIdx[g]
        /\ spentIdx'[h] = spentIdx[h] \/ spentIdx'[h] = {}
        /\ spentIdx'[h] \subseteq dropped'
    BY <1>1 DEF PruneSpentAtHeight, UtxoInv, UtxoType
  <1>4. UtxoType'
    BY <1>2, <1>3 DEF UtxoInv, UtxoType, Record
  <1>5. BandsSound'
    (* An outpoint of another band that is not dropped is spent at that      *)
    (* band's height, so it is not in the band pruned.                       *)
    <2> SUFFICES ASSUME NEW g \in Height, NEW op \in spentIdx'[g], op \notin dropped' \cup rewritten'
                 PROVE  op \in DOMAIN utxo' /\ utxo'[op].spent /\ utxo'[op].spentHeight = g
      BY DEF BandsSound, Record
    <2>1. g # h /\ op \in spentIdx[g] /\ op \notin dropped \cup rewritten
      BY <1>1, <1>3
    <2>2. op \in DOMAIN utxo /\ utxo[op].spent /\ utxo[op].spentHeight = g
      BY <2>1 DEF UtxoInv, BandsSound, Record
    <2>3. op \notin spentIdx[h]
      BY <2>1, <2>2 DEF UtxoInv, BandsSound, Record
    <2> QED
      BY <1>2, <2>2, <2>3
  <1>6. BandsComplete'
    <2> SUFFICES ASSUME NEW op \in DOMAIN utxo', op \notin told', op \notin dropped', utxo'[op].spent
                 PROVE  op \in spentIdx'[utxo'[op].spentHeight]
      BY DEF BandsComplete, Record
    <2>1. /\ op \in DOMAIN utxo /\ utxo'[op] = utxo[op] /\ op \notin spentIdx[h]
          /\ op \notin told /\ op \notin dropped
      BY <1>1, <1>2
    <2>2. op \in spentIdx[utxo[op].spentHeight] /\ utxo[op].spentHeight \in Height
      BY <2>1 DEF UtxoInv, UtxoType, BandsComplete, Record
    <2> QED
      BY <1>3, <2>1, <2>2
  <1> QED
    BY <1>1, <1>4, <1>5, <1>6 DEF UtxoInv, Remembered

LEMMA UtxoStep == ASSUME UtxoInv, UtxoNext PROVE UtxoInv' /\ UNCHANGED indexVars /\ Remembered
  <1>1. ASSUME NEW op \in Outpoint, GetFails(op) PROVE UtxoInv' /\ UNCHANGED indexVars /\ Remembered
    BY <1>1, UtxoFrame DEF GetFails, Remembered
  <1> QED
    BY <1>1, PutStep, SpendStep, UnspendStep, DeleteStep, PruneStep DEF UtxoNext

-----------------------------------------------------------------------------
LEMMA PutTxStep ==
  ASSUME IndexInv, NEW t \in TxId, NEW h \in Height, NEW r \in Results, NEW q \in Results,
         PutTxIndex(t, h, r, q)
  PROVE  IndexInv' /\ UNCHANGED utxoVars /\ Remembered
  <1>1. /\ UNCHANGED utxoVars /\ Remembered /\ dropped' = dropped
        /\ r # "ok" => t \in told'
        /\ r = "ok" /\ q # "ok" => t \in told'
    BY DEF PutTxIndex, Remembered, Tell
  <1>2. /\ heightIdx' \in [Height -> HeightRec]
        /\ \A g \in Height : heightIdx[g].txids \subseteq heightIdx'[g].txids
        /\ t \in heightIdx'[h].txids \/ t \in told'
    <2>1. CASE r = "ok" /\ Applied(q)
      <3>1. heightIdx' = [heightIdx EXCEPT ![h].txids = @ \cup {t}]
        BY <2>1 DEF PutTxIndex
      <3> QED
        BY <3>1 DEF IndexInv, IndexType, HeightRec
    <2>2. CASE ~(r = "ok" /\ Applied(q))
      BY <1>1, <2>2 DEF PutTxIndex, IndexInv, IndexType, Applied
    <2> QED
      BY <2>1, <2>2
  <1>3. /\ DOMAIN txindex' \subseteq DOMAIN txindex \cup {t}
        /\ \A y \in DOMAIN txindex' : y # t => txindex'[y] = txindex[y]
        /\ t \in DOMAIN txindex' => txindex'[t] = h \/ (t \in told' /\ txindex' = txindex)
    <2>1. CASE ~Applied(r)
      BY <1>1, <2>1 DEF PutTxIndex, Applied
    <2>2. CASE Applied(r)
      <3>1. txindex' = Store(txindex, t, h)
        BY <2>2 DEF PutTxIndex
      <3> QED
        BY <3>1 DEF Store
    <2> QED
      BY <2>1, <2>2
  <1>4. IndexType'
    BY <1>2, <1>3 DEF IndexInv, IndexType
  <1>5. TxListed'
    BY <1>1, <1>2, <1>3 DEF IndexInv, IndexType, TxListed, Remembered
  <1> QED
    BY <1>1, <1>4, <1>5 DEF IndexInv

LEMMA PutBlockStep ==
  ASSUME IndexInv, NEW b \in BlockHash, NEW h \in Height, NEW r \in Results, NEW q \in Results,
         PutBlock(b, h, Root, r, q)
  PROVE  IndexInv' /\ UNCHANGED utxoVars /\ Remembered
  <1>1. UNCHANGED <<utxoVars, txindex, told, dropped, rewritten>>
    BY DEF PutBlock
  <1>2. /\ heightIdx' \in [Height -> HeightRec]
        /\ \A g \in Height : heightIdx'[g].txids = heightIdx[g].txids
    <2>1. CASE r = "ok" /\ Applied(q)
      <3>1. heightIdx' = [heightIdx EXCEPT ![h].blk = b, ![h].subs = Root]
        BY <2>1 DEF PutBlock
      <3> QED
        BY <3>1 DEF IndexInv, IndexType, HeightRec
    <2>2. CASE ~(r = "ok" /\ Applied(q))
      BY <2>2 DEF PutBlock, IndexInv, IndexType
    <2> QED
      BY <2>1, <2>2
  <1> QED
    BY <1>1, <1>2 DEF IndexInv, IndexType, TxListed, Remembered

LEMMA DeleteTxStep ==
  ASSUME IndexInv, NEW t \in TxId, NEW r \in Results, DeleteTxIndex(t, r)
  PROVE  IndexInv' /\ UNCHANGED utxoVars /\ Remembered
  <1>1. UNCHANGED <<utxoVars, heightIdx, dropped, rewritten>> /\ told \subseteq told'
    BY TellGrows DEF DeleteTxIndex
  <1>2. DOMAIN txindex' \subseteq DOMAIN txindex /\ \A y \in DOMAIN txindex' : txindex'[y] = txindex[y]
    <2>1. txindex' = txindex \/ txindex' = Without(txindex, {t})
      BY DEF DeleteTxIndex
    <2> QED
      BY <2>1 DEF Without
  <1> QED
    BY <1>1, <1>2 DEF IndexInv, IndexType, TxListed, Remembered

LEMMA PruneIndexStep ==
  ASSUME IndexInv, NEW h \in Height, NEW lost \in SUBSET heightIdx[h].txids, NEW r \in Results,
         PruneIndexAtHeight(h, lost, r)
  PROVE  IndexInv' /\ UNCHANGED utxoVars /\ Remembered
  <1>1. UNCHANGED <<utxoVars, told, rewritten>> /\ dropped \subseteq dropped' /\ lost \subseteq dropped'
    BY DropGrows DEF PruneIndexAtHeight
  <1>2. /\ DOMAIN txindex' = DOMAIN txindex \ (heightIdx[h].txids \ lost)
        /\ \A y \in DOMAIN txindex' : txindex'[y] = txindex[y]
    <2>1. txindex' = Without(txindex, heightIdx[h].txids \ lost)
      BY DEF PruneIndexAtHeight
    <2> QED
      BY <2>1 DEF Without
  <1>3. /\ heightIdx' \in [Height -> HeightRec]
        /\ \A g \in Height : g # h => heightIdx'[g] = heightIdx[g]
    BY DEF PruneIndexAtHeight, IndexInv, IndexType, HeightRec, NoEntry
  <1>4. IndexType'
    BY <1>2, <1>3 DEF IndexInv, IndexType
  <1>5. TxListed'
    BY <1>1, <1>2, <1>3 DEF IndexInv, IndexType, TxListed
  <1> QED
    BY <1>1, <1>4, <1>5 DEF IndexInv, Remembered

LEMMA IndexStep == ASSUME IndexInv, IndexNext PROVE IndexInv' /\ UNCHANGED utxoVars /\ Remembered
  <1>1. ASSUME NEW x \in Root, NEW r \in Results, PutSubtree(x, r)
        PROVE  IndexInv' /\ UNCHANGED utxoVars /\ Remembered
    BY <1>1 DEF PutSubtree, IndexInv, IndexType, TxListed, Remembered
  <1>2. ASSUME NEW h \in Height, NEW r \in Results, PutHeader(h, r)
        PROVE  IndexInv' /\ UNCHANGED utxoVars /\ Remembered
    BY <1>2 DEF PutHeader, IndexInv, IndexType, TxListed, Remembered
  <1> QED
    BY <1>1, <1>2, PutTxStep, DeleteTxStep, PutBlockStep, PruneIndexStep DEF IndexNext

(* Output and index calls, each with any outcome of its requests, keep the   *)
(* invariant: neither touches the other's records.                           *)
LEMMA Invariance == AeroSpec => []IInv
  <1>1. IInv /\ [AeroNext]_aeroVars => IInv'
    <2>1. IInv /\ UtxoNext => IInv'
      BY UtxoStep, IndexFrame DEF IInv
    <2>2. IInv /\ IndexNext => IInv'
      BY IndexStep, UtxoFrame DEF IInv
    <2>3. IInv /\ UNCHANGED aeroVars => IInv'
      BY UtxoFrame, IndexFrame DEF IInv, aeroVars, Remembered
    <2> QED
      BY <2>1, <2>2, <2>3 DEF AeroNext
  <1> QED
    BY InitInv, <1>1, PTL DEF AeroSpec

(* Whatever requests fail, every outpoint in a band is spent at its height,  *)
(* so the unguarded prune deletes no live output, unless the code ignored a  *)
(* failure on it or wrote over its spent record.                             *)
THEOREM BandsSoundTheorem == AeroSpec => []BandsSound
  <1>1. IInv => BandsSound
    BY DEF IInv, UtxoInv
  <1> QED
    BY <1>1, Invariance, PTL

(* Whatever requests fail, every spent record is in its band, where the      *)
(* prune looks, unless a failure on it was reported or ignored.              *)
THEOREM BandsCompleteTheorem == AeroSpec => []BandsComplete
  <1>1. IInv => BandsComplete
    BY DEF IInv, UtxoInv
  <1> QED
    BY <1>1, Invariance, PTL

(* Whatever requests fail, every index entry is in the list of its height,   *)
(* where the index prune looks, unless a failure on it was reported or       *)
(* ignored.                                                                  *)
THEOREM TxListedTheorem == AeroSpec => []TxListed
  <1>1. IInv => TxListed
    BY DEF IInv, IndexInv
  <1> QED
    BY <1>1, Invariance, PTL
=============================================================================
