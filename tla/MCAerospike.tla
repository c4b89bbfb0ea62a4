----------------------------- MODULE MCAerospike -----------------------------
(***************************************************************************)
(* One output, two heights, one block of one subtree.  A request names one *)
(* output, and a prune treats each that its band lists by itself.  The     *)
(* output calls and the index calls share no record, so a behaviour keeps  *)
(* to the calls of one half.                                               *)
(***************************************************************************)
EXTENDS AerospikeStore
CONSTANTS tx1, block1, root1
MCTxId == {tx1}
MCOutpoint == {<<tx1, 0>>}
MCHeight == {0, 1}
MCBlockHash == {block1}
MCRoot == {root1}

UtxoUntouched == utxo = [op \in {} |-> Unspent] /\ told \cap Outpoint = {}
IndexUntouched ==
  /\ DOMAIN txindex = {} /\ told \cap TxId = {} /\ heightIdx = [h \in Height |-> NoEntry]
  /\ block = {} /\ subtree = {} /\ header = {}

HalfNext == (IndexUntouched /\ UtxoNext) \/ (UtxoUntouched /\ IndexNext)
HalfSpec == AeroInit /\ [][HalfNext]_aeroVars
=============================================================================
