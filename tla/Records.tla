------------------------------- MODULE Records -------------------------------
(***************************************************************************)
(* The UTXO records of store/store.go and the maps that hold them.  A map  *)
(* is a function whose domain is the set of keys present.                  *)
(***************************************************************************)
EXTENDS Naturals

CONSTANTS TxId, Height, NoTx

(* store.UTXO without its payload (Value, ScriptHash), which no operation   *)
(* reads; SpentBy and SpentHeight are zeroed while the output is unspent.   *)
Unspent == [spent |-> FALSE, spentBy |-> NoTx, spentHeight |-> 0]
SpentRec(by, h) == [spent |-> TRUE, spentBy |-> by, spentHeight |-> h]
UTXORec == {Unspent} \cup [spent : {TRUE}, spentBy : TxId, spentHeight : Height]

Store(f, k, v) == [x \in DOMAIN f \cup {k} |-> IF x = k THEN v ELSE f[x]]
Without(f, K) == [x \in DOMAIN f \ K |-> f[x]]
=============================================================================
