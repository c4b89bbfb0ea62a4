------------------------------- MODULE Attest -------------------------------
(***************************************************************************)
(* Signed answers and the fraud proofs built from them, attest/attest.go.  *)
(* A signature is represented by the key that made it: only the holder of  *)
(* a key can produce an attestation in its name, so Attestation.Verify is  *)
(* that `sig` is the operator named.  The block hash of a statement is     *)
(* left out: on the one chain modelled its height determines it.           *)
(***************************************************************************)
EXTENDS Naturals

Kinds == {"seen", "mined", "utxo"}

(* An answer: flag is seen / mined / unspent by kind; height is the block's  *)
(* for mined, the spending block's for utxo, else 0.                         *)
Answers(txs, heights) ==
  [kind : Kinds, tx : txs, flag : BOOLEAN, height : heights]

(* The statement signed: the answer bound to the operator's tip.             *)
Statement(a, tip) ==
  [kind |-> a.kind, tx |-> a.tx, flag |-> a.flag, height |-> a.height, tip |-> tip]

QueryKey(s) == <<s.kind, s.tx, s.tip>>

(* Mutant: the tip is left out of the key.                                   *)
ContradictsAnyTip(s, o) ==
  /\ <<s.kind, s.tx>> = <<o.kind, o.tx>>
  /\ s.flag # o.flag \/ s.height # o.height

Contradicts(s, o) ==
  /\ QueryKey(s) = QueryKey(o)
  /\ s.flag # o.flag \/ s.height # o.height

Attestation(operator, s) == [operator |-> operator, sig |-> operator, statement |-> s]
Verifies(att) == att.sig = att.operator

Negative(s) == s.kind \in {"seen", "mined"} /\ ~s.flag

(* The error-free outcomes of the two constructors; FraudProof.Verify calls  *)
(* the constructor of its kind again and names att.operator.  An inclusion   *)
(* proof is its leaf and whether it folds to its block root.                 *)
ProveFalseNegative(att, proof) ==
  /\ Verifies(att)
  /\ Negative(att.statement)
  /\ proof.leaf = att.statement.tx /\ proof.folds

ProveEquivocation(a, b) ==
  /\ Verifies(a) /\ Verifies(b)
  /\ a.operator = b.operator
  /\ Contradicts(a.statement, b.statement)
=============================================================================
