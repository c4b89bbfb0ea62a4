---------------------------- MODULE SpendContract ----------------------------
(***************************************************************************)
(* What store.Store promises about UTXO records to callers that share it   *)
(* (store/store.go): calls on one record are atomic; a prune of height h   *)
(* is not, but it works in slices, each of which deletes only records that *)
(* are spent at h at that moment, and it returns with EVERY record gone    *)
(* that was spent at h when it began and that nobody wrote since.  A       *)
(* backend finds those records through an index of its own; the contract   *)
(* scans them all.                                                         *)
(***************************************************************************)
EXTENDS Records

CONSTANTS Outpoint, Pruners

VARIABLES
  utxo,             \* outpoint -> record
  running           \* pruner -> its height, what it still owes, slices done

SpentAt(h) == {op \in DOMAIN utxo : utxo[op].spent /\ utxo[op].spentHeight = h}

Init == utxo = [op \in {} |-> Unspent] /\ running = [c \in {} |-> 0]

(* A running prune may or may not come to see what a caller writes.          *)
Seen(op) ==
  /\ DOMAIN running' = DOMAIN running
  /\ \A c \in DOMAIN running :
       /\ running'[c].h = running[c].h /\ running'[c].slices = running[c].slices
       /\ running'[c].due \ {op} = running[c].due \ {op}

Put(op, u) == utxo' = Store(utxo, op, u) /\ Seen(op)
Replace(op, u) == op \in DOMAIN utxo /\ Put(op, u)
Delete(op) == utxo' = Without(utxo, {op}) /\ Seen(op)

Begin(c, h) ==
  /\ c \notin DOMAIN running
  /\ running' = Store(running, c, [h |-> h, due |-> SpentAt(h), slices |-> 0])
  /\ UNCHANGED utxo

Sweep(c, S) ==
  /\ utxo' = Without(utxo, S)
  /\ running' = [d \in DOMAIN running |->
                   [running[d] EXCEPT !.due = @ \ S, !.slices = IF d = c THEN @ + 1 ELSE @]]

Return(c) ==
  /\ running[c].due = {}
  /\ running' = Without(running, {c})
  /\ UNCHANGED utxo

Next ==
  \/ \E op \in Outpoint, u \in UTXORec : Put(op, u)
  \/ \E op \in Outpoint, by \in TxId, h \in Height : Replace(op, SpentRec(by, h))
  \/ \E op \in Outpoint : Replace(op, Unspent)
  \/ \E op \in Outpoint : Delete(op)
  \/ \E c \in Pruners, h \in Height : Begin(c, h)
  \/ \E c \in DOMAIN running : \E S \in SUBSET SpentAt(running[c].h) : Sweep(c, S)
  \/ \E c \in DOMAIN running : Return(c)

Spec == Init /\ [][Next]_<<utxo, running>>
=============================================================================
