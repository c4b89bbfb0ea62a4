------------------------------ MODULE Queries ------------------------------
(***************************************************************************)
(* The query surface, api/api.go and proof/proof.go, reading the store     *)
(* while the ingest goroutine writes it.  UTXO makes up to two reads and   *)
(* Build three, each under a lock of its own, so any store call of a block *)
(* being ingested, rolled back or pruned may come between two reads.       *)
(* Queries change nothing, so one of them at a time shows all they can see.*)
(***************************************************************************)
EXTENDS Ingest

CONSTANT Queried    \* the transactions clients ask about

VARIABLE q      \* the query in progress

qvars == <<vars, q>>

(* kind: "none", "utxo", "seen", "mined" or "proof"; key: the outpoint or    *)
(* txid; pc: the next read, or "done"; was (history): what has been true of  *)
(* the key during the call; ans: the answer; ix, blk: what Build has read.   *)
NoQuery == [kind |-> "none", pc |-> "idle"]

-----------------------------------------------------------------------------
(* What is true of a key, read off the chains: the chain between handlers,   *)
(* the chains before and after while one runs.                               *)

Freed(t, ch) ==
  /\ policy.IndexRetention > 0
  /\ \E i \in DOMAIN ch : t \in Txs(ch[i]) /\ ch[i].height + policy.IndexRetention <= maxTip

OutputTruth(op, ch) ==
  IF op \notin OwnedOutputs(ch) THEN {<<"unknown">>}
  ELSE IF op \in Live(ch) THEN {<<"unspent">>}
  ELSE UNION {{<<"spent", s.by, s.height>>}
              \cup {w \in {<<"pruned">>} : s.height + D(policy) <= maxTip}
              \cup {w \in {<<"freed">>} : s.height + D(policy) <= maxTip /\ Freed(op[1], ch)}
              : s \in {x \in AppliedSpends(ch) : x.op = op}}

ProofTruth(t, ch) ==
  IF t \notin TxsOn(ch) \cap Owned THEN {<<"unmined">>}
  ELSE {<<"mined", ch[i].hash>> : i \in {j \in DOMAIN ch : t \in Txs(ch[j])}}
       \cup {w \in {<<"freed">>} : Freed(t, ch)}

(* Router.ServerFor sends what is asked about a transaction to its shard.    *)
Routed == {t \in Queried : Of(Prefix[t], shard.k) = shard.id}

(* An output the block being ingested or rolled back both creates and spends. *)
WithinBlock(op) ==
  \E b \in ToSet(prev) \cup ToSet(chain) :
    /\ b \notin ToSet(prev) \cap ToSet(chain)
    /\ op[1] \in Txs(b)
    /\ \E t \in Txs(b) : op \in ToSet(Inputs[t])

Truth(kind, key) ==
  {w \in {<<"withinBlock">>} : kind = "utxo" /\ WithinBlock(key)} \cup
  UNION {IF kind = "utxo" THEN OutputTruth(key, ch) ELSE ProofTruth(key, ch)
         : ch \in {prev, chain}}

-----------------------------------------------------------------------------
(* api.UTXO: GetUTXO, and GetTxIndex when there is no record.                *)

UTXOAnswer(u) == IF u.spent THEN <<"spent", u.spentBy, u.spentHeight>> ELSE <<"unspent">>

UTXO(op) ==
  /\ q.pc = "idle"
  /\ LET c == [kind |-> "utxo", key |-> op, was |-> Truth("utxo", op)] IN
       q' = IF op \in DOMAIN utxo
              THEN c @@ [pc |-> "done", ans |-> UTXOAnswer(utxo[op])]
              ELSE c @@ [pc |-> "GetTxIndex"]
  /\ UNCHANGED vars

(* Mutant: no record means unknown, whether the transaction is mined or not. *)
UTXOGetTxIndexIgnored ==
  /\ q.kind = "utxo" /\ q.pc = "GetTxIndex"
  /\ q' = [q EXCEPT !.pc = "done"] @@ [ans |-> <<"unknown">>]
  /\ UNCHANGED vars

UTXOGetTxIndex ==
  /\ q.kind = "utxo" /\ q.pc = "GetTxIndex"
  /\ LET t == q.key[1] IN
       q' = [q EXCEPT !.pc = "done"] @@
            [ans |-> IF t \in DOMAIN txindex /\ txindex[t].mined
                       THEN <<"notInWindow">> ELSE <<"unknown">>]
  /\ UNCHANGED vars

-----------------------------------------------------------------------------
(* api.Seen and api.Mined: one GetTxIndex each.                              *)

IndexQuery(kind, t, ans) ==
  /\ q.pc = "idle"
  /\ q' = [kind |-> kind, key |-> t, was |-> Truth(kind, t), pc |-> "done", ans |-> ans]
  /\ UNCHANGED vars

Seen(t) == IndexQuery("seen", t, IF t \in DOMAIN txindex THEN <<"seen">> ELSE <<"notSeen">>)

Mined(t) ==
  IndexQuery("mined", t, IF t \in DOMAIN txindex /\ txindex[t].mined
                         THEN <<"mined", txindex[t].block>> ELSE <<"notMined">>)

-----------------------------------------------------------------------------
(* proof.Build: GetTxIndex, GetBlock, GetSubtree.                            *)

Build(t) ==
  /\ q.pc = "idle"
  /\ LET c == [kind |-> "proof", key |-> t, was |-> Truth("proof", t)] IN
       q' = IF t \in DOMAIN txindex /\ txindex[t].mined
              THEN c @@ [pc |-> "GetBlock", ix |-> txindex[t]]
              ELSE c @@ [pc |-> "done", ans |-> <<"notMined">>]
  /\ UNCHANGED vars

BuildGetBlock ==
  /\ q.pc = "GetBlock"
  /\ q' = IF q.ix.block \in DOMAIN blocks /\ q.ix.si <= Len(blocks[q.ix.block].roots)
            THEN [q EXCEPT !.pc = "GetSubtree"] @@ [blk |-> blocks[q.ix.block]]
            ELSE [q EXCEPT !.pc = "done"] @@ [ans |-> <<"inconsistent">>]
  /\ UNCHANGED vars

(* The proof: folding the leaf along the path of position i of a tree gives  *)
(* the root of that tree with the leaf put at position i.                    *)
Fold(leaf, leaves, i) == MerkleRoot([leaves EXCEPT ![i] = leaf])

ProofVerifies(leaf, l1, li, l2, si, blockRoot) ==
  Fold(Fold(leaf, l1, li), l2, si) = blockRoot

BuildGetSubtree ==
  /\ q.pc = "GetSubtree"
  /\ LET root == q.blk.roots[q.ix.si] IN
       q' = IF root \in DOMAIN subtree /\ q.ix.li <= Len(subtree[root])
              THEN [q EXCEPT !.pc = "done"] @@ [ans |-> <<"proof">>, l1 |-> subtree[root]]
              ELSE [q EXCEPT !.pc = "done"] @@ [ans |-> <<"inconsistent">>]
  /\ UNCHANGED vars

Return ==
  /\ q.pc = "done"
  /\ q' = NoQuery
  /\ UNCHANGED vars

-----------------------------------------------------------------------------
(* A store call or a new handler, while a query is waiting or not; it adds   *)
(* to what has been true during the call.  An answer is looked at before the *)
(* next store call: it no longer depends on the store.                       *)
IngestStep ==
  /\ q.pc # "done"
  /\ Next
  /\ \/ q.pc = "idle" /\ UNCHANGED q
     \/ /\ q.pc # "idle"
        /\ \E kind \in {q.kind}, key \in {q.key} :
             q' = [q EXCEPT !.was = @ \cup Truth(kind, key)']

QInit == Init /\ q = NoQuery

QNext ==
  \/ IngestStep
  \/ \E op \in UNION {OutputsOf(t) : t \in Routed} : UTXO(op)
  \/ UTXOGetTxIndex
  \/ \E t \in Routed : Seen(t) \/ Mined(t) \/ Build(t)
  \/ BuildGetBlock
  \/ BuildGetSubtree
  \/ Return

QSpec == QInit /\ [][QNext]_qvars

-----------------------------------------------------------------------------
Answered(kind) == q.kind = kind /\ q.pc = "done"

(* UTXOAnswersTrue: whatever store calls come between its reads, UTXO never  *)
(* answers a false unspent (as far as the shard's own transactions spend),   *)
(* or a spent with a spender or height that was not so; not in window is     *)
(* answered only for an output whose record was pruned, and unknown only for *)
(* one that was off the chain.  Four exceptions are the code's: an output    *)
(* the block in progress both creates and spends may be seen unspent; one    *)
(* that joined or left the chain during the call may be reported not in      *)
(* window, because its index entry is written before its record and deleted  *)
(* after it; and a pruned one is unknown once its index entry left the       *)
(* window too, or was lost to the entry of a block rolled back.              *)
UTXOAnswersTrue ==
  Answered("utxo") =>
    \/ q.ans \in q.was
    \/ q.ans = <<"unspent">> /\ <<"withinBlock">> \in q.was
    \/ q.ans = <<"notInWindow">> /\ <<"pruned">> \in q.was
    \/ q.ans = <<"notInWindow">> /\ <<"unknown">> \in q.was /\ q.was # {<<"unknown">>}
    \/ q.ans = <<"unknown">> /\ <<"freed">> \in q.was
    \/ q.ans = <<"unknown">> /\ <<"pruned">> \in q.was /\ ~EntriesExact

(* IndexAnswersTrue: Seen and Mined agree with a chain of the time of the    *)
(* call: a transaction is reported mined in a block that held it, and as not *)
(* seen or not mined only if it was off the chain or out of the index        *)
(* window; in particular none is reported once its block is rolled back.     *)
IndexAnswersTrue ==
  EntriesExact =>
    /\ Answered("mined") =>
         \/ q.ans \in q.was
         \/ q.ans = <<"notMined">> /\ {<<"unmined">>, <<"freed">>} \cap q.was # {}
    /\ Answered("seen") =>
         IF q.ans = <<"seen">> THEN \E w \in q.was : w[1] = "mined"
         ELSE {<<"unmined">>, <<"freed">>} \cap q.was # {}

(* ProofsSound: a proof assembled from three reads verifies against the      *)
(* header served with it, and its block held the transaction on a chain of   *)
(* the time of the call, whatever was rolled back or freed in between;       *)
(* ErrNotMined is answered only for a transaction that was off the chain, or *)
(* out of the index window, during the call; and Build misses the block or   *)
(* the subtree of the index entry it read only if the pruner freed it.       *)
ProofsSound ==
  /\ Answered("proof") /\ q.ans = <<"proof">> =>
       /\ ProofVerifies(q.key, q.l1, q.ix.li, q.blk.roots, q.ix.si, q.blk.merkleRoot)
       /\ q.blk.header = q.blk.merkleRoot
       /\ <<"mined", q.ix.block>> \in q.was
  /\ Answered("proof") /\ q.ans = <<"notMined">> /\ EntriesExact =>
       <<"unmined">> \in q.was \/ <<"freed">> \in q.was
  /\ Answered("proof") /\ q.ans = <<"inconsistent">> /\ EntriesExact => <<"freed">> \in q.was

(* NeverFalseUnspent: "UTXOUnspent: the output exists and is unspent": an    *)
(* output that UTXO answers unspent between blocks is not spent on the chain *)
(* by any transaction, of whichever shard.                                   *)
NeverFalseUnspent ==
  Answered("utxo") /\ q.ans = <<"unspent">> /\ Idle => \A s \in SpendsOn(chain) : s.op # q.key

(* NeverFalseAbsent: "a long-spent outpoint that has been pruned returns     *)
(* 'not in retained window' - ... never a false 'absent'": an output that    *)
(* UTXO answers unknown was off the chain at some time of the call.          *)
NeverFalseAbsent == Answered("utxo") /\ q.ans = <<"unknown">> => <<"unknown">> \in q.was
=============================================================================
