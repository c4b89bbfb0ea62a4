------------------------------- MODULE Ingest -------------------------------
(***************************************************************************)
(* The ingest goroutine, ingest/ingest.go, over store/mem and the pruner:  *)
(* IngestBlock and RollbackBlock make their store calls one by one, in the *)
(* order of the code, and between two calls other goroutines may read the  *)
(* store (module Queries).  `todo` holds the calls the running handler has *)
(* still to make; the handlers have no branch between calls but the        *)
(* pruner's, so the list is fixed when the handler starts.                 *)
(*                                                                         *)
(* The chain is the environment's: sealed blocks over a fixed set of       *)
(* transactions, valid by the consensus rules (no double spend on a chain, *)
(* inputs created earlier), and reorgs no deeper than ReorgHorizon below   *)
(* the highest tip, the depth the node commits to surviving.               *)
(***************************************************************************)
EXTENDS MemStore, Prune, Shard, SequencesExt

CONSTANTS
  Inputs,           \* txid -> sequence of the outpoints it spends
  NOut,             \* txid -> number of its outputs
  Coinbase,         \* block hash -> its coinbase transaction
  Bodies,           \* the transaction sequences a block may hold besides it
  Prefix,           \* txid -> its prefix
  Deployments,      \* configurations a server may run: policy, k, id
  StartHeight,      \* height of the first block
  MaxHeight,        \* bound on heights
  MaxBlocks         \* bound on the number of blocks made, on all branches

ASSUME ChainAssumption ==
  /\ StartHeight \in Height /\ MaxHeight \in Height
  /\ BlockHash = 1 .. MaxBlocks
  /\ Prefix \in [TxId -> HashPrefixes]
  /\ \A d \in Deployments : d.policy \in Policies /\ d.k \in 0 .. MaxK /\ d.id \in HashPrefixes

VARIABLES
  todo,             \* the store calls the running handler has still to make
  policy,           \* the pruner's fields
  lastTip, hasTip,
  shard,            \* the ingestor's k and id
  chain,            \* the blocks ingested and not rolled back
  prev,             \* the chain before the running handler
  made,             \* number of blocks made on all branches
  next,             \* the height the source delivers next
  maxTip,           \* the highest tip so far
  reorged           \* history: whether a block was rolled back

chainVars == <<chain, prev, made, next, maxTip, reorged>>
pruner == <<policy, lastTip, hasTip, shard>>
vars == <<storeVars, todo, pruner, chainVars>>

-----------------------------------------------------------------------------
(* Blocks.  A Merkle root determines its leaves (SHA-256d has no collision); *)
(* BuildMerkleTree fails on an empty list.                                   *)

MerkleRoot(leaves) == [merkle |-> leaves]
HasRoot(leaves) == leaves # <<>>

(* A header is the Merkle root it commits; HeaderMerkleRoot extracts it.     *)
Sealed(hash, height, leaves) ==
  LET roots == [i \in DOMAIN leaves |-> MerkleRoot(leaves[i])] IN
    [hash |-> hash, height |-> height,
     subtrees |-> [i \in DOMAIN leaves |-> [root |-> roots[i], txids |-> leaves[i]]],
     roots |-> roots, merkleRoot |-> MerkleRoot(roots), header |-> MerkleRoot(roots)]

Txs(b) == UNION {ToSet(b.subtrees[i].txids) : i \in DOMAIN b.subtrees}
TxsOn(ch) == UNION {Txs(ch[i]) : i \in DOMAIN ch}
OutputsOf(t) == {<<t, v>> : v \in 0 .. NOut[t] - 1}
SpendsOn(ch) ==
  UNION {UNION {{[op |-> op, by |-> t, height |-> ch[i].height] : op \in ToSet(Inputs[t])}
                : t \in Txs(ch[i])} : i \in DOMAIN ch}

(* The consensus rules: body may follow the chain, transaction by            *)
(* transaction.                                                              *)
Follows(body, ch) ==
  \A i \in DOMAIN body :
    LET before == {body[j] : j \in 1 .. i - 1} IN
      /\ body[i] \notin before \cup TxsOn(ch)
      /\ \A op \in ToSet(Inputs[body[i]]) :
           /\ \E t \in before \cup TxsOn(ch) : op \in OutputsOf(t)
           /\ \A s \in SpendsOn(ch) : s.op # op
           /\ \A t \in before : op \notin ToSet(Inputs[t])

(* The blocks that can extend ch: the body follows the coinbase in the first *)
(* subtree, or has a subtree of its own.                                     *)
Extensions(ch, hash, height) ==
  LET cb == Coinbase[hash] IN
    {Sealed(hash, height, <<(<<cb>> \o body)>>) : body \in {b \in Bodies : Follows(b, ch)}}
    \cup
    {Sealed(hash, height, << <<cb>>, body >>) :
       body \in {b \in Bodies : b # <<>> /\ Follows(b, ch)}}

(* Malformed deliveries of b: each claim validateBlock checks, falsified.    *)
Malformed(b) ==
  LET wrong == MerkleRoot(<<>>) IN
    {[b EXCEPT !.roots = Front(@)], [b EXCEPT !.roots[1] = wrong],
     [b EXCEPT !.subtrees[1].root = wrong], [b EXCEPT !.subtrees[1].txids = <<>>],
     [b EXCEPT !.merkleRoot = wrong], [b EXCEPT !.header = wrong]}

ValidateBlock(b) ==
  /\ Len(b.subtrees) = Len(b.roots)
  /\ \A i \in DOMAIN b.subtrees :
       /\ HasRoot(b.subtrees[i].txids)
       /\ MerkleRoot(b.subtrees[i].txids) = b.subtrees[i].root
       /\ b.subtrees[i].root = b.roots[i]
  /\ HasRoot(b.roots)
  /\ MerkleRoot(b.roots) = b.merkleRoot
  /\ b.header = b.merkleRoot

-----------------------------------------------------------------------------
(* The store calls of the two handlers, in order.                            *)

Owns(t) == shard.k = 0 \/ Of(Prefix[t], shard.k) = shard.id
Owned == {t \in TxId : Owns(t)}

SubtreeCalls(b) ==
  LET kept == SelectSeq(b.subtrees, LAMBDA s : \E t \in ToSet(s.txids) : Owns(t)) IN
    [i \in DOMAIN kept |->
       [call |-> "PutSubtree", root |-> kept[i].root, leaves |-> kept[i].txids]]

BlockCalls(b) ==
  << [call |-> "PutBlock", hash |-> b.hash,
      rec |-> [height |-> b.height, roots |-> b.roots,
               merkleRoot |-> b.merkleRoot, header |-> b.header]],
     [call |-> "PutHeader", height |-> b.height, header |-> b.header] >>

Outpoints(t) == [v \in 1 .. NOut[t] |-> <<t, v - 1>>]

(* Positions count from 1 here and from 0 in the code.                       *)
TxCalls(b, si, li) ==
  LET t == b.subtrees[si].txids[li] IN
    << [call |-> "PutTxIndex", txid |-> t,
        ix |-> [mined |-> TRUE, block |-> b.hash, height |-> b.height,
                si |-> si, li |-> li]] >>
    \o [k \in DOMAIN Inputs[t] |->
          [call |-> "SpendUTXO", op |-> Inputs[t][k], by |-> t, height |-> b.height]]
    \o [v \in 1 .. NOut[t] |->
          [call |-> "PutUTXO", op |-> Outpoints(t)[v], u |-> Unspent]]

(* Mutants: a rollback that leaves the inputs spent, and one that leaves the *)
(* index entry.                                                              *)
UndoCallsStaySpent(b, si, li) ==
  LET t == b.subtrees[si].txids[li] IN
    [v \in 1 .. NOut[t] |-> [call |-> "DeleteUTXO", op |-> Outpoints(t)[v]]]
    \o << [call |-> "DeleteTxIndex", txid |-> t] >>
UndoCallsStayIndexed(b, si, li) ==
  LET t == b.subtrees[si].txids[li] IN
    [k \in DOMAIN Inputs[t] |-> [call |-> "UnspendUTXO", op |-> Inputs[t][k]]]
    \o [v \in 1 .. NOut[t] |-> [call |-> "DeleteUTXO", op |-> Outpoints(t)[v]]]

UndoCalls(b, si, li) ==
  LET t == b.subtrees[si].txids[li] IN
    [k \in DOMAIN Inputs[t] |-> [call |-> "UnspendUTXO", op |-> Inputs[t][k]]]
    \o [v \in 1 .. NOut[t] |-> [call |-> "DeleteUTXO", op |-> Outpoints(t)[v]]]
    \o << [call |-> "DeleteTxIndex", txid |-> t] >>

(* The calls F makes for every owned transaction of b, in block order.       *)
PerOwnedTx(b, F(_, _, _)) ==
  FlattenSeq([si \in DOMAIN b.subtrees |->
    FlattenSeq([li \in DOMAIN b.subtrees[si].txids |->
      IF Owns(b.subtrees[si].txids[li]) THEN F(b, si, li) ELSE <<>>])])

(* Mutant: transactions are stored before the block and its subtrees.        *)
IngestCallsTxFirst(b) ==
  PerOwnedTx(b, TxCalls) \o SubtreeCalls(b) \o BlockCalls(b)
  \o << [call |-> "OnNewBlock", tip |-> b.height] >>

IngestCalls(b) ==
  SubtreeCalls(b) \o BlockCalls(b) \o PerOwnedTx(b, TxCalls)
  \o << [call |-> "OnNewBlock", tip |-> b.height] >>

RollbackCalls(b) == PerOwnedTx(b, UndoCalls)

(* The pruner's store calls; PruneSpentAtHeight is one locked part for each  *)
(* stripe, PruneIndexAtHeight five.                                          *)
Ascending(S) == SetToSortSeq(S, LAMBDA x, y : x < y)

SpentCalls(tip) ==
  LET hs == Ascending(SweepBands(lastTip, hasTip, tip, D(policy))) IN
    FlattenSeq([i \in DOMAIN hs |->
      [s \in 1 .. StripeCount |->
         [call |-> "PruneStripe", height |-> hs[i], stripe |-> s - 1]]])

IndexCalls(tip) ==
  LET hs == Ascending(SweepBands(lastTip, hasTip, tip, policy.IndexRetention)) IN
    IF policy.IndexRetention = 0 THEN <<>>
    ELSE [i \in DOMAIN hs |-> [call |-> "TakeHeightEntry", height |-> hs[i]]]

(* What PruneIndexAtHeight(h) still does once it holds the height's entry e. *)
DropCalls(h, e) ==
  << [call |-> "DropBlock", e |-> e], [call |-> "DropSubtrees", e |-> e],
     [call |-> "DropTxs", e |-> e], [call |-> "DropHeader", height |-> h] >>

-----------------------------------------------------------------------------
Idle == todo = <<>>

Init ==
  /\ StoreInit
  /\ \E d \in Deployments : policy = d.policy /\ shard = [k |-> d.k, id |-> d.id]
  /\ todo = <<>> /\ lastTip = 0 /\ hasTip = FALSE
  /\ chain = <<>> /\ prev = <<>> /\ made = 0 /\ next = StartHeight /\ maxTip = 0
  /\ reorged = FALSE

(* The source's next delivery: a block extending the chain, or a malformed   *)
(* copy of one.                                                              *)
Deliverable ==
  IF made < MaxBlocks /\ next <= MaxHeight
  THEN LET good == Extensions(chain, made + 1, next) IN
         good \cup UNION {Malformed(b) : b \in good}
  ELSE {}

IngestBlock(b) ==
  /\ Idle
  /\ ValidateBlock(b)
  /\ todo' = IngestCalls(b)
  /\ prev' = chain
  /\ chain' = Append(chain, b)
  /\ made' = made + 1
  /\ next' = b.height + 1
  /\ maxTip' = IF b.height > maxTip THEN b.height ELSE maxTip
  /\ UNCHANGED <<storeVars, pruner, reorged>>

(* ErrInvalidBlock: nothing is stored, and the source has moved on.          *)
RejectBlock(b) ==
  /\ Idle
  /\ ~ValidateBlock(b)
  /\ next' = b.height + 1
  /\ UNCHANGED <<storeVars, todo, pruner, chain, prev, made, maxTip, reorged>>

RollbackBlock ==
  /\ Idle
  /\ chain # <<>>
  /\ Last(chain).height + policy.ReorgHorizon > maxTip
  /\ todo' = RollbackCalls(Last(chain))
  /\ prev' = chain
  /\ chain' = Front(chain)
  /\ next' = Last(chain).height
  /\ reorged' = TRUE
  /\ UNCHANGED <<storeVars, pruner, made, maxTip>>

Continue(rest) ==
  /\ todo' = rest
  /\ prev' = IF rest = <<>> THEN chain ELSE prev
  /\ UNCHANGED <<chain, made, next, maxTip, reorged>>

(* The next call of the running handler is `name`; it is made now.           *)
Call(name) ==
  /\ ~Idle
  /\ Head(todo).call = name
  /\ Continue(Tail(todo))
  /\ UNCHANGED pruner

CallPutSubtree == Call("PutSubtree") /\ PutSubtree(Head(todo).root, Head(todo).leaves)
CallPutBlock == Call("PutBlock") /\ PutBlock(Head(todo).hash, Head(todo).rec)
CallPutHeader == Call("PutHeader") /\ PutHeader(Head(todo).height, Head(todo).header)
CallPutTxIndex == Call("PutTxIndex") /\ PutTxIndex(Head(todo).txid, Head(todo).ix)
CallSpendUTXO ==
  Call("SpendUTXO") /\ SpendUTXO(Head(todo).op, Head(todo).by, Head(todo).height)
CallPutUTXO == Call("PutUTXO") /\ PutUTXO(Head(todo).op, Head(todo).u)
CallUnspendUTXO == Call("UnspendUTXO") /\ UnspendUTXO(Head(todo).op)
CallDeleteUTXO == Call("DeleteUTXO") /\ DeleteUTXO(Head(todo).op)
CallDeleteTxIndex == Call("DeleteTxIndex") /\ DeleteTxIndex(Head(todo).txid)
CallPruneStripe == Call("PruneStripe") /\ PruneStripe(Head(todo).height, Head(todo).stripe)
CallDropBlock == Call("DropBlock") /\ DropBlock(Head(todo).e)
CallDropSubtrees == Call("DropSubtrees") /\ DropSubtrees(Head(todo).e)
CallDropTxs == Call("DropTxs") /\ DropTxs(Head(todo).e)
CallDropHeader == Call("DropHeader") /\ DropHeader(Head(todo).height)

OnNewBlock ==
  /\ ~Idle
  /\ Head(todo).call = "OnNewBlock"
  /\ LET tip == Head(todo).tip IN
       /\ lastTip' = tip
       /\ Continue(SpentCalls(tip) \o IndexCalls(tip) \o Tail(todo))
  /\ hasTip' = TRUE
  /\ UNCHANGED <<storeVars, policy, shard>>

CallTakeEntry ==
  /\ ~Idle
  /\ Head(todo).call = "TakeHeightEntry"
  /\ LET h == Head(todo).height IN
       /\ TakeHeightEntry(h)
       /\ Continue(DropCalls(h, EntryAt(h)) \o Tail(todo))
  /\ UNCHANGED pruner

Next ==
  \/ \E b \in Deliverable : IngestBlock(b)
  \/ \E b \in Deliverable : RejectBlock(b)
  \/ RollbackBlock
  \/ CallPutSubtree \/ CallPutBlock \/ CallPutHeader
  \/ CallPutTxIndex \/ CallSpendUTXO \/ CallPutUTXO
  \/ CallUnspendUTXO \/ CallDeleteUTXO \/ CallDeleteTxIndex
  \/ OnNewBlock \/ CallPruneStripe
  \/ CallTakeEntry \/ CallDropBlock \/ CallDropSubtrees \/ CallDropTxs \/ CallDropHeader

Spec == Init /\ [][Next]_vars

-----------------------------------------------------------------------------
(* What the store should hold for a chain, read off the chain alone.         *)

OwnedOutputs(ch) == UNION {OutputsOf(t) : t \in TxsOn(ch) \cap Owned}
AppliedSpends(ch) == {s \in SpendsOn(ch) : Owns(s.by)}
Live(ch) == {op \in OwnedOutputs(ch) : \A s \in AppliedSpends(ch) : s.op # op}
RecentSpends ==
  {s \in AppliedSpends(chain) : s.op \in OwnedOutputs(chain) /\ s.height + D(policy) > maxTip}
Kept(b) == policy.IndexRetention = 0 \/ b.height + policy.IndexRetention > maxTip

(* UtxoExact: between handlers the output records are exactly the outputs    *)
(* of the shard's transactions that none of its transactions has spent on    *)
(* the chain, and those spent at depth at most D under the highest tip, with *)
(* their spender and height: through spends in the creating block,           *)
(* rollbacks, conflicting spends on two branches and from two shards,        *)
(* skipped heights and the pruner, nothing is lost, leaked or left in the    *)
(* wrong state.                                                              *)
UtxoExact ==
  Idle =>
    /\ DOMAIN utxo = Live(chain) \cup {s.op : s \in RecentSpends}
    /\ \A op \in Live(chain) : utxo[op] = Unspent
    /\ \A s \in RecentSpends : utxo[s.op] = SpentRec(s.by, s.height)

(* The block b can be served: its record and header, and for each owned      *)
(* transaction the index entry and the leaves of its subtree.                *)
Served(b) ==
  /\ b.hash \in DOMAIN blocks /\ blocks[b.hash].roots = b.roots
  /\ b.height \in DOMAIN hdr /\ hdr[b.height] = b.header
  /\ \A si \in DOMAIN b.subtrees : \A li \in DOMAIN b.subtrees[si].txids :
       LET t == b.subtrees[si].txids[li] IN Owns(t) =>
         /\ t \in DOMAIN txindex
         /\ txindex[t] = [mined |-> TRUE, block |-> b.hash, height |-> b.height,
                          si |-> si, li |-> li]
         /\ b.roots[si] \in DOMAIN subtree
         /\ subtree[b.roots[si]] = b.subtrees[si].txids

(* PruneIndexAtHeight works from a height entry that rollbacks leave as it   *)
(* is: what it frees is only exact while it does not run or none happened.   *)
EntriesExact == policy.IndexRetention = 0 \/ ~reorged

(* IndexServes: every block of the chain still in the index window can be    *)
(* served, after reorgs too unless an index window is set: no ingest,        *)
(* rollback or prune call of one block takes away what another one needs.    *)
IndexServes ==
  Idle /\ EntriesExact => \A i \in DOMAIN chain : Kept(chain[i]) => Served(chain[i])

(* ReorgKeepsIndex: with an index window and reorgs together, blocks inside  *)
(* the window are still served: index data "is freed once buried deeper than *)
(* this many blocks".                                                        *)
ReorgKeepsIndex ==
  Idle => \A i \in DOMAIN chain : Kept(chain[i]) => Served(chain[i])

(* The transactions of b may still have their index entries: b is in the     *)
(* window, or it was stored below it, at a height already buried under the   *)
(* highest tip, because the window is shorter than the reorg horizon; then   *)
(* the tips that follow free it.                                             *)
InWindow(b) ==
  \/ Kept(b)
  \/ policy.IndexRetention < policy.ReorgHorizon /\ b.height + policy.IndexRetention > lastTip

(* IndexForgets: a transaction that a rollback removed from the chain, or     *)
(* that left the index window, has no index entry; with an index window and   *)
(* no reorg, the block, subtree and header records of heights that left it    *)
(* are gone too ("Steady state then holds ~IndexRetention blocks of index     *)
(* data").                                                                    *)
IndexForgets ==
  Idle =>
    /\ \A t \in DOMAIN txindex : \E i \in DOMAIN chain : InWindow(chain[i]) /\ t \in Txs(chain[i])
    /\ policy.IndexRetention > 0 /\ EntriesExact =>
         /\ \A b \in DOMAIN blocks : blocks[b].height + policy.IndexRetention > maxTip
         /\ \A r \in DOMAIN subtree : \E b \in DOMAIN blocks : r \in ToSet(blocks[b].roots)
         /\ \A h \in DOMAIN hdr : h + policy.IndexRetention > maxTip
=============================================================================
