------------------------------- MODULE Server -------------------------------
(***************************************************************************)
(* One honest operator: the ingest loop of server/server.go over the HTTP  *)
(* source (teranode/httpsource), and the query handlers that sign their    *)
(* answers.  The store is represented by what the answers depend on: per   *)
(* transaction, its index entry and the record of its output.  A handler   *)
(* reads its answer and loads the tip in two steps; the loop indexes a     *)
(* block, prunes, and stores the tip in three, and a store call that fails *)
(* ends the block half way.  IngestBlock is finer still (module Ingest); a *)
(* query sees a transaction at once, by its index entry.  A restart loses  *)
(* the in-memory store and keeps the configuration, the signing key        *)
(* included.                                                               *)
(***************************************************************************)
EXTENDS Attest, Prune, FiniteSets

CONSTANTS
  Txs,
  TxHeight,         \* tx -> height of its block, or Never
  SpendHeight,      \* tx -> height of the block spending its output, or Never
  StartHeight,      \* first height of the source, 0 in memserved
  MaxHeight,        \* bound on the chain
  MaxAsked,         \* bound on the handlers running at once
  MaxSigned,        \* bound on the statements signed
  MaxRestarts,      \* bound on the restarts
  Me                \* the operator's key

Never == MaxHeight + 1

ASSUME ServerAssumption ==
  /\ StartHeight \in Nat /\ MaxHeight \in Nat
  /\ StartHeight <= MaxHeight /\ MaxHeight + 1 < Word
  /\ TxHeight \in [Txs -> 0 .. Never]
  /\ SpendHeight \in [Txs -> 0 .. Never]
  /\ \A t \in Txs : SpendHeight[t] # Never => SpendHeight[t] > TxHeight[t]

VARIABLES
  policy,           \* the pruning policy configured
  node,             \* the best height of the Teranode endpoint
  height, srcTip,   \* the source: next height to fetch, last tip it was told
  loop,             \* what the ingest loop is doing, and with which block
  atLimit,          \* whether the process holds MaxMemMB or more
  index,            \* transactions whose index entry is held
  coin,             \* tx -> the store's record of its output
  lastTip, hasTip,  \* the pruner
  tip, ready,       \* the server's atomics
  asked,            \* answers read by handlers that have not signed them yet
  signed,           \* attestations published
  skipped,          \* whether this process has left a block out, or half of one
  restarts

source == <<height, srcTip>>
store == <<index, coin>>
pruner == <<lastTip, hasTip>>
handlers == <<asked, signed>>
vars == <<policy, node, source, loop, atLimit, store, pruner, tip, ready, handlers, skipped, restarts>>

Heights == 0 .. MaxHeight
CoinStates == {"absent", "unspent", "spent"}
Polling == [at |-> "poll", block |-> 0]
Quiet == loop = Polling

Fresh ==
  /\ height' = StartHeight /\ srcTip' = 0
  /\ loop' = Polling /\ atLimit' = FALSE
  /\ index' = {} /\ coin' = [t \in Txs |-> "absent"]
  /\ lastTip' = 0 /\ hasTip' = FALSE
  /\ tip' = 0 /\ ready' = FALSE
  /\ asked' = {} /\ skipped' = FALSE

Init ==
  /\ policy \in Policies
  /\ node = 0
  /\ height = StartHeight /\ srcTip = 0
  /\ loop = Polling /\ atLimit = FALSE
  /\ index = {} /\ coin = [t \in Txs |-> "absent"]
  /\ lastTip = 0 /\ hasTip = FALSE
  /\ tip = 0 /\ ready = FALSE
  /\ asked = {} /\ signed = {} /\ skipped = FALSE /\ restarts = 0

(* Teranode extends the chain.                                               *)
Extend ==
  /\ node < MaxHeight
  /\ node' = node + 1
  /\ UNCHANGED <<policy, source, loop, atLimit, store, pruner, tip, ready, handlers, skipped, restarts>>

(* The memory the process holds reaches MaxMemMB, or falls below it; the loop *)
(* looks at it before it fetches.                                            *)
Memory ==
  /\ Quiet
  /\ atLimit' = ~atLimit
  /\ UNCHANGED <<policy, node, source, loop, store, pruner, tip, ready, handlers, skipped, restarts>>

-----------------------------------------------------------------------------
(* Source.Next: the tip is asked for only when the known one is used up.     *)

KnownTip == IF height > srcTip THEN node ELSE srcTip

Fetching == Quiet /\ ~atLimit

(* A request fails, or its answer does not convert; the height is retried.   *)
NextFails ==
  /\ Fetching
  /\ srcTip' = srcTip \/ (height <= KnownTip /\ srcTip' = KnownTip)
  /\ UNCHANGED <<policy, node, height, loop, atLimit, store, pruner, tip, ready, handlers, skipped, restarts>>

NextCaughtUp ==
  /\ Fetching
  /\ height > KnownTip
  /\ srcTip' = KnownTip
  /\ ready' = TRUE
  /\ UNCHANGED <<policy, node, height, loop, atLimit, store, pruner, tip, handlers, skipped, restarts>>

(* Mutant: the newest block is not fetched.                                  *)
DeliverBelowTip ==
  /\ Fetching
  /\ height < KnownTip
  /\ srcTip' = KnownTip
  /\ height' = height + 1

Deliver ==
  /\ Fetching
  /\ height <= KnownTip
  /\ srcTip' = KnownTip
  /\ height' = height + 1

(* A handler whose answer was read before a block came in has raced it.      *)
NextBlock ==
  /\ Deliver
  /\ loop' = [at |-> "index", block |-> height]
  /\ asked' = {[answer |-> a.answer, quiet |-> FALSE] : a \in asked}
  /\ UNCHANGED <<policy, node, atLimit, store, pruner, tip, ready, signed, skipped, restarts>>

(* IngestBlock returns ErrInvalidBlock: nothing is stored, and the source    *)
(* has moved past the block.                                                 *)
RejectBlock ==
  /\ Deliver
  /\ skipped' = TRUE
  /\ UNCHANGED <<policy, node, loop, atLimit, store, pruner, tip, ready, handlers, restarts>>

(* The memory watchdog: the loop does not fetch.                             *)
Pause ==
  /\ Quiet /\ atLimit
  /\ ready' = TRUE
  /\ UNCHANGED <<policy, node, source, loop, atLimit, store, pruner, tip, handlers, skipped, restarts>>

-----------------------------------------------------------------------------
(* IngestBlock of a valid block: its transactions, then the pruner.          *)

MinedAt(h) == {t \in Txs : TxHeight[t] = h}

Indexed(c, t, h) ==
  IF TxHeight[t] = h THEN "unspent"
  ELSE IF SpendHeight[t] = h /\ c = "unspent" THEN "spent"
  ELSE c

IndexBlock ==
  /\ loop.at = "index"
  /\ index' = index \cup MinedAt(loop.block)
  /\ coin' = [t \in Txs |-> Indexed(coin[t], t, loop.block)]
  /\ loop' = [loop EXCEPT !.at = "prune"]
  /\ UNCHANGED <<policy, node, source, atLimit, pruner, tip, ready, handlers, skipped, restarts>>

(* The loop logs any error of IngestBlock and goes on with the next height.  *)
Abandon ==
  /\ loop' = Polling
  /\ skipped' = TRUE
  /\ UNCHANGED <<policy, node, source, atLimit, tip, ready, handlers, restarts>>

(* A store call fails with only some of the block's entries and records      *)
(* written.                                                                  *)
IndexFails(entries, coins) ==
  /\ loop.at = "index"
  /\ index' = index \cup (MinedAt(loop.block) \cap entries)
  /\ coin' = [t \in Txs |-> IF t \in coins THEN Indexed(coin[t], t, loop.block) ELSE coin[t]]
  /\ Abandon
  /\ UNCHANGED pruner

SpentOut == SweepBands(lastTip, hasTip, loop.block, D(policy))
Freed(t) == coin[t] = "spent" /\ SpendHeight[t] \in SpentOut

(* Mutant: index records are freed one block early.                          *)
AgedOutEarly ==
  {t \in index : /\ policy.IndexRetention > 0
                 /\ TxHeight[t] \in SweepBands(lastTip, hasTip, loop.block, policy.IndexRetention - 1)}

AgedOut ==
  {t \in index : /\ policy.IndexRetention > 0
                 /\ TxHeight[t] \in SweepBands(lastTip, hasTip, loop.block, policy.IndexRetention)}

(* The sweeps free the records `coins` and the entries `entries`.            *)
Sweep(coins, entries) ==
  /\ loop.at = "prune"
  /\ coin' = [t \in Txs |-> IF t \in coins THEN "absent" ELSE coin[t]]
  /\ index' = index \ entries
  /\ lastTip' = loop.block /\ hasTip' = TRUE

OnNewBlock ==
  /\ Sweep({t \in Txs : Freed(t)}, AgedOut)
  /\ loop' = [loop EXCEPT !.at = "publish"]
  /\ UNCHANGED <<policy, node, source, atLimit, tip, ready, handlers, skipped, restarts>>

(* A prune call fails; the index is swept after the spent records.           *)
PruneFails(coins, entries) ==
  /\ coins \subseteq {t \in Txs : Freed(t)} /\ entries \subseteq AgedOut
  /\ entries # {} => \A t \in Txs : Freed(t) => t \in coins
  /\ Sweep(coins, entries)
  /\ Abandon

(* Mutant: the tip is stored for the first block only.                       *)
PublishFirst ==
  /\ loop.at = "publish"
  /\ tip' = IF loop.block = StartHeight THEN loop.block ELSE tip
  /\ ready' = TRUE
  /\ loop' = Polling
  /\ UNCHANGED <<policy, node, source, atLimit, store, pruner, handlers, skipped, restarts>>

Publish ==
  /\ loop.at = "publish"
  /\ tip' = loop.block
  /\ ready' = TRUE
  /\ loop' = Polling
  /\ UNCHANGED <<policy, node, source, atLimit, store, pruner, handlers, skipped, restarts>>

-----------------------------------------------------------------------------
(* The handlers.                                                             *)

(* Status "unspent", "spent", or the two answers for an absent record.       *)
StatusIn(ix, c, t) ==
  IF c[t] # "absent" THEN c[t]
  ELSE IF t \in ix THEN "notInWindow" ELSE "unknown"

(* The answer to a query from a store with index ix and coins c.             *)
AnswerFrom(ix, c, kind, t) ==
  [kind |-> kind, tx |-> t,
   flag |-> IF kind = "utxo" THEN StatusIn(ix, c, t) = "unspent" ELSE t \in ix,
   height |-> IF kind = "mined" /\ t \in ix THEN TxHeight[t]
              ELSE IF kind = "utxo" /\ StatusIn(ix, c, t) = "spent" THEN SpendHeight[t]
              ELSE 0]

Seen(t) == t \in index
UTXOStatus(t) == StatusIn(index, coin, t)
Answer(kind, t) == AnswerFrom(index, coin, kind, t)

Ask(kind, t) ==
  /\ Cardinality(asked) < MaxAsked
  /\ asked' = asked \cup {[answer |-> Answer(kind, t), quiet |-> Quiet]}
  /\ UNCHANGED <<policy, node, source, loop, atLimit, store, pruner, tip, ready, signed, skipped, restarts>>

(* The statement takes the tip of this moment.  `clean` records that a block *)
(* was ingested, none was in work since the answer was read, and none has    *)
(* been skipped.                                                             *)
Sign(a) ==
  /\ Cardinality(signed) < MaxSigned
  /\ asked' = asked \ {a}
  /\ signed' = signed \cup {[att |-> Attestation(Me, Statement(a.answer, tip)),
                             clean |-> a.quiet /\ Quiet /\ hasTip /\ ~skipped]}
  /\ UNCHANGED <<policy, node, source, loop, atLimit, store, pruner, tip, ready, skipped, restarts>>

Restart ==
  /\ restarts < MaxRestarts
  /\ restarts' = restarts + 1
  /\ Fresh
  /\ UNCHANGED <<policy, node, signed>>

Next ==
  \/ Extend \/ Memory
  \/ NextFails \/ NextCaughtUp \/ NextBlock \/ RejectBlock \/ Pause
  \/ IndexBlock \/ OnNewBlock \/ Publish
  \/ \E coins, entries \in SUBSET Txs : IndexFails(entries, coins) \/ PruneFails(coins, entries)
  \/ \E kind \in Kinds, t \in Txs : Ask(kind, t)
  \/ \E a \in asked : Sign(a)
  \/ Restart

(* The loop goroutine keeps running, and a request that is retried for ever  *)
(* succeeds in the end.  Nothing is assumed of the memory: a paused loop     *)
(* frees none of what the store holds.                                       *)
Fairness ==
  /\ WF_vars(NextBlock \/ RejectBlock) /\ WF_vars(NextCaughtUp)
  /\ WF_vars(IndexBlock) /\ WF_vars(OnNewBlock) /\ WF_vars(Publish)

Spec == Init /\ [][Next]_vars
FairSpec == Spec /\ Fairness

-----------------------------------------------------------------------------
(* What a server that ingested every block from StartHeight to h retains:    *)
(* the index entries it holds, and the record of t's output.                 *)
HeldAt(h) ==
  {t \in Txs : /\ TxHeight[t] \in StartHeight .. h
               /\ policy.IndexRetention = 0 \/ TxHeight[t] + policy.IndexRetention > h}
CoinAt(t, h) ==
  IF TxHeight[t] \notin StartHeight .. h THEN "absent"
  ELSE IF SpendHeight[t] > h THEN "unspent"
  ELSE IF SpendHeight[t] + D(policy) > h THEN "spent"
  ELSE "absent"
CoinsAt(h) == [t \in Txs |-> CoinAt(t, h)]
Blank == [t \in Txs |-> "absent"]

(* Between two blocks, a server that skipped none holds exactly what its     *)
(* published tip says: the index entries and the coins at that tip, whatever *)
(* restarts came before.  Before its first block it holds nothing, though    *)
(* its tip reads 0 then, as it does after block 0.                           *)
ViewIsTip ==
  Quiet /\ ~skipped =>
    IF hasTip THEN index = HeldAt(tip) /\ coin = CoinsAt(tip)
    ELSE tip = 0 /\ index = {} /\ coin = Blank

(* No two clean statements of the operator, signed in any process lifetime,  *)
(* make ProveEquivocation succeed: an operator that answers between blocks   *)
(* does not contradict itself, not even across restarts.                     *)
CleanNeverEquivocates ==
  \A s, r \in signed : s.clean /\ r.clean => ~ProveEquivocation(s.att, r.att)

(* HonestNeverEquivocates: attest.go:233, an equivocation proof that         *)
(* verifies "means the operator provably lied".  An honest operator's        *)
(* statements contradict each other without a lie: before block 0 and after  *)
(* it the tip reads 0, and the tip is stored after the block is indexed.     *)
HonestNeverEquivocates ==
  \A s, r \in signed : ~ProveEquivocation(s.att, r.att)

(* A clean "not mined" (or "not seen") is true of the retained chain: a      *)
(* transaction it denies is in no block from StartHeight to the tip signed,  *)
(* unless that block's index has been freed.                                 *)
CleanDenialsTrue ==
  \A s \in signed :
    s.clean /\ Negative(s.att.statement)
      => s.att.statement.tx \notin HeldAt(s.att.statement.tip)

(* The server follows the chain: if its memory stays below the limit from    *)
(* some time on, it becomes ready and publishes the last block once chain    *)
(* and restarts stop, unless it skipped a block.                             *)
CatchesUp == <>[]~atLimit => <>[](ready /\ (tip = node \/ skipped))
=============================================================================
