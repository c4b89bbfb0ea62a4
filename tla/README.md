# A TLA+ model of MemServe

MemServe is an in-memory index of a block chain: it ingests sealed blocks,
answers *seen / mined / Merkle path / unspent?* queries from memory, forgets
what is buried deep enough, and sells accesses through unidirectional payment
channels. This directory models its core in TLA+, checks it with TLC on small
instances and proves the central invariants with TLAPS for all of them.

## The system and its parts

| part | source | modelled |
|---|---|---|
| record types and the store interface | `store/store.go` | `Records`, `SpendContract` (what callers that share a store are promised) |
| in-memory store | `store/mem/mem.go` | `MemStore`, `StoreClients`, `RetentionProofs` |
| spend-depth pruner | `prune/prune.go` | `Prune`, `Pruner`, `RetentionProofs` |
| ingest and rollback | `ingest/ingest.go` | `Ingest` |
| sharding by hash prefix | `shard/` | `Shard`, used by `Ingest` and `Queries` |
| query API and proof building | `api/api.go`, `proof/proof.go` | `Queries` |
| batching gate for signature checks | `accel/gate.go` | `VerdictService` (what it promises), `Gate`, `GateProofs` |
| CPU worker pool | `accel/cpu.go` | `CPUVerifier` |
| payment channel and its transactions | `payment/channel`, `bsvtx/channeltx.go` | `Channel`, `ChannelSession`, `ChannelProofs` |
| channel registry and abuse policy | `payment/paid.go`, `abuse.go` | `PaidServer`, `PaidProofs` |
| ingest loop and signing handlers of the HTTP server | `server/server.go`, `payment_handlers.go` | `Server`, `ServerProofs` |
| HTTP block source | `teranode/httpsource` | `Server` |
| attestations, fraud proofs | `attest/` | `Attest`, in `ServerProofs` (endorsements left out) |
| multi-operator client | `client/` | `MultiClient`, in `ServerProofs` |
| Merkle trees, paths and their verification | `commitment/`, `proof/` | `Merkle`, `MerkleProofs` (the field tree L0 left out) |
| Aerospike store | `store/aerospike` | `AerospikeStore`, `AerospikeProofs` |
| rate limiter | `server/limiter.go` | `Limiter`, `LimiterProofs` |
| keys, signatures, curve and field arithmetic | `crypto/` | `FieldLimbs`, `Curve`, `Signer` |

One goroutine ingests: it validates a block, makes a sequence of store calls and
ends with the pruner, which makes more. Query handlers read the store at the
same time, each read under a lock of its own. Paid handlers look a channel up,
authorize a signed commitment and then query. An operator with an identity signs
each answer together with its tip, and a client compares several operators.

## Modules and how they correspond to the code

**Records** has the output records and the maps that hold them. **SpendContract**
is the abstract specification of what callers that share a store are promised:
calls on one record are atomic, and `PruneSpentAtHeight(h)`, which is not, works in
slices: each deletes only records that are spent at h at that moment, and it
returns with every record gone that was spent at h when it began and was not
written since.

**MemStore** is `mem.Store`, one action per method. `utxo`, `txindex`,
`subtree`, `blocks`, `hdr` are the maps; `spentIdx` holds the prune bands and
`hidx` the height entries. A call on one record holds the lock of its stripe
throughout and is one step. `PruneSpentAtHeight` locks the stripes one after
another and is a step per stripe (`PruneStripe`); `PruneIndexAtHeight` takes five
locks and is five steps (`TakeHeightEntry`, `DropBlock`, `DropSubtrees`, `DropTxs`,
`DropHeader`). `PutTxIndex` and `PutBlock` take a second lock to note the record in
`hidx`, which nobody but the same goroutine's prune reads, so they are one step.
Values, script hashes and timestamps are left out. **StoreClients** makes the
calls on outputs in any order with any arguments, also between the stripes of
prunes, of which several can run.

**AerospikeStore** is the same interface over separate requests to a cluster.
Each method is one step with an outcome for each of its write requests (`ok`,
`fails` without effect, `doubt`: applied, but an error comes back), since there
is one writer and a crash between two requests is a `doubt` nobody reads. `told`
are the keys of calls that returned an error, `dropped` those of a failure the
code ignores (`_ = s.deindexSpent`, the deletions of both prunes). The cluster
keeps its records when the ingestor is started again from block 0, so any call
can meet any record; `rewritten` are the outpoints put or spent over a spent
record, which leaves the old band's entry. The prune looks at the band only, not
at the record. The bin `ops` is a list whose removal is by value, so a set.

**Prune** is the arithmetic of `Policy.D` and `sweep`, with uint32 as `0 ..
Word-1`; **Pruner** is `OnNewBlock` for arbitrary tips, the store calls failing
or not. The policy is a field of the pruner and chosen in `Init`.

**Ingest** extends MemStore, Prune and **Shard**. Policy and shard are chosen
together from `Deployments`; a transaction has a prefix and the ingestor skips
those whose prefix is another shard's, their spends included. `IngestBlock` and
`RollbackBlock` put their store calls in `todo` and each `Call...` action makes
the next one, so other goroutines can be interleaved between any two.
`OnNewBlock` expands into the prune calls it decides on. The chain is the environment's: bodies that obey
the consensus rules on the current branch, malformed copies of them (one for
each claim `validateBlock` checks), rollbacks no deeper than `ReorgHorizon`. A
Merkle root is a value that determines its leaves. A rejected block leaves a
hole at its height, and later blocks spend only outputs of ingested ones.
`Config.SkipValidate` is false.

**Queries** extends Ingest with a query in progress, one read per step. The
history field `was` collects what was true of the key during the call, read off
the chain and never off the store. Queries change nothing, so one at a time
shows everything a query can see. Questions about a transaction go to the shard
that the router's `ServerFor` names.

**Merkle** runs `proof.Build` and `Verify` for one leaf, a step per iteration of
the loops in `BuildMerkleTree`, `MerklePath` and `Fold`, first in the subtree
(L1) and then in the block (L2). `HashPair` is a parameter of which nothing is
assumed. The depth limits (20 for L1, `MaxDepth` in all) are parameters.

**Gate** has submitters, the pending batch, `time.AfterFunc` timers (external:
a timer may fire although `Stop` comes just after) and batches in flight. A
flight is a call of `VerifyBatch`, modelled by **CPUVerifier** as a job: its
results array, the start of the next chunk and the goroutines at work, each a
range of slots still to be written. **VerdictService** is the abstract
specification: a request is asked, and answered in one step by the reference
verdict on it. `Gate` instantiates it with the requests submitted and what their
result channels have been sent.

**Limiter** is `allow` in two steps, since the clock is read before the lock is
taken. Time is in ticks and tokens are in fractions of a token, so that the
refill is exact where the code has floats. The histories `granted` and `late`
are about one client and one span of time, each any.

**FieldLimbs** is the field arithmetic of `ct.go` with the number and width of the
words as parameters: chains of `Add64` and `Sub64` are carry functions, the two
multiplication loops are the rows of `AddRow`, and `feInv` is a step per bit of
the exponent. A register goes through any sequence of operations next to the
number it should hold. **Curve** has both point arithmetics over numbers modulo
p, which `FieldExact` justifies: the affine one with its special cases, and
`completeAdd` without any. **Signer** makes a key, sends it compressed, draws
nonces (`rfc6979Nonce` is any number of 1 .. n-1), runs the ladder a bit per step,
retries, signs and verifies; `KeyAfter` is the write of `x.Mod(x, curveN)` to the
caller's key.

**Channel** holds the pure part of `channel.go` and `channeltx.go` as operators
on records, amounts modulo `Word64`. A signature is its key, the transaction it
covers and whether S is low. A configuration is anything the JSON of an open
request can hold (`InRange`); `PricesFit` singles out those whose prices wrap no
sum, which `Open` does not check. **ChannelSession** runs one channel from `Open` to
the spending of its funding output with a client that may send anything, chain
time, the refund, and an operator who settles when `ShouldSettle` says so or
later: no code in the repository plays that operator, so time does not wait, and
`late` records that it passed a settlement that was due.

**PaidServer** extends Channel with the registry under concurrent handlers, a
step per critical section. `Quote`'s lookup and computation are merged with the
client's signing, since the quote is only a number the client may ignore.

**Attest** holds statements, attestations and the two fraud proofs as operators;
a signature is the key that made it. **Server** runs one operator over them: the
HTTP source (`height`, `srcTip`), the ingest loop, the pruner (module Prune), the
atomics `tip` and `ready`, and handlers that read an answer in one step and sign
it with the tip in another. The store is reduced to what answers depend on, the
transactions indexed (`index`) and the state of each output (`coin`): the loop
indexes a block, prunes and publishes the tip in three steps, and Ingest covers
what lies between. A block that fails validation is skipped for good, and so is
one whose store or prune calls fail half way, with any part of it written
(`IndexFails`, `PruneFails`). A fetch that fails is retried for ever, the memory
watchdog stops fetching while `atLimit`, and a restart loses the store and keeps
the key. The chain only grows here: the server never calls `RollbackBlock`.
Identity is configured and `EndHeight` is 0. `StartHeight` is any height, 0 as in
`memserved` included: the tip then reads 0 both before block 0 and after it.

**MultiClient** extends Server with one client call, a step per request. One
operator, at any position, is the server; the others answer anything. A proof
brings its own block root, so a proof of any leaf can fold (`OthersProofs`): the
client compares the root with nothing.

`MC*` modules give the constants their values. Operators marked *Mutant* are
plausible errors in the definition that follows them; replacing it by the
mutant makes the property violated.

## Runs

Parts that share no state are checked in one run: a behaviour starts in one part
and stays there (`part`), so the states are those of the parts side by side.

| run | checks | states |
|---|---|---|
| MCLibrary | the store (`BandComplete ContractHolds`: two outputs in two stripes, two heights, two prunes at once), the pruner (`FloorHeld GapFree`: every sequence of tips over six heights, five policies, failing calls), Merkle proofs (`BuiltProofVerifies DepthLaw`: subtrees of one to nine leaves, blocks of one to six subtrees, every leaf and place), `FieldExact` (every pair of operands), `LadderExact SignedVerifies` (five keys, four hashes, every nonce), the limiter (`WindowBound DeniedOnlyWhenBusy`: two clients, two handlers, six spans) | 511 thousand |
| MCServices | a channel (`Prepaid Settleable DeadlineSuffices FeeCollected`: 360 requests to open, those with fees and prices that wrap included), the registry (`ServedPrepaid BudgetHeld QuoteHonored`: two openers, two handlers, six ids), the gate (`NoneStranded BatchBound OneResult GateServes`: four requests, batches of three, two workers, with fairness), the Aerospike store (`BandsSound BandsComplete TxListed`: every order of calls, every failure of every request) | 225 thousand |
| MCQueries | `UtxoExact IndexServes IndexForgets UTXOAnswersTrue IndexAnswersTrue ProofsSound`: four blocks, double spends on two branches, reorgs of depth two, the index window, queries between any two store calls; one server under two policies, and two shards | 933 thousand |
| MCOperator | the server (`ViewIsTip CleanNeverEquivocates CleanDenialsTrue CatchesUp`: blocks 0 and 1, two policies, one restart, two signatures, blocks that fail anywhere) and the client over it and one arbitrary operator (`OneHonestSuffices UnanimityIsHonest`), with fairness | 796 thousand |

The type invariants of StoreClients, Pruner, Gate and ChannelSession are proved
together with the theorems below and are not repeated in the runs.

Eight runs state what a comment of the repository says and the code does not do.
Where something weaker does hold, a property of the runs above says what.

* **MCIngestReorgIndex** (`ReorgKeepsIndex`): a transaction mined again after a
  reorg is freed with the height of its first block.
* **MCShardUnspent** (`NeverFalseUnspent`): a shard applies only the spends of
  transactions it owns, so an output spent from another shard is answered
  unspent. Without shards the property holds in the same configuration.
* **MCFalseAbsent** (`NeverFalseAbsent`): a spent output whose record is pruned and
  whose index entry has left its window too is answered *unknown*, as one that
  never was. `UTXOAnswersTrue` has the answers that remain possible.
* **MCAerospikeMirror** (`PruneMirrorsReference`): without any failure, an output
  put again over its spent record is unspent and still in a band that the
  Aerospike prune deletes unseen; the in-memory store looks at the record.
  `BandsSound` names the two ways such an entry comes about.
* **MCServerWhole** (`ServerWhole`): `Open` accepts a refund with a count trigger
  alone, and the refund matures before the count is reached. With a deadline,
  `DeadlineSuffices`.
* **MCChannelCap** (`CapHeld`): two `OpenChannel` calls pass the check and both insert.
  `CapTheorem` bounds the overrun.
* **MCProven** (`ProvenIsMined`): the client takes a proof that folds to a root of
  the operator's own choice, so *proven* does not mean mined. `OneHonestSuffices` is
  what a client gets: the proof an honest operator has is not missed.
* **MCEquivocation** (`HonestNeverEquivocates`): an honest operator's answers before
  block 0 and after it, or around the moment the tip is stored, contradict each
  other at one tip, and `ProveEquivocation` accepts the pair. Answers read and
  signed between blocks do not: `CleanNeverEquivocates`.

Met while modelling, and not runs of their own: a sweep that fails is never made
up for, because `lastTip` moves first; `Verify` reduces x in place, and for a hash
that is a multiple of the order, r = s and x above the order, the number reduced
is the caller's `pub.X`, which then need not be on the curve any more, and `Verify`
refuses a key that is not; a request that takes the limiter's lock late sets
`last` back and takes tokens away, and a rate of zero or less means no limiter;
`Count(32)` is 0, so a router of width 32 wants no servers; opening an id again
replaces a channel with sold accesses; an output being ingested can be answered
*not in window* (between `PutTxIndex` and `PutUTXO`), or unspent though its own
block spends it; after a rollback the replaced block's record is never freed; an
amortized fee is not collected from a channel abandoned early; `Settle` does not
take the miner's fee off the change it reports; an access priced zero, or whose
price wraps to it, is sold for the previous commitment; with a miner's fee so
large that `toServer + Fee` wraps, the settlement pays out more than the funding
output holds, and `RefundTx` subtracts the fee without a check; settled channels
stay in the registry; `ErrClosed` is charged to the abuse budget;
`ProveFalseNegative` does not look at the tip, so a "not mined" that was true at
its tip is refuted by any later inclusion proof; a server at its memory limit
fetches no block, and with `IndexRetention` 0 it frees index data never, so the
pause can last. The properties above say where they allow for these.

### Bounds

Two heights and two outputs reach every stale band entry (a record is in at
most two bands), and the outputs lie in two stripes, so that a call can come
between the stripes of a prune. Six heights hold a policy, a jump over a band and a lower tip.
Four blocks hold a reorg of two; the three transactions create, spend and
double-spend one output, within a block and across blocks, and their prefixes
put the rivals in different shards. Four requests and batches of three give a full batch, a timed batch and
a stale timer between them, and batches of one, two and three requests for two
workers: no goroutine, two equal chunks, a short last chunk. Channels have a
deposit of seven and at most four accesses, enough for overpayment, exhaustion and both fee
modes; with `Word64` = 64 a price of 62 wraps the quote, a fee of 62 the payout check,
and a settlement fee of 63 the sum under `ceilDiv`. Two handlers and two openers
race each other, and an opener past its check can replace the channel the other
one opened. Blocks 0 and 1 hold the life of an output (mined, spent, pruned) and
of an index entry, and the tip that reads 0 before and after the first of them;
two statements are what a fraud proof takes. Two operators hold a liar before and
after the honest one; with `NOps = 2` the majority and plurality are ties or
unanimous, and their larger splits are left to the proof. Nine leaves give a tree
with levels of 9, 5 and 3, and with six subtrees and limits of three and five
there are proofs too deep in L1 and proofs too deep only in all. Two words of four
bits and `feC` = 5 keep what matters of four words of 64 bits and 2^32 + 977: one
word, whose square is more than a word. All pairs of operands were enumerated
outside TLC as well: every carry and borrow occurs, the last fold of `feMul`
included, except that the first fold of `feAdd` and the last of `feMul` never
carry out of the top word, so `feAdd` has nothing to fold a second time. The curve y^2 = x^3 + 7 over 163
elements has 139 points, a prime like secp256k1's, and both r = 0 and x above the
order occur; two tries reach `ErrSign`. In the limiter a second is two ticks, a
minute four, one bucket fills the map, and a handler waits at most a tick for the
lock. The output calls and the index calls
of the Aerospike store share no record, so a behaviour keeps to one of the two.

### Fairness and deadlock

`GateServes` includes that every request is answered and assumes weak fairness
of a live timer's expiry and callback and of the goroutines and deliveries of a
launched batch: Go's runtime runs expired timers and runnable
goroutines, and the result channel is buffered, so no delivery blocks.
Submitters need not submit. `CatchesUp` assumes that the ingest goroutine runs and
that a request retried for ever succeeds in the end: the source polls without
end. Nothing is assumed of the memory, since a loop at its limit fetches no block
and so frees nothing: that the process stays below the limit from some time on is
a hypothesis of the property. Nothing is assumed of the client's calls, which
have no timeout. The chain need not grow and the server need not restart.
Deadlock is not checked where the environment is
exhausted by its bounds (blocks, requests, accesses).

## Proofs

| theorem | states |
|---|---|
| `RetentionProofs.StoreInvariant` | types and `BandComplete`, any keys, heights, stripes and callers |
| `RetentionProofs.StoreImplementsContract` | MemStore implements SpendContract, likewise |
| `RetentionProofs.FloorTheorem` | `FloorHeld`, any policies, tips and failures |
| `RetentionProofs.GapFreeTheorem` | `GapFree`, any policies and tips |
| `AerospikeProofs.BandsSoundTheorem`, `BandsCompleteTheorem`, `TxListedTheorem` | the three properties of the Aerospike store, any calls, records and failures |
| `GateProofs.StrandedTheorem` | types and `NoneStranded`, any requests and batch size |
| `GateProofs.BatchTheorem` | `BatchBound`, likewise |
| `GateProofs.OneResultTheorem` | `OneResult`, likewise |
| `GateProofs.SendNeverBlocks` | the result channel a verdict is sent on is empty |
| `GateProofs.GateRefines` | Gate implements VerdictService (its safety), any requests, batch size and workers |
| `ChannelProofs.PrepaidTheorem`, `SettleableTheorem` | types, `Prepaid` and `Settleable`, any configurations and commitments |
| `ChannelProofs.DeadlineTheorem` | `DeadlineSuffices`, likewise |
| `ChannelProofs.FeeTheorem` | `FeeCollected`, likewise |
| `PaidProofs.ServedTheorem` | `ServedPrepaid`, any ids and policy, any number of handlers and openers |
| `PaidProofs.BudgetTheorem` | `BudgetHeld`, likewise |
| `PaidProofs.CapTheorem` | the registry exceeds `MaxChannels` by fewer than the openers at work, likewise |
| `PaidProofs.QuoteTheorem` | `QuoteHonored`, an action property, likewise |
| `ServerProofs.ViewTheorem` | `ViewIsTip`, any transactions, start height, policies, failures and restarts |
| `ServerProofs.CleanTheorem`, `DenialTheorem` | `CleanNeverEquivocates` and `CleanDenialsTrue`, likewise |
| `ServerProofs.OneHonestTheorem` | `OneHonestSuffices`, any number of operators that answer anything |
| `ServerProofs.UnanimityTheorem` | `UnanimityIsHonest`, likewise |
| `MerkleProofs.ProofTheorem` | `BuiltProofVerifies`, any leaves, blocks and limits |
| `MerkleProofs.DepthTheorem` | `DepthLaw`, any number of leaves |
| `LimiterProofs.LimiterTheorem` | `WindowBound`, any clients, handlers, rate and span |
| `LimiterProofs.BusyTheorem` | `DeniedOnlyWhenBusy`, an action property, likewise |

*Store.* `BandComplete` is inductive with the types. The refinement maps a running
prune to what it still owes (`Due`), the records spent at its height in the
stripes to come, and to the stripes done, its slices, so that what a prune deletes
is not taken for a caller's `DeleteUTXO`. Locking a stripe deletes the spent records *in* the band of that
stripe, and completeness makes them all that is due there
(`BandsSelectTheScan`); the guard on the record makes stale entries harmless. A call
changes what any running prune owes for its own record only (`CallSeen`), and after
the last stripe nothing is due.

*Pruner.* `FloorHeld` speaks of the horizon and is not inductive; the invariant
`PrunerInv` says every swept height lies the full D below the highest tip and that
`lastTip` is not above it. `SweepFacts` (what `sweep` visits, with the wrap of
`start`) is the lemma both theorems rest on. Assumed: the policy's sum does not
wrap, which `PolicyWithD` ensures.

*Gate.* Pending requests imply a timer that is armed or has fired for this
batch; a full batch is taken in the step that fills it. For the refinement the
invariant says of every job that what its goroutines have left behind holds the
reference verdicts, so that a job that has returned holds them all, and that a
request in flight or pending was submitted. A step of the gate is then a
question, an answer or nothing to the callers. `OneResult` counts the places of
the unanswered requests; to keep it, a step needs that no batch shares a request,
answered ones included, with another or with `pending`, and that a flight has
answered exactly its first `sent` requests (`PlaceInv`). The same invariant shows
that the buffered channel is empty at every send (`SendNeverBlocks`), on which the
fairness of deliveries rests.

*Limiter.* `WindowBound` needs an account: the tokens left of a bucket, and what
the span allows from `last` on, cover what may still be granted. A negative refill
is given back when time is credited again, so the sum does not grow; a bucket is
dropped only a minute after `last`, when the new one's full burst is what refill
would have given. Assumed: twice the wait for the lock and a second fit in a
minute. `DeniedOnlyWhenBusy` needs the converse account, `EarnedInv`: while no request
of the client was overtaken, what its bucket holds and what it was granted come to
the burst or to the refill since the span began; a bucket below one token then
means the whole rate was granted. Products of rate and time appear as `Credit` and `Charge`, with the few
facts about them (sum, order) as lemmas.

*Channel.* The invariant adds that the best commitment is verified for exactly
`cumPaid` (`Backed`), so the settlement transaction carries a signature over itself.
`SettlementBalanced` has its outputs for every fee: where `cumPaid + fee` wraps, they
exceed the funding value. Nothing is assumed of a configuration but its types;
`Prepaid` and `FeeCollected` name `PricesFit` where they need it, because `Open` does
not ensure it. `ChargedInv` has what was charged to the unit, and that n shares
rounded up make at least the fee. `DeadlineSuffices` rests on `Timely`: of an operator
who was never late, the funding output of an open channel with a deadline is still
locked, because the lock time lies after the deadline.

*Paid server.* `ServedPrepaid` is kept by one fact about `Authorize`: it books one
access, for a commitment that covers its price, on the object it was given. For the limits the
invariant counts who can still exceed them: failed attempts and the handlers past
`lookup` (`BudgetInv`), channels and the openers past their check (`CapInv`), are together
bounded; taking a place needs the count below the limit. For the channels this is
weaker than the cap, which does not hold. `QuoteHonored` rests on
`QuoteInv`: a commitment in transit is well signed, and if the channel is still at
the access count it was quoted at, it is for the price of the next access. Assumed:
finitely many handlers and openers.

*Server.* `ViewIsTip` holds only between blocks. The invariant (`Phases`) says for
each stage of the loop what index and coins are: those of the last tip, those
with the new block before pruning, those of the new block before the tip says
so; and that a process that has ingested none holds nothing, whatever its tip reads. `HeldStep` and `CoinStep` show that one sweep takes the retained state of a
tip to that of the next, from the sweep's arithmetic. A clean statement is then
a function of its tip alone (`SignedInv`), which gives both properties, restarts
included. It is clean only if a block had been ingested, none was in work between
reading and signing, and the process left none out.

*Client.* For `OneHonestSuffices` the proof must not be missed between
two requests while the server goes on ingesting: the index only holds heights
behind the source (`ChainInv`), so within one life of the process an entry that was
there when the call began and is gone does not come back (`Behind`), and a search
that passed the server without a proof passed it when the entry was gone
(`Sought`). `UnanimityIsHonest` is about counting: the honest vote is among those
counted, and a tally as large as the number of votes leaves room for no other
(`Counting`, `Unanimous`).

*Merkle.* `BuiltProofVerifies` needs no induction over the leaves, because the loops are steps: the
invariant says that each level is the `NextLevel` of the one below, each path
element is that of our position on its level, and the fold has reached our node
of level k. `FoldLevel` is the arithmetic fact: one element takes our node to our
node of the next level, the odd last one included. `DepthLaw` adds that a level that
has one above it has more than one node; by induction from the root down, the
level j below it then has more than 2^(j-1) and at most 2^j nodes (`Sized`), and so
have the leaves (`DepthOfTree`). Assumed: lists are not
empty, which `BuildMerkleTree` refuses.

*Aerospike.* The three properties are inductive with the types. `BandsSound` needs
the order of requests in `SpendUTXO` (record, then band) and in `UnspendUTXO` and
`DeleteUTXO` (band, then record): then only an ignored failure, or a write over a
spent record, leaves an entry in a band whose record is not spent there.

Inductions over numbers go through the least number at which a statement fails
(`LeastNat`, `NatInd`), since the library's induction rules take an operator as a
parameter, which the provers do not instantiate.

Only model-checked: the liveness (in `GateServes` and `CatchesUp`), since
fairness and ENABLED are outside what the prover does; the six properties of
MCQueries, because the list of store calls a block expands into is flattened from sorted
sets of transactions, and the invariant would have to say of every suffix of it what
it still owes the store; and the cryptography (`FieldExact`, `LadderExact`,
`SignedVerifies`), whose carries are recursive functions over the words and whose group
law is checked by computing.

## Not modelled

* The CUDA verifier: kernels, compared with the reference by `accel.Validate`.
* Transaction bytes, scripts, addresses and hashes (`bsvtx/`, RIPEMD-160, the
  HMAC of the nonce): conversions without state; the amounts, keys and locks
  they commit to are in Channel.
* Endorsements by miners and the field tree L0 (`BuildMTxID` and its paths): pure
  functions that nothing outside `attest/` and `commitment/` calls; a served proof
  has an empty L0.
* Reorgs seen by the server: `httpsource` walks heights upward and nothing calls
  `RollbackBlock`, so Server's chain only grows; Ingest has the rollbacks.
* The server over the Aerospike store: what calls made again over kept records do
  is in AerospikeStore, the answers given meanwhile are not modelled.
* Commands, benchmarks and the store conformance suite: wiring and test code.

## Plan

1. The server composed with the Aerospike store; a chain that is reorganized under
   the HTTP source.
2. Proofs: the records of Ingest between handlers, and the answers of Queries from
   them.
