---------------------------- MODULE ServerProofs ----------------------------
(***************************************************************************)
(* Between blocks the server's view is the one its tip determines, and     *)
(* clean statements never contradict each other, for every chain, policy,  *)
(* number of handlers, statements and restarts.  What a client makes of    *)
(* the answers of the server and of any number of other operators: one     *)
(* honest operator is enough to find a proof, and unanimity with the       *)
(* server is its answer.                                                   *)
(***************************************************************************)
EXTENDS MultiClient, FiniteSetTheorems, TLAPS

(* The block ingested next by a process that skipped none.                   *)
NextTip == IF hasTip THEN tip + 1 ELSE StartHeight

Types ==
  /\ policy \in Policies /\ node \in Heights
  /\ height \in Nat /\ srcTip \in Heights
  /\ loop \in [at : {"poll", "index", "prune", "publish"}, block : Heights]
  /\ lastTip \in Heights /\ hasTip \in BOOLEAN /\ tip \in Heights
  /\ skipped \in BOOLEAN
  /\ loop.at = "poll" => loop = Polling

(* The index entries and coins held between blocks.                          *)
HeldNow == IF hasTip THEN HeldAt(tip) ELSE {}
CoinNow(t) == IF hasTip THEN CoinAt(t, tip) ELSE "absent"
CoinsNow == [t \in Txs |-> CoinNow(t)]

(* What the loop has done of its block, phase by phase.                      *)
Phases ==
  ~skipped =>
    /\ ~hasTip => tip = 0
    /\ hasTip /\ loop.at # "publish" => lastTip = tip /\ tip >= StartHeight
    /\ loop.at = "poll" => height = NextTip /\ index = HeldNow /\ coin = CoinsNow
    /\ loop.at = "index" =>
         /\ loop.block = NextTip /\ height = loop.block + 1
         /\ index = HeldNow /\ coin = CoinsNow
    /\ loop.at = "prune" =>
         /\ loop.block = NextTip /\ height = loop.block + 1
         /\ index = HeldNow \cup MinedAt(loop.block)
         /\ coin = [t \in Txs |-> Indexed(CoinNow(t), t, loop.block)]
    /\ loop.at = "publish" =>
         /\ hasTip /\ lastTip = loop.block /\ height = loop.block + 1
         /\ loop.block >= StartHeight
         /\ index = HeldAt(loop.block) /\ coin = CoinsAt(loop.block)

(* The answer a tip determines.                                              *)
AnswerAt(kind, t, h) == AnswerFrom(HeldAt(h), CoinsAt(h), kind, t)

AskedInv ==
  \A a \in asked : a.quiet =>
    /\ loop = Polling
    /\ hasTip /\ ~skipped => a.answer = AnswerAt(a.answer.kind, a.answer.tx, tip)

SignedInv ==
  \A s \in signed : s.clean =>
    LET m == s.att.statement IN m = Statement(AnswerAt(m.kind, m.tx, m.tip), m.tip)

IInv == Types /\ Phases /\ AskedInv /\ SignedInv

-----------------------------------------------------------------------------
(* D and IndexRetention are uint32 values, and D does not wrap.              *)
LEMMA PolicyFacts ==
  ASSUME NEW p \in Policies
  PROVE  /\ D(p) \in Nat /\ D(p) < Word
         /\ p.IndexRetention \in Nat
  BY PolicyAssumption DEF D, Policy, Uint32

(* A sweep on the block after the last one, or on the first, frees one band. *)
LEMMA SweepOne ==
  ASSUME NEW prevTip \in Nat, NEW hadTip \in BOOLEAN, NEW b \in Nat, NEW d \in Nat,
         b < Word, Word \in Nat, hadTip => b = prevTip + 1
  PROVE  \A k \in Nat : k \in SweepBands(prevTip, hadTip, b, d) <=> k + d = b
<1>1. CASE b < d BY <1>1 DEF SweepBands
<1>2. CASE b >= d /\ ~hadTip BY <1>2 DEF SweepBands, SweepStart
<1>3. CASE b >= d /\ hadTip /\ prevTip >= d
  <2>1. ((prevTip - d) + 1) % Word = b - d BY <1>3
  <2> QED BY <1>3, <2>1 DEF SweepBands, SweepStart
<1>4. CASE b >= d /\ hadTip /\ prevTip < d BY <1>4 DEF SweepBands, SweepStart
<1> QED BY <1>1, <1>2, <1>3, <1>4

(* The loop is about to prune after the block that follows the tip.          *)
Pruning ==
  /\ policy \in Policies /\ tip \in Heights /\ loop.block \in Heights
  /\ hasTip \in BOOLEAN /\ lastTip \in Heights
  /\ hasTip => lastTip = tip /\ tip >= StartHeight
  /\ ~hasTip => tip = 0
  /\ loop.block = IF hasTip THEN tip + 1 ELSE StartHeight

LEMMA PruningSweep ==
  ASSUME Pruning, NEW d \in Nat
  PROVE  \A k \in Nat : k \in SweepBands(lastTip, hasTip, loop.block, d) <=> k + d = loop.block
<1>1. /\ lastTip \in Nat /\ loop.block \in Nat /\ loop.block < Word /\ Word \in Nat
      /\ hasTip \in BOOLEAN /\ (hasTip => loop.block = lastTip + 1)
  BY ServerAssumption, PolicyAssumption DEF Pruning, Heights
<1> QED BY <1>1, SweepOne

(* Freeing that band from the index of the tip and the block leaves the      *)
(* index the block determines.                                               *)
LEMMA HeldStep ==
  ASSUME Pruning, index = HeldNow \cup MinedAt(loop.block)
  PROVE  index \ AgedOut = HeldAt(loop.block)
<1> DEFINE r == policy.IndexRetention
           b == loop.block
           old == SweepBands(lastTip, hasTip, b, r)
<1> USE DEF Pruning
<1>1. r \in Nat BY PolicyFacts
<1>2. /\ StartHeight \in Nat /\ MaxHeight \in Nat /\ Word \in Nat
      /\ tip \in Nat /\ b \in Nat /\ b < Word /\ b >= StartHeight /\ lastTip \in Nat
      /\ \A t \in Txs : TxHeight[t] \in Nat
  BY ServerAssumption, PolicyAssumption DEF Heights, Never
<1>3. \A k \in Nat : k \in old <=> k + r = b
  BY <1>1, PruningSweep
<1>4. \A t : t \in AgedOut <=> t \in index /\ r > 0 /\ TxHeight[t] \in old
  BY DEF AgedOut
<1>5. \A t : t \in index <=> t \in Txs /\ (t \in HeldNow \/ TxHeight[t] = b)
  BY DEF MinedAt, HeldNow, HeldAt
<1> HIDE DEF old
<1>6. ASSUME NEW t \in Txs PROVE t \in index \ AgedOut <=> t \in HeldAt(b)
  <2>1. PICK h \in Nat : h = TxHeight[t]
    BY <1>2
  <2>2. t \in HeldAt(b) <=> h \in StartHeight .. b /\ (r = 0 \/ h + r > b)
    BY <2>1 DEF HeldAt
  <2>3. t \in index \ AgedOut <=> (t \in HeldNow \/ h = b) /\ ~(r > 0 /\ h + r = b)
    BY <1>3, <1>4, <1>5, <2>1
  <2>4. CASE hasTip
    <3>1. t \in HeldNow <=> h \in StartHeight .. tip /\ (r = 0 \/ h + r > tip)
      BY <2>1, <2>4 DEF HeldNow, HeldAt
    <3> QED BY <1>1, <1>2, <2>2, <2>3, <2>4, <3>1
  <2>5. CASE ~hasTip
    <3>1. t \notin HeldNow
      BY <2>5 DEF HeldNow
    <3> QED BY <1>1, <1>2, <2>2, <2>3, <2>5, <3>1
  <2> QED BY <2>4, <2>5
<1>7. index \subseteq Txs /\ HeldAt(b) \subseteq Txs
  BY <1>5 DEF HeldAt
<1> QED BY <1>6, <1>7

(* The same for the record of an output.                                     *)
LEMMA CoinStep ==
  ASSUME Pruning, NEW t \in Txs, coin[t] = Indexed(CoinNow(t), t, loop.block)
  PROVE  (IF Freed(t) THEN "absent" ELSE coin[t]) = CoinAt(t, loop.block)
<1> DEFINE d == D(policy)
           b == loop.block
<1> USE DEF Pruning
<1>1. d \in Nat BY PolicyFacts
<1>2. /\ StartHeight \in Nat /\ MaxHeight \in Nat /\ Word \in Nat /\ lastTip \in Nat
      /\ tip \in Nat /\ b \in Nat /\ b <= MaxHeight /\ b >= StartHeight
      /\ TxHeight[t] \in Nat /\ SpendHeight[t] \in Nat
      /\ SpendHeight[t] > TxHeight[t] \/ SpendHeight[t] = MaxHeight + 1
  BY ServerAssumption, PolicyAssumption DEF Heights, Never
<1>3. SpendHeight[t] \in SpentOut <=> SpendHeight[t] + d = b
  BY <1>1, <1>2, PruningSweep DEF SpentOut
<1>4. Freed(t) <=> coin[t] = "spent" /\ SpendHeight[t] + d = b
  BY <1>3 DEF Freed
<1> HIDE DEF d, b
<1>5. PICK x, y \in Nat : x = TxHeight[t] /\ y = SpendHeight[t]
  BY <1>2
<1>6. CASE hasTip
  <2>1. b = tip + 1 /\ CoinNow(t) = CoinAt(t, tip)
    BY <1>6 DEF CoinNow, b
  <2> QED BY <1>1, <1>2, <1>4, <1>5, <2>1 DEF CoinAt, Indexed, b, d
<1>7. CASE ~hasTip
  <2>1. b = StartHeight /\ CoinNow(t) = "absent"
    BY <1>7 DEF CoinNow, b
  <2> QED BY <1>1, <1>2, <1>4, <1>5, <2>1 DEF CoinAt, Indexed, b, d
<1> QED BY <1>6, <1>7

-----------------------------------------------------------------------------
LEMMA InitInv == Init => IInv
<1> SUFFICES ASSUME Init PROVE IInv
  OBVIOUS
<1>1. StartHeight \in Nat /\ MaxHeight \in Nat /\ StartHeight <= MaxHeight
  BY ServerAssumption
<1>2. Types
  <2>1. 0 \in Heights
    BY <1>1 DEF Heights
  <2>2. Polling \in [at : {"poll", "index", "prune", "publish"}, block : Heights]
    BY <2>1 DEF Polling
  <2> QED BY <1>1, <2>1, <2>2 DEF Init, Types
<1>3. Phases
  BY <1>1 DEF Init, Phases, NextTip, Polling, HeldNow, CoinsNow, CoinNow
<1> QED BY <1>2, <1>3 DEF IInv, Init, AskedInv, SignedInv

(* The policy is fixed, so a step does not change what a tip determines.     *)
LEMMA ViewFixed ==
  ASSUME policy' = policy
  PROVE  /\ \A h : HeldAt(h)' = HeldAt(h) /\ CoinsAt(h)' = CoinsAt(h)
         /\ \A k, t, h : AnswerAt(k, t, h)' = AnswerAt(k, t, h)
  BY DEF HeldAt, CoinsAt, CoinAt, D, AnswerAt, AnswerFrom, StatusIn

(* Nor, as long as no block is done, what is held between blocks.            *)
LEMMA NowFixed ==
  ASSUME policy' = policy, hasTip' = hasTip, tip' = tip
  PROVE  /\ HeldNow' = HeldNow /\ CoinsNow' = CoinsNow
         /\ \A t, b : Indexed(CoinNow(t), t, b)' = Indexed(CoinNow(t), t, b)
  BY DEF HeldNow, CoinsNow, CoinNow, HeldAt, CoinAt, D, Indexed

(* The steps of the ingest loop, the source and the chain.                   *)
LoopStep ==
  \/ Extend \/ Memory \/ NextFails \/ NextCaughtUp \/ NextBlock \/ RejectBlock \/ Pause
  \/ IndexBlock \/ OnNewBlock \/ Publish
  \/ \E coins, entries \in SUBSET Txs : IndexFails(entries, coins) \/ PruneFails(coins, entries)

(* A step of the ingest loop, the source or the chain keeps the view.        *)
LEMMA LoopInv ==
  ASSUME IInv,
         LoopStep
  PROVE  Types' /\ Phases'
<1> USE DEF IInv
<1>1. /\ StartHeight \in Nat /\ MaxHeight \in Nat /\ StartHeight <= MaxHeight
      /\ MaxHeight + 1 < Word
  BY ServerAssumption
<1>2. KnownTip \in Heights
  BY DEF KnownTip, Types
<1>3. ASSUME UNCHANGED <<policy, height, loop, index, coin, lastTip, hasTip, tip, skipped>>
      PROVE  Phases'
  <2>1. \A h : HeldAt(h)' = HeldAt(h) /\ CoinsAt(h)' = CoinsAt(h)
    BY <1>3, ViewFixed
  <2>2. /\ HeldNow' = HeldNow /\ CoinsNow' = CoinsNow
        /\ \A t, b : Indexed(CoinNow(t), t, b)' = Indexed(CoinNow(t), t, b)
    BY <1>3, NowFixed
  <2> QED BY <1>3, <2>1, <2>2 DEF Phases, NextTip, MinedAt
<1>4. ASSUME Extend \/ Memory PROVE Types' /\ Phases'
  <2>1. /\ UNCHANGED <<policy, height, srcTip, loop, index, coin, lastTip, hasTip, tip, skipped>>
        /\ node' = node \/ (node < MaxHeight /\ node' = node + 1)
    BY <1>4 DEF Extend, Memory, source, store, pruner
  <2>2. node' \in Heights
    BY <1>1, <2>1 DEF Types, Heights
  <2> QED BY <1>3, <2>1, <2>2 DEF Types
<1>5. ASSUME NextFails \/ NextCaughtUp \/ Pause PROVE Types' /\ Phases'
  <2>1. /\ UNCHANGED <<policy, node, height, loop, index, coin, lastTip, hasTip, tip, skipped>>
        /\ srcTip' \in {srcTip, KnownTip}
    BY <1>5 DEF NextFails, NextCaughtUp, Pause, source, store, pruner
  <2> QED BY <1>2, <1>3, <2>1 DEF Types
<1>6. ASSUME NextBlock PROVE Types' /\ Phases'
  <2>1. /\ height <= KnownTip /\ height' = height + 1 /\ srcTip' = KnownTip
        /\ loop = Polling /\ loop' = [at |-> "index", block |-> height]
        /\ UNCHANGED <<policy, node, index, coin, lastTip, hasTip, tip, skipped>>
    BY <1>6 DEF NextBlock, Deliver, Fetching, Quiet, store, pruner
  <2>2. height \in Heights
    BY <1>1, <1>2, <2>1 DEF Types, Heights
  <2>3. Types'
    BY <1>2, <2>1, <2>2 DEF Types, Heights
  <2>4. HeldNow' = HeldNow /\ CoinsNow' = CoinsNow
    BY <2>1, NowFixed
  <2>5. Phases'
    BY <2>1, <2>4 DEF Phases, NextTip, Polling
  <2> QED BY <2>3, <2>5
<1>7. ASSUME RejectBlock PROVE Types' /\ Phases'
  BY <1>2, <1>7 DEF RejectBlock, Deliver, store, pruner, Types, Phases, Heights
<1>8. ASSUME NEW coins, NEW entries, IndexFails(entries, coins) \/ PruneFails(coins, entries)
      PROVE  Types' /\ Phases'
  <2>1. /\ loop' = Polling /\ skipped' = TRUE
        /\ UNCHANGED <<policy, node, height, srcTip, tip>>
    BY <1>8 DEF IndexFails, PruneFails, Abandon, source
  <2>2. (lastTip' = lastTip /\ hasTip' = hasTip) \/ (lastTip' = loop.block /\ hasTip' = TRUE)
    BY <1>8 DEF IndexFails, PruneFails, Sweep, pruner
  <2>3. 0 \in Heights /\ loop.block \in Heights
    BY <1>1 DEF Types, Heights
  <2> QED BY <2>1, <2>2, <2>3 DEF Types, Phases, Polling
<1>9. ASSUME IndexBlock PROVE Types' /\ Phases'
  <2>1. /\ loop.at = "index" /\ index' = index \cup MinedAt(loop.block)
        /\ coin' = [t \in Txs |-> Indexed(coin[t], t, loop.block)]
        /\ loop' = [loop EXCEPT !.at = "prune"]
        /\ UNCHANGED <<policy, node, height, srcTip, lastTip, hasTip, tip, skipped>>
    BY <1>9 DEF IndexBlock, source, pruner
  <2>2. /\ loop'.at = "prune" /\ loop'.block = loop.block
        /\ loop' \in [at : {"poll", "index", "prune", "publish"}, block : Heights]
    BY <2>1 DEF Types
  <2>3. Types'
    BY <2>1, <2>2 DEF Types
  <2>4. ~skipped => coin' = [t \in Txs |-> Indexed(CoinNow(t), t, loop.block)]
    BY <2>1 DEF Phases, CoinsNow
  <2>5. HeldNow' = HeldNow /\ \A t, b : Indexed(CoinNow(t), t, b)' = Indexed(CoinNow(t), t, b)
    BY <2>1, NowFixed
  <2>6. MinedAt(loop.block)' = MinedAt(loop.block)
    BY <2>2 DEF MinedAt
  <2>7. Phases'
    BY <2>1, <2>2, <2>4, <2>5, <2>6 DEF Phases, NextTip
  <2> QED BY <2>3, <2>7
<1>10. ASSUME OnNewBlock PROVE Types' /\ Phases'
  <2>1. /\ loop.at = "prune"
        /\ coin' = [t \in Txs |-> IF Freed(t) THEN "absent" ELSE coin[t]]
        /\ index' = index \ AgedOut
        /\ lastTip' = loop.block /\ hasTip' = TRUE
        /\ loop' = [loop EXCEPT !.at = "publish"]
        /\ UNCHANGED <<policy, node, height, srcTip, tip, skipped>>
    BY <1>10 DEF OnNewBlock, Sweep, source
  <2>2. /\ loop'.at = "publish" /\ loop'.block = loop.block
        /\ loop' \in [at : {"poll", "index", "prune", "publish"}, block : Heights]
        /\ loop.block \in Heights
    BY <2>1 DEF Types
  <2>3. Types'
    BY <2>1, <2>2 DEF Types
  <2>4. ASSUME ~skipped
        PROVE  /\ index' = HeldAt(loop.block)
               /\ coin' = CoinsAt(loop.block)
               /\ loop.block >= StartHeight
    <3>1. /\ Pruning
          /\ index = HeldNow \cup MinedAt(loop.block)
          /\ coin = [t \in Txs |-> Indexed(CoinNow(t), t, loop.block)]
      BY <1>1, <2>1, <2>2, <2>4 DEF Types, Phases, NextTip, Pruning
    <3>2. index' = HeldAt(loop.block)
      BY <2>1, <3>1, HeldStep
    <3>3. ASSUME NEW t \in Txs PROVE coin'[t] = CoinAt(t, loop.block)
      <4>1. coin[t] = Indexed(CoinNow(t), t, loop.block)
        BY <3>1
      <4>2. coin'[t] = IF Freed(t) THEN "absent" ELSE coin[t]
        BY <2>1
      <4> QED BY <3>1, <4>1, <4>2, CoinStep
    <3>4. coin' = CoinsAt(loop.block)
      <4>1. coin' = [t \in Txs |-> coin'[t]]
        BY <2>1
      <4> QED BY <3>3, <4>1 DEF CoinsAt
    <3> QED BY <1>1, <3>1, <3>2, <3>4 DEF Pruning, Heights
  <2>5. \A h : HeldAt(h)' = HeldAt(h) /\ CoinsAt(h)' = CoinsAt(h)
    BY <2>1, ViewFixed
  <2>6. Phases'
    BY <2>1, <2>2, <2>4, <2>5 DEF Phases
  <2> QED BY <2>3, <2>6
<1>11. ASSUME Publish PROVE Types' /\ Phases'
  <2>1. /\ loop.at = "publish" /\ tip' = loop.block /\ loop' = Polling
        /\ UNCHANGED <<policy, node, height, srcTip, index, coin, lastTip, hasTip, skipped>>
    BY <1>11 DEF Publish, source, store, pruner
  <2>2. loop.block \in Heights /\ 0 \in Heights
    BY <1>1 DEF Types, Heights
  <2>3. Types'
    BY <2>1, <2>2 DEF Types, Polling
  <2>4. \A h : HeldAt(h)' = HeldAt(h) /\ CoinsAt(h)' = CoinsAt(h)
    BY <2>1, ViewFixed
  <2>5. hasTip => HeldNow' = HeldAt(loop.block) /\ CoinsNow' = CoinsAt(loop.block)
    <3>1. hasTip => HeldNow' = HeldAt(tip') /\ CoinsNow' = CoinsAt(tip')
      BY <2>1 DEF HeldNow, CoinsNow, CoinNow, CoinsAt, HeldAt, CoinAt, D
    <3> QED BY <2>1, <3>1
  <2>6. Phases'
    BY <2>1, <2>4, <2>5 DEF Phases, NextTip, Polling
  <2> QED BY <2>3, <2>6
<1> QED BY <1>4, <1>5, <1>6, <1>7, <1>8, <1>9, <1>10, <1>11 DEF LoopStep

(* A step of the loop, the source or the chain disturbs no pending quiet     *)
(* answer: the loop leaves Polling only with a block, which ends the quiet.  *)
LEMMA LoopKeepsAnswers ==
  ASSUME IInv,
         LoopStep
  PROVE  AskedInv' /\ SignedInv'
<1>1. policy' = policy /\ signed' = signed
  BY DEF LoopStep, Extend, Memory, NextFails, NextCaughtUp, NextBlock, RejectBlock, Pause,
         IndexBlock, OnNewBlock, Publish, IndexFails, PruneFails, Abandon, handlers
<1>2. \A k, t, h : AnswerAt(k, t, h)' = AnswerAt(k, t, h)
  BY <1>1, ViewFixed
<1>3. SignedInv'
  BY <1>1, <1>2 DEF IInv, SignedInv
<1>4. ASSUME Extend \/ Memory \/ NextFails \/ NextCaughtUp \/ Pause PROVE AskedInv'
  <2>1. UNCHANGED <<asked, loop, hasTip, skipped, tip>>
    BY <1>4 DEF Extend, Memory, NextFails, NextCaughtUp, Pause, handlers, pruner
  <2> QED BY <1>2, <2>1 DEF IInv, AskedInv
<1>5. ASSUME NextBlock PROVE AskedInv'
  <2>1. asked' = {[answer |-> a.answer, quiet |-> FALSE] : a \in asked}
    BY <1>5 DEF NextBlock
  <2>2. \A a \in asked' : a.quiet = FALSE
    BY <2>1
  <2> QED BY <2>2 DEF AskedInv
<1>6. ASSUME RejectBlock PROVE AskedInv'
  <2>1. UNCHANGED <<asked, loop>> /\ skipped' = TRUE
    BY <1>6 DEF RejectBlock, handlers
  <2> QED BY <2>1 DEF IInv, AskedInv
<1>7. ASSUME asked' = asked, loop # Polling PROVE AskedInv'
  BY <1>7 DEF IInv, AskedInv
<1>8. ASSUME IndexBlock \/ OnNewBlock \/ Publish PROVE AskedInv'
  <2>1. asked' = asked /\ loop # Polling
    BY <1>8 DEF IndexBlock, OnNewBlock, Sweep, Publish, handlers, Polling
  <2> QED BY <1>7, <2>1
<1>9. ASSUME NEW coins, NEW entries, IndexFails(entries, coins) \/ PruneFails(coins, entries)
      PROVE  AskedInv'
  <2>1. asked' = asked /\ loop # Polling
    BY <1>9 DEF IndexFails, PruneFails, Abandon, Sweep, handlers, Polling
  <2> QED BY <1>7, <2>1
<1> QED BY <1>3, <1>4, <1>5, <1>6, <1>8, <1>9 DEF LoopStep

LEMMA NextInv == IInv /\ [Next]_vars => IInv'
<1> SUFFICES ASSUME IInv, [Next]_vars PROVE IInv'
  OBVIOUS
<1>1. CASE LoopStep
  BY <1>1, LoopInv, LoopKeepsAnswers DEF IInv
<1>2. ASSUME UNCHANGED <<policy, node, height, srcTip, loop, index, coin, lastTip, hasTip, tip, skipped>>
      PROVE  /\ Types' /\ Phases'
             /\ \A k, t, h : AnswerAt(k, t, h)' = AnswerAt(k, t, h)
  <2>1. /\ \A h : HeldAt(h)' = HeldAt(h) /\ CoinsAt(h)' = CoinsAt(h)
        /\ \A k, t, h : AnswerAt(k, t, h)' = AnswerAt(k, t, h)
    BY <1>2, ViewFixed
  <2>2. /\ HeldNow' = HeldNow /\ CoinsNow' = CoinsNow
        /\ \A t, b : Indexed(CoinNow(t), t, b)' = Indexed(CoinNow(t), t, b)
    BY <1>2, NowFixed
  <2> QED BY <1>2, <2>1, <2>2 DEF IInv, Types, Phases, NextTip, MinedAt
<1>3. ASSUME NEW kind \in Kinds, NEW t \in Txs, Ask(kind, t) PROVE IInv'
  <2>1. /\ UNCHANGED <<policy, node, height, srcTip, loop, index, coin, lastTip, hasTip, tip, skipped>>
        /\ signed' = signed
        /\ asked' = asked \cup {[answer |-> Answer(kind, t), quiet |-> Quiet]}
    BY <1>3 DEF Ask, source, store, pruner
  <2>2. SignedInv'
    BY <1>2, <2>1 DEF IInv, SignedInv
  <2>3. Quiet /\ hasTip /\ ~skipped => Answer(kind, t) = AnswerAt(kind, t, tip)
    <3>1. hasTip => HeldNow = HeldAt(tip) /\ CoinsNow = CoinsAt(tip)
      BY DEF HeldNow, CoinsNow, CoinNow, CoinsAt
    <3> QED BY <3>1 DEF IInv, Phases, Quiet, Polling, Answer, AnswerAt
  <2>4. Answer(kind, t).kind = kind /\ Answer(kind, t).tx = t
    BY DEF Answer, AnswerFrom
  <2>5. AskedInv'
    <3> DEFINE new == [answer |-> Answer(kind, t), quiet |-> Quiet]
    <3>1. /\ new.answer.kind = kind /\ new.answer.tx = t
          /\ new.answer = Answer(kind, t) /\ new.quiet = Quiet
      BY <2>4
    <3>2. new.quiet =>
            /\ loop = Polling
            /\ hasTip /\ ~skipped => new.answer = AnswerAt(new.answer.kind, new.answer.tx, tip)
      BY <2>3, <3>1 DEF Quiet
    <3>3. asked' = asked \cup {new}
      BY <2>1
    <3> HIDE DEF new
    <3>4. ASSUME NEW a \in asked'
          PROVE  a.quiet =>
                   /\ loop = Polling
                   /\ hasTip /\ ~skipped => a.answer = AnswerAt(a.answer.kind, a.answer.tx, tip)
      <4>1. CASE a = new BY <3>1, <3>2, <4>1
      <4>2. CASE a \in asked BY <4>2 DEF IInv, AskedInv
      <4> QED BY <3>3, <4>1, <4>2
    <3> QED BY <1>2, <2>1, <3>4 DEF AskedInv
  <2> QED BY <1>2, <2>1, <2>2, <2>5 DEF IInv
<1>4. ASSUME NEW a \in asked, Sign(a) PROVE IInv'
  <2> DEFINE m == Statement(a.answer, tip)
             new == [att |-> Attestation(Me, m), clean |-> a.quiet /\ Quiet /\ hasTip /\ ~skipped]
  <2>1. /\ UNCHANGED <<policy, node, height, srcTip, loop, index, coin, lastTip, hasTip, tip, skipped>>
        /\ asked' = asked \ {a}
        /\ signed' = signed \cup {new}
    BY <1>4 DEF Sign, source, store, pruner
  <2>2. AskedInv'
    BY <1>2, <2>1 DEF IInv, AskedInv
  <2>3. /\ m.kind = a.answer.kind /\ m.tx = a.answer.tx /\ m.tip = tip
        /\ new.att.statement = m /\ new.clean = (a.quiet /\ Quiet /\ hasTip /\ ~skipped)
    BY DEF Statement, Attestation
  <2>4. new.clean => m = Statement(AnswerAt(m.kind, m.tx, m.tip), m.tip)
    BY <2>3 DEF IInv, AskedInv
  <2> HIDE DEF new, m
  <2>5. SignedInv'
    <3> DEFINE Agrees(x) == x = Statement(AnswerAt(x.kind, x.tx, x.tip), x.tip)
    <3>1. ASSUME NEW s \in signed' PROVE s.clean => Agrees(s.att.statement)
      <4>1. CASE s = new BY <2>3, <2>4, <4>1
      <4>2. CASE s \in signed BY <4>2 DEF IInv, SignedInv
      <4> QED BY <2>1, <4>1, <4>2
    <3>2. \A k, t, h : Statement(AnswerAt(k, t, h), h)' = Statement(AnswerAt(k, t, h), h)
      BY <1>2, <2>1 DEF Statement
    <3> QED BY <3>1, <3>2 DEF SignedInv
  <2> QED BY <1>2, <2>1, <2>2, <2>5 DEF IInv
<1>5. ASSUME Restart PROVE IInv'
  <2>1. policy' = policy /\ node' = node /\ signed' = signed /\ Fresh
    BY <1>5 DEF Restart
  <2>2. /\ StartHeight \in Nat /\ MaxHeight \in Nat /\ 0 \in Heights
    BY ServerAssumption DEF Heights
  <2>5. Types'
    <3>1. Polling \in [at : {"poll", "index", "prune", "publish"}, block : Heights]
      BY <2>2 DEF Polling
    <3> QED BY <2>1, <2>2, <3>1 DEF IInv, Types, Fresh
  <2>6. Phases'
    BY <2>1 DEF Phases, Fresh, NextTip, Polling, HeldNow, CoinsNow, CoinNow
  <2>7. AskedInv'
    BY <2>1 DEF AskedInv, Fresh
  <2>8. SignedInv'
    <3>1. \A k, t, h : AnswerAt(k, t, h)' = AnswerAt(k, t, h)
      BY <2>1, ViewFixed
    <3> QED BY <2>1, <3>1 DEF IInv, SignedInv
  <2> QED BY <2>5, <2>6, <2>7, <2>8 DEF IInv
<1>6. CASE UNCHANGED vars
  <2>1. /\ UNCHANGED <<policy, node, height, srcTip, loop, index, coin, lastTip, hasTip, tip, skipped>>
        /\ UNCHANGED <<asked, signed>>
    BY <1>6 DEF vars, source, store, pruner, handlers
  <2>2. \A k, t, h : AnswerAt(k, t, h)' = AnswerAt(k, t, h)
    BY <2>1, ViewFixed
  <2>3. Types' /\ Phases'
    BY <1>2, <2>1
  <2>4. UNCHANGED <<loop, hasTip, tip, skipped, asked, signed>>
    BY <2>1
  <2>5. AskedInv'
    BY <2>2, <2>4 DEF IInv, AskedInv, Polling
  <2>6. SignedInv'
    BY <2>2, <2>4 DEF IInv, SignedInv
  <2> QED BY <2>3, <2>5, <2>6 DEF IInv
<1> QED BY <1>1, <1>3, <1>4, <1>5, <1>6 DEF Next, LoopStep

(* Two clean statements with one query key carry the one answer that the key *)
(* determines.                                                               *)
LEMMA CleanAgree == IInv => CleanNeverEquivocates
<1> SUFFICES ASSUME IInv, NEW s \in signed, NEW r \in signed, s.clean, r.clean,
                    ProveEquivocation(s.att, r.att)
             PROVE  FALSE
  BY DEF CleanNeverEquivocates
<1> DEFINE m == s.att.statement
           n == r.att.statement
<1>1. m = Statement(AnswerAt(m.kind, m.tx, m.tip), m.tip)
  BY DEF IInv, SignedInv
<1>2. n = Statement(AnswerAt(n.kind, n.tx, n.tip), n.tip)
  BY DEF IInv, SignedInv
<1>3. m.kind = n.kind /\ m.tx = n.tx /\ m.tip = n.tip /\ (m.flag # n.flag \/ m.height # n.height)
  BY DEF ProveEquivocation, Contradicts, QueryKey
<1> HIDE DEF m, n
<1>4. m = n
  BY <1>1, <1>2, <1>3
<1> QED BY <1>3, <1>4

(* A clean denial of a transaction says its index entry is not among those   *)
(* retained at the tip signed.                                               *)
LEMMA DenialsAgree == IInv => CleanDenialsTrue
<1> SUFFICES ASSUME IInv, NEW s \in signed, s.clean, Negative(s.att.statement)
             PROVE  s.att.statement.tx \notin HeldAt(s.att.statement.tip)
  BY DEF CleanDenialsTrue
<1> DEFINE m == s.att.statement
<1>1. m = Statement(AnswerAt(m.kind, m.tx, m.tip), m.tip)
  BY DEF IInv, SignedInv
<1>2. m.kind \in {"seen", "mined"} /\ ~m.flag
  BY DEF Negative
<1> HIDE DEF m
<1>3. m.flag = AnswerAt(m.kind, m.tx, m.tip).flag
  BY <1>1 DEF Statement
<1>4. AnswerAt(m.kind, m.tx, m.tip).flag = (m.tx \in HeldAt(m.tip))
  BY <1>2 DEF AnswerAt, AnswerFrom
<1> QED BY <1>2, <1>3, <1>4 DEF m

(* Spec keeps the invariant; the two theorems about the server follow from   *)
(* it.                                                                       *)
LEMMA Invariance == Spec => []IInv
  BY InitInv, NextInv, PTL DEF Spec

(* Between blocks, a server that skipped none holds what its tip determines, *)
(* and nothing before its first block, for every chain, start height, policy *)
(* and number of restarts.                                                   *)
THEOREM ViewTheorem == Spec => []ViewIsTip
<1>1. IInv => ViewIsTip
  BY DEF IInv, Phases, ViewIsTip, Quiet, Polling, HeldNow, CoinsNow, CoinNow, CoinsAt, Blank
<1> QED BY <1>1, Invariance, PTL

(* No two clean statements of an operator make an equivocation proof, those  *)
(* from before and after a restart included.                                 *)
THEOREM CleanTheorem == Spec => []CleanNeverEquivocates
  BY Invariance, CleanAgree, PTL

(* An operator's clean denials are true of the chain retained at their tip,  *)
(* so no inclusion proof against that tip refutes one.                       *)
THEOREM DenialTheorem == Spec => []CleanDenialsTrue
  BY Invariance, DenialsAgree, PTL

-----------------------------------------------------------------------------
(* What is indexed is below the next height, and below the block in work     *)
(* until that is indexed, whether or not a block was skipped.                *)
ChainInv ==
  /\ restarts \in Nat
  /\ coin \in [Txs -> CoinStates]
  /\ index \subseteq Txs
  /\ \A t \in index : TxHeight[t] < height
  /\ loop.at = "index" =>
       /\ loop.block < height
       /\ \A t \in index : TxHeight[t] < loop.block

(* The ingest of this process is past the block of t.                        *)
Behind(t) ==
  TxHeight[t] < height /\ (loop.at = "index" => TxHeight[t] < loop.block)

(* The server has been asked for its proof, or the search is over.           *)
Searched(c) == c.at \in {"poll", "done"} \/ c.i > c.place

Polls == {"Mined", "Seen", "UTXO"}
Ballot(fn) == IF fn = "UTXO" THEN Statuses ELSE BOOLEAN

Layout(c) ==
  c = [fn |-> c.fn, tx |-> c.tx, place |-> c.place, at |-> c.at, i |-> c.i,
       votes |-> c.votes, ours |-> c.ours, proof |-> c.proof, early |-> c.early,
       life |-> c.life, lost |-> c.lost, result |-> c.result]

Shape(c) ==
  /\ Layout(c)
  /\ c.fn \in Functions /\ c.tx \in Txs /\ c.place \in 1 .. NOps /\ c.i \in Nat
  /\ c.at \in {"path", "poll", "attest", "sign", "done"}
  /\ c.votes \in Seq(Ballot(c.fn))
  /\ c.life \in Nat

(* Where each function can be, and that nothing is decided before the end.   *)
Stage(c) ==
  /\ c.at = "path" => c.fn \in {"MerklePath", "Mined", "DetectFraud"}
  /\ c.at = "poll" => c.fn \in Polls
  /\ c.at \in {"attest", "sign"} => c.fn = "DetectFraud"
  /\ c.at # "done" => c.result = NoResult

(* Within one life of the server, an index entry that was there at the start *)
(* of the call and is gone does not come back; so a search that passed the   *)
(* server without finding the proof passed it when the entry was gone.       *)
Sought(c) ==
  /\ c.life <= restarts
  /\ c.early /\ c.life = restarts => Behind(c.tx)
  /\ /\ c.fn \in {"MerklePath", "Mined"} /\ c.early /\ c.life = restarts
     /\ ~c.lost /\ ~c.result.proven /\ Searched(c)
     => ~Seen(c.tx)

(* The server's vote is among those counted.                                 *)
Voted(c) ==
  c.ours # <<>> /\ c.fn \in Polls => \E k \in DOMAIN c.votes : c.votes[k] = c.ours[1]

(* UnanimityIsHonest of a call.                                              *)
Honest(c) ==
  /\ c.at = "done" /\ c.fn \in Polls /\ ~c.result.proven
  /\ c.ours # <<>> /\ c.result.agree = c.result.responders
  => c.result.value = c.ours[1]

Good(c) == Shape(c) /\ Stage(c) /\ Sought(c) /\ Voted(c) /\ Honest(c)

CallInv == Good(call)

-----------------------------------------------------------------------------
LEMMA InitChain == Init => ChainInv
  BY ServerAssumption DEF Init, ChainInv, Polling, CoinStates

(* Every step of the server keeps the index behind the source.               *)
LEMMA StepChain == Types /\ ChainInv /\ [Next]_vars => ChainInv'
<1> SUFFICES ASSUME Types, ChainInv, [Next]_vars PROVE ChainInv'
  OBVIOUS
<1> USE DEF source, store, pruner, handlers
<1>1. /\ height \in Nat /\ loop.block \in Nat
      /\ loop = [at |-> loop.at, block |-> loop.block]
      /\ \A t \in Txs : TxHeight[t] \in Nat
  BY ServerAssumption DEF Types, Heights, Never
<1>2. ASSUME UNCHANGED <<height, loop, index, coin, restarts>> PROVE ChainInv'
  BY <1>2 DEF ChainInv
<1>3. ASSUME Extend \/ Memory \/ NextFails \/ NextCaughtUp \/ Pause PROVE ChainInv'
  BY <1>2, <1>3 DEF Extend, Memory, NextFails, NextCaughtUp, Pause
<1>4. ASSUME NextBlock PROVE ChainInv'
  <2>1. /\ height' = height + 1 /\ loop' = [at |-> "index", block |-> height]
        /\ UNCHANGED <<index, coin, restarts>>
    BY <1>4 DEF NextBlock, Deliver
  <2> QED BY <1>1, <2>1 DEF ChainInv
<1>5. ASSUME RejectBlock PROVE ChainInv'
  <2>1. height' = height + 1 /\ loop.at = "poll" /\ UNCHANGED <<loop, index, coin, restarts>>
    BY <1>5 DEF RejectBlock, Deliver, Fetching, Quiet, Polling
  <2> QED BY <1>1, <2>1 DEF ChainInv
<1>6. ASSUME NEW t \in Txs, NEW b PROVE Indexed(coin[t], t, b) \in CoinStates
  BY DEF ChainInv, Indexed, CoinStates
<1>7. ASSUME IndexBlock PROVE ChainInv'
  <2>1. /\ loop.at = "index" /\ index' = index \cup MinedAt(loop.block)
        /\ coin' = [t \in Txs |-> Indexed(coin[t], t, loop.block)]
        /\ loop'.at = "prune" /\ UNCHANGED <<height, restarts>>
    BY <1>1, <1>7 DEF IndexBlock
  <2>2. coin' \in [Txs -> CoinStates]
    BY <1>6, <2>1
  <2> QED BY <1>1, <2>1, <2>2 DEF ChainInv, MinedAt
<1>8. ASSUME NEW coins, NEW entries, IndexFails(entries, coins) PROVE ChainInv'
  <2>1. /\ loop.at = "index" /\ index' = index \cup (MinedAt(loop.block) \cap entries)
        /\ coin' = [t \in Txs |-> IF t \in coins THEN Indexed(coin[t], t, loop.block) ELSE coin[t]]
        /\ loop'.at = "poll" /\ UNCHANGED <<height, restarts>>
    BY <1>8 DEF IndexFails, Abandon, Polling
  <2>2. coin' \in [Txs -> CoinStates]
    BY <1>6, <2>1 DEF ChainInv
  <2> QED BY <1>1, <2>1, <2>2 DEF ChainInv, MinedAt
<1>9. ASSUME index' \subseteq index, coin' \in [Txs -> CoinStates], loop'.at # "index",
             UNCHANGED <<height, restarts>>
      PROVE  ChainInv'
  BY <1>9 DEF ChainInv
<1>10. ASSUME NEW coins, NEW entries, Sweep(coins, entries)
       PROVE  index' \subseteq index /\ coin' \in [Txs -> CoinStates]
  BY <1>10 DEF Sweep, ChainInv, CoinStates
<1>11. ASSUME OnNewBlock PROVE ChainInv'
  <2>1. loop'.at = "publish" /\ UNCHANGED <<height, restarts>>
    BY <1>1, <1>11 DEF OnNewBlock
  <2> QED BY <1>9, <1>10, <1>11, <2>1 DEF OnNewBlock
<1>12. ASSUME NEW coins, NEW entries, PruneFails(coins, entries) PROVE ChainInv'
  <2>1. loop'.at = "poll" /\ UNCHANGED <<height, restarts>>
    BY <1>12 DEF PruneFails, Abandon, Polling
  <2> QED BY <1>9, <1>10, <1>12, <2>1 DEF PruneFails
<1>13. ASSUME Publish PROVE ChainInv'
  BY <1>13 DEF Publish, ChainInv, Polling
<1>14. ASSUME NEW kind \in Kinds, NEW t \in Txs, Ask(kind, t) PROVE ChainInv'
  BY <1>2, <1>14 DEF Ask
<1>15. ASSUME NEW a \in asked, Sign(a) PROVE ChainInv'
  BY <1>2, <1>15 DEF Sign
<1>16. ASSUME Restart PROVE ChainInv'
  BY <1>1, <1>16 DEF Restart, Fresh, ChainInv, Polling, CoinStates
<1>17. CASE UNCHANGED vars
  BY <1>2, <1>17 DEF vars
<1> QED
  BY SMTT(30), <1>3, <1>4, <1>5, <1>7, <1>8, <1>11, <1>12, <1>13, <1>14, <1>15, <1>16, <1>17 DEF Next

(* A step of the server: a process never goes back to an earlier life, and   *)
(* within a life what is behind stays behind and an index entry behind is    *)
(* not created again.                                                        *)
Forward ==
  /\ restarts' \in Nat /\ restarts <= restarts'
  /\ restarts' = restarts => \A t \in Txs : Behind(t) =>
       /\ Behind(t)'
       /\ Seen(t)' => Seen(t)

LEMMA ServerMoves ==
  ASSUME Types, ChainInv, [Next]_vars
  PROVE  Forward
<1> USE DEF source, store, pruner, handlers
<1>1. /\ height \in Nat /\ restarts \in Nat /\ loop.block \in Nat
      /\ loop = [at |-> loop.at, block |-> loop.block]
      /\ \A t \in Txs : TxHeight[t] \in Nat
  BY ServerAssumption DEF Types, ChainInv, Heights, Never
<1>2. ASSUME UNCHANGED <<height, loop, index, restarts>> PROVE Forward
  BY <1>1, <1>2 DEF Forward, Behind, Seen
<1>3. ASSUME Extend \/ Memory \/ NextFails \/ NextCaughtUp \/ Pause PROVE Forward
  BY <1>2, <1>3 DEF Extend, Memory, NextFails, NextCaughtUp, Pause
<1>4. ASSUME NextBlock PROVE Forward
  <2>1. /\ height' = height + 1 /\ loop' = [at |-> "index", block |-> height]
        /\ UNCHANGED <<index, restarts>>
    BY <1>4 DEF NextBlock, Deliver
  <2> QED BY <1>1, <2>1 DEF Forward, Behind, Seen
<1>5. ASSUME RejectBlock PROVE Forward
  <2>1. height' = height + 1 /\ UNCHANGED <<index, restarts, loop>>
    BY <1>5 DEF RejectBlock, Deliver
  <2> QED BY <1>1, <2>1 DEF Forward, Behind, Seen
<1>6. ASSUME loop.at = "index", index' \subseteq index \cup MinedAt(loop.block), loop'.at # "index",
             UNCHANGED <<height, restarts>>
      PROVE  Forward
  BY <1>1, <1>6 DEF Forward, Behind, Seen, MinedAt
<1>7. ASSUME IndexBlock PROVE Forward
  BY <1>1, <1>6, <1>7 DEF IndexBlock
<1>8. ASSUME NEW coins, NEW entries, IndexFails(entries, coins) PROVE Forward
  BY <1>6, <1>8 DEF IndexFails, Abandon, Polling
<1>9. ASSUME index' \subseteq index, loop'.at # "index", UNCHANGED <<height, restarts>> PROVE Forward
  BY <1>1, <1>9 DEF Forward, Behind, Seen
<1>10. ASSUME OnNewBlock PROVE Forward
  BY <1>1, <1>9, <1>10 DEF OnNewBlock, Sweep
<1>11. ASSUME NEW coins, NEW entries, PruneFails(coins, entries) PROVE Forward
  BY <1>9, <1>11 DEF PruneFails, Sweep, Abandon, Polling
<1>12. ASSUME Publish PROVE Forward
  BY <1>9, <1>12 DEF Publish, Polling
<1>13. ASSUME NEW kind \in Kinds, NEW t \in Txs, Ask(kind, t) PROVE Forward
  BY <1>2, <1>13 DEF Ask
<1>14. ASSUME NEW a \in asked, Sign(a) PROVE Forward
  BY <1>2, <1>14 DEF Sign
<1>15. ASSUME Restart PROVE Forward
  BY <1>1, <1>15 DEF Forward, Restart, Fresh
<1>16. CASE UNCHANGED vars
  BY <1>2, <1>16 DEF vars
<1> QED
  BY SMTT(30), <1>3, <1>4, <1>5, <1>7, <1>8, <1>10, <1>11, <1>12, <1>13, <1>14, <1>15, <1>16 DEF Next

(* The running call survives what the server does meanwhile.                 *)
LEMMA ServerCall ==
  ASSUME Types, ChainInv, CallInv, [Next]_vars, call' = call
  PROVE  CallInv'
<1>1. PICK c : c = call
  OBVIOUS
<1>2. c' = c /\ call' = c
  BY <1>1
<1>3. Shape(c) /\ Stage(c) /\ Sought(c) /\ Voted(c) /\ Honest(c)
  BY <1>1 DEF CallInv, Good
<1>4. restarts \in Nat /\ c.life \in Nat /\ c.tx \in Txs
  BY <1>3 DEF ChainInv, Shape
<1>7. Sought(c)'
  <2>1. restarts' \in Nat /\ restarts <= restarts'
    BY ServerMoves DEF Forward
  <2>2. c.life <= restarts' /\ (c.life = restarts' => restarts' = restarts)
    <3>1. c.life <= restarts
      BY Zenon, <1>3 DEF Sought
    <3>2. ASSUME NEW l \in Nat, NEW m \in Nat, NEW n \in Nat, l <= m, m <= n
          PROVE  l <= n /\ (l = n => n = m)
      BY <3>2
    <3> QED BY <1>4, <2>1, <3>1, <3>2
  <2>3. restarts' = restarts /\ Behind(c.tx) => Behind(c.tx)' /\ (Seen(c.tx)' => Seen(c.tx))
    BY <1>4, ServerMoves DEF Forward
  <2> QED BY <1>2, <1>3, <2>2, <2>3 DEF Sought, Searched
<1> QED BY <1>2, <1>3, <1>7 DEF CallInv, Good, Shape, Stage, Voted, Honest

-----------------------------------------------------------------------------
(* A call that starts is Good: nothing has been asked yet.                   *)
LEMMA CalledGood ==
  ASSUME ChainInv, NEW fn \in Functions, NEW t \in Txs, NEW place \in 1 .. NOps,
         NEW at \in {"path", "poll", "done"},
         at = "path" => fn \in {"MerklePath", "Mined", "DetectFraud"},
         at = "poll" => fn \in {"Seen", "UTXO"},
         at = "done" => fn = "Seen"
  PROVE  Good(Called(fn, t, place, at))
<1> DEFINE c == Called(fn, t, place, at)
<1>1. /\ c.fn = fn /\ c.tx = t /\ c.place = place /\ c.at = at /\ c.i = 1
      /\ c.votes = <<>> /\ c.ours = <<>> /\ c.early = Seen(t) /\ c.life = restarts
      /\ c.lost = FALSE /\ c.result = NoResult
      /\ Layout(c)
  BY DEF Called, Layout
<1>2. NoResult.proven = FALSE /\ NoResult.accused = NoOne
  BY DEF NoResult
<1>3. restarts \in Nat /\ Seen(t) \in BOOLEAN
  BY DEF ChainInv, Seen
<1>4. Seen(t) => Behind(t)
  BY DEF ChainInv, Seen, Behind
<1> HIDE DEF c
<1>5. Shape(c)
  BY <1>1, <1>2, <1>3 DEF Shape
<1>6. Stage(c) /\ Voted(c) /\ Honest(c)
  BY <1>1, <1>2 DEF Stage, Voted, Honest, Polls
<1>7. Sought(c)
  BY <1>1, <1>3, <1>4, ClientAssumption DEF Sought, Searched
<1>8. Good(c)
  BY <1>5, <1>6, <1>7 DEF Good
<1> QED BY <1>8 DEF c

(* After an answer to the request for a proof.  The server's is accepted     *)
(* unless it has no index entry or its answer is lost.                       *)
LEMMA ProofGood ==
  ASSUME ChainInv, Good(call), call.at = "path", call.i <= NOps, NEW p, NEW lost \in BOOLEAN,
         call.i = call.place /\ Seen(call.tx) => Acceptable(p, call.tx) \/ lost,
         Acceptable(p, call.tx) => ~lost,
         NEW d, d = IF lost THEN [AfterProof(p) EXCEPT !.lost = TRUE] ELSE AfterProof(p)
  PROVE  Good(d)
<1>1. PICK c : c = call
  OBVIOUS
<1>2. /\ Shape(c) /\ Stage(c) /\ Sought(c) /\ Voted(c) /\ Honest(c)
      /\ c.at = "path" /\ c.i <= NOps /\ c.i \in Nat /\ c.place \in Nat
  BY <1>1, ClientAssumption DEF Good, Shape
<1>3. NoResult.proven = FALSE /\ NoResult.accused = NoOne
  BY DEF NoResult
<1>4. CASE ~Acceptable(p, c.tx)
  <2>1. /\ d = [c EXCEPT !.i = c.i + 1, !.lost = IF lost THEN TRUE ELSE c.lost]
    BY <1>1, <1>2, <1>4 DEF AfterProof, Shape, Layout
  <2>2. /\ d.fn = c.fn /\ d.tx = c.tx /\ d.place = c.place /\ d.at = "path" /\ d.i = c.i + 1
        /\ d.votes = c.votes /\ d.ours = c.ours /\ d.early = c.early /\ d.life = c.life
        /\ d.lost = (IF lost THEN TRUE ELSE c.lost) /\ d.result = c.result /\ d.result = NoResult
        /\ Layout(d)
    BY <1>2, <2>1 DEF Shape, Layout, Stage
  <2>3. Shape(d)
    BY <1>2, <1>3, <2>2 DEF Shape
  <2>4. Stage(d) /\ Voted(d) /\ Honest(d)
    BY <1>2, <1>3, <2>2 DEF Stage, Voted, Honest
  <2>5. Sought(d)
    <3>1. ~d.lost /\ d.i > d.place => c.i > c.place \/ ~Seen(c.tx)
      BY <1>1, <1>2, <1>4, <2>2
    <3> QED BY <1>2, <2>2, <3>1 DEF Sought, Searched
  <2> QED BY <2>3, <2>4, <2>5 DEF Good
<1>5. CASE Acceptable(p, c.tx) /\ c.fn = "DetectFraud"
  <2>1. /\ d = [c EXCEPT !.at = "attest", !.i = 1, !.proof = p]
    BY <1>1, <1>5 DEF AfterProof
  <2>2. /\ d.fn = "DetectFraud" /\ d.tx = c.tx /\ d.place = c.place /\ d.at = "attest" /\ d.i = 1
        /\ d.votes = c.votes /\ d.ours = c.ours /\ d.early = c.early /\ d.life = c.life
        /\ d.lost = c.lost /\ d.result = c.result /\ d.result = NoResult
        /\ Layout(d)
    BY <1>2, <1>5, <2>1 DEF Shape, Layout, Stage
  <2>3. Shape(d)
    BY <1>2, <1>3, <1>5, <2>2 DEF Shape
  <2>4. Stage(d) /\ Voted(d) /\ Honest(d)
    BY <1>1, <1>2, <1>3, <1>5, <2>2 DEF Stage, Voted, Honest, Polls
  <2>5. Sought(d)
    BY <1>2, <2>2 DEF Sought, Searched
  <2> QED BY <2>3, <2>4, <2>5 DEF Good
<1>6. CASE Acceptable(p, c.tx) /\ c.fn # "DetectFraud"
  <2> DEFINE r == [NoResult EXCEPT !.proven = TRUE, !.value = TRUE, !.responders = NOps, !.agree = NOps]
  <2>1. d = [c EXCEPT !.at = "done", !.result = r]
    BY <1>1, <1>6 DEF AfterProof, Proven, Return
  <2>2. r.proven = TRUE
    BY DEF NoResult
  <2> HIDE DEF r
  <2>3. /\ d.fn = c.fn /\ d.tx = c.tx /\ d.place = c.place /\ d.at = "done" /\ d.i = c.i
        /\ d.votes = c.votes /\ d.ours = c.ours /\ d.early = c.early /\ d.life = c.life
        /\ d.lost = c.lost /\ d.result = r
        /\ Layout(d)
    BY <1>2, <2>1 DEF Shape, Layout
  <2>4. Shape(d)
    BY <1>2, <2>2, <2>3 DEF Shape
  <2>5. Stage(d) /\ Voted(d) /\ Honest(d)
    BY <1>1, <1>2, <1>6, <2>2, <2>3 DEF Stage, Voted, Honest
  <2>6. Sought(d)
    BY <1>2, <2>2, <2>3 DEF Sought
  <2> QED BY <2>4, <2>5, <2>6 DEF Good
<1> QED BY <1>4, <1>5, <1>6

(* What is carried over when a call moves on within the poll or attestation  *)
(* phases, or returns.                                                       *)
Kept(c, d) ==
  /\ d.fn = c.fn /\ d.tx = c.tx /\ d.place = c.place
  /\ d.early = c.early /\ d.life = c.life /\ d.lost = c.lost

(* The search fails after the last operator: the server was asked.           *)
LEMMA PathFailsGood ==
  ASSUME Good(call), PathFails
  PROVE  Good(call')
<1>1. PICK c : c = call
  OBVIOUS
<1>2. PICK d : d = call'
  OBVIOUS
<1>3. /\ Shape(c) /\ Stage(c) /\ Sought(c) /\ Voted(c)
      /\ c.at = "path" /\ c.i > NOps /\ c.result = NoResult /\ c.i > c.place
  BY <1>1, ClientAssumption DEF Good, Shape, Stage, PathFails
<1>4. NoResult.proven = FALSE /\ NoResult.accused = NoOne
  BY Zenon DEF NoResult
<1>5. CASE c.fn = "Mined"
  <2>1. d = [c EXCEPT !.at = "poll", !.i = 1]
    BY <1>1, <1>2, <1>5 DEF PathFails
  <2>2. /\ Kept(c, d) /\ d.at = "poll" /\ d.i = 1 /\ d.votes = c.votes /\ d.ours = c.ours
        /\ d.result = NoResult /\ Layout(d)
    BY <1>3, <2>1 DEF Shape, Layout, Kept
  <2>3. Shape(d) /\ Stage(d) /\ Voted(d) /\ Honest(d)
    <3>1. Shape(d)
      BY <1>3, <2>2 DEF Kept, Shape
    <3>2. Stage(d)
      BY <1>3, <1>4, <1>5, <2>2 DEF Kept, Stage, Polls
    <3>3. Voted(d)
      BY <1>3, <2>2 DEF Kept, Voted
    <3>4. Honest(d)
      BY <1>3, <1>5, <2>2 DEF Kept, Stage, Honest, Polls
    <3> QED BY <3>1, <3>2, <3>3, <3>4
  <2>4. Sought(d)
    BY <1>3, <1>4, <2>2 DEF Kept, Sought, Searched
  <2> QED BY <1>2, <2>3, <2>4 DEF Good
<1>6. CASE c.fn # "Mined"
  <2>1. d = [c EXCEPT !.at = "done", !.result = NoResult]
    BY <1>1, <1>2, <1>6 DEF PathFails, Return
  <2>2. /\ Kept(c, d) /\ d.at = "done" /\ d.i = c.i /\ d.votes = c.votes /\ d.ours = c.ours
        /\ d.result = NoResult /\ Layout(d)
    BY <1>3, <2>1 DEF Shape, Layout, Kept
  <2>3. Shape(d) /\ Stage(d) /\ Voted(d) /\ Honest(d)
    <3>1. Shape(d)
      BY <1>3, <2>2 DEF Kept, Shape
    <3>2. Stage(d)
      BY <1>3, <1>4, <1>6, <2>2 DEF Kept, Stage, Polls
    <3>3. Voted(d)
      BY <1>3, <2>2 DEF Kept, Voted
    <3>4. Honest(d)
      BY <1>3, <1>6, <2>2 DEF Kept, Stage, Honest, Polls
    <3> QED BY <3>1, <3>2, <3>3, <3>4
  <2>4. Sought(d)
    BY <1>3, <1>4, <2>2 DEF Kept, Sought, Searched
  <2> QED BY <1>2, <2>3, <2>4 DEF Good
<1> QED BY <1>5, <1>6

(* An operator that is polled adds its vote or fails; the server's vote is   *)
(* both recorded and counted.                                                *)
LEMMA PollGood ==
  ASSUME ChainInv, Good(call), Poll
  PROVE  Good(call')
<1>1. PICK c : c = call
  OBVIOUS
<1>2. PICK d : d = call'
  OBVIOUS
<1>3. /\ Shape(c) /\ Stage(c) /\ Sought(c) /\ Voted(c)
      /\ c.at = "poll" /\ c.result = NoResult /\ c.i \in Nat /\ c.votes \in Seq(Ballot(c.fn))
  BY <1>1 DEF Good, Shape, Stage, Poll
<1>4. NoResult.proven = FALSE /\ NoResult.accused = NoOne
  BY Zenon DEF NoResult
<1>5. ASSUME Kept(c, d), d.at = "poll", d.i = c.i + 1, d.result = NoResult, Layout(d),
             d.votes \in Seq(Ballot(d.fn)), Voted(d)
      PROVE  Good(d)
  <2>1. Shape(d) /\ Stage(d) /\ Honest(d)
    <3>1. Shape(d)
      BY <1>3, <1>5 DEF Kept, Shape
    <3>2. Stage(d) /\ Honest(d)
      BY <1>3, <1>4, <1>5 DEF Kept, Stage, Honest
    <3> QED BY <3>1, <3>2
  <2>2. Sought(d)
    BY <1>3, <1>4, <1>5 DEF Kept, Sought, Searched
  <2> QED BY <1>5, <2>1, <2>2 DEF Good
<1>6. ASSUME d = [c EXCEPT !.i = @ + 1] PROVE Good(d)
  <2>1. /\ Kept(c, d) /\ d.at = "poll" /\ d.i = c.i + 1 /\ d.votes = c.votes /\ d.ours = c.ours
        /\ d.result = NoResult /\ Layout(d)
    BY <1>3, <1>6 DEF Shape, Layout, Kept
  <2>2. Voted(d)
    BY <1>3, <2>1 DEF Voted, Kept
  <2> QED BY <1>3, <1>5, <2>1, <2>2 DEF Kept
<1>7. ASSUME NEW v \in Ballot(c.fn), d = [c EXCEPT !.i = @ + 1, !.votes = Append(@, v)]
      PROVE  Good(d)
  <2>1. /\ Kept(c, d) /\ d.at = "poll" /\ d.i = c.i + 1
        /\ d.votes = Append(c.votes, v) /\ d.ours = c.ours
        /\ d.result = NoResult /\ Layout(d)
    BY <1>3, <1>7 DEF Shape, Layout, Kept
  <2>2. /\ d.votes \in Seq(Ballot(d.fn))
        /\ \A k \in DOMAIN c.votes : k \in DOMAIN d.votes /\ d.votes[k] = c.votes[k]
    BY <1>3, <1>7, <2>1 DEF Kept
  <2>3. Voted(d)
    BY <1>3, <2>1, <2>2 DEF Voted, Kept
  <2> QED BY <1>5, <2>1, <2>2, <2>3
<1>8. ASSUME NEW v \in Ballot(c.fn),
             d = [c EXCEPT !.i = @ + 1, !.votes = Append(@, v), !.ours = <<v>>]
      PROVE  Good(d)
  <2>1. /\ Kept(c, d) /\ d.at = "poll" /\ d.i = c.i + 1
        /\ d.votes = Append(c.votes, v) /\ d.ours = <<v>>
        /\ d.result = NoResult /\ Layout(d)
    BY ZenonT(60), <1>3, <1>8 DEF Shape, Layout, Kept
  <2>2. /\ d.votes \in Seq(Ballot(d.fn)) /\ Len(c.votes) + 1 \in DOMAIN d.votes
        /\ d.votes[Len(c.votes) + 1] = v /\ d.ours[1] = v
    BY <1>3, <1>8, <2>1 DEF Kept
  <2>3. Voted(d)
    BY <2>2 DEF Voted
  <2> QED BY <1>5, <2>1, <2>2, <2>3
<1>9. OurVote \in Ballot(c.fn)
  <2>1. Seen(call.tx) \in BOOLEAN
    BY DEF Seen
  <2>2. UTXOStatus(call.tx) \in Statuses
    BY <1>1, <1>3 DEF UTXOStatus, StatusIn, ChainInv, CoinStates, Statuses, Shape
  <2> QED BY <1>1, <2>1, <2>2 DEF OurVote, Ballot
<1>10. Votes = Ballot(c.fn)
  BY <1>1 DEF Votes, Ballot
<1>11. PICK w : w = OurVote
  BY Zenon
<1>12. \/ d = [c EXCEPT !.i = @ + 1]
       \/ d = [c EXCEPT !.i = @ + 1, !.votes = Append(@, w), !.ours = <<w>>]
       \/ \E v \in Votes : d = [c EXCEPT !.i = @ + 1, !.votes = Append(@, v)]
  BY ZenonT(30), <1>1, <1>2, <1>11 DEF Poll
<1>13. Good(d)
  BY <1>2, <1>6, <1>7, <1>8, <1>9, <1>10, <1>11, <1>12
<1> QED BY <1>2, <1>13

(* A count that reaches the number of votes means that all votes are equal;  *)
(* a count of none, that no vote is that one.                                *)
LEMMA Counting ==
  ASSUME NEW S, call.votes \in Seq(S), NEW v
  PROVE  /\ Count(v) \in Nat /\ Len(call.votes) \in Nat
         /\ Count(v) = Len(call.votes) => \A k \in DOMAIN call.votes : call.votes[k] = v
         /\ Count(v) = 0 => \A k \in DOMAIN call.votes : call.votes[k] # v
<1> DEFINE W == {k \in DOMAIN call.votes : call.votes[k] = v}
           n == Len(call.votes)
<1>1. n \in Nat /\ DOMAIN call.votes = 1 .. n
  OBVIOUS
<1>2. Count(v) = Cardinality(W) /\ W \subseteq 1 .. n
  BY <1>1 DEF Count
<1>3. \A k \in DOMAIN call.votes : k \in W <=> call.votes[k] = v
  OBVIOUS
<1> HIDE DEF W, n
<1>4. IsFiniteSet(1 .. n) /\ Cardinality(1 .. n) = n
  BY <1>1, FS_Interval
<1>5. IsFiniteSet(W) /\ (Cardinality(W) = n => W = 1 .. n)
  BY <1>2, <1>4, FS_Subset
<1>6. Cardinality(W) \in Nat /\ (Cardinality(W) = 0 => W = {})
  BY <1>5, FS_CardinalityType, FS_EmptySet
<1> QED BY <1>1, <1>2, <1>3, <1>5, <1>6 DEF n

(* Each verdict: when all responders agree and the server is one of them,    *)
(* the verdict is the server's vote.                                         *)
LEMMA Unanimous ==
  ASSUME Good(call), call.at = "poll", call.ours # <<>>,
         NEW r \in (IF call.fn = "UTXO" THEN UTXOVerdict
                    ELSE IF call.fn = "Seen" THEN SeenVerdict ELSE MinedVerdict),
         r.agree = Len(call.votes)
  PROVE  r.value = call.ours[1]
<1>1. /\ call.votes \in Seq(Ballot(call.fn)) /\ call.fn \in Polls
  BY DEF Good, Shape, Stage
<1>2. PICK k \in DOMAIN call.votes : call.votes[k] = call.ours[1]
  BY <1>1 DEF Good, Voted
<1>3. /\ \A v : Count(v) \in Nat
      /\ \A v : Count(v) = Len(call.votes) => call.votes[k] = v
      /\ Count(TRUE) = 0 => call.votes[k] # TRUE
      /\ Len(call.votes) \in Nat
  BY <1>1, <1>2, Counting
<1>4. call.votes # <<>> /\ Len(call.votes) > 0
  BY <1>1, <1>2
<1>5. CASE call.fn = "UTXO"
  <2>1. PICK s : r = [value |-> s, agree |-> Count(s)]
    BY <1>4, <1>5 DEF UTXOVerdict
  <2> QED BY <1>2, <1>3, <2>1
<1>6. CASE call.fn = "Seen"
  <2>1. r = [value |-> Count(TRUE) > 0, agree |-> Count(TRUE)]
    BY <1>6 DEF SeenVerdict
  <2>2. Count(TRUE) = Len(call.votes)
    BY <2>1
  <2>3. call.votes[k] = TRUE /\ (Count(TRUE) > 0) = TRUE
    BY <1>3, <1>4, <2>2
  <2>4. r.value = (Count(TRUE) > 0)
    BY <2>1
  <2> QED BY <1>2, <2>3, <2>4
<1>7. CASE call.fn = "Mined"
  <2>1. call.votes[k] \in BOOLEAN
    BY <1>1, <1>2, <1>7 DEF Ballot
  <2>2. CASE Count(TRUE) * 2 > Len(call.votes)
    <3>1. r = [value |-> TRUE, agree |-> Count(TRUE)]
      BY <1>7, <2>2 DEF MinedVerdict
    <3> QED BY <1>2, <1>3, <3>1
  <2>3. CASE ~(Count(TRUE) * 2 > Len(call.votes))
    <3>1. r = [value |-> FALSE, agree |-> Len(call.votes) - Count(TRUE)]
      BY <1>7, <2>3 DEF MinedVerdict
    <3>2. Count(TRUE) = 0
      <4>1. Len(call.votes) - Count(TRUE) = Len(call.votes)
        BY <3>1
      <4>2. Count(TRUE) \in Nat
        BY <1>1, Counting
      <4>3. Len(call.votes) \in Nat
        BY <1>3
      <4>4. \A m, n \in Nat : n - m = n => m = 0
        OBVIOUS
      <4> QED BY <4>1, <4>2, <4>3, <4>4, Zenon
    <3>3. call.votes[k] = FALSE
      BY <1>3, <2>1, <3>2
    <3> QED BY <1>2, <3>1, <3>3
  <2> QED BY <2>2, <2>3
<1> QED BY <1>1, <1>5, <1>6, <1>7 DEF Polls

(* The count ends the poll.                                                  *)
LEMMA TallyGood ==
  ASSUME Good(call), Tally
  PROVE  Good(call')
<1>1. PICK c : c = call
  OBVIOUS
<1>2. PICK d : d = call'
  OBVIOUS
<1>3. /\ Shape(c) /\ Stage(c) /\ Sought(c) /\ Voted(c)
      /\ c.at = "poll" /\ c.result = NoResult
  BY <1>1 DEF Good, Shape, Stage, Tally
<1>4. NoResult.proven = FALSE /\ NoResult.accused = NoOne
  BY Zenon DEF NoResult
<1>5. PICK v \in (IF call.fn = "UTXO" THEN UTXOVerdict
                  ELSE IF call.fn = "Seen" THEN SeenVerdict ELSE MinedVerdict) :
        d = Return(c, [NoResult EXCEPT !.value = v.value, !.agree = v.agree,
                                       !.responders = Len(c.votes)])
  BY <1>1, <1>2 DEF Tally
<1> DEFINE r == [NoResult EXCEPT !.value = v.value, !.agree = v.agree, !.responders = Len(c.votes)]
<1>6. /\ r.proven = FALSE /\ r.accused = NoOne
      /\ r.value = v.value /\ r.agree = v.agree /\ r.responders = Len(c.votes)
  BY DEF NoResult
<1>7. d = [c EXCEPT !.at = "done", !.result = r]
  BY <1>5 DEF Return
<1> HIDE DEF r
<1>8. /\ Kept(c, d) /\ d.at = "done" /\ d.i = c.i /\ d.votes = c.votes /\ d.ours = c.ours
      /\ d.result = r /\ Layout(d)
  BY <1>3, <1>7 DEF Shape, Layout, Kept
<1>9. Shape(d) /\ Stage(d) /\ Voted(d)
  <2>1. Shape(d)
    BY <1>3, <1>6, <1>8 DEF Kept, Shape
  <2>2. Stage(d)
    BY <1>3, <1>6, <1>8 DEF Kept, Stage
  <2>3. Voted(d)
    BY <1>3, <1>6, <1>8 DEF Kept, Voted
  <2> QED BY <2>1, <2>2, <2>3
<1>10. Sought(d)
  BY <1>3, <1>4, <1>6, <1>8 DEF Kept, Sought, Searched
<1>11. Honest(d)
  <2>1. c.ours # <<>> /\ v.agree = Len(c.votes) => v.value = c.ours[1]
    BY <1>1, <1>3, <1>5, Unanimous
  <2> QED BY <1>6, <1>8, <2>1 DEF Honest
<1> QED BY Zenon, <1>2, <1>9, <1>10, <1>11 DEF Good

(* The attestation phase of DetectFraud, whoever is accused.                 *)
LEMMA AttestGood ==
  ASSUME Good(call), AskOurs \/ OursSigns \/ AskOthers \/ NoAttestation \/ NoFraud
  PROVE  Good(call')
<1>1. PICK c : c = call
  OBVIOUS
<1>2. PICK d : d = call'
  OBVIOUS
<1>3. /\ Shape(c) /\ Stage(c) /\ Sought(c) /\ Voted(c)
      /\ c.at \in {"attest", "sign"} /\ c.fn = "DetectFraud" /\ c.result = NoResult
      /\ c.i \in Nat /\ Layout(c)
  BY <1>1 DEF Good, Shape, Stage, AskOurs, OursSigns, AskOthers, NoAttestation, NoFraud
<1>4. NoResult.proven = FALSE /\ NoResult.accused = NoOne
  BY Zenon DEF NoResult
<1>5. ASSUME Kept(c, d), d.votes = c.votes, d.i \in Nat, Layout(d),
             d.at \in {"attest", "sign", "done"}, d.at # "done" => d.result = NoResult
      PROVE  Good(d)
  <2>1. Shape(d) /\ Stage(d)
    BY <1>3, <1>4, <1>5 DEF Kept, Shape, Stage
  <2>2. Voted(d) /\ Honest(d)
    BY <1>3, <1>5 DEF Kept, Voted, Honest, Polls
  <2>3. Sought(d)
    BY Zenon, <1>3, <1>5 DEF Kept, Sought
  <2> QED BY <2>1, <2>2, <2>3 DEF Good
<1>6. ASSUME NEW att, NEW e, e = AfterAttestation(att)
      PROVE  /\ Kept(c, e) /\ e.votes = c.votes /\ e.i \in Nat /\ Layout(e)
             /\ e.at \in {c.at, "done"} /\ (e.at # "done" => e.result = NoResult)
  <2>1. \/ e = [c EXCEPT !.i = @ + 1]
        \/ \E r : e = [c EXCEPT !.at = "done", !.result = r]
    BY <1>1, <1>6 DEF AfterAttestation, Return
  <2>2. CASE e = [c EXCEPT !.i = @ + 1]
    BY <1>3, <2>2 DEF Kept, Layout
  <2>3. ASSUME NEW r, e = [c EXCEPT !.at = "done", !.result = r]
        PROVE  /\ Kept(c, e) /\ e.votes = c.votes /\ e.i = c.i /\ Layout(e) /\ e.at = "done"
    BY <1>3, <2>3 DEF Kept, Layout
  <2> QED BY ZenonT(30), <1>3, <2>1, <2>2, <2>3
<1>7. ASSUME AskOurs PROVE Good(d)
  <2>1. \E o : d = [c EXCEPT !.at = "sign", !.ours = o]
    BY <1>1, <1>2, <1>7 DEF AskOurs
  <2> QED BY ZenonT(60), <1>3, <1>5, <2>1 DEF Kept, Layout
<1>8. ASSUME OursSigns PROVE Good(d)
  <2>1. \E att : d = [AfterAttestation(att) EXCEPT !.at = IF @ = "sign" THEN "attest" ELSE @]
    BY <1>2, <1>8 DEF OursSigns
  <2>2. PICK att, e : e = AfterAttestation(att) /\ d = [e EXCEPT !.at = IF @ = "sign" THEN "attest" ELSE @]
    BY <2>1
  <2>3. /\ Kept(c, e) /\ e.votes = c.votes /\ e.i \in Nat /\ Layout(e)
        /\ e.at \in {c.at, "done"} /\ (e.at # "done" => e.result = NoResult)
    BY <1>6, <2>2
  <2>4. /\ d = [e EXCEPT !.at = IF e.at = "sign" THEN "attest" ELSE e.at]
    BY <2>2
  <2>5. /\ d.fn = e.fn /\ d.tx = e.tx /\ d.place = e.place /\ d.early = e.early
        /\ d.life = e.life /\ d.lost = e.lost /\ d.votes = e.votes /\ d.i = e.i
        /\ d.result = e.result /\ Layout(d)
        /\ d.at = IF e.at = "sign" THEN "attest" ELSE e.at
    BY <2>3, <2>4 DEF Layout
  <2> QED BY <1>3, <1>5, <2>3, <2>5 DEF Kept
<1>9. ASSUME AskOthers PROVE Good(d)
  <2>1. \E att : d = AfterAttestation(att)
    BY <1>2, <1>9 DEF AskOthers
  <2>2. /\ Kept(c, d) /\ d.votes = c.votes /\ d.i \in Nat /\ Layout(d)
        /\ d.at \in {c.at, "done"} /\ (d.at # "done" => d.result = NoResult)
    BY <1>6, <2>1
  <2> QED BY <1>3, <1>5, <2>2
<1>10. ASSUME NoAttestation PROVE Good(d)
  <2>1. d = [c EXCEPT !.at = "attest", !.i = @ + 1]
    BY <1>1, <1>2, <1>10 DEF NoAttestation
  <2>2. /\ Kept(c, d) /\ d.votes = c.votes /\ d.i = c.i + 1 /\ Layout(d)
        /\ d.at = "attest" /\ d.result = NoResult
    BY <1>3, <2>1 DEF Kept, Layout
  <2> QED BY <1>3, <1>5, <2>2
<1>11. ASSUME NoFraud PROVE Good(d)
  <2>1. d = [c EXCEPT !.at = "done", !.result = NoResult]
    BY <1>1, <1>2, <1>11 DEF NoFraud, Return
  <2> QED BY <1>3, <1>5, <2>1 DEF Kept, Layout
<1> QED BY <1>2, <1>7, <1>8, <1>9, <1>10, <1>11

(* Every answer to the request for a proof meets ProofGood: the server's     *)
(* folds, if it holds the index entry.                                       *)
LEMMA AskProofGood ==
  ASSUME ChainInv, Good(call), AskProof
  PROVE  Good(call')
<1>1. call.at = "path" /\ call.i <= NOps /\ call.tx \in Txs
  BY DEF AskProof, Good, Shape
<1>2. ~Acceptable(NoProof, call.tx)
  BY DEF Acceptable, NoProof
<1>3. CASE call.i = call.place /\ call' = AfterProof(OurProof)
  <2>1. Seen(call.tx) => Acceptable(OurProof, call.tx)
    BY DEF OurProof, Acceptable
  <2>2. PICK p : p = OurProof
    OBVIOUS
  <2> QED BY <1>1, <1>3, <2>1, <2>2, ProofGood
<1>4. CASE call.i = call.place /\ call' = [AfterProof(NoProof) EXCEPT !.lost = TRUE]
  BY <1>1, <1>2, <1>4, ProofGood
<1>5. ASSUME call.i # call.place, NEW p \in OthersProofs, call' = AfterProof(p)
      PROVE  Good(call')
  BY <1>1, <1>5, ProofGood
<1> QED BY <1>3, <1>4, <1>5 DEF AskProof

(* The invariant of the composition.                                         *)
ClientInv == Types /\ ChainInv /\ CallInv

LEMMA InitClient == ClientInit => ClientInv
<1> SUFFICES ASSUME ClientInit PROVE ClientInv
  OBVIOUS
<1>1. Types /\ ChainInv
  BY InitInv, InitChain DEF ClientInit, IInv
<1>2. 1 \in 1 .. NOps /\ "Seen" \in Functions
  BY ClientAssumption DEF Functions
<1>3. PICK t \in Txs : call = Called("Seen", t, 1, "done")
  BY DEF ClientInit
<1>4. CallInv
  BY <1>1, <1>2, <1>3, CalledGood DEF CallInv
<1> QED BY <1>1, <1>4 DEF ClientInv

(* A client step reads the server's state and leaves it alone.               *)
LEMMA GoodFixed ==
  ASSUME UNCHANGED vars, NEW d, Good(d), call' = d
  PROVE  CallInv'
<1>1. UNCHANGED <<node, height, loop, index, restarts>>
  BY DEF vars, source, store
<1>2. Behind(d.tx)' = Behind(d.tx) /\ Seen(d.tx)' = Seen(d.tx)
  BY <1>1 DEF Behind, Seen
<1>3. Sought(d)'
  BY <1>1, <1>2 DEF Good, Sought, Searched
<1>4. Good(d)'
  BY <1>3 DEF Good, Shape, Layout, Stage, Voted, Honest
<1> QED BY <1>4 DEF CallInv

LEMMA ClientStep ==
  ASSUME ChainInv, CallInv, UNCHANGED vars,
         Step \/ \E fn \in Functions, t \in Txs, place \in 1 .. NOps : Invoke(fn, t, place)
  PROVE  CallInv'
<1>1. Good(call)
  BY DEF CallInv
<1>2. CASE Step
  BY <1>1, <1>2, AskProofGood, PathFailsGood, PollGood, TallyGood, AttestGood, GoodFixed DEF Step
<1>3. ASSUME NEW fn \in Functions, NEW t \in Txs, NEW place \in 1 .. NOps, Invoke(fn, t, place)
      PROVE  CallInv'
  <2>1. PICK at \in {"path", "poll"} :
          /\ call' = Called(fn, t, place, at)
          /\ at = "path" => fn \in {"MerklePath", "Mined", "DetectFraud"}
          /\ at = "poll" => fn \in {"Seen", "UTXO"}
    BY <1>3 DEF Invoke, Functions
  <2>2. Good(Called(fn, t, place, at))
    BY <2>1, CalledGood
  <2> QED BY <2>1, <2>2, GoodFixed
<1> QED BY <1>2, <1>3

LEMMA ClientInvariance == ClientSpec => []ClientInv
<1>1. IInv /\ ClientInv /\ [ClientNext]_clientVars => IInv' /\ ClientInv'
  <2> SUFFICES ASSUME IInv, ClientInv, [ClientNext]_clientVars PROVE IInv' /\ ClientInv'
    OBVIOUS
  <2>1. [Next]_vars
    BY DEF ClientNext, clientVars
  <2>2. IInv' /\ ChainInv'
    BY <2>1, NextInv, StepChain DEF ClientInv
  <2>3. ASSUME call' = call PROVE CallInv'
    BY <2>1, <2>3, ServerCall DEF ClientInv
  <2>4. ASSUME call' # call PROVE CallInv'
    BY <2>4, ClientStep DEF ClientInv, ClientNext, clientVars
  <2> QED BY <2>2, <2>3, <2>4 DEF ClientInv, IInv
<1>2. ClientInit => IInv /\ ClientInv
  BY InitInv, InitClient DEF ClientInit
<1> QED BY <1>1, <1>2, PTL DEF ClientSpec

(* One honest operator that held the entry over the call and was reached is  *)
(* enough, whatever its place among the others.                              *)
THEOREM OneHonestTheorem == ClientSpec => []OneHonestSuffices
<1>1. ClientInv => OneHonestSuffices
  BY DEF ClientInv, CallInv, Good, Sought, Searched, OneHonestSuffices, Returned
<1> QED BY <1>1, ClientInvariance, PTL

(* An unproven answer on which all responders agree, an honest one included, *)
(* is the honest one's.                                                      *)
THEOREM UnanimityTheorem == ClientSpec => []UnanimityIsHonest
<1>1. ClientInv => UnanimityIsHonest
  BY DEF ClientInv, CallInv, Good, Honest, Polls, UnanimityIsHonest, Returned
<1> QED BY <1>1, ClientInvariance, PTL
=============================================================================
