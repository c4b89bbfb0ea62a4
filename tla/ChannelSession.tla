--------------------------- MODULE ChannelSession ---------------------------
(***************************************************************************)
(* One channel from Open to the spending of its funding output: a client   *)
(* that signs, repeats or garbles commitments, the server that authorizes  *)
(* accesses, an operator who may settle when ShouldSettle says so, chain   *)
(* time, and the refund the client can broadcast once its nLockTime has    *)
(* passed.  No code in src/ calls ShouldSettle outside the tests, so the   *)
(* operator may be late; `late` records that time passed a settlement due. *)
(***************************************************************************)
EXTENDS Channel

CONSTANTS
  Configs,          \* the configurations a client may ask for
  MaxAccesses,      \* bound on the accesses sold
  MaxTime           \* bound on chain time

ASSUME ConfigAssumption == \A cfg \in Configs : InRange(cfg)

VARIABLES
  ch,               \* the Channel
  owed,             \* history: price and fee of all accesses served
  now,              \* chain time
  funding,          \* the funding output: "locked", "settled" or "refunded"
  paid,             \* the outputs of the transaction that spent it
  late              \* history: time has passed while a settlement was due

sessionVars == <<ch, owed, now, funding, paid, late>>

SessionInit ==
  /\ \E cfg \in Configs : Openable(cfg) /\ ch = Open(cfg)
  /\ owed = 0 /\ now = 0 /\ funding = "locked" /\ paid = [toServer |-> 0, toClient |-> 0]
  /\ late = FALSE

(* What a client can send: a commitment it signed, none, or one whose        *)
(* signature is not canonical, not its own or not over the amount claimed.   *)
Amounts == 0 .. ch.cfg.deposit + 1
Signed == {SignCommitment(ch.cfg, a) : a \in {b \in Amounts : PayoutFits(ch.cfg, b)}}
Invalid ==
  {[c EXCEPT !.sig.lowS = FALSE] : c \in Signed} \cup
  {[c EXCEPT !.sig.key = ServerKey] : c \in Signed} \cup
  {[c EXCEPT !.cum = @ + 1] : c \in Signed}
Sent == Signed \cup Invalid \cup {NoCommitment}

Price(q) == Service(ch.cfg.pricing, q) + FeeComponent(ch, ch.accesses + 1)

Authorize(c, q) ==
  /\ ch.accesses < MaxAccesses
  /\ ch' = IF Verdict(ch, c, q) = "ok" THEN Accepted(ch, c) ELSE ch
  /\ owed' = IF Verdict(ch, c, q) = "ok" THEN owed + Price(q) ELSE owed
  /\ UNCHANGED <<now, funding, paid, late>>

Settle ==
  /\ ShouldSettle(ch, now)
  /\ ch' = Closed(ch)
  /\ UNCHANGED <<owed, now, funding, paid, late>>

Broadcast ==
  /\ ch.closed
  /\ Broadcastable(ch)
  /\ funding = "locked"
  /\ funding' = "settled"
  /\ paid' = [toServer |-> SettlementTx(ch).toServer, toClient |-> SettlementTx(ch).toClient]
  /\ UNCHANGED <<ch, owed, now, late>>

Refund ==
  /\ ch.cfg.refundLock # 0
  /\ now >= ch.cfg.refundLock
  /\ funding = "locked"
  /\ funding' = "refunded"
  /\ paid' = [toServer |-> 0, toClient |-> RefundTx(ch.cfg).toClient]
  /\ UNCHANGED <<ch, owed, now, late>>

(* There is something for the operator to do: settle, or broadcast.          *)
SettlementDue ==
  \/ ShouldSettle(ch, now)
  \/ ch.closed /\ ch.best # NoCommitment /\ funding = "locked"

Tick ==
  /\ now < MaxTime
  /\ now' = now + 1
  /\ late' = (late \/ SettlementDue)
  /\ UNCHANGED <<ch, owed, funding, paid>>

SessionNext ==
  \/ \E c \in Sent, q \in QueryType : Authorize(c, q)
  \/ Settle
  \/ Broadcast
  \/ Refund
  \/ Tick

SessionSpec == SessionInit /\ [][SessionNext]_sessionVars

-----------------------------------------------------------------------------
(* TypeOK: the channel keeps the configuration it was opened with, and its   *)
(* counters, its best commitment and the on-chain state are in range.        *)
TypeOK ==
  /\ \E cfg \in Configs : Openable(cfg) /\ ch.cfg = Open(cfg).cfg
  /\ ch = [cfg |-> ch.cfg, accesses |-> ch.accesses, cumPaid |-> ch.cumPaid,
           best |-> ch.best, closed |-> ch.closed]
  /\ ch.accesses \in Nat /\ ch.cumPaid \in Amount /\ ch.closed \in BOOLEAN
  /\ owed \in Nat /\ now \in Nat /\ late \in BOOLEAN
  /\ paid \in [toServer : Amount, toClient : Amount]
  /\ funding \in {"locked", "settled", "refunded"}

(* Prepaid: payment always leads service: the cumulative amount the client   *)
(* has signed covers the price and fee of every access served, and never     *)
(* exceeds the deposit, through overpayments, repeats and rejected attempts. *)
(* The first half is for prices whose sums do not wrap: with others a quote  *)
(* comes out below the price.                                                *)
Prepaid ==
  /\ PricesFit(ch.cfg) => owed <= ch.cumPaid
  /\ ch.cumPaid <= ch.cfg.deposit

(* Settleable: once an access has been sold, the best commitment's signature *)
(* is on the very transaction that pays cumPaid.  That transaction spends    *)
(* exactly the funding value, miner's fee included, if cumPaid and the fee   *)
(* add up in a uint64.  If they do not, CommitmentTx's check has passed on   *)
(* the wrapped sum, and the outputs exceed the funding output by 2^64 - fee. *)
Settleable ==
  ch.accesses > 0 =>
    /\ Broadcastable(ch)
    /\ LET tx == SettlementTx(ch)
           excess == IF ch.cumPaid + ch.cfg.fee < Word64 THEN 0 ELSE Word64 IN
         tx.toServer + tx.toClient + ch.cfg.fee = ch.cfg.fundingValue + excess

(* Every access served is collected: the funding output is not refunded once *)
(* one has been, and a settlement on chain pays all that was signed for.     *)
Collected ==
  /\ funding = "refunded" => ch.accesses = 0
  /\ funding = "settled" => paid.toServer = ch.cumPaid

(* ServerWhole: channel.go:5, "the server can never lose even one access",   *)
(* of an operator who settles and broadcasts as soon as ShouldSettle says    *)
(* so.  Open accepts a refund lock time with a count trigger alone, and the  *)
(* refund of such a channel matures before it has sold its N accesses.       *)
ServerWhole == ~late => Collected

(* DeadlineSuffices: what Open's check of x' < x gives: with a settlement    *)
(* deadline, or no refund, an operator who is never late collects all that   *)
(* was served, also when an access is sold at the deadline itself.           *)
DeadlineSuffices ==
  ~late /\ (ch.cfg.settleBefore # 0 \/ ch.cfg.refundLock = 0) => Collected

(* FeeCollected: once the settlement fee has been charged in full (on the    *)
(* first access, or over the n accesses it is amortized on, n not dividing   *)
(* it), what Settle reports leaves the server the price of every access      *)
(* after the whole fee is paid, if the prices do not wrap.                   *)
FeeCollected ==
  LET p == ch.cfg.pricing
      charged == CASE p.feeMode = "upfront" -> ch.accesses > 0
                   [] p.feeMode = "amortized" -> ch.accesses >= ch.cfg.n
                   [] OTHER -> FALSE IN
    p.flat /\ charged /\ PricesFit(ch.cfg) =>
      /\ Settlement(ch).miningFee = p.settleFee
      /\ ch.accesses * p.flatPrice <= Settlement(ch).netServer

=============================================================================
