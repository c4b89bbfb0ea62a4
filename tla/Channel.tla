------------------------------- MODULE Channel -------------------------------
(***************************************************************************)
(* The server's side of one payment channel, payment/channel/channel.go,   *)
(* and the transactions behind it, bsvtx/channeltx.go, as operators on     *)
(* channel records: what Open accepts, what an access costs, what          *)
(* Authorize checks and changes, when and how a channel settles.           *)
(*                                                                         *)
(* Amounts are uint64; Word64 is the number of their values.  A signature  *)
(* is the key that made it, the sighash it signs and whether its S is low; *)
(* a sighash is the transaction it commits to.                             *)
(***************************************************************************)
EXTENDS Integers

CONSTANTS
  Word64,           \* number of uint64 values
  QueryType,        \* the priced operations
  ServerKey,        \* the payee's key
  NoCommitment      \* nil, as a commitment

ASSUME Word64Assumption == Word64 \in Nat \ {0}

U64(x) == x % Word64

-----------------------------------------------------------------------------
(* A configuration: the parameters both sides agree on (funding, clientPub,  *)
(* fundingValue, fee), deposit, pricing, and the settlement triggers.        *)

Service(p, q) == IF p.flat THEN p.flatPrice ELSE p.perType[q]

(* Mutant: the amortized share is rounded down.                              *)
CeilDivFloor(a, b) == IF b = 0 THEN 0 ELSE a \div b

CeilDiv(a, b) == IF b = 0 THEN 0 ELSE U64(a + b - 1) \div b

Amount == 0 .. Word64 - 1
Pricing ==
  [flat : BOOLEAN, flatPrice : Amount, perType : [QueryType -> Amount],
   settleFee : Amount, feeMode : {"upfront", "amortized", "other"}]

(* What the JSON of an open request can hold: any value of each type.        *)
InRange(cfg) ==
  /\ cfg.deposit \in Amount /\ cfg.fundingValue \in Amount /\ cfg.fee \in Amount
  /\ cfg.n \in Amount /\ cfg.refundLock \in Nat /\ cfg.settleBefore \in Nat
  /\ cfg.pricing \in Pricing

(* The prices are small enough that a quote on top of the whole deposit, and *)
(* the sum under ceilDiv, stay in a uint64.  Open does not check that.       *)
PricesFit(cfg) ==
  /\ \A q \in QueryType, fee \in {0, cfg.pricing.settleFee, CeilDiv(cfg.pricing.settleFee, cfg.n)} :
       cfg.deposit + Service(cfg.pricing, q) + fee < Word64
  /\ cfg.pricing.settleFee + cfg.n <= Word64

(* Mutant: the deadline may fall on the refund's lock time.                  *)
OpenableLate(cfg) ==
  /\ cfg.deposit # 0
  /\ ~(cfg.pricing.feeMode = "amortized" /\ cfg.n = 0)
  /\ ~(cfg.n = 0 /\ cfg.settleBefore = 0)
  /\ ~(cfg.refundLock # 0 /\ cfg.settleBefore # 0 /\ cfg.settleBefore > cfg.refundLock)

Openable(cfg) ==
  /\ cfg.deposit # 0
  /\ ~(cfg.pricing.feeMode = "amortized" /\ cfg.n = 0)
  /\ ~(cfg.n = 0 /\ cfg.settleBefore = 0)
  /\ ~(cfg.refundLock # 0 /\ cfg.settleBefore # 0 /\ cfg.settleBefore >= cfg.refundLock)

Open(cfg) ==
  [cfg |-> [cfg EXCEPT !.fundingValue = IF @ = 0 THEN cfg.deposit ELSE @],
   accesses |-> 0, cumPaid |-> 0, best |-> NoCommitment, closed |-> FALSE]

(* The settlement fee charged on the accessNo-th access, counted from 1; a   *)
(* fee mode that is neither of the two charges none.                         *)
FeeComponent(ch, accessNo) ==
  LET p == ch.cfg.pricing IN
    CASE p.feeMode = "upfront" -> IF accessNo = 1 THEN p.settleFee ELSE 0
      [] p.feeMode = "amortized" -> CeilDiv(p.settleFee, ch.cfg.n)
      [] OTHER -> 0

Quote(ch, q) ==
  U64(ch.cumPaid + Service(ch.cfg.pricing, q) + FeeComponent(ch, ch.accesses + 1))

-----------------------------------------------------------------------------
(* The commitment transaction pays toServer out of the funding output and    *)
(* the rest, less the miner's fee, back to the client.                       *)

PayoutFits(cfg, toServer) == ~(U64(toServer + cfg.fee) > cfg.fundingValue)

CommitmentTx(cfg, toServer) ==
  [spends |-> cfg.funding, keys |-> <<cfg.clientPub, ServerKey>>,
   toServer |-> toServer,
   toClient |-> U64(cfg.fundingValue - toServer - cfg.fee)]

Sign(key, tx) == [key |-> key, over |-> tx, lowS |-> TRUE]

(* SignCommitment, the client's side; it fails unless PayoutFits.            *)
SignCommitment(cfg, cum) ==
  [cum |-> cum, sig |-> Sign(cfg.clientPub, CommitmentTx(cfg, cum))]

(* Mutant: any canonical signature of the client's key will do.              *)
VerifyKeyOnly(cfg, cum, sig) ==
  sig.lowS /\ PayoutFits(cfg, cum) /\ sig.key = cfg.clientPub

Verify(cfg, cum, sig) ==
  /\ sig.lowS
  /\ PayoutFits(cfg, cum)
  /\ sig.key = cfg.clientPub
  /\ sig.over = CommitmentTx(cfg, cum)

-----------------------------------------------------------------------------
(* Authorize: the checks in the order of the code, then the new state.       *)

(* Mutants: the price of the access is not asked for; more than the quoted   *)
(* amount is.                                                                *)
VerdictMonotone(ch, c, q) ==
  IF ch.closed THEN "ErrClosed"
  ELSE IF c = NoCommitment THEN "ErrBadSig"
  ELSE IF c.cum < ch.cumPaid THEN "ErrUnderpaid"
  ELSE IF c.cum > ch.cfg.deposit THEN "ErrExceedsDeposit"
  ELSE IF ~Verify(ch.cfg, c.cum, c.sig) THEN "ErrBadSig"
  ELSE "ok"
VerdictOverQuote(ch, c, q) ==
  IF ch.closed THEN "ErrClosed"
  ELSE IF c = NoCommitment THEN "ErrBadSig"
  ELSE IF c.cum <= Quote(ch, q) THEN "ErrUnderpaid"
  ELSE IF c.cum > ch.cfg.deposit THEN "ErrExceedsDeposit"
  ELSE IF ~Verify(ch.cfg, c.cum, c.sig) THEN "ErrBadSig"
  ELSE "ok"

Verdict(ch, c, q) ==
  IF ch.closed THEN "ErrClosed"
  ELSE IF c = NoCommitment THEN "ErrBadSig"
  ELSE IF c.cum < Quote(ch, q) THEN "ErrUnderpaid"
  ELSE IF c.cum > ch.cfg.deposit THEN "ErrExceedsDeposit"
  ELSE IF ~Verify(ch.cfg, c.cum, c.sig) THEN "ErrBadSig"
  ELSE "ok"

Accepted(ch, c) ==
  [ch EXCEPT !.cumPaid = c.cum, !.accesses = @ + 1, !.best = c]

ShouldSettle(ch, now) ==
  /\ ~ch.closed
  /\ \/ ch.cfg.n > 0 /\ ch.accesses >= ch.cfg.n
     \/ ch.cfg.settleBefore > 0 /\ now >= ch.cfg.settleBefore

Closed(ch) == [ch EXCEPT !.closed = TRUE]

(* The field-level settlement Settle returns.                                *)
Settlement(ch) ==
  LET fee == ch.cfg.pricing.settleFee
      mining == IF fee > ch.cumPaid THEN ch.cumPaid ELSE fee IN
    [toServer |-> ch.cumPaid, toClient |-> U64(ch.cfg.deposit - ch.cumPaid),
     miningFee |-> mining, netServer |-> ch.cumPaid - mining]

(* SettlementTx: the commitment transaction of cumPaid with the signature of *)
(* the best commitment; broadcastable when that signature is on it.          *)
SettlementTx(ch) == CommitmentTx(ch.cfg, ch.cumPaid)

Broadcastable(ch) ==
  /\ ch.best # NoCommitment
  /\ PayoutFits(ch.cfg, ch.cumPaid)
  /\ ch.best.sig.key = ch.cfg.clientPub
  /\ ch.best.sig.over = SettlementTx(ch)

(* RefundTx: everything but the fee back to the client, at refundLock.       *)
RefundTx(cfg) ==
  [spends |-> cfg.funding, keys |-> <<cfg.clientPub, ServerKey>>,
   lockTime |-> cfg.refundLock, toClient |-> U64(cfg.fundingValue - cfg.fee)]
=============================================================================
