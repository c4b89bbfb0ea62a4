---------------------------- MODULE ChannelProofs ----------------------------
(***************************************************************************)
(* Payment leads service, and an operator who is never late collects it    *)
(* where there is a deadline, for every set of configurations of the types *)
(* Open takes.                                                             *)
(***************************************************************************)
EXTENDS ChannelSession, TLAPS

(* U64 leaves a value in range alone and brings any other into range.        *)
LEMMA U64Facts ==
  /\ \A x \in Amount : U64(x) = x
  /\ \A x \in Int : U64(x) \in Amount
BY Word64Assumption, SMT DEF U64, Amount

(* A value one word above the range, or below it, wraps once.                *)
LEMMA WrapOnce ==
  /\ \A x \in Int : x - Word64 \in Amount => U64(x) = x - Word64
  /\ \A x \in Int : x + Word64 \in Amount => U64(x) = x + Word64
BY Word64Assumption, SMT DEF U64, Amount

(* A rounded-up quotient of naturals is a natural.                           *)
LEMMA CeilDivType ==
  ASSUME NEW a \in Nat, NEW b \in Nat
  PROVE  CeilDiv(a, b) \in Nat
<1>1. CASE b = 0
  BY <1>1 DEF CeilDiv
<1>2. CASE b # 0
  <2>1. U64(a + b - 1) \in Nat
    BY U64Facts, Word64Assumption DEF Amount
  <2>2. \A x \in Nat : x \div b \in Nat
    BY <1>2, SMT
  <2> QED BY <1>2, <2>1, <2>2 DEF CeilDiv
<1> QED BY <1>1, <1>2

(* What TypeOK says of a channel's configuration, and that the price of an   *)
(* access is a natural, below Word64 on top of the deposit if prices fit.    *)
LEMMA ConfigFacts ==
  ASSUME TypeOK
  PROVE  /\ ch.cfg.deposit \in Amount /\ ch.cfg.fundingValue \in Amount
         /\ ch.cfg.fee \in Amount
         /\ ch.cfg.refundLock \in Nat /\ ch.cfg.settleBefore \in Nat
         /\ ch.cfg.refundLock # 0 /\ ch.cfg.settleBefore # 0
              => ch.cfg.settleBefore < ch.cfg.refundLock
         /\ \A q \in QueryType :
              /\ Service(ch.cfg.pricing, q) \in Nat
              /\ FeeComponent(ch, ch.accesses + 1) \in Nat
              /\ Price(q) \in Nat
              /\ PricesFit(ch.cfg) => ch.cfg.deposit + Price(q) < Word64
<1>1. PICK cfg \in Configs : Openable(cfg) /\ ch.cfg = Open(cfg).cfg
  BY DEF TypeOK
<1>2. /\ cfg.deposit \in Amount /\ cfg.fundingValue \in Amount /\ cfg.fee \in Amount
      /\ cfg.n \in Nat /\ cfg.refundLock \in Nat /\ cfg.settleBefore \in Nat
      /\ cfg.pricing \in Pricing
  BY ConfigAssumption, Word64Assumption DEF InRange, Amount
<1>3. ch.cfg = [cfg EXCEPT !.fundingValue = IF @ = 0 THEN cfg.deposit ELSE @]
  BY <1>1 DEF Open
<1>4. /\ ch.cfg.deposit = cfg.deposit /\ ch.cfg.fee = cfg.fee /\ ch.cfg.n = cfg.n
      /\ ch.cfg.refundLock = cfg.refundLock /\ ch.cfg.settleBefore = cfg.settleBefore
      /\ ch.cfg.pricing = cfg.pricing
  BY <1>3
<1>5. ch.cfg.fundingValue \in Amount
  BY <1>2, <1>3
<1>6. cfg.settleBefore < cfg.refundLock \/ cfg.refundLock = 0 \/ cfg.settleBefore = 0
  BY <1>1, <1>2 DEF Openable
<1>7. ASSUME NEW q \in QueryType
      PROVE  /\ Service(ch.cfg.pricing, q) \in Nat
             /\ FeeComponent(ch, ch.accesses + 1) \in Nat
             /\ Price(q) \in Nat
             /\ PricesFit(ch.cfg) => cfg.deposit + Price(q) < Word64
  <2> DEFINE fee == FeeComponent(ch, ch.accesses + 1)
             serv == Service(cfg.pricing, q)
  <2>1. fee \in {0, cfg.pricing.settleFee, CeilDiv(cfg.pricing.settleFee, cfg.n)}
    BY <1>4 DEF FeeComponent
  <2>2. cfg.pricing.settleFee \in Nat /\ serv \in Nat
    BY <1>2, Word64Assumption DEF Pricing, Amount, Service
  <2>a. CeilDiv(cfg.pricing.settleFee, cfg.n) \in Nat
    BY <1>2, <2>2, CeilDivType
  <2>4. PricesFit(ch.cfg) => cfg.deposit + serv + fee < Word64
    BY <1>4, <2>1 DEF PricesFit
  <2>5. Price(q) = serv + fee /\ Service(ch.cfg.pricing, q) = serv
    BY <1>4 DEF Price
  <2>6. FeeComponent(ch, ch.accesses + 1) = fee
    OBVIOUS
  <2> HIDE DEF fee, serv
  <2>3. fee \in Nat
    BY <2>1, <2>2, <2>a
  <2> QED BY <1>2, <2>2, <2>3, <2>4, <2>5, <2>6, Word64Assumption DEF Amount
<1> QED BY <1>2, <1>4, <1>5, <1>6, <1>7

-----------------------------------------------------------------------------
(* The inductive invariant.  An access sold leaves a commitment whose        *)
(* signature is on the settlement transaction; only a closed channel is      *)
(* settled, so what was paid on chain stays what was owed.                   *)
Backed ==
  /\ ch.best = NoCommitment => owed = 0 /\ ch.accesses = 0
  /\ ch.best # NoCommitment => Broadcastable(ch)
  /\ funding = "settled" => ch.closed /\ paid.toServer = ch.cumPaid

IInv == TypeOK /\ Prepaid /\ Backed

(* An open channel has sold nothing.                                         *)
LEMMA InitIInv == SessionInit => IInv
<1> SUFFICES ASSUME SessionInit PROVE IInv
  OBVIOUS
<1>1. PICK cfg \in Configs : Openable(cfg) /\ ch = Open(cfg)
  BY DEF SessionInit
<1>2. cfg.deposit \in Amount
  BY ConfigAssumption DEF InRange
<1> DEFINE k == [cfg EXCEPT !.fundingValue = IF @ = 0 THEN cfg.deposit ELSE @]
<1>a. ch = [cfg |-> k, accesses |-> 0, cumPaid |-> 0, best |-> NoCommitment, closed |-> FALSE]
  BY <1>1 DEF Open
<1>b. k.deposit = cfg.deposit
  OBVIOUS
<1> HIDE DEF k
<1>3. /\ ch.accesses = 0 /\ ch.cumPaid = 0 /\ ch.best = NoCommitment /\ ch.closed = FALSE
      /\ ch = [cfg |-> ch.cfg, accesses |-> ch.accesses, cumPaid |-> ch.cumPaid,
               best |-> ch.best, closed |-> ch.closed]
  BY <1>a
<1>4. ch.cfg = Open(cfg).cfg /\ ch.cfg.deposit = cfg.deposit
  BY <1>1, <1>a, <1>b
<1>5. 0 \in Amount
  BY Word64Assumption DEF Amount
<1>6. TypeOK
  <2>1. \E x \in Configs : Openable(x) /\ ch.cfg = Open(x).cfg
    BY <1>1, <1>4
  <2>2. ch.accesses \in Nat /\ ch.cumPaid \in Amount
    BY <1>3, <1>5
  <2>4. ch.closed \in BOOLEAN
    BY <1>3, Zenon
  <2>3. /\ owed \in Nat /\ now \in Nat /\ paid \in [toServer : Amount, toClient : Amount]
        /\ funding \in {"locked", "settled", "refunded"}
    BY <1>5 DEF SessionInit
  <2>5. late \in BOOLEAN
    BY Zenon DEF SessionInit
  <2> QED BY <1>3, <2>1, <2>2, <2>3, <2>4, <2>5, Zenon DEF TypeOK
<1>7. Prepaid
  BY <1>2, <1>3, <1>4 DEF SessionInit, Prepaid, Amount
<1>8. Backed
  BY <1>3 DEF SessionInit, Backed
<1> QED BY <1>6, <1>7, <1>8 DEF IInv

(* What Authorize establishes when it accepts: the amount fits the deposit,  *)
(* covers what was paid and the price if prices fit, and the signature is on *)
(* the transaction paying it.                                                *)
LEMMA AcceptFacts ==
  ASSUME IInv, NEW c \in Sent, NEW q \in QueryType, Verdict(ch, c, q) = "ok"
  PROVE  /\ ~ch.closed /\ c # NoCommitment
         /\ c.cum \in Amount /\ c.cum <= ch.cfg.deposit
         /\ PricesFit(ch.cfg) => ch.cumPaid + Price(q) <= c.cum
         /\ Verify(ch.cfg, c.cum, c.sig)
<1>1. ~ch.closed /\ c # NoCommitment /\ Verify(ch.cfg, c.cum, c.sig)
  BY DEF Verdict
<1>2. ~(c.cum < Quote(ch, q)) /\ ~(c.cum > ch.cfg.deposit)
  BY DEF Verdict
<1>3. /\ ch.cfg.deposit \in Amount /\ Price(q) \in Nat
      /\ PricesFit(ch.cfg) => ch.cfg.deposit + Price(q) < Word64
  BY ConfigFacts DEF IInv
<1>4. ch.cumPaid \in Amount /\ ch.cumPaid <= ch.cfg.deposit
  BY DEF IInv, TypeOK, Prepaid
<1>5. c.cum \in Nat
  <2>1. \A d \in Signed : d.cum \in Nat /\ d = [cum |-> d.cum, sig |-> d.sig]
    BY <1>3 DEF Signed, SignCommitment, Amounts, Amount
  <2>2. CASE c \in Signed
    BY <2>1, <2>2
  <2>3. CASE c \in Invalid
    <3>1. PICK d \in Signed : \/ c = [d EXCEPT !.sig.lowS = FALSE]
                             \/ c = [d EXCEPT !.sig.key = ServerKey]
                             \/ c = [d EXCEPT !.cum = @ + 1]
      BY <2>3 DEF Invalid
    <3>2. d.cum \in Nat /\ d = [cum |-> d.cum, sig |-> d.sig]
      BY <2>1
    <3>3. c.cum = d.cum \/ c.cum = d.cum + 1
      BY <3>1, <3>2
    <3> QED BY <3>2, <3>3
  <2> QED BY <1>1, <2>2, <2>3 DEF Sent
<1>6. Quote(ch, q) = U64(ch.cumPaid + Price(q))
  <2>1. Quote(ch, q) = U64(ch.cumPaid + Service(ch.cfg.pricing, q) + FeeComponent(ch, ch.accesses + 1))
    BY DEF Quote
  <2>2. /\ Service(ch.cfg.pricing, q) \in Nat /\ FeeComponent(ch, ch.accesses + 1) \in Nat
        /\ ch.cumPaid \in Nat
    BY <1>4, ConfigFacts DEF IInv, Amount
  <2>3. ch.cumPaid + Service(ch.cfg.pricing, q) + FeeComponent(ch, ch.accesses + 1)
          = ch.cumPaid + Price(q)
    BY <2>2 DEF Price
  <2> QED BY <2>1, <2>3
<1>7. PricesFit(ch.cfg) => ch.cumPaid + Price(q) \in Amount
  BY <1>3, <1>4, Word64Assumption DEF Amount
<1>8. PricesFit(ch.cfg) => Quote(ch, q) = ch.cumPaid + Price(q)
  BY <1>6, <1>7, U64Facts
<1>9. c.cum \in Amount /\ c.cum <= ch.cfg.deposit
  BY <1>2, <1>3, <1>5, Word64Assumption DEF Amount
<1>10. PricesFit(ch.cfg) => ch.cumPaid + Price(q) <= c.cum
  BY <1>2, <1>3, <1>4, <1>5, <1>7, <1>8, Word64Assumption DEF Amount
<1> QED BY <1>1, <1>9, <1>10

(* Every step preserves the invariant.                                       *)
LEMMA StepIInv == IInv /\ [SessionNext]_sessionVars => IInv'
<1> SUFFICES ASSUME IInv, [SessionNext]_sessionVars PROVE IInv'
  OBVIOUS
<1>0. /\ ch = [cfg |-> ch.cfg, accesses |-> ch.accesses, cumPaid |-> ch.cumPaid,
               best |-> ch.best, closed |-> ch.closed]
      /\ ch.accesses \in Nat /\ ch.cumPaid \in Amount /\ owed \in Nat
      /\ PricesFit(ch.cfg) => owed <= ch.cumPaid
      /\ ch.cumPaid <= ch.cfg.deposit
      /\ \E cfg \in Configs : Openable(cfg) /\ ch.cfg = Open(cfg).cfg
  BY DEF IInv, TypeOK, Prepaid
<1>1. ASSUME NEW c \in Sent, NEW q \in QueryType, Authorize(c, q),
             Verdict(ch, c, q) = "ok"
      PROVE  IInv'
  <2>1. /\ ch' = Accepted(ch, c) /\ owed' = owed + Price(q)
        /\ UNCHANGED <<now, funding, paid, late>>
    BY <1>1 DEF Authorize
  <2>2. /\ ch'.cfg = ch.cfg /\ ch'.accesses = ch.accesses + 1 /\ ch'.cumPaid = c.cum
        /\ ch'.best = c /\ ch'.closed = ch.closed
        /\ ch' = [cfg |-> ch'.cfg, accesses |-> ch'.accesses, cumPaid |-> ch'.cumPaid,
                  best |-> ch'.best, closed |-> ch'.closed]
    BY <1>0, <2>1 DEF Accepted
  <2>3. /\ ~ch.closed /\ c # NoCommitment
        /\ c.cum \in Amount /\ c.cum <= ch.cfg.deposit
        /\ PricesFit(ch.cfg) => ch.cumPaid + Price(q) <= c.cum
        /\ Verify(ch.cfg, c.cum, c.sig)
    BY <1>1, AcceptFacts
  <2>4. Price(q) \in Nat
    BY ConfigFacts DEF IInv
  <2>5. owed' \in Nat /\ ch'.accesses \in Nat
    BY <1>0, <2>1, <2>2, <2>4
  <2>6. TypeOK'
    BY <1>0, <2>1, <2>2, <2>3, <2>5, Zenon DEF IInv, TypeOK
  <2>7. Prepaid'
    BY <1>0, <2>1, <2>2, <2>3, <2>4, Word64Assumption DEF Prepaid, Amount
  <2>8. Broadcastable(ch)'
    BY <2>2, <2>3 DEF Broadcastable, Verify, SettlementTx
  <2>9. Backed'
    BY <2>1, <2>2, <2>3, <2>8, Zenon DEF IInv, Backed
  <2> QED BY <2>6, <2>7, <2>9 DEF IInv
<1>2. ASSUME UNCHANGED <<ch, owed>>, TypeOK', funding' = "settled" => ch.closed /\ paid'.toServer = ch.cumPaid
      PROVE  IInv'
  <2>1. Prepaid'
    BY <1>2 DEF IInv, Prepaid
  <2>2. Broadcastable(ch)' <=> Broadcastable(ch)
    BY <1>2 DEF Broadcastable
  <2>3. Backed'
    BY <1>2, <2>2 DEF IInv, Backed
  <2> QED BY <1>2, <2>1, <2>3 DEF IInv
<1>3. ASSUME NEW c \in Sent, NEW q \in QueryType, Authorize(c, q),
             Verdict(ch, c, q) # "ok"
      PROVE  IInv'
  <2>1. UNCHANGED sessionVars
    BY <1>3 DEF Authorize, sessionVars
  <2> QED BY <1>2, <2>1 DEF IInv, TypeOK, Backed, sessionVars
<1>4. CASE Settle
  <2>1. ch' = Closed(ch) /\ UNCHANGED <<owed, now, funding, paid, late>>
    BY <1>4 DEF Settle
  <2>2. /\ ch'.cfg = ch.cfg /\ ch'.accesses = ch.accesses /\ ch'.cumPaid = ch.cumPaid
        /\ ch'.best = ch.best /\ ch'.closed = TRUE
        /\ ch' = [cfg |-> ch'.cfg, accesses |-> ch'.accesses, cumPaid |-> ch'.cumPaid,
                  best |-> ch'.best, closed |-> ch'.closed]
    BY <1>0, <2>1 DEF Closed
  <2>3. TypeOK'
    BY <1>0, <2>1, <2>2, Zenon DEF IInv, TypeOK
  <2>4. Prepaid'
    BY <1>0, <2>1, <2>2 DEF Prepaid
  <2>5. Broadcastable(ch)' <=> Broadcastable(ch)
    BY <2>2 DEF Broadcastable, SettlementTx
  <2>6. Backed'
    BY <2>1, <2>2, <2>5, Zenon DEF IInv, Backed
  <2> QED BY <2>3, <2>4, <2>6 DEF IInv
<1>5. CASE Broadcast
  <2>1. /\ ch.closed /\ funding' = "settled" /\ paid' = [toServer |-> SettlementTx(ch).toServer, toClient |-> SettlementTx(ch).toClient]
        /\ UNCHANGED <<ch, owed, now, late>>
    BY <1>5 DEF Broadcast
  <2>2. paid'.toServer = ch.cumPaid
    BY <2>1 DEF SettlementTx, CommitmentTx
  <2>4. SettlementTx(ch).toServer \in Amount /\ SettlementTx(ch).toClient \in Amount
    <3>1. ch.cfg.fundingValue - ch.cumPaid - ch.cfg.fee \in Int
      BY <1>0, ConfigFacts, Word64Assumption DEF IInv, Amount
    <3> QED BY <1>0, <3>1, U64Facts DEF SettlementTx, CommitmentTx
  <2>3. TypeOK'
    BY <2>1, <2>4 DEF IInv, TypeOK
  <2> QED BY <1>2, <2>1, <2>2, <2>3
<1>6. CASE Refund
  <2>2. RefundTx(ch.cfg).toClient \in Amount
    <3>1. ch.cfg.fundingValue - ch.cfg.fee \in Int
      BY ConfigFacts, Word64Assumption DEF IInv, Amount
    <3> QED BY <3>1, U64Facts DEF RefundTx
  <2>3. 0 \in Amount
    BY Word64Assumption DEF Amount
  <2>1. TypeOK'
    BY <1>6, <2>2, <2>3 DEF IInv, TypeOK, Refund
  <2> QED BY <1>2, <1>6, <2>1 DEF Refund
<1>7. CASE Tick
  <2>2. UNCHANGED <<ch, owed, funding, paid>> /\ now' \in Nat
    BY <1>7 DEF IInv, TypeOK, Tick
  <2>3. late' \in BOOLEAN
    BY <1>7, Zenon DEF Tick
  <2>1. TypeOK'
    BY <2>2, <2>3, Zenon DEF IInv, TypeOK
  <2> QED BY <1>2, <1>7, <2>1 DEF Tick, IInv, Backed
<1>8. CASE UNCHANGED sessionVars
  BY <1>2, <1>8 DEF IInv, TypeOK, Backed, sessionVars
<1> QED BY <1>1, <1>3, <1>4, <1>5, <1>6, <1>7, <1>8 DEF SessionNext

(* A settlement transaction that can be broadcast spends exactly the funding *)
(* value, or one word more when cumPaid and the fee wrap.                    *)
LEMMA SettlementBalanced ==
  ASSUME IInv, Broadcastable(ch)
  PROVE  SettlementTx(ch).toServer + SettlementTx(ch).toClient + ch.cfg.fee
           = ch.cfg.fundingValue + IF ch.cumPaid + ch.cfg.fee < Word64 THEN 0 ELSE Word64
<1> DEFINE c == ch.cumPaid
           f == ch.cfg.fee
           v == ch.cfg.fundingValue
<1>1. c \in Amount /\ f \in Amount /\ v \in Amount
  BY ConfigFacts DEF IInv, TypeOK
<1>2. ~(U64(c + f) > v)
  BY DEF Broadcastable, PayoutFits
<1>3. SettlementTx(ch).toServer = c /\ SettlementTx(ch).toClient = U64(v - c - f)
  BY DEF SettlementTx, CommitmentTx
<1> HIDE DEF c, f, v
<1>4. CASE c + f < Word64
  <2>1. U64(c + f) = c + f
    BY <1>1, <1>4, U64Facts, Word64Assumption DEF Amount
  <2>2. v - c - f \in Amount
    BY <1>1, <1>2, <2>1, Word64Assumption DEF Amount
  <2>3. U64(v - c - f) = v - c - f
    BY <2>2, U64Facts
  <2>4. c + (v - c - f) + f = v + 0
    BY <1>1, Word64Assumption DEF Amount
  <2> QED BY <1>3, <1>4, <2>3, <2>4 DEF c, f, v
<1>5. CASE ~(c + f < Word64)
  <2>1. U64(c + f) = c + f - Word64
    BY <1>1, <1>5, WrapOnce, Word64Assumption DEF Amount
  <2>2. v - c - f + Word64 \in Amount /\ v - c - f \in Int /\ v - c - f < 0
    BY <1>1, <1>2, <1>5, <2>1, Word64Assumption DEF Amount
  <2>3. U64(v - c - f) = v - c - f + Word64
    BY <2>2, WrapOnce
  <2>4. c + (v - c - f + Word64) + f = v + Word64
    BY <1>1, Word64Assumption DEF Amount
  <2> QED BY <1>3, <1>5, <2>3, <2>4 DEF c, f, v
<1> QED BY <1>4, <1>5

(* An access sold has left a commitment to settle with.                      *)
LEMMA IInvSettleable == IInv => Settleable
<1> SUFFICES ASSUME IInv, ch.accesses > 0 PROVE
      /\ Broadcastable(ch)
      /\ SettlementTx(ch).toServer + SettlementTx(ch).toClient + ch.cfg.fee
           = ch.cfg.fundingValue + IF ch.cumPaid + ch.cfg.fee < Word64 THEN 0 ELSE Word64
  BY DEF Settleable
<1>1. Broadcastable(ch)
  BY DEF IInv, TypeOK, Backed
<1> QED BY <1>1, SettlementBalanced

(* SessionSpec keeps the invariant.                                                 *)
LEMMA Invariance == SessionSpec => []IInv
BY InitIInv, StepIInv, PTL DEF SessionSpec

(* Authorize never takes more than the deposit, and never serves ahead of    *)
(* payment at prices that do not wrap, for any commitments the client sends. *)
THEOREM PrepaidTheorem == SessionSpec => [](TypeOK /\ Prepaid)
<1>1. IInv => TypeOK /\ Prepaid
  BY DEF IInv
<1> QED BY Invariance, <1>1, PTL

(* What Authorize has accepted is always signed for: the transaction that    *)
(* pays cumPaid carries the client's signature, and it pays out the funding  *)
(* value exactly unless cumPaid and the miner's fee wrap, for every fee.     *)
THEOREM SettleableTheorem == SessionSpec => []Settleable
BY Invariance, IInvSettleable, PTL

-----------------------------------------------------------------------------
(* There is a deadline to be kept, or no refund to race.                     *)
Guarded == ch.cfg.refundLock # 0 => ch.cfg.settleBefore # 0

(* Nobody having been late: while there is something to collect, or could    *)
(* yet be, time has not passed the deadline; what was refunded had sold      *)
(* nothing and never will.                                                   *)
Timely ==
  ~late /\ Guarded =>
    /\ ch.cfg.refundLock # 0 /\ funding = "locked" /\ (~ch.closed \/ ch.best # NoCommitment)
         => now <= ch.cfg.settleBefore
    /\ funding = "refunded" => ch.closed /\ ch.best = NoCommitment

(* Every step keeps it.                                                      *)
LEMMA StepTimely ==
  ASSUME IInv, Timely, [SessionNext]_sessionVars
  PROVE  Timely'
<1>0. /\ ch.cfg.refundLock \in Nat /\ ch.cfg.settleBefore \in Nat /\ now \in Nat
      /\ Guarded => (ch.cfg.refundLock # 0 =>
           ch.cfg.settleBefore # 0 /\ ch.cfg.settleBefore < ch.cfg.refundLock)
  BY ConfigFacts DEF IInv, TypeOK, Guarded
<1>r. ch = [cfg |-> ch.cfg, accesses |-> ch.accesses, cumPaid |-> ch.cumPaid,
            best |-> ch.best, closed |-> ch.closed]
  BY DEF IInv, TypeOK
<1>1. ASSUME NEW c \in Sent, NEW q \in QueryType, Authorize(c, q),
             Verdict(ch, c, q) = "ok"
      PROVE  Timely'
  <2>1. ch' = Accepted(ch, c) /\ UNCHANGED <<now, funding, late>> /\ ~ch.closed
    BY <1>1, AcceptFacts DEF Authorize
  <2>2. ch'.cfg = ch.cfg /\ ch'.closed = ch.closed
    BY <1>r, <2>1 DEF Accepted
  <2> QED BY <2>1, <2>2 DEF Timely, Guarded
<1>2. ASSUME NEW c \in Sent, NEW q \in QueryType, Authorize(c, q),
             Verdict(ch, c, q) # "ok"
      PROVE  Timely'
  BY <1>2 DEF Authorize, Timely, Guarded
<1>3. CASE Settle
  <2>1. ch' = Closed(ch) /\ UNCHANGED <<now, funding, late>>
    BY <1>3 DEF Settle
  <2>2. ch'.cfg = ch.cfg /\ ch'.closed = TRUE /\ ch'.best = ch.best
    BY <1>r, <2>1 DEF Closed
  <2> QED BY <2>1, <2>2 DEF Timely, Guarded
<1>4. CASE Broadcast
  BY <1>4 DEF Broadcast, Timely, Guarded
<1>5. CASE Refund
  <2>1. ch' = ch /\ late' = late /\ funding' = "refunded" /\ funding = "locked"
    BY <1>5 DEF Refund
  <2>2. ASSUME ~late, Guarded PROVE ch.closed /\ ch.best = NoCommitment
    <3>1. ~(now <= ch.cfg.settleBefore) /\ ch.cfg.refundLock # 0
      BY <1>0, <1>5, <2>2 DEF Refund
    <3> QED BY <2>1, <2>2, <3>1 DEF Timely
  <2> QED BY <2>1, <2>2 DEF Timely, Guarded
<1>6. CASE Tick
  <2>1. now' = now + 1 /\ UNCHANGED <<ch, funding>> /\ (~late' => ~late /\ ~SettlementDue)
    BY <1>6 DEF Tick
  <2>2. ASSUME Guarded, ~SettlementDue, ch.cfg.refundLock # 0, funding = "locked",
               ~ch.closed \/ ch.best # NoCommitment
        PROVE  now + 1 <= ch.cfg.settleBefore
    <3>1. ~ch.closed
      BY <2>2 DEF SettlementDue
    <3>2. ~(ch.cfg.settleBefore > 0 /\ now >= ch.cfg.settleBefore)
      BY <2>2, <3>1 DEF SettlementDue, ShouldSettle
    <3> QED BY <1>0, <2>2, <3>2
  <2> QED BY <2>1, <2>2 DEF Timely, Guarded
<1>7. CASE UNCHANGED sessionVars
  BY <1>7 DEF sessionVars, Timely, Guarded
<1> QED BY <1>1, <1>2, <1>3, <1>4, <1>5, <1>6, <1>7 DEF SessionNext

(* Open's check is enough, for every configuration it lets through with a    *)
(* deadline: an operator who is never late collects every access served, and *)
(* the refund can only take back a deposit nothing was sold against.         *)
THEOREM DeadlineTheorem == SessionSpec => []DeadlineSuffices
<1>1. SessionInit => Timely
  <2> SUFFICES ASSUME SessionInit PROVE Timely
    OBVIOUS
  <2>1. IInv /\ now = 0 /\ funding = "locked"
    BY InitIInv DEF SessionInit
  <2>2. ch.cfg.settleBefore \in Nat
    BY <2>1, ConfigFacts DEF IInv
  <2> QED BY <2>1, <2>2 DEF Timely
<1>2. IInv /\ Timely /\ [SessionNext]_sessionVars => Timely'
  BY StepTimely
<1>3. IInv /\ Timely => DeadlineSuffices
  BY DEF IInv, Backed, Timely, Guarded, Collected, DeadlineSuffices
<1> QED BY Invariance, <1>1, <1>2, <1>3, PTL DEF SessionSpec

-----------------------------------------------------------------------------
(* What has been charged on a flat-priced channel, to the unit.              *)
ChargedInv ==
  LET p == ch.cfg.pricing IN
    p.flat =>
      /\ p.feeMode = "upfront" =>
           owed = ch.accesses * p.flatPrice + (IF ch.accesses = 0 THEN 0 ELSE p.settleFee)
      /\ p.feeMode = "amortized" =>
           owed = ch.accesses * (p.flatPrice + CeilDiv(p.settleFee, ch.cfg.n))

(* One more of the same; at least as many of the same.                       *)
LEMMA TimesFacts ==
  /\ \A a, b \in Nat : (a + 1) * b = a * b + b
  /\ \A a, b, c \in Nat : a * (b + c) = a * b + a * c
  /\ \A a, b, c \in Nat : a >= b => a * c >= b * c
  /\ \A a, b \in Nat : a * b \in Nat
<1>1. \A a, b \in Nat : (a + 1) * b = a * b + b
  OBVIOUS
<1>2. \A a, b, c \in Nat : a * (b + c) = a * b + a * c
  OBVIOUS
<1>3. \A a, b, c \in Nat : a >= b => a * c >= b * c
  OBVIOUS
<1>4. \A a, b \in Nat : a * b \in Nat
  OBVIOUS
<1> QED BY <1>1, <1>2, <1>3, <1>4

(* n rounded-up shares of a fee cover it.                                    *)
LEMMA SharesCover ==
  ASSUME NEW a \in Nat, NEW n \in Nat \ {0}, a + n <= Word64
  PROVE  n * CeilDiv(a, n) >= a
<1>1. CeilDiv(a, n) = (a + n - 1) \div n
  BY U64Facts, Word64Assumption DEF CeilDiv, Amount
<1> DEFINE x == a + n - 1
<1>2. x \in Nat
  OBVIOUS
<1> HIDE DEF x
<1>3. x = n * (x \div n) + (x % n) /\ x % n \in 0 .. n - 1 /\ x \div n \in Int
  BY <1>2
<1>4. n * (x \div n) \in Int
  BY <1>3
<1>5. n * (x \div n) >= x - (n - 1)
  BY <1>2, <1>3, <1>4
<1> QED BY <1>1, <1>5 DEF x

(* A channel's prices are naturals, and an amortized fee has accesses to be  *)
(* amortized on.                                                             *)
LEMMA PricingFacts ==
  ASSUME TypeOK
  PROVE  /\ ch.cfg.pricing.flatPrice \in Nat /\ ch.cfg.pricing.settleFee \in Nat /\ ch.cfg.n \in Nat
         /\ CeilDiv(ch.cfg.pricing.settleFee, ch.cfg.n) \in Nat
         /\ ch.cfg.pricing.feeMode = "amortized" => ch.cfg.n # 0
<1>1. PICK cfg \in Configs : Openable(cfg) /\ ch.cfg = Open(cfg).cfg
  BY DEF TypeOK
<1>2. ch.cfg = [cfg EXCEPT !.fundingValue = IF @ = 0 THEN cfg.deposit ELSE @]
  BY <1>1 DEF Open
<1>3. ch.cfg.pricing = cfg.pricing /\ ch.cfg.n = cfg.n
  BY <1>2
<1>4. cfg.n \in Nat /\ cfg.pricing.flatPrice \in Nat /\ cfg.pricing.settleFee \in Nat
  BY ConfigAssumption, Word64Assumption DEF InRange, Pricing, Amount
<1>5. cfg.pricing.feeMode = "amortized" => cfg.n # 0
  BY <1>1 DEF Openable
<1>6. CeilDiv(cfg.pricing.settleFee, cfg.n) \in Nat
  BY <1>4, CeilDivType
<1> QED BY <1>3, <1>4, <1>5, <1>6

(* Every step keeps the account of what was charged.                         *)
LEMMA StepCharged == IInv /\ ChargedInv /\ [SessionNext]_sessionVars => ChargedInv'
<1> SUFFICES ASSUME IInv, ChargedInv, [SessionNext]_sessionVars PROVE ChargedInv'
  OBVIOUS
<1>0. /\ ch = [cfg |-> ch.cfg, accesses |-> ch.accesses, cumPaid |-> ch.cumPaid,
               best |-> ch.best, closed |-> ch.closed]
      /\ ch.accesses \in Nat /\ owed \in Nat
  BY DEF IInv, TypeOK
<1>1. ASSUME ch'.cfg = ch.cfg, ch'.accesses = ch.accesses, UNCHANGED owed
      PROVE  ChargedInv'
  BY <1>1 DEF ChargedInv
<1>2. ASSUME NEW c \in Sent, NEW q \in QueryType, Authorize(c, q)
      PROVE  ChargedInv'
  <2>1. CASE Verdict(ch, c, q) # "ok"
    BY <1>1, <1>2, <2>1 DEF Authorize
  <2>2. CASE Verdict(ch, c, q) = "ok"
    <3> DEFINE p == ch.cfg.pricing
               n == ch.accesses
               price == p.flatPrice
               fee == p.settleFee
               share == CeilDiv(p.settleFee, ch.cfg.n)
    <3>1. ch'.cfg = ch.cfg /\ ch'.accesses = n + 1 /\ owed' = owed + Price(q)
      BY <1>0, <1>2, <2>2 DEF Authorize, Accepted
    <3>2. price \in Nat /\ fee \in Nat /\ share \in Nat /\ n \in Nat
      BY <1>0, PricingFacts DEF IInv
    <3>3. ASSUME p.flat, p.feeMode = "upfront"
          PROVE  owed' = (n + 1) * price + fee
      <4>1. Price(q) = price + (IF n + 1 = 1 THEN fee ELSE 0)
        BY <3>3 DEF Price, Service, FeeComponent
      <4>2. owed = n * price + (IF n = 0 THEN 0 ELSE fee)
        BY <3>3 DEF ChargedInv
      <4>3. n * price \in Nat /\ (n + 1) * price = n * price + price
        BY <3>2, TimesFacts
      <4> HIDE DEF n, price, fee
      <4>4. CASE n = 0
        BY <3>1, <3>2, <4>1, <4>2, <4>3, <4>4
      <4>5. CASE n # 0
        BY <3>1, <3>2, <4>1, <4>2, <4>3, <4>5
      <4> QED BY <4>4, <4>5
    <3>4. ASSUME p.flat, p.feeMode = "amortized"
          PROVE  owed' = (n + 1) * (price + share)
      <4>1. Price(q) = price + share
        BY <3>4 DEF Price, Service, FeeComponent
      <4>2. owed = n * (price + share)
        BY <3>4 DEF ChargedInv
      <4>3. (n + 1) * (price + share) = n * (price + share) + (price + share)
        BY <3>2, TimesFacts
      <4> HIDE DEF n, price, share
      <4> QED BY <3>1, <3>2, <4>1, <4>2, <4>3
    <3>5. n + 1 # 0
      BY <3>2
    <3> QED BY <3>1, <3>3, <3>4, <3>5 DEF ChargedInv
  <2> QED BY <2>1, <2>2
<1>3. CASE Settle
  <2>1. ch'.cfg = ch.cfg /\ ch'.accesses = ch.accesses
    BY <1>0, <1>3 DEF Settle, Closed
  <2> QED BY <1>1, <1>3, <2>1 DEF Settle
<1>4. CASE UNCHANGED <<ch, owed>>
  BY <1>1, <1>4
<1> QED BY <1>2, <1>3, <1>4 DEF SessionNext, Broadcast, Refund, Tick, sessionVars

(* What was charged in full includes the whole fee, and was paid.            *)
LEMMA ChargedCollected == IInv /\ ChargedInv => FeeCollected
<1> DEFINE p == ch.cfg.pricing
           n == ch.accesses
           price == p.flatPrice
           fee == p.settleFee
           share == CeilDiv(p.settleFee, ch.cfg.n)
<1> SUFFICES ASSUME PricesFit(ch.cfg), IInv, ChargedInv, p.flat,
                    \/ p.feeMode = "upfront" /\ n > 0
                    \/ p.feeMode = "amortized" /\ n >= ch.cfg.n
             PROVE  /\ Settlement(ch).miningFee = fee
                    /\ n * price <= Settlement(ch).netServer
  BY DEF FeeCollected
<1>1. /\ price \in Nat /\ fee \in Nat /\ share \in Nat /\ n \in Nat /\ ch.cfg.n \in Nat
      /\ owed \in Nat /\ ch.cumPaid \in Nat /\ owed <= ch.cumPaid
  BY PricingFacts, Word64Assumption DEF IInv, TypeOK, Prepaid, Amount
<1>2. n * price \in Nat
  BY <1>1, TimesFacts
<1>3. owed >= n * price + fee
  <2>1. CASE p.feeMode = "upfront" /\ n > 0
    <3>1. owed = n * price + fee
      BY <1>1, <2>1 DEF ChargedInv
    <3> HIDE DEF n, price, fee
    <3> QED BY <1>1, <1>2, <3>1
  <2>2. CASE p.feeMode = "amortized" /\ n >= ch.cfg.n
    <3>1. owed = n * (price + share)
      BY <2>2 DEF ChargedInv
    <3>2. ch.cfg.n # 0 /\ fee + ch.cfg.n <= Word64
      BY <2>2, PricingFacts DEF IInv, PricesFit
    <3>3. ch.cfg.n * share >= fee
      BY <1>1, <3>2, SharesCover
    <3>4. n * share >= ch.cfg.n * share /\ n * (price + share) = n * price + n * share
      BY <1>1, <2>2, TimesFacts
    <3>5. n * share \in Nat /\ ch.cfg.n * share \in Nat
      BY <1>1, TimesFacts
    <3> DEFINE m == ch.cfg.n * share
               k == n * share
               s == n * price
    <3>6. m \in Nat /\ k \in Nat /\ s \in Nat /\ m >= fee /\ k >= m /\ owed = s + k
      BY <1>2, <3>1, <3>3, <3>4, <3>5
    <3>7. SUFFICES owed >= s + fee
      OBVIOUS
    <3> HIDE DEF m, k, s, fee
    <3> QED BY <1>1, <3>6
  <2> QED BY <2>1, <2>2
<1>4. ~(fee > ch.cumPaid) /\ n * price <= ch.cumPaid - fee
  <2> DEFINE s == n * price
  <2>1. s \in Nat /\ owed >= s + fee
    BY <1>2, <1>3
  <2>2. SUFFICES ~(fee > ch.cumPaid) /\ s <= ch.cumPaid - fee
    OBVIOUS
  <2> HIDE DEF s, fee
  <2> QED BY <1>1, <2>1
<1>5. Settlement(ch).miningFee = fee /\ Settlement(ch).netServer = ch.cumPaid - fee
  BY <1>4 DEF Settlement
<1> QED BY <1>4, <1>5

(* Once the settlement fee has been charged in full, what Settle reports     *)
(* leaves the server the price of every access after the whole fee is paid,  *)
(* for every price, fee and n that do not wrap: rounding each share up never *)
(* loses the fee.                                                            *)
THEOREM FeeTheorem == SessionSpec => []FeeCollected
<1>1. SessionInit => ChargedInv
  <2> SUFFICES ASSUME SessionInit PROVE ChargedInv
    OBVIOUS
  <2>1. TypeOK /\ owed = 0
    BY InitIInv DEF IInv, SessionInit
  <2>2. ch.accesses = 0
    BY DEF SessionInit, Open
  <2>3. /\ ch.cfg.pricing.flatPrice \in Nat
        /\ CeilDiv(ch.cfg.pricing.settleFee, ch.cfg.n) \in Nat
    BY <2>1, PricingFacts
  <2>4. \A x \in Nat : 0 * x = 0
    OBVIOUS
  <2> QED BY <2>1, <2>2, <2>3, <2>4 DEF ChargedInv
<1>2. IInv /\ ChargedInv => FeeCollected
  BY ChargedCollected
<1> QED BY Invariance, <1>1, <1>2, StepCharged, PTL DEF SessionSpec
=============================================================================
