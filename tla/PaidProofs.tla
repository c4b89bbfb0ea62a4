----------------------------- MODULE PaidProofs -----------------------------
(***************************************************************************)
(* Proofs about PaidServer, for every set of ids, every policy and any     *)
(* number of concurrent handlers.                                          *)
(***************************************************************************)
EXTENDS PaidServer, FiniteSetTheorems, TLAPS

(* A channel object, a paid query under way, an OpenChannel past its check.  *)
Object ==
  [cfg : {Open(ConfigOf[id]).cfg : id \in Ids}, accesses : Nat, cumPaid : Amount,
   best : {NoCommitment} \cup Commitment, closed : BOOLEAN]
Call ==
  [pc : {"sent", "held", "paid", "refused"}, id : Ids, q : QueryType, obj : Nat,
   c : Commitment, quotedOn : Nat, quotedAt : Nat]
Opening == [pc : {"checked"}, id : Ids]

TypeOK ==
  /\ heap \in Seq(Object) /\ served \in Seq(Nat) /\ Len(served) = Len(heap)
  /\ DOMAIN channels \subseteq Ids /\ IsFiniteSet(DOMAIN channels)
  /\ \A id \in DOMAIN channels : channels[id] \in 1 .. Len(heap)
  /\ bad \in [Ids -> Nat] /\ banned \subseteq Ids
  /\ opener \in [Openers -> {IdleCall} \cup Opening]
  /\ req \in [Threads -> {IdleCall} \cup Call]
  /\ \A t \in Threads : req[t].pc # "idle" =>
       /\ req[t].quotedOn \in 1 .. Len(heap)
       /\ req[t].pc # "sent" => req[t].obj \in 1 .. Len(heap)

LEMMA U64Facts ==
  /\ \A x \in Amount : U64(x) = x
  /\ \A x \in Int : U64(x) \in Amount
  BY Word64Assumption, SMT DEF U64, Amount

(* The shape of a commitment.                                                *)
LEMMA CommitmentShape ==
  ASSUME NEW cfg, NEW cum, NEW lowS
  PROVE  Committed(cfg, cum, lowS) =
           [cum |-> cum, sig |-> [key |-> cfg.clientPub, over |-> CommitmentTx(cfg, cum), lowS |-> lowS]]
  BY DEF Committed, SignCommitment, Sign

LEMMA CommitmentFacts ==
  ASSUME NEW c \in Commitment
  PROVE  c.cum \in Amount /\ c # NoCommitment
  <1>1. PICK id \in Ids, cum \in Amount, lowS \in BOOLEAN :
          c = Committed(Open(ConfigOf[id]).cfg, cum, lowS)
    BY DEF Commitment
  <1>2. c.cum = cum
    BY <1>1, CommitmentShape
  <1>3. c # NoCommitment
    BY CommitmentAssumption
  <1> QED
    BY <1>1, <1>2, <1>3

(* The price of an access is a natural, and if prices fit it does not wrap   *)
(* on top of an amount within the deposit: the quote is their sum.           *)
LEMMA QuoteFacts ==
  ASSUME NEW ch \in Object, NEW q \in QueryType
  PROVE  LET serv == Service(ch.cfg.pricing, q)
             fee == FeeComponent(ch, ch.accesses + 1) IN
         /\ ch.cfg.deposit \in Amount /\ serv \in Nat /\ fee \in Nat
         /\ Quote(ch, q) \in Amount
         /\ PricesFit(ch.cfg) /\ ch.cumPaid <= ch.cfg.deposit =>
              Quote(ch, q) = ch.cumPaid + serv + fee
  <1> DEFINE serv == Service(ch.cfg.pricing, q)
             fee == FeeComponent(ch, ch.accesses + 1)
  <1>1. PICK id \in Ids : ch.cfg = Open(ConfigOf[id]).cfg
    BY DEF Object
  <1> DEFINE cfg == ConfigOf[id]
  <1>2. ch.cfg = [cfg EXCEPT !.fundingValue = IF @ = 0 THEN cfg.deposit ELSE @]
    BY <1>1 DEF Open
  <1>3. ch.cfg.deposit = cfg.deposit /\ ch.cfg.pricing = cfg.pricing /\ ch.cfg.n = cfg.n
    BY <1>2
  <1>4. InRange(cfg)
    BY PolicyAssumption
  <1> HIDE DEF cfg
  <1>5. cfg.deposit \in Amount /\ cfg.pricing \in Pricing /\ cfg.n \in Nat
    BY <1>4, Word64Assumption DEF InRange, Amount
  <1>6. cfg.pricing.settleFee \in Nat /\ Service(cfg.pricing, q) \in Nat
    BY <1>5, Word64Assumption DEF Pricing, Amount, Service
  <1>7. CeilDiv(cfg.pricing.settleFee, cfg.n) \in Nat
    <2>1. CASE cfg.n = 0
      BY <2>1 DEF CeilDiv
    <2>2. CASE cfg.n # 0
      <3>1. U64(cfg.pricing.settleFee + cfg.n - 1) \in Nat
        BY <1>5, <1>6, U64Facts, Word64Assumption DEF Amount
      <3>2. \A x \in Nat : x \div cfg.n \in Nat
        BY <1>5, <2>2
      <3> QED
        BY <2>2, <3>1, <3>2 DEF CeilDiv
    <2> QED
      BY <2>1, <2>2
  <1>8. fee \in {0, cfg.pricing.settleFee, CeilDiv(cfg.pricing.settleFee, cfg.n)}
    BY <1>3 DEF FeeComponent
  <1>9. serv \in Nat /\ (PricesFit(ch.cfg) => cfg.deposit + serv + fee < Word64)
    BY <1>3, <1>6, <1>8 DEF PricesFit
  <1>10. Quote(ch, q) = U64(ch.cumPaid + serv + fee)
    BY DEF Quote
  <1>11. ch.cumPaid \in Nat /\ ch.cumPaid \in Amount /\ cfg.deposit \in Nat
    BY <1>5, Word64Assumption DEF Object, Amount
  <1>12. fee \in Nat
    BY <1>6, <1>7, <1>8
  <1> HIDE DEF serv, fee
  <1>13. Quote(ch, q) \in Amount
    BY <1>9, <1>10, <1>11, <1>12, U64Facts
  <1>14. PricesFit(ch.cfg) /\ ch.cumPaid <= cfg.deposit => ch.cumPaid + serv + fee \in Amount
    BY <1>9, <1>11, <1>12, Word64Assumption DEF Amount
  <1>15. PricesFit(ch.cfg) /\ ch.cumPaid <= cfg.deposit => Quote(ch, q) = ch.cumPaid + serv + fee
    BY <1>10, <1>14, U64Facts
  <1> QED
    BY <1>3, <1>5, <1>9, <1>12, <1>13, <1>15 DEF serv, fee

(* Authorize and Settle keep an object an object, and its configuration.     *)
LEMMA ObjectSteps ==
  ASSUME NEW ch \in Object
  PROVE  /\ Closed(ch) \in Object /\ Closed(ch).cfg = ch.cfg
         /\ Closed(ch).accesses = ch.accesses /\ Closed(ch).cumPaid = ch.cumPaid
         /\ \A c \in Commitment :
              /\ Accepted(ch, c) \in Object /\ Accepted(ch, c).cfg = ch.cfg
              /\ Accepted(ch, c).accesses = ch.accesses + 1 /\ Accepted(ch, c).cumPaid = c.cum
  <1>1. Closed(ch) \in Object /\ Closed(ch).cfg = ch.cfg
         /\ Closed(ch).accesses = ch.accesses /\ Closed(ch).cumPaid = ch.cumPaid
    BY DEF Closed, Object
  <1>2. ASSUME NEW c \in Commitment
        PROVE  /\ Accepted(ch, c) \in Object /\ Accepted(ch, c).cfg = ch.cfg
               /\ Accepted(ch, c).accesses = ch.accesses + 1 /\ Accepted(ch, c).cumPaid = c.cum
    <2> DEFINE n == ch.accesses + 1
               a == c.cum
    <2>1. n \in Nat /\ a \in Amount /\ Accepted(ch, c) = [ch EXCEPT !.cumPaid = a, !.accesses = n, !.best = c]
      BY CommitmentFacts DEF Accepted, Object
    <2>2. SUFFICES /\ Accepted(ch, c) \in Object /\ Accepted(ch, c).cfg = ch.cfg
                   /\ Accepted(ch, c).accesses = n /\ Accepted(ch, c).cumPaid = a
      OBVIOUS
    <2> HIDE DEF n, a
    <2> QED
      BY <2>1 DEF Object
  <1> QED
    BY <1>1, <1>2

LEMMA InitType == PaidInit => TypeOK
  BY FS_EmptySet DEF PaidInit, TypeOK, IdleCall

(* An unfinished call, and the threads and openers that are not idle.        *)
LEMMA CallFacts ==
  ASSUME TypeOK
  PROVE  /\ \A t \in Threads : req[t].pc # "idle" => req[t] \in Call
         /\ \A o \in Openers : opener[o].pc # "idle" => opener[o] \in Opening
  BY DEF TypeOK, IdleCall

(* The objects, and the accesses served on each.                             *)
LEMMA HeapFacts ==
  ASSUME TypeOK
  PROVE  /\ heap \in Seq(Object) /\ Len(heap) \in Nat
         /\ served \in Seq(Nat) /\ Len(served) = Len(heap)
  BY DEF TypeOK

(* A handler past lookup holds an object of the heap.                        *)
LEMMA HeldFacts ==
  ASSUME TypeOK, NEW t \in Threads, req[t].pc \in {"held", "paid", "refused"}
  PROVE  /\ req[t] \in Call /\ req[t].quotedOn \in 1 .. Len(heap)
         /\ req[t].obj \in 1 .. Len(heap)
  BY CallFacts DEF TypeOK

(* The call of one handler is replaced.                                      *)
LEMMA OneCall ==
  ASSUME TypeOK, NEW t \in Threads, NEW r, req' = [req EXCEPT ![t] = r]
  PROVE  req'[t] = r /\ \A u \in Threads : u # t => req'[u] = req[u]
  BY DEF TypeOK

LEMMA OpenObject ==
  ASSUME NEW id \in Ids
  PROVE  Open(ConfigOf[id]) \in Object
  BY Word64Assumption DEF Open, Object, Amount

(* What Authorize does to the call.                                          *)
LEMMA AuthorizeCall ==
  ASSUME TypeOK, NEW t \in Threads, AuthorizeHeld(t)
  PROVE  /\ req[t] \in Call /\ req[t].pc = "held"
         /\ \E pc \in {"paid", "refused"} : req' = [req EXCEPT ![t] = [req[t] EXCEPT !.pc = pc]]
  <1>1. req[t] \in Call /\ req[t].pc = "held"
    BY CallFacts DEF AuthorizeHeld
  <1>2. req' = [req EXCEPT ![t] = [req[t] EXCEPT !.pc =
                  IF Verdict(heap[req[t].obj], req[t].c, req[t].q) = "ok" THEN "paid" ELSE "refused"]]
    BY DEF AuthorizeHeld
  <1> QED
    BY <1>1, <1>2

(* What the critical sections do to the objects: they are appended, and one  *)
(* is changed at a time, its configuration never.                            *)
LEMMA HeapStep ==
  ASSUME TypeOK, PaidNext
  PROVE  /\ heap' \in Seq(Object) /\ Len(heap') >= Len(heap)
         /\ \A k \in 1 .. Len(heap) : heap'[k].cfg = heap[k].cfg
         /\ Len(heap') = Len(heap) \/ Len(heap') = Len(heap) + 1
  <1>1. heap \in Seq(Object) /\ Len(heap) \in Nat
    BY HeapFacts
  <1>2. CASE UNCHANGED heap
    BY <1>1, <1>2
  <1>3. ASSUME NEW o \in Openers, OpenInsert(o)
        PROVE  \/ UNCHANGED heap
               \/ \E ch \in Object : heap' = Append(heap, ch)
    <2>1. opener[o].id \in Ids
      BY <1>3, CallFacts DEF OpenInsert, Opening
    <2>2. Open(ConfigOf[opener[o].id]) \in Object
      BY <2>1, OpenObject
    <2> QED
      BY <1>3, <2>2 DEF OpenInsert
  <1>4. ASSUME NEW t \in Threads, AuthorizeHeld(t)
        PROVE  \/ UNCHANGED heap
               \/ \E k \in 1 .. Len(heap), ch \in Object :
                    ch.cfg = heap[k].cfg /\ heap' = [heap EXCEPT ![k] = ch]
    <2>1. req[t] \in Call /\ req[t].obj \in 1 .. Len(heap)
      BY <1>4, HeldFacts DEF AuthorizeHeld
    <2>2. heap[req[t].obj] \in Object /\ req[t].c \in Commitment
      BY <1>1, <2>1 DEF Call
    <2>3. Accepted(heap[req[t].obj], req[t].c) \in Object
          /\ Accepted(heap[req[t].obj], req[t].c).cfg = heap[req[t].obj].cfg
      BY <2>2, ObjectSteps
    <2> QED
      BY <1>4, <2>1, <2>3 DEF AuthorizeHeld
  <1>5. ASSUME NEW k \in DOMAIN heap, SettleObject(k)
        PROVE  \E j \in 1 .. Len(heap), ch \in Object :
                 ch.cfg = heap[j].cfg /\ heap' = [heap EXCEPT ![j] = ch]
    <2>1. k \in 1 .. Len(heap) /\ heap[k] \in Object
      BY <1>1
    <2> QED
      BY <1>5, <2>1, ObjectSteps DEF SettleObject
  <1>6. \/ UNCHANGED heap
        \/ \E ch \in Object : heap' = Append(heap, ch)
        \/ \E k \in 1 .. Len(heap), ch \in Object :
             ch.cfg = heap[k].cfg /\ heap' = [heap EXCEPT ![k] = ch]
    BY <1>3, <1>4, <1>5 DEF PaidNext, OpenCheck, QuoteAndSign, Lookup, RecordBad, Serve, registry
  <1>7. ASSUME NEW ch \in Object, heap' = Append(heap, ch)
        PROVE  /\ heap' \in Seq(Object) /\ Len(heap') = Len(heap) + 1
               /\ \A k \in 1 .. Len(heap) : heap'[k].cfg = heap[k].cfg
    BY <1>1, <1>7
  <1>8. ASSUME NEW k \in 1 .. Len(heap), NEW ch \in Object, ch.cfg = heap[k].cfg,
               heap' = [heap EXCEPT ![k] = ch]
        PROVE  /\ heap' \in Seq(Object) /\ Len(heap') = Len(heap)
               /\ \A j \in 1 .. Len(heap) : heap'[j].cfg = heap[j].cfg
    BY <1>1, <1>8
  <1> QED
    BY <1>1, <1>2, <1>6, <1>7, <1>8

(* A call with the objects it names in the heap.                             *)
Placed(r) ==
  \/ r = IdleCall
  \/ r \in Call /\ r.quotedOn \in 1 .. Len(heap) /\ (r.pc # "sent" => r.obj \in 1 .. Len(heap))

LEMMA TypePlaced == TypeOK => \A t \in Threads : Placed(req[t])
  <1> SUFFICES ASSUME TypeOK, NEW t \in Threads
               PROVE  Placed(req[t])
    OBVIOUS
  <1>1. req[t] \in {IdleCall} \cup Call
    BY DEF TypeOK
  <1>2. CASE req[t] = IdleCall
    BY <1>2 DEF Placed
  <1>3. CASE req[t] \in Call
    <2>1. req[t].pc # "idle"
      BY <1>3 DEF Call
    <2> QED
      BY <1>3, <2>1 DEF TypeOK, Placed
  <1> QED
    BY <1>1, <1>2, <1>3

(* A handler's step changes its own call.                                    *)
LEMMA ReqStep ==
  ASSUME TypeOK, NEW t \in Threads,
         \/ \E id \in Ids, q \in QueryType, lowS \in BOOLEAN : QuoteAndSign(t, id, q, lowS)
         \/ Lookup(t) \/ AuthorizeHeld(t) \/ RecordBad(t) \/ Serve(t)
  PROVE  \E r : Placed(r) /\ req' = [req EXCEPT ![t] = r]
  <1>1. ASSUME NEW id \in Ids, NEW q \in QueryType, NEW lowS \in BOOLEAN, QuoteAndSign(t, id, q, lowS)
        PROVE  \E r : Placed(r) /\ req' = [req EXCEPT ![t] = r]
    <2> DEFINE k == channels[id]
               cum == Quote(heap[k], q)
               c == Committed(heap[k].cfg, cum, lowS)
               r == [pc |-> "sent", id |-> id, q |-> q, obj |-> 0, c |-> c,
                     quotedOn |-> k, quotedAt |-> heap[k].accesses]
    <2>a. id \in DOMAIN channels
      BY <1>1 DEF QuoteAndSign, Registered
    <2>1. k \in 1 .. Len(heap) /\ heap[k] \in Object
      BY <2>a DEF TypeOK
    <2>2. heap[k].accesses \in Nat
      BY <2>1 DEF Object
    <2>b. PICK x \in Ids : heap[k].cfg = Open(ConfigOf[x]).cfg
      BY <2>1 DEF Object
    <2>3. cum \in Amount
      BY <2>1, QuoteFacts
    <2>4. c \in Commitment
      BY <2>b, <2>3 DEF Commitment
    <2>5. req' = [req EXCEPT ![t] = r]
      BY <1>1 DEF QuoteAndSign
    <2> HIDE DEF c
    <2>6. r \in Call /\ r.quotedOn = k /\ r.pc = "sent"
      BY <2>1, <2>2, <2>4 DEF Call
    <2> QED
      BY <2>1, <2>5, <2>6 DEF Placed
  <1>2. ASSUME req[t].pc = "sent", Lookup(t)
        PROVE  \E r : Placed(r) /\ req' = [req EXCEPT ![t] = r]
    <2>1. req[t] \in Call /\ req[t].quotedOn \in 1 .. Len(heap)
      BY <1>2, CallFacts DEF TypeOK
    <2>2. CASE Registered(req[t].id)
      <3> DEFINE k == channels[req[t].id]
                 r == [req[t] EXCEPT !.pc = "held", !.obj = k]
      <3>a. req[t].id \in DOMAIN channels
        BY <2>2 DEF Registered
      <3>1. k \in 1 .. Len(heap)
        BY <3>a DEF TypeOK
      <3>2. req' = [req EXCEPT ![t] = r]
        BY <1>2, <2>2 DEF Lookup
      <3>b. k \in Nat
        BY <3>1
      <3> HIDE DEF k
      <3>3. r \in Call /\ r.quotedOn = req[t].quotedOn /\ r.obj = k
        BY <2>1, <3>b DEF Call
      <3> QED
        BY <2>1, <3>1, <3>2, <3>3 DEF Placed
    <2>3. CASE ~Registered(req[t].id)
      BY <1>2, <2>3 DEF Lookup, Placed
    <2> QED
      BY <2>2, <2>3
  <1>3. ASSUME AuthorizeHeld(t)
        PROVE  \E r : Placed(r) /\ req' = [req EXCEPT ![t] = r]
    <2> DEFINE r(pc) == [req[t] EXCEPT !.pc = pc]
    <2>1. req[t] \in Call /\ req[t].quotedOn \in 1 .. Len(heap) /\ req[t].obj \in 1 .. Len(heap)
      BY <1>3, HeldFacts DEF AuthorizeHeld
    <2>2. \E pc \in {"paid", "refused"} : req' = [req EXCEPT ![t] = r(pc)]
      BY <1>3, AuthorizeCall
    <2>3. \A pc \in {"paid", "refused"} :
            r(pc) \in Call /\ r(pc).quotedOn = req[t].quotedOn /\ r(pc).obj = req[t].obj
      BY <2>1 DEF Call
    <2> HIDE DEF r
    <2> QED
      BY <2>1, <2>2, <2>3 DEF Placed
  <1>4. ASSUME RecordBad(t) \/ Serve(t)
        PROVE  \E r : Placed(r) /\ req' = [req EXCEPT ![t] = r]
    <2>1. req' = [req EXCEPT ![t] = IdleCall]
      BY <1>4 DEF RecordBad, Serve
    <2> QED
      BY <2>1 DEF Placed
  <1> QED
    BY <1>1, <1>2, <1>3, <1>4 DEF Lookup

LEMMA StepType == TypeOK /\ [PaidNext]_paidVars => TypeOK'
  <1> SUFFICES ASSUME TypeOK, PaidNext
               PROVE  TypeOK'
    BY DEF TypeOK, paidVars
  <1>h. /\ heap' \in Seq(Object) /\ Len(heap') >= Len(heap)
        /\ Len(heap) \in Nat /\ Len(heap') \in Nat
    BY HeapStep, HeapFacts
  <1>i. 1 .. Len(heap) \subseteq 1 .. Len(heap')
    BY <1>h
  <1>1. \A t \in Threads : Placed(req[t])
    BY TypePlaced
  <1>2. \A r : Placed(r) => Placed(r)'
    BY <1>i DEF Placed
  <1>3. req' \in [Threads -> {IdleCall} \cup Call] /\ \A t \in Threads : Placed(req'[t])
    <2>1. CASE UNCHANGED req
      BY <1>1, <2>1 DEF TypeOK
    <2>2. ASSUME NEW t \in Threads, NEW r, Placed(r), req' = [req EXCEPT ![t] = r]
          PROVE  req' \in [Threads -> {IdleCall} \cup Call] /\ \A u \in Threads : Placed(req'[u])
      <3>1. r \in {IdleCall} \cup Call
        BY <2>2 DEF Placed
      <3>2. req' \in [Threads -> {IdleCall} \cup Call]
        BY <2>2, <3>1 DEF TypeOK
      <3>3. ASSUME NEW u \in Threads
            PROVE  Placed(req'[u])
        <4>1. req'[u] = IF u = t THEN r ELSE req[u]
          BY <2>2, OneCall
        <4> QED
          BY <1>1, <2>2, <4>1
      <3> QED
        BY <3>2, <3>3
    <2> QED
      BY <2>1, <2>2, ReqStep DEF PaidNext, OpenInsert, OpenCheck, SettleObject
  <1>4. \A t \in Threads : req'[t].pc # "idle" =>
          /\ req'[t].quotedOn \in 1 .. Len(heap')
          /\ req'[t].pc # "sent" => req'[t].obj \in 1 .. Len(heap')
    BY <1>3, <1>i DEF Placed, IdleCall
  <1>5. served' \in Seq(Nat) /\ Len(served') = Len(heap')
    <2>0. heap \in Seq(Object) /\ served \in Seq(Nat) /\ Len(served) = Len(heap)
      BY HeapFacts
    <2>1. ASSUME NEW o \in Openers, OpenInsert(o)
          PROVE  served' \in Seq(Nat) /\ Len(served') = Len(heap')
      BY <2>0, <2>1 DEF OpenInsert
    <2>2. ASSUME NEW t \in Threads, Serve(t)
          PROVE  served' \in Seq(Nat) /\ Len(served') = Len(heap')
      <3>1. req[t].obj \in 1 .. Len(heap)
        BY <2>2, HeldFacts DEF Serve
      <3>2. served[req[t].obj] + 1 \in Nat /\ heap' = heap
        BY <2>0, <2>2, <3>1 DEF Serve, registry
      <3> QED
        BY <2>0, <2>2, <3>1, <3>2 DEF Serve
    <2>3. ASSUME NEW t \in Threads, AuthorizeHeld(t)
          PROVE  Len(heap') = Len(heap) /\ UNCHANGED served
      BY <2>0, <2>3 DEF AuthorizeHeld
    <2>4. ASSUME NEW k \in DOMAIN heap, SettleObject(k)
          PROVE  Len(heap') = Len(heap) /\ UNCHANGED served
      BY <2>0, <2>4 DEF SettleObject
    <2> QED
      BY <2>0, <2>1, <2>2, <2>3, <2>4 DEF PaidNext, OpenCheck, QuoteAndSign, Lookup, RecordBad, registry
  <1>6. /\ DOMAIN channels' \subseteq Ids /\ IsFiniteSet(DOMAIN channels')
        /\ \A id \in DOMAIN channels' : channels'[id] \in 1 .. Len(heap')
    <2>1. CASE UNCHANGED channels
      BY <1>i, <2>1 DEF TypeOK
    <2>2. ASSUME NEW o \in Openers, OpenInsert(o), ~UNCHANGED channels
          PROVE  /\ DOMAIN channels' \subseteq Ids /\ IsFiniteSet(DOMAIN channels')
                 /\ \A id \in DOMAIN channels' : channels'[id] \in 1 .. Len(heap')
      <3> DEFINE id == opener[o].id
      <3>1. id \in Ids
        BY <2>2, CallFacts DEF OpenInsert, Opening
      <3>2. /\ channels' = [x \in DOMAIN channels \cup {id} |-> IF x = id THEN Len(heap) + 1 ELSE channels[x]]
            /\ \E ch : heap' = Append(heap, ch)
        BY <2>2 DEF OpenInsert
      <3>3. Len(heap') = Len(heap) + 1 /\ Len(heap) + 1 \in 1 .. Len(heap')
        BY <1>h, <3>2, HeapFacts
      <3>4. DOMAIN channels' = DOMAIN channels \cup {id}
        BY <3>2
      <3>5. IsFiniteSet(DOMAIN channels')
        <4>1. IsFiniteSet(DOMAIN channels)
          BY DEF TypeOK
        <4> QED
          BY <3>4, <4>1, FS_AddElement
      <3>6. DOMAIN channels \subseteq Ids /\ \A x \in DOMAIN channels : channels[x] \in 1 .. Len(heap)
        BY DEF TypeOK
      <3> QED
        BY <1>i, <3>1, <3>2, <3>3, <3>4, <3>5, <3>6
    <2>3. UNCHANGED channels \/ \E o \in Openers : OpenInsert(o)
      BY ZenonT(60) DEF PaidNext, OpenCheck, QuoteAndSign, Lookup, AuthorizeHeld, RecordBad, Serve, SettleObject, registry
    <2> QED
      BY <2>1, <2>2, <2>3
  <1>7. bad' \in [Ids -> Nat] /\ banned' \subseteq Ids
    <2>0. bad \in [Ids -> Nat] /\ banned \subseteq Ids
      BY DEF TypeOK
    <2>1. ASSUME NEW t \in Threads, RecordBad(t)
          PROVE  bad' \in [Ids -> Nat] /\ banned' \subseteq Ids
      <3>1. req[t].id \in Ids
        BY <2>1, CallFacts DEF RecordBad, Call
      <3>2. PICK n \in Nat : n = bad[req[t].id]
        BY <2>0, <3>1
      <3>3. n + 1 \in Nat
        OBVIOUS
      <3>4. bad' = bad \/ bad' = [bad EXCEPT ![req[t].id] = n + 1]
        BY <2>1, <3>2 DEF RecordBad
      <3>5. banned' = banned \/ banned' = banned \cup {req[t].id}
        BY Zenon, <2>1 DEF RecordBad
      <3> QED
        BY <2>0, <3>1, <3>3, <3>4, <3>5
    <2> QED
      BY <2>0, <2>1 DEF PaidNext, OpenInsert, OpenCheck, QuoteAndSign, Lookup, AuthorizeHeld, Serve, SettleObject, registry
  <1>8. opener' \in [Openers -> {IdleCall} \cup Opening]
    <2>1. ASSUME NEW o \in Openers, NEW id \in Ids, OpenCheck(o, id)
          PROVE  opener' \in [Openers -> {IdleCall} \cup Opening]
      <3>1. [pc |-> "checked", id |-> id] \in Opening
        BY DEF Opening
      <3> QED
        BY <2>1, <3>1 DEF OpenCheck, TypeOK
    <2> QED
      BY <2>1 DEF PaidNext, OpenInsert, QuoteAndSign, Lookup, AuthorizeHeld, RecordBad, Serve, SettleObject, registry, TypeOK
  <1> QED
    BY <1>h, <1>3, <1>4, <1>5, <1>6, <1>7, <1>8 DEF TypeOK

-----------------------------------------------------------------------------
(* Counting handlers.                                                        *)
LEMMA Counting ==
  ASSUME NEW U, IsFiniteSet(U), NEW S \in SUBSET U
  PROVE  /\ Cardinality(S) \in Nat /\ Cardinality(S) <= Cardinality(U) /\ Cardinality(U) \in Nat
         /\ \A T \in SUBSET S : Cardinality(T) <= Cardinality(S)
         /\ \A x \in U \ S : Cardinality(S \cup {x}) = Cardinality(S) + 1
         /\ \A x \in S : Cardinality(S \ {x}) = Cardinality(S) - 1
  <1>1. /\ IsFiniteSet(S) /\ Cardinality(S) \in Nat /\ Cardinality(S) <= Cardinality(U)
        /\ Cardinality(U) \in Nat
    BY FS_Subset, FS_CardinalityType
  <1>2. \A T \in SUBSET S : Cardinality(T) <= Cardinality(S)
    BY <1>1, FS_Subset
  <1>3. \A x \in U \ S : Cardinality(S \cup {x}) = Cardinality(S) + 1
    BY <1>1, FS_AddElement
  <1>4. \A x \in S : Cardinality(S \ {x}) = Cardinality(S) - 1
    BY <1>1, FS_RemoveElement
  <1> QED
    BY <1>1, <1>2, <1>3, <1>4

(* The handlers that hold channel id past lookup, and the OpenChannel calls  *)
(* past their check: each may still take the count one further.              *)
Past(id) == {t \in Threads : req[t].pc \in {"held", "paid", "refused"} /\ req[t].id = id}
Checked == {o \in Openers : opener[o].pc = "checked"}

BudgetInv ==
  MaxBadAttempts > 0 =>
    \A id \in Ids :
      /\ bad[id] + Cardinality(Past(id)) <= MaxBadAttempts - 1 + Cardinality(Threads)
      /\ id \in banned <=> bad[id] >= MaxBadAttempts

CapInv ==
  MaxChannels > 0 =>
    Cardinality(DOMAIN channels) + Cardinality(Checked) <= MaxChannels - 1 + Cardinality(Openers)

LEMMA InitLimits == PaidInit => BudgetInv /\ CapInv
  <1> SUFFICES ASSUME PaidInit
               PROVE  BudgetInv /\ CapInv
    OBVIOUS
  <1>1. DOMAIN channels = {} /\ Checked = {} /\ \A id \in Ids : Past(id) = {} /\ bad[id] = 0
    BY DEF PaidInit, Checked, Past, IdleCall
  <1>2. Cardinality({}) = 0 /\ Cardinality(Threads) \in Nat /\ Cardinality(Openers) \in Nat
    BY FS_EmptySet, FS_CardinalityType, PolicyAssumption
  <1>3. MaxBadAttempts \in Nat /\ MaxChannels \in Nat /\ banned = {}
    BY PolicyAssumption DEF PaidInit
  <1>4. Cardinality(DOMAIN channels) = 0 /\ Cardinality(Checked) = 0
        /\ \A id \in Ids : Cardinality(Past(id)) = 0 /\ bad[id] = 0
    BY <1>1, <1>2
  <1>5. BudgetInv
    BY <1>2, <1>3, <1>4 DEF BudgetInv
  <1>6. CapInv
    BY <1>2, <1>3, <1>4 DEF CapInv
  <1> QED
    BY <1>5, <1>6

(* A failed attempt is counted after its handler held the channel; a handler *)
(* that begins to hold it found it below the budget.                         *)
LEMMA StepBudget == TypeOK /\ BudgetInv /\ [PaidNext]_paidVars => BudgetInv'
  <1> SUFFICES ASSUME TypeOK, BudgetInv, [PaidNext]_paidVars, MaxBadAttempts > 0, NEW id \in Ids
               PROVE  /\ bad'[id] + Cardinality(Past(id)') <= MaxBadAttempts - 1 + Cardinality(Threads)
                      /\ id \in banned' <=> bad'[id] >= MaxBadAttempts
    BY DEF BudgetInv
  <1> DEFINE P == Past(id)
             Q == Past(id)'
             N == Cardinality(Threads)
  <1>1. P \in SUBSET Threads /\ Q \in SUBSET Threads /\ MaxBadAttempts \in Nat /\ bad[id] \in Nat
    BY PolicyAssumption DEF Past, TypeOK
  <1>2. /\ bad[id] + Cardinality(P) <= MaxBadAttempts - 1 + N
        /\ id \in banned <=> bad[id] >= MaxBadAttempts
    BY DEF BudgetInv
  <1>3. Cardinality(P) \in Nat /\ Cardinality(Q) \in Nat /\ N \in Nat /\ Cardinality(Q) <= N
        /\ (\A T \in SUBSET P : Cardinality(T) <= Cardinality(P))
        /\ (\A x \in P : Cardinality(P \ {x}) = Cardinality(P) - 1)
        /\ \A x \in P : \A T \in SUBSET (P \ {x}) : Cardinality(T) <= Cardinality(P \ {x})
    <2>1. IsFiniteSet(Threads)
      BY PolicyAssumption
    <2>2. \A x \in P : P \ {x} \in SUBSET Threads
      BY <1>1
    <2> HIDE DEF P, Q, N
    <2>3. Cardinality(P) \in Nat /\ Cardinality(Threads) \in Nat
          /\ (\A T \in SUBSET P : Cardinality(T) <= Cardinality(P))
          /\ (\A x \in P : Cardinality(P \ {x}) = Cardinality(P) - 1)
      BY <1>1, <2>1, Counting
    <2>4. Cardinality(Q) \in Nat /\ Cardinality(Q) <= Cardinality(Threads)
      BY <1>1, <2>1, Counting
    <2>5. \A x \in P : \A T \in SUBSET (P \ {x}) : Cardinality(T) <= Cardinality(P \ {x})
      BY <2>1, <2>2, Counting
    <2> QED
      BY <2>3, <2>4, <2>5 DEF N
  <1>4. ASSUME Q \subseteq P, UNCHANGED <<bad, banned>>
        PROVE  /\ bad'[id] + Cardinality(Q) <= MaxBadAttempts - 1 + N
               /\ id \in banned' <=> bad'[id] >= MaxBadAttempts
    <2> HIDE DEF P, Q, N
    <2> QED
      BY <1>1, <1>2, <1>3, <1>4
  <1>5. ASSUME UNCHANGED <<bad, banned>>, bad[id] < MaxBadAttempts
        PROVE  /\ bad'[id] + Cardinality(Q) <= MaxBadAttempts - 1 + N
               /\ id \in banned' <=> bad'[id] >= MaxBadAttempts
    <2> HIDE DEF P, Q, N
    <2> QED
      BY <1>1, <1>2, <1>3, <1>5
  <1>6. ASSUME NEW t \in Threads, RecordBad(t)
        PROVE  /\ bad'[id] + Cardinality(Q) <= MaxBadAttempts - 1 + N
               /\ id \in banned' <=> bad'[id] >= MaxBadAttempts
    <2>1. /\ req[t].pc = "refused" /\ req[t].id \in Ids
          /\ bad' = [bad EXCEPT ![req[t].id] = bad[req[t].id] + 1]
          /\ banned' = IF bad[req[t].id] + 1 >= MaxBadAttempts THEN banned \cup {req[t].id} ELSE banned
          /\ req' = [req EXCEPT ![t] = IdleCall]
      BY <1>1, <1>6, CallFacts DEF RecordBad, Call
    <2>2. CASE req[t].id = id
      <3>1. t \in P /\ Q \in SUBSET (P \ {t})
        BY <2>1, <2>2 DEF Past, TypeOK, IdleCall
      <3>2. bad'[id] = bad[id] + 1
        BY <2>1, <2>2 DEF TypeOK
      <3>3. id \in banned' <=> bad[id] + 1 >= MaxBadAttempts
        <4>1. bad[id] >= MaxBadAttempts => bad[id] + 1 >= MaxBadAttempts
          BY <1>1
        <4> QED
          BY <1>2, <2>1, <2>2, <4>1
      <3> HIDE DEF P, Q, N
      <3>4. Cardinality(Q) <= Cardinality(P) - 1
        BY <1>3, <3>1
      <3>5. bad[id] + 1 + Cardinality(Q) <= MaxBadAttempts - 1 + N
        BY <1>1, <1>2, <1>3, <3>4
      <3> QED
        BY <3>2, <3>3, <3>5
    <2>3. CASE req[t].id # id
      <3>1. Q \subseteq P
        BY <2>1, <2>3 DEF Past, TypeOK, IdleCall
      <3>2. bad'[id] = bad[id] /\ (id \in banned' <=> id \in banned)
        BY <2>1, <2>3 DEF TypeOK
      <3> HIDE DEF P, Q, N
      <3> QED
        BY <1>1, <1>2, <1>3, <3>1, <3>2
    <2> QED
      BY <2>2, <2>3
  <1>7. ASSUME NEW t \in Threads, Lookup(t)
        PROVE  UNCHANGED <<bad, banned>> /\ (Q \subseteq P \/ bad[id] < MaxBadAttempts)
    <2>1. CASE Registered(req[t].id) /\ req[t].id = id
      <3>1. id \notin banned
        BY <2>1 DEF Registered
      <3> QED
        BY <1>1, <1>2, <1>7, <3>1 DEF Lookup, registry
    <2>2. CASE Registered(req[t].id) /\ req[t].id # id
      <3>1. req' = [req EXCEPT ![t] = [req[t] EXCEPT !.pc = "held", !.obj = channels[req[t].id]]]
        BY <1>7, <2>2 DEF Lookup
      <3>2. req[t] \in Call
        BY <1>7, CallFacts DEF Lookup
      <3>3. [req[t] EXCEPT !.pc = "held", !.obj = channels[req[t].id]].id = req[t].id
        BY <3>2 DEF Call
      <3>4. Q \subseteq P
        BY <2>2, <3>1, <3>3 DEF Past, TypeOK
      <3> QED
        BY <1>7, <3>4 DEF Lookup, registry
    <2>3. CASE ~Registered(req[t].id)
      <3>1. Q \subseteq P
        BY <1>7, <2>3 DEF Lookup, Past, TypeOK, IdleCall
      <3> QED
        BY <1>7, <3>1 DEF Lookup, registry
    <2> QED
      BY <2>1, <2>2, <2>3
  <1>8. ASSUME NEW t \in Threads, AuthorizeHeld(t)
        PROVE  Q \subseteq P /\ UNCHANGED <<bad, banned>>
    <2>1. req[t] \in Call /\ req[t].pc = "held"
      BY <1>8, AuthorizeCall
    <2>2. PICK pc \in {"paid", "refused"} : req' = [req EXCEPT ![t] = [req[t] EXCEPT !.pc = pc]]
      BY <1>8, AuthorizeCall
    <2>3. [req[t] EXCEPT !.pc = pc].id = req[t].id
      BY <2>1 DEF Call
    <2>4. \A u \in Threads : u # t => req'[u] = req[u]
      BY <2>2, OneCall
    <2>5. req'[t].id = req[t].id
      BY <2>2, <2>3, OneCall
    <2> QED
      BY <1>8, <2>1, <2>4, <2>5 DEF Past, AuthorizeHeld
  <1>9. ASSUME NEW t \in Threads,
               Serve(t) \/ \E i \in Ids, q \in QueryType, lowS \in BOOLEAN : QuoteAndSign(t, i, q, lowS)
        PROVE  Q \subseteq P /\ UNCHANGED <<bad, banned>>
    <2>1. UNCHANGED <<bad, banned>> /\ \A u \in Threads : u # t => req'[u] = req[u]
      BY <1>9 DEF Serve, QuoteAndSign, registry, TypeOK
    <2>2. req'[t].pc \notin {"held", "paid", "refused"}
      BY <1>9 DEF Serve, QuoteAndSign, TypeOK, IdleCall
    <2> QED
      BY <2>1, <2>2 DEF Past
  <1>10. ASSUME UNCHANGED <<req, bad, banned>>
         PROVE  Q \subseteq P
    BY <1>10 DEF Past
  <1> HIDE DEF P, Q, N
  <1>11. SUFFICES /\ bad'[id] + Cardinality(Q) <= MaxBadAttempts - 1 + N
                  /\ id \in banned' <=> bad'[id] >= MaxBadAttempts
    BY DEF Q, N
  <1> QED
    BY <1>4, <1>5, <1>6, <1>7, <1>8, <1>9, <1>10 DEF PaidNext, OpenInsert, OpenCheck, SettleObject, paidVars

(* A call past its check may still insert; a call that passes the check      *)
(* found the registry below its cap.                                         *)
LEMMA StepCap == TypeOK /\ CapInv /\ [PaidNext]_paidVars => CapInv'
  <1> SUFFICES ASSUME TypeOK, CapInv, [PaidNext]_paidVars, MaxChannels > 0
               PROVE  Cardinality(DOMAIN channels') + Cardinality(Checked')
                        <= MaxChannels - 1 + Cardinality(Openers)
    BY DEF CapInv
  <1> DEFINE D == DOMAIN channels
             N == Cardinality(Openers)
  <1>1. /\ Checked \in SUBSET Openers /\ Checked' \in SUBSET Openers /\ MaxChannels \in Nat
        /\ IsFiniteSet(Openers) /\ IsFiniteSet(D) /\ Cardinality(D) \in Nat
    BY PolicyAssumption, FS_CardinalityType DEF Checked, TypeOK
  <1>2. Cardinality(D) + Cardinality(Checked) <= MaxChannels - 1 + N
    BY DEF CapInv
  <1>3. /\ Cardinality(Checked) \in Nat /\ N \in Nat
        /\ \A x \in Checked : Cardinality(Checked \ {x}) = Cardinality(Checked) - 1
    BY <1>1, Counting
  <1>4. Cardinality(Checked') \in Nat /\ Cardinality(Checked') <= N
    BY <1>1, Counting
  <1>5. CASE UNCHANGED <<opener, channels>>
    BY <1>2, <1>5 DEF Checked
  <1>6. ASSUME NEW o \in Openers, NEW id \in Ids, OpenCheck(o, id), opener' # opener
        PROVE  Cardinality(DOMAIN channels') + Cardinality(Checked') <= MaxChannels - 1 + N
    <2>1. ~Full /\ channels' = channels
      BY <1>6 DEF OpenCheck
    <2>2. Cardinality(D) < MaxChannels
      BY <1>1, <2>1 DEF Full
    <2> HIDE DEF D, N
    <2> QED
      BY <1>1, <1>3, <1>4, <2>1, <2>2 DEF D
  <1>7. ASSUME NEW o \in Openers, OpenInsert(o)
        PROVE  Cardinality(DOMAIN channels') + Cardinality(Checked') <= MaxChannels - 1 + N
    <2>1. o \in Checked /\ opener' = [opener EXCEPT ![o] = IdleCall]
      BY <1>7 DEF OpenInsert, Checked
    <2>2. Checked' = Checked \ {o}
      BY <2>1 DEF Checked, TypeOK, IdleCall
    <2>3. DOMAIN channels' = D \/ DOMAIN channels' = D \cup {opener[o].id}
      BY <1>7 DEF OpenInsert
    <2>4. Cardinality(D \cup {opener[o].id}) <= Cardinality(D) + 1
      <3> HIDE DEF D
      <3>1. Cardinality(D \cup {opener[o].id}) =
              IF opener[o].id \in D THEN Cardinality(D) ELSE Cardinality(D) + 1
        BY <1>1, FS_AddElement
      <3> QED
        BY <1>1, <3>1
    <2>5. Cardinality(DOMAIN channels') <= Cardinality(D) + 1 /\ Cardinality(DOMAIN channels') \in Nat
      <3>1. IsFiniteSet(DOMAIN channels')
        <4>1. IsFiniteSet(D \cup {opener[o].id})
          BY <1>1, FS_AddElement
        <4> QED
          BY <1>1, <2>3, <4>1
      <3> QED
        BY <1>1, <2>3, <2>4, <3>1, FS_CardinalityType
    <2>6. Cardinality(Checked') = Cardinality(Checked) - 1
      BY <1>3, <2>1, <2>2
    <2> HIDE DEF D, N
    <2> QED
      BY <1>1, <1>2, <1>3, <1>4, <2>5, <2>6
  <1> QED
    BY Zenon, <1>5, <1>6, <1>7
    DEF PaidNext, OpenCheck, QuoteAndSign, Lookup, AuthorizeHeld, RecordBad, Serve, SettleObject, registry, paidVars

LEMMA Invariance == PaidSpec => [](TypeOK /\ BudgetInv /\ CapInv)
  BY InitType, InitLimits, StepType, StepBudget, StepCap, PTL DEF PaidSpec

(* For every policy and any number of handlers: the abuse budget of a        *)
(* channel is overrun only by handlers past lookup when the ban fell, and    *)
(* the ban falls when it is used up.                                         *)
THEOREM BudgetTheorem == PaidSpec => []BudgetHeld
  <1>1. TypeOK /\ BudgetInv => BudgetHeld
    <2> SUFFICES ASSUME TypeOK, BudgetInv, MaxBadAttempts > 0, NEW id \in Ids
                 PROVE  /\ bad[id] <= MaxBadAttempts - 1 + Cardinality(Threads)
                        /\ id \in banned <=> bad[id] >= MaxBadAttempts
      BY DEF BudgetHeld
    <2>1. IsFiniteSet(Threads) /\ MaxBadAttempts \in Nat
      BY PolicyAssumption
    <2>2. bad[id] \in Nat /\ Cardinality(Past(id)) \in Nat /\ Cardinality(Threads) \in Nat
      <3>1. Past(id) \in SUBSET Threads /\ bad[id] \in Nat
        BY DEF Past, TypeOK
      <3> QED
        BY <2>1, <3>1, Counting
    <2>3. /\ bad[id] + Cardinality(Past(id)) <= MaxBadAttempts - 1 + Cardinality(Threads)
          /\ id \in banned <=> bad[id] >= MaxBadAttempts
      BY DEF BudgetInv
    <2> QED
      BY <2>1, <2>2, <2>3
  <1> QED
    BY <1>1, Invariance, PTL

(* The cap on channels is not kept, but it is overrun by fewer than the      *)
(* OpenChannel calls that run at once: a call past the check found the       *)
(* registry below its cap.                                                   *)
CapOverrun ==
  MaxChannels > 0 => Cardinality(DOMAIN channels) <= MaxChannels + Cardinality(Openers) - 1

THEOREM CapTheorem == PaidSpec => []CapOverrun
  <1>1. TypeOK /\ CapInv => CapOverrun
    <2> SUFFICES ASSUME TypeOK, CapInv, MaxChannels > 0
                 PROVE  Cardinality(DOMAIN channels) <= MaxChannels + Cardinality(Openers) - 1
      BY DEF CapOverrun
    <2>1. IsFiniteSet(Openers) /\ MaxChannels \in Nat
      BY PolicyAssumption
    <2>2. Cardinality(Checked) \in Nat /\ Cardinality(Openers) \in Nat
      <3>1. Checked \in SUBSET Openers
        BY DEF Checked
      <3> QED
        BY <2>1, <3>1, Counting
    <2>3. Cardinality(DOMAIN channels) \in Nat
      <3>1. IsFiniteSet(DOMAIN channels)
        BY DEF TypeOK
      <3> QED
        BY <3>1, FS_CardinalityType
    <2> QED
      BY <2>1, <2>2, <2>3 DEF CapInv
  <1> QED
    BY <1>1, Invariance, PTL

-----------------------------------------------------------------------------
(* ServedPrepaid, with the handlers about to answer on object k named.       *)
Paying(k) == {t \in Threads : req[t].pc = "paid" /\ req[t].obj = k}
Booked(k) == served[k] + Cardinality(Paying(k)) = heap[k].accesses
Funded(ch) ==
  /\ ch.cfg.pricing.flat /\ PricesFit(ch.cfg) => ch.accesses * ch.cfg.pricing.flatPrice <= ch.cumPaid
  /\ ch.cumPaid <= ch.cfg.deposit

LEMMA PrepaidForm ==
  TypeOK => (ServedPrepaid <=> \A k \in 1 .. Len(heap) : Booked(k) /\ Funded(heap[k]))
  <1> SUFFICES ASSUME TypeOK
               PROVE  ServedPrepaid <=> \A k \in 1 .. Len(heap) : Booked(k) /\ Funded(heap[k])
    OBVIOUS
  <1>1. DOMAIN heap = 1 .. Len(heap)
    BY DEF TypeOK
  <1> QED
    BY <1>1 DEF ServedPrepaid, Booked, Paying, Funded

(* Authorize takes a commitment that covers the price on top of cumPaid.     *)
LEMMA AcceptFunded ==
  ASSUME NEW ch \in Object, Funded(ch), NEW c \in Commitment, NEW q \in QueryType,
         Verdict(ch, c, q) = "ok"
  PROVE  Funded(Accepted(ch, c))
  <1> DEFINE serv == Service(ch.cfg.pricing, q)
             fee == FeeComponent(ch, ch.accesses + 1)
             n == ch.accesses
  <1>1. /\ Accepted(ch, c).cfg = ch.cfg /\ Accepted(ch, c).accesses = n + 1
        /\ Accepted(ch, c).cumPaid = c.cum
    BY ObjectSteps
  <1>2. ~(c.cum < Quote(ch, q)) /\ ~(c.cum > ch.cfg.deposit)
    BY DEF Verdict
  <1>3. c.cum \in Nat /\ ch.cumPaid \in Nat /\ n \in Nat /\ ch.cumPaid <= ch.cfg.deposit
    BY CommitmentFacts, Word64Assumption DEF Object, Amount, Funded
  <1>4. /\ ch.cfg.deposit \in Nat /\ serv \in Nat /\ fee \in Nat
        /\ PricesFit(ch.cfg) => Quote(ch, q) = ch.cumPaid + serv + fee
    <2>1. /\ ch.cfg.deposit \in Amount /\ serv \in Nat /\ fee \in Nat
          /\ PricesFit(ch.cfg) /\ ch.cumPaid <= ch.cfg.deposit => Quote(ch, q) = ch.cumPaid + serv + fee
      BY QuoteFacts
    <2>2. ch.cfg.deposit \in Nat
      BY <2>1, Word64Assumption DEF Amount
    <2> QED
      BY <1>3, <2>1, <2>2
  <1>5. ch.cfg.pricing.flat => serv = ch.cfg.pricing.flatPrice
    BY DEF Service
  <1> HIDE DEF serv, fee, n
  <1>6. (PricesFit(ch.cfg) => c.cum >= ch.cumPaid + serv) /\ c.cum <= ch.cfg.deposit
    BY <1>2, <1>3, <1>4
  <1>7. ASSUME ch.cfg.pricing.flat, PricesFit(ch.cfg)
        PROVE  (n + 1) * serv <= c.cum
    <2>1. n * serv <= ch.cumPaid
      BY <1>5, <1>7 DEF Funded, n
    <2>2. serv \in Nat /\ ch.cumPaid \in Nat /\ c.cum \in Nat /\ n \in Nat
      BY <1>3, <1>4
    <2>3. \A x, y \in Nat : (x + 1) * y = x * y + y /\ x * y \in Nat
      OBVIOUS
    <2>4. PICK m \in Nat : m = n * serv /\ (n + 1) * serv = m + serv
      BY <2>2, <2>3
    <2>5. m <= ch.cumPaid
      BY <2>1, <2>4
    <2> QED
      BY <1>6, <1>7, <2>2, <2>4, <2>5
  <1> QED
    BY <1>1, <1>5, <1>6, <1>7 DEF Funded

LEMMA StepPrepaid == TypeOK /\ ServedPrepaid /\ [PaidNext]_paidVars => ServedPrepaid'
  <1> SUFFICES ASSUME TypeOK, ServedPrepaid, [PaidNext]_paidVars
               PROVE  ServedPrepaid'
    OBVIOUS
  <1>0. TypeOK'
    BY StepType
  <1>1. \A k \in 1 .. Len(heap) : Booked(k) /\ Funded(heap[k])
    BY PrepaidForm
  <1>2. SUFFICES \A k \in 1 .. Len(heap') : Booked(k)' /\ Funded(heap'[k])
    <2>1. (TypeOK => (ServedPrepaid <=> \A k \in 1 .. Len(heap) : Booked(k) /\ Funded(heap[k])))'
      BY PrepaidForm, PTL
    <2>2. (\A k \in 1 .. Len(heap) : Booked(k) /\ Funded(heap[k]))' <=>
            \A k \in 1 .. Len(heap') : Booked(k)' /\ Funded(heap'[k])
      BY DEF Booked, Funded
    <2> QED
      BY <1>0, <2>1, <2>2
  <1>3. /\ heap \in Seq(Object) /\ Len(heap) \in Nat /\ served \in Seq(Nat) /\ Len(served) = Len(heap)
        /\ IsFiniteSet(Threads)
    BY PolicyAssumption, HeapFacts
  <1>4. \A k : Paying(k) \in SUBSET Threads
    BY DEF Paying
  <1>5. ASSUME UNCHANGED <<heap, served>>, \A k : Paying(k)' = Paying(k)
        PROVE  \A k \in 1 .. Len(heap') : Booked(k)' /\ Funded(heap'[k])
    BY <1>1, <1>5 DEF Booked
  <1>6. ASSUME NEW o \in Openers, OpenInsert(o)
        PROVE  \A k \in 1 .. Len(heap') : Booked(k)' /\ Funded(heap'[k])
    <2>1. \A k : Paying(k)' = Paying(k)
      BY <1>6 DEF OpenInsert, Paying
    <2>2. CASE UNCHANGED <<heap, served>>
      BY <1>5, <2>1, <2>2
    <2>3. CASE Openable(ConfigOf[opener[o].id])
      <3> DEFINE ch == Open(ConfigOf[opener[o].id])
      <3>n. PICK n \in Nat : n = Len(heap) + 1
        BY <1>3
      <3>1. heap' = Append(heap, ch) /\ served' = Append(served, 0)
        BY <1>6, <2>3 DEF OpenInsert
      <3>2. ch.accesses = 0 /\ ch.cumPaid = 0
        BY DEF Open
      <3>a. opener[o].id \in Ids
        BY <1>6, CallFacts DEF OpenInsert, Opening
      <3>3. ch \in Object
        BY <3>a, OpenObject
      <3>4. ch.cfg.deposit \in Nat /\ ch.cfg.pricing.flatPrice \in Nat
        <4>1. InRange(ConfigOf[opener[o].id])
          BY <3>a, PolicyAssumption
        <4> DEFINE cfg == ConfigOf[opener[o].id]
        <4>0. ch.cfg = [cfg EXCEPT !.fundingValue =
                          IF cfg.fundingValue = 0 THEN cfg.deposit ELSE cfg.fundingValue]
          BY DEF Open
        <4>a. PICK v : ch.cfg = [cfg EXCEPT !.fundingValue = v]
          BY <4>0
        <4> HIDE DEF ch, cfg
        <4>2. ch.cfg.deposit = cfg.deposit /\ ch.cfg.pricing = cfg.pricing
          BY <4>a
        <4>3. cfg.deposit \in Amount /\ cfg.pricing \in Pricing
          BY <4>1 DEF InRange, cfg
        <4>4. cfg.pricing.flatPrice \in Amount
          BY <4>3 DEF Pricing
        <4> QED
          BY <4>2, <4>3, <4>4, Word64Assumption DEF Amount
      <3> HIDE DEF ch
      <3>5. Funded(ch)
        <4>1. 0 * ch.cfg.pricing.flatPrice = 0
          BY <3>4
        <4> QED
          BY <3>2, <3>4, <4>1 DEF Funded
      <3>6. /\ heap'[n] = ch /\ served'[n] = 0
            /\ \A k \in 1 .. Len(heap) : heap'[k] = heap[k] /\ served'[k] = served[k]
            /\ \A k \in 1 .. Len(heap') : k \in 1 .. Len(heap) \/ k = n
        BY <1>3, <3>1, <3>n
      <3>7. Paying(n) = {}
        <4>1. \A t \in Threads : req[t].pc = "paid" => req[t].obj # n
          BY <1>3, <3>n, HeldFacts
        <4> QED
          BY <4>1 DEF Paying
      <3>8. Booked(n)'
        <4>1. Cardinality(Paying(n)') = 0
          BY <2>1, <3>7, FS_EmptySet
        <4>2. served'[n] + Cardinality(Paying(n)') = heap'[n].accesses
          BY <3>2, <3>6, <4>1
        <4> QED
          BY <4>2 DEF Booked
      <3>9. \A k \in 1 .. Len(heap) : Booked(k)'
        BY <1>1, <2>1, <3>6 DEF Booked
      <3> QED
        BY <1>1, <3>5, <3>6, <3>8, <3>9
    <2> QED
      BY <1>6, <2>2, <2>3 DEF OpenInsert
  <1>7. ASSUME NEW t \in Threads, AuthorizeHeld(t), Verdict(heap[req[t].obj], req[t].c, req[t].q) = "ok"
        PROVE  \A k \in 1 .. Len(heap') : Booked(k)' /\ Funded(heap'[k])
    <2>j. PICK j \in 1 .. Len(heap) : j = req[t].obj
      BY <1>7, HeldFacts DEF AuthorizeHeld
    <2> DEFINE ch == Accepted(heap[j], req[t].c)
    <2>1. req[t] \in Call /\ req[t].pc = "held"
      BY <1>7, AuthorizeCall
    <2>2. heap[j] \in Object /\ req[t].c \in Commitment /\ req[t].q \in QueryType
      BY <1>3, <2>1 DEF Call
    <2>3. heap' = [heap EXCEPT ![j] = ch] /\ UNCHANGED served
          /\ req' = [req EXCEPT ![t] = [req[t] EXCEPT !.pc = "paid"]]
      BY <1>7, <2>j DEF AuthorizeHeld
    <2>4. ch.accesses = heap[j].accesses + 1 /\ Funded(ch)
      BY <1>1, <1>7, <2>2, <2>j, ObjectSteps, AcceptFunded
    <2>a. req'[t] = [req[t] EXCEPT !.pc = "paid"] /\ \A u \in Threads : u # t => req'[u] = req[u]
      BY <2>3, OneCall
    <2>5. req'[t].pc = "paid" /\ req'[t].obj = j /\ \A u \in Threads : u # t => req'[u] = req[u]
      BY <2>1, <2>j, <2>a DEF Call
    <2>6. Paying(j)' = Paying(j) \cup {t} /\ t \notin Paying(j) /\ \A k : k # j => Paying(k)' = Paying(k)
      BY <2>1, <2>5 DEF Paying
    <2> HIDE DEF ch
    <2>7. /\ Len(heap') = Len(heap) /\ heap'[j] = ch
          /\ \A k \in 1 .. Len(heap) : k # j => heap'[k] = heap[k]
      BY <1>3, <2>3
    <2>8. Cardinality(Paying(j) \cup {t}) = Cardinality(Paying(j)) + 1 /\ Cardinality(Paying(j)) \in Nat
      BY <1>3, <1>4, <2>6, Counting
    <2>9. Booked(j)'
      <3>1. Booked(j) /\ served[j] \in Nat
        BY <1>1, <1>3
      <3> QED
        <4>1. served[j] + Cardinality(Paying(j)) = heap[j].accesses
          BY <3>1 DEF Booked
        <4>2. served'[j] = served[j] /\ Cardinality(Paying(j)') = Cardinality(Paying(j)) + 1
          BY <2>3, <2>6, <2>8
        <4>3. heap'[j].accesses = heap[j].accesses + 1
          BY <2>4, <2>7
        <4>4. served'[j] + Cardinality(Paying(j)') = heap'[j].accesses
          BY <2>8, <3>1, <4>1, <4>2, <4>3
        <4> QED
          BY <4>4 DEF Booked
    <2>10. \A k \in 1 .. Len(heap) : k # j => Booked(k)'
      BY <1>1, <2>3, <2>6, <2>7 DEF Booked
    <2> QED
      BY <1>1, <2>4, <2>7, <2>9, <2>10
  <1>8. ASSUME NEW t \in Threads, AuthorizeHeld(t), Verdict(heap[req[t].obj], req[t].c, req[t].q) # "ok"
        PROVE  \A k \in 1 .. Len(heap') : Booked(k)' /\ Funded(heap'[k])
    <2>1. req[t] \in Call /\ req[t].pc = "held"
      BY <1>8, AuthorizeCall
    <2>2. UNCHANGED <<heap, served>> /\ req' = [req EXCEPT ![t] = [req[t] EXCEPT !.pc = "refused"]]
      BY <1>8 DEF AuthorizeHeld
    <2>a. req'[t] = [req[t] EXCEPT !.pc = "refused"] /\ \A u \in Threads : u # t => req'[u] = req[u]
      BY <2>2, OneCall
    <2>3. req'[t].pc = "refused" /\ \A u \in Threads : u # t => req'[u] = req[u]
      BY <2>1, <2>a DEF Call
    <2>4. \A k : Paying(k)' = Paying(k)
      BY <2>1, <2>3 DEF Paying
    <2> QED
      BY <1>5, <2>2, <2>4
  <1>9. ASSUME NEW t \in Threads, Serve(t)
        PROVE  \A k \in 1 .. Len(heap') : Booked(k)' /\ Funded(heap'[k])
    <2>1. PICK j \in 1 .. Len(heap) : j = req[t].obj /\ req[t].pc = "paid"
      BY <1>9, HeldFacts DEF Serve
    <2>2. heap' = heap /\ served' = [served EXCEPT ![j] = served[j] + 1] /\ req' = [req EXCEPT ![t] = IdleCall]
      BY <1>9, <2>1 DEF Serve, registry
    <2>a. req'[t] = IdleCall /\ \A u \in Threads : u # t => req'[u] = req[u]
      BY <2>2, OneCall
    <2>3. req'[t].pc = "idle" /\ \A u \in Threads : u # t => req'[u] = req[u]
      BY <2>a DEF IdleCall
    <2>4. Paying(j)' = Paying(j) \ {t} /\ t \in Paying(j) /\ \A k : k # j => Paying(k)' = Paying(k)
      BY <2>1, <2>3 DEF Paying
    <2>5. Cardinality(Paying(j) \ {t}) = Cardinality(Paying(j)) - 1 /\ Cardinality(Paying(j)) \in Nat
      BY <1>3, <1>4, <2>4, Counting
    <2>6. served'[j] = served[j] + 1 /\ served[j] \in Nat /\ \A k \in 1 .. Len(heap) : k # j => served'[k] = served[k]
      BY <1>3, <2>1, <2>2
    <2>7. Booked(j)'
      <3>1. served[j] + Cardinality(Paying(j)) = heap[j].accesses
        BY <1>1, <2>1 DEF Booked
      <3>2. Cardinality(Paying(j)') = Cardinality(Paying(j)) - 1 /\ heap'[j].accesses = heap[j].accesses
        BY <2>2, <2>4, <2>5
      <3>3. PICK m \in Nat, p \in Nat : m = served[j] /\ p = Cardinality(Paying(j))
        BY <2>5, <2>6
      <3>4. (m + 1) + (p - 1) = m + p
        OBVIOUS
      <3>5. served'[j] + Cardinality(Paying(j)') = heap'[j].accesses
        BY <2>6, <3>1, <3>2, <3>3, <3>4
      <3> QED
        BY <3>5 DEF Booked
    <2>8. \A k \in 1 .. Len(heap) : k # j => Booked(k)'
      BY <1>1, <2>2, <2>4, <2>6 DEF Booked
    <2> QED
      BY <1>1, <2>2, <2>7, <2>8
  <1>10. ASSUME NEW j \in DOMAIN heap, SettleObject(j)
         PROVE  \A k \in 1 .. Len(heap') : Booked(k)' /\ Funded(heap'[k])
    <2>1. j \in 1 .. Len(heap) /\ heap[j] \in Object
      BY <1>3
    <2>2. heap' = [heap EXCEPT ![j] = Closed(heap[j])] /\ UNCHANGED <<req, served>>
      BY <1>10 DEF SettleObject
    <2>3. Len(heap') = Len(heap) /\ \A k \in 1 .. Len(heap) :
            /\ heap'[k].cfg = heap[k].cfg /\ heap'[k].accesses = heap[k].accesses
            /\ heap'[k].cumPaid = heap[k].cumPaid
      BY <1>3, <2>1, <2>2, ObjectSteps
    <2>4. \A k : Paying(k)' = Paying(k)
      BY <2>2 DEF Paying
    <2> QED
      BY <1>1, <2>2, <2>3, <2>4 DEF Booked, Funded
  <1>11. ASSUME NEW t \in Threads,
                \/ \E id \in Ids, q \in QueryType, lowS \in BOOLEAN : QuoteAndSign(t, id, q, lowS)
                \/ Lookup(t) \/ RecordBad(t)
         PROVE  \A k \in 1 .. Len(heap') : Booked(k)' /\ Funded(heap'[k])
    <2>1. UNCHANGED <<heap, served>> /\ req[t].pc # "paid" /\ \A u \in Threads : u # t => req'[u] = req[u]
      BY <1>11 DEF QuoteAndSign, Lookup, RecordBad, registry, TypeOK
    <2>2. req'[t].pc # "paid"
      <3>1. ASSUME NEW id \in Ids, NEW q \in QueryType, NEW lowS \in BOOLEAN, QuoteAndSign(t, id, q, lowS)
            PROVE  req'[t].pc # "paid"
        BY <3>1 DEF QuoteAndSign, TypeOK
      <3>2. ASSUME Lookup(t)
            PROVE  req'[t].pc # "paid"
        <4> DEFINE held == [req[t] EXCEPT !.pc = "held", !.obj = channels[req[t].id]]
        <4>1. req[t] \in Call
          BY <3>2, CallFacts DEF Lookup
        <4>2. PICK r \in {held, IdleCall} : req' = [req EXCEPT ![t] = r]
          BY <3>2 DEF Lookup
        <4>3. held.pc = "held" /\ IdleCall.pc = "idle"
          BY <4>1 DEF Call, IdleCall
        <4> HIDE DEF held
        <4>4. req'[t] = r
          BY <4>2, OneCall
        <4> QED
          BY <4>2, <4>3, <4>4
      <3>3. ASSUME RecordBad(t)
            PROVE  req'[t].pc # "paid"
        <4>1. req'[t] = IdleCall
          BY <3>3, OneCall DEF RecordBad
        <4> QED
          BY <4>1 DEF IdleCall
      <3> QED
        BY <1>11, <3>1, <3>2, <3>3
    <2>3. \A k : Paying(k)' = Paying(k)
      BY <2>1, <2>2 DEF Paying
    <2> QED
      BY <1>5, <2>1, <2>3
  <1>12. ASSUME UNCHANGED <<heap, served, req>>
         PROVE  \A k \in 1 .. Len(heap') : Booked(k)' /\ Funded(heap'[k])
    BY <1>5, <1>12 DEF Paying
  <1>13. ASSUME NEW t \in Threads, AuthorizeHeld(t)
         PROVE  \A k \in 1 .. Len(heap') : Booked(k)' /\ Funded(heap'[k])
    BY <1>7, <1>8, <1>13
  <1>14. ASSUME NEW o \in Openers, NEW id \in Ids, OpenCheck(o, id)
         PROVE  \A k \in 1 .. Len(heap') : Booked(k)' /\ Funded(heap'[k])
    BY <1>12, <1>14 DEF OpenCheck
  <1>15. CASE UNCHANGED paidVars
    BY <1>12, <1>15 DEF paidVars
  <1> QED
    BY <1>6, <1>9, <1>10, <1>11, <1>13, <1>14, <1>15 DEF PaidNext

(* For every set of channels and any number of handlers, whatever order they *)
(* run in: on every object the accesses answered and about to be answered    *)
(* are those booked, and what the client signed covers their prices.         *)
THEOREM ServedTheorem == PaidSpec => []ServedPrepaid
  <1>1. PaidInit => ServedPrepaid
    BY DEF PaidInit, ServedPrepaid
  <1> QED
    BY <1>1, Invariance, StepPrepaid, PTL DEF PaidSpec

-----------------------------------------------------------------------------
(* A commitment under way pays the amount quoted on its channel, is signed   *)
(* by the client over the transaction paying it, and the amount is still the *)
(* price of the next access if no access has been booked since.              *)
Current(r, ch) ==
  /\ r.quotedAt <= ch.accesses
  /\ r.c.sig.key = ch.cfg.clientPub
  /\ r.c.sig.over = CommitmentTx(ch.cfg, r.c.cum)
  /\ PayoutFits(ch.cfg, r.c.cum)
  /\ r.quotedAt = ch.accesses => r.c.cum = Quote(ch, r.q)

QuoteInv ==
  \A t \in Threads : req[t].pc \in {"sent", "held"} => Current(req[t], heap[req[t].quotedOn])

(* Closing a channel leaves its quote alone; booking an access makes the     *)
(* earlier quotes old.                                                       *)
LEMMA CurrentStep ==
  ASSUME TypeOK, PaidNext, NEW k \in 1 .. Len(heap), NEW r \in Call, Current(r, heap[k])
  PROVE  Current(r, heap'[k])
  <1>1. heap \in Seq(Object) /\ heap[k] \in Object /\ heap[k].accesses \in Nat /\ r.quotedAt \in Nat
    <2>1. heap \in Seq(Object)
      BY HeapFacts
    <2>2. heap[k] \in Object
      BY <2>1
    <2> QED
      BY <2>1, <2>2 DEF Object, Call
  <1>2. CASE heap'[k] = heap[k]
    BY <1>2
  <1>3. CASE heap'[k] = Closed(heap[k])
    <2> DEFINE d == Closed(heap[k])
    <2>1. d.cfg = heap[k].cfg /\ d.accesses = heap[k].accesses /\ d.cumPaid = heap[k].cumPaid
      BY <1>1, ObjectSteps
    <2> HIDE DEF d
    <2>2. Quote(d, r.q) = Quote(heap[k], r.q)
      BY <2>1 DEF Quote, FeeComponent
    <2>3. Current(r, d)
      BY <2>1, <2>2 DEF Current
    <2> QED
      BY <1>3, <2>3 DEF d
  <1>4. ASSUME NEW c \in Commitment, heap'[k] = Accepted(heap[k], c)
        PROVE  Current(r, heap'[k])
    <2>a. Accepted(heap[k], c).cfg = heap[k].cfg /\ Accepted(heap[k], c).accesses = heap[k].accesses + 1
      BY <1>1, ObjectSteps
    <2>1. heap'[k].cfg = heap[k].cfg /\ heap'[k].accesses = heap[k].accesses + 1
      BY <1>4, <2>a
    <2>2. r.quotedAt <= heap'[k].accesses /\ r.quotedAt # heap'[k].accesses
      BY <1>1, <2>1 DEF Current
    <2> QED
      BY <2>1, <2>2 DEF Current
  <1>5. ASSUME NEW o \in Openers, OpenInsert(o)
        PROVE  heap'[k] = heap[k]
    BY <1>1, <1>5 DEF OpenInsert
  <1>6. ASSUME NEW t \in Threads, AuthorizeHeld(t)
        PROVE  heap'[k] = heap[k] \/ \E c \in Commitment : heap'[k] = Accepted(heap[k], c)
    <2>1. req[t] \in Call
      BY <1>6, CallFacts DEF AuthorizeHeld
    <2>2. req[t].c \in Commitment
      BY <2>1 DEF Call
    <2> QED
      BY <1>1, <1>6, <2>2 DEF AuthorizeHeld
  <1>7. ASSUME NEW j \in DOMAIN heap, SettleObject(j)
        PROVE  heap'[k] = heap[k] \/ heap'[k] = Closed(heap[k])
    BY <1>1, <1>7 DEF SettleObject
  <1>8. ASSUME heap' = heap
        PROVE  Current(r, heap'[k])
    BY <1>2, <1>8
  <1>9. \/ heap' = heap
        \/ \E o \in Openers : OpenInsert(o)
        \/ \E t \in Threads : AuthorizeHeld(t)
        \/ \E j \in DOMAIN heap : SettleObject(j)
    BY Zenon DEF PaidNext, OpenCheck, QuoteAndSign, Lookup, RecordBad, Serve, registry
  <1> QED
    BY <1>2, <1>3, <1>4, <1>5, <1>6, <1>7, <1>8, <1>9

LEMMA StepQuote == TypeOK /\ QuoteInv /\ [PaidNext]_paidVars => QuoteInv'
  <1>0. CASE UNCHANGED paidVars
    BY <1>0 DEF paidVars, QuoteInv
  <1> SUFFICES ASSUME TypeOK, QuoteInv, PaidNext, NEW t \in Threads, req'[t].pc \in {"sent", "held"}
               PROVE  Current(req'[t], heap'[req'[t].quotedOn])
    BY <1>0 DEF QuoteInv
  <1>1. ASSUME req'[t] = req[t]
        PROVE  Current(req'[t], heap'[req'[t].quotedOn])
    <2>1. req[t] \in Call /\ req[t].quotedOn \in 1 .. Len(heap) /\ Current(req[t], heap[req[t].quotedOn])
      BY <1>1, CallFacts DEF TypeOK, QuoteInv
    <2> QED
      BY <1>1, <2>1, CurrentStep
  <1>2. ASSUME NEW id \in Ids, NEW q \in QueryType, NEW lowS \in BOOLEAN, QuoteAndSign(t, id, q, lowS)
        PROVE  Current(req'[t], heap'[req'[t].quotedOn])
    <2> DEFINE k == channels[id]
               cum == Quote(heap[k], q)
               c == Committed(heap[k].cfg, cum, lowS)
               r == [pc |-> "sent", id |-> id, q |-> q, obj |-> 0, c |-> c,
                     quotedOn |-> k, quotedAt |-> heap[k].accesses]
    <2>a. req' = [req EXCEPT ![t] = r]
      BY <1>2 DEF QuoteAndSign
    <2>b. heap' = heap /\ PayoutFits(heap[k].cfg, cum) /\ id \in DOMAIN channels
      BY <1>2 DEF QuoteAndSign, Registered, registry
    <2> HIDE DEF r
    <2>1. req'[t] = r /\ heap' = heap /\ PayoutFits(heap[k].cfg, cum) /\ id \in DOMAIN channels
      BY <2>a, <2>b, OneCall
    <2>2. c.cum = cum /\ c.sig.key = heap[k].cfg.clientPub /\ c.sig.over = CommitmentTx(heap[k].cfg, cum)
      BY CommitmentShape
    <2>3. heap[k].accesses \in Nat
      <3>1. k \in 1 .. Len(heap)
        BY <2>1 DEF TypeOK
      <3> HIDE DEF k
      <3>2. heap \in Seq(Object)
        BY HeapFacts
      <3>3. heap[k] \in Object
        BY <3>1, <3>2
      <3> QED
        BY <3>3 DEF Object
    <2> HIDE DEF c, cum, k
    <2>4. r.c = c /\ r.q = q /\ r.quotedOn = k /\ r.quotedAt = heap[k].accesses
      BY DEF r
    <2>5. Current(r, heap[k])
      BY <2>1, <2>2, <2>3, <2>4 DEF Current, cum
    <2> QED
      BY <2>1, <2>4, <2>5
  <1>3. ASSUME Lookup(t)
        PROVE  Current(req'[t], heap'[req'[t].quotedOn])
    <2> DEFINE r == [req[t] EXCEPT !.pc = "held", !.obj = channels[req[t].id]]
    <2>1. req[t] \in Call /\ Current(req[t], heap[req[t].quotedOn])
      BY <1>3, CallFacts DEF Lookup, QuoteInv
    <2>2. (\E x \in {r, IdleCall} : req' = [req EXCEPT ![t] = x]) /\ heap' = heap
      BY <1>3 DEF Lookup, registry
    <2>3. req'[t] = r
      <3> HIDE DEF r
      <3>1. req'[t] \in {r, IdleCall}
        BY <2>2, OneCall
      <3>2. IdleCall.pc = "idle"
        BY DEF IdleCall
      <3> QED
        BY <3>1, <3>2
    <2>4. r.c = req[t].c /\ r.q = req[t].q /\ r.quotedOn = req[t].quotedOn /\ r.quotedAt = req[t].quotedAt
      BY <2>1 DEF Call
    <2> HIDE DEF r
    <2> QED
      BY <2>1, <2>2, <2>3, <2>4 DEF Current
  <1>4. ASSUME AuthorizeHeld(t) \/ RecordBad(t) \/ Serve(t)
        PROVE  FALSE
    <2>1. ASSUME AuthorizeHeld(t)
          PROVE  req'[t].pc \in {"paid", "refused"}
      <3>1. req[t] \in Call
        BY <2>1, AuthorizeCall
      <3>2. PICK pc \in {"paid", "refused"} : req' = [req EXCEPT ![t] = [req[t] EXCEPT !.pc = pc]]
        BY <2>1, AuthorizeCall
      <3>3. req'[t] = [req[t] EXCEPT !.pc = pc]
        BY <3>2, OneCall
      <3> QED
        BY <3>1, <3>3 DEF Call
    <2>2. ASSUME RecordBad(t) \/ Serve(t)
          PROVE  req'[t].pc = "idle"
      <3>1. req'[t] = IdleCall
        BY <2>2, OneCall DEF RecordBad, Serve
      <3> QED
        BY <3>1 DEF IdleCall
    <2> QED
      BY <1>4, <2>1, <2>2
  <1>5. ASSUME NEW u \in Threads, u # t,
               \/ \E id \in Ids, q \in QueryType, lowS \in BOOLEAN : QuoteAndSign(u, id, q, lowS)
               \/ Lookup(u) \/ AuthorizeHeld(u) \/ RecordBad(u) \/ Serve(u)
        PROVE  req'[t] = req[t]
    <2>1. PICK r : req' = [req EXCEPT ![u] = r]
      BY <1>5, ReqStep
    <2> QED
      BY <1>5, <2>1, OneCall
  <1> QED
    BY <1>1, <1>2, <1>3, <1>4, <1>5 DEF PaidNext, OpenInsert, OpenCheck, SettleObject

(* However the handlers interleave, a canonical commitment for the quoted    *)
(* amount is refused only if its quote is stale, the channel closed, or the  *)
(* amount more than the deposit.                                             *)
THEOREM QuoteTheorem == PaidSpec => QuoteHonored
  <1>1. PaidInit => QuoteInv
    BY DEF PaidInit, QuoteInv, IdleCall
  <1>2. TypeOK /\ QuoteInv /\ [PaidNext]_paidVars =>
          [\A t \in Threads :
             LET r == req[t] IN
               r.pc = "held" /\ req'[t].pc = "refused" /\ r.c.sig.lowS =>
                 \/ r.obj # r.quotedOn
                 \/ heap[r.obj].accesses # r.quotedAt
                 \/ heap[r.obj].closed
                 \/ r.c.cum > heap[r.obj].cfg.deposit]_paidVars
    <2> SUFFICES ASSUME TypeOK, QuoteInv, PaidNext, NEW t \in Threads,
                        req[t].pc = "held", req'[t].pc = "refused", req[t].c.sig.lowS,
                        req[t].obj = req[t].quotedOn, heap[req[t].obj].accesses = req[t].quotedAt,
                        ~heap[req[t].obj].closed, ~(req[t].c.cum > heap[req[t].obj].cfg.deposit)
                 PROVE  FALSE
      OBVIOUS
    <2> DEFINE ch == heap[req[t].obj]
               c == req[t].c
               q == req[t].q
    <2>1. req[t] \in Call /\ ch \in Object /\ Current(req[t], ch)
      <3>1. Current(req[t], heap[req[t].quotedOn])
        BY DEF QuoteInv
      <3>2. req[t] \in Call /\ req[t].obj \in 1 .. Len(heap)
        BY HeldFacts
      <3>3. heap \in Seq(Object)
        BY HeapFacts
      <3> QED
        BY <3>1, <3>2, <3>3
    <2>2. c \in Commitment
      BY <2>1 DEF Call
    <2>3. c # NoCommitment /\ c.cum \in Nat /\ c.cum = Quote(ch, q)
      <3>1. c # NoCommitment /\ c.cum \in Amount
        BY <2>2, CommitmentFacts
      <3>2. c.cum = Quote(ch, q)
        BY <2>1 DEF Current
      <3> QED
        BY <3>1, <3>2, Word64Assumption DEF Amount
    <2>4. Verify(ch.cfg, c.cum, c.sig)
      BY <2>1 DEF Current, Verify
    <2>5. Verdict(ch, c, q) = "ok"
      <3>1. ~ch.closed /\ ~(c.cum > ch.cfg.deposit)
        OBVIOUS
      <3> HIDE DEF ch, c, q
      <3> QED
        BY <2>3, <2>4, <3>1 DEF Verdict
    <2>6. ~AuthorizeHeld(t)
      <3> SUFFICES ASSUME AuthorizeHeld(t)
                   PROVE  FALSE
        OBVIOUS
      <3>1. req' = [req EXCEPT ![t] = [req[t] EXCEPT !.pc = "paid"]]
        BY <2>5 DEF AuthorizeHeld
      <3>2. req'[t] = [req[t] EXCEPT !.pc = "paid"]
        BY <3>1, OneCall
      <3> QED
        BY <2>1, <3>2 DEF Call
    <2>7. ASSUME NEW u \in Threads, u # t,
                 \/ \E id \in Ids, p \in QueryType, lowS \in BOOLEAN : QuoteAndSign(u, id, p, lowS)
                 \/ Lookup(u) \/ AuthorizeHeld(u) \/ RecordBad(u) \/ Serve(u)
          PROVE  FALSE
      <3>1. PICK r : req' = [req EXCEPT ![u] = r]
        BY <2>7, ReqStep
      <3> QED
        BY <2>7, <3>1, OneCall
    <2>8. ASSUME \/ \E id \in Ids, p \in QueryType, lowS \in BOOLEAN : QuoteAndSign(t, id, p, lowS)
                 \/ Lookup(t) \/ RecordBad(t) \/ Serve(t)
          PROVE  FALSE
      BY <2>8 DEF QuoteAndSign, Lookup, RecordBad, Serve
    <2> QED
      BY <2>6, <2>7, <2>8 DEF PaidNext, OpenInsert, OpenCheck, SettleObject
  <1> QED
    BY <1>1, <1>2, Invariance, StepQuote, PTL DEF PaidSpec, QuoteHonored
=============================================================================
