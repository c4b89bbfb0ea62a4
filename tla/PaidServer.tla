----------------------------- MODULE PaidServer -----------------------------
(***************************************************************************)
(* The registry of payment channels, payment/paid.go and abuse.go, under   *)
(* concurrent HTTP handlers.  OpenChannel checks the cap under the lock,   *)
(* lets it go, and inserts under it again; a request looks its channel up, *)
(* authorizes against the object it got, and only then is counted as bad   *)
(* or answered.  Each step below is one critical section of s.mu or ch.mu. *)
(***************************************************************************)
EXTENDS Channel, Sequences, FiniteSets

CONSTANTS
  Ids,              \* channel ids, derived from the funding outpoint
  ConfigOf,         \* the configuration a client asks for under an id
  Openers,          \* handlers of OpenChannel
  Threads,          \* handlers of paid queries
  MinDeposit, MaxChannels, MaxBadAttempts,    \* Policy; 0 disables
  MaxObjects,       \* bound: OpenChannel is not called with so many opened
  MaxRequests       \* bound on the paid queries sent

ASSUME PolicyAssumption ==
  /\ {MinDeposit, MaxChannels, MaxBadAttempts, MaxObjects, MaxRequests} \subseteq Nat
  /\ IsFiniteSet(Threads) /\ IsFiniteSet(Openers)
  /\ \A id \in Ids : InRange(ConfigOf[id])

(* The commitments of the clients, their signatures canonical or not.        *)
Committed(cfg, cum, lowS) == [SignCommitment(cfg, cum) EXCEPT !.sig.lowS = lowS]
Commitment ==
  {Committed(Open(ConfigOf[id]).cfg, cum, lowS) : id \in Ids, cum \in Amount, lowS \in BOOLEAN}

ASSUME CommitmentAssumption == NoCommitment \notin Commitment

VARIABLES
  heap,             \* the Channel objects ever opened
  channels,         \* id -> position in heap
  bad, banned,      \* id -> invalid attempts; ids cut off
  opener,           \* the OpenChannel call of each handler past the check
  req,              \* what each handler is doing
  served,           \* history: accesses answered, per object
  sent              \* history: paid queries sent

paidVars == <<heap, channels, bad, banned, opener, req, served, sent>>
registry == <<heap, channels, bad, banned, opener>>

IdleCall == [pc |-> "idle"]

PaidInit ==
  /\ heap = <<>>
  /\ channels = [id \in {} |-> 0]
  /\ bad = [id \in Ids |-> 0]
  /\ banned = {}
  /\ opener = [o \in Openers |-> IdleCall]
  /\ req = [t \in Threads |-> IdleCall]
  /\ served = <<>>
  /\ sent = 0

-----------------------------------------------------------------------------
Full == MaxChannels > 0 /\ Cardinality(DOMAIN channels) >= MaxChannels

(* Refused with ErrDepositTooSmall or ErrTooManyChannels, or let through.    *)
OpenCheck(o, id) ==
  /\ opener[o].pc = "idle"
  /\ Len(heap) < MaxObjects
  /\ opener' = IF \/ MinDeposit > 0 /\ ConfigOf[id].deposit < MinDeposit
                  \/ Full
               THEN opener
               ELSE [opener EXCEPT ![o] = [pc |-> "checked", id |-> id]]
  /\ UNCHANGED <<heap, channels, bad, banned, req, served, sent>>

(* channel.Open, then the insertion: an object under the same id is replaced. *)
OpenInsert(o) ==
  LET id == opener[o].id
      ok == Openable(ConfigOf[id]) IN
    /\ opener[o].pc = "checked"
    /\ opener' = [opener EXCEPT ![o] = IdleCall]
    /\ heap' = IF ok THEN Append(heap, Open(ConfigOf[id])) ELSE heap
    /\ served' = IF ok THEN Append(served, 0) ELSE served
    /\ channels' = IF ok THEN [x \in DOMAIN channels \cup {id} |->
                                 IF x = id THEN Len(heap) + 1 ELSE channels[x]]
                   ELSE channels
    /\ UNCHANGED <<bad, banned, req, sent>>

-----------------------------------------------------------------------------
Registered(id) == id \notin banned /\ id \in DOMAIN channels

(* A client asks for a quote and signs it, or sends a commitment that is not *)
(* canonical.  The quote is remembered with the state it was made for.       *)
QuoteAndSign(t, id, q, lowS) ==
  LET k == channels[id]
      cum == Quote(heap[k], q) IN
    /\ req[t].pc = "idle"
    /\ sent < MaxRequests
    /\ Registered(id)
    /\ PayoutFits(heap[k].cfg, cum)
    /\ req' = [req EXCEPT ![t] =
         [pc |-> "sent", id |-> id, q |-> q, obj |-> 0,
          c |-> Committed(heap[k].cfg, cum, lowS),
          quotedOn |-> k, quotedAt |-> heap[k].accesses]]
    /\ sent' = sent + 1
    /\ UNCHANGED <<registry, served>>

Lookup(t) ==
  /\ req[t].pc = "sent"
  /\ req' = [req EXCEPT ![t] = IF Registered(@.id)
                               THEN [@ EXCEPT !.pc = "held", !.obj = channels[req[t].id]]
                               ELSE IdleCall]
  /\ UNCHANGED <<registry, served, sent>>

AuthorizeHeld(t) ==
  LET r == req[t]
      ok == Verdict(heap[r.obj], r.c, r.q) = "ok" IN
    /\ r.pc = "held"
    /\ heap' = IF ok THEN [heap EXCEPT ![r.obj] = Accepted(@, r.c)] ELSE heap
    /\ req' = [req EXCEPT ![t].pc = IF ok THEN "paid" ELSE "refused"]
    /\ UNCHANGED <<channels, bad, banned, opener, served, sent>>

(* Mutant: the ban falls one attempt too late.                               *)
RecordBadLate(t) ==
  LET id == req[t].id IN
    /\ req[t].pc = "refused"
    /\ bad' = IF MaxBadAttempts <= 0 THEN bad ELSE [bad EXCEPT ![id] = @ + 1]
    /\ banned' = IF MaxBadAttempts > 0 /\ bad[id] + 1 > MaxBadAttempts
                 THEN banned \cup {id} ELSE banned
    /\ req' = [req EXCEPT ![t] = IdleCall]
    /\ UNCHANGED <<heap, channels, opener, served, sent>>

RecordBad(t) ==
  LET id == req[t].id IN
    /\ req[t].pc = "refused"
    /\ bad' = IF MaxBadAttempts <= 0 THEN bad ELSE [bad EXCEPT ![id] = @ + 1]
    /\ banned' = IF MaxBadAttempts > 0 /\ bad[id] + 1 >= MaxBadAttempts
                 THEN banned \cup {id} ELSE banned
    /\ req' = [req EXCEPT ![t] = IdleCall]
    /\ UNCHANGED <<heap, channels, opener, served, sent>>

(* The lookup the access paid for; the answer may itself be an error.        *)
Serve(t) ==
  /\ req[t].pc = "paid"
  /\ served' = [served EXCEPT ![req[t].obj] = @ + 1]
  /\ req' = [req EXCEPT ![t] = IdleCall]
  /\ UNCHANGED <<registry, sent>>

(* The operator settles a channel whose count trigger has fired.  Nothing    *)
(* takes it out of the registry.                                             *)
SettleObject(k) ==
  /\ ShouldSettle(heap[k], 0)
  /\ heap' = [heap EXCEPT ![k] = Closed(@)]
  /\ UNCHANGED <<channels, bad, banned, opener, req, served, sent>>

PaidNext ==
  \/ \E o \in Openers : OpenInsert(o) \/ \E id \in Ids : OpenCheck(o, id)
  \/ \E t \in Threads :
       \/ \E id \in Ids, q \in QueryType, lowS \in BOOLEAN : QuoteAndSign(t, id, q, lowS)
       \/ Lookup(t) \/ AuthorizeHeld(t) \/ RecordBad(t) \/ Serve(t)
  \/ \E k \in DOMAIN heap : SettleObject(k)

PaidSpec == PaidInit /\ [][PaidNext]_paidVars

-----------------------------------------------------------------------------
(* ServedPrepaid: "the server can never serve an unpaid access": on every    *)
(* object, including one no longer registered, the accesses answered and     *)
(* about to be answered are those booked, and cumPaid, within the deposit,   *)
(* covers their prices (unless these wrap), however the handlers interleave. *)
ServedPrepaid ==
  \A k \in DOMAIN heap :
    LET paying == {t \in Threads : req[t].pc = "paid" /\ req[t].obj = k}
        ch == heap[k] IN
      /\ served[k] + Cardinality(paying) = ch.accesses
      /\ ch.cfg.pricing.flat /\ PricesFit(ch.cfg) =>
           ch.accesses * ch.cfg.pricing.flatPrice <= ch.cumPaid
      /\ ch.cumPaid <= ch.cfg.deposit

(* BudgetHeld: the abuse budget bounds the failed verifications of a channel *)
(* ("before ban", abuse.go): the count exceeds MaxBadAttempts only by        *)
(* handlers that were past lookup when the ban fell, and an id is banned     *)
(* from the budget on and never before.                                      *)
BudgetHeld ==
  MaxBadAttempts > 0 =>
    \A id \in Ids : /\ bad[id] <= MaxBadAttempts - 1 + Cardinality(Threads)
                    /\ id \in banned <=> bad[id] >= MaxBadAttempts

(* CapHeld: paid.go:61, "MaxChannels caps concurrent channels (defeating     *)
(* open-flood)".  OpenChannel checks the cap and inserts under two separate  *)
(* locks, so two calls that both pass the check both insert.                 *)
CapHeld == MaxChannels > 0 => Cardinality(DOMAIN channels) <= MaxChannels

(* QuoteHonored: a commitment signed for the quoted amount is refused only   *)
(* if the quote is stale: another access was booked, the channel was closed, *)
(* replaced, or cannot hold the amount.                                      *)
QuoteHonored ==
  [][\A t \in Threads :
       LET r == req[t] IN
         r.pc = "held" /\ req'[t].pc = "refused" /\ r.c.sig.lowS =>
           \/ r.obj # r.quotedOn
           \/ heap[r.obj].accesses # r.quotedAt
           \/ heap[r.obj].closed
           \/ r.c.cum > heap[r.obj].cfg.deposit]_paidVars
=============================================================================
