-------------------------------- MODULE Gate --------------------------------
(***************************************************************************)
(* The batching gate of accel/gate.go.  Each request is submitted by a     *)
(* goroutine of its own; a full batch is flushed by the submitter that     *)
(* filled it, an incomplete one by the timer's callback.  The sections     *)
(* under g.mu are one step each; flush runs without the lock, so several   *)
(* batches can be in flight, and a timer can fire just before it is        *)
(* stopped: its callback then finds whatever is pending when it gets the   *)
(* lock.  The backend is the CPU verifier (module CPUVerifier), whose      *)
(* goroutines write their slots in any order.                              *)
(***************************************************************************)
EXTENDS CPUVerifier

CONSTANTS
  MaxBatch,     \* NewGate clamps it to at least 1
  NoTimer       \* g.timer = nil

ASSUME GateAssumption ==
  /\ MaxBatch \in Nat \ {0}
  /\ NoTimer \notin Nat

VARIABLES
  pending,      \* g.pending
  timer,        \* g.timer: the number of the timer, or NoTimer
  armed,        \* timers that have neither fired nor been stopped
  fired,        \* timers whose callback waits for g.mu
  timers,       \* number of timers made
  flights,      \* batches in flush: the backend's job, and the results sent
  submitted,    \* requests submitted, each once
  results       \* request -> what its result channel has been sent

vars == <<pending, timer, armed, fired, timers, flights, submitted, results>>

Init ==
  /\ pending = <<>> /\ timer = NoTimer /\ armed = {} /\ fired = {} /\ timers = 0
  /\ flights = {} /\ submitted = {} /\ results = [r \in Req |-> <<>>]

(* Batches hold distinct requests, so a set of flights loses none.           *)
Launch(batch) == flights' = flights \cup {[job |-> NewJob(batch), sent |-> 0]}

(* Mutant: g.timer is stopped and not cleared.                               *)
TakeLockedKeepsTimer ==
  /\ pending' = <<>>
  /\ armed' = armed \ {timer}
  /\ UNCHANGED timer

TakeLocked ==
  /\ pending' = <<>>
  /\ timer' = NoTimer
  /\ armed' = armed \ {timer}

(* The batch is full: the submitter takes it and flushes it.                 *)
SubmitFull(r) ==
  /\ r \notin submitted
  /\ Len(pending) + 1 >= MaxBatch
  /\ TakeLocked
  /\ Launch(Append(pending, r))
  /\ submitted' = submitted \cup {r}
  /\ UNCHANGED <<fired, timers, results>>

(* Mutant: no timer is made.                                                 *)
SubmitWaitUntimed(r) ==
  /\ r \notin submitted
  /\ ~(Len(pending) + 1 >= MaxBatch)
  /\ pending' = Append(pending, r)
  /\ submitted' = submitted \cup {r}
  /\ UNCHANGED <<timer, timers, armed, fired, flights, results>>

SubmitWait(r) ==
  /\ r \notin submitted
  /\ ~(Len(pending) + 1 >= MaxBatch)
  /\ pending' = Append(pending, r)
  /\ IF timer = NoTimer
       THEN timer' = timers /\ timers' = timers + 1 /\ armed' = armed \cup {timers}
       ELSE UNCHANGED <<timer, timers, armed>>
  /\ submitted' = submitted \cup {r}
  /\ UNCHANGED <<fired, flights, results>>

(* maxDelay has passed: the runtime starts the callback, which Stop can no   *)
(* longer prevent.                                                           *)
Fire(i) ==
  /\ i \in armed
  /\ armed' = armed \ {i}
  /\ fired' = fired \cup {i}
  /\ UNCHANGED <<pending, timer, timers, flights, submitted, results>>

OnTimer(i) ==
  /\ i \in fired
  /\ fired' = fired \ {i}
  /\ TakeLocked
  /\ IF pending # <<>> THEN Launch(pending) ELSE UNCHANGED flights
  /\ UNCHANGED <<timers, submitted, results>>

(* flush waits in VerifyBatch: the caller starts goroutines, they write.     *)
Advance(f, j) ==
  /\ flights' = (flights \ {f}) \cup {[f EXCEPT !.job = j]}
  /\ UNCHANGED <<pending, timer, armed, fired, timers, submitted, results>>

StartWorker(f) == Spawning(f.job) /\ Advance(f, Spawn(f.job))
VerifyOne(f, g) == g \in f.job.running /\ Advance(f, Write(f.job, g))

(* The result channels have room for one value; a second send would block.   *)
Send(f) ==
  LET i == f.sent + 1
      r == f.job.items[i] IN
    /\ Returned(f.job)
    /\ results[r] = <<>>
    /\ results' = [results EXCEPT ![r] = Append(@, f.job.out[i])]
    /\ flights' = (flights \ {f}) \cup
                  {g \in {[f EXCEPT !.sent = i]} : i < Size(f.job)}
    /\ UNCHANGED <<pending, timer, armed, fired, timers, submitted>>

Flush(f) == StartWorker(f) \/ (\E g \in f.job.running : VerifyOne(f, g)) \/ Send(f)

Next ==
  \/ \E r \in Req : SubmitFull(r) \/ SubmitWait(r)
  \/ \E i \in armed : Fire(i)
  \/ \E i \in fired : OnTimer(i)
  \/ \E f \in flights : Flush(f)

(* A timer that is not stopped fires, and a started goroutine is scheduled.  *)
Fairness ==
  /\ WF_vars(\E i \in armed : Fire(i))
  /\ WF_vars(\E i \in fired : OnTimer(i))
  /\ \A r \in Req : WF_vars(\E f \in flights :
       f.job.items[f.sent + 1] = r /\ Flush(f))

Spec == Init /\ [][Next]_vars
FairSpec == Spec /\ Fairness

-----------------------------------------------------------------------------
Slots == [lo : Nat, hi : Nat]
Job == [items : Seq(Req), out : Seq(BOOLEAN), start : Nat, running : SUBSET Slots]
Flight == [job : Job, sent : Nat]

(* The fields of the gate, its timers and the batches in flight.             *)
GateTypeOK ==
  /\ pending \in Seq(Req)
  /\ flights \subseteq Flight
  /\ timers \in Nat
  /\ timer \in {NoTimer} \cup 0 .. timers - 1
  /\ armed \subseteq 0 .. timers - 1
  /\ fired \subseteq 0 .. timers - 1

(* NoneStranded: whenever the lock is free, pending requests have a live     *)
(* timer: one that is armed, or whose callback is waiting for the lock, even *)
(* after a stale callback took an earlier or a later batch.  Otherwise they  *)
(* would wait for a flush nobody is going to make.                           *)
NoneStranded == pending # <<>> => timer \in armed \cup fired

(* BatchBound: no batch handed to the verifier exceeds MaxBatch, the size    *)
(* the backend was dimensioned for, and the goroutines at work on it have    *)
(* slots of the batch that no two of them share: otherwise two would write   *)
(* the same result, or one past the end of the results.                      *)
BatchBound ==
  /\ Len(pending) < MaxBatch
  /\ \A f \in flights : Size(f.job) \in 1 .. MaxBatch /\ WorkBounded(f.job)

(* Where request r waits: its positions in pending (batch <<>>) and in       *)
(* batches not sent yet.                                                     *)
Waiting(r) ==
  {<< <<>>, i >> : i \in {j \in DOMAIN pending : pending[j] = r}} \cup
  UNION {{<<f.job.items, i>> : i \in {j \in f.sent + 1 .. Size(f.job) : f.job.items[j] = r}}
         : f \in flights}

(* OneResult: a request is in exactly one place until it is answered, and    *)
(* is answered once, with the verdict on itself and not on a neighbour in    *)
(* the batch.                                                                *)
OneResult ==
  \A r \in submitted :
    \/ results[r] = <<>> /\ \E w \in Waiting(r) : Waiting(r) = {w}
    \/ results[r] = <<Reference[r]>> /\ Waiting(r) = {}

(* GateServes: batching, the stale timers and the goroutines of the verifier *)
(* are invisible to the callers: the gate implements VerdictService, where a *)
(* request is answered in one step by the reference verdict on it, and every *)
(* request is answered, whether its batch fills up or a timer flushes it.    *)
Verdicts == INSTANCE VerdictService WITH asked <- submitted, answers <- results
GateServes == Verdicts!FairSpec
=============================================================================
