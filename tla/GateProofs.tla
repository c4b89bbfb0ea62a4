----------------------------- MODULE GateProofs -----------------------------
(***************************************************************************)
(* Proofs about Gate, for every set of requests, every batch size and      *)
(* every number of workers.                                                *)
(***************************************************************************)
EXTENDS Gate, TLAPS

(* A job in progress.  The ranges handed out lie below start, and a slot     *)
(* below start that no goroutine still has to write holds its verdict: so    *)
(* once all have ended, every slot does.                                     *)
JobInv(j) ==
  /\ j \in Job
  /\ Size(j) \in 1 .. MaxBatch
  /\ DOMAIN j.out = 1 .. Size(j)
  /\ \A g \in j.running : g.lo < g.hi /\ g.hi <= Size(j) /\ g.hi <= j.start
  /\ \A g, h \in j.running : g # h => g.hi <= h.lo \/ h.hi <= g.lo
  /\ \A i \in 1 .. Size(j) :
       \/ i > j.start
       \/ \E g \in j.running : g.lo < i /\ i <= g.hi
       \/ j.out[i] = Reference[j.items[i]]

LEMMA ChunkPositive == \A n \in Nat \ {0} : Chunk(n) \in Nat \ {0}
  <1> SUFFICES ASSUME NEW n \in Nat \ {0}
               PROVE  Chunk(n) \in Nat \ {0}
    OBVIOUS
  <1> DEFINE w == Width(n)
             x == n + w - 1
  <1>1. w \in Nat \ {0} /\ x \in Nat /\ x >= w
    BY VerifierAssumption DEF Width
  <1> HIDE DEF w, x
  <1>2. x = w * (x \div w) + (x % w) /\ x % w \in 0 .. w - 1 /\ x \div w \in Int
    BY <1>1
  <1>3. x \div w > 0
    <2>1. SUFFICES ASSUME x \div w <= 0 PROVE FALSE
      BY <1>2
    <2>2. w * (x \div w) <= 0
      BY <1>1, <1>2, <2>1
    <2> QED
      BY <1>1, <1>2, <2>2
  <1> QED
    BY <1>2, <1>3 DEF Chunk, w, x

(* A new job has no slot below start, or one goroutine with all of them.     *)
LEMMA NewJobInv ==
  ASSUME NEW items \in Seq(Req), Len(items) \in 1 .. MaxBatch
  PROVE  JobInv(NewJob(items)) /\ NewJob(items).items = items
  <1> DEFINE n == Len(items)
             out == [i \in 1 .. n |-> FALSE]
             j == NewJob(items)
  <1>1. n \in Nat \ {0} /\ out \in Seq(BOOLEAN) /\ DOMAIN out = 1 .. n
    BY GateAssumption
  <1> HIDE DEF out
  <1>2. CASE Width(n) <= 1
    <2> DEFINE k == [items |-> items, out |-> out, start |-> n, running |-> {[lo |-> 0, hi |-> n]}]
    <2>1. j = k
      BY <1>2 DEF NewJob, out
    <2>2. k \in Job
      BY <1>1 DEF Job, Slots
    <2>3. k.items = items /\ k.out = out /\ k.start = n /\ k.running = {[lo |-> 0, hi |-> n]}
      OBVIOUS
    <2> HIDE DEF k
    <2>4. Size(k) = n
      BY <2>3 DEF Size
    <2> QED
      BY <1>1, <2>1, <2>2, <2>3, <2>4 DEF JobInv
  <1>3. CASE ~(Width(n) <= 1)
    <2> DEFINE k == [items |-> items, out |-> out, start |-> 0, running |-> {}]
    <2>1. j = k
      BY <1>3 DEF NewJob, out
    <2>2. k \in Job
      BY <1>1 DEF Job, Slots
    <2> QED
      BY <1>1, <2>1, <2>2 DEF JobInv, Size
  <1> QED
    BY <1>2, <1>3

(* The chunk handed out begins at start, above all ranges handed out.        *)
LEMMA SpawnInv ==
  ASSUME NEW j, JobInv(j), Spawning(j)
  PROVE  JobInv(Spawn(j)) /\ Spawn(j).items = j.items
  <1> DEFINE c == Chunk(Size(j))
             r == NextRange(j)
             k == Spawn(j)
  <1>1. j \in Job /\ Size(j) \in Nat \ {0} /\ j.start \in Nat /\ j.running \subseteq Slots
    BY GateAssumption DEF JobInv, Job
  <1>2. c \in Nat \ {0}
    BY <1>1, ChunkPositive
  <1> HIDE DEF c
  <1>3. /\ r \in Slots /\ r.lo = j.start /\ r.lo < r.hi /\ r.hi <= Size(j)
        /\ r.hi <= j.start + c /\ (r.hi = Size(j) \/ r.hi = j.start + c)
    BY <1>1, <1>2 DEF NextRange, Spawning, Slots, c
  <1> HIDE DEF r
  <1>a. k = [j EXCEPT !.start = j.start + c, !.running = j.running \cup {r}]
    BY DEF Spawn, c, r
  <1> HIDE DEF k
  <1>4. /\ k \in Job /\ k.items = j.items /\ k.out = j.out
        /\ k.start = j.start + c /\ k.running = j.running \cup {r}
    <2> DEFINE s == j.start + c
               run == j.running \cup {r}
    <2>1. s \in Nat /\ run \in SUBSET Slots /\ k = [j EXCEPT !.start = s, !.running = run]
      BY <1>1, <1>2, <1>3, <1>a
    <2>2. SUFFICES k \in Job /\ k.items = j.items /\ k.out = j.out /\ k.start = s /\ k.running = run
      OBVIOUS
    <2> HIDE DEF s, run
    <2> QED
      BY <1>1, <2>1 DEF Job
  <1>5. Size(k) = Size(j)
    BY <1>4 DEF Size
  <1>6. \A g \in j.running : g.lo \in Nat /\ g.hi \in Nat /\ g.hi <= r.lo
    BY <1>1, <1>3 DEF JobInv, Slots
  <1>7. \A g \in k.running : g.lo < g.hi /\ g.hi <= Size(k) /\ g.hi <= k.start
    BY <1>1, <1>2, <1>3, <1>4, <1>5, <1>6 DEF JobInv
  <1>8. \A g, h \in k.running : g # h => g.hi <= h.lo \/ h.hi <= g.lo
    BY <1>4, <1>6 DEF JobInv
  <1>9. ASSUME NEW i \in 1 .. Size(k)
        PROVE  \/ i > k.start
               \/ \E g \in k.running : g.lo < i /\ i <= g.hi
               \/ k.out[i] = Reference[k.items[i]]
    <2>1. CASE i > j.start
      BY <1>1, <1>2, <1>3, <1>4, <1>5, <1>9, <2>1 DEF Slots
    <2>2. CASE ~(i > j.start)
      BY <1>4, <1>5, <1>9, <2>2 DEF JobInv
    <2> QED
      BY <2>1, <2>2
  <1>10. Size(k) \in 1 .. MaxBatch /\ DOMAIN k.out = 1 .. Size(k)
    BY <1>4, <1>5 DEF JobInv
  <1> QED
    BY <1>4, <1>7, <1>8, <1>9, <1>10 DEF JobInv, k

(* A write fills the first slot of a range and takes it off the range.       *)
LEMMA WriteInv ==
  ASSUME NEW j, JobInv(j), NEW g \in j.running
  PROVE  JobInv(Write(j, g)) /\ Write(j, g).items = j.items
  <1> DEFINE v == Reference[j.items[g.lo + 1]]
             out == [j.out EXCEPT ![g.lo + 1] = v]
             rest == [g EXCEPT !.lo = @ + 1]
             running == (j.running \ {g}) \cup {h \in {rest} : h.lo < h.hi}
             k == [j EXCEPT !.out = out, !.running = running]
  <1>1. /\ j \in Job /\ g \in Slots /\ g.lo \in Nat /\ g.hi \in Nat /\ j.items \in Seq(Req)
        /\ j.out \in Seq(BOOLEAN) /\ Size(j) \in Nat /\ Len(j.items) = Size(j)
    BY DEF JobInv, Job, Slots, Size
  <1>2. g.lo < g.hi /\ g.hi <= Size(j) /\ g.hi <= j.start /\ g.lo + 1 \in 1 .. Size(j)
    BY <1>1 DEF JobInv
  <1>3. v \in BOOLEAN
    BY <1>1, <1>2, VerifierAssumption DEF Size
  <1> HIDE DEF v
  <1>4. out \in Seq(BOOLEAN) /\ DOMAIN out = 1 .. Size(j) /\ out[g.lo + 1] = v
        /\ \A i \in 1 .. Size(j) : i # g.lo + 1 => out[i] = j.out[i]
    <2>1. DOMAIN j.out = 1 .. Size(j) /\ Len(j.out) = Size(j)
      BY <1>1 DEF JobInv
    <2>2. out \in [1 .. Size(j) -> BOOLEAN]
      <3>1. j.out \in [1 .. Size(j) -> BOOLEAN]
        BY <1>1, <2>1
      <3>2. ASSUME NEW S, NEW f \in [S -> BOOLEAN], NEW s, NEW b \in BOOLEAN
            PROVE  [f EXCEPT ![s] = b] \in [S -> BOOLEAN]
        BY Zenon
      <3> QED
        BY <1>3, <3>1, <3>2, Zenon
    <2> QED
      BY <1>1, <1>2, <2>1, <2>2
  <1> HIDE DEF out
  <1>5. rest \in Slots /\ rest.lo = g.lo + 1 /\ rest.hi = g.hi
    BY SMTT(30), <1>1 DEF Slots
  <1> HIDE DEF rest
  <1>6. Write(j, g) = k
    BY DEF Write, k, out, v, running, rest
  <1>7. /\ k \in Job /\ k.items = j.items /\ k.out = out
        /\ k.start = j.start /\ k.running = running
    BY <1>1, <1>4, <1>5 DEF Job
  <1> HIDE DEF k
  <1>8. Size(k) = Size(j)
    BY <1>7 DEF Size
  <1>9. \A h \in running : h \in Slots /\ h.lo < h.hi /\ h.hi <= Size(j) /\ h.hi <= j.start
    BY <1>1, <1>2, <1>5 DEF JobInv, Job
  <1>10. ASSUME NEW a \in running, NEW b \in running, a # b
         PROVE  a.hi <= b.lo \/ b.hi <= a.lo
    <2>1. \A h \in j.running : h.lo \in Nat /\ h.hi \in Nat
      BY <1>1 DEF Job, Slots
    <2>2. CASE a = rest /\ b \in j.running \ {g}
      BY <1>1, <1>5, <2>1, <2>2 DEF JobInv
    <2>3. CASE b = rest /\ a \in j.running \ {g}
      BY <1>1, <1>5, <2>1, <2>3 DEF JobInv
    <2>4. CASE a \in j.running /\ b \in j.running
      BY <1>10, <2>4 DEF JobInv
    <2> QED
      BY <1>10, <2>2, <2>3, <2>4
  <1>11. ASSUME NEW i \in 1 .. Size(j)
         PROVE  \/ i > j.start
                \/ \E h \in running : h.lo < i /\ i <= h.hi
                \/ out[i] = Reference[j.items[i]]
    <2>1. CASE i = g.lo + 1
      BY <1>4, <2>1 DEF v
    <2>2. CASE i # g.lo + 1 /\ g.lo < i /\ i <= g.hi
      <3>1. rest.lo < i /\ i <= rest.hi /\ rest.lo < rest.hi
        BY <1>1, <1>5, <1>11, <2>2
      <3> QED
        BY <3>1
    <2>3. CASE i # g.lo + 1 /\ ~(g.lo < i /\ i <= g.hi)
      <3>1. \/ i > j.start
            \/ \E h \in j.running : h.lo < i /\ i <= h.hi
            \/ j.out[i] = Reference[j.items[i]]
        BY <1>11 DEF JobInv
      <3> QED
        BY <1>4, <1>11, <2>3, <3>1
    <2> QED
      BY <2>1, <2>2, <2>3
  <1> HIDE DEF running
  <1> QED
    BY <1>4, <1>6, <1>7, <1>8, <1>9, <1>10, <1>11 DEF JobInv

-----------------------------------------------------------------------------
(* g.timer is never left pointing at a timer nobody will run: takeLocked     *)
(* clears it in the critical section that empties pending.                   *)
TimerLive ==
  /\ timer # NoTimer => timer \in armed \cup fired
  /\ pending # <<>> => timer # NoTimer

FlightInv(f) ==
  /\ f \in Flight
  /\ JobInv(f.job)
  /\ f.sent < Size(f.job)
  /\ \A i \in 1 .. Size(f.job) : f.job.items[i] \in submitted

(* What the gate holds was submitted.                                        *)
Submitted ==
  /\ submitted \subseteq Req
  /\ \A i \in 1 .. Len(pending) : pending[i] \in submitted
  /\ results \in [Req -> Seq(BOOLEAN)]

IInv ==
  /\ GateTypeOK /\ TimerLive /\ Submitted /\ Len(pending) < MaxBatch
  /\ \A f \in flights : FlightInv(f)

LEMMA InitIInv == Init => IInv
  BY GateAssumption DEF Init, IInv, GateTypeOK, TimerLive, Submitted

(* A flight that is replaced by one in order, or taken away.                 *)
LEMMA FlightStep ==
  ASSUME IInv, NEW f \in flights, NEW g, FlightInv(g), flights' \subseteq flights \cup {g},
         UNCHANGED <<pending, timer, armed, fired, timers, submitted>>,
         results' \in [Req -> Seq(BOOLEAN)]
  PROVE  IInv'
  <1>1. \A h \in flights' : FlightInv(h)'
    BY DEF IInv, FlightInv
  <1>2. flights' \subseteq Flight
    BY DEF IInv, FlightInv
  <1> QED
    BY <1>1, <1>2 DEF IInv, GateTypeOK, TimerLive, Submitted

(* The batch taken under the lock becomes a flight.                          *)
LEMMA LaunchStep ==
  ASSUME IInv, NEW batch \in Seq(Req), Len(batch) \in 1 .. MaxBatch, Launch(batch),
         submitted \subseteq submitted',
         \A i \in 1 .. Len(batch) : batch[i] \in submitted'
  PROVE  flights' \subseteq Flight /\ \A f \in flights' : FlightInv(f)'
  <1> DEFINE n == [job |-> NewJob(batch), sent |-> 0]
  <1>1. JobInv(NewJob(batch)) /\ NewJob(batch).items = batch
    BY NewJobInv
  <1>2. n \in Flight /\ n.job = NewJob(batch) /\ n.sent = 0
    BY <1>1 DEF Flight, JobInv
  <1>3. flights' = flights \cup {n}
    BY DEF Launch
  <1> HIDE DEF n
  <1>4. FlightInv(n)'
    BY <1>1, <1>2 DEF FlightInv, JobInv, Size
  <1>5. \A f \in flights : FlightInv(f)'
    BY DEF IInv, FlightInv
  <1> QED
    BY <1>2, <1>3, <1>4, <1>5 DEF IInv, FlightInv

LEMMA StepIInv == IInv /\ [Next]_vars => IInv'
  <1> SUFFICES ASSUME IInv, [Next]_vars
               PROVE  IInv'
    OBVIOUS
  <1> USE GateAssumption
  <1>1. ASSUME NEW r \in Req, SubmitFull(r)
        PROVE  IInv'
    <2> DEFINE batch == Append(pending, r)
    <2>1. /\ pending' = <<>> /\ timer' = NoTimer /\ armed' = armed \ {timer}
          /\ submitted' = submitted \cup {r} /\ Launch(batch) /\ UNCHANGED <<fired, timers, results>>
      BY <1>1 DEF SubmitFull, TakeLocked
    <2>2. batch \in Seq(Req) /\ Len(batch) = Len(pending) + 1 /\ Len(pending) \in Nat
      BY DEF IInv, GateTypeOK
    <2>3. \A i \in 1 .. Len(batch) : batch[i] \in submitted'
      BY <2>1, <2>2 DEF IInv, GateTypeOK, Submitted
    <2> HIDE DEF batch
    <2>4. flights' \subseteq Flight /\ \A f \in flights' : FlightInv(f)'
      BY LaunchStep, <2>1, <2>2, <2>3 DEF IInv
    <2>5. pending' \in Seq(Req) /\ Len(pending') = 0
      BY <2>1
    <2>6. GateTypeOK' /\ TimerLive'
      BY <2>1, <2>4, <2>5 DEF IInv, GateTypeOK, TimerLive
    <2>7. Submitted'
      BY <2>1, <2>5 DEF IInv, Submitted
    <2> QED
      BY <2>4, <2>5, <2>6, <2>7 DEF IInv
  <1>2. ASSUME NEW r \in Req, SubmitWait(r)
        PROVE  IInv'
    <2>1. /\ pending' = Append(pending, r) /\ Len(pending) + 1 < MaxBatch
          /\ submitted' = submitted \cup {r} /\ UNCHANGED <<fired, flights, results>>
      BY <1>2 DEF SubmitWait, IInv, GateTypeOK
    <2>2. pending' \in Seq(Req) /\ Len(pending') = Len(pending) + 1 /\ Len(pending) \in Nat
      BY <2>1 DEF IInv, GateTypeOK
    <2>5. \A i \in 1 .. Len(pending') : pending'[i] \in submitted'
      BY <2>1, <2>2 DEF IInv, GateTypeOK, Submitted
    <2>3. \A f \in flights' : FlightInv(f)'
      BY <2>1 DEF IInv, FlightInv
    <2>4. timer' # NoTimer /\ timer' \in armed' \cup fired'
      BY <1>2, <2>1 DEF SubmitWait, IInv, GateTypeOK, TimerLive
    <2>6. CASE timer = NoTimer
      <3>1. timers' = timers + 1 /\ timer' = timers /\ armed' = armed \cup {timers}
        BY <1>2, <2>6 DEF SubmitWait
      <3> QED
        BY <2>1, <2>2, <2>3, <2>4, <2>5, <3>1 DEF IInv, GateTypeOK, TimerLive, Submitted
    <2>7. CASE timer # NoTimer
      <3>1. UNCHANGED <<timer, timers, armed>>
        BY <1>2, <2>7 DEF SubmitWait
      <3> QED
        BY <2>1, <2>2, <2>3, <2>4, <2>5, <3>1 DEF IInv, GateTypeOK, TimerLive, Submitted
    <2> QED
      BY <2>6, <2>7
  <1>3. ASSUME NEW i \in armed, Fire(i)
        PROVE  IInv'
    <2>1. \A f \in flights' : FlightInv(f)'
      BY <1>3 DEF Fire, IInv, FlightInv
    <2> QED
      BY <1>3, <2>1 DEF Fire, IInv, GateTypeOK, TimerLive, Submitted
  <1>4. ASSUME NEW i \in fired, OnTimer(i)
        PROVE  IInv'
    <2>1. /\ pending' = <<>> /\ timer' = NoTimer /\ armed' = armed \ {timer}
          /\ fired' = fired \ {i} /\ UNCHANGED <<timers, submitted, results>>
      BY <1>4 DEF OnTimer, TakeLocked
    <2>2. flights' \subseteq Flight /\ \A f \in flights' : FlightInv(f)'
      <3>1. CASE pending # <<>>
        <4>1. Launch(pending) /\ pending \in Seq(Req) /\ Len(pending) \in 1 .. MaxBatch
          BY <1>4, <3>1 DEF OnTimer, IInv, GateTypeOK
        <4> QED
          BY LaunchStep, <2>1, <4>1 DEF IInv, Submitted
      <3>2. CASE pending = <<>>
        <4>1. flights' = flights
          BY <1>4, <3>2 DEF OnTimer
        <4> QED
          BY <2>1, <4>1 DEF IInv, GateTypeOK, FlightInv
      <3> QED
        BY <3>1, <3>2
    <2>3. pending' \in Seq(Req) /\ Len(pending') = 0
      BY <2>1
    <2>4. GateTypeOK' /\ TimerLive'
      BY <2>1, <2>2, <2>3 DEF IInv, GateTypeOK, TimerLive
    <2>5. Submitted'
      BY <2>1, <2>3 DEF IInv, Submitted
    <2> QED
      BY <2>2, <2>3, <2>4, <2>5 DEF IInv
  <1>5. ASSUME NEW f \in flights, NEW j, JobInv(j), j.items = f.job.items, Advance(f, j)
        PROVE  IInv'
    <2> DEFINE g == [f EXCEPT !.job = j]
    <2>1. FlightInv(f)
      BY DEF IInv
    <2>2. g \in Flight /\ g.job = j /\ g.sent = f.sent
      BY <1>5, <2>1 DEF FlightInv, Flight, JobInv
    <2>3. flights' \subseteq flights \cup {g}
      BY <1>5 DEF Advance
    <2> HIDE DEF g
    <2>4. FlightInv(g)
      BY <1>5, <2>1, <2>2 DEF FlightInv, Size
    <2>5. UNCHANGED <<pending, timer, armed, fired, timers, submitted>> /\ results' \in [Req -> Seq(BOOLEAN)]
      BY <1>5 DEF Advance, IInv, Submitted
    <2> QED
      BY FlightStep, <2>3, <2>4, <2>5
  <1>6. ASSUME NEW f \in flights, StartWorker(f)
        PROVE  IInv'
    <2>1. JobInv(f.job) /\ Spawning(f.job)
      BY <1>6 DEF StartWorker, IInv, FlightInv
    <2>2. JobInv(Spawn(f.job)) /\ Spawn(f.job).items = f.job.items
      BY SpawnInv, <2>1
    <2> QED
      BY <1>5, <1>6, <2>2 DEF StartWorker
  <1>7. ASSUME NEW f \in flights, NEW g \in f.job.running, VerifyOne(f, g)
        PROVE  IInv'
    <2>1. JobInv(f.job)
      BY DEF IInv, FlightInv
    <2>2. JobInv(Write(f.job, g)) /\ Write(f.job, g).items = f.job.items
      BY WriteInv, <2>1
    <2> QED
      BY <1>5, <1>7, <2>2 DEF VerifyOne
  <1>8. ASSUME NEW f \in flights, Send(f)
        PROVE  IInv'
    <2> DEFINE i == f.sent + 1
               r == f.job.items[i]
               g == [f EXCEPT !.sent = i]
    <2>1. FlightInv(f)
      BY DEF IInv
    <2>2. f.sent \in Nat /\ Size(f.job) \in Nat /\ i \in 1 .. Size(f.job) /\ f.job.out \in Seq(BOOLEAN)
          /\ DOMAIN f.job.out = 1 .. Size(f.job)
      BY <2>1 DEF FlightInv, Flight, Job, JobInv, Size
    <2>3. UNCHANGED <<pending, timer, armed, fired, timers, submitted>> /\ results' \in [Req -> Seq(BOOLEAN)]
      <3>1. r \in Req /\ f.job.out[i] \in BOOLEAN /\ results[r] \in Seq(BOOLEAN)
        BY <2>1, <2>2 DEF FlightInv, IInv, Submitted
      <3>2. Append(results[r], f.job.out[i]) \in Seq(BOOLEAN)
        BY <3>1
      <3>3. results' = [results EXCEPT ![r] = Append(results[r], f.job.out[i])]
        BY <1>8 DEF Send
      <3> QED
        BY <1>8, <3>1, <3>2, <3>3 DEF Send, IInv, Submitted
    <2>4. CASE i < Size(f.job)
      <3>1. g \in Flight /\ g.job = f.job /\ g.sent = i
        BY <2>1, <2>2 DEF FlightInv, Flight
      <3>2. flights' \subseteq flights \cup {g}
        BY <1>8 DEF Send
      <3> HIDE DEF g
      <3>3. FlightInv(g)
        BY <2>1, <2>4, <3>1 DEF FlightInv
      <3> QED
        BY FlightStep, <2>3, <3>2, <3>3
    <2>5. CASE ~(i < Size(f.job))
      <3>1. flights' \subseteq flights \cup {f}
        BY <1>8, <2>5 DEF Send
      <3> QED
        BY FlightStep, <2>1, <2>3, <3>1
    <2> QED
      BY <2>4, <2>5
  <1>9. CASE UNCHANGED vars
    BY <1>9 DEF vars, IInv, GateTypeOK, TimerLive, Submitted, FlightInv
  <1> QED
    BY <1>1, <1>2, <1>3, <1>4, <1>6, <1>7, <1>8, <1>9 DEF Next, Flush

(* Spec keeps the invariant.                                                 *)
LEMMA Invariance == Spec => []IInv
  BY InitIInv, StepIInv, PTL DEF Spec

(* For every batch size and any number of submitters: whatever stale timer   *)
(* callbacks run, a pending request has a live timer, so only scheduling     *)
(* stands between it and its flush.                                          *)
THEOREM StrandedTheorem == Spec => [](GateTypeOK /\ NoneStranded)
  <1>1. IInv => GateTypeOK /\ NoneStranded
    BY DEF IInv, TimerLive, NoneStranded
  <1> QED
    BY <1>1, Invariance, PTL

(* For every batch size and any number of workers: no batch exceeds          *)
(* MaxBatch, and no two goroutines of the verifier share a slot.             *)
THEOREM BatchTheorem == Spec => []BatchBound
  <1>1. IInv => BatchBound
    <2>1. ASSUME IInv, NEW f \in flights
          PROVE  Size(f.job) \in 1 .. MaxBatch /\ WorkBounded(f.job)
      BY <2>1 DEF IInv, FlightInv, JobInv, Job, Slots, WorkBounded
    <2> QED
      BY <2>1 DEF IInv, BatchBound
  <1> QED
    BY <1>1, Invariance, PTL

(* When VerifyBatch has returned, every slot holds its reference verdict.    *)
LEMMA ReturnedRight ==
  ASSUME NEW j, JobInv(j), Returned(j), NEW i \in 1 .. Size(j)
  PROVE  j.out[i] = Reference[j.items[i]]
  BY DEF JobInv, Job, Returned, Spawning

-----------------------------------------------------------------------------
Distinct(s) == \A i, j \in 1 .. Len(s) : s[i] = s[j] => i = j
Apart(s, t) == \A i \in 1 .. Len(s), j \in 1 .. Len(t) : s[i] # t[j]

(* flush has answered the requests of a batch up to sent, and no other.      *)
Sent(f) ==
  \A i \in 1 .. Size(f.job) :
    results[f.job.items[i]] = IF i <= f.sent THEN <<Reference[f.job.items[i]]>> ELSE <<>>

(* The places of the requests.  OneResult counts the places of unanswered    *)
(* requests; that a batch shares no request with pending or another batch,   *)
(* the answered ones included, is what a step needs to keep it.              *)
PlaceInv ==
  /\ Distinct(pending)
  /\ \A i \in 1 .. Len(pending) : results[pending[i]] = <<>>
  /\ \A f \in flights : Distinct(f.job.items) /\ Apart(f.job.items, pending) /\ Sent(f)
  /\ \A f, g \in flights : f # g => Apart(f.job.items, g.job.items)
  /\ \A r \in submitted :
       \/ results[r] = <<Reference[r]>>
       \/ \E i \in 1 .. Len(pending) : pending[i] = r
       \/ \E f \in flights : \E i \in f.sent + 1 .. Size(f.job) : f.job.items[i] = r
  /\ \A r \in Req \ submitted : results[r] = <<>>

LEMMA InitPlace == Init => PlaceInv
  BY DEF Init, PlaceInv, Distinct

(* The batch taken under the lock moves from pending to a new flight.        *)
LEMMA LaunchPlace ==
  ASSUME IInv, PlaceInv, NEW batch \in Seq(Req), Len(batch) \in 1 .. MaxBatch, Launch(batch),
         Distinct(batch), \A f \in flights : Apart(f.job.items, batch),
         \A i \in 1 .. Len(batch) : results[batch[i]] = <<>>,
         \A i \in 1 .. Len(pending) : \E k \in 1 .. Len(batch) : batch[k] = pending[i],
         submitted' \subseteq submitted \cup {batch[i] : i \in 1 .. Len(batch)},
         submitted \subseteq submitted', pending' = <<>>, UNCHANGED results
  PROVE  PlaceInv'
  <1> DEFINE n == [job |-> NewJob(batch), sent |-> 0]
  <1>1. NewJob(batch).items = batch
    BY NewJobInv
  <1>2. n.job.items = batch /\ n.sent = 0 /\ Size(n.job) = Len(batch) /\ Len(batch) \in Nat
    BY <1>1 DEF Size
  <1>3. flights' = flights \cup {n}
    BY DEF Launch
  <1> HIDE DEF n
  <1>4. Distinct(pending') /\ Len(pending') = 0
    BY DEF Distinct
  <1>5. \A f \in flights' : Distinct(f.job.items) /\ Apart(f.job.items, pending') /\ Sent(f)'
    <2>1. Sent(n)'
      BY <1>2 DEF Sent
    <2>2. \A f \in flights : Sent(f)'
      BY DEF PlaceInv, Sent
    <2> QED
      BY <1>2, <1>3, <1>4, <2>1, <2>2 DEF PlaceInv, Apart
  <1>6. \A f, g \in flights' : f # g => Apart(f.job.items, g.job.items)
    BY <1>2, <1>3 DEF PlaceInv, Apart
  <1>7. ASSUME NEW r \in submitted', results'[r] # <<Reference[r]>>
        PROVE  \E f \in flights' : \E i \in f.sent + 1 .. Size(f.job) : f.job.items[i] = r
    <2>1. CASE \E i \in 1 .. Len(batch) : batch[i] = r
      BY <1>2, <1>3, <2>1
    <2>2. CASE \E f \in flights : \E i \in f.sent + 1 .. Size(f.job) : f.job.items[i] = r
      BY <1>3, <2>2
    <2> QED
      BY SMTT(30), <1>7, <2>1, <2>2 DEF PlaceInv
  <1>8. \A r \in Req \ submitted' : results'[r] = <<>>
    BY DEF PlaceInv
  <1> QED
    BY <1>4, <1>5, <1>6, <1>7, <1>8 DEF PlaceInv

(* A goroutine of the verifier leaves the batch and the answers alone.       *)
LEMMA AdvancePlace ==
  ASSUME IInv, PlaceInv, NEW f \in flights, NEW j, JobInv(j), j.items = f.job.items, Advance(f, j)
  PROVE  PlaceInv'
  <1> DEFINE g == [f EXCEPT !.job = j]
  <1>1. f \in Flight
    BY DEF IInv, FlightInv
  <1>2. g.job = j /\ g.sent = f.sent
    BY <1>1 DEF Flight
  <1>3. flights' = (flights \ {f}) \cup {g} /\ UNCHANGED <<pending, submitted, results>>
    BY DEF Advance
  <1> HIDE DEF g
  <1>4. Size(g.job) = Size(f.job) /\ g.job.items = f.job.items
    BY <1>2 DEF Size
  <1>5. \A h \in flights' : Distinct(h.job.items) /\ Apart(h.job.items, pending') /\ Sent(h)'
    BY <1>2, <1>3, <1>4 DEF PlaceInv, Sent
  <1>6. \A h, k \in flights' : h # k => Apart(h.job.items, k.job.items)
    BY <1>3, <1>4 DEF PlaceInv
  <1>7. ASSUME NEW r \in submitted', results'[r] # <<Reference[r]>>, ~\E i \in 1 .. Len(pending') : pending'[i] = r
        PROVE  \E h \in flights' : \E i \in h.sent + 1 .. Size(h.job) : h.job.items[i] = r
    <2>1. PICK h \in flights : \E i \in h.sent + 1 .. Size(h.job) : h.job.items[i] = r
      BY <1>3, <1>7 DEF PlaceInv
    <2> QED
      BY <1>2, <1>3, <1>4, <2>1
  <1> QED
    BY <1>3, <1>5, <1>6, <1>7 DEF PlaceInv

(* A send answers the next request of its batch, which no other place has.   *)
LEMMA SendPlace ==
  ASSUME IInv, PlaceInv, NEW f \in flights, Send(f)
  PROVE  PlaceInv'
  <1> DEFINE n == f.sent + 1
             r == f.job.items[n]
             g == [f EXCEPT !.sent = n]
  <1>1. FlightInv(f) /\ Returned(f.job)
    BY DEF IInv, Send
  <1>2. f.sent \in Nat /\ Size(f.job) \in Nat /\ n \in 1 .. Size(f.job) /\ r \in Req
        /\ results \in [Req -> Seq(BOOLEAN)]
    BY <1>1 DEF FlightInv, Flight, JobInv, Job, Size, IInv, Submitted
  <1>3. f.job.out[n] = Reference[r]
    BY <1>1, <1>2, ReturnedRight DEF FlightInv
  <1>4. /\ UNCHANGED <<pending, submitted>>
        /\ flights' = (flights \ {f}) \cup {h \in {g} : n < Size(f.job)}
    BY DEF Send
  <1>5. g.job = f.job /\ g.sent = n
    BY <1>1 DEF FlightInv, Flight
  <1>6. results'[r] = <<Reference[r]>> /\ \A q \in Req : q # r => results'[q] = results[q]
    <2>1. results[r] = <<>> /\ results' = [results EXCEPT ![r] = Append(results[r], f.job.out[n])]
      BY DEF Send
    <2> HIDE DEF r, n
    <2>2. Append(results[r], f.job.out[n]) = <<Reference[r]>>
      BY <1>3, <2>1
    <2> QED
      BY <1>2, <2>1, <2>2
  <1> HIDE DEF g
  <1>7. \A i \in 1 .. Len(pending) : pending[i] \in Req /\ pending[i] # r
    BY SMTT(30), <1>2 DEF PlaceInv, Apart, Size, IInv, GateTypeOK
  <1>8. \A h \in flights : \A i \in 1 .. Size(h.job) : h.job.items[i] \in Req
    BY DEF IInv, FlightInv, Flight, Job, Size
  <1>9. \A h \in flights \ {f} : \A i \in 1 .. Size(h.job) : h.job.items[i] # r
    BY <1>2 DEF PlaceInv, Apart, Size
  <1>10. \A i \in 1 .. Size(f.job) : i # n => f.job.items[i] # r
    BY <1>2 DEF PlaceInv, Distinct, Size
  <1>11. ASSUME NEW h \in flights'
         PROVE  Distinct(h.job.items) /\ Apart(h.job.items, pending') /\ Sent(h)'
    <2>1. CASE h \in flights \ {f}
      BY <1>4, <1>6, <1>8, <1>9, <2>1 DEF PlaceInv, Sent
    <2>2. CASE h = g
      <3>1. Sent(g)'
        <4> SUFFICES ASSUME NEW i \in 1 .. Size(f.job)
                     PROVE  results'[f.job.items[i]] =
                              IF i <= n THEN <<Reference[f.job.items[i]]>> ELSE <<>>
          BY <1>5 DEF Sent
        <4>1. CASE i = n
          BY <1>2, <1>6, <4>1
        <4>2. CASE i # n
          <5>1. results'[f.job.items[i]] = results[f.job.items[i]]
            BY <1>6, <1>8, <1>10, <4>2
          <5>2. i <= n <=> i <= f.sent
            BY <1>2, <4>2
          <5> QED
            BY <5>1, <5>2 DEF PlaceInv, Sent
        <4> QED
          BY <4>1, <4>2
      <3> QED
        BY <1>4, <1>5, <2>2, <3>1 DEF PlaceInv
    <2> QED
      BY <1>4, <2>1, <2>2
  <1>12. \A h, k \in flights' : h # k => Apart(h.job.items, k.job.items)
    BY <1>4, <1>5 DEF PlaceInv
  <1>13. ASSUME NEW q \in submitted', results'[q] # <<Reference[q]>>,
                ~\E i \in 1 .. Len(pending') : pending'[i] = q
         PROVE  \E h \in flights' : \E i \in h.sent + 1 .. Size(h.job) : h.job.items[i] = q
    <2>1. q # r /\ q \in submitted /\ q \in Req /\ results[q] # <<Reference[q]>>
      BY <1>4, <1>6, <1>13 DEF IInv, Submitted
    <2>2. PICK h \in flights : \E i \in h.sent + 1 .. Size(h.job) : h.job.items[i] = q
      BY <1>4, <1>13, <2>1 DEF PlaceInv
    <2>3. CASE h # f
      BY <1>4, <2>2, <2>3
    <2>4. CASE h = f
      <3>1. PICK i \in f.sent + 1 .. Size(f.job) : f.job.items[i] = q
        BY <2>2, <2>4
      <3>2. i \in n + 1 .. Size(f.job) /\ n < Size(f.job)
        BY <1>2, <2>1, <3>1
      <3> QED
        BY <1>4, <1>5, <3>1, <3>2
    <2> QED
      BY <2>3, <2>4
  <1>14. \A q \in Req \ submitted' : results'[q] = <<>>
    <2>1. r \in submitted
      BY SMTT(30), <1>1, <1>2 DEF FlightInv
    <2> QED
      BY <1>4, <1>6, <2>1 DEF PlaceInv
  <1>15. \A i \in 1 .. Len(pending') : results'[pending'[i]] = <<>>
    BY <1>4, <1>6, <1>7 DEF PlaceInv
  <1> QED
    BY <1>4, <1>11, <1>12, <1>13, <1>14, <1>15 DEF PlaceInv

LEMMA StepPlace == IInv /\ PlaceInv /\ [Next]_vars => PlaceInv'
  <1> SUFFICES ASSUME IInv, PlaceInv, [Next]_vars
               PROVE  PlaceInv'
    OBVIOUS
  <1>a. \A f \in flights : \A i \in 1 .. Len(f.job.items) : f.job.items[i] \in submitted
    BY DEF IInv, FlightInv, Size
  <1>b. pending \in Seq(Req) /\ Len(pending) \in Nat /\ Len(pending) < MaxBatch /\ MaxBatch \in Nat
    BY GateAssumption DEF IInv, GateTypeOK
  <1>1. ASSUME NEW r \in Req, r \notin submitted
        PROVE  LET b == Append(pending, r) IN
               /\ b \in Seq(Req) /\ Len(b) = Len(pending) + 1 /\ Distinct(b)
               /\ \A i \in 1 .. Len(pending) : b[i] = pending[i]
               /\ b[Len(b)] = r
               /\ \A i \in 1 .. Len(b) : results[b[i]] = <<>>
               /\ \A f \in flights : Apart(f.job.items, b)
    <2> DEFINE b == Append(pending, r)
    <2>1. /\ b \in Seq(Req) /\ Len(b) = Len(pending) + 1 /\ b[Len(b)] = r
          /\ \A i \in 1 .. Len(pending) : b[i] = pending[i]
      BY <1>b
    <2> HIDE DEF b
    <2>2. \A i \in 1 .. Len(pending) : pending[i] # r
      BY <1>1 DEF IInv, Submitted
    <2>3. \A i \in 1 .. Len(b) : i = Len(b) \/ i \in 1 .. Len(pending)
      BY <1>b, <2>1
    <2>4. Distinct(b)
      BY <2>1, <2>2, <2>3 DEF PlaceInv, Distinct
    <2>5. \A i \in 1 .. Len(b) : results[b[i]] = <<>>
      BY <1>1, <2>1, <2>3 DEF PlaceInv
    <2>6. \A f \in flights : Apart(f.job.items, b)
      BY <1>a, <1>1, <2>1, <2>3 DEF PlaceInv, Apart
    <2> QED
      BY <2>1, <2>4, <2>5, <2>6 DEF b
  <1>2. ASSUME NEW r \in Req, SubmitFull(r)
        PROVE  PlaceInv'
    <2> DEFINE b == Append(pending, r)
    <2>1. /\ r \notin submitted /\ pending' = <<>> /\ submitted' = submitted \cup {r}
          /\ Launch(b) /\ UNCHANGED results
      BY <1>2 DEF SubmitFull, TakeLocked
    <2>2. /\ b \in Seq(Req) /\ Len(b) = Len(pending) + 1 /\ Distinct(b)
          /\ \A i \in 1 .. Len(pending) : b[i] = pending[i]
          /\ b[Len(b)] = r
          /\ \A i \in 1 .. Len(b) : results[b[i]] = <<>>
          /\ \A f \in flights : Apart(f.job.items, b)
      BY <1>1, <2>1
    <2> HIDE DEF b
    <2>3. Len(b) \in 1 .. MaxBatch
      BY <1>b, <2>2
    <2>4. \A i \in 1 .. Len(pending) : i \in 1 .. Len(b)
      BY <1>b, <2>2
    <2> QED
      BY LaunchPlace, <2>1, <2>2, <2>3, <2>4
  <1>3. ASSUME NEW r \in Req, SubmitWait(r)
        PROVE  PlaceInv'
    <2>1. /\ r \notin submitted /\ pending' = Append(pending, r) /\ submitted' = submitted \cup {r}
          /\ UNCHANGED <<flights, results>>
      BY <1>3 DEF SubmitWait
    <2>2. /\ pending' \in Seq(Req) /\ Len(pending') = Len(pending) + 1 /\ Distinct(pending')
          /\ \A i \in 1 .. Len(pending) : pending'[i] = pending[i]
          /\ pending'[Len(pending')] = r
          /\ \A i \in 1 .. Len(pending') : results[pending'[i]] = <<>>
          /\ \A f \in flights : Apart(f.job.items, pending')
      BY <1>1, <2>1
    <2>3. \A f \in flights' : Sent(f)'
      BY <2>1 DEF PlaceInv, Sent
    <2>4. ASSUME NEW q \in submitted', results'[q] # <<Reference[q]>>
          PROVE  \/ \E i \in 1 .. Len(pending') : pending'[i] = q
                 \/ \E f \in flights' : \E i \in f.sent + 1 .. Size(f.job) : f.job.items[i] = q
      <3>1. \A i \in 1 .. Len(pending) : i \in 1 .. Len(pending')
        BY <1>b, <2>2
      <3>2. CASE q = r
        BY <1>b, <2>2, <3>2
      <3>3. CASE q # r
        BY <2>1, <2>2, <2>4, <3>1, <3>3 DEF PlaceInv
      <3> QED
        BY <3>2, <3>3
    <2> QED
      BY <2>1, <2>2, <2>3, <2>4 DEF PlaceInv
  <1>4. ASSUME UNCHANGED <<pending, flights, submitted, results>>
        PROVE  PlaceInv'
    BY <1>4 DEF PlaceInv, Sent
  <1>5. ASSUME NEW i \in fired, OnTimer(i)
        PROVE  PlaceInv'
    <2>1. pending' = <<>> /\ UNCHANGED <<submitted, results>>
      BY <1>5 DEF OnTimer, TakeLocked
    <2>2. CASE pending = <<>>
      BY <1>4, <1>5, <2>1, <2>2 DEF OnTimer
    <2>3. CASE pending # <<>>
      <3>1. Launch(pending) /\ Len(pending) \in 1 .. MaxBatch
        BY <1>5, <1>b, <2>3 DEF OnTimer
      <3>2. Distinct(pending) /\ (\A f \in flights : Apart(f.job.items, pending))
            /\ \A k \in 1 .. Len(pending) : results[pending[k]] = <<>>
        BY DEF PlaceInv
      <3> QED
        BY LaunchPlace, <1>b, <2>1, <3>1, <3>2
    <2> QED
      BY <2>2, <2>3
  <1>6. ASSUME NEW f \in flights, StartWorker(f)
        PROVE  PlaceInv'
    <2>1. JobInv(f.job) /\ Spawning(f.job)
      BY <1>6 DEF StartWorker, IInv, FlightInv
    <2> QED
      BY AdvancePlace, SpawnInv, <1>6, <2>1 DEF StartWorker
  <1>7. ASSUME NEW f \in flights, NEW g \in f.job.running, VerifyOne(f, g)
        PROVE  PlaceInv'
    <2>1. JobInv(f.job)
      BY DEF IInv, FlightInv
    <2> QED
      BY AdvancePlace, WriteInv, <1>7, <2>1 DEF VerifyOne
  <1> QED
    BY <1>2, <1>3, <1>4, <1>5, <1>6, <1>7, SendPlace DEF Next, Flush, Fire, vars

(* The places of PlaceInv are those OneResult counts.                        *)
LEMMA PlaceOne == IInv /\ PlaceInv => OneResult
  <1> SUFFICES ASSUME IInv, PlaceInv, NEW r \in submitted
               PROVE  \/ results[r] = <<>> /\ \E w \in Waiting(r) : Waiting(r) = {w}
                      \/ results[r] = <<Reference[r]>> /\ Waiting(r) = {}
    BY DEF OneResult
  <1> DEFINE Held(i) == i \in 1 .. Len(pending) /\ pending[i] = r
             Flown(f, i) == f \in flights /\ i \in f.sent + 1 .. Size(f.job) /\ f.job.items[i] = r
  <1>1. DOMAIN pending = 1 .. Len(pending)
    BY DEF IInv, GateTypeOK
  <1>2. ASSUME NEW w \in Waiting(r)
        PROVE  (\E i : Held(i) /\ w = << <<>>, i >>) \/ (\E f, i : Flown(f, i) /\ w = <<f.job.items, i>>)
    BY <1>1, <1>2 DEF Waiting
  <1>3. \A i : Held(i) => << <<>>, i >> \in Waiting(r)
    BY <1>1 DEF Waiting
  <1>4. \A f, i : Flown(f, i) => <<f.job.items, i>> \in Waiting(r)
    BY DEF Waiting
  <1>5. ASSUME NEW f, NEW i, Flown(f, i)
        PROVE  i \in 1 .. Len(f.job.items) /\ ~(i <= f.sent) /\ Size(f.job) = Len(f.job.items)
    BY <1>5 DEF IInv, FlightInv, Flight, Size, JobInv
  <1>6. \A i : Held(i) => results[r] = <<>>
    BY DEF PlaceInv
  <1>7. ASSUME NEW f, NEW i, Flown(f, i)
        PROVE  results[r] = <<>>
    <2>1. i \in 1 .. Size(f.job) /\ ~(i <= f.sent)
      BY <1>5, <1>7
    <2>2. Sent(f)
      BY <1>7 DEF PlaceInv
    <2> QED
      BY <1>7, <2>1, <2>2 DEF Sent
  <1>8. \A i, k : Held(i) /\ Held(k) => i = k
    BY DEF PlaceInv, Distinct
  <1>9. \A i, f, k : ~(Held(i) /\ Flown(f, k))
    BY <1>5 DEF PlaceInv, Apart
  <1>10. \A f, g, i, k : Flown(f, i) /\ Flown(g, k) => f = g /\ i = k
    <2>1. \A f, g, i, k : Flown(f, i) /\ Flown(g, k) => f = g
      BY <1>5 DEF PlaceInv, Apart
    <2>2. \A f, i, k : Flown(f, i) /\ Flown(f, k) => i = k
      BY <1>5 DEF PlaceInv, Distinct
    <2> HIDE DEF Flown
    <2> QED
      BY <2>1, <2>2
  <1>11. <<Reference[r]>> # <<>>
    OBVIOUS
  <1>12. (results[r] = <<Reference[r]>>) \/ (\E i : Held(i)) \/ (\E f, i : Flown(f, i))
    BY DEF PlaceInv
  <1> HIDE DEF Held, Flown
  <1>13. CASE \E i : Held(i)
    <2>1. PICK i : Held(i)
      BY <1>13
    <2>2. Waiting(r) = {<< <<>>, i >>}
      BY <1>2, <1>3, <1>8, <1>9, <2>1
    <2> QED
      BY <1>6, <2>1, <2>2
  <1>14. CASE \E f, i : Flown(f, i)
    <2>1. PICK f, i : Flown(f, i)
      BY <1>14
    <2>2. Waiting(r) = {<<f.job.items, i>>}
      BY <1>2, <1>4, <1>9, <1>10, <2>1
    <2> QED
      BY <1>7, <2>1, <2>2
  <1>15. CASE results[r] = <<Reference[r]>>
    BY <1>2, <1>6, <1>7, <1>11, <1>15
  <1> QED
    BY <1>12, <1>13, <1>14, <1>15

(* Whatever the batches, the stale timers and the order of the goroutines: a *)
(* submitted request is in pending or in one batch, once, until it is        *)
(* answered, and is answered once, with the verdict on itself.               *)
THEOREM OneResultTheorem == Spec => []OneResult
  <1>1. Spec => []PlaceInv
    BY Invariance, InitPlace, StepPlace, PTL DEF Spec
  <1> QED
    BY <1>1, Invariance, PlaceOne, PTL

(* flush never blocks: when VerifyBatch has returned, the channel of the     *)
(* next request of the batch has room for its value.                         *)
THEOREM SendNeverBlocks ==
  Spec => [](\A f \in flights : Returned(f.job) => results[f.job.items[f.sent + 1]] = <<>>)
  <1>1. Spec => []PlaceInv
    BY Invariance, InitPlace, StepPlace, PTL DEF Spec
  <1>2. ASSUME IInv, PlaceInv, NEW f \in flights
        PROVE  results[f.job.items[f.sent + 1]] = <<>>
    <2>1. f.sent + 1 \in 1 .. Size(f.job) /\ ~(f.sent + 1 <= f.sent)
      BY <1>2 DEF IInv, FlightInv, Flight, JobInv
    <2> QED
      BY <1>2, <2>1 DEF PlaceInv, Sent
  <1>3. IInv /\ PlaceInv =>
          \A f \in flights : Returned(f.job) => results[f.job.items[f.sent + 1]] = <<>>
    BY <1>2
  <1> QED
    BY <1>1, <1>3, Invariance, PTL

(* The gate with its timers, its batches and the goroutines of the CPU       *)
(* verifier implements the service its callers see: each step of it is the   *)
(* submission of a request, its one answer by the reference verdict, or      *)
(* nothing they can observe.                                                 *)
THEOREM GateRefines == Spec => Verdicts!Spec
  <1>1. Init => Verdicts!Init
    BY DEF Init, Verdicts!Init
  <1>2. IInv /\ [Next]_vars => [Verdicts!Next]_Verdicts!vars
    <2> SUFFICES ASSUME IInv, [Next]_vars
                 PROVE  [Verdicts!Next]_Verdicts!vars
      OBVIOUS
    <2>1. ASSUME NEW r \in Req, SubmitFull(r) \/ SubmitWait(r)
          PROVE  Verdicts!Next
      BY <2>1 DEF SubmitFull, SubmitWait, Verdicts!Next, Verdicts!Ask
    <2>2. ASSUME NEW i, Fire(i) \/ OnTimer(i)
          PROVE  UNCHANGED Verdicts!vars
      BY <2>2 DEF Fire, OnTimer, Verdicts!vars
    <2>3. ASSUME NEW f, NEW j, Advance(f, j)
          PROVE  UNCHANGED Verdicts!vars
      BY <2>3 DEF Advance, Verdicts!vars
    <2>4. ASSUME NEW f \in flights, Send(f)
          PROVE  Verdicts!Next
      <3> DEFINE i == f.sent + 1
                 r == f.job.items[i]
      <3>1. FlightInv(f) /\ Returned(f.job)
        BY <2>4 DEF IInv, Send
      <3>2. i \in 1 .. Size(f.job) /\ r \in submitted /\ r \in Req
        <4>1. f.sent \in Nat
          BY <3>1 DEF FlightInv, Flight
        <4>2. Size(f.job) \in Nat /\ f.sent < Size(f.job)
          BY <3>1, GateAssumption DEF FlightInv, JobInv
        <4>3. i \in 1 .. Size(f.job)
          BY <4>1, <4>2
        <4>4. r \in submitted
          BY <3>1, <4>3 DEF FlightInv
        <4>5. submitted \subseteq Req
          BY DEF IInv, Submitted
        <4> QED
          BY <4>3, <4>4, <4>5
      <3>3. f.job.out[i] = Reference[r]
        BY <3>1, <3>2, ReturnedRight DEF FlightInv
      <3>4. /\ results[r] = <<>> /\ UNCHANGED submitted
            /\ results' = [results EXCEPT ![r] = Append(results[r], f.job.out[i])]
        BY <2>4 DEF Send
      <3> HIDE DEF i, r
      <3>5. results' = [results EXCEPT ![r] = <<Reference[r]>>]
        BY <3>3, <3>4
      <3> QED
        BY <3>2, <3>4, <3>5 DEF Verdicts!Next, Verdicts!Answer
    <2>5. CASE UNCHANGED vars
      BY <2>5 DEF vars, Verdicts!vars
    <2> QED
      BY <2>1, <2>2, <2>3, <2>4, <2>5 DEF Next, Flush, StartWorker, VerifyOne
  <1> QED
    BY <1>1, <1>2, Invariance, PTL DEF Spec, Verdicts!Spec
=============================================================================
