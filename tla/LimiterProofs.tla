--------------------------- MODULE LimiterProofs ---------------------------
(***************************************************************************)
(* No span of time sees more requests of a client allowed than its burst   *)
(* and refill, for any rate and any waits for the lock short of a minute.  *)
(* The bucket is compared with the line "one token per 1/rate second":     *)
(* tokens minus rate * last never rises but when a bucket is made again,   *)
(* and by then the old one would have been full.  The converse account     *)
(* shows that a refused client got the full rate through.                  *)
(***************************************************************************)
EXTENDS Limiter, TLAPS

Credit(t) == Rate * t               \* what t ticks refill
Charge(n) == n * PerSecond          \* what n requests cost

LEMMA CreditInt == \A t \in Int : Credit(t) \in Int
  BY LimiterAssumption DEF Credit

LEMMA CreditSum == \A r, t \in Int : Credit(r + t) = Credit(r) + Credit(t)
  BY LimiterAssumption DEF Credit

LEMMA CreditMono == \A r, t \in Int : r <= t => Credit(r) <= Credit(t)
  <1> SUFFICES ASSUME NEW r \in Int, NEW t \in Int, r <= t
               PROVE  Credit(r) <= Credit(t)
    OBVIOUS
  <1> DEFINE d == t - r
  <1>1. d \in Nat /\ t = r + d
    OBVIOUS
  <1> HIDE DEF d
  <1>2. Credit(t) = Credit(r) + Credit(d)
    BY <1>1, CreditSum
  <1>3. Rate * d >= 0
    BY <1>1, LimiterAssumption
  <1> QED
    BY <1>2, <1>3, <1>1, CreditInt DEF Credit

LEMMA BurstCredit == Burst = Credit(PerSecond) /\ Burst \in Int /\ Burst >= PerSecond
  <1>1. Burst = Credit(PerSecond)
    BY DEF Burst, Credit
  <1>2. Burst \in Int
    BY <1>1, CreditInt, LimiterAssumption
  <1>3. Rate * PerSecond >= 1 * PerSecond
    BY LimiterAssumption
  <1> QED
    BY <1>1, <1>2, <1>3, LimiterAssumption DEF Burst

LEMMA ChargeStep == \A n \in Nat : Charge(n) \in Int /\ Charge(n + 1) = Charge(n) + PerSecond
  BY LimiterAssumption DEF Charge

LEMMA ChargeZero == Charge(0) = 0
  BY LimiterAssumption DEF Charge

-----------------------------------------------------------------------------
Request == [client : Clients, now : Nat]
BucketRec == [tokens : Int, last : Int]

(* The requests waiting for the lock are recent.                             *)
Waiting ==
  /\ clock \in Nat
  /\ req \in [Handlers -> {NoReq} \cup Request]
  /\ \A h \in Handlers : req[h] # NoReq => req[h].now <= clock /\ clock <= req[h].now + MaxLag

Buckets == DOMAIN b \subseteq Clients /\ \A c \in DOMAIN b : b[c] \in BucketRec

(* m is the latest time the bucket has seen; an overtaken request takes it   *)
(* back by MaxLag at most, and the tokens it takes are missing until m only. *)
Solvent(bk, now) ==
  \E m \in Int : /\ m <= now /\ bk.last <= m /\ m <= bk.last + MaxLag
                 /\ bk.tokens + Credit(m) - Credit(bk.last) >= 0

(* The bucket has paid for what was granted in the window.                   *)
Covers(bk, n, from) == n > 0 => Charge(n) + bk.tokens <= Burst + Credit(bk.last) - Credit(from)

HeldInv ==
  Watched \in DOMAIN b =>
    /\ b[Watched].tokens <= Burst
    /\ Solvent(b[Watched], clock)
    /\ Covers(b[Watched], granted, window.from)

(* Without a bucket, its next one may be full.                               *)
Refreshed(n, t, from) == n > 0 => Charge(n) <= Credit(t) - Credit(from)
DroppedInv ==
  Watched \notin DOMAIN b =>
    /\ Refreshed(granted, clock, window.from)
    /\ \A h \in Handlers : req[h] # NoReq => Refreshed(granted, req[h].now, window.from)

Bounded ==
  /\ window \in Windows /\ granted \in Nat
  /\ granted > 0 => Charge(granted) <= Burst + Credit(window.upto) - Credit(window.from)

Metered == Waiting /\ Buckets /\ HeldInv /\ DroppedInv /\ Bounded

LEMMA WindowType ==
  ASSUME Bounded
  PROVE  window.from \in Nat /\ window.upto \in Nat
  BY LimiterAssumption DEF Bounded

LEMMA InitMetered == LimiterInit => Metered
  <1> SUFFICES ASSUME LimiterInit
               PROVE  Metered
    OBVIOUS
  <1>1. DOMAIN b = {}
    BY DEF LimiterInit
  <1>2. Waiting
    BY LimiterAssumption DEF LimiterInit, Waiting
  <1>3. Buckets /\ HeldInv
    BY <1>1 DEF Buckets, HeldInv
  <1>4. granted = 0 /\ window \in Windows
    BY DEF LimiterInit
  <1> QED
    BY <1>2, <1>3, <1>4 DEF Metered, DroppedInv, Bounded, Refreshed

(* Refilling and charging keep a bucket in order.                            *)
LEMMA RefillStep ==
  ASSUME NEW bk \in BucketRec, NEW now \in Nat, NEW time \in Nat, now <= time, time <= now + MaxLag,
         bk.tokens <= Burst, Solvent(bk, time), NEW n \in Nat, NEW from \in Nat,
         Covers(bk, n, from)
  PROVE  /\ Refilled(bk, now) \in BucketRec /\ Refilled(bk, now).last = now
         /\ Refilled(bk, now).tokens <= Burst
         /\ Solvent(Refilled(bk, now), time)
         /\ Covers(Refilled(bk, now), n, from)
  <1> DEFINE t == bk.tokens + Rate * (now - bk.last)
             r == Refilled(bk, now)
  <1> USE LimiterAssumption
  <1>1. bk.tokens \in Int /\ bk.last \in Int /\ Burst \in Int
    BY BurstCredit DEF BucketRec
  <1>2. t = bk.tokens + Credit(now) - Credit(bk.last)
    <2>1. Rate * (now - bk.last) = Credit(now) - Credit(bk.last)
      BY <1>1, LimiterAssumption DEF Credit
    <2>2. Credit(now) \in Int /\ Credit(bk.last) \in Int
      BY <1>1, CreditInt
    <2> QED
      BY <1>1, <2>1, <2>2
  <1>3. Credit(now) \in Int /\ Credit(bk.last) \in Int /\ Credit(from) \in Int /\ Charge(n) \in Int
    BY <1>1, CreditInt, ChargeStep
  <1>4. r.last = now /\ r.tokens = IF t > Burst THEN Burst ELSE t
    BY DEF Refilled
  <1>5. r \in BucketRec
    BY <1>1, <1>2, <1>3 DEF Refilled, BucketRec
  <1> HIDE DEF t, r
  <1>6. r.tokens <= Burst /\ r.tokens <= t /\ t \in Int
    BY <1>1, <1>2, <1>3, <1>4
  <1>7. Solvent(r, time)
    <2>1. PICK m \in Int : /\ m <= time /\ bk.last <= m /\ m <= bk.last + MaxLag
                           /\ bk.tokens + Credit(m) - Credit(bk.last) >= 0
      BY DEF Solvent
    <2>2. Credit(m) \in Int
      BY CreditInt
    <2>3. CASE now >= m
      <3>1. Credit(m) <= Credit(now)
        BY <2>3, CreditMono
      <3>2. r.tokens + Credit(now) - Credit(r.last) >= 0
        BY <1>1, <1>2, <1>3, <1>4, <2>1, <2>2, <3>1, BurstCredit
      <3> QED
        BY <1>4, <3>2 DEF Solvent
    <2>4. CASE now < m
      <3>1. Credit(now) <= Credit(m)
        BY <2>4, CreditMono
      <3>2. r.tokens + Credit(m) - Credit(r.last) >= 0
        BY <1>1, <1>2, <1>3, <1>4, <2>1, <2>2, <3>1, BurstCredit
      <3> QED
        BY <1>4, <2>1, <2>4, <3>2 DEF Solvent
    <2> QED
      BY <2>3, <2>4
  <1>8. Covers(r, n, from)
    BY <1>1, <1>2, <1>3, <1>4, <1>6 DEF Covers
  <1> QED
    BY <1>4, <1>5, <1>6, <1>7, <1>8 DEF r

(* A fresh bucket is in order if the client's window was refreshed.          *)
LEMMA FreshStep ==
  ASSUME NEW now \in Nat, NEW time \in Nat, now <= time, NEW n \in Nat, NEW from \in Nat,
         Refreshed(n, now, from)
  PROVE  /\ NewBucket(now) \in BucketRec /\ NewBucket(now).last = now
         /\ NewBucket(now).tokens <= Burst
         /\ Solvent(NewBucket(now), time)
         /\ Covers(NewBucket(now), n, from)
  <1>1. /\ NewBucket(now) \in BucketRec /\ NewBucket(now).last = now
        /\ NewBucket(now).tokens = Burst /\ Burst \in Int /\ Burst >= 0
    BY BurstCredit, LimiterAssumption DEF NewBucket, BucketRec
  <1>2. Credit(now) \in Int /\ Credit(from) \in Int /\ Charge(n) \in Int
    BY CreditInt, ChargeStep
  <1>3. Solvent(NewBucket(now), time)
    BY <1>1, <1>2, LimiterAssumption DEF Solvent
  <1>4. Covers(NewBucket(now), n, from)
    BY <1>1, <1>2 DEF Covers, Refreshed
  <1> QED
    BY <1>1, <1>3, <1>4

(* A request is allowed, and counted if its time is in the window.           *)
LEMMA ChargedStep ==
  ASSUME NEW bk \in BucketRec, NEW now \in Nat, NEW time \in Nat, now <= time, bk.last = now,
         bk.tokens <= Burst, Granting(bk), NEW n \in Nat, NEW from \in Nat,
         Covers(bk, n, from), NEW count \in Nat, count = n \/ (count = n + 1 /\ from <= now)
  PROVE  /\ Charged(bk) \in BucketRec
         /\ Charged(bk).tokens <= Burst
         /\ Solvent(Charged(bk), time)
         /\ Covers(Charged(bk), count, from)
         /\ count = n + 1 => Charge(count) <= Burst + Credit(now) - Credit(from)
  <1> DEFINE r == Charged(bk)
  <1>1. r \in BucketRec /\ r.last = now /\ r.tokens = bk.tokens - PerSecond
    BY LimiterAssumption DEF Charged, BucketRec
  <1>2. bk.tokens \in Int /\ bk.tokens >= PerSecond
    BY DEF BucketRec, Granting
  <1>3. Burst \in Int /\ Credit(now) \in Int /\ Credit(from) \in Int
    BY CreditInt, BurstCredit
  <1> HIDE DEF r
  <1>4. r.tokens <= Burst /\ r.tokens >= 0
    BY <1>1, <1>2, <1>3, LimiterAssumption
  <1>5. Solvent(r, time)
    <2>1. now \in Int /\ r.last <= now /\ now <= r.last + MaxLag
      BY <1>1, LimiterAssumption
    <2>2. r.tokens + Credit(now) - Credit(r.last) >= 0
      BY <1>1, <1>2, <1>3, <1>4, LimiterAssumption
    <2> QED
      BY <2>1, <2>2 DEF Solvent
  <1>6. Covers(r, count, from)
    <2>1. CASE count = n
      BY <1>1, <1>2, <1>3, <2>1, ChargeStep, LimiterAssumption DEF Covers
    <2>2. CASE count = n + 1 /\ from <= now
      <3>1. Charge(count) = Charge(n) + PerSecond /\ Charge(n) \in Int /\ Credit(from) <= Credit(now)
        BY <2>2, ChargeStep, CreditMono
      <3>2. CASE n = 0
        BY <1>1, <1>2, <1>3, <3>1, <3>2, ChargeZero, LimiterAssumption DEF Covers
      <3>3. CASE n > 0
        BY <1>1, <1>2, <1>3, <3>1, <3>3, LimiterAssumption DEF Covers
      <3> QED
        BY <3>2, <3>3
    <2> QED
      BY <2>1, <2>2
  <1>7. count = n + 1 => Charge(count) <= Burst + Credit(now) - Credit(from)
    <2>1. Charge(count) \in Int
      BY ChargeStep
    <2>2. r.tokens \in Int
      BY <1>1 DEF BucketRec
    <2>3. count = n + 1 => Charge(count) + r.tokens <= Burst + Credit(now) - Credit(from)
      BY <1>1, <1>6 DEF Covers
    <2> QED
      BY <1>3, <1>4, <2>1, <2>2, <2>3
  <1> QED
    BY <1>1, <1>4, <1>5, <1>6, <1>7 DEF r

(* A bucket idle for a minute would be full at the time of any request that  *)
(* is still to come or waits for the lock.                                   *)
LEMMA DropStep ==
  ASSUME NEW bk \in BucketRec, NEW now \in Nat, NEW time \in Nat, now <= time, time <= now + MaxLag,
         Solvent(bk, time), Stale(bk, now), NEW n \in Nat, NEW from \in Nat, Covers(bk, n, from),
         NEW t \in Nat, time <= t + MaxLag
  PROVE  Refreshed(n, t, from)
  <1>1. PICK m \in Int : /\ bk.last <= m /\ m <= bk.last + MaxLag
                         /\ bk.tokens + Credit(m) - Credit(bk.last) >= 0
    BY DEF Solvent
  <1>2. bk.tokens \in Int /\ bk.last \in Int /\ m + PerSecond <= t
    BY <1>1, LimiterAssumption DEF Stale, BucketRec
  <1>3. /\ Credit(m) \in Int /\ Credit(bk.last) \in Int /\ Credit(from) \in Int /\ Credit(t) \in Int
        /\ Charge(n) \in Int
    BY <1>2, CreditInt, ChargeStep
  <1>4. Credit(m) + Burst <= Credit(t) /\ Burst \in Int
    <2>1. Credit(m + PerSecond) = Credit(m) + Credit(PerSecond)
      BY CreditSum, LimiterAssumption
    <2>2. Credit(m + PerSecond) <= Credit(t)
      BY <1>2, CreditMono, LimiterAssumption
    <2> QED
      BY <2>1, <2>2, BurstCredit
  <1> QED
    BY <1>1, <1>2, <1>3, <1>4 DEF Covers, Refreshed

(* The map with a bucket for c: c's own or a new one, and of the others all  *)
(* but some stale ones.                                                      *)
LEMMA MapStep ==
  ASSUME Buckets, NEW c \in Clients, NEW now \in Nat
  PROVE  /\ DOMAIN WithBucket(c, now) \subseteq DOMAIN b \cup {c} /\ c \in DOMAIN WithBucket(c, now)
         /\ WithBucket(c, now)[c] = IF c \in DOMAIN b THEN b[c] ELSE NewBucket(now)
         /\ \A x \in DOMAIN WithBucket(c, now) : x # c => WithBucket(c, now)[x] = b[x]
         /\ \A x \in DOMAIN b \ DOMAIN WithBucket(c, now) : Stale(b[x], now)
  <1>1. CASE c \in DOMAIN b
    <2>1. WithBucket(c, now) = b
      BY <1>1 DEF WithBucket
    <2> QED
      BY <1>1, <2>1
  <1>2. CASE c \notin DOMAIN b
    <2> DEFINE m == [x \in DOMAIN b \cup {c} |-> IF x = c THEN NewBucket(now) ELSE b[x]]
               old == {x \in DOMAIN m : Stale(m[x], now)}
    <2>1. WithBucket(c, now) = m \/ WithBucket(c, now) = [x \in DOMAIN m \ old |-> m[x]]
      BY <1>2 DEF WithBucket
    <2>2. ~Stale(NewBucket(now), now)
      BY LimiterAssumption DEF Stale, NewBucket
    <2>3. c \notin old
      BY <2>2
    <2> QED
      BY <1>2, <2>1, <2>3
  <1> QED
    BY <1>1, <1>2

LEMMA StepMetered == Metered /\ [LimiterNext]_limiterVars => Metered'
  <1> SUFFICES ASSUME Metered, [LimiterNext]_limiterVars
               PROVE  Metered'
    OBVIOUS
  <1>w. window.from \in Nat /\ window.upto \in Nat /\ granted \in Nat /\ clock \in Nat
    BY WindowType DEF Metered, Bounded, Waiting
  <1>1. CASE Tick
    <2>1. /\ clock' = clock + 1 /\ UNCHANGED <<req, b, window, granted, late>>
          /\ \A h \in Handlers : req[h] # NoReq => clock - req[h].now < MaxLag
      BY <1>1 DEF Tick
    <2>2. Waiting'
      BY <2>1, LimiterAssumption DEF Metered, Waiting, Request
    <2>3. HeldInv'
      <3> SUFFICES ASSUME Watched \in DOMAIN b
                   PROVE  Solvent(b[Watched], clock + 1)
        BY <2>1 DEF Metered, HeldInv
      <3> QED
        BY <1>w DEF Metered, HeldInv, Solvent
    <2>4. DroppedInv'
      <3>1. Credit(clock) <= Credit(clock + 1) /\ Credit(clock) \in Int /\ Credit(clock + 1) \in Int
            /\ Credit(window.from) \in Int /\ Charge(granted) \in Int
        BY <1>w, CreditMono, CreditInt, ChargeStep
      <3> QED
        BY <2>1, <3>1 DEF Metered, DroppedInv, Refreshed
    <2> QED
      BY <2>1, <2>2, <2>3, <2>4 DEF Metered, Buckets, Bounded
  <1>2. ASSUME NEW h \in Handlers, NEW c \in Clients, Arrive(h, c)
        PROVE  Metered'
    <2> DEFINE r == [client |-> c, now |-> clock]
    <2>1. req' = [req EXCEPT ![h] = r] /\ UNCHANGED <<clock, b, window, granted, late>>
      BY <1>2 DEF Arrive
    <2>2. r \in Request /\ r.now = clock
      BY <1>w DEF Request
    <2> HIDE DEF r
    <2>3. \A x \in Handlers : req'[x] = IF x = h THEN r ELSE req[x]
      BY <2>1 DEF Metered, Waiting
    <2>4. Waiting'
      BY <1>w, <2>1, <2>2, <2>3, LimiterAssumption DEF Metered, Waiting
    <2>5. DroppedInv'
      BY <2>1, <2>2, <2>3 DEF Metered, DroppedInv
    <2> QED
      BY <2>1, <2>4, <2>5 DEF Metered, HeldInv, Buckets, Bounded
  <1>3. ASSUME NEW h \in Handlers, Allow(h)
        PROVE  Metered'
    <2> DEFINE c == req[h].client
               now == req[h].now
               m == WithBucket(c, now)
               bk == Refilled(m[c], now)
    <2>1. /\ req[h] # NoReq /\ req' = [req EXCEPT ![h] = NoReq] /\ UNCHANGED <<clock, window>>
          /\ b' = [m EXCEPT ![c] = Charged(bk)]
          /\ granted' = IF c = Watched /\ Granting(bk) /\ now \in window.from .. window.upto
                        THEN granted + 1 ELSE granted
      BY <1>3 DEF Allow
    <2>2. c \in Clients /\ now \in Nat /\ now <= clock /\ clock <= now + MaxLag
      BY <2>1 DEF Metered, Waiting, Request
    <2>3. /\ DOMAIN m \subseteq DOMAIN b \cup {c} /\ c \in DOMAIN m
          /\ m[c] = IF c \in DOMAIN b THEN b[c] ELSE NewBucket(now)
          /\ \A x \in DOMAIN m : x # c => m[x] = b[x]
          /\ \A x \in DOMAIN b \ DOMAIN m : Stale(b[x], now)
      BY <2>2, MapStep DEF Metered
    <2> HIDE DEF m
    <2>4. b'[c] = Charged(bk) /\ DOMAIN b' = DOMAIN m /\ \A x \in DOMAIN m : x # c => b'[x] = m[x]
      BY <2>1, <2>3
    <2>5. m[c] \in BucketRec /\ bk \in BucketRec /\ Charged(bk) \in BucketRec
      <3>1. m[c] \in BucketRec
        BY <2>2, <2>3, BurstCredit DEF Metered, Buckets, NewBucket, BucketRec
      <3>2. Rate * (now - m[c].last) \in Int
        BY <2>2, <3>1, LimiterAssumption DEF BucketRec
      <3>3. bk \in BucketRec
        BY <2>2, <3>1, <3>2, BurstCredit DEF Refilled, BucketRec
      <3> QED
        BY <3>1, <3>3, LimiterAssumption DEF Charged, BucketRec
    <2>6. Waiting'
      BY <2>1 DEF Metered, Waiting
    <2>7. Buckets'
      BY <2>2, <2>3, <2>4, <2>5 DEF Metered, Buckets
    <2>8. \A x \in Handlers : req'[x] # NoReq => req[x] # NoReq /\ req'[x] = req[x]
      BY <2>1 DEF Metered, Waiting
    <2>9. CASE c # Watched
      <3>1. granted' = granted
        BY <2>1, <2>9
      <3>2. HeldInv'
        BY <2>1, <2>3, <2>4, <2>9, <3>1 DEF Metered, HeldInv
      <3>3. DroppedInv'
        <4>1. CASE Watched \notin DOMAIN b
          BY <2>1, <2>8, <3>1, <4>1 DEF Metered, DroppedInv
        <4>2. CASE Watched \in DOMAIN b /\ Watched \notin DOMAIN m
          <5>1. /\ Stale(b[Watched], now) /\ b[Watched] \in BucketRec
                /\ Solvent(b[Watched], clock) /\ Covers(b[Watched], granted, window.from)
            BY <2>3, <4>2 DEF Metered, HeldInv, Buckets
          <5>2. \A t \in Nat : clock <= t + MaxLag => Refreshed(granted, t, window.from)
            BY <1>w, <2>2, <5>1, DropStep
          <5>3. \A x \in Handlers : req[x] # NoReq => req[x].now \in Nat /\ clock <= req[x].now + MaxLag
            BY DEF Metered, Waiting, Request
          <5>4. clock <= clock + MaxLag
            BY <1>w, LimiterAssumption
          <5> QED
            BY <1>w, <2>1, <2>8, <3>1, <5>2, <5>3, <5>4 DEF DroppedInv
        <4>3. CASE Watched \in DOMAIN m
          BY <2>4, <4>3 DEF DroppedInv
        <4> QED
          BY <4>1, <4>2, <4>3
      <3> QED
        BY <2>1, <2>6, <2>7, <3>1, <3>2, <3>3 DEF Metered, Bounded
    <2>10. CASE c = Watched
      <3>1. /\ m[c].tokens <= Burst /\ Solvent(m[c], clock)
            /\ Covers(m[c], granted, window.from)
        <4>1. CASE c \in DOMAIN b
          BY <2>3, <2>10, <4>1 DEF Metered, HeldInv
        <4>2. CASE c \notin DOMAIN b
          <5>1. Refreshed(granted, now, window.from)
            BY <2>1, <2>10, <4>2 DEF Metered, DroppedInv
          <5> QED
            BY <1>w, <2>2, <2>3, <4>2, <5>1, FreshStep
        <4> QED
          BY <4>1, <4>2
      <3>2. /\ bk.last = now /\ bk.tokens <= Burst /\ Solvent(bk, clock)
            /\ Covers(bk, granted, window.from)
        BY <1>w, <2>2, <2>5, <3>1, RefillStep
      <3>3. DroppedInv'
        BY <2>3, <2>4, <2>10 DEF DroppedInv
      <3>4. granted' \in Nat /\ (granted' = granted \/ (granted' = granted + 1 /\ window.from <= now))
        BY <1>w, <2>1, <2>2
      <3> HIDE DEF bk
      <3>5. CASE Granting(bk)
        <4>1. /\ Charged(bk).tokens <= Burst /\ Solvent(Charged(bk), clock)
              /\ Covers(Charged(bk), granted', window.from)
              /\ granted' = granted + 1 =>
                   Charge(granted') <= Burst + Credit(now) - Credit(window.from)
          BY <1>w, <2>2, <2>5, <3>2, <3>4, <3>5, ChargedStep
        <4>2. HeldInv'
          BY <2>1, <2>4, <2>10, <4>1 DEF HeldInv
        <4>3. Bounded'
          <5>1. CASE granted' = granted
            BY <2>1, <5>1 DEF Metered, Bounded
          <5>2. CASE granted' # granted
            <6>1. granted' = granted + 1 /\ now <= window.upto
              BY <1>w, <2>1, <2>2, <5>2
            <6>2. /\ Credit(now) <= Credit(window.upto) /\ Credit(now) \in Int
                  /\ Credit(window.upto) \in Int /\ Credit(window.from) \in Int
                  /\ Charge(granted') \in Int /\ Burst \in Int
              BY SMTT(30), <1>w, <2>2, <3>4, <6>1, CreditMono, CreditInt, ChargeStep, BurstCredit
            <6> QED
              BY <2>1, <3>4, <4>1, <6>1, <6>2 DEF Metered, Bounded
          <5> QED
            BY <5>1, <5>2
        <4> QED
          BY <2>6, <2>7, <3>3, <4>2, <4>3 DEF Metered
      <3>6. CASE ~Granting(bk)
        <4>1. granted' = granted /\ Charged(bk) = bk
          BY <2>1, <3>6 DEF Charged
        <4>2. HeldInv'
          BY <2>1, <2>4, <2>10, <3>2, <4>1 DEF HeldInv
        <4> QED
          BY <2>1, <2>6, <2>7, <3>3, <4>1, <4>2 DEF Metered, Bounded
      <3> QED
        BY <3>5, <3>6
    <2> QED
      BY <2>9, <2>10
  <1>4. CASE UNCHANGED limiterVars
    BY <1>4 DEF limiterVars, Metered, Waiting, Buckets, HeldInv, DroppedInv, Bounded
  <1> QED
    BY <1>1, <1>2, <1>3, <1>4 DEF LimiterNext

(* For any rate, any clients and handlers and any span of time, whatever     *)
(* order the lock is taken in: a client gets no more requests through allow  *)
(* than the burst and the refill of the span, though buckets are dropped.    *)
THEOREM LimiterTheorem == LimiterSpec => []WindowBound
  <1>1. Metered => WindowBound
    <2> SUFFICES ASSUME Metered, window.from <= window.upto
                 PROVE  Charge(granted) <= Burst + Rate * (window.upto - window.from)
      BY DEF WindowBound, Charge
    <2>1. /\ window.from \in Nat /\ window.upto \in Nat /\ granted \in Nat
          /\ granted > 0 => Charge(granted) <= Burst + Credit(window.upto) - Credit(window.from)
      BY WindowType DEF Metered, Bounded
    <2>2. Rate * (window.upto - window.from) = Credit(window.upto) - Credit(window.from)
      BY <2>1, LimiterAssumption DEF Credit
    <2>3. /\ Credit(window.from) <= Credit(window.upto) /\ Credit(window.from) \in Int
          /\ Credit(window.upto) \in Int /\ Burst \in Int /\ Burst >= 0
      BY <2>1, CreditMono, CreditInt, BurstCredit, LimiterAssumption
    <2> QED
      BY <2>1, <2>2, <2>3, ChargeZero
  <1> QED
    BY <1>1, InitMetered, StepMetered, PTL DEF LimiterSpec

-----------------------------------------------------------------------------
(* A request is refused only to a busy client: as long as the requests of a  *)
(* client are not overtaken, what its bucket holds and what it was granted   *)
(* in the window come to the refill since the window began, or to the burst. *)

Earned(bk, n, from) ==
  bk.tokens + Charge(n) >= Burst \/ bk.tokens + Charge(n) >= Credit(bk.last - from + 1)

EarnedInv ==
  ~late /\ Watched \in DOMAIN b =>
    /\ b[Watched].tokens >= 0
    /\ b[Watched].last \in window.from .. window.upto => Earned(b[Watched], granted, window.from)

(* Refilling for a request at or after the last, whether that was in the     *)
(* window or before it.                                                      *)
LEMMA RefillEarned ==
  ASSUME NEW bk \in BucketRec, NEW now \in Nat, bk.last <= now, bk.tokens >= 0,
         NEW n \in Nat, NEW from \in Nat, bk.last >= from => Earned(bk, n, from)
  PROVE  /\ Refilled(bk, now).tokens >= 0
         /\ Earned(Refilled(bk, now), n, from)
<1> DEFINE t == bk.tokens + Rate * (now - bk.last)
           r == Refilled(bk, now)
<1>1. bk.tokens \in Int /\ bk.last \in Int /\ Burst \in Int /\ Burst >= 0
  BY BurstCredit, LimiterAssumption DEF BucketRec
<1>2. now - bk.last \in Int /\ now - from + 1 \in Int /\ bk.last - from + 1 \in Int
  BY <1>1
<1>3. /\ Credit(now - bk.last) \in Int /\ Credit(now - from + 1) \in Int
      /\ Credit(bk.last - from + 1) \in Int /\ Credit(0) = 0 /\ Charge(n) \in Int /\ Charge(n) >= 0
  <2>1. n * PerSecond >= 0
    BY LimiterAssumption
  <2>2. Credit(0) = 0
    BY LimiterAssumption DEF Credit
  <2> QED BY <1>2, <2>1, <2>2, CreditInt, ChargeStep DEF Charge
<1>4. t = bk.tokens + Credit(now - bk.last)
  BY DEF Credit
<1>5. r.last = now /\ r.tokens = IF t > Burst THEN Burst ELSE t
  BY DEF Refilled
<1> HIDE DEF t, r
<1>6. Credit(now - bk.last) >= 0
  <2>1. 0 <= now - bk.last
    BY <1>1
  <2> QED BY <1>2, <1>3, <2>1, CreditMono
<1>7. t \in Int /\ r.tokens >= 0
  BY <1>1, <1>3, <1>4, <1>5, <1>6
<1>8. ASSUME t > Burst PROVE Earned(r, n, from)
  BY <1>1, <1>3, <1>5, <1>8 DEF Earned
<1>9. ASSUME ~(t > Burst), bk.last >= from PROVE Earned(r, n, from)
  <2>1. Credit(now - from + 1) = Credit(now - bk.last) + Credit(bk.last - from + 1)
    <3>1. now - from + 1 = (now - bk.last) + (bk.last - from + 1)
      BY <1>1
    <3> QED BY <1>2, <3>1, CreditSum
  <2>2. r.tokens = bk.tokens + Credit(now - bk.last)
    BY <1>4, <1>5, <1>9
  <2>3. Earned(bk, n, from)
    BY <1>9
  <2> QED BY <1>1, <1>3, <1>5, <1>6, <2>1, <2>2, <2>3 DEF Earned
<1>10. ASSUME ~(t > Burst), bk.last < from PROVE Earned(r, n, from)
  <2>1. Credit(now - from + 1) <= Credit(now - bk.last)
    <3>1. now - from + 1 <= now - bk.last
      BY <1>1, <1>10
    <3> QED BY <1>2, <3>1, CreditMono
  <2>2. r.tokens = bk.tokens + Credit(now - bk.last)
    BY <1>4, <1>5, <1>10
  <2> QED BY <1>1, <1>3, <1>5, <2>1, <2>2 DEF Earned
<1> QED BY <1>1, <1>7, <1>8, <1>9, <1>10 DEF r

(* The watched client's request finds a bucket that has earned its share.    *)
LEMMA FindsEarned ==
  ASSUME Metered, EarnedInv, NEW h \in Handlers, Allow(h), req[h].client = Watched, ~late',
         NEW now, now = req[h].now, NEW bk, bk = Refilled(WithBucket(Watched, now)[Watched], now)
  PROVE  /\ bk \in BucketRec /\ bk.last = now /\ bk.tokens >= 0
         /\ Earned(bk, granted, window.from) \/ now \notin window.from .. window.upto
<1>1. /\ now \in Nat /\ Watched \in Clients /\ window.from \in Nat /\ window.upto \in Nat
      /\ granted \in Nat /\ Buckets
  BY WindowType, LimiterAssumption DEF Allow, Metered, Waiting, Request, Bounded
<1>2. PICK old : old = WithBucket(Watched, now)[Watched]
  OBVIOUS
<1>3. old = IF Watched \in DOMAIN b THEN b[Watched] ELSE NewBucket(now)
  BY <1>1, <1>2, MapStep
<1>4. ~late /\ ~(now < old.last)
  BY <1>2 DEF Allow
<1>5. old \in BucketRec /\ old.last \in Int /\ old.last <= now
  BY <1>1, <1>3, <1>4, BurstCredit DEF Buckets, NewBucket, BucketRec
<1>6. bk \in BucketRec /\ bk.last = now
  <2>1. Rate * (now - old.last) \in Int
    BY <1>1, <1>5, LimiterAssumption
  <2> QED BY <1>1, <1>2, <1>5, <2>1, BurstCredit DEF Refilled, BucketRec
<1>7. CASE Watched \in DOMAIN b
  <2>1. CASE now \in window.from .. window.upto
    <3>1. old.tokens >= 0 /\ (old.last >= window.from => Earned(old, granted, window.from))
      BY <1>1, <1>3, <1>4, <1>5, <1>7, <2>1 DEF EarnedInv
    <3> QED BY <1>1, <1>2, <1>5, <1>6, <3>1, RefillEarned
  <2>2. CASE now \notin window.from .. window.upto
    <3>1. old.tokens >= 0 /\ (old.last >= now + 1 => Earned(old, granted, now + 1))
      BY <1>1, <1>3, <1>4, <1>5, <1>7 DEF EarnedInv
    <3>2. now + 1 \in Nat
      BY <1>1
    <3> QED BY <1>1, <1>2, <1>5, <1>6, <2>2, <3>1, <3>2, RefillEarned
  <2> QED BY <2>1, <2>2
<1>8. CASE Watched \notin DOMAIN b
  <2>1. old.tokens = Burst /\ Burst \in Int /\ Burst >= 0
    BY <1>3, <1>8, BurstCredit, LimiterAssumption DEF NewBucket
  <2>2. Charge(granted) \in Int /\ Charge(granted) >= 0
    <3>1. granted * PerSecond >= 0
      BY <1>1, LimiterAssumption
    <3> QED BY <1>1, <3>1, ChargeStep DEF Charge
  <2>3. Earned(old, granted, window.from)
    BY <2>1, <2>2 DEF Earned
  <2> QED BY <1>1, <1>2, <1>5, <1>6, <2>1, <2>3, RefillEarned
<1> QED BY <1>7, <1>8

LEMMA StepEarned == Metered /\ EarnedInv /\ [LimiterNext]_limiterVars => EarnedInv'
<1> SUFFICES ASSUME Metered, EarnedInv, [LimiterNext]_limiterVars PROVE EarnedInv'
  OBVIOUS
<1>1. CASE UNCHANGED <<b, window, granted, late>>
  BY <1>1 DEF EarnedInv
<1>2. ASSUME NEW h \in Handlers, Allow(h), ~late' PROVE EarnedInv'
  <2>1. PICK c, now, m, bk :
          /\ c = req[h].client /\ now = req[h].now /\ m = WithBucket(c, now)
          /\ bk = Refilled(m[c], now)
    OBVIOUS
  <2>2. /\ b' = [m EXCEPT ![c] = Charged(bk)] /\ window' = window
        /\ granted' = IF c = Watched /\ Granting(bk) /\ now \in window.from .. window.upto
                      THEN granted + 1 ELSE granted
        /\ req[h] # NoReq /\ ~late
    BY <1>2, <2>1 DEF Allow
  <2>3. /\ c \in Clients /\ now \in Nat /\ Buckets
        /\ window.from \in Nat /\ window.upto \in Nat /\ granted \in Nat
    BY <2>1, <2>2, WindowType DEF Metered, Waiting, Request, Bounded
  <2>4. /\ DOMAIN m \subseteq DOMAIN b \cup {c} /\ c \in DOMAIN m
        /\ \A x \in DOMAIN m : x # c => m[x] = b[x]
    BY <2>1, <2>3, MapStep
  <2>5. CASE c # Watched
    <3>1. granted' = granted
      BY <2>2, <2>5
    <3>2. Watched \in DOMAIN b' => Watched \in DOMAIN b /\ b'[Watched] = b[Watched]
      BY <2>2, <2>4, <2>5
    <3> QED BY <2>2, <3>1, <3>2 DEF EarnedInv
  <2>6. CASE c = Watched
    <3>1. /\ bk \in BucketRec /\ bk.last = now /\ bk.tokens >= 0
          /\ Earned(bk, granted, window.from) \/ now \notin window.from .. window.upto
      BY <1>2, <2>1, <2>6, FindsEarned
    <3>2. b'[Watched] = Charged(bk)
      BY <2>2, <2>4, <2>6
    <3>3. CASE ~Granting(bk)
      <4>1. Charged(bk) = bk /\ granted' = granted
        BY <2>2, <3>3 DEF Charged
      <4> QED BY <2>2, <3>1, <3>2, <4>1 DEF EarnedInv
    <3>4. CASE Granting(bk)
      <4>1. PICK r : r = Charged(bk)
        OBVIOUS
      <4>2. r.last = now /\ r.tokens = bk.tokens - PerSecond /\ r.tokens >= 0
            /\ r.tokens \in Int /\ bk.tokens \in Int
        BY <3>1, <3>4, <4>1, LimiterAssumption DEF Charged, Granting, BucketRec
      <4>3. ASSUME now \in window.from .. window.upto PROVE Earned(r, granted', window.from)
        <5>1. granted' = granted + 1
          BY <2>2, <2>6, <3>4, <4>3
        <5>2. Charge(granted') = Charge(granted) + PerSecond /\ Charge(granted) \in Int
          BY <2>3, <5>1, ChargeStep
        <5>3. r.tokens + Charge(granted') = bk.tokens + Charge(granted)
          BY <4>2, <5>2, LimiterAssumption
        <5> QED BY <3>1, <4>2, <4>3, <5>3 DEF Earned
      <4> QED BY <2>2, <3>2, <4>1, <4>2, <4>3 DEF EarnedInv
    <3> QED BY <3>3, <3>4
  <2> QED BY <2>5, <2>6
<1>3. ASSUME late' PROVE EarnedInv'
  BY <1>3 DEF EarnedInv
<1> QED BY <1>1, <1>2, <1>3 DEF LimiterNext, Tick, Arrive, limiterVars

(* For any rate, clients, handlers and cleanup limit: a client whose         *)
(* requests are not overtaken is refused only when it got the full rate      *)
(* through in the second that ends with the request.                         *)
THEOREM BusyTheorem == LimiterSpec => DeniedOnlyWhenBusy
<1> DEFINE OK == \A h \in Handlers : Allow(h) /\ EndsSecond(h) /\ ~late' =>
                   granted' > granted \/ granted >= Rate
<1>1. LimiterInit => EarnedInv
  BY DEF LimiterInit, EarnedInv
<1>2. Metered /\ EarnedInv /\ [LimiterNext]_limiterVars => [OK]_limiterVars
  <2> SUFFICES ASSUME Metered, EarnedInv, NEW h \in Handlers, Allow(h), EndsSecond(h), ~late',
                      ~(granted' > granted)
               PROVE  granted >= Rate
    OBVIOUS
  <2>1. PICK now, bk : now = req[h].now /\ bk = Refilled(WithBucket(Watched, now)[Watched], now)
    OBVIOUS
  <2>2. /\ window.from = now - PerSecond + 1 /\ window.upto = now /\ req[h].client = Watched
    BY <2>1 DEF EndsSecond
  <2>3. /\ now \in Nat /\ window.from \in Nat /\ granted \in Nat /\ PerSecond \in Nat \ {0}
        /\ Rate \in Nat
    BY <2>1, WindowType, LimiterAssumption DEF Allow, Metered, Waiting, Request, Bounded
  <2>4. now \in window.from .. window.upto
    BY <2>2, <2>3
  <2>5. /\ bk \in BucketRec /\ bk.last = now /\ Earned(bk, granted, window.from)
    BY <2>1, <2>2, <2>4, FindsEarned
  <2>6. ~Granting(bk)
    BY <2>1, <2>2, <2>3, <2>4 DEF Allow
  <2>7. bk.tokens + Charge(granted) >= Burst
    <3>1. now - window.from + 1 = PerSecond
      BY <2>2, <2>3
    <3> QED BY <2>5, <3>1, BurstCredit DEF Earned
  <2>8. bk.tokens \in Int /\ bk.tokens < PerSecond /\ Charge(granted) \in Int /\ Burst \in Int
    BY <2>3, <2>5, <2>6, ChargeStep, BurstCredit DEF BucketRec, Granting
  <2>9. Charge(granted) + PerSecond > Burst
    BY <2>3, <2>7, <2>8
  <2>10. ASSUME granted + 1 <= Rate PROVE FALSE
    <3>1. (granted + 1) * PerSecond <= Rate * PerSecond
      BY <2>3, <2>10
    <3>2. Charge(granted + 1) = Charge(granted) + PerSecond
      BY <2>3, ChargeStep
    <3>3. Charge(granted + 1) <= Burst
      BY <3>1 DEF Charge, Burst
    <3> QED BY <2>3, <2>8, <2>9, <3>2, <3>3
  <2> QED BY <2>3, <2>10
<1> QED BY <1>1, <1>2, InitMetered, StepMetered, StepEarned, PTL DEF LimiterSpec, DeniedOnlyWhenBusy
=============================================================================
