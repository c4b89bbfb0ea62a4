------------------------------ MODULE Limiter ------------------------------
(***************************************************************************)
(* The per-client rate limiter, server/limiter.go.  A request handler      *)
(* reads the clock and then waits for the lock, so requests can enter the  *)
(* bucket in another order than their times.  Time is counted in ticks,    *)
(* PerSecond of them to the second, and tokens in fractions of the same    *)
(* size: one token is PerSecond units and a tick adds Rate units.          *)
(***************************************************************************)
EXTENDS Integers, FiniteSets

CONSTANTS
  Clients,
  Watched,      \* the client the histories are about, any of them
  Handlers,     \* request handlers running at once
  Rate,         \* l.rate: tokens per second, and the burst
  PerSecond,    \* ticks per second
  Minute,       \* time.Minute in ticks
  MaxBuckets,   \* 100000: size of the map above which it is cleaned
  MaxLag,       \* bound on the wait for the lock, in ticks
  MaxTime,      \* bound on the clock
  Windows,      \* the spans of time, [from, upto], that are looked at
  NoReq

(* A handler gets the lock well within a minute of reading the clock.        *)
ASSUME LimiterAssumption ==
  /\ Rate \in Nat \ {0} /\ PerSecond \in Nat \ {0} /\ Minute \in Nat
  /\ Watched \in Clients /\ MaxBuckets \in Nat /\ MaxLag \in Nat /\ MaxTime \in Nat
  /\ PerSecond + 2 * MaxLag <= Minute
  /\ \A w \in Windows : w.from \in Nat /\ w.upto \in Nat
  /\ NoReq \notin [client : Clients, now : Nat]

VARIABLES
  clock,
  req,          \* handler -> its request, with the time read
  b,            \* l.b: client -> bucket
  window,       \* some span of time, fixed
  granted,      \* history: requests of Watched allowed, of the times in the window
  late          \* history: whether a request of Watched was overtaken

limiterVars == <<clock, req, b, window, granted, late>>

Burst == Rate * PerSecond

LimiterInit ==
  /\ clock = 0 /\ req = [h \in Handlers |-> NoReq] /\ b = << >>
  /\ window \in Windows
  /\ granted = 0 /\ late = FALSE

Tick ==
  /\ clock < MaxTime
  /\ \A h \in Handlers : req[h] # NoReq => clock - req[h].now < MaxLag
  /\ clock' = clock + 1
  /\ UNCHANGED <<req, b, window, granted, late>>

(* allow has read time.Now().                                                *)
Arrive(h, c) ==
  /\ req[h] = NoReq
  /\ req' = [req EXCEPT ![h] = [client |-> c, now |-> clock]]
  /\ UNCHANGED <<clock, b, window, granted, late>>

(* Mutant: a new bucket is empty.                                            *)
NewBucketEmpty(now) == [tokens |-> 0, last |-> now]

NewBucket(now) == [tokens |-> Burst, last |-> now]

Stale(bk, now) == now - bk.last > Minute

(* The map once it has a bucket for c; a new one can set off the cleanup.    *)
WithBucket(c, now) ==
  LET m == [x \in DOMAIN b \cup {c} |-> IF x = c THEN NewBucket(now) ELSE b[x]]
      old == {x \in DOMAIN m : Stale(m[x], now)} IN
    IF c \in DOMAIN b THEN b
    ELSE IF Cardinality(DOMAIN m) > MaxBuckets
         THEN [x \in DOMAIN m \ old |-> m[x]] ELSE m

(* Mutant: the refill is not capped.                                         *)
RefilledOver(bk, now) == [tokens |-> bk.tokens + Rate * (now - bk.last), last |-> now]

Refilled(bk, now) ==
  LET t == bk.tokens + Rate * (now - bk.last) IN
    [tokens |-> IF t > Burst THEN Burst ELSE t, last |-> now]

Granting(bk) == bk.tokens >= PerSecond
Charged(bk) == IF Granting(bk) THEN [bk EXCEPT !.tokens = @ - PerSecond] ELSE bk

(* allow under the lock, for handler h.                                      *)
Allow(h) ==
  /\ req[h] # NoReq
  /\ LET c == req[h].client
         now == req[h].now
         m == WithBucket(c, now)
         bk == Refilled(m[c], now) IN
       /\ b' = [m EXCEPT ![c] = Charged(bk)]
       /\ granted' = IF c = Watched /\ Granting(bk) /\ now \in window.from .. window.upto
                     THEN granted + 1 ELSE granted
       /\ late' = (late \/ (c = Watched /\ now < m[c].last))
  /\ req' = [req EXCEPT ![h] = NoReq]
  /\ UNCHANGED <<clock, window>>

LimiterNext ==
  \/ Tick
  \/ \E h \in Handlers, c \in Clients : Arrive(h, c)
  \/ \E h \in Handlers : Allow(h)

LimiterSpec == LimiterInit /\ [][LimiterNext]_limiterVars

-----------------------------------------------------------------------------
(* WindowBound: however requests overtake each other between the clock and   *)
(* the lock, and whether or not its bucket is dropped and made again, a      *)
(* client never gets more requests through in a span of time than the burst  *)
(* and the refill of that span ("rate tokens/sec with a burst of rate").     *)
WindowBound ==
  window.from <= window.upto =>
    granted * PerSecond <= Burst + Rate * (window.upto - window.from)

(* Request h is the watched client's, and the window the second it ends.     *)
EndsSecond(h) ==
  req[h].client = Watched /\ window = [from |-> req[h].now - PerSecond + 1, upto |-> req[h].now]

(* DeniedOnlyWhenBusy: a client whose requests took the lock in the order of *)
(* their times is refused only when it got the full rate through in the      *)
(* second before; whatever the cleanup drops, nothing else costs it tokens.  *)
DeniedOnlyWhenBusy ==
  [][\A h \in Handlers : Allow(h) /\ EndsSecond(h) /\ ~late' =>
       granted' > granted \/ granted >= Rate]_limiterVars
=============================================================================
