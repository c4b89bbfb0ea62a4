---------------------------- MODULE CPUVerifier ----------------------------
(***************************************************************************)
(* CPU.VerifyBatch of accel/cpu.go, as operators on a job: one call, its   *)
(* results array, the start of the next chunk and the goroutines at work,  *)
(* each a range of slots it has still to write.  Slots count from 0, as in *)
(* the code; sequences count from 1.                                       *)
(***************************************************************************)
EXTENDS Integers, Sequences

CONSTANTS
  Req,          \* requests
  Reference,    \* request -> the verdict of the reference verifier
  Workers       \* CPU.Workers, or runtime.NumCPU() when it is not positive

ASSUME VerifierAssumption ==
  Workers \in Nat \ {0} /\ Reference \in [Req -> BOOLEAN]

Size(j) == Len(j.items)
Width(n) == IF Workers > n THEN n ELSE Workers

Chunk(n) == (n + Width(n) - 1) \div Width(n)

(* The call begins with results that are all false.  With one worker the     *)
(* caller goes through the slots itself.                                     *)
NewJob(items) ==
  LET n == Len(items)
      alone == Width(n) <= 1 IN
    [items |-> items, out |-> [i \in 1 .. n |-> FALSE],
     start |-> IF alone THEN n ELSE 0,
     running |-> IF alone THEN {[lo |-> 0, hi |-> n]} ELSE {}]

(* Mutant: the last chunk is not cut at n.                                   *)
NextRangeUncut(j) == [lo |-> j.start, hi |-> j.start + Chunk(Size(j))]

NextRange(j) ==
  LET end == j.start + Chunk(Size(j)) IN
    [lo |-> j.start, hi |-> IF end > Size(j) THEN Size(j) ELSE end]

Spawning(j) == j.start < Size(j)
Spawn(j) == [j EXCEPT !.start = @ + Chunk(Size(j)), !.running = @ \cup {NextRange(j)}]

(* Goroutine g writes its next slot, and is done after its last one.         *)
Write(j, g) ==
  [j EXCEPT !.out[g.lo + 1] = Reference[j.items[g.lo + 1]],
            !.running = (@ \ {g}) \cup {h \in {[g EXCEPT !.lo = @ + 1]} : h.lo < h.hi}]

(* Mutant: the call returns without waiting for its goroutines.              *)
ReturnedEarly(j) == ~Spawning(j)

(* wg.Wait has returned.                                                     *)
Returned(j) == ~Spawning(j) /\ j.running = {}

-----------------------------------------------------------------------------
(* The goroutines at work have slots of the batch, and no two share one.     *)
WorkBounded(j) ==
  /\ \A g \in j.running : 0 <= g.lo /\ g.lo < g.hi /\ g.hi <= Size(j)
  /\ \A g, h \in j.running : g # h => g.hi <= h.lo \/ h.hi <= g.lo
=============================================================================
