--------------------------- MODULE VerdictService ---------------------------
(***************************************************************************)
(* What the gate of accel/gate.go promises its callers: a request is asked *)
(* once, and its result channel yields one value, the verdict of the       *)
(* reference verifier on that request.  There are no batches, no timers    *)
(* and no workers here.                                                    *)
(***************************************************************************)
CONSTANTS Req, Reference

VARIABLES
  asked,        \* requests submitted
  answers       \* request -> what its result channel has yielded

vars == <<asked, answers>>

Init == asked = {} /\ answers = [r \in Req |-> <<>>]

Ask(r) ==
  /\ r \notin asked
  /\ asked' = asked \cup {r}
  /\ UNCHANGED answers

Answer(r) ==
  /\ r \in asked
  /\ answers[r] = <<>>
  /\ answers' = [answers EXCEPT ![r] = <<Reference[r]>>]
  /\ UNCHANGED asked

Next == \E r \in Req : Ask(r) \/ Answer(r)

Spec == Init /\ [][Next]_vars
FairSpec == Spec /\ \A r \in Req : WF_vars(Answer(r))
=============================================================================
