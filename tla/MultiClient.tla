----------------------------- MODULE MultiClient -----------------------------
(***************************************************************************)
(* The multi-operator client, client/client.go.  It asks its operators one *)
(* after the other, remotely: a call may fail, and everything may move     *)
(* between two calls.  The operator at position `place` is the honest      *)
(* server of module Server; the others, honest with views of their own or  *)
(* not, answer anything.  A proof brings the block root it folds to, and   *)
(* the client compares that root with nothing.                             *)
(***************************************************************************)
EXTENDS Server, Sequences, Integers

CONSTANTS NOps      \* number of operators of the client

ASSUME ClientAssumption == NOps \in Nat \ {0}

VARIABLE call       \* the client's running or last call

clientVars == <<vars, call>>

Statuses == {"unknown", "unspent", "spent", "notInWindow"}
Functions == {"MerklePath", "Mined", "Seen", "UTXO", "DetectFraud"}
NoOne == 0
NoProof == [leaf |-> NoOne, folds |-> FALSE]

NoResult == [proven |-> FALSE, value |-> FALSE, responders |-> 0, agree |-> 0, accused |-> NoOne]

(* votes: the answers so far; ours: the server's, if any; early: whether the *)
(* server held the transaction's index when the call began, in process       *)
(* `life`; lost: whether the request for its proof failed.                   *)
Called(fn, t, place, at) ==
  [fn |-> fn, tx |-> t, place |-> place, at |-> at, i |-> 1, votes |-> <<>>,
   ours |-> <<>>, proof |-> NoProof, early |-> Seen(t), life |-> restarts,
   lost |-> FALSE, result |-> NoResult]

ClientInit ==
  /\ Init
  /\ \E t \in Txs : call = Called("Seen", t, 1, "done")

Invoke(fn, t, place) ==
  /\ call.at = "done"
  /\ call' = Called(fn, t, place, IF fn \in {"Seen", "UTXO"} THEN "poll" ELSE "path")

Return(c, r) == [c EXCEPT !.at = "done", !.result = r]

-----------------------------------------------------------------------------
(* MerklePath: the first proof that verifies for the transaction asked.      *)

Mined == {t \in Txs : TxHeight[t] <= node}

OthersProofs == {NoProof} \cup [leaf : Txs, folds : BOOLEAN]

OurProof == IF Seen(call.tx) THEN [leaf |-> call.tx, folds |-> TRUE] ELSE NoProof

Acceptable(p, t) == p.leaf = t /\ p.folds

Proven(c) == Return(c, [NoResult EXCEPT !.proven = TRUE, !.value = TRUE,
                                        !.responders = NOps, !.agree = NOps])

(* Mutant: an operator that fails ends the search.                          *)
AfterProofFirstOnly(p) ==
  IF ~Acceptable(p, call.tx) THEN [call EXCEPT !.i = NOps + 1]
  ELSE IF call.fn = "DetectFraud" THEN [call EXCEPT !.at = "attest", !.i = 1, !.proof = p]
  ELSE Proven(call)

AfterProof(p) ==
  IF ~Acceptable(p, call.tx) THEN [call EXCEPT !.i = @ + 1]
  ELSE IF call.fn = "DetectFraud" THEN [call EXCEPT !.at = "attest", !.i = 1, !.proof = p]
  ELSE Proven(call)

AskProof ==
  /\ call.at = "path" /\ call.i <= NOps
  /\ IF call.i = call.place
     THEN \/ call' = AfterProof(OurProof)
          \/ call' = [AfterProof(NoProof) EXCEPT !.lost = TRUE]
     ELSE \E p \in OthersProofs : call' = AfterProof(p)

PathFails ==
  /\ call.at = "path" /\ call.i > NOps
  /\ call' = IF call.fn = "Mined" THEN [call EXCEPT !.at = "poll", !.i = 1]
             ELSE Return(call, NoResult)

-----------------------------------------------------------------------------
(* Mined without a proof, Seen and UTXO: ask all, then count.                *)

OurVote == IF call.fn = "UTXO" THEN UTXOStatus(call.tx) ELSE Seen(call.tx)
Votes == IF call.fn = "UTXO" THEN Statuses ELSE BOOLEAN

Poll ==
  /\ call.at = "poll" /\ call.i <= NOps
  /\ \/ call' = [call EXCEPT !.i = @ + 1]
     \/ /\ call.i = call.place
        /\ call' = [call EXCEPT !.i = @ + 1, !.votes = Append(@, OurVote), !.ours = <<OurVote>>]
     \/ /\ call.i # call.place
        /\ \E v \in Votes : call' = [call EXCEPT !.i = @ + 1, !.votes = Append(@, v)]

Count(v) == Cardinality({i \in DOMAIN call.votes : call.votes[i] = v})

(* Mutant: every responder is counted as agreeing.                           *)
MinedVerdictAllAgree ==
  {[value |-> Count(TRUE) * 2 > Len(call.votes), agree |-> Len(call.votes)]}

MinedVerdict ==
  {IF Count(TRUE) * 2 > Len(call.votes)
   THEN [value |-> TRUE, agree |-> Count(TRUE)]
   ELSE [value |-> FALSE, agree |-> Len(call.votes) - Count(TRUE)]}

SeenVerdict == {[value |-> Count(TRUE) > 0, agree |-> Count(TRUE)]}

(* A Go map is ranged over in any order, so any of the most frequent         *)
(* statuses can win.                                                         *)
UTXOVerdict ==
  IF call.votes = <<>> THEN {[value |-> "unknown", agree |-> -1]}
  ELSE {[value |-> s, agree |-> Count(s)] :
          s \in {v \in Statuses : \A w \in Statuses : Count(v) >= Count(w)}}

Tally ==
  /\ call.at = "poll" /\ call.i > NOps
  /\ \E v \in (IF call.fn = "UTXO" THEN UTXOVerdict
               ELSE IF call.fn = "Seen" THEN SeenVerdict ELSE MinedVerdict) :
       call' = Return(call, [NoResult EXCEPT !.value = v.value, !.agree = v.agree,
                                             !.responders = Len(call.votes)])

-----------------------------------------------------------------------------
(* DetectFraud: signed answers against the proof found.  The server's answer *)
(* is read in one step and signed with its tip in the next.                  *)

AfterAttestation(att) ==
  IF ProveFalseNegative(att, call.proof)
  THEN Return(call, [NoResult EXCEPT !.accused = att.operator])
  ELSE [call EXCEPT !.i = @ + 1]

AskOurs ==
  /\ call.at = "attest" /\ call.i = call.place
  /\ call' = [call EXCEPT !.at = "sign", !.ours = <<Answer("mined", call.tx)>>]

OursSigns ==
  /\ call.at = "sign"
  /\ LET att == Attestation(Me, Statement(call.ours[1], tip)) IN
       call' = [AfterAttestation(att) EXCEPT !.at = IF @ = "sign" THEN "attest" ELSE @]

AskOthers ==
  /\ call.at = "attest" /\ call.i <= NOps /\ call.i # call.place
  /\ \E flag \in BOOLEAN :
       LET s == Statement([kind |-> "mined", tx |-> call.tx, flag |-> flag, height |-> 0], node) IN
         call' = AfterAttestation(Attestation(call.i, s))

(* The operator does not attest, or the request fails.                       *)
NoAttestation ==
  /\ call.at \in {"attest", "sign"} /\ call.i <= NOps
  /\ call' = [call EXCEPT !.at = "attest", !.i = @ + 1]

NoFraud ==
  /\ call.at = "attest" /\ call.i > NOps
  /\ call' = Return(call, NoResult)

Step ==
  \/ AskProof \/ PathFails \/ Poll \/ Tally
  \/ AskOurs \/ OursSigns \/ AskOthers \/ NoAttestation \/ NoFraud

ClientNext ==
  \/ /\ \/ \E fn \in Functions, t \in Txs, place \in 1 .. NOps : Invoke(fn, t, place)
        \/ Step
     /\ UNCHANGED vars
  \/ Next /\ UNCHANGED call

ClientSpec == ClientInit /\ [][ClientNext]_clientVars

-----------------------------------------------------------------------------
Returned(fns) == call.at = "done" /\ call.fn \in fns

(* ProvenIsMined: client.go:5, "Inclusion is TRUSTLESS: MerklePath/Mined     *)
(* verify the returned proof against the PoW header locally": what the       *)
(* client reports as proven is in a block of the chain, and so is what it    *)
(* accuses an operator of denying.  Verify folds the leaf to the root the    *)
(* proof itself carries and looks at no header.                              *)
ProvenIsMined ==
  call.result.proven \/ call.result.accused # NoOne => call.tx \in Mined

(* client.go: one honest operator among many defeats all liars.  If the      *)
(* server held the transaction's index over the whole call and could be      *)
(* reached, the client ends with a proof.                                    *)
OneHonestSuffices ==
  /\ Returned({"MerklePath", "Mined"})
  /\ call.early /\ Seen(call.tx) /\ call.life = restarts /\ ~call.lost
  => call.result.proven

(* When all responders agree and the server is one of them, the answer the   *)
(* client gives without a proof is the server's.                             *)
UnanimityIsHonest ==
  /\ Returned({"Mined", "Seen", "UTXO"}) /\ ~call.result.proven
  /\ call.ours # <<>>
  /\ call.result.agree = call.result.responders
  => call.result.value = call.ours[1]
=============================================================================
