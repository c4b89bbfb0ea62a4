-------------------------- MODULE RetentionProofs --------------------------
(***************************************************************************)
(* What is kept and what is forgotten: proofs about the in-memory store    *)
(* under arbitrary callers, for every set of transactions, outputs and     *)
(* heights, and about the pruner that tells it which heights to prune, for *)
(* every policy, word size and sequence of tips.                           *)
(***************************************************************************)
EXTENDS StoreClients, Pruner, TLAPS

-----------------------------------------------------------------------------
(* The store.                                                                *)

(* Record values: an unspent record is not spent and a spent one keeps its   *)
(* height.                                                                   *)
LEMMA RecordFacts ==
  /\ Unspent \in UTXORec /\ ~Unspent.spent
  /\ \A by \in TxId, h \in Height :
       /\ SpentRec(by, h) \in UTXORec
       /\ SpentRec(by, h).spent
       /\ SpentRec(by, h).spentHeight = h
  /\ \A u \in UTXORec : u.spentHeight \in Height
  <1> USE DEF Unspent, SpentRec, UTXORec
  <1>1. Unspent \in UTXORec /\ ~Unspent.spent
    OBVIOUS
  <1>2. ASSUME NEW by \in TxId, NEW h \in Height
        PROVE  /\ SpentRec(by, h) \in UTXORec
               /\ SpentRec(by, h).spent
               /\ SpentRec(by, h).spentHeight = h
    OBVIOUS
  <1>3. ASSUME NEW u \in UTXORec
        PROVE  u.spentHeight \in Height
    <2>1. CASE u = Unspent
      <3>1. u.spentHeight = 0
        BY <2>1
      <3> QED
        BY <3>1, HeightAssumption
    <2>2. CASE u \in [spent : {TRUE}, spentBy : TxId, spentHeight : Height]
      BY <2>2
    <2> QED
      BY <2>1, <2>2
  <1> QED
    BY <1>1, <1>2, <1>3

(* The types of the records and the bands, and of the prunes in a call.      *)
RecordsOK ==
  /\ DOMAIN utxo \subseteq Outpoint
  /\ \A op \in DOMAIN utxo : utxo[op] \in UTXORec
  /\ utxo = [op \in DOMAIN utxo |-> utxo[op]]
  /\ spentIdx \in [Height -> SUBSET Outpoint]
PrunersOK ==
  /\ DOMAIN pruner \subseteq Pruners
  /\ \A c \in DOMAIN pruner : pruner[c] \in [h : Height, next : 0 .. StripeCount]
  /\ pruner = [c \in DOMAIN pruner |-> pruner[c]]

LEMMA TypeParts == TypeOK <=> RecordsOK /\ PrunersOK
  BY DEF TypeOK, RecordsOK, PrunersOK

StoreInv == TypeOK /\ BandComplete

LEMMA InitStore == ClientsInit => StoreInv
  BY DEF ClientsInit, StoreInit, StoreInv, TypeOK, BandComplete

(* A call on one output keeps the records typed and the bands complete.      *)
LEMMA CallKeeps ==
  ASSUME RecordsOK, BandComplete, PutOut \/ Spend \/ Unspend \/ DelOut
  PROVE  RecordsOK' /\ BandComplete'
  <1>2. ASSUME NEW op \in Outpoint, NEW u \in UTXORec, PutUTXO(op, u)
        PROVE  RecordsOK' /\ BandComplete'
    <2>1. utxo' = Store(utxo, op, u)
      BY <1>2 DEF PutUTXO
    <2>2. /\ DOMAIN utxo' = DOMAIN utxo \cup {op}
          /\ utxo'[op] = u
          /\ \A x \in DOMAIN utxo : x # op => utxo'[x] = utxo[x]
          /\ utxo' = [x \in DOMAIN utxo' |-> utxo'[x]]
      BY <2>1 DEF Store
    <2>3. /\ spentIdx' \in [Height -> SUBSET Outpoint]
          /\ \A h \in Height : spentIdx[h] \subseteq spentIdx'[h]
          /\ u.spent => op \in spentIdx'[u.spentHeight]
      BY <1>2, RecordFacts DEF PutUTXO, IndexSpent, RecordsOK
    <2>4. RecordsOK'
      BY <2>2, <2>3 DEF RecordsOK
    <2>5. BandComplete'
      BY <2>2, <2>3, RecordFacts DEF BandComplete, RecordsOK
    <2> QED
      BY <2>4, <2>5
  <1>3. ASSUME NEW op \in Outpoint, NEW by \in TxId, NEW h \in Height, SpendUTXO(op, by, h)
        PROVE  RecordsOK' /\ BandComplete'
    <2>1. CASE op \notin DOMAIN utxo
      BY <1>3, <2>1 DEF SpendUTXO, utxoVars, RecordsOK, BandComplete
    <2>2. CASE op \in DOMAIN utxo
      <3>1. PutUTXO(op, SpentRec(by, h))
        BY <1>3, <2>2, RecordFacts DEF SpendUTXO, PutUTXO
      <3> QED
        BY <3>1, <1>2, RecordFacts
    <2> QED
      BY <2>1, <2>2
  <1>4. ASSUME NEW op \in DOMAIN utxo
        PROVE  /\ Deindexed(op) \in [Height -> SUBSET Outpoint]
               /\ \A h \in Height : spentIdx[h] \ {op} \subseteq Deindexed(op)[h]
    BY RecordFacts DEF Deindexed, DeindexSpent, RecordsOK
  <1>5. ASSUME NEW op \in Outpoint, UnspendUTXO(op)
        PROVE  RecordsOK' /\ BandComplete'
    <2>1. CASE op \notin DOMAIN utxo
      BY <1>5, <2>1 DEF UnspendUTXO, utxoVars, RecordsOK, BandComplete
    <2>2. CASE op \in DOMAIN utxo
      <3>1. utxo' = Store(utxo, op, Unspent) /\ spentIdx' = Deindexed(op)
        BY <1>5, <2>2 DEF UnspendUTXO
      <3>2. /\ DOMAIN utxo' = DOMAIN utxo \cup {op}
            /\ utxo'[op] = Unspent
            /\ \A x \in DOMAIN utxo : x # op => utxo'[x] = utxo[x]
            /\ utxo' = [x \in DOMAIN utxo' |-> utxo'[x]]
        BY <3>1 DEF Store
      <3>3. RecordsOK'
        BY <3>1, <3>2, <2>2, <1>4, RecordFacts DEF RecordsOK
      <3>4. ASSUME NEW x \in DOMAIN utxo', utxo'[x].spent
            PROVE  x \in spentIdx'[utxo'[x].spentHeight]
        <4>1. x # op
          BY <3>2, <3>4, RecordFacts
        <4>2. /\ x \in DOMAIN utxo /\ utxo'[x] = utxo[x]
              /\ x \in spentIdx[utxo[x].spentHeight] \ {op}
              /\ utxo[x].spentHeight \in Height
          BY <3>2, <3>4, <4>1, RecordFacts DEF BandComplete, RecordsOK
        <4> QED
          BY <3>1, <4>2, <2>2, <1>4
      <3> QED
        BY <3>3, <3>4 DEF BandComplete
    <2> QED
      BY <2>1, <2>2
  <1>6. ASSUME NEW op \in Outpoint, DeleteUTXO(op)
        PROVE  RecordsOK' /\ BandComplete'
    <2>1. CASE op \notin DOMAIN utxo
      BY <1>6, <2>1 DEF DeleteUTXO, utxoVars, RecordsOK, BandComplete
    <2>2. CASE op \in DOMAIN utxo
      <3>1. utxo' = Without(utxo, {op}) /\ spentIdx' = Deindexed(op)
        BY <1>6, <2>2 DEF DeleteUTXO
      <3>2. /\ DOMAIN utxo' = DOMAIN utxo \ {op}
            /\ \A x \in DOMAIN utxo \ {op} : utxo'[x] = utxo[x]
            /\ utxo' = [x \in DOMAIN utxo' |-> utxo'[x]]
        BY <3>1 DEF Without
      <3>3. RecordsOK'
        BY <3>1, <3>2, <2>2, <1>4 DEF RecordsOK
      <3>4. ASSUME NEW x \in DOMAIN utxo', utxo'[x].spent
            PROVE  x \in spentIdx'[utxo'[x].spentHeight]
        <4>1. /\ x \in DOMAIN utxo /\ utxo'[x] = utxo[x]
              /\ x \in spentIdx[utxo[x].spentHeight] \ {op}
              /\ utxo[x].spentHeight \in Height
          BY <3>2, <3>4, RecordFacts DEF BandComplete, RecordsOK
        <4> QED
          BY <3>1, <4>1, <2>2, <1>4
      <3> QED
        BY <3>3, <3>4 DEF BandComplete
    <2> QED
      BY <2>1, <2>2
  <1> QED
    BY <1>2, <1>3, <1>5, <1>6 DEF PutOut, Spend, Unspend, DelOut

(* So does a prune while it holds one stripe's lock.                         *)
LEMMA PruneKeeps ==
  ASSUME RecordsOK, BandComplete, NEW h \in Height, NEW s, PruneStripe(h, s)
  PROVE  RecordsOK' /\ BandComplete'
  <1>1. /\ DOMAIN utxo' = DOMAIN utxo \ Prunable(h, s)
        /\ \A x \in DOMAIN utxo \ Prunable(h, s) : utxo'[x] = utxo[x]
        /\ utxo' = [x \in DOMAIN utxo' |-> utxo'[x]]
    BY DEF PruneStripe, Without
  <1>2. spentIdx' = [spentIdx EXCEPT ![h] = @ \ Band(h, s)]
    BY DEF PruneStripe
  <1>3. RecordsOK'
    BY <1>1, <1>2 DEF RecordsOK
  <1>4. ASSUME NEW x \in DOMAIN utxo', utxo'[x].spent
        PROVE  x \in spentIdx'[utxo'[x].spentHeight]
    <2>1. /\ x \in DOMAIN utxo /\ utxo'[x] = utxo[x] /\ x \notin Prunable(h, s)
          /\ x \in spentIdx[utxo[x].spentHeight]
          /\ utxo[x].spentHeight \in Height
      BY <1>1, <1>4, RecordFacts DEF BandComplete, RecordsOK
    <2>2. utxo[x].spentHeight = h => x \notin Band(h, s)
      BY <1>1, <1>4, <2>1 DEF Prunable
    <2> QED
      BY <1>2, <2>1, <2>2 DEF RecordsOK
  <1> QED
    BY <1>3, <1>4 DEF BandComplete

(* The steps of a prune keep the prunes typed.                               *)
LEMMA PrunersStep ==
  ASSUME PrunersOK, NEW c \in Pruners,
         (\E h \in Height : BeginPrune(c, h)) \/ (c \in DOMAIN pruner /\ (PruneNext(c) \/ EndPrune(c)))
  PROVE  PrunersOK'
  <1>1. ASSUME NEW h \in Height, BeginPrune(c, h) PROVE PrunersOK'
    BY <1>1, StripeAssumption DEF BeginPrune, Store, PrunersOK
  <1>2. ASSUME c \in DOMAIN pruner, PruneNext(c) PROVE PrunersOK'
    <2>1. pruner[c] \in [h : Height, next : 0 .. StripeCount] /\ pruner[c].next < StripeCount
      BY <1>2 DEF PrunersOK, PruneNext
    <2>2. [pruner[c] EXCEPT !.next = @ + 1] \in [h : Height, next : 0 .. StripeCount]
      BY <2>1, StripeAssumption
    <2>3. pruner' = [pruner EXCEPT ![c] = [pruner[c] EXCEPT !.next = @ + 1]]
      BY <1>2 DEF PruneNext
    <2> QED
      BY <1>2, <2>2, <2>3 DEF PrunersOK
  <1>3. ASSUME c \in DOMAIN pruner, EndPrune(c) PROVE PrunersOK'
    BY <1>3 DEF EndPrune, Without, PrunersOK
  <1> QED
    BY <1>1, <1>2, <1>3

LEMMA StepStore == StoreInv /\ [ClientsNext]_clientVars => StoreInv'
  <1> SUFFICES ASSUME RecordsOK, PrunersOK, BandComplete, [ClientsNext]_clientVars
               PROVE  RecordsOK' /\ PrunersOK' /\ BandComplete'
    <2>1. (TypeOK <=> RecordsOK /\ PrunersOK)'
      BY TypeParts, PTL
    <2> QED
      BY <2>1, TypeParts DEF StoreInv
  <1>1. CASE Call
    BY <1>1, CallKeeps DEF Call, PrunersOK
  <1>2. ASSUME NEW c \in Pruners, NEW h \in Height, BeginPrune(c, h)
        PROVE  RecordsOK' /\ PrunersOK' /\ BandComplete'
    BY <1>2, PrunersStep DEF BeginPrune, storeVars, RecordsOK, BandComplete
  <1>3. ASSUME NEW c \in DOMAIN pruner, PruneNext(c)
        PROVE  RecordsOK' /\ PrunersOK' /\ BandComplete'
    <2>1. c \in Pruners /\ pruner[c].h \in Height
      BY DEF PrunersOK
    <2> QED
      BY <1>3, <2>1, PrunersStep, PruneKeeps DEF PruneNext
  <1>4. ASSUME NEW c \in DOMAIN pruner, EndPrune(c)
        PROVE  RecordsOK' /\ PrunersOK' /\ BandComplete'
    <2>1. c \in Pruners
      BY DEF PrunersOK
    <2> QED
      BY <1>4, <2>1, PrunersStep DEF EndPrune, storeVars, RecordsOK, BandComplete
  <1>5. CASE UNCHANGED clientVars
    BY <1>5 DEF clientVars, storeVars, RecordsOK, PrunersOK, BandComplete
  <1> QED
    BY <1>1, <1>2, <1>3, <1>4, <1>5 DEF ClientsNext

(* The maps keep their types, and every spent record stays in the band of   *)
(* the height it was spent at, for every sequence of calls.                  *)
THEOREM StoreInvariant == ClientsSpec => [](TypeOK /\ BandComplete)
  <1>1. ClientsSpec => []StoreInv
    BY InitStore, StepStore, PTL DEF ClientsSpec
  <1> QED
    BY <1>1, PTL DEF StoreInv

-----------------------------------------------------------------------------
(* The implementation of the contract: each call maps to the contract's     *)
(* operation on the same arguments, each stripe of a prune to a sweep.       *)

LEMMA RunningFacts ==
  /\ DOMAIN Running = DOMAIN pruner
  /\ \A c \in DOMAIN pruner :
       /\ Running[c].h = pruner[c].h /\ Running[c].due = Due(c)
       /\ Running[c].slices = pruner[c].next
  BY DEF Running

(* Because every band is complete, the guarded walk of a stripe and the full *)
(* scan select the same records.                                            *)
LEMMA BandsSelectTheScan ==
  ASSUME RecordsOK, BandComplete, NEW h \in Height, NEW s
  PROVE  Prunable(h, s) = {op \in Contract!SpentAt(h) : striperOf[op[1]] = s}
  BY DEF BandComplete, Prunable, Band, Contract!SpentAt

(* A call on one output changes no other output's standing with any prune.   *)
LEMMA CallSeen ==
  ASSUME NEW op, pruner' = pruner,
         DOMAIN utxo' \ {op} = DOMAIN utxo \ {op},
         \A x \in DOMAIN utxo \ {op} : utxo'[x] = utxo[x]
  PROVE  Contract!Seen(op)
  <1>1. \A c \in DOMAIN pruner : Due(c)' \ {op} = Due(c) \ {op}
    BY DEF Due
  <1>2. /\ DOMAIN Running' = DOMAIN pruner'
        /\ \A c \in DOMAIN pruner' :
             /\ Running'[c].h = pruner'[c].h /\ Running'[c].due = Due(c)'
             /\ Running'[c].slices = pruner'[c].next
    BY DEF Running
  <1>3. ASSUME NEW c \in DOMAIN Running
        PROVE  /\ Running'[c].h = Running[c].h /\ Running'[c].slices = Running[c].slices
               /\ Running'[c].due \ {op} = Running[c].due \ {op}
    BY <1>1, <1>2, <1>3, RunningFacts
  <1> QED
    BY <1>2, <1>3, RunningFacts DEF Contract!Seen

LEMMA CallRefines ==
  ASSUME RecordsOK, Call
  PROVE  Contract!Next \/ UNCHANGED <<utxo, Running>>
  <1>1. pruner' = pruner
    BY DEF Call
  <1>2. UNCHANGED utxo => UNCHANGED <<utxo, Running>>
    BY <1>1 DEF Running, Due
  <1>3. ASSUME NEW op, NEW u, utxo' = Store(utxo, op, u) PROVE Contract!Put(op, u)
    <2>1. Contract!Seen(op)
      BY <1>1, <1>3, CallSeen DEF Store
    <2> QED
      BY <1>3, <2>1 DEF Contract!Put, Contract!Store, Store
  <1>4. ASSUME NEW op, utxo' = Without(utxo, {op}) PROVE Contract!Delete(op)
    <2>1. Contract!Seen(op)
      BY <1>1, <1>4, CallSeen DEF Without
    <2> QED
      BY <1>4, <2>1 DEF Contract!Delete, Contract!Without, Without
  <1>5. ASSUME NEW op \in Outpoint, NEW u \in UTXORec, PutUTXO(op, u) PROVE Contract!Next
    BY <1>3, <1>5 DEF PutUTXO, Contract!Next, UTXORec, Unspent, Contract!UTXORec, Contract!Unspent
  <1>6. ASSUME NEW op \in Outpoint, NEW by \in TxId, NEW h \in Height, SpendUTXO(op, by, h)
        PROVE  Contract!Next \/ UNCHANGED utxo
    <2>1. CASE op \in DOMAIN utxo
      <3>1. Contract!Put(op, SpentRec(by, h))
        BY <1>3, <1>6, <2>1 DEF SpendUTXO
      <3>2. Contract!Replace(op, Contract!SpentRec(by, h))
        BY <2>1, <3>1 DEF Contract!Replace, Contract!SpentRec, SpentRec
      <3> QED
        BY <3>2 DEF Contract!Next
    <2>2. CASE op \notin DOMAIN utxo
      BY <1>6, <2>2 DEF SpendUTXO, utxoVars
    <2> QED
      BY <2>1, <2>2
  <1>7. ASSUME NEW op \in Outpoint, UnspendUTXO(op)
        PROVE  Contract!Next \/ UNCHANGED utxo
    <2>1. CASE op \in DOMAIN utxo
      <3>1. Contract!Put(op, Unspent)
        BY <1>3, <1>7, <2>1 DEF UnspendUTXO
      <3>2. Contract!Replace(op, Contract!Unspent)
        BY <2>1, <3>1 DEF Contract!Replace, Contract!Unspent, Unspent
      <3> QED
        BY <3>2 DEF Contract!Next
    <2>2. CASE op \notin DOMAIN utxo
      BY <1>7, <2>2 DEF UnspendUTXO, utxoVars
    <2> QED
      BY <2>1, <2>2
  <1>8. ASSUME NEW op \in Outpoint, DeleteUTXO(op)
        PROVE  Contract!Next \/ UNCHANGED utxo
    <2>1. CASE op \in DOMAIN utxo
      <3>1. Contract!Delete(op)
        BY <1>4, <1>8, <2>1 DEF DeleteUTXO
      <3> QED
        BY <3>1 DEF Contract!Next
    <2>2. CASE op \notin DOMAIN utxo
      BY <1>8, <2>2 DEF DeleteUTXO, utxoVars
    <2> QED
      BY <2>1, <2>2
  <1> QED
    BY <1>2, <1>5, <1>6, <1>7, <1>8 DEF Call, PutOut, Spend, Unspend, DelOut

LEMMA BeginRefines ==
  ASSUME RecordsOK, NEW c \in Pruners, NEW h \in Height, BeginPrune(c, h)
  PROVE  Contract!Begin(c, h)
  <1>1. utxo' = utxo /\ c \notin DOMAIN pruner
    BY DEF BeginPrune, storeVars
  <1>2. pruner' = Store(pruner, c, [h |-> h, next |-> 0])
    BY DEF BeginPrune
  <1>3. Due(c)' = Contract!SpentAt(h)
    <2>1. pruner'[c].h = h /\ pruner'[c].next = 0
      BY <1>2 DEF Store
    <2>2. \A op \in DOMAIN utxo : striperOf[op[1]] >= 0
      BY StripeAssumption DEF RecordsOK, Outpoint
    <2> QED
      BY <1>1, <2>1, <2>2 DEF Due, Contract!SpentAt
  <1>4. \A d \in DOMAIN pruner : pruner'[d] = pruner[d] /\ Due(d)' = Due(d)
    BY <1>1, <1>2 DEF Due, Store
  <1>5. Running' = Contract!Store(Running, c, [h |-> h, due |-> Contract!SpentAt(h), slices |-> 0])
    <2>1. pruner'[c].h = h /\ pruner'[c].next = 0
      BY <1>2 DEF Store
    <2>2. DOMAIN pruner' = DOMAIN pruner \cup {c}
      BY <1>2 DEF Store
    <2> QED
      BY <1>1, <1>3, <1>4, <2>1, <2>2 DEF Running, Contract!Store
  <1> QED
    BY <1>1, <1>5, RunningFacts DEF Contract!Begin

LEMMA SweepRefines ==
  ASSUME RecordsOK, PrunersOK, BandComplete, NEW c \in DOMAIN pruner, PruneNext(c)
  PROVE  Contract!Next
  <1> DEFINE h == pruner[c].h
             s == pruner[c].next
             S == {op \in Contract!SpentAt(h) : striperOf[op[1]] = s}
  <1>1. h \in Height /\ s \in Nat
    BY StripeAssumption DEF PrunersOK
  <1>2. utxo' = Without(utxo, S)
    BY <1>1, BandsSelectTheScan DEF PruneNext, PruneStripe
  <1>3. /\ DOMAIN pruner' = DOMAIN pruner
        /\ pruner'[c].h = h /\ pruner'[c].next = s + 1
        /\ \A d \in DOMAIN pruner : pruner'[d].h = pruner[d].h
        /\ \A d \in DOMAIN pruner : d # c => pruner'[d] = pruner[d]
    <2>1. pruner' = [pruner EXCEPT ![c].next = @ + 1]
      BY DEF PruneNext
    <2>2. pruner[c] \in [h : Height, next : 0 .. StripeCount]
      BY DEF PrunersOK
    <2> QED
      BY <2>1, <2>2
  <1>4. ASSUME NEW d \in DOMAIN pruner
        PROVE  Due(d)' = Due(d) \ S
    <2>1. CASE d # c
      BY <1>2, <1>3, <1>4, <2>1 DEF Due, Without
    <2>2. CASE d = c
      <3>1. \A op \in DOMAIN utxo : striperOf[op[1]] \in Nat
        BY StripeAssumption DEF RecordsOK, Outpoint
      <3>2. \A m, n \in Nat : m >= n + 1 <=> m >= n /\ m # n
        OBVIOUS
      <3>3. \A op \in DOMAIN utxo :
              striperOf[op[1]] >= s + 1 <=> striperOf[op[1]] >= s /\ striperOf[op[1]] # s
        BY <1>1, <3>1, <3>2
      <3>4. Due(c)' = {op \in DOMAIN utxo \ S : /\ utxo[op].spent /\ utxo[op].spentHeight = h
                                                /\ striperOf[op[1]] >= s + 1}
        BY <1>2, <1>3 DEF Due, Without
      <3> QED
        BY <2>2, <3>3, <3>4 DEF Due, Contract!SpentAt
    <2> QED
      BY <2>1, <2>2
  <1>5. Running' = [d \in DOMAIN Running |->
                      [Running[d] EXCEPT !.due = @ \ S, !.slices = IF d = c THEN @ + 1 ELSE @]]
    BY <1>3, <1>4 DEF Running
  <1>6. Contract!Sweep(c, S)
    BY <1>2, <1>5 DEF Contract!Sweep, Contract!Without, Without
  <1>7. c \in DOMAIN Running /\ S \in SUBSET Contract!SpentAt(Running[c].h)
    BY RunningFacts
  <1> QED
    BY <1>6, <1>7 DEF Contract!Next

LEMMA EndRefines ==
  ASSUME RecordsOK, PrunersOK, NEW c \in DOMAIN pruner, EndPrune(c)
  PROVE  Contract!Return(c)
  <1>1. utxo' = utxo /\ pruner[c].next = StripeCount /\ pruner' = Without(pruner, {c})
    BY DEF EndPrune, storeVars
  <1>2. Due(c) = {}
    <2>1. \A op \in DOMAIN utxo : ~(striperOf[op[1]] >= StripeCount)
      BY StripeAssumption DEF RecordsOK, Outpoint
    <2> QED
      BY <1>1, <2>1 DEF Due
  <1>3. \A d \in DOMAIN pruner \ {c} : pruner'[d] = pruner[d] /\ Due(d)' = Due(d)
    BY <1>1 DEF Due, Without
  <1>4. Running' = Contract!Without(Running, {c})
    BY <1>1, <1>3 DEF Running, Without, Contract!Without
  <1> QED
    BY <1>1, <1>2, <1>4, RunningFacts DEF Contract!Return

LEMMA StepRefines == StoreInv /\ [ClientsNext]_clientVars => [Contract!Next]_<<utxo, Running>>
  <1> SUFFICES ASSUME RecordsOK, PrunersOK, BandComplete, [ClientsNext]_clientVars
               PROVE  Contract!Next \/ UNCHANGED <<utxo, Running>>
    BY TypeParts DEF StoreInv
  <1>1. CASE Call
    BY <1>1, CallRefines
  <1>2. ASSUME NEW c \in Pruners, NEW h \in Height, BeginPrune(c, h)
        PROVE  Contract!Next
    BY <1>2, BeginRefines DEF Contract!Next
  <1>3. ASSUME NEW c \in DOMAIN pruner, PruneNext(c)
        PROVE  Contract!Next
    BY <1>3, SweepRefines
  <1>4. ASSUME NEW c \in DOMAIN pruner, EndPrune(c)
        PROVE  Contract!Next
    BY <1>4, EndRefines, RunningFacts DEF Contract!Next
  <1>5. CASE UNCHANGED clientVars
    BY <1>5 DEF clientVars, storeVars, Running, Due
  <1> QED
    BY <1>1, <1>2, <1>3, <1>4, <1>5 DEF ClientsNext

(* The in-memory store, whose prune lets other calls in between its         *)
(* stripes, implements the full-scan contract of store.Store for any number *)
(* of stripes and concurrent prunes: a prune deletes no record that is not  *)
(* spent at its height and returns only when every record that stood so     *)
(* from its beginning is gone.                                              *)
THEOREM StoreImplementsContract == ClientsSpec => ContractHolds
  <1>1. ClientsInit => Contract!Init
    BY DEF ClientsInit, StoreInit, Unspent, Running, Contract!Init, Contract!Unspent
  <1>2. ClientsSpec => []StoreInv
    BY InitStore, StepStore, PTL DEF ClientsSpec
  <1> QED
    BY <1>1, <1>2, StepRefines, PTL DEF ClientsSpec, ContractHolds, Contract!Spec

-----------------------------------------------------------------------------
(* The pruner.                                                               *)

(* Every pruned height lies its full depth below the highest tip so far.     *)
SweptWindow ==
  /\ \A h \in swept : hasTip /\ h + D(policy) <= maxTip
  /\ \A h \in freed : policy.IndexRetention > 0 /\ hasTip /\ h + policy.IndexRetention <= maxTip

(* A tip below the highest one (after a rollback) never raises the window.   *)
TipOrder == hasTip => lastTip <= maxTip

PrunerInv == PrunerTypeOK /\ SweptWindow /\ TipOrder

(* A policy PolicyWithD accepts does not overflow.                           *)
LEMMA DFacts ==
  ASSUME NEW p \in Policies
  PROVE  /\ D(p) \in Uint32 /\ D(p) \in Nat
         /\ p.ReorgHorizon \in Nat /\ p.ReorgHorizon <= D(p)
         /\ p.IndexRetention \in Uint32 /\ p.IndexRetention \in Nat
  BY PolicyAssumption DEF D, Policy, Uint32

(* What sweep visits: only heights at least d below the tip, and all of      *)
(* those that the previous tip had not reached.                              *)
LEMMA SweepFacts ==
  ASSUME NEW p \in Uint32, NEW had \in BOOLEAN, NEW tip \in Uint32, NEW d \in Uint32
  PROVE  /\ \A h \in SweepBands(p, had, tip, d) : h \in Uint32 /\ h + d <= tip
         /\ \A h \in Uint32 :
              (/\ h + d <= tip
               /\ had => p < h + d
               /\ ~had => tip <= h + d)
              => h \in SweepBands(p, had, tip, d)
  <1>1. d \in Nat /\ p \in Nat /\ tip \in Nat /\ Word \in Nat \ {0} /\ p < Word /\ tip < Word
    BY PolicyAssumption DEF Uint32
  <1>2. SweepStart(p, had, tip, d) \in Nat \/ tip < d
    BY <1>1 DEF SweepStart
  <1>3. ASSUME NEW h \in SweepBands(p, had, tip, d)
        PROVE  h \in Uint32 /\ h + d <= tip
    BY <1>1, <1>2, <1>3 DEF SweepBands, Uint32
  <1>4. ASSUME NEW h \in Uint32, h + d <= tip, had => p < h + d, ~had => tip <= h + d
        PROVE  h \in SweepBands(p, had, tip, d)
    <2>1. h \in Nat /\ tip >= d
      BY <1>1, <1>4 DEF Uint32
    <2>2. SweepStart(p, had, tip, d) <= h
      <3>1. CASE ~had
        BY <1>1, <1>4, <2>1, <3>1 DEF SweepStart
      <3>2. CASE had /\ p >= d
        <4>1. (p - d) + 1 \in Nat /\ (p - d) + 1 <= h /\ (p - d) + 1 < Word
          BY <1>1, <1>4, <2>1, <3>2
        <4>2. ((p - d) + 1) % Word = (p - d) + 1
          BY <1>1, <4>1
        <4> QED
          BY <3>2, <4>1, <4>2 DEF SweepStart
      <3>3. CASE had /\ ~(p >= d)
        BY <2>1, <3>3 DEF SweepStart
      <3> QED
        BY <3>1, <3>2, <3>3
    <2> QED
      BY <1>1, <1>2, <1>4, <2>1, <2>2 DEF SweepBands
  <1> QED
    BY <1>3, <1>4

LEMMA InitPruner == PrunerInit => PrunerInv
  <1> SUFFICES ASSUME PrunerInit
               PROVE  PrunerInv
    OBVIOUS
  <1>1. 0 \in Uint32
    BY PolicyAssumption DEF Uint32
  <1>2. PrunerTypeOK
    BY <1>1 DEF PrunerInit, PrunerTypeOK
  <1>3. SweptWindow
    BY DEF PrunerInit, SweptWindow
  <1>4. TipOrder
    BY DEF PrunerInit, TipOrder
  <1> QED
    BY <1>2, <1>3, <1>4 DEF PrunerInv

LEMMA AnnounceFacts ==
  ASSUME PrunerTypeOK, TipOrder, NEW tip \in Uint32, Announce(tip)
  PROVE  /\ policy' = policy /\ lastTip' \in Uint32 /\ hasTip' = TRUE
         /\ maxTip' \in Uint32 /\ firstTip' \in Uint32
         /\ tip <= maxTip' /\ lastTip' <= maxTip'
         /\ hasTip => maxTip <= maxTip'
         /\ maxTip' = tip \/ (hasTip /\ maxTip' = maxTip)
  <1>1. tip \in Nat /\ maxTip \in Nat /\ tip < Word /\ Word \in Nat
    BY PolicyAssumption DEF PrunerTypeOK, Uint32
  <1> QED
    BY <1>1 DEF Announce, PrunerTypeOK, Uint32

LEMMA StepPruner == PrunerInv /\ [PrunerNext]_prunerVars => PrunerInv'
  <1> SUFFICES ASSUME PrunerInv, [PrunerNext]_prunerVars
               PROVE  PrunerInv'
    OBVIOUS
  <1>1. ASSUME NEW tip \in Uint32, Announce(tip), err' \in BOOLEAN, failed' \in BOOLEAN,
               NEW B \in SUBSET SpentBands(tip), swept' = swept \cup B,
               NEW I \in SUBSET IndexBands(tip), freed' = freed \cup I
        PROVE  PrunerInv'
    <2>1. /\ policy' = policy /\ lastTip' \in Uint32 /\ hasTip' = TRUE
          /\ maxTip' \in Uint32 /\ firstTip' \in Uint32
          /\ tip <= maxTip' /\ lastTip' <= maxTip'
          /\ hasTip => maxTip <= maxTip'
      BY <1>1, AnnounceFacts DEF PrunerInv
    <2>2. \A h \in B : h \in Uint32 /\ h + D(policy) <= tip
      BY <1>1, DFacts, SweepFacts DEF PrunerInv, PrunerTypeOK, SpentBands
    <2>3. \A h \in I : h \in Uint32 /\ policy.IndexRetention > 0 /\ h + policy.IndexRetention <= tip
      BY <1>1, DFacts, SweepFacts DEF PrunerInv, PrunerTypeOK, IndexBands
    <2>4. PrunerTypeOK'
      BY <1>1, <2>1, <2>2, <2>3 DEF PrunerInv, PrunerTypeOK
    <2>5. D(policy) \in Nat /\ policy.IndexRetention \in Nat /\ tip \in Nat /\ maxTip \in Nat /\ maxTip' \in Nat
      BY <2>4, DFacts, PolicyAssumption DEF PrunerInv, PrunerTypeOK, Uint32
    <2>6. ASSUME NEW h \in swept'
          PROVE  h + D(policy) <= maxTip'
      <3>1. h \in Nat
        BY <2>4 DEF PrunerTypeOK, Uint32
      <3>2. h \in B \/ (hasTip /\ h + D(policy) <= maxTip)
        BY <1>1, <2>6 DEF PrunerInv, SweptWindow
      <3> QED
        BY <2>1, <2>2, <2>5, <3>1, <3>2
    <2>7. ASSUME NEW h \in freed'
          PROVE  policy.IndexRetention > 0 /\ h + policy.IndexRetention <= maxTip'
      <3>1. h \in Nat
        BY <2>4 DEF PrunerTypeOK, Uint32
      <3>2. h \in I \/ (policy.IndexRetention > 0 /\ hasTip /\ h + policy.IndexRetention <= maxTip)
        BY <1>1, <2>7 DEF PrunerInv, SweptWindow
      <3> QED
        BY <2>1, <2>3, <2>5, <3>1, <3>2
    <2> QED
      BY <2>1, <2>4, <2>6, <2>7 DEF PrunerInv, SweptWindow, TipOrder
  <1>2. ASSUME NEW tip \in Uint32, OnNewBlock(tip)
        PROVE  PrunerInv'
    <2>1. err' \in BOOLEAN /\ failed' \in BOOLEAN
      BY <1>2 DEF OnNewBlock, PrunerInv, PrunerTypeOK
    <2> QED
      BY <1>1, <1>2, <2>1 DEF OnNewBlock
  <1>3. ASSUME NEW tip \in Uint32, NEW bad \in Uint32, OnNewBlockFails(tip, bad)
        PROVE  PrunerInv'
    <2>1. CASE /\ swept' = swept \cup {h \in SpentBands(tip) : h < bad}
               /\ UNCHANGED freed
      <3>1. freed' = freed \cup {}
        BY <2>1
      <3> QED
        BY <1>1, <1>3, <2>1, <3>1 DEF OnNewBlockFails
    <2>2. CASE /\ swept' = swept \cup SpentBands(tip)
               /\ freed' = freed \cup {h \in IndexBands(tip) : h < bad}
      BY <1>1, <1>3, <2>2 DEF OnNewBlockFails
    <2> QED
      BY <1>3, <2>1, <2>2 DEF OnNewBlockFails
  <1>4. CASE UNCHANGED prunerVars
    BY <1>4 DEF prunerVars, PrunerInv, PrunerTypeOK, SweptWindow, TipOrder, D
  <1> QED
    BY <1>2, <1>3, <1>4 DEF PrunerNext

(* The correctness floor, for every policy and every sequence of tips, with  *)
(* or without store errors: a spend band OnNewBlock prunes is always buried  *)
(* deeper than the reorg horizon, so RollbackBlock within the horizon finds  *)
(* its records; index data is freed only outside its window.                 *)
THEOREM FloorTheorem == PrunerSpec => [](PrunerTypeOK /\ FloorHeld)
  <1>1. PrunerSpec => []PrunerInv
    BY InitPruner, StepPruner, PTL DEF PrunerSpec
  <1>2. PrunerInv => PrunerTypeOK /\ FloorHeld
    <2> SUFFICES ASSUME PrunerInv, NEW h \in swept
                 PROVE  hasTip /\ h + policy.ReorgHorizon <= maxTip
      BY DEF PrunerInv, SweptWindow, FloorHeld
    <2>1. h \in Nat /\ maxTip \in Nat /\ D(policy) \in Nat /\ policy.ReorgHorizon \in Nat
      BY DFacts, PolicyAssumption DEF PrunerInv, PrunerTypeOK, Uint32
    <2>2. policy.ReorgHorizon <= D(policy)
      BY DFacts DEF PrunerInv, PrunerTypeOK
    <2> QED
      BY <2>1, <2>2 DEF PrunerInv, SweptWindow
  <1> QED
    BY <1>1, <1>2, PTL

(* One sweep of depth d: the heights below the old highest tip were done,    *)
(* the ones between it and the new tip are swept now.                        *)
LEMMA SweepCompletes ==
  ASSUME PrunerInv, NEW tip \in Uint32, Announce(tip), NEW d \in Uint32, NEW S, NEW T,
         hasTip => Complete(d, S),
         T = S \cup SweepBands(lastTip, hasTip, tip, d)
  PROVE  \A h \in Uint32 : firstTip' <= h + d /\ h + d <= maxTip' => h \in T
  <1> SUFFICES ASSUME NEW h \in Uint32, firstTip' <= h + d, h + d <= maxTip'
               PROVE  h \in T
    OBVIOUS
  <1>1. h \in Nat /\ d \in Nat /\ tip \in Nat /\ lastTip \in Nat /\ maxTip \in Nat
    BY DEF PrunerInv, PrunerTypeOK, Uint32
  <1>2. lastTip \in Uint32 /\ hasTip \in BOOLEAN
    BY DEF PrunerInv, PrunerTypeOK
  <1>3. CASE hasTip /\ h + d <= maxTip
    BY <1>3 DEF Announce, Complete
  <1>4. CASE hasTip /\ ~(h + d <= maxTip)
    <2>1. maxTip' = tip \/ maxTip' = maxTip
      BY AnnounceFacts DEF PrunerInv
    <2>2. lastTip <= maxTip
      BY <1>4 DEF PrunerInv, TipOrder
    <2>3. h + d <= tip /\ lastTip < h + d
      BY <1>1, <1>4, <2>1, <2>2
    <2> QED
      BY <1>2, <1>4, <2>3, SweepFacts
  <1>5. CASE ~hasTip
    <2>1. h + d <= tip /\ tip <= h + d
      BY <1>1, <1>5 DEF Announce
    <2> QED
      BY <1>2, <1>5, <2>1, SweepFacts
  <1> QED
    BY <1>2, <1>3, <1>4, <1>5

LEMMA StepGapFree == PrunerInv /\ GapFree /\ [PrunerNext]_prunerVars => GapFree'
  <1> SUFFICES ASSUME PrunerInv, GapFree, [PrunerNext]_prunerVars
               PROVE  GapFree'
    OBVIOUS
  <1>1. ASSUME NEW tip \in Uint32, OnNewBlock(tip), ~failed'
        PROVE  NothingLeft'
    <2>1. Announce(tip) /\ ~failed
      BY <1>1 DEF OnNewBlock
    <2>2. /\ policy' = policy
          /\ D(policy) \in Uint32 /\ policy.IndexRetention \in Uint32
      BY <2>1, DFacts DEF PrunerInv, PrunerTypeOK, Announce
    <2>3. Complete(D(policy), swept)'
      <3>1. swept' = swept \cup SweepBands(lastTip, hasTip, tip, D(policy))
        BY <1>1 DEF OnNewBlock, SpentBands
      <3>2. hasTip => Complete(D(policy), swept)
        BY <2>1 DEF GapFree, NothingLeft
      <3> QED
        BY <2>1, <2>2, <3>1, <3>2, SweepCompletes DEF Complete
    <2>4. ASSUME policy.IndexRetention > 0
          PROVE  Complete(policy.IndexRetention, freed)'
      <3>1. freed' = freed \cup SweepBands(lastTip, hasTip, tip, policy.IndexRetention)
        BY <1>1, <2>4 DEF OnNewBlock, IndexBands
      <3>2. hasTip => Complete(policy.IndexRetention, freed)
        BY <2>1, <2>4 DEF GapFree, NothingLeft
      <3> QED
        BY <2>1, <2>2, <3>1, <3>2, SweepCompletes DEF Complete
    <2> QED
      BY <2>2, <2>3, <2>4 DEF NothingLeft
  <1>2. ASSUME NEW tip \in Uint32, OnNewBlock(tip)
        PROVE  GapFree'
    BY <1>1, <1>2 DEF GapFree
  <1>3. ASSUME NEW tip \in Uint32, NEW bad \in Uint32, OnNewBlockFails(tip, bad)
        PROVE  GapFree'
    BY <1>3 DEF OnNewBlockFails, GapFree
  <1>4. CASE UNCHANGED prunerVars
    BY <1>4 DEF prunerVars, GapFree, NothingLeft, Complete
  <1> QED
    BY <1>2, <1>3, <1>4 DEF PrunerNext

(* No leak: until a store call fails (those of store/mem never do) every     *)
(* height OnNewBlock is to prune has been pruned, whatever tips came.        *)
THEOREM GapFreeTheorem == PrunerSpec => []GapFree
  <1>1. PrunerInit => GapFree
    BY DEF PrunerInit, GapFree
  <1> QED
    BY <1>1, StepGapFree, InitPruner, StepPruner, PTL DEF PrunerSpec
=============================================================================
