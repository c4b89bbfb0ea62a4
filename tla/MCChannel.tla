------------------------------ MODULE MCChannel ------------------------------
(* Channels with a deposit of seven over metered or flat prices, both fee    *)
(* modes, with and without a refund and a deadline, a funding value with and *)
(* without room for the miner's fee; fees and prices that wrap a sum.        *)
EXTENDS ChannelSession
CONSTANTS clientKey, utxo1, seen, path
MCQueryType == {seen, path}
Flat(price, settleFee, mode) ==
  [flat |-> TRUE, flatPrice |-> price, perType |-> [q \in MCQueryType |-> 0],
   settleFee |-> settleFee, feeMode |-> mode]
PerType(settleFee, mode) ==
  [flat |-> FALSE, flatPrice |-> 0, perType |-> [q \in MCQueryType |-> IF q = seen THEN 1 ELSE 2],
   settleFee |-> settleFee, feeMode |-> mode]
Config(deposit, value, fee, pricing, n, refundLock, settleBefore) ==
  [funding |-> utxo1, clientPub |-> clientKey, deposit |-> deposit, fundingValue |-> value,
   fee |-> fee, pricing |-> pricing, n |-> n, refundLock |-> refundLock,
   settleBefore |-> settleBefore]
MCConfigs ==
  {Config(7, value, fee, pricing, n, refundLock, settleBefore) :
     value \in {0, 9}, fee \in {0, 1, 62}, n \in {0, 2}, refundLock \in {0, 2, 3},
     settleBefore \in {0, 2},
     pricing \in {Flat(1, 2, "upfront"), PerType(3, "amortized"), Flat(1, 3, "amortized"),
                  Flat(62, 0, "upfront"), Flat(1, 63, "amortized")}}

(* Open accepts a refund with a count trigger and no deadline.                *)
CountOnly == {Config(7, 0, 0, Flat(1, 2, "upfront"), 2, 2, 0)}
=============================================================================
