-------------------------------- MODULE Shard --------------------------------
(***************************************************************************)
(* Sharding by hash prefix, shard/shard.go.  A hash is represented by the  *)
(* integer its first Bits bits spell, the most significant first; shard    *)
(* numbers are words of Bits bits (32 in the code, and MaxK with it).      *)
(***************************************************************************)
EXTENDS Naturals, Sequences

CONSTANT Bits       \* bits of the prefix read from a hash, and of a uint32

ASSUME ShardAssumption == Bits \in Nat \ {0}

MaxK == Bits
HashPrefixes == 0 .. 2 ^ Bits - 1

Of(h, k) ==
  IF k = 0 THEN 0
  ELSE h \div 2 ^ (Bits - (IF k > MaxK THEN MaxK ELSE k))
=============================================================================
