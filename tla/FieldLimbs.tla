----------------------------- MODULE FieldLimbs -----------------------------
(***************************************************************************)
(* The field arithmetic that signing uses, crypto/ct.go: numbers below     *)
(* p = Base^Limbs - feC kept as Limbs words, least significant first, and  *)
(* added, subtracted, multiplied and inverted with explicit carries.  The  *)
(* code has four words of 64 bits and feC = 2^32 + 977: one word, whose    *)
(* square is more than a word.  A register is put through operations in    *)
(* any order, next to the number it should hold.                           *)
(***************************************************************************)
EXTENDS Integers, Sequences

CONSTANTS
  Limbs,        \* 4: words of a field element
  Width,        \* 64: bits of a word
  feC           \* 2^256 mod p

Base == 2 ^ Width
FieldP == Base ^ Limbs - feC
Words == 1 .. Limbs
Idle == -1

ASSUME FieldAssumption ==
  /\ Limbs \in Nat \ {0, 1} /\ Width \in Nat \ {0}
  /\ feC \in 1 .. Base - 1

VARIABLES
  acc,          \* the register, a field element
  res, left,    \* feInv at work: its result so far, bits to go (or Idle)
  num           \* history: the number acc stands for

fieldVars == <<acc, res, left, num>>

feFromBig(x) == [i \in Words |-> (x \div Base ^ (i - 1)) % Base]

feBig(a) ==
  LET v[i \in 0 .. Limbs] == IF i = 0 THEN 0 ELSE v[i - 1] + a[i] * Base ^ (i - 1)
  IN v[Limbs]

pl == feFromBig(FieldP)
Zero == feFromBig(0)
One == feFromBig(1)

-----------------------------------------------------------------------------
(* Chains of bits.Add64 and bits.Sub64, from the lowest word to the highest. *)
Plus(a, b) ==
  LET c[i \in 0 .. Limbs] == IF i = 0 THEN 0 ELSE (a[i] + b[i] + c[i - 1]) \div Base IN
    [words |-> [i \in Words |-> (a[i] + b[i] + c[i - 1]) % Base], carry |-> c[Limbs]]

Minus(a, b) ==
  LET br[i \in 0 .. Limbs] == IF i > 0 /\ a[i] < b[i] + br[i - 1] THEN 1 ELSE 0 IN
    [words |-> [i \in Words |-> (a[i] + Base - b[i] - br[i - 1]) % Base],
     borrow |-> br[Limbs]]

(* The carry out of the top word is worth feC in the lowest.                 *)
FoldCarry(r) == Plus(r.words, feFromBig(r.carry * feC))

feCondSubP(a) == LET r == Minus(a, pl) IN IF r.borrow = 0 THEN r.words ELSE a

feAdd(a, b) == feCondSubP(FoldCarry(FoldCarry(Plus(a, b))).words)

feSub(a, b) ==
  LET r == Minus(a, b) IN Plus(r.words, IF r.borrow = 1 THEN pl ELSE Zero).words

(* t + x * b, from word i of t on; no product of words with two more words   *)
(* added reaches the square of Base, so hi never overflows.                  *)
AddRow(t, i, x, b) ==
  LET c[j \in 0 .. Limbs] ==
        IF j = 0 THEN 0 ELSE (t[i + j - 1] + x * b[j] + c[j - 1]) \div Base IN
    [n \in DOMAIN t |->
       CASE n \in i .. i + Limbs - 1 -> (t[n] + x * b[n - i + 1] + c[n - i]) % Base
         [] n = i + Limbs -> (t[n] + c[Limbs]) % Base
         [] OTHER -> t[n]]

mul256by64(a, w) == AddRow([n \in 1 .. Limbs + 1 |-> 0], 1, w, a)

Product(a, b) ==
  LET t[i \in 0 .. Limbs] ==
        IF i = 0 THEN [n \in 1 .. 2 * Limbs |-> 0] ELSE AddRow(t[i - 1], i, a[i], b)
  IN t[Limbs]

(* The product with its upper half, and then what is left above the top      *)
(* word, replaced by feC times as much.                                      *)
FoldedProduct(a, b) ==
  LET t == Product(a, b)
      m == mul256by64(SubSeq(t, Limbs + 1, 2 * Limbs), feC)
      r == Plus(SubSeq(t, 1, Limbs), SubSeq(m, 1, Limbs))
      r4 == (m[Limbs + 1] + r.carry) % Base IN
    Plus(r.words, feFromBig(r4 * feC))

(* Mutant: the carry of the last fold is dropped.                            *)
feMulCarryLost(a, b) == feCondSubP(FoldedProduct(a, b).words)

feMul(a, b) == feCondSubP(FoldCarry(FoldedProduct(a, b)).words)

-----------------------------------------------------------------------------
FieldInit == acc = Zero /\ num = 0 /\ res = Zero /\ left = Idle

Compute(x) ==
  /\ left = Idle
  /\ \/ acc' = feAdd(acc, feFromBig(x)) /\ num' = (num + x) % FieldP
     \/ acc' = feSub(acc, feFromBig(x)) /\ num' = (num - x) % FieldP
     \/ acc' = feSub(feFromBig(x), acc) /\ num' = (x - num) % FieldP
     \/ acc' = feMul(acc, feFromBig(x)) /\ num' = (num * x) % FieldP
  /\ UNCHANGED <<res, left>>

(* feInv raises acc to p - 2, square and multiply from the highest bit of    *)
(* the words down.                                                           *)
InvStart ==
  /\ left = Idle
  /\ res' = One /\ left' = Limbs * Width
  /\ UNCHANGED <<acc, num>>

Squared == feMul(res, res)
ExpBit == ((FieldP - 2) \div 2 ^ (left - 1)) % 2

InvStep ==
  /\ left > 0
  /\ res' = IF ExpBit = 1 THEN feMul(Squared, acc) ELSE Squared
  /\ left' = left - 1
  /\ UNCHANGED <<acc, num>>

Inverse(x) == IF x = 0 THEN 0 ELSE CHOOSE y \in 1 .. FieldP - 1 : (x * y) % FieldP = 1

(* The call returns into the register.                                       *)
InvReturn ==
  /\ left = 0
  /\ acc' = res /\ num' = Inverse(num)
  /\ res' = Zero /\ left' = Idle

FieldNext ==
  \/ \E x \in 0 .. FieldP - 1 : Compute(x)
  \/ InvStart \/ InvStep \/ InvReturn

FieldSpec == FieldInit /\ [][FieldNext]_fieldVars

-----------------------------------------------------------------------------
(* FieldExact: through any sequence of feAdd, feSub, feMul and feInv the     *)
(* words are those of the exact result modulo p, below p ("fully reduced to  *)
(* [0,p) after every exported op"), whichever of the carries and borrows     *)
(* occur; at 256 bits some of them have no chance of being met by the random *)
(* inputs of a test.                                                         *)
FieldExact == acc = feFromBig(num) /\ feBig(acc) = num /\ num < FieldP
=============================================================================
