------------------------------- MODULE Curve -------------------------------
(***************************************************************************)
(* The group of crypto/secp256k1.go and crypto/ct.go, the points of        *)
(* y^2 = x^3 + 7 over a field of CurveP elements and a point at infinity:  *)
(* affine arithmetic with its special cases, as verification uses it, and  *)
(* the projective arithmetic without special cases of the signing ladder.  *)
(* Field elements are numbers modulo CurveP; FieldLimbs is about the words *)
(* they are made of.  The constants stand for secp256k1's.                 *)
(***************************************************************************)
EXTENDS Integers

CONSTANTS
  CurveP,       \* prime, 3 modulo 4
  CurveN,       \* prime, the number of points
  CurveG,       \* a point, <<x, y>>
  ScalarBits    \* 256: bits of a scalar

CurveB == 7
Infinity == <<>>

(* big.Int.ModInverse.                                                       *)
ModInverse(a, m) == CHOOSE y \in 1 .. m - 1 : (a * y) % m = 1

BitOf(k, i) == (k \div 2 ^ i) % 2

onCurve(p) ==
  p # Infinity /\ p[1] < CurveP /\ p[2] < CurveP
  /\ (p[2] * p[2]) % CurveP = (p[1] * p[1] * p[1] + CurveB) % CurveP

ASSUME CurveAssumption ==
  /\ CurveP % 4 = 3 /\ CurveN % 2 = 1 /\ CurveN <= 2 ^ ScalarBits /\ onCurve(CurveG)

-----------------------------------------------------------------------------
(* The third point of the line of slope lam through <<x, y>> and one at x2.  *)
Chord(lam, x, y, x2) ==
  LET x3 == (lam * lam - x - x2) % CurveP IN <<x3, ((x - x3) * lam - y) % CurveP>>

pointDouble(p) ==
  IF p = Infinity \/ p[2] = 0 THEN Infinity
  ELSE LET lam == (3 * p[1] * p[1] * ModInverse((2 * p[2]) % CurveP, CurveP)) % CurveP IN
         Chord(lam, p[1], p[2], p[1])

pointAdd(p, q) ==
  CASE p = Infinity -> q
    [] p # Infinity /\ q = Infinity -> p
    [] p # Infinity /\ p = q -> pointDouble(p)
    [] p # Infinity /\ q # Infinity /\ p[1] = q[1] /\ p # q -> Infinity
    [] OTHER ->
         LET lam == ((q[2] - p[2]) * ModInverse((q[1] - p[1]) % CurveP, CurveP)) % CurveP IN
           Chord(lam, p[1], p[2], q[1])

(* Leading zero bits only double infinity.                                   *)
scalarMult(k, p) ==
  LET r[i \in 0 .. ScalarBits] ==
        IF i = 0 THEN Infinity
        ELSE LET d == pointDouble(r[i - 1]) IN
               IF BitOf(k, ScalarBits - i) = 1 THEN pointAdd(d, p) ELSE d
  IN r[ScalarBits]

scalarBaseMult(k) == scalarMult(k, CurveG)

-----------------------------------------------------------------------------
(* A compressed key is its x and whether its y is odd.                       *)
SerializeCompressed(p) == [odd |-> p[2] % 2 = 1, x |-> p[1]]

Power(a, e) ==
  LET r[i \in 0 .. e] == IF i = 0 THEN 1 ELSE (r[i - 1] * a) % CurveP IN r[e]

(* Mutant: the square root found is taken whatever its parity.               *)
ParseCompressedAnyRoot(c) ==
  <<c.x, Power((c.x * c.x * c.x + CurveB) % CurveP, (CurveP + 1) \div 4)>>

(* Infinity stands for the errors.                                           *)
ParseCompressed(c) ==
  LET rhs == (c.x * c.x * c.x + CurveB) % CurveP
      y == Power(rhs, (CurveP + 1) \div 4)
      p == <<c.x, IF (y % 2 = 1) # c.odd THEN CurveP - y ELSE y>> IN
    IF c.x < CurveP /\ (y * y) % CurveP = rhs /\ onCurve(p) THEN p ELSE Infinity

-----------------------------------------------------------------------------
(* Projective points, x = X / Z; the identity has Z = 0.                     *)
identity == [X |-> 0, Y |-> 1, Z |-> 0]
ctBaseG == [X |-> CurveG[1], Y |-> CurveG[2], Z |-> 1]

completeAdd(p, q) ==
  LET F(x) == x % CurveP
      t0 == F(p.X * q.X)
      t1 == F(p.Y * q.Y)
      t2 == F(p.Z * q.Z)
      t3 == F((p.X + p.Y) * (q.X + q.Y) - (t0 + t1))
      t4 == F((p.Y + p.Z) * (q.Y + q.Z) - (t1 + t2))
      y3 == F(3 * CurveB * F((p.X + p.Z) * (q.X + q.Z) - (t0 + t2)))
      u == F(3 * t0)
      v == F(3 * CurveB * t2)
      z3 == F(t1 + v)
      w == F(t1 - v) IN
    [X |-> F(t3 * w - t4 * y3), Y |-> F(w * z3 + y3 * u), Z |-> F(z3 * t4 + u * t3)]

(* Mutant: the point is added before the double.                             *)
ladderStepAddFirst(R, P, bit) ==
  LET T == IF bit = 1 THEN completeAdd(R, P) ELSE R IN completeAdd(T, T)

(* One round of scalarMultCT: the sum is computed in any case, and selected. *)
ladderStep(R, P, bit) ==
  LET D == completeAdd(R, R)
      T == completeAdd(D, P) IN
    IF bit = 1 THEN T ELSE D

(* feInv of zero is zero.                                                    *)
affineXY(R) ==
  LET zi == IF R.Z = 0 THEN 0 ELSE ModInverse(R.Z, CurveP) IN
    <<(R.X * zi) % CurveP, (R.Y * zi) % CurveP>>

affineX(R) == affineXY(R)[1]
=============================================================================
