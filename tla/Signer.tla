------------------------------- MODULE Signer -------------------------------
(***************************************************************************)
(* ECDSA signatures, crypto/secp256k1.go: a key is made and its public     *)
(* half sent in compressed form; Sign tries nonces, each multiplied by the *)
(* constant-time ladder a bit at a time; the receiver keeps the parsed key *)
(* and verifies signatures with it.                                        *)
(***************************************************************************)
EXTENDS Curve

CONSTANTS
  Seeds,        \* numbers keys are made from
  Hashes,       \* hashes signed, as numbers of ScalarBits bits
  MaxTries      \* 1000: nonces tried

VARIABLES
  d,            \* PrivateKey.D
  pub,          \* the parsed public key, as the receiver's memory holds it
  hash,
  stage,        \* "nonce", "ladder", "signed" or "failed" (ErrSign)
  tries,        \* i
  nonce,
  bits,         \* bits of the nonce still to be read
  R,            \* the ladder's point
  sig           \* [R, S]

signVars == <<d, pub, hash, stage, tries, nonce, bits, R, sig>>

NewPrivateKey(seed) == (seed % (CurveN - 1)) + 1
Public(x) == scalarBaseMult(x)

nHalf == CurveN \div 2
IsLowS(g) == g.S <= nHalf
Malleate(g) == [g EXCEPT !.S = CurveN - @]

SignInit ==
  /\ \E seed \in Seeds : d = NewPrivateKey(seed)
  /\ pub = ParseCompressed(SerializeCompressed(Public(d)))
  /\ hash \in Hashes
  /\ stage = "nonce" /\ tries = 0 /\ nonce = 0 /\ bits = 0 /\ R = identity
  /\ sig = [R |-> 0, S |-> 0]

-----------------------------------------------------------------------------
(* rfc6979Nonce gives some number of 1 .. n - 1.                             *)
Draw(k) ==
  /\ stage = "nonce"
  /\ nonce' = k /\ bits' = ScalarBits /\ R' = identity /\ stage' = "ladder"
  /\ UNCHANGED <<d, pub, hash, tries, sig>>

Ladder ==
  /\ stage = "ladder" /\ bits > 0
  /\ R' = ladderStep(R, ctBaseG, BitOf(nonce, bits - 1))
  /\ bits' = bits - 1
  /\ UNCHANGED <<d, pub, hash, stage, tries, nonce, sig>>

sigR == affineX(R) % CurveN
sigS == ((sigR * d + hash) * ModInverse(nonce, CurveN)) % CurveN

Retry ==
  /\ stage = "ladder" /\ bits = 0
  /\ sigR = 0 \/ sigS = 0
  /\ tries' = tries + 1
  /\ stage' = IF tries' = MaxTries THEN "failed" ELSE "nonce"
  /\ UNCHANGED <<d, pub, hash, nonce, bits, R, sig>>

Sign ==
  /\ stage = "ladder" /\ bits = 0
  /\ sigR # 0 /\ sigS # 0
  /\ sig' = [R |-> sigR, S |-> IF sigS > nHalf THEN CurveN - sigS ELSE sigS]
  /\ stage' = "signed"
  /\ UNCHANGED <<d, pub, hash, tries, nonce, bits, R>>

-----------------------------------------------------------------------------
U1(h, g) == (h * ModInverse(g.S, CurveN)) % CurveN
U2(g) == (g.R * ModInverse(g.S, CurveN)) % CurveN

(* The signature is well formed, and the key.                                *)
Checkable(p, g) == onCurve(p) /\ g.R \in 1 .. CurveN - 1 /\ g.S \in 1 .. CurveN - 1

VerifySig(p, h, g) ==
  Checkable(p, g)
  /\ LET q == pointAdd(scalarBaseMult(U1(h, g)), scalarMult(U2(g), p)) IN
       q # Infinity /\ q[1] % CurveN = g.R

(* x.Mod(x, curveN) works in place.  pointAdd and scalarMult hand back what  *)
(* they are given when the other term is infinity, so with U1 = 0 and U2 = 1 *)
(* x is the very number pub.X points to.                                     *)
KeyAfter(p, h, g) ==
  IF Checkable(p, g) /\ U1(h, g) = 0 /\ U2(g) = 1 THEN <<p[1] % CurveN, p[2]>> ELSE p

(* A call of Verify, on the signature or on its other form.                  *)
CallVerify(g) ==
  /\ stage = "signed"
  /\ pub' = KeyAfter(pub, hash, g)
  /\ UNCHANGED <<d, hash, stage, tries, nonce, bits, R, sig>>

SignNext ==
  \/ \E k \in 1 .. CurveN - 1 : Draw(k)
  \/ Ladder
  \/ Retry
  \/ Sign
  \/ CallVerify(sig)
  \/ CallVerify(Malleate(sig))

SignSpec == SignInit /\ [][SignNext]_signVars

-----------------------------------------------------------------------------
(* LadderExact: after every bit the ladder of complete additions holds the   *)
(* point that the affine reference computes for the bits read so far, the    *)
(* identity included, though it never tells the special cases apart (the     *)
(* cross-check "against the big.Int reference (scalarBaseMult)").            *)
LadderExact ==
  stage = "ladder" =>
    LET p == scalarBaseMult(nonce \div 2 ^ bits) IN
      IF p = Infinity THEN R.Z = 0 ELSE R.Z # 0 /\ affineXY(R) = p

(* SignedVerifies: whatever nonces are drawn and drawn again, what Sign      *)
(* returns is low-S and verifies under the key that went through its         *)
(* compressed form; Malleate's twin verifies too and is not low-S.  The key  *)
(* in memory is left as it was by every call of Verify, except when a hash   *)
(* that is a multiple of the order is verified: then x may lose a multiple   *)
(* of the order, and the key verifies nothing from then on.                  *)
SignedVerifies ==
  stage = "signed" =>
    /\ IsLowS(sig) /\ ~IsLowS(Malleate(sig))
    /\ IF pub = Public(d)
       THEN VerifySig(pub, hash, sig) /\ VerifySig(pub, hash, Malleate(sig))
       ELSE hash % CurveN = 0 /\ ~onCurve(pub)
=============================================================================
