------------------------------ MODULE Scalars ------------------------------
(***************************************************************************)
(* The exponents of the pairing groups.  The libraries (mcl, pbc) are not  *)
(* part of the repository: an element of G1, of G2 or of the target group  *)
(* is modelled by its exponent to the generator g1, g2 or e(g1, g2), so    *)
(* that the group operation is Add, a power is Mul and so is the pairing.  *)
(* What the proofs use of the exponents is that they form a field; Inv is  *)
(* the inverse of every element but Zero.                                  *)
(***************************************************************************)
CONSTANTS
  Scalar, Zero, One, Add(_, _), Mul(_, _), Neg(_), Inv(_),
  Draws  (* the scalars the random generators may draw                      *)

ASSUME DrawsAssumption == Draws \subseteq Scalar

ASSUME ScalarClosed ==
  /\ Zero \in Scalar
  /\ One \in Scalar
  /\ \A x, y \in Scalar : Add(x, y) \in Scalar /\ Mul(x, y) \in Scalar
  /\ \A x \in Scalar : Neg(x) \in Scalar /\ Inv(x) \in Scalar

ASSUME AddLaws ==
  /\ \A x, y \in Scalar : Add(x, y) = Add(y, x)
  /\ \A x, y, z \in Scalar : Add(Add(x, y), z) = Add(x, Add(y, z))
  /\ \A x \in Scalar : Add(x, Zero) = x /\ Add(x, Neg(x)) = Zero

ASSUME MulLaws ==
  /\ \A x, y \in Scalar : Mul(x, y) = Mul(y, x)
  /\ \A x, y, z \in Scalar : Mul(Mul(x, y), z) = Mul(x, Mul(y, z))
  /\ \A x \in Scalar : Mul(x, One) = x
  /\ \A x \in Scalar \ {Zero} : Mul(x, Inv(x)) = One

ASSUME Distributivity ==
  \A x, y, z \in Scalar : Mul(x, Add(y, z)) = Add(Mul(x, y), Mul(x, z))

Sub(x, y) == Add(x, Neg(y))

(* BN::pairing: e(g1^x, g2^y) = e(g1, g2)^(x y).                            *)
Pairing(x, y) == Mul(x, y)
=============================================================================
