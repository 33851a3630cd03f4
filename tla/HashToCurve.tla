------------------------------ MODULE HashToCurve ------------------------------
(***************************************************************************)
(* map_to_curve_sswu of src/src/crypto/voprf.cpp: a field element becomes a   *)
(* point of the curve y^2 = x^3 + A x + B over the integers modulo Prime.     *)
(* P-384 is replaced by a small curve of the same shape: A = Prime - 3, the   *)
(* non-square Z = Prime - 12, square roots by the exponent (Prime + 1) / 4,   *)
(* an odd number of points.  BIGNUM arithmetic (OpenSSL) is % Prime.          *)
(***************************************************************************)
EXTENDS Integers

CONSTANTS
  Prime, CurveB,
  Power(_, _, _)    (* Power(base, exponent, modulus): BN_mod_exp             *)

Field == 0..(Prime - 1)
CurveA == Prime - 3
Z == Prime - 12
HashToCurveAssumption == Prime \in Nat /\ Prime > 12 /\ Prime % 12 = 11 /\ CurveB \in Field

Square(a) == (a * a) % Prime
gx(x) == ((Square(x) + CurveA) * x + CurveB) % Prime

(* The laws of exponentiation, for the numbers in S.                          *)
PowerLaws(S) ==
  \A n \in S \ {0, 1}, e \in S :
    /\ \A x \in S : Power(x, e, n) \in 0..(n - 1)
    /\ Power(1, e, n) = 1
    /\ e # 0 => Power(0, e, n) = 0
    /\ \A x, y \in S : Power((x * y) % n, e, n) = (Power(x, e, n) * Power(y, e, n)) % n

Root(a) == Power(a, (Prime + 1) \div 4, Prime)
OnCurve(x, y) == x \in Field /\ y \in Field /\ Square(y) = gx(x)

(* The laws of the curve and of its field, for the proofs: inverses and square roots  *)
(* are those exponents; of a number and its Z-fold one is a square; no point has the   *)
(* ordinate 0; and there is one over the abscissa B / (Z A).                           *)
CurveLaws ==
  /\ \A a \in 1..(Prime - 1) : (a * Power(a, Prime - 2, Prime)) % Prime = 1
  /\ \A y \in Field : Square(Root(Square(y))) = Square(y)
  /\ \A a \in Field : \E y \in Field : Square(y) \in {a, (Z * a) % Prime}
  /\ \A x \in Field :
       /\ gx(x) # 0
       /\ (x * ((Z * CurveA) % Prime)) % Prime = CurveB => \E y \in Field : OnCurve(x, y)

(* A result that is not a point: a failed inversion or a point that            *)
(* EC_POINT_set_affine_coordinates refuses.                                    *)
NoPoint == <<>>

(* tv6.  The variant leaves the exceptional case out.                          *)
DenominatorUnguarded(tv5) == (tv5 * (Prime - CurveA)) % Prime
denominator(tv5) ==
  IF tv5 = 0 THEN (Z * CurveA) % Prime ELSE (tv5 * (Prime - CurveA)) % Prime

(* x2 where x1 is on no point, and y with the sign of u.                        *)
chosen_x(tv3, x1) ==
  IF Square(Root(gx(x1))) = gx(x1) THEN x1 ELSE (tv3 * x1) % Prime
with_sign_of(u, root) == IF u % 2 = root % 2 THEN root ELSE Prime - root

affine(x, y) == IF OnCurve(x, y) THEN <<x, y>> ELSE NoPoint
point_over(u, x) == affine(x, with_sign_of(u, Root(gx(x))))

map_to_curve_sswu(u) ==
  LET tv3 == (Z * Square(u)) % Prime
      tv5 == (Square(tv3) + tv3) % Prime
      tv4 == ((tv5 + 1) * CurveB) % Prime
      tv6 == denominator(tv5)
  IN IF tv6 = 0 THEN NoPoint
     ELSE point_over(u, chosen_x(tv3, (tv4 * Power(tv6, Prime - 2, Prime)) % Prime))
=============================================================================
