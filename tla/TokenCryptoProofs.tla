--------------------------- MODULE TokenCryptoProofs ---------------------------
(***************************************************************************)
(* Theorems about TokenCrypto, for every prime order of the group, every RSA   *)
(* key pair, every hash function and any number of sessions, answers and keys: *)
(* the equations of the two sides belong together.                           *)
(***************************************************************************)
EXTENDS TokenCrypto, Sequences, WellFoundedInduction, FiniteSetTheorems, TLAPS

-----------------------------------------------------------------------------
(* Arithmetic modulo n.                                                      *)

LEMMA DivisionWithRest ==
  ASSUME NEW n \in Nat \ {0}, NEW a \in Int
  PROVE  /\ a % n \in 0..(n - 1)
         /\ a \div n \in Int
         /\ a = n * (a \div n) + (a % n)
OBVIOUS

(* A multiple of n that is smaller than n is 0.  *)
LEMMA SmallMultiple ==
  ASSUME NEW n \in Nat \ {0}, NEW k \in Int, -n < n * k, n * k < n
  PROVE  k = 0
<1>1. ASSUME k >= 1
      PROVE  FALSE
  <2>1. n * k = n + n * (k - 1) /\ n * (k - 1) >= 0
    BY <1>1
  <2> QED
    BY <2>1
<1>2. ASSUME k <= -1
      PROVE  FALSE
  <2>1. n * k = -n - n * (-1 - k) /\ n * (-1 - k) >= 0
    BY <1>2
  <2> QED
    BY <2>1
<1> QED
  BY <1>1, <1>2

LEMMA Congruent ==
  ASSUME NEW n \in Nat \ {0}, NEW a \in Int, NEW b \in Int, NEW k \in Int, a = b + n * k
  PROVE  a % n = b % n
<1> DEFINE q == a \div n
           p == b \div n
           r == a % n
           s == b % n
           j == p + k - q
<1>1. /\ q \in Int /\ p \in Int /\ r \in 0..(n - 1) /\ s \in 0..(n - 1)
      /\ a = n * q + r /\ b = n * p + s
  BY DivisionWithRest
<1> HIDE DEF q, p, r, s
<1>2. r - s = n * j
  <2>1. n * j = n * p + n * k - n * q
    BY <1>1
  <2> QED
    BY <1>1, <2>1
<1>3. j \in Int /\ -n < n * j /\ n * j < n
  BY <1>1, <1>2
<1> HIDE DEF j
<1>4. j = 0
  BY <1>3, SmallMultiple
<1> QED
  BY <1>1, <1>2, <1>4 DEF r, s

LEMMA Reduced ==
  ASSUME NEW n \in Nat \ {0}, NEW a \in 0..(n - 1)
  PROVE  a % n = a
OBVIOUS

LEMMA FactorReduced ==
  ASSUME NEW n \in Nat \ {0}, NEW a \in Int, NEW b \in Int
  PROVE  (a * (b % n)) % n = (a * b) % n /\ ((b % n) * a) % n = (a * b) % n
<1> DEFINE q == b \div n
           r == b % n
<1>1. q \in Int /\ r \in Int /\ b = n * q + r
  BY DivisionWithRest
<1> HIDE DEF q, r
<1>2. a * b = a * r + n * (a * q) /\ a * q \in Int /\ a * r \in Int /\ a * b \in Int
  BY <1>1
<1>3. (a * b) % n = (a * r) % n
  BY <1>2, Congruent
<1>4. a * r = r * a
  BY <1>1
<1> QED
  BY <1>3, <1>4 DEF r

LEMMA TermReduced ==
  ASSUME NEW n \in Nat \ {0}, NEW a \in Int, NEW b \in Int
  PROVE  (a + (b % n)) % n = (a + b) % n /\ ((b % n) + a) % n = (a + b) % n
<1> DEFINE q == b \div n
           r == b % n
<1>1. q \in Int /\ r \in Int /\ b = n * q + r
  BY DivisionWithRest
<1> HIDE DEF q, r
<1>2. a + b = (a + r) + n * q /\ a + r \in Int /\ a + b \in Int
  BY <1>1
<1>3. (a + b) % n = (a + r) % n
  BY <1>1, <1>2, Congruent
<1>4. a + r = r + a
  BY <1>1
<1> QED
  BY <1>3, <1>4 DEF r

(* n more makes no difference.                                               *)
LEMMA WholeTurn ==
  ASSUME NEW n \in Nat \ {0}, NEW a \in Int
  PROVE  (a + n) % n = a % n
<1> DEFINE b == a + n
<1>1. b \in Int /\ b = a + n * 1 /\ 1 \in Int
  OBVIOUS
<1> HIDE DEF b
<1>2. b % n = a % n
  BY <1>1, Congruent
<1> QED
  BY <1>2 DEF b

(* Both terms of a sum may be reduced.                                         *)
LEMMA TermsReduced ==
  ASSUME NEW n \in Nat \ {0}, NEW a \in Int, NEW b \in Int
  PROVE  ((a % n) + (b % n)) % n = (a + b) % n
<1> DEFINE r == a % n
<1>1. r \in Int
  BY DivisionWithRest
<1>2. ((a % n) + b) % n = (b + a) % n
  BY TermReduced
<1>3. b + a = a + b
  OBVIOUS
<1> HIDE DEF r
<1>4. (r + (b % n)) % n = (r + b) % n
  BY <1>1, TermReduced
<1> QED
  BY <1>2, <1>3, <1>4 DEF r

(* A factor of a factor may be reduced instead.                                *)
LEMMA ProductReduced ==
  ASSUME NEW n \in Nat \ {0}, NEW a \in Int, NEW b \in Int, NEW c \in Int
  PROVE  (a * ((b * c) % n)) % n = (((a * b) % n) * c) % n
<1> DEFINE left == a * b
           right == b * c
<1>0. left \in Int /\ right \in Int
  OBVIOUS
<1> HIDE DEF left, right
<1>1. (a * (right % n)) % n = (a * right) % n
  BY <1>0, FactorReduced
<1>2. ((left % n) * c) % n = (c * left) % n
  BY <1>0, FactorReduced
<1>3. a * right = c * left
  BY DEF left, right
<1> QED
  BY <1>1, <1>2, <1>3 DEF left, right

(* A multiple of a multiple of n is one.                                       *)
LEMMA MultipleOfMultiple ==
  ASSUME NEW n \in Nat \ {0}, NEW a \in Int, NEW b \in Int, b % n = 0
  PROVE  (a * b) % n = 0
<1>1. (a * (b % n)) % n = (a * b) % n
  BY FactorReduced
<1>2. a * 0 = 0
  OBVIOUS
<1>3. 0 % n = 0
  OBVIOUS
<1> QED
  BY <1>1, <1>2, <1>3

-----------------------------------------------------------------------------
(* The group: the order is a prime, so no multiple of a point but the trivial   *)
(* ones is infinity.  Otherwise the smallest factor that takes b to infinity    *)
(* would divide the order.                                                   *)
LEMMA NoZeroProduct ==
  ASSUME NEW a \in 1..(Order - 1), NEW b \in 1..(Order - 1)
  PROVE  (a * b) % Order \in 1..(Order - 1)
<1> DEFINE S == {x \in 1..(Order - 1) : (x * b) % Order = 0}
           R == {ss \in Nat \X Nat : ss[1] < ss[2]}
<1>1. /\ Order \in Nat \ {0} /\ Order > 1
      /\ \A divisor \in 2..(Order - 1) : Order % divisor # 0
  BY CryptoAssumption DEF VoprfAssumption
<1>2. (a * b) % Order \in 0..(Order - 1)
  <2>1. a * b \in Int
    BY <1>1
  <2> QED
    BY <1>1, <2>1, DivisionWithRest
<1>3. SUFFICES ASSUME (a * b) % Order = 0 PROVE FALSE
  BY <1>2
<1>4. a \in S
  BY <1>3
<1>5. IsWellFoundedOn(R, Nat)
  BY NatLessThanWellFounded DEF OpToRel
<1>6. PICK m \in S : \A x \in S : ~(<<x, m>> \in R)
  <2>1. S \subseteq Nat /\ S # {}
    BY <1>4
  <2> HIDE DEF R, S
  <2> QED
    BY <1>5, <2>1, WFMin
<1>7. ASSUME NEW x \in S
      PROVE  m <= x
  <2>1. SUFFICES ASSUME x < m PROVE FALSE
    OBVIOUS
  <2>2. <<x, m>> \in Nat \X Nat /\ <<x, m>>[1] < <<x, m>>[2]
    BY <2>1
  <2>3. <<x, m>> \in R
    BY <2>2, Zenon
  <2> QED
    BY <1>6, <2>3
<1>8. m \in 1..(Order - 1) /\ (m * b) % Order = 0
  OBVIOUS
<1>9. m # 1
  <2>1. 1 * b = b /\ b % Order = b /\ b # 0
    BY <1>1
  <2> QED
    BY <1>8, <2>1
<1> DEFINE q == Order \div m
           r == Order % m
<1>10. /\ m \in Nat \ {0} /\ m \in 2..(Order - 1)
       /\ q \in Int /\ r \in 0..(m - 1) /\ Order = m * q + r
  <2>1. m \in Nat \ {0} /\ m \in 2..(Order - 1)
    BY <1>1, <1>8, <1>9
  <2> QED
    BY <1>1, <2>1, DivisionWithRest
<1>11. r # 0
  BY <1>1, <1>10
<1> HIDE DEF q, r, S, R
<1>12. (r * b) % Order = 0
  <2> DEFINE p == -q
             product == m * b
  <2>1. p \in Int /\ product \in Int /\ b \in Int
    BY <1>1, <1>10
  <2>2. r * b = p * product + Order * b
    <3>1. r = Order + p * m
      BY <1>1, <1>10
    <3> QED
      BY <1>1, <1>10, <2>1, <3>1
  <2>3. product % Order = 0
    BY <1>8
  <2> HIDE DEF p, product
  <2>4. (p * product) % Order = 0
    BY <1>1, <2>1, <2>3, MultipleOfMultiple
  <2>5. p * product \in Int /\ r * b \in Int
    BY <1>10, <2>1
  <2> DEFINE rest == r * b
             multiple == p * product
  <2>6. /\ rest \in Int /\ multiple \in Int /\ rest = multiple + Order * b
        /\ multiple % Order = 0
    BY <2>2, <2>4, <2>5
  <2> HIDE DEF rest, multiple
  <2>7. rest % Order = multiple % Order
    BY <1>1, <2>1, <2>6, Congruent
  <2> QED
    BY <2>6, <2>7 DEF rest
<1>13. r \in S
  BY <1>10, <1>11, <1>12 DEF S
<1> QED
  BY <1>7, <1>10, <1>13

(* What the proofs take from the constants.                                   *)
LEMMA Numbers ==
  /\ Order \in Nat \ {0} /\ Order > 1
  /\ Prime \in Nat \ {0}
  /\ ClientKey(VOPRF) \in 1..(Order - 1)
  /\ Randomness \subseteq Scalar
BY CryptoAssumption DEF VoprfAssumption, HashToCurveAssumption, private_key_from_bytes

LEMMA ProductInScalar ==
  ASSUME NEW a \in Int, NEW b \in Int
  PROVE  (a * b) % Order \in Scalar
<1>1. a * b \in Int
  OBVIOUS
<1> QED
  BY <1>1, Numbers, DivisionWithRest DEF Scalar

(* A message hashes to a point or to nothing.                                  *)
LEMMA HashedInScalar ==
  ASSUME NEW input
  PROVE  hash_to_curve(input) \subseteq Scalar
<1>1. \A u : map_to_curve_sswu(u) # NoPoint =>
        \E x, y \in Field : map_to_curve_sswu(u) = <<x, y>>
  BY DEF map_to_curve_sswu, point_over, affine, OnCurve
<1>2. SUFFICES ASSUME NEW p, NEW q, p # NoPoint, q # NoPoint,
                      \E x, y \in Field : p = <<x, y>>, \E x, y \in Field : q = <<x, y>>
               PROVE  sum_of_points(p, q) \subseteq Scalar
  BY <1>1 DEF hash_to_curve, sum_of_points
<1>3. p[1] \in Nat /\ p[2] \in Nat /\ q[1] \in Nat /\ q[2] \in Nat
  BY <1>2, Numbers DEF Field
<1> DEFINE total == (1 + p[1] * Prime + p[2]) + (1 + q[1] * Prime + q[2])
<1>4. total \in Int
  BY <1>3, Numbers
<1>5. total % Order \in Scalar
  <2> HIDE DEF total
  <2> QED
    BY <1>4, Numbers, DivisionWithRest DEF Scalar
<1> QED
  BY <1>5 DEF sum_of_points

LEMMA ChallengesInScalar ==
  ASSUME HashesToNumbers(Seq(Nat))
  PROVE  /\ \A B, C, D \in Nat : compute_composite_scalar(B, C, D) \in Scalar
         /\ \A B, M, ZM, t2, t3 \in Nat : compute_dleq_challenge(<<B, M, ZM, t2, t3>>) \in Scalar
<1>1. ASSUME NEW transcript \in Seq(Nat)
      PROVE  hash_to_scalar(transcript) \in Scalar
  <2>1. Digest(transcript) \in Int
    BY DEF HashesToNumbers
  <2> QED
    BY <2>1, Numbers, DivisionWithRest DEF hash_to_scalar, Scalar
<1>2. ASSUME NEW B \in Nat, NEW C \in Nat, NEW D \in Nat
      PROVE  compute_composite_scalar(B, C, D) \in Scalar
  <2>1. <<B, 1>> \in Seq(Nat)
    OBVIOUS
  <2>2. Digest(<<B, 1>>) \in Nat
    BY <2>1 DEF HashesToNumbers
  <2>3. <<Digest(<<B, 1>>), 0, C, D, 2>> \in Seq(Nat)
    BY <2>2
  <2> QED
    BY <1>1, <2>3 DEF compute_composite_scalar
<1>3. ASSUME NEW B \in Nat, NEW M \in Nat, NEW ZM \in Nat, NEW t2 \in Nat, NEW t3 \in Nat
      PROVE  compute_dleq_challenge(<<B, M, ZM, t2, t3>>) \in Scalar
  <2>1. Append(<<B, M, ZM, t2, t3>>, 3) \in Seq(Nat)
    OBVIOUS
  <2> QED
    BY <1>1, <2>1 DEF compute_dleq_challenge
<1> QED
  BY <1>2, <1>3

LEMMA ScalarsAreNumbers == Scalar \subseteq Nat
BY Numbers DEF Scalar

(* The response that a server with the key k computes for a challenge c gives    *)
(* back the server's commitments: A' = t G, and B' = t M when Z = k M.           *)
LEMMA ResponseOpens ==
  ASSUME NEW t \in Scalar, NEW c \in Scalar, NEW k \in Scalar, NEW M \in Scalar
  PROVE  LET s == dleq_response(t, c, k) IN
         /\ s \in Scalar
         /\ (s + ((c * k) % Order)) % Order = t
         /\ (((s * M) % Order) + ((c * ((k * M) % Order)) % Order)) % Order = (t * M) % Order
<1> DEFINE ck == (c * k) % Order
           s == dleq_response(t, c, k)
<1>1. t \in Int /\ c \in Int /\ k \in Int /\ M \in Int /\ Order \in Nat \ {0}
  BY ScalarsAreNumbers, Numbers
<1>2. ck \in 0..(Order - 1) /\ ck \in Int
  BY <1>1, ProductInScalar DEF Scalar
<1>3. s = (t + Order - ck) % Order
  BY DEF dleq_response
<1> HIDE DEF ck
<1>4. t + Order - ck \in Int
  BY <1>1, <1>2
<1>5. s \in 0..(Order - 1)
  BY <1>1, <1>3, <1>4, DivisionWithRest
<1>6. (s + ck) % Order = t
  <2> DEFINE u == t + Order - ck
  <2>1. u \in Int /\ ck + u = t + Order /\ s = u % Order
    BY <1>1, <1>2, <1>3
  <2> HIDE DEF u, s
  <2>2. (ck + (u % Order)) % Order = (ck + u) % Order
    BY <1>1, <1>2, <2>1, TermReduced
  <2>3. (t + Order) % Order = t % Order
    BY <1>1, WholeTurn
  <2>4. t % Order = t
    BY <1>1, Reduced DEF Scalar
  <2>5. ck + s = s + ck
    BY <1>2, <1>5
  <2> QED
    BY <2>1, <2>2, <2>3, <2>4, <2>5
<1>7. (((s * M) % Order) + ((c * ((k * M) % Order)) % Order)) % Order = (t * M) % Order
  <2> DEFINE x == s * M
             y == ck * M
  <2>1. (c * ((k * M) % Order)) % Order = y % Order
    <3>1. \A p, q, v \in Int : (p * ((q * v) % Order)) % Order = (((p * q) % Order) * v) % Order
      BY Numbers, ProductReduced
    <3>2. (c * ((k * M) % Order)) % Order = (((c * k) % Order) * M) % Order
      BY <1>1, <3>1, Zenon
    <3>3. y = ((c * k) % Order) * M
      BY Zenon DEF ck
    <3> HIDE DEF y
    <3> QED
      BY <3>2, <3>3, Zenon
  <2>2. x \in Int /\ y \in Int /\ x % Order \in Int /\ s + ck \in Int
    BY <1>1, <1>2, <1>5, ProductInScalar DEF Scalar
  <2>3. x + y = (s + ck) * M /\ (s + ck) * M = M * (s + ck)
    BY <1>1, <1>2, <1>5
  <2> HIDE DEF x, y
  <2>4. ((x % Order) + (y % Order)) % Order = (x + y) % Order
    BY <1>1, <2>2, TermsReduced
  <2>5. (((s + ck) % Order) * M) % Order = (M * (s + ck)) % Order
    BY <1>1, <2>2, FactorReduced
  <2> QED
    BY <1>6, <2>1, <2>3, <2>4, <2>5 DEF x
<1> HIDE DEF s
<1> QED
  BY <1>5, <1>6, <1>7 DEF s, ck, Scalar

(* A client accepts what its issuer evaluates: neither the element nor the       *)
(* proof is refused, whatever the hash function is.                            *)
LEMMA OwnEvaluationVerifies ==
  ASSUME HashesToNumbers(Seq(Nat)),
         NEW k \in 1..(Order - 1), NEW R \in 1..(Order - 1), NEW t \in Scalar
  PROVE  LET ZR == (k * R) % Order IN
         /\ bytes_to_point(ZR)
         /\ verify_dleq_proof(k, R, ZR, generate_dleq_proof(k, R, ZR, t))
<1> DEFINE ZR == (k * R) % Order
           d == compute_composite_scalar(k, R, ZR)
           M == (d * R) % Order
           c == compute_dleq_challenge(<<k, M, (k * M) % Order, t, (t * M) % Order>>)
           s == dleq_response(t, c, k)
<1>1. /\ Order \in Nat \ {0} /\ k \in Scalar /\ R \in Scalar
      /\ k \in Nat /\ R \in Nat /\ t \in Nat
  BY Numbers, ScalarsAreNumbers DEF Scalar
<1>2. ZR \in 1..(Order - 1) /\ ZR \in Nat
  BY <1>1, NoZeroProduct
<1>3. d \in Nat
  BY <1>1, <1>2, ChallengesInScalar, ScalarsAreNumbers
<1>4. M \in Scalar /\ M \in Nat
  BY <1>1, <1>3, ProductInScalar, ScalarsAreNumbers
<1>5. (d * ZR) % Order = (k * M) % Order
  <2>1. (d * ((k * R) % Order)) % Order = (((d * k) % Order) * R) % Order
    BY <1>1, <1>3, ProductReduced
  <2>2. (k * ((d * R) % Order)) % Order = (((k * d) % Order) * R) % Order
    BY <1>1, <1>3, ProductReduced
  <2>3. d * k = k * d
    BY <1>1, <1>3
  <2> HIDE DEF d
  <2> QED
    BY <2>1, <2>2, <2>3
<1> HIDE DEF d, M
<1>6. compute_composites(k, R, ZR) = [M |-> M, Z |-> (k * M) % Order]
  BY <1>5 DEF compute_composites, d, M
<1>7. (k * M) % Order \in Nat /\ (t * M) % Order \in Nat
  BY <1>1, <1>4, ProductInScalar, ScalarsAreNumbers
<1>8. c \in Scalar
  BY <1>1, <1>4, <1>7, ChallengesInScalar
<1>9. generate_dleq_proof(k, R, ZR, t) = <<c, s>>
  BY <1>6 DEF generate_dleq_proof, committed
<1> HIDE DEF c, s, ZR
<1>10. /\ s \in Scalar
       /\ (s + ((c * k) % Order)) % Order = t
       /\ (((s * M) % Order) + ((c * ((k * M) % Order)) % Order)) % Order = (t * M) % Order
  BY <1>1, <1>4, <1>8, ResponseOpens DEF s
<1>11. s % Order = s /\ s < Order /\ c < Order
  BY <1>1, <1>8, <1>10, Reduced DEF Scalar
<1>12. verify_dleq_proof(k, R, ZR, <<c, s>>)
  <2>1. recomputed(k, R, ZR, <<c, s>>) = <<k, M, (k * M) % Order, t, (t * M) % Order>>
    BY <1>6, <1>10, <1>11 DEF recomputed
  <2> QED
    BY <1>11, <2>1 DEF verify_dleq_proof, scalars_in_range, c
<1> QED
  BY <1>2, <1>9, <1>12 DEF ZR, bytes_to_point

(* The client's factor takes its blind r away from what the server's key k made   *)
(* of it.                                                                     *)
BlindComesOff(k, r, h, u) ==
  (((k * ((r * h) % Order)) % Order) * u) % Order = (k * h) % Order

LEMMA BlindRemoved ==
  ASSUME NEW k \in Int, NEW r \in Int, NEW h \in Int, NEW u \in Int, (u * r) % Order = 1
  PROVE  BlindComesOff(k, r, h, u)
<1> DEFINE rh == r * h
           R == rh % Order
           kR == k * R
           uk == u * k
           ur == u * r
           kh == k * h
<1>1. Order \in Nat \ {0} /\ rh \in Int /\ uk \in Int /\ ur \in Int /\ kh \in Int
  BY Numbers
<1>2. R \in Int /\ kR \in Int
  <2> HIDE DEF rh
  <2>1. R \in Int
    BY <1>1, DivisionWithRest
  <2> QED
    BY <2>1
<1>3. ur % Order = 1
  OBVIOUS
<1>4. uk * rh = kh * ur /\ kh * 1 = kh
  OBVIOUS
<1>5. u * kR = uk * R
  <2> HIDE DEF R
  <2> QED
    BY <1>2
<1> HIDE DEF rh, kR, uk, ur, kh
<1>6. ((kR % Order) * u) % Order = (u * kR) % Order
  BY <1>1, <1>2, FactorReduced
<1>7. (uk * (rh % Order)) % Order = (uk * rh) % Order
  BY <1>1, FactorReduced
<1>8. (kh * (ur % Order)) % Order = (kh * ur) % Order
  BY <1>1, FactorReduced
<1>9. ((kR % Order) * u) % Order = kh % Order
  BY <1>3, <1>4, <1>5, <1>6, <1>7, <1>8, Zenon
<1> QED
  BY <1>9, Zenon DEF BlindComesOff, kR, rh, kh

-----------------------------------------------------------------------------
(* The RSA keys: what a key pair signs for a blinded message, freed from the     *)
(* blind, verifies, whatever the modulus and the encoding are.                *)
LEMMA Exponents ==
  ASSUME PowerLaws(Nat), NEW n \in Nat, n > 1, NEW e \in Nat
  PROVE  /\ \A x \in Nat : Power(x, e, n) \in 0..(n - 1)
         /\ Power(1, e, n) = 1
         /\ e # 0 => Power(0, e, n) = 0
         /\ \A x, y \in Nat :
              Power((x * y) % n, e, n) = (Power(x, e, n) * Power(y, e, n)) % n
<1>1. n \in Nat \ {0, 1}
  OBVIOUS
<1> QED
  BY <1>1 DEF PowerLaws

LEMMA OwnSignatureVerifies ==
  ASSUME PowerLaws(Nat), NEW key, {key.n, key.e, key.d} \subseteq Nat, KeyPair(key),
         NEW msg, NEW salt \in Salt, Encoded(msg, salt) \in 0..(key.n - 1),
         NEW r \in Nat, NEW data \in rsa_blind(key, msg, r, salt),
         in_range(data.blinded, key.n)
  PROVE  LET z == Power(data.blinded, key.d, key.n) IN
         /\ in_range(z, key.n)
         /\ rsa_verify(key, msg, (z * data.secret) % key.n)
<1> DEFINE n == key.n
           E == Encoded(msg, salt)
           P == Power(r, key.e, n)
           inv == data.secret
           Q == Power(inv, key.e, n)
           blinded == data.blinded
           z == Power(blinded, key.d, n)
           sig == (z * inv) % n
<1>1. /\ n \in Nat \ {0} /\ n > 1 /\ key.e \in Nat /\ key.e # 0 /\ key.d \in Nat
      /\ \A x \in 0..(n - 1) : Power(Power(x, key.d, n), key.e, n) = x
  BY DEF KeyPair
<1>2. inv \in 1..(n - 1) /\ (inv * r) % n = 1 /\ blinded = (E * P) % n
  BY DEF rsa_blind
<1>3. /\ \A x \in Nat : Power(x, key.e, n) \in 0..(n - 1) /\ Power(x, key.d, n) \in 0..(n - 1)
      /\ Power(1, key.e, n) = 1 /\ Power(0, key.e, n) = 0
      /\ \A x, y \in Nat :
           Power((x * y) % n, key.e, n) = (Power(x, key.e, n) * Power(y, key.e, n)) % n
  BY <1>1, Exponents
<1> HIDE DEF E, P, Q, inv, blinded, n
<1>4. inv \in Nat /\ r \in Nat /\ P \in 0..(n - 1) /\ Q \in 0..(n - 1)
  <2>1. inv \in Nat /\ r \in Nat
    BY <1>1, <1>2
  <2>2. Power(r, key.e, n) \in 0..(n - 1) /\ Power(inv, key.e, n) \in 0..(n - 1)
    BY <1>3, <2>1
  <2> QED
    BY <2>1, <2>2 DEF P, Q
<1>5. E \in Int /\ P \in Int /\ Q \in Int /\ r \in Int /\ inv \in Int /\ E \in 0..(n - 1)
  BY <1>1, <1>4 DEF E, n
<1>6. blinded \in 0..(n - 1) /\ blinded # 0 /\ blinded \in Nat
  <2>1. E * P \in Int
    BY <1>5
  <2>2. (E * P) % n \in 0..(n - 1)
    BY <1>1, <2>1, DivisionWithRest
  <2> QED
    BY <1>1, <1>2, <2>2 DEF in_range, blinded
<1>7. z \in 0..(n - 1) /\ Power(z, key.e, n) = blinded
  BY <1>1, <1>3, <1>6
<1> HIDE DEF z
<1>8. z # 0 /\ z \in Nat /\ z < n
  BY <1>1, <1>3, <1>6, <1>7
<1>9. sig \in 0..(n - 1)
  <2>1. z * inv \in Int
    BY <1>4, <1>8
  <2> QED
    BY <1>1, <2>1, DivisionWithRest
<1>10. Power(sig, key.e, n) = (blinded * Q) % n
  <2>1. Power((z * inv) % n, key.e, n) = (Power(z, key.e, n) * Power(inv, key.e, n)) % n
    BY <1>3, <1>4, <1>8
  <2> QED
    BY <1>7, <2>1 DEF Q
<1>11. (P * Q) % n = 1
  <2>1. Power((r * inv) % n, key.e, n) = (Power(r, key.e, n) * Power(inv, key.e, n)) % n
    BY <1>3, <1>4
  <2>2. r * inv = inv * r
    BY <1>4
  <2> QED
    BY <1>2, <1>3, <2>1, <2>2 DEF P, Q
<1>12. (blinded * Q) % n = E
  <2>1. (E * ((P * Q) % n)) % n = (((E * P) % n) * Q) % n
    BY <1>1, <1>5, ProductReduced
  <2>2. E * 1 = E /\ E % n = E
    BY <1>1, <1>5, Reduced
  <2> QED
    BY <1>2, <1>11, <2>1, <2>2
<1>13. sig < n /\ Power(sig, key.e, n) = E
  BY <1>1, <1>9, <1>10, <1>12
<1> HIDE DEF sig
<1>14. rsa_verify(key, msg, sig)
  BY <1>13 DEF rsa_verify, E, n
<1> QED
  BY <1>8, <1>14 DEF sig, z, inv, blinded, n, in_range

-----------------------------------------------------------------------------
(* The inductive invariant.  A session that waits was blinded for its own input;  *)
(* it has what takes that blinding away, unless it is a Blind RSA session that   *)
(* has used it.                                                               *)
BlindedForInput(call) ==
  \E r \in Randomness, salt \in Salt :
    IF call.scheme = VOPRF
    THEN \E data \in voprf_blind(call.input, r) :
           call.blinded = data.blinded /\ call.secret = data.secret
    ELSE \E data \in rsa_blind(ClientKey(BLIND_RSA), call.input, r, salt) :
           call.blinded = data.blinded /\ call.secret \in {data.secret, Cleared}

CallOK(s, call) ==
  /\ call.scheme \in Scheme
  /\ call \in Sessions(s, call.scheme)
  /\ call.scheme = VOPRF => call.secret \in Scalar /\ call.blinded \in Scalar
  /\ call.stage = "waiting" => BlindedForInput(call)

SessionsOK ==
  /\ session = [s \in Session |-> session[s]]
  /\ \A s \in Session : CallOK(s, session[s])

AnswerSort ==
  [scheme : {VOPRF}, element : Scalar, proof : Scalar \X (0..(2 * Order - 1))]
  \cup [scheme : {BLIND_RSA}, element : Nat, proof : {<<>>}]

FinalizedOK ==
  \A f \in finalized :
    /\ f.session \in Session /\ f.output \subseteq Nat
    /\ session[f.session].stage = "waiting"
    /\ f.live /\ f.answer \in Own(f.session) => \E output \in f.output : Verifies(f.session, output)

IInv ==
  /\ SessionsOK
  /\ answers \subseteq AnswerSort
  /\ FinalizedOK

LEMMA ClientKeys ==
  /\ {ClientKey(BLIND_RSA).n, ClientKey(BLIND_RSA).e, ClientKey(BLIND_RSA).d} \subseteq Nat
  /\ ClientKey(BLIND_RSA).n > 1
  /\ KeyPair(ClientKey(BLIND_RSA))
  /\ \A s \in Session : \A msg \in Inputs(s, BLIND_RSA), salt \in Salt :
       Encoded(msg, salt) \in 0..(ClientKey(BLIND_RSA).n - 1)
BY CryptoAssumption

LEMMA Unblinding ==
  ASSUME PowerLaws(Nat), NEW r \in Nat
  PROVE  unblinding(r) \in 0..(Order - 1)
<1> DEFINE e == Order - 2
<1>1. Order \in Nat /\ Order > 1 /\ e \in Nat
  BY Numbers
<1> HIDE DEF e
<1>2. \A x \in Nat : Power(x, e, Order) \in 0..(Order - 1)
  BY <1>1, Exponents
<1> QED
  BY <1>2 DEF unblinding, e

(* What a client makes of its own key's multiple of its request verifies.         *)
LEMMA UnblindedVerifies ==
  ASSUME PowerLaws(Nat), InversesByFermat, SessionsOK,
         NEW s \in Session, session[s].stage = "waiting", session[s].scheme = VOPRF,
         bytes_to_point(session[s].blinded), NEW k \in 1..(Order - 1),
         NEW element, element = (k * session[s].blinded) % Order
  PROVE  verify_finalize(k, session[s].input,
           finalize_output(session[s].input, (element * unblinding(session[s].secret)) % Order))
<1> DEFINE call == session[s]
           R == call.blinded
           u == unblinding(call.secret)
           point == (element * u) % Order
<1>1. CallOK(s, call)
  BY DEF SessionsOK
<1>2. PICK r \in Randomness, h \in hash_to_curve(call.input) :
        r # 0 /\ call.secret = r /\ R = (r * h) % Order
  BY <1>1 DEF CallOK, BlindedForInput, voprf_blind, R
<1>3. r \in 1..(Order - 1) /\ r \in Int /\ h \in Int /\ k \in Int
  <2>1. r \in Scalar /\ h \in Scalar
    BY Numbers, HashedInScalar
  <2> QED
    BY <1>2, <2>1, Numbers, ScalarsAreNumbers DEF Scalar
<1>4. u \in Int /\ (u * r) % Order = 1
  <2>1. u \in 0..(Order - 1)
    BY <1>2, <1>3, Unblinding DEF u
  <2> QED
    BY <1>2, <1>3, <2>1, Numbers DEF InversesByFermat, unblinding, u
<1>5. element = (k * ((r * h) % Order)) % Order
  BY <1>2 DEF R
<1>6. point = (k * h) % Order
  <2> HIDE DEF u
  <2>1. k \in Int /\ r \in Int /\ h \in Int /\ u \in Int /\ (u * r) % Order = 1
    BY <1>3, <1>4
  <2>2. BlindComesOff(k, r, h, u)
    BY <2>1, BlindRemoved
  <2> QED
    BY <1>5, <2>2, Zenon DEF BlindComesOff
<1> QED
  BY <1>2, <1>6 DEF verify_finalize

(* A waiting session that still has its secret finalizes its own issuer's        *)
(* answer, to an output that verifies.                                         *)
LEMMA OwnFinalizes ==
  ASSUME PowerLaws(Nat), HashesToNumbers(Seq(Nat)), InversesByFermat, SessionsOK,
         NEW s \in Session, session[s].stage = "waiting", session[s].secret # Cleared,
         NEW a \in Own(s)
  PROVE  \E output \in Finalized(s, a) : Verifies(s, output)
<1> DEFINE call == session[s]
<1>1. CallOK(s, call)
  BY DEF SessionsOK
<1>2. PICK t \in Randomness \ {0} : a \in Answer(call.scheme, ClientKey(call.scheme), call.blinded, t)
  BY DEF Own
<1>3. t \in Scalar
  BY Numbers
<1>4. CASE call.scheme = VOPRF
  <2> DEFINE k == ClientKey(VOPRF)
             R == call.blinded
             ZR == (k * R) % Order
  <2>1. /\ bytes_to_point(R)
        /\ a = [scheme |-> VOPRF, element |-> ZR, proof |-> generate_dleq_proof(k, R, ZR, t)]
    BY <1>2, <1>4 DEF Answer, blind_evaluate
  <2>2. R \in 1..(Order - 1) /\ k \in 1..(Order - 1)
    BY <2>1, Numbers DEF bytes_to_point
  <2>3. bytes_to_point(ZR) /\ verify_dleq_proof(k, R, ZR, generate_dleq_proof(k, R, ZR, t))
    BY <1>3, <2>2, OwnEvaluationVerifies
  <2> DEFINE u == unblinding(call.secret)
             output == finalize_output(call.input, (a.element * u) % Order)
  <2>4. verify_finalize(k, call.input, output)
    BY <1>4, <2>1, <2>2, UnblindedVerifies
  <2> HIDE DEF k, R, ZR, u
  <2>5. /\ a.scheme = VOPRF /\ bytes_to_point(a.element)
        /\ verify_dleq_proof(k, R, a.element, a.proof)
    BY <2>1, <2>3
  <2>6. output \in Finalized(s, a)
    BY <2>1, <2>5 DEF Finalized, voprf_finalize, k, R, u
  <2> QED
    BY <1>4, <2>4, <2>6 DEF Verifies, k
<1>5. CASE call.scheme = BLIND_RSA
  <2> DEFINE key == ClientKey(BLIND_RSA)
             z == Power(call.blinded, key.d, key.n)
  <2>1. VOPRF # BLIND_RSA
    BY CryptoAssumption
  <2>2. in_range(call.blinded, key.n) /\ a.scheme = BLIND_RSA /\ a.element = z
    BY <1>2, <1>5, <2>1 DEF Answer, blind_sign
  <2>3. PICK r \in Randomness, salt \in Salt :
          \E data \in rsa_blind(key, call.input, r, salt) :
            call.blinded = data.blinded /\ call.secret \in {data.secret, Cleared}
    BY <1>1, <1>5, <2>1 DEF CallOK, BlindedForInput
  <2>4. PICK data \in rsa_blind(key, call.input, r, salt) :
          call.blinded = data.blinded /\ call.secret = data.secret
    BY <2>3
  <2>5. r \in Nat /\ call.input \in Inputs(s, BLIND_RSA)
    BY <1>1, <1>5, Numbers, ScalarsAreNumbers DEF CallOK, Sessions
  <2>6. Encoded(call.input, salt) \in 0..(key.n - 1)
    BY <2>5, ClientKeys
  <2>7. /\ in_range(Power(data.blinded, key.d, key.n), key.n)
        /\ rsa_verify(key, call.input, (Power(data.blinded, key.d, key.n) * data.secret) % key.n)
    BY <2>2, <2>4, <2>5, <2>6, ClientKeys, OwnSignatureVerifies
  <2>8. in_range(z, key.n) /\ rsa_verify(key, call.input, signature(key, call, z))
    BY <2>4, <2>7 DEF signature
  <2> HIDE DEF key, z
  <2>9. unblinds(key, call, z)
    BY <2>8 DEF unblinds
  <2>10. signature(key, call, z) \in rsa_finalize(key, call.input, call, z)
    BY <2>8, <2>9 DEF rsa_finalize, Unverified
  <2>11. signature(key, call, z) \in Finalized(s, a)
    BY <2>1, <2>2, <2>10 DEF Finalized, key
  <2> QED
    BY <1>5, <2>1, <2>8, <2>11 DEF Verifies, key
<1> QED
  BY <1>1, <1>4, <1>5 DEF CallOK, Scheme

(* What finalize returns is a number.                                          *)
LEMMA OutputsAreNumbers ==
  ASSUME PowerLaws(Nat), HashesToNumbers(Seq(Nat)), SessionsOK,
         NEW s \in Session, NEW a \in AnswerSort, session[s].scheme = a.scheme
  PROVE  Finalized(s, a) \subseteq Nat
<1> DEFINE call == session[s]
<1>1. CallOK(s, call)
  BY DEF SessionsOK
<1>2. a.element \in Nat /\ call.secret \in Nat
  BY <1>1, ScalarsAreNumbers DEF AnswerSort, CallOK, Sessions
<1>3. CASE a.scheme = VOPRF
  <2> DEFINE point == (a.element * unblinding(call.secret)) % Order
             input == call.input
  <2>1. input \in Field \X Field
    BY <1>1, <1>3, CryptoAssumption DEF CallOK, Sessions
  <2>2. input[1] \in Nat /\ input[2] \in Nat
    BY <2>1, Numbers DEF Field
  <2>3. point \in Nat
    <3>1. unblinding(call.secret) \in 0..(Order - 1)
      BY <1>2, Unblinding
    <3>2. unblinding(call.secret) \in Int /\ a.element \in Int
      BY <1>2, <3>1, Numbers
    <3> QED
      BY <3>2, ProductInScalar, ScalarsAreNumbers
  <2> HIDE DEF point, input
  <2>4. <<input[1], input[2], point, 4>> \in Seq(Nat)
    BY <2>2, <2>3
  <2>5. finalize_output(input, point) \in Nat
    BY <2>4 DEF finalize_output, HashesToNumbers
  <2>6. Finalized(s, a) \subseteq {finalize_output(input, point)}
    BY <1>3 DEF Finalized, voprf_finalize, input, point
  <2> QED
    BY <2>5, <2>6
<1>4. CASE a.scheme # VOPRF
  <2> DEFINE key == ClientKey(BLIND_RSA)
             product == a.element * call.secret
  <2>1. product \in Int /\ key.n \in Nat \ {0}
    BY <1>2, ClientKeys
  <2>2. product % key.n \in Nat
    <3> HIDE DEF product, key
    <3>1. product % key.n \in 0..(key.n - 1)
      BY <2>1, DivisionWithRest
    <3> QED
      BY <2>1, <3>1
  <2>3. Finalized(s, a) \subseteq {product % key.n}
    BY <1>4 DEF Finalized, rsa_finalize, Unverified, signature
  <2> QED
    BY <2>2, <2>3
<1> QED
  BY <1>3, <1>4

(* What a server answers is of the sort that its scheme has.                    *)
LEMMA ProofInScalars ==
  ASSUME HashesToNumbers(Seq(Nat)),
         NEW k \in Scalar, NEW R \in Scalar, NEW ZR \in Scalar, NEW t \in Scalar
  PROVE  generate_dleq_proof(k, R, ZR, t) \in Scalar \X Scalar
<1> DEFINE d == compute_composite_scalar(k, R, ZR)
           M == (d * R) % Order
           ZM == (d * ZR) % Order
           tM == (t * M) % Order
           c == compute_dleq_challenge(<<k, M, ZM, t, tM>>)
<1>1. k \in Nat /\ R \in Nat /\ ZR \in Nat /\ t \in Nat
  BY ScalarsAreNumbers
<1>2. d \in Nat
  BY <1>1, ChallengesInScalar, ScalarsAreNumbers
<1> HIDE DEF d
<1>3. M \in Scalar /\ ZM \in Scalar /\ M \in Nat /\ ZM \in Nat
  <2>1. d \in Int /\ R \in Int /\ ZR \in Int
    BY <1>1, <1>2
  <2>2. M \in Scalar
    BY <2>1, ProductInScalar
  <2>3. ZM \in Scalar
    BY <2>1, ProductInScalar
  <2> QED
    BY <2>2, <2>3, ScalarsAreNumbers
<1> HIDE DEF M, ZM
<1>4. tM \in Nat
  <2>1. t \in Int /\ M \in Int
    BY <1>1, <1>3
  <2>2. tM \in Scalar
    BY <2>1, ProductInScalar
  <2> QED
    BY <2>2, ScalarsAreNumbers
<1> HIDE DEF tM
<1>5. c \in Scalar
  BY <1>1, <1>3, <1>4, ChallengesInScalar
<1>6. generate_dleq_proof(k, R, ZR, t) = <<c, dleq_response(t, c, k)>>
  BY DEF generate_dleq_proof, committed, compute_composites, d, M, ZM, tM
<1> HIDE DEF c
<1>7. dleq_response(t, c, k) \in Scalar
  BY <1>3, <1>5, ResponseOpens
<1> QED
  BY <1>5, <1>6, <1>7

LEMMA AnswersSorted ==
  ASSUME PowerLaws(Nat), HashesToNumbers(Seq(Nat)), SessionsOK,
         NEW s \in Session, NEW key \in Key(session[s].scheme),
         Usable(session[s].scheme, key), NEW t \in Scalar
  PROVE  Answer(session[s].scheme, key, session[s].blinded, t) \subseteq AnswerSort
<1> DEFINE call == session[s]
           R == call.blinded
<1>1. CallOK(s, call)
  BY DEF SessionsOK
<1>2. VOPRF # BLIND_RSA
  BY CryptoAssumption
<1>3. CASE call.scheme = VOPRF
  <2> DEFINE ZR == (key * R) % Order
  <2>1. key \in Scalar /\ R \in Scalar
    BY <1>1, <1>3, CryptoAssumption, Numbers
       DEF CallOK, Usable, private_key_from_bytes, Scalar
  <2>2. ZR \in Scalar
    <3> HIDE DEF R
    <3>1. key \in Nat /\ R \in Nat
      BY <2>1, ScalarsAreNumbers, Zenon
    <3>2. key \in Int /\ R \in Int
      BY <3>1
    <3> QED
      BY <3>2, ProductInScalar
  <2>3. generate_dleq_proof(key, R, ZR, t) \in Scalar \X Scalar
    BY <2>1, <2>2, ProofInScalars
  <2>4. Scalar \subseteq 0..(2 * Order - 1)
    BY Numbers DEF Scalar
  <2>5. Answer(VOPRF, key, R, t)
          \subseteq {[scheme |-> VOPRF, element |-> ZR, proof |-> generate_dleq_proof(key, R, ZR, t)]}
    BY DEF Answer, blind_evaluate
  <2> HIDE DEF ZR, R
  <2>6. [scheme |-> VOPRF, element |-> ZR, proof |-> generate_dleq_proof(key, R, ZR, t)] \in AnswerSort
    BY <2>2, <2>3, <2>4 DEF AnswerSort
  <2> QED
    BY <1>3, <2>5, <2>6 DEF R
<1>4. CASE call.scheme = BLIND_RSA
  <2>1. key.n \in Nat /\ key.n > 1 /\ key.d \in Nat /\ R \in Nat
    BY <1>1, <1>4, CryptoAssumption DEF CallOK, Sessions
  <2>2. Power(R, key.d, key.n) \in Nat
    <3> DEFINE n == key.n
               d == key.d
    <3>1. n \in Nat /\ n > 1 /\ d \in Nat
      BY <2>1
    <3> HIDE DEF n, d
    <3>2. \A x \in Nat : Power(x, d, n) \in 0..(n - 1)
      BY <3>1, Exponents
    <3>3. Power(R, d, n) \in 0..(n - 1)
      BY <2>1, <3>2
    <3> QED
      BY <3>1, <3>3 DEF n, d
  <2>3. Answer(BLIND_RSA, key, R, t)
          \subseteq {[scheme |-> BLIND_RSA, element |-> Power(R, key.d, key.n), proof |-> <<>>]}
    BY <1>2 DEF Answer, blind_sign
  <2> QED
    BY <1>4, <2>2, <2>3 DEF AnswerSort
<1> QED
  BY <1>1, <1>3, <1>4 DEF CallOK, Scheme

-----------------------------------------------------------------------------
(* The initial states, and the steps one by one.                               *)
LEMMA InitEstablishes ==
  ASSUME Init
  PROVE  IInv
<1>1. SessionsOK
  <2>1. session = [s \in Session |-> session[s]]
    BY DEF Init
  <2>2. ASSUME NEW s \in Session
        PROVE  CallOK(s, session[s])
    <3>1. PICK scheme \in Scheme :
            \E input \in UNION {Inputs(other, scheme) : other \in Session} :
              session[s] = [scheme |-> scheme, stage |-> "idle", input |-> input,
                            secret |-> 0, blinded |-> 0]
      BY DEF Init
    <3>2. session[s].input \in Inputs(s, session[s].scheme)
      BY DEF Init
    <3>3. PICK input \in Inputs(s, scheme) :
            session[s] = [scheme |-> scheme, stage |-> "idle", input |-> input,
                          secret |-> 0, blinded |-> 0]
      BY <3>1, <3>2
    <3>4. 0 \in Scalar /\ 0 \in Nat
      BY Numbers DEF Scalar
    <3> QED
      BY <3>3, <3>4 DEF CallOK, Sessions
  <2> QED
    BY <2>1, <2>2 DEF SessionsOK
<1> QED
  BY <1>1 DEF Init, IInv, FinalizedOK

(* What a session blinds is of the sort that its scheme has.                    *)
LEMMA BlindedSorted ==
  ASSUME PowerLaws(Nat), SessionsOK, NEW s \in Session, NEW r \in Randomness, NEW salt \in Salt,
         NEW data \in Blinded(s, r, salt)
  PROVE  /\ data.secret \in Nat /\ data.blinded \in Nat
         /\ session[s].scheme = VOPRF =>
              /\ data.secret \in Scalar /\ data.blinded \in Scalar
              /\ data \in voprf_blind(session[s].input, r)
         /\ session[s].scheme = BLIND_RSA =>
              data \in rsa_blind(ClientKey(BLIND_RSA), session[s].input, r, salt)
<1> DEFINE call == session[s]
<1>1. CallOK(s, call) /\ r \in Scalar /\ r \in Nat
  BY Numbers, ScalarsAreNumbers DEF SessionsOK
<1>2. VOPRF # BLIND_RSA
  BY CryptoAssumption
<1>3. CASE call.scheme = VOPRF
  <2>1. PICK h \in hash_to_curve(call.input) :
          data = [secret |-> r, blinded |-> (r * h) % Order]
    BY <1>3 DEF Blinded, voprf_blind
  <2>2. h \in Scalar
    BY HashedInScalar
  <2>3. h \in Int /\ r \in Int
    BY <1>1, <2>2, ScalarsAreNumbers
  <2>4. (r * h) % Order \in Scalar
    BY <2>3, ProductInScalar
  <2>5. data.secret \in Scalar /\ data.blinded \in Scalar
    BY <1>1, <2>1, <2>4
  <2>6. data \in voprf_blind(call.input, r)
    BY <1>3 DEF Blinded
  <2> QED
    BY <1>2, <1>3, <2>5, <2>6, ScalarsAreNumbers
<1>4. CASE call.scheme = BLIND_RSA
  <2> DEFINE key == ClientKey(BLIND_RSA)
             n == key.n
             E == Encoded(call.input, salt)
             P == Power(r, key.e, n)
  <2>1. data \in rsa_blind(key, call.input, r, salt)
    BY <1>2, <1>4 DEF Blinded
  <2>2. n \in Nat \ {0} /\ n > 1 /\ key.e \in Nat
    BY ClientKeys
  <2>3. call.input \in Inputs(s, BLIND_RSA)
    BY <1>1, <1>4 DEF CallOK, Sessions
  <2>4. E \in 0..(n - 1)
    BY <2>3, ClientKeys
  <2>5. P \in 0..(n - 1)
    <3> DEFINE e == key.e
    <3>1. n \in Nat /\ e \in Nat
      BY <2>2
    <3> HIDE DEF n, e
    <3>2. \A x \in Nat : Power(x, e, n) \in 0..(n - 1)
      BY <2>2, <3>1, Exponents
    <3> QED
      BY <1>1, <3>2 DEF e, n
  <2>6. data.secret \in 1..(n - 1) /\ data.blinded = (E * P) % n
    BY <2>1 DEF rsa_blind
  <2> HIDE DEF n, E, P
  <2>7. (E * P) % n \in Nat
    <3> DEFINE product == E * P
    <3>1. product \in Int
      BY <2>2, <2>4, <2>5
    <3> HIDE DEF product
    <3>2. product % n \in 0..(n - 1)
      BY <2>2, <3>1, DivisionWithRest
    <3> QED
      BY <2>2, <3>2 DEF product
  <2>8. data.secret \in Nat
    BY <2>2, <2>6
  <2> QED
    BY <1>2, <1>4, <2>1, <2>6, <2>7, <2>8
<1> QED
  BY <1>1, <1>3, <1>4 DEF CallOK, Scheme

(* Blind touches an idle session: what was finalized belongs to waiting ones.     *)
LEMMA BlindPreserves ==
  ASSUME PowerLaws(Nat), IInv, NEW s \in Session, NEW r \in Randomness, NEW salt \in Salt,
         Blind(s, r, salt)
  PROVE  IInv'
<1> DEFINE call == session[s]
           results == Blinded(s, r, salt)
           new == Awaiting(call, results)
           data == CHOOSE d \in results : TRUE
<1>1. SessionsOK /\ CallOK(s, call) /\ call \in Sessions(s, call.scheme) /\ call.scheme \in Scheme
  BY DEF IInv, SessionsOK, CallOK
<1>2. /\ call.stage = "idle"
      /\ call.scheme = BLIND_RSA => results # {}
      /\ session' = [session EXCEPT ![s] = new]
      /\ UNCHANGED <<answers, finalized>>
  BY DEF Blind
<1>3. VOPRF # BLIND_RSA
  BY CryptoAssumption
<1>4. new.scheme = call.scheme /\ CallOK(s, new)
  <2>1. CASE results = {}
    <3>1. new = [call EXCEPT !.stage = "failed"]
      BY <2>1 DEF Awaiting
    <3>2. call.scheme = VOPRF
      BY <1>1, <1>2, <2>1 DEF Scheme
    <3> HIDE DEF new, call, results
    <3>3. /\ new \in Sessions(s, VOPRF) /\ new.scheme = VOPRF
          /\ new.secret = call.secret /\ new.blinded = call.blinded /\ new.stage = "failed"
      BY <1>1, <3>1, <3>2 DEF Sessions
    <3> QED
      BY <1>1, <1>3, <3>2, <3>3 DEF CallOK, Scheme
  <2>2. CASE results # {}
    <3>1. new = [call EXCEPT !.stage = "waiting", !.secret = data.secret, !.blinded = data.blinded]
      BY <2>2 DEF Awaiting
    <3>2. data \in results
      BY <2>2
    <3> HIDE DEF data
    <3>3. /\ data.secret \in Nat /\ data.blinded \in Nat
          /\ call.scheme = VOPRF =>
               /\ data.secret \in Scalar /\ data.blinded \in Scalar
               /\ data \in voprf_blind(call.input, r)
          /\ call.scheme = BLIND_RSA =>
               data \in rsa_blind(ClientKey(BLIND_RSA), call.input, r, salt)
      BY <1>1, <3>2, BlindedSorted
    <3> HIDE DEF new, call, results
    <3>4. /\ new \in Sessions(s, call.scheme) /\ new.scheme = call.scheme
          /\ new.secret = data.secret /\ new.blinded = data.blinded /\ new.input = call.input
      BY <1>1, <3>1, <3>3 DEF Sessions
    <3>5. BlindedForInput(new)
      <4>1. CASE call.scheme = VOPRF
        BY <3>3, <3>4, <4>1 DEF BlindedForInput
      <4>2. CASE call.scheme = BLIND_RSA
        BY <1>3, <3>3, <3>4, <4>2 DEF BlindedForInput
      <4> QED
        BY <1>1, <4>1, <4>2 DEF Scheme
    <3> QED
      BY <1>1, <3>3, <3>4, <3>5 DEF CallOK
  <2> QED
    BY <2>1, <2>2
<1> HIDE DEF new, call, results
<1>5. \A other \in Session : session'[other] = IF other = s THEN new ELSE session[other]
  BY <1>1, <1>2 DEF SessionsOK
<1>6. SessionsOK'
  <2>1. session' = [other \in Session |-> session'[other]]
    BY <1>1, <1>2 DEF SessionsOK
  <2>2. ASSUME NEW other \in Session
        PROVE  CallOK(other, session'[other])
    BY <1>1, <1>4, <1>5 DEF SessionsOK
  <2>3. ASSUME NEW other \in Session
        PROVE  CallOK(other, session[other])'
    BY <2>2 DEF CallOK, BlindedForInput, Sessions
  <2> QED
    BY <2>1, <2>3 DEF SessionsOK
<1>7. FinalizedOK'
  <2>1. SUFFICES ASSUME NEW f \in finalized
                 PROVE  /\ f.session \in Session /\ f.output \subseteq Nat
                        /\ session'[f.session].stage = "waiting"
                        /\ f.live /\ f.answer \in Own(f.session)' =>
                             \E output \in f.output : Verifies(f.session, output)'
    BY <1>2 DEF FinalizedOK
  <2>2. /\ f.session \in Session /\ f.output \subseteq Nat
        /\ session[f.session].stage = "waiting"
        /\ f.live /\ f.answer \in Own(f.session) =>
             \E output \in f.output : Verifies(f.session, output)
    BY DEF IInv, FinalizedOK
  <2>3. session'[f.session] = session[f.session]
    BY <1>2, <1>5, <2>2 DEF call
  <2>4. /\ Own(f.session)' = Own(f.session)
        /\ \A output : Verifies(f.session, output)' <=> Verifies(f.session, output)
    BY <2>3 DEF Own, Verifies
  <2> QED
    BY <2>2, <2>3, <2>4
<1> QED
  BY <1>2, <1>6, <1>7 DEF IInv

LEMMA EvaluatePreserves ==
  ASSUME PowerLaws(Nat), HashesToNumbers(Seq(Nat)), IInv, NEW s \in Session,
         NEW key \in Key(session[s].scheme), NEW t \in Randomness, Evaluate(s, key, t)
  PROVE  IInv'
<1>1. t \in Scalar
  BY Numbers
<1>2. Answer(session[s].scheme, key, session[s].blinded, t) \subseteq AnswerSort
  BY <1>1, AnswersSorted DEF IInv, Evaluate
<1>3. answers' \subseteq AnswerSort
  BY <1>2 DEF IInv, Evaluate
<1>4. SessionsOK' /\ FinalizedOK'
  BY DEF IInv, Evaluate, SessionsOK, CallOK, Sessions, BlindedForInput, FinalizedOK, Own, Verifies
<1> QED
  BY <1>3, <1>4 DEF IInv

(* Only the answers change.                                                    *)
LEMMA AlteringPreserves ==
  ASSUME IInv, UNCHANGED <<session, finalized>>, answers' \subseteq AnswerSort
  PROVE  IInv'
<1>1. SessionsOK' /\ FinalizedOK'
  BY DEF IInv, SessionsOK, CallOK, Sessions, BlindedForInput, FinalizedOK, Own, Verifies
<1> QED
  BY <1>1 DEF IInv

LEMMA SplicePreserves ==
  ASSUME IInv, NEW a \in answers, NEW b \in answers, Splice(a, b)
  PROVE  IInv'
<1>1. VOPRF # BLIND_RSA /\ a \in AnswerSort /\ b \in AnswerSort
  BY CryptoAssumption DEF IInv
<1>2. [a EXCEPT !.proof = b.proof] \in AnswerSort
  BY <1>1 DEF Splice, AnswerSort
<1>3. answers' \subseteq AnswerSort
  BY <1>2 DEF Splice, IInv
<1> QED
  BY <1>3, AlteringPreserves DEF Splice

LEMMA LiftPreserves ==
  ASSUME IInv, NEW a \in answers, Lift(a)
  PROVE  IInv'
<1> DEFINE n == ClientKey(BLIND_RSA).n
<1>1. VOPRF # BLIND_RSA /\ a \in AnswerSort
  BY CryptoAssumption DEF IInv
<1>2. n \in Nat \ {0}
  BY ClientKeys
<1> HIDE DEF n
<1>3. CASE a.scheme = VOPRF
  <2>1. PICK p1 \in Scalar, p2 \in 0..(2 * Order - 1) :
          a = [scheme |-> VOPRF, element |-> a.element, proof |-> <<p1, p2>>] /\ a.element \in Scalar
    BY <1>1, <1>3 DEF AnswerSort
  <2> DEFINE lifted == (p2 % Order) + Order
  <2>2. lifted \in 0..(2 * Order - 1)
    <3>1. p2 \in Int
      BY Numbers
    <3>2. p2 % Order \in 0..(Order - 1)
      BY <3>1, Numbers, DivisionWithRest
    <3> QED
      BY <3>2, Numbers
  <2>3. [a EXCEPT !.proof[2] = (@ % Order) + Order]
          = [scheme |-> VOPRF, element |-> a.element, proof |-> <<p1, lifted>>]
    BY <2>1
  <2> HIDE DEF lifted
  <2>4. [a EXCEPT !.proof[2] = (@ % Order) + Order] \in AnswerSort
    BY <2>1, <2>2, <2>3 DEF AnswerSort
  <2>5. answers' \subseteq AnswerSort
    BY <1>3, <2>4 DEF Lift, IInv
  <2> QED
    BY <2>5, AlteringPreserves DEF Lift
<1>4. CASE a.scheme # VOPRF
  <2>1. a \in [scheme : {BLIND_RSA}, element : Nat, proof : {<<>>}]
    BY <1>1, <1>4 DEF AnswerSort
  <2>2. (a.element % n) + n \in Nat
    <3>1. a.element \in Int
      BY <2>1
    <3>2. a.element % n \in 0..(n - 1)
      BY <1>2, <3>1, DivisionWithRest
    <3> QED
      BY <1>2, <3>2
  <2>3. [a EXCEPT !.element = (@ % n) + n] \in AnswerSort
    BY <2>1, <2>2 DEF AnswerSort
  <2>4. answers' \subseteq AnswerSort
    BY <1>4, <2>3 DEF Lift, IInv, n
  <2> QED
    BY <2>4, AlteringPreserves DEF Lift
<1> QED
  BY <1>3, <1>4

(* Finalize may clear a session's inverse; what its issuer answers to it stays    *)
(* the same.                                                                  *)
LEMMA FinalizePreserves ==
  ASSUME PowerLaws(Nat), HashesToNumbers(Seq(Nat)), InversesByFermat, IInv, NEW s \in Session,
         NEW a \in answers,
         Finalize(s, a)
  PROVE  IInv'
<1> DEFINE call == session[s]
<1>1. /\ SessionsOK /\ CallOK(s, call) /\ a \in AnswerSort
      /\ call.stage = "waiting" /\ call.scheme = a.scheme
      /\ VOPRF # BLIND_RSA /\ Cleared \in Nat
  BY CryptoAssumption DEF IInv, SessionsOK, Finalize, Cleared
<1>2. \/ session' = session
      \/ call.scheme = BLIND_RSA /\ session' = [session EXCEPT ![s].secret = Cleared]
  BY <1>1 DEF Finalize
<1>3. ASSUME NEW other \in Session
      PROVE  /\ \/ session'[other] = session[other]
                \/ /\ other = s /\ call.scheme = BLIND_RSA
                   /\ session'[other] = [call EXCEPT !.secret = Cleared]
             /\ session'[other].scheme = session[other].scheme
             /\ session'[other].blinded = session[other].blinded
             /\ session'[other].input = session[other].input
             /\ session'[other].stage = session[other].stage
  <2>1. CASE session' = session
    BY <2>1
  <2>2. CASE call.scheme = BLIND_RSA /\ session' = [session EXCEPT ![s].secret = Cleared]
    <3>1. session'[other] = IF other = s THEN [call EXCEPT !.secret = Cleared] ELSE session[other]
      BY <1>1, <2>2 DEF SessionsOK
    <3>2. CASE other = s
      BY <1>1, <2>2, <3>1, <3>2 DEF CallOK, Sessions
    <3> QED
      BY <3>1, <3>2
  <2> QED
    BY <1>2, <2>1, <2>2
<1>4. SessionsOK'
  <2>1. session' = [other \in Session |-> session'[other]]
    BY <1>1, <1>2 DEF SessionsOK
  <2>2. ASSUME call.scheme = BLIND_RSA
        PROVE  CallOK(s, [call EXCEPT !.secret = Cleared])
    <3> DEFINE new == [call EXCEPT !.secret = Cleared]
    <3>1. BlindedForInput(call) /\ call \in Sessions(s, BLIND_RSA) /\ call.scheme # VOPRF
      BY <1>1, <2>2 DEF CallOK
    <3> HIDE DEF call
    <3>2. /\ new \in Sessions(s, BLIND_RSA) /\ new.scheme = BLIND_RSA
          /\ new.input = call.input /\ new.blinded = call.blinded /\ new.secret = Cleared
      BY <1>1, <3>1 DEF Sessions
    <3> HIDE DEF new
    <3>3. BlindedForInput(new)
      BY <1>1, <3>1, <3>2 DEF BlindedForInput
    <3>4. CallOK(s, new)
      BY <1>1, <3>2, <3>3 DEF CallOK, Scheme
    <3> QED
      BY <3>4 DEF new
  <2>3. ASSUME NEW other \in Session
        PROVE  CallOK(other, session'[other])
    BY <1>1, <1>3, <2>2 DEF SessionsOK
  <2>4. ASSUME NEW other \in Session
        PROVE  CallOK(other, session[other])'
    BY <2>3 DEF CallOK, BlindedForInput, Sessions
  <2> QED
    BY <2>1, <2>4 DEF SessionsOK
<1>5. FinalizedOK'
  <2>1. SUFFICES ASSUME NEW f \in finalized'
                 PROVE  /\ f.session \in Session /\ f.output \subseteq Nat
                        /\ session'[f.session].stage = "waiting"
                        /\ f.live /\ f.answer \in Own(f.session)' =>
                             \E output \in f.output : Verifies(f.session, output)'
    BY DEF FinalizedOK
  <2>2. f = [session |-> s, answer |-> a, live |-> call.secret # Cleared,
             output |-> Finalized(s, a)]
    BY DEF Finalize
  <2>3. /\ f.session = s /\ f.output = Finalized(s, a) /\ f.answer = a
        /\ f.live = (call.secret # Cleared)
    BY <2>2
  <2>4. Finalized(s, a) \subseteq Nat
    BY <1>1, OutputsAreNumbers
  <2>5. session'[s].stage = "waiting"
    BY <1>1, <1>3
  <2>6. /\ Own(f.session)' = Own(s)
        /\ \A output : Verifies(f.session, output)' <=> Verifies(s, output)
    BY <1>3, <2>3 DEF Own, Verifies
  <2>7. ASSUME call.secret # Cleared, a \in Own(s)
        PROVE  \E output \in Finalized(s, a) : Verifies(s, output)
    BY <1>1, <2>7, OwnFinalizes
  <2> HIDE DEF call
  <2> QED
    BY <2>3, <2>4, <2>5, <2>6, <2>7
<1>6. answers' \subseteq AnswerSort
  BY DEF Finalize, IInv
<1> QED
  BY <1>4, <1>5, <1>6 DEF IInv

-----------------------------------------------------------------------------
(* The hypotheses of the theorems are laws of what OpenSSL computes: those of      *)
(* exponentiation and of inversion modulo a prime, and that a hash is a number.    *)
LEMMA StepPreserves ==
  ASSUME PowerLaws(Nat), HashesToNumbers(Seq(Nat)), InversesByFermat, IInv, [Next]_vars
  PROVE  IInv'
<1>1. ASSUME NEW s \in Session, NEW r \in Randomness, NEW salt \in Salt, Blind(s, r, salt)
      PROVE  IInv'
  BY <1>1, BlindPreserves
<1>2. ASSUME NEW s \in Session, NEW key \in Key(session[s].scheme), NEW t \in Randomness,
             Evaluate(s, key, t)
      PROVE  IInv'
  BY <1>2, EvaluatePreserves
<1>3. ASSUME NEW s \in Session, NEW a \in answers, Finalize(s, a)
      PROVE  IInv'
  BY <1>3, FinalizePreserves
<1>4. ASSUME NEW a \in answers, NEW b \in answers, Splice(a, b)
      PROVE  IInv'
  BY <1>4, SplicePreserves
<1>5. ASSUME NEW a \in answers, Lift(a)
      PROVE  IInv'
  BY <1>5, LiftPreserves
<1>6. CASE UNCHANGED vars
  <2>1. answers' \subseteq AnswerSort
    BY <1>6 DEF IInv, vars
  <2> QED
    BY <1>6, <2>1, AlteringPreserves DEF vars
<1> QED
  BY <1>1, <1>2, <1>3, <1>4, <1>5, <1>6 DEF Next

LEMMA Invariance ==
  ASSUME PowerLaws(Nat), HashesToNumbers(Seq(Nat)), InversesByFermat
  PROVE  Spec => []IInv
<1>1. Init => IInv
  BY InitEstablishes
<1>2. IInv /\ [Next]_vars => IInv'
  BY StepPreserves
<1> QED
  BY <1>1, <1>2, PTL DEF Spec

LEMMA InvTypes ==
  ASSUME IInv
  PROVE  TypeOK
<1>1. \A s \in Session :
        /\ session[s] \in Sessions(s, session[s].scheme)
        /\ session[s].scheme = VOPRF => session[s].secret \in Scalar /\ session[s].blinded \in Scalar
  BY DEF IInv, SessionsOK, CallOK
<1>2. ASSUME NEW a \in answers
      PROVE  /\ a.scheme \in Scheme /\ a.element \in Nat
             /\ a.scheme = VOPRF =>
                  a.element \in Scalar /\ a.proof[1] \in Scalar /\ a.proof[2] \in 0..(2 * Order - 1)
  BY CryptoAssumption, ScalarsAreNumbers DEF IInv, AnswerSort, Scheme
<1> QED
  BY <1>1, <1>2 DEF TypeOK, IInv, FinalizedOK

(* Every number that a client or a server makes is reduced: what they send can     *)
(* be encoded in the length of a scalar, a point or a modulus.                   *)
THEOREM TypesAreKept ==
  ASSUME PowerLaws(Nat), HashesToNumbers(Seq(Nat)), InversesByFermat
  PROVE  Spec => []TypeOK
BY Invariance, InvTypes, PTL

(* A client that still has its secret never refuses what its own issuer answers    *)
(* to its request, and gets an output that verifies, whatever the hash function,   *)
(* the group's prime order and the RSA key pair are: the proof of generate_dleq_proof *)
(* is the one that verify_dleq_proof expects, VoprfClient::finalize takes away the   *)
(* blind that VoprfClient::blind put on, and the signature that                  *)
(* BlindRsaPublicKey::finalize unblinds is one of the message.                    *)
THEOREM OwnAnswersFinalize ==
  ASSUME PowerLaws(Nat), HashesToNumbers(Seq(Nat)), InversesByFermat
  PROVE  Spec => []OwnAnswerFinalizes
<1>1. IInv => OwnAnswerFinalizes
  BY DEF IInv, FinalizedOK, OwnAnswerFinalizes
<1> QED
  BY <1>1, Invariance, PTL

-----------------------------------------------------------------------------
(* Soundness: what a client accepts.                                          *)

(* A factor other than 0 can be taken away.                                     *)
LEMMA Cancelled ==
  ASSUME NEW d \in 1..(Order - 1), NEW x \in Scalar, NEW y \in Scalar,
         (d * x) % Order = (d * y) % Order
  PROVE  x = y
<1>1. ASSUME NEW a \in Scalar, NEW b \in Scalar, a > b, (d * a) % Order = (d * b) % Order
      PROVE  FALSE
  <2> DEFINE diff == a - b
             da == d * a
             db == d * b
             dd == d * diff
             p == da \div Order
             q == db \div Order
             k == p - q
  <2>1. Order \in Nat \ {0} /\ a \in Int /\ b \in Int /\ d \in Int /\ diff \in 1..(Order - 1)
    BY <1>1, Numbers, ScalarsAreNumbers DEF Scalar
  <2>2. (d * diff) % Order \in 1..(Order - 1)
    BY <2>1, NoZeroProduct
  <2>3. da \in Int /\ db \in Int /\ dd \in Int /\ da = db + dd
    BY <2>1
  <2>4. da % Order = db % Order
    BY <1>1
  <2>5. dd % Order # 0
    BY <2>1, <2>2
  <2> HIDE DEF da, db, dd
  <2>6. p \in Int /\ q \in Int /\ da = Order * p + (da % Order) /\ db = Order * q + (db % Order)
    BY <2>1, <2>3, DivisionWithRest
  <2> HIDE DEF p, q
  <2>7. k \in Int /\ Order * k = Order * p - Order * q
    BY <2>1, <2>6
  <2> HIDE DEF k
  <2>8. dd = 0 + Order * k
    <3> DEFINE rest == da % Order
    <3>1. rest \in Int /\ Order * p \in Int /\ Order * q \in Int
      BY <2>1, <2>3, <2>6, DivisionWithRest
    <3>2. da = Order * p + rest /\ db = Order * q + rest
      BY <2>4, <2>6
    <3> HIDE DEF rest
    <3> QED
      BY <2>3, <2>7, <3>1, <3>2
  <2>9. 0 \in Int
    OBVIOUS
  <2>10. dd % Order = 0 % Order
    BY <2>1, <2>3, <2>7, <2>8, <2>9, Congruent
  <2>11. 0 % Order = 0
    BY <2>1
  <2> QED
    BY <2>5, <2>10, <2>11
<1>2. x \in Int /\ y \in Int
  BY ScalarsAreNumbers
<1> QED
  BY <1>1, <1>2

(* Two factors change places.                                                  *)
LEMMA FactorsExchanged ==
  ASSUME NEW a \in Int, NEW b \in Int, NEW c \in Int
  PROVE  (a * ((b * c) % Order)) % Order = (b * ((a * c) % Order)) % Order
<1>1. (a * ((b * c) % Order)) % Order = (((a * b) % Order) * c) % Order
  BY Numbers, ProductReduced
<1>2. (b * ((a * c) % Order)) % Order = (((b * a) % Order) * c) % Order
  BY Numbers, ProductReduced
<1>3. a * b = b * a
  OBVIOUS
<1> QED
  BY <1>1, <1>2, <1>3

(* What a proof that verifies says of the statement (Y, R, ZR): if its challenge    *)
(* is the one of the proof's own transcript, the proof was made with the key Y, and *)
(* ZR is Y R.                                                                 *)
LEMMA ProofSpeaksOfStatement ==
  ASSUME HashesToNumbers(Seq(Nat)),
         NEW Y \in 1..(Order - 1), NEW R \in 1..(Order - 1), NEW ZR \in 1..(Order - 1),
         NEW k \in 1..(Order - 1), NEW S \in 1..(Order - 1), NEW t,
         compute_composite_scalar(Y, R, ZR) # 0,
         recomputed(Y, R, ZR, generate_dleq_proof(k, S, (k * S) % Order, t))
           = committed(k, S, (k * S) % Order, t)
  PROVE  /\ k = Y
         /\ ZR = (Y * R) % Order
         /\ compute_composites(Y, R, (Y * R) % Order).M = compute_composites(Y, S, (Y * S) % Order).M
<1> DEFINE ZS == (k * S) % Order
           d == compute_composite_scalar(Y, R, ZR)
           f == compute_composite_scalar(k, S, ZS)
           M == (d * R) % Order
<1>1. /\ Order \in Nat \ {0} /\ Y \in Nat /\ R \in Nat /\ ZR \in Nat /\ k \in Nat /\ S \in Nat
  BY Numbers
<1>2. ZS \in Nat
  <2>1. k \in Int /\ S \in Int
    BY <1>1
  <2> QED
    BY <2>1, ProductInScalar, ScalarsAreNumbers
<1>3. d \in Scalar /\ f \in Scalar
  <2> HIDE DEF ZS
  <2> QED
    BY <1>1, <1>2, ChallengesInScalar
<1>4. d \in 1..(Order - 1) /\ d \in Int /\ f \in Int
  <2>1. d # 0
    OBVIOUS
  <2> HIDE DEF d, f
  <2> QED
    BY <1>1, <1>3, <2>1 DEF Scalar
<1> DEFINE proof == generate_dleq_proof(k, S, ZS, t)
<1>5. /\ k = Y
      /\ (d * R) % Order = (f * S) % Order
      /\ (d * ZR) % Order = (f * ZS) % Order
  <2>1. recomputed(Y, R, ZR, proof) = committed(k, S, ZS, t)
    OBVIOUS
  <2>2. /\ recomputed(Y, R, ZR, proof)[1] = Y
        /\ recomputed(Y, R, ZR, proof)[2] = (d * R) % Order
        /\ recomputed(Y, R, ZR, proof)[3] = (d * ZR) % Order
    BY DEF recomputed, compute_composites
  <2>3. /\ committed(k, S, ZS, t)[1] = k
        /\ committed(k, S, ZS, t)[2] = (f * S) % Order
        /\ committed(k, S, ZS, t)[3] = (f * ZS) % Order
    BY DEF committed, compute_composites
  <2> HIDE DEF proof, d, f, ZS
  <2> QED
    BY <2>1, <2>2, <2>3
<1>6. ZR = (Y * R) % Order
  <2>1. (f * ZS) % Order = (k * ((f * S) % Order)) % Order
    <3> HIDE DEF f
    <3>1. f \in Int /\ k \in Int /\ S \in Int
      BY <1>1, <1>4
    <3> QED
      BY <3>1, FactorsExchanged
  <2>2. (d * ((Y * R) % Order)) % Order = (Y * ((d * R) % Order)) % Order
    <3> HIDE DEF d
    <3>1. d \in Int /\ Y \in Int /\ R \in Int
      BY <1>1, <1>4
    <3> QED
      BY <3>1, FactorsExchanged
  <2> DEFINE YR == (Y * R) % Order
  <2>3. YR \in Scalar /\ ZR \in Scalar
    <3>1. Y \in Int /\ R \in Int
      BY <1>1
    <3> QED
      BY <1>1, <3>1, ProductInScalar DEF Scalar
  <2>4. (d * ZR) % Order = (d * YR) % Order
    BY <1>5, <2>1, <2>2, Zenon
  <2> HIDE DEF d, YR
  <2>5. ZR = YR
    BY <1>4, <2>3, <2>4, Cancelled
  <2> QED
    BY <2>5 DEF YR
<1>7. compute_composites(Y, R, (Y * R) % Order).M = compute_composites(Y, S, (Y * S) % Order).M
  <2>1. compute_composites(Y, R, ZR).M = (d * R) % Order
    BY DEF compute_composites
  <2>2. compute_composites(k, S, ZS).M = (f * S) % Order
    BY DEF compute_composites
  <2> HIDE DEF d, f
  <2> QED
    BY <1>5, <1>6, <2>1, <2>2
<1> QED
  BY <1>5, <1>6, <1>7

(* A session that waits goes on waiting for an answer to the same request.        *)
LEMMA StaysWaiting ==
  ASSUME IInv, [Next]_vars, NEW s \in Session, session[s].stage = "waiting"
  PROVE  /\ session'[s].stage = "waiting"
         /\ session'[s].scheme = session[s].scheme
         /\ session'[s].input = session[s].input
         /\ session'[s].blinded = session[s].blinded
<1>1. /\ session = [x \in Session |-> session[x]]
      /\ \A x \in Session : session[x] \in Sessions(x, session[x].scheme)
  BY DEF IInv, SessionsOK, CallOK
<1>2. ASSUME NEW x \in Session, NEW r \in Randomness, NEW salt \in Salt, Blind(x, r, salt)
      PROVE  session'[s] = session[s]
  <2>1. x # s
    BY <1>2 DEF Blind
  <2> QED
    BY <1>1, <1>2, <2>1 DEF Blind
<1>3. ASSUME NEW x \in Session, NEW key \in Key(session[x].scheme), NEW t \in Randomness,
             Evaluate(x, key, t)
      PROVE  session' = session
  BY <1>3 DEF Evaluate
<1>4. ASSUME NEW x \in Session, NEW a \in answers, Finalize(x, a)
      PROVE  session'[s] = session[s] \/ session'[s] = [session[s] EXCEPT !.secret = Cleared]
  <2>1. session' = session \/ session' = [session EXCEPT ![x].secret = Cleared]
    BY <1>4 DEF Finalize
  <2> QED
    BY <1>1, <2>1
<1>5. ASSUME NEW a \in answers, NEW b \in answers, Splice(a, b)
      PROVE  session' = session
  BY <1>5 DEF Splice
<1>6. ASSUME NEW a \in answers, Lift(a)
      PROVE  session' = session
  BY <1>6 DEF Lift
<1>7. session'[s] = session[s] \/ session'[s] = [session[s] EXCEPT !.secret = Cleared]
  BY <1>2, <1>3, <1>4, <1>5, <1>6 DEF Next, vars
<1>8. session[s] \in Sessions(s, session[s].scheme)
  BY <1>1
<1> QED
  BY <1>7, <1>8 DEF Sessions

(* Every answer under way was made, in parts, by servers that were asked: its      *)
(* element by one, and its proof by one, unless a number in it was replaced.       *)
MadeFrom(requests, a) ==
  /\ Randomness \ {0} # {}
  /\ a.scheme = VOPRF =>
       /\ \E k \in UsableKeys, R \in requests : a.element = (k * R) % Order
       /\ \/ ~scalars_in_range(a.proof)
          \/ \E k \in UsableKeys, R \in requests, t \in Randomness \ {0} :
               a.proof = generate_dleq_proof(k, R, (k * R) % Order, t)

AnswersMade == \A a \in answers : MadeFrom(PointsRequested, a)

LEMMA RequestsStay ==
  ASSUME IInv, [Next]_vars
  PROVE  PointsRequested \subseteq PointsRequested'
<1>1. ASSUME NEW R \in PointsRequested
      PROVE  R \in PointsRequested'
  <2>1. PICK s \in Session : /\ session[s].scheme = VOPRF /\ session[s].stage = "waiting"
                             /\ R = session[s].blinded /\ bytes_to_point(R)
    BY DEF PointsRequested
  <2>2. /\ session'[s].stage = "waiting" /\ session'[s].scheme = VOPRF
        /\ session'[s].blinded = R
    BY <2>1, StaysWaiting
  <2> QED
    BY <2>1, <2>2 DEF PointsRequested
<1> QED
  BY <1>1

LEMMA MoreRequests ==
  ASSUME NEW few, NEW many, few \subseteq many, NEW a, MadeFrom(few, a)
  PROVE  MadeFrom(many, a)
BY DEF MadeFrom

LEMMA EvaluatedIsMade ==
  ASSUME NEW s \in Session, NEW key \in Key(session[s].scheme), NEW t \in Randomness,
         Evaluate(s, key, t),
         NEW a \in Answer(session[s].scheme, key, session[s].blinded, t)
  PROVE  MadeFrom(PointsRequested, a)
<1> DEFINE R == session[s].blinded
<1>1. t \in Randomness \ {0}
  BY DEF Evaluate
<1>2. CASE session[s].scheme = VOPRF
  <2>1. /\ bytes_to_point(R)
        /\ a = [scheme |-> VOPRF, element |-> (key * R) % Order,
                proof |-> generate_dleq_proof(key, R, (key * R) % Order, t)]
    BY <1>2 DEF Answer, blind_evaluate
  <2>2. R \in PointsRequested
    BY <1>2, <2>1 DEF PointsRequested, Evaluate
  <2>3. key \in UsableKeys
    BY <1>2 DEF Evaluate, Usable, UsableKeys
  <2> HIDE DEF R
  <2> QED
    BY <1>1, <2>1, <2>2, <2>3 DEF MadeFrom
<1>3. CASE session[s].scheme # VOPRF
  <2>1. a.scheme = session[s].scheme
    BY DEF Answer
  <2> QED
    BY <1>1, <1>3, <2>1 DEF MadeFrom
<1> QED
  BY <1>2, <1>3

LEMMA SplicedIsMade ==
  ASSUME NEW requests, NEW a \in AnswerSort, NEW b \in AnswerSort,
         a.scheme = VOPRF, b.scheme = VOPRF, MadeFrom(requests, a), MadeFrom(requests, b)
  PROVE  MadeFrom(requests, [a EXCEPT !.proof = b.proof])
<1> DEFINE c == [a EXCEPT !.proof = b.proof]
<1>1. c.scheme = VOPRF /\ c.element = a.element /\ c.proof = b.proof
  BY DEF AnswerSort
<1> HIDE DEF c
<1>2. MadeFrom(requests, c)
  BY <1>1 DEF MadeFrom
<1> QED
  BY <1>2 DEF c

LEMMA LiftedIsMade ==
  ASSUME NEW requests, NEW a \in AnswerSort, MadeFrom(requests, a)
  PROVE  /\ a.scheme = VOPRF =>
              MadeFrom(requests, [a EXCEPT !.proof[2] = (@ % Order) + Order])
         /\ \A z : a.scheme # VOPRF => MadeFrom(requests, [a EXCEPT !.element = z])
<1>1. ASSUME a.scheme = VOPRF
      PROVE  MadeFrom(requests, [a EXCEPT !.proof[2] = (@ % Order) + Order])
  <2>1. VOPRF # BLIND_RSA
    BY CryptoAssumption
  <2>2. PICK p1 \in Scalar, p2 \in 0..(2 * Order - 1) :
          a = [scheme |-> VOPRF, element |-> a.element, proof |-> <<p1, p2>>]
    BY <1>1, <2>1 DEF AnswerSort
  <2> DEFINE lifted == (p2 % Order) + Order
             b == [a EXCEPT !.proof[2] = (@ % Order) + Order]
  <2>3. b = [scheme |-> VOPRF, element |-> a.element, proof |-> <<p1, lifted>>]
    BY <2>2
  <2>4. ~(lifted < Order)
    <3>1. p2 \in Int
      BY Numbers
    <3>2. p2 % Order \in 0..(Order - 1)
      BY <3>1, Numbers, DivisionWithRest
    <3> QED
      BY <3>2, Numbers
  <2> HIDE DEF lifted, b
  <2>5. b.scheme = VOPRF /\ b.element = a.element /\ b.proof[2] = lifted
    BY <2>3
  <2>6. ~scalars_in_range(b.proof)
    BY <2>4, <2>5 DEF scalars_in_range
  <2>7. MadeFrom(requests, b)
    BY <1>1, <2>5, <2>6 DEF MadeFrom
  <2> QED
    BY <2>7 DEF b
<1>2. ASSUME NEW z, a.scheme # VOPRF
      PROVE  MadeFrom(requests, [a EXCEPT !.element = z])
  <2>1. [a EXCEPT !.element = z].scheme = a.scheme
    BY DEF AnswerSort
  <2> QED
    BY <1>2, <2>1 DEF MadeFrom
<1> QED
  BY <1>1, <1>2

LEMMA StepMakes ==
  ASSUME IInv, AnswersMade, [Next]_vars
  PROVE  AnswersMade'
<1>1. ASSUME NEW a \in answers
      PROVE  MadeFrom(PointsRequested', a)
  BY RequestsStay, MoreRequests DEF AnswersMade
<1>2. ASSUME NEW s \in Session, NEW key \in Key(session[s].scheme), NEW t \in Randomness,
             Evaluate(s, key, t)
      PROVE  \A a \in answers' : MadeFrom(PointsRequested', a)
  <2>1. ASSUME NEW a \in Answer(session[s].scheme, key, session[s].blinded, t)
        PROVE  MadeFrom(PointsRequested', a)
    BY <1>2, EvaluatedIsMade, RequestsStay, MoreRequests
  <2>2. answers' = answers \cup Answer(session[s].scheme, key, session[s].blinded, t)
    BY <1>2 DEF Evaluate
  <2> QED
    BY <1>1, <2>1, <2>2
<1>3. ASSUME NEW a \in answers, NEW b \in answers, Splice(a, b)
      PROVE  \A c \in answers' : MadeFrom(PointsRequested', c)
  <2>1. a \in AnswerSort /\ b \in AnswerSort /\ a.scheme = VOPRF /\ b.scheme = VOPRF
    BY <1>3 DEF IInv, Splice
  <2>2. MadeFrom(PointsRequested', [a EXCEPT !.proof = b.proof])
    BY <1>1, <2>1, SplicedIsMade
  <2>3. answers' = (answers \ {a}) \cup {[a EXCEPT !.proof = b.proof]}
    BY <1>3 DEF Splice
  <2> QED
    BY <1>1, <2>2, <2>3
<1>4. ASSUME NEW a \in answers, Lift(a)
      PROVE  \A c \in answers' : MadeFrom(PointsRequested', c)
  <2> DEFINE new == IF a.scheme = VOPRF THEN [a EXCEPT !.proof[2] = (@ % Order) + Order]
                    ELSE [a EXCEPT !.element = (@ % ClientKey(BLIND_RSA).n) + ClientKey(BLIND_RSA).n]
  <2>1. a \in AnswerSort
    BY DEF IInv
  <2>2. MadeFrom(PointsRequested', new)
    <3>1. CASE a.scheme = VOPRF
      BY <1>1, <2>1, <3>1, LiftedIsMade
    <3>2. CASE a.scheme # VOPRF
      BY <1>1, <2>1, <3>2, LiftedIsMade
    <3> QED
      BY <3>1, <3>2
  <2>3. answers' = (answers \ {a}) \cup {new}
    BY <1>4 DEF Lift
  <2> HIDE DEF new
  <2> QED
    BY <1>1, <2>2, <2>3
<1>5. CASE UNCHANGED answers
  BY <1>1, <1>5 DEF AnswersMade
<1>6. ASSUME NEW s \in Session, NEW r \in Randomness, NEW salt \in Salt, Blind(s, r, salt)
      PROVE  UNCHANGED answers
  BY <1>6 DEF Blind
<1>7. ASSUME NEW s \in Session, NEW a \in answers, Finalize(s, a)
      PROVE  UNCHANGED answers
  BY <1>7 DEF Finalize
<1>8. CASE UNCHANGED vars
  BY <1>5, <1>8 DEF vars
<1>9. (\A a \in answers' : MadeFrom(PointsRequested', a)) => AnswersMade'
  BY DEF AnswersMade, MadeFrom
<1> QED
  BY <1>2, <1>3, <1>4, <1>5, <1>6, <1>7, <1>8, <1>9 DEF Next

(* A proof that a client accepts was made by its issuer, for a request with the     *)
(* same composite, and the element that comes with it is its issuer's multiple.    *)
LEMMA AcceptedIsTheIssuers ==
  ASSUME HashesToNumbers(Seq(Nat)), IInv, AnswersMade, ProofsBind(PointsRequested),
         NEW s \in Session, session[s].stage = "waiting", session[s].scheme = VOPRF,
         NEW a \in answers, a.scheme = VOPRF, Finalized(s, a) # {}
  PROVE  LET Y == ClientKey(VOPRF)
             R == session[s].blinded
         IN /\ bytes_to_point(R)
            /\ a.element = (Y * R) % Order
            /\ \E S \in PointsRequested, t \in Randomness \ {0} :
                 /\ a.proof = generate_dleq_proof(Y, S, (Y * S) % Order, t)
                 /\ compute_composites(Y, R, (Y * R) % Order).M
                      = compute_composites(Y, S, (Y * S) % Order).M
<1> DEFINE Y == ClientKey(VOPRF)
           R == session[s].blinded
           ZR == a.element
<1>1. /\ bytes_to_point(ZR) /\ bytes_to_point(R) /\ verify_dleq_proof(Y, R, ZR, a.proof)
  BY DEF Finalized, voprf_finalize
<1>2. R \in PointsRequested
  BY <1>1 DEF PointsRequested
<1>3. a.scheme = VOPRF /\ MadeFrom(PointsRequested, a)
  BY DEF AnswersMade
<1>4. PICK k1 \in UsableKeys, R1 \in PointsRequested : ZR = (k1 * R1) % Order
  BY <1>3 DEF MadeFrom
<1>5. scalars_in_range(a.proof)
  BY <1>1 DEF verify_dleq_proof
<1>6. PICK k \in UsableKeys, S \in PointsRequested, t \in Randomness \ {0} :
        a.proof = generate_dleq_proof(k, S, (k * S) % Order, t)
  BY <1>3, <1>5 DEF MadeFrom
<1> DEFINE ZS == (k * S) % Order
           proof == generate_dleq_proof(k, S, ZS, t)
<1>7. /\ compute_composite_scalar(Y, R, ZR) # 0
      /\ compute_dleq_challenge(recomputed(Y, R, ZR, proof)) = compute_dleq_challenge(committed(k, S, ZS, t))
           => recomputed(Y, R, ZR, proof) = committed(k, S, ZS, t)
  BY <1>2, <1>4, <1>6 DEF ProofsBind
<1>8. proof[1] = compute_dleq_challenge(recomputed(Y, R, ZR, proof))
  BY <1>1, <1>6 DEF verify_dleq_proof
<1>9. proof[1] = compute_dleq_challenge(committed(k, S, ZS, t))
  BY DEF generate_dleq_proof
<1>10. recomputed(Y, R, ZR, proof) = committed(k, S, ZS, t)
  BY <1>7, <1>8, <1>9
<1>11. /\ Y \in 1..(Order - 1) /\ R \in 1..(Order - 1) /\ ZR \in 1..(Order - 1)
       /\ k \in 1..(Order - 1) /\ S \in 1..(Order - 1)
  <2>1. k \in Nat /\ private_key_from_bytes(k)
    BY CryptoAssumption DEF UsableKeys
  <2>2. bytes_to_point(S)
    BY DEF PointsRequested
  <2> QED
    BY <1>1, <2>1, <2>2, Numbers DEF bytes_to_point, private_key_from_bytes
<1> HIDE DEF Y, R, ZR
<1>12. /\ k = Y
       /\ ZR = (Y * R) % Order
       /\ compute_composites(Y, R, (Y * R) % Order).M = compute_composites(Y, S, (Y * S) % Order).M
  BY <1>7, <1>10, <1>11, ProofSpeaksOfStatement
<1> HIDE DEF ZS, proof
<1>13. a.proof = generate_dleq_proof(Y, S, (Y * S) % Order, t)
  BY <1>6, <1>12
<1> QED
  BY <1>1, <1>12, <1>13 DEF Y, R, ZR

(* Whatever finalize returns verifies.                                         *)
LEMMA OutputVerifies ==
  ASSUME PowerLaws(Nat), HashesToNumbers(Seq(Nat)), InversesByFermat, IInv, AnswersMade,
         ProofsBind(PointsRequested),
         NEW s \in Session, NEW a \in answers, Finalize(s, a),
         NEW output \in Finalized(s, a)
  PROVE  Verifies(s, output)
<1> DEFINE call == session[s]
<1>1. call.stage = "waiting" /\ call.scheme = a.scheme /\ call.scheme \in Scheme
  BY DEF Finalize, IInv, SessionsOK, CallOK
<1>2. CASE call.scheme = VOPRF
  <2> DEFINE Y == ClientKey(VOPRF)
  <2>1. /\ bytes_to_point(call.blinded)
        /\ a.element = (Y * call.blinded) % Order
    BY <1>1, <1>2, AcceptedIsTheIssuers
  <2>2. Y \in 1..(Order - 1)
    BY Numbers
  <2>3. output = finalize_output(call.input, (a.element * unblinding(call.secret)) % Order)
    BY <1>1, <1>2 DEF Finalized, voprf_finalize
  <2> HIDE DEF Y
  <2>4. SessionsOK
    BY DEF IInv
  <2>5. verify_finalize(Y, call.input, output)
    BY <1>1, <1>2, <2>1, <2>2, <2>3, <2>4, UnblindedVerifies
  <2> QED
    BY <1>2, <2>5 DEF Verifies, Y
<1>3. CASE call.scheme # VOPRF
  <2>1. a.scheme # VOPRF /\ call.scheme = BLIND_RSA
    BY <1>1, <1>3 DEF Scheme
  <2>2. output \in rsa_finalize(ClientKey(BLIND_RSA), call.input, call, a.element)
    BY <2>1 DEF Finalized
  <2>3. rsa_verify(ClientKey(BLIND_RSA), call.input, output)
    BY <2>2 DEF rsa_finalize
  <2> QED
    BY <1>3, <2>1, <2>3 DEF Verifies
<1> QED
  BY <1>2, <1>3

(* What was finalized stays so, for its session stays as it is.                  *)
LEMMA FinalizedStays ==
  ASSUME IInv, [Next]_vars, NEW f \in finalized
  PROVE  /\ \A output : Verifies(f.session, output)' <=> Verifies(f.session, output)
         /\ Own(f.session)' = Own(f.session)
<1>1. f.session \in Session /\ session[f.session].stage = "waiting"
  BY DEF IInv, FinalizedOK
<1>2. /\ session'[f.session].scheme = session[f.session].scheme
      /\ session'[f.session].input = session[f.session].input
      /\ session'[f.session].blinded = session[f.session].blinded
  BY <1>1, StaysWaiting
<1> QED
  BY <1>2 DEF Verifies, Own

LEMMA StepVerifies ==
  ASSUME PowerLaws(Nat), HashesToNumbers(Seq(Nat)), InversesByFermat, IInv, AnswersMade,
         ProofsBind(PointsRequested), FinalizedVerifies, [Next]_vars
  PROVE  FinalizedVerifies'
<1>1. ASSUME NEW f \in finalized, NEW output \in f.output
      PROVE  Verifies(f.session, output)'
  BY FinalizedStays DEF FinalizedVerifies
<1>2. ASSUME NEW s \in Session, NEW a \in answers, Finalize(s, a)
      PROVE  FinalizedVerifies'
  <2>1. SUFFICES ASSUME NEW f \in finalized', NEW output \in f.output
                 PROVE  Verifies(f.session, output)'
    BY DEF FinalizedVerifies
  <2>2. f.session = s /\ f.output = Finalized(s, a)
    BY <1>2 DEF Finalize
  <2>3. Verifies(s, output)
    BY <1>2, <2>2, OutputVerifies
  <2>4. session[s].stage = "waiting"
    BY <1>2 DEF Finalize
  <2>5. /\ session'[s].scheme = session[s].scheme
        /\ session'[s].input = session[s].input
    BY <2>4, StaysWaiting
  <2> QED
    BY <2>2, <2>3, <2>5 DEF Verifies
<1>3. CASE UNCHANGED finalized
  BY <1>1, <1>3 DEF FinalizedVerifies
<1> QED
  BY <1>2, <1>3 DEF Next, vars, Blind, Evaluate, Splice, Lift

(* No client accepts an evaluation that its issuer did not make, so whatever finalize  *)
(* returns verifies at the issuer or at an origin: of all the answers under way, of    *)
(* other keys, to other requests, put together of two or with a number replaced, as    *)
(* long as the hash does not make the challenge of one proof that of another.          *)
THEOREM OutputsVerify ==
  ASSUME PowerLaws(Nat), HashesToNumbers(Seq(Nat)), InversesByFermat
  PROVE  Spec /\ []ProofsBind(PointsRequested) => []FinalizedVerifies
<1>1. Init => IInv /\ AnswersMade /\ FinalizedVerifies
  BY InitEstablishes DEF Init, AnswersMade, FinalizedVerifies
<1>2. IInv /\ AnswersMade /\ FinalizedVerifies /\ ProofsBind(PointsRequested) /\ [Next]_vars
        => IInv' /\ AnswersMade' /\ FinalizedVerifies'
  BY StepPreserves, StepMakes, StepVerifies
<1> QED
  BY <1>1, <1>2, PTL DEF Spec

(* The public exponent permutes the numbers below the modulus: it takes back what   *)
(* the private one makes of each.                                              *)
LEMMA EncryptionIsInjective ==
  ASSUME PowerLaws(Nat), NEW key, {key.n, key.e, key.d} \subseteq Nat, KeyPair(key),
         NEW x \in 0..(key.n - 1), NEW y \in 0..(key.n - 1),
         Power(x, key.e, key.n) = Power(y, key.e, key.n)
  PROVE  x = y
<1> DEFINE n == key.n
           e == key.e
           d == key.d
           S == 0..(n - 1)
           f == [z \in S |-> Power(z, e, n)]
<1>1. n \in Nat /\ n > 1 /\ e \in Nat /\ d \in Nat
  BY DEF KeyPair
<1>2. \A z \in S : Power(Power(z, d, n), e, n) = z
  BY DEF KeyPair
<1> HIDE DEF n, e, d
<1>3. \A z \in Nat : Power(z, e, n) \in S /\ Power(z, d, n) \in S
  BY <1>1, Exponents
<1>4. S \subseteq Nat
  BY <1>1
<1>5. IsFiniteSet(S)
  BY <1>1, FS_Interval
<1> HIDE DEF S
<1>6. f \in Surjection(S, S)
  <2>1. f \in [S -> S]
    BY <1>3, <1>4
  <2>2. ASSUME NEW z \in S
        PROVE  \E w \in S : f[w] = z
    <3>1. Power(z, d, n) \in S
      BY <1>3, <1>4
    <3>2. f[Power(z, d, n)] = z
      BY <1>2, <3>1
    <3> QED
      BY <3>1, <3>2
  <2> HIDE DEF f
  <2> QED
    BY <2>1, <2>2 DEF Surjection
<1>7. f \in Injection(S, S)
  <2> HIDE DEF f
  <2> QED
    BY <1>5, <1>6, FS_SurjSameCardinalityImpliesInj
<1>8. x \in S /\ y \in S /\ f[x] = f[y]
  BY DEF S, n, e
<1> HIDE DEF f
<1> QED
  BY <1>7, <1>8 DEF Injection, IsInjective

(* A factor that has an inverse can be taken away.                              *)
Cancels(q, n) == \A x, y \in 0..(n - 1) : (x * q) % n = (y * q) % n => x = y

LEMMA InvertibleCancelled ==
  ASSUME NEW n \in Nat \ {0}, NEW p \in Int, NEW q \in Int, (p * q) % n = 1
  PROVE  Cancels(q, n)
<1>1. ASSUME NEW z \in 0..(n - 1)
      PROVE  z = (((z * q) % n) * p) % n
  <2>1. z \in Int
    OBVIOUS
  <2>2. (z * ((q * p) % n)) % n = (((z * q) % n) * p) % n
    BY <2>1, ProductReduced
  <2>3. q * p = p * q /\ z * 1 = z /\ z % n = z
    BY <2>1, Reduced
  <2> QED
    BY <2>2, <2>3
<1>2. ASSUME NEW x \in 0..(n - 1), NEW y \in 0..(n - 1), (x * q) % n = (y * q) % n
      PROVE  x = y
  <2>1. x = (((x * q) % n) * p) % n /\ y = (((y * q) % n) * p) % n
    BY <1>1
  <2> QED
    BY <1>2, <2>1, Zenon
<1> QED
  BY <1>2, Zenon DEF Cancels

(* An element whose signature encrypts to what the request does, freed from the      *)
(* blind, is the request signed.                                               *)
LEMMA SignedRequest ==
  ASSUME PowerLaws(Nat), NEW key, {key.n, key.e, key.d} \subseteq Nat, KeyPair(key),
         NEW msg, NEW salt, Encoded(msg, salt) \in 0..(key.n - 1), NEW r \in Nat,
         NEW data \in rsa_blind(key, msg, r, salt),
         NEW z \in Nat, in_range(z, key.n),
         Power((z * data.secret) % key.n, key.e, key.n)
           = (data.blinded * Power(data.secret, key.e, key.n)) % key.n
  PROVE  in_range(data.blinded, key.n) /\ z = Power(data.blinded, key.d, key.n)
<1> DEFINE n == key.n
           e == key.e
           E == Encoded(msg, salt)
           P == Power(r, e, n)
           inv == data.secret
           Q == Power(inv, e, n)
           blinded == data.blinded
           ze == Power(z, e, n)
<1>1. /\ n \in Nat \ {0} /\ n > 1 /\ e \in Nat /\ e # 0 /\ key.d \in Nat
      /\ \A x \in 0..(n - 1) : Power(Power(x, key.d, n), e, n) = x
  BY DEF KeyPair
<1>2. inv \in 1..(n - 1) /\ (inv * r) % n = 1 /\ blinded = (E * P) % n
  BY DEF rsa_blind
<1>3. z \in 1..(n - 1) /\ Power((z * inv) % n, e, n) = (blinded * Q) % n
  BY <1>1 DEF in_range
<1>4. /\ \A x \in Nat : Power(x, e, n) \in 0..(n - 1) /\ Power(x, key.d, n) \in 0..(n - 1)
      /\ Power(1, e, n) = 1 /\ Power(0, e, n) = 0
      /\ \A x, y \in Nat : Power((x * y) % n, e, n) = (Power(x, e, n) * Power(y, e, n)) % n
  BY <1>1, Exponents
<1>5. KeyPair(key) /\ {key.n, key.e, key.d} \subseteq Nat
  OBVIOUS
<1>6. E \in 0..(n - 1)
  OBVIOUS
<1>7. /\ \A x \in Nat : Power(x, e, n) \in 0..(n - 1)
      /\ inv \in Nat /\ z \in Nat /\ r \in Nat
  <2>1. z \in Nat /\ r \in Nat
    OBVIOUS
  <2> HIDE DEF inv, e, n
  <2>2. inv \in Nat
    BY <1>1, <1>2
  <2> QED
    BY <1>4, <2>1, <2>2
<1>8. P \in 0..(n - 1) /\ Q \in 0..(n - 1) /\ ze \in 0..(n - 1)
  <2> HIDE DEF inv, e, n
  <2> QED
    BY <1>7
<1> HIDE DEF E, P, Q, inv, blinded, ze, n, e
<1>9. blinded \in 0..(n - 1)
  <2>1. E * P \in Int
    BY <1>1, <1>6, <1>8
  <2> DEFINE product == E * P
  <2> HIDE DEF product
  <2>2. product % n \in 0..(n - 1)
    BY <1>1, <2>1, DivisionWithRest DEF product
  <2> QED
    BY <1>2, <2>2 DEF product
<1>10. (P * Q) % n = 1
  <2>1. Power((r * inv) % n, e, n) = (P * Q) % n
    BY <1>4, <1>7 DEF P, Q
  <2>2. r * inv = inv * r
    BY <1>7
  <2> QED
    BY <1>2, <1>4, <2>1, <2>2
<1>11. (ze * Q) % n = (blinded * Q) % n
  <2>1. Power((z * inv) % n, e, n) = (ze * Q) % n
    BY <1>4, <1>7 DEF ze, Q
  <2> QED
    BY <1>3, <2>1
<1>12. ze = blinded
  <2>1. P \in Int /\ Q \in Int /\ n \in Nat \ {0}
    BY <1>1, <1>8
  <2>2. Cancels(Q, n)
    BY <1>10, <2>1, InvertibleCancelled
  <2> QED
    BY <1>8, <1>9, <1>11, <2>2, Zenon DEF Cancels
<1>13. blinded # 0
  <2>1. SUFFICES ASSUME blinded = 0 PROVE FALSE
    OBVIOUS
  <2>2. Power(z, e, n) = Power(0, e, n)
    BY <1>4, <1>12, <2>1 DEF ze
  <2>3. z \in 0..(n - 1) /\ 0 \in 0..(n - 1)
    BY <1>1, <1>3
  <2>4. z = 0
    BY <1>5, <2>2, <2>3, EncryptionIsInjective DEF e, n
  <2> QED
    BY <1>3, <2>4
<1>14. z = Power(blinded, key.d, n)
  <2>1. blinded \in Nat
    BY <1>1, <1>9
  <2>2. Power(blinded, key.d, n) \in 0..(n - 1) /\ z \in 0..(n - 1)
    BY <1>3, <1>4, <2>1
  <2>3. Power(Power(blinded, key.d, n), e, n) = Power(z, e, n)
    BY <1>1, <1>9, <1>12 DEF ze
  <2> QED
    BY <1>5, <2>2, <2>3, EncryptionIsInjective DEF e, n
<1> QED
  BY <1>1, <1>9, <1>13, <1>14 DEF in_range, blinded, n

(* What a client accepts is what its issuer answers to its request.               *)
LEMMA AcceptedIsOwn ==
  ASSUME PowerLaws(Nat), HashesToNumbers(Seq(Nat)), IInv, AnswersMade,
         ProofsBind(PointsRequested), CompositesApart(PointsRequested),
         SignsWhatWasBlinded(CallsWaiting, SignaturesUnderWay),
         NEW s \in Session, NEW a \in answers, Finalize(s, a), Finalized(s, a) # {}
  PROVE  a \in Own(s)
<1> DEFINE call == session[s]
<1>1. /\ call.stage = "waiting" /\ call.scheme = a.scheme /\ call.scheme \in Scheme
      /\ CallOK(s, call) /\ a \in AnswerSort /\ VOPRF # BLIND_RSA
  BY CryptoAssumption DEF Finalize, IInv, SessionsOK, CallOK
<1>2. CASE call.scheme = VOPRF
  <2> DEFINE Y == ClientKey(VOPRF)
             R == call.blinded
  <2>1. PICK S \in PointsRequested, t \in Randomness \ {0} :
          /\ bytes_to_point(R) /\ a.element = (Y * R) % Order
          /\ a.proof = generate_dleq_proof(Y, S, (Y * S) % Order, t)
          /\ compute_composites(Y, R, (Y * R) % Order).M = compute_composites(Y, S, (Y * S) % Order).M
    BY <1>1, <1>2, AcceptedIsTheIssuers
  <2>2. R \in PointsRequested
    BY <1>1, <1>2, <2>1 DEF PointsRequested
  <2>3. R = S
    BY <2>1, <2>2 DEF CompositesApart
  <2> HIDE DEF Y, R
  <2>4. a = [scheme |-> VOPRF, element |-> (Y * R) % Order,
             proof |-> generate_dleq_proof(Y, R, (Y * R) % Order, t)]
    <3>1. a = [scheme |-> VOPRF, element |-> a.element, proof |-> a.proof]
      BY <1>1, <1>2 DEF AnswerSort
    <3> QED
      BY <2>1, <2>3, <3>1
  <2>5. a \in Answer(VOPRF, Y, R, t)
    BY <2>1, <2>4 DEF Answer, blind_evaluate
  <2> QED
    BY <1>2, <2>5 DEF Own, Y, R
<1>3. CASE call.scheme = BLIND_RSA
  <2> DEFINE key == ClientKey(BLIND_RSA)
             n == key.n
             z == a.element
             sig == signature(key, call, z)
  <2>1. PICK output \in rsa_finalize(key, call.input, call, z) : TRUE
    BY <1>1, <1>3 DEF Finalized
  <2>2. unblinds(key, call, z) /\ output = sig /\ rsa_verify(key, call.input, sig)
    BY <2>1 DEF rsa_finalize, Unverified
  <2>3. PICK other \in Salt : Power(sig, key.e, n) = Encoded(call.input, other)
    BY <2>2 DEF rsa_verify
  <2>4. Power(sig, key.e, n) = (call.blinded * Power(call.secret, key.e, n)) % n
    <3>1. call \in CallsWaiting /\ z \in SignaturesUnderWay
      BY <1>1, <1>3 DEF CallsWaiting, SignaturesUnderWay
    <3> QED
      BY <2>2, <2>3, <3>1 DEF SignsWhatWasBlinded
  <2>5. PICK r \in Randomness, salt \in Salt :
          \E data \in rsa_blind(key, call.input, r, salt) :
            call.blinded = data.blinded /\ call.secret \in {data.secret, Cleared}
    BY <1>1, <1>3 DEF CallOK, BlindedForInput
  <2>6. PICK data \in rsa_blind(key, call.input, r, salt) :
          call.blinded = data.blinded /\ call.secret = data.secret
    BY <2>2, <2>5 DEF unblinds
  <2>7. r \in Nat /\ call.input \in Inputs(s, BLIND_RSA)
    BY <1>1, <1>3, Numbers, ScalarsAreNumbers DEF CallOK, Sessions
  <2>8. z \in Nat /\ a = [scheme |-> BLIND_RSA, element |-> z, proof |-> <<>>]
    BY <1>1, <1>3 DEF AnswerSort
  <2>9. Encoded(call.input, salt) \in 0..(key.n - 1)
    BY <2>7, ClientKeys
  <2>10. in_range(z, key.n)
    BY <2>2 DEF unblinds
  <2>11. Power((z * data.secret) % key.n, key.e, key.n)
           = (data.blinded * Power(data.secret, key.e, key.n)) % key.n
    BY <2>4, <2>6 DEF signature
  <2>12. KeyPair(key) /\ {key.n, key.e, key.d} \subseteq Nat
    BY ClientKeys
  <2> HIDE DEF key, z, call
  <2>13. in_range(data.blinded, key.n) /\ z = Power(data.blinded, key.d, key.n)
    BY <2>7, <2>8, <2>9, <2>10, <2>11, <2>12, SignedRequest
  <2>14. \A t \in Randomness \ {0} : a \in Answer(BLIND_RSA, key, call.blinded, t)
    <3>1. blind_sign(key, call.blinded) = {z}
      BY <2>6, <2>13 DEF blind_sign
    <3> DEFINE w == [element |-> z, proof |-> <<>>]
    <3>2. w \in {[element |-> y, proof |-> <<>>] : y \in blind_sign(key, call.blinded)}
      BY <3>1
    <3>3. a = [scheme |-> BLIND_RSA, element |-> w.element, proof |-> w.proof]
      BY <2>8
    <3> HIDE DEF w
    <3> QED
      BY <1>1, <3>2, <3>3 DEF Answer
  <2>15. Randomness \ {0} # {}
    BY DEF AnswersMade, MadeFrom
  <2> QED
    BY <1>3, <2>14, <2>15 DEF Own, key, call
<1> QED
  BY <1>1, <1>2, <1>3 DEF Scheme

LEMMA StepAcceptsOwn ==
  ASSUME PowerLaws(Nat), HashesToNumbers(Seq(Nat)), IInv, AnswersMade,
         ProofsBind(PointsRequested), CompositesApart(PointsRequested),
         SignsWhatWasBlinded(CallsWaiting, SignaturesUnderWay),
         OnlyOwnAnswerAccepted, [Next]_vars
  PROVE  OnlyOwnAnswerAccepted'
<1>1. ASSUME NEW f \in finalized, f.output # {}
      PROVE  f.answer \in Own(f.session)'
  BY <1>1, FinalizedStays DEF OnlyOwnAnswerAccepted
<1>2. ASSUME NEW s \in Session, NEW a \in answers, Finalize(s, a)
      PROVE  OnlyOwnAnswerAccepted'
  <2>1. SUFFICES ASSUME NEW f \in finalized', f.output # {}
                 PROVE  f.answer \in Own(f.session)'
    BY DEF OnlyOwnAnswerAccepted
  <2>2. f.session = s /\ f.answer = a /\ f.output = Finalized(s, a)
    BY <1>2 DEF Finalize
  <2>3. a \in Own(s)
    BY <1>2, <2>1, <2>2, AcceptedIsOwn
  <2>4. session[s].stage = "waiting"
    BY <1>2 DEF Finalize
  <2>5. session'[s].scheme = session[s].scheme /\ session'[s].blinded = session[s].blinded
    BY <2>4, StaysWaiting
  <2> QED
    BY <2>2, <2>3, <2>5 DEF Own
<1>3. CASE UNCHANGED finalized
  BY <1>1, <1>3 DEF OnlyOwnAnswerAccepted
<1> QED
  BY <1>2, <1>3 DEF Next, vars, Blind, Evaluate, Splice, Lift

(* A session takes no answer but its issuer's to its own request, unaltered, as long   *)
(* as the hash keeps the proofs and the composites of the requests apart and no answer  *)
(* under way happens to sign another encoding of the session's message: the range       *)
(* checks of verify_dleq_proof and of BlindRsaPublicKey::finalize leave each answer one  *)
(* form, and the public exponent permutes the numbers below the modulus.               *)
THEOREM OnlyOwnAnswersAccepted ==
  ASSUME PowerLaws(Nat), HashesToNumbers(Seq(Nat)), InversesByFermat
  PROVE  Spec /\ [](/\ ProofsBind(PointsRequested)
                    /\ CompositesApart(PointsRequested)
                    /\ SignsWhatWasBlinded(CallsWaiting, SignaturesUnderWay))
           => []OnlyOwnAnswerAccepted
<1> DEFINE NoAccident == /\ ProofsBind(PointsRequested)
                         /\ CompositesApart(PointsRequested)
                         /\ SignsWhatWasBlinded(CallsWaiting, SignaturesUnderWay)
<1>1. Init => IInv /\ AnswersMade /\ OnlyOwnAnswerAccepted
  BY InitEstablishes DEF Init, AnswersMade, OnlyOwnAnswerAccepted
<1>2. IInv /\ AnswersMade /\ OnlyOwnAnswerAccepted /\ NoAccident /\ [Next]_vars
        => IInv' /\ AnswersMade' /\ OnlyOwnAnswerAccepted'
  BY StepPreserves, StepMakes, StepAcceptsOwn
<1> HIDE DEF NoAccident
<1>3. Spec /\ []NoAccident => []OnlyOwnAnswerAccepted
  BY <1>1, <1>2, PTL DEF Spec
<1> QED
  BY <1>3 DEF NoAccident

-----------------------------------------------------------------------------
(* The map to the curve.  Numbers of one class modulo Prime stand for the same      *)
(* element of the field.                                                       *)
Same(a, b) == a % Prime = b % Prime

LEMMA PrimeIsModulus == Prime \in Nat \ {0}
BY CryptoAssumption DEF VoprfAssumption, HashToCurveAssumption

LEMMA FieldNumbers ==
  /\ Prime \in Nat \ {0} /\ Prime > 12
  /\ Field \subseteq Int /\ Field \subseteq Nat /\ CurveB \in Int /\ CurveB \in Field
  /\ CurveA \in 1..(Prime - 1) /\ CurveA \in Int /\ CurveA = Prime - 3
  /\ Z \in 1..(Prime - 1) /\ Z \in Int
<1>1. Prime \in Nat /\ Prime > 12 /\ CurveB \in Field
  BY CryptoAssumption DEF VoprfAssumption, HashToCurveAssumption
<1> QED
  BY <1>1 DEF Field, CurveA, Z

LEMMA InField ==
  ASSUME NEW a \in Int
  PROVE  a % Prime \in Field /\ a % Prime \in Int
<1>1. a % Prime \in 0..(Prime - 1)
  BY PrimeIsModulus, DivisionWithRest
<1> QED
  BY <1>1 DEF Field

LEMMA SameReduced ==
  ASSUME NEW a \in Int
  PROVE  Same(a % Prime, a)
<1>1. (a % Prime) % Prime = a % Prime
  <2> DEFINE r == a % Prime
  <2>1. r \in 0..(Prime - 1)
    BY PrimeIsModulus, DivisionWithRest
  <2> HIDE DEF r
  <2>2. r % Prime = r
    BY <2>1, FieldNumbers
  <2> QED
    BY <2>2 DEF r
<1> QED
  BY <1>1 DEF Same

LEMMA SameSum ==
  ASSUME NEW a \in Int, NEW b \in Int, NEW c \in Int, NEW d \in Int, Same(a, b), Same(c, d)
  PROVE  Same(a + c, b + d)
<1>1. ((a % Prime) + (c % Prime)) % Prime = (a + c) % Prime
  BY PrimeIsModulus, TermsReduced
<1>2. ((b % Prime) + (d % Prime)) % Prime = (b + d) % Prime
  BY PrimeIsModulus, TermsReduced
<1> QED
  BY <1>1, <1>2 DEF Same

LEMMA SameProduct ==
  ASSUME NEW a \in Int, NEW b \in Int, NEW c \in Int, NEW d \in Int, Same(a, b), Same(c, d)
  PROVE  Same(a * c, b * d)
<1>1. (a * (c % Prime)) % Prime = (a * c) % Prime
  BY PrimeIsModulus, FactorReduced
<1>2. (a * (d % Prime)) % Prime = (a * d) % Prime
  BY PrimeIsModulus, FactorReduced
<1>3. ((a % Prime) * d) % Prime = (d * a) % Prime
  BY PrimeIsModulus, FactorReduced
<1>4. ((b % Prime) * d) % Prime = (d * b) % Prime
  BY PrimeIsModulus, FactorReduced
<1>5. d * a = a * d /\ d * b = b * d
  OBVIOUS
<1> QED
  BY <1>1, <1>2, <1>3, <1>4, <1>5 DEF Same

LEMMA SameInField ==
  ASSUME NEW a \in Field, NEW b \in Field, Same(a, b)
  PROVE  a = b
<1>1. a \in 0..(Prime - 1) /\ b \in 0..(Prime - 1)
  BY DEF Field
<1>2. a % Prime = a /\ b % Prime = b
  BY <1>1, FieldNumbers, Reduced
<1> QED
  BY <1>2 DEF Same

LEMMA SameByMultiple ==
  ASSUME NEW a \in Int, NEW b \in Int, NEW k \in Int, a = b + Prime * k
  PROVE  Same(a, b)
BY PrimeIsModulus, Congruent DEF Same

LEMMA SquareSame ==
  ASSUME NEW a \in Int
  PROVE  Square(a) \in Field /\ Same(Square(a), a * a)
<1>1. a * a \in Int
  OBVIOUS
<1> DEFINE aa == a * a
<1> HIDE DEF aa
<1>2. aa % Prime \in Field /\ Same(aa % Prime, aa)
  BY <1>1, InField, SameReduced DEF aa
<1> QED
  BY <1>2 DEF Square, aa

(* The curve's polynomial.                                                     *)
LEMMA CurvePolynomial ==
  ASSUME NEW x \in Int
  PROVE  gx(x) \in Field /\ Same(gx(x), x * x * x + CurveA * x + CurveB)
<1> DEFINE s == Square(x)
           xx == x * x
           sum == s + CurveA
           exact == xx + CurveA
           left == sum * x + CurveB
           right == exact * x + CurveB
<1>1. s \in Int /\ xx \in Int /\ Same(s, xx) /\ CurveA \in Int /\ CurveB \in Int
  <2>1. s \in Field /\ Same(s, xx)
    BY SquareSame
  <2>2. Field \subseteq Int /\ CurveA \in Int /\ CurveB \in Int
    BY FieldNumbers
  <2>3. xx \in Int
    OBVIOUS
  <2> HIDE DEF s, xx
  <2> QED
    BY <2>1, <2>2, <2>3
<1> HIDE DEF s
<1>2. Same(sum, exact) /\ sum \in Int /\ exact \in Int
  <2>1. Same(CurveA, CurveA)
    BY DEF Same
  <2> HIDE DEF xx
  <2> QED
    BY <1>1, <2>1, SameSum
<1>3. right = x * x * x + CurveA * x + CurveB
  BY <1>1
<1> HIDE DEF xx, sum, exact
<1>4. Same(sum * x, exact * x) /\ sum * x \in Int /\ exact * x \in Int
  <2>1. Same(x, x)
    BY DEF Same
  <2> QED
    BY <1>2, <2>1, SameProduct
<1>5. Same(left, right) /\ left \in Int /\ right \in Int
  <2>1. Same(CurveB, CurveB)
    BY DEF Same
  <2>2. left \in Int /\ right \in Int
    BY <1>1, <1>4
  <2> QED
    BY <1>1, <1>4, <2>1, <2>2, SameSum
<1>6. gx(x) = left % Prime
  BY DEF gx, sum, s
<1> HIDE DEF left, right
<1>7. left % Prime \in Field /\ Same(left % Prime, left)
  BY <1>5, InField, SameReduced
<1> QED
  BY <1>3, <1>5, <1>6, <1>7 DEF Same

LEMMA SameDifference ==
  ASSUME NEW a \in Int, NEW b \in Int
  PROVE  Same(a, b) <=> (a - b) % Prime = 0
<1> DEFINE q == a \div Prime
           r == a % Prime
           p == b \div Prime
           s == b % Prime
           diff == a - b
<1>1. /\ q \in Int /\ p \in Int /\ r \in 0..(Prime - 1) /\ s \in 0..(Prime - 1)
      /\ a = Prime * q + r /\ b = Prime * p + s
  BY PrimeIsModulus, DivisionWithRest
<1> HIDE DEF q, r, p, s
<1>2. ASSUME r = s
      PROVE  diff % Prime = 0
  <2> DEFINE k == q - p
  <2>1. diff = 0 + Prime * k /\ diff \in Int /\ k \in Int /\ 0 \in Int
    BY <1>1, <1>2, FieldNumbers
  <2> HIDE DEF diff, k
  <2>2. diff % Prime = 0 % Prime
    BY <2>1, PrimeIsModulus, Congruent
  <2> QED
    BY <2>2, FieldNumbers
<1>3. ASSUME diff % Prime = 0
      PROVE  r = s
  <2> DEFINE k == diff \div Prime
             j == k + p - q
  <2>1. diff \in Int /\ diff = a - b
    OBVIOUS
  <2> HIDE DEF diff
  <2>2. k \in Int /\ diff = Prime * k + (diff % Prime)
    BY <2>1, PrimeIsModulus, DivisionWithRest
  <2> HIDE DEF k
  <2>3. Prime * j = r - s /\ j \in Int
    <3>1. Prime * j = Prime * k + Prime * p - Prime * q
      BY <1>1, <2>2, FieldNumbers
    <3>2. a - b = Prime * k
      BY <1>3, <2>1, <2>2, FieldNumbers
    <3> QED
      BY <1>1, <2>2, <3>1, <3>2, FieldNumbers
  <2> HIDE DEF j
  <2>4. j = 0
    BY <1>1, <2>3, PrimeIsModulus, SmallMultiple
  <2> QED
    BY <1>1, <2>3, <2>4, FieldNumbers
<1> QED
  BY <1>2, <1>3 DEF Same, r, s, diff

LEMMA Inverses ==
  ASSUME PowerLaws(Nat), CurveLaws, NEW a \in 1..(Prime - 1)
  PROVE  LET inv == Power(a, Prime - 2, Prime) IN
         inv \in Int /\ (a * inv) % Prime = 1 /\ (inv * a) % Prime = 1
<1> DEFINE e == Prime - 2
           inv == Power(a, e, Prime)
<1>1. (a * inv) % Prime = 1
  BY DEF CurveLaws
<1>2. Prime \in Nat /\ Prime > 1 /\ e \in Nat /\ a \in Nat
  BY FieldNumbers
<1>3. inv \in Int
  <2> HIDE DEF e
  <2>1. \A x \in Nat : Power(x, e, Prime) \in 0..(Prime - 1)
    BY <1>2, Exponents
  <2> QED
    BY <1>2, <2>1
<1> HIDE DEF inv
<1>4. inv * a = a * inv
  BY <1>2, <1>3
<1> QED
  BY <1>1, <1>3, <1>4 DEF inv

LEMMA Roots ==
  ASSUME PowerLaws(Nat), NEW a \in Field
  PROVE  Root(a) \in Field
<1> DEFINE e == (Prime + 1) \div 4
<1>1. Prime \in Nat /\ Prime > 1 /\ e \in Nat /\ a \in Nat
  BY FieldNumbers
<1> HIDE DEF e
<1>2. \A x \in Nat : Power(x, e, Prime) \in 0..(Prime - 1)
  BY <1>1, Exponents
<1> QED
  BY <1>1, <1>2 DEF Root, Field, e

(* No product of two numbers other than 0 is 0.                                  *)
LEMMA NoZeroDivisors ==
  ASSUME PowerLaws(Nat), CurveLaws, NEW a \in 1..(Prime - 1), NEW b \in 1..(Prime - 1)
  PROVE  (a * b) % Prime \in 1..(Prime - 1)
<1> DEFINE inv == Power(a, Prime - 2, Prime)
<1>1. a \in Int /\ b \in Int /\ inv \in Int /\ (inv * a) % Prime = 1
  BY Inverses
<1> HIDE DEF inv
<1>2. (inv * ((a * b) % Prime)) % Prime = (((inv * a) % Prime) * b) % Prime
  BY <1>1, PrimeIsModulus, ProductReduced
<1>3. 1 * b = b /\ b % Prime = b /\ b # 0
  BY FieldNumbers
<1>4. inv * 0 = 0 /\ 0 % Prime = 0
  BY <1>1, FieldNumbers
<1>5. (a * b) % Prime # 0
  BY <1>1, <1>2, <1>3, <1>4
<1>6. (a * b) % Prime \in 0..(Prime - 1)
  <2>1. a * b \in Int
    BY <1>1
  <2> QED
    BY <2>1, PrimeIsModulus, DivisionWithRest
<1> QED
  BY <1>5, <1>6

(* The first candidate: the only number with which the denominator makes the          *)
(* numerator.                                                                  *)
LEMMA DenominatorNotZero ==
  ASSUME PowerLaws(Nat), CurveLaws, NEW f \in Field
  PROVE  denominator(f) \in 1..(Prime - 1)
<1>1. CASE f = 0
  <2>1. (Z * CurveA) % Prime \in 1..(Prime - 1)
    BY FieldNumbers, NoZeroDivisors
  <2> QED
    BY <1>1, <2>1 DEF denominator
<1>2. CASE f # 0
  <2>1. f \in 1..(Prime - 1) /\ 3 \in 1..(Prime - 1) /\ Prime - CurveA = 3
    BY <1>2, FieldNumbers DEF Field
  <2>2. (f * 3) % Prime \in 1..(Prime - 1)
    BY <2>1, NoZeroDivisors
  <2> QED
    BY <1>2, <2>1, <2>2 DEF denominator
<1> QED
  BY <1>1, <1>2

IsFirst(x, f) ==
  IF f = 0 THEN (x * ((Z * CurveA) % Prime)) % Prime = CurveB
  ELSE (x * ((CurveA * f) % Prime) + CurveB * (1 + f)) % Prime = 0

LEMMA FirstByDenominator ==
  ASSUME NEW f \in Field, NEW x \in Field
  PROVE  IsFirst(x, f) <=> (x * denominator(f)) % Prime = ((f + 1) * CurveB) % Prime
<1>1. CASE f = 0
  <2>1. ((f + 1) * CurveB) % Prime = CurveB
    <3>1. (f + 1) * CurveB = CurveB /\ CurveB % Prime = CurveB
      BY <1>1, FieldNumbers DEF Field
    <3> QED
      BY <3>1
  <2> QED
    BY <1>1, <2>1 DEF IsFirst, denominator
<1>2. CASE f # 0
  <2> DEFINE D == (f * 3) % Prime
             C == (CurveA * f) % Prime
             q == (f * 3) \div Prime
             p == (CurveA * f) \div Prime
             BB == CurveB * (1 + f)
             xD == x * D
             sum == x * C + BB
             k == x * f - x * p - x * q
  <2>1. f \in Int /\ x \in Int /\ BB \in Int /\ f * 3 \in Int /\ CurveA * f \in Int
    BY FieldNumbers
  <2>2. D \in Int /\ q \in Int /\ f * 3 = Prime * q + D
    <3> DEFINE f3 == f * 3
    <3>1. f3 \in Int
      BY <2>1
    <3> HIDE DEF f3
    <3>2. f3 % Prime \in Int /\ f3 \div Prime \in Int /\ f3 = Prime * (f3 \div Prime) + (f3 % Prime)
      BY <3>1, PrimeIsModulus, DivisionWithRest
    <3> QED
      BY <3>2 DEF f3
  <2>3. C \in Int /\ p \in Int /\ CurveA * f = Prime * p + C
    <3> DEFINE Af == CurveA * f
    <3>1. Af \in Int
      BY <2>1
    <3> HIDE DEF Af
    <3>2. Af % Prime \in Int /\ Af \div Prime \in Int /\ Af = Prime * (Af \div Prime) + (Af % Prime)
      BY <3>1, PrimeIsModulus, DivisionWithRest
    <3> QED
      BY <3>2 DEF Af
  <2>4. denominator(f) = D
    BY <1>2, FieldNumbers DEF denominator
  <2> HIDE DEF D, C, q, p, BB
  <2>5. xD \in Int /\ sum \in Int /\ k \in Int
    BY <2>1, <2>2, <2>3
  <2>6. sum = (BB - xD) + Prime * k
    <3>1. C = Prime * f - 3 * f - Prime * p /\ D = 3 * f - Prime * q
      BY <2>1, <2>2, <2>3, FieldNumbers
    <3>2. x * C = x * (Prime * f) - x * (3 * f) - x * (Prime * p)
      BY <2>1, <2>3, <3>1, FieldNumbers
    <3>3. x * D = x * (3 * f) - x * (Prime * q)
      BY <2>1, <2>2, <3>1, FieldNumbers
    <3>4. Prime * k = x * (Prime * f) - x * (Prime * p) - x * (Prime * q)
      BY <2>1, <2>2, <2>3, FieldNumbers
    <3> DEFINE xPf == x * (Prime * f)
               x3f == x * (3 * f)
               xPp == x * (Prime * p)
               xPq == x * (Prime * q)
               xC == x * C
               Pk == Prime * k
    <3>5. xPf \in Int /\ x3f \in Int /\ xPp \in Int /\ xPq \in Int /\ BB \in Int
      BY <2>1, <2>2, <2>3, FieldNumbers
    <3>6. xC = xPf - x3f - xPp /\ xD = x3f - xPq /\ Pk = xPf - xPp - xPq /\ sum = xC + BB
      BY <3>2, <3>3, <3>4
    <3> HIDE DEF xPf, x3f, xPp, xPq, xC, Pk, xD, sum
    <3>7. sum = (BB - xD) + Pk
      BY <3>5, <3>6
    <3> QED
      BY <3>7 DEF Pk
  <2>7. IsFirst(x, f) <=> sum % Prime = 0
    BY <1>2 DEF IsFirst, C, BB
  <2> HIDE DEF xD, sum, k
  <2>8. BB - xD \in Int
    BY <2>1, <2>5
  <2>9. Same(sum, BB - xD)
    BY <2>5, <2>6, <2>8, SameByMultiple
  <2>10. Same(BB, xD) <=> (BB - xD) % Prime = 0
    BY <2>1, <2>5, SameDifference
  <2>11. BB = (f + 1) * CurveB
    BY <2>1, FieldNumbers DEF BB
  <2> QED
    BY <2>4, <2>7, <2>9, <2>10, <2>11 DEF Same, xD
<1> QED
  BY <1>1, <1>2

LEMMA FirstCandidate ==
  ASSUME PowerLaws(Nat), CurveLaws, NEW f \in Field
  PROVE  LET tv4 == ((f + 1) * CurveB) % Prime
             tv6 == denominator(f)
             x1 == (tv4 * Power(tv6, Prime - 2, Prime)) % Prime
         IN /\ x1 \in Field /\ IsFirst(x1, f)
            /\ \A x \in Field : IsFirst(x, f) => x = x1
<1> DEFINE tv4 == ((f + 1) * CurveB) % Prime
           tv6 == denominator(f)
           inv == Power(tv6, Prime - 2, Prime)
           x1 == (tv4 * inv) % Prime
<1>1. tv6 \in 1..(Prime - 1) /\ tv6 \in Int
  BY DenominatorNotZero
<1>2. inv \in Int /\ (tv6 * inv) % Prime = 1 /\ (inv * tv6) % Prime = 1
  <2> HIDE DEF tv6
  <2> QED
    BY <1>1, Inverses
<1>3. tv4 \in Field /\ tv4 \in Int
  <2> DEFINE fB == (f + 1) * CurveB
  <2>1. fB \in Int
    BY FieldNumbers
  <2> HIDE DEF fB
  <2>2. fB % Prime \in Field /\ fB % Prime \in Int
    BY <2>1, InField
  <2> QED
    BY <2>2 DEF fB
<1> HIDE DEF tv4, tv6, inv
<1>4. x1 \in Field
  <2> DEFINE product == tv4 * inv
  <2>1. product \in Int
    BY <1>2, <1>3
  <2> HIDE DEF product
  <2>2. product % Prime \in Field
    BY <2>1, InField
  <2> QED
    BY <2>2 DEF product
<1>5. (x1 * tv6) % Prime = tv4
  <2>1. (tv4 * ((inv * tv6) % Prime)) % Prime = (((tv4 * inv) % Prime) * tv6) % Prime
    BY <1>1, <1>2, <1>3, PrimeIsModulus, ProductReduced
  <2>2. tv4 * 1 = tv4 /\ tv4 % Prime = tv4
    BY <1>3, FieldNumbers DEF Field
  <2> QED
    BY <1>2, <2>1, <2>2
<1> HIDE DEF x1
<1>6. IsFirst(x1, f)
  BY <1>4, <1>5, FirstByDenominator DEF tv4, tv6
<1>7. ASSUME NEW x \in Field, IsFirst(x, f)
      PROVE  x = x1
  <2>1. (x * tv6) % Prime = tv4
    BY <1>7, FirstByDenominator DEF tv4, tv6
  <2>2. x \in 0..(Prime - 1) /\ x1 \in 0..(Prime - 1) /\ (x * tv6) % Prime = (x1 * tv6) % Prime
    BY <1>4, <1>5, <2>1 DEF Field
  <2>3. inv \in Int /\ tv6 \in Int /\ (inv * tv6) % Prime = 1 /\ Prime \in Nat \ {0}
    BY <1>1, <1>2, PrimeIsModulus
  <2>4. Cancels(tv6, Prime)
    BY <2>3, InvertibleCancelled
  <2> QED
    BY <2>2, <2>4, Zenon DEF Cancels
<1> QED
  BY <1>4, <1>6, <1>7 DEF x1, tv4, tv6, inv

LEMMA ResiduesKeepSquares ==
  ASSUME NEW a \in Int
  PROVE  a % Prime \in Field /\ Square(a % Prime) \in Field /\ Same(Square(a % Prime), a * a)
<1> DEFINE r == a % Prime
<1>1. r \in Field /\ r \in Int /\ Same(r, a)
  BY InField, SameReduced
<1> HIDE DEF r
<1>2. Square(r) \in Field /\ Same(Square(r), r * r)
  BY <1>1, SquareSame
<1>3. Same(r * r, a * a)
  BY <1>1, SameProduct
<1> QED
  BY <1>1, <1>2, <1>3 DEF Same, r

(* The other root has the other parity.                                        *)
LEMMA OppositeRoot ==
  ASSUME NEW r \in 1..(Prime - 1)
  PROVE  /\ Prime - r \in Field
         /\ Square(Prime - r) = Square(r)
         /\ (Prime - r) % 2 # r % 2
<1> DEFINE o == Prime - r
           k == Prime - 2 * r
           oo == o * o
           rr == r * r
<1>1. Prime \in Nat /\ Prime % 12 = 11 /\ r \in Int /\ r \in Field
  BY CryptoAssumption DEF VoprfAssumption, HashToCurveAssumption, Field
<1>2. o \in Field /\ o \in Int /\ k \in Int
  BY <1>1 DEF Field
<1>3. oo = rr + Prime * k /\ oo \in Int /\ rr \in Int
  BY <1>1
<1>4. o % 2 # r % 2
  BY <1>1
<1> HIDE DEF o, k, oo, rr
<1>5. Same(oo, rr)
  BY <1>2, <1>3, SameByMultiple
<1> QED
  BY <1>2, <1>4, <1>5 DEF Same, Square, o, oo, rr

LEMMA PointOver ==
  ASSUME PowerLaws(Nat), CurveLaws, NEW u \in Field, NEW x \in Field,
         NEW y \in Field, Square(y) = gx(x)
  PROVE  LET point == point_over(u, x) IN
         /\ point # NoPoint /\ point[1] = x
         /\ OnCurve(point[1], point[2]) /\ point[2] % 2 = u % 2
<1> DEFINE r == Root(gx(x))
           w == with_sign_of(u, r)
<1>1. gx(x) \in Field /\ gx(x) # 0
  BY CurvePolynomial, FieldNumbers DEF CurveLaws
<1>2. r \in Field /\ Square(r) = gx(x)
  BY <1>1, Roots DEF CurveLaws
<1> HIDE DEF r
<1>3. r # 0
  <2>1. Square(0) = 0
    BY FieldNumbers DEF Square
  <2> QED
    BY <1>1, <1>2, <2>1
<1>4. r \in 1..(Prime - 1) /\ r \in Int
  BY <1>2, <1>3, FieldNumbers DEF Field
<1>5. /\ Prime - r \in Field
      /\ Square(Prime - r) = Square(r)
      /\ (Prime - r) % 2 # r % 2
  BY <1>4, OppositeRoot
<1>6. w \in Field /\ Square(w) = gx(x)
  BY <1>2, <1>5 DEF with_sign_of
<1>7. w % 2 = u % 2
  <2>1. CASE u % 2 = r % 2
    BY <2>1 DEF with_sign_of
  <2>2. CASE u % 2 # r % 2
    <3>1. /\ u % 2 \in {0, 1} /\ r % 2 \in {0, 1} /\ (Prime - r) % 2 \in {0, 1}
      <4>1. u \in Int /\ r \in Int /\ Prime - r \in Int
        BY <1>4, FieldNumbers
      <4> QED
        BY <4>1
    <3> QED
      BY <1>5, <2>2, <3>1 DEF with_sign_of
  <2> QED
    BY <2>1, <2>2
<1> HIDE DEF w
<1>8. OnCurve(x, w)
  BY <1>6 DEF OnCurve
<1>9. point_over(u, x) = <<x, w>>
  BY <1>8 DEF point_over, affine, w, r
<1> QED
  BY <1>7, <1>8, <1>9 DEF NoPoint

LEMMA PolynomialSame ==
  ASSUME NEW a \in Int, NEW b \in Int, Same(a, b)
  PROVE  Same(a * a * a + CurveA * a + CurveB, b * b * b + CurveA * b + CurveB)
<1> DEFINE aa == a * a
           bb == b * b
           aaa == aa * a
           bbb == bb * b
           Aa == CurveA * a
           Ab == CurveA * b
           left == aaa + Aa
           right == bbb + Ab
<1>1. CurveA \in Int /\ CurveB \in Int /\ Same(CurveA, CurveA) /\ Same(CurveB, CurveB)
  BY FieldNumbers DEF Same
<1>2. Same(aa, bb) /\ aa \in Int /\ bb \in Int
  BY SameProduct
<1>3. Same(Aa, Ab) /\ Aa \in Int /\ Ab \in Int
  BY <1>1, SameProduct
<1> HIDE DEF aa, bb, Aa, Ab
<1>4. Same(aaa, bbb) /\ aaa \in Int /\ bbb \in Int
  BY <1>2, SameProduct
<1> HIDE DEF aaa, bbb
<1>5. Same(left, right) /\ left \in Int /\ right \in Int
  BY <1>3, <1>4, SameSum
<1> HIDE DEF left, right
<1>6. Same(left + CurveB, right + CurveB)
  BY <1>1, <1>5, SameSum
<1> QED
  BY <1>6 DEF left, right, aaa, bbb, aa, bb, Aa, Ab

(* With the first candidate, the polynomial of the second is that of the first times  *)
(* the cube of the factor between them.                                         *)
LEMMA CubeBetweenCandidates ==
  ASSUME NEW t \in Int, NEW x \in Int, NEW g \in Int, NEW h \in Int,
         Same(g, x * x * x + CurveA * x + CurveB),
         Same(h, (t * x) * (t * x) * (t * x) + CurveA * (t * x) + CurveB),
         Same(x * (CurveA * (t * t + t)) + CurveB * (1 + (t * t + t)), 0)
  PROVE  Same(t * t * t * g, h)
<1> DEFINE ttt == t * t * t
           P == x * x * x + CurveA * x + CurveB
           Q == (t * x) * (t * x) * (t * x) + CurveA * (t * x) + CurveB
           N == x * (CurveA * (t * t + t)) + CurveB * (1 + (t * t + t))
           t1 == t - 1
           tP == ttt * P
           tN == t1 * N
<1>1. CurveA \in Int /\ CurveB \in Int
  BY FieldNumbers
<1>2. tP = Q + tN
  BY <1>1
<1>3. ttt \in Int /\ P \in Int /\ Q \in Int /\ N \in Int /\ t1 \in Int
  BY <1>1
<1> HIDE DEF ttt, P, Q, N, t1
<1>4. Same(g, P) /\ Same(h, Q) /\ Same(N, 0)
  BY DEF P, Q, N
<1>5. Same(ttt, ttt) /\ Same(t1, t1) /\ Same(Q, Q)
  BY DEF Same
<1>6. Same(ttt * g, tP) /\ tP \in Int
  BY <1>3, <1>4, <1>5, SameProduct
<1>7. Same(tN, t1 * 0) /\ tN \in Int /\ t1 * 0 \in Int
  BY <1>3, <1>4, <1>5, SameProduct
<1>8. t1 * 0 = 0
  BY <1>3
<1> HIDE DEF tP, tN
<1>9. Same(Q + tN, Q + 0)
  BY <1>3, <1>5, <1>7, <1>8, SameSum
<1>10. Q + 0 = Q
  BY <1>3
<1>11. Same(ttt * g, h)
  BY <1>2, <1>4, <1>6, <1>9, <1>10 DEF Same
<1> QED
  BY <1>11 DEF ttt

(* The factor between the candidates, and what stands for the denominator.           *)
factor(u) == (Z * Square(u)) % Prime
exceptional(u) == (Square(factor(u)) + factor(u)) % Prime

LEMMA FactorsInField ==
  ASSUME NEW u \in Field
  PROVE  /\ factor(u) \in Field /\ Same(factor(u), Z * (u * u))
         /\ exceptional(u) \in Field
         /\ Same(exceptional(u), factor(u) * factor(u) + factor(u))
<1> DEFINE s == Square(u)
           uu == u * u
           Zs == Z * s
           t == factor(u)
           tt == t * t
           tS == Square(t)
           sum == tS + t
<1>1. u \in Int /\ Z \in Int /\ Field \subseteq Int
  BY FieldNumbers
<1>2. s \in Field /\ Same(s, uu) /\ uu \in Int
  BY <1>1, SquareSame
<1> HIDE DEF s, uu
<1>3. Zs \in Int /\ Same(Zs, Z * uu)
  <2>1. Same(Z, Z) /\ s \in Int
    BY <1>1, <1>2 DEF Same
  <2> QED
    BY <1>1, <1>2, <2>1, SameProduct
<1>4. t = Zs % Prime
  BY DEF factor, s
<1> HIDE DEF Zs, t
<1>5. t \in Field /\ t \in Int /\ Same(t, Zs)
  BY <1>3, <1>4, InField, SameReduced
<1>6. Square(t) \in Field /\ Square(t) \in Int /\ Same(Square(t), tt) /\ tt \in Int
  <2>1. Square(t) \in Field /\ Same(Square(t), tt)
    BY <1>5, SquareSame
  <2>2. tt \in Int
    BY <1>5
  <2> QED
    BY <1>1, <2>1, <2>2
<1> HIDE DEF tt
<1>7. sum \in Int /\ Same(sum, tt + t)
  <2>1. Same(t, t)
    BY DEF Same
  <2>2. tS \in Int /\ Same(tS, tt)
    BY <1>6
  <2> HIDE DEF tS
  <2> QED
    BY <1>5, <1>6, <2>1, <2>2, SameSum
<1>8. exceptional(u) = sum % Prime
  BY DEF exceptional, t
<1> HIDE DEF sum
<1>9. exceptional(u) \in Field /\ Same(exceptional(u), sum)
  BY <1>7, <1>8, InField, SameReduced
<1> QED
  BY <1>3, <1>5, <1>7, <1>9 DEF Same, t, tt, uu

(* What makes a number the first candidate, without the reductions.                  *)
LEMMA FirstNumerator ==
  ASSUME NEW t \in Field, NEW f \in Field, NEW x \in Field,
         Same(f, t * t + t), f # 0, IsFirst(x, f)
  PROVE  Same(x * (CurveA * (t * t + t)) + CurveB * (1 + (t * t + t)), 0)
<1> DEFINE e == t * t + t
           Af == CurveA * f
           Ae == CurveA * e
           C == Af % Prime
           left == x * C
           right == x * Ae
           f1 == CurveB * (1 + f)
           e1 == CurveB * (1 + e)
<1>1. t \in Int /\ f \in Int /\ x \in Int /\ CurveA \in Int /\ CurveB \in Int
  BY FieldNumbers
<1>2. e \in Int /\ Same(f, e)
  BY <1>1
<1> HIDE DEF e
<1>3. Same(CurveA, CurveA) /\ Same(CurveB, CurveB) /\ Same(x, x) /\ Same(1, 1)
  BY DEF Same
<1>4. Same(Af, Ae) /\ Af \in Int /\ Ae \in Int
  BY <1>1, <1>2, <1>3, SameProduct
<1> HIDE DEF Af, Ae
<1>5. C \in Int /\ Same(C, Ae)
  BY <1>4, InField, SameReduced DEF Same
<1> HIDE DEF C
<1>6. Same(left, right) /\ left \in Int /\ right \in Int
  BY <1>1, <1>3, <1>4, <1>5, SameProduct
<1>7. Same(f1, e1) /\ f1 \in Int /\ e1 \in Int
  <2> DEFINE fp == 1 + f
             ep == 1 + e
  <2>1. Same(fp, ep) /\ fp \in Int /\ ep \in Int
    BY <1>1, <1>2, <1>3, SameSum
  <2> HIDE DEF fp, ep
  <2>2. Same(CurveB * fp, CurveB * ep) /\ CurveB * fp \in Int /\ CurveB * ep \in Int
    BY <1>1, <1>3, <2>1, SameProduct
  <2> QED
    BY <2>2 DEF fp, ep
<1>8. (left + f1) % Prime = 0
  BY DEF IsFirst, left, C, Af, f1
<1> HIDE DEF left, right, f1, e1
<1>9. Same(left + f1, right + e1)
  BY <1>6, <1>7, SameSum
<1>10. 0 % Prime = 0
  BY FieldNumbers
<1>11. Same(right + e1, 0)
  BY <1>8, <1>9, <1>10 DEF Same
<1> QED
  BY <1>11 DEF right, Ae, e1, e

(* Where the first candidate is on no point, the second is on one.                  *)
LEMMA SecondCandidate ==
  ASSUME CurveLaws, NEW u \in Field, NEW x \in Field, IsFirst(x, exceptional(u)),
         ~ \E y \in Field : Square(y) = gx(x)
  PROVE  \E y \in Field : Square(y) = gx((factor(u) * x) % Prime)
<1> DEFINE t == factor(u)
           f == exceptional(u)
           tx == t * x
           x2 == tx % Prime
           g == gx(x)
           h == gx(x2)
<1>1. t \in Field /\ Same(t, Z * (u * u)) /\ f \in Field /\ Same(f, t * t + t)
  BY FactorsInField
<1>2. f # 0
  <2>1. ASSUME f = 0
        PROVE  FALSE
    <3>1. (x * ((Z * CurveA) % Prime)) % Prime = CurveB
      BY <2>1 DEF IsFirst
    <3>2. PICK y \in Field : OnCurve(x, y)
      BY <3>1 DEF CurveLaws
    <3> QED
      BY <3>2 DEF OnCurve
  <2> QED
    BY <2>1
<1> HIDE DEF t, f
<1>3. t \in Int /\ x \in Int /\ u \in Int /\ Z \in Int /\ Field \subseteq Int
      /\ CurveA \in Int /\ CurveB \in Int
  BY <1>1, FieldNumbers
<1>4. g \in Field /\ g \in Int /\ Same(g, x * x * x + CurveA * x + CurveB)
  BY <1>3, CurvePolynomial
<1>5. h \in Field /\ h \in Int /\ Same(h, tx * tx * tx + CurveA * tx + CurveB)
  <2>1. tx \in Int
    BY <1>3
  <2> HIDE DEF tx
  <2>2. x2 \in Field /\ x2 \in Int /\ Same(x2, tx)
    BY <2>1, InField, SameReduced
  <2> HIDE DEF x2
  <2>3. h \in Field /\ h \in Int /\ Same(h, x2 * x2 * x2 + CurveA * x2 + CurveB)
    BY <1>3, <2>2, CurvePolynomial
  <2>4. Same(x2 * x2 * x2 + CurveA * x2 + CurveB, tx * tx * tx + CurveA * tx + CurveB)
    BY <2>1, <2>2, PolynomialSame
  <2> QED
    BY <2>3, <2>4 DEF Same
<1> HIDE DEF g, h
<1>6. Same(t * t * t * g, h)
  <2>1. Same(x * (CurveA * (t * t + t)) + CurveB * (1 + (t * t + t)), 0)
    BY <1>1, <1>2, FirstNumerator DEF f
  <2> QED
    BY <1>3, <1>4, <1>5, <2>1, CubeBetweenCandidates
<1>7. PICK y \in Field : Square(y) = (Z * g) % Prime
  BY <1>4 DEF CurveLaws, g
<1> DEFINE Zg == Z * g
           yy == y * y
           Zuu == Z * (u * u)
           w == (Zuu * u) * y
           cube == Zuu * Zuu * Zuu
           uy == Zuu * Zuu * (u * u)
<1>8. y \in Int /\ Zg \in Int /\ yy \in Int /\ Zuu \in Int /\ w \in Int /\ cube \in Int /\ uy \in Int
  BY <1>3, <1>4
<1>9. Same(yy, Zg)
  <2>1. Same(Square(y), yy)
    BY <1>8, SquareSame
  <2> HIDE DEF Zg, yy
  <2>2. Same(Zg % Prime, Zg) /\ Square(y) = Zg % Prime
    BY <1>7, <1>8, SameReduced DEF Zg
  <2> QED
    BY <2>1, <2>2 DEF Same
<1>10. w * w = uy * yy /\ uy * Zg = cube * g
  BY <1>3, <1>4, <1>8
<1>11. Same(t * t * t, cube) /\ t * t * t \in Int
  <2>0. Same(t, Zuu)
    BY <1>1
  <2> HIDE DEF Zuu
  <2> DEFINE tt == t * t
             ZZ == Zuu * Zuu
  <2>1. Same(tt, ZZ) /\ tt \in Int /\ ZZ \in Int
    BY <1>3, <1>8, <2>0, SameProduct
  <2> HIDE DEF tt, ZZ
  <2>2. Same(tt * t, ZZ * Zuu) /\ tt * t \in Int
    BY <1>3, <1>8, <2>0, <2>1, SameProduct
  <2> QED
    BY <2>2 DEF tt, ZZ
<1> HIDE DEF Zg, yy, cube, uy, w, Zuu
<1> DEFINE ttt == t * t * t
<1> HIDE DEF ttt
<1>12. Same(w * w, uy * Zg)
  <2>1. Same(uy, uy)
    BY DEF Same
  <2> QED
    BY <1>8, <1>9, <1>10, <2>1, SameProduct
<1>13. Same(cube * g, ttt * g)
  <2>1. Same(g, g) /\ Same(cube, ttt)
    BY <1>11 DEF Same, ttt
  <2> QED
    BY <1>4, <1>8, <1>11, <2>1, SameProduct DEF ttt
<1>14. /\ w % Prime \in Field /\ Square(w % Prime) \in Field
       /\ Same(Square(w % Prime), w * w)
  BY <1>8, ResiduesKeepSquares
<1>15. Same(Square(w % Prime), h)
  BY <1>6, <1>10, <1>12, <1>13, <1>14 DEF Same, ttt
<1>16. Square(w % Prime) = h
  BY <1>5, <1>14, <1>15, SameInField
<1> QED
  BY <1>14, <1>16 DEF h, x2, tx, t

(* Which of the candidates is taken.                                              *)
LEMMA ChosenIsOnTheCurve ==
  ASSUME PowerLaws(Nat), CurveLaws, NEW u \in Field, NEW x \in Field, IsFirst(x, exceptional(u))
  PROVE  LET chosen == chosen_x(factor(u), x) IN
         /\ chosen = IF \E y \in Field : OnCurve(x, y) THEN x ELSE (factor(u) * x) % Prime
         /\ chosen \in Field
         /\ \E y \in Field : Square(y) = gx(chosen)
<1>1. gx(x) \in Field
  BY CurvePolynomial, FieldNumbers
<1>2. Root(gx(x)) \in Field
  BY <1>1, Roots
<1>3. (factor(u) * x) % Prime \in Field
  <2> DEFINE product == factor(u) * x
  <2>1. product \in Int
    <3> DEFINE t == factor(u)
    <3>1. t \in Field
      BY FactorsInField
    <3>2. t \in Int /\ x \in Int
      BY <3>1, FieldNumbers
    <3> HIDE DEF t
    <3> QED
      BY <3>2 DEF t
  <2> HIDE DEF product
  <2>2. product % Prime \in Field
    BY <2>1, InField
  <2> QED
    BY <2>2 DEF product
<1>4. CASE Square(Root(gx(x))) = gx(x)
  BY <1>2, <1>4 DEF chosen_x, OnCurve
<1>5. CASE Square(Root(gx(x))) # gx(x)
  <2>1. ~ \E y \in Field : Square(y) = gx(x)
    BY <1>5 DEF CurveLaws
  <2>2. \E y \in Field : Square(y) = gx((factor(u) * x) % Prime)
    BY <2>1, SecondCandidate
  <2> QED
    BY <1>3, <1>5, <2>1, <2>2 DEF chosen_x, OnCurve
<1> QED
  BY <1>4, <1>5

(* What MapFollowsDefinition says of one element.                                  *)
Mapped(u) ==
  LET point == map_to_curve_sswu(u)
      zu2 == (Z * Square(u)) % Prime
      f == (Square(zu2) + zu2) % Prime
      first == CHOOSE x \in Field :
        IF f = 0 THEN (x * ((Z * CurveA) % Prime)) % Prime = CurveB
        ELSE (x * ((CurveA * f) % Prime) + CurveB * (1 + f)) % Prime = 0
      on_curve(x) == \E y \in Field : OnCurve(x, y)
  IN /\ point # NoPoint
     /\ point[1] = IF on_curve(first) THEN first ELSE (zu2 * first) % Prime
     /\ OnCurve(point[1], point[2])
     /\ point[2] % 2 = u % 2

LEMMA ElementMapped ==
  ASSUME PowerLaws(Nat), CurveLaws, NEW u \in Field
  PROVE  Mapped(u)
<1> DEFINE t == factor(u)
           f == exceptional(u)
           tv4 == ((f + 1) * CurveB) % Prime
           tv6 == denominator(f)
           x1 == (tv4 * Power(tv6, Prime - 2, Prime)) % Prime
           first == CHOOSE x \in Field :
             IF f = 0 THEN (x * ((Z * CurveA) % Prime)) % Prime = CurveB
             ELSE (x * ((CurveA * f) % Prime) + CurveB * (1 + f)) % Prime = 0
           chosen == chosen_x(t, x1)
           point == map_to_curve_sswu(u)
<1>1. f \in Field
  BY FactorsInField
<1>2. x1 \in Field /\ IsFirst(x1, f) /\ \A x \in Field : IsFirst(x, f) => x = x1
  <2> HIDE DEF f
  <2> QED
    BY <1>1, FirstCandidate
<1>3. tv6 # 0
  <2> HIDE DEF f
  <2>1. tv6 \in 1..(Prime - 1)
    BY <1>1, DenominatorNotZero
  <2> QED
    BY <2>1, FieldNumbers
<1>4. point = point_over(u, chosen)
  BY <1>3 DEF map_to_curve_sswu, factor, exceptional
<1> HIDE DEF x1
<1>5. first = x1
  <2> HIDE DEF f
  <2>1. first = CHOOSE x \in Field : IsFirst(x, f)
    BY DEF IsFirst
  <2>2. (CHOOSE x \in Field : IsFirst(x, f)) \in Field
        /\ IsFirst(CHOOSE x \in Field : IsFirst(x, f), f)
    BY <1>2
  <2> HIDE DEF first
  <2> QED
    BY <1>2, <2>1, <2>2
<1>6. /\ chosen = IF \E y \in Field : OnCurve(x1, y) THEN x1 ELSE (t * x1) % Prime
      /\ chosen \in Field
      /\ \E y \in Field : Square(y) = gx(chosen)
  BY <1>2, ChosenIsOnTheCurve
<1> HIDE DEF chosen, first
<1>7. /\ point # NoPoint /\ point[1] = chosen
      /\ OnCurve(point[1], point[2]) /\ point[2] % 2 = u % 2
  BY <1>4, <1>6, PointOver
<1> HIDE DEF point
<1> QED
  BY <1>5, <1>6, <1>7 DEF Mapped, factor, exceptional, point, first, t, f

(* map_to_curve_sswu puts every element where RFC 9380 puts it, for every curve of     *)
(* the shape of P-384's: neither of its two inversions nor the square root fails.      *)
THEOREM MapIsTheDefined ==
  ASSUME PowerLaws(Nat), HashesToNumbers(Seq(Nat)), InversesByFermat, CurveLaws
  PROVE  Spec => []MapFollowsDefinition
<1>1. IInv => MapFollowsDefinition
  <2> SUFFICES ASSUME IInv, NEW s \in Session, session[s].scheme = VOPRF, NEW i \in 1..2
               PROVE  Mapped(session[s].input[i])
    BY DEF MapFollowsDefinition, Mapped
  <2>1. session[s].input \in Inputs(s, VOPRF)
    BY DEF IInv, SessionsOK, CallOK, Sessions
  <2>2. session[s].input \in Field \X Field
    BY <2>1, CryptoAssumption
  <2>3. session[s].input[i] \in Field
    BY <2>2
  <2> QED
    BY <2>3, ElementMapped
<1> QED
  BY <1>1, Invariance, PTL
===============================================================================
