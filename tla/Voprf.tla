--------------------------------- MODULE Voprf ---------------------------------
(***************************************************************************)
(* The verifiable oblivious pseudorandom function of src/src/crypto/voprf.cpp. *)
(* A point is its discrete logarithm, so that a multiple of a point is a      *)
(* product modulo Order and infinity is 0 (OpenSSL's group, external); every   *)
(* point that hashing reaches has a number of its own.  A hash is a number     *)
(* that depends on the numbers hashed and their order.                        *)
(***************************************************************************)
EXTENDS HashToCurve, Sequences

CONSTANTS
  Order,            (* the number of points, a prime                         *)
  Digest(_)         (* SHA-384 and expand_message_xmd, of a sequence          *)

Scalar == 0..(Order - 1)
VoprfAssumption ==
  /\ HashToCurveAssumption
  /\ Order \in Nat /\ Order > Prime * Prime + 1
  /\ \A divisor \in 2..(Order - 1) : Order % divisor # 0

(* Laws of the parameters, for the proofs.                                      *)
HashesToNumbers(S) == \A data \in S : Digest(data) \in Nat
InversesByFermat == \A r \in 1..(Order - 1) : (Power(r, Order - 2, Order) * r) % Order = 1

(* A message is the two field elements that expand_message_xmd makes of it.     *)
sum_of_points(p, q) ==
  LET log(point) == 1 + point[1] * Prime + point[2]
  IN IF NoPoint \in {p, q} THEN {} ELSE {(log(p) + log(q)) % Order}

hash_to_curve(input) == sum_of_points(map_to_curve_sswu(input[1]), map_to_curve_sswu(input[2]))

(* bytes_to_point accepts an encoded point other than infinity.                 *)
bytes_to_point(element) == element \in 1..(Order - 1)

hash_to_scalar(transcript) == Digest(transcript) % Order

(* The transcripts: the code's domain separators are the last numbers.  The       *)
(* challenge hashes the points that it is given: the key, M, Z, t2 and t3.        *)
compute_composite_scalar(B, C, D) == hash_to_scalar(<<Digest(<<B, 1>>), 0, C, D, 2>>)
compute_dleq_challenge(points) == hash_to_scalar(Append(points, 3))

(* compute_composites: with one evaluated element, a multiple of each point.    *)
compute_composites(B, C, D) ==
  LET d == compute_composite_scalar(B, C, D) IN [M |-> (d * C) % Order, Z |-> (d * D) % Order]

(* s = t - c k.  The variants leave it unreduced, and add.                        *)
ResponseUnreduced(t, c, k) == t - ((c * k) % Order)
ResponseAdded(t, c, k) == (t + ((c * k) % Order)) % Order
dleq_response(t, c, k) == (t + Order - ((c * k) % Order)) % Order

(* generate_dleq_proof with the random scalar t, which is not zero: the public   *)
(* key k * G has logarithm k, and the commitments are t G and t M.               *)
committed(k, R, ZR, t) ==
  LET composite == compute_composites(k, R, ZR)
  IN <<k, composite.M, composite.Z, t, (t * composite.M) % Order>>

generate_dleq_proof(k, R, ZR, t) ==
  LET c == compute_dleq_challenge(committed(k, R, ZR, t)) IN <<c, dleq_response(t, c, k)>>

(* The variant takes scalars that are not reduced, whose points are the same.     *)
AnyScalars(proof) == TRUE
scalars_in_range(proof) == proof[1] < Order /\ proof[2] < Order

(* verify_dleq_proof: the commitments are recomputed from the proof; c must be    *)
(* the challenge of them.                                                      *)
recomputed(Y, R, ZR, proof) ==
  LET composite == compute_composites(Y, R, ZR)
      c == proof[1]
      s == proof[2] % Order
  IN <<Y, composite.M, composite.Z, (s + ((c * Y) % Order)) % Order,
       (((s * composite.M) % Order) + ((c * composite.Z) % Order)) % Order>>

verify_dleq_proof(Y, R, ZR, proof) ==
  /\ scalars_in_range(proof)
  /\ proof[1] = compute_dleq_challenge(recomputed(Y, R, ZR, proof))

(* VoprfPrivateKey::from_bytes accepts a reduced scalar that is not zero.        *)
private_key_from_bytes(k) == 0 < k /\ k < Order

finalize_output(input, issued_element) == Digest(<<input[1], input[2], issued_element, 4>>)

(* VoprfClient::blind with the random scalar r: no result when r is zero.         *)
voprf_blind(input, r) ==
  {[secret |-> r, blinded |-> (r * h) % Order] : h \in IF r = 0 THEN {} ELSE hash_to_curve(input)}

(* VoprfServer::blind_evaluate.                                                *)
blind_evaluate(k, R, t) ==
  IF ~bytes_to_point(R) THEN {}
  ELSE LET ZR == (k * R) % Order
       IN {[element |-> ZR, proof |-> generate_dleq_proof(k, R, ZR, t)]}

(* The factor that takes the blind away (BN_mod_inverse, by Fermat).  The        *)
(* variant multiplies by the blind once more.                                  *)
BlindAgain(r) == r
unblinding(r) == Power(r, Order - 2, Order)

(* VoprfClient::finalize: no output unless the proof holds.                       *)
voprf_finalize(input, session, answer, Y) ==
  IF /\ bytes_to_point(answer.element) /\ bytes_to_point(session.blinded)
     /\ verify_dleq_proof(Y, session.blinded, answer.element, answer.proof)
  THEN {finalize_output(input, (answer.element * unblinding(session.secret)) % Order)}
  ELSE {}

(* VoprfServer::verify_finalize.                                               *)
verify_finalize(k, input, output) ==
  \E h \in hash_to_curve(input) : output = finalize_output(input, (k * h) % Order)
=============================================================================
