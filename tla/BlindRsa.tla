------------------------------- MODULE BlindRsa -------------------------------
(***************************************************************************)
(* Blind RSA of src/src/crypto/blind_rsa.cpp, with small moduli.  A key is a   *)
(* record of modulus n, public exponent e and private exponent d; BIGNUM and   *)
(* Montgomery arithmetic (OpenSSL) is % n.  EMSA-PSS is Encoded, a number      *)
(* below the modulus that depends on the message and a random salt.           *)
(***************************************************************************)
EXTENDS HashToCurve

CONSTANTS Salt, Encoded(_, _)

(* A key that can decrypt what its public half encrypted.                      *)
KeyPair(key) ==
  /\ key.n > 1 /\ key.e > 0
  /\ \A x \in 0..(key.n - 1) : Power(Power(x, key.d, key.n), key.e, key.n) = x

in_range(x, n) == x # 0 /\ x < n

(* BlindRsaPublicKey::verify: the library compares with the encoding under the    *)
(* salt that it finds in the signature (external).                             *)
rsa_verify(key, msg, signature) ==
  /\ signature < key.n
  /\ \E salt \in Salt : Power(signature, key.e, key.n) = Encoded(msg, salt)

(* BlindRsaPublicKey::blind with the random number r: it is drawn again while it  *)
(* has no inverse.                                                              *)
rsa_blind(key, msg, r, salt) ==
  {[secret |-> r_inv, blinded |-> (Encoded(msg, salt) * Power(r, key.e, key.n)) % key.n] :
     r_inv \in {x \in 1..(key.n - 1) : (x * r) % key.n = 1}}

(* BlindRsaPrivateKey::blind_sign.                                              *)
blind_sign(key, blinded_msg) ==
  IF in_range(blinded_msg, key.n) THEN {Power(blinded_msg, key.d, key.n)} ELSE {}

(* BlindRsaPublicKey::finalize.  An inverse of another length than the modulus's,  *)
(* as a cleared one is, is refused, and so is a number out of range.  Past these   *)
(* checks the inverse is cleared, whether or not the signature then verifies.     *)
Cleared == 0
unblinds(key, session, z) == session.secret # Cleared /\ in_range(z, key.n)
signature(key, session, z) == (z * session.secret) % key.n

(* The variant gives the signature out unverified.                              *)
Unverified(key, msg, session, z) ==
  IF unblinds(key, session, z) THEN {signature(key, session, z)} ELSE {}
rsa_finalize(key, msg, session, z) ==
  {s \in Unverified(key, msg, session, z) : rsa_verify(key, msg, s)}
=============================================================================
