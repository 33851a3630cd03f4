------------------------------ MODULE MCIssuance ------------------------------
(* Model checking of Issuance: two RSA keys and a VOPRF key whose ids all end  *)
(* in one byte.  The modulus of k2 is the larger: a message blinded for k2      *)
(* with the nonce n2 fits no other key.                                      *)
EXTENDS Issuance

CONSTANTS c1, c2, k1, k2, v1, n1, n2

KindOf == [k \in Key |-> IF k = v1 THEN "VOPRF" ELSE "RSA"]
OneByte == [k \in Key |-> 1]

Asks(type, digest) ==
  [token_type |-> type, issuer_name |-> issuer, digest |-> digest, origin_info |-> {}]
Challenges == {Asks("BLIND_RSA", c1), Asks("VOPRF_P384_SHA384", c2)}

BlindedInputs ==
  [token_type : {"BLIND_RSA", "VOPRF_P384_SHA384"}, nonce : Nonce,
   challenge_digest : Challenge, token_key_id : Key]
Fits ==
  [ctx \in BlindedInputs |->
     IF ctx.token_key_id = v1 THEN {v1}
     ELSE IF ctx.token_key_id = k2 /\ ctx.nonce = n2 THEN {k2}
     ELSE {k1, k2}]
=============================================================================
