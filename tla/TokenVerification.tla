-------------------------- MODULE TokenVerification --------------------------
(***************************************************************************)
(* What the library checks of a presented token, and in which order:        *)
(* Token::validate (src/core/token.cpp), PublicOrigin::verify,               *)
(* Origin::verify and PrivateOrigin::validate_structure                      *)
(* (src/core/origin.cpp), PrivateIssuer::verify (src/core/issuer.cpp).  The   *)
(* operators are pure; the modules of the origins and of the authenticator   *)
(* use them in their steps.                                                  *)
(*                                                                         *)
(* A token is a record.  A challenge stands for its own SHA-256 digest, and  *)
(* an issuer key for its own 32-byte key id: two challenges with one digest  *)
(* or two keys with one id are not modelled.  An authenticator records which *)
(* key signed which input, and whether its length is the one of its type.    *)
(***************************************************************************)
EXTENDS FiniteSets

CONSTANTS
  Nonce,
  Challenge,        (* challenges that can be serialised, hence digested     *)
  Key,              (* issuer keys                                           *)
  Undigestible      (* a challenge whose serialisation fails                 *)

RsaTypes == {"BLIND_RSA", "PARTIALLY_BLIND_RSA"}
VoprfTypes == {"VOPRF_P384_SHA384", "VOPRF_RISTRETTO255_SHA512"}

(* The types for which TokenTypeInfo has an authenticator size.             *)
SizedTypes == RsaTypes \cup VoprfTypes \cup {"ARC_P256"}

Inputs ==
  [token_type : SizedTypes \cup {"UNKNOWN"}, nonce : Nonce,
   challenge_digest : Challenge, token_key_id : Key]

Tokens ==
  [token_type : SizedTypes \cup {"UNKNOWN"}, nonce : Nonce,
   challenge_digest : Challenge, token_key_id : Key,
   authenticator : [right_size : BOOLEAN, signer : Key, signed : Inputs]]

Expected == Challenge \cup {Undigestible}

(* Token::authenticator_input: everything but the authenticator is signed.  *)
authenticator_input(token) ==
  [token_type |-> token.token_type, nonce |-> token.nonce,
   challenge_digest |-> token.challenge_digest, token_key_id |-> token.token_key_id]

(* Signature verification under one key (OpenSSL's RSA-PSS, external).       *)
verifies(key, token) ==
  /\ token.authenticator.signer = key
  /\ token.authenticator.signed = authenticator_input(token)

(* Token::validate.                                                          *)
validate(token) ==
  IF token.token_type \notin SizedTypes THEN "UNSUPPORTED_TOKEN_TYPE"
  ELSE IF ~token.authenticator.right_size THEN "TOKEN_MALFORMED"
  ELSE "OK"

(* TokenChallenge::digest of the expected challenge, compared with the        *)
(* token's.                                                                  *)
digest_check(token, expected) ==
  IF expected = Undigestible THEN "INVALID_LENGTH"
  ELSE IF token.challenge_digest # expected THEN "INVALID_CHALLENGE"
  ELSE "OK"

(* PublicOrigin::verify, given the key found under the token's key id, if    *)
(* any: `found` is a set of at most one key.                                 *)
public_verify(token, expected, found) ==
  IF validate(token) # "OK" THEN validate(token)
  ELSE IF token.token_type \notin RsaTypes THEN "UNSUPPORTED_TOKEN_TYPE"
  ELSE IF digest_check(token, expected) # "OK" THEN digest_check(token, expected)
  ELSE IF found = {} THEN "ISSUER_UNKNOWN"
  ELSE IF \A key \in found : verifies(key, token) THEN "TRUE"
  ELSE "FALSE"

(* Origin::verify: the public origin exists once a first RSA key was added,  *)
(* and Origin never removes a key.                                          *)
origin_verify(token, expected, keys) ==
  IF token.token_type \notin RsaTypes THEN "UNSUPPORTED_TOKEN_TYPE"
  ELSE IF keys = {} THEN "ISSUER_UNKNOWN"
  ELSE public_verify(token, expected, keys \cap {token.token_key_id})

(* PrivateOrigin::validate_structure: all an origin can check of a VOPRF token. *)
validate_structure(token, expected) ==
  IF validate(token) # "OK" THEN validate(token)
  ELSE IF token.token_type # "VOPRF_P384_SHA384" THEN "UNSUPPORTED_TOKEN_TYPE"
  ELSE digest_check(token, expected)

(* PrivateIssuer::verify by the issuer that holds `key`.  It looks at neither  *)
(* the challenge nor the key id of the token.                               *)
issuer_verify(token, key) ==
  IF token.token_type # "VOPRF_P384_SHA384" THEN "UNSUPPORTED_TOKEN_TYPE"
  ELSE IF verifies(key, token) THEN "TRUE"
  ELSE "FALSE"

(* What an honest client holds after issuance by `key`: the token whose       *)
(* authenticator the issuer's key made over exactly this token's fields       *)
(* (external: BlindRsaPublicKey::finalize and BlindRsaPrivateKey::blind_sign).*)
issued(type, nonce, challenge, key) ==
  LET input == [token_type |-> type, nonce |-> nonce,
                challenge_digest |-> challenge, token_key_id |-> key] IN
  [token_type |-> type, nonce |-> nonce, challenge_digest |-> challenge, token_key_id |-> key,
   authenticator |-> [right_size |-> TRUE, signer |-> key, signed |-> input]]
=============================================================================
