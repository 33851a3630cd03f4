---------------------------- MODULE MultiKeyIssuer ----------------------------
(***************************************************************************)
(* class MultiKeyIssuer (src/core/issuer.cpp:238-409): the issuers of all      *)
(* active keys, found by full key id, and for each kind of key the list of     *)
(* full ids filed under each truncated id, which is all a request names.       *)
(* The class has no lock; each method is one step.                           *)
(*                                                                         *)
(* A key stands for its full id.  A blinded message fits a key if the key's    *)
(* private operation takes it: for RSA a representative below the modulus,     *)
(* for VOPRF the encoding of a group element.                                *)
(***************************************************************************)
EXTENDS Integers, Sequences, SequencesExt

CONSTANTS
  Key,
  kind,             (* key -> "RSA" or "VOPRF"                               *)
  truncated,        (* key -> the last byte of its id                        *)
  Blinded,          (* blinded messages                                      *)
  fits,             (* blinded message -> the keys whose operation takes it  *)
  MaxFiled          (* bounds the ids filed under one byte in the model      *)

Kinds == {"RSA", "VOPRF"}

IssuerAssumption ==
  /\ kind \in [Key -> Kinds]
  /\ truncated = [k \in Key |-> truncated[k]]
  /\ fits \in [Blinded -> SUBSET Key]
  /\ MaxFiled \in Nat

VARIABLES
  issuers,                 (* rsa_issuers and voprf_issuers                  *)
  keys_by_truncated_id,    (* kind -> byte -> list of ids                    *)
  live                     (* history: keys added and not removed since      *)

vars == <<issuers, keys_by_truncated_id, live>>

Byte == {truncated[k] : k \in Key}
KeysOf(k) == {key \in Key : kind[key] = k}

Init ==
  /\ issuers = {}
  /\ keys_by_truncated_id = [k \in Kinds |-> [b \in Byte |-> <<>>]]
  /\ live = {}

-----------------------------------------------------------------------------
(* The index a key is filed in; the variant files every key with the RSA      *)
(* keys.                                                                     *)
FiledWithRsa(key) == "RSA"

FiledWith(key) == kind[key]

(* add_blind_rsa_key and add_voprf_key.  A key that is added again replaces     *)
(* its issuer and is filed a second time.  A key without a public key or id    *)
(* changes nothing.                                                          *)
add_key(key) ==
  /\ Len(keys_by_truncated_id[FiledWith(key)][truncated[key]]) < MaxFiled
  /\ issuers' = issuers \cup {key}
  /\ keys_by_truncated_id' =
       [keys_by_truncated_id EXCEPT ![FiledWith(key)][truncated[key]] = Append(@, key)]
  /\ live' = live \cup {key}

(* The issuers that go when a byte is removed: all those filed under it, of    *)
(* both kinds.  The variant stops at the first of each kind.                 *)
ErasedFirst(byte) ==
  {Head(keys_by_truncated_id[k][byte]) : k \in {k \in Kinds : keys_by_truncated_id[k][byte] # <<>>}}

Erased(byte) == UNION {ToSet(keys_by_truncated_id[k][byte]) : k \in Kinds}

(* remove_key; an unknown byte changes nothing.                              *)
remove_key(byte) ==
  /\ issuers' = issuers \ Erased(byte)
  /\ keys_by_truncated_id' = [k \in Kinds |-> [keys_by_truncated_id[k] EXCEPT ![byte] = <<>>]]
  /\ live' = {key \in live : truncated[key] # byte}

Next ==
  \/ \E key \in Key : add_key(key)
  \/ \E byte \in Byte : remove_key(byte)

Spec == Init /\ [][Next]_vars

-----------------------------------------------------------------------------
(* The kind of key that a request's type selects.                            *)
kind_for(type) ==
  CASE type \in {"BLIND_RSA", "PARTIALLY_BLIND_RSA"} -> "RSA"
    [] type = "VOPRF_P384_SHA384" -> "VOPRF"
    [] OTHER -> "NONE"

(* PublicIssuer::issue and PrivateIssuer::issue, for one key of the right      *)
(* kind: whether it answers.                                                 *)
answers(key, request) ==
  /\ request.truncated_token_key_id = truncated[key]
  /\ key \in fits[request.blinded_msg]

(* TokenResponse::create_blind_rsa and create_voprf: whatever the request's    *)
(* type was, an RSA answer has the type BLIND_RSA.  The variant makes every     *)
(* answer with the former.                                                   *)
AlwaysBlindRsa(key) == "BLIND_RSA"

response_type(key) == IF kind[key] = "RSA" THEN "BLIND_RSA" ELSE "VOPRF_P384_SHA384"

(* The filed ids that issue tries, in order; the variant tries only one.      *)
FirstCandidate(k, byte) ==
  IF keys_by_truncated_id[k][byte] = <<>> THEN <<>> ELSE <<Head(keys_by_truncated_id[k][byte])>>

Candidates(k, byte) == keys_by_truncated_id[k][byte]

(* MultiKeyIssuer::issue: the answer of the first candidate that gives one.    *)
issue(request) ==
  IF kind_for(request.token_type) = "NONE" THEN [error |-> "UNSUPPORTED_TOKEN_TYPE"]
  ELSE LET filed == Candidates(kind_for(request.token_type), request.truncated_token_key_id)
           first == SelectInSeq(filed, LAMBDA key : key \in issuers /\ answers(key, request))
       IN IF first = 0 THEN [error |-> "ISSUER_UNKNOWN"]
          ELSE [token_type |-> response_type(filed[first]), signer |-> filed[first],
                blinded_msg |-> request.blinded_msg]

(* MultiKeyIssuer::public_keys: RSA keys are listed as BLIND_RSA.            *)
public_keys ==
  {[type |-> IF kind[key] = "RSA" THEN "BLIND_RSA" ELSE "VOPRF_P384_SHA384", key_id |-> key] :
     key \in issuers}

-----------------------------------------------------------------------------
TypeOK ==
  /\ issuers \subseteq Key
  /\ \A k \in Kinds : keys_by_truncated_id[k] \in [Byte -> Seq(KeysOf(k))]
  /\ live \subseteq Key

(* The map by full id and the lists by truncated id hold the same keys, each   *)
(* filed under the last byte of its own id, after any order of additions,      *)
(* repeated additions and removals by byte: an issuer in the map alone would   *)
(* be published and never answer, an id in a list alone would shadow nothing    *)
(* but stay for ever (add_blind_rsa_key, add_voprf_key, remove_key).          *)
ListsMatchIssuers ==
  \A k \in Kinds : \A b \in Byte :
    ToSet(keys_by_truncated_id[k][b]) = {key \in issuers : kind[key] = k /\ truncated[key] = b}

RequestTypes(k) == IF k = "RSA" THEN {"BLIND_RSA", "PARTIALLY_BLIND_RSA"} ELSE {"VOPRF_P384_SHA384"}

RequestsFor(key) ==
  [token_type : RequestTypes(kind[key]), truncated_token_key_id : {truncated[key]},
   blinded_msg : {b \in Blinded : key \in fits[b]}]

(* Every request that a live key could answer is answered, and by a live key    *)
(* of its kind: a collision of truncated ids never makes a key unreachable,    *)
(* and a removed key signs nothing (issue, issuer.cpp:316-366).              *)
LiveKeysServe ==
  \A key \in live : \A request \in RequestsFor(key) :
    LET response == issue(request) IN
    /\ "signer" \in DOMAIN response
    /\ response.signer \in live
    /\ kind[response.signer] = kind[key]
=============================================================================
