------------------------------ MODULE WireFormat ------------------------------
(***************************************************************************)
(* The encodings of tokens, requests, responses and challenges                *)
(* (src/core/token.cpp, token_request.cpp, token_response.cpp,                *)
(* token_challenge.cpp), and the answer of an issuer to a batch               *)
(* (src/core/issuer.cpp).  A decoder's result is Good(message) or Bad(error).  *)
(*                                                                         *)
(* A token type is its 16-bit code.  The sizes, 32 bytes of a digest and        *)
(* those of TokenTypeInfo, are constants, so that a message of a few bytes      *)
(* has every field.                                                          *)
(***************************************************************************)
EXTENDS Serialization

CONSTANTS
  VOPRF_P384_SHA384, BLIND_RSA, PARTIALLY_BLIND_RSA,
  KnownType,              (* the five codes                                   *)
  DigestSize,             (* 32                                               *)
  authenticator_size,     (* TokenTypeInfo, by code                           *)
  blinded_element_size,
  ProofSize,              (* 96                                               *)
  MaxOriginEntries,       (* 100                                              *)
  MaxBatchSize,           (* 10000                                            *)
  CommaByte               (* ','                                              *)

Rsa == {BLIND_RSA, PARTIALLY_BLIND_RSA}
SizeFor(size, type) == IF type \in KnownType THEN size[type] ELSE 0
TypeAt(bytes) == number(SubSeq(bytes, 1, 2))
MaxLength == RADIX * RADIX - 1    (* 65535 *)

SizesAssumption ==
  /\ Rsa \cup {VOPRF_P384_SHA384} \subseteq KnownType /\ KnownType \subseteq 0..MaxLength
  /\ VOPRF_P384_SHA384 \notin Rsa
  /\ DigestSize \in Nat /\ ProofSize \in 0..MaxLength /\ MaxBatchSize \in 0..MaxLength
  /\ authenticator_size \in [KnownType -> 1..MaxLength]
  /\ blinded_element_size \in [KnownType -> 1..MaxLength]
  /\ \A type \in Rsa :
       {authenticator_size[type], blinded_element_size[type]} = {authenticator_size[BLIND_RSA]}

(* The values that have an encoding of their own: those of the sizes that          *)
(* TokenTypeInfo gives.  serialize takes any others, too, and cuts their numbers.  *)
Octet == 0..(RADIX - 1)
Octets(size) == {bytes \in Seq(Octet) : Len(bytes) = size}

InputSort ==
  [token_type : 0..MaxLength, nonce : Octets(DigestSize), challenge_digest : Octets(DigestSize),
   token_key_id : Octets(DigestSize)]

TokenSort ==
  {token \in [token_type : KnownType, nonce : Octets(DigestSize),
              challenge_digest : Octets(DigestSize), token_key_id : Octets(DigestSize),
              authenticator : Seq(Octet)] :
     Len(token.authenticator) = authenticator_size[token.token_type]}

RequestSort ==
  {request \in [token_type : KnownType, truncated_token_key_id : Octet, blinded_msg : Seq(Octet)] :
     Len(request.blinded_msg) = blinded_element_size[request.token_type]}

ResponseSort ==
  [token_type : Rsa, blind_sig : Octets(authenticator_size[BLIND_RSA])]
    \cup [token_type : {VOPRF_P384_SHA384}, evaluate_proof : Octets(ProofSize),
          evaluate_msg : Octets(blinded_element_size[VOPRF_P384_SHA384])]

OptionalSort == {optional \in SUBSET ResponseSort : \A a, b \in optional : a = b}

(* A batch is shorter than its varint can say: it has fewer than 2^32 items.     *)
BatchSort(Item) == {batch \in Seq(Item) : Len(batch) < Values[4]}

-----------------------------------------------------------------------------
(* AuthenticatorInput: everything of a token but the authenticator.           *)
serialize_input(token) ==
  written(token.token_type, 2) \o token.nonce \o token.challenge_digest \o token.token_key_id

InputLayout == <<Fixed(2), Fixed(DigestSize), Fixed(DigestSize), Fixed(DigestSize)>>

deserialize_input(bytes) ==
  Complete(Read(bytes, InputLayout), LAMBDA read :
    Good([token_type |-> number(read.fields[1]), nonce |-> read.fields[2],
          challenge_digest |-> read.fields[3], token_key_id |-> read.fields[4]]))

(* Token::serialize and Token::deserialize.                                  *)
serialize_token(token) == serialize_input(token) \o token.authenticator

(* What Token::deserialize, TokenRequest::deserialize and                      *)
(* TokenChallenge::deserialize make of bytes left over.  The variant forgets   *)
(* to look.                                                                  *)
IgnoreTrailing(rest) == FALSE

Trailing(rest) == rest # <<>>

deserialize_token(bytes) ==
  LET type == TypeAt(bytes) IN
  IF Len(bytes) < 2 THEN Bad("UNEXPECTED_END")
  ELSE IF type \notin KnownType THEN Bad("UNSUPPORTED_TOKEN_TYPE")
  ELSE Complete(Read(bytes, Append(InputLayout, Fixed(authenticator_size[type]))), LAMBDA read :
    IF Trailing(read.rest) THEN Bad("MALFORMED_DATA")
    ELSE Good([token_type |-> type, nonce |-> read.fields[2], challenge_digest |-> read.fields[3],
               token_key_id |-> read.fields[4], authenticator |-> read.fields[5]]))

-----------------------------------------------------------------------------
(* TokenRequest::serialize and deserialize.  An unknown type has an empty        *)
(* blinded message.                                                          *)
serialize_request(request) ==
  written(request.token_type, 2) \o written(request.truncated_token_key_id, 1)
    \o request.blinded_msg

deserialize_request(bytes) ==
  LET message == Fixed(SizeFor(blinded_element_size, TypeAt(bytes))) IN
  IF Len(bytes) < 3 THEN Bad("UNEXPECTED_END")
  ELSE Complete(Read(bytes, <<Fixed(2), Fixed(1), message>>), LAMBDA read :
    IF Trailing(read.rest) THEN Bad("MALFORMED_DATA")
    ELSE Good([token_type |-> number(read.fields[1]),
               truncated_token_key_id |-> number(read.fields[2]), blinded_msg |-> read.fields[3]]))

(* The payload of a batch: behind a varint of its length, with nothing after   *)
(* it.                                                                       *)
payload_of(bytes) ==
  Then(read_varint(bytes), LAMBDA size :
    IF size.number > MaxLength THEN Bad("MALFORMED_DATA")
    ELSE IF Len(size.rest) < size.number THEN Bad("UNEXPECTED_END")
    ELSE IF Len(size.rest) > size.number THEN Bad("MALFORMED_DATA")
    ELSE Good(size.rest))

serialize_batch(items) == LET payload == FlattenSeq(items) IN write_varint(Len(payload)) \o payload

(* The decoding loop of both batches: size_of tells from the head of what is     *)
(* left how long the next item is, and item decodes it.                        *)
with_next(batch, size_of(_), item(_)) ==
  IF Len(batch.items) >= MaxBatchSize THEN Bad("MALFORMED_DATA")
  ELSE Then(size_of(batch.rest), LAMBDA size :
    IF Len(batch.rest) < size THEN Bad("UNEXPECTED_END")
    ELSE Then(item(SubSeq(batch.rest, 1, size)), LAMBDA decoded :
      Good([items |-> Append(batch.items, decoded), rest |-> From(batch.rest, size + 1)])))

deserialize_batch(bytes, size_of(_), item(_)) ==
  LET turn(result, i) ==
        Then(result, LAMBDA batch :
          IF batch.rest = <<>> THEN Good(batch) ELSE with_next(batch, size_of, item))
      batch_of(payload) ==
        FoldLeft(turn, Good([items |-> <<>>, rest |-> payload]), [i \in 1..Len(payload) |-> i])
  IN Then(Then(payload_of(bytes), batch_of), LAMBDA batch : Good(batch.items))

request_size(rest) ==
  IF Len(rest) < 3 THEN Bad("UNEXPECTED_END")
  ELSE IF SizeFor(blinded_element_size, TypeAt(rest)) = 0 THEN Bad("UNSUPPORTED_TOKEN_TYPE")
  ELSE Good(3 + blinded_element_size[TypeAt(rest)])

serialize_requests(requests) ==
  serialize_batch([i \in DOMAIN requests |-> serialize_request(requests[i])])
deserialize_requests(bytes) == deserialize_batch(bytes, request_size, deserialize_request)

-----------------------------------------------------------------------------
(* TokenResponse: an RSA signature, or an evaluated element and its proof.      *)
serialize_response(response) ==
  IF response.token_type \in Rsa THEN response.blind_sig
  ELSE response.evaluate_msg \o response.evaluate_proof

VoprfResponseSize == blinded_element_size[VOPRF_P384_SHA384] + ProofSize

deserialize_response(type, bytes) ==
  IF type \in Rsa
  THEN IF Len(bytes) # authenticator_size[BLIND_RSA] THEN Bad("INVALID_LENGTH")
       ELSE Good([token_type |-> type, blind_sig |-> bytes])
  ELSE IF type # VOPRF_P384_SHA384 THEN Bad("UNSUPPORTED_TOKEN_TYPE")
  ELSE IF Len(bytes) # VoprfResponseSize THEN Bad("INVALID_LENGTH")
  ELSE LET element == blinded_element_size[type] IN
       Good([token_type |-> type, evaluate_msg |-> SubSeq(bytes, 1, element),
             evaluate_proof |-> From(bytes, element + 1)])

(* OptionalTokenResponse: a set of at most one response.                      *)
serialize_optional(optional) ==
  IF optional = {} THEN <<0>>
  ELSE LET response == CHOOSE r \in optional : TRUE IN
       <<1>> \o written(response.token_type, 2) \o serialize_response(response)

deserialize_optional(bytes) ==
  IF bytes = <<>> THEN Bad("UNEXPECTED_END")
  ELSE IF bytes[1] \notin {0, 1} THEN Bad("MALFORMED_DATA")
  ELSE IF bytes[1] = 0 THEN IF Trailing(Tail(bytes)) THEN Bad("MALFORMED_DATA") ELSE Good({})
  ELSE IF Len(bytes) < 3 THEN Bad("UNEXPECTED_END")
  ELSE Then(deserialize_response(TypeAt(Tail(bytes)), From(bytes, 4)), LAMBDA r : Good({r}))

(* The next response of a batch: BatchedTokenResponse::deserialize.           *)
response_size(rest) ==
  LET type == TypeAt(Tail(rest)) IN
  IF rest[1] = 0 THEN Good(1)
  ELSE IF rest[1] # 1 THEN Bad("MALFORMED_DATA")
  ELSE IF Len(rest) < 3 THEN Bad("UNEXPECTED_END")
  ELSE IF SizeFor(authenticator_size, type) = 0 THEN Bad("UNSUPPORTED_TOKEN_TYPE")
  ELSE Good(3 + IF type = VOPRF_P384_SHA384 THEN VoprfResponseSize ELSE authenticator_size[type])

serialize_responses(responses) ==
  serialize_batch([i \in DOMAIN responses |-> serialize_optional(responses[i])])
deserialize_responses(bytes) == deserialize_batch(bytes, response_size, deserialize_optional)

(* What the key of an issuer makes of a request it can use: a response made       *)
(* from its blinded message (external).                                       *)
answer(request) ==
  IF request.token_type \in Rsa
  THEN [token_type |-> BLIND_RSA, blind_sig |-> request.blinded_msg]
  ELSE [token_type |-> VOPRF_P384_SHA384, evaluate_msg |-> request.blinded_msg,
        evaluate_proof |-> [i \in 1..ProofSize |-> 0]]

(* PublicIssuer::issue and PrivateIssuer::issue: a set of at most one response.  *)
issue(request, issuer) ==
  IF /\ request.token_type \in issuer.types
     /\ request.truncated_token_key_id = issuer.truncated_key_id
     /\ request.blinded_msg \notin issuer.unusable
  THEN {answer(request)}
  ELSE {}

(* The two issue_batch: a request that issue refuses leaves an absent response   *)
(* in its place.  The variant leaves it out.                                  *)
issue_batch_compacted(requests, issuer) ==
  SelectSeq([i \in DOMAIN requests |-> issue(requests[i], issuer)], LAMBDA r : r # {})

issue_batch(requests, issuer) == [i \in DOMAIN requests |-> issue(requests[i], issuer)]

-----------------------------------------------------------------------------
(* create_challenge of the three origins: a context is drawn if one is required  *)
(* and none given.  A context is a set of at most one.                        *)
create_challenge(config, type, given, fresh) ==
  [token_type |-> type, issuer_name |-> config.issuer_name,
   redemption_context |-> IF config.require_redemption_context /\ given = {} THEN {fresh} ELSE given,
   origin_info |-> config.origin_names]

(* TokenAuthenticator::create_challenge: the caller's entries come first.       *)
create_authenticator_challenge(config, type, given, additional) ==
  [token_type |-> type, issuer_name |-> config.issuer_name, redemption_context |-> given,
   origin_info |-> additional \o config.origin_names]

(* TokenChallenge::origin_info_string.                                       *)
origin_info_string(names) ==
  FlattenSeq([i \in DOMAIN names |-> IF i = 1 THEN names[i] ELSE <<CommaByte>> \o names[i]])

serialize_challenge(challenge) ==
  IF \/ Len(challenge.issuer_name) \notin 1..MaxLength
     \/ Len(origin_info_string(challenge.origin_info)) > MaxLength
  THEN Bad("INVALID_LENGTH")
  ELSE Good(written(challenge.token_type, 2) \o with_length(challenge.issuer_name, 2)
              \o with_length(FlattenSeq(SetToSeq(challenge.redemption_context)), 1)
              \o with_length(origin_info_string(challenge.origin_info), 2))

(* The entries between commas.                                               *)
Between(text) ==
  LET cut(segments, byte) ==
        IF byte = CommaByte THEN Append(segments, <<>>)
        ELSE [segments EXCEPT ![Len(segments)] = Append(@, byte)]
  IN FoldLeft(cut, <<<<>>>>, text)

(* Those that the decoder's loop visits: all, but for an empty one at the end.   *)
(* The variant forgets what follows the last comma.                           *)
SegmentsBeforeCommas(text) == Front(Between(text))

Segments(text) ==
  LET all == Between(text) IN IF Last(all) = <<>> THEN Front(all) ELSE all

NonEmpty(segments) == SelectSeq(segments, LAMBDA s : s # <<>>)

(* The loop finds MAX_ORIGIN_ENTRIES entries already there and text left.      *)
TooManyEntries(text) ==
  LET segments == Segments(text) IN
  segments # <<>> /\ Len(NonEmpty(Front(segments))) >= MaxOriginEntries

(* TokenChallenge::deserialize.                                             *)
deserialize_challenge(bytes) ==
  Complete(Read(bytes, <<Fixed(2), Prefixed(2)>>), LAMBDA issuer :
    IF issuer.fields[2] = <<>> THEN Bad("INVALID_LENGTH")
    ELSE IF issuer.rest = <<>> THEN Bad("UNEXPECTED_END")
    ELSE IF issuer.rest[1] \notin {0, DigestSize} THEN Bad("INVALID_LENGTH")
    ELSE Complete(Read(issuer.rest, <<Prefixed(1), Prefixed(2)>>), LAMBDA read :
      IF TooManyEntries(read.fields[2]) \/ Trailing(read.rest) THEN Bad("MALFORMED_DATA")
      ELSE Good([token_type |-> number(issuer.fields[1]), issuer_name |-> issuer.fields[2],
                 redemption_context |-> {c \in {read.fields[1]} : c # <<>>},
                 origin_info |-> NonEmpty(Segments(read.fields[2]))])))
=============================================================================
