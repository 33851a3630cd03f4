-------------------------------- MODULE MCWire --------------------------------
(* Model checking of Wire: bytes of four bits, and every field a byte or two    *)
(* long.  The messages reach the edges of the encodings: a payload whose size   *)
(* is the first to need a longer varint, empty and full batches, requests the   *)
(* issuer refuses between others, every match type, presets, folded fields.    *)
EXTENDS Wire

CONSTANT VOPRF_RISTRETTO255_SHA512

Types == {VOPRF_P384_SHA384, BLIND_RSA, PARTIALLY_BLIND_RSA, VOPRF_RISTRETTO255_SHA512}
Sizes == [t \in Types |-> IF t \in Rsa THEN 2 ELSE 1]
Content(size) == IF size = 1 THEN {<<2>>, <<15>>} ELSE {<<2, 12>>, <<15, 0>>}

Tokens ==
  UNION {[token_type : {t}, nonce : {<<3>>, <<0>>}, challenge_digest : {<<12>>},
          token_key_id : {<<15>>}, authenticator : Content(Sizes[t])] : t \in Types}
Inputs ==
  [token_type : Types, nonce : {<<3>>}, challenge_digest : {<<12>>}, token_key_id : {<<15>>}]

Request(t, id, message) ==
  [token_type |-> t, truncated_token_key_id |-> id, blinded_msg |-> message]
Requests == UNION {{Request(t, id, b) : id \in {0, 9}, b \in Content(Sizes[t])} : t \in Types}
Batches ==
  BoundedSeq({Request(BLIND_RSA, 9, <<2, 12>>), Request(BLIND_RSA, 9, <<15, 0>>),
              Request(VOPRF_P384_SHA384, 9, <<2>>), Request(PARTIALLY_BLIND_RSA, 0, <<1, 1>>)}, 3)

Responses ==
  [token_type : Rsa, blind_sig : Content(2)]
    \cup [token_type : {VOPRF_P384_SHA384}, evaluate_msg : Content(1), evaluate_proof : Content(1)]
Optionals == {{}} \cup {{r} : r \in Responses}
SomeOptionals ==
  {{}, {CHOOSE r \in Responses : r.token_type = PARTIALLY_BLIND_RSA},
   {CHOOSE r \in Responses : r.token_type = VOPRF_P384_SHA384}}

Offers ==
  LET config(names) ==
        [issuer_name |-> <<1, 2>>, require_redemption_context |-> Len(names) < 2,
         origin_names |-> names]
      given == {{}, {<<8>>}}
  IN {create_challenge(config(names), BLIND_RSA, g, <<7>>) :
        names \in {<<>>, <<<<3>>>>, <<<<3>>, <<4, 5>>, <<6>>>>, <<<<3, 12, 4>>>>}, g \in given}
     \cup {create_authenticator_challenge(config(<<<<3>>>>), VOPRF_P384_SHA384, g,
             <<encode_for_origin_info(for_publisher(<<<<1>>>>))>>) : g \in given}

Fields ==
  LET offer(c, age) == [challenge |-> c, token_key |-> <<9, 14>>, max_age |-> age]
      one == CHOOSE c \in Offers : Len(c.origin_info) = 3
      two == CHOOSE c \in Offers : c.origin_info = <<>>
  IN {<<offer(c, age)>> : c \in Offers, age \in {{}, {0}, {13}}}
     \cup {<<offer(one, {}), offer(two, {7})>>, <<offer(two, {13}), offer(one, {})>>}

Names == {<<>>, <<<<1>>>>, <<<<1>>, <<2>>>>, <<<<2>>, <<1>>>>, <<<<1>>, <<2>>, <<1>>>>}
Tracks == {<<>>, <<1>>, <<1, 2>>, <<2, 1>>, <<1, 2, 1>>}

Infos ==
  LET scope(n, t) == build(<<allow_actions(<<SUBSCRIBE>>), for_track(Rule(MATCH_EXACT, <<1>>)),
                             for_namespace(n), allow_actions(<<FETCH>>), for_track(t)>>)
  IN {<<>>, for_relay, for_publisher(<<<<1>>, <<2>>>>), for_subscriber(<<<<1>>>>, <<1, 2>>)}
     \cup {<<scope(Rule(m, n), Wildcard)>> : m \in MatchType, n \in Names}
     \cup {<<scope(Wildcard, Rule(m, t))>> : m \in MatchType, t \in Tracks}
     \cup {for_publisher(<<<<1>>>>) \o <<scope(Rule(MATCH_SUFFIX, <<<<1>>>>), Rule(MATCH_PREFIX, <<2>>))>>}

Messages ==
  [input |-> Inputs, token |-> Tokens, request |-> Requests, requests |-> Batches,
   response |-> Responses, optional |-> Optionals, responses |-> BoundedSeq(SomeOptionals, 2),
   challenge |-> Offers, info |-> Infos, origin_info |-> Infos,
   www_authenticate |-> Fields, authorization |-> Tokens]

RsaIssuer == [types |-> Rsa, truncated_key_id |-> 9, unusable |-> {<<15, 0>>}]
Notes ==
  {<<>>, <<COMMA, SP, PRIVATE_TOKEN, SP, CHALLENGE, Pad, 1>>, <<BACKSLASH, BACKSLASH>>,
   <<BACKSLASH, QUOTE, COMMA, SP, PRIVATE_TOKEN, SP>>}
Queries ==
  [actions : {<<SUBSCRIBE>>, <<SUBSCRIBE, FETCH>>, <<PUBLISH, CLIENT_SETUP>>},
   namespace : Names, track : Tracks]
=============================================================================
