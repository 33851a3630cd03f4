--------------------------------- MODULE Wire ---------------------------------
(***************************************************************************)
(* What origin, client and issuer send each other: a message is encoded,       *)
(* perhaps damaged or annotated on the way, and decoded; an issuer answers a   *)
(* batch of requests it has decoded.  The operations are those of WireFormat,  *)
(* AuthScheme and AuthScope.                                                  *)
(***************************************************************************)
EXTENDS AuthScheme, AuthScope

CONSTANTS
  Message,          (* the messages sent, by format                           *)
  Issuer,           (* the types it serves, its truncated key id, and the      *)
                    (* blinded messages its key cannot use                    *)
  Note,             (* texts of foreign parameters                            *)
  Query             (* what an application asks an authorization info          *)

(* Formats of bytes in which one message has one encoding, and all of bytes.    *)
Strict == {"token", "request", "response", "optional"}
Binary == Strict \cup {"input", "requests", "responses", "challenge", "info"}
Text == {"origin_info", "www_authenticate", "authorization"}

ASSUME WireAssumption ==
  /\ RadixAssumption
  /\ DOMAIN Message = Binary \cup Text
  /\ FOREIGN >= RADIX
  /\ SizesAssumption
  /\ Issuer.types \subseteq Rsa \cup {VOPRF_P384_SHA384}

RuleSort(Name) ==
  {rule \in [match_type : MatchType \cup {Mark}, pattern : Seq(Name)] :
     rule.match_type = Mark => rule = Wildcard}

ScopeSort ==
  [actions : Seq(Action), namespace_match : RuleSort(Seq(Octet)), track_name_match : RuleSort(Octet)]

(* The messages of the strict formats and the scopes are values of those sizes.    *)
ASSUME MessagesFit ==
  /\ Message["input"] \subseteq InputSort /\ Message["token"] \subseteq TokenSort
  /\ Message["request"] \subseteq RequestSort /\ Message["response"] \subseteq ResponseSort
  /\ Message["optional"] \subseteq OptionalSort
  /\ Message["requests"] \subseteq BatchSort(RequestSort)
  /\ Message["responses"] \subseteq BatchSort(OptionalSort)
  /\ Message["info"] \cup Message["origin_info"] \subseteq Seq(ScopeSort)
  /\ \A q \in Query :
       q.actions \in Seq(Action) /\ q.namespace \in Seq(Seq(Octet)) /\ q.track \in Seq(Octet)

VARIABLES
  sent,             (* the message under way, with its format; at first none   *)
  damage,           (* what happened to it, or to what it answers, on the way *)
  wire,             (* its bytes or its text                                  *)
  received,         (* what the decoder makes of it; before it runs, Bad("-")   *)
  asked             (* the batch that the message answers                     *)

vars == <<sent, damage, wire, received, asked>>

-----------------------------------------------------------------------------
(* An offer is what one PrivateToken challenge carries; intermediaries fold       *)
(* fields of one name into one, with a comma between them (external).           *)
offered(offer) ==
  build_www_authenticate(offer.challenge, offer.token_key, offer.max_age).value

Fold(texts) ==
  FlattenSeq([i \in DOMAIN texts |-> IF i = 1 THEN texts[i] ELSE <<COMMA, SP>> \o texts[i]])

accepted(header) ==
  Then(decode_challenge(header), LAMBDA challenge :
    Then(decode_token_key(header), LAMBDA token_key :
      Good([challenge |-> challenge, token_key |-> token_key, max_age |-> header.max_age])))

encoding(format, m) ==
  CASE format = "input" -> serialize_input(m)
    [] format = "token" -> serialize_token(m)
    [] format = "request" -> serialize_request(m)
    [] format = "requests" -> serialize_requests(m)
    [] format = "response" -> serialize_response(m)
    [] format = "optional" -> serialize_optional(m)
    [] format = "responses" -> serialize_responses(m)
    [] format = "challenge" -> serialize_challenge(m).value
    [] format = "info" -> serialize_info(m)
    [] format = "origin_info" -> encode_for_origin_info(m)
    [] format = "www_authenticate" -> Fold([i \in DOMAIN m |-> offered(m[i])])
    [] format = "authorization" -> build_authorization(m)

(* A client reads a response of the type it requested.                         *)
decoding(format, m, w) ==
  CASE format = "input" -> deserialize_input(w)
    [] format = "token" -> deserialize_token(w)
    [] format = "request" -> deserialize_request(w)
    [] format = "requests" -> deserialize_requests(w)
    [] format = "response" -> deserialize_response(m.token_type, w)
    [] format = "optional" -> deserialize_optional(w)
    [] format = "responses" -> deserialize_responses(w)
    [] format = "challenge" -> deserialize_challenge(w)
    [] format = "info" -> deserialize_info(w)
    [] format = "origin_info" -> decode_from_origin_info(w)
    [] format = "www_authenticate" ->
         Then(parse_all(w), LAMBDA headers : CollectEach(headers, accepted))
    [] format = "authorization" -> parse_authorization(w)

-----------------------------------------------------------------------------
NotYet == Bad("-")

Under_way(format, m) ==
  /\ sent' = [format |-> format, message |-> m]
  /\ wire' = encoding(format, m)
  /\ received' = NotYet

Init ==
  /\ sent = [format |-> "none"] /\ wire = <<>> /\ damage = "none"
  /\ received = NotYet /\ asked = <<>>

Send(format) ==
  /\ sent.format = "none"
  /\ \E m \in Message[format] : Under_way(format, m)
  /\ UNCHANGED <<damage, asked>>

Damaged(kind, w) ==
  /\ sent.format # "none" /\ damage = "none" /\ received = NotYet
  /\ damage' = kind /\ wire' = w
  /\ UNCHANGED <<sent, received, asked>>

Truncate == \E n \in 0..(Len(wire) - 1) : Damaged("truncated", SubSeq(wire, 1, n))

Extend ==
  /\ sent.format \in Binary
  /\ \E b \in 0..(RADIX - 1) : Damaged("extended", Append(wire, b))

Tamper ==
  /\ sent.format \in Binary
  /\ \E i \in DOMAIN wire, b \in 0..(RADIX - 1) :
        b # wire[i] /\ Damaged("tampered", [wire EXCEPT ![i] = b])

(* A parameter that this library does not know, at the front of a challenge or  *)
(* at the end of the field.                                                  *)
Annotate ==
  /\ sent.format \in {"www_authenticate", "authorization"}
  /\ \E note \in Note :
        LET parameter == Quoted(FOREIGN, note) IN
        \/ Damaged("annotated", wire \o <<COMMA, SP>> \o parameter)
        \/ \E i \in DOMAIN wire :
              /\ wire[i] = PRIVATE_TOKEN
              /\ Damaged("annotated",
                         SubSeq(wire, 1, i + 1) \o parameter \o <<COMMA, SP>> \o From(wire, i + 2))

Receive ==
  /\ sent.format # "none" /\ received = NotYet
  /\ received' = decoding(sent.format, sent.message, wire)
  /\ UNCHANGED <<sent, wire, damage, asked>>

(* The issuer answers the requests it has read.  An exchange of two messages is   *)
(* damaged once at most, which bounds the model.                              *)
Answer ==
  /\ sent.format = "requests" /\ received.error = "OK"
  /\ damage' = IF damage = "none" THEN "none" ELSE "earlier"
  /\ Under_way("responses", issue_batch(received.value, Issuer))
  /\ asked' = received.value

Next ==
  \/ \E format \in Binary \cup Text : Send(format)
  \/ Truncate \/ Extend \/ Tamper \/ Annotate
  \/ Receive \/ Answer

Spec == Init /\ [][Next]_vars

-----------------------------------------------------------------------------
Arrived == sent.format # "none" /\ received # NotYet
Intact == damage \in {"none", "earlier"}
Understood == Arrived /\ received.error = "OK"

(* What arrives as it was sent is understood as it was meant.  The one thing a   *)
(* challenge cannot carry is a comma inside an entry of origin_info; digests    *)
(* survive even that (ChallengeKeepsItsDigest).                               *)
Splittable(challenge) ==
  \A i \in DOMAIN challenge.origin_info : ~Contains(challenge.origin_info[i], CommaByte)

RoundTrip ==
  /\ Arrived /\ Intact
  /\ sent.format = "challenge" => Splittable(sent.message)
  /\ sent.format = "www_authenticate" =>
       \A i \in DOMAIN sent.message : Splittable(sent.message[i].challenge)
  => received = Good(sent.message)

(* A message that lost its end is never taken for another message.  Only a      *)
(* WWW-Authenticate field can lose parameters or challenges unnoticed.          *)
TruncationDetected ==
  Arrived /\ damage = "truncated" /\ sent.format # "www_authenticate"
  => received.error # "OK"

(* Of a strict format there is one encoding of every message, so a token cannot *)
(* be presented in two forms; and every byte of a batch's payload is part of     *)
(* one of its items.                                                         *)
Canonical ==
  Understood =>
    /\ sent.format \in Strict => encoding(sent.format, received.value) = wire
    /\ sent.format = "requests" =>
         \E n \in 1..8 : wire = SubSeq(wire, 1, n)
           \o FlattenSeq([i \in DOMAIN received.value |-> serialize_request(received.value[i])])

(* A client that received a challenge computes the digest the origin will        *)
(* compare with, for it hashes the bytes that the origin hashes.                *)
ChallengeKeepsItsDigest ==
  Understood /\ (Intact \/ damage = "annotated") =>
    /\ sent.format = "challenge" =>
         serialize_challenge(received.value) = serialize_challenge(sent.message)
    /\ sent.format = "www_authenticate" =>
         \A i \in DOMAIN sent.message :
           serialize_challenge(received.value[i].challenge)
             = serialize_challenge(sent.message[i].challenge)

(* A foreign parameter, whatever its quoted value, changes nothing in what the   *)
(* parsers find; and of a truncated field they find the challenges that         *)
(* arrived whole, none of which differs from the one sent.                     *)
FieldsAreReadRight ==
  /\ Arrived /\ damage = "annotated" =>
       received = decoding(sent.format, sent.message, encoding(sent.format, sent.message))
  /\ Understood /\ damage = "truncated" /\ sent.format = "www_authenticate" =>
       /\ Len(received.value) <= Len(sent.message)
       /\ \A i \in DOMAIN received.value :
            serialize_challenge(received.value[i].challenge)
              = serialize_challenge(sent.message[i].challenge)

(* The i-th answer of a batch is to the i-th request, also when requests before   *)
(* it were refused: the client pairs them by position.                         *)
AnswersStayInPlace ==
  Understood /\ sent.format = "responses" /\ asked # <<>> /\ Intact =>
    /\ DOMAIN received.value = DOMAIN asked
    /\ \A i \in DOMAIN asked : \A response \in received.value[i] :
         IF response.token_type \in Rsa THEN response.blind_sig = asked[i].blinded_msg
         ELSE response.evaluate_msg = asked[i].blinded_msg

(* What the rules mean: the name is the pattern with something around it, on the  *)
(* sides that the match type leaves open.                                     *)
Means(rule, name) ==
  \/ rule = Wildcard
  \/ \E i \in 0..Len(name) : \E j \in i..Len(name) :
       /\ SubSeq(name, i + 1, j) = rule.pattern
       /\ rule.match_type \in {MATCH_EXACT, MATCH_PREFIX} => i = 0
       /\ rule.match_type \in {MATCH_EXACT, MATCH_SUFFIX} => j = Len(name)

(* The scopes that arrive grant what the scopes sent mean, no more and no less,  *)
(* except that no name without bytes contains anything.                       *)
ScopesGrantWhatTheyMean ==
  Understood /\ Intact /\ sent.format \in {"info", "origin_info"} =>
    \A q \in Query :
      authorizes_all(received.value, q.actions, q.namespace, q.track) <=>
        \A a \in Range(q.actions) : \E scope \in Range(sent.message) :
          /\ a \in Range(scope.actions)
          /\ Means(scope.namespace_match, q.namespace)
          /\ Means(scope.track_name_match, q.track)
          /\ scope.track_name_match.match_type = MATCH_CONTAINS => q.track # <<>>
=============================================================================
