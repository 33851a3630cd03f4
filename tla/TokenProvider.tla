----------------------------- MODULE TokenProvider -----------------------------
(***************************************************************************)
(* class TokenProvider (src/core/token_provider.cpp) with PublicClient and     *)
(* PrivateClient (src/core/client.cpp): threads of the application prepare     *)
(* batches of token requests, finalize them with what the network brings back, *)
(* store the tokens and take them out of the cache, while the issuer keys      *)
(* change.  A method holds the provider's mutex for its whole body, except     *)
(* that prepare_batch_request and finalize_batch lock once per element: the    *)
(* steps of their loops interleave with everything else.                      *)
(*                                                                         *)
(* The network and the issuers are external: any response may arrive for any   *)
(* request, made by any key over any message ever blinded, or damaged.        *)
(***************************************************************************)
EXTENDS Integers, Sequences, SequencesExt, TokenVerification

CONSTANTS
  Thread,
  Issuer,           (* issuer names                                          *)
  PublicKey,        (* keys offered to add_issuer_key: [type, key_id, data]  *)
  TokenChallenge,   (* challenges: [token_type, issuer_name, digest,         *)
                    (*              origin_info]                              *)
  kind,             (* key -> "RSA" or "VOPRF"                               *)
  origin_name,      (* config.origin_name; "" if it is not set               *)
  max_cached_tokens,
  MaxKeys,          (* bounds the keys of an issuer                          *)
  MaxBatch,         (* bounds the size of a batch                            *)
  Garbage           (* key data or a signature that decodes to nothing       *)

ASSUME ProviderAssumption ==
  /\ PublicKey \subseteq [type : SizedTypes, key_id : Key, data : Key \cup {Garbage}]
  /\ \A k \in PublicKey : k.data \in {k.key_id, Garbage}
  /\ \A c \in TokenChallenge :
       c.digest \in Expected /\ c.token_type \in SizedTypes /\ c.issuer_name \in Issuer
  /\ kind \in [Key -> {"RSA", "VOPRF"}]
  /\ max_cached_tokens \in Nat /\ MaxKeys \in Nat /\ MaxBatch \in Nat

VARIABLES
  issuer_keys,      (* issuer name -> its keys, in order; <<>> if unknown    *)
  token_cache,      (* challenge digest -> tokens; <<>> if absent            *)
  calls,            (* thread -> its batch                                   *)
  drawn,            (* history: the nonces ever drawn                        *)
  blinded,          (* history: the authenticator inputs ever blinded        *)
  handed_out        (* history: tokens that get_cached_token returned        *)

vars == <<issuer_keys, token_cache, calls, drawn, blinded, handed_out>>

Idle == [stage |-> "idle"]

Init ==
  /\ issuer_keys = [i \in Issuer |-> <<>>]
  /\ token_cache = [d \in Challenge |-> <<>>]
  /\ calls = [p \in Thread |-> Idle]
  /\ drawn = {}
  /\ blinded = {}
  /\ handed_out = {}

-----------------------------------------------------------------------------
add_issuer_key(issuer, key) ==
  /\ Len(issuer_keys[issuer]) < MaxKeys
  /\ issuer_keys' = [issuer_keys EXCEPT ![issuer] = Append(@, key)]
  /\ UNCHANGED <<token_cache, calls, drawn, blinded, handed_out>>

remove_issuer(issuer) ==
  /\ issuer_keys' = [issuer_keys EXCEPT ![issuer] = <<>>]
  /\ UNCHANGED <<token_cache, calls, drawn, blinded, handed_out>>

(* The kind of key material that a token type is made with, if any.           *)
Material(type) ==
  CASE type \in RsaTypes -> "RSA"
    [] type = "VOPRF_P384_SHA384" -> "VOPRF"
    [] OTHER -> "NONE"

(* BlindRsaPublicKey::from_spki and VoprfPublicKey::from_bytes: whether the     *)
(* data is a key of the kind that the type calls for.                        *)
Decodes(key, type) == key.data # Garbage /\ kind[key.data] = Material(type)

(* Impl::find_key: the position of the issuer's first key of the type; 0 if     *)
(* there is none.                                                            *)
find_key(issuer, type) == SelectInSeq(issuer_keys[issuer], LAMBDA k : k.type = type)

(* origin_info_allows; names are compared without regard to case.            *)
origin_info_allows(origin_info) ==
  origin_info = {} \/ (origin_name # "" /\ origin_name \in origin_info)

(* TokenChallenge::digest succeeds.                                          *)
Digestible(challenge) == challenge.digest # Undigestible

(* What prepare_request answers before it draws a nonce.                     *)
admission(challenge) ==
  LET position == find_key(challenge.issuer_name, challenge.token_type) IN
  IF ~origin_info_allows(challenge.origin_info) THEN "INVALID_CHALLENGE"
  ELSE IF position = 0 THEN "ISSUER_UNKNOWN"
  ELSE IF ~Digestible(challenge) THEN "INVALID_LENGTH"
  ELSE IF Material(challenge.token_type) = "NONE" THEN "UNSUPPORTED_TOKEN_TYPE"
  ELSE IF ~Decodes(issuer_keys[challenge.issuer_name][position], challenge.token_type)
  THEN "INVALID_KEY"
  ELSE "OK"

(* The finalization data of a request, as PublicClient and PrivateClient       *)
(* create_token_request fill it in for the key found: it is also the input     *)
(* that they blind.  The request itself is its blinded form.                 *)
context(challenge, nonce) ==
  LET position == find_key(challenge.issuer_name, challenge.token_type) IN
  [token_type |-> challenge.token_type, nonce |-> nonce, challenge_digest |-> challenge.digest,
   token_key_id |-> issuer_keys[challenge.issuer_name][position].data]

-----------------------------------------------------------------------------
(* prepare_batch_request, and prepare_request as a batch of one.              *)
begin_prepare(p, challenge, count) ==
  /\ calls[p].stage = "idle"
  /\ calls' = [calls EXCEPT ![p] =
       [stage |-> "preparing", challenge |-> challenge, count |-> count, contexts |-> <<>>]]
  /\ UNCHANGED <<issuer_keys, token_cache, drawn, blinded, handed_out>>

(* One turn of the loop, which is prepare_request under the lock; a failure    *)
(* abandons the contexts prepared so far.                                    *)
prepare_request(p) ==
  LET call == calls[p] IN
  /\ call.stage = "preparing"
  /\ Len(call.contexts) < call.count
  /\ IF admission(call.challenge) = "OK"
     THEN \E nonce \in Nonce \ drawn :
            LET ctx == context(call.challenge, nonce) IN
            /\ calls' = [calls EXCEPT ![p].contexts = Append(@, ctx)]
            /\ drawn' = drawn \cup {nonce}
            /\ blinded' = blinded \cup {ctx}
     ELSE calls' = [calls EXCEPT ![p] = Idle] /\ UNCHANGED <<drawn, blinded>>
  /\ UNCHANGED <<issuer_keys, token_cache, handed_out>>

(* The application calls finalize_batch with as many responses as contexts;    *)
(* or it gives up, or brings another number of them and is refused, and the    *)
(* contexts are gone in either case.                                         *)
begin_finalize(p) ==
  /\ calls[p].stage = "preparing"
  /\ Len(calls[p].contexts) = calls[p].count
  /\ \/ calls' = [calls EXCEPT ![p] =
          [stage |-> "finalizing", contexts |-> calls[p].contexts, tokens |-> <<>>,
           challenge |-> calls[p].challenge]]
     \/ calls' = [calls EXCEPT ![p] = Idle]
  /\ UNCHANGED <<issuer_keys, token_cache, drawn, blinded, handed_out>>

-----------------------------------------------------------------------------
(* What the network may bring: a response of some type, evaluated by some key  *)
(* over some blinded input, or damaged on its way.                            *)
Responses ==
  [token_type : {"BLIND_RSA", "PARTIALLY_BLIND_RSA", "VOPRF_P384_SHA384"},
   signer : Key, signed : blinded, intact : BOOLEAN]

(* An issuer's answer: TokenResponse::create_blind_rsa and create_voprf.       *)
answer(key, input) ==
  [token_type |-> IF kind[key] = "RSA" THEN "BLIND_RSA" ELSE "VOPRF_P384_SHA384",
   signer |-> key, signed |-> input, intact |-> TRUE]

(* The registered keys that finalize accepts for a response and a context.     *)
(* The variant stops at the first with the right id, whether its data is a key *)
(* or not.                                                                   *)
Matching(issuer, response, ctx) ==
  SelectSeq(issuer_keys[issuer],
            LAMBDA k : k.type = response.token_type /\ k.key_id = ctx.token_key_id)
FirstMatching(response, ctx) ==
  {Head(Matching(i, response, ctx)).data :
     i \in {i \in Issuer : Matching(i, response, ctx) # <<>>}} \ {Garbage}

KeysForRequest(response, ctx) ==
  {k.data : k \in {k \in UNION {ToSet(issuer_keys[i]) : i \in Issuer} :
                     /\ k.type = response.token_type
                     /\ k.key_id = ctx.token_key_id
                     /\ Decodes(k, response.token_type)}}

(* BlindRsaPublicKey::finalize and VoprfClient::finalize (external): the        *)
(* unblinded signature is verified, the evaluation's proof checked.  The       *)
(* variant unblinds and checks nothing.                                      *)
UnblindsUnchecked(response, ctx) == response.intact

Unblinds(response, ctx) ==
  response.intact /\ response.signer = ctx.token_key_id /\ response.signed = ctx

(* TokenProvider::finalize with PublicClient and PrivateClient finalize.       *)
finalize(response, ctx) ==
  IF KeysForRequest(response, ctx) = {} THEN "ISSUER_UNKNOWN"
  ELSE IF Material(ctx.token_type) # Material(response.token_type) THEN "TOKEN_MALFORMED"
  ELSE IF ~Unblinds(response, ctx) THEN "VERIFICATION_FAILED"
  ELSE "OK"

token_of(response, ctx) ==
  [token_type |-> ctx.token_type, nonce |-> ctx.nonce,
   challenge_digest |-> ctx.challenge_digest, token_key_id |-> ctx.token_key_id,
   authenticator |-> [right_size |-> TRUE, signer |-> response.signer, signed |-> response.signed]]

(* One turn of finalize_batch's loop: a failure abandons the tokens finalized   *)
(* so far and the contexts to come.                                          *)
finalize_next(p, response) ==
  LET call == calls[p]
      ctx == call.contexts[Len(call.tokens) + 1]
  IN
  /\ call.stage = "finalizing"
  /\ Len(call.tokens) < Len(call.contexts)
  /\ calls' = [calls EXCEPT ![p] =
       IF finalize(response, ctx) = "OK"
       THEN [call EXCEPT !.tokens = Append(@, token_of(response, ctx))]
       ELSE Idle]
  /\ UNCHANGED <<issuer_keys, token_cache, drawn, blinded, handed_out>>

(* How many more tokens the test in store_tokens' loop admits to a cache, and    *)
(* an off-by-one of it.                                                      *)
RoomInclusive(cache) == max_cached_tokens + 1 - Len(cache)

Room(cache) == max_cached_tokens - Len(cache)

(* What the loop leaves: the tokens are pushed in order as long as there is     *)
(* room; the others are dropped.                                             *)
Filled(cache, tokens) ==
  cache \o (IF Len(tokens) <= Room(cache) THEN tokens ELSE SubSeq(tokens, 1, Room(cache)))

(* store_tokens.                                                             *)
store_tokens(p) ==
  LET call == calls[p] IN
  /\ call.stage = "finalizing"
  /\ Len(call.tokens) = Len(call.contexts)
  /\ token_cache' = [token_cache EXCEPT ![call.challenge.digest] = Filled(@, call.tokens)]
  /\ calls' = [calls EXCEPT ![p] = Idle]
  /\ UNCHANGED <<issuer_keys, drawn, blinded, handed_out>>

(* What get_cached_token leaves in the cache it takes the last token of; the   *)
(* variant only looks at it.                                                 *)
StillThere(cache) == cache

Popped(cache) == Front(cache)

get_cached_token(digest) ==
  /\ token_cache[digest] # <<>>
  /\ token_cache' = [token_cache EXCEPT ![digest] = Popped(@)]
  /\ handed_out' = handed_out \cup {Last(token_cache[digest])}
  /\ UNCHANGED <<issuer_keys, calls, drawn, blinded>>

clear_cache ==
  /\ token_cache' = [d \in Challenge |-> <<>>]
  /\ UNCHANGED <<issuer_keys, calls, drawn, blinded, handed_out>>

Next ==
  \/ \E issuer \in Issuer, key \in PublicKey : add_issuer_key(issuer, key)
  \/ \E issuer \in Issuer : remove_issuer(issuer)
  \/ \E p \in Thread, challenge \in TokenChallenge, count \in 1..MaxBatch :
       begin_prepare(p, challenge, count)
  \/ \E p \in Thread : prepare_request(p) \/ begin_finalize(p) \/ store_tokens(p)
  \/ \E p \in Thread : \E response \in Responses : finalize_next(p, response)
  \/ \E digest \in Challenge : get_cached_token(digest)
  \/ clear_cache

Spec == Init /\ [][Next]_vars

-----------------------------------------------------------------------------
Contexts ==
  [token_type : RsaTypes \cup VoprfTypes, nonce : Nonce, challenge_digest : Challenge,
   token_key_id : Key]

(* The tokens in somebody's hands, as sequences: of each batch being finalized, *)
(* and of each cache.                                                        *)
BatchTokens(p) == IF calls[p].stage = "finalizing" THEN calls[p].tokens ELSE <<>>
Holdings ==
  {<<p, BatchTokens(p)>> : p \in Thread} \cup {<<d, token_cache[d]>> : d \in Challenge}

AllTokens == handed_out \cup UNION {ToSet(h[2]) : h \in Holdings}

(* A digest's cache holds max_cached_tokens tokens at the most, whatever the    *)
(* batches that several threads store into it.                                *)
TypeOK ==
  /\ issuer_keys \in [Issuer -> Seq(PublicKey)]
  /\ token_cache \in [Challenge -> Seq(Tokens)]
  /\ \A d \in Challenge : Len(token_cache[d]) <= max_cached_tokens
  /\ handed_out \subseteq Tokens
  /\ drawn \subseteq Nonce
  /\ blinded \subseteq Contexts
  /\ \A p \in Thread :
       \/ calls[p] = Idle
       \/ /\ calls[p].stage \in {"preparing", "finalizing"}
          /\ calls[p].challenge \in TokenChallenge
          /\ ToSet(calls[p].contexts) \subseteq blinded
          /\ calls[p].stage = "finalizing" =>
               calls[p].tokens \in Seq(Tokens) /\ Len(calls[p].tokens) <= Len(calls[p].contexts)

(* Every token that the provider has made, keeps or has handed out is one that  *)
(* an origin trusting its key would accept: the key it names signed exactly     *)
(* its own fields, whatever responses the network brought to whichever         *)
(* context (finalize, PublicClient::finalize, PrivateClient::finalize).       *)
HeldTokensAreGenuine ==
  \A token \in AllTokens :
    verifies(token.token_key_id, token) /\ authenticator_input(token) \in blinded

(* A token is in one place only: no two batches, caches or positions hold the  *)
(* same token, and one that was handed out is nowhere else, so that none is    *)
(* ever handed out twice (get_cached_token, store_tokens; allow_token_reuse    *)
(* is read nowhere).                                                         *)
NoTokenInTwoPlaces ==
  /\ \A h \in Holdings : \A i, j \in 1..Len(h[2]) : h[2][i] = h[2][j] => i = j
  /\ \A h, g \in Holdings : h # g => ToSet(h[2]) \cap ToSet(g[2]) = {}
  /\ \A h \in Holdings : ToSet(h[2]) \cap handed_out = {}

(* "Find the key used for this request" (token_provider.cpp:211): the issuer's   *)
(* answer to a request is finalized exactly as long as the key that             *)
(* prepare_request used is registered, whatever else was registered under the  *)
(* same id in the meantime; a key withdrawn while the batch was under way       *)
(* finalizes nothing more (add_issuer_key, remove_issuer, finalize).           *)
FindsRequestKey ==
  \A p \in Thread : calls[p].stage = "finalizing" =>
    \A ctx \in ToSet(calls[p].contexts) :
      finalize(answer(ctx.token_key_id, ctx), ctx) = "OK" <=>
        \E i \in Issuer :
          [type |-> ctx.token_type, key_id |-> ctx.token_key_id, data |-> ctx.token_key_id]
            \in ToSet(issuer_keys[i])
=============================================================================
