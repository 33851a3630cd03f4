------------------------------- MODULE Issuance -------------------------------
(***************************************************************************)
(* The whole way of a token, as examples/public_issuer.cpp and the tests put   *)
(* the classes together: threads of a client application prepare requests      *)
(* with a TokenProvider, a server answers them with a MultiKeyIssuer whose     *)
(* keys rotate, the threads finalize, store and take out the tokens, and an    *)
(* origin (for VOPRF the issuer) verifies them.  Of the origin only the        *)
(* verdict matters here, which depends on nothing but the keys it trusts       *)
(* (Origin.tla, VerdictFollowsLiveKeys).                                     *)
(*                                                                         *)
(* The client learns of keys by what the issuer publishes, in its own time.    *)
(* The network is external: it keeps the requests and answers of each batch    *)
(* under way, so both may arrive late, repeatedly and out of order, but an      *)
(* answer comes back to the request it was given for, as over HTTP, and        *)
(* reaches nobody once the batch is over.  Lost and damaged answers are in      *)
(* TokenProvider's own run.                                                  *)
(***************************************************************************)
EXTENDS Integers, Sequences, FiniteSets, Functions, TokenVerification

CONSTANTS
  Thread,
  TokenChallenge,   (* challenges of the origin                              *)
  issuer,           (* the issuer's name                                     *)
  kind,             (* key -> "RSA" or "VOPRF"                               *)
  truncated,        (* key -> the last byte of its id                        *)
  fits,             (* blinded input -> the keys whose operation takes it    *)
  max_cached_tokens, MaxBatch,
  MaxFiled, MaxRegistered                (* bound the key changes            *)

VARIABLES
  issuers, keys_by_truncated_id, issuing,                  (* MultiKeyIssuer   *)
  registered, token_cache, calls, drawn, blinded, handed_out,  (* TokenProvider *)
  requests,         (* the requests sent, as the contexts that blinded them    *)
  answers,          (* pairs of a request and the issuer's answer            *)
  disturbed         (* history: requests whose key was withdrawn meanwhile    *)

(* What add_issuer_key of the provider is given of a published key.           *)
registration(published) == [type |-> published.type, key_id |-> published.key_id,
                            data |-> published.key_id]
Registrations == {registration([type |-> t, key_id |-> k]) : t \in SizedTypes, k \in Key}

Server == INSTANCE MultiKeyIssuer WITH live <- issuing, Blinded <- DOMAIN fits
Provider == INSTANCE TokenProvider WITH
  issuer_keys <- registered, MaxKeys <- MaxRegistered,
  Issuer <- {issuer}, origin_name <- "", Garbage <- Undigestible,
  PublicKey <- Registrations

(* What the issuer's module assumes, and the client's: challenges of the        *)
(* issuer, and a digest failure that is no key (it also stands for key data    *)
(* that decodes to nothing, which this issuer does not publish).             *)
ASSUME IssuanceAssumption ==
  /\ Server!IssuerAssumption
  /\ \A c \in TokenChallenge :
       c.digest \in Expected /\ c.token_type \in SizedTypes /\ c.issuer_name = issuer
  /\ max_cached_tokens \in Nat /\ MaxBatch \in Nat /\ MaxRegistered \in Nat
  /\ Undigestible \notin Challenge

serverVars == <<issuers, keys_by_truncated_id, issuing>>
providerVars == <<registered, token_cache, calls, drawn, blinded, handed_out>>
network == <<requests, answers>>
vars == <<serverVars, providerVars, network, disturbed>>

Init ==
  /\ Server!Init
  /\ Provider!Init
  /\ requests = {}
  /\ answers = {}
  /\ disturbed = {}

-----------------------------------------------------------------------------
(* The contexts under way that name one of the keys.                          *)
UnderWay(p) == IF calls[p].stage = "idle" THEN {} ELSE Range(calls[p].contexts)
Naming(keys) == {ctx \in UNION {UnderWay(p) : p \in Thread} : ctx.token_key_id \in keys}

(* Key rotation at the server.                                               *)
AddKey(key) ==
  /\ Server!add_key(key)
  /\ UNCHANGED <<providerVars, network, disturbed>>

RemoveKey(byte) ==
  /\ Server!remove_key(byte)
  /\ disturbed' = disturbed \cup Naming({key \in Key : truncated[key] = byte})
  /\ UNCHANGED <<providerVars, network>>

(* The server answers a request, by the request's type and truncated id.      *)
request_of(ctx) ==
  [token_type |-> ctx.token_type, truncated_token_key_id |-> truncated[ctx.token_key_id],
   blinded_msg |-> ctx]

Answer(ctx) ==
  /\ ctx \in requests
  /\ answers' = answers \cup {<<ctx, Server!issue(request_of(ctx))>>}
  /\ UNCHANGED <<serverVars, providerVars, requests, disturbed>>

-----------------------------------------------------------------------------
(* The client drops the issuer's keys, and takes in a published one.          *)
Forget ==
  /\ Provider!remove_issuer(issuer)
  /\ disturbed' = disturbed \cup Naming(Key)
  /\ UNCHANGED <<serverVars, network>>

Learn(published) ==
  /\ Provider!add_issuer_key(issuer, registration(published))
  /\ UNCHANGED <<serverVars, network, disturbed>>

Prepare(p) ==
  /\ \/ \E challenge \in TokenChallenge, count \in 1..MaxBatch :
          Provider!begin_prepare(p, challenge, count)
     \/ Provider!prepare_request(p)
  /\ UNCHANGED <<serverVars, network, disturbed>>

Prepared(p) ==
  calls[p].stage = "preparing" /\ Len(calls[p].contexts) = calls[p].count

(* The thread sends the requests of its batch.                               *)
Send(p) ==
  /\ Prepared(p)
  /\ requests' = requests \cup UnderWay(p)
  /\ UNCHANGED <<serverVars, providerVars, answers, disturbed>>

(* What has come back for a request: responses as finalize sees them, or an    *)
(* error of the server.                                                      *)
Refused(ctx) == \E answer \in answers : answer[1] = ctx /\ "error" \in DOMAIN answer[2]
ResponsesTo(ctx) ==
  {[token_type |-> answer[2].token_type, signer |-> answer[2].signer,
    signed |-> answer[2].blinded_msg, intact |-> TRUE] :
     answer \in {answer \in answers : answer[1] = ctx /\ "signer" \in DOMAIN answer[2]}}

(* Nobody waits any more for the messages of a batch that is over.             *)
NetworkSettles ==
  LET awaited == UNION {UnderWay(p)' : p \in Thread} IN
  /\ requests' = requests \cap awaited
  /\ answers' = {answer \in answers : answer[1] \in awaited}
  /\ disturbed' = disturbed \cap awaited

(* With a response to each request the thread calls finalize_batch; after an   *)
(* error it gives the batch up.                                              *)
Finalize(p) ==
  /\ Prepared(p)
  /\ Provider!begin_finalize(p)
  /\ IF calls'[p].stage = "finalizing"
     THEN \A ctx \in UnderWay(p) : ResponsesTo(ctx) # {}
     ELSE \E ctx \in UnderWay(p) : Refused(ctx)
  /\ NetworkSettles
  /\ UNCHANGED serverVars

FinalizeNext(p) ==
  /\ calls[p].stage = "finalizing" /\ Len(calls[p].tokens) < Len(calls[p].contexts)
  /\ \E response \in ResponsesTo(calls[p].contexts[Len(calls[p].tokens) + 1]) :
       Provider!finalize_next(p, response)
  /\ NetworkSettles
  /\ UNCHANGED serverVars

Store(p) ==
  /\ Provider!store_tokens(p)
  /\ NetworkSettles
  /\ UNCHANGED serverVars

TakeOut(digest) ==
  /\ Provider!get_cached_token(digest)
  /\ UNCHANGED <<serverVars, network, disturbed>>

-----------------------------------------------------------------------------
(* What an origin that trusts the keys says of a token: PublicOrigin::verify,   *)
(* or for a VOPRF token PrivateOrigin::validate_structure and the verify of    *)
(* the PrivateIssuer that holds the key, one of `held`.                       *)
verdict(token, expected, trusted, held) ==
  IF token.token_type \in RsaTypes
  THEN public_verify(token, expected, trusted \cap {token.token_key_id})
  ELSE IF validate_structure(token, expected) = "OK" /\ token.token_key_id \in held
  THEN issuer_verify(token, token.token_key_id)
  ELSE "FALSE"

Next ==
  \/ \E key \in Key : AddKey(key)
  \/ \E byte \in Server!Byte : RemoveKey(byte)
  \/ \E ctx \in requests : Answer(ctx)
  \/ Forget
  \/ \E published \in Server!public_keys : Learn(published)
  \/ \E p \in Thread : Prepare(p) \/ Send(p) \/ Finalize(p) \/ FinalizeNext(p) \/ Store(p)
  \/ \E digest \in Challenge : TakeOut(digest)

(* A client thread that waits for its batch goes on with it, and the server     *)
(* answers what it is sent.  Nobody has to change keys, prepare or redeem.    *)
ClientStep(p) == Send(p) \/ Finalize(p) \/ FinalizeNext(p) \/ Store(p)
ServerStep(p) == \E ctx \in UnderWay(p) : Answer(ctx)

Fairness == \A p \in Thread : WF_vars(ClientStep(p)) /\ WF_vars(ServerStep(p))

Spec == Init /\ [][Next]_vars /\ Fairness

-----------------------------------------------------------------------------
TypeOK ==
  /\ Server!TypeOK
  /\ Provider!TypeOK
  /\ requests \subseteq blinded
  /\ \A answer \in answers : answer[1] \in requests
  /\ disturbed \subseteq blinded

(* The issuer's two maps agree, and its live keys serve what they can, while    *)
(* requests are on their way (add_blind_rsa_key, add_voprf_key, remove_key,   *)
(* issue).                                                                   *)
ListsMatchIssuers == Server!ListsMatchIssuers
LiveKeysServe == Server!LiveKeysServe

(* A token that the client was handed is accepted: an RSA token by an origin     *)
(* that trusts its key, even after the issuer dropped it, and a VOPRF token as  *)
(* long as the issuer holds the key, however the keys rotated between the      *)
(* request, the answer and the finalization (finalize, PublicOrigin::verify,   *)
(* PrivateIssuer::verify).                                                   *)
AcceptedWhileTrusted ==
  \A token \in handed_out :
    LET key == token.token_key_id IN
    kind[key] = "RSA" \/ key \in issuers =>
      verdict(token, token.challenge_digest, {key}, issuers) = "TRUE"

(* A batch about to be sent whose keys the server files first of their kind     *)
(* under their byte ends in tokens of all its requests, unless server or       *)
(* client withdraw the key: no order of late, repeated and reordered messages  *)
(* makes it fail or wait for ever (prepare_request, issue, finalize_batch).   *)
FirstOfKind(key) ==
  LET filed == keys_by_truncated_id[kind[key]][truncated[key]] IN filed # <<>> /\ Head(filed) = key

MadeWith(p, nonce) ==
  /\ calls[p].stage = "finalizing"
  /\ \E i \in DOMAIN calls[p].tokens : calls[p].tokens[i].nonce = nonce

Served ==
  \A p \in Thread, nonce \in Nonce :
    (/\ Prepared(p)
     /\ \E ctx \in UnderWay(p) : ctx.nonce = nonce
     /\ \A ctx \in UnderWay(p) : FirstOfKind(ctx.token_key_id) /\ ctx \notin requests)
    ~> \/ \E ctx \in disturbed : ctx.nonce = nonce
       \/ MadeWith(p, nonce)
=============================================================================
