----------------------------- MODULE IssuanceProofs -----------------------------
(***************************************************************************)
(* Theorems about Issuance, for every set of threads, keys and challenges and  *)
(* every way the blinded inputs fit the keys: the composed system implements   *)
(* the issuer's and the client's specifications, whose theorems therefore     *)
(* hold of it, and the tokens that come out are accepted.                     *)
(***************************************************************************)
EXTENDS Issuance, SequenceTheorems, WellFoundedInduction, TLAPS

TP == INSTANCE TokenProviderProofs WITH
  issuer_keys <- registered, MaxKeys <- MaxRegistered,
  Issuer <- {issuer}, origin_name <- "", Garbage <- Undigestible,
  PublicKey <- Registrations

-----------------------------------------------------------------------------
(* The issuer: MultiKeyIssuer with any keys, whoever sends the requests.       *)

(* The set of the elements of a sequence.                                     *)
LEMMA ToSetByIndex ==
  ASSUME NEW S, NEW s \in Seq(S)
  PROVE  /\ Server!ToSet(s) = {s[i] : i \in 1..Len(s)}
         /\ Server!ToSet(s) \subseteq S
BY DEF Server!ToSet

LEMMA ToSetAppend ==
  ASSUME NEW S, NEW s \in Seq(S), NEW e \in S
  PROVE  Server!ToSet(Append(s, e)) = Server!ToSet(s) \cup {e}
<1> DEFINE t == Append(s, e)
<1>1. /\ t \in Seq(S) /\ Len(t) = Len(s) + 1
      /\ \A i \in 1..Len(s) : t[i] = s[i]
      /\ t[Len(s) + 1] = e
  BY AppendProperties
<1>2. Len(s) \in Nat
  OBVIOUS
<1> HIDE DEF t
<1>3. Server!ToSet(t) = {t[i] : i \in 1..Len(t)} /\ Server!ToSet(s) = {s[i] : i \in 1..Len(s)}
  BY <1>1, ToSetByIndex
<1> QED
  BY <1>1, <1>2, <1>3 DEF t

(* The smallest element of a non-empty set of positions.                      *)
LEMMA FirstPosition ==
  ASSUME NEW I \in SUBSET Nat, I # {}
  PROVE  Server!Min(I) \in I /\ \A j \in I : Server!Min(I) <= j
<1> DEFINE R == {ss \in Nat \X Nat : ss[1] < ss[2]}
<1>1. IsWellFoundedOn(R, Nat)
  BY NatLessThanWellFounded DEF OpToRel
<1>2. PICK i \in I : \A j \in I : ~(<<j, i>> \in R)
  <2> HIDE DEF R
  <2> QED
    BY <1>1, WFMin
<1>3. ASSUME NEW j \in I, j < i
      PROVE  FALSE
  <2>1. <<j, i>> \in Nat \X Nat /\ <<j, i>>[1] < <<j, i>>[2]
    BY <1>3
  <2>2. <<j, i>> \in R
    BY <2>1, Zenon
  <2> QED
    BY <1>2, <2>2
<1>4. \A j \in I : i <= j
  BY <1>3
<1> QED
  BY <1>4 DEF Server!Min

-----------------------------------------------------------------------------
(* Its inductive invariant.  ListsMatchIssuers alone does not say that what a   *)
(* removal by byte erases is what the interface forgets: the third conjunct     *)
(* does.                                                                     *)
ServerInv ==
  /\ Server!TypeOK
  /\ keys_by_truncated_id \in [Server!Kinds -> [Server!Byte -> Seq(Key)]]
  /\ Server!ListsMatchIssuers
  /\ issuing = issuers

(* Its constants are as Issuance assumes them.                               *)
LEMMA IssuerAssumed == Server!IssuerAssumption
BY IssuanceAssumption DEF Server!IssuerAssumption, Server!Kinds

LEMMA ServerInitEstablishes ==
  ASSUME Server!IssuerAssumption
  PROVE  Server!Init => ServerInv
<1> SUFFICES ASSUME Server!Init PROVE ServerInv
  OBVIOUS
<1>1. keys_by_truncated_id = [k \in Server!Kinds |-> [b \in Server!Byte |-> <<>>]] /\ issuers = {} /\ issuing = {}
  BY DEF Server!Init
<1>2. \A S : <<>> \in Seq(S)
  OBVIOUS
<1>3. \A k \in Server!Kinds : keys_by_truncated_id[k] \in [Server!Byte -> Seq(Server!KeysOf(k))]
  BY <1>1, <1>2
<1>4. keys_by_truncated_id \in [Server!Kinds -> [Server!Byte -> Seq(Key)]]
  BY <1>1, <1>2
<1>5. Server!ListsMatchIssuers
  BY <1>1 DEF Server!ListsMatchIssuers, Server!ToSet
<1> QED
  BY <1>1, <1>3, <1>4, <1>5 DEF ServerInv, Server!TypeOK

(* Adding a key files it, once more if need be, under its own byte.            *)
LEMMA ServerAddKeyPreserves ==
  ASSUME Server!IssuerAssumption, ServerInv, NEW key \in Key, Server!add_key(key)
  PROVE  ServerInv'
<1> DEFINE k0 == kind[key]
           b0 == truncated[key]
           old == keys_by_truncated_id[k0][b0]
<1>1. k0 \in Server!Kinds /\ b0 \in Server!Byte /\ key \in Server!KeysOf(k0)
  BY DEF Server!IssuerAssumption, Server!Byte, Server!KeysOf
<1>2. /\ issuers' = issuers \cup {key}
      /\ issuing' = issuing \cup {key}
      /\ keys_by_truncated_id' = [keys_by_truncated_id EXCEPT ![k0][b0] = Append(@, key)]
  BY DEF Server!add_key, Server!FiledWith
<1>3. old \in Seq(Server!KeysOf(k0)) /\ old \in Seq(Key)
  BY <1>1 DEF ServerInv, Server!TypeOK
<1>4. /\ Append(old, key) \in Seq(Server!KeysOf(k0)) /\ Append(old, key) \in Seq(Key)
      /\ Server!ToSet(Append(old, key)) = Server!ToSet(old) \cup {key}
  BY <1>1, <1>3, AppendProperties, ToSetAppend
<1>5. keys_by_truncated_id \in [Server!Kinds -> [Server!Byte -> Seq(Key)]]
  BY DEF ServerInv
<1>6. /\ keys_by_truncated_id' \in [Server!Kinds -> [Server!Byte -> Seq(Key)]]
      /\ \A k \in Server!Kinds, b \in Server!Byte :
           keys_by_truncated_id'[k][b] =
             IF k = k0 /\ b = b0 THEN Append(old, key) ELSE keys_by_truncated_id[k][b]
  BY <1>1, <1>2, <1>4, <1>5
<1> HIDE DEF old
<1>7. Server!TypeOK'
  <2>1. \A k \in Server!Kinds, b \in Server!Byte : keys_by_truncated_id'[k][b] \in Seq(Server!KeysOf(k))
    BY <1>4, <1>6 DEF ServerInv, Server!TypeOK
  <2>2. \A k \in Server!Kinds : keys_by_truncated_id'[k] \in [Server!Byte -> Seq(Server!KeysOf(k))]
    BY <1>6, <2>1
  <2> QED
    BY <1>2, <2>2 DEF ServerInv, Server!TypeOK, Server!KeysOf
<1>8. Server!ListsMatchIssuers'
  BY <1>1, <1>2, <1>4, <1>6 DEF ServerInv, Server!ListsMatchIssuers, old
<1> QED
  BY <1>2, <1>6, <1>7, <1>8 DEF ServerInv

(* Removing a byte takes every key with this byte from both maps, and no other. *)
LEMMA ServerRemoveKeyPreserves ==
  ASSUME Server!IssuerAssumption, ServerInv, NEW byte \in Server!Byte, Server!remove_key(byte)
  PROVE  ServerInv'
<1>1. Server!Erased(byte) = {key \in issuers : truncated[key] = byte}
  <2>1. \A key \in issuers : kind[key] \in Server!Kinds
    BY DEF ServerInv, Server!TypeOK, Server!IssuerAssumption
  <2>2. \A k \in Server!Kinds :
          Server!ToSet(keys_by_truncated_id[k][byte])
            = {key \in issuers : kind[key] = k /\ truncated[key] = byte}
    BY DEF ServerInv, Server!ListsMatchIssuers
  <2> QED
    BY <2>1, <2>2 DEF Server!Erased
<1>2. /\ issuers' = {key \in issuers : truncated[key] # byte}
      /\ issuing' = {key \in issuing : truncated[key] # byte}
  BY <1>1 DEF Server!remove_key
<1>3. keys_by_truncated_id' = [k \in Server!Kinds |-> [keys_by_truncated_id[k] EXCEPT ![byte] = <<>>]]
  BY DEF Server!remove_key
<1>4. \A S : <<>> \in Seq(S)
  OBVIOUS
<1>5. \A k \in Server!Kinds :
        /\ keys_by_truncated_id'[k] \in [Server!Byte -> Seq(Key)]
        /\ \A b \in Server!Byte :
             keys_by_truncated_id'[k][b] = IF b = byte THEN <<>> ELSE keys_by_truncated_id[k][b]
  BY <1>3, <1>4 DEF ServerInv
<1>6. keys_by_truncated_id' \in [Server!Kinds -> [Server!Byte -> Seq(Key)]]
  BY <1>3, <1>5
<1>7. Server!TypeOK'
  <2>1. \A k \in Server!Kinds, b \in Server!Byte : keys_by_truncated_id'[k][b] \in Seq(Server!KeysOf(k))
    BY <1>4, <1>5 DEF ServerInv, Server!TypeOK
  <2>2. \A k \in Server!Kinds : keys_by_truncated_id'[k] \in [Server!Byte -> Seq(Server!KeysOf(k))]
    BY <1>5, <2>1
  <2> QED
    BY <1>2, <2>2 DEF ServerInv, Server!TypeOK
<1>8. Server!ListsMatchIssuers'
  <2>1. Server!ToSet(<<>>) = {}
    BY DEF Server!ToSet
  <2> QED
    BY <1>2, <1>5, <2>1 DEF ServerInv, Server!ListsMatchIssuers
<1> QED
  BY <1>2, <1>6, <1>7, <1>8 DEF ServerInv

LEMMA ServerStepPreserves ==
  ASSUME Server!IssuerAssumption
  PROVE  ServerInv /\ [Server!Next]_serverVars => ServerInv'
<1> SUFFICES ASSUME ServerInv, [Server!Next]_serverVars PROVE ServerInv'
  OBVIOUS
<1>1. ASSUME NEW key \in Key, Server!add_key(key)
      PROVE  ServerInv'
  BY <1>1, ServerAddKeyPreserves
<1>2. ASSUME NEW byte \in Server!Byte, Server!remove_key(byte)
      PROVE  ServerInv'
  BY <1>2, ServerRemoveKeyPreserves
<1>3. CASE UNCHANGED serverVars
  BY <1>3 DEF serverVars, ServerInv, Server!TypeOK, Server!ListsMatchIssuers
<1> QED
  BY <1>1, <1>2, <1>3 DEF Server!Next

-----------------------------------------------------------------------------
(* A list that holds an answering key makes `issue` answer with a key of the    *)
(* list, whichever of its keys comes first.                                  *)
LEMMA FirstCandidateAnswers ==
  ASSUME ServerInv, NEW key \in issuers, NEW request \in Server!RequestsFor(key),
         kind \in [Key -> Server!Kinds], truncated[key] \in Server!Byte
  PROVE  LET response == Server!issue(request) IN
         /\ "signer" \in DOMAIN response
         /\ response.signer \in issuers
         /\ kind[response.signer] = kind[key]
<1> DEFINE k0 == kind[key]
           b0 == truncated[key]
           filed == keys_by_truncated_id[k0][b0]
           I == {i \in 1..Len(filed) : filed[i] \in issuers /\ Server!answers(filed[i], request)}
<1>1. key \in Key /\ k0 \in Server!Kinds
  BY DEF ServerInv, Server!TypeOK
<1>2. /\ request.truncated_token_key_id = b0
      /\ request.token_type \in Server!RequestTypes(k0)
      /\ key \in fits[request.blinded_msg]
  BY DEF Server!RequestsFor
<1>3. Server!kind_for(request.token_type) = k0 /\ k0 # "NONE"
  BY <1>1, <1>2 DEF Server!kind_for, Server!RequestTypes, Server!Kinds
<1>4. filed \in Seq(Server!KeysOf(k0)) /\ key \in Server!ToSet(filed)
  BY <1>1 DEF ServerInv, Server!TypeOK, Server!ListsMatchIssuers
<1>5. PICK i \in 1..Len(filed) : filed[i] = key
  BY <1>4, ToSetByIndex
<1>6. I # {} /\ I \in SUBSET Nat
  BY <1>2, <1>5 DEF Server!answers
<1>7. Server!Min(I) \in I
  BY <1>6, FirstPosition
<1>8. filed[Server!Min(I)] \in issuers /\ kind[filed[Server!Min(I)]] = k0 /\ Server!Min(I) # 0
  <2>1. ASSUME NEW m \in I
        PROVE  filed[m] \in issuers /\ kind[filed[m]] = k0 /\ m # 0
    <3>1. filed[m] \in Server!KeysOf(k0)
      BY <1>4
    <3> QED
      BY <3>1 DEF Server!KeysOf
  <2> QED
    BY <1>7, <2>1
<1>9. Server!SelectInSeq(filed, LAMBDA x : x \in issuers /\ Server!answers(x, request)) = Server!Min(I)
  BY <1>6 DEF Server!SelectInSeq
<1> HIDE DEF I
<1>10. Server!issue(request) =
         [token_type |-> Server!response_type(filed[Server!Min(I)]), signer |-> filed[Server!Min(I)],
          blinded_msg |-> request.blinded_msg]
  BY <1>2, <1>3, <1>8, <1>9 DEF Server!issue, Server!Candidates
<1> QED
  BY <1>8, <1>10

(* An answer that is no error repeats the request's message, signed by one of   *)
(* the issuers, with the type that response_type gives it.                    *)
LEMMA AnswerIsAnIssuers ==
  ASSUME ServerInv, NEW request, request.truncated_token_key_id \in Server!Byte,
         LET response == Server!issue(request) IN "signer" \in DOMAIN response
  PROVE  LET response == Server!issue(request) IN
         /\ response.signer \in issuers
         /\ response.blinded_msg = request.blinded_msg
         /\ response.token_type = Server!response_type(response.signer)
<1> DEFINE type == Server!kind_for(request.token_type)
           filed == keys_by_truncated_id[type][request.truncated_token_key_id]
           I == {i \in 1..Len(filed) : filed[i] \in issuers /\ Server!answers(filed[i], request)}
<1>1. "signer" \in DOMAIN Server!issue(request)
  OBVIOUS
<1>2. \A e : "signer" \notin DOMAIN [error |-> e]
  OBVIOUS
<1>3. type # "NONE"
  BY <1>1, <1>2 DEF Server!issue
<1>4. type \in Server!Kinds
  BY <1>3 DEF Server!kind_for, Server!Kinds
<1>5. filed \in Seq(Key)
  BY <1>4 DEF ServerInv
<1>6. Server!SelectInSeq(filed, LAMBDA x : x \in issuers /\ Server!answers(x, request)) # 0
  BY <1>1, <1>2, <1>3 DEF Server!issue, Server!Candidates
<1>7. I # {} /\ Server!SelectInSeq(filed, LAMBDA x : x \in issuers /\ Server!answers(x, request)) = Server!Min(I)
  BY <1>6 DEF Server!SelectInSeq
<1>8. I \in SUBSET Nat
  BY <1>5
<1>9. Server!Min(I) \in I
  BY <1>7, <1>8, FirstPosition
<1>10. filed[Server!Min(I)] \in issuers
  <2>1. \A m \in I : filed[m] \in issuers
    OBVIOUS
  <2> QED
    BY <1>9, <2>1
<1> HIDE DEF I
<1>11. Server!issue(request) =
         [token_type |-> Server!response_type(filed[Server!Min(I)]), signer |-> filed[Server!Min(I)],
          blinded_msg |-> request.blinded_msg]
  BY <1>3, <1>6, <1>7 DEF Server!issue, Server!Candidates
<1> HIDE DEF filed
<1> QED
  BY <1>10, <1>11

LEMMA ServerInvServes == ServerInv => Server!LiveKeysServe
<1> SUFFICES ASSUME ServerInv, NEW key \in issuing, NEW request \in Server!RequestsFor(key)
             PROVE  LET response == Server!issue(request) IN
                    /\ "signer" \in DOMAIN response
                    /\ response.signer \in issuing
                    /\ kind[response.signer] = kind[key]
  BY DEF Server!LiveKeysServe
<1>1. key \in issuers /\ issuing = issuers /\ key \in Key
  BY DEF ServerInv, Server!TypeOK
<1>2. truncated[key] \in Server!Byte /\ kind \in [Key -> Server!Kinds]
  BY <1>1, IssuerAssumed DEF Server!Byte, Server!IssuerAssumption
<1> QED
  BY <1>1, <1>2, FirstCandidateAnswers

LEMMA ServerInvariance == Server!Spec => []ServerInv
<1>1. Server!Init => ServerInv
  BY IssuerAssumed, ServerInitEstablishes
<1>2. ServerInv /\ [Server!Next]_(Server!vars) => ServerInv'
  BY IssuerAssumed, ServerStepPreserves DEF serverVars, Server!vars
<1> QED
  BY <1>1, <1>2, PTL DEF Server!Spec

(* MultiKeyIssuer on its own, whoever sends the requests: the lists by truncated *)
(* id and the map by full id agree for ever; in particular the removal of a    *)
(* byte erases every key that was filed under it                              *)
(* (add_blind_rsa_key, add_voprf_key, remove_key).                            *)
THEOREM ListsAlwaysMatch == Server!Spec => []Server!ListsMatchIssuers
<1>1. ServerInv => Server!ListsMatchIssuers
  BY DEF ServerInv
<1> QED
  BY <1>1, ServerInvariance, PTL

(* And every request that a live key can answer is answered, by a live key of   *)
(* its kind, whatever other keys share its byte (issue).                      *)
THEOREM LiveKeysAlwaysServe == Server!Spec => []Server!LiveKeysServe
BY ServerInvariance, ServerInvServes, PTL

-----------------------------------------------------------------------------
(* The client: the instance that Issuance is made of and the one that           *)
(* TokenProviderProofs is about define the same actions and properties.       *)
LEMMA ProviderIsTP ==
  /\ Provider!Init <=> TP!Init
  /\ \A name, key : Provider!add_issuer_key(name, key) <=> TP!add_issuer_key(name, key)
  /\ \A name : Provider!remove_issuer(name) <=> TP!remove_issuer(name)
  /\ \A p, challenge, count :
       Provider!begin_prepare(p, challenge, count) <=> TP!begin_prepare(p, challenge, count)
  /\ \A p : Provider!prepare_request(p) <=> TP!prepare_request(p)
  /\ \A p : Provider!begin_finalize(p) <=> TP!begin_finalize(p)
  /\ \A p, response : Provider!finalize_next(p, response) <=> TP!finalize_next(p, response)
  /\ \A p : Provider!store_tokens(p) <=> TP!store_tokens(p)
  /\ \A digest : Provider!get_cached_token(digest) <=> TP!get_cached_token(digest)
  /\ Provider!TypeOK <=> TP!TypeOK
<1>1. Provider!Idle = TP!Idle
  BY DEF Provider!Idle, TP!Idle
<1>2. Provider!Init <=> TP!Init
  BY <1>1 DEF Provider!Init, TP!Init
<1>3. ASSUME NEW name, NEW key
      PROVE  Provider!add_issuer_key(name, key) <=> TP!add_issuer_key(name, key)
  BY DEF Provider!add_issuer_key, TP!add_issuer_key
<1>4. ASSUME NEW name
      PROVE  Provider!remove_issuer(name) <=> TP!remove_issuer(name)
  BY DEF Provider!remove_issuer, TP!remove_issuer
<1>5. ASSUME NEW p, NEW challenge, NEW count
      PROVE  Provider!begin_prepare(p, challenge, count) <=> TP!begin_prepare(p, challenge, count)
  BY DEF Provider!begin_prepare, TP!begin_prepare
<1>6. ASSUME NEW name, NEW type
      PROVE  Provider!find_key(name, type) = TP!find_key(name, type)
  BY DEF Provider!find_key, TP!find_key, Provider!SelectInSeq, TP!SelectInSeq, Provider!Min, TP!Min
<1>7. ASSUME NEW type
      PROVE  Provider!Material(type) = TP!Material(type)
  BY DEF Provider!Material, TP!Material, Provider!RsaTypes, TP!RsaTypes
<1>8. ASSUME NEW key, NEW type
      PROVE  Provider!Decodes(key, type) <=> TP!Decodes(key, type)
  BY <1>7 DEF Provider!Decodes, TP!Decodes
<1>9. ASSUME NEW challenge
      PROVE  Provider!admission(challenge) = TP!admission(challenge)
  BY <1>6, <1>7, <1>8
     DEF Provider!admission, TP!admission, Provider!origin_info_allows, TP!origin_info_allows,
         Provider!Digestible, TP!Digestible
<1>10. ASSUME NEW challenge, NEW nonce
       PROVE  Provider!context(challenge, nonce) = TP!context(challenge, nonce)
  BY <1>6 DEF Provider!context, TP!context
<1>11. ASSUME NEW p
       PROVE  Provider!prepare_request(p) <=> TP!prepare_request(p)
  BY <1>1, <1>9, <1>10 DEF Provider!prepare_request, TP!prepare_request
<1>12. ASSUME NEW p
       PROVE  Provider!begin_finalize(p) <=> TP!begin_finalize(p)
  BY <1>1 DEF Provider!begin_finalize, TP!begin_finalize
<1>13. ASSUME NEW response, NEW ctx
       PROVE  Provider!finalize(response, ctx) = TP!finalize(response, ctx)
  BY <1>7, <1>8
     DEF Provider!finalize, TP!finalize, Provider!Unblinds, TP!Unblinds,
         Provider!KeysForRequest, TP!KeysForRequest, Provider!ToSet, TP!ToSet
<1>14. ASSUME NEW p, NEW response
       PROVE  Provider!finalize_next(p, response) <=> TP!finalize_next(p, response)
  BY <1>1, <1>13 DEF Provider!finalize_next, TP!finalize_next, Provider!token_of, TP!token_of
<1>15. ASSUME NEW p
       PROVE  Provider!store_tokens(p) <=> TP!store_tokens(p)
  BY <1>1 DEF Provider!store_tokens, TP!store_tokens, Provider!Filled, TP!Filled,
              Provider!Room, TP!Room
<1>16. ASSUME NEW digest
       PROVE  Provider!get_cached_token(digest) <=> TP!get_cached_token(digest)
  BY DEF Provider!get_cached_token, TP!get_cached_token, Provider!Popped, TP!Popped,
         Provider!Front, TP!Front, Provider!Last, TP!Last
<1>17. Provider!TypeOK <=> TP!TypeOK
  BY <1>1
     DEF Provider!TypeOK, TP!TypeOK, Provider!Tokens, TP!Tokens, Provider!Inputs, TP!Inputs,
         Provider!Contexts, TP!Contexts, Provider!SizedTypes, TP!SizedTypes,
         Provider!RsaTypes, TP!RsaTypes, Provider!VoprfTypes, TP!VoprfTypes,
         Provider!ToSet, TP!ToSet
<1> QED
  BY <1>2, <1>3, <1>4, <1>5, <1>11, <1>12, <1>14, <1>15, <1>16, <1>17

(* What the two components' theorems assume of their constants.               *)
LEMMA ComponentsAssumed ==
  /\ Server!IssuerAssumption
  /\ Registrations \subseteq [type : TP!SizedTypes, key_id : Key, data : Key \cup {Undigestible}]
  /\ \A k \in Registrations : k.data \in {k.key_id, Undigestible}
  /\ \A c \in TokenChallenge :
       c.digest \in TP!Expected /\ c.token_type \in TP!SizedTypes /\ c.issuer_name \in {issuer}
  /\ kind \in [Key -> {"RSA", "VOPRF"}]
  /\ max_cached_tokens \in Nat /\ MaxRegistered \in Nat /\ MaxBatch \in Nat
<1>1. SizedTypes = TP!SizedTypes /\ Expected = TP!Expected
  BY DEF SizedTypes, TP!SizedTypes, RsaTypes, TP!RsaTypes, VoprfTypes, TP!VoprfTypes,
         Expected, TP!Expected
<1>2. Server!IssuerAssumption /\ kind \in [Key -> {"RSA", "VOPRF"}]
  BY IssuerAssumed DEF Server!IssuerAssumption, Server!Kinds
<1>3. /\ Registrations \subseteq [type : SizedTypes, key_id : Key, data : Key \cup {Undigestible}]
      /\ \A k \in Registrations : k.data \in {k.key_id, Undigestible}
  BY DEF Registrations, registration
<1> QED
  BY <1>1, <1>2, <1>3, IssuanceAssumption

-----------------------------------------------------------------------------
(* The inductive invariant: those of the components, and that what the network  *)
(* keeps belongs to inputs that were blinded and to keys of the server.        *)
AnswersOK ==
  \A answer \in answers :
    /\ answer[1] \in requests
    /\ "signer" \in DOMAIN answer[2] =>
         /\ answer[2].signer \in Key
         /\ answer[2].token_type \in {"BLIND_RSA", "VOPRF_P384_SHA384"}
         /\ answer[2].blinded_msg = answer[1]

IInv ==
  /\ ServerInv
  /\ TP!IInv
  /\ requests \subseteq blinded
  /\ disturbed \subseteq blinded
  /\ AnswersOK

LEMMA InitEstablishes == Init => IInv
<1> SUFFICES ASSUME Init PROVE IInv
  OBVIOUS
<1>1. ServerInv
  BY ComponentsAssumed, ServerInitEstablishes DEF Init
<1>2. TP!IInv
  BY ProviderIsTP, ComponentsAssumed, TP!InitEstablishes DEF Init
<1> QED
  BY <1>1, <1>2 DEF Init, IInv, AnswersOK

(* What a thread has under way was blinded.                                   *)
LEMMA UnderWayBlinded ==
  ASSUME IInv, NEW p \in Thread
  PROVE  UnderWay(p) \subseteq blinded /\ UnderWay(p) \subseteq TP!Contexts
<1>1. TP!CallOK(calls[p], blinded) /\ blinded \subseteq TP!Contexts
  BY DEF IInv, TP!IInv, TP!CallsOK, TP!BlindedOK
<1>2. CASE calls[p].stage = "idle"
  BY <1>2 DEF UnderWay
<1>3. CASE calls[p].stage # "idle"
  <2>1. /\ calls[p].contexts \in Seq(TP!Contexts)
        /\ \A i \in 1..Len(calls[p].contexts) : calls[p].contexts[i] \in blinded
    BY <1>1, <1>3 DEF TP!CallOK, TP!Idle, TP!Preparing, TP!Finalizing
  <2>2. UnderWay(p) = {calls[p].contexts[i] : i \in 1..Len(calls[p].contexts)}
    BY <1>3, <2>1 DEF UnderWay, Range
  <2> QED
    BY <1>1, <2>1, <2>2
<1> QED
  BY <1>2, <1>3

-----------------------------------------------------------------------------
(* Every step is one of the server's specification or leaves it alone, and one  *)
(* of the client's or leaves it alone.                                       *)
LEMMA ServerStepsOrStutters == IInv /\ [Next]_vars => [Server!Next]_serverVars
<1> SUFFICES ASSUME IInv, [Next]_vars PROVE Server!Next \/ UNCHANGED serverVars
  OBVIOUS
<1>1. CASE \E key \in Key : AddKey(key)
  BY <1>1 DEF AddKey, Server!Next
<1>2. CASE \E byte \in Server!Byte : RemoveKey(byte)
  BY <1>2 DEF RemoveKey, Server!Next
<1>3. CASE \E ctx \in requests : Answer(ctx)
  BY <1>3 DEF Answer
<1>4. CASE Forget \/ \E published \in Server!public_keys : Learn(published)
  BY <1>4 DEF Forget, Learn
<1>5. CASE \E p \in Thread : Prepare(p) \/ Send(p) \/ Finalize(p) \/ FinalizeNext(p) \/ Store(p)
  BY <1>5 DEF Prepare, Send, Finalize, FinalizeNext, Store
<1>6. CASE \E digest \in Challenge : TakeOut(digest)
  BY <1>6 DEF TakeOut
<1>7. CASE UNCHANGED vars
  BY <1>7 DEF vars
<1> QED
  BY <1>1, <1>2, <1>3, <1>4, <1>5, <1>6, <1>7 DEF Next

(* What comes back is a response that the client's network may bring.          *)
LEMMA ResponsesExpected ==
  ASSUME IInv, NEW ctx
  PROVE  ResponsesTo(ctx) \subseteq TP!Responses
<1> SUFFICES ASSUME NEW response \in ResponsesTo(ctx) PROVE response \in TP!Responses
  OBVIOUS
<1>1. PICK answer \in answers :
        /\ "signer" \in DOMAIN answer[2]
        /\ response = [token_type |-> answer[2].token_type, signer |-> answer[2].signer,
                       signed |-> answer[2].blinded_msg, intact |-> TRUE]
  BY DEF ResponsesTo
<1>2. /\ answer[2].signer \in Key
      /\ answer[2].token_type \in {"BLIND_RSA", "VOPRF_P384_SHA384"}
      /\ answer[2].blinded_msg \in blinded
  BY <1>1 DEF IInv, AnswersOK
<1> QED
  BY <1>1, <1>2 DEF TP!Responses

LEMMA PublishedRegistrable ==
  ASSUME IInv, NEW published \in Server!public_keys
  PROVE  registration(published) \in Registrations
<1>1. issuers \subseteq Key
  BY DEF IInv, ServerInv, Server!TypeOK
<1>2. PICK key \in Key : published =
        [type |-> IF kind[key] = "RSA" THEN "BLIND_RSA" ELSE "VOPRF_P384_SHA384", key_id |-> key]
  BY <1>1 DEF Server!public_keys
<1> QED
  BY <1>2 DEF Registrations, SizedTypes, RsaTypes, VoprfTypes

LEMMA ProviderStepsOrStutters == IInv /\ [Next]_vars => [TP!Next]_providerVars
<1> SUFFICES ASSUME IInv, [Next]_vars PROVE TP!Next \/ UNCHANGED providerVars
  OBVIOUS
<1>1. CASE (\E key \in Key : AddKey(key)) \/ (\E byte \in Server!Byte : RemoveKey(byte))
  BY <1>1 DEF AddKey, RemoveKey
<1>2. CASE \E ctx \in requests : Answer(ctx)
  BY <1>2 DEF Answer
<1>3. CASE Forget
  BY <1>3, ProviderIsTP DEF Forget, TP!Next
<1>4. CASE \E published \in Server!public_keys : Learn(published)
  BY <1>4, ProviderIsTP, PublishedRegistrable DEF Learn, TP!Next
<1>5. ASSUME NEW p \in Thread,
             Prepare(p) \/ Send(p) \/ Finalize(p) \/ FinalizeNext(p) \/ Store(p)
      PROVE  TP!Next \/ UNCHANGED providerVars
  <2>1. CASE Prepare(p)
    BY <2>1, ProviderIsTP DEF Prepare, TP!Next
  <2>2. CASE Send(p)
    BY <2>2 DEF Send
  <2>3. CASE Finalize(p) \/ Store(p)
    BY <2>3, ProviderIsTP DEF Finalize, Store, TP!Next
  <2>4. CASE FinalizeNext(p)
    <3>1. PICK response \in TP!Responses : TP!finalize_next(p, response)
      BY <2>4, ProviderIsTP, ResponsesExpected DEF FinalizeNext
    <3> QED
      BY <3>1 DEF TP!Next
  <2> QED
    BY <1>5, <2>1, <2>2, <2>3, <2>4
<1>6. CASE \E digest \in Challenge : TakeOut(digest)
  BY <1>6, ProviderIsTP DEF TakeOut, TP!Next
<1>7. CASE UNCHANGED vars
  BY <1>7 DEF vars
<1> QED
  BY <1>1, <1>2, <1>3, <1>4, <1>5, <1>6, <1>7 DEF Next

LEMMA BlindedGrows == [TP!Next]_providerVars => blinded \subseteq blinded'
<1> SUFFICES ASSUME [TP!Next]_providerVars PROVE blinded \subseteq blinded'
  OBVIOUS
<1>1. ASSUME NEW p, TP!prepare_request(p)
      PROVE  blinded \subseteq blinded'
  BY <1>1 DEF TP!prepare_request
<1>2. CASE TP!Next
  BY <1>1, <1>2
     DEF TP!Next, TP!add_issuer_key, TP!remove_issuer, TP!begin_prepare, TP!begin_finalize,
         TP!store_tokens, TP!finalize_next, TP!get_cached_token, TP!clear_cache
<1> QED
  BY <1>2 DEF providerVars

LEMMA NetworkPreserved ==
  IInv /\ [Next]_vars => (requests \subseteq blinded /\ disturbed \subseteq blinded /\ AnswersOK)'
<1> SUFFICES ASSUME IInv, [Next]_vars
             PROVE  (requests \subseteq blinded /\ disturbed \subseteq blinded /\ AnswersOK)'
  OBVIOUS
<1>1. blinded \subseteq blinded' /\ requests \subseteq blinded /\ disturbed \subseteq blinded
  BY ProviderStepsOrStutters, BlindedGrows DEF IInv
<1>2. \A p \in Thread : UnderWay(p) \subseteq blinded
  BY UnderWayBlinded
<1>3. \A keys : Naming(keys) \subseteq blinded
  BY <1>2 DEF Naming
<1>4. CASE UNCHANGED <<requests, answers>> /\ disturbed' \subseteq disturbed \cup blinded
  BY <1>1, <1>4 DEF IInv, AnswersOK
<1>5. CASE NetworkSettles
  BY <1>1, <1>5 DEF NetworkSettles, IInv, AnswersOK
<1>6. ASSUME NEW ctx \in requests, Answer(ctx)
      PROVE  (requests \subseteq blinded /\ disturbed \subseteq blinded /\ AnswersOK)'
  <2> DEFINE reply == Server!issue(request_of(ctx))
  <2>1. /\ answers' = answers \cup {<<ctx, reply>>}
        /\ UNCHANGED <<serverVars, providerVars, requests, disturbed>>
    BY <1>6 DEF Answer
  <2>2. ctx \in TP!Contexts
    BY DEF IInv, TP!IInv, TP!BlindedOK
  <2>3. request_of(ctx).truncated_token_key_id \in Server!Byte /\ request_of(ctx).blinded_msg = ctx
    BY <2>2 DEF request_of, TP!Contexts, Server!Byte
  <2>4. ASSUME "signer" \in DOMAIN reply
        PROVE  /\ reply.signer \in Key
               /\ reply.token_type \in {"BLIND_RSA", "VOPRF_P384_SHA384"}
               /\ reply.blinded_msg = ctx
    <3>1. /\ reply.signer \in issuers
          /\ reply.blinded_msg = ctx
          /\ reply.token_type = Server!response_type(reply.signer)
      BY <2>3, <2>4, AnswerIsAnIssuers DEF IInv
    <3>2. issuers \subseteq Key
      BY DEF IInv, ServerInv, Server!TypeOK
    <3> QED
      BY <3>1, <3>2 DEF Server!response_type
  <2> HIDE DEF reply
  <2>5. AnswersOK'
    BY <2>1, <2>4 DEF IInv, AnswersOK
  <2> QED
    BY <1>1, <2>1, <2>5
<1>7. ASSUME NEW p \in Thread, Send(p)
      PROVE  (requests \subseteq blinded /\ disturbed \subseteq blinded /\ AnswersOK)'
  <2>1. requests' = requests \cup UnderWay(p) /\ UNCHANGED <<answers, disturbed>>
    BY <1>7 DEF Send
  <2> QED
    BY <1>1, <1>2, <2>1 DEF IInv, AnswersOK
<1>8. \/ UNCHANGED <<requests, answers>> /\ disturbed' \subseteq disturbed \cup blinded
      \/ NetworkSettles
      \/ \E ctx \in requests : Answer(ctx)
      \/ \E p \in Thread : Send(p)
  <2>1. ASSUME NEW p \in Thread, Prepare(p) \/ Finalize(p) \/ FinalizeNext(p) \/ Store(p)
        PROVE  UNCHANGED <<requests, answers, disturbed>> \/ NetworkSettles
    BY <2>1 DEF Prepare, Finalize, FinalizeNext, Store, network
  <2>2. ASSUME NEW byte, RemoveKey(byte)
        PROVE  UNCHANGED <<requests, answers>> /\ disturbed' \subseteq disturbed \cup blinded
    BY <1>3, <2>2 DEF RemoveKey, network
  <2>3. ASSUME Forget
        PROVE  UNCHANGED <<requests, answers>> /\ disturbed' \subseteq disturbed \cup blinded
    BY <1>3, <2>3 DEF Forget, network
  <2>4. CASE \/ \E key \in Key : AddKey(key)
             \/ \E published \in Server!public_keys : Learn(published)
             \/ \E digest \in Challenge : TakeOut(digest)
             \/ UNCHANGED vars
    BY <2>4 DEF AddKey, Learn, TakeOut, vars, network
  <2> QED
    BY <2>1, <2>2, <2>3, <2>4 DEF Next
<1> QED
  BY <1>4, <1>5, <1>6, <1>7, <1>8

LEMMA StepPreserves == IInv /\ [Next]_vars => IInv'
<1> SUFFICES ASSUME IInv, [Next]_vars PROVE IInv'
  OBVIOUS
<1>1. ServerInv'
  BY ServerStepsOrStutters, ComponentsAssumed, ServerStepPreserves DEF IInv, serverVars, Server!vars
<1>2. TP!IInv'
  BY ProviderStepsOrStutters, ComponentsAssumed, TP!StepPreserves DEF IInv, providerVars, TP!vars
<1> QED
  BY <1>1, <1>2, NetworkPreserved DEF IInv

LEMMA Invariance == Spec => []IInv
BY InitEstablishes, StepPreserves, PTL DEF Spec

-----------------------------------------------------------------------------
(* The composed system is one of the issuer's behaviours, whatever the client   *)
(* and the network do: MultiKeyIssuer's theorems hold of it (add_blind_rsa_key, *)
(* add_voprf_key, remove_key).                                               *)
THEOREM ImplementsServer == Spec => Server!Spec
<1>1. Init => Server!Init
  BY DEF Init
<1>2. IInv /\ [Next]_vars => [Server!Next]_(Server!vars)
  BY ServerStepsOrStutters DEF serverVars, Server!vars
<1> QED
  BY <1>1, <1>2, Invariance, PTL DEF Spec, Server!Spec

(* And it is one of the client's: the network of this system brings nothing     *)
(* that the client's own specification does not expect, so TokenProvider's    *)
(* theorems hold of it (add_issuer_key to get_cached_token).                 *)
THEOREM ImplementsProvider == Spec => Provider!Spec
<1>1. Init => Provider!Init
  BY DEF Init
<1>2. Provider!Responses = TP!Responses
  BY DEF Provider!Responses, TP!Responses
<1>3. Provider!clear_cache <=> TP!clear_cache
  BY DEF Provider!clear_cache, TP!clear_cache
<1>4. IInv /\ [Next]_vars => [Provider!Next]_(Provider!vars)
  <2>1. TP!Next => Provider!Next
    BY <1>2, <1>3, ProviderIsTP DEF TP!Next, Provider!Next
  <2> QED
    BY <2>1, ProviderStepsOrStutters DEF providerVars, Provider!vars
<1> QED
  BY <1>1, <1>4, Invariance, PTL DEF Spec, Provider!Spec

(* Types of the whole: in particular the network keeps requests and answers of  *)
(* inputs that were blinded only (create_token_request, issue).               *)
THEOREM TypesAreKept == Spec => []TypeOK
<1>1. IInv => TypeOK
  <2> SUFFICES ASSUME IInv PROVE TypeOK
    OBVIOUS
  <2>1. Server!TypeOK
    BY DEF IInv, ServerInv
  <2>2. Provider!TypeOK
    BY ProviderIsTP, ComponentsAssumed, TP!InvTypeOK DEF IInv
  <2> QED
    BY <2>1, <2>2 DEF IInv, AnswersOK, TypeOK
<1> QED
  BY <1>1, Invariance, PTL

(* The issuer's maps agree while requests are on their way (add_blind_rsa_key,  *)
(* add_voprf_key, remove_key).                                               *)
THEOREM ListsKeepMatching == Spec => []ListsMatchIssuers
BY ImplementsServer, ListsAlwaysMatch, PTL DEF ListsMatchIssuers

(* A live key serves every request it could answer, whatever else is filed      *)
(* under its byte while the requests are on their way (issue).               *)
THEOREM LiveKeysKeepServing == Spec => []LiveKeysServe
BY ImplementsServer, LiveKeysAlwaysServe, PTL DEF LiveKeysServe

LEMMA InvAccepted == IInv => AcceptedWhileTrusted
<1> SUFFICES ASSUME IInv, NEW token \in handed_out,
                    kind[token.token_key_id] = "RSA" \/ token.token_key_id \in issuers
             PROVE  verdict(token, token.challenge_digest, {token.token_key_id}, issuers) = "TRUE"
  BY DEF AcceptedWhileTrusted
<1> DEFINE key == token.token_key_id
<1>1. token \in TP!Tokens /\ TP!Genuine(token, blinded)
  BY DEF IInv, TP!IInv, TP!StockOK
<1>2. PICK ctx \in blinded : TP!MadeFrom(token, ctx)
  BY <1>1 DEF TP!Genuine
<1>3. /\ ctx.token_type = token.token_type /\ ctx.token_key_id = key
      /\ verifies(key, token) /\ token.authenticator.right_size = TRUE
  BY <1>2 DEF TP!MadeFrom, TP!authenticator_input, TP!verifies, verifies, authenticator_input
<1>4. kind[key] = TP!Material(token.token_type)
  BY <1>3 DEF IInv, TP!IInv, TP!BlindedOK
<1>5. key \in Key /\ token.challenge_digest \in Challenge
  BY <1>1 DEF TP!Tokens
<1>6. digest_check(token, token.challenge_digest) = "OK"
  BY <1>5, IssuanceAssumption DEF digest_check
<1>7. CASE kind[key] = "RSA"
  <2>1. token.token_type \in RsaTypes
    BY <1>4, <1>7 DEF TP!Material, TP!RsaTypes, RsaTypes
  <2>2. validate(token) = "OK"
    BY <1>3, <2>1 DEF validate, SizedTypes
  <2>3. public_verify(token, token.challenge_digest, {key}) = "TRUE"
    BY <1>3, <1>6, <2>1, <2>2 DEF public_verify
  <2> QED
    BY <2>1, <2>3 DEF verdict
<1>8. CASE kind[key] # "RSA" /\ key \in issuers
  <2>1. kind[key] = "VOPRF"
    BY <1>5, <1>8, ComponentsAssumed
  <2>2. token.token_type = "VOPRF_P384_SHA384"
    BY <1>4, <2>1 DEF TP!Material
  <2>3. token.token_type \notin RsaTypes
    BY <2>2 DEF RsaTypes
  <2>4. validate_structure(token, token.challenge_digest) = "OK"
    BY <1>3, <1>6, <2>2 DEF validate_structure, validate, SizedTypes, VoprfTypes
  <2>5. issuer_verify(token, key) = "TRUE"
    BY <1>3, <2>2 DEF issuer_verify
  <2> QED
    BY <1>8, <2>3, <2>4, <2>5 DEF verdict
<1> QED
  BY <1>7, <1>8

(* A token that the client was handed is accepted: an RSA token by an origin     *)
(* that trusts its key, a VOPRF token as long as its issuer holds the key,     *)
(* however keys rotated and messages were delayed on the way (finalize,        *)
(* PublicOrigin::verify, PrivateIssuer::verify).                              *)
THEOREM HandedOutIsAccepted == Spec => []AcceptedWhileTrusted
BY Invariance, InvAccepted, PTL
=============================================================================
