-------------------------- MODULE TokenProviderProofs --------------------------
(***************************************************************************)
(* Theorems about TokenProvider, for every set of threads, issuers, keys and   *)
(* challenges, every batch size and every bound of the caches.               *)
(***************************************************************************)
EXTENDS TokenProvider, SequenceTheorems, WellFoundedInduction, TLAPS

-----------------------------------------------------------------------------
(* The inductive invariant.                                                  *)

Preparing ==
  [stage : {"preparing"}, challenge : TokenChallenge, count : 1..MaxBatch,
   contexts : Seq(Contexts)]
Finalizing ==
  [stage : {"finalizing"}, contexts : Seq(Contexts), tokens : Seq(Tokens),
   challenge : TokenChallenge]

(* The contexts that a batch still holds.                                     *)
ContextsOf(p) == IF calls[p].stage = "idle" THEN <<>> ELSE calls[p].contexts

(* The token that finalization makes of a context: its fields, signed as such   *)
(* by the key that it names.                                                 *)
MadeFrom(token, ctx) ==
  /\ authenticator_input(token) = ctx
  /\ verifies(token.token_key_id, token)
  /\ token.authenticator.right_size = TRUE

(* A batch's contexts were blinded (are among `inputs`), under a challenge that has a digest, and     *)
(* its tokens were made from the first of them, one from each.               *)
CallOK(call, inputs) ==
  \/ call = Idle
  \/ /\ call \in Preparing \cup Finalizing
     /\ \A i \in 1..Len(call.contexts) : call.contexts[i] \in inputs
     /\ call.contexts # <<>> => call.challenge.digest \in Challenge
     /\ call.stage = "preparing" => Len(call.contexts) <= call.count
     /\ call.stage = "finalizing" =>
          /\ call.contexts # <<>>
          /\ Len(call.tokens) <= Len(call.contexts)
          /\ \A i \in 1..Len(call.tokens) : MadeFrom(call.tokens[i], call.contexts[i])

CallsOK ==
  /\ calls = [p \in Thread |-> calls[p]]
  /\ \A p \in Thread : CallOK(calls[p], blinded)

(* What was blinded was made with a drawn nonce for a key of the right kind,   *)
(* of the type that a challenge asks for.                                     *)
BlindedOK ==
  /\ drawn \subseteq Nonce
  /\ blinded \subseteq Contexts
  /\ \A ctx \in blinded :
       ctx.nonce \in drawn /\ ctx.token_key_id # Garbage
       /\ kind[ctx.token_key_id] = Material(ctx.token_type)
       /\ \E c \in TokenChallenge : c.token_type = ctx.token_type

Genuine(token, inputs) == \E ctx \in inputs : MadeFrom(token, ctx)

StockOK ==
  /\ token_cache \in [Challenge -> Seq(Tokens)]
  /\ \A d \in Challenge : Len(token_cache[d]) <= max_cached_tokens
  /\ \A d \in Challenge : \A i \in 1..Len(token_cache[d]) : Genuine(token_cache[d][i], blinded)
  /\ handed_out \subseteq Tokens
  /\ \A token \in handed_out : Genuine(token, blinded)

(* One nonce is in one place: a context of a batch, with the token made from    *)
(* it, a position of a cache, or among the tokens handed out.                *)
ContextsApart ==
  \A p, q \in Thread : \A i \in 1..Len(ContextsOf(p)), j \in 1..Len(ContextsOf(q)) :
    ContextsOf(p)[i].nonce = ContextsOf(q)[j].nonce => p = q /\ i = j
CachedApart ==
  \A d, e \in Challenge : \A i \in 1..Len(token_cache[d]), j \in 1..Len(token_cache[e]) :
    token_cache[d][i].nonce = token_cache[e][j].nonce => d = e /\ i = j
ContextsNotCached ==
  \A p \in Thread, d \in Challenge :
    \A i \in 1..Len(ContextsOf(p)), j \in 1..Len(token_cache[d]) :
      ContextsOf(p)[i].nonce # token_cache[d][j].nonce
HandedOutApart ==
  \A token \in handed_out :
    /\ \A p \in Thread : \A i \in 1..Len(ContextsOf(p)) : ContextsOf(p)[i].nonce # token.nonce
    /\ \A d \in Challenge : \A i \in 1..Len(token_cache[d]) : token_cache[d][i].nonce # token.nonce

NoncesApart == ContextsApart /\ CachedApart /\ ContextsNotCached /\ HandedOutApart

KeysOK == issuer_keys \in [Issuer -> Seq(PublicKey)]

IInv == KeysOK /\ CallsOK /\ BlindedOK /\ StockOK /\ NoncesApart

-----------------------------------------------------------------------------
(* Lemmas about the operators.                                                *)

(* The smallest element of a non-empty set of positions.                      *)
LEMMA FirstPosition ==
  ASSUME NEW I \in SUBSET Nat, I # {}
  PROVE  Min(I) \in I
<1> DEFINE R == {ss \in Nat \X Nat : ss[1] < ss[2]}
<1>1. IsWellFoundedOn(R, Nat)
  BY NatLessThanWellFounded DEF OpToRel
<1>2. PICK i \in I : \A j \in I : ~(<<j, i>> \in R)
  <2> HIDE DEF R
  <2> QED
    BY <1>1, WFMin
<1>3. ASSUME NEW j \in I, j < i
      PROVE  FALSE
  <2>1. <<j, i>> \in Nat \X Nat /\ <<j, i>>[1] < <<j, i>>[2]
    BY <1>3
  <2>2. <<j, i>> \in R
    BY <2>1, Zenon
  <2> QED
    BY <1>2, <2>2
<1>4. \A j \in I : i <= j
  BY <1>3
<1> QED
  BY <1>4 DEF Min

(* The position that find_key returns is one of a registered key of the type.  *)
LEMMA FoundKey ==
  ASSUME KeysOK, NEW issuer \in Issuer, NEW type, find_key(issuer, type) # 0
  PROVE  /\ find_key(issuer, type) \in 1..Len(issuer_keys[issuer])
         /\ issuer_keys[issuer][find_key(issuer, type)] \in PublicKey
         /\ issuer_keys[issuer][find_key(issuer, type)].type = type
<1> DEFINE keys == issuer_keys[issuer]
           I == {i \in 1..Len(keys) : keys[i].type = type}
<1>1. keys \in Seq(PublicKey)
  BY DEF KeysOK
<1>2. I # {} /\ find_key(issuer, type) = Min(I)
  BY DEF find_key, SelectInSeq
<1>3. I \in SUBSET Nat
  BY <1>1
<1>4. Min(I) \in I
  BY <1>2, <1>3, FirstPosition
<1>5. \A i \in I : i \in 1..Len(keys) /\ keys[i] \in PublicKey /\ keys[i].type = type
  BY <1>1
<1> QED
  BY <1>2, <1>4, <1>5

(* What an admitted challenge's context is.                                   *)
LEMMA AdmittedContext ==
  ASSUME KeysOK, NEW challenge \in TokenChallenge, admission(challenge) = "OK",
         NEW nonce \in Nonce
  PROVE  LET ctx == context(challenge, nonce) IN
         /\ ctx \in Contexts
         /\ ctx.nonce = nonce
         /\ ctx.token_key_id # Garbage
         /\ kind[ctx.token_key_id] = Material(ctx.token_type)
         /\ ctx.token_type = challenge.token_type
         /\ challenge.digest \in Challenge
<1> DEFINE name == challenge.issuer_name
           type == challenge.token_type
           position == find_key(name, type)
           key == issuer_keys[name][position]
<1>1. /\ name \in Issuer /\ type \in SizedTypes /\ challenge.digest \in Expected
  BY ProviderAssumption
<1>2. /\ position # 0
      /\ challenge.digest # Undigestible
      /\ Material(type) # "NONE"
      /\ Decodes(key, type)
  BY DEF admission, Digestible
<1>3. key \in PublicKey
  BY <1>1, <1>2, FoundKey
<1>4. key.data \in Key /\ key.data # Garbage /\ kind[key.data] = Material(type)
  BY <1>2, <1>3, ProviderAssumption DEF Decodes
<1>5. type \in RsaTypes \cup VoprfTypes
  BY <1>2 DEF Material, VoprfTypes
<1>6. challenge.digest \in Challenge
  BY <1>1, <1>2 DEF Expected
<1>7. context(challenge, nonce) =
        [token_type |-> type, nonce |-> nonce, challenge_digest |-> challenge.digest,
         token_key_id |-> key.data]
  BY DEF context
<1> HIDE DEF name, type, position, key
<1> QED
  BY <1>4, <1>5, <1>6, <1>7 DEF Contexts, type

(* What store_tokens' loop leaves: the cache and a prefix of the batch.        *)
LEMMA FilledWithPrefix ==
  ASSUME NEW cache \in Seq(Tokens), NEW tokens \in Seq(Tokens), Len(cache) <= max_cached_tokens
  PROVE  \E n \in 0..Len(tokens) :
           /\ Filled(cache, tokens) \in Seq(Tokens)
           /\ Len(Filled(cache, tokens)) = Len(cache) + n
           /\ Len(cache) + n <= max_cached_tokens
           /\ \A i \in 1..Len(cache) : Filled(cache, tokens)[i] = cache[i]
           /\ \A i \in 1..n : Filled(cache, tokens)[Len(cache) + i] = tokens[i]
<1> DEFINE n == IF Len(tokens) <= Room(cache) THEN Len(tokens) ELSE Room(cache)
           pushed == IF Len(tokens) <= Room(cache) THEN tokens ELSE SubSeq(tokens, 1, Room(cache))
<1>1. max_cached_tokens \in Nat /\ Len(cache) \in Nat /\ Len(tokens) \in Nat
  BY ProviderAssumption
<1>2. Room(cache) \in Nat /\ n \in 0..Len(tokens) /\ Len(cache) + n <= max_cached_tokens
  BY <1>1 DEF Room
<1>3. pushed \in Seq(Tokens) /\ Len(pushed) = n /\ \A i \in 1..n : pushed[i] = tokens[i]
  <2>1. CASE Len(tokens) <= Room(cache)
    BY <2>1
  <2>2. CASE ~(Len(tokens) <= Room(cache))
    <3>1. \A i \in 1..Room(cache) : tokens[i] \in Tokens
      BY <1>1, <1>2, <2>2
    <3>2. /\ SubSeq(tokens, 1, Room(cache)) \in Seq(Tokens)
          /\ Len(SubSeq(tokens, 1, Room(cache))) = Room(cache)
          /\ \A i \in 1..Room(cache) : SubSeq(tokens, 1, Room(cache))[i] = tokens[i]
      BY <1>2, <3>1, SubSeqProperties
    <3> QED
      BY <2>2, <3>2
  <2> QED
    BY <2>1, <2>2
<1> HIDE DEF n, pushed
<1>4. /\ cache \o pushed \in Seq(Tokens)
      /\ Len(cache \o pushed) = Len(cache) + n
      /\ \A i \in 1..Len(cache) : (cache \o pushed)[i] = cache[i]
      /\ \A i \in 1..n : (cache \o pushed)[Len(cache) + i] = pushed[i]
  <2>1. /\ cache \o pushed \in Seq(Tokens)
        /\ Len(cache \o pushed) = Len(cache) + n
        /\ \A i \in 1..Len(cache) + n :
             (cache \o pushed)[i] = IF i <= Len(cache) THEN cache[i] ELSE pushed[i - Len(cache)]
    BY <1>3, ConcatProperties
  <2>2. ASSUME NEW i \in 1..n
        PROVE  (cache \o pushed)[Len(cache) + i] = pushed[i]
    <3>1. /\ Len(cache) + i \in 1..Len(cache) + n
          /\ ~(Len(cache) + i <= Len(cache))
          /\ (Len(cache) + i) - Len(cache) = i
      BY <1>1, <1>2
    <3> QED
      BY <2>1, <3>1
  <2> QED
    BY <1>1, <1>2, <2>1, <2>2
<1>5. Filled(cache, tokens) = cache \o pushed
  BY DEF Filled, pushed
<1> QED
  BY <1>2, <1>3, <1>4, <1>5

(* What taking the last element leaves.                                       *)
LEMMA PoppedFront ==
  ASSUME NEW S, NEW s \in Seq(S), s # <<>>
  PROVE  /\ Popped(s) \in Seq(S)
         /\ Len(Popped(s)) = Len(s) - 1
         /\ \A i \in 1..(Len(s) - 1) : Popped(s)[i] = s[i]
         /\ Len(s) \in 1..Len(s) /\ Last(s) = s[Len(s)] /\ Last(s) \in S
<1>1. Len(s) \in Nat \ {0}
  BY EmptySeq
<1>2. \A i \in 1..(Len(s) - 1) : s[i] \in S
  BY <1>1
<1>3. /\ SubSeq(s, 1, Len(s) - 1) \in Seq(S)
      /\ Len(SubSeq(s, 1, Len(s) - 1)) = Len(s) - 1
      /\ \A i \in 1..(Len(s) - 1) : SubSeq(s, 1, Len(s) - 1)[i] = s[i]
  <2> DEFINE n == Len(s) - 1
  <2>1. n \in Nat
    BY <1>1
  <2>2. \A i \in 1..n : s[i] \in S /\ 1 + i - 1 = i
    BY <1>2
  <2> HIDE DEF n
  <2>3. /\ SubSeq(s, 1, n) \in Seq(S)
        /\ Len(SubSeq(s, 1, n)) = IF 1 <= n THEN n - 1 + 1 ELSE 0
        /\ \A i \in 1..(n - 1 + 1) : SubSeq(s, 1, n)[i] = s[1 + i - 1]
    BY <2>1, <2>2, SubSeqProperties
  <2>4. /\ SubSeq(s, 1, n) \in Seq(S)
        /\ Len(SubSeq(s, 1, n)) = n
        /\ \A i \in 1..n : SubSeq(s, 1, n)[i] = s[i]
    BY <2>1, <2>2, <2>3
  <2> QED
    BY <2>4 DEF n
<1> QED
  BY <1>1, <1>3 DEF Popped, Front, Last

-----------------------------------------------------------------------------
(* Lemmas about the invariant's parts.                                        *)

(* The value of `calls` after a step of one thread.                           *)
LEMMA CallReplaced ==
  ASSUME CallsOK, NEW p \in Thread, NEW new, NEW inputs, blinded \subseteq inputs,
         CallOK(new, inputs)
  PROVE  LET after == [calls EXCEPT ![p] = new] IN
         /\ after = [q \in Thread |-> after[q]]
         /\ \A q \in Thread : after[q] = IF q = p THEN new ELSE calls[q]
         /\ \A q \in Thread : CallOK(after[q], inputs)
<1>1. ASSUME NEW q \in Thread
      PROVE  CallOK(calls[q], inputs)
  BY DEF CallsOK, CallOK
<1> QED
  BY <1>1 DEF CallsOK

(* Every nonce in use was drawn.                                              *)
LEMMA NoncesWereDrawn ==
  ASSUME CallsOK, BlindedOK, StockOK
  PROVE  /\ \A p \in Thread : \A i \in 1..Len(ContextsOf(p)) : ContextsOf(p)[i].nonce \in drawn
         /\ \A d \in Challenge : \A i \in 1..Len(token_cache[d]) : token_cache[d][i].nonce \in drawn
         /\ \A token \in handed_out : token.nonce \in drawn
<1>1. ASSUME NEW p \in Thread, NEW i \in 1..Len(ContextsOf(p))
      PROVE  ContextsOf(p)[i].nonce \in drawn
  <2>1. CASE calls[p] = Idle
    BY <2>1 DEF ContextsOf, Idle
  <2>2. CASE calls[p] # Idle
    <3>1. ContextsOf(p) = calls[p].contexts
      BY <2>2 DEF CallsOK, CallOK, ContextsOf, Preparing, Finalizing
    <3> QED
      BY <2>2, <3>1 DEF CallsOK, CallOK, BlindedOK
  <2> QED
    BY <2>1, <2>2
<1>2. ASSUME NEW token, Genuine(token, blinded)
      PROVE  token.nonce \in drawn
  <2>1. PICK ctx \in blinded : MadeFrom(token, ctx)
    BY <1>2 DEF Genuine
  <2>2. token.nonce = ctx.nonce
    BY <2>1 DEF MadeFrom, authenticator_input
  <2> QED
    BY <2>2 DEF BlindedOK
<1> QED
  BY <1>1, <1>2 DEF StockOK

(* A step at which batches only end or keep their contexts keeps nonces apart.  *)
LEMMA BatchesEnd ==
  ASSUME NoncesApart, UNCHANGED <<token_cache, handed_out>>,
         \A p \in Thread : ContextsOf(p)' = ContextsOf(p) \/ ContextsOf(p)' = <<>>
  PROVE  NoncesApart'
<1>1. \A p \in Thread : \A i \in 1..Len(ContextsOf(p)') :
        i \in 1..Len(ContextsOf(p)) /\ ContextsOf(p)'[i] = ContextsOf(p)[i]
  OBVIOUS
<1>2. ContextsApart'
  BY <1>1 DEF NoncesApart, ContextsApart
<1>3. CachedApart'
  BY DEF NoncesApart, CachedApart
<1>4. ContextsNotCached'
  BY <1>1 DEF NoncesApart, ContextsNotCached
<1>5. HandedOutApart'
  BY <1>1 DEF NoncesApart, HandedOutApart
<1> QED
  BY <1>2, <1>3, <1>4, <1>5 DEF NoncesApart

-----------------------------------------------------------------------------
(* Each action preserves the invariant.                                       *)

LEMMA InitEstablishes == Init => IInv
<1> SUFFICES ASSUME Init PROVE IInv
  OBVIOUS
<1>1. \A S : <<>> \in Seq(S)
  OBVIOUS
<1>2. KeysOK
  BY <1>1 DEF Init, KeysOK
<1>3. CallsOK
  BY DEF Init, CallsOK, CallOK
<1>4. BlindedOK
  BY DEF Init, BlindedOK
<1>5. StockOK
  BY <1>1, ProviderAssumption DEF Init, StockOK
<1>6. NoncesApart
  <2>1. \A p \in Thread : ContextsOf(p) = <<>>
    BY DEF Init, ContextsOf, Idle
  <2>2. \A d \in Challenge : token_cache[d] = <<>>
    BY DEF Init
  <2> QED
    BY <2>1, <2>2
       DEF Init, NoncesApart, ContextsApart, CachedApart, ContextsNotCached, HandedOutApart
<1> QED
  BY <1>2, <1>3, <1>4, <1>5, <1>6 DEF IInv

LEMMA KeyChangePreserves ==
  ASSUME IInv, NEW issuer \in Issuer, NEW keys \in Seq(PublicKey),
         issuer_keys' = [issuer_keys EXCEPT ![issuer] = keys],
         UNCHANGED <<token_cache, calls, drawn, blinded, handed_out>>
  PROVE  IInv'
<1>1. KeysOK'
  BY DEF IInv, KeysOK
<1>2. UNCHANGED <<CallsOK, BlindedOK, StockOK, NoncesApart>>
  BY DEF CallsOK, BlindedOK, StockOK, NoncesApart, ContextsApart, CachedApart,
              ContextsNotCached, HandedOutApart, ContextsOf
<1> QED
  BY <1>1, <1>2 DEF IInv

LEMMA AddKeyPreserves ==
  ASSUME IInv, NEW issuer \in Issuer, NEW key \in PublicKey, add_issuer_key(issuer, key)
  PROVE  IInv'
<1>1. issuer_keys[issuer] \in Seq(PublicKey)
  BY DEF IInv, KeysOK
<1>2. Append(issuer_keys[issuer], key) \in Seq(PublicKey)
  BY <1>1
<1> QED
  BY <1>2, KeyChangePreserves DEF add_issuer_key

LEMMA RemoveIssuerPreserves ==
  ASSUME IInv, NEW issuer \in Issuer, remove_issuer(issuer)
  PROVE  IInv'
<1>1. <<>> \in Seq(PublicKey)
  OBVIOUS
<1> QED
  BY <1>1, KeyChangePreserves DEF remove_issuer

(* An action that only replaces a thread's batch, by one that has the same      *)
(* contexts or none.                                                         *)
LEMMA BatchChangePreserves ==
  ASSUME IInv, NEW p \in Thread, NEW new, CallOK(new, blinded),
         calls' = [calls EXCEPT ![p] = new],
         (IF new.stage = "idle" THEN <<>> ELSE new.contexts) \in {ContextsOf(p), <<>>},
         UNCHANGED <<issuer_keys, token_cache, drawn, blinded, handed_out>>
  PROVE  IInv'
<1>1. /\ calls' = [q \in Thread |-> calls'[q]]
      /\ \A q \in Thread : calls'[q] = IF q = p THEN new ELSE calls[q]
      /\ \A q \in Thread : CallOK(calls'[q], blinded)
  BY CallReplaced DEF IInv
<1>2. CallsOK'
  BY <1>1 DEF CallsOK
<1>3. \A q \in Thread : ContextsOf(q)' = ContextsOf(q) \/ ContextsOf(q)' = <<>>
  BY <1>1 DEF ContextsOf
<1>4. NoncesApart'
  BY <1>3, BatchesEnd DEF IInv
<1> QED
  BY <1>2, <1>4 DEF IInv, KeysOK, BlindedOK, StockOK

LEMMA BeginPreparePreserves ==
  ASSUME IInv, NEW p \in Thread, NEW challenge \in TokenChallenge, NEW count \in 1..MaxBatch,
         begin_prepare(p, challenge, count)
  PROVE  IInv'
<1> DEFINE new == [stage |-> "preparing", challenge |-> challenge, count |-> count,
                   contexts |-> <<>>]
<1>1. new \in Preparing
  BY DEF Preparing
<1>2. CallOK(new, blinded)
  BY <1>1 DEF CallOK
<1>3. (IF new.stage = "idle" THEN <<>> ELSE new.contexts) = <<>>
  OBVIOUS
<1> HIDE DEF new
<1>4. /\ calls' = [calls EXCEPT ![p] = new]
      /\ UNCHANGED <<issuer_keys, token_cache, drawn, blinded, handed_out>>
  BY DEF begin_prepare, new
<1> QED
  BY <1>2, <1>3, <1>4, BatchChangePreserves

LEMMA BeginFinalizePreserves ==
  ASSUME IInv, NEW p \in Thread, begin_finalize(p)
  PROVE  IInv'
<1> DEFINE new == [stage |-> "finalizing", contexts |-> calls[p].contexts, tokens |-> <<>>,
                   challenge |-> calls[p].challenge]
<1>1. /\ calls[p] \in Preparing
      /\ \A i \in 1..Len(calls[p].contexts) : calls[p].contexts[i] \in blinded
      /\ calls[p].contexts # <<>> => calls[p].challenge.digest \in Challenge
  BY DEF IInv, CallsOK, CallOK, Idle, begin_finalize, Preparing, Finalizing
<1>2. calls[p].contexts # <<>>
  BY <1>1 DEF begin_finalize, Preparing
<1>3. new \in Finalizing
  BY <1>1 DEF Preparing, Finalizing
<1>4. CallOK(new, blinded)
  BY <1>1, <1>2, <1>3 DEF CallOK
<1>5. (IF new.stage = "idle" THEN <<>> ELSE new.contexts) = ContextsOf(p)
  BY <1>1 DEF ContextsOf, Preparing
<1>6. CallOK(Idle, blinded) /\ (IF Idle.stage = "idle" THEN <<>> ELSE Idle.contexts) = <<>>
  BY DEF CallOK, Idle
<1> HIDE DEF new
<1>7. /\ calls' = [calls EXCEPT ![p] = new] \/ calls' = [calls EXCEPT ![p] = Idle]
      /\ UNCHANGED <<issuer_keys, token_cache, drawn, blinded, handed_out>>
  BY DEF begin_finalize, new
<1>8. CASE calls' = [calls EXCEPT ![p] = new]
  BY <1>4, <1>5, <1>7, <1>8, BatchChangePreserves
<1>9. CASE calls' = [calls EXCEPT ![p] = Idle]
  BY <1>6, <1>7, <1>9, BatchChangePreserves
<1> QED
  BY <1>7, <1>8, <1>9

(* What a batch's tokens and the stock were made from stays blinded.           *)
LEMMA StockKeepsGenuine ==
  ASSUME StockOK, blinded \subseteq blinded', UNCHANGED <<token_cache, handed_out>>
  PROVE  StockOK'
BY DEF StockOK, Genuine

(* prepare_request adds a context under a fresh nonce.                        *)
LEMMA ContextAddedPreserves ==
  ASSUME IInv, NEW p \in Thread, calls[p].stage = "preparing",
         Len(calls[p].contexts) < calls[p].count, admission(calls[p].challenge) = "OK",
         NEW nonce \in Nonce \ drawn,
         LET ctx == context(calls[p].challenge, nonce) IN
           /\ calls' = [calls EXCEPT ![p].contexts = Append(@, ctx)]
           /\ drawn' = drawn \cup {nonce}
           /\ blinded' = blinded \cup {ctx},
         UNCHANGED <<issuer_keys, token_cache, handed_out>>
  PROVE  IInv'
<1> DEFINE call == calls[p]
           ctx == context(call.challenge, nonce)
           new == [call EXCEPT !.contexts = Append(@, ctx)]
<1>1. /\ call \in Preparing
      /\ \A i \in 1..Len(call.contexts) : call.contexts[i] \in blinded
      /\ call.contexts # <<>> => call.challenge.digest \in Challenge
  BY DEF IInv, CallsOK, CallOK, Idle, Preparing, Finalizing
<1>2. call.challenge \in TokenChallenge /\ call.contexts \in Seq(Contexts) /\ call.count \in 1..MaxBatch
  BY <1>1 DEF Preparing
<1>3. /\ ctx \in Contexts /\ ctx.nonce = nonce /\ ctx.token_key_id # Garbage
      /\ kind[ctx.token_key_id] = Material(ctx.token_type)
      /\ ctx.token_type = call.challenge.token_type
      /\ call.challenge.digest \in Challenge
  BY <1>2, AdmittedContext DEF IInv
<1>4. /\ calls' = [calls EXCEPT ![p] = new]
      /\ blinded' = blinded \cup {ctx}
      /\ drawn' = drawn \cup {nonce}
  <2>1. calls' = [calls EXCEPT ![p].contexts = Append(@, ctx)]
    OBVIOUS
  <2> QED
    BY <2>1
<1> HIDE DEF ctx
<1>5. /\ Append(call.contexts, ctx) \in Seq(Contexts)
      /\ Len(Append(call.contexts, ctx)) = Len(call.contexts) + 1
      /\ \A i \in 1..Len(call.contexts) : Append(call.contexts, ctx)[i] = call.contexts[i]
      /\ Append(call.contexts, ctx)[Len(call.contexts) + 1] = ctx
      /\ Len(call.contexts) \in Nat
  BY <1>2, <1>3
<1>6. /\ new \in Preparing /\ new.contexts = Append(call.contexts, ctx)
      /\ new.count = call.count /\ new.challenge = call.challenge /\ new.stage = "preparing"
  BY <1>1, <1>5 DEF Preparing
<1> HIDE DEF call, new
<1>7. \A i \in 1..Len(new.contexts) : new.contexts[i] \in blinded \cup {ctx}
  <2>1. ASSUME NEW i \in 1..Len(call.contexts) + 1
        PROVE  Append(call.contexts, ctx)[i] \in blinded \cup {ctx}
    <3>1. i \in 1..Len(call.contexts) \/ i = Len(call.contexts) + 1
      BY <1>5
    <3> QED
      BY <1>1, <1>5, <3>1
  <2> QED
    BY <1>5, <1>6, <2>1
<1>8. Len(new.contexts) <= new.count
  <2>1. Len(call.contexts) < call.count
    BY DEF call
  <2> QED
    BY <1>2, <1>5, <1>6, <2>1
<1>9. CallOK(new, blinded \cup {ctx})
  BY <1>3, <1>6, <1>7, <1>8 DEF CallOK
<1>10. /\ calls' = [q \in Thread |-> calls'[q]]
       /\ \A q \in Thread : calls'[q] = IF q = p THEN new ELSE calls[q]
       /\ \A q \in Thread : CallOK(calls'[q], blinded \cup {ctx})
  <2>1. CallsOK /\ blinded \subseteq blinded \cup {ctx}
    BY DEF IInv
  <2>2. LET after == [calls EXCEPT ![p] = new] IN
        /\ after = [q \in Thread |-> after[q]]
        /\ \A q \in Thread : after[q] = IF q = p THEN new ELSE calls[q]
        /\ \A q \in Thread : CallOK(after[q], blinded \cup {ctx})
    BY <1>9, <2>1, CallReplaced
  <2> QED
    BY <1>4, <2>2
<1>11. CallsOK'
  BY <1>4, <1>10 DEF CallsOK
<1>12. BlindedOK'
  BY <1>2, <1>3, <1>4 DEF IInv, BlindedOK
<1>13. StockOK'
  BY <1>4, StockKeepsGenuine DEF IInv
<1>14. /\ \A q \in Thread : \A i \in 1..Len(ContextsOf(q)) : ContextsOf(q)[i].nonce # nonce
       /\ \A d \in Challenge : \A i \in 1..Len(token_cache[d]) : token_cache[d][i].nonce # nonce
       /\ \A token \in handed_out : token.nonce # nonce
  BY NoncesWereDrawn DEF IInv
<1>15. \A q \in Thread : q # p => ContextsOf(q)' = ContextsOf(q)
  BY <1>10 DEF ContextsOf
<1>16. /\ Len(ContextsOf(p)') = Len(ContextsOf(p)) + 1 /\ Len(ContextsOf(p)) \in Nat
       /\ \A i \in 1..Len(ContextsOf(p)) : ContextsOf(p)'[i] = ContextsOf(p)[i]
       /\ ContextsOf(p)'[Len(ContextsOf(p)) + 1] = ctx
  <2>1. ContextsOf(p) = call.contexts
    BY <1>1 DEF ContextsOf, Preparing, call
  <2>2. ContextsOf(p)' = new.contexts
    BY <1>6, <1>10 DEF ContextsOf
  <2> QED
    BY <1>5, <1>6, <2>1, <2>2
<1>17. \A q \in Thread : \A i \in 1..Len(ContextsOf(q)') :
         \/ i \in 1..Len(ContextsOf(q)) /\ ContextsOf(q)'[i] = ContextsOf(q)[i]
         \/ q = p /\ i = Len(ContextsOf(p)) + 1 /\ ContextsOf(q)'[i] = ctx
  <2>1. ASSUME NEW i \in 1..Len(ContextsOf(p)')
        PROVE  i \in 1..Len(ContextsOf(p)) \/ i = Len(ContextsOf(p)) + 1
    BY <1>16
  <2> QED
    BY <1>15, <1>16, <2>1
<1>18. ContextsApart'
  BY <1>3, <1>14, <1>17 DEF IInv, NoncesApart, ContextsApart
<1>19. CachedApart'
  BY DEF IInv, NoncesApart, CachedApart
<1>20. ContextsNotCached'
  BY <1>3, <1>14, <1>17 DEF IInv, NoncesApart, ContextsNotCached
<1>21. HandedOutApart'
  BY <1>3, <1>14, <1>17 DEF IInv, NoncesApart, HandedOutApart
<1> QED
  BY <1>11, <1>12, <1>13, <1>18, <1>19, <1>20, <1>21 DEF IInv, NoncesApart, KeysOK

LEMMA PreparePreserves ==
  ASSUME IInv, NEW p \in Thread, prepare_request(p)
  PROVE  IInv'
<1>1. CASE admission(calls[p].challenge) = "OK"
  <2>1. PICK nonce \in Nonce \ drawn :
          LET ctx == context(calls[p].challenge, nonce) IN
            /\ calls' = [calls EXCEPT ![p].contexts = Append(@, ctx)]
            /\ drawn' = drawn \cup {nonce}
            /\ blinded' = blinded \cup {ctx}
    BY <1>1 DEF prepare_request
  <2>2. /\ calls[p].stage = "preparing" /\ Len(calls[p].contexts) < calls[p].count
        /\ UNCHANGED <<issuer_keys, token_cache, handed_out>>
    BY DEF prepare_request
  <2> QED
    BY <1>1, <2>1, <2>2, ContextAddedPreserves
<1>2. CASE admission(calls[p].challenge) # "OK"
  <2>1. /\ calls' = [calls EXCEPT ![p] = Idle]
        /\ UNCHANGED <<issuer_keys, token_cache, drawn, blinded, handed_out>>
    BY <1>2 DEF prepare_request
  <2>2. CallOK(Idle, blinded) /\ (IF Idle.stage = "idle" THEN <<>> ELSE Idle.contexts) = <<>>
    BY DEF CallOK, Idle
  <2> QED
    BY <2>1, <2>2, BatchChangePreserves
<1> QED
  BY <1>1, <1>2

(* What finalization makes of a context when it succeeds.                      *)
LEMMA FinalizedToken ==
  ASSUME NEW ctx \in Contexts, NEW response, finalize(response, ctx) = "OK"
  PROVE  token_of(response, ctx) \in Tokens /\ MadeFrom(token_of(response, ctx), ctx)
<1>1. response.signer = ctx.token_key_id /\ response.signed = ctx
  BY DEF finalize, Unblinds
<1>2. ctx \in Inputs
  BY DEF Contexts, Inputs, SizedTypes
<1>3. token_of(response, ctx) =
        [token_type |-> ctx.token_type, nonce |-> ctx.nonce,
         challenge_digest |-> ctx.challenge_digest, token_key_id |-> ctx.token_key_id,
         authenticator |-> [right_size |-> TRUE, signer |-> ctx.token_key_id, signed |-> ctx]]
  BY <1>1 DEF token_of
<1>4. authenticator_input(token_of(response, ctx)) = ctx
  BY <1>3 DEF authenticator_input, Contexts
<1> QED
  BY <1>2, <1>3, <1>4 DEF Tokens, Inputs, MadeFrom, verifies

LEMMA FinalizeNextPreserves ==
  ASSUME IInv, NEW p \in Thread, NEW response, finalize_next(p, response)
  PROVE  IInv'
<1> DEFINE call == calls[p]
           n == Len(call.tokens) + 1
           ctx == call.contexts[n]
           token == token_of(response, ctx)
           new == [call EXCEPT !.tokens = Append(@, token)]
<1>1. /\ call \in Finalizing
      /\ \A i \in 1..Len(call.contexts) : call.contexts[i] \in blinded
      /\ call.contexts # <<>> => call.challenge.digest \in Challenge
      /\ call.contexts # <<>>
      /\ \A i \in 1..Len(call.tokens) : MadeFrom(call.tokens[i], call.contexts[i])
  BY DEF IInv, CallsOK, CallOK, Idle, finalize_next, Preparing, Finalizing
<1>2. call.tokens \in Seq(Tokens) /\ call.contexts \in Seq(Contexts)
  BY <1>1 DEF Finalizing
<1>3. n \in 1..Len(call.contexts)
  <2>1. Len(call.tokens) < Len(call.contexts)
    BY DEF finalize_next
  <2> QED
    BY <1>2, <2>1
<1>4. ctx \in Contexts
  BY <1>2, <1>3
<1>5. /\ \/ calls' = [calls EXCEPT ![p] = new] /\ finalize(response, ctx) = "OK"
         \/ calls' = [calls EXCEPT ![p] = Idle]
      /\ UNCHANGED <<issuer_keys, token_cache, drawn, blinded, handed_out>>
  BY DEF finalize_next
<1>6. CASE calls' = [calls EXCEPT ![p] = Idle]
  <2>1. CallOK(Idle, blinded) /\ (IF Idle.stage = "idle" THEN <<>> ELSE Idle.contexts) = <<>>
    BY DEF CallOK, Idle
  <2> QED
    BY <1>5, <1>6, <2>1, BatchChangePreserves
<1>7. CASE calls' = [calls EXCEPT ![p] = new] /\ finalize(response, ctx) = "OK"
  <2>1. token \in Tokens /\ MadeFrom(token, ctx)
    BY <1>4, <1>7, FinalizedToken
  <2> HIDE DEF token
  <2>2. /\ Append(call.tokens, token) \in Seq(Tokens)
        /\ Len(Append(call.tokens, token)) = n
        /\ \A i \in 1..n : MadeFrom(Append(call.tokens, token)[i], call.contexts[i])
    <3>1. /\ Append(call.tokens, token) \in Seq(Tokens)
          /\ Len(Append(call.tokens, token)) = n
          /\ \A i \in 1..Len(call.tokens) : Append(call.tokens, token)[i] = call.tokens[i]
          /\ Append(call.tokens, token)[n] = token
      BY <1>2, <2>1
    <3>2. \A i \in 1..n : i \in 1..Len(call.tokens) \/ i = n
      BY <1>2
    <3> QED
      BY <1>1, <2>1, <3>1, <3>2
  <2>3. /\ new \in Finalizing /\ new.contexts = call.contexts
        /\ new.tokens = Append(call.tokens, token) /\ new.challenge = call.challenge
        /\ new.stage = "finalizing"
    BY <1>1, <2>2 DEF Finalizing
  <2>4. ContextsOf(p) = call.contexts
    BY <1>1 DEF ContextsOf, Finalizing
  <2> HIDE DEF call, new
  <2>5. CallOK(new, blinded)
    BY <1>1, <1>3, <2>2, <2>3 DEF CallOK
  <2>6. (IF new.stage = "idle" THEN <<>> ELSE new.contexts) = ContextsOf(p)
    BY <2>3, <2>4
  <2> QED
    BY <1>5, <1>7, <2>5, <2>6, BatchChangePreserves
<1> QED
  BY <1>5, <1>6, <1>7

(* store_tokens moves a prefix of the batch, each token with the nonce of the   *)
(* context it was made from, which ends.                                     *)
LEMMA StorePreserves ==
  ASSUME IInv, NEW p \in Thread, store_tokens(p)
  PROVE  IInv'
<1> DEFINE call == calls[p]
           d == call.challenge.digest
           cache == token_cache[d]
           filled == Filled(cache, call.tokens)
<1>1. /\ call \in Finalizing
      /\ \A i \in 1..Len(call.contexts) : call.contexts[i] \in blinded
      /\ d \in Challenge
      /\ \A i \in 1..Len(call.tokens) : MadeFrom(call.tokens[i], call.contexts[i])
      /\ Len(call.tokens) = Len(call.contexts)
  BY DEF IInv, CallsOK, CallOK, Idle, store_tokens, Preparing, Finalizing
<1>2. call.tokens \in Seq(Tokens) /\ call.contexts \in Seq(Contexts) /\ ContextsOf(p) = call.contexts
  BY <1>1 DEF Finalizing, ContextsOf
<1>3. cache \in Seq(Tokens) /\ Len(cache) <= max_cached_tokens
  BY <1>1 DEF IInv, StockOK
<1>4. PICK n \in 0..Len(call.tokens) :
        /\ filled \in Seq(Tokens)
        /\ Len(filled) = Len(cache) + n
        /\ Len(cache) + n <= max_cached_tokens
        /\ \A i \in 1..Len(cache) : filled[i] = cache[i]
        /\ \A i \in 1..n : filled[Len(cache) + i] = call.tokens[i]
  BY <1>2, <1>3, FilledWithPrefix
<1>5. \A i \in 1..Len(filled) :
        \/ i \in 1..Len(cache) /\ filled[i] = cache[i]
        \/ /\ i - Len(cache) \in 1..Len(call.contexts)
           /\ MadeFrom(filled[i], call.contexts[i - Len(cache)])
           /\ filled[i].nonce = call.contexts[i - Len(cache)].nonce
  <2>1. ASSUME NEW i \in 1..Len(filled), i \notin 1..Len(cache)
        PROVE  /\ i - Len(cache) \in 1..n
               /\ i = Len(cache) + (i - Len(cache))
    BY <1>3, <1>4, <2>1
  <2>2. ASSUME NEW i \in 1..n
        PROVE  /\ i \in 1..Len(call.contexts)
               /\ MadeFrom(filled[Len(cache) + i], call.contexts[i])
    <3>1. i \in 1..Len(call.tokens) /\ filled[Len(cache) + i] = call.tokens[i]
      BY <1>2, <1>4
    <3>2. MadeFrom(call.tokens[i], call.contexts[i]) /\ i \in 1..Len(call.contexts)
      BY <1>1, <3>1
    <3> QED
      BY <3>1, <3>2
  <2>3. \A token, ctx : MadeFrom(token, ctx) => token.nonce = ctx.nonce
    BY DEF MadeFrom, authenticator_input
  <2> QED
    BY <1>4, <2>1, <2>2, <2>3
<1>6. /\ token_cache' = [token_cache EXCEPT ![d] = filled]
      /\ calls' = [calls EXCEPT ![p] = Idle]
      /\ UNCHANGED <<issuer_keys, drawn, blinded, handed_out>>
  BY DEF store_tokens
<1> HIDE DEF filled, call, d
<1>7. /\ token_cache' \in [Challenge -> Seq(Tokens)]
      /\ \A e \in Challenge : token_cache'[e] = IF e = d THEN filled ELSE token_cache[e]
  BY <1>1, <1>4, <1>6 DEF IInv, StockOK
<1>8. CallsOK'
  <2>1. CallOK(Idle, blinded)
    BY DEF CallOK
  <2>2. /\ calls' = [q \in Thread |-> calls'[q]]
        /\ \A q \in Thread : CallOK(calls'[q], blinded)
    BY <1>6, <2>1, CallReplaced DEF IInv
  <2> QED
    BY <1>6, <2>2 DEF CallsOK
<1>9. /\ ContextsOf(p)' = <<>>
      /\ \A q \in Thread : q # p => ContextsOf(q)' = ContextsOf(q)
  <2>1. \A q \in Thread : calls'[q] = IF q = p THEN Idle ELSE calls[q]
    BY <1>6 DEF IInv, CallsOK
  <2> QED
    BY <2>1 DEF ContextsOf, Idle
<1>10. StockOK'
  <2>1. ASSUME NEW e \in Challenge, NEW i \in 1..Len(token_cache'[e])
        PROVE  Genuine(token_cache'[e][i], blinded)
    <3>1. CASE e = d
      <4>1. token_cache'[e] = filled
        BY <1>7, <3>1
      <4>2. CASE i \in 1..Len(cache) /\ filled[i] = cache[i]
        BY <1>1, <4>1, <4>2 DEF IInv, StockOK
      <4>3. CASE i - Len(cache) \in 1..Len(call.contexts)
                 /\ MadeFrom(filled[i], call.contexts[i - Len(cache)])
        BY <1>1, <4>1, <4>3 DEF Genuine
      <4> QED
        BY <1>5, <4>1, <4>2, <4>3
    <3>2. CASE e # d
      BY <1>7, <3>2 DEF IInv, StockOK
    <3> QED
      BY <3>1, <3>2
  <2>2. \A e \in Challenge : Len(token_cache'[e]) <= max_cached_tokens
    BY <1>4, <1>7 DEF IInv, StockOK
  <2> QED
    BY <1>6, <1>7, <2>1, <2>2 DEF IInv, StockOK
(* Where each token of a cache was before.                                     *)
<1>11. \A e \in Challenge : \A i \in 1..Len(token_cache'[e]) :
         \/ i \in 1..Len(token_cache[e]) /\ token_cache'[e][i] = token_cache[e][i]
         \/ /\ e = d /\ i - Len(cache) \in 1..Len(ContextsOf(p))
            /\ token_cache'[e][i].nonce = ContextsOf(p)[i - Len(cache)].nonce
  BY <1>2, <1>5, <1>7
<1>12. ContextsApart'
  BY <1>9 DEF IInv, NoncesApart, ContextsApart
<1>13. CachedApart'
  <2> SUFFICES ASSUME NEW e \in Challenge, NEW f \in Challenge,
                      NEW i \in 1..Len(token_cache'[e]), NEW j \in 1..Len(token_cache'[f]),
                      token_cache'[e][i].nonce = token_cache'[f][j].nonce
               PROVE  e = f /\ i = j
    BY DEF CachedApart
  <2> DEFINE Old(g, k) == k \in 1..Len(token_cache[g]) /\ token_cache'[g][k] = token_cache[g][k]
             Moved(g, k) == /\ g = d /\ k - Len(cache) \in 1..Len(ContextsOf(p))
                            /\ token_cache'[g][k].nonce = ContextsOf(p)[k - Len(cache)].nonce
  <2>1. (Old(e, i) \/ Moved(e, i)) /\ (Old(f, j) \/ Moved(f, j))
    BY <1>11
  <2>2. CASE Old(e, i) /\ Old(f, j)
    BY <2>2 DEF IInv, NoncesApart, CachedApart
  <2>3. CASE (Old(e, i) /\ Moved(f, j)) \/ (Moved(e, i) /\ Old(f, j))
    BY <2>3 DEF IInv, NoncesApart, ContextsNotCached
  <2>4. CASE Moved(e, i) /\ Moved(f, j)
    <3>1. i - Len(cache) = j - Len(cache)
      BY <2>4 DEF IInv, NoncesApart, ContextsApart
    <3>2. i \in Int /\ j \in Int /\ Len(cache) \in Int
      BY <1>3
    <3> QED
      BY <2>4, <3>1, <3>2
  <2> QED
    BY <2>1, <2>2, <2>3, <2>4
<1>14. ContextsNotCached'
  <2> SUFFICES ASSUME NEW q \in Thread, NEW e \in Challenge,
                      NEW i \in 1..Len(ContextsOf(q)'), NEW j \in 1..Len(token_cache'[e])
               PROVE  ContextsOf(q)'[i].nonce # token_cache'[e][j].nonce
    BY DEF ContextsNotCached
  <2>1. q # p /\ i \in 1..Len(ContextsOf(q)) /\ ContextsOf(q)'[i] = ContextsOf(q)[i]
    BY <1>9
  <2> DEFINE Old == j \in 1..Len(token_cache[e]) /\ token_cache'[e][j] = token_cache[e][j]
             Moved == /\ j - Len(cache) \in 1..Len(ContextsOf(p))
                      /\ token_cache'[e][j].nonce = ContextsOf(p)[j - Len(cache)].nonce
  <2>2. CASE Old
    BY <2>1, <2>2 DEF IInv, NoncesApart, ContextsNotCached
  <2>3. CASE Moved
    <3> DEFINE m == j - Len(cache)
    <3>1. m \in 1..Len(ContextsOf(p)) /\ token_cache'[e][j].nonce = ContextsOf(p)[m].nonce
      BY <2>3
    <3> HIDE DEF m
    <3>2. ContextsOf(q)[i].nonce # ContextsOf(p)[m].nonce
      BY <2>1, <3>1 DEF IInv, NoncesApart, ContextsApart
    <3> QED
      BY <2>1, <3>1, <3>2
  <2>4. Old \/ Moved
    BY <1>11
  <2> HIDE DEF Old, Moved
  <2> QED
    BY <2>2, <2>3, <2>4
<1>15. HandedOutApart'
  <2> SUFFICES ASSUME NEW token \in handed_out
               PROVE  /\ \A q \in Thread : \A i \in 1..Len(ContextsOf(q)') :
                           ContextsOf(q)'[i].nonce # token.nonce
                      /\ \A e \in Challenge : \A i \in 1..Len(token_cache'[e]) :
                           token_cache'[e][i].nonce # token.nonce
    BY <1>6 DEF HandedOutApart
  <2>1. /\ \A q \in Thread : \A i \in 1..Len(ContextsOf(q)) : ContextsOf(q)[i].nonce # token.nonce
        /\ \A e \in Challenge : \A i \in 1..Len(token_cache[e]) : token_cache[e][i].nonce # token.nonce
    BY DEF IInv, NoncesApart, HandedOutApart
  <2>2. \A q \in Thread : \A i \in 1..Len(ContextsOf(q)') : ContextsOf(q)'[i].nonce # token.nonce
    BY <1>9, <2>1
  <2>3. \A e \in Challenge : \A i \in 1..Len(token_cache'[e]) : token_cache'[e][i].nonce # token.nonce
    BY <1>11, <2>1
  <2> QED
    BY <2>2, <2>3
<1> QED
  BY <1>6, <1>8, <1>10, <1>12, <1>13, <1>14, <1>15 DEF IInv, NoncesApart, KeysOK, BlindedOK

LEMMA GetCachedPreserves ==
  ASSUME IInv, NEW digest \in Challenge, get_cached_token(digest)
  PROVE  IInv'
<1> DEFINE cache == token_cache[digest]
           left == Popped(cache)
           last == cache[Len(cache)]
<1>1. cache \in Seq(Tokens) /\ cache # <<>> /\ Len(cache) <= max_cached_tokens
  BY DEF IInv, StockOK, get_cached_token
<1>2. /\ left \in Seq(Tokens)
      /\ Len(left) = Len(cache) - 1
      /\ \A i \in 1..(Len(cache) - 1) : left[i] = cache[i]
      /\ Len(cache) \in 1..Len(cache) /\ Last(cache) = last /\ last \in Tokens
  BY <1>1, PoppedFront
<1>3. /\ token_cache' = [token_cache EXCEPT ![digest] = left]
      /\ handed_out' = handed_out \cup {last}
      /\ UNCHANGED <<issuer_keys, calls, drawn, blinded>>
  BY <1>2 DEF get_cached_token
<1>4. max_cached_tokens \in Nat
  BY ProviderAssumption
<1> HIDE DEF left, last
<1>5. /\ token_cache' \in [Challenge -> Seq(Tokens)]
      /\ \A e \in Challenge : token_cache'[e] = IF e = digest THEN left ELSE token_cache[e]
  BY <1>2, <1>3 DEF IInv, StockOK
<1>6. \A e \in Challenge : \A i \in 1..Len(token_cache'[e]) :
        /\ i \in 1..Len(token_cache[e]) /\ token_cache'[e][i] = token_cache[e][i]
        /\ ~(e = digest /\ i = Len(cache))
  <2>1. ASSUME NEW i \in 1..Len(left)
        PROVE  i \in 1..Len(cache) /\ left[i] = cache[i] /\ i # Len(cache)
    BY <1>1, <1>2
  <2> QED
    BY <1>5, <2>1
<1>7. StockOK'
  <2>1. Genuine(last, blinded)
    BY <1>2 DEF IInv, StockOK, last
  <2>2. \A e \in Challenge : Len(token_cache'[e]) <= max_cached_tokens
    <3>1. Len(left) <= max_cached_tokens
      BY <1>1, <1>2, <1>4
    <3>2. \A e \in Challenge : Len(token_cache[e]) <= max_cached_tokens
      BY DEF IInv, StockOK
    <3> QED
      BY <1>5, <3>1, <3>2
  <2> QED
    BY <1>2, <1>3, <1>5, <1>6, <2>1, <2>2 DEF IInv, StockOK
<1>8. UNCHANGED <<KeysOK, CallsOK, BlindedOK, ContextsApart>>
  BY <1>3 DEF KeysOK, CallsOK, BlindedOK, ContextsApart, ContextsOf
<1>9. CachedApart'
  <2> SUFFICES ASSUME NEW d \in Challenge, NEW e \in Challenge,
                      NEW i \in 1..Len(token_cache'[d]), NEW j \in 1..Len(token_cache'[e]),
                      token_cache'[d][i].nonce = token_cache'[e][j].nonce
               PROVE  d = e /\ i = j
    BY DEF CachedApart
  <2>1. /\ i \in 1..Len(token_cache[d]) /\ token_cache'[d][i] = token_cache[d][i]
        /\ j \in 1..Len(token_cache[e]) /\ token_cache'[e][j] = token_cache[e][j]
    BY <1>6
  <2> QED
    BY <2>1 DEF IInv, NoncesApart, CachedApart
<1>10. \A p \in Thread : ContextsOf(p)' = ContextsOf(p)
  BY <1>3 DEF ContextsOf
<1>11. ContextsNotCached'
  <2> SUFFICES ASSUME NEW p \in Thread, NEW e \in Challenge,
                      NEW i \in 1..Len(ContextsOf(p)), NEW j \in 1..Len(token_cache'[e])
               PROVE  ContextsOf(p)[i].nonce # token_cache'[e][j].nonce
    BY <1>10 DEF ContextsNotCached
  <2>1. j \in 1..Len(token_cache[e]) /\ token_cache'[e][j] = token_cache[e][j]
    BY <1>6
  <2> QED
    BY <2>1 DEF IInv, NoncesApart, ContextsNotCached
<1>12. HandedOutApart'
  <2>1. /\ \A p \in Thread : \A i \in 1..Len(ContextsOf(p)) : ContextsOf(p)[i].nonce # last.nonce
        /\ \A e \in Challenge : \A i \in 1..Len(token_cache[e]) :
             token_cache[e][i].nonce = last.nonce => e = digest /\ i = Len(cache)
    BY <1>2 DEF IInv, NoncesApart, ContextsNotCached, CachedApart, last
  <2>2. \A token \in handed_out' : token \in handed_out \/ token = last
    BY <1>3
  <2>3. ASSUME NEW token \in handed_out'
        PROVE  /\ \A p \in Thread : \A i \in 1..Len(ContextsOf(p)) :
                    ContextsOf(p)[i].nonce # token.nonce
               /\ \A e \in Challenge : \A i \in 1..Len(token_cache'[e]) :
                    token_cache'[e][i].nonce # token.nonce
    <3>1. CASE token \in handed_out
      BY <1>6, <3>1 DEF IInv, NoncesApart, HandedOutApart
    <3>2. CASE token = last
      BY <1>6, <2>1, <3>2
    <3> QED
      BY <2>2, <3>1, <3>2
  <2> QED
    BY <1>10, <2>3 DEF HandedOutApart
<1> QED
  BY <1>7, <1>8, <1>9, <1>11, <1>12 DEF IInv, NoncesApart

LEMMA ClearCachePreserves ==
  ASSUME IInv, clear_cache
  PROVE  IInv'
<1>1. \A d \in Challenge : token_cache'[d] = <<>>
  BY DEF clear_cache
<1>2. <<>> \in Seq(Tokens) /\ max_cached_tokens \in Nat
  BY ProviderAssumption
<1>3. StockOK'
  BY <1>1, <1>2 DEF IInv, StockOK, clear_cache
<1>4. UNCHANGED <<KeysOK, CallsOK, BlindedOK, ContextsApart>>
  BY DEF KeysOK, CallsOK, BlindedOK, ContextsApart, ContextsOf, clear_cache
<1>5. CachedApart' /\ ContextsNotCached'
  BY <1>1 DEF CachedApart, ContextsNotCached
<1>6. HandedOutApart'
  BY <1>1 DEF IInv, NoncesApart, HandedOutApart, ContextsOf, clear_cache
<1> QED
  BY <1>3, <1>4, <1>5, <1>6 DEF IInv, NoncesApart

LEMMA StepPreserves == IInv /\ [Next]_vars => IInv'
<1> SUFFICES ASSUME IInv, [Next]_vars PROVE IInv'
  OBVIOUS
<1>1. CASE \E issuer \in Issuer, key \in PublicKey : add_issuer_key(issuer, key)
  BY <1>1, AddKeyPreserves
<1>2. CASE \E issuer \in Issuer : remove_issuer(issuer)
  BY <1>2, RemoveIssuerPreserves
<1>3. CASE \E p \in Thread, challenge \in TokenChallenge, count \in 1..MaxBatch :
             begin_prepare(p, challenge, count)
  BY <1>3, BeginPreparePreserves
<1>4. CASE \E p \in Thread : prepare_request(p) \/ begin_finalize(p) \/ store_tokens(p)
  BY <1>4, PreparePreserves, BeginFinalizePreserves, StorePreserves
<1>5. CASE \E p \in Thread : \E response \in Responses : finalize_next(p, response)
  BY <1>5, FinalizeNextPreserves
<1>6. CASE \E digest \in Challenge : get_cached_token(digest)
  BY <1>6, GetCachedPreserves
<1>7. CASE clear_cache
  BY <1>7, ClearCachePreserves
<1>8. CASE UNCHANGED vars
  BY <1>8 DEF vars, IInv, KeysOK, CallsOK, BlindedOK, StockOK, NoncesApart, ContextsApart,
              CachedApart, ContextsNotCached, HandedOutApart, ContextsOf
<1> QED
  BY <1>1, <1>2, <1>3, <1>4, <1>5, <1>6, <1>7, <1>8 DEF Next

LEMMA Invariance == Spec => []IInv
BY InitEstablishes, StepPreserves, PTL DEF Spec

-----------------------------------------------------------------------------
(* The properties.                                                           *)

(* What a thread's batch holds.                                               *)
LEMMA BatchOf ==
  ASSUME IInv, NEW p \in Thread
  PROVE  /\ BatchTokens(p) \in Seq(Tokens)
         /\ \A i \in 1..Len(BatchTokens(p)) :
              /\ i \in 1..Len(ContextsOf(p))
              /\ ContextsOf(p)[i] \in blinded
              /\ MadeFrom(BatchTokens(p)[i], ContextsOf(p)[i])
              /\ BatchTokens(p)[i].nonce = ContextsOf(p)[i].nonce
<1>1. CASE calls[p].stage = "finalizing"
  <2>1. /\ calls[p] \in Finalizing
        /\ \A i \in 1..Len(calls[p].contexts) : calls[p].contexts[i] \in blinded
        /\ Len(calls[p].tokens) <= Len(calls[p].contexts)
        /\ \A i \in 1..Len(calls[p].tokens) : MadeFrom(calls[p].tokens[i], calls[p].contexts[i])
    BY <1>1 DEF IInv, CallsOK, CallOK, Idle, Preparing, Finalizing
  <2>2. /\ calls[p].tokens \in Seq(Tokens) /\ calls[p].contexts \in Seq(Contexts)
        /\ BatchTokens(p) = calls[p].tokens /\ ContextsOf(p) = calls[p].contexts
    BY <1>1, <2>1 DEF Finalizing, BatchTokens, ContextsOf
  <2>3. \A i \in 1..Len(calls[p].tokens) : i \in 1..Len(calls[p].contexts)
    BY <2>1, <2>2
  <2>4. \A token, ctx : MadeFrom(token, ctx) => token.nonce = ctx.nonce
    BY DEF MadeFrom, authenticator_input
  <2> QED
    BY <2>1, <2>2, <2>3, <2>4
<1>2. CASE calls[p].stage # "finalizing"
  <2>1. <<>> \in Seq(Tokens)
    OBVIOUS
  <2> QED
    BY <1>2, <2>1 DEF BatchTokens
<1> QED
  BY <1>1, <1>2

(* The elements of a sequence are its positions'.                              *)
LEMMA ToSetByIndex ==
  ASSUME NEW S, NEW s \in Seq(S), NEW x \in ToSet(s)
  PROVE  \E i \in 1..Len(s) : s[i] = x
BY DEF ToSet

LEMMA InvTypeOK == IInv => TypeOK
<1> SUFFICES ASSUME IInv PROVE TypeOK
  OBVIOUS
<1>1. ASSUME NEW p \in Thread, calls[p] # Idle
      PROVE  /\ calls[p].stage \in {"preparing", "finalizing"}
             /\ calls[p].challenge \in TokenChallenge
             /\ ToSet(calls[p].contexts) \subseteq blinded
             /\ calls[p].stage = "finalizing" =>
                  calls[p].tokens \in Seq(Tokens) /\ Len(calls[p].tokens) <= Len(calls[p].contexts)
  <2>1. /\ calls[p] \in Preparing \cup Finalizing
        /\ \A i \in 1..Len(calls[p].contexts) : calls[p].contexts[i] \in blinded
        /\ calls[p].stage = "finalizing" => Len(calls[p].tokens) <= Len(calls[p].contexts)
    BY <1>1 DEF IInv, CallsOK, CallOK
  <2>2. calls[p].contexts \in Seq(Contexts)
    BY <2>1 DEF Preparing, Finalizing
  <2>3. ToSet(calls[p].contexts) \subseteq blinded
    BY <2>1, <2>2, ToSetByIndex
  <2> QED
    BY <2>1, <2>3 DEF Preparing, Finalizing
<1> QED
  BY <1>1 DEF IInv, KeysOK, BlindedOK, StockOK, TypeOK

LEMMA InvGenuine == IInv => HeldTokensAreGenuine
<1> SUFFICES ASSUME IInv, NEW token \in AllTokens
             PROVE  verifies(token.token_key_id, token) /\ authenticator_input(token) \in blinded
  BY DEF HeldTokensAreGenuine
<1>1. ASSUME Genuine(token, blinded)
      PROVE  verifies(token.token_key_id, token) /\ authenticator_input(token) \in blinded
  BY <1>1 DEF Genuine, MadeFrom
<1>2. CASE token \in handed_out
  BY <1>1, <1>2 DEF IInv, StockOK
<1>3. ASSUME NEW p \in Thread, token \in ToSet(BatchTokens(p))
      PROVE  Genuine(token, blinded)
  BY <1>3, BatchOf, ToSetByIndex DEF Genuine
<1>4. ASSUME NEW d \in Challenge, token \in ToSet(token_cache[d])
      PROVE  Genuine(token, blinded)
  BY <1>4, ToSetByIndex DEF IInv, StockOK
<1>5. CASE \E h \in Holdings : token \in ToSet(h[2])
  <2>1. \/ \E p \in Thread : token \in ToSet(BatchTokens(p))
        \/ \E d \in Challenge : token \in ToSet(token_cache[d])
    BY <1>5 DEF Holdings
  <2> QED
    BY <1>1, <1>3, <1>4, <2>1
<1> QED
  BY <1>2, <1>5 DEF AllTokens

(* Any two places that hold a token of one nonce are the same position of the   *)
(* same holding.                                                             *)
LEMMA InvApart == IInv => NoTokenInTwoPlaces
<1> SUFFICES ASSUME IInv PROVE NoTokenInTwoPlaces
  OBVIOUS
<1>1. ASSUME NEW p \in Thread, NEW q \in Thread,
             NEW i \in 1..Len(BatchTokens(p)), NEW j \in 1..Len(BatchTokens(q)),
             BatchTokens(p)[i] = BatchTokens(q)[j]
      PROVE  p = q /\ i = j
  BY <1>1, BatchOf DEF IInv, NoncesApart, ContextsApart
<1>2. ASSUME NEW d \in Challenge, NEW e \in Challenge,
             NEW i \in 1..Len(token_cache[d]), NEW j \in 1..Len(token_cache[e]),
             token_cache[d][i] = token_cache[e][j]
      PROVE  d = e /\ i = j
  BY <1>2 DEF IInv, NoncesApart, CachedApart
<1>3. ASSUME NEW p \in Thread, NEW d \in Challenge,
             NEW i \in 1..Len(BatchTokens(p)), NEW j \in 1..Len(token_cache[d])
      PROVE  BatchTokens(p)[i] # token_cache[d][j]
  BY <1>3, BatchOf DEF IInv, NoncesApart, ContextsNotCached
<1>4. ASSUME NEW token \in handed_out
      PROVE  /\ \A p \in Thread : \A i \in 1..Len(BatchTokens(p)) : BatchTokens(p)[i] # token
             /\ \A d \in Challenge : \A i \in 1..Len(token_cache[d]) : token_cache[d][i] # token
  BY BatchOf DEF IInv, NoncesApart, HandedOutApart
<1>5. /\ \A p \in Thread : BatchTokens(p) \in Seq(Tokens)
      /\ \A d \in Challenge : token_cache[d] \in Seq(Tokens)
  BY BatchOf DEF IInv, StockOK
<1>6. \A h \in Holdings :
        \/ \E p \in Thread : h = <<p, BatchTokens(p)>>
        \/ \E d \in Challenge : h = <<d, token_cache[d]>>
  BY DEF Holdings
<1>7. \A h \in Holdings : \A i, j \in 1..Len(h[2]) : h[2][i] = h[2][j] => i = j
  BY <1>1, <1>2, <1>6
<1>8. ASSUME NEW h \in Holdings, NEW g \in Holdings, h # g
      PROVE  ToSet(h[2]) \cap ToSet(g[2]) = {}
  <2> SUFFICES ASSUME NEW token \in ToSet(h[2]), token \in ToSet(g[2])
               PROVE  FALSE
    OBVIOUS
  <2>1. /\ \E i \in 1..Len(h[2]) : h[2][i] = token
        /\ \E j \in 1..Len(g[2]) : g[2][j] = token
    BY <1>5, <1>6, ToSetByIndex
  <2> QED
    BY <1>1, <1>2, <1>3, <1>6, <1>8, <2>1
<1>9. ASSUME NEW h \in Holdings
      PROVE  ToSet(h[2]) \cap handed_out = {}
  <2> SUFFICES ASSUME NEW token \in ToSet(h[2]), token \in handed_out
               PROVE  FALSE
    OBVIOUS
  <2>1. \E i \in 1..Len(h[2]) : h[2][i] = token
    BY <1>5, <1>6, ToSetByIndex
  <2> QED
    BY <1>4, <1>6, <2>1
<1> QED
  BY <1>7, <1>8, <1>9 DEF NoTokenInTwoPlaces

(* A challenge of a type whose answers carry its own type: all but             *)
(* PARTIALLY_BLIND_RSA, which issuers answer as BLIND_RSA                     *)
(* (TokenResponse::create_blind_rsa).                                        *)
AnsweredInKind == \A c \in TokenChallenge : c.token_type # "PARTIALLY_BLIND_RSA"

LEMMA InvFindsKey == AnsweredInKind /\ IInv => FindsRequestKey
<1> SUFFICES ASSUME AnsweredInKind, IInv, NEW p \in Thread, calls[p].stage = "finalizing",
                    NEW ctx \in ToSet(calls[p].contexts)
             PROVE  finalize(answer(ctx.token_key_id, ctx), ctx) = "OK" <=>
                      \E i \in Issuer :
                        [type |-> ctx.token_type, key_id |-> ctx.token_key_id,
                         data |-> ctx.token_key_id] \in ToSet(issuer_keys[i])
  BY DEF FindsRequestKey
<1> DEFINE id == ctx.token_key_id
           response == answer(id, ctx)
           used == [type |-> ctx.token_type, key_id |-> id, data |-> id]
<1>1. ctx \in blinded
  <2>1. calls[p] # Idle
    BY DEF Idle
  <2>2. ToSet(calls[p].contexts) \subseteq blinded
    BY <2>1, InvTypeOK, Zenon DEF TypeOK
  <2> QED
    BY <2>2
<1>2. /\ ctx \in Contexts /\ id # Garbage /\ kind[id] = Material(ctx.token_type)
      /\ ctx.token_type # "PARTIALLY_BLIND_RSA"
  BY <1>1 DEF IInv, BlindedOK, AnsweredInKind
<1>3. id \in Key /\ kind[id] \in {"RSA", "VOPRF"}
  BY <1>2, ProviderAssumption DEF Contexts
<1>4. ctx.token_type \in {"BLIND_RSA", "VOPRF_P384_SHA384"}
  BY <1>2, <1>3 DEF Material, RsaTypes
<1>5. /\ response.token_type = ctx.token_type
      /\ response.signer = id /\ response.signed = ctx /\ response.intact = TRUE
  BY <1>2, <1>4 DEF answer, Material, RsaTypes
<1>6. finalize(response, ctx) = "OK" <=> KeysForRequest(response, ctx) # {}
  BY <1>5 DEF finalize, Unblinds
<1>7. ASSUME NEW i \in Issuer, NEW k \in ToSet(issuer_keys[i])
      PROVE  /\ k = [type |-> k.type, key_id |-> k.key_id, data |-> k.data]
             /\ k.data \in {k.key_id, Garbage}
  <2>1. issuer_keys[i] \in Seq(PublicKey)
    BY DEF IInv, KeysOK
  <2>2. k \in PublicKey
    BY <1>7, <2>1, ToSetByIndex
  <2>3. k \in [type : SizedTypes, key_id : Key, data : Key \cup {Garbage}]
    BY <2>2, ProviderAssumption
  <2> QED
    BY <2>2, <2>3, ProviderAssumption
<1>8. ASSUME NEW i \in Issuer, used \in ToSet(issuer_keys[i])
      PROVE  KeysForRequest(response, ctx) # {}
  <2>1. used.type = response.token_type /\ used.key_id = id /\ Decodes(used, response.token_type)
    BY <1>2, <1>5 DEF Decodes
  <2> QED
    BY <1>8, <2>1 DEF KeysForRequest
<1>9. ASSUME KeysForRequest(response, ctx) # {}
      PROVE  \E i \in Issuer : used \in ToSet(issuer_keys[i])
  <2>1. PICK i \in Issuer : \E k \in ToSet(issuer_keys[i]) :
          k.type = response.token_type /\ k.key_id = id /\ Decodes(k, response.token_type)
    BY <1>9 DEF KeysForRequest
  <2>2. PICK k \in ToSet(issuer_keys[i]) :
          k.type = response.token_type /\ k.key_id = id /\ Decodes(k, response.token_type)
    BY <2>1
  <2>3. k = used
    BY <1>5, <1>7, <2>2 DEF Decodes
  <2> QED
    BY <2>2, <2>3
<1> QED
  BY <1>6, <1>8, <1>9

-----------------------------------------------------------------------------
(* Types, and every cache within max_cached_tokens, whatever the batches that   *)
(* threads store into it (store_tokens, prepare_request, finalize).           *)
THEOREM CachesStayBounded == Spec => []TypeOK
BY Invariance, InvTypeOK, PTL

(* Every token made, kept or handed out is one that an origin trusting its key  *)
(* accepts, whatever responses the network brought to whichever context        *)
(* (finalize, PublicClient::finalize, PrivateClient::finalize).               *)
THEOREM TokensAreGenuine == Spec => []HeldTokensAreGenuine
BY Invariance, InvGenuine, PTL

(* No token is in two batches, caches or positions, and one that was handed     *)
(* out is nowhere else: none is ever handed out twice (get_cached_token,        *)
(* store_tokens).                                                            *)
THEOREM TokensAreHandedOutOnce == Spec => []NoTokenInTwoPlaces
BY Invariance, InvApart, PTL

(* The issuer's answer to a request is finalized exactly as long as the key     *)
(* that prepare_request used is registered, if no challenge asks for the type  *)
(* that issuers answer as another (TokenProvider::finalize).                  *)
THEOREM RequestKeyIsFound == AnsweredInKind => (Spec => []FindsRequestKey)
<1> SUFFICES ASSUME AnsweredInKind PROVE Spec => []FindsRequestKey
  OBVIOUS
<1>1. IInv => FindsRequestKey
  BY InvFindsKey
<1> QED
  BY <1>1, Invariance, PTL
=============================================================================
