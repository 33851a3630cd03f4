-------------------------------- MODULE Origin --------------------------------
(***************************************************************************)
(* The three origin classes of src/core/origin.cpp:144-507, one of them per    *)
(* behaviour, with several threads redeeming tokens.                          *)
(*                                                                         *)
(*  - PublicOrigin::verify_and_redeem first reserves the nonce in the replay   *)
(*    cache, under the cache's lock, then verifies without any lock.  Issuer   *)
(*    keys come and go in between.                                           *)
(*  - Origin::verify_and_redeem does the same with a cache of its own and the  *)
(*    keys of the PublicOrigin it embeds, which it never removes.             *)
(*  - PrivateOrigin cannot verify: its user checks the structure and           *)
(*    would_be_replay, asks the issuer, and only then calls mark_redeemed.     *)
(*                                                                         *)
(* The accesses to the keys have no lock in the code: the model takes each as  *)
(* one step, which is what a caller that serialises key changes with the      *)
(* verification gets; anything else is a data race.  Origin::add_voprf_key     *)
(* fills containers that no method of Origin reads, and is left out.          *)
(***************************************************************************)
EXTENDS Integers, Sequences, FiniteSets, TokenVerification

CONSTANTS
  Thread,
  Token,            (* the tokens that are presented                         *)
  window_seconds, max_size, ClockRate, MaxNow,    (* of the replay cache      *)
  truncated, MaxKeys                              (* of the key index         *)

VARIABLES
  origin_class,     (* which class is used; never changes                     *)
  now, buckets, bucket_order, all_nonces, accepted_at, evicted,
  issuer_keys, key_index_by_full_id, key_indices_by_truncated_id, live,
  calls,            (* thread -> its current or last redemption               *)
  granted,          (* history: nonces that some thread redeemed              *)
  spoiled           (* history: nonces that the cap ever pushed out           *)

Cache == INSTANCE ReplayCache
Keys == INSTANCE IssuerKeyIndex

ASSUME OriginAssumption ==
  /\ Token \subseteq Tokens
  /\ Keys!KeyIndexAssumption
  /\ window_seconds \in Nat /\ max_size \in Nat /\ ClockRate \in Nat \ {0} /\ MaxNow \in Nat

cacheVars == <<now, buckets, bucket_order, all_nonces, accepted_at, evicted>>
keyVars == <<issuer_keys, key_index_by_full_id, key_indices_by_truncated_id, live>>
vars == <<origin_class, cacheVars, keyVars, calls, granted, spoiled>>

Never == -1
Idle == [stage |-> "idle"]

Init ==
  /\ origin_class \in {"PublicOrigin", "Origin", "PrivateOrigin"}
  /\ Cache!Init
  /\ Keys!Init
  /\ calls = [p \in Thread |-> Idle]
  /\ granted = {}
  /\ spoiled = {}

-----------------------------------------------------------------------------
(* PublicOrigin::verify and Origin::verify, in the current state of the keys.  *)
(* Origin builds its PublicOrigin with the first RSA key it can copy.         *)
verify(token, expected) ==
  IF origin_class = "Origin" /\ token.token_type \notin RsaTypes THEN "UNSUPPORTED_TOKEN_TYPE"
  ELSE IF origin_class = "Origin" /\ issuer_keys = <<>> THEN "ISSUER_UNKNOWN"
  ELSE public_verify(token, expected, Keys!found(token.token_key_id))

(* The reservation, which is check_and_add: look up and insert in one go.     *)
(* The variant only looks.                                                   *)
ReserveByLookup(nonce, is_new) ==
  /\ is_new = ~Cache!contains(nonce)
  /\ UNCHANGED cacheVars

Reserve(nonce, is_new) == Cache!check_and_add(nonce, is_new)

(* A nonce known and not yet expired can only be new because this very call's *)
(* pruning dropped it to respect the cap.                                    *)
DroppedByThisCall(nonce, is_new) ==
  {n \in {nonce} \cap all_nonces : is_new /\ ~Cache!Expired(Cache!tick_of(accepted_at[n]))}

NotesSpoiled(nonce, is_new) ==
  spoiled' = spoiled \cup evicted' \cup DroppedByThisCall(nonce, is_new)

(* Another call has reserved the nonce and not finished.                      *)
Pending(nonce) ==
  \E q \in Thread : calls[q].stage = "reserved" /\ calls[q].token.nonce = nonce

(* The first half of verify_and_redeem: a nonce already there is a replay.    *)
begin_redeem(p, token) ==
  /\ origin_class # "PrivateOrigin"
  /\ calls[p].stage \notin {"reserved", "checked"}
  /\ \E is_new \in BOOLEAN :
       /\ Reserve(token.nonce, is_new)
       /\ NotesSpoiled(token.nonce, is_new)
       /\ calls' = [calls EXCEPT ![p] =
            IF is_new
            THEN [stage |-> "reserved", token |-> token, reserved_at |-> now]
            ELSE [stage |-> "refused", token |-> token, contended |-> Pending(token.nonce)]]
  /\ UNCHANGED <<origin_class, keyVars, granted>>

(* The reservation stays although the verification failed.  The variant takes  *)
(* it back.                                                                  *)
TakesBack(nonce) ==
  /\ all_nonces' = all_nonces \ {nonce}
  /\ UNCHANGED <<now, buckets, bucket_order, accepted_at, evicted>>

AfterFailure(nonce) == UNCHANGED cacheVars

(* The second half: the verification, and the return of its result.           *)
finish_redeem(p, expected) ==
  LET call == calls[p]
      accepted == verify(call.token, expected) = "TRUE"
  IN
  /\ call.stage = "reserved"
  /\ calls' = [calls EXCEPT ![p] =
       IF accepted THEN [call EXCEPT !.stage = "granted"] ELSE Idle]
  /\ granted' = IF accepted THEN granted \cup {call.token.nonce} ELSE granted
  /\ IF accepted THEN UNCHANGED cacheVars ELSE AfterFailure(call.token.nonce)
  /\ UNCHANGED <<origin_class, keyVars, spoiled>>

-----------------------------------------------------------------------------
(* PrivateOrigin::would_be_replay looks without adding, after the structure    *)
(* was found good.                                                           *)
begin_private(p, token, expected) ==
  /\ origin_class = "PrivateOrigin"
  /\ calls[p].stage \notin {"reserved", "checked"}
  /\ validate_structure(token, expected) = "OK"
  /\ calls' = [calls EXCEPT ![p] =
       IF Cache!contains(token.nonce)
       THEN [stage |-> "refused", token |-> token, contended |-> FALSE]
       ELSE [stage |-> "checked", token |-> token, overlapped |-> FALSE]]
  /\ UNCHANGED <<origin_class, cacheVars, keyVars, granted, spoiled>>

(* PrivateOrigin::mark_redeemed: check_and_add, its answer discarded.  The     *)
(* variant marks nothing unless the cache has room.                          *)
MarkIfRoom(nonce, is_new) ==
  IF Cardinality(all_nonces) < max_size
  THEN Cache!check_and_add(nonce, is_new)
  ELSE is_new = FALSE /\ UNCHANGED cacheVars

Mark(nonce, is_new) == Cache!check_and_add(nonce, is_new)

(* The thread marks the token and grants it.  Every other thread that is past  *)
(* its own check of this nonce has overlapped.                               *)
Marked(p, nonce) ==
  [q \in Thread |->
     IF q = p
     THEN [stage |-> "redeemed", token |-> calls[p].token, reserved_at |-> now,
           overlapped |-> calls[p].overlapped]
     ELSE IF calls[q].stage = "checked" /\ calls[q].token.nonce = nonce
     THEN [calls[q] EXCEPT !.overlapped = TRUE]
     ELSE calls[q]]

(* The user asks the issuer that holds `key`, and marks what it confirms.      *)
finish_private(p, key) ==
  /\ calls[p].stage = "checked"
  /\ LET nonce == calls[p].token.nonce IN
     IF issuer_verify(calls[p].token, key) = "TRUE"
     THEN /\ \E is_new \in BOOLEAN : Mark(nonce, is_new) /\ NotesSpoiled(nonce, is_new)
          /\ calls' = Marked(p, nonce)
          /\ granted' = granted \cup {nonce}
     ELSE /\ calls' = [calls EXCEPT ![p] = Idle]
          /\ UNCHANGED <<cacheVars, granted, spoiled>>
  /\ UNCHANGED <<origin_class, keyVars>>

-----------------------------------------------------------------------------
(* PublicOrigin::add_issuer_key, and Origin::add_blind_rsa_key, which adds a   *)
(* copy that it makes through the SPKI encoding; a copy that fails is          *)
(* forgotten without an error.                                               *)
add_issuer_key(key) ==
  /\ origin_class # "PrivateOrigin"
  /\ Keys!add_issuer_key(key)
  /\ UNCHANGED <<origin_class, cacheVars, calls, granted, spoiled>>

remove_issuer_key(key) ==
  /\ origin_class = "PublicOrigin"
  /\ Keys!remove_issuer_key(key)
  /\ UNCHANGED <<origin_class, cacheVars, calls, granted, spoiled>>

AdvanceClock ==
  /\ Cache!AdvanceClock
  /\ UNCHANGED <<origin_class, keyVars, calls, granted, spoiled>>

Next ==
  \/ \E p \in Thread, token \in Token : begin_redeem(p, token)
  \/ \E p \in Thread, expected \in Expected : finish_redeem(p, expected)
  \/ \E p \in Thread, token \in Token, expected \in Expected : begin_private(p, token, expected)
  \/ \E p \in Thread, key \in Key : finish_private(p, key)
  \/ \E key \in Key : add_issuer_key(key) \/ remove_issuer_key(key)
  \/ AdvanceClock

Spec == Init /\ [][Next]_vars

-----------------------------------------------------------------------------
Calls ==
  {Idle}
  \cup [stage : {"reserved", "granted"}, token : Token, reserved_at : 0..MaxNow]
  \cup [stage : {"refused"}, token : Token, contended : BOOLEAN]
  \cup [stage : {"checked"}, token : Token, overlapped : BOOLEAN]
  \cup [stage : {"redeemed"}, token : Token, reserved_at : 0..MaxNow, overlapped : BOOLEAN]

TypeOK ==
  /\ Cache!TypeOK
  /\ Keys!TypeOK
  /\ calls \in [Thread -> Calls]
  /\ granted \subseteq Nonce
  /\ spoiled \subseteq Nonce

(* Two threads that hold one nonce, both since the cap last left it alone,     *)
(* within the time for which the cache is sure to remember it.               *)
CloseHolders(p, q, stages) ==
  /\ p # q
  /\ calls[p].stage \in stages /\ calls[q].stage \in stages
  /\ calls[p].token.nonce = calls[q].token.nonce
  /\ calls[p].token.nonce \notin spoiled
  /\ calls[p].reserved_at <= calls[q].reserved_at
  /\ calls[q].reserved_at - calls[p].reserved_at <= ClockRate * (window_seconds - 1)

(* "Atomically check and reserve the nonce before verification to prevent     *)
(* concurrent threads from both verifying the same token"                    *)
(* (origin.cpp:249-250): two calls that got past the reservation of one nonce *)
(* did so more than the window less a second apart, unless the cap pushed the *)
(* nonce out in between (verify_and_redeem of PublicOrigin and of Origin).    *)
OneRedemptionPerWindow ==
  \A p, q \in Thread : ~CloseHolders(p, q, {"reserved", "granted"})

(* Without such a reservation, PrivateOrigin still refuses every token it has  *)
(* marked within the window: two threads redeem one nonce only if one of them *)
(* was between its would_be_replay and its mark_redeemed when the other       *)
(* marked (would_be_replay, mark_redeemed).                                  *)
PrivateRedemptionsOverlap ==
  \A p, q \in Thread :
    CloseHolders(p, q, {"redeemed"}) => calls[p].overlapped \/ calls[q].overlapped

(* Verification through the indexes says what the set of live keys would say, *)
(* so a key change between the two halves of a call is taken into account     *)
(* exactly (verify of both classes, add_issuer_key, remove_issuer_key).       *)
VerdictFollowsLiveKeys ==
  \A token \in Token, expected \in Expected :
    LET trusted == live \cap {token.token_key_id} IN
    CASE origin_class = "PublicOrigin" -> verify(token, expected) = public_verify(token, expected, trusted)
      [] origin_class = "Origin" -> verify(token, expected) = origin_verify(token, expected, live)
      [] OTHER -> TRUE

(* The lookup finds exactly the live keys, and every position is filed under   *)
(* its own key's byte: positions never dangle or shift, whatever the order of  *)
(* additions, repeated additions and removals (add_issuer_key,                *)
(* remove_issuer_key, verify).                                               *)
KeyIndexesAgree == Keys!FindsLiveKeys /\ Keys!BucketsMatchIds

(* Whichever class is used and however its calls interleave, the cache inside   *)
(* behaves as the abstract replay guard: no path reaches its containers except *)
(* through check_and_add (verify_and_redeem, mark_redeemed).                   *)
ImplementsReplayGuard == Cache!ImplementsReplayGuard

(* "Token has already been redeemed" (origin.cpp:252-253): a token is refused *)
(* with this error only if some call has granted its nonce, calls that were   *)
(* refused while another call was still verifying set aside.                 *)
ReplayedImpliesRedeemed ==
  \A p \in Thread :
    calls[p].stage = "refused" /\ ~calls[p].contended => calls[p].token.nonce \in granted
=============================================================================
