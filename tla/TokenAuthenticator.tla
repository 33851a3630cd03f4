-------------------------- MODULE TokenAuthenticator --------------------------
(***************************************************************************)
(* class TokenAuthenticator (src/core/token_authenticator.cpp): trusted      *)
(* issuers, validation, and a replay cache of its own, a hash set of redeemed *)
(* nonces with a deque of timestamped entries.  One mutex covers every method *)
(* for its whole body, so each method is one action.                         *)
(***************************************************************************)
EXTENDS Integers, Sequences, FiniteSets, TokenVerification

CONSTANTS
  Issuer,           (* issuer names                                          *)
  VoprfKey,         (* VOPRF issuer keys, which cannot verify a token        *)
  Token,            (* the tokens that are presented                         *)
  replay_window,    (* config.replay_window, in clock units                  *)
  max_size,         (* the effective maximum size of the replay cache        *)
  MaxNow            (* the last clock instant; bounds the model              *)

ASSUME AuthenticatorAssumption ==
  /\ replay_window \in Nat
  /\ max_size \in Nat \ {0}
  /\ MaxNow \in Nat
  /\ Token \subseteq Tokens

VARIABLES
  now,              (* steady_clock::now()                                   *)
  nonce_entries,    (* deque of [nonce, timestamp], oldest first             *)
  redeemed_nonces,  (* the hash set                                          *)
  rsa_keys,         (* issuer -> its Blind RSA keys                          *)
  voprf_keys,       (* issuer -> its VOPRF keys                              *)
  origin_keys,      (* the keys of the embedded Origin                       *)
  accepted_at,      (* history: when each nonce was last added to the cache  *)
  evicted,          (* history: nonces whose last addition the cap dropped   *)
  settled           (* history: nonces granted or marked redeemed            *)

cacheState == <<nonce_entries, redeemed_nonces, accepted_at, evicted, settled>>
trustState == <<rsa_keys, voprf_keys, origin_keys>>
vars == <<now, cacheState, trustState>>

Never == -1

Init ==
  /\ now = 0
  /\ nonce_entries = <<>>
  /\ redeemed_nonces = {}
  /\ rsa_keys = [i \in Issuer |-> {}]
  /\ voprf_keys = [i \in Issuer |-> {}]
  /\ origin_keys = {}
  /\ accepted_at = [n \in Nonce |-> Never]
  /\ evicted = {}
  /\ settled = {}

-----------------------------------------------------------------------------
(* The pruning loop's test, and a hasty variant.                             *)
ExpiredAtWindow(entry) == entry.timestamp <= now - replay_window

Expired(entry) == entry.timestamp < now - replay_window

(* The second loop's test, and an off-by-one of it.                          *)
AboveCapacity(held) == Cardinality(held) > max_size

AtCapacity(held) == Cardinality(held) >= max_size

(* The nonces of the first k entries, and what popping them leaves.  The     *)
(* variant pops the deque and forgets the set.                               *)
Front(k) == {nonce_entries[i].nonce : i \in 1..k}
Rest(k) == SubSeq(nonce_entries, k + 1, Len(nonce_entries))

KeptWhenSetIsForgotten(k) == redeemed_nonces

Kept(k) == redeemed_nonces \ Front(k)

(* The entries the pruning loop pops: the longest expired prefix.            *)
prune_expired(expired) ==
  /\ \A i \in 1..expired : Expired(nonce_entries[i])
  /\ expired < Len(nonce_entries) => ~Expired(nonce_entries[expired + 1])

(* The entry pushed for a nonce; the variant dates it with the cutoff.       *)
EntryAtCutoff(nonce) == [nonce |-> nonce, timestamp |-> now - replay_window]

Entry(nonce) == [nonce |-> nonce, timestamp |-> now]

(* Impl::check_and_add_nonce.  Room is made before the nonce is looked up,    *)
(* so a call that adds nothing may evict, even the nonce it is about.        *)
make_room(expired, dropped) ==
  /\ prune_expired(expired)
  /\ \A k \in expired..(dropped - 1) : AtCapacity(Kept(k))
  /\ dropped < Len(nonce_entries) => ~AtCapacity(Kept(dropped))

add_nonce(nonce, inserted, expired, dropped) ==
  LET overflow == Front(dropped) \ Front(expired) IN
  /\ inserted = (nonce \notin Kept(dropped))
  /\ redeemed_nonces' = Kept(dropped) \cup {nonce}
  /\ IF inserted
     THEN /\ nonce_entries' = Append(Rest(dropped), Entry(nonce))
          /\ accepted_at' = [accepted_at EXCEPT ![nonce] = now]
          /\ evicted' = (evicted \cup overflow) \ {nonce}
     ELSE /\ nonce_entries' = Rest(dropped)
          /\ evicted' = evicted \cup overflow
          /\ UNCHANGED accepted_at
  /\ UNCHANGED now

check_and_add_nonce(nonce, inserted) ==
  \E dropped \in 0..Len(nonce_entries) : \E expired \in 0..dropped :
    /\ make_room(expired, dropped)
    /\ add_nonce(nonce, inserted, expired, dropped)

-----------------------------------------------------------------------------
(* add_trusted_key for a Blind RSA key.  The origin gets a copy made through  *)
(* the key's SPKI; `copied` is whether the two conversions succeed.          *)
add_trusted_rsa_key(issuer, key, copied) ==
  /\ origin_keys' = IF copied THEN origin_keys \cup {key} ELSE origin_keys
  /\ rsa_keys' = [rsa_keys EXCEPT ![issuer] = @ \cup {key}]
  /\ UNCHANGED <<now, cacheState, voprf_keys>>

(* add_trusted_key for a VOPRF key: the origin rebuilds its PrivateOrigin,    *)
(* which no verification reads.                                              *)
add_trusted_voprf_key(issuer, key) ==
  /\ voprf_keys' = [voprf_keys EXCEPT ![issuer] = @ \cup {key}]
  /\ UNCHANGED <<now, cacheState, rsa_keys, origin_keys>>

(* remove_trusted_issuer erases the issuer's entries in the two maps.        *)
remove_trusted_issuer(issuer) ==
  /\ rsa_keys' = [rsa_keys EXCEPT ![issuer] = {}]
  /\ voprf_keys' = [voprf_keys EXCEPT ![issuer] = {}]
  /\ UNCHANGED <<now, cacheState, origin_keys>>

is_trusted(issuer) == rsa_keys[issuer] # {} \/ voprf_keys[issuer] # {}

(* TokenAuthenticator::validate: only reads.                                 *)
validation(token, expected) ==
  IF validate(token) # "OK" THEN validate(token)
  ELSE IF expected = Undigestible THEN "CRYPTO_ERROR"
  ELSE IF digest_check(token, expected) # "OK" THEN digest_check(token, expected)
  ELSE LET verdict == origin_verify(token, expected, origin_keys) IN
       IF verdict = "FALSE" THEN "TOKEN_INVALID" ELSE verdict

would_be_replay(token) == token.nonce \in redeemed_nonces

(* The result of validate_and_redeem: a known nonce is refused first.        *)
redemption(token, expected) ==
  IF would_be_replay(token) THEN "TOKEN_REPLAYED" ELSE validation(token, expected)

(* When validate_and_redeem reaches check_and_add_nonce: "Only add to replay *)
(* cache after successful verification".  The variant reserves first.        *)
ReservesFirst(token, expected) == ~would_be_replay(token)

Reaches(token, expected) == redemption(token, expected) = "TRUE"

validate_and_redeem(token, expected, outcome) ==
  IF Reaches(token, expected)
  THEN \E inserted \in BOOLEAN :
         /\ check_and_add_nonce(token.nonce, inserted)
         /\ outcome = IF inserted THEN redemption(token, expected) ELSE "TOKEN_REPLAYED"
         /\ settled' = IF outcome = "TRUE" THEN settled \cup {token.nonce} ELSE settled
         /\ UNCHANGED trustState
  ELSE /\ outcome = redemption(token, expected)
       /\ UNCHANGED vars

mark_redeemed(token) ==
  /\ \E inserted \in BOOLEAN : check_and_add_nonce(token.nonce, inserted)
  /\ settled' = settled \cup {token.nonce}
  /\ UNCHANGED trustState

prune_redemption_cache ==
  \E expired \in 0..Len(nonce_entries) :
    /\ prune_expired(expired)
    /\ nonce_entries' = Rest(expired)
    /\ redeemed_nonces' = Kept(expired)
    /\ UNCHANGED <<now, accepted_at, evicted, settled, trustState>>

redemption_cache_size == Cardinality(redeemed_nonces)

AdvanceClock ==
  /\ now < MaxNow
  /\ now' = now + 1
  /\ UNCHANGED <<cacheState, trustState>>

Outcomes ==
  {"TRUE", "TOKEN_REPLAYED", "TOKEN_INVALID", "TOKEN_MALFORMED", "UNSUPPORTED_TOKEN_TYPE",
   "INVALID_CHALLENGE", "CRYPTO_ERROR", "ISSUER_UNKNOWN"}

Next ==
  \/ \E issuer \in Issuer, key \in Key, copied \in BOOLEAN :
       add_trusted_rsa_key(issuer, key, copied)
  \/ \E issuer \in Issuer, key \in VoprfKey : add_trusted_voprf_key(issuer, key)
  \/ \E issuer \in Issuer : remove_trusted_issuer(issuer)
  \/ \E token \in Token, expected \in Expected, outcome \in Outcomes :
       validate_and_redeem(token, expected, outcome)
  \/ \E token \in Token : mark_redeemed(token)
  \/ prune_redemption_cache
  \/ AdvanceClock

Spec == Init /\ [][Next]_vars

-----------------------------------------------------------------------------
TypeOK ==
  /\ now \in 0..MaxNow
  /\ nonce_entries \in Seq([nonce : Nonce, timestamp : 0..MaxNow])
  /\ redeemed_nonces \subseteq Nonce
  /\ rsa_keys \in [Issuer -> SUBSET Key]
  /\ voprf_keys \in [Issuer -> SUBSET VoprfKey]
  /\ origin_keys \subseteq Key
  /\ accepted_at \in [Nonce -> 0..MaxNow \cup {Never}]
  /\ evicted \subseteq Nonce
  /\ settled \subseteq Nonce

(* The deque and the set hold the same nonces, each once, the deque in the   *)
(* order of the clock and with the instant of the nonce's last acceptance:   *)
(* pruning stops at the first young entry, so an entry out of order or a      *)
(* nonce in one of the two only would stay for ever or leave too soon         *)
(* (check_and_add_nonce, prune_redemption_cache).                            *)
EntriesAscend ==
  \A i, j \in 1..Len(nonce_entries) :
    i < j => nonce_entries[i].timestamp <= nonce_entries[j].timestamp
EntriesDistinct ==
  \A i, j \in 1..Len(nonce_entries) :
    nonce_entries[i].nonce = nonce_entries[j].nonce => i = j
SetHoldsEntries == redeemed_nonces = Front(Len(nonce_entries))
EntriesDated ==
  \A i \in 1..Len(nonce_entries) :
    /\ nonce_entries[i].timestamp <= now
    /\ accepted_at[nonce_entries[i].nonce] = nonce_entries[i].timestamp

IndexesAgree ==
  /\ EntriesAscend
  /\ EntriesDistinct
  /\ SetHoldsEntries
  /\ EntriesDated

(* The cache never holds more than max_size nonces: room is made before the  *)
(* insertion (check_and_add_nonce).                                          *)
CapHolds == redemption_cache_size <= max_size

(* For replay_window after it was granted or marked, the window's last        *)
(* instant included, a nonce that the cap has not dropped is answered         *)
(* TOKEN_REPLAYED, whatever the token's other fields, the expected challenge  *)
(* and the issuers trusted by then (validate_and_redeem).                    *)
RefusesReplay ==
  \A token \in Token, expected \in Expected :
    /\ accepted_at[token.nonce] # Never
    /\ now - accepted_at[token.nonce] <= replay_window
    /\ token.nonce \notin evicted
    => redemption(token, expected) = "TOKEN_REPLAYED"

(* Conversely a token is refused as a replay only if its nonce was granted   *)
(* or marked before: a presentation that fails leaves no trace that could     *)
(* turn an honest holder of the nonce away (validate_and_redeem,             *)
(* token_authenticator.cpp:290).                                             *)
ReplayedImpliesRedeemed ==
  \A token \in Token : would_be_replay(token) => token.nonce \in settled

(* What the interface says of removal: "Remove a trusted issuer"             *)
(* (include/privacy_pass/core/token_authenticator.hpp:80).  A token is        *)
(* valid only under a key of an issuer that is trusted now.                  *)
ValidOnlyUnderTrustedIssuer ==
  \A token \in Token, expected \in Expected :
    validation(token, expected) = "TRUE" =>
      \E issuer \in Issuer : token.token_key_id \in rsa_keys[issuer]

(* The cache implements the abstract replay guard.                           *)
Guard == INSTANCE ReplayGuard WITH
  remembered <- redeemed_nonces,
  Retention <- replay_window + 1,
  Full <- AtCapacity

ImplementsReplayGuard == Guard!Spec
=============================================================================
