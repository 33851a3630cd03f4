------------------------------ MODULE OriginProofs ------------------------------
(***************************************************************************)
(* Theorems about Origin, for every set of threads, tokens and keys, every     *)
(* window, cap and clock rate.  What the replay cache does is cited from       *)
(* ReplayCacheProofs, whose cache is instantiated a second time as CP.        *)
(***************************************************************************)
EXTENDS Origin, SequenceTheorems, TLAPS

CP == INSTANCE ReplayCacheProofs

-----------------------------------------------------------------------------
(* The inductive invariant.                                                  *)

(* A position per live key, that holds this key and is filed under its byte;    *)
(* Origin, which removes nothing, has keys as soon as its vector has.         *)
KeysOK ==
  /\ Keys!TypeOK
  /\ \A key \in Key : key_index_by_full_id[key] = Keys!Absent <=> key \notin live
  /\ \A key \in live :
       /\ key_index_by_full_id[key] \in 1..Len(issuer_keys)
       /\ issuer_keys[key_index_by_full_id[key]] = key
       /\ key_index_by_full_id[key] \in key_indices_by_truncated_id[truncated[key]]
  /\ \A b \in Keys!Byte : \A index \in key_indices_by_truncated_id[b] :
       index \in 1..Len(issuer_keys) /\ truncated[issuer_keys[index]] = b
  /\ origin_class = "Origin" => (issuer_keys = <<>> <=> live = {})

(* The calls that the class makes.                                            *)
CallOfClass(call) ==
  /\ call \in Calls
  /\ call.stage \in {"reserved", "granted"} => origin_class # "PrivateOrigin"
  /\ call.stage \in {"checked", "redeemed"} => origin_class = "PrivateOrigin"

CallsOK ==
  /\ calls = [p \in Thread |-> calls[p]]
  /\ \A p \in Thread : CallOfClass(calls[p])
  /\ granted \subseteq Nonce /\ spoiled \subseteq Nonce

(* A call that holds a nonce, in the private class without having overlapped    *)
(* with another's mark; and one past a check that nobody has overlapped.       *)
Holding(call) ==
  \/ call.stage \in {"reserved", "granted"}
  \/ call.stage = "redeemed" /\ call.overlapped = FALSE

CheckedAlone(call) == call.stage = "checked" /\ call.overlapped = FALSE

(* The cache accepted a held nonce when the thread took it, or later.          *)
HeldSinceAccepted ==
  \A p \in Thread : Holding(calls[p]) =>
    /\ calls[p].reserved_at <= now
    /\ accepted_at[calls[p].token.nonce] # Never
    /\ calls[p].reserved_at <= accepted_at[calls[p].token.nonce]

(* Whoever is past a check that nobody has overlapped would still find the      *)
(* nonce unknown.                                                            *)
CheckedStillUnknown ==
  \A p \in Thread :
    CheckedAlone(calls[p]) => calls[p].token.nonce \notin all_nonces

HoldersApart ==
  \A p, q \in Thread :
    /\ p # q /\ Holding(calls[p]) /\ Holding(calls[q])
    /\ calls[p].token.nonce = calls[q].token.nonce
    /\ calls[p].token.nonce \notin spoiled
    /\ calls[p].reserved_at <= calls[q].reserved_at
    => calls[q].reserved_at - calls[p].reserved_at > ClockRate * (window_seconds - 1)

IInv ==
  /\ CP!IInv
  /\ KeysOK
  /\ CallsOK
  /\ evicted \subseteq spoiled
  /\ HeldSinceAccepted
  /\ CheckedStillUnknown
  /\ HoldersApart

-----------------------------------------------------------------------------
(* The cache.                                                                *)

(* What the theorems about the cache assume of its constants.                 *)
LEMMA CacheAssumed ==
  window_seconds \in Nat /\ max_size \in Nat /\ ClockRate \in Nat \ {0} /\ MaxNow \in Nat
BY OriginAssumption

(* The instance that Origin is made of and the one that the theorems come with  *)
(* define the same actions.                                                  *)
LEMMA CacheIsCP ==
  /\ Cache!Init <=> CP!Init
  /\ Cache!TypeOK <=> CP!TypeOK
  /\ Cache!AdvanceClock <=> CP!AdvanceClock
  /\ \A nonce, is_new : Cache!check_and_add(nonce, is_new) <=> CP!check_and_add(nonce, is_new)
  /\ \A t : Cache!Expired(t) <=> CP!Expired(t)
  /\ \A x : Cache!tick_of(x) = CP!tick_of(x)
<1>1. \A x : Cache!tick_of(x) = CP!tick_of(x)
  BY DEF Cache!tick_of, CP!tick_of
<1>2. Cache!current_tick = CP!current_tick
  BY <1>1 DEF Cache!current_tick, CP!current_tick
<1>3. \A t : Cache!Expired(t) <=> CP!Expired(t)
  BY <1>2 DEF Cache!Expired, CP!Expired
<1>4. Cache!Ticks = CP!Ticks /\ Cache!Never = CP!Never
  BY DEF Cache!Ticks, CP!Ticks, Cache!Never, CP!Never
<1>5. Cache!Init <=> CP!Init
  BY <1>4 DEF Cache!Init, CP!Init
<1>6. Cache!TypeOK <=> CP!TypeOK
  BY <1>4 DEF Cache!TypeOK, CP!TypeOK
<1>7. Cache!AdvanceClock <=> CP!AdvanceClock
  BY DEF Cache!AdvanceClock, CP!AdvanceClock, Cache!cacheState, CP!cacheState
<1>8. \A k : Cache!Front(k) = CP!Front(k)
  BY DEF Cache!Front, CP!Front
<1>9. \A held : Cache!OverLimit(held) <=> CP!OverLimit(held)
  BY DEF Cache!OverLimit, CP!OverLimit, Cache!Cardinality, CP!Cardinality
<1>10. ASSUME NEW expired, NEW dropped
       PROVE  Cache!prune_expired(expired, dropped) <=> CP!prune_expired(expired, dropped)
  BY <1>2, <1>3, <1>8, <1>9 DEF Cache!prune_expired, CP!prune_expired
<1>11. ASSUME NEW nonce, NEW is_new, NEW expired, NEW dropped
       PROVE  Cache!insert(nonce, is_new, expired, dropped) <=> CP!insert(nonce, is_new, expired, dropped)
  BY <1>2, <1>4, <1>8
     DEF Cache!insert, CP!insert, Cache!Released, CP!Released, Cache!Cleared, CP!Cleared,
         Cache!Rest, CP!Rest, Cache!ordered, CP!ordered, Cache!Capped, CP!Capped
<1>12. ASSUME NEW nonce, NEW is_new
       PROVE  Cache!check_and_add(nonce, is_new) <=> CP!check_and_add(nonce, is_new)
  BY <1>10, <1>11 DEF Cache!check_and_add, CP!check_and_add
<1> QED
  BY <1>1, <1>3, <1>5, <1>6, <1>7, <1>12

(* What a call of check_and_add does, in terms of the nonces alone.            *)
LEMMA CacheCall ==
  ASSUME CP!IInv, NEW nonce \in Nonce, NEW is_new \in BOOLEAN,
         Cache!check_and_add(nonce, is_new)
  PROVE  /\ CP!IInv'
         /\ now' = now
         /\ all_nonces' \subseteq all_nonces \cup {nonce}
         /\ nonce \notin all_nonces => is_new
         /\ accepted_at' = IF is_new THEN [accepted_at EXCEPT ![nonce] = now] ELSE accepted_at
<1>1. CP!check_and_add(nonce, is_new)
  BY CacheIsCP
<1>2. CP!IInv'
  BY <1>1, CacheAssumed, CP!CheckAndAddPreserves
<1>3. PICK dropped, expired : Cache!insert(nonce, is_new, expired, dropped)
  BY DEF Cache!check_and_add
<1> QED
  BY <1>2, <1>3 DEF Cache!insert

(* A nonce that a call takes as new although it was accepted within the window  *)
(* less one second was pushed out by the cap: earlier, or by this very call.   *)
LEMMA NewWithinWindow ==
  ASSUME CP!IInv, NEW nonce \in Nonce, accepted_at[nonce] # Never,
         now - accepted_at[nonce] <= ClockRate * (window_seconds - 1)
  PROVE  nonce \in evicted \cup DroppedByThisCall(nonce, TRUE)
<1>1. now \in Nat /\ accepted_at[nonce] \in Nat
  BY CacheAssumed DEF CP!IInv, CP!TypeOK, CP!Never, Never
<1>2. ClockRate * (window_seconds - 1) \in Int
  BY CacheAssumed
<1>3. ~(CP!tick_of(accepted_at[nonce]) + window_seconds <= CP!tick_of(now))
  BY <1>1, <1>2, CacheAssumed, CP!WindowOfTicks
<1>4. CASE nonce \notin all_nonces
  BY <1>3, <1>4 DEF CP!IInv, CP!ForgottenOnlyWhenDue, CP!current_tick, CP!Never, Never
<1>5. CASE nonce \in all_nonces
  <2>1. CP!tick_of(accepted_at[nonce]) \in Int /\ CP!tick_of(now) \in Int /\ window_seconds \in Int
    BY <1>1, CacheAssumed DEF CP!tick_of
  <2>2. ~CP!Expired(CP!tick_of(accepted_at[nonce]))
    BY <1>3, <2>1 DEF CP!Expired, CP!current_tick
  <2> QED
    BY <1>5, <2>2, CacheIsCP DEF DroppedByThisCall
<1> QED
  BY <1>4, <1>5

-----------------------------------------------------------------------------
(* The keys.                                                                 *)

LEMMA KeysAssumed == Keys!KeyIndexAssumption
BY OriginAssumption

LEMMA AddKeyPreserves ==
  ASSUME KeysOK, NEW key \in Key, add_issuer_key(key)
  PROVE  KeysOK'
<1> DEFINE n == Len(issuer_keys) + 1
           byte == truncated[key]
           old == key_indices_by_truncated_id[byte]
<1>1. /\ issuer_keys \in Seq(Key)
      /\ key_index_by_full_id \in [Key -> Nat]
      /\ key_indices_by_truncated_id \in [Keys!Byte -> SUBSET (Nat \ {Keys!Absent})]
      /\ live \subseteq Key
  BY DEF KeysOK, Keys!TypeOK
<1>2. Len(issuer_keys) \in Nat /\ n \in Nat /\ n # Keys!Absent
  BY <1>1 DEF Keys!Absent
<1>3. /\ issuer_keys' = Append(issuer_keys, key)
      /\ key_index_by_full_id' = [key_index_by_full_id EXCEPT ![key] = n]
      /\ key_indices_by_truncated_id' =
           [key_indices_by_truncated_id EXCEPT ![byte] = old \cup {n}]
      /\ live' = live \cup {key}
      /\ origin_class' = origin_class
  BY DEF add_issuer_key, Keys!add_issuer_key, Keys!NewIndex
<1>4. byte \in Keys!Byte
  BY DEF Keys!Byte
<1>5. /\ issuer_keys' \in Seq(Key) /\ Len(issuer_keys') = n
      /\ \A i \in 1..Len(issuer_keys) : issuer_keys'[i] = issuer_keys[i]
      /\ issuer_keys'[n] = key
  BY <1>1, <1>3, AppendProperties
<1> HIDE DEF n, byte, old
<1>6. Keys!TypeOK'
  BY <1>1, <1>2, <1>3, <1>4, <1>5 DEF Keys!TypeOK, Keys!Byte, old
<1>7. \A k \in Key : key_index_by_full_id'[k] = Keys!Absent <=> k \notin live'
  BY <1>1, <1>2, <1>3 DEF KeysOK
<1>8. \A b \in Keys!Byte :
        /\ key_indices_by_truncated_id'[b] =
             key_indices_by_truncated_id[b] \cup (IF b = byte THEN {n} ELSE {})
  BY <1>1, <1>3, <1>4 DEF old
<1>9. ASSUME NEW k \in live'
      PROVE  /\ key_index_by_full_id'[k] \in 1..Len(issuer_keys')
             /\ issuer_keys'[key_index_by_full_id'[k]] = k
             /\ key_index_by_full_id'[k] \in key_indices_by_truncated_id'[truncated[k]]
  <2>1. k \in Key /\ truncated[k] \in Keys!Byte
    BY <1>1, <1>3 DEF Keys!Byte
  <2>2. CASE k = key
    <3>1. key_index_by_full_id'[k] = n
      BY <1>1, <1>3, <2>2
    <3>2. n \in 1..Len(issuer_keys')
      BY <1>2, <1>5 DEF n
    <3>3. n \in key_indices_by_truncated_id'[truncated[k]]
      BY <1>4, <1>8, <2>2 DEF byte
    <3> QED
      BY <1>5, <2>2, <3>1, <3>2, <3>3
  <2>3. CASE k # key
    <3>1. key_index_by_full_id'[k] = key_index_by_full_id[k] /\ k \in live
      BY <1>1, <1>3, <2>1, <2>3
    <3>2. /\ key_index_by_full_id[k] \in 1..Len(issuer_keys)
          /\ issuer_keys[key_index_by_full_id[k]] = k
          /\ key_index_by_full_id[k] \in key_indices_by_truncated_id[truncated[k]]
      BY <3>1 DEF KeysOK
    <3>3. \A i \in 1..Len(issuer_keys) : i \in 1..Len(issuer_keys')
      BY <1>2, <1>5 DEF n
    <3> QED
      BY <1>5, <1>8, <2>1, <3>1, <3>2, <3>3
  <2> QED
    BY <2>2, <2>3
<1>10. ASSUME NEW b \in Keys!Byte, NEW index \in key_indices_by_truncated_id'[b]
       PROVE  index \in 1..Len(issuer_keys') /\ truncated[issuer_keys'[index]] = b
  <2>1. CASE index = n /\ b = byte
    <3>1. n \in 1..Len(issuer_keys')
      BY <1>2, <1>5 DEF n
    <3> QED
      BY <1>5, <2>1, <3>1 DEF byte
  <2>2. CASE index \in key_indices_by_truncated_id[b]
    <3>1. index \in 1..Len(issuer_keys) /\ truncated[issuer_keys[index]] = b
      BY <2>2 DEF KeysOK
    <3>2. index \in 1..Len(issuer_keys')
      BY <1>2, <1>5, <3>1 DEF n
    <3> QED
      BY <1>5, <3>1, <3>2
  <2> QED
    BY <1>8, <2>1, <2>2
<1>11. issuer_keys' # <<>> /\ live' # {}
  BY <1>2, <1>3, <1>5 DEF n
<1> QED
  BY <1>6, <1>7, <1>9, <1>10, <1>11 DEF KeysOK, Keys!Byte, Keys!Absent

LEMMA RemoveKeyPreserves ==
  ASSUME KeysOK, NEW key \in Key, remove_issuer_key(key)
  PROVE  KeysOK'
<1> DEFINE index == key_index_by_full_id[key]
           byte == truncated[key]
<1>1. /\ issuer_keys \in Seq(Key)
      /\ key_index_by_full_id \in [Key -> Nat]
      /\ key_indices_by_truncated_id \in [Keys!Byte -> SUBSET (Nat \ {Keys!Absent})]
      /\ live \subseteq Key
  BY DEF KeysOK, Keys!TypeOK
<1>2. origin_class = "PublicOrigin" /\ origin_class' = origin_class
  BY DEF remove_issuer_key
<1>3. CASE index = Keys!Absent
  <2>1. UNCHANGED keyVars
    BY <1>3 DEF remove_issuer_key, Keys!remove_issuer_key, Keys!keyState, keyVars
  <2> QED
    BY <1>2, <2>1 DEF KeysOK, keyVars, Keys!TypeOK, Keys!Byte, Keys!Absent
<1>4. CASE index # Keys!Absent
  <2>1. /\ issuer_keys' = issuer_keys
        /\ key_index_by_full_id' = [key_index_by_full_id EXCEPT ![key] = Keys!Absent]
        /\ key_indices_by_truncated_id' =
             [key_indices_by_truncated_id EXCEPT ![byte] = @ \ {index}]
        /\ live' = live \ {key}
    BY <1>4 DEF remove_issuer_key, Keys!remove_issuer_key, Keys!erase_known_key,
                Keys!KeysAfterRemoval
  <2>2. key \in live /\ issuer_keys[index] = key
    BY <1>4 DEF KeysOK
  <2>3. byte \in Keys!Byte
    BY DEF Keys!Byte
  <2> HIDE DEF index, byte
  <2>4. \A b \in Keys!Byte :
          key_indices_by_truncated_id'[b] =
            key_indices_by_truncated_id[b] \ (IF b = byte THEN {index} ELSE {})
    BY <1>1, <2>1, <2>3
  <2>5. \A k \in Key : key_index_by_full_id'[k] =
          IF k = key THEN Keys!Absent ELSE key_index_by_full_id[k]
    BY <1>1, <2>1
  <2>6. Keys!TypeOK'
    <3>1. key_index_by_full_id' \in [Key -> Nat]
      BY <1>1, <2>1 DEF Keys!Absent
    <3>2. key_indices_by_truncated_id' \in [Keys!Byte -> SUBSET (Nat \ {Keys!Absent})]
      BY <1>1, <2>1, <2>3
    <3> QED
      BY <1>1, <2>1, <3>1, <3>2 DEF Keys!TypeOK, Keys!Byte, Keys!Absent
  <2>7. \A k \in Key : key_index_by_full_id'[k] = Keys!Absent <=> k \notin live'
    BY <2>1, <2>5 DEF KeysOK
  <2>8. ASSUME NEW k \in live'
        PROVE  /\ key_index_by_full_id'[k] \in 1..Len(issuer_keys')
               /\ issuer_keys'[key_index_by_full_id'[k]] = k
               /\ key_index_by_full_id'[k] \in key_indices_by_truncated_id'[truncated[k]]
    <3>1. k \in live /\ k # key /\ k \in Key /\ truncated[k] \in Keys!Byte
      BY <1>1, <2>1 DEF Keys!Byte
    <3>2. /\ key_index_by_full_id[k] \in 1..Len(issuer_keys)
          /\ issuer_keys[key_index_by_full_id[k]] = k
          /\ key_index_by_full_id[k] \in key_indices_by_truncated_id[truncated[k]]
      BY <3>1 DEF KeysOK
    <3>3. key_index_by_full_id[k] # index
      BY <2>2, <3>1, <3>2
    <3> QED
      BY <2>1, <2>4, <2>5, <3>1, <3>2, <3>3
  <2>9. \A b \in Keys!Byte : \A i \in key_indices_by_truncated_id'[b] :
          i \in 1..Len(issuer_keys') /\ truncated[issuer_keys'[i]] = b
    BY <2>1, <2>4 DEF KeysOK
  <2> QED
    BY <1>2, <2>6, <2>7, <2>8, <2>9 DEF KeysOK, Keys!Byte, Keys!Absent
<1> QED
  BY <1>3, <1>4

(* A step that leaves keys and class alone.                                   *)
LEMMA KeysUntouched ==
  ASSUME KeysOK, UNCHANGED keyVars, UNCHANGED origin_class
  PROVE  KeysOK'
BY DEF KeysOK, keyVars, Keys!TypeOK, Keys!Byte, Keys!Absent

(* The lookup of a key.                                                       *)
LEMMA FoundIsLive ==
  ASSUME KeysOK, NEW key \in Key
  PROVE  Keys!found(key) = {key} \cap live
BY DEF KeysOK, Keys!found

-----------------------------------------------------------------------------
(* The calls.                                                                *)

(* What a call that names a token knows of it.                                *)
LEMMA CallFields ==
  ASSUME NEW call \in Calls, Holding(call) \/ call.stage = "checked"
  PROVE  /\ call.token \in Token /\ call.token.nonce \in Nonce
         /\ Holding(call) => call.reserved_at \in 0..MaxNow
<1>1. \A token \in Token : token.nonce \in Nonce
  BY OriginAssumption DEF Tokens
<1> QED
  BY <1>1 DEF Calls, Idle, Holding

(* A step that changes one call and no cache: the call holds what it held       *)
(* before or nothing.                                                        *)
LEMMA CallChangePreserves ==
  ASSUME IInv, NEW p \in Thread, NEW new, CallOfClass(new),
         calls' = [calls EXCEPT ![p] = new],
         UNCHANGED <<origin_class, cacheVars, keyVars, spoiled>>,
         granted' \subseteq Nonce,
         Holding(new) => /\ Holding(calls[p])
                         /\ new.token = calls[p].token
                         /\ new.reserved_at = calls[p].reserved_at,
         CheckedAlone(new) => new.token.nonce \notin all_nonces
  PROVE  IInv'
<1>1. calls' = [q \in Thread |-> IF q = p THEN new ELSE calls[q]]
  BY DEF IInv, CallsOK
<1>2. CP!IInv'
  BY CacheAssumed, CP!StepPreserves DEF IInv, cacheVars, CP!vars, CP!cacheState
<1>3. KeysOK'
  BY KeysUntouched DEF IInv
<1>4. CallsOK'
  BY <1>1 DEF IInv, CallsOK, CallOfClass
<1>5. \A q \in Thread : Holding(calls'[q]) =>
        /\ Holding(calls[q])
        /\ calls'[q].token = calls[q].token
        /\ calls'[q].reserved_at = calls[q].reserved_at
  BY <1>1
<1>6. HeldSinceAccepted'
  BY <1>5 DEF IInv, HeldSinceAccepted, cacheVars, Never
<1>7. CheckedStillUnknown'
  BY <1>1 DEF IInv, CheckedStillUnknown, cacheVars
<1>8. HoldersApart'
  BY <1>5 DEF IInv, HoldersApart
<1> QED
  BY <1>2, <1>3, <1>4, <1>6, <1>7, <1>8 DEF IInv, cacheVars

(* A step with a call of check_and_add: the thread that makes it holds the      *)
(* nonce only if it was new, and whoever still counts as alone past a check    *)
(* checked another nonce.                                                    *)
LEMMA CacheCallPreserves ==
  ASSUME IInv, NEW p \in Thread, NEW nonce \in Nonce, NEW is_new \in BOOLEAN,
         Cache!check_and_add(nonce, is_new), NotesSpoiled(nonce, is_new),
         UNCHANGED <<origin_class, keyVars>>, granted' \subseteq Nonce,
         calls' = [q \in Thread |-> calls'[q]],
         \A q \in Thread : CallOfClass(calls'[q]),
         \A q \in Thread : q # p /\ Holding(calls'[q]) => calls'[q] = calls[q],
         Holding(calls'[p]) => /\ is_new
                               /\ calls'[p].token.nonce = nonce
                               /\ calls'[p].reserved_at = now,
         \A q \in Thread : CheckedAlone(calls'[q]) =>
           calls'[q].token.nonce \notin all_nonces \cup {nonce}
  PROVE  IInv'
<1>1. /\ CP!IInv' /\ now' = now
      /\ all_nonces' \subseteq all_nonces \cup {nonce}
      /\ accepted_at' = IF is_new THEN [accepted_at EXCEPT ![nonce] = now] ELSE accepted_at
  BY CacheCall DEF IInv
<1>2. /\ now \in 0..MaxNow
      /\ accepted_at \in [Nonce -> 0..MaxNow \cup {Never}]
      /\ evicted' \subseteq Nonce
  BY <1>1 DEF IInv, CP!IInv, CP!TypeOK, CP!Never, Never
<1>3. /\ spoiled' = spoiled \cup evicted' \cup DroppedByThisCall(nonce, is_new)
      /\ DroppedByThisCall(nonce, is_new) \subseteq Nonce
  BY DEF NotesSpoiled, DroppedByThisCall
<1>4. KeysOK'
  BY KeysUntouched DEF IInv
<1>5. CallsOK'
  <2>1. \A q \in Thread : CallOfClass(calls[q])'
    BY DEF CallOfClass
  <2> QED
    BY <1>2, <1>3, <2>1 DEF IInv, CallsOK
<1>6. \A q \in Thread : Holding(calls'[q]) =>
        calls'[q].token.nonce \in Nonce /\ calls'[q].reserved_at \in 0..MaxNow
  BY CallFields DEF CallOfClass
<1>7. 0..MaxNow \subseteq Nat /\ MaxNow \in Nat
  BY CacheAssumed
<1>8. HeldSinceAccepted'
  <2> SUFFICES ASSUME NEW q \in Thread, Holding(calls'[q])
               PROVE  /\ calls'[q].reserved_at <= now
                      /\ accepted_at'[calls'[q].token.nonce] # Never
                      /\ calls'[q].reserved_at <= accepted_at'[calls'[q].token.nonce]
    BY <1>1 DEF HeldSinceAccepted, Never
  <2>1. now # Never
    BY <1>2, <1>7 DEF Never
  <2>2. CASE q = p
    BY <1>1, <1>2, <1>7, <2>1, <2>2
  <2>3. CASE q # p
    <3>1. /\ calls[q].reserved_at <= now
          /\ accepted_at[calls[q].token.nonce] # Never
          /\ calls[q].reserved_at <= accepted_at[calls[q].token.nonce]
          /\ calls'[q] = calls[q]
      BY <2>3 DEF IInv, HeldSinceAccepted
    <3> QED
      BY <1>1, <1>2, <1>6, <2>1, <3>1
  <2> QED
    BY <2>2, <2>3
<1>9. CheckedStillUnknown'
  BY <1>1 DEF CheckedStillUnknown
(* The new holder is apart from the earlier ones.                              *)
<1>10. ASSUME NEW q \in Thread, q # p, Holding(calls'[p]), Holding(calls'[q]),
              calls'[q].token.nonce = nonce, nonce \notin spoiled'
       PROVE  /\ calls'[q].reserved_at <= now
              /\ now - calls'[q].reserved_at > ClockRate * (window_seconds - 1)
  <2>1. /\ calls'[q] = calls[q] /\ is_new
        /\ calls[q].reserved_at <= now
        /\ accepted_at[nonce] # Never
        /\ calls[q].reserved_at <= accepted_at[nonce]
    BY <1>10 DEF IInv, HeldSinceAccepted
  <2>2. calls[q].reserved_at \in Nat /\ accepted_at[nonce] \in Nat /\ now \in Nat
    BY <1>2, <1>6, <1>7, <1>10, <2>1
  <2>3. ClockRate * (window_seconds - 1) \in Int
    BY CacheAssumed
  <2>4. ~(now - accepted_at[nonce] <= ClockRate * (window_seconds - 1))
    <3>1. is_new = TRUE
      BY <2>1
    <3>2. nonce \notin evicted \cup DroppedByThisCall(nonce, TRUE)
      BY <1>3, <1>10, <3>1 DEF IInv
    <3> QED
      BY <2>1, <3>2, NewWithinWindow DEF IInv
  <2> QED
    BY <2>1, <2>2, <2>3, <2>4
<1>11. HoldersApart'
  <2> SUFFICES ASSUME NEW q \in Thread, NEW r \in Thread, q # r,
                      Holding(calls'[q]), Holding(calls'[r]),
                      calls'[q].token.nonce = calls'[r].token.nonce,
                      calls'[q].token.nonce \notin spoiled',
                      calls'[q].reserved_at <= calls'[r].reserved_at
               PROVE  calls'[r].reserved_at - calls'[q].reserved_at > ClockRate * (window_seconds - 1)
    BY DEF HoldersApart
  <2>1. CASE q # p /\ r # p
    BY <1>3, <2>1 DEF IInv, HoldersApart
  <2>2. CASE r = p
    BY <1>10, <2>2
  <2>3. CASE q = p
    <3>1. /\ calls'[r].reserved_at <= now /\ calls'[q].reserved_at = now
          /\ now - calls'[r].reserved_at > ClockRate * (window_seconds - 1)
      BY <1>10, <2>3
    <3>2. calls'[r].reserved_at = now
      BY <1>2, <1>6, <1>7, <3>1
    <3> QED
      BY <3>1, <3>2
  <2> QED
    BY <2>1, <2>2, <2>3
<1> QED
  BY <1>1, <1>3, <1>4, <1>5, <1>8, <1>9, <1>11 DEF IInv

-----------------------------------------------------------------------------
(* Each action preserves the invariant.                                       *)

LEMMA InitEstablishes == Init => IInv
<1> SUFFICES ASSUME Init PROVE IInv
  OBVIOUS
<1>1. CP!IInv
  BY CacheIsCP, CacheAssumed, CP!InitEstablishes DEF Init
<1>2. KeysOK
  <2>1. Keys!TypeOK
    BY DEF Init, Keys!Init, Keys!TypeOK, Keys!Absent
  <2> QED
    BY <2>1 DEF Init, Keys!Init, KeysOK
<1>3. /\ calls = [p \in Thread |-> Idle] /\ granted = {} /\ spoiled = {} /\ evicted = {}
  BY DEF Init, Cache!Init
<1>4. CallsOK
  <2>1. CallOfClass(Idle)
    BY DEF CallOfClass, Calls, Idle
  <2> QED
    BY <1>3, <2>1 DEF CallsOK
<1>5. ~Holding(Idle) /\ ~CheckedAlone(Idle)
  BY DEF Holding, CheckedAlone, Idle
<1> QED
  BY <1>1, <1>2, <1>3, <1>4, <1>5
     DEF IInv, HeldSinceAccepted, CheckedStillUnknown, HoldersApart

LEMMA TokenNonces == \A token \in Token : token.nonce \in Nonce
BY OriginAssumption DEF Tokens

LEMMA BeginRedeemPreserves ==
  ASSUME IInv, NEW p \in Thread, NEW token \in Token, begin_redeem(p, token)
  PROVE  IInv'
<1> DEFINE taken == [stage |-> "reserved", token |-> token, reserved_at |-> now]
           refused == [stage |-> "refused", token |-> token, contended |-> Pending(token.nonce)]
<1>1. PICK is_new \in BOOLEAN :
        /\ Cache!check_and_add(token.nonce, is_new)
        /\ NotesSpoiled(token.nonce, is_new)
        /\ calls' = [calls EXCEPT ![p] = IF is_new THEN taken ELSE refused]
  BY DEF begin_redeem, Reserve
<1>2. /\ origin_class # "PrivateOrigin"
      /\ UNCHANGED <<origin_class, keyVars, granted>>
  BY DEF begin_redeem
<1>3. now \in 0..MaxNow /\ token.nonce \in Nonce
  BY TokenNonces DEF IInv, CP!IInv, CP!TypeOK
<1>4. CallOfClass(taken) /\ CallOfClass(refused)
  BY <1>2, <1>3 DEF CallOfClass, Calls, Pending
<1>5. taken.token.nonce = token.nonce /\ taken.reserved_at = now /\ ~Holding(refused)
      /\ ~CheckedAlone(taken) /\ ~CheckedAlone(refused)
  BY DEF Holding, CheckedAlone
<1> HIDE DEF taken, refused
<1>6. calls' = [q \in Thread |-> IF q = p THEN IF is_new THEN taken ELSE refused ELSE calls[q]]
  BY <1>1 DEF IInv, CallsOK
<1>7. \A q \in Thread : CallOfClass(calls'[q])
  BY <1>4, <1>6 DEF IInv, CallsOK
<1>8. \A q \in Thread : ~CheckedAlone(calls'[q])
  BY <1>2, <1>5, <1>6 DEF IInv, CallsOK, CallOfClass, CheckedAlone
<1>9. Holding(calls'[p]) =>
        is_new /\ calls'[p].token.nonce = token.nonce /\ calls'[p].reserved_at = now
  BY <1>5, <1>6
<1>10. calls' = [q \in Thread |-> calls'[q]] /\ \A q \in Thread : q # p => calls'[q] = calls[q]
  BY <1>6
<1>11. granted' \subseteq Nonce
  BY <1>2 DEF IInv, CallsOK
<1>12. \A q \in Thread : q # p /\ Holding(calls'[q]) => calls'[q] = calls[q]
  BY <1>10
<1>13. \A q \in Thread : CheckedAlone(calls'[q]) =>
         calls'[q].token.nonce \notin all_nonces \cup {token.nonce}
  BY <1>8
<1> DEFINE nonce == token.nonce
<1>14. /\ nonce \in Nonce
       /\ Cache!check_and_add(nonce, is_new) /\ NotesSpoiled(nonce, is_new)
       /\ Holding(calls'[p]) => is_new /\ calls'[p].token.nonce = nonce /\ calls'[p].reserved_at = now
       /\ \A q \in Thread : CheckedAlone(calls'[q]) => calls'[q].token.nonce \notin all_nonces \cup {nonce}
  BY <1>1, <1>3, <1>9, <1>13
<1> HIDE DEF nonce
<1> QED
  BY <1>2, <1>7, <1>10, <1>11, <1>12, <1>14, CacheCallPreserves

LEMMA FinishRedeemPreserves ==
  ASSUME IInv, NEW p \in Thread, NEW expected, finish_redeem(p, expected)
  PROVE  IInv'
<1> DEFINE call == calls[p]
           accepted == verify(call.token, expected) = "TRUE"
           new == IF accepted THEN [call EXCEPT !.stage = "granted"] ELSE Idle
<1>1. /\ call.stage = "reserved"
      /\ calls' = [calls EXCEPT ![p] = new]
      /\ granted' = IF accepted THEN granted \cup {call.token.nonce} ELSE granted
      /\ UNCHANGED <<origin_class, cacheVars, keyVars, spoiled>>
  BY DEF finish_redeem, AfterFailure
<1>2. /\ call \in [stage : {"reserved", "granted"}, token : Token, reserved_at : 0..MaxNow]
      /\ origin_class # "PrivateOrigin" /\ granted \subseteq Nonce
  BY <1>1 DEF IInv, CallsOK, CallOfClass, Calls, Idle
<1>3. call.token.nonce \in Nonce
  BY <1>2, TokenNonces
<1>4. /\ CallOfClass(new)
      /\ Holding(new) => new.token = call.token /\ new.reserved_at = call.reserved_at
      /\ ~CheckedAlone(new)
  BY <1>2 DEF CallOfClass, Calls, Idle, Holding, CheckedAlone
<1>5. Holding(call)
  BY <1>1 DEF Holding
<1>6. granted' \subseteq Nonce
  BY <1>1, <1>2, <1>3
<1> HIDE DEF new, accepted
<1> QED
  BY <1>1, <1>4, <1>5, <1>6, CallChangePreserves

LEMMA BeginPrivatePreserves ==
  ASSUME IInv, NEW p \in Thread, NEW token \in Token, NEW expected,
         begin_private(p, token, expected)
  PROVE  IInv'
<1> DEFINE new == IF Cache!contains(token.nonce)
                  THEN [stage |-> "refused", token |-> token, contended |-> FALSE]
                  ELSE [stage |-> "checked", token |-> token, overlapped |-> FALSE]
<1>1. /\ origin_class = "PrivateOrigin"
      /\ calls' = [calls EXCEPT ![p] = new]
      /\ UNCHANGED <<origin_class, cacheVars, keyVars, granted, spoiled>>
  BY DEF begin_private
<1>2. CallOfClass(new) /\ ~Holding(new)
  BY <1>1 DEF CallOfClass, Calls, Holding
<1>3. CheckedAlone(new) => new.token.nonce \notin all_nonces
  BY DEF CheckedAlone, Cache!contains
<1>4. granted' \subseteq Nonce
  BY <1>1 DEF IInv, CallsOK
<1> HIDE DEF new
<1> QED
  BY <1>1, <1>2, <1>3, <1>4, CallChangePreserves

LEMMA FinishPrivatePreserves ==
  ASSUME IInv, NEW p \in Thread, NEW key, finish_private(p, key)
  PROVE  IInv'
<1> DEFINE nonce == calls[p].token.nonce
<1>1. calls[p].stage = "checked" /\ UNCHANGED <<origin_class, keyVars>>
  BY DEF finish_private
<1>2. /\ calls[p] \in [stage : {"checked"}, token : Token, overlapped : BOOLEAN]
      /\ origin_class = "PrivateOrigin" /\ granted \subseteq Nonce
  BY <1>1 DEF IInv, CallsOK, CallOfClass, Calls, Idle
<1>3. nonce \in Nonce
  BY <1>2, TokenNonces
<1>4. CASE issuer_verify(calls[p].token, key) # "TRUE"
  <2>1. /\ calls' = [calls EXCEPT ![p] = Idle]
        /\ UNCHANGED <<cacheVars, granted, spoiled>>
    BY <1>4 DEF finish_private
  <2>2. CallOfClass(Idle) /\ ~Holding(Idle) /\ ~CheckedAlone(Idle)
    BY DEF CallOfClass, Calls, Holding, CheckedAlone, Idle
  <2> QED
    BY <1>1, <1>2, <2>1, <2>2, CallChangePreserves
<1>5. CASE issuer_verify(calls[p].token, key) = "TRUE"
  <2> DEFINE mine == [stage |-> "redeemed", token |-> calls[p].token, reserved_at |-> now,
                      overlapped |-> calls[p].overlapped]
             other(q) == [calls[q] EXCEPT !.overlapped = TRUE]
             same(q) == calls[q].stage = "checked" /\ calls[q].token.nonce = nonce
  <2>1. PICK is_new \in BOOLEAN :
          Cache!check_and_add(nonce, is_new) /\ NotesSpoiled(nonce, is_new)
    BY <1>5 DEF finish_private, Mark
  <2>2. /\ calls' = [q \in Thread |->
                       IF q = p THEN mine ELSE IF same(q) THEN other(q) ELSE calls[q]]
        /\ granted' = granted \cup {nonce}
    BY <1>5 DEF finish_private, Marked
  <2>3. now \in 0..MaxNow
    BY DEF IInv, CP!IInv, CP!TypeOK
  <2>4. /\ CallOfClass(mine) /\ mine.token.nonce = nonce /\ mine.reserved_at = now
        /\ mine.overlapped = calls[p].overlapped /\ mine.stage = "redeemed"
    BY <1>2, <2>3 DEF CallOfClass, Calls
  <2>5. ASSUME NEW q \in Thread, same(q)
        PROVE  CallOfClass(other(q)) /\ ~Holding(other(q)) /\ ~CheckedAlone(other(q))
    <3>1. calls[q] \in [stage : {"checked"}, token : Token, overlapped : BOOLEAN]
      BY <2>5 DEF IInv, CallsOK, CallOfClass, Calls, Idle
    <3>2. /\ other(q) \in [stage : {"checked"}, token : Token, overlapped : BOOLEAN]
          /\ other(q).overlapped = TRUE
      BY <3>1
    <3> QED
      BY <1>2, <3>2 DEF CallOfClass, Calls, Holding, CheckedAlone
  <2> HIDE DEF mine, other
  <2>6. \A q \in Thread : calls'[q] =
          IF q = p THEN mine ELSE IF same(q) THEN other(q) ELSE calls[q]
    BY <2>2
  <2>7. \A q \in Thread : CallOfClass(calls'[q])
    BY <2>4, <2>5, <2>6 DEF IInv, CallsOK
  <2>8. \A q \in Thread : q # p /\ Holding(calls'[q]) => calls'[q] = calls[q]
    BY <2>5, <2>6
  <2>9. Holding(calls'[p]) =>
          is_new /\ calls'[p].token.nonce = nonce /\ calls'[p].reserved_at = now
    <3>1. SUFFICES ASSUME Holding(mine) PROVE is_new
      BY <2>4, <2>6
    <3>2. CheckedAlone(calls[p])
      BY <1>1, <2>4, <3>1 DEF Holding, CheckedAlone
    <3>3. nonce \notin all_nonces
      BY <3>2 DEF IInv, CheckedStillUnknown
    <3> QED
      BY <1>3, <2>1, <3>3, CacheCall DEF IInv
  <2>10. \A q \in Thread : CheckedAlone(calls'[q]) =>
           calls'[q].token.nonce \notin all_nonces \cup {nonce}
    <3>1. ~CheckedAlone(mine)
      BY <2>4 DEF CheckedAlone
    <3>2. \A q \in Thread : CheckedAlone(calls'[q]) => calls'[q] = calls[q] /\ ~same(q)
      BY <2>5, <2>6, <3>1
    <3>3. \A q \in Thread : CheckedAlone(calls[q]) => calls[q].token.nonce \notin all_nonces
      BY DEF IInv, CheckedStillUnknown
    <3> QED
      BY <3>2, <3>3 DEF CheckedAlone
  <2>11. granted' \subseteq Nonce /\ calls' = [q \in Thread |-> calls'[q]]
    BY <1>2, <1>3, <2>2
  <2> HIDE DEF nonce
  <2> QED
    BY <1>1, <1>3, <2>1, <2>7, <2>8, <2>9, <2>10, <2>11, CacheCallPreserves
<1> QED
  BY <1>4, <1>5

LEMMA KeyChangePreserves ==
  ASSUME IInv, NEW key \in Key, add_issuer_key(key) \/ remove_issuer_key(key)
  PROVE  IInv'
<1>1. KeysOK'
  BY AddKeyPreserves, RemoveKeyPreserves DEF IInv
<1>2. UNCHANGED <<origin_class, cacheVars, calls, granted, spoiled>>
  BY DEF add_issuer_key, remove_issuer_key
<1>3. CP!IInv'
  BY <1>2, CacheAssumed, CP!StepPreserves DEF IInv, cacheVars, CP!vars, CP!cacheState
<1>4. CallsOK'
  BY <1>2 DEF IInv, CallsOK, CallOfClass
<1>5. HeldSinceAccepted' /\ CheckedStillUnknown' /\ HoldersApart'
  BY <1>2 DEF IInv, HeldSinceAccepted, CheckedStillUnknown, HoldersApart, cacheVars, Never
<1> QED
  BY <1>1, <1>2, <1>3, <1>4, <1>5 DEF IInv, cacheVars

LEMMA AdvanceClockPreserves ==
  ASSUME IInv, AdvanceClock
  PROVE  IInv'
<1>1. CP!IInv'
  BY CacheIsCP, CacheAssumed, CP!AdvanceClockPreserves DEF IInv, AdvanceClock
<1>2. /\ now' = now + 1
      /\ UNCHANGED <<all_nonces, accepted_at, evicted>>
      /\ UNCHANGED <<origin_class, keyVars, calls, granted, spoiled>>
  BY DEF AdvanceClock, Cache!AdvanceClock, Cache!cacheState
<1>3. KeysOK'
  BY <1>2, KeysUntouched DEF IInv
<1>4. CallsOK'
  BY <1>2 DEF IInv, CallsOK, CallOfClass
<1>5. HeldSinceAccepted'
  <2>1. now \in Nat
    BY CacheAssumed DEF IInv, CP!IInv, CP!TypeOK
  <2>2. \A p \in Thread : Holding(calls[p]) => calls[p].reserved_at \in Nat
    BY CallFields, CacheAssumed DEF IInv, CallsOK, CallOfClass
  <2> QED
    BY <1>2, <2>1, <2>2 DEF IInv, HeldSinceAccepted, Never
<1>6. CheckedStillUnknown' /\ HoldersApart'
  BY <1>2 DEF IInv, CheckedStillUnknown, HoldersApart
<1> QED
  BY <1>1, <1>2, <1>3, <1>4, <1>5, <1>6 DEF IInv

LEMMA StepPreserves == IInv /\ [Next]_vars => IInv'
<1> SUFFICES ASSUME IInv, [Next]_vars PROVE IInv'
  OBVIOUS
<1>1. CASE \E p \in Thread, token \in Token : begin_redeem(p, token)
  BY <1>1, BeginRedeemPreserves
<1>2. CASE \E p \in Thread, expected \in Expected : finish_redeem(p, expected)
  BY <1>2, FinishRedeemPreserves
<1>3. CASE \E p \in Thread, token \in Token, expected \in Expected : begin_private(p, token, expected)
  BY <1>3, BeginPrivatePreserves
<1>4. CASE \E p \in Thread, key \in Key : finish_private(p, key)
  BY <1>4, FinishPrivatePreserves
<1>5. CASE \E key \in Key : add_issuer_key(key) \/ remove_issuer_key(key)
  BY <1>5, KeyChangePreserves
<1>6. CASE AdvanceClock
  BY <1>6, AdvanceClockPreserves
<1>7. CASE UNCHANGED vars
  <2>1. UNCHANGED <<origin_class, cacheVars, keyVars, calls, granted, spoiled>>
    BY <1>7 DEF vars
  <2>2. CP!IInv'
    BY <2>1, CacheAssumed, CP!StepPreserves DEF IInv, cacheVars, CP!vars, CP!cacheState
  <2>3. KeysOK'
    BY <2>1, KeysUntouched DEF IInv
  <2>4. CallsOK'
    BY <2>1 DEF IInv, CallsOK, CallOfClass
  <2>5. HeldSinceAccepted' /\ CheckedStillUnknown' /\ HoldersApart'
    BY <2>1 DEF IInv, HeldSinceAccepted, CheckedStillUnknown, HoldersApart, cacheVars, Never
  <2> QED
    BY <2>1, <2>2, <2>3, <2>4, <2>5 DEF IInv, cacheVars
<1> QED
  BY <1>1, <1>2, <1>3, <1>4, <1>5, <1>6, <1>7 DEF Next

LEMMA Invariance == Spec => []IInv
BY InitEstablishes, StepPreserves, PTL DEF Spec

-----------------------------------------------------------------------------
(* The properties.                                                           *)

(* Types of the origin, its cache and its keys (every operation of             *)
(* origin.cpp:144-507).                                                      *)
THEOREM TypesAreKept == Spec => []TypeOK
<1>1. IInv => TypeOK
  BY CacheIsCP DEF IInv, CP!IInv, KeysOK, CallsOK, CallOfClass, TypeOK
<1> QED
  BY <1>1, Invariance, PTL

(* Two calls that got past the reservation of one nonce did so more than the    *)
(* window less a second apart, unless the cap pushed the nonce out in between   *)
(* (verify_and_redeem of PublicOrigin and of Origin).                         *)
THEOREM RedemptionsAreApart == Spec => []OneRedemptionPerWindow
<1>1. IInv => OneRedemptionPerWindow
  <2> SUFFICES ASSUME IInv, NEW p \in Thread, NEW q \in Thread,
                      CloseHolders(p, q, {"reserved", "granted"})
               PROVE  FALSE
    BY DEF OneRedemptionPerWindow
  <2>1. Holding(calls[p]) /\ Holding(calls[q])
    BY DEF CloseHolders, Holding
  <2>2. calls[q].reserved_at - calls[p].reserved_at > ClockRate * (window_seconds - 1)
    BY <2>1 DEF CloseHolders, IInv, HoldersApart
  <2>3. calls[q].reserved_at - calls[p].reserved_at <= ClockRate * (window_seconds - 1)
    BY DEF CloseHolders
  <2>4. calls[p].reserved_at \in Int /\ calls[q].reserved_at \in Int
    BY <2>1, CallFields, CacheAssumed DEF IInv, CallsOK, CallOfClass
  <2>5. ClockRate * (window_seconds - 1) \in Int
    BY CacheAssumed
  <2> QED
    BY <2>2, <2>3, <2>4, <2>5
<1> QED
  BY <1>1, Invariance, PTL

(* Two threads of a PrivateOrigin redeem one nonce within that time only if one *)
(* of them was between its check and its mark when the other marked            *)
(* (would_be_replay, mark_redeemed).                                         *)
THEOREM PrivateRedemptionsRace == Spec => []PrivateRedemptionsOverlap
<1>1. IInv => PrivateRedemptionsOverlap
  <2> SUFFICES ASSUME IInv, NEW p \in Thread, NEW q \in Thread,
                      CloseHolders(p, q, {"redeemed"}),
                      ~calls[p].overlapped, ~calls[q].overlapped
               PROVE  FALSE
    BY DEF PrivateRedemptionsOverlap
  <2>1. calls[p].overlapped \in BOOLEAN /\ calls[q].overlapped \in BOOLEAN
    BY DEF CloseHolders, IInv, CallsOK, CallOfClass, Calls, Idle
  <2>2. Holding(calls[p]) /\ Holding(calls[q])
    BY <2>1 DEF CloseHolders, Holding
  <2>3. calls[q].reserved_at - calls[p].reserved_at > ClockRate * (window_seconds - 1)
    BY <2>2 DEF CloseHolders, IInv, HoldersApart
  <2>4. calls[q].reserved_at - calls[p].reserved_at <= ClockRate * (window_seconds - 1)
    BY DEF CloseHolders
  <2>5. calls[p].reserved_at \in Int /\ calls[q].reserved_at \in Int
    BY <2>2, CallFields, CacheAssumed DEF IInv, CallsOK, CallOfClass
  <2>6. ClockRate * (window_seconds - 1) \in Int
    BY CacheAssumed
  <2> QED
    BY <2>3, <2>4, <2>5, <2>6
<1> QED
  BY <1>1, Invariance, PTL

(* The lookup finds exactly the live keys and every position is filed under its *)
(* own key's byte, after any additions, repeated additions and removals        *)
(* (add_issuer_key, remove_issuer_key).                                       *)
THEOREM KeyIndexesKeepAgreeing == Spec => []KeyIndexesAgree
<1>1. IInv => KeyIndexesAgree
  <2> SUFFICES ASSUME KeysOK PROVE KeyIndexesAgree
    BY DEF IInv
  <2>1. issuer_keys \in Seq(Key) /\ live \subseteq Key
    BY DEF KeysOK, Keys!TypeOK
  <2>2. Len(issuer_keys) \in Nat
    BY <2>1
  <2>3. ASSUME NEW key \in Key
        PROVE  /\ key_index_by_full_id[key] <= Len(issuer_keys)
               /\ Keys!found(key) = {key} \cap live
    <3>1. CASE key \in live
      BY <2>2, <3>1, FoundIsLive DEF KeysOK
    <3>2. CASE key \notin live
      BY <2>2, <3>2, FoundIsLive DEF KeysOK, Keys!Absent
    <3> QED
      BY <3>1, <3>2
  <2>4. Keys!BucketsMatchIds
    BY <2>2 DEF KeysOK, Keys!BucketsMatchIds
  <2> QED
    BY <2>3, <2>4 DEF KeyIndexesAgree, Keys!FindsLiveKeys
<1> QED
  BY <1>1, Invariance, PTL

(* The verification answers what the set of live keys would, for every token    *)
(* and expected challenge (verify of PublicOrigin and of Origin).             *)
THEOREM VerdictsFollowLiveKeys == Spec => []VerdictFollowsLiveKeys
<1>1. IInv => VerdictFollowsLiveKeys
  <2> SUFFICES ASSUME KeysOK, NEW token \in Token, NEW expected \in Expected
               PROVE  LET trusted == live \cap {token.token_key_id} IN
                      CASE origin_class = "PublicOrigin" ->
                             verify(token, expected) = public_verify(token, expected, trusted)
                        [] origin_class = "Origin" ->
                             verify(token, expected) = origin_verify(token, expected, live)
                        [] OTHER -> TRUE
    BY DEF IInv, VerdictFollowsLiveKeys
  <2>1. token.token_key_id \in Key
    BY OriginAssumption DEF Tokens
  <2>2. Keys!found(token.token_key_id) = live \cap {token.token_key_id}
    BY <2>1, FoundIsLive
  <2>3. CASE origin_class = "PublicOrigin"
    BY <2>2, <2>3 DEF verify
  <2>4. CASE origin_class = "Origin"
    <3>1. issuer_keys = <<>> <=> live = {}
      BY <2>4 DEF KeysOK
    <3> QED
      BY <2>2, <2>4, <3>1 DEF verify, origin_verify
  <2> QED
    BY <2>3, <2>4
<1> QED
  BY <1>1, Invariance, PTL

-----------------------------------------------------------------------------
(* The cache within an origin.                                               *)

LEMMA CacheStepsOrStutters == IInv /\ [Next]_vars => [CP!Next]_(CP!vars)
<1> SUFFICES ASSUME IInv, [Next]_vars PROVE CP!Next \/ UNCHANGED cacheVars
  BY DEF cacheVars, CP!vars, CP!cacheState
<1>1. CASE \E p \in Thread, token \in Token : begin_redeem(p, token)
  <2>1. PICK p \in Thread, token \in Token, is_new \in BOOLEAN :
          Cache!check_and_add(token.nonce, is_new)
    BY <1>1 DEF begin_redeem, Reserve
  <2> QED
    BY <2>1, TokenNonces, CacheIsCP DEF CP!Next
<1>2. CASE \E p \in Thread, expected \in Expected : finish_redeem(p, expected)
  BY <1>2 DEF finish_redeem, AfterFailure
<1>3. CASE \E p \in Thread, token \in Token, expected \in Expected : begin_private(p, token, expected)
  BY <1>3 DEF begin_private
<1>4. ASSUME NEW p \in Thread, NEW key \in Key, finish_private(p, key)
      PROVE  CP!Next \/ UNCHANGED cacheVars
  <2>1. CASE issuer_verify(calls[p].token, key) # "TRUE"
    BY <1>4, <2>1 DEF finish_private
  <2>2. CASE issuer_verify(calls[p].token, key) = "TRUE"
    <3>1. PICK is_new \in BOOLEAN : Cache!check_and_add(calls[p].token.nonce, is_new)
      BY <1>4, <2>2 DEF finish_private, Mark
    <3>2. calls[p] \in [stage : {"checked"}, token : Token, overlapped : BOOLEAN]
      BY <1>4 DEF finish_private, IInv, CallsOK, CallOfClass, Calls, Idle
    <3> QED
      BY <3>1, <3>2, TokenNonces, CacheIsCP DEF CP!Next
  <2> QED
    BY <2>1, <2>2
<1>5. CASE \E key \in Key : add_issuer_key(key) \/ remove_issuer_key(key)
  BY <1>5 DEF add_issuer_key, remove_issuer_key
<1>6. CASE AdvanceClock
  BY <1>6, CacheIsCP DEF AdvanceClock, CP!Next
<1>7. CASE UNCHANGED vars
  BY <1>7 DEF vars
<1> QED
  BY <1>1, <1>2, <1>3, <1>4, <1>5, <1>6, <1>7 DEF Next

(* Whichever class is used, the cache inside is a replay guard: a token is      *)
(* answered "new" again only when the guard may have forgotten it             *)
(* (verify_and_redeem, mark_redeemed).                                       *)
THEOREM OriginImplementsGuard == Spec => ImplementsReplayGuard
<1>1. Init => CP!Init
  BY CacheIsCP DEF Init
<1>2. CP!Spec => CP!ImplementsReplayGuard
  BY CacheAssumed, CP!CacheImplementsGuard
<1>3. CP!Guard!Init <=> Cache!Guard!Init
  BY DEF CP!Guard!Init, Cache!Guard!Init, CP!Guard!Never, Cache!Guard!Never
<1>4. [CP!Guard!Next]_(CP!Guard!vars) <=> [Cache!Guard!Next]_(Cache!Guard!vars)
  <2>1. \A expired, overflow :
          CP!Guard!Forgets(expired, overflow) <=> Cache!Guard!Forgets(expired, overflow)
    BY DEF CP!Guard!Forgets, Cache!Guard!Forgets, CP!Guard!MayExpire, Cache!Guard!MayExpire,
           CP!OverLimit, Cache!OverLimit, CP!Cardinality, Cache!Cardinality
  <2>2. \A n, is_new : CP!Guard!Offer(n, is_new) <=> Cache!Guard!Offer(n, is_new)
    BY <2>1 DEF CP!Guard!Offer, Cache!Guard!Offer
  <2>3. CP!Guard!Sweep <=> Cache!Guard!Sweep
    BY <2>1 DEF CP!Guard!Sweep, Cache!Guard!Sweep
  <2>4. CP!Guard!Tick <=> Cache!Guard!Tick
    BY DEF CP!Guard!Tick, Cache!Guard!Tick
  <2> QED
    BY <2>2, <2>3, <2>4
       DEF CP!Guard!Next, Cache!Guard!Next, CP!Guard!vars, Cache!Guard!vars
<1>5. CP!ImplementsReplayGuard <=> Cache!ImplementsReplayGuard
  BY <1>3, <1>4, PTL
     DEF CP!ImplementsReplayGuard, Cache!ImplementsReplayGuard, CP!Guard!Spec, Cache!Guard!Spec
<1> QED
  BY <1>1, <1>2, <1>5, CacheStepsOrStutters, Invariance, PTL DEF Spec, CP!Spec, ImplementsReplayGuard
=============================================================================
