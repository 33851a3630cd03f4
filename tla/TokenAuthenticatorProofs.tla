----------------------- MODULE TokenAuthenticatorProofs -----------------------
(***************************************************************************)
(* Theorems about TokenAuthenticator, for every set of tokens and issuers,   *)
(* window, size limit and horizon.                                           *)
(***************************************************************************)
EXTENDS TokenAuthenticator, SequenceTheorems, FiniteSetTheorems, TLAPS

Entries == [nonce : Nonce, timestamp : 0..MaxNow]

(* The part of the type invariant that the cache operations can disturb.     *)
CacheTypes ==
  /\ now \in 0..MaxNow
  /\ nonce_entries \in Seq(Entries)
  /\ redeemed_nonces \subseteq Nonce
  /\ accepted_at \in [Nonce -> 0..MaxNow \cup {Never}]
  /\ evicted \subseteq Nonce

TrustTypes ==
  /\ rsa_keys \in [Issuer -> SUBSET Key]
  /\ voprf_keys \in [Issuer -> SUBSET VoprfKey]
  /\ origin_keys \subseteq Key

(* What RefusesReplay rests on: a nonce that left the cache unevicted has     *)
(* outlived the window.                                                      *)
ForgottenOnlyWhenDue ==
  \A n \in Nonce :
    accepted_at[n] # Never /\ n \notin evicted /\ n \notin redeemed_nonces
    => now - accepted_at[n] > replay_window

CacheInv ==
  /\ CacheTypes
  /\ IndexesAgree
  /\ ForgottenOnlyWhenDue
  /\ IsFiniteSet(redeemed_nonces)
  /\ CapHolds

(* The inductive invariant.                                                  *)
IInv ==
  /\ CacheInv
  /\ TrustTypes
  /\ settled \subseteq Nonce
  /\ redeemed_nonces \subseteq settled

-----------------------------------------------------------------------------
(* What popping the first k entries leaves behind keeps the agreement.        *)
LEMMA PopFront ==
  ASSUME CacheTypes, IndexesAgree, NEW k \in 0..Len(nonce_entries)
  PROVE  /\ Rest(k) \in Seq(Entries)
         /\ Len(Rest(k)) = Len(nonce_entries) - k
         /\ \A i \in 1..Len(Rest(k)) : Rest(k)[i] = nonce_entries[k + i]
         /\ Kept(k) = {Rest(k)[i].nonce : i \in 1..Len(Rest(k))}
         /\ Kept(k) \subseteq redeemed_nonces
<1>1. /\ Rest(k) \in Seq(Entries)
      /\ Len(Rest(k)) = Len(nonce_entries) - k
      /\ \A i \in 1..Len(Rest(k)) : Rest(k)[i] = nonce_entries[k + i]
  BY SubSeqProperties DEF Rest, CacheTypes
<1>2. ASSUME NEW n \in Kept(k)
      PROVE  \E i \in 1..Len(Rest(k)) : n = Rest(k)[i].nonce
  <2>1. PICK j \in 1..Len(nonce_entries) : n = nonce_entries[j].nonce
    BY DEF Kept, Front, IndexesAgree, SetHoldsEntries
  <2>2. j > k
    BY <2>1 DEF Kept, Front
  <2>3. j - k \in 1..Len(Rest(k)) /\ k + (j - k) = j
    BY <1>1, <2>2
  <2> QED
    BY <1>1, <2>1, <2>3
<1>3. ASSUME NEW i \in 1..Len(Rest(k))
      PROVE  Rest(k)[i].nonce \in Kept(k)
  <2>1. k + i \in 1..Len(nonce_entries) /\ Rest(k)[i].nonce = nonce_entries[k + i].nonce
    BY <1>1
  <2>2. Rest(k)[i].nonce \in redeemed_nonces
    BY <2>1 DEF IndexesAgree, SetHoldsEntries, Front
  <2>3. ASSUME NEW j \in 1..k, nonce_entries[j].nonce = nonce_entries[k + i].nonce
        PROVE  FALSE
    <3>1. j \in 1..Len(nonce_entries) /\ j # k + i
      BY <2>1
    <3> QED
      BY <2>1, <2>3, <3>1 DEF IndexesAgree, EntriesDistinct
  <2> QED
    BY <2>1, <2>2, <2>3 DEF Kept, Front
<1> QED
  BY <1>1, <1>2, <1>3 DEF Kept

(* The entries that the pruning loop pops are older than the window.          *)
LEMMA ExpiredFrontIsDue ==
  ASSUME CacheTypes, IndexesAgree,
         NEW expired \in 0..Len(nonce_entries), prune_expired(expired),
         NEW n \in Front(expired)
  PROVE  now - accepted_at[n] > replay_window
<1>1. PICK i \in 1..expired : n = nonce_entries[i].nonce
  BY DEF Front
<1>2. i \in 1..Len(nonce_entries) /\ nonce_entries[i].timestamp \in 0..MaxNow
  <2>1. i \in 1..Len(nonce_entries)
    BY DEF CacheTypes
  <2>2. nonce_entries[i] \in Entries
    BY <2>1 DEF CacheTypes
  <2> QED
    BY <2>1, <2>2 DEF Entries
<1>3. accepted_at[n] = nonce_entries[i].timestamp
  BY <1>1, <1>2 DEF IndexesAgree, EntriesDated
<1>4. nonce_entries[i].timestamp < now - replay_window
  BY DEF prune_expired, Expired
<1> QED
  BY <1>2, <1>3, <1>4, AuthenticatorAssumption DEF CacheTypes

(* After the second loop a nonce fits.                                        *)
LEMMA RoomIsMade ==
  ASSUME CacheInv, NEW dropped \in 0..Len(nonce_entries), NEW expired \in 0..dropped,
         make_room(expired, dropped)
  PROVE  /\ IsFiniteSet(Kept(dropped))
         /\ Cardinality(Kept(dropped)) \in Nat
         /\ Cardinality(Kept(dropped)) < max_size
<1>1. IsFiniteSet(Kept(dropped))
  BY FS_Difference DEF CacheInv, Kept
<1>2. Cardinality(Kept(dropped)) \in Nat
  BY <1>1, FS_CardinalityType
<1>3. CASE dropped < Len(nonce_entries)
  BY <1>1, <1>2, <1>3, AuthenticatorAssumption DEF make_room, AtCapacity
<1>4. CASE dropped = Len(nonce_entries)
  <2>1. Kept(dropped) = {}
    BY <1>4 DEF Kept, CacheInv, IndexesAgree, SetHoldsEntries
  <2> QED
    BY <1>1, <2>1, FS_EmptySet, AuthenticatorAssumption
<1> QED
  BY <1>3, <1>4 DEF CacheInv, CacheTypes

(* check_and_add_nonce keeps the cache part of the invariant, and adds no     *)
(* nonce but its own.                                                        *)
LEMMA CheckAndAddPreserves ==
  ASSUME CacheInv, NEW nonce \in Nonce, NEW inserted \in BOOLEAN,
         check_and_add_nonce(nonce, inserted)
  PROVE  /\ CacheInv'
         /\ redeemed_nonces' \subseteq redeemed_nonces \cup {nonce}
         /\ ~inserted => nonce \in redeemed_nonces
<1>0. PICK dropped \in 0..Len(nonce_entries) : \E expired \in 0..dropped :
        make_room(expired, dropped) /\ add_nonce(nonce, inserted, expired, dropped)
  BY DEF check_and_add_nonce
<1>1. PICK expired \in 0..dropped :
        make_room(expired, dropped) /\ add_nonce(nonce, inserted, expired, dropped)
  BY <1>0
<1> DEFINE kept == Kept(dropped)
           rest == Rest(dropped)
           overflow == Front(dropped) \ Front(expired)
<1>2. CacheTypes /\ IndexesAgree /\ ForgottenOnlyWhenDue
  BY DEF CacheInv
<1>3. expired \in 0..Len(nonce_entries) /\ Len(nonce_entries) \in Nat
  BY <1>2 DEF CacheTypes
<1>4. /\ rest \in Seq(Entries)
      /\ Len(rest) = Len(nonce_entries) - dropped
      /\ \A i \in 1..Len(rest) : rest[i] = nonce_entries[dropped + i]
      /\ kept = {rest[i].nonce : i \in 1..Len(rest)}
      /\ kept \subseteq redeemed_nonces
  BY <1>2, PopFront
<1>5. \A n \in Front(expired) : now - accepted_at[n] > replay_window
  BY <1>1, <1>2, <1>3, ExpiredFrontIsDue DEF make_room
<1>6. IsFiniteSet(kept) /\ Cardinality(kept) \in Nat /\ Cardinality(kept) < max_size
  BY <1>1, RoomIsMade
<1>7. overflow \subseteq Nonce
  <2>1. Front(dropped) \subseteq redeemed_nonces
    BY <1>2, <1>3 DEF IndexesAgree, SetHoldsEntries, Front
  <2> QED
    BY <1>2, <2>1 DEF CacheTypes
<1>8. \A n \in redeemed_nonces : n \notin kept => n \in Front(expired) \/ n \in overflow
  BY DEF Kept
<1>9. /\ \A i, j \in 1..Len(rest) : i < j => rest[i].timestamp <= rest[j].timestamp
      /\ \A i, j \in 1..Len(rest) : rest[i].nonce = rest[j].nonce => i = j
      /\ \A i \in 1..Len(rest) : /\ rest[i].timestamp <= now
                                 /\ accepted_at[rest[i].nonce] = rest[i].timestamp
  <2>1. \A i \in 1..Len(rest) : dropped + i \in 1..Len(nonce_entries)
    BY <1>3, <1>4
  <2>2. \A i, j \in 1..Len(rest) : i < j => rest[i].timestamp <= rest[j].timestamp
    BY <1>2, <1>3, <1>4, <2>1 DEF IndexesAgree, EntriesAscend
  <2>3. \A i, j \in 1..Len(rest) : rest[i].nonce = rest[j].nonce => i = j
    <3>1. SUFFICES ASSUME NEW i \in 1..Len(rest), NEW j \in 1..Len(rest),
                          rest[i].nonce = rest[j].nonce
                   PROVE  i = j
      OBVIOUS
    <3>2. nonce_entries[dropped + i].nonce = nonce_entries[dropped + j].nonce
      BY <1>4, <3>1
    <3>3. dropped + i = dropped + j
      BY <1>2, <2>1, <3>2 DEF IndexesAgree, EntriesDistinct
    <3> QED
      BY <1>3, <3>3
  <2>4. \A i \in 1..Len(rest) : /\ rest[i].timestamp <= now
                                /\ accepted_at[rest[i].nonce] = rest[i].timestamp
    BY <1>2, <1>4, <2>1 DEF IndexesAgree, EntriesDated
  <2> QED
    BY <2>2, <2>3, <2>4
<1>10. /\ inserted = (nonce \notin kept)
       /\ redeemed_nonces' = kept \cup {nonce}
       /\ now' = now
  BY <1>1 DEF add_nonce
<1>11. CapHolds' /\ IsFiniteSet(redeemed_nonces')
  <2>1. IsFiniteSet(redeemed_nonces')
    BY <1>6, <1>10, FS_AddElement
  <2>2. \/ Cardinality(redeemed_nonces') = Cardinality(kept)
        \/ Cardinality(redeemed_nonces') = Cardinality(kept) + 1
    <3> HIDE DEF kept
    <3> QED
      BY <1>6, <1>10, FS_AddElement
  <2>3. Cardinality(redeemed_nonces') \in Nat
    BY <2>1, FS_CardinalityType
  <2> QED
    BY <1>6, <2>1, <2>2, <2>3, AuthenticatorAssumption DEF CapHolds, redemption_cache_size
<1>12. CASE inserted
  <2>1. /\ nonce_entries' = Append(rest, Entry(nonce))
        /\ accepted_at' = [accepted_at EXCEPT ![nonce] = now]
        /\ evicted' = (evicted \cup overflow) \ {nonce}
        /\ nonce \notin kept
    BY <1>1, <1>12 DEF add_nonce
  <2> HIDE DEF kept, rest, overflow
  <2>2. Entry(nonce) \in Entries /\ Entry(nonce).nonce = nonce /\ Entry(nonce).timestamp = now
    BY <1>2 DEF Entry, Entries, CacheTypes
  <2>3. accepted_at'[nonce] = now /\ \A n \in Nonce \ {nonce} : accepted_at'[n] = accepted_at[n]
    BY <1>2, <2>1 DEF CacheTypes
  <2>4. /\ nonce_entries' \in Seq(Entries)
        /\ Len(nonce_entries') = Len(rest) + 1
        /\ \A i \in 1..Len(rest) : nonce_entries'[i] = rest[i]
        /\ nonce_entries'[Len(rest) + 1] = Entry(nonce)
        /\ Len(rest) \in Nat
    BY <1>4, <2>1, <2>2, AppendProperties
  <2>5. CacheTypes'
    BY <1>2, <1>4, <1>7, <1>10, <2>1, <2>4 DEF CacheTypes
  <2>6. \A i \in 1..Len(rest) : rest[i].nonce \in kept /\ rest[i].nonce # nonce
                                /\ rest[i].nonce \in Nonce
    BY <1>2, <1>4, <2>1 DEF CacheTypes
  <2>7. EntriesAscend'
    BY <1>2, <1>9, <2>2, <2>4 DEF EntriesAscend, CacheTypes
  <2>8. EntriesDistinct'
    BY <1>9, <2>2, <2>4, <2>6 DEF EntriesDistinct
  <2>9. SetHoldsEntries'
    <3>1. ASSUME NEW n
          PROVE  n \in kept \cup {nonce}
                 <=> \E i \in 1..Len(nonce_entries') : n = nonce_entries'[i].nonce
      <4>1. n \in kept <=> \E i \in 1..Len(rest) : n = rest[i].nonce
        BY <1>4
      <4>2. n \in kept => \E i \in 1..Len(nonce_entries') : n = nonce_entries'[i].nonce
        BY <4>1, <2>4
      <4>3. n = nonce => n = nonce_entries'[Len(rest) + 1].nonce
        BY <2>2, <2>4
      <4>4. ASSUME NEW i \in 1..Len(nonce_entries'), n = nonce_entries'[i].nonce
            PROVE  n \in kept \cup {nonce}
        <5>1. i \in 1..Len(rest) \/ i = Len(rest) + 1
          BY <2>4
        <5> QED
          BY <2>2, <2>4, <4>1, <4>4, <5>1
      <4>5. Len(rest) + 1 \in 1..Len(nonce_entries')
        BY <2>4
      <4> QED
        BY <4>2, <4>3, <4>4, <4>5
    <3> QED
      BY <1>10, <3>1 DEF SetHoldsEntries, Front
  <2>10. EntriesDated'
    BY <1>2, <1>9, <1>10, <2>2, <2>3, <2>4, <2>6 DEF EntriesDated, CacheTypes
  <2>11. ForgottenOnlyWhenDue'
    <3>1. SUFFICES ASSUME NEW n \in Nonce, accepted_at'[n] # Never,
                          n \notin evicted', n \notin redeemed_nonces'
                   PROVE  now - accepted_at'[n] > replay_window
      BY <1>10 DEF ForgottenOnlyWhenDue
    <3>2. n # nonce /\ n \notin kept /\ accepted_at'[n] = accepted_at[n]
      BY <1>10, <2>3, <3>1
    <3>3. n \notin evicted /\ n \notin overflow
      BY <2>1, <3>1, <3>2
    <3>4. CASE n \in redeemed_nonces
      BY <1>5, <1>8, <3>2, <3>3, <3>4
    <3>5. CASE n \notin redeemed_nonces
      BY <1>2, <3>1, <3>2, <3>3, <3>5 DEF ForgottenOnlyWhenDue
    <3> QED
      BY <3>4, <3>5
  <2> QED
    BY <1>4, <1>10, <1>11, <1>12, <2>5, <2>7, <2>8, <2>9, <2>10, <2>11 DEF CacheInv, IndexesAgree
<1>13. CASE ~inserted
  <2>1. /\ nonce_entries' = rest
        /\ accepted_at' = accepted_at
        /\ evicted' = evicted \cup overflow
        /\ redeemed_nonces' = kept
        /\ nonce \in kept
    BY <1>1, <1>10, <1>13 DEF add_nonce
  <2> HIDE DEF kept, rest, overflow
  <2>2. CacheTypes'
    BY <1>2, <1>4, <1>7, <1>10, <2>1 DEF CacheTypes
  <2>3. IndexesAgree'
    <3>1. EntriesAscend' /\ EntriesDistinct'
      BY <1>9, <2>1 DEF EntriesAscend, EntriesDistinct
    <3>2. SetHoldsEntries'
      BY <1>4, <2>1 DEF SetHoldsEntries, Front
    <3>3. EntriesDated'
      BY <1>9, <1>10, <2>1 DEF EntriesDated
    <3> QED
      BY <3>1, <3>2, <3>3 DEF IndexesAgree
  <2>4. ForgottenOnlyWhenDue'
    BY <1>2, <1>5, <1>8, <1>10, <2>1 DEF ForgottenOnlyWhenDue
  <2> QED
    BY <1>4, <1>10, <1>11, <2>1, <2>2, <2>3, <2>4 DEF CacheInv
<1> QED
  BY <1>12, <1>13

(* prune_redemption_cache pops only what is due, and never needs the cap.     *)
LEMMA PrunePreserves ==
  ASSUME CacheInv, prune_redemption_cache
  PROVE  CacheInv' /\ redeemed_nonces' \subseteq redeemed_nonces
<1>1. PICK expired \in 0..Len(nonce_entries) :
        /\ prune_expired(expired)
        /\ nonce_entries' = Rest(expired)
        /\ redeemed_nonces' = Kept(expired)
        /\ now' = now /\ accepted_at' = accepted_at /\ evicted' = evicted
  BY DEF prune_redemption_cache
<1> DEFINE kept == Kept(expired)
           rest == Rest(expired)
<1>2. CacheTypes /\ IndexesAgree /\ ForgottenOnlyWhenDue
  BY DEF CacheInv
<1>3. /\ rest \in Seq(Entries)
      /\ Len(rest) = Len(nonce_entries) - expired
      /\ \A i \in 1..Len(rest) : rest[i] = nonce_entries[expired + i]
      /\ kept = {rest[i].nonce : i \in 1..Len(rest)}
      /\ kept \subseteq redeemed_nonces
  BY <1>2, PopFront
<1>4. \A n \in Front(expired) : now - accepted_at[n] > replay_window
  BY <1>1, <1>2, ExpiredFrontIsDue
<1>5. \A n \in redeemed_nonces : n \notin kept => n \in Front(expired)
  BY DEF Kept
<1>6. nonce_entries' = rest /\ redeemed_nonces' = kept
  BY <1>1
<1>7. \A i \in 1..Len(rest) : expired + i \in 1..Len(nonce_entries)
  BY <1>2, <1>3 DEF CacheTypes
<1>8. IsFiniteSet(kept) /\ Cardinality(kept) <= Cardinality(redeemed_nonces)
      /\ Cardinality(kept) \in Nat /\ Cardinality(redeemed_nonces) \in Nat
  BY <1>3, FS_Subset, FS_CardinalityType DEF CacheInv
<1> HIDE DEF kept, rest
<1>9. CacheTypes'
  BY <1>1, <1>2, <1>3, <1>6 DEF CacheTypes
<1>10. IndexesAgree'
  <2>1. EntriesAscend'
    BY <1>2, <1>3, <1>6, <1>7 DEF EntriesAscend, IndexesAgree
  <2>2. EntriesDistinct'
    <3>1. SUFFICES ASSUME NEW i \in 1..Len(rest), NEW j \in 1..Len(rest),
                          rest[i].nonce = rest[j].nonce
                   PROVE  i = j
      BY <1>6 DEF EntriesDistinct
    <3>2. nonce_entries[expired + i].nonce = nonce_entries[expired + j].nonce
      BY <1>3, <3>1
    <3>3. expired + i = expired + j
      BY <1>2, <1>7, <3>2 DEF IndexesAgree, EntriesDistinct
    <3> QED
      BY <3>3
  <2>3. SetHoldsEntries'
    BY <1>3, <1>6 DEF SetHoldsEntries, Front
  <2>4. EntriesDated'
    BY <1>1, <1>2, <1>3, <1>6, <1>7 DEF EntriesDated, IndexesAgree
  <2> QED
    BY <2>1, <2>2, <2>3, <2>4 DEF IndexesAgree
<1>11. ForgottenOnlyWhenDue'
  BY <1>1, <1>2, <1>4, <1>5, <1>6 DEF ForgottenOnlyWhenDue
<1>12. CapHolds'
  BY <1>6, <1>8, AuthenticatorAssumption DEF CacheInv, CapHolds, redemption_cache_size
<1> QED
  BY <1>3, <1>6, <1>8, <1>9, <1>10, <1>11, <1>12 DEF CacheInv

(* Time alone makes no nonce forgotten too soon.                              *)
LEMMA AdvanceClockPreserves ==
  ASSUME IInv, AdvanceClock
  PROVE  IInv'
<1>1. /\ now < MaxNow /\ now' = now + 1
      /\ UNCHANGED <<nonce_entries, redeemed_nonces, accepted_at, evicted, settled>>
      /\ UNCHANGED <<rsa_keys, voprf_keys, origin_keys>>
  BY DEF AdvanceClock, cacheState, trustState
<1>2. CacheInv /\ CacheTypes /\ IndexesAgree /\ ForgottenOnlyWhenDue
  BY DEF IInv, CacheInv
<1>3. CacheTypes'
  BY <1>1, <1>2, AuthenticatorAssumption DEF CacheTypes
<1>4. IndexesAgree'
  <2>1. EntriesAscend' /\ EntriesDistinct' /\ SetHoldsEntries'
    BY <1>1, <1>2 DEF IndexesAgree, EntriesAscend, EntriesDistinct, SetHoldsEntries, Front
  <2>2. EntriesDated'
    <3>1. SUFFICES ASSUME NEW i \in 1..Len(nonce_entries)
                   PROVE  /\ nonce_entries[i].timestamp <= now + 1
                          /\ accepted_at[nonce_entries[i].nonce] = nonce_entries[i].timestamp
      BY <1>1 DEF EntriesDated
    <3>2. nonce_entries[i] \in Entries
      BY <1>2 DEF CacheTypes
    <3> QED
      BY <1>2, <3>2 DEF IndexesAgree, EntriesDated, CacheTypes, Entries
  <2> QED
    BY <2>1, <2>2 DEF IndexesAgree
<1>5. ForgottenOnlyWhenDue'
  <2>1. SUFFICES ASSUME NEW n \in Nonce, accepted_at[n] # Never,
                        n \notin evicted, n \notin redeemed_nonces
                 PROVE  (now + 1) - accepted_at[n] > replay_window
    BY <1>1 DEF ForgottenOnlyWhenDue
  <2>2. accepted_at[n] \in 0..MaxNow /\ now \in 0..MaxNow
    BY <1>2, <2>1 DEF CacheTypes, Never
  <2>3. now - accepted_at[n] > replay_window
    BY <1>2, <2>1 DEF ForgottenOnlyWhenDue
  <2> QED
    BY <2>2, <2>3, AuthenticatorAssumption
<1> QED
  BY <1>1, <1>2, <1>3, <1>4, <1>5
     DEF IInv, CacheInv, TrustTypes, CapHolds, redemption_cache_size

-----------------------------------------------------------------------------
(* The cache part depends on the cache's variables and the clock only.        *)
LEMMA CacheUnchanged ==
  ASSUME CacheInv, UNCHANGED <<now, nonce_entries, redeemed_nonces, accepted_at, evicted>>
  PROVE  CacheInv'
BY DEF CacheInv, CacheTypes, IndexesAgree, EntriesAscend, EntriesDistinct, SetHoldsEntries,
       EntriesDated, Front, ForgottenOnlyWhenDue, CapHolds, redemption_cache_size

LEMMA InitEstablishes == Init => IInv
<1> SUFFICES ASSUME Init PROVE IInv
  OBVIOUS
<1>1. CacheTypes
  BY EmptySeq, AuthenticatorAssumption DEF Init, CacheTypes
<1>2. IndexesAgree
  BY DEF Init, IndexesAgree, EntriesAscend, EntriesDistinct, SetHoldsEntries, EntriesDated, Front
<1>3. ForgottenOnlyWhenDue
  BY DEF Init, ForgottenOnlyWhenDue
<1>4. IsFiniteSet(redeemed_nonces) /\ CapHolds
  BY FS_EmptySet, AuthenticatorAssumption DEF Init, CapHolds, redemption_cache_size
<1> QED
  BY <1>1, <1>2, <1>3, <1>4 DEF Init, IInv, CacheInv, TrustTypes

(* Whether it grants or refuses, a redemption leaves in the cache only nonces *)
(* that were granted or marked.                                              *)
LEMMA RedeemPreserves ==
  ASSUME IInv, NEW token \in Token, NEW expected \in Expected, NEW outcome \in Outcomes,
         validate_and_redeem(token, expected, outcome)
  PROVE  IInv'
<1>1. token.nonce \in Nonce
  BY AuthenticatorAssumption DEF Tokens
<1>2. CASE Reaches(token, expected)
  <2>1. PICK inserted \in BOOLEAN :
          /\ check_and_add_nonce(token.nonce, inserted)
          /\ outcome = IF inserted THEN redemption(token, expected) ELSE "TOKEN_REPLAYED"
          /\ settled' = IF outcome = "TRUE" THEN settled \cup {token.nonce} ELSE settled
          /\ UNCHANGED <<rsa_keys, voprf_keys, origin_keys>>
    BY <1>2 DEF validate_and_redeem, trustState
  <2>2. /\ CacheInv'
        /\ redeemed_nonces' \subseteq redeemed_nonces \cup {token.nonce}
        /\ ~inserted => token.nonce \in redeemed_nonces
    BY <1>1, <2>1, CheckAndAddPreserves DEF IInv
  <2>3. inserted => outcome = "TRUE"
    BY <1>2, <2>1 DEF Reaches
  <2>4. settled \subseteq settled' /\ settled' \subseteq Nonce
    BY <1>1, <2>1 DEF IInv
  <2>5. redeemed_nonces' \subseteq settled'
    BY <2>1, <2>2, <2>3, <2>4 DEF IInv
  <2> QED
    BY <2>1, <2>2, <2>4, <2>5 DEF IInv, TrustTypes
<1>3. CASE ~Reaches(token, expected)
  <2>1. UNCHANGED vars
    BY <1>3 DEF validate_and_redeem
  <2> QED
    BY <2>1, CacheUnchanged DEF vars, cacheState, trustState, IInv, TrustTypes
<1> QED
  BY <1>2, <1>3

LEMMA StepPreserves == IInv /\ [Next]_vars => IInv'
<1> SUFFICES ASSUME IInv, [Next]_vars PROVE IInv'
  OBVIOUS
<1>1. ASSUME NEW issuer \in Issuer, NEW key \in Key, NEW copied \in BOOLEAN,
             add_trusted_rsa_key(issuer, key, copied)
      PROVE  IInv'
  BY <1>1, CacheUnchanged DEF add_trusted_rsa_key, cacheState, IInv, TrustTypes
<1>2. ASSUME NEW issuer \in Issuer, NEW key \in VoprfKey, add_trusted_voprf_key(issuer, key)
      PROVE  IInv'
  BY <1>2, CacheUnchanged DEF add_trusted_voprf_key, cacheState, IInv, TrustTypes
<1>3. ASSUME NEW issuer \in Issuer, remove_trusted_issuer(issuer)
      PROVE  IInv'
  BY <1>3, CacheUnchanged DEF remove_trusted_issuer, cacheState, IInv, TrustTypes
<1>4. ASSUME NEW token \in Token, NEW expected \in Expected, NEW outcome \in Outcomes,
             validate_and_redeem(token, expected, outcome)
      PROVE  IInv'
  BY <1>4, RedeemPreserves
<1>5. ASSUME NEW token \in Token, mark_redeemed(token)
      PROVE  IInv'
  <2>1. PICK inserted \in BOOLEAN : check_and_add_nonce(token.nonce, inserted)
    BY <1>5 DEF mark_redeemed
  <2>2. token.nonce \in Nonce
    BY <1>5, AuthenticatorAssumption DEF Tokens
  <2>3. CacheInv' /\ redeemed_nonces' \subseteq redeemed_nonces \cup {token.nonce}
    BY <2>1, <2>2, CheckAndAddPreserves DEF IInv
  <2> QED
    BY <1>5, <2>2, <2>3 DEF mark_redeemed, trustState, IInv, TrustTypes
<1>6. CASE prune_redemption_cache
  <2>1. CacheInv' /\ redeemed_nonces' \subseteq redeemed_nonces
    BY <1>6, PrunePreserves DEF IInv
  <2> QED
    BY <1>6, <2>1 DEF prune_redemption_cache, trustState, IInv, TrustTypes
<1>7. CASE AdvanceClock
  BY <1>7, AdvanceClockPreserves
<1>8. CASE UNCHANGED vars
  BY <1>8, CacheUnchanged DEF vars, cacheState, trustState, IInv, TrustTypes
<1> QED
  BY <1>1, <1>2, <1>3, <1>4, <1>5, <1>6, <1>7, <1>8 DEF Next

-----------------------------------------------------------------------------
(* The invariant holds in every reachable state.                              *)
LEMMA Invariance == Spec => []IInv
<1>1. Init => IInv
  BY InitEstablishes
<1>2. IInv /\ [Next]_vars => IInv'
  BY StepPreserves
<1> QED
  BY <1>1, <1>2, PTL DEF Spec

(* Type correctness of the authenticator and of its history variables.        *)
THEOREM TypeCorrect == Spec => []TypeOK
<1>1. IInv => TypeOK
  BY DEF IInv, CacheInv, CacheTypes, TrustTypes, TypeOK, Entries
<1> QED
  BY <1>1, Invariance, PTL

(* The deque and the set of redeemed nonces always agree: what the pruning    *)
(* pops is what check_and_add_nonce pushed, oldest first.                     *)
THEOREM IndexesAlwaysAgree == Spec => []IndexesAgree
<1>1. IInv => IndexesAgree
  BY DEF IInv, CacheInv
<1> QED
  BY <1>1, Invariance, PTL

(* The redemption cache never exceeds its maximum size.                       *)
THEOREM CapAlwaysHolds == Spec => []CapHolds
<1>1. IInv => CapHolds
  BY DEF IInv, CacheInv
<1> QED
  BY <1>1, Invariance, PTL

(* A nonce granted or marked is refused until it has outlived the whole        *)
(* window or the cap has evicted it, whatever happens to the trusted issuers. *)
THEOREM ReplaysAreRefused == Spec => []RefusesReplay
<1>1. IInv => RefusesReplay
  <2> SUFFICES ASSUME IInv, NEW token \in Token, NEW expected \in Expected,
                      accepted_at[token.nonce] # Never,
                      now - accepted_at[token.nonce] <= replay_window,
                      token.nonce \notin evicted
               PROVE  redemption(token, expected) = "TOKEN_REPLAYED"
    BY DEF RefusesReplay
  <2>1. token.nonce \in Nonce
    BY AuthenticatorAssumption DEF Tokens
  <2>2. accepted_at[token.nonce] \in 0..MaxNow /\ now \in 0..MaxNow
    BY <2>1 DEF IInv, CacheInv, CacheTypes, Never
  <2>3. token.nonce \in redeemed_nonces
    BY <2>1, <2>2, AuthenticatorAssumption DEF IInv, CacheInv, ForgottenOnlyWhenDue
  <2> QED
    BY <2>3 DEF redemption, would_be_replay
<1> QED
  BY <1>1, Invariance, PTL

(* A token is refused as a replay only if its nonce was granted or marked.    *)
THEOREM ReplayedWereRedeemed == Spec => []ReplayedImpliesRedeemed
<1>1. IInv => ReplayedImpliesRedeemed
  BY DEF IInv, ReplayedImpliesRedeemed, would_be_replay
<1> QED
  BY <1>1, Invariance, PTL

-----------------------------------------------------------------------------
(* Refinement of ReplayGuard.                                                 *)

(* What a call pops is what the guard allows it to forget.                    *)
LEMMA PoppingForgets ==
  ASSUME CacheInv, NEW dropped \in 0..Len(nonce_entries), NEW expired \in 0..dropped,
         prune_expired(expired),
         dropped # expired => AtCapacity(Kept(expired))
  PROVE  Guard!Forgets(Front(expired), Front(dropped) \ Front(expired))
<1>1. CacheTypes /\ IndexesAgree
  BY DEF CacheInv
<1>2. expired \in 0..Len(nonce_entries) /\ Len(nonce_entries) \in Nat
  BY <1>1 DEF CacheTypes
<1>3. Front(dropped) \subseteq redeemed_nonces /\ Front(expired) \subseteq redeemed_nonces
  BY <1>1, <1>2 DEF IndexesAgree, SetHoldsEntries, Front
<1>4. Front(expired) \subseteq Front(dropped)
  BY DEF Front
<1>5. \A n \in Front(expired) : Guard!MayExpire(n)
  <2>1. SUFFICES ASSUME NEW n \in Front(expired)
                 PROVE  now - accepted_at[n] >= replay_window + 1
    BY DEF Guard!MayExpire
  <2>2. now - accepted_at[n] > replay_window
    BY <1>1, <1>2, ExpiredFrontIsDue
  <2>3. PICK i \in 1..Len(nonce_entries) : n = nonce_entries[i].nonce
    BY <1>2 DEF Front
  <2>4. nonce_entries[i] \in Entries /\ accepted_at[n] = nonce_entries[i].timestamp
    BY <1>1, <2>3 DEF CacheTypes, IndexesAgree, EntriesDated
  <2> QED
    BY <1>1, <2>2, <2>4, AuthenticatorAssumption DEF CacheTypes, Entries
<1>6. ASSUME NEW m \in Front(dropped), NEW o \in redeemed_nonces \ Front(dropped)
      PROVE  accepted_at[m] <= accepted_at[o]
  <2>1. PICK i \in 1..dropped : m = nonce_entries[i].nonce
    BY DEF Front
  <2>2. PICK j \in 1..Len(nonce_entries) : o = nonce_entries[j].nonce
    BY <1>1 DEF IndexesAgree, SetHoldsEntries, Front
  <2>3. j > dropped
    BY <2>2 DEF Front
  <2>4. i \in 1..Len(nonce_entries) /\ i < j
    BY <1>2, <2>1, <2>3
  <2> QED
    BY <1>1, <2>1, <2>2, <2>4 DEF IndexesAgree, EntriesAscend, EntriesDated
<1> DEFINE due == Front(expired)
           overflow == Front(dropped) \ Front(expired)
<1>7. /\ due \subseteq redeemed_nonces
      /\ overflow \subseteq redeemed_nonces \ due
      /\ redeemed_nonces \ (due \cup overflow) = redeemed_nonces \ Front(dropped)
      /\ overflow \subseteq Front(dropped)
  BY <1>3, <1>4
<1>8. overflow # {} => AtCapacity(redeemed_nonces \ due)
  BY DEF Kept
<1>9. \A n \in due : Guard!MayExpire(n)
  BY <1>5
<1> HIDE DEF due, overflow
<1>10. Guard!Forgets(due, overflow)
  BY <1>6, <1>7, <1>8, <1>9 DEF Guard!Forgets
<1> QED
  BY <1>10 DEF due, overflow

(* check_and_add_nonce is an offer to the guard.                              *)
LEMMA CheckAndAddOffers ==
  ASSUME CacheInv, NEW nonce \in Nonce, NEW inserted \in BOOLEAN,
         check_and_add_nonce(nonce, inserted)
  PROVE  Guard!Offer(nonce, inserted)
<1>1. PICK dropped \in 0..Len(nonce_entries) : \E expired \in 0..dropped :
        make_room(expired, dropped) /\ add_nonce(nonce, inserted, expired, dropped)
  BY DEF check_and_add_nonce
<1>2. PICK expired \in 0..dropped :
        make_room(expired, dropped) /\ add_nonce(nonce, inserted, expired, dropped)
  BY <1>1
<1> DEFINE due == Front(expired)
           overflow == Front(dropped) \ Front(expired)
<1>3. dropped # expired => AtCapacity(Kept(expired))
  <2>1. dropped # expired => expired \in expired..(dropped - 1)
    OBVIOUS
  <2> QED
    BY <1>2, <2>1 DEF make_room
<1>4. Guard!Forgets(due, overflow)
  BY <1>2, <1>3, PoppingForgets DEF make_room
<1>5. redeemed_nonces \ (due \cup overflow) = Kept(dropped)
  BY DEF Front, Kept
<1>6. /\ inserted = (nonce \notin redeemed_nonces \ (due \cup overflow))
      /\ redeemed_nonces' = (redeemed_nonces \ (due \cup overflow)) \cup {nonce}
      /\ now' = now
  BY <1>2, <1>5 DEF add_nonce
<1>7. /\ accepted_at' = IF inserted THEN [accepted_at EXCEPT ![nonce] = now] ELSE accepted_at
      /\ evicted' = (evicted \cup overflow) \ (IF inserted THEN {nonce} ELSE {})
  BY <1>2 DEF add_nonce
<1> HIDE DEF due, overflow
<1>8. due \in SUBSET redeemed_nonces /\ overflow \in SUBSET (redeemed_nonces \ due)
  BY <1>4 DEF Guard!Forgets
<1> QED
  BY <1>4, <1>6, <1>7, <1>8 DEF Guard!Offer

LEMMA StepRefines == IInv /\ [Next]_vars => [Guard!Next]_Guard!vars
<1> SUFFICES ASSUME IInv, [Next]_vars PROVE [Guard!Next]_Guard!vars
  OBVIOUS
<1>1. CacheInv
  BY DEF IInv
<1>2. \A token \in Token : token.nonce \in Nonce
  BY AuthenticatorAssumption DEF Tokens
<1>3. ASSUME NEW token \in Token, NEW expected \in Expected, NEW outcome \in Outcomes,
             validate_and_redeem(token, expected, outcome)
      PROVE  Guard!Next \/ UNCHANGED Guard!vars
  <2>1. CASE Reaches(token, expected)
    <3>1. PICK inserted \in BOOLEAN : check_and_add_nonce(token.nonce, inserted)
      BY <1>3, <2>1 DEF validate_and_redeem
    <3>2. Guard!Offer(token.nonce, inserted)
      BY <1>1, <1>2, <3>1, CheckAndAddOffers
    <3> QED
      BY <1>2, <3>2 DEF Guard!Next
  <2>2. CASE ~Reaches(token, expected)
    BY <1>3, <2>2 DEF validate_and_redeem, vars, cacheState, Guard!vars
  <2> QED
    BY <2>1, <2>2
<1>4. ASSUME NEW token \in Token, mark_redeemed(token)
      PROVE  Guard!Next
  <2>1. PICK inserted \in BOOLEAN : check_and_add_nonce(token.nonce, inserted)
    BY <1>4 DEF mark_redeemed
  <2>2. Guard!Offer(token.nonce, inserted)
    BY <1>1, <1>2, <2>1, CheckAndAddOffers
  <2> QED
    BY <1>2, <2>2 DEF Guard!Next
<1>5. ASSUME prune_redemption_cache
      PROVE  Guard!Sweep
  <2>1. PICK expired \in 0..Len(nonce_entries) :
          /\ prune_expired(expired)
          /\ redeemed_nonces' = Kept(expired)
          /\ now' = now /\ accepted_at' = accepted_at /\ evicted' = evicted
    BY <1>5 DEF prune_redemption_cache
  <2> DEFINE due == Front(expired)
  <2>2. Guard!Forgets(due, Front(expired) \ Front(expired))
    BY <1>1, <2>1, PoppingForgets
  <2>3. Guard!Forgets(due, {}) /\ {} \in SUBSET (redeemed_nonces \ due)
    BY <2>2
  <2>4. redeemed_nonces' = redeemed_nonces \ (due \cup {}) /\ evicted' = evicted \cup {}
    BY <2>1 DEF Kept
  <2> HIDE DEF due
  <2>5. due \in SUBSET redeemed_nonces
    BY <2>3 DEF Guard!Forgets
  <2> QED
    BY <2>1, <2>3, <2>4, <2>5 DEF Guard!Sweep
<1>6. ASSUME AdvanceClock
      PROVE  Guard!Tick
  <2>1. now + 1 \in (now + 1)..MaxNow
    BY <1>1, <1>6, AuthenticatorAssumption DEF AdvanceClock, CacheInv, CacheTypes
  <2> QED
    BY <1>6, <2>1 DEF AdvanceClock, cacheState, Guard!Tick
<1>7. ASSUME UNCHANGED <<now, cacheState>>
      PROVE  UNCHANGED Guard!vars
  BY <1>7 DEF cacheState, Guard!vars
<1>8. ASSUME NEW issuer \in Issuer, NEW key \in Key, NEW copied \in BOOLEAN,
             add_trusted_rsa_key(issuer, key, copied)
      PROVE  UNCHANGED Guard!vars
  BY <1>7, <1>8 DEF add_trusted_rsa_key
<1>9. ASSUME NEW issuer \in Issuer, NEW key \in VoprfKey, add_trusted_voprf_key(issuer, key)
      PROVE  UNCHANGED Guard!vars
  BY <1>7, <1>9 DEF add_trusted_voprf_key
<1>10. ASSUME NEW issuer \in Issuer, remove_trusted_issuer(issuer)
       PROVE  UNCHANGED Guard!vars
  BY <1>7, <1>10 DEF remove_trusted_issuer
<1>11. CASE UNCHANGED vars
  BY <1>7, <1>11 DEF vars
<1> QED
  BY <1>3, <1>4, <1>5, <1>6, <1>8, <1>9, <1>10, <1>11 DEF Next, Guard!Next

(* The authenticator's cache implements the abstract replay guard whose        *)
(* retention is the whole window and whose capacity is reached at max_size.    *)
THEOREM CacheImplementsGuard == Spec => ImplementsReplayGuard
<1>1. Init => Guard!Init
  BY DEF Init, Guard!Init, Never, Guard!Never
<1>2. IInv /\ [Next]_vars => [Guard!Next]_Guard!vars
  BY StepRefines
<1> QED
  BY <1>1, <1>2, Invariance, PTL DEF Spec, ImplementsReplayGuard, Guard!Spec
=============================================================================
