-------------------------- MODULE ReplayCacheProofs --------------------------
(***************************************************************************)
(* Theorems about ReplayCache, for every set of nonces, window, size limit,  *)
(* clock rate and horizon.                                                   *)
(***************************************************************************)
EXTENDS ReplayCache, SequenceTheorems, FiniteSetTheorems, TLAPS

-----------------------------------------------------------------------------
(* Arithmetic of the truncation to ticks.                                    *)

(* Integer division leaves a remainder smaller than the divisor.             *)
LEMMA DivisionBounds ==
  ASSUME NEW x \in Nat, NEW r \in Nat \ {0}
  PROVE  /\ x \div r \in Nat
         /\ r * (x \div r) <= x
         /\ x < r * (x \div r) + r
BY SMTT(30)

(* Multiplication by a positive factor keeps an order.                       *)
LEMMA ProductKeepsOrder ==
  ASSUME NEW r \in Nat \ {0}, NEW a \in Int, NEW b \in Int, a <= b
  PROVE  r * a <= r * b
BY SMTT(30)

(* A later instant has no earlier tick.                                      *)
LEMMA TickMonotone ==
  ASSUME NEW x \in Nat, NEW y \in Nat, x <= y
  PROVE  tick_of(x) <= tick_of(y)
<1> DEFINE a == x \div ClockRate
           b == y \div ClockRate
<1>1. ClockRate \in Nat \ {0}
  BY CacheAssumption
<1>2. a \in Nat /\ b \in Nat /\ ClockRate * a <= x /\ y < ClockRate * b + ClockRate
  BY <1>1, DivisionBounds
<1> HIDE DEF a, b
<1>3. SUFFICES ASSUME b + 1 <= a PROVE FALSE
  BY <1>2 DEF tick_of, a, b
<1>4. ClockRate * (b + 1) <= ClockRate * a
  BY <1>1, <1>2, <1>3, ProductKeepsOrder
<1>5. ClockRate * (b + 1) = ClockRate * b + ClockRate
  BY <1>1, <1>2
<1> QED
  BY <1>1, <1>2, <1>4, <1>5

(* Every instant of the model has a tick of the model.                       *)
LEMMA TickInRange ==
  ASSUME NEW x \in 0..MaxNow
  PROVE  tick_of(x) \in Ticks
<1>1. x \in Nat /\ MaxNow \in Nat /\ ClockRate \in Nat \ {0}
  BY CacheAssumption
<1>2. tick_of(x) <= tick_of(MaxNow)
  BY <1>1, TickMonotone
<1>3. x \div ClockRate \in Nat /\ MaxNow \div ClockRate \in Nat
  BY <1>1, DivisionBounds
<1> QED
  BY <1>2, <1>3 DEF tick_of, Ticks

(* Instants whose ticks are a window apart are more than a window less one    *)
(* second apart.                                                             *)
LEMMA WindowOfTicks ==
  ASSUME NEW x \in Nat, NEW y \in Nat, tick_of(x) + window_seconds <= tick_of(y)
  PROVE  y - x > ClockRate * (window_seconds - 1)
<1> DEFINE a == x \div ClockRate
           b == y \div ClockRate
<1>1. ClockRate \in Nat \ {0} /\ window_seconds \in Nat
  BY CacheAssumption
<1>2. a \in Nat /\ b \in Nat /\ x < ClockRate * a + ClockRate /\ ClockRate * b <= y
  BY <1>1, DivisionBounds
<1>3. a + window_seconds <= b
  BY DEF tick_of
<1> HIDE DEF a, b
<1>4. ClockRate * (a + window_seconds) <= ClockRate * b
  BY <1>1, <1>2, <1>3, ProductKeepsOrder
<1>5. /\ ClockRate * (a + window_seconds) = ClockRate * a + ClockRate * window_seconds
      /\ ClockRate * (window_seconds - 1) = ClockRate * window_seconds - ClockRate
  BY <1>1, <1>2
<1>6. ClockRate * a \in Int /\ ClockRate * b \in Int /\ ClockRate * window_seconds \in Int
  BY <1>1, <1>2
<1> QED
  BY <1>1, <1>2, <1>4, <1>5, <1>6

-----------------------------------------------------------------------------
(* The inductive invariant: types, the agreement of the indexes, and the      *)
(* fact from which RemembersWindow follows, stated in ticks, the unit in      *)
(* which the code forgets.                                                   *)
ForgottenOnlyWhenDue ==
  \A n \in Nonce :
    accepted_at[n] # Never /\ n \notin evicted /\ n \notin all_nonces
    => tick_of(accepted_at[n]) + window_seconds <= current_tick

IInv == TypeOK /\ IndexesAgree /\ ForgottenOnlyWhenDue /\ IsFiniteSet(all_nonces)

(* What popping the first k buckets leaves behind keeps the agreement.        *)
LEMMA PopFront ==
  ASSUME TypeOK, IndexesAgree, NEW k \in 0..Len(bucket_order)
  PROVE  /\ Front(k) \subseteq all_nonces
         /\ Cleared(k) \in [Ticks -> SUBSET Nonce]
         /\ Rest(k) \in Seq(Ticks)
         /\ \A i, j \in 1..Len(Rest(k)) : i < j => Rest(k)[i] < Rest(k)[j]
         /\ \A t \in Ticks : Cleared(k)[t] # {} <=> \E i \in 1..Len(Rest(k)) : Rest(k)[i] = t
         /\ \A t \in Ticks : Cleared(k)[t] \subseteq buckets[t]
         /\ all_nonces \ Front(k) = UNION {Cleared(k)[t] : t \in Ticks}
<1> USE DEF TypeOK, IndexesAgree
<1>1. bucket_order \in Seq(Ticks) /\ \A i \in 1..Len(bucket_order) : bucket_order[i] \in Ticks
  OBVIOUS
<1>2. /\ Rest(k) \in Seq(Ticks)
      /\ Len(Rest(k)) = Len(bucket_order) - k
      /\ \A i \in 1..Len(Rest(k)) : Rest(k)[i] = bucket_order[k + i]
  BY <1>1, SubSeqProperties DEF Rest
<1>3. Cleared(k) \in [Ticks -> SUBSET Nonce]
  BY DEF Cleared
<1>4. \A t \in Ticks : Cleared(k)[t] \subseteq buckets[t]
  BY DEF Cleared
<1>5. \A i, j \in 1..Len(Rest(k)) : i < j => Rest(k)[i] < Rest(k)[j]
  BY <1>2 DEF OrderAscends
<1>6. ASSUME NEW t \in Ticks
      PROVE  Cleared(k)[t] # {} <=> \E i \in 1..Len(Rest(k)) : Rest(k)[i] = t
  <2>1. CASE \E i \in 1..k : bucket_order[i] = t
    <3>1. Cleared(k)[t] = {}
      BY <2>1 DEF Cleared
    <3>2. ASSUME NEW j \in 1..Len(Rest(k)), Rest(k)[j] = t
          PROVE  FALSE
      <4>1. PICK i \in 1..k : bucket_order[i] = t
        BY <2>1
      <4>2. k + j \in 1..Len(bucket_order) /\ i \in 1..Len(bucket_order) /\ i < k + j
        BY <1>2, <3>2
      <4>3. bucket_order[k + j] = t
        BY <1>2, <3>2
      <4> QED
        BY <1>1, <4>1, <4>2, <4>3 DEF OrderAscends, Ticks
    <3> QED
      BY <3>1, <3>2
  <2>2. CASE ~\E i \in 1..k : bucket_order[i] = t
    <3>1. Cleared(k)[t] = buckets[t]
      BY <2>2 DEF Cleared
    <3>2. ASSUME NEW i \in 1..Len(bucket_order), bucket_order[i] = t
          PROVE  \E j \in 1..Len(Rest(k)) : Rest(k)[j] = t
      <4>1. i - k \in 1..Len(Rest(k))
        BY <1>2, <2>2, <3>2
      <4>2. Rest(k)[i - k] = bucket_order[k + (i - k)] /\ k + (i - k) = i
        BY <1>2, <4>1
      <4> QED
        BY <3>2, <4>1, <4>2
    <3>3. ASSUME NEW j \in 1..Len(Rest(k)), Rest(k)[j] = t
          PROVE  k + j \in 1..Len(bucket_order) /\ bucket_order[k + j] = t
      BY <1>2, <3>3
    <3> QED
      BY <3>1, <3>2, <3>3 DEF OrderListsBuckets
  <2> QED
    BY <2>1, <2>2
<1>7. Front(k) \subseteq all_nonces
  BY <1>1 DEF Front, NoncesAreBucketed
<1>8. all_nonces \ Front(k) = UNION {Cleared(k)[t] : t \in Ticks}
  <2>1. ASSUME NEW n \in all_nonces \ Front(k)
        PROVE  \E t \in Ticks : n \in Cleared(k)[t]
    <3>1. PICK t \in Ticks : n \in buckets[t]
      BY DEF NoncesAreBucketed
    <3>2. ~\E i \in 1..k : bucket_order[i] = t
      BY <3>1 DEF Front
    <3> QED
      BY <3>1, <3>2 DEF Cleared
  <2>2. ASSUME NEW t \in Ticks, NEW n \in Cleared(k)[t]
        PROVE  n \in all_nonces \ Front(k)
    <3>1. n \in buckets[t] /\ ~\E i \in 1..k : bucket_order[i] = t
      BY DEF Cleared
    <3>2. ASSUME NEW i \in 1..k, n \in buckets[bucket_order[i]]
          PROVE  FALSE
      <4>1. bucket_order[i] \in Ticks
        BY <1>1
      <4> QED
        BY <3>1, <3>2, <4>1 DEF BucketedWhenAccepted
    <3>3. n \notin Front(k)
      BY <3>2 DEF Front
    <3> QED
      BY <3>1, <3>3 DEF NoncesAreBucketed
  <2> QED
    BY <2>1, <2>2
<1> QED
  BY <1>2, <1>3, <1>4, <1>5, <1>6, <1>7, <1>8

(* What the first loop drops is due.                                          *)
LEMMA ExpiredFrontIsDue ==
  ASSUME TypeOK, IndexesAgree,
         NEW dropped \in 0..Len(bucket_order), NEW expired \in 0..dropped,
         prune_expired(expired, dropped),
         NEW n \in Front(expired)
  PROVE  tick_of(accepted_at[n]) + window_seconds <= current_tick
<1>1. PICK i \in 1..expired : n \in buckets[bucket_order[i]]
  BY DEF Front
<1>2. bucket_order[i] \in Ticks
  BY DEF TypeOK
<1>3. tick_of(accepted_at[n]) = bucket_order[i]
  BY <1>1, <1>2 DEF IndexesAgree, BucketedWhenAccepted
<1>4. Expired(bucket_order[i])
  BY <1>1 DEF prune_expired
<1>5. current_tick \in Ticks
  BY TickInRange DEF TypeOK, current_tick
<1> QED
  BY <1>2, <1>3, <1>4, <1>5, CacheAssumption DEF Expired, Ticks

-----------------------------------------------------------------------------
LEMMA InitEstablishes == Init => IInv
<1> SUFFICES ASSUME Init PROVE IInv
  OBVIOUS
<1>1. 0 \in 0..MaxNow
  BY CacheAssumption
<1>2. TypeOK
  BY <1>1, EmptySeq DEF Init, TypeOK
<1>3. IndexesAgree
  BY DEF Init, IndexesAgree, OrderAscends, OrderListsBuckets, NoFutureBucket,
         NoncesAreBucketed, BucketedWhenAccepted
<1>4. ForgottenOnlyWhenDue
  BY DEF Init, ForgottenOnlyWhenDue
<1>5. IsFiniteSet(all_nonces)
  BY FS_EmptySet DEF Init
<1> QED
  BY <1>2, <1>3, <1>4, <1>5 DEF IInv

(* check_and_add preserves the invariant, whether it accepts or refuses.      *)
LEMMA CheckAndAddPreserves ==
  ASSUME IInv, NEW nonce \in Nonce, NEW is_new \in BOOLEAN, check_and_add(nonce, is_new)
  PROVE  IInv'
<1>0. PICK dropped \in 0..Len(bucket_order) :
        \E expired \in 0..dropped :
          prune_expired(expired, dropped) /\ insert(nonce, is_new, expired, dropped)
  BY DEF check_and_add
<1>1. PICK expired \in 0..dropped :
        prune_expired(expired, dropped) /\ insert(nonce, is_new, expired, dropped)
  BY <1>0
<1> DEFINE kept == all_nonces \ Front(dropped)
           cleared == Cleared(dropped)
           rest == Rest(dropped)
<1>2. TypeOK /\ IndexesAgree /\ ForgottenOnlyWhenDue /\ IsFiniteSet(all_nonces)
  BY DEF IInv
<1>3. /\ Front(dropped) \subseteq all_nonces
      /\ cleared \in [Ticks -> SUBSET Nonce]
      /\ rest \in Seq(Ticks)
      /\ \A i, j \in 1..Len(rest) : i < j => rest[i] < rest[j]
      /\ \A t \in Ticks : cleared[t] # {} <=> \E i \in 1..Len(rest) : rest[i] = t
      /\ \A t \in Ticks : cleared[t] \subseteq buckets[t]
      /\ kept = UNION {cleared[t] : t \in Ticks}
  BY <1>2, PopFront
<1>4. /\ prune_expired(expired, dropped)
      /\ is_new = (nonce \notin kept)
      /\ all_nonces' = kept \cup {nonce}
      /\ now' = now
  BY <1>1 DEF Released, insert
<1>5. now \in 0..MaxNow /\ current_tick \in Ticks /\ current_tick' = current_tick
  BY <1>2, <1>4, TickInRange DEF TypeOK, current_tick, tick_of
<1>6. \A n \in Front(expired) : tick_of(accepted_at[n]) + window_seconds <= current_tick
  BY <1>2, <1>4, ExpiredFrontIsDue
<1>7. IsFiniteSet(all_nonces')
  <2>1. IsFiniteSet(kept)
    BY <1>2, FS_Difference
  <2> QED
    BY <1>4, <2>1, FS_AddElement
<1> HIDE DEF kept, cleared, rest
<1>8. CASE is_new
  <2>1. /\ nonce \notin kept
        /\ buckets' = [cleared EXCEPT ![current_tick] = @ \cup {nonce}]
        /\ bucket_order' = IF cleared[current_tick] = {} THEN Append(rest, current_tick) ELSE rest
        /\ accepted_at' = [accepted_at EXCEPT ![nonce] = now]
        /\ evicted' = (evicted \cup Capped(expired, dropped)) \ {nonce}
    BY <1>1, <1>4, <1>8 DEF kept, cleared, rest, insert, Released, ordered
  <2>2. accepted_at'[nonce] = now /\ \A n \in Nonce \ {nonce} : accepted_at'[n] = accepted_at[n]
    BY <1>2, <2>1 DEF TypeOK
  <2>3. TypeOK'
    BY <1>2, <1>3, <1>4, <1>5, <2>1, AppendProperties DEF TypeOK, Capped, kept
  <2>4. \A t \in Ticks : t # current_tick => buckets'[t] = cleared[t]
    BY <1>3, <2>1
  <2>5. buckets'[current_tick] = cleared[current_tick] \cup {nonce}
    BY <1>3, <1>5, <2>1
  <2>6. \A i \in 1..Len(rest) : rest[i] \in Ticks /\ rest[i] <= current_tick
    BY <1>2, <1>3 DEF IndexesAgree, NoFutureBucket
  <2>7. OrderAscends' /\ OrderListsBuckets'
    <3>1. CASE cleared[current_tick] = {}
      <4>1. bucket_order' = Append(rest, current_tick)
        BY <2>1, <3>1
      <4>2. /\ Len(bucket_order') = Len(rest) + 1
            /\ \A i \in 1..Len(rest) : bucket_order'[i] = rest[i]
            /\ bucket_order'[Len(rest) + 1] = current_tick
            /\ Len(rest) \in Nat
        BY <1>3, <1>5, <4>1, AppendProperties
      <4>3. \A i \in 1..Len(rest) : rest[i] < current_tick
        BY <1>3, <1>5, <2>6, <3>1 DEF Ticks
      <4>4. OrderAscends'
        BY <1>3, <4>2, <4>3 DEF OrderAscends
      <4>5. ASSUME NEW t \in Ticks
            PROVE  buckets'[t] # {} <=> \E i \in 1..Len(bucket_order') : bucket_order'[i] = t
        <5>1. CASE t = current_tick
          BY <2>5, <4>2, <5>1
        <5>2. CASE t # current_tick
          BY <1>3, <2>4, <4>2, <5>2
        <5> QED
          BY <5>1, <5>2
      <4> QED
        BY <4>4, <4>5 DEF OrderListsBuckets, Ticks
    <3>2. CASE cleared[current_tick] # {}
      <4>1. bucket_order' = rest
        BY <2>1, <3>2
      <4> QED
        BY <1>3, <1>5, <2>4, <2>5, <3>2, <4>1 DEF OrderAscends, OrderListsBuckets
    <3> QED
      BY <3>1, <3>2
  <2>8. NoFutureBucket'
    BY <1>2, <1>3, <1>5, <2>4 DEF IndexesAgree, NoFutureBucket, Ticks
  <2>9. NoncesAreBucketed'
    <3>1. \A n : n \in kept \cup {nonce} <=> \E t \in Ticks : n \in buckets'[t]
      BY <1>3, <1>5, <2>4, <2>5
    <3> QED
      BY <1>4, <3>1 DEF NoncesAreBucketed
  <2>10. BucketedWhenAccepted'
    <3>1. SUFFICES ASSUME NEW t \in Ticks, NEW n \in buckets'[t]
                   PROVE  accepted_at'[n] # Never /\ tick_of(accepted_at'[n]) = t
      BY DEF BucketedWhenAccepted, tick_of
    <3>2. CASE n = nonce
      <4>1. t = current_tick
        BY <1>3, <2>1, <2>4, <3>1, <3>2
      <4> QED
        BY <1>5, <2>2, <3>2, <4>1 DEF current_tick, Never
    <3>3. CASE n # nonce
      <4>1. n \in buckets[t] /\ n \in Nonce
        BY <1>2, <1>3, <2>4, <2>5, <3>1, <3>3 DEF TypeOK
      <4> QED
        BY <1>2, <2>2, <3>3, <4>1 DEF IndexesAgree, BucketedWhenAccepted
    <3> QED
      BY <3>2, <3>3
  <2>11. ForgottenOnlyWhenDue'
    <3>1. SUFFICES ASSUME NEW n \in Nonce, accepted_at'[n] # Never,
                          n \notin evicted', n \notin all_nonces'
                   PROVE  tick_of(accepted_at'[n]) + window_seconds <= current_tick
      BY <1>5 DEF ForgottenOnlyWhenDue, tick_of
    <3>2. n # nonce /\ n \notin kept /\ accepted_at'[n] = accepted_at[n]
      BY <1>4, <2>2, <3>1
    <3>3. n \notin evicted /\ n \notin Front(dropped) \ Front(expired)
      BY <2>1, <3>1, <3>2 DEF Capped
    <3>4. CASE n \in all_nonces
      BY <1>6, <3>2, <3>3, <3>4 DEF kept
    <3>5. CASE n \notin all_nonces
      BY <1>2, <3>1, <3>2, <3>3, <3>5 DEF ForgottenOnlyWhenDue
    <3> QED
      BY <3>4, <3>5
  <2> QED
    BY <1>7, <2>3, <2>7, <2>8, <2>9, <2>10, <2>11 DEF IInv, IndexesAgree
<1>9. CASE ~is_new
  <2>1. /\ nonce \in kept
        /\ buckets' = cleared
        /\ bucket_order' = rest
        /\ evicted' = evicted \cup Capped(expired, dropped)
        /\ accepted_at' = accepted_at
    BY <1>1, <1>4, <1>9 DEF kept, cleared, rest, insert, Released
  <2>2. all_nonces' = kept
    BY <1>4, <2>1
  <2>3. TypeOK'
    BY <1>2, <1>3, <1>4, <2>1, <2>2 DEF TypeOK, Capped, kept
  <2>4. OrderAscends' /\ OrderListsBuckets'
    BY <1>3, <2>1 DEF OrderAscends, OrderListsBuckets
  <2>5. NoFutureBucket' /\ NoncesAreBucketed'
    BY <1>2, <1>3, <1>5, <2>1, <2>2 DEF IndexesAgree, NoFutureBucket, NoncesAreBucketed
  <2>6. BucketedWhenAccepted'
    BY <1>2, <1>3, <2>1 DEF IndexesAgree, BucketedWhenAccepted, tick_of
  <2>7. ForgottenOnlyWhenDue'
    BY <1>2, <1>5, <1>6, <2>1, <2>2 DEF ForgottenOnlyWhenDue, Capped, kept, tick_of
  <2> QED
    BY <1>7, <2>3, <2>4, <2>5, <2>6, <2>7 DEF IInv, IndexesAgree
<1> QED
  BY <1>8, <1>9

(* So does prune.                                                             *)
LEMMA PrunePreserves ==
  ASSUME IInv, prune
  PROVE  IInv'
<1>0. PICK dropped \in 0..Len(bucket_order) : \E expired \in 0..dropped :
        /\ prune_expired(expired, dropped)
        /\ all_nonces' = all_nonces \ Front(dropped)
        /\ buckets' = Cleared(dropped)
        /\ bucket_order' = Rest(dropped)
        /\ evicted' = evicted \cup Capped(expired, dropped)
        /\ now' = now
        /\ accepted_at' = accepted_at
  BY DEF prune, Released
<1>1. PICK expired \in 0..dropped :
        /\ prune_expired(expired, dropped)
        /\ all_nonces' = all_nonces \ Front(dropped)
        /\ buckets' = Cleared(dropped)
        /\ bucket_order' = Rest(dropped)
        /\ evicted' = evicted \cup Capped(expired, dropped)
        /\ now' = now
        /\ accepted_at' = accepted_at
  BY <1>0
<1>2. TypeOK /\ IndexesAgree /\ ForgottenOnlyWhenDue
  BY DEF IInv
<1>3. \A n \in Front(expired) : tick_of(accepted_at[n]) + window_seconds <= current_tick
  BY <1>1, <1>2, ExpiredFrontIsDue
<1>4. /\ Front(dropped) \subseteq all_nonces
      /\ Cleared(dropped) \in [Ticks -> SUBSET Nonce]
      /\ Rest(dropped) \in Seq(Ticks)
      /\ \A i, j \in 1..Len(Rest(dropped)) : i < j => Rest(dropped)[i] < Rest(dropped)[j]
      /\ \A t \in Ticks : Cleared(dropped)[t] # {}
           <=> \E i \in 1..Len(Rest(dropped)) : Rest(dropped)[i] = t
      /\ \A t \in Ticks : Cleared(dropped)[t] \subseteq buckets[t]
      /\ all_nonces \ Front(dropped) = UNION {Cleared(dropped)[t] : t \in Ticks}
  BY <1>1, <1>2, PopFront
<1>5. current_tick' = current_tick
  BY <1>1 DEF current_tick, tick_of
<1>6. TypeOK'
  BY <1>1, <1>2, <1>4 DEF TypeOK, Capped
<1>7. OrderAscends' /\ OrderListsBuckets'
  BY <1>1, <1>4 DEF OrderAscends, OrderListsBuckets
<1>8. NoFutureBucket' /\ NoncesAreBucketed'
  BY <1>1, <1>2, <1>4, <1>5 DEF IndexesAgree, NoFutureBucket, NoncesAreBucketed
<1>9. BucketedWhenAccepted'
  BY <1>1, <1>2, <1>4 DEF IndexesAgree, BucketedWhenAccepted, tick_of
<1>10. ForgottenOnlyWhenDue'
  BY <1>1, <1>2, <1>3, <1>5 DEF ForgottenOnlyWhenDue, Capped, tick_of
<1>11. IsFiniteSet(all_nonces')
  BY <1>1, FS_Difference DEF IInv
<1> QED
  BY <1>6, <1>7, <1>8, <1>9, <1>10, <1>11 DEF IInv, IndexesAgree

(* Time alone never makes the indexes disagree, nor a forgotten nonce undue.  *)
LEMMA AdvanceClockPreserves ==
  ASSUME IInv, AdvanceClock
  PROVE  IInv'
<1>1. TypeOK /\ IndexesAgree /\ ForgottenOnlyWhenDue
  BY DEF IInv
<1>2. /\ now < MaxNow /\ now' = now + 1
      /\ buckets' = buckets /\ bucket_order' = bucket_order /\ all_nonces' = all_nonces
      /\ accepted_at' = accepted_at /\ evicted' = evicted
  BY DEF AdvanceClock, cacheState
<1>3. now \in Nat /\ now' \in 0..MaxNow
  BY <1>1, <1>2, CacheAssumption DEF TypeOK
<1>4. current_tick <= current_tick' /\ current_tick \in Nat /\ current_tick' \in Nat
  <2>1. tick_of(now) <= tick_of(now')
    BY <1>2, <1>3, TickMonotone
  <2>2. ClockRate \in Nat \ {0} /\ now \in Nat /\ now' \in Nat
    BY <1>3, CacheAssumption
  <2>3. now \div ClockRate \in Nat
    BY <2>2, DivisionBounds
  <2>4. now' \div ClockRate \in Nat
    BY <2>2, DivisionBounds
  <2> QED
    BY <2>1, <2>3, <2>4 DEF current_tick, tick_of
<1>5. TypeOK'
  BY <1>1, <1>2, <1>3 DEF TypeOK
<1>6. OrderAscends' /\ OrderListsBuckets' /\ NoncesAreBucketed' /\ BucketedWhenAccepted'
  BY <1>1, <1>2 DEF IndexesAgree, OrderAscends, OrderListsBuckets, NoncesAreBucketed,
                    BucketedWhenAccepted, tick_of
<1>7. NoFutureBucket'
  BY <1>1, <1>2, <1>4 DEF IndexesAgree, NoFutureBucket, Ticks
<1>8. ForgottenOnlyWhenDue'
  <2>1. SUFFICES ASSUME NEW n \in Nonce, accepted_at[n] # Never,
                        n \notin evicted, n \notin all_nonces
                 PROVE  tick_of(accepted_at[n]) + window_seconds <= current_tick'
    BY <1>2 DEF ForgottenOnlyWhenDue, tick_of
  <2>2. accepted_at[n] \in 0..MaxNow
    BY <1>1, <2>1 DEF TypeOK, Never
  <2>3. tick_of(accepted_at[n]) \in Nat
    BY <2>2, CacheAssumption, DivisionBounds DEF tick_of
  <2>4. tick_of(accepted_at[n]) + window_seconds <= current_tick
    BY <1>1, <2>1 DEF ForgottenOnlyWhenDue
  <2> QED
    BY <1>4, <2>3, <2>4, CacheAssumption
<1>9. IsFiniteSet(all_nonces')
  BY <1>2 DEF IInv
<1> QED
  BY <1>5, <1>6, <1>7, <1>8, <1>9 DEF IInv, IndexesAgree

(* Every step of every thread preserves the invariant.                        *)
LEMMA StepPreserves == IInv /\ [Next]_vars => IInv'
<1> SUFFICES ASSUME IInv, [Next]_vars PROVE IInv'
  OBVIOUS
<1>1. ASSUME NEW nonce \in Nonce, NEW is_new \in BOOLEAN, check_and_add(nonce, is_new)
      PROVE  IInv'
  BY <1>1, CheckAndAddPreserves
<1>2. CASE prune
  BY <1>2, PrunePreserves
<1>3. CASE AdvanceClock
  BY <1>3, AdvanceClockPreserves
<1>4. CASE UNCHANGED vars
  BY <1>4 DEF vars, cacheState, IInv, TypeOK, IndexesAgree, OrderAscends, OrderListsBuckets,
              NoFutureBucket, NoncesAreBucketed, BucketedWhenAccepted, ForgottenOnlyWhenDue,
              current_tick, tick_of
<1> QED
  BY <1>1, <1>2, <1>3, <1>4 DEF Next

-----------------------------------------------------------------------------
(* The invariant holds in every reachable state.                              *)
LEMMA Invariance == Spec => []IInv
<1>1. Init => IInv
  BY InitEstablishes
<1>2. IInv /\ [Next]_vars => IInv'
  BY StepPreserves
<1> QED
  BY <1>1, <1>2, PTL DEF Spec

(* Type correctness of the cache and of the history variables.                *)
THEOREM TypeCorrect == Spec => []TypeOK
<1>1. IInv => TypeOK
  BY DEF IInv
<1> QED
  BY <1>1, Invariance, PTL

(* The bucket order, the buckets and the deduplication set always agree: what  *)
(* prune_expired pops and erases is exactly what check_and_add put in.        *)
THEOREM IndexesAlwaysAgree == Spec => []IndexesAgree
<1>1. IInv => IndexesAgree
  BY DEF IInv
<1> QED
  BY <1>1, Invariance, PTL

(* A nonce stays known for its window less one second unless the cap evicts   *)
(* it: check_and_add cannot accept it twice in that time.                     *)
THEOREM WindowIsRemembered == Spec => []RemembersWindow
<1>1. IInv => RemembersWindow
  <2> SUFFICES ASSUME IInv, NEW n \in Nonce, accepted_at[n] # Never, n \notin evicted,
                      now - accepted_at[n] <= ClockRate * (window_seconds - 1),
                      n \notin all_nonces
               PROVE  FALSE
    BY DEF RemembersWindow, contains
  <2>1. now \in Nat /\ accepted_at[n] \in Nat
    BY CacheAssumption DEF IInv, TypeOK, Never
  <2>2. tick_of(accepted_at[n]) + window_seconds <= tick_of(now)
    BY DEF IInv, ForgottenOnlyWhenDue, current_tick
  <2>3. now - accepted_at[n] > ClockRate * (window_seconds - 1)
    BY <2>1, <2>2, WindowOfTicks
  <2>4. ClockRate * (window_seconds - 1) \in Int
    BY CacheAssumption
  <2> QED
    BY <2>1, <2>3, <2>4
<1> QED
  BY <1>1, Invariance, PTL

-----------------------------------------------------------------------------
(* Refinement of ReplayGuard.                                                 *)

(* Bucket order is age order: what is popped is no younger than what stays.   *)
LEMMA OldestGoFirst ==
  ASSUME TypeOK, IndexesAgree, NEW k \in 0..Len(bucket_order),
         NEW m \in Front(k), NEW o \in all_nonces \ Front(k)
  PROVE  accepted_at[m] <= accepted_at[o]
<1>1. PICK i \in 1..k : m \in buckets[bucket_order[i]]
  BY DEF Front
<1>2. PICK t \in Ticks : o \in buckets[t]
  BY DEF IndexesAgree, NoncesAreBucketed
<1>3. PICK j \in 1..Len(bucket_order) : bucket_order[j] = t
  BY <1>2 DEF IndexesAgree, OrderListsBuckets
<1>4. j > k
  BY <1>2, <1>3 DEF Front
<1>5. i \in 1..Len(bucket_order) /\ i < j
  BY <1>1, <1>4
<1>6. bucket_order[i] \in Ticks /\ bucket_order[i] < t
  BY <1>3, <1>5 DEF TypeOK, IndexesAgree, OrderAscends
<1>7. /\ accepted_at[m] # Never /\ tick_of(accepted_at[m]) = bucket_order[i]
      /\ accepted_at[o] # Never /\ tick_of(accepted_at[o]) = t
  BY <1>1, <1>2, <1>6 DEF IndexesAgree, BucketedWhenAccepted
<1>8. accepted_at[m] \in Nat /\ accepted_at[o] \in Nat
  BY <1>1, <1>2, <1>6, <1>7, CacheAssumption DEF TypeOK, Never
<1>9. CASE accepted_at[o] < accepted_at[m]
  <2>1. tick_of(accepted_at[o]) <= tick_of(accepted_at[m])
    BY <1>8, <1>9, TickMonotone
  <2> QED
    BY <1>2, <1>6, <1>7, <2>1 DEF Ticks
<1> QED
  BY <1>8, <1>9

(* What prune_expired drops is what the guard allows a call to forget.        *)
LEMMA PruningForgets ==
  ASSUME IInv, NEW dropped \in 0..Len(bucket_order), NEW expired \in 0..dropped,
         prune_expired(expired, dropped)
  PROVE  Guard!Forgets(Front(expired), Front(dropped) \ Front(expired))
<1>1. TypeOK /\ IndexesAgree
  BY DEF IInv
<1>2. expired \in 0..Len(bucket_order)
  BY <1>1 DEF TypeOK
<1>3. Front(expired) \subseteq all_nonces /\ Front(dropped) \subseteq all_nonces
  BY <1>1, <1>2, PopFront
<1>4. Front(expired) \subseteq Front(dropped)
  BY DEF Front
<1>5. ASSUME NEW n \in Front(expired)
      PROVE  now - accepted_at[n] >= ClockRate * (window_seconds - 1) + 1
  <2>1. tick_of(accepted_at[n]) + window_seconds <= tick_of(now)
    BY <1>1, ExpiredFrontIsDue DEF current_tick
  <2>2. PICK i \in 1..expired : n \in buckets[bucket_order[i]]
    BY DEF Front
  <2>3. bucket_order[i] \in Ticks
    BY <1>1, <1>2 DEF TypeOK
  <2>4. accepted_at[n] \in Nat /\ now \in Nat
    BY <1>1, <2>2, <2>3, CacheAssumption
       DEF TypeOK, IndexesAgree, BucketedWhenAccepted, Never
  <2>5. now - accepted_at[n] > ClockRate * (window_seconds - 1)
    BY <2>1, <2>4, WindowOfTicks
  <2>6. ClockRate * (window_seconds - 1) \in Int
    BY CacheAssumption
  <2> QED
    BY <2>4, <2>5, <2>6
<1>6. ASSUME Front(dropped) \ Front(expired) # {}
      PROVE  OverLimit(all_nonces \ Front(expired))
  <2>1. expired # dropped
    BY <1>6
  <2>2. expired \in expired..(dropped - 1)
    BY <2>1
  <2>3. current_tick >= window_seconds => OverLimit(all_nonces \ Front(expired))
    BY <2>2, TickInRange, CacheAssumption, <1>1 DEF prune_expired, TypeOK, current_tick, Ticks
  <2>4. current_tick >= window_seconds
    BY <2>1, TickInRange, CacheAssumption, <1>1 DEF prune_expired, TypeOK, current_tick, Ticks
  <2> QED
    BY <2>3, <2>4
<1>7. \A m \in Front(dropped), o \in all_nonces \ Front(dropped) :
        accepted_at[m] <= accepted_at[o]
  BY <1>1, OldestGoFirst
<1> DEFINE due == Front(expired)
           overflow == Front(dropped) \ Front(expired)
<1>8. /\ due \subseteq all_nonces
      /\ overflow \subseteq all_nonces \ due
      /\ all_nonces \ (due \cup overflow) = all_nonces \ Front(dropped)
  BY <1>3, <1>4
<1>9. \A m \in overflow, o \in all_nonces \ (due \cup overflow) :
        accepted_at[m] <= accepted_at[o]
  BY <1>7, <1>8
<1>10. \A n \in due : Guard!MayExpire(n)
  BY <1>5 DEF Guard!MayExpire
<1>11. overflow # {} => OverLimit(all_nonces \ due)
  BY <1>6
<1> HIDE DEF due, overflow
<1>12. Guard!Forgets(due, overflow)
  BY <1>8, <1>9, <1>10, <1>11 DEF Guard!Forgets
<1> QED
  BY <1>12 DEF due, overflow

(* Each step is a step of the guard or leaves it alone.                       *)
LEMMA StepRefines == IInv /\ [Next]_vars => [Guard!Next]_Guard!vars
<1> SUFFICES ASSUME IInv, [Next]_vars PROVE [Guard!Next]_Guard!vars
  OBVIOUS
<1>1. ASSUME NEW nonce \in Nonce, NEW is_new \in BOOLEAN, check_and_add(nonce, is_new)
      PROVE  Guard!Offer(nonce, is_new)
  <2>1. PICK dropped \in 0..Len(bucket_order) :
          \E expired \in 0..dropped :
            prune_expired(expired, dropped) /\ insert(nonce, is_new, expired, dropped)
    BY <1>1 DEF check_and_add
  <2>2. PICK expired \in 0..dropped :
          prune_expired(expired, dropped) /\ insert(nonce, is_new, expired, dropped)
    BY <2>1
  <2> DEFINE due == Front(expired)
             overflow == Front(dropped) \ Front(expired)
  <2>3. Guard!Forgets(due, overflow)
    BY <2>2, PruningForgets
  <2>4. due \cup overflow = Front(dropped)
    BY DEF Front
  <2>5. /\ is_new = (nonce \notin all_nonces \ (due \cup overflow))
        /\ all_nonces' = (all_nonces \ (due \cup overflow)) \cup {nonce}
        /\ now' = now
    BY <2>2, <2>4 DEF insert, Released
  <2>6. /\ accepted_at' = IF is_new THEN [accepted_at EXCEPT ![nonce] = now] ELSE accepted_at
        /\ evicted' = (evicted \cup overflow) \ (IF is_new THEN {nonce} ELSE {})
    BY <2>2 DEF insert, Capped
  <2> HIDE DEF due, overflow
  <2>7. due \in SUBSET all_nonces /\ overflow \in SUBSET (all_nonces \ due)
    BY <2>3 DEF Guard!Forgets
  <2> QED
    BY <2>3, <2>5, <2>6, <2>7 DEF Guard!Offer
<1>2. ASSUME prune
      PROVE  Guard!Sweep
  <2>1. PICK dropped \in 0..Len(bucket_order) : \E expired \in 0..dropped :
          /\ prune_expired(expired, dropped)
          /\ all_nonces' = all_nonces \ Front(dropped)
          /\ evicted' = evicted \cup Capped(expired, dropped)
          /\ now' = now
          /\ accepted_at' = accepted_at
    BY <1>2 DEF prune, Released
  <2>2. PICK expired \in 0..dropped :
          /\ prune_expired(expired, dropped)
          /\ all_nonces' = all_nonces \ Front(dropped)
          /\ evicted' = evicted \cup Capped(expired, dropped)
          /\ now' = now
          /\ accepted_at' = accepted_at
    BY <2>1
  <2> DEFINE due == Front(expired)
             overflow == Front(dropped) \ Front(expired)
  <2>3. Guard!Forgets(due, overflow)
    BY <2>2, PruningForgets
  <2>4. due \cup overflow = Front(dropped)
    BY DEF Front
  <2>5. /\ all_nonces' = all_nonces \ (due \cup overflow)
        /\ evicted' = evicted \cup overflow
    BY <2>2, <2>4 DEF Capped
  <2> HIDE DEF due, overflow
  <2>6. due \in SUBSET all_nonces /\ overflow \in SUBSET (all_nonces \ due)
    BY <2>3 DEF Guard!Forgets
  <2> QED
    BY <2>2, <2>3, <2>5, <2>6 DEF Guard!Sweep
<1>3. ASSUME AdvanceClock
      PROVE  Guard!Tick
  <2>1. now + 1 \in (now + 1)..MaxNow
    BY <1>3, CacheAssumption DEF AdvanceClock, IInv, TypeOK
  <2> QED
    BY <1>3, <2>1 DEF AdvanceClock, cacheState, Guard!Tick
<1>4. ASSUME UNCHANGED vars
      PROVE  UNCHANGED Guard!vars
  BY <1>4 DEF vars, cacheState, Guard!vars
<1> QED
  BY <1>1, <1>2, <1>3, <1>4 DEF Next, Guard!Next

(* ReplayCache implements the abstract replay guard whose retention is the     *)
(* window less one second and whose capacity is exceeded above max_size.      *)
THEOREM CacheImplementsGuard == Spec => ImplementsReplayGuard
<1>1. Init => Guard!Init
  BY DEF Init, Guard!Init, Never, Guard!Never
<1>2. IInv /\ [Next]_vars => [Guard!Next]_Guard!vars
  BY StepRefines
<1> QED
  BY <1>1, <1>2, Invariance, PTL DEF Spec, ImplementsReplayGuard, Guard!Spec

-----------------------------------------------------------------------------
(* The abstract guard keeps its promise, and with it the cache that implements it. *)
GuardRetention == ClockRate * (window_seconds - 1) + 1

RemembersYoung ==
  \A n \in Nonce :
    accepted_at[n] # Guard!Never /\ now - accepted_at[n] < GuardRetention /\ n \notin evicted
    => n \in all_nonces

GuardInv == Guard!TypeOK /\ RemembersYoung

(* Only what is as old as that may expire.                                      *)
LEMMA ExpiresLate ==
  /\ MaxNow \in Nat /\ GuardRetention \in Int
  /\ \A n : Guard!MayExpire(n) => now - accepted_at[n] >= GuardRetention
BY CacheAssumption DEF GuardRetention, Guard!MayExpire

(* A nonce that a call forgets either is old enough or ends up evicted.        *)
LEMMA OfferPreserves ==
  ASSUME GuardInv,
         NEW m \in Nonce, NEW is_new \in BOOLEAN, Guard!Offer(m, is_new)
  PROVE  GuardInv'
<1>1. PICK expired \in SUBSET all_nonces : \E overflow \in SUBSET (all_nonces \ expired) :
        LET kept == all_nonces \ (expired \cup overflow) IN
        /\ Guard!Forgets(expired, overflow)
        /\ is_new = (m \notin kept)
        /\ all_nonces' = kept \cup {m}
        /\ accepted_at' = IF is_new THEN [accepted_at EXCEPT ![m] = now] ELSE accepted_at
        /\ evicted' = (evicted \cup overflow) \ (IF is_new THEN {m} ELSE {})
        /\ UNCHANGED now
  BY DEF Guard!Offer
<1>2. PICK overflow \in SUBSET (all_nonces \ expired) :
        LET kept == all_nonces \ (expired \cup overflow) IN
        /\ Guard!Forgets(expired, overflow)
        /\ is_new = (m \notin kept)
        /\ all_nonces' = kept \cup {m}
        /\ accepted_at' = IF is_new THEN [accepted_at EXCEPT ![m] = now] ELSE accepted_at
        /\ evicted' = (evicted \cup overflow) \ (IF is_new THEN {m} ELSE {})
        /\ UNCHANGED now
  BY <1>1
<1>3. Guard!TypeOK'
  BY <1>2 DEF GuardInv, Guard!TypeOK
<1>4. ASSUME NEW n \in Nonce, accepted_at'[n] # Guard!Never, now' - accepted_at'[n] < GuardRetention,
             n \notin evicted', n # m
      PROVE  n \in all_nonces'
  <2>1. accepted_at'[n] = accepted_at[n] /\ now' = now /\ n \notin evicted /\ n \notin overflow
    BY <1>2, <1>4 DEF GuardInv, Guard!TypeOK
  <2>2. n \in all_nonces
    BY <1>4, <2>1 DEF GuardInv, RemembersYoung
  <2>3. n \notin expired
    BY <1>2, <1>4, <2>1, ExpiresLate DEF Guard!Forgets, GuardInv, Guard!TypeOK, Guard!Never
  <2> QED
    BY <1>2, <2>1, <2>2, <2>3
<1>5. m \in all_nonces'
  BY <1>2
<1> QED
  BY <1>3, <1>4, <1>5 DEF GuardInv, RemembersYoung

LEMMA SweepPreserves ==
  ASSUME GuardInv, Guard!Sweep
  PROVE  GuardInv'
<1>1. PICK expired \in SUBSET all_nonces : \E overflow \in SUBSET (all_nonces \ expired) :
        /\ Guard!Forgets(expired, overflow)
        /\ all_nonces' = all_nonces \ (expired \cup overflow)
        /\ evicted' = evicted \cup overflow
        /\ UNCHANGED <<now, accepted_at>>
  BY DEF Guard!Sweep
<1>2. PICK overflow \in SUBSET (all_nonces \ expired) :
        /\ Guard!Forgets(expired, overflow)
        /\ all_nonces' = all_nonces \ (expired \cup overflow)
        /\ evicted' = evicted \cup overflow
        /\ UNCHANGED <<now, accepted_at>>
  BY <1>1
<1>3. Guard!TypeOK'
  BY <1>2 DEF GuardInv, Guard!TypeOK
<1>4. ASSUME NEW n \in Nonce, accepted_at'[n] # Guard!Never, now' - accepted_at'[n] < GuardRetention,
             n \notin evicted'
      PROVE  n \in all_nonces'
  BY <1>2, <1>4, ExpiresLate DEF Guard!Forgets, GuardInv, Guard!TypeOK, RemembersYoung, Guard!Never
<1> QED
  BY <1>3, <1>4 DEF GuardInv, RemembersYoung

LEMMA TickPreserves ==
  ASSUME GuardInv, Guard!Tick
  PROVE  GuardInv'
  BY ExpiresLate DEF Guard!Tick, GuardInv, Guard!TypeOK, RemembersYoung, Guard!Never

(* What was accepted less than a retention time ago and not pushed out of a full    *)
(* cache is remembered, whatever implements the guard; ReplayCache::check_and_add   *)
(* and prune do (CacheImplementsGuard).                                          *)
THEOREM NoncesAreRemembered ==
  /\ Guard!Spec => []Guard!Remembers
  /\ Spec => []Guard!Remembers
<1>1. Guard!Init => GuardInv
  BY CacheAssumption DEF Guard!Init, GuardInv, Guard!TypeOK, RemembersYoung
<1>2. GuardInv /\ [Guard!Next]_Guard!vars => GuardInv'
  <2> SUFFICES ASSUME GuardInv, [Guard!Next]_Guard!vars
               PROVE  GuardInv'
    OBVIOUS
  <2>1. CASE UNCHANGED Guard!vars
    BY <2>1 DEF Guard!vars, GuardInv, Guard!TypeOK, RemembersYoung
  <2> QED
    BY <2>1, OfferPreserves, SweepPreserves, TickPreserves DEF Guard!Next
<1>3. GuardInv => Guard!Remembers
  BY DEF GuardInv, RemembersYoung, Guard!Remembers, GuardRetention
<1>4. Guard!Spec => []Guard!Remembers
  BY <1>1, <1>2, <1>3, PTL DEF Guard!Spec
<1> QED
  BY <1>4, CacheImplementsGuard, PTL DEF ImplementsReplayGuard

-----------------------------------------------------------------------------
(* What a call leaves behind.                                                 *)

(* After the pruning every remaining bucket is within the window.             *)
LEMMA KeptIsCurrent ==
  ASSUME TypeOK, IndexesAgree,
         NEW dropped \in 0..Len(bucket_order), NEW expired \in 0..dropped,
         prune_expired(expired, dropped),
         NEW n \in all_nonces \ Front(dropped)
  PROVE  tick_of(accepted_at[n]) + window_seconds > current_tick
<1>1. PICK t \in Ticks : n \in buckets[t]
  BY DEF IndexesAgree, NoncesAreBucketed
<1>2. PICK j \in 1..Len(bucket_order) : bucket_order[j] = t
  BY <1>1 DEF IndexesAgree, OrderListsBuckets
<1>3. j > dropped
  BY <1>1, <1>2 DEF Front
<1>4. tick_of(accepted_at[n]) = t /\ t \in Nat
  BY <1>1 DEF IndexesAgree, BucketedWhenAccepted, Ticks
<1>5. current_tick \in Nat /\ window_seconds \in Nat
  BY TickInRange, CacheAssumption DEF TypeOK, current_tick, Ticks
<1>6. CASE current_tick < window_seconds
  BY <1>4, <1>5, <1>6
<1>7. CASE ~(current_tick < window_seconds)
  <2>1. expired < Len(bucket_order) /\ expired + 1 <= j /\ expired + 1 \in 1..Len(bucket_order)
    BY <1>3
  <2>2. ~Expired(bucket_order[expired + 1])
    BY <1>7, <2>1 DEF prune_expired
  <2>3. bucket_order[expired + 1] \in Ticks
    BY <2>1 DEF TypeOK
  <2>4. expired + 1 = j \/ bucket_order[expired + 1] < bucket_order[j]
    BY <1>2, <2>1 DEF IndexesAgree, OrderAscends
  <2> QED
    BY <1>2, <1>4, <1>5, <2>2, <2>3, <2>4 DEF Expired, Ticks
<1> QED
  BY <1>6, <1>7

(* No call returns with an expired nonce in the cache, whatever the order of   *)
(* the calls.  A window of zero seconds is excluded: there the nonce just      *)
(* added is itself expired.                                                   *)
THEOREM ExpiredAreReleased ==
  ASSUME window_seconds # 0
  PROVE  Spec => CallReleasesExpired
<1> DEFINE LeavesNoExpired ==
      now' = now => \A n \in all_nonces' :
                      tick_of(accepted_at'[n]) + window_seconds > current_tick
<1>1. ASSUME IInv, Next, now' = now, NEW n \in all_nonces'
      PROVE  tick_of(accepted_at'[n]) + window_seconds > current_tick
  <2>1. ~AdvanceClock
    BY <1>1, CacheAssumption DEF AdvanceClock, IInv, TypeOK
  <2>2. ASSUME NEW nonce \in Nonce, NEW is_new \in BOOLEAN, check_and_add(nonce, is_new)
        PROVE  tick_of(accepted_at'[n]) + window_seconds > current_tick
    <3>1. PICK dropped \in 0..Len(bucket_order) :
            \E expired \in 0..dropped :
              prune_expired(expired, dropped) /\ insert(nonce, is_new, expired, dropped)
      BY <2>2 DEF check_and_add
    <3>2. PICK expired \in 0..dropped :
            prune_expired(expired, dropped) /\ insert(nonce, is_new, expired, dropped)
      BY <3>1
    <3>3. CASE n \in all_nonces \ Front(dropped)
      <4>1. tick_of(accepted_at[n]) + window_seconds > current_tick
        BY <1>1, <3>2, <3>3, KeptIsCurrent DEF IInv
      <4>2. accepted_at'[n] = accepted_at[n]
        BY <1>1, <3>2, <3>3 DEF insert, Released, IInv, TypeOK
      <4> QED
        BY <4>1, <4>2
    <3>4. CASE n \notin all_nonces \ Front(dropped)
      <4>1. n = nonce /\ is_new /\ accepted_at'[n] = now
        BY <1>1, <3>2, <3>4 DEF insert, Released, IInv, TypeOK
      <4>2. current_tick \in Nat
        BY <1>1, TickInRange DEF IInv, TypeOK, current_tick, Ticks
      <4> QED
        BY <4>1, <4>2, CacheAssumption DEF current_tick
    <3> QED
      BY <3>3, <3>4
  <2>3. ASSUME prune
        PROVE  tick_of(accepted_at'[n]) + window_seconds > current_tick
    <3>1. PICK dropped \in 0..Len(bucket_order) : \E expired \in 0..dropped :
            /\ prune_expired(expired, dropped)
            /\ all_nonces' = all_nonces \ Front(dropped)
            /\ accepted_at' = accepted_at
      BY <2>3 DEF prune, Released
    <3> QED
      BY <1>1, <3>1, KeptIsCurrent DEF IInv
  <2> QED
    BY <1>1, <2>1, <2>2, <2>3 DEF Next
<1>2. IInv /\ [Next]_vars => [LeavesNoExpired]_vars
  BY <1>1
<1> QED
  BY <1>2, Invariance, PTL DEF Spec, CallReleasesExpired

(* Once a window has passed, what pruning keeps fits the limit.               *)
LEMMA KeptFits ==
  ASSUME IInv, current_tick >= window_seconds,
         NEW dropped \in 0..Len(bucket_order), NEW expired \in 0..dropped,
         prune_expired(expired, dropped)
  PROVE  /\ IsFiniteSet(all_nonces \ Front(dropped))
         /\ Cardinality(all_nonces \ Front(dropped)) \in Nat
         /\ Cardinality(all_nonces \ Front(dropped)) <= max_size
<1>1. IsFiniteSet(all_nonces \ Front(dropped))
  BY FS_Difference DEF IInv
<1>2. Cardinality(all_nonces \ Front(dropped)) \in Nat
  BY <1>1, FS_CardinalityType
<1>3. ~(current_tick < window_seconds)
  BY TickInRange, CacheAssumption DEF IInv, TypeOK, current_tick, Ticks
<1>4. CASE dropped < Len(bucket_order)
  <2>1. ~OverLimit(all_nonces \ Front(dropped))
    BY <1>3, <1>4 DEF prune_expired
  <2> QED
    BY <1>1, <1>2, <2>1, CacheAssumption DEF OverLimit
<1>5. CASE dropped = Len(bucket_order)
  <2>1. all_nonces \ Front(dropped) = {}
    BY <1>5 DEF IInv, TypeOK, IndexesAgree, NoncesAreBucketed, OrderListsBuckets, Front
  <2> QED
    BY <1>1, <2>1, FS_EmptySet, CacheAssumption
<1> QED
  BY <1>4, <1>5 DEF IInv, TypeOK

(* From the end of the first window on, a call leaves at most one nonce more   *)
(* than max_size.                                                             *)
THEOREM CapHolds == Spec => CapHoldsAfterFirstWindow
<1> DEFINE Fits == now' = now /\ current_tick >= window_seconds
                   => Cardinality(all_nonces') <= max_size + 1
<1>1. ASSUME IInv, Next, now' = now, current_tick >= window_seconds
      PROVE  Cardinality(all_nonces') <= max_size + 1
  <2>1. ~AdvanceClock
    BY <1>1, CacheAssumption DEF AdvanceClock, IInv, TypeOK
  <2>2. ASSUME NEW nonce \in Nonce, NEW is_new \in BOOLEAN, check_and_add(nonce, is_new)
        PROVE  Cardinality(all_nonces') <= max_size + 1
    <3>1. PICK dropped \in 0..Len(bucket_order) :
            \E expired \in 0..dropped :
              prune_expired(expired, dropped) /\ insert(nonce, is_new, expired, dropped)
      BY <2>2 DEF check_and_add
    <3>2. PICK expired \in 0..dropped :
            prune_expired(expired, dropped) /\ insert(nonce, is_new, expired, dropped)
      BY <3>1
    <3> DEFINE kept == all_nonces \ Front(dropped)
    <3>3. IsFiniteSet(kept) /\ Cardinality(kept) \in Nat /\ Cardinality(kept) <= max_size
      BY <1>1, <3>2, KeptFits
    <3>4. all_nonces' = kept \cup {nonce}
      BY <3>2 DEF insert, Released
    <3> HIDE DEF kept
    <3>5. Cardinality(all_nonces') = Cardinality(kept)
          \/ Cardinality(all_nonces') = Cardinality(kept) + 1
      BY <3>3, <3>4, FS_AddElement
    <3> QED
      BY <3>3, <3>5, CacheAssumption
  <2>3. ASSUME prune
        PROVE  Cardinality(all_nonces') <= max_size + 1
    <3>1. PICK dropped \in 0..Len(bucket_order) : \E expired \in 0..dropped :
            /\ prune_expired(expired, dropped)
            /\ all_nonces' = all_nonces \ Front(dropped)
      BY <2>3 DEF prune, Released
    <3>2. PICK expired \in 0..dropped : prune_expired(expired, dropped)
      BY <3>1
    <3>3. Cardinality(all_nonces') \in Nat /\ Cardinality(all_nonces') <= max_size
      BY <1>1, <3>1, <3>2, KeptFits
    <3> QED
      BY <3>3, CacheAssumption
  <2> QED
    BY <1>1, <2>1, <2>2, <2>3 DEF Next
<1>2. IInv /\ [Next]_vars => [Fits]_vars
  BY <1>1
<1> QED
  BY <1>2, Invariance, PTL DEF Spec, CapHoldsAfterFirstWindow
=============================================================================
