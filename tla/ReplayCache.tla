----------------------------- MODULE ReplayCache -----------------------------
(***************************************************************************)
(* class ReplayCache (src/core/origin.cpp:33-133): nonces in buckets of one  *)
(* second, a global set for the lookup, and the buckets' order for pruning.  *)
(* Every method holds the mutex for its whole body, so each is one action.   *)
(*                                                                         *)
(* The clock is finer than the code's ticks (ClockRate units per second), so *)
(* that what a truncation to seconds does to the redemption window is seen.  *)
(***************************************************************************)
EXTENDS Integers, Sequences, FiniteSets

CONSTANTS
  Nonce,            (* token nonces                                          *)
  window_seconds,   (* the redemption window, in seconds                     *)
  max_size,         (* max_replay_cache_size                                 *)
  ClockRate,        (* clock units per second                                *)
  MaxNow            (* the last clock instant; bounds the model              *)

ASSUME CacheAssumption ==
  /\ window_seconds \in Nat
  /\ max_size \in Nat
  /\ ClockRate \in Nat \ {0}
  /\ MaxNow \in Nat

VARIABLES
  now,              (* steady_clock::now() - epoch, in clock units           *)
  buckets,          (* tick -> the nonces that arrived during that second    *)
  bucket_order,     (* the active ticks, oldest first                        *)
  all_nonces,       (* the deduplication set                                 *)
  accepted_at,      (* history: when each nonce was last accepted            *)
  evicted           (* history: nonces whose last acceptance the cap dropped *)

cacheState == <<buckets, bucket_order, all_nonces>>
vars == <<now, cacheState, accepted_at, evicted>>

Never == -1
Ticks == 0..(MaxNow \div ClockRate)

Init ==
  /\ now = 0
  /\ buckets = [t \in Ticks |-> {}]
  /\ bucket_order = <<>>
  /\ all_nonces = {}
  /\ accepted_at = [n \in Nonce |-> Never]
  /\ evicted = {}

-----------------------------------------------------------------------------
(* Impl::current_tick: whole seconds since the cache was built.             *)
tick_of(instant) == instant \div ClockRate
current_tick == tick_of(now)

(* What prune_expired's two loops do to the first k buckets.                *)
Front(k) == UNION {buckets[bucket_order[i]] : i \in 1..k}
Cleared(k) == [t \in Ticks |-> IF \E i \in 1..k : bucket_order[i] = t THEN {} ELSE buckets[t]]
Rest(k) == SubSeq(bucket_order, k + 1, Len(bucket_order))

(* The first loop's test.  Two ways to get it wrong: a strict comparison,   *)
(* and a cutoff one second too late.                                        *)
ExpiredStrict(t) == t < current_tick - window_seconds
ExpiredEarly(t) == t <= current_tick - window_seconds + 1

Expired(t) == t <= current_tick - window_seconds

(* The second loop's test, and an off-by-one of it.                         *)
OverLimitByOne(held) == Cardinality(held) > max_size + 1

OverLimit(held) == Cardinality(held) > max_size

(* Impl::prune_expired pops `expired` buckets in its first loop and goes on  *)
(* to `dropped` in its second; before the first window has passed it returns *)
(* at once.                                                                  *)
prune_expired(expired, dropped) ==
  IF current_tick < window_seconds
  THEN expired = 0 /\ dropped = 0
  ELSE /\ \A i \in 1..expired : Expired(bucket_order[i])
       /\ expired < Len(bucket_order) => ~Expired(bucket_order[expired + 1])
       /\ \A k \in expired..(dropped - 1) : OverLimit(all_nonces \ Front(k))
       /\ dropped < Len(bucket_order) => ~OverLimit(all_nonces \ Front(dropped))

(* The nonces that only the second loop drops.                               *)
Capped(expired, dropped) == Front(dropped) \ Front(expired)

(* The nonces that leave the deduplication set with the first k buckets.     *)
ReleasedNothing(k) == {}

Released(k) == Front(k)

(* The order with the current bucket at its end; the variant confuses the     *)
(* clock with the tick.                                                      *)
ordered_by_clock(order) == Append(order, now)

ordered(order) == Append(order, current_tick)

(* The insertion that follows the pruning in check_and_add: is_new is the    *)
(* returned value, and only a new nonce enters the current bucket.           *)
insert(nonce, is_new, expired, dropped) ==
  LET kept == all_nonces \ Released(dropped)
      cleared == Cleared(dropped)
  IN
  /\ is_new = (nonce \notin kept)
  /\ all_nonces' = kept \cup {nonce}
  /\ IF is_new
     THEN /\ buckets' = [cleared EXCEPT ![current_tick] = @ \cup {nonce}]
          /\ bucket_order' = IF cleared[current_tick] = {}
                             THEN ordered(Rest(dropped))
                             ELSE Rest(dropped)
          /\ accepted_at' = [accepted_at EXCEPT ![nonce] = now]
          /\ evicted' = (evicted \cup Capped(expired, dropped)) \ {nonce}
     ELSE /\ buckets' = cleared
          /\ bucket_order' = Rest(dropped)
          /\ evicted' = evicted \cup Capped(expired, dropped)
          /\ UNCHANGED accepted_at
  /\ UNCHANGED now

(* ReplayCache::check_and_add, under the lock.                               *)
check_and_add(nonce, is_new) ==
  \E dropped \in 0..Len(bucket_order) : \E expired \in 0..dropped :
    /\ prune_expired(expired, dropped)
    /\ insert(nonce, is_new, expired, dropped)

(* ReplayCache::prune.                                                       *)
prune ==
  \E dropped \in 0..Len(bucket_order) : \E expired \in 0..dropped :
    /\ prune_expired(expired, dropped)
    /\ all_nonces' = all_nonces \ Released(dropped)
    /\ buckets' = Cleared(dropped)
    /\ bucket_order' = Rest(dropped)
    /\ evicted' = evicted \cup Capped(expired, dropped)
    /\ UNCHANGED <<now, accepted_at>>

(* ReplayCache::contains and ReplayCache::size only read.                    *)
contains(nonce) == nonce \in all_nonces
size == Cardinality(all_nonces)

(* Time passes between calls.                                                *)
AdvanceClock ==
  /\ now < MaxNow
  /\ now' = now + 1
  /\ UNCHANGED <<cacheState, accepted_at, evicted>>

Next ==
  \/ \E nonce \in Nonce, is_new \in BOOLEAN : check_and_add(nonce, is_new)
  \/ prune
  \/ AdvanceClock

Spec == Init /\ [][Next]_vars

-----------------------------------------------------------------------------
TypeOK ==
  /\ now \in 0..MaxNow
  /\ buckets \in [Ticks -> SUBSET Nonce]
  /\ bucket_order \in Seq(Ticks)
  /\ all_nonces \subseteq Nonce
  /\ accepted_at \in [Nonce -> 0..MaxNow \cup {Never}]
  /\ evicted \subseteq Nonce

(* The three indexes of the cache tell the same story: bucket_order lists    *)
(* the non-empty buckets in strictly ascending order of their tick, none in  *)
(* the future, and the deduplication set is exactly what the buckets hold,   *)
(* each nonce in the bucket of the second it was accepted in.  Pruning pops   *)
(* buckets by this order and erases by their contents, so a disagreement     *)
(* would leak a nonce for ever or forget one too soon                        *)
(* (prune_expired, check_and_add).                                           *)
OrderAscends ==
  \A i, j \in 1..Len(bucket_order) : i < j => bucket_order[i] < bucket_order[j]
OrderListsBuckets ==
  \A t \in Ticks :
    buckets[t] # {} <=> \E i \in 1..Len(bucket_order) : bucket_order[i] = t
NoFutureBucket == \A t \in Ticks : buckets[t] # {} => t <= current_tick
NoncesAreBucketed == all_nonces = UNION {buckets[t] : t \in Ticks}
BucketedWhenAccepted ==
  \A t \in Ticks : \A n \in buckets[t] : accepted_at[n] # Never /\ tick_of(accepted_at[n]) = t

IndexesAgree ==
  /\ OrderAscends
  /\ OrderListsBuckets
  /\ NoFutureBucket
  /\ NoncesAreBucketed
  /\ BucketedWhenAccepted

(* A nonce that was accepted and not evicted by the cap is known for the     *)
(* whole window but its last second: the truncation to ticks costs less than *)
(* one second, never more (check_and_add, prune_expired).                    *)
RemembersWindow ==
  \A n \in Nonce :
    /\ accepted_at[n] # Never
    /\ n \notin evicted
    /\ now - accepted_at[n] <= ClockRate * (window_seconds - 1)
    => contains(n)

(* Pruning releases what has expired: no call returns with a nonce in the    *)
(* cache whose second lies a window or more in the past (prune_expired).     *)
CallReleasesExpired ==
  [][now' = now =>
       \A n \in all_nonces' : tick_of(accepted_at'[n]) + window_seconds > current_tick]_vars

(* Once the first window has passed a call leaves at most max_size nonces    *)
(* and the one it has just added (prune_expired, origin.cpp:78-87; the cap    *)
(* is enforced before the insertion, and not at all before that time).       *)
CapHoldsAfterFirstWindow ==
  [][now' = now /\ current_tick >= window_seconds =>
       Cardinality(all_nonces') <= max_size + 1]_vars

(* The bound as the configuration states it: "Maximum entries in replay      *)
(* cache (conservative default)" (include/privacy_pass/core/origin.hpp:57),  *)
(* read generously: the entry just added may exceed it.                      *)
MaxEntriesRespected == size <= max_size + 1

(* The cache implements the abstract replay guard.                           *)
Guard == INSTANCE ReplayGuard WITH
  remembered <- all_nonces,
  Retention <- ClockRate * (window_seconds - 1) + 1,
  Full <- OverLimit

ImplementsReplayGuard == Guard!Spec
=============================================================================
