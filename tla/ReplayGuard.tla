----------------------------- MODULE ReplayGuard -----------------------------
(***************************************************************************)
(* What a replay cache promises, whatever its data structure: a nonce is    *)
(* accepted, remembered, and from then on answered "seen before" until it   *)
(* is at least Retention clock units old, or until the cache is full and    *)
(* the nonce belongs to the oldest it holds.                                *)
(*                                                                         *)
(* The library has two implementations of this contract: ReplayCache        *)
(* (src/core/origin.cpp, buckets of one second) and the deque of            *)
(* TokenAuthenticator (src/core/token_authenticator.cpp, one entry per      *)
(* nonce).  Both modules are shown to refine this one, with the Retention    *)
(* and the capacity that their own code gives them.                         *)
(***************************************************************************)
EXTENDS Integers

CONSTANTS
  Nonce,        (* the token nonces                                          *)
  Retention,    (* the least age at which a nonce may be dropped as expired  *)
  Full(_),      (* when a set of held nonces is too large to keep            *)
  MaxNow        (* the last instant of the clock; bounds the model           *)

VARIABLES
  now,          (* the monotonic clock                                       *)
  remembered,   (* the nonces that are answered "seen before"                *)
  accepted_at,  (* when each nonce was last accepted, Never if it was not    *)
  evicted       (* nonces whose last acceptance was dropped for want of room *)

vars == <<now, remembered, accepted_at, evicted>>

Never == -1

TypeOK ==
  /\ now \in 0..MaxNow
  /\ remembered \subseteq Nonce
  /\ accepted_at \in [Nonce -> 0..MaxNow \cup {Never}]
  /\ evicted \subseteq Nonce

Init ==
  /\ now = 0
  /\ remembered = {}
  /\ accepted_at = [n \in Nonce |-> Never]
  /\ evicted = {}

-----------------------------------------------------------------------------
(* A nonce old enough to be dropped as expired.                             *)
MayExpire(n) == now - accepted_at[n] >= Retention

(* What a call may forget before it answers: nonces that have expired, and   *)
(* then, when what is left is too large, some of the oldest.                *)
Forgets(expired, overflow) ==
  /\ expired \subseteq remembered
  /\ overflow \subseteq remembered \ expired
  /\ \A n \in expired : MayExpire(n)
  /\ overflow # {} => Full(remembered \ expired)
  /\ \A n \in overflow, o \in remembered \ (expired \cup overflow) :
        accepted_at[n] <= accepted_at[o]

(* The nonce is offered and the caller is told whether it is new.            *)
Offer(n, is_new) ==
  \E expired \in SUBSET remembered : \E overflow \in SUBSET (remembered \ expired) :
    LET kept == remembered \ (expired \cup overflow) IN
    /\ Forgets(expired, overflow)
    /\ is_new = (n \notin kept)
    /\ remembered' = kept \cup {n}
    /\ accepted_at' = IF is_new THEN [accepted_at EXCEPT ![n] = now] ELSE accepted_at
    /\ evicted' = (evicted \cup overflow) \ (IF is_new THEN {n} ELSE {})
    /\ UNCHANGED now

(* Housekeeping without an offer.                                            *)
Sweep ==
  \E expired \in SUBSET remembered : \E overflow \in SUBSET (remembered \ expired) :
    /\ Forgets(expired, overflow)
    /\ remembered' = remembered \ (expired \cup overflow)
    /\ evicted' = evicted \cup overflow
    /\ UNCHANGED <<now, accepted_at>>

Tick ==
  /\ \E later \in (now + 1)..MaxNow : now' = later
  /\ UNCHANGED <<remembered, accepted_at, evicted>>

Next ==
  \/ \E n \in Nonce, is_new \in BOOLEAN : Offer(n, is_new)
  \/ Sweep
  \/ Tick

Spec == Init /\ [][Next]_vars

-----------------------------------------------------------------------------
(* The promise.  A nonce accepted less than Retention ago is remembered,    *)
(* unless the cache ran out of room for it: this is what makes a token       *)
(* redeemable once within the redemption window                              *)
(* (ReplayCache::check_and_add, TokenAuthenticator::check_and_add_nonce).    *)
Remembers ==
  \A n \in Nonce :
    /\ accepted_at[n] # Never
    /\ now - accepted_at[n] < Retention
    /\ n \notin evicted
    => n \in remembered
=============================================================================
