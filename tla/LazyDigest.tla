------------------------------ MODULE LazyDigest ------------------------------
(***************************************************************************)
(* TokenChallenge::digest (src/core/token_challenge.cpp:189-207): threads that  *)
(* share a challenge compute its digest without a lock and leave it in the     *)
(* mutable std::optional cached_digest_.  All of them store the same bytes.    *)
(* The key_id() of BlindRsaPublicKey (src/crypto/blind_rsa.cpp:91-109) and of  *)
(* VoprfPublicKey (src/crypto/voprf.cpp:612-624) have the same shape, with a   *)
(* bool for the optional's flag.                                             *)
(*                                                                         *)
(* The accesses race, so a build may order the stores into the optional as it  *)
(* likes; InProgramOrder says whether this one keeps the bytes before the      *)
(* flag.  As every store of a part stores the same value, the payload is the   *)
(* set of the parts that have been stored.                                   *)
(***************************************************************************)
CONSTANTS
  Thread,
  Part,             (* the parts in which the bytes are copied               *)
  InProgramOrder

Flag == "engaged"

ASSUME LazyDigestAssumption == InProgramOrder \in BOOLEAN /\ Flag \notin Part

VARIABLES
  has_value,        (* the flag of cached_digest_                            *)
  stored,           (* the parts of its bytes that have been stored          *)
  calls             (* thread -> its current or last call of digest          *)

vars == <<has_value, stored, calls>>

At(stage) == [stage |-> stage]
Returned(right) == [stage |-> "returned", right |-> right]

Init ==
  /\ has_value = FALSE
  /\ stored = {}
  /\ calls = [p \in Thread |-> At("idle")]

-----------------------------------------------------------------------------
Goes(p, call) == calls' = [calls EXCEPT ![p] = call]

(* The test of the flag.                                                     *)
look(p) ==
  /\ calls[p].stage \in {"idle", "returned"}
  /\ Goes(p, At(IF has_value THEN "loading" ELSE "computing"))
  /\ UNCHANGED <<has_value, stored>>

(* The cached bytes are returned as they are at that moment.                  *)
load(p) ==
  /\ calls[p].stage = "loading"
  /\ Goes(p, Returned(stored = Part))
  /\ UNCHANGED <<has_value, stored>>

(* Serialisation and hashing: they fail and leave the cache alone, or the       *)
(* assignment begins, which sets the flag only if it finds it unset.          *)
compute(p) ==
  /\ calls[p].stage = "computing"
  /\ \/ Goes(p, At("idle"))
     \/ Goes(p, [stage |-> "storing",
                 todo |-> IF has_value THEN Part ELSE Part \cup {Flag}])
  /\ UNCHANGED <<has_value, stored>>

(* Whether the store of x may come now; the variant sets the flag first.       *)
FlagFirst(x, todo) == Flag \in todo => x = Flag

MayStore(x, todo) == InProgramOrder /\ x = Flag => todo = {Flag}

store(p, x) ==
  /\ calls[p].stage = "storing"
  /\ x \in calls[p].todo
  /\ MayStore(x, calls[p].todo)
  /\ has_value' = (has_value \/ x = Flag)
  /\ stored' = stored \cup ({x} \ {Flag})
  /\ Goes(p, IF calls[p].todo = {x} THEN Returned(TRUE)
             ELSE [stage |-> "storing", todo |-> calls[p].todo \ {x}])

Next ==
  \E p \in Thread :
    look(p) \/ load(p) \/ compute(p) \/ \E x \in Part \cup {Flag} : store(p, x)

Spec == Init /\ [][Next]_vars

-----------------------------------------------------------------------------
(* "concurrent writes to cached_digest_ are harmless - all store the same       *)
(* value" (token_challenge.cpp:191-192): whatever the interleaving, a call that *)
(* returns a digest returns the challenge's.                                 *)
ReturnsTheDigest == \A p \in Thread : calls[p].stage = "returned" => calls[p].right
=============================================================================
