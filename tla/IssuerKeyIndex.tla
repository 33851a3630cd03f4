---------------------------- MODULE IssuerKeyIndex ----------------------------
(***************************************************************************)
(* The issuer keys of PublicOrigin (src/core/origin.cpp:144-166, 265-289): a  *)
(* vector that only grows, an index from full key id to vector position, and  *)
(* an index from truncated key id (its last byte) to positions.  A key         *)
(* stands for its full id; `truncated` gives its last byte.  Positions are    *)
(* numbered from 1, and 0 stands for an absent map entry.                    *)
(*                                                                         *)
(* `live` is what the interface promises: the keys added and not removed      *)
(* since.                                                                    *)
(***************************************************************************)
EXTENDS Integers, Sequences

CONSTANTS
  Key,
  truncated,        (* key -> the last byte of its id                        *)
  MaxKeys           (* bounds the number of additions in the model           *)

KeyIndexAssumption ==
  /\ MaxKeys \in Nat
  /\ truncated = [k \in Key |-> truncated[k]]

VARIABLES
  issuer_keys,
  key_index_by_full_id,
  key_indices_by_truncated_id,
  live

keyState == <<issuer_keys, key_index_by_full_id, key_indices_by_truncated_id, live>>

Byte == {truncated[k] : k \in Key}
Absent == 0

Init ==
  /\ issuer_keys = <<>>
  /\ key_index_by_full_id = [k \in Key |-> Absent]
  /\ key_indices_by_truncated_id = [b \in Byte |-> {}]
  /\ live = {}

-----------------------------------------------------------------------------
(* The position a new key gets; the variant numbers positions from 0.          *)
IndexFromZero == Len(issuer_keys)

NewIndex == Len(issuer_keys) + 1

(* PublicOrigin::add_issuer_key.  A key that is added again gets a second      *)
(* position, and its first stays in the bucket of its truncated id.          *)
add_issuer_key(key) ==
  /\ Len(issuer_keys) < MaxKeys
  /\ key_indices_by_truncated_id' =
       [key_indices_by_truncated_id EXCEPT ![truncated[key]] = @ \cup {NewIndex}]
  /\ key_index_by_full_id' = [key_index_by_full_id EXCEPT ![key] = NewIndex]
  /\ issuer_keys' = Append(issuer_keys, key)
  /\ live' = live \cup {key}

(* The vector after a removal: untouched, so that the positions held by the   *)
(* indexes stay good.  The variant erases the key from the vector as well.    *)
Compacted(index) ==
  SubSeq(issuer_keys, 1, index - 1) \o SubSeq(issuer_keys, index + 1, Len(issuer_keys))

KeysAfterRemoval(index) == issuer_keys

(* PublicOrigin::remove_issuer_key; an unknown id is ignored.                 *)
erase_known_key(key) ==
  LET index == key_index_by_full_id[key] IN
  /\ key_index_by_full_id' = [key_index_by_full_id EXCEPT ![key] = Absent]
  /\ key_indices_by_truncated_id' =
       [key_indices_by_truncated_id EXCEPT ![truncated[key]] = @ \ {index}]
  /\ issuer_keys' = KeysAfterRemoval(index)
  /\ live' = live \ {key}

remove_issuer_key(key) ==
  IF key_index_by_full_id[key] = Absent THEN UNCHANGED keyState ELSE erase_known_key(key)

(* The lookup of PublicOrigin::verify: the key at the position that the full   *)
(* id has, if it has one.  Reading past the vector would be undefined.       *)
(* The variant takes whatever is filed under the truncated id.               *)
FoundByTruncatedId(key) ==
  {issuer_keys[index] : index \in key_indices_by_truncated_id[truncated[key]]}

found(key) ==
  IF key_index_by_full_id[key] = Absent THEN {}
  ELSE {issuer_keys[key_index_by_full_id[key]]}

Next == \E key \in Key : add_issuer_key(key) \/ remove_issuer_key(key)

Spec == Init /\ [][Next]_keyState

-----------------------------------------------------------------------------
TypeOK ==
  /\ issuer_keys \in Seq(Key)
  /\ key_index_by_full_id \in [Key -> Nat]
  /\ key_indices_by_truncated_id \in [Byte -> SUBSET (Nat \ {Absent})]
  /\ live \subseteq Key

(* The lookup finds exactly the live keys, each under its own id: positions    *)
(* never dangle or shift, whatever the order of additions, repeated          *)
(* additions and removals (add_issuer_key, remove_issuer_key, verify).       *)
FindsLiveKeys ==
  \A key \in Key :
    /\ key_index_by_full_id[key] <= Len(issuer_keys)
    /\ found(key) = {key} \cap live

(* Every position is filed under the last byte of its own key's id, and every *)
(* live key can be reached from its truncated id.                            *)
BucketsMatchIds ==
  /\ \A b \in Byte : \A index \in key_indices_by_truncated_id[b] :
       index <= Len(issuer_keys) /\ truncated[issuer_keys[index]] = b
  /\ \A key \in live : key_index_by_full_id[key] \in key_indices_by_truncated_id[truncated[key]]
=============================================================================
