--------------------------- MODULE LazyDigestProofs ---------------------------
(***************************************************************************)
(* The lazily computed digest is right for any number of threads and any       *)
(* division of the bytes into parts, in a build that stores the bytes before   *)
(* the flag.                                                                 *)
(***************************************************************************)
EXTENDS LazyDigest, TLAPS

(* The flag stands for complete bytes, and a thread that is storing has stored *)
(* the parts it no longer has to do.                                         *)
Stages ==
  {At(s) : s \in {"idle", "loading", "computing"}}
  \cup [stage : {"returned"}, right : BOOLEAN]
  \cup [stage : {"storing"}, todo : SUBSET (Part \cup {Flag})]

CallsTyped == calls \in [Thread -> Stages]
FlagMeansComplete == has_value => stored = Part
StoredOnly == stored \subseteq Part
LoadersSawFlag == \A p \in Thread : calls[p].stage = "loading" => has_value
DoneIsStored ==
  \A p \in Thread : calls[p].stage = "storing" => Part \ calls[p].todo \subseteq stored

IInv ==
  /\ CallsTyped
  /\ has_value \in BOOLEAN
  /\ StoredOnly
  /\ FlagMeansComplete
  /\ LoadersSawFlag
  /\ DoneIsStored
  /\ ReturnsTheDigest

LEMMA InitEstablishes == Init => IInv
<1> SUFFICES ASSUME Init PROVE IInv
  OBVIOUS
<1>1. CallsTyped
  BY DEF Init, CallsTyped, Stages, At
<1>2. \A p \in Thread : calls[p].stage = "idle"
  BY DEF Init, At
<1> QED
  BY <1>1, <1>2 DEF Init, IInv, StoredOnly, FlagMeansComplete, LoadersSawFlag, DoneIsStored,
     ReturnsTheDigest

(* A step of one thread moves its call to another stage and at most adds to     *)
(* what is stored.                                                           *)
LEMMA StepPreserves ==
  ASSUME InProgramOrder, IInv, [Next]_vars
  PROVE  IInv'
<1> USE LazyDigestAssumption DEF IInv, CallsTyped, StoredOnly, FlagMeansComplete, LoadersSawFlag,
        DoneIsStored, ReturnsTheDigest
<1>1. ASSUME NEW p \in Thread, look(p)
      PROVE  IInv'
  BY <1>1 DEF look, Goes, At, Stages
<1>2. ASSUME NEW p \in Thread, load(p)
      PROVE  IInv'
  BY <1>2 DEF load, Goes, Returned, Stages
<1>3. ASSUME NEW p \in Thread, compute(p)
      PROVE  IInv'
  BY <1>3 DEF compute, Goes, At, Stages
<1>4. ASSUME NEW p \in Thread, NEW x \in Part \cup {Flag}, store(p, x)
      PROVE  IInv'
  <2>1. x = Flag => calls[p].todo = {Flag}
    BY <1>4 DEF store, MayStore
  <2>2. /\ Part \ calls[p].todo \subseteq stored
        /\ calls[p] \in [stage : {"storing"}, todo : SUBSET (Part \cup {Flag})]
    BY <1>4 DEF store, Stages, At
  <2>3. stored' \subseteq Part /\ stored \subseteq stored' /\ has_value' \in BOOLEAN
    BY <1>4 DEF store
  <2>4. has_value' => stored' = Part
    BY <1>4, <2>1, <2>2, <2>3 DEF store
  <2>5. CASE calls[p].todo = {x}
    <3>1. calls' = [calls EXCEPT ![p] = Returned(TRUE)]
      BY <1>4, <2>5 DEF store, Goes
    <3> QED
      BY <3>1, <1>4, <2>3, <2>4 DEF store, Returned, Stages
  <2>6. CASE calls[p].todo # {x}
    <3>1. calls' = [calls EXCEPT ![p] = [stage |-> "storing", todo |-> calls[p].todo \ {x}]]
      BY <1>4, <2>2, <2>6 DEF store, Goes
    <3>2. Part \ (calls[p].todo \ {x}) \subseteq stored'
      BY <1>4, <2>2 DEF store
    <3> QED
      BY <3>1, <3>2, <1>4, <2>2, <2>3, <2>4 DEF store, Stages
  <2> QED
    BY <2>5, <2>6
<1>5. CASE UNCHANGED vars
  BY <1>5 DEF vars
<1> QED
  BY <1>1, <1>2, <1>3, <1>4, <1>5 DEF Next

(* A call that returns a digest returns the challenge's (TokenChallenge::digest, *)
(* token_challenge.cpp:189-207), if the bytes are stored before the flag.     *)
THEOREM DigestIsRight == ASSUME InProgramOrder PROVE Spec => []ReturnsTheDigest
<1>1. Init => IInv
  BY InitEstablishes
<1>2. IInv /\ [Next]_vars => IInv'
  BY StepPreserves
<1>3. IInv => ReturnsTheDigest
  BY DEF IInv
<1> QED
  BY <1>1, <1>2, <1>3, PTL DEF Spec
=============================================================================
