---------------------------- MODULE MCTokenProvider ----------------------------
(* Model checking of TokenProvider: an RSA key k1 and a VOPRF key v1 of one    *)
(* issuer, and a second registration of k1 whose data is damaged; a challenge *)
(* of each kind for this origin, one for another origin, and one that cannot   *)
(* be serialised.                                                            *)
EXTENDS TokenProvider, TLC

CONSTANTS c1, k1, v1, i1, here, elsewhere

KindOf == [k \in Key |-> IF k = v1 THEN "VOPRF" ELSE "RSA"]

Registration(type, key, data) == [type |-> type, key_id |-> key, data |-> data]

PublishedKeys ==
  {Registration("BLIND_RSA", k1, k1), Registration("VOPRF_P384_SHA384", v1, v1),
   Registration("BLIND_RSA", k1, Garbage)}

Asks(type, digest, names) ==
  [token_type |-> type, issuer_name |-> i1, digest |-> digest, origin_info |-> names]

Challenges ==
  {Asks("BLIND_RSA", c1, {here}), Asks("VOPRF_P384_SHA384", c1, {}),
   Asks("BLIND_RSA", c1, {elsewhere}), Asks("BLIND_RSA", Undigestible, {here})}

Symmetry == Permutations(Thread) \cup Permutations(Nonce)
=============================================================================
