------------------------------- MODULE MCOrigin -------------------------------
(* Model checking of the origins: tokens of two nonces issued by k1, one of    *)
(* them also presented with a signature of k2, and a VOPRF token of each       *)
(* nonce; the ids of k1 and k2 end in one byte.                              *)
EXTENDS Origin, TLC

CONSTANTS c1, k1, k2, n1, n2

Genuine(nonce) == issued("BLIND_RSA", nonce, c1, k1)
Private(nonce) == issued("VOPRF_P384_SHA384", nonce, c1, k1)

(* A signature by k2 over a token that names k1.                              *)
Misfiled(nonce) == [Genuine(nonce) EXCEPT !.authenticator.signer = k2]

Presented == {Genuine(n1), Misfiled(n1), Genuine(n2), Private(n1), Private(n2)}

OneByte == [k \in Key |-> 1]

ThreadSymmetry == Permutations(Thread)
=============================================================================
