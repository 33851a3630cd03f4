------------------------- MODULE MCTokenAuthenticator -------------------------
(* Model checking of TokenAuthenticator: for each nonce the token an honest  *)
(* client was issued under the trusted key, and one that bears the same       *)
(* nonce but a signature of another key.                                     *)
EXTENDS TokenAuthenticator, TLC

CONSTANTS c1, k1, k2

Genuine(nonce) == issued("BLIND_RSA", nonce, c1, k1)
MisSigned(nonce) == [Genuine(nonce) EXCEPT !.authenticator.signer = k2]

Presented == {Genuine(n) : n \in Nonce} \cup {MisSigned(n) : n \in Nonce}

NonceSymmetry == Permutations(Nonce)
=============================================================================
