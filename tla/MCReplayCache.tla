---------------------------- MODULE MCReplayCache ----------------------------
(* Model checking of ReplayCache: nonces are interchangeable.               *)
EXTENDS ReplayCache, TLC

NonceSymmetry == Permutations(Nonce)
=============================================================================
