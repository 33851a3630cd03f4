----------------------------- MODULE MCTokenCrypto -----------------------------
(* Model checking of TokenCrypto: a curve of 83, resp. moduli of four digits; a    *)
(* message for every element of the field, the three exceptional ones of the      *)
(* mapping among them; two keys a scheme, and two texts that are no keys.         *)
EXTENDS TokenCrypto, SequencesExt

(* Exponentiation by repeated squaring, and a mixing function for the hashes.       *)
SmallPower(base, exponent, modulus) ==
  LET power[e \in 0..exponent] ==
        IF e = 0 THEN 1
        ELSE LET half == power[e \div 2]
                 even == (half * half) % modulus
             IN IF e % 2 = 0 THEN even ELSE (even * base) % modulus
  IN power[exponent]

SmallDigest(data) ==
  FoldLeft(LAMBDA a, v : (((a + v) % Order) * ((a + v) % Order) + 31 * v + 17) % Order, 5, data)

(* They satisfy the hypotheses of the theorems in TokenCryptoProofs.              *)
ASSUME SmallLaws ==
  PowerLaws(0..12) /\ HashesToNumbers([1..3 -> 0..5]) /\ InversesByFermat /\ CurveLaws

RsaKeys == {[n |-> 3233, e |-> 17, d |-> 2753], [n |-> 3337, e |-> 17, d |-> 2273]}
SmallEncoded(msg, salt) == 1 + ((msg[1] * 37 + msg[2] * 59 + salt * 101) % 3000)

First == CHOOSE s \in Session : TRUE
SomeInputs(s, scheme) ==
  IF scheme = BLIND_RSA THEN {<<1, 2>>, <<4, 2>>}
  ELSE IF s = First THEN {<<u, 2>> : u \in Field} ELSE {<<0, 2>>}
SomeKeys(scheme) == IF scheme = VOPRF THEN {0, 5, 1234, Order + 5} ELSE RsaKeys
OneKey(scheme) == IF scheme = VOPRF THEN 5 ELSE CHOOSE key \in RsaKeys : key.n = 3233

(* No hash of these collides either, and no signature is one of another encoding.     *)
ASSUME SmallHashes ==
  \A u \in Field :
    LET requests == {(7 * h) % Order : h \in hash_to_curve(<<u, 2>>) \cup hash_to_curve(<<0, 2>>)}
    IN ProofsBind(requests) /\ CompositesApart(requests)

ASSUME SmallSignatures ==
  LET key == OneKey(BLIND_RSA)
      calls == UNION {
        {[input |-> input, secret |-> d.secret, blinded |-> d.blinded] :
           d \in rsa_blind(key, input, 7, 1)} : input \in SomeInputs(First, BLIND_RSA)}
      signed == UNION {blind_sign(k, call.blinded) : k \in RsaKeys, call \in calls}
  IN SignsWhatWasBlinded(calls, signed \cup {(z % key.n) + key.n : z \in signed})
===============================================================================
