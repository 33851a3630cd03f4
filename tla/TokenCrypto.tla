------------------------------ MODULE TokenCrypto ------------------------------
(***************************************************************************)
(* Sessions of blinding, evaluation and unblinding, with VoprfClient and       *)
(* VoprfServer or with BlindRsaPublicKey and BlindRsaPrivateKey.  What servers *)
(* answer goes to a pool, from which any session may be given any answer of    *)
(* its scheme, also one made of parts of two answers or one with a number that *)
(* is not reduced.                                                            *)
(***************************************************************************)
EXTENDS Voprf, BlindRsa, FiniteSets

CONSTANTS
  Session,
  VOPRF, BLIND_RSA,
  Inputs(_, _),     (* the messages that a session may blind in a scheme      *)
  Key(_),           (* what servers of a scheme are given as private keys     *)
  ClientKey(_),     (* the one whose public key the clients know              *)
  Randomness,       (* what the random numbers are drawn from                 *)
  MaxAnswers        (* how many answers there are at a time: a bound          *)

ASSUME CryptoAssumption ==
  /\ VoprfAssumption
  /\ VOPRF # BLIND_RSA
  /\ Randomness \subseteq Scalar
  /\ Key(VOPRF) \subseteq Nat /\ ClientKey(VOPRF) \in Nat
  /\ private_key_from_bytes(ClientKey(VOPRF))
  /\ \A key \in Key(BLIND_RSA) \cup {ClientKey(BLIND_RSA)} :
       {key.n, key.e, key.d} \subseteq Nat /\ key.n > 1
  /\ KeyPair(ClientKey(BLIND_RSA))
  /\ \A s \in Session :
       /\ Inputs(s, VOPRF) \subseteq Field \X Field
       /\ \A msg \in Inputs(s, BLIND_RSA), salt \in Salt :
            Encoded(msg, salt) \in 0..(ClientKey(BLIND_RSA).n - 1)

VARIABLES
  session,          (* what a client keeps between blind and finalize         *)
  answers,          (* the evaluations and blind signatures under way         *)
  finalized         (* the last call of finalize: session and answer, whether *)
                    (* the secret was still there, and the output, if any     *)

vars == <<session, answers, finalized>>

Scheme == {VOPRF, BLIND_RSA}
Sessions(s, scheme) ==
  [scheme : {scheme}, stage : {"idle", "waiting", "failed"}, input : Inputs(s, scheme),
   secret : Nat, blinded : Nat]

Init ==
  /\ session \in [Session -> UNION {
       {[scheme |-> scheme, stage |-> "idle", input |-> input, secret |-> 0, blinded |-> 0] :
          input \in UNION {Inputs(s, scheme) : s \in Session}} : scheme \in Scheme}]
  /\ \A s \in Session : session[s].input \in Inputs(s, session[s].scheme)
  /\ answers = {}
  /\ finalized = {}

Blinded(s, r, salt) ==
  IF session[s].scheme = VOPRF THEN voprf_blind(session[s].input, r)
  ELSE rsa_blind(ClientKey(BLIND_RSA), session[s].input, r, salt)

(* VoprfClient::blind gives up when its random scalar is zero;                  *)
(* BlindRsaPublicKey::blind draws until its number has an inverse.             *)
Awaiting(call, results) ==
  LET data == CHOOSE d \in results : TRUE IN
  IF results = {} THEN [call EXCEPT !.stage = "failed"]
  ELSE [call EXCEPT !.stage = "waiting", !.secret = data.secret, !.blinded = data.blinded]

Blind(s, r, salt) ==
  LET results == Blinded(s, r, salt) IN
  /\ session[s].stage = "idle"
  /\ session[s].scheme = BLIND_RSA => results # {}
  /\ session' = [session EXCEPT ![s] = Awaiting(@, results)]
  /\ UNCHANGED <<answers, finalized>>

(* What a server with this key answers, drawing t for the proof.                *)
Answer(scheme, key, blinded, t) ==
  {[scheme |-> scheme, element |-> a.element, proof |-> a.proof] :
     a \in IF scheme = VOPRF THEN blind_evaluate(key, blinded, t)
           ELSE {[element |-> z, proof |-> <<>>] : z \in blind_sign(key, blinded)}}

Usable(scheme, key) == scheme = VOPRF => private_key_from_bytes(key)

(* A server evaluates a session's blinded message.  The proof's random scalar     *)
(* is not zero.                                                                *)
Evaluate(s, key, t) ==
  /\ session[s].stage = "waiting"
  /\ Usable(session[s].scheme, key)
  /\ t # 0
  /\ Cardinality(answers) < MaxAnswers
  /\ answers' = answers \cup Answer(session[s].scheme, key, session[s].blinded, t)
  /\ UNCHANGED <<session, finalized>>

(* The element of one answer with the proof of another.                         *)
Splice(a, b) ==
  /\ a.scheme = VOPRF /\ b.scheme = VOPRF
  /\ answers' = (answers \ {a}) \cup {[a EXCEPT !.proof = b.proof]}
  /\ UNCHANGED <<session, finalized>>

(* A number is replaced by a larger one of the same class.                      *)
Lift(a) ==
  /\ answers' = (answers \ {a}) \cup
       {IF a.scheme = VOPRF THEN [a EXCEPT !.proof[2] = (@ % Order) + Order]
        ELSE [a EXCEPT !.element = (@ % ClientKey(BLIND_RSA).n) + ClientKey(BLIND_RSA).n]}
  /\ UNCHANGED <<session, finalized>>

Finalized(s, a) ==
  IF a.scheme = VOPRF THEN voprf_finalize(session[s].input, session[s], a, ClientKey(VOPRF))
  ELSE rsa_finalize(ClientKey(BLIND_RSA), session[s].input, session[s], a.element)

(* VoprfClient::finalize leaves the client's data as they are;                  *)
(* BlindRsaPublicKey::finalize clears the inverse once it has used it.          *)
Finalize(s, a) ==
  /\ session[s].stage = "waiting"
  /\ session[s].scheme = a.scheme
  /\ session' = IF a.scheme = BLIND_RSA /\ unblinds(ClientKey(BLIND_RSA), session[s], a.element)
                THEN [session EXCEPT ![s].secret = Cleared]
                ELSE session
  /\ finalized' = {[session |-> s, answer |-> a, live |-> session[s].secret # Cleared,
                    output |-> Finalized(s, a)]}
  /\ UNCHANGED answers

Next ==
  \/ \E s \in Session :
       \/ \E r \in Randomness, salt \in Salt : Blind(s, r, salt)
       \/ \E key \in Key(session[s].scheme), t \in Randomness : Evaluate(s, key, t)
       \/ \E a \in answers : Finalize(s, a)
  \/ \E a, b \in answers : Splice(a, b)
  \/ \E a \in answers : Lift(a)

Spec == Init /\ [][Next]_vars

-----------------------------------------------------------------------------
(* Every number is reduced where it is made; only an answer's may be lifted.    *)
TypeOK ==
  /\ \A s \in Session :
       /\ session[s] \in Sessions(s, session[s].scheme)
       /\ session[s].scheme = VOPRF => session[s].secret \in Scalar /\ session[s].blinded \in Scalar
  /\ \A f \in finalized : f.session \in Session /\ f.output \subseteq Nat
  /\ \A a \in answers :
       /\ a.scheme \in Scheme /\ a.element \in Nat
       /\ a.scheme = VOPRF =>
            a.element \in Scalar /\ a.proof[1] \in Scalar /\ a.proof[2] \in 0..(2 * Order - 1)

(* What verifies at the issuer (VoprfServer::verify_finalize) or at an origin     *)
(* (BlindRsaPublicKey::verify).                                                *)
Verifies(s, output) ==
  LET key == ClientKey(session[s].scheme)
  IN IF session[s].scheme = VOPRF THEN verify_finalize(key, session[s].input, output)
     ELSE rsa_verify(key, session[s].input, output)

(* Whatever finalize returns, the issuer's side verifies: a client never holds   *)
(* a token that its issuer or the origins refuse.                               *)
FinalizedVerifies ==
  \A f \in finalized : \A output \in f.output : Verifies(f.session, output)

(* What the issuer that the client trusts answers to this very request.          *)
Own(s) ==
  UNION {Answer(session[s].scheme, ClientKey(session[s].scheme), session[s].blinded, t) :
           t \in Randomness \ {0}}

(* A session takes no answer but its issuer's to its own request, unaltered:     *)
(* neither another session's, nor another key's, nor one put together from two,   *)
(* nor one with a number that is not reduced.                                   *)
OnlyOwnAnswerAccepted ==
  \A f \in finalized : f.output # {} => f.answer \in Own(f.session)

(* Its issuer's answer is never refused, unless a Blind RSA session has used its  *)
(* inverse up on another answer before, and what it yields verifies.             *)
OwnAnswerFinalizes ==
  \A f \in finalized :
    f.live /\ f.answer \in Own(f.session) => \E output \in f.output : Verifies(f.session, output)

(* What the theorems about the two properties above take for granted, of the      *)
(* requests of a run.  None of it follows from the code: a hash might collide.     *)
PointsRequested ==
  {R \in {session[s].blinded : s \in {x \in Session : session[x].scheme = VOPRF
                                                      /\ session[x].stage = "waiting"}} :
     bytes_to_point(R)}

UsableKeys == {k \in Key(VOPRF) : private_key_from_bytes(k)}

(* A proof that a server made for one request is the right one for another        *)
(* statement only if both hash the same transcript; no composite vanishes.         *)
ProofsBind(requests) ==
  \A R, R1, R2 \in requests, k1, k2 \in UsableKeys, t \in Randomness \ {0} :
    LET Y == ClientKey(VOPRF)
        Z1 == (k1 * R1) % Order
        Z2 == (k2 * R2) % Order
        made == committed(k2, R2, Z2, t)
        checked == recomputed(Y, R, Z1, generate_dleq_proof(k2, R2, Z2, t))
    IN /\ compute_composite_scalar(Y, R, Z1) # 0
       /\ compute_dleq_challenge(checked) = compute_dleq_challenge(made) => checked = made

(* Two requests have two composites.                                            *)
CompositesApart(requests) ==
  LET composite(R) ==
        compute_composites(ClientKey(VOPRF), R, (ClientKey(VOPRF) * R) % Order).M
  IN \A R, S \in requests : composite(R) = composite(S) => R = S

(* The encoding of a call's message that a blind signature signs, if it signs one,    *)
(* is the one that the call has blinded.                                         *)
CallsWaiting ==
  {session[s] : s \in {x \in Session : session[x].scheme = BLIND_RSA
                                       /\ session[x].stage = "waiting"}}

SignaturesUnderWay == {a.element : a \in {b \in answers : b.scheme = BLIND_RSA}}

SignsWhatWasBlinded(calls, elements) ==
  LET key == ClientKey(BLIND_RSA) IN
  \A call \in calls, z \in elements, salt \in Salt :
    unblinds(key, call, z) =>
      LET opened == Power(signature(key, call, z), key.e, key.n)
      IN opened = Encoded(call.input, salt)
           => opened = (call.blinded * Power(call.secret, key.e, key.n)) % key.n

(* Every message hashes to a point: each of its field elements is mapped where    *)
(* the simplified SWU map of RFC 9380 puts it.  The first candidate is the x of    *)
(* x A (Z^2 u^4 + Z u^2) = -B (1 + Z^2 u^4 + Z u^2), or of x Z A = B where the     *)
(* factor vanishes; the second, taken when the first is on no point, is Z u^2      *)
(* times it; and y has the parity of u.                                        *)
MapFollowsDefinition ==
  \A s \in Session : session[s].scheme = VOPRF => \A i \in 1..2 :
    LET u == session[s].input[i]
        point == map_to_curve_sswu(u)
        zu2 == (Z * Square(u)) % Prime
        f == (Square(zu2) + zu2) % Prime
        first == CHOOSE x \in Field :
          IF f = 0 THEN (x * ((Z * CurveA) % Prime)) % Prime = CurveB
          ELSE (x * ((CurveA * f) % Prime) + CurveB * (1 + f)) % Prime = 0
        on_curve(x) == \E y \in Field : OnCurve(x, y)
    IN /\ point # NoPoint
       /\ point[1] = IF on_curve(first) THEN first ELSE (zu2 * first) % Prime
       /\ OnCurve(point[1], point[2])
       /\ point[2] % 2 = u % 2
=============================================================================
