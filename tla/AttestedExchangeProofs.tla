----------------------- MODULE AttestedExchangeProofs -----------------------
(***************************************************************************)
(* Proofs about AttestedExchange, for any number of exchanges and          *)
(* verifiers, any requests and responses, and every limit.                 *)
(***************************************************************************)
EXTENDS AttestedExchange, TLAPS

(* The session is the one of the exchange's own request. *)
SessionTrue ==
    \A e \in Exchange : \A state \in session[e] :
       state = RequestState(asked[e], TakeChallenge(asked[e].challenges))

(* A verification that got to the nonce cache holds of what it looked at. *)
Checked ==
    \A v \in Verifier : verify[v].pc \in {"verified", "accepted"} =>
       /\ verify[v].of \in Exchange /\ verify[v].for \in Exchange
       /\ \E response \in answer[verify[v].of] :
             Verifies(asked[verify[v].for], response)

(* Whoever accepted has used up the nonce, and nobody else accepted it. *)
SpentOnce ==
    \A v \in Verifier : verify[v].pc = "accepted" =>
       /\ <<PublicKey, verify[v].of>> \in consumed
       /\ \A w \in Verifier : verify[w].pc = "accepted" /\ w # v =>
             verify[w].of # verify[v].of

Inv == /\ TypeOK /\ FreshChallenges /\ SessionTrue /\ PassesThrough
       /\ AttestationsAreTrue /\ Checked /\ SpentOnce

-----------------------------------------------------------------------------
(* The helpers.                                                            *)

(* The assumptions on the constants, one by one. *)
LEMMA ConstantTypes ==
    /\ Asks \subseteq Ask /\ Replies \subseteq Reply
    /\ PublicKey # None /\ None \notin Exchange /\ None \notin Challenge
    /\ MaxJSONBytes \in Nat
  BY ExchangeAssumption DEF ExchangeAssumption

(* What readAndRestore leaves of a body is a body, with as many bytes and  *)
(* the same end (proxy.go:205-221).                                        *)
LEMMA Restored ==
    ASSUME NEW body \in Incoming
    PROVE  /\ ReadAndRestore(body).body \in Body
           /\ Transferred(ReadAndRestore(body).body) = Transferred(body)
  <1>1. body.got = 0 /\ body.rest \in Nat /\ body.fails \in {"no", "read", "close"}
    BY DEF Incoming
  <1>2. body = [got |-> body.got, rest |-> body.rest, fails |-> body.fails]
    BY DEF Incoming
  <1>3. MaxJSONBytes \in Nat
    BY ConstantTypes
  <1>4. Transferred(body) = [bytes |-> body.rest, broken |-> body.fails = "read"]
    BY <1>1 DEF Transferred
  <1>. DEFINE left == ReadAndRestore(body).body
  <1>5. CASE body.rest > MaxJSONBytes
    <2>1. left = [got |-> MaxJSONBytes + 1, rest |-> body.rest - (MaxJSONBytes + 1),
                  fails |-> body.fails]
      BY <1>2, <1>5 DEF ReadAndRestore
    <2>2. MaxJSONBytes + 1 \in Nat /\ body.rest - (MaxJSONBytes + 1) \in Nat
      BY <1>1, <1>3, <1>5
    <2>3. (MaxJSONBytes + 1) + (body.rest - (MaxJSONBytes + 1)) = body.rest
      BY <1>1, <1>3
    <2>4. left \in Body
      BY <1>1, <2>1, <2>2 DEF Body
    <2>5. left.got + left.rest = body.rest /\ left.fails = body.fails
      BY <2>1, <2>3
    <2>. QED
      BY <1>4, <2>4, <2>5 DEF Transferred
  <1>6. CASE ~(body.rest > MaxJSONBytes) /\ body.fails = "read"
    <2>1. left = [got |-> body.rest, rest |-> body.rest - body.rest,
                  fails |-> body.fails]
      BY <1>2, <1>6 DEF ReadAndRestore
    <2>2. body.rest - body.rest = 0 /\ body.rest + 0 = body.rest
      BY <1>1
    <2>3. left \in Body
      BY <1>1, <2>1, <2>2 DEF Body
    <2>4. left.got + left.rest = body.rest /\ left.fails = body.fails
      BY <2>1, <2>2
    <2>. QED
      BY <1>4, <2>3, <2>4 DEF Transferred
  <1>7. CASE ~(body.rest > MaxJSONBytes) /\ body.fails # "read"
    <2>1. left = [got |-> body.rest, rest |-> 0, fails |-> "no"]
      BY <1>7 DEF ReadAndRestore
    <2>2. left \in Body
      BY <1>1, <2>1 DEF Body
    <2>3. left.got + left.rest = body.rest /\ left.fails # "read"
      BY <1>1, <2>1
    <2>. QED
      BY <1>4, <1>7, <2>2, <2>3 DEF Transferred
  <1>. QED
    BY <1>5, <1>6, <1>7

(* A body nobody reads passes as it is. *)
LEMMA Unread ==
    ASSUME NEW body \in Incoming
    PROVE  body \in Body
  BY DEF Incoming, Body

(* The string taken out of the header is none or a well-formed one, and if *)
(* it is one, it was the only one (proxy.go:189-196).                      *)
LEMMA Taken ==
    ASSUME NEW values
    PROVE  /\ TakeChallenge(values) \in Challenge \cup {None}
           /\ TakeChallenge(values) # None =>
                 Len(values) = 1 /\ TakeChallenge(values) = values[1]
  BY DEF TakeChallenge
-----------------------------------------------------------------------------
(* What is signed.                                                         *)

(* The claims that may be made about exchange e, given its reply. *)
MayClaim(e, ask, reply) ==
    {TextClaims(PublicKey, e, Happened(ask, reply))}
    \cup IF ask.stream THEN {UpstreamClaims(PublicKey, e, Happened(ask, reply))}
                       ELSE {}

(* A complete set of headers over claims. *)
Complete(header, claims) ==
    \E signer \in {PublicKey, None} :
       header = [Headers(NoHeaders, claims, signer) EXCEPT !.proofRef = PublicKey]

Truthful(e, ask, response) ==
    response.header # NoHeaders =>
       /\ response.reply.verified
       /\ \E claims \in MayClaim(e, ask, response.reply) : Complete(response.header, claims)

(* Once there is a signature, the proof reference is added, and only then  *)
(* (proxy.go:149-154).                                                     *)
LEMMA ProofReference ==
    /\ WithProofReference(NoHeaders) = NoHeaders
    /\ \A claims : Complete(WithProofReference(Headers(NoHeaders, claims, Signer)), claims)
  <1>1. WithProofReference(NoHeaders) = NoHeaders
    BY DEF WithProofReference, NoHeaders
  <1>2. ASSUME NEW claims
        PROVE  Complete(WithProofReference(Headers(NoHeaders, claims, Signer)), claims)
    <2>1. Headers(NoHeaders, claims, Signer).signature
             = {[by |-> Signer, over |-> claims]}
      BY DEF Headers
    <2>2. WithProofReference(Headers(NoHeaders, claims, Signer))
             = [Headers(NoHeaders, claims, Signer) EXCEPT !.proofRef = PublicKey]
      BY <2>1 DEF WithProofReference
    <2>3. Signer \in {PublicKey, None}
      BY DEF Signer
    <2>. QED
      BY <2>2, <2>3 DEF Complete
  <1>. QED
    BY <1>1, <1>2

(* What the two callbacks observed of an exchange is what happened; the    *)
(* challenge is, if there is one.                                          *)
LEMMA Observed ==
    ASSUME NEW e, NEW ask, NEW reply, NEW state,
           state = RequestState(ask, TakeChallenge(ask.challenges))
    PROVE  /\ TextClaims(PublicKey, e, Observation(state, reply))
                 \in MayClaim(e, ask, reply)
           /\ state.challenge # None =>
                 UpstreamClaims(PublicKey, e, Observation(state, reply))
                    \in MayClaim(e, ask, reply)
  <1>1. TextClaims(PublicKey, e, Observation(state, reply))
           = TextClaims(PublicKey, e, Happened(ask, reply))
    BY DEF TextClaims, Observation, Happened, RequestState
  <1>2. ASSUME state.challenge # None
        PROVE  /\ ask.stream
               /\ UpstreamClaims(PublicKey, e, Observation(state, reply))
                     = UpstreamClaims(PublicKey, e, Happened(ask, reply))
    <2>1. ask.stream /\ state.challenge = TakeChallenge(ask.challenges)
      BY <1>2 DEF RequestState
    <2>2. Len(ask.challenges) = 1 /\ state.challenge = ask.challenges[1]
      BY <1>2, <2>1, Taken
    <2>3. Happened(ask, reply).challenge = state.challenge
      BY <2>2 DEF Happened
    <2>. QED
      BY <2>1, <2>3 DEF UpstreamClaims, Observation, Happened, RequestState
  <1>. QED
    BY <1>1, <1>2 DEF MayClaim

(* The response callback delivers upstream's reply, with a body that ends  *)
(* where upstream's did, and headers that are true or none                 *)
(* (proxy.go:106-156).                                                     *)
LEMMA AttestResult ==
    ASSUME NEW e, NEW ask, NEW reply \in Replies, reply.verified, NEW state,
           state = RequestState(ask, TakeChallenge(ask.challenges))
    PROVE  \A response : response = Attest(e, state, reply) =>
           /\ response = Response(reply, response.header, response.body)
           /\ response.body \in Body
           /\ Transferred(response.body) = Transferred(reply.body)
           /\ Truthful(e, ask, response)
  <1>. DEFINE observation == Observation(state, reply)
  <1>. SUFFICES ASSUME NEW response, response = Attest(e, state, reply)
                PROVE  /\ response = Response(reply, response.header, response.body)
                       /\ response.body \in Body
                       /\ Transferred(response.body) = Transferred(reply.body)
                       /\ Truthful(e, ask, response)
    OBVIOUS
  <1>1. reply.body \in Incoming
    BY ConstantTypes DEF Reply
  <1>2. response = Response(reply, response.header, response.body)
    BY DEF Attest, Response
  <1>3. response.body \in {ReadAndRestore(reply.body).body, reply.body}
    BY DEF Attest, Response
  <1>4. response.body \in Body /\ Transferred(response.body) = Transferred(reply.body)
    BY <1>1, <1>3, Restored, Unread
  <1>5. \/ response.header = NoHeaders
        \/ \E claims \in MayClaim(e, ask, reply) : Complete(response.header, claims)
    <2>. DEFINE text == TextClaims(PublicKey, e, observation)
    <2>. DEFINE upstream == UpstreamClaims(PublicKey, e, observation)
    <2>1. \/ response.header = WithProofReference(NoHeaders)
          \/ response.header = WithProofReference(Headers(NoHeaders, text, Signer))
          \/ /\ state.challenge # None
             /\ response.header = WithProofReference(Headers(NoHeaders, upstream, Signer))
      BY DEF Attest, Response, ClearAttestationHeaders, Sign, SignRequestUpstream
    <2>. QED
      BY <2>1, ProofReference, Observed
  <1>6. response.reply = reply
    BY <1>2 DEF Response
  <1>. QED
    BY <1>2, <1>4, <1>5, <1>6 DEF Truthful

(* AttestationsAreTrue says of each response that it is Truthful.          *)
LEMMA TrueMeans ==
    ASSUME NEW e \in Exchange
    PROVE  /\ \A response : answer[e] = {response} /\ response.reply.verified =>
                 TrueClaims(e) = MayClaim(e, asked[e], response.reply)
           /\ answer[e] = {} => TrueClaims(e) = {}
  BY DEF TrueClaims, MayClaim

LEMMA TrueMeansNext ==
    ASSUME NEW e \in Exchange
    PROVE  \A response : answer'[e] = {response} /\ response.reply.verified =>
              TrueClaims(e)' = MayClaim(e, asked'[e], response.reply)
  BY DEF TrueClaims, MayClaim

-----------------------------------------------------------------------------
(* The inductive invariant.                                                *)

LEMMA InitInv == Init => Inv
  <1>. SUFFICES ASSUME Init PROVE Inv
    OBVIOUS
  <1>1. TypeOK
    BY DEF Init, TypeOK, VerifyState
  <1>. QED
    BY <1>1 DEF Init, Inv, SessionTrue, PassesThrough, AttestationsAreTrue, Checked,
                SpentOnce

(* Steps of the customers, and of the process as a whole, leave the        *)
(* exchanges alone.                                                        *)
LEMMA ExchangesStay ==
    ASSUME Inv, UNCHANGED <<asked, session, forwarded, answer>>
    PROVE  FreshChallenges' /\ SessionTrue' /\ PassesThrough' /\ AttestationsAreTrue'
  <1>1. FreshChallenges'
    BY DEF Inv, FreshChallenges
  <1>2. SessionTrue'
    BY DEF Inv, SessionTrue
  <1>3. PassesThrough'
    BY DEF Inv, PassesThrough
  <1>4. AttestationsAreTrue'
    BY DEF Inv, AttestationsAreTrue, TrueClaims
  <1>. QED
    BY <1>1, <1>2, <1>3, <1>4

(* Steps of the proxy leave the customers alone: an answer never goes.     *)
LEMMA CustomersStay ==
    ASSUME Inv, UNCHANGED <<asked, verify, consumed>>,
           \A e \in Exchange : answer[e] \subseteq answer'[e]
    PROVE  Checked' /\ SpentOnce'
  <1>1. Checked'
    BY DEF Inv, Checked
  <1>2. SpentOnce'
    BY DEF Inv, SpentOnce
  <1>. QED
    BY <1>1, <1>2

LEMMA OnRequestInv ==
    ASSUME Inv, NEW e \in Exchange, OnRequest(e)
    PROVE  Inv'
  <1>. DEFINE ask == asked[e]
  <1>. DEFINE body == IF ask.path \in Ruled /\ ask.json
                      THEN ReadAndRestore(ask.body).body ELSE ask.body
  <1>. DEFINE new == RequestState(ask, TakeChallenge(ask.challenges))
  <1>1. ask \in Asks /\ ask.body \in Incoming
    BY ConstantTypes DEF Inv, TypeOK, Ask
  <1>2. body \in Body /\ Transferred(body) = Transferred(ask.body)
    BY <1>1, Restored, Unread
  <1>3. /\ forwarded' = [forwarded EXCEPT ![e] = {[challenges |-> <<>>, body |-> body]}]
        /\ session'[e] \subseteq {new}
        /\ session' = [session EXCEPT ![e] = session'[e]]
        /\ UNCHANGED <<asked, answer, lost, key, verify, consumed>>
    BY DEF OnRequest, Inv, TypeOK
  <1>4. new \in State
    BY <1>1, Taken DEF State
  <1>5. TypeOK'
    <2>1. forwarded' \in [Exchange -> SUBSET Forwarded]
      BY <1>2, <1>3 DEF Inv, TypeOK, Forwarded
    <2>2. session' \in [Exchange -> SUBSET State]
      BY <1>3, <1>4 DEF Inv, TypeOK
    <2>. QED
      BY <1>3, <2>1, <2>2 DEF Inv, TypeOK
  <1>6. FreshChallenges'
    BY <1>3 DEF Inv, FreshChallenges
  <1>7. SessionTrue'
    BY <1>3 DEF Inv, TypeOK, SessionTrue
  <1>8. PassesThrough'
    BY <1>2, <1>3 DEF Inv, TypeOK, PassesThrough
  <1>9. AttestationsAreTrue'
    BY <1>3 DEF Inv, AttestationsAreTrue, TrueClaims
  <1>10. Checked' /\ SpentOnce'
    BY <1>3, CustomersStay
  <1>. QED
    BY <1>5, <1>6, <1>7, <1>8, <1>9, <1>10 DEF Inv

LEMMA OnResponseInv ==
    ASSUME Inv, NEW e \in Exchange, OnResponse(e)
    PROVE  Inv'
  <1>. DEFINE Delivered(response) ==
           /\ answer' = [answer EXCEPT ![e] = {response}]
           /\ response = Response(response.reply, response.header, response.body)
           /\ response.reply \in Replies
           /\ response.body \in Body
           /\ Transferred(response.body) = Transferred(response.reply.body)
           /\ Truthful(e, asked[e], response)
  <1>1. PICK response : Delivered(response)
    <2>1. PICK reply \in Replies :
             \/ answer' = [answer EXCEPT ![e] =
                   {Response(reply, ClearAttestationHeaders(reply.headers), reply.body)}]
             \/ /\ reply.verified
                /\ \E state \in UserData(e) :
                      answer' = [answer EXCEPT ![e] = {Attest(e, state, reply)}]
      BY DEF OnResponse
    <2>2. reply.body \in Body
      BY ConstantTypes, Unread DEF Reply
    <2>3. CASE answer' = [answer EXCEPT ![e] =
                   {Response(reply, ClearAttestationHeaders(reply.headers), reply.body)}]
      <3>. DEFINE response == Response(reply, NoHeaders, reply.body)
      <3>1. /\ response.reply = reply /\ response.header = NoHeaders
            /\ response.body = reply.body
        BY DEF Response
      <3>2. Delivered(response)
        BY <2>2, <2>3, <3>1 DEF ClearAttestationHeaders, Truthful
      <3>. QED
        BY <3>2
    <2>4. ASSUME reply.verified, NEW state \in UserData(e),
                 answer' = [answer EXCEPT ![e] = {Attest(e, state, reply)}]
          PROVE  Delivered(Attest(e, state, reply))
      <3>1. state = RequestState(asked[e], TakeChallenge(asked[e].challenges))
        BY DEF Inv, SessionTrue, UserData
      <3>. DEFINE response == Attest(e, state, reply)
      <3>2. /\ response = Response(reply, response.header, response.body)
            /\ response.body \in Body
            /\ Transferred(response.body) = Transferred(reply.body)
            /\ Truthful(e, asked[e], response)
        BY <2>4, <3>1, AttestResult
      <3>3. response.reply = reply
        BY <3>2 DEF Response
      <3>. QED
        BY <2>4, <3>2, <3>3
    <2>. QED
      BY <2>1, <2>3, <2>4
  <1>2. /\ answer[e] = {}
        /\ UNCHANGED <<asked, session, forwarded, lost, key, verify, consumed>>
    BY DEF OnResponse
  <1>3. /\ answer'[e] = {response}
        /\ \A f \in Exchange \ {e} : answer'[f] = answer[f]
    BY <1>1 DEF Inv, TypeOK
  <1>4. TypeOK'
    BY <1>1, <1>2, <1>3 DEF Inv, TypeOK
  <1>5. FreshChallenges' /\ SessionTrue'
    BY <1>2 DEF Inv, FreshChallenges, SessionTrue
  <1>6. PassesThrough'
    BY <1>1, <1>2, <1>3 DEF Inv, PassesThrough
  <1>7. AttestationsAreTrue'
    <2>1. ASSUME NEW f \in Exchange \ {e}
          PROVE  TrueClaims(f)' = TrueClaims(f)
      BY <1>2, <1>3 DEF TrueClaims
    <2>2. Truthful(e, asked'[e], response)
      BY <1>1, <1>2
    <2>3. response.header # NoHeaders =>
             \E claims \in TrueClaims(e)' : Complete(response.header, claims)
      BY <1>3, <2>2, TrueMeansNext DEF Truthful
    <2>. QED
      BY <1>3, <2>1, <2>3 DEF Inv, AttestationsAreTrue, Complete
  <1>8. Checked' /\ SpentOnce'
    BY <1>2, <1>3, CustomersStay
  <1>. QED
    BY <1>4, <1>5, <1>6, <1>7, <1>8 DEF Inv

LEMMA OnNoResponseInv ==
    ASSUME Inv, NEW e \in Exchange, OnNoResponse(e)
    PROVE  Inv'
  <1>1. TypeOK'
    BY DEF OnNoResponse, Inv, TypeOK
  <1>. QED
    BY <1>1, ExchangesStay, CustomersStay DEF OnNoResponse, Inv

LEMMA KeyInv ==
    ASSUME Inv, Destroy \/ Exit
    PROVE  Inv'
  <1>1. TypeOK'
    BY DEF Destroy, Exit, Inv, TypeOK
  <1>. QED
    BY <1>1, ExchangesStay, CustomersStay DEF Destroy, Exit, Inv

(* What verifies carries the claims signed for its exchange: with the      *)
(* nonce of that exchange and, if the verification is of a stream, with    *)
(* the only challenge of its request.                                      *)
LEMMA VerifiedClaims ==
    ASSUME Inv, NEW of \in Exchange, NEW for \in Exchange, NEW response \in answer[of],
           Verifies(asked[for], response)
    PROVE  /\ \E claims \in MayClaim(of, asked[of], response.reply) :
                 /\ claims \in TrueClaims(of)
                 /\ Complete(response.header, claims)
           /\ NonceOf(response.header) = <<PublicKey, of>>
  <1>1. response.header.keyID = PublicKey
    BY DEF Verifies, verify_request_upstream, verify_response, NamesKey
  <1>2. response.header # NoHeaders
    BY <1>1, ConstantTypes DEF NoHeaders
  <1>3. answer[of] = {response} /\ response.header # NoHeaders
    BY <1>2 DEF Inv, TypeOK
  <1>4. PICK claims \in TrueClaims(of) : Complete(response.header, claims)
    BY <1>3 DEF Inv, AttestationsAreTrue, Complete
  <1>5. response.reply.verified
    BY <1>3, <1>4 DEF TrueClaims
  <1>6. claims \in MayClaim(of, asked[of], response.reply)
    BY <1>3, <1>4, <1>5, TrueMeans
  <1>7. claims.keyID = PublicKey /\ claims.nonce = of
    BY <1>6 DEF MayClaim, TextClaims, UpstreamClaims
  <1>8. response.header.keyID = claims.keyID /\ response.header.nonce = claims.nonce
    BY <1>4 DEF Complete, Headers
  <1>. QED
    BY <1>4, <1>6, <1>7, <1>8 DEF NonceOf

LEMMA CheckInv ==
    ASSUME Inv, NEW v \in Verifier, Check(v)
    PROVE  Inv'
  <1>1. PICK of \in Exchange, for \in Exchange, pc \in {"verified", "rejected"} :
           /\ pc = "verified" =>
                 \E response \in answer[of] : Verifies(asked[for], response)
           /\ verify' = [verify EXCEPT ![v] = [pc |-> pc, of |-> of, for |-> for]]
    BY DEF Check
  <1>2. UNCHANGED <<asked, session, forwarded, answer, lost, key, consumed>>
    BY DEF Check
  <1>3. /\ verify'[v] = [pc |-> pc, of |-> of, for |-> for]
        /\ \A w \in Verifier \ {v} : verify'[w] = verify[w]
    BY <1>1 DEF Inv, TypeOK
  <1>4. TypeOK'
    <2>1. [pc |-> pc, of |-> of, for |-> for] \in VerifyState
      BY DEF VerifyState
    <2>. QED
      BY <1>1, <1>2, <2>1 DEF Inv, TypeOK
  <1>5. Checked'
    BY <1>1, <1>2, <1>3 DEF Inv, Checked
  <1>6. SpentOnce'
    BY <1>2, <1>3 DEF Inv, SpentOnce
  <1>. QED
    BY <1>2, <1>4, <1>5, <1>6, ExchangesStay DEF Inv

(* The nonce that Consume and ConsumeFails insert.                         *)
LEMMA Inserted ==
    ASSUME Inv, NEW v \in Verifier, verify[v].pc = "verified"
    PROVE  /\ verify[v].of \in Exchange
           /\ \A response \in answer[verify[v].of] :
                 NonceOf(response.header) = <<PublicKey, verify[v].of>>
  <1>1. PICK response \in answer[verify[v].of] : Verifies(asked[verify[v].for], response)
    BY DEF Inv, Checked
  <1>2. verify[v].of \in Exchange /\ verify[v].for \in Exchange
    BY DEF Inv, Checked
  <1>3. answer[verify[v].of] = {response}
    BY <1>1, <1>2 DEF Inv, TypeOK
  <1>. QED
    BY <1>1, <1>2, <1>3, VerifiedClaims

LEMMA ConsumeInv ==
    ASSUME Inv, NEW v \in Verifier, Consume(v)
    PROVE  Inv'
  <1>. DEFINE nonce == <<PublicKey, verify[v].of>>
  <1>1. verify[v].pc = "verified" /\ verify[v].of \in Exchange
    BY Inserted DEF Consume
  <1>2. /\ consumed' = consumed \cup {nonce}
        /\ verify' = [verify EXCEPT ![v].pc =
                         IF nonce \in consumed THEN "replayed" ELSE "accepted"]
    BY Inserted DEF Consume
  <1>3. UNCHANGED <<asked, session, forwarded, answer, lost, key>>
    BY DEF Consume
  <1>4. /\ verify'[v].pc = IF nonce \in consumed THEN "replayed" ELSE "accepted"
        /\ verify'[v].of = verify[v].of /\ verify'[v].for = verify[v].for
        /\ \A w \in Verifier \ {v} : verify'[w] = verify[w]
    BY <1>2 DEF Inv, TypeOK, VerifyState
  <1>5. TypeOK'
    <2>1. verify' \in [Verifier -> VerifyState]
      BY <1>2 DEF Inv, TypeOK, VerifyState
    <2>2. consumed' \subseteq {PublicKey} \X Exchange
      BY <1>1, <1>2 DEF Inv, TypeOK
    <2>. QED
      BY <1>3, <2>1, <2>2 DEF Inv, TypeOK
  <1>6. Checked'
    BY <1>1, <1>3, <1>4 DEF Inv, Checked
  <1>7. SpentOnce'
    <2>1. ASSUME NEW w \in Verifier \ {v}, verify[w].pc = "accepted",
                 verify'[v].pc = "accepted"
          PROVE  verify[w].of # verify[v].of
      BY <1>4, <2>1 DEF Inv, SpentOnce
    <2>. QED
      BY <1>2, <1>4, <2>1 DEF Inv, SpentOnce
  <1>. QED
    BY <1>3, <1>5, <1>6, <1>7, ExchangesStay DEF Inv

LEMMA ConsumeFailsInv ==
    ASSUME Inv, NEW v \in Verifier, ConsumeFails(v)
    PROVE  Inv'
  <1>1. verify[v].of \in Exchange
    BY Inserted DEF ConsumeFails
  <1>2. /\ consumed' \in {consumed, consumed \cup {<<PublicKey, verify[v].of>>}}
        /\ verify' = [verify EXCEPT ![v].pc = "failed"]
        /\ UNCHANGED <<asked, session, forwarded, answer, lost, key>>
    BY Inserted DEF ConsumeFails
  <1>3. /\ verify'[v].pc = "failed"
        /\ \A w \in Verifier \ {v} : verify'[w] = verify[w]
    BY <1>2 DEF Inv, TypeOK, VerifyState
  <1>4. TypeOK'
    <2>1. verify' \in [Verifier -> VerifyState]
      BY <1>2 DEF Inv, TypeOK, VerifyState
    <2>2. consumed' \subseteq {PublicKey} \X Exchange
      BY <1>1, <1>2 DEF Inv, TypeOK
    <2>. QED
      BY <1>2, <2>1, <2>2 DEF Inv, TypeOK
  <1>5. Checked' /\ SpentOnce'
    BY <1>2, <1>3 DEF Inv, Checked, SpentOnce
  <1>. QED
    BY <1>2, <1>4, <1>5, ExchangesStay DEF Inv

LEMMA NextInv == Inv /\ [Next]_vars => Inv'
  <1>. SUFFICES ASSUME Inv, [Next]_vars PROVE Inv'
    OBVIOUS
  <1>1. ASSUME NEW e \in Exchange, OnRequest(e) PROVE Inv'
    BY <1>1, OnRequestInv
  <1>2. ASSUME NEW e \in Exchange, OnResponse(e) PROVE Inv'
    BY <1>2, OnResponseInv
  <1>3. ASSUME NEW e \in Exchange, OnNoResponse(e) PROVE Inv'
    BY <1>3, OnNoResponseInv
  <1>4. CASE Destroy \/ Exit
    BY <1>4, KeyInv
  <1>5. ASSUME NEW v \in Verifier, Check(v) PROVE Inv'
    BY <1>5, CheckInv
  <1>6. ASSUME NEW v \in Verifier, Consume(v) PROVE Inv'
    BY <1>6, ConsumeInv
  <1>7. ASSUME NEW v \in Verifier, ConsumeFails(v) PROVE Inv'
    BY <1>7, ConsumeFailsInv
  <1>8. CASE UNCHANGED vars
    <2>1. TypeOK'
      BY <1>8 DEF vars, Inv, TypeOK
    <2>. QED
      BY <1>8, <2>1, ExchangesStay, CustomersStay DEF vars, Inv
  <1>. QED
    BY <1>1, <1>2, <1>3, <1>4, <1>5, <1>6, <1>7, <1>8 DEF Next

LEMMA Invariant == Spec => []Inv
  BY InitInv, NextInv, PTL DEF Spec

-----------------------------------------------------------------------------
(* The theorems.                                                           *)

(* In every state reachable with any constants the variables have their    *)
(* types, with one session, request and answer per exchange at most        *)
(* (proxy.go:71-120), and no nonce in the cache but of an exchange of this *)
(* key.                                                                    *)
THEOREM TypeCorrect == Spec => []TypeOK
  BY Invariant, PTL DEF Inv

(* The proxy never shortens, lengthens or breaks off a body, whatever its  *)
(* length, the limit and the failures of the streams (proxy.go:205-221).   *)
THEOREM Transparent == Spec => []PassesThrough
  BY Invariant, PTL DEF Inv

(* Every attestation header that leaves the proxy is over what happened in *)
(* the exchange it is on, however the callbacks of others interleave       *)
(* (proxy.go:71-156).                                                      *)
THEOREM TrueAttestations == Spec => []AttestationsAreTrue
  BY Invariant, PTL DEF Inv

(* A verification that got past Check, and used up a nonce or may have.    *)
Used(v, nonce) ==
    /\ verify[v].pc \in {"accepted", "failed"} /\ verify[v].of \in Exchange
    /\ \E response \in answer[verify[v].of] :
          NonceOf(response.header) = nonce /\ Verifies(asked[verify[v].for], response)

(* What was used stays so, unless its verification takes another step.     *)
LEMMA UsedStays ==
    ASSUME NEW v, NEW nonce, Used(v, nonce), UNCHANGED asked, verify'[v] = verify[v],
           \A e \in Exchange : answer[e] \subseteq answer'[e]
    PROVE  Used(v, nonce)'
  BY DEF Used

(* A nonce is used up by a verification that succeeds, or one whose        *)
(* customer did not hear of it, and by no other (verify_response.py:342).  *)
THEOREM NothingUsedUp == Spec => []OnlyVerifiedConsumes
  <1>. DEFINE AllUsed == \A nonce \in consumed : \E v \in Verifier : Used(v, nonce)
  <1>1. Init => AllUsed
    BY DEF Init
  <1>2. Inv /\ AllUsed /\ [Next]_vars => AllUsed'
    <2>. SUFFICES ASSUME Inv, AllUsed, [Next]_vars PROVE AllUsed'
      OBVIOUS
    <2>1. ASSUME UNCHANGED <<asked, verify, consumed>>,
                 \A e \in Exchange : answer[e] \subseteq answer'[e]
          PROVE  AllUsed'
      BY <2>1, UsedStays
    <2>2. ASSUME NEW v \in Verifier, verify[v].pc \in {"idle", "verified"},
                 UNCHANGED <<asked, answer>>,
                 \A w \in Verifier \ {v} : verify'[w] = verify[w],
                 NEW nonce \in consumed
          PROVE  \E w \in Verifier : Used(w, nonce)'
      <3>1. PICK w \in Verifier : Used(w, nonce)
        OBVIOUS
      <3>2. w # v
        BY <2>2, <3>1 DEF Used
      <3>. QED
        BY <2>2, <3>1, <3>2, UsedStays
    <2>3. ASSUME NEW v \in Verifier, Check(v) PROVE AllUsed'
      <3>1. verify[v].pc = "idle" /\ UNCHANGED <<asked, answer, consumed>>
        BY <2>3 DEF Check
      <3>2. \A w \in Verifier \ {v} : verify'[w] = verify[w]
        BY <2>3 DEF Check, Inv, TypeOK
      <3>. QED
        BY <2>2, <3>1, <3>2
    <2>4. ASSUME NEW v \in Verifier, Consume(v) \/ ConsumeFails(v),
                 verify[v].pc = "verified", UNCHANGED <<asked, answer>>,
                 NEW nonce \in consumed' \ consumed
          PROVE  Used(v, nonce)'
      <3>1. /\ nonce = <<PublicKey, verify[v].of>>
            /\ verify'[v].pc \in {"accepted", "failed"}
            /\ verify'[v].of = verify[v].of /\ verify'[v].for = verify[v].for
        BY <2>4, Inserted DEF Consume, ConsumeFails, Inv, TypeOK, VerifyState
      <3>2. PICK response \in answer[verify[v].of] : Verifies(asked[verify[v].for], response)
        BY <2>4 DEF Inv, Checked
      <3>3. verify[v].of \in Exchange /\ NonceOf(response.header) = nonce
        BY <2>4, <3>1, <3>2, Inserted
      <3>4. verify'[v].of \in Exchange /\ response \in answer'[verify'[v].of]
        BY <2>4, <3>1, <3>2, <3>3
      <3>5. Verifies(asked'[verify'[v].for], response)
        BY <2>4, <3>1, <3>2
      <3>. QED
        BY <3>1, <3>3, <3>4, <3>5 DEF Used
    <2>5. ASSUME NEW v \in Verifier, Consume(v) \/ ConsumeFails(v) PROVE AllUsed'
      <3>1. /\ verify[v].pc = "verified" /\ UNCHANGED <<asked, answer>>
            /\ \A w \in Verifier \ {v} : verify'[w] = verify[w]
        BY <2>5 DEF Consume, ConsumeFails, Inv, TypeOK
      <3>. QED
        BY <2>2, <2>4, <2>5, <3>1
    <2>6. ASSUME NEW e \in Exchange, OnResponse(e) PROVE AllUsed'
      <3>1. \A f \in Exchange : answer[f] \subseteq answer'[f]
        BY <2>6 DEF OnResponse, Inv, TypeOK
      <3>. QED
        BY <2>1, <2>6, <3>1 DEF OnResponse
    <2>. QED
      BY <2>1, <2>3, <2>5, <2>6
      DEF Next, vars, OnRequest, OnNoResponse, Destroy, Exit
  <1>3. AllUsed => OnlyVerifiedConsumes
    BY DEF OnlyVerifiedConsumes, Used
  <1>. QED
    BY <1>1, <1>2, <1>3, Invariant, PTL DEF Spec

(* What AttestationsVerify asks of one response.                           *)
Verifiable(ask, response) ==
    (\E s \in response.header.signature : s.by = PublicKey) =>
       LET header == response.header
           o == Expected(ask, response)
           pinned == [o EXCEPT !.cert = response.reply.cert]
       IN \/ /\ \A p \in {o, pinned} : Verify(PublicKey, header, p)
             /\ verify_response(PublicKey, header, o)
          \/ /\ \A p \in {o, pinned} : VerifyRequestUpstream(PublicKey, header, p)
             /\ o.type = "text/event-stream" =>
                   verify_request_upstream(PublicKey, header, o)

(* Nobody has to verify what was not signed with the key.                  *)
LEMMA Unsigned ==
    ASSUME NEW ask, NEW response, \A s \in response.header.signature : s.by # PublicKey
    PROVE  Verifiable(ask, response)
  BY DEF Verifiable

(* The headers of each profile verify, as long as the text or the          *)
(* challenge they need is there.                                           *)
LEMMA SignedVerifies ==
    ASSUME NEW e, NEW ask, NEW reply, NEW state, NEW response,
           state = RequestState(ask, TakeChallenge(ask.challenges)),
           response.reply = reply
    PROVE  /\ /\ reply.text # None
              /\ response.header = WithProofReference(Headers(NoHeaders,
                    TextClaims(PublicKey, e, Observation(state, reply)), Signer))
              => Verifiable(ask, response)
           /\ /\ state.challenge \in Challenge
              /\ response.header = WithProofReference(Headers(NoHeaders,
                    UpstreamClaims(PublicKey, e, Observation(state, reply)), Signer))
              => Verifiable(ask, response)
  <1>. DEFINE o == Expected(ask, response)
  <1>. DEFINE pinned == [o EXCEPT !.cert = response.reply.cert]
  <1>. DEFINE seen == Observation(state, reply)
  <1>1. \A claims : WithProofReference(Headers(NoHeaders, claims, Signer))
           = [profile |-> claims.profile, keyID |-> claims.keyID, domain |-> claims.domain,
              path |-> claims.path, model |-> claims.request[1], cert |-> claims.cert,
              nonce |-> claims.nonce, fields |-> SignedFields(claims.profile),
              signature |-> {[by |-> Signer, over |-> claims]},
              challenge |-> claims.challenge, status |-> claims.status, type |-> claims.type,
              proofRef |-> PublicKey]
    BY DEF WithProofReference, Headers
  <1>2. /\ seen.domain = o.domain /\ seen.path = o.path /\ seen.model = o.model
        /\ seen.messages = o.messages /\ seen.text = o.text /\ seen.status = o.status
        /\ seen.type = o.type /\ seen.cert = reply.cert /\ o.cert = None
        /\ seen.text = reply.text /\ seen.challenge = state.challenge
    BY DEF Observation, Expected, RequestState
  <1>3. /\ pinned.domain = o.domain /\ pinned.path = o.path /\ pinned.model = o.model
        /\ pinned.messages = o.messages /\ pinned.text = o.text /\ pinned.status = o.status
        /\ pinned.type = o.type /\ pinned.cert = reply.cert /\ pinned.challenge = o.challenge
    BY DEF Expected
  <1>4. ASSUME NEW header, header.cert = reply.cert, NEW p \in {o, pinned}
        PROVE  WithCertOf(p, header) = pinned
    BY <1>4 DEF WithCertOf, Expected
  <1>5. ASSUME reply.text # None,
               response.header = WithProofReference(Headers(NoHeaders,
                    TextClaims(PublicKey, e, seen), Signer))
        PROVE  Verifiable(ask, response)
    <2>. DEFINE claims == TextClaims(PublicKey, e, seen)
    <2>. DEFINE header == response.header
    <2>0. header
             = [profile |-> claims.profile, keyID |-> claims.keyID, domain |-> claims.domain,
                path |-> claims.path, model |-> claims.request[1], cert |-> claims.cert,
                nonce |-> claims.nonce, fields |-> SignedFields(claims.profile),
                signature |-> {[by |-> Signer, over |-> claims]},
                challenge |-> claims.challenge, status |-> claims.status,
                type |-> claims.type, proofRef |-> PublicKey]
      BY <1>1, <1>5, Zenon
    <2>1. /\ header.profile = Conversation /\ header.keyID = PublicKey
          /\ header.domain = seen.domain /\ header.path = seen.path
          /\ header.model = seen.model /\ header.cert = reply.cert /\ header.nonce = e
          /\ header.fields = SignedFields(Conversation)
          /\ header.signature = {[by |-> Signer, over |-> claims]}
          /\ header.proofRef = PublicKey
      BY <1>2, <2>0 DEF TextClaims
    <2>2. TextClaims(PublicKey, e, pinned) = claims
      BY <1>2, <1>3 DEF TextClaims
    <2>3. CASE Signer # PublicKey
      BY <2>1, <2>3, Unsigned
    <2>. SUFFICES ASSUME Signer = PublicKey PROVE Verifiable(ask, response)
      BY <2>3
    <2>4. ASSUME NEW p \in {o, pinned} PROVE Verify(PublicKey, header, p)
      <3>. HIDE DEF o, pinned, seen
      <3>1. p.text # None
        BY <1>2, <1>3, <1>5
      <3>. AsObserved(header, Conversation, p)
        BY <1>2, <1>3, <2>1 DEF AsObserved
      <3>2. p.cert # None => header.cert = p.cert
        BY <1>2, <1>3, <2>1
      <3>3. WithCertOf(p, header) = pinned
        BY <1>4, <2>1
      <3>4. SignedBy(header, PublicKey, TextClaims(PublicKey, e, pinned))
        BY <2>1, <2>2 DEF SignedBy
      <3>. QED
        BY <2>1, <3>1, <3>2, <3>3, <3>4 DEF Verify
    <2>5. verify_response(PublicKey, header, o)
      BY <1>2, <1>4, <1>5, <2>1, <2>2 DEF verify_response, NamesKey, AsObserved, SignedBy
    <2>. QED
      BY <2>4, <2>5, Zenon DEF Verifiable
  <1>6. ASSUME state.challenge \in Challenge,
               response.header = WithProofReference(Headers(NoHeaders,
                    UpstreamClaims(PublicKey, e, seen), Signer))
        PROVE  Verifiable(ask, response)
    <2>. DEFINE claims == UpstreamClaims(PublicKey, e, seen)
    <2>. DEFINE header == response.header
    <2>0. header
             = [profile |-> claims.profile, keyID |-> claims.keyID, domain |-> claims.domain,
                path |-> claims.path, model |-> claims.request[1], cert |-> claims.cert,
                nonce |-> claims.nonce, fields |-> SignedFields(claims.profile),
                signature |-> {[by |-> Signer, over |-> claims]},
                challenge |-> claims.challenge, status |-> claims.status,
                type |-> claims.type, proofRef |-> PublicKey]
      BY <1>1, <1>6, Zenon
    <2>1. /\ header.profile = RequestUpstream /\ header.keyID = PublicKey
          /\ header.domain = seen.domain /\ header.path = seen.path
          /\ header.model = seen.model /\ header.cert = reply.cert /\ header.nonce = e
          /\ header.fields = SignedFields(RequestUpstream)
          /\ header.signature = {[by |-> Signer, over |-> claims]}
          /\ header.challenge = seen.challenge /\ header.status = seen.status
          /\ header.type = seen.type /\ header.proofRef = PublicKey
      BY <1>2, <2>0 DEF UpstreamClaims
    <2>2. o.challenge = state.challenge
      <3>1. state.challenge # None /\ state.challenge = TakeChallenge(ask.challenges)
        BY <1>6, ConstantTypes DEF RequestState
      <3>2. Len(ask.challenges) = 1 /\ state.challenge = ask.challenges[1]
        BY <3>1, Taken
      <3>3. ask.challenges # <<>>
        BY <3>2
      <3>. QED
        BY <3>2, <3>3 DEF Expected
    <2>3. UpstreamClaims(PublicKey, e, pinned) = claims
      BY <1>2, <1>3, <2>2 DEF UpstreamClaims
    <2>4. CASE Signer # PublicKey
      BY <2>1, <2>4, Unsigned
    <2>. SUFFICES ASSUME Signer = PublicKey PROVE Verifiable(ask, response)
      BY <2>4
    <2>5. ASSUME NEW p \in {o, pinned} PROVE VerifyRequestUpstream(PublicKey, header, p)
      <3>1. /\ p.challenge = state.challenge /\ p.status = seen.status /\ p.type = seen.type
            /\ AsObserved(header, RequestUpstream, p)
        BY <1>2, <1>3, <2>1, <2>2 DEF AsObserved
      <3>2. p.cert # None => header.cert = p.cert
        BY <1>2, <1>3, <2>1
      <3>3. SignedBy(header, PublicKey, UpstreamClaims(header.keyID, header.nonce, WithCertOf(p, header)))
        BY <1>4, <2>1, <2>3 DEF SignedBy
      <3>. QED
        BY <1>2, <1>6, <2>1, <3>1, <3>2, <3>3 DEF VerifyRequestUpstream
    <2>6. o.type = "text/event-stream" => verify_request_upstream(PublicKey, header, o)
      BY <1>2, <1>4, <1>6, <2>1, <2>2, <2>3
      DEF verify_request_upstream, NamesKey, AsObserved, SignedBy
    <2>. QED
      BY <2>5, <2>6, Zenon DEF Verifiable
  <1>. QED
    BY <1>5, <1>6

(* Whatever is signed with the key, the customer who made the request can  *)
(* verify with both implementations (attestation.go:387-545,               *)
(* verify_response.py:238-483).                                            *)
THEOREM SignedVerify == Spec => []AttestationsVerify
  <1>. DEFINE AllVerify == \A e \in Exchange : \A response \in answer[e] :
                              Verifiable(asked[e], response)
  <1>1. Init => AllVerify
    BY DEF Init
  <1>2. Inv /\ AllVerify /\ [Next]_vars => AllVerify'
    <2>. SUFFICES ASSUME Inv, AllVerify, [Next]_vars PROVE AllVerify'
      OBVIOUS
    <2>1. CASE UNCHANGED <<asked, answer>>
      BY <2>1
    <2>2. ASSUME NEW e \in Exchange, NEW response, asked' = asked,
                 answer' = [answer EXCEPT ![e] = {response}],
                 Verifiable(asked[e], response)
          PROVE  AllVerify'
      <3>1. \A f \in Exchange : answer'[f] = IF f = e THEN {response} ELSE answer[f]
        BY <2>2 DEF Inv, TypeOK
      <3>. QED
        BY <2>2, <3>1
    <2>3. ASSUME NEW reply, NEW ask, NEW body
          PROVE  Verifiable(ask, Response(reply, NoHeaders, body))
      BY DEF Verifiable, Response, NoHeaders
    <2>4. ASSUME NEW e \in Exchange, NEW state \in UserData(e), NEW reply
          PROVE  Verifiable(asked[e], Attest(e, state, reply))
      <3>. DEFINE response == Attest(e, state, reply)
      <3>. DEFINE text == TextClaims(PublicKey, e, Observation(state, reply))
      <3>. DEFINE upstream == UpstreamClaims(PublicKey, e, Observation(state, reply))
      <3>1. state = RequestState(asked[e], TakeChallenge(asked[e].challenges))
        BY DEF Inv, SessionTrue, UserData
      <3>2. response.reply = reply /\ response = Response(reply, response.header, response.body)
        BY DEF Attest, Response
      <3>3. \/ response.header = WithProofReference(NoHeaders)
            \/ /\ reply.text # None
               /\ response.header = WithProofReference(Headers(NoHeaders, text, Signer))
            \/ /\ state.challenge \in Challenge
               /\ response.header = WithProofReference(Headers(NoHeaders, upstream, Signer))
        BY DEF Attest, Response, ClearAttestationHeaders, Sign, SignRequestUpstream, Observation
      <3>4. CASE response.header = WithProofReference(NoHeaders)
        BY <2>3, <3>2, <3>4, ProofReference
      <3>. QED
        BY <3>1, <3>2, <3>3, <3>4, SignedVerifies
    <2>5. ASSUME NEW e \in Exchange, OnResponse(e) PROVE AllVerify'
      BY <2>2, <2>3, <2>4, <2>5 DEF OnResponse, ClearAttestationHeaders
    <2>6. \/ UNCHANGED <<asked, answer>>
          \/ \E e \in Exchange : OnResponse(e)
      BY DEF Next, vars, OnRequest, OnNoResponse, Destroy, Exit, Check, Consume, ConsumeFails
    <2>. QED
      BY <2>1, <2>5, <2>6
  <1>3. AllVerify => AttestationsVerify
    BY DEF AttestationsVerify, Verifiable
  <1>. QED
    BY <1>1, <1>2, <1>3, Invariant, PTL DEF Spec

(* However many customers verify however many responses, a customer that   *)
(* streams accepts the response to its own request only                    *)
(* (verify_response.py:357-483).                                           *)
THEOREM OwnStream == Spec => []StreamAnswersOwn
  <1>1. Inv => StreamAnswersOwn
    <2>. SUFFICES ASSUME Inv, NEW v \in Verifier, verify[v].pc = "accepted",
                         asked[verify[v].for].stream,
                         verify[v].of # verify[v].for
                  PROVE  FALSE
      BY DEF StreamAnswersOwn
    <2>. DEFINE of == verify[v].of
    <2>. DEFINE for == verify[v].for
    <2>1. of \in Exchange /\ for \in Exchange
      BY DEF Inv, Checked
    <2>2. PICK response \in answer[of] : Verifies(asked[for], response)
      BY DEF Inv, Checked
    <2>3. PICK claims \in MayClaim(of, asked[of], response.reply) :
             Complete(response.header, claims)
      BY <2>1, <2>2, VerifiedClaims
    <2>4. /\ response.header.challenge = Expected(asked[for], response).challenge
          /\ response.header.challenge \in Challenge
      BY <2>2 DEF Verifies, verify_request_upstream
    <2>5. claims.challenge = response.header.challenge
      BY <2>3 DEF Complete, Headers
    <2>6. claims.challenge # None
      BY <2>4, <2>5, ConstantTypes
    <2>7. claims.challenge = Happened(asked[of], response.reply).challenge
      BY <2>3, <2>6 DEF MayClaim, TextClaims, UpstreamClaims
    <2>8. /\ Len(asked[of].challenges) = 1
          /\ claims.challenge = asked[of].challenges[1]
      BY <2>6, <2>7 DEF Happened
    <2>9. /\ asked[for].challenges # <<>>
          /\ claims.challenge = asked[for].challenges[1]
      BY <2>4, <2>5, <2>6 DEF Expected
    <2>10. asked[of].challenges \in Seq(STRING) /\ asked[for].challenges \in Seq(STRING)
      BY <2>1, ConstantTypes DEF Inv, TypeOK, Ask
    <2>11. 1 \in DOMAIN asked[of].challenges /\ 1 \in DOMAIN asked[for].challenges
      BY <2>8, <2>9, <2>10
    <2>12. asked[of].challenges[1] # asked[for].challenges[1]
      BY <2>1, <2>11 DEF Inv, FreshChallenges
    <2>. QED
      BY <2>8, <2>9, <2>12
  <1>. QED
    BY <1>1, Invariant, PTL

-----------------------------------------------------------------------------
(* The abstract specification.                                             *)

Observations == UNION {TrueClaims(e) : e \in Exchange}
Beliefs == [v \in Verifier |-> Believed(v)]

(* Claims that became true stay true.                                      *)
LEMMA ObservationsGrow ==
    ASSUME Inv, asked' = asked, \A e \in Exchange : answer[e] \subseteq answer'[e]
    PROVE  Observations \subseteq Observations'
  <1>1. ASSUME NEW e \in Exchange
        PROVE  TrueClaims(e) \subseteq TrueClaims(e)'
    BY DEF TrueClaims
  <1>. QED
    BY <1>1 DEF Observations

(* What a verifier believes once response verifies as the one to ask.      *)
Claim(ask, response) ==
    LET header == response.header
        o == WithCertOf(Expected(ask, response), header)
    IN IF ask.stream THEN UpstreamClaims(header.keyID, header.nonce, o)
                     ELSE TextClaims(header.keyID, header.nonce, o)

(* It is the claim that the signature is over, and true.                   *)
LEMMA VerifiedIsTrue ==
    ASSUME Inv, NEW of \in Exchange, NEW for \in Exchange, NEW response \in answer[of],
           Verifies(asked[for], response)
    PROVE  /\ Claim(asked[for], response) \in Observations
           /\ NonceOf(Claim(asked[for], response)) = <<PublicKey, of>>
  <1>. DEFINE believed == Claim(asked[for], response)
  <1>1. PICK claims \in TrueClaims(of) : Complete(response.header, claims)
    BY VerifiedClaims
  <1>2. response.header.signature
           \in {{[by |-> signer, over |-> claims]} : signer \in {PublicKey, None}}
    BY <1>1 DEF Complete, Headers
  <1>3. [by |-> PublicKey, over |-> believed] \in response.header.signature
    BY DEF Verifies, verify_request_upstream, verify_response, SignedBy, Claim
  <1>4. believed = claims
    BY <1>2, <1>3
  <1>5. NonceOf(believed) = NonceOf(response.header)
    BY DEF NonceOf, Claim, UpstreamClaims, TextClaims
  <1>. QED
    BY <1>1, <1>4, <1>5, VerifiedClaims DEF Observations

(* Whoever has not accepted believes nothing; whoever has, one such claim. *)
LEMMA Belief ==
    ASSUME Inv, NEW v \in Verifier
    PROVE  /\ verify[v].pc # "accepted" => Believed(v) = {}
           /\ verify[v].pc = "accepted" =>
                 \A claims \in Believed(v) : NonceOf(claims) = <<PublicKey, verify[v].of>>
  <1>1. verify[v].pc # "accepted" => Believed(v) = {}
    BY DEF Believed
  <1>2. ASSUME verify[v].pc = "accepted", NEW claims \in Believed(v)
        PROVE  NonceOf(claims) = <<PublicKey, verify[v].of>>
    <2>1. verify[v].of \in Exchange /\ verify[v].for \in Exchange
      BY <1>2 DEF Inv, Checked
    <2>2. PICK response \in answer[verify[v].of] :
             Verifies(asked[verify[v].for], response)
      BY <1>2 DEF Inv, Checked
    <2>3. answer[verify[v].of] = {response}
      BY <2>1, <2>2 DEF Inv, TypeOK
    <2>4. claims = Claim(asked[verify[v].for], response)
      BY <1>2, <2>3 DEF Believed, Claim
    <2>. QED
      BY <2>1, <2>2, <2>4, VerifiedIsTrue
  <1>. QED
    BY <1>1, <1>2

(* Every step that no verification accepts in is an observation.           *)
LEMMA Observing ==
    ASSUME Inv, asked' = asked, \A e \in Exchange : answer[e] \subseteq answer'[e],
           \A v \in Verifier : Believed(v)' = Believed(v)
    PROVE  Promise!Observe
  <1>1. Observations \subseteq Observations'
    BY ObservationsGrow
  <1>. QED
    BY <1>1 DEF Promise!Observe, Observations

(* The step in which a verification accepts accepts a claim that was true  *)
(* before, with a nonce that no other accepted claim has.                  *)
LEMMA Accepting ==
    ASSUME Inv, NEW v \in Verifier, Consume(v), verify'[v].pc = "accepted"
    PROVE  Promise!Accept(v)
  <1>1. /\ verify[v].pc = "verified" /\ verify[v].of \in Exchange
        /\ <<PublicKey, verify[v].of>> \notin consumed
    <2>1. verify[v].pc = "verified" /\ verify[v].of \in Exchange
      BY Inserted DEF Consume
    <2>2. verify' = [verify EXCEPT ![v].pc =
                        IF <<PublicKey, verify[v].of>> \in consumed
                        THEN "replayed" ELSE "accepted"]
      BY <2>1, Inserted DEF Consume
    <2>3. verify'[v].pc = IF <<PublicKey, verify[v].of>> \in consumed
                          THEN "replayed" ELSE "accepted"
      BY <2>2 DEF Inv, TypeOK, VerifyState
    <2>. QED
      BY <2>1, <2>3
  <1>2. /\ UNCHANGED <<asked, answer>>
        /\ verify'[v].of = verify[v].of
        /\ \A w \in Verifier \ {v} : verify'[w] = verify[w]
    BY DEF Consume, Inv, TypeOK, VerifyState
  <1>3. Observations' = Observations
    BY <1>2 DEF Observations, TrueClaims
  <1>4. Believed(v) = {}
    BY <1>1, Belief
  <1>5. PICK claims \in Observations :
           /\ Believed(v)' = {claims}
           /\ NonceOf(claims) = <<PublicKey, verify[v].of>>
    <2>1. PICK response \in answer[verify[v].of] :
             Verifies(asked[verify[v].for], response)
      BY <1>1 DEF Inv, Checked
    <2>2. verify[v].for \in Exchange
      BY <1>1 DEF Inv, Checked
    <2>3. answer'[verify'[v].of] = {response} /\ verify'[v].for = verify[v].for
      BY <1>1, <1>2, <2>1 DEF Inv, TypeOK, Consume, VerifyState
    <2>4. Believed(v)' = {Claim(asked[verify[v].for], response)}
      BY <1>2, <2>3 DEF Believed, Claim
    <2>. QED
      BY <1>1, <2>1, <2>2, <2>4, VerifiedIsTrue
  <1>6. ASSUME NEW w \in Verifier, NEW other \in Believed(w)
        PROVE  NonceOf(other) # NonceOf(claims)
    <2>1. verify[w].pc = "accepted"
      BY Belief
    <2>2. NonceOf(other) = <<PublicKey, verify[w].of>>
      BY <2>1, Belief
    <2>3. <<PublicKey, verify[w].of>> \in consumed
      BY <2>1 DEF Inv, SpentOnce
    <2>. QED
      BY <1>1, <1>5, <2>2, <2>3
  <1>7. ASSUME NEW w \in Verifier \ {v}
        PROVE  Believed(w)' = Believed(w)
    BY <1>2 DEF Believed
  <1>8. Beliefs' = [Beliefs EXCEPT ![v] = {claims}]
    BY <1>5, <1>7 DEF Beliefs
  <1>. QED
    BY <1>3, <1>4, <1>5, <1>6, <1>8 DEF Promise!Accept, Observations, Beliefs

(* The proxy and the reference verifiers together keep the promise of      *)
(* Attested: whatever customers verify, and however a service mixes up the *)
(* responses, a claim that is accepted is true of an exchange that took    *)
(* place, and no nonce is accepted twice (proxy.go:71-156,                 *)
(* verify_response.py:194-483).                                            *)
THEOREM Implements == Spec => ImplementsAttested
  <1>1. Init => Promise!Init
    BY DEF Init, Promise!Init, TrueClaims, Believed
  <1>2. Inv /\ [Next]_vars => [Promise!Next]_<<Observations, Beliefs>>
    <2>. SUFFICES ASSUME Inv, [Next]_vars
                  PROVE  [Promise!Next]_<<Observations, Beliefs>>
      OBVIOUS
    <2>. DEFINE Quiet == /\ asked' = asked
                         /\ \A e \in Exchange : answer[e] \subseteq answer'[e]
                         /\ \A v \in Verifier : Believed(v)' = Believed(v)
    <2>1. ASSUME NEW e \in Exchange, OnResponse(e) PROVE Quiet
      <3>1. \A f \in Exchange : answer[f] \subseteq answer'[f]
        BY <2>1 DEF OnResponse, Inv, TypeOK
      <3>2. ASSUME NEW v \in Verifier, verify[v].pc = "accepted"
            PROVE  answer'[verify[v].of] = answer[verify[v].of]
        BY <2>1, <3>2 DEF OnResponse, Inv, TypeOK, Checked
      <3>. QED
        BY <2>1, <3>1, <3>2 DEF OnResponse, Believed
    <2>2. ASSUME UNCHANGED <<asked, answer, verify>> PROVE Quiet
      BY <2>2 DEF Believed
    <2>3. ASSUME NEW v \in Verifier, UNCHANGED <<asked, answer>>,
                 verify[v].pc # "accepted", verify'[v].pc # "accepted",
                 \A w \in Verifier \ {v} : verify'[w] = verify[w]
          PROVE  Quiet
      BY <2>3 DEF Believed
    <2>4. ASSUME NEW v \in Verifier, Check(v) \/ ConsumeFails(v) PROVE Quiet
      BY <2>3, <2>4 DEF Check, ConsumeFails, Inv, TypeOK, VerifyState
    <2>5. ASSUME NEW v \in Verifier, Consume(v) PROVE Quiet \/ Promise!Accept(v)
      <3>1. CASE verify'[v].pc = "accepted"
        BY <2>5, <3>1, Accepting
      <3>2. CASE verify'[v].pc # "accepted"
        BY <2>3, <2>5, <3>2 DEF Consume, Inv, TypeOK, VerifyState
      <3>. QED
        BY <3>1, <3>2
    <2>6. Quiet => Promise!Next
      BY Observing DEF Promise!Next
    <2>7. CASE UNCHANGED <<asked, answer, verify>>
      BY <2>2, <2>6, <2>7
    <2>8. \/ UNCHANGED <<asked, answer, verify>>
          \/ \E e \in Exchange : OnResponse(e)
          \/ \E v \in Verifier : Check(v) \/ Consume(v) \/ ConsumeFails(v)
      BY DEF Next, vars, OnRequest, OnNoResponse, Destroy, Exit
    <2>. QED
      BY <2>1, <2>4, <2>5, <2>6, <2>7, <2>8 DEF Promise!Next
  <1>. QED
    BY <1>1, <1>2, Invariant, PTL DEF Spec, ImplementsAttested, Promise!Spec,
       Observations, Beliefs

=============================================================================
