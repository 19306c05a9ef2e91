-------------------------- MODULE AttestedExchange --------------------------
(***************************************************************************)
(* One process of the proxy, the exchanges it forwards at the same time,   *)
(* and the customers that verify what came of them.                        *)
(*                                                                         *)
(* An exchange is a request and its response.  goproxy calls the request   *)
(* callback, forwards the request, and calls the response callback with    *)
(* the ctx of the same request; proxy.go keeps what it needs in between in *)
(* ctx.UserData (variable session).  Each callback touches nothing else    *)
(* that can change, except the private key, so it is one action.           *)
(*                                                                         *)
(* The customer's request passes through the service in front of the       *)
(* proxy, which may answer it with the response of another exchange (a     *)
(* retry, a cache), or give one response to several.                       *)
(***************************************************************************)
EXTENDS Attestation

CONSTANTS
    Exchange,       \* also the nonces: rand.Read never repeats one
    Verifier,       \* verifications by customers, all on one nonce cache
    Asks, Replies,  \* what requests and upstream responses may be
    Ruled,          \* the paths that a path rule matches
    MaxJSONBytes,   \* Config.MaxJSONBytes
    Foreign,        \* attestation headers of a proxy further up
    PublicKey       \* names the key: key ID, proof reference, public key

Streaming == {"text/event-stream", "application/vnd.amazon.eventstream"}
MediaType == Streaming \cup {"application/json", "other"}

(* A body as a stream: got has been read and is replayed, rest is still    *)
(* on the wire, and reading to the end, or closing, may fail.              *)
Body == [got : Nat, rest : Nat, fails : {"no", "read", "close"}]
Incoming == [got : {0}, rest : Nat, fails : {"no", "read", "close"}]

(* messages and text are what the extractor of the matched rule makes of   *)
(* the body, None if it refuses it.                                          *)
Ask == [domain : STRING, path : STRING, json : BOOLEAN, body : Incoming,
        model : STRING, messages : STRING, stream : BOOLEAN,
        challenges : Seq(STRING)]
Reply == [verified : BOOLEAN, cert : STRING, status : Nat, type : MediaType,
          body : Incoming, text : STRING, headers : Foreign \cup {NoHeaders}]

ASSUME ExchangeAssumption ==
    /\ Asks \subseteq Ask
    /\ Replies \subseteq Reply
    /\ PublicKey # None
    /\ None \notin Exchange \cup Challenge
    /\ MaxJSONBytes \in Nat \ {0}

VARIABLES
    asked,      \* asked[e]: the customer's request
    session,    \* session[e]: ctx.UserData, at most one requestState
    forwarded,  \* forwarded[e]: the request as the upstream got it, at most one
    answer,     \* answer[e]: the upstream's reply and the response delivered
    lost,       \* exchanges that got no response
    key,        \* the private key: "held", "cleared" or gone with the process
    verify,     \* verify[v]: a verification, of the response to exchange of
                \* taken for the response to exchange for
    consumed    \* table consumed_nonces

vars == <<asked, session, forwarded, answer, lost, key, verify, consumed>>

-----------------------------------------------------------------------------
(* The helpers of the callbacks.                                           *)

(* The challenge header is always removed; it counts if there is exactly   *)
(* one and it is well-formed.                                              *)
TakeChallenge(values) ==
    IF Len(values) = 1 /\ values[1] \in Challenge THEN values[1] ELSE None

(* Mutant: the reader stops at the limit, and a longer body looks complete. *)
ReadAndRestoreUpToLimit(body) ==
    LET taken == IF body.rest > MaxJSONBytes THEN MaxJSONBytes ELSE body.rest IN
    [complete |-> body.fails = "no",
     body |-> [got |-> taken, rest |-> 0,
               fails |-> IF body.fails = "read" THEN "read" ELSE "no"]]

(* One byte more than the limit is read, to tell a body that is too long.  *)
(* What was read is replayed in front of what was not.                     *)
ReadAndRestore(body) ==
    LET tooLong == body.rest > MaxJSONBytes
        taken == IF tooLong THEN MaxJSONBytes + 1 ELSE body.rest
    IN IF tooLong \/ body.fails = "read"
       THEN [complete |-> FALSE,
             body |-> [body EXCEPT !.got = taken, !.rest = body.rest - taken]]
       ELSE [complete |-> body.fails = "no",
             body |-> [got |-> taken, rest |-> 0, fails |-> "no"]]

(* Mutant: the list of headers to remove lacks the two that only the       *)
(* request-upstream profile has.                                           *)
ClearAttestationHeadersIncomplete(header) ==
    [NoHeaders EXCEPT !.status = header.status, !.type = header.type]

ClearAttestationHeaders(header) == NoHeaders

(* Mutant: one field of the proxy instead of one per ctx. *)
UserDataShared(e) == UNION {session[f] : f \in Exchange}

UserData(e) == session[e]

Observation(state, reply) ==
    [domain |-> state.domain, cert |-> reply.cert, path |-> state.path,
     model |-> state.model, messages |-> state.messages, text |-> reply.text,
     challenge |-> state.challenge, status |-> reply.status, type |-> reply.type]

Signer == IF key = "held" THEN PublicKey ELSE None

WithProofReference(header) ==
    IF header.signature = {} THEN header ELSE [header EXCEPT !.proofRef = PublicKey]

-----------------------------------------------------------------------------
(* The callbacks.                                                          *)

(* Customers make a new challenge for every request. *)
FreshChallenges ==
    \A e, f \in Exchange : e # f =>
       \A i \in DOMAIN asked[e].challenges : \A j \in DOMAIN asked[f].challenges :
          asked[e].challenges[i] # asked[f].challenges[j]

Init ==
    /\ asked \in [Exchange -> Asks]
    /\ FreshChallenges
    /\ session = [e \in Exchange |-> {}]
    /\ forwarded = [e \in Exchange |-> {}]
    /\ answer = [e \in Exchange |-> {}]
    /\ lost = {}
    /\ key = "held"
    /\ verify = [v \in Verifier |-> [pc |-> "idle", of |-> None, for |-> None]]
    /\ consumed = {}

RequestState(ask, challenge) ==
    [domain |-> ask.domain, path |-> ask.path, model |-> ask.model,
     messages |-> ask.messages, challenge |-> IF ask.stream THEN challenge ELSE None]

OnRequest(e) ==
    /\ forwarded[e] = {} /\ key # "gone"
    /\ LET ask == asked[e]
           read == ReadAndRestore(ask.body)
           inspected == ask.path \in Ruled /\ ask.json
           extracted == /\ inspected /\ read.complete
                        /\ ask.model # None /\ ask.messages # None
       IN /\ forwarded' = [forwarded EXCEPT ![e] =
                {[challenges |-> <<>>,
                  body |-> IF inspected THEN read.body ELSE ask.body]}]
          /\ session' = [session EXCEPT ![e] =
                IF extracted THEN {RequestState(ask, TakeChallenge(ask.challenges))}
                             ELSE {}]
    /\ UNCHANGED <<asked, answer, lost, key, verify, consumed>>

Response(reply, header, body) == [reply |-> reply, header |-> header, body |-> body]

(* What is delivered when there is a session and upstream's TLS verified. *)
Attest(e, state, reply) ==
    LET cleared == ClearAttestationHeaders(reply.headers)
        observation == Observation(state, reply)
        read == IF reply.type = "application/json"
                THEN ReadAndRestore(reply.body)
                ELSE [complete |-> FALSE, body |-> reply.body]
        header == IF reply.type \in Streaming /\ state.challenge # None
                  THEN SignRequestUpstream(cleared, PublicKey, Signer, e, observation)
                  ELSE IF read.complete /\ reply.text # None
                  THEN Sign(cleared, PublicKey, Signer, e, observation)
                  ELSE cleared
    IN Response(reply, WithProofReference(header), read.body)

OnResponse(e) ==
    /\ forwarded[e] # {} /\ answer[e] = {} /\ e \notin lost /\ key # "gone"
    /\ \E reply \in Replies :
          \/ /\ UserData(e) = {} \/ ~reply.verified
             /\ answer' = [answer EXCEPT ![e] =
                   {Response(reply, ClearAttestationHeaders(reply.headers), reply.body)}]
          \/ /\ reply.verified
             /\ \E state \in UserData(e) :
                   answer' = [answer EXCEPT ![e] = {Attest(e, state, reply)}]
    /\ UNCHANGED <<asked, session, forwarded, lost, key, verify, consumed>>

(* The upstream cannot be reached: the callback is given no response. *)
OnNoResponse(e) ==
    /\ forwarded[e] # {} /\ answer[e] = {} /\ e \notin lost /\ key # "gone"
    /\ lost' = lost \cup {e}
    /\ UNCHANGED <<asked, session, forwarded, answer, key, verify, consumed>>

(* main returns: Shutdown does not wait for the hijacked connections of    *)
(* exchanges, so callbacks may still run between Destroy and the exit.     *)
Destroy ==
    /\ key = "held"
    /\ key' = "cleared"
    /\ UNCHANGED <<asked, session, forwarded, answer, lost, verify, consumed>>

Exit ==
    /\ key # "gone"
    /\ key' = "gone"
    /\ UNCHANGED <<asked, session, forwarded, answer, lost, verify, consumed>>

-----------------------------------------------------------------------------
(* The customers: docs/verify_response.py.                                 *)

Expected(ask, response) ==
    [domain |-> ask.domain, cert |-> None, path |-> ask.path, model |-> ask.model,
     messages |-> ask.messages, text |-> response.reply.text,
     challenge |-> IF ask.challenges = <<>> THEN None ELSE ask.challenges[1],
     status |-> response.reply.status, type |-> response.reply.type]

Verifies(ask, response) ==
    IF ask.stream
    THEN verify_request_upstream(PublicKey, response.header, Expected(ask, response))
    ELSE verify_response(PublicKey, response.header, Expected(ask, response))

NonceOf(header) == <<header.keyID, header.nonce>>

(* Mutant: the nonce is written to the cache before the signature is checked. *)
CheckConsumes(v) ==
    /\ verify[v].pc = "idle"
    /\ \E of, for \in Exchange : \E response \in answer[of] :
          /\ forwarded[for] # {}
          /\ response.header.nonce # None
          /\ consumed' = consumed \cup {NonceOf(response.header)}
          /\ verify' = [verify EXCEPT ![v] =
                [pc |-> IF NonceOf(response.header) \in consumed THEN "replayed"
                        ELSE IF Verifies(asked[for], response) THEN "accepted"
                        ELSE "rejected", of |-> of, for |-> for]]
    /\ UNCHANGED <<asked, session, forwarded, answer, lost, key>>

(* All the checks up to the signature.  A timestamp outside the window is  *)
(* one more reason to reject, at any time.                                 *)
Check(v) ==
    /\ verify[v].pc = "idle"
    /\ \E of, for \in Exchange : \E response \in answer[of] :
          /\ forwarded[for] # {}
          /\ \E pc \in {"verified", "rejected"} :
                /\ pc = "verified" => Verifies(asked[for], response)
                /\ verify' = [verify EXCEPT ![v] = [pc |-> pc, of |-> of, for |-> for]]
    /\ UNCHANGED <<asked, session, forwarded, answer, lost, key, consumed>>

(* consume_nonce: INSERT under the primary key (key_id, nonce). *)
Consume(v) ==
    /\ verify[v].pc = "verified"
    /\ \E response \in answer[verify[v].of] :
          LET nonce == NonceOf(response.header) IN
          /\ consumed' = consumed \cup {nonce}
          /\ verify' = [verify EXCEPT ![v].pc =
                           IF nonce \in consumed THEN "replayed" ELSE "accepted"]
    /\ UNCHANGED <<asked, session, forwarded, answer, lost, key>>

(* The cache cannot be updated, or it was but the verifier did not hear. *)
ConsumeFails(v) ==
    /\ verify[v].pc = "verified"
    /\ \E response \in answer[verify[v].of] :
          consumed' \in {consumed, consumed \cup {NonceOf(response.header)}}
    /\ verify' = [verify EXCEPT ![v].pc = "failed"]
    /\ UNCHANGED <<asked, session, forwarded, answer, lost, key>>

Next ==
    \/ \E e \in Exchange : OnRequest(e) \/ OnResponse(e) \/ OnNoResponse(e)
    \/ Destroy \/ Exit
    \/ \E v \in Verifier : Check(v) \/ Consume(v) \/ ConsumeFails(v)

Spec == Init /\ [][Next]_vars

-----------------------------------------------------------------------------
(* Properties.                                                             *)

State == {RequestState(ask, c) : ask \in Asks, c \in Challenge \cup {None}}
Forwarded == [challenges : {<<>>}, body : Body]
VerifyState == [pc : {"idle", "verified", "rejected", "replayed", "accepted", "failed"},
                of : Exchange \cup {None}, for : Exchange \cup {None}]

(* The variables have their types; at most one session, request and answer *)
(* per exchange.                                                           *)
TypeOK ==
    /\ asked \in [Exchange -> Asks]
    /\ session \in [Exchange -> SUBSET State]
    /\ forwarded \in [Exchange -> SUBSET Forwarded]
    /\ DOMAIN answer = Exchange
    /\ \A e \in Exchange : \A response \in answer[e] :
          /\ answer[e] = {response}
          /\ response = Response(response.reply, response.header, response.body)
          /\ response.reply \in Replies
          /\ response.body \in Body
    /\ lost \subseteq Exchange
    /\ key \in {"held", "cleared", "gone"}
    /\ verify \in [Verifier -> VerifyState]
    /\ consumed \subseteq {PublicKey} \X Exchange

Transferred(body) ==
    [bytes |-> body.got + body.rest, broken |-> body.fails = "read"]

(* The proxy is transparent: requests and responses pass with every byte   *)
(* of their bodies and end, or break off, where they did, however long     *)
(* they are and whether they were inspected or not; only the challenge of  *)
(* the request is taken out (proxy.go:189-221).                            *)
PassesThrough ==
    \A e \in Exchange :
       /\ \A f \in forwarded[e] : /\ Transferred(f.body) = Transferred(asked[e].body)
                                  /\ f.challenges = <<>>
       /\ \A response \in answer[e] :
             Transferred(response.body) = Transferred(response.reply.body)

(* What really happened in exchange e, if upstream's TLS verified: the     *)
(* claims that may be made about it.                                       *)
Happened(ask, reply) ==
    [domain |-> ask.domain, cert |-> reply.cert, path |-> ask.path,
     model |-> ask.model, messages |-> ask.messages, text |-> reply.text,
     challenge |-> IF Len(ask.challenges) = 1 THEN ask.challenges[1] ELSE None,
     status |-> reply.status, type |-> reply.type]

TrueClaims(e) ==
    LET replies == {response.reply : response \in answer[e]}
        happened == {Happened(asked[e], reply) :
                        reply \in {r \in replies : r.verified}}
    IN {TextClaims(PublicKey, e, o) : o \in happened}
       \cup {UpstreamClaims(PublicKey, e, o) : o \in
                {h \in happened : asked[e].stream}}

(* An attestation header on a response is one of a complete set, set for   *)
(* this very exchange and over what happened in it; nothing of another     *)
(* exchange, of upstream's own headers or of a signature that failed is    *)
(* left on it (proxy.go:106-156).                                          *)
AttestationsAreTrue ==
    \A e \in Exchange : \A response \in answer[e] :
       response.header # NoHeaders =>
          \E claims \in TrueClaims(e), signer \in {PublicKey, None} :
             response.header = [Headers(NoHeaders, claims, signer)
                                   EXCEPT !.proofRef = PublicKey]

(* What the proxy signs with its key, both implementations of the          *)
(* verifiers accept from the customer who made the request, the Go one     *)
(* whether it knows the certificate or not (attestation.go:387-545,        *)
(* verify_response.py:238-483).                                            *)
AttestationsVerify ==
    \A e \in Exchange : \A response \in answer[e] :
       (\E s \in response.header.signature : s.by = PublicKey) =>
          LET header == response.header
              o == Expected(asked[e], response)
              pinned == [o EXCEPT !.cert = response.reply.cert]
          IN \/ /\ \A p \in {o, pinned} : Verify(PublicKey, header, p)
                /\ verify_response(PublicKey, header, o)
             \/ /\ \A p \in {o, pinned} : VerifyRequestUpstream(PublicKey, header, p)
                /\ o.type = "text/event-stream" =>
                      verify_request_upstream(PublicKey, header, o)

(* A customer that streams and made a new challenge accepts the headers of *)
(* its own exchange and no other, even for equal requests                  *)
(* (customer-verification-guide.md section 5.5).                           *)
StreamAnswersOwn ==
    \A v \in Verifier :
       verify[v].pc = "accepted" /\ asked[verify[v].for].stream =>
          verify[v].of = verify[v].for

(* A nonce is used up by a verification that succeeds and by no other, so  *)
(* a response offered for the wrong request can still be accepted for the  *)
(* right one (verify_response.py:342-352).                                 *)
OnlyVerifiedConsumes ==
    \A nonce \in consumed : \E v \in Verifier :
       /\ verify[v].pc \in {"accepted", "failed"}
       /\ \E response \in answer[verify[v].of] :
             /\ NonceOf(response.header) = nonce
             /\ Verifies(asked[verify[v].for], response)

(* What verifier v believes once it accepted: the claims with its own      *)
(* request and the response it has in hand.                                *)
Believed(v) ==
    {LET ask == asked[verify[v].for]
         header == response.header
         o == WithCertOf(Expected(ask, response), header)
     IN IF ask.stream THEN UpstreamClaims(header.keyID, header.nonce, o)
                      ELSE TextClaims(header.keyID, header.nonce, o) :
        response \in IF verify[v].pc = "accepted" THEN answer[verify[v].of] ELSE {}}

(* A customer believes only what happened, and for each nonce once.        *)
Promise == INSTANCE Attested WITH
    NonceOf <- NonceOf,
    observed <- UNION {TrueClaims(e) : e \in Exchange},
    accepted <- [v \in Verifier |-> Believed(v)]
ImplementsAttested == Promise!Spec

=============================================================================
