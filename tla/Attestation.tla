---------------------------- MODULE Attestation ----------------------------
(***************************************************************************)
(* The attestation headers: what Signer.Sign and SignRequestUpstream put   *)
(* on a response (internal/attestation/attestation.go) and what the Go and *)
(* Python verifiers make of them.                                          *)
(*                                                                         *)
(* A header that is absent holds the value that Get returns for it.  The   *)
(* canonical encoding of the claims is injective, so a signature is the    *)
(* claims it is over and the key that made it.  A domain stands for all    *)
(* its spellings in upper and lower case.  The extractors always produce   *)
(* the request fields model and messages and the response field messages;  *)
(* the signed-fields header therefore follows from the profile.            *)
(***************************************************************************)
EXTENDS Integers, Sequences

CONSTANTS Challenge,    \* the strings ValidateChallenge accepts
          Unsafe        \* paths and models that may not stand in a header

None == "none"                                        \* the empty string

Conversation == "llm-conversation-text-v1"            \* Profile
RequestUpstream == "llm-request-upstream-v1"          \* RequestUpstreamProfile

NoHeaders == [profile |-> None, keyID |-> None, domain |-> None, path |-> None,
              model |-> None, cert |-> None, nonce |-> None, fields |-> <<>>,
              signature |-> {}, challenge |-> None, status |-> 0, type |-> None,
              proofRef |-> None]

(* What each profile signs of an observation: a RequestUpstreamObservation *)
(* with the text of the response, of which Sign is given a part.           *)
TextClaims(keyID, nonce, o) ==
    [profile |-> Conversation, keyID |-> keyID, nonce |-> nonce, cert |-> o.cert,
     domain |-> o.domain, path |-> o.path,
     request |-> <<o.model, o.messages>>, response |-> <<o.text>>,
     challenge |-> None, status |-> 0, type |-> None]

UpstreamClaims(keyID, nonce, o) ==
    [profile |-> RequestUpstream, keyID |-> keyID, nonce |-> nonce, cert |-> o.cert,
     domain |-> o.domain, path |-> o.path,
     request |-> <<o.model, o.messages, "stream">>, response |-> <<>>,
     challenge |-> o.challenge, status |-> o.status, type |-> o.type]

SignedFields(profile) ==
    <<"tls_certificate_sha256", "domain", "request.path",
      "request.body.model", "request.body.messages">>
    \o IF profile = Conversation
       THEN <<"response.body.messages">>
       ELSE <<"request.body.stream", "response.status", "response.content_type",
              "challenge">>

(* The headers set once the claims are signed; from claims to headers      *)
(* nothing is lost but the request and the response themselves.  The proof *)
(* reference is the caller's.                                              *)
Headers(header, claims, signer) ==
    [profile |-> claims.profile, keyID |-> claims.keyID, domain |-> claims.domain,
     path |-> claims.path, model |-> claims.request[1], cert |-> claims.cert,
     nonce |-> claims.nonce, fields |-> SignedFields(claims.profile),
     signature |-> {[by |-> signer, over |-> claims]},
     challenge |-> claims.challenge, status |-> claims.status, type |-> claims.type,
     proofRef |-> header.proofRef]

(* signer is keyID as long as the private key is the one keyID names.  On  *)
(* an error the header is left as it was.                                  *)
Sign(header, keyID, signer, nonce, o) ==
    IF {o.path, o.model} \cap Unsafe # {}
    THEN header
    ELSE Headers(header, TextClaims(keyID, nonce, o), signer)

SignRequestUpstream(header, keyID, signer, nonce, o) ==
    IF \/ o.challenge \notin Challenge
       \/ o.status \notin 100..599
       \/ {o.path, o.model} \cap Unsafe # {}
    THEN header
    ELSE Headers(header, UpstreamClaims(keyID, nonce, o), signer)

-----------------------------------------------------------------------------
(* Verification, with the key publicKey, of the header of a response that  *)
(* the verifier expects to be o.  The check of the timestamp is not here:  *)
(* see Verifies in AttestedExchange.                                       *)

(* Mutant: the signature is checked, but not over the verifier's own view. *)
SignedAnything(header, publicKey, claims) ==
    \E s \in header.signature : s.by = publicKey

SignedBy(header, publicKey, claims) ==
    [by |-> publicKey, over |-> claims] \in header.signature

AsObserved(header, profile, o) ==
    /\ header.profile = profile
    /\ header.fields = SignedFields(profile)
    /\ header.domain = o.domain
    /\ header.path = o.path
    /\ header.model = o.model

(* Mutant: only a certificate the verifier knows is put in the claims. *)
WithCertKnown(o, header) == o

WithCertOf(o, header) == [o EXCEPT !.cert = header.cert]

(* The Go verifiers compare the certificate if the caller knows it. *)
Verify(publicKey, header, o) ==
    /\ o.text # None
    /\ AsObserved(header, Conversation, o)
    /\ o.cert # None => header.cert = o.cert
    /\ SignedBy(header, publicKey,
                TextClaims(header.keyID, header.nonce, WithCertOf(o, header)))

VerifyRequestUpstream(publicKey, header, o) ==
    /\ o.challenge \in Challenge
    /\ AsObserved(header, RequestUpstream, o)
    /\ o.cert # None => header.cert = o.cert
    /\ header.challenge = o.challenge
    /\ header.status = o.status
    /\ header.type = o.type
    /\ SignedBy(header, publicKey,
                UpstreamClaims(header.keyID, header.nonce, WithCertOf(o, header)))

(* The Python verifiers have no certificate to compare, but require the    *)
(* key ID and the proof reference that belong to the key.                  *)
NamesKey(header, publicKey) ==
    header.keyID = publicKey /\ header.proofRef = publicKey

verify_response(publicKey, header, o) ==
    /\ NamesKey(header, publicKey)
    /\ AsObserved(header, Conversation, o)
    /\ o.text # None
    /\ SignedBy(header, publicKey,
                TextClaims(header.keyID, header.nonce, WithCertOf(o, header)))

(* Mutant: the challenge is the one in the header. *)
verify_request_upstreamEcho(publicKey, header, o) ==
    /\ o.type = "text/event-stream"
    /\ NamesKey(header, publicKey)
    /\ AsObserved(header, RequestUpstream, o)
    /\ header.status = o.status
    /\ header.type = o.type
    /\ SignedBy(header, publicKey,
                UpstreamClaims(header.keyID, header.nonce,
                    [o EXCEPT !.cert = header.cert, !.challenge = header.challenge]))

(* run_streaming goes on with one media type only. *)
verify_request_upstream(publicKey, header, o) ==
    /\ o.type = "text/event-stream"
    /\ o.challenge \in Challenge
    /\ NamesKey(header, publicKey)
    /\ AsObserved(header, RequestUpstream, o)
    /\ header.challenge = o.challenge
    /\ header.status = o.status
    /\ header.type = o.type
    /\ SignedBy(header, publicKey,
                UpstreamClaims(header.keyID, header.nonce, WithCertOf(o, header)))

=============================================================================
