---------------------------- MODULE AttestedKeys ----------------------------
(***************************************************************************)
(* How a customer comes to trust a key: the processes of Processes answer  *)
(* at /.well-known/confidential-attestation (metadataHandler and Cache),   *)
(* and docs/get_attested_public_key.py decides on what it is told.  A      *)
(* request is one step here; ProofRouter has the interleavings inside of   *)
(* it, and its deadlines.                                                  *)
(***************************************************************************)
EXTENDS Processes

CONSTANTS
    Customer,       \* every run of the script, and the challenge it makes up
    NoKey,          \* no proof_ref
    Stranger,       \* a key of a process that no launcher knows
    Policy,         \* Policy[c]: the machines and the secret that c approves
    Users           \* customers who have used the proxy: they ask for the
                    \* proof_ref of a response, and may ask twice

(* A challenge is fresh: it is not the binding nonce of a key.             *)
ASSUME ChallengeAssumption == \A c \in Customer : c \notin Key

VARIABLES
    archive,        \* table attestation_proofs
    customer        \* customer[c]: what c asked and was told

vars == <<processVars, archive, customer>>

KeysInit ==
    /\ Init
    /\ archive = {}
    /\ customer = [c \in Customer |->
          [pc |-> "new", again |-> FALSE, at |-> NoKey, ref |-> NoKey, body |-> {},
           mixedUp |-> FALSE, late |-> FALSE]]

-----------------------------------------------------------------------------
(* The endpoint.  A bundle's proof_ref, key_id and binding_nonce are       *)
(* functions of its key, its expires_at is that of its token.              *)

(* Mutant: the token of the start is used again.                           *)
StartupBundle(m, challenge) ==
    [key |-> KeyOf(m), challenge |-> challenge, token |-> Token(m, Startup)]

BundleOf(m, challenge) ==
    [key |-> KeyOf(m), challenge |-> challenge, token |-> Token(m, challenge)]

(* Mutant: an owner has one proof.                                         *)
FoundForKey(key, challenge) == {b \in archive : b.key = key}

Found(key, challenge) == {b \in archive : b.key = key /\ b.challenge = challenge}

(* Users ask once more, with the same challenge, if the first time was in  *)
(* vain or the proof has to be fetched again; others ask for no proof_ref. *)
(* The body is empty if the status is not 200, which is final.             *)
Asks(c, m, ref, body) ==
    /\ Answers(m)
    /\ c \in Users <=> ref # NoKey
    /\ \/ customer[c].pc = "new"
       \/ /\ customer[c].pc = "rejected" /\ c \in Users /\ ~customer[c].again
          /\ ref = customer[c].ref
    /\ customer' = [customer EXCEPT ![c] =
          [pc |-> IF body = {} THEN "rejected" ELSE "told", again |-> customer[c].pc = "rejected",
           at |-> IF body = {} THEN NoKey ELSE KeyOf(m), ref |-> ref, body |-> body,
           mixedUp |-> FALSE, late |-> FALSE]]

(* Cache.Issue of the owner: the archived bundle, or a new one.            *)
Issue(c, m, ref, owner) ==
    /\ \E b \in IF HasStore(owner) /\ Found(KeyOf(owner), c) # {}
                THEN Found(KeyOf(owner), c) ELSE {BundleOf(owner, c)} :
          /\ tokens' = tokens \cup {b.token}
          /\ archive' = IF HasStore(owner) THEN archive \cup {b} ELSE archive
          /\ Asks(c, m, ref, {b})
    /\ UNCHANGED <<env, stage, run, signalled, helper, replicas, seen, faults>>

Refuse(c, m, ref) ==
    /\ Asks(c, m, ref, {})
    /\ UNCHANGED <<env, stage, run, signalled, helper, tokens, replicas, seen, archive>>

OwnKey(c, m, ref) == ref \in {NoKey, KeyOf(m)} /\ Issue(c, m, ref, m)

(* The launcher or the database fails: 503.                                *)
Unavailable(c, m, ref) == Refuse(c, m, ref) /\ Fault

(* Without a store, no other key is known: 404.                            *)
NoRouter(c, m, ref) ==
    /\ ref \notin {NoKey, KeyOf(m)} /\ ~HasStore(m)
    /\ Refuse(c, m, ref) /\ UNCHANGED faults

Archived(c, m, ref) ==
    /\ ref \notin {NoKey, KeyOf(m)} /\ HasStore(m)
    /\ \E b \in Found(ref, c) : Asks(c, m, ref, {b})
    /\ UNCHANGED <<processVars, archive>>

(* Router.Resolve goes on if it found no proof.                            *)
Resolves(c, m, ref) == ref \notin {NoKey, KeyOf(m)} /\ HasStore(m) /\ Found(ref, c) = {}

(* 404.                                                                    *)
Unknown(c, m, ref) ==
    /\ Resolves(c, m, ref) /\ ref \notin DOMAIN replicas
    /\ Refuse(c, m, ref) /\ UNCHANGED faults

(* The processes whose loop runs, and takes requests for the key: those    *)
(* whose runContext is not cancelled.                                      *)
Owners(key) ==
    {m \in Machine : key = KeyOf(m) /\ stage[m] \in {"listens", "serves"} /\ ~signalled[m]}

(* Draining, or without a heartbeat for StaleAfter: 410.                   *)
OwnerUnavailable(c, m, ref) ==
    /\ Resolves(c, m, ref) /\ ref \in DOMAIN replicas
    /\ replicas[ref] \/ Owners(ref) = {}
    /\ Refuse(c, m, ref) /\ UNCHANGED faults

RoutedIssue(c, m, ref) ==
    /\ Resolves(c, m, ref) /\ ref \in DOMAIN replicas /\ ~replicas[ref]
    /\ \E owner \in Owners(ref) : Issue(c, m, ref, owner)

(* The owner's heartbeat is recent, but its loop does not run: 503.        *)
TimesOut(c, m, ref) ==
    /\ Resolves(c, m, ref) /\ ref \in DOMAIN replicas /\ ~replicas[ref]
    /\ Owners(ref) = {}
    /\ Refuse(c, m, ref) /\ UNCHANGED faults

Request(c, m, ref) ==
    \/ OwnKey(c, m, ref) \/ Unavailable(c, m, ref) \/ NoRouter(c, m, ref)
    \/ Archived(c, m, ref) \/ Unknown(c, m, ref) \/ OwnerUnavailable(c, m, ref)
    \/ RoutedIssue(c, m, ref) \/ TimesOut(c, m, ref)

-----------------------------------------------------------------------------
(* The customer's decision.                                                *)

(* The claims of a token are the environment of the machine that asked:    *)
(* an approved image, and nothing but the approved secret in the variables. *)
Approves(c, m) ==
    /\ m \in Policy[c].machines
    /\ env[m] = [image |-> "approved", secret |-> Policy[c].secret,
                 tap |-> "none", legacy |-> "none"]

(* Mutant: that the token is bound to the key is not checked.              *)
AcceptsUnbound(c, b, late) ==
    /\ b.challenge = c
    /\ customer[c].ref # NoKey => b.key = customer[c].ref
    /\ c \in b.token.nonces
    /\ ~late
    /\ Approves(c, b.token.by[1])

(* verify_google_jwt and validate_bundle_and_policy.                       *)
Accepts(c, b, late) ==
    /\ b.challenge = c
    /\ customer[c].ref # NoKey => b.key = customer[c].ref
    /\ b.token.nonces = {c, b.key}
    /\ ~late
    /\ Approves(c, b.token.by[1])

(* What a customer may be shown in place of the answer: only the token is  *)
(* signed, so any token may come with any other challenge and any key, of  *)
(* another process or of none.                                             *)
Bundle == [key : {t.by : t \in tokens} \cup {Stranger}, challenge : Customer, token : tokens]

(* The bundle is not trusted before it is checked, and its token may have  *)
(* expired before it got here, or in the archive.  One that is not the     *)
(* answer is forgotten when it is rejected, and so is why.                 *)
Decide(c, b, late) ==
    /\ customer[c].pc = "told"
    /\ LET accepted == Accepts(c, b, late)
           mixedUp == b \notin customer[c].body
       IN customer' = [customer EXCEPT
             ![c].pc = IF accepted THEN "accepted" ELSE "rejected",
             ![c].body = IF mixedUp /\ ~accepted THEN {} ELSE {b},
             ![c].mixedUp = mixedUp, ![c].late = late /\ ~mixedUp]
    /\ UNCHANGED <<processVars, archive>>

KeysNext ==
    \/ \E m \in Machine : Step(m) /\ UNCHANGED <<archive, customer>>
    \/ \E c \in Customer, m \in Machine, ref \in seen \cup {NoKey} : Request(c, m, ref)
    \/ \E c \in Customer, b \in Bundle, late \in BOOLEAN : Decide(c, b, late)

KeysSpec == KeysInit /\ [][KeysNext]_vars /\ Fairness

-----------------------------------------------------------------------------
(* Properties.                                                             *)

(* A customer who accepts a key knows who holds it: a process on a machine *)
(* that the customer approves, with the image and the kind of store that   *)
(* were approved, which passed the gate at its start and whose launcher    *)
(* minted a token for this customer's challenge, whatever bundle it was    *)
(* shown (customer-verification-guide.md:153).                             *)
AcceptedIsGenuine ==
    \A c \in Customer : customer[c].pc = "accepted" =>
       \A b \in customer[c].body :
          LET m == b.key[1]
          IN /\ m \in Policy[c].machines /\ env[m].image = "approved"
             /\ HasStore(m) <=> Policy[c].secret = "fixed"
             /\ {Startup, c} \subseteq UNION {t.nonces : t \in {u \in tokens : u.by = b.key}}

(* The endpoint and the script, written in two languages, agree: a proof   *)
(* that arrives in time is rejected only if it is not what was approved.   *)
HonestAccepted ==
    \A c \in Customer :
       customer[c].pc = "rejected" /\ ~customer[c].mixedUp /\ ~customer[c].late =>
          \A b \in customer[c].body : ~Approves(c, b.key[1])

(* An answer, be it issued, archived or routed, is for the challenge and   *)
(* the proof_ref that were asked for (cache.go:29-31).                     *)
AnswersAsked ==
    \A c \in Customer : customer[c].pc = "told" =>
       \A b \in customer[c].body :
          /\ b.challenge = c
          /\ b.key = IF customer[c].ref = NoKey THEN customer[c].at ELSE customer[c].ref

(* Who took a proof_ref from a response is not told that it is unknown:    *)
(* main registers the replica before it serves                             *)
(* (customer-verification-guide.md:151).                                   *)
SeenRefKnown ==
    [][\A c \in Customer, m \in Machine, ref \in seen :
          Unknown(c, m, ref) => ~HasStore(ref[1])]_vars

=============================================================================
