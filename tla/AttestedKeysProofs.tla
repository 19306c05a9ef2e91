------------------------- MODULE AttestedKeysProofs -------------------------
(***************************************************************************)
(* Proofs about AttestedKeys, for all machines, settings, customers and    *)
(* policies, and any number of runs and faults.  A customer's acceptance   *)
(* rests on what tokens are (Minted), which rests on the gate that every   *)
(* process passes before it listens (Gate); that its own proof is not      *)
(* rejected rests on what the endpoint sends (Known).                      *)
(***************************************************************************)
EXTENDS AttestedKeys, TLAPS

Gated == {"opens", "registers", "listens", "serves", "closed"}

HasToken(k) == \E t \in tokens : t.by = k /\ t.nonces = {Startup, k}

CustomerTypeOK ==
    customer \in [Customer ->
        [pc : {"new", "told", "rejected", "accepted"}, again : BOOLEAN,
         at : Key \cup {NoKey}, ref : Key \cup {NoKey}, mixedUp : BOOLEAN, late : BOOLEAN,
         body : SUBSET [key : Key \cup {Stranger}, challenge : Customer, token : tokens]]]

ArchiveTypeOK == archive \subseteq [key : Key, challenge : Customer, token : tokens]

(* A process that got past bootstrap has its token.                        *)
Gate == \A m \in Machine : stage[m] \in Gated => HasToken(KeyOf(m))

(* Every token has one nonce besides the key of the process it was minted  *)
(* for, which had a token when it started.                                 *)
Minted ==
    \A t \in tokens :
       /\ t.by \in Key /\ HasToken(t.by)
       /\ \E nonce \in Customer \cup {Startup} : t.nonces = {nonce, t.by}

(* The helper is started when main is about to listen.                     *)
HelperLate ==
    \A m \in Machine : helper[m] # "off" =>
       stage[m] \in {"listens", "serves", "closed", "exited", "failed"}

(* A process with a store that can listen has its row, and so has every    *)
(* key that was served.                                                    *)
Registered ==
    /\ \A m \in Machine :
          stage[m] \in {"listens", "serves", "closed"} /\ HasStore(m) =>
             KeyOf(m) \in DOMAIN replicas
    /\ \A k \in seen : HasStore(k[1]) => k \in DOMAIN replicas

(* A token of the bundle's own key for its challenge.                      *)
Genuine(b) ==
    /\ b.key \in Key /\ b.challenge \in Customer
    /\ b.token \in tokens /\ b.token.by = b.key
    /\ b.token.nonces = {b.challenge, b.key}

(* Bundles that are archived or on their way to a customer are genuine.    *)
Known ==
    /\ \A b \in archive : Genuine(b)
    /\ \A c \in Customer : customer[c].pc = "told" => \A b \in customer[c].body : Genuine(b)

(* Who accepted something approves of its machine, and asked for it.       *)
Justified ==
    \A c \in Customer : customer[c].pc = "accepted" =>
       \A b \in customer[c].body :
          /\ b.token \in tokens /\ b.token.by = b.key
          /\ c \in b.token.nonces /\ Approves(c, b.key[1])

ProcessInv == TypeOK /\ Gate /\ Minted /\ HelperLate /\ Registered /\ FailClosed

CustomerInv == CustomerTypeOK /\ ArchiveTypeOK /\ Known /\ AnswersAsked /\ HonestAccepted /\ Justified

IInv == ProcessInv /\ CustomerInv

-----------------------------------------------------------------------------
(* The processes.                                                          *)

(* Tokens stay, so that who has one keeps it.                              *)
LEMMA TokensStay ==
    ASSUME tokens \subseteq tokens', NEW k, HasToken(k)
    PROVE  HasToken(k)'
BY DEF HasToken

(* Writing a row adds it, and keeps the others.                            *)
LEMMA RowAdds ==
    ASSUME NEW k, NEW d \in BOOLEAN, replicas' = Row(k, d),
           \A j \in DOMAIN replicas : replicas[j] \in BOOLEAN
    PROVE  /\ DOMAIN replicas' = DOMAIN replicas \cup {k}
           /\ \A j \in DOMAIN replicas' : replicas'[j] \in BOOLEAN
BY DEF Row

(* The initial processes have done nothing.                                *)
LEMMA ProcessInit == Init => ProcessInv
<1> SUFFICES ASSUME Init PROVE ProcessInv
    OBVIOUS
<1>1. DOMAIN replicas = {}
    BY DEF Init
<1>2. TypeOK
    BY <1>1, SettingsAssumption DEF Init, TypeOK
<1>3. Gate /\ Minted /\ HelperLate /\ Registered /\ FailClosed
    BY <1>1 DEF Init, Gate, Gated, Minted, HelperLate, Registered, FailClosed
<1> QED
    BY <1>2, <1>3 DEF ProcessInv

(* What every step of a process does to what all of them share: tokens are *)
(* added for its own key, and so are rows, once the process has a token.   *)
LEMMA StepShares ==
    ASSUME ProcessInv, NEW m \in Machine, Step(m)
    PROVE  /\ env' = env
           /\ tokens' \in {tokens, tokens \cup {Token(m, Startup)}}
           /\ \/ replicas' = replicas
              \/ /\ stage[m] \in Gated
                 /\ \E d \in BOOLEAN : replicas' = Row(KeyOf(m), d)
<1>1. CASE Main(m)
    BY <1>1 DEF Main, Configure, Bootstrap, OpenStore, Listen, ServerCloses, Exit
<1>2. CASE Register(m)
    BY <1>2 DEF Register, Gated
<1>3. CASE Drain(m)
    <2>1. stage[m] \in Gated
        BY <1>3 DEF Drain, ProcessInv, HelperLate, Ended, Gated
    <2> QED
        BY <1>3, <2>1 DEF Drain
<1>4. CASE HelperStarts(m) \/ ShutdownReturns(m) \/ Signal(m) \/ Killed(m) \/ Restart(m)
    BY <1>4 DEF HelperStarts, ShutdownReturns, Signal, Killed, Restart
<1> QED
    BY <1>1, <1>2, <1>3, <1>4 DEF Step, Helper

(* What a step does to the process itself.  Only a process that has just   *)
(* got its token gets past bootstrap, and only one with its row, or        *)
(* without a store, gets to listen.                                        *)
LEMMA StepOwn ==
    ASSUME ProcessInv, NEW m \in Machine, Step(m)
    PROVE  /\ stage' = [stage EXCEPT ![m] = stage'[m]]
           /\ run' = [run EXCEPT ![m] = run'[m]]
           /\ helper' = [helper EXCEPT ![m] = helper'[m]]
           /\ signalled' = [signalled EXCEPT ![m] = signalled'[m]]
           /\ run'[m] \in Nat \ {0} /\ signalled'[m] \in BOOLEAN
           /\ stage'[m] \in {"configures", "bootstraps", "opens", "registers", "listens",
                             "serves", "closed", "exited", "failed"}
           /\ helper'[m] \in {"off", "waits", "drains", "shuts", "done"}
           /\ faults' \in 0..MaxFaults
           /\ run'[m] # run[m] => stage'[m] = "configures"
           /\ stage'[m] \in Gated =>
                 \/ stage[m] \in Gated
                 \/ Token(m, Startup) \in tokens'
           /\ stage'[m] \in {"listens", "serves", "closed"} =>
                 /\ helper'[m] # "off"
                 /\ \/ stage[m] \in {"listens", "serves", "closed"}
                    \/ ~HasStore(m)
                    \/ KeyOf(m) \in DOMAIN replicas'
           /\ helper'[m] # "off" =>
                 stage'[m] \in {"listens", "serves", "closed", "exited", "failed"}
           /\ \/ seen' = seen
              \/ stage[m] = "listens" /\ seen' = seen \cup {KeyOf(m)}
<1> USE DEF ProcessInv, TypeOK, HelperLate, Ended, Becomes, Fault, Gated
<1> USE SettingsAssumption
<1>1. CASE Configure(m)
    BY <1>1 DEF Configure
<1>2. CASE Bootstrap(m)
    BY <1>2 DEF Bootstrap
<1>3. CASE OpenStore(m)
    BY <1>3 DEF OpenStore, HasStore
<1>4. CASE Register(m)
  <2>1. CASE ~signalled[m] /\ UNCHANGED faults /\ replicas' = Row(KeyOf(m), FALSE)
                /\ Becomes(m, "listens") /\ helper' = [helper EXCEPT ![m] = "waits"]
    <3>1. KeyOf(m) \in DOMAIN replicas'
        BY <2>1 DEF Row
    <3> QED
        BY <1>4, <2>1, <3>1 DEF Register
  <2>2. CASE Becomes(m, "failed") /\ UNCHANGED helper
    <3>1. faults' = faults \/ (faults < MaxFaults /\ faults' = faults + 1)
        BY <1>4, Zenon DEF Register
    <3>2. UNCHANGED <<env, run, signalled, tokens, seen>>
        BY <1>4, Zenon DEF Register
    <3> QED
        BY <2>2, <3>1, <3>2
  <2> QED
    BY <1>4, <2>1, <2>2, Zenon DEF Register
<1>5. CASE Listen(m)
    BY <1>5 DEF Listen
<1>6. CASE ServerCloses(m) \/ Exit(m)
    BY <1>6 DEF ServerCloses, Exit
<1>7. CASE HelperStarts(m) \/ ShutdownReturns(m)
    BY <1>7 DEF HelperStarts, ShutdownReturns
<1>8. CASE Drain(m)
  <2>1. /\ ~Ended(m) /\ helper[m] = "drains"
        /\ helper' = [helper EXCEPT ![m] = "shuts"]
        /\ UNCHANGED <<env, stage, run, signalled, tokens, seen>>
    BY <1>8, Zenon DEF Drain
  <2>2. faults' = faults \/ (faults < MaxFaults /\ faults' = faults + 1)
    BY <1>8, Zenon DEF Drain
  <2> QED
    BY <2>1, <2>2
<1>9. CASE Signal(m)
    BY <1>9 DEF Signal
<1>10. CASE Killed(m)
    BY <1>10 DEF Killed
<1>11. CASE Restart(m)
    BY <1>11 DEF Restart
<1> QED
    BY <1>1, <1>2, <1>3, <1>4, <1>5, <1>6, <1>7, <1>8, <1>9, <1>10, <1>11
    DEF Step, Main, Helper

(* A step of a process keeps the invariant.                                *)
LEMMA StepKeeps ==
    ASSUME ProcessInv, NEW p \in Machine, Step(p)
    PROVE  ProcessInv'
<1> USE DEF ProcessInv
<1>1. /\ env' = env /\ tokens \subseteq tokens'
      /\ tokens' \in {tokens, tokens \cup {Token(p, Startup)}}
      /\ \A m \in Machine : HasStore(m)' <=> HasStore(m)
    BY StepShares DEF HasStore
<1>2. KeyOf(p) \in Key /\ \A m \in Machine \ {p} : KeyOf(m)' = KeyOf(m)
    BY StepOwn DEF KeyOf, Key, TypeOK
<1>3. KeyOf(p)' = KeyOf(p) \/ stage'[p] = "configures"
    BY StepOwn DEF KeyOf, TypeOK
<1>4. \A k : HasToken(k) => HasToken(k)'
    BY <1>1, TokensStay
<1>5. /\ \A k \in DOMAIN replicas' : replicas'[k] \in BOOLEAN
      /\ DOMAIN replicas' \in {DOMAIN replicas, DOMAIN replicas \cup {KeyOf(p)}}
      /\ DOMAIN replicas' # DOMAIN replicas => stage[p] \in Gated
    BY StepShares, RowAdds DEF TypeOK
<1>6. TypeOK'
  <2>1. \A t \in tokens' : t.by \in Key /\ t.by \in t.nonces
    BY <1>1, <1>2 DEF Token, TypeOK
  <2>2. seen' \subseteq Key
    BY <1>2, StepOwn DEF TypeOK
  <2>3. /\ env' \in [Machine -> Environment]
        /\ stage' \in [Machine -> {"configures", "bootstraps", "opens", "registers", "listens",
                                   "serves", "closed", "exited", "failed"}]
        /\ run' \in [Machine -> Nat \ {0}] /\ signalled' \in [Machine -> BOOLEAN]
        /\ helper' \in [Machine -> {"off", "waits", "drains", "shuts", "done"}]
        /\ faults' \in 0..MaxFaults
    BY <1>1, StepOwn DEF TypeOK
  <2>4. \A m \in Machine : stage'[m] \in {"listens", "serves", "closed"} => helper'[m] # "off"
    BY StepOwn DEF TypeOK
  <2> QED
    BY <1>2, <1>5, <2>1, <2>2, <2>3, <2>4 DEF TypeOK, Key
<1>7. Gate'
  <2> SUFFICES ASSUME NEW m \in Machine, stage'[m] \in Gated PROVE HasToken(KeyOf(m))'
    BY DEF Gate
  <2>1. CASE m # p
    <3>1. stage[m] \in Gated
        BY <2>1, StepOwn DEF TypeOK
    <3> QED
        BY <2>1, <3>1, <1>2, <1>4 DEF Gate
  <2>2. CASE m = p
    <3>1. KeyOf(p)' = KeyOf(p)
        BY <1>3, <2>2 DEF Gated
    <3>2. \E t \in tokens' : t.by = KeyOf(p) /\ t.nonces = {Startup, KeyOf(p)}
      <4>1. CASE stage[p] \in Gated
        BY <4>1, <1>1 DEF Gate, HasToken
      <4>2. CASE Token(p, Startup) \in tokens'
        BY <4>2 DEF Token
      <4> QED
        BY <2>2, <4>1, <4>2, StepOwn
    <3> QED
        BY <2>2, <3>1, <3>2 DEF HasToken
  <2> QED
    BY <2>1, <2>2
<1>8. HelperLate'
    BY StepOwn DEF HelperLate, TypeOK
<1>9. Registered'
  <2>1. DOMAIN replicas \subseteq DOMAIN replicas'
    BY <1>5
  <2>2. ASSUME NEW m \in Machine, stage'[m] \in {"listens", "serves", "closed"}, HasStore(m)
        PROVE  KeyOf(m)' \in DOMAIN replicas'
    <3>1. CASE m # p
        BY <1>2, <2>1, <2>2, <3>1, StepOwn DEF Registered, TypeOK
    <3>2. CASE m = p
        BY <1>3, <2>1, <2>2, <3>2, StepOwn DEF Registered, TypeOK
    <3> QED
        BY <3>1, <3>2
  <2>3. ASSUME NEW k \in seen', (HasStore(k[1]))'
        PROVE  k \in DOMAIN replicas'
    <3>1. k \in seen => k[1] \in Machine
        BY DEF TypeOK, Key
    <3>2. CASE k \in seen
        BY <1>1, <2>1, <2>3, <3>1, <3>2 DEF Registered
    <3>3. CASE stage[p] = "listens" /\ k = KeyOf(p)
        BY <1>1, <2>1, <2>3, <3>3 DEF Registered, KeyOf
    <3> QED
        BY <3>2, <3>3, StepOwn
  <2> QED
    BY <1>1, <2>2, <2>3 DEF Registered
<1>10. FailClosed'
  <2>1. \A k \in seen' \cup DOMAIN replicas' :
           k \in seen \cup DOMAIN replicas \/ (k = KeyOf(p) /\ stage[p] \in Gated)
    BY <1>5, StepOwn DEF Gated
  <2>2. \A k \in seen' \cup DOMAIN replicas' : HasToken(k)
    BY <2>1 DEF FailClosed, Gate, HasToken
  <2> QED
    BY <2>2, <1>4 DEF FailClosed, HasToken
<1>11. Minted'
  <2> SUFFICES ASSUME NEW t \in tokens'
               PROVE  /\ t.by \in Key /\ HasToken(t.by)'
                      /\ \E nonce \in Customer \cup {Startup} : t.nonces = {nonce, t.by}
    BY DEF Minted
  <2>1. CASE t \in tokens
    BY <1>4, <2>1 DEF Minted
  <2>2. CASE t = Token(p, Startup)
    BY <1>2, <2>2 DEF Token, HasToken
  <2> QED
    BY <1>1, <2>1, <2>2
<1> QED
    BY <1>6, <1>7, <1>8, <1>9, <1>10, <1>11

(* So does minting one more token.                                         *)
LEMMA MintKeeps ==
    ASSUME ProcessInv, NEW p \in Machine, HasToken(KeyOf(p)), NEW c \in Customer,
           tokens' = tokens \cup {Token(p, c)},
           UNCHANGED <<env, stage, run, signalled, helper, replicas, seen>>,
           faults' \in 0..MaxFaults
    PROVE  ProcessInv'
<1> USE DEF ProcessInv
<1>1. \A k : HasToken(k) => HasToken(k)'
    BY TokensStay
<1>2. TypeOK'
    BY DEF TypeOK, Token, KeyOf, Key
<1>3. Gate'
    BY <1>1 DEF Gate, KeyOf
<1>4. HelperLate' /\ Registered'
    BY DEF HelperLate, Registered, KeyOf, HasStore
<1>5. FailClosed'
    BY <1>1 DEF FailClosed, HasToken
<1>6. Minted'
  <2>1. KeyOf(p) \in Key
    BY DEF TypeOK, KeyOf, Key
  <2>2. \A t \in tokens' : t \in tokens \/ t = Token(p, c)
    OBVIOUS
  <2> QED
    BY <1>1, <2>1, <2>2 DEF Minted, Token
<1> QED
    BY <1>2, <1>3, <1>4, <1>5, <1>6

-----------------------------------------------------------------------------
(* Requests.                                                               *)

(* A process that answers, or takes requests for its key, passed the gate. *)
LEMMA OwnersGated ==
    ASSUME ProcessInv, NEW m \in Machine
    PROVE  /\ Answers(m) => HasToken(KeyOf(m)) /\ KeyOf(m) \in Key
           /\ \A k : m \in Owners(k) => k = KeyOf(m) /\ HasToken(k) /\ k \in Key
BY DEF ProcessInv, Gate, Gated, Answers, Owners, TypeOK, KeyOf, Key

(* What a request with some answer does: a body that was asked for keeps   *)
(* what is known of customers.                                             *)
LEMMA AsksKeeps ==
    ASSUME CustomerInv, NEW c \in Customer, NEW m \in Machine, NEW ref \in Key \cup {NoKey},
           NEW body, Asks(c, m, ref, body), KeyOf(m) \in Key,
           env' = env, tokens \subseteq tokens',
           \A b \in archive' : b \in archive \cup body,
           \A b \in body :
              /\ b.challenge = c
              /\ b.key = IF ref = NoKey THEN KeyOf(m) ELSE ref
              /\ b \in [key : Key, challenge : Customer, token : tokens'] /\ Genuine(b)'
    PROVE  CustomerInv'
<1> USE DEF CustomerInv
<1>1. customer' = [customer EXCEPT ![c] = customer'[c]]
    BY DEF Asks, CustomerTypeOK
<1>2. /\ customer'[c].pc = (IF body = {} THEN "rejected" ELSE "told")
      /\ customer'[c].body = body /\ customer'[c].ref = ref
      /\ customer'[c].at = (IF body = {} THEN NoKey ELSE KeyOf(m))
    BY DEF Asks, CustomerTypeOK
<1>3. CustomerTypeOK'
  <2>. DEFINE Bodies == SUBSET [key : Key \cup {Stranger}, challenge : Customer, token : tokens]
              Rest(B) == [pc : {"new", "told", "rejected", "accepted"}, again : BOOLEAN,
                          at : Key \cup {NoKey}, ref : Key \cup {NoKey}, mixedUp : BOOLEAN,
                          late : BOOLEAN, body : B]
  <2>1. body \in Bodies' /\ Bodies \subseteq Bodies'
    OBVIOUS
  <2>2. customer'[c] \in Rest(Bodies')
    <3>. HIDE DEF Bodies
    <3>. QED
        BY <2>1 DEF Asks, CustomerTypeOK
  <2>3. \A d \in Customer : customer[d] \in Rest(Bodies')
    <3>1. \A d \in Customer : customer[d] \in Rest(Bodies)
        BY DEF CustomerTypeOK
    <3>. HIDE DEF Bodies
    <3>. QED
        BY <2>1, <3>1
  <2>4. customer' \in [Customer -> Rest(Bodies')]
    <3>1. customer' = [customer EXCEPT ![c] = customer'[c]] /\ DOMAIN customer = Customer
        BY <1>1 DEF CustomerTypeOK
    <3>2. \A d \in Customer : customer'[d] = IF d = c THEN customer'[c] ELSE customer[d]
        BY <3>1
    <3>. HIDE DEF Rest, Bodies
    <3>. QED
        BY <2>2, <2>3, <3>1, <3>2
  <2> QED
    BY <2>4 DEF CustomerTypeOK
<1>4. \A d \in Customer \ {c} : customer'[d] = customer[d]
    BY <1>1 DEF CustomerTypeOK
<1>5. Known'
  <2>1. \A b : Genuine(b) => Genuine(b)'
    BY DEF Genuine
  <2>2. \A b \in archive' : Genuine(b)'
    BY <2>1 DEF Known
  <2>3. \A d \in Customer : customer'[d].pc = "told" => \A b \in customer'[d].body : Genuine(b)'
    BY <1>2, <1>4, <2>1 DEF Known
  <2> QED
    BY <2>2, <2>3 DEF Known
<1>6. AnswersAsked'
    BY <1>2, <1>4 DEF AnswersAsked
<1>7. HonestAccepted'
    BY <1>2, <1>4 DEF HonestAccepted, Approves
<1>8. Justified'
    BY <1>2, <1>4 DEF Justified, Approves
<1>9. ArchiveTypeOK'
    BY DEF ArchiveTypeOK
<1> QED
    BY <1>3, <1>5, <1>6, <1>7, <1>8, <1>9

(* The owner of the key that was asked for answers.                        *)
LEMMA IssueKeeps ==
    ASSUME IInv, NEW c \in Customer, NEW m \in Machine, NEW ref \in Key \cup {NoKey},
           NEW owner \in Machine, Issue(c, m, ref, owner),
           HasToken(KeyOf(owner)),
           KeyOf(owner) = IF ref = NoKey THEN KeyOf(m) ELSE ref
    PROVE  IInv'
<1>1. PICK b \in IF HasStore(owner) /\ Found(KeyOf(owner), c) # {}
                 THEN Found(KeyOf(owner), c) ELSE {BundleOf(owner, c)} :
         /\ tokens' = tokens \cup {b.token}
         /\ archive' = IF HasStore(owner) THEN archive \cup {b} ELSE archive
         /\ Asks(c, m, ref, {b})
    BY DEF Issue
<1>2. UNCHANGED <<env, stage, run, signalled, helper, replicas, seen, faults>>
    BY DEF Issue
<1>3. b \in archive \/ b = BundleOf(owner, c)
    BY <1>1 DEF Found
<1>4. /\ b.challenge = c /\ b.key = KeyOf(owner)
      /\ b \in [key : Key, challenge : Customer, token : tokens'] /\ Genuine(b)'
  <2>1. CASE b \in Found(KeyOf(owner), c)
    <3>1. b.challenge = c /\ b.key = KeyOf(owner) /\ Genuine(b)
        BY <2>1 DEF Found, IInv, CustomerInv, Known
    <3>2. b \in [key : Key, challenge : Customer, token : tokens]
        BY <2>1 DEF Found, IInv, CustomerInv, ArchiveTypeOK
    <3> QED
        BY <1>1, <3>1, <3>2 DEF Genuine
  <2>2. CASE b = BundleOf(owner, c)
    <3>1. KeyOf(owner) \in Key
        BY DEF IInv, ProcessInv, TypeOK, KeyOf, Key
    <3> QED
        BY <1>1, <2>2, <3>1 DEF BundleOf, Token, Genuine
  <2> QED
    BY <1>1, <2>1, <2>2
<1>5. ProcessInv'
  <2>1. CASE b \in archive
    <3>1. tokens' = tokens
        BY <1>1, <2>1 DEF IInv, CustomerInv, Known, Genuine
    <3> QED
        BY <1>2, <3>1 DEF IInv, ProcessInv, TypeOK, Gate, Minted, HelperLate, Registered,
           FailClosed, HasToken, KeyOf, HasStore
  <2>2. CASE b = BundleOf(owner, c)
    <3>1. tokens' = tokens \cup {Token(owner, c)}
        BY <1>1, <2>2 DEF BundleOf
    <3>2. faults' \in 0..MaxFaults
        BY <1>2 DEF IInv, ProcessInv, TypeOK
    <3> QED
        BY <1>2, <3>1, <3>2, MintKeeps DEF IInv
  <2> QED
    BY <1>3, <2>1, <2>2
<1>6. CustomerInv'
  <2>1. KeyOf(m) \in Key
    BY DEF IInv, ProcessInv, TypeOK, KeyOf, Key
  <2>2. \A x \in {b} : /\ x.challenge = c /\ x.key = IF ref = NoKey THEN KeyOf(m) ELSE ref
                       /\ x \in [key : Key, challenge : Customer, token : tokens']
                       /\ Genuine(x)'
    BY <1>1, <1>4
  <2>3. \A x \in archive' : x \in archive \cup {b}
    BY <1>1
  <2> QED
    BY <1>1, <1>2, <2>1, <2>2, <2>3, AsksKeeps DEF IInv
<1> QED
    BY <1>5, <1>6 DEF IInv

(* What does not change the processes keeps what is known of them.         *)
LEMMA FaultKeeps ==
    ASSUME ProcessInv,
           UNCHANGED <<env, stage, run, signalled, helper, tokens, replicas, seen>>,
           faults' = faults \/ Fault
    PROVE  ProcessInv'
<1>1. faults' \in 0..MaxFaults
    BY SettingsAssumption DEF ProcessInv, TypeOK, Fault
<1> QED
    BY <1>1 DEF ProcessInv, TypeOK, Gate, Minted, HelperLate, Registered, FailClosed,
       HasToken, KeyOf, HasStore

(* A request that is refused.                                              *)
LEMMA RefuseKeeps ==
    ASSUME IInv, NEW c \in Customer, NEW m \in Machine, NEW ref \in Key \cup {NoKey},
           Refuse(c, m, ref), faults' = faults \/ Fault
    PROVE  IInv'
<1>1. KeyOf(m) \in Key
    BY DEF IInv, ProcessInv, TypeOK, KeyOf, Key
<1>2. /\ Asks(c, m, ref, {})
      /\ UNCHANGED <<env, stage, run, signalled, helper, tokens, replicas, seen, archive>>
    BY DEF Refuse
<1>3. ProcessInv'
    BY <1>2, FaultKeeps DEF IInv
<1>4. \A x \in archive' : x \in archive \cup {}
    BY <1>2
<1>5. CustomerInv'
    BY <1>1, <1>2, <1>4, AsksKeeps DEF IInv
<1> QED
    BY <1>3, <1>5 DEF IInv

(* A request, whatever its answer.                                         *)
LEMMA RequestKeeps ==
    ASSUME IInv, NEW c \in Customer, NEW m \in Machine, NEW ref \in seen \cup {NoKey},
           Request(c, m, ref)
    PROVE  IInv'
<1>1. ref \in Key \cup {NoKey}
    BY DEF IInv, ProcessInv, TypeOK
<1>2. CASE OwnKey(c, m, ref)
  <2>1. Answers(m)
    BY <1>2 DEF OwnKey, Issue, Asks
  <2>2. HasToken(KeyOf(m))
    BY <2>1, OwnersGated DEF IInv
  <2>3. Issue(c, m, ref, m) /\ KeyOf(m) = IF ref = NoKey THEN KeyOf(m) ELSE ref
    BY <1>2 DEF OwnKey
  <2> QED
    BY <1>1, <2>2, <2>3, IssueKeeps
<1>3. CASE Archived(c, m, ref)
  <2>1. ref # NoKey /\ UNCHANGED <<processVars, archive>>
    BY <1>3 DEF Archived
  <2>2. PICK b \in Found(ref, c) : Asks(c, m, ref, {b})
    BY <1>3 DEF Archived
  <2>3. /\ b.challenge = c /\ b.key = ref /\ Genuine(b)
        /\ b \in [key : Key, challenge : Customer, token : tokens]
    BY DEF Found, IInv, CustomerInv, Known, ArchiveTypeOK
  <2>4. KeyOf(m) \in Key
    BY DEF IInv, ProcessInv, TypeOK, KeyOf, Key
  <2>5. \A x \in archive' : x \in archive \cup {b}
    BY <2>1
  <2>6. \A x \in {b} : /\ x.challenge = c /\ x.key = IF ref = NoKey THEN KeyOf(m) ELSE ref
                       /\ x \in [key : Key, challenge : Customer, token : tokens']
                       /\ Genuine(x)'
    BY <2>1, <2>3 DEF processVars, Genuine
  <2>7. env' = env /\ tokens \subseteq tokens'
    BY <2>1 DEF processVars
  <2>8. CustomerInv'
    BY <1>1, <2>2, <2>4, <2>5, <2>6, <2>7, AsksKeeps DEF IInv
  <2>9. ProcessInv'
    BY <2>1, FaultKeeps DEF IInv, processVars
  <2> QED
    BY <2>8, <2>9 DEF IInv
<1>4. CASE RoutedIssue(c, m, ref)
  <2>1. PICK owner \in Owners(ref) : Issue(c, m, ref, owner)
    BY <1>4 DEF RoutedIssue
  <2>2. owner \in Machine /\ ref # NoKey
    BY <1>4 DEF RoutedIssue, Resolves, Owners
  <2>3. ref = KeyOf(owner) /\ HasToken(ref)
    BY <2>2, OwnersGated DEF IInv
  <2> QED
    BY <1>1, <2>1, <2>2, <2>3, IssueKeeps
<1>5. CASE \/ Unavailable(c, m, ref) \/ NoRouter(c, m, ref) \/ Unknown(c, m, ref)
           \/ OwnerUnavailable(c, m, ref) \/ TimesOut(c, m, ref)
  <2>1. Refuse(c, m, ref) /\ (faults' = faults \/ Fault)
    BY <1>5 DEF Unavailable, NoRouter, Unknown, OwnerUnavailable, TimesOut
  <2> QED
    BY <1>1, <2>1, RefuseKeeps
<1> QED
    BY <1>2, <1>3, <1>4, <1>5 DEF Request

(* A decision.  What is sent to a customer is refused only if it is late,  *)
(* was asked by somebody else, or is of a machine that is not approved.    *)
LEMMA DecideKeeps ==
    ASSUME IInv, NEW c \in Customer, NEW b \in Bundle, NEW late \in BOOLEAN,
           Decide(c, b, late)
    PROVE  IInv'
<1> USE DEF IInv, CustomerInv
<1>. DEFINE to == IF Accepts(c, b, late) THEN "accepted" ELSE "rejected"
            mixed == b \notin customer[c].body
            tooLate == late /\ ~mixed
            body == IF mixed /\ ~Accepts(c, b, late) THEN {} ELSE {b}
            Bodies == SUBSET [key : Key \cup {Stranger}, challenge : Customer, token : tokens]
            C == [pc : {"new", "told", "rejected", "accepted"}, again : BOOLEAN,
                  at : Key \cup {NoKey}, ref : Key \cup {NoKey}, mixedUp : BOOLEAN,
                  late : BOOLEAN, body : Bodies]
<1>1. UNCHANGED <<env, tokens, archive>> /\ UNCHANGED processVars
    BY DEF Decide, processVars
<1>2. ProcessInv'
    BY <1>1, FaultKeeps DEF processVars
<1>3. /\ customer' = [customer EXCEPT ![c] = customer'[c]]
      /\ customer'[c].pc = to /\ customer'[c].body = body /\ customer'[c].late = tooLate
      /\ customer'[c].mixedUp = mixed
      /\ customer'[c] \in C /\ customer[c].pc = "told"
  <2>. DEFINE decided == [customer[c] EXCEPT !.pc = to, !.body = body, !.mixedUp = mixed,
                                             !.late = tooLate]
  <2>1. customer \in [Customer -> C] /\ customer[c].pc = "told"
    BY DEF Decide, CustomerTypeOK
  <2>2. b \in [key : Key \cup {Stranger}, challenge : Customer, token : tokens]
    BY DEF Bundle, ProcessInv, TypeOK
  <2>3. to \in {"accepted", "rejected"} /\ mixed \in BOOLEAN /\ tooLate \in BOOLEAN /\ body \in Bodies
    BY <2>2
  <2>4. customer' = [customer EXCEPT ![c] = decided]
    BY <2>1 DEF Decide
  <2>. HIDE DEF to, mixed, tooLate, body, Bodies
  <2>5. customer'[c] = decided /\ customer' = [customer EXCEPT ![c] = customer'[c]]
    BY <2>1, <2>4
  <2>6. /\ decided \in C /\ decided.pc = to /\ decided.body = body /\ decided.late = tooLate
        /\ decided.mixedUp = mixed
    BY <2>1, <2>3
  <2>. HIDE DEF decided
  <2>. QED
    BY <2>1, <2>5, <2>6
<1>4. \A d \in Customer \ {c} : customer'[d] = customer[d]
    BY DEF Decide, CustomerTypeOK
<1>5. CustomerTypeOK' /\ ArchiveTypeOK'
  <2>1. Bodies' = Bodies
    BY <1>1
  <2>. HIDE DEF to, mixed, tooLate, body, Bodies
  <2>2. customer' \in [Customer -> C]
    <3>1. customer \in [Customer -> C]
        BY DEF CustomerTypeOK, Bodies
    <3>. HIDE DEF C
    <3>. QED
        BY <1>3, <3>1
  <2> QED
    BY <1>1, <2>1, <2>2 DEF CustomerTypeOK, ArchiveTypeOK, Bodies
<1>6. to # "told" /\ (to = "accepted" <=> Accepts(c, b, late)) /\ \A x \in body : x = b
    OBVIOUS
<1>. HIDE DEF to, body
<1>7. Known'
    BY <1>1, <1>3, <1>4, <1>6 DEF Known, Genuine
<1>8. AnswersAsked'
    BY <1>3, <1>4, <1>6 DEF AnswersAsked
<1>9. Justified'
  <2>1. ASSUME Accepts(c, b, late)
        PROVE  /\ b.token \in tokens /\ b.token.by = b.key
               /\ c \in b.token.nonces /\ Approves(c, b.key[1])
    <3>1. b.token \in tokens /\ b.token.nonces = {c, b.key}
        BY <2>1 DEF Bundle, Accepts
    <3>2. /\ b.token.by \in Key
          /\ \E nonce \in Customer \cup {Startup} : b.token.nonces = {nonce, b.token.by}
        BY <3>1 DEF ProcessInv, Minted
    <3>3. b.token.by # c
        BY <3>2, ChallengeAssumption
    <3>4. b.token.by = b.key
        BY <3>1, <3>2, <3>3
    <3> QED
        BY <2>1, <3>1, <3>4 DEF Accepts
  <2> QED
    BY <1>1, <1>3, <1>4, <1>6, <2>1 DEF Justified, Approves
<1>10. b \in customer[c].body /\ ~late /\ Approves(c, b.key[1]) => Accepts(c, b, late)
  <2>1. b \in customer[c].body =>
           /\ b.challenge = c /\ (customer[c].ref # NoKey => b.key = customer[c].ref)
           /\ b.token.by = b.key /\ b.token.nonces = {b.challenge, b.key}
    BY <1>3 DEF AnswersAsked, Known, Genuine
  <2> QED
    BY <2>1 DEF Accepts
<1>11. HonestAccepted'
  <2>1. customer'[c].pc = "rejected" /\ ~customer'[c].mixedUp /\ ~customer'[c].late =>
           ~Approves(c, b.key[1])
    BY <1>3, <1>6, <1>10
  <2>2. \A d \in Customer : \A m : Approves(d, m)' <=> Approves(d, m)
    BY <1>1 DEF Approves
  <2>3. /\ \A x \in customer'[c].body : x = b
        /\ \A d \in Customer \ {c} : customer'[d] = customer[d]
    BY <1>3, <1>4, <1>6
  <2> QED
    BY <2>1, <2>2, <2>3 DEF HonestAccepted
<1> QED
    BY <1>2, <1>5, <1>7, <1>8, <1>9, <1>11

-----------------------------------------------------------------------------
(* Theorems.                                                               *)

(* What the theorems below rest on.                                        *)
THEOREM Inductive == KeysSpec => []IInv
<1>1. KeysInit => IInv
  <2> SUFFICES ASSUME KeysInit PROVE IInv
    OBVIOUS
  <2>1. ProcessInv
    BY ProcessInit DEF KeysInit
  <2>2. CustomerInv
    BY DEF KeysInit, CustomerInv, CustomerTypeOK, ArchiveTypeOK, Known, AnswersAsked,
       HonestAccepted, Justified
  <2> QED
    BY <2>1, <2>2 DEF IInv
<1>2. IInv /\ [KeysNext]_vars => IInv'
  <2> SUFFICES ASSUME IInv, [KeysNext]_vars PROVE IInv'
    OBVIOUS
  <2>1. ASSUME NEW m \in Machine, Step(m), UNCHANGED <<archive, customer>>
        PROVE  IInv'
    <3>1. ProcessInv'
        BY <2>1, StepKeeps DEF IInv
    <3>2. env' = env /\ tokens \subseteq tokens'
        BY <2>1, StepShares DEF IInv
    <3>3. \A k : HasToken(k) => HasToken(k)'
        BY <3>2, TokensStay
    <3>4. CustomerInv'
      <4>1. CustomerTypeOK' /\ ArchiveTypeOK' /\ Known'
        BY <2>1, <3>2 DEF IInv, CustomerInv, CustomerTypeOK, ArchiveTypeOK, Known, Genuine
      <4>2. AnswersAsked' /\ HonestAccepted' /\ Justified'
        BY <2>1, <3>2, <3>3 DEF IInv, CustomerInv, AnswersAsked, HonestAccepted, Justified,
           Approves
      <4> QED
        BY <4>1, <4>2 DEF CustomerInv
    <3> QED
        BY <3>1, <3>4 DEF IInv
  <2>2. CASE UNCHANGED vars
    <3>1. ProcessInv'
        BY <2>2, FaultKeeps DEF IInv, vars, processVars
    <3>2. CustomerInv'
        BY <2>2 DEF IInv, CustomerInv, CustomerTypeOK, ArchiveTypeOK, Known, Genuine,
           AnswersAsked, HonestAccepted, Justified, Approves, vars, processVars
    <3> QED
        BY <3>1, <3>2 DEF IInv
  <2> QED
    BY <2>1, <2>2, RequestKeeps, DecideKeeps DEF KeysNext
<1> QED
    BY <1>1, <1>2, PTL DEF KeysSpec

(* The variables of the processes have their types.                        *)
THEOREM TypeCorrect == KeysSpec => []TypeOK
<1>1. IInv => TypeOK
    BY DEF IInv, ProcessInv
<1> QED
    BY <1>1, Inductive, PTL

(* No key signs, and none is offered, before a token was minted for it.    *)
THEOREM GatedKeys == KeysSpec => []FailClosed
<1>1. IInv => FailClosed
    BY DEF IInv, ProcessInv
<1> QED
    BY <1>1, Inductive, PTL

(* Every answer is for what was asked.                                     *)
THEOREM MatchingAnswers == KeysSpec => []AnswersAsked
<1>1. IInv => AnswersAsked
    BY DEF IInv, CustomerInv
<1> QED
    BY <1>1, Inductive, PTL

(* A proof that is in time and approved is not rejected.                   *)
THEOREM HonestProofs == KeysSpec => []HonestAccepted
<1>1. IInv => HonestAccepted
    BY DEF IInv, CustomerInv
<1> QED
    BY <1>1, Inductive, PTL

(* Who accepts a key knows which process holds it.                         *)
THEOREM GenuineKeys == KeysSpec => []AcceptedIsGenuine
<1>1. ASSUME IInv PROVE AcceptedIsGenuine
  <2> SUFFICES ASSUME NEW c \in Customer, customer[c].pc = "accepted",
                      NEW b \in customer[c].body
               PROVE  /\ b.key[1] \in Policy[c].machines /\ env[b.key[1]].image = "approved"
                      /\ HasStore(b.key[1]) <=> Policy[c].secret = "fixed"
                      /\ {Startup, c} \subseteq UNION {t.nonces : t \in {u \in tokens : u.by = b.key}}
    BY DEF AcceptedIsGenuine
  <2>1. b.token \in tokens /\ b.token.by = b.key
    BY <1>1 DEF IInv, CustomerInv, Justified
  <2>2. c \in b.token.nonces /\ Approves(c, b.key[1])
    BY <1>1 DEF IInv, CustomerInv, Justified
  <2>3. b.token \in tokens /\ b.token.by = b.key /\ HasToken(b.key)
    BY <1>1, <2>1 DEF IInv, ProcessInv, Minted
  <2>4. b.key \in Key
    BY <1>1, <2>3 DEF IInv, ProcessInv, TypeOK
  <2>5. env[b.key[1]] \in Environment
    BY <1>1, <2>4 DEF IInv, ProcessInv, TypeOK, Key
  <2>6. HasStore(b.key[1]) <=> Policy[c].secret = "fixed"
    <3>1. /\ env[b.key[1]].tap = "none" /\ env[b.key[1]].legacy = "none"
          /\ env[b.key[1]].secret = Policy[c].secret
        BY <2>2 DEF Approves
    <3>2. env[b.key[1]].secret \in {"none", "fixed", "latest"}
        BY <2>5 DEF Environment
    <3>3. {"none", "none"} # {"none", "whole"} /\ {"none", "none"} = {"none"}
        OBVIOUS
    <3> QED
        BY <3>1, <3>2, <3>3 DEF HasStore, StoreChoice
  <2>7. {Startup, c} \subseteq UNION {t.nonces : t \in {u \in tokens : u.by = b.key}}
    BY <2>2, <2>3 DEF HasToken
  <2> QED
    BY <2>2, <2>6, <2>7 DEF Approves
<1> QED
    BY <1>1, Inductive, PTL

(* Who took a proof_ref from a response is not told that it is unknown.    *)
THEOREM SeenKeysKnown == KeysSpec => SeenRefKnown
<1>1. IInv /\ [KeysNext]_vars =>
         [\A c \in Customer, m \in Machine, ref \in seen :
             Unknown(c, m, ref) => ~HasStore(ref[1])]_vars
    BY DEF IInv, ProcessInv, Registered, Unknown, Resolves
<1> QED
    BY <1>1, Inductive, PTL DEF SeenRefKnown, KeysSpec

=============================================================================
