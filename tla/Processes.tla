----------------------------- MODULE Processes -----------------------------
(***************************************************************************)
(* The life of the process that main of cmd/tap is: what it needs before   *)
(* it listens, in which order, and how it ends.  A machine runs one        *)
(* container, that is started again when it failed, and every run has a    *)
(* key of its own.  ProofRouter and AttestedExchange have what it does     *)
(* while it serves, Certificates and SigningRules what it reads first.     *)
(***************************************************************************)
EXTENDS Naturals, FiniteSets

CONSTANTS
    Machine,
    Settings,       \* how the environments of the machines may be set
    Stoppable,      \* machines whose processes may receive a signal
    Startup,        \* the challenges of Preflight, which nobody else knows
    MaxRuns, MaxFaults      \* bounds: runs of each machine, faults in all of them

Environment == [image : {"approved", "other"}, secret : {"none", "fixed", "latest"},
                tap : {"none", "partial", "whole"}, legacy : {"none", "partial", "whole"}]

ASSUME SettingsAssumption ==
    Settings \subseteq [Machine -> Environment] /\ MaxFaults \in Nat

VARIABLES
    env,            \* env[m]: the settings of m
    stage,          \* stage[m]: how far main is
    run,            \* run[m]: the number of its run
    signalled,      \* signalled[m]: runContext is cancelled
    helper,         \* helper[m]: the goroutine that shuts the server down
    tokens,         \* that launchers have minted
    replicas,       \* rows of attestation_replicas: draining, for each key
    seen,           \* the keys whose processes have served
    faults

processVars == <<env, stage, run, signalled, helper, tokens, replicas, seen, faults>>

KeyOf(m) == <<m, run[m]>>

(* openPostgresProofStore: no store, a database, or settings that are      *)
(* refused: a secret and direct settings, a secret whose version is not    *)
(* fixed, current and deprecated names, or a part of what is needed.       *)
StoreChoice(e) ==
    LET direct == {e.tap, e.legacy}
    IN CASE e.secret = "none" /\ direct = {"none"} -> "none"
         [] e.secret = "none" /\ direct = {"none", "whole"} -> "database"
         [] e.secret = "fixed" /\ direct = {"none"} -> "database"
         [] OTHER -> "refused"

HasStore(m) == StoreChoice(env[m]) = "database"
Ended(m) == stage[m] \in {"exited", "failed"}
Answers(m) == stage[m] = "serves" /\ helper[m] \in {"waits", "drains"}

Init ==
    /\ env \in Settings
    /\ stage = [m \in Machine |-> "configures"]
    /\ run = [m \in Machine |-> 1]
    /\ signalled = [m \in Machine |-> FALSE]
    /\ helper = [m \in Machine |-> "off"]
    /\ tokens = {} /\ seen = {} /\ faults = 0
    /\ replicas = [k \in {} |-> FALSE]

Becomes(m, next) == stage' = [stage EXCEPT ![m] = next]

(* Something outside of the process fails.                                 *)
Fault == faults < MaxFaults /\ faults' = faults + 1

(* What the launcher of m mints for the run of m that asks.                *)
Token(m, challenge) ==
    [by |-> KeyOf(m), nonces |-> {challenge, KeyOf(m)}]

-----------------------------------------------------------------------------
(* Starting.                                                               *)

(* Signing rules, flags and the CA.                                        *)
Configure(m) ==
    /\ stage[m] = "configures"
    /\ \/ Becomes(m, "bootstraps") /\ UNCHANGED faults
       \/ Becomes(m, "failed") /\ Fault
    /\ UNCHANGED <<env, run, signalled, helper, tokens, replicas, seen>>

(* Mutant: a start without a token goes on.                                *)
BootstrapAnyway(m) ==
    /\ stage[m] = "bootstraps"
    /\ \/ /\ ~signalled[m]
          /\ tokens' = tokens \cup {Token(m, Startup)}
          /\ Becomes(m, "opens") /\ UNCHANGED faults
       \/ /\ IF signalled[m] THEN UNCHANGED faults ELSE Fault
          /\ Becomes(m, "opens") /\ UNCHANGED tokens
    /\ UNCHANGED <<env, run, signalled, helper, replicas, seen>>

(* bootstrapSigningIdentity: a key that never leaves the process, and a    *)
(* token for it, within twenty seconds and before a signal.                *)
Bootstrap(m) ==
    /\ stage[m] = "bootstraps"
    /\ \/ /\ ~signalled[m]
          /\ tokens' = tokens \cup {Token(m, Startup)}
          /\ Becomes(m, "opens") /\ UNCHANGED faults
       \/ /\ IF signalled[m] THEN UNCHANGED faults ELSE Fault
          /\ Becomes(m, "failed") /\ tokens' \in {tokens, tokens \cup {Token(m, Startup)}}
    /\ UNCHANGED <<env, run, signalled, helper, replicas, seen>>

(* The database has ten seconds, whether a signal comes or not.            *)
OpenStore(m) ==
    /\ stage[m] = "opens"
    /\ \/ /\ StoreChoice(env[m]) = "none"
          /\ Becomes(m, "listens") /\ helper' = [helper EXCEPT ![m] = "waits"]
          /\ UNCHANGED faults
       \/ HasStore(m) /\ Becomes(m, "registers") /\ UNCHANGED <<faults, helper>>
       \/ HasStore(m) /\ Becomes(m, "failed") /\ Fault /\ UNCHANGED helper
       \/ StoreChoice(env[m]) = "refused" /\ Becomes(m, "failed") /\ UNCHANGED <<faults, helper>>
    /\ UNCHANGED <<env, run, signalled, tokens, replicas, seen>>

Row(k, draining) == [other \in DOMAIN replicas \cup {k} |->
                        IF other = k THEN draining ELSE replicas[other]]

(* Mutant: the server listens first, and the replica is registered when    *)
(* its loop first beats.                                                   *)
ListenFirst(m) ==
    /\ stage[m] = "registers"
    /\ Becomes(m, "listens") /\ helper' = [helper EXCEPT ![m] = "waits"]
    /\ UNCHANGED <<env, run, signalled, tokens, replicas, seen, faults>>

(* Router.Start: the row is inserted, or the insert fails, before it       *)
(* happened or after, as it does once runContext is cancelled.             *)
Register(m) ==
    /\ stage[m] = "registers"
    /\ \/ /\ ~signalled[m]
          /\ Becomes(m, "listens") /\ helper' = [helper EXCEPT ![m] = "waits"]
          /\ replicas' = Row(KeyOf(m), FALSE) /\ UNCHANGED faults
       \/ /\ IF signalled[m] THEN UNCHANGED faults ELSE Fault
          /\ Becomes(m, "failed") /\ UNCHANGED helper
          /\ replicas' \in {replicas, Row(KeyOf(m), FALSE)}
    /\ UNCHANGED <<env, run, signalled, tokens, seen>>

(* ListenAndServe: a server that was shut down already does not listen.    *)
Listen(m) ==
    /\ stage[m] = "listens"
    /\ \/ /\ helper[m] \in {"waits", "drains"}
          /\ Becomes(m, "serves") /\ seen' = seen \cup {KeyOf(m)} /\ UNCHANGED faults
       \/ helper[m] \in {"shuts", "done"} /\ Becomes(m, "closed") /\ UNCHANGED <<faults, seen>>
       \/ Becomes(m, "failed") /\ Fault /\ UNCHANGED seen
    /\ UNCHANGED <<env, run, signalled, helper, tokens, replicas>>

-----------------------------------------------------------------------------
(* Ending.                                                                 *)

Signal(m) ==
    /\ m \in Stoppable /\ ~Ended(m) /\ ~signalled[m]
    /\ signalled' = [signalled EXCEPT ![m] = TRUE]
    /\ UNCHANGED <<env, stage, run, helper, tokens, replicas, seen, faults>>

HelperStarts(m) ==
    /\ ~Ended(m) /\ helper[m] = "waits" /\ signalled[m]
    /\ helper' = [helper EXCEPT ![m] = "drains"]
    /\ UNCHANGED <<env, stage, run, signalled, tokens, replicas, seen, faults>>

(* Mutant: the helper gives up when the replica cannot be drained.         *)
DrainOrGiveUp(m) ==
    /\ ~Ended(m) /\ helper[m] = "drains"
    /\ \/ replicas' = (IF HasStore(m) THEN Row(KeyOf(m), TRUE) ELSE replicas)
          /\ helper' = [helper EXCEPT ![m] = "shuts"] /\ UNCHANGED faults
       \/ HasStore(m) /\ UNCHANGED replicas /\ helper' = [helper EXCEPT ![m] = "done"] /\ Fault
    /\ UNCHANGED <<env, stage, run, signalled, tokens, seen>>

(* Drain, whose failure does not keep the server from being shut down.     *)
Drain(m) ==
    /\ ~Ended(m) /\ helper[m] = "drains"
    /\ \/ /\ replicas' = (IF HasStore(m) THEN Row(KeyOf(m), TRUE) ELSE replicas)
          /\ UNCHANGED faults
       \/ HasStore(m) /\ UNCHANGED replicas /\ Fault
    /\ helper' = [helper EXCEPT ![m] = "shuts"]
    /\ UNCHANGED <<env, stage, run, signalled, tokens, seen>>

(* Shutdown closes the listener, at which ListenAndServe returns.          *)
ServerCloses(m) ==
    /\ stage[m] = "serves" /\ helper[m] = "shuts"
    /\ Becomes(m, "closed")
    /\ UNCHANGED <<env, run, signalled, helper, tokens, replicas, seen, faults>>

(* Shutdown returns, after ten seconds at the latest; main may not have    *)
(* called ListenAndServe yet.                                              *)
ShutdownReturns(m) ==
    /\ ~Ended(m) /\ helper[m] = "shuts" /\ stage[m] # "serves"
    /\ helper' = [helper EXCEPT ![m] = "done"]
    /\ UNCHANGED <<env, stage, run, signalled, tokens, replicas, seen, faults>>

Exit(m) ==
    /\ stage[m] = "closed" /\ helper[m] = "done"
    /\ Becomes(m, "exited")
    /\ UNCHANGED <<env, run, signalled, helper, tokens, replicas, seen, faults>>

Killed(m) ==
    /\ ~Ended(m) /\ Fault
    /\ Becomes(m, "failed")
    /\ UNCHANGED <<env, run, signalled, helper, tokens, replicas, seen>>

(* The restart policy OnFailure: a new process, and a new key.             *)
Restart(m) ==
    /\ stage[m] = "failed" /\ run[m] < MaxRuns[m]
    /\ Becomes(m, "configures")
    /\ run' = [run EXCEPT ![m] = @ + 1]
    /\ signalled' = [signalled EXCEPT ![m] = FALSE]
    /\ helper' = [helper EXCEPT ![m] = "off"]
    /\ UNCHANGED <<env, tokens, replicas, seen, faults>>

Main(m) == Configure(m) \/ Bootstrap(m) \/ OpenStore(m) \/ Listen(m) \/ ServerCloses(m) \/ Exit(m)

Helper(m) == HelperStarts(m) \/ Drain(m) \/ ShutdownReturns(m)

Step(m) == Main(m) \/ Register(m) \/ Helper(m) \/ Signal(m) \/ Killed(m) \/ Restart(m)

(* Every call of main and of its helper has a context that ends, but for   *)
(* the insert of Router.Start: only a signal ends that one.                *)
Fairness ==
    \A m \in Machine :
       /\ WF_processVars(Main(m))
       /\ WF_processVars(Helper(m))
       /\ WF_processVars(signalled[m] /\ Register(m))

-----------------------------------------------------------------------------
(* Properties.                                                             *)

Key == Machine \X (Nat \ {0})

(* The variables have their types, and the helper is there as soon as main *)
(* can listen.                                                             *)
TypeOK ==
    /\ env \in [Machine -> Environment]
    /\ stage \in [Machine -> {"configures", "bootstraps", "opens", "registers", "listens",
                              "serves", "closed", "exited", "failed"}]
    /\ run \in [Machine -> Nat \ {0}]
    /\ signalled \in [Machine -> BOOLEAN]
    /\ helper \in [Machine -> {"off", "waits", "drains", "shuts", "done"}]
    /\ \A m \in Machine : stage[m] \in {"listens", "serves", "closed"} => helper[m] # "off"
    /\ DOMAIN replicas \subseteq Key /\ \A k \in DOMAIN replicas : replicas[k] \in BOOLEAN
    /\ seen \subseteq Key
    /\ \A t \in tokens : t.by \in Key /\ t.by \in t.nonces
    /\ faults \in 0..MaxFaults

(* No key signs, and none is offered to customers, for which the launcher  *)
(* of the machine has not minted a token at the start (README.md:107).     *)
FailClosed ==
    \A k \in seen \cup DOMAIN replicas :
       \E t \in tokens : t.by = k /\ t.nonces = {Startup, k}

(* Every process that receives a signal ends, whichever of its steps are   *)
(* still to come, and if the database fails in the meantime.               *)
SignalledEnds == \A m \in Machine : signalled[m] ~> Ended(m)

=============================================================================
