------------------------------ MODULE CertStore ------------------------------
(***************************************************************************)
(* The certificates with which the proxy answers its clients, one for each *)
(* upstream host (memoryCertStore in internal/mitmproxy/proxy.go): many    *)
(* connections fetch, and the first for a host generates.                  *)
(***************************************************************************)
EXTENDS Naturals

CONSTANTS
    Connections,
    Hosts,
    Free        \* the mutex when nobody holds it

ASSUME FreeAssumption == Free \notin Connections

VARIABLES
    certificates,   \* from hosts to the number of their certificate, or None
    mu,             \* the connection that holds the mutex
    at,             \* where a connection is in Fetch
    host,           \* the host it fetches for
    generated,      \* the number of certificates generated so far
    handed          \* history: the pairs of a host and a certificate returned

vars == <<certificates, mu, at, host, generated, handed>>

None == 0

Init ==
    /\ certificates = [h \in Hosts |-> None]
    /\ mu = Free
    /\ at = [c \in Connections |-> "outside"]
    /\ host \in [Connections -> Hosts]
    /\ generated = 0 /\ handed = {}

Fetch(c, h) ==
    /\ at[c] = "outside"
    /\ at' = [at EXCEPT ![c] = "locking"] /\ host' = [host EXCEPT ![c] = h]
    /\ UNCHANGED <<certificates, mu, generated, handed>>

Lock(c) ==
    /\ at[c] = "locking" /\ mu = Free
    /\ mu' = c /\ at' = [at EXCEPT ![c] = "looking"]
    /\ UNCHANGED <<certificates, host, generated, handed>>

(* Leave Fetch, and unlock as deferred.                                    *)
Returns(c) == at' = [at EXCEPT ![c] = "outside"] /\ mu' = Free

Hit(c) ==
    /\ at[c] = "looking" /\ certificates[host[c]] # None
    /\ Returns(c)
    /\ handed' = handed \cup {<<host[c], certificates[host[c]]>>}
    /\ UNCHANGED <<certificates, host, generated>>

(* Mutant: the mutex is given up to generate.                              *)
MissUnlocks(c) ==
    /\ at[c] = "looking" /\ certificates[host[c]] = None
    /\ at' = [at EXCEPT ![c] = "generating"] /\ mu' = Free
    /\ UNCHANGED <<certificates, host, generated, handed>>

Miss(c) ==
    /\ at[c] = "looking" /\ certificates[host[c]] = None
    /\ at' = [at EXCEPT ![c] = "generating"]
    /\ UNCHANGED <<certificates, mu, host, generated, handed>>

Generated(c) ==
    /\ at[c] = "generating"
    /\ generated' = generated + 1
    /\ certificates' = [certificates EXCEPT ![host[c]] = generated + 1]
    /\ handed' = handed \cup {<<host[c], generated + 1>>}
    /\ Returns(c)
    /\ UNCHANGED host

(* Mutant: a failed generation is tried again, under the mutex.            *)
GenerationRepeats(c) ==
    /\ at[c] = "generating"
    /\ at' = [at EXCEPT ![c] = "looking"]
    /\ UNCHANGED <<certificates, mu, host, generated, handed>>

GenerationFails(c) ==
    /\ at[c] = "generating"
    /\ Returns(c)
    /\ UNCHANGED <<certificates, host, generated, handed>>

Step(c) == Lock(c) \/ Hit(c) \/ Miss(c) \/ Generated(c) \/ GenerationFails(c)

Next == \E c \in Connections : Step(c) \/ \E h \in Hosts : Fetch(c, h)

Spec == Init /\ [][Next]_vars

(* Go's mutex does not let a goroutine starve, and a generation ends.      *)
Fairness ==
    \A c \in Connections : /\ SF_vars(Lock(c))
                           /\ WF_vars(Hit(c) \/ Miss(c))
                           /\ WF_vars(Generated(c) \/ GenerationFails(c))

FairSpec == Spec /\ Fairness

-----------------------------------------------------------------------------
(* Properties.                                                             *)

Inside == {"looking", "generating"}

(* The variables have their types, and the holder of the mutex is inside.  *)
TypeOK ==
    /\ certificates \in [Hosts -> Nat]
    /\ at \in [Connections -> {"outside", "locking"} \cup Inside]
    /\ host \in [Connections -> Hosts]
    /\ generated \in Nat
    /\ handed \subseteq Hosts \X Nat
    /\ mu \in Connections \cup {Free}
    /\ \A c \in Connections : at[c] \in Inside <=> mu = c

(* All connections to a host are given the same certificate, however their *)
(* calls and failures of others interleave (proxy.go:250-262).             *)
OneCertificate == \A p \in handed : p[2] # None /\ certificates[p[1]] = p[2]

(* Every fetch returns, with a certificate or a failure of its own: one    *)
(* that failed does not hold up the next.                                  *)
FetchReturns == \A c \in Connections : at[c] # "outside" ~> at[c] = "outside"

=============================================================================
