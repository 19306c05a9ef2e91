---------------------------- MODULE Certificates ----------------------------
(***************************************************************************)
(* The certificates that clients of one proxy see: the CA of its files     *)
(* (CAFiles) signs those of the store in its memory (CertStore), which     *)
(* begins and ends with the process.                                       *)
(***************************************************************************)
EXTENDS CertStore, CAFiles

CONSTANT Server     \* the proxy among the processes that use the files

ASSUME ServerAssumption == Server \in Process

VARIABLE signer     \* from hosts to the CA that signed for them, or NoPair

composed == <<vars, fileVars, signer>>

ComposedInit == Init /\ FilesInit /\ signer = [h \in Hosts |-> NoPair]

Serving == start[Server] = "running"

(* Connections are served while the process runs.                          *)
Serves(c) ==
    /\ Serving
    /\ Lock(c) \/ Hit(c) \/ Miss(c) \/ GenerationFails(c) \/ \E h \in Hosts : Fetch(c, h)
    /\ UNCHANGED <<fileVars, signer>>

(* The function that goproxy passes to Fetch signs with the CA that New    *)
(* was given.                                                              *)
Signs(c) ==
    /\ Serving /\ Generated(c)
    /\ signer' = [signer EXCEPT ![host[c]] = ca[Server]]
    /\ UNCHANGED fileVars

(* Mutant: the certificates outlive the process.                           *)
ServerStopsKeeping ==
    /\ Stops(Server)
    /\ mu' = Free /\ at' = [c \in Connections |-> "outside"]
    /\ UNCHANGED <<certificates, host, generated, handed, signer>>

(* The process ends with its connections and its store.                    *)
ServerStops ==
    /\ Stops(Server)
    /\ certificates' = [h \in Hosts |-> None] /\ generated' = 0 /\ handed' = {}
    /\ signer' = [h \in Hosts |-> NoPair]
    /\ mu' = Free /\ at' = [c \in Connections |-> "outside"]
    /\ UNCHANGED host

Elsewhere ==
    /\ \/ \E p \in Process : StartStep(p)
       \/ \E p \in Process \ {Server} : Stops(p)
       \/ \E file \in Contents : Changes(file)
    /\ UNCHANGED <<vars, signer>>

ComposedNext ==
    \/ \E c \in Connections : Serves(c) \/ Signs(c)
    \/ ServerStops
    \/ Elsewhere

ComposedSpec == ComposedInit /\ [][ComposedNext]_composed /\ Fairness

-----------------------------------------------------------------------------
(* Properties.                                                             *)

(* A client that trusts the certificate in the files accepts every         *)
(* certificate it is given, across kills, restarts and creations cut       *)
(* short, as long as the operator leaves the files alone (ca.go:18-20,     *)
(* main.go:128 "internal clients must trust CA certificate").              *)
ClientsTrust ==
    Server \notin outdated => \A p \in handed : cert = Whole(signer[p[1]])

=============================================================================
