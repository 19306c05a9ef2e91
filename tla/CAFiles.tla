------------------------------- MODULE CAFiles -------------------------------
(***************************************************************************)
(* The CA with which the proxy answers its clients lives in two files      *)
(* (internal/mitmproxy/ca.go).  Processes read them when they start        *)
(* (LoadCA), those for development also create them if both are missing    *)
(* (LoadOrCreateCA).  A process may be killed at any point, a write may    *)
(* fail, and an operator removes files and puts others there.              *)
(*                                                                         *)
(* Certificate and key of a pair are known by the number or the name of    *)
(* the pair.  os.WriteFile truncates first and writes then.                *)
(***************************************************************************)
EXTENDS Naturals

CONSTANTS
    Loaders,        \* processes that call LoadCA
    Creators,       \* processes that call LoadOrCreateCA
    Provisioned,    \* the pairs an operator has
    Unfit,          \* those of them that are no CA or may not sign
    MaxChanges      \* bound on what the operator does

ASSUME FilesAssumption ==
    /\ Loaders \cap Creators = {}
    /\ Provisioned \cap Nat = {} /\ Unfit \subseteq Provisioned
    /\ MaxChanges \in Nat

VARIABLES
    cert, key,      \* the two files
    start,          \* where a process is in its start
    readCert,       \* what it read from the certificate file
    ca,             \* the pair a process generated or runs with
    made,           \* the number of pairs generated so far
    changes,        \* what the operator has done so far
    outdated        \* processes whose start the operator's last change overtook

files == <<cert, key>>
fileVars == <<cert, key, start, readCert, ca, made, changes, outdated>>

Process == Loaders \cup Creators
NoPair == 0
Pair == Nat \cup Provisioned

Missing == [is |-> "missing", pair |-> NoPair]
Unreadable == [is |-> "unreadable", pair |-> NoPair]
Part == [is |-> "part", pair |-> NoPair]
Whole(p) == [is |-> "whole", pair |-> p]

(* What os.ReadFile returns with no error.                                 *)
Read(file) == file.is \in {"part", "whole"}

FilesInit ==
    /\ cert = Missing /\ key = Missing
    /\ start = [p \in Process |-> "down"]
    /\ readCert = [p \in Process |-> Missing]
    /\ ca = [p \in Process |-> NoPair]
    /\ made = 0 /\ changes = 0 /\ outdated = {}

Goes(p, to) == start' = [start EXCEPT ![p] = to]

Creating == {"create", "writeCert", "openKey", "writeKey"}
Starting == {"cert", "key"} \cup Creating

(* Development processes are started one after another.                    *)
Launch(p) ==
    /\ start[p] = "down"
    /\ p \in Creators => \A q \in Creators : start[q] \notin Starting
    /\ Goes(p, "cert") /\ outdated' = outdated \ {p}
    /\ UNCHANGED <<cert, key, readCert, ca, made, changes>>

ReadCert(p) ==
    /\ start[p] = "cert"
    /\ readCert' = [readCert EXCEPT ![p] = cert]
    /\ Goes(p, IF p \in Loaders /\ ~Read(cert) THEN "failed" ELSE "key")
    /\ UNCHANGED <<cert, key, ca, made, changes, outdated>>

(* Mutant: a certificate is not compared with its key.                     *)
parseCAUncompared(c, k) == c.is = "whole" /\ k.is = "whole" /\ c.pair \notin Unfit

(* tls.X509KeyPair compares certificate and key.                           *)
parseCA(c, k) ==
    /\ c.is = "whole" /\ k.is = "whole" /\ c.pair = k.pair
    /\ c.pair \notin Unfit

(* Mutant: files that do not parse are created anew.                       *)
ReadKeyRepairs(p) ==
    /\ start[p] = "key"
    /\ \/ /\ Read(readCert[p]) /\ Read(key) /\ parseCA(readCert[p], key)
          /\ ca' = [ca EXCEPT ![p] = readCert[p].pair]
          /\ Goes(p, "running")
       \/ /\ ~(Read(readCert[p]) /\ Read(key) /\ parseCA(readCert[p], key))
          /\ Goes(p, IF p \in Creators THEN "create" ELSE "failed")
          /\ UNCHANGED ca
    /\ UNCHANGED <<cert, key, readCert, made, changes, outdated>>

ReadKey(p) ==
    /\ start[p] = "key"
    /\ \/ /\ Read(readCert[p]) /\ Read(key) /\ parseCA(readCert[p], key)
          /\ ca' = [ca EXCEPT ![p] = readCert[p].pair]
          /\ Goes(p, "running")
       \/ /\ Read(readCert[p]) /\ Read(key) /\ ~parseCA(readCert[p], key)
          /\ Goes(p, "failed") /\ UNCHANGED ca
       \/ /\ p \in Creators /\ readCert[p] = Missing /\ key = Missing
          /\ Goes(p, "create") /\ UNCHANGED ca
       \/ /\ ~(Read(readCert[p]) /\ Read(key))
          /\ ~(p \in Creators /\ readCert[p] = Missing /\ key = Missing)
          /\ Goes(p, "failed") /\ UNCHANGED ca
    /\ UNCHANGED <<cert, key, readCert, made, changes, outdated>>

(* A key is generated and signed for, and the certificate file opened.     *)
OpenCert(p) ==
    /\ start[p] = "create"
    /\ made' = made + 1 /\ ca' = [ca EXCEPT ![p] = made + 1]
    /\ cert' = Part /\ Goes(p, "writeCert")
    /\ UNCHANGED <<key, readCert, changes, outdated>>

WriteCert(p) ==
    /\ start[p] = "writeCert"
    /\ cert' = Whole(ca[p]) /\ Goes(p, "openKey")
    /\ UNCHANGED <<key, readCert, ca, made, changes, outdated>>

OpenKey(p) ==
    /\ start[p] = "openKey"
    /\ key' = Part /\ Goes(p, "writeKey")
    /\ UNCHANGED <<cert, readCert, ca, made, changes, outdated>>

WriteKey(p) ==
    /\ start[p] = "writeKey"
    /\ key' = Whole(ca[p]) /\ Goes(p, "running")
    /\ UNCHANGED <<cert, readCert, ca, made, changes, outdated>>

(* Generating, opening or writing fails, and log.Fatal ends the process.   *)
CreateFails(p) ==
    /\ start[p] \in Creating
    /\ Goes(p, "failed")
    /\ UNCHANGED <<cert, key, readCert, ca, made, changes, outdated>>

(* A process ends, or is killed.                                           *)
Stops(p) ==
    /\ start[p] # "down"
    /\ Goes(p, "down")
    /\ readCert' = [readCert EXCEPT ![p] = Missing] /\ ca' = [ca EXCEPT ![p] = NoPair]
    /\ UNCHANGED <<cert, key, made, changes, outdated>>

(* The operator changes a file, while no process is about to create both.  *)
Changes(file) ==
    /\ changes < MaxChanges /\ changes' = changes + 1
    /\ \A p \in Creators : start[p] \notin {"key"} \cup Creating
    /\ \/ cert' = file /\ UNCHANGED key
       \/ key' = file /\ UNCHANGED cert
    /\ outdated' = Process
    /\ UNCHANGED <<start, readCert, ca, made>>

Contents == {Missing, Unreadable} \cup {Whole(p) : p \in Provisioned}

StartStep(p) ==
    \/ Launch(p) \/ ReadCert(p) \/ ReadKey(p) \/ OpenCert(p) \/ WriteCert(p)
    \/ OpenKey(p) \/ WriteKey(p) \/ CreateFails(p)

FilesNext ==
    \/ \E p \in Process : StartStep(p) \/ Stops(p)
    \/ \E file \in Contents : Changes(file)

FilesSpec == FilesInit /\ [][FilesNext]_fileVars

-----------------------------------------------------------------------------
(* Properties.                                                             *)

(* The variables have their types, a process runs with a pair that is fit, *)
(* and one development process starts at a time.                           *)
File == [is : {"missing", "unreadable", "part", "whole"}, pair : Pair]

FilesTypeOK ==
    /\ cert \in File /\ key \in File
    /\ start \in [Process -> {"down", "failed", "running"} \cup Starting]
    /\ readCert \in [Process -> File]
    /\ ca \in [Process -> Pair]
    /\ made \in Nat /\ changes \in Nat
    /\ outdated \subseteq Process
    /\ \A p \in Process : /\ start[p] \in Creating => p \in Creators
                          /\ start[p] = "running" => ca[p] \notin Unfit \cup {NoPair}
    /\ \A p, q \in Creators : start[p] \in Starting /\ start[q] \in Starting => p = q

(* A process serves with a CA that is whole in the files, as long as the   *)
(* operator leaves them alone: it and every later start have the same CA,  *)
(* whatever was killed or failed between (ca.go:18-20, 33-34).             *)
RunsOnFiles ==
    \A p \in Process : start[p] = "running" /\ p \notin outdated =>
       cert = Whole(ca[p]) /\ key = Whole(ca[p])

(* No process touches a pair that is complete: a restart cannot replace    *)
(* the CA that clients trust (ca.go:18-20).                                *)
Complete == cert.is = "whole" /\ key.is = "whole"
PairKept == [][Complete /\ changes' = changes => UNCHANGED files]_fileVars

=============================================================================
