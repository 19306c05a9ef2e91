-------------------------- MODULE CertificatesProofs --------------------------
(***************************************************************************)
(* Proofs about Certificates and its two parts, for any number of          *)
(* processes, pairs, hosts and connections: the store in memory            *)
(* (CertStore), the files of the CA (CAFiles), and the two together.       *)
(***************************************************************************)
EXTENDS Certificates, TLAPS

-----------------------------------------------------------------------------
(* The store.                                                              *)

Inv == TypeOK /\ OneCertificate

LEMMA InitInv == Init => Inv
  <1> SUFFICES ASSUME Init PROVE Inv
    OBVIOUS
  <1>1. TypeOK
    BY FreeAssumption DEF Init, TypeOK, None, Inside
  <1>2. OneCertificate
    BY DEF Init, OneCertificate
  <1> QED  BY <1>1, <1>2 DEF Inv

(* Only the holder of the mutex is inside, so that what Miss saw still     *)
(* holds when the certificate is generated.                                *)
Absent == \A c \in Connections : at[c] = "generating" => certificates[host[c]] = None

(* A step keeps the types.                                                 *)
LEMMA NextTypeOK ==
  ASSUME TypeOK, [Next]_vars
  PROVE  TypeOK'
  <1>1. CASE UNCHANGED vars
    BY <1>1 DEF TypeOK, vars, Inside
  <1>2. ASSUME NEW c \in Connections, NEW h \in Hosts, Fetch(c, h)
        PROVE  TypeOK'
    BY <1>2 DEF TypeOK, Fetch, Inside
  <1>3. ASSUME NEW c \in Connections, Lock(c)
        PROVE  TypeOK'
    BY <1>3, FreeAssumption DEF TypeOK, Lock, Inside
  <1>4. ASSUME NEW c \in Connections, Hit(c)
        PROVE  TypeOK'
    <2>1. handed' \subseteq Hosts \X Nat
      BY <1>4 DEF TypeOK, Hit
    <2>2. mu = c
      BY <1>4 DEF TypeOK, Hit, Inside
    <2> QED  BY <1>4, <2>1, <2>2, FreeAssumption DEF TypeOK, Hit, Returns, Inside
  <1>5. ASSUME NEW c \in Connections, Miss(c)
        PROVE  TypeOK'
    BY <1>5 DEF TypeOK, Miss, Inside
  <1>6. ASSUME NEW c \in Connections, Generated(c)
        PROVE  TypeOK'
    <2>1. handed' \subseteq Hosts \X Nat
      BY <1>6 DEF TypeOK, Generated
    <2>2. mu = c
      BY <1>6 DEF TypeOK, Generated, Inside
    <2> QED  BY <1>6, <2>1, <2>2, FreeAssumption DEF TypeOK, Generated, Returns, Inside
  <1>7. ASSUME NEW c \in Connections, GenerationFails(c)
        PROVE  TypeOK'
    <2>1. mu = c
      BY <1>7 DEF TypeOK, GenerationFails, Inside
    <2> QED  BY <1>7, <2>1, FreeAssumption DEF TypeOK, GenerationFails, Returns, Inside
  <1> QED  BY <1>1, <1>2, <1>3, <1>4, <1>5, <1>6, <1>7 DEF Next, Step

(* What is looked for in vain stays absent while the mutex is held.        *)
LEMMA NextAbsent ==
  ASSUME TypeOK, Absent, [Next]_vars
  PROVE  Absent'
  <1>1. CASE UNCHANGED vars
    BY <1>1 DEF Absent, vars
  <1>2. ASSUME NEW c \in Connections, NEW h \in Hosts, Fetch(c, h)
        PROVE  Absent'
    BY <1>2 DEF Absent, Fetch, TypeOK
  <1>3. ASSUME NEW c \in Connections, Step(c)
        PROVE  Absent'
    <2>1. CASE Lock(c)
      BY <2>1 DEF Absent, Lock, TypeOK
    <2>2. CASE Hit(c)
      BY <2>2 DEF Absent, Hit, Returns, TypeOK
    <2>3. CASE Miss(c)
      BY <2>3 DEF Absent, Miss, TypeOK
    <2>4. CASE Generated(c)
      <3>1. \A d \in Connections \ {c} : at'[d] # "generating"
        BY <2>4 DEF Generated, Returns, TypeOK, Inside
      <3>2. at'[c] = "outside"
        BY <2>4 DEF Generated, Returns, TypeOK
      <3> QED  BY <3>1, <3>2 DEF Absent
    <2>5. CASE GenerationFails(c)
      BY <2>5 DEF Absent, GenerationFails, Returns, TypeOK
    <2> QED  BY <1>3, <2>1, <2>2, <2>3, <2>4, <2>5 DEF Step
  <1> QED  BY <1>1, <1>2, <1>3 DEF Next

(* A generation adds the certificate of a host that had none.              *)
LEMMA GeneratedKeeps ==
  ASSUME Inv, Absent, NEW c \in Connections, Generated(c)
  PROVE  OneCertificate'
  <1> DEFINE k == host[c]
             n == generated + 1
  <1>1. k \in Hosts /\ n \in Nat /\ certificates[k] = None /\ n # None
    BY DEF Inv, TypeOK, Generated, Absent, None
  <1>2. \A h \in Hosts : certificates'[h] = IF h = k THEN n ELSE certificates[h]
    BY <1>1 DEF Inv, TypeOK, Generated
  <1>3. generated' = n /\ handed' = handed \cup {<<k, n>>}
    BY DEF Generated
  <1> SUFFICES ASSUME NEW p \in handed'
               PROVE  p[2] # None /\ certificates'[p[1]] = p[2]
    BY DEF OneCertificate, None
  <1>4. CASE p = <<k, n>>
    BY <1>4, <1>1, <1>2
  <1>5. CASE p \in handed
    <2>1. p[1] \in Hosts /\ p[2] # None /\ certificates[p[1]] = p[2]
      BY <1>5 DEF Inv, TypeOK, OneCertificate
    <2>2. p[1] # k
      BY <2>1, <1>1
    <2> QED  BY <2>1, <2>2, <1>2
  <1> QED  BY <1>3, <1>4, <1>5

(* No other step touches the certificates; a hit hands out one of them.    *)
LEMMA NextInv ==
  ASSUME Inv, Absent, [Next]_vars
  PROVE  Inv'
  <1>1. TypeOK'
    BY NextTypeOK DEF Inv
  <1>2. ASSUME UNCHANGED <<certificates, handed>>
        PROVE  OneCertificate'
    BY <1>2 DEF Inv, OneCertificate
  <1>3. CASE UNCHANGED vars
    BY <1>1, <1>2, <1>3 DEF Inv, vars
  <1>4. ASSUME NEW c \in Connections, NEW h \in Hosts, Fetch(c, h)
        PROVE  Inv'
    BY <1>1, <1>2, <1>4 DEF Inv, Fetch
  <1>5. ASSUME NEW c \in Connections, Lock(c) \/ Miss(c) \/ GenerationFails(c)
        PROVE  Inv'
    BY <1>1, <1>2, <1>5 DEF Inv, Lock, Miss, GenerationFails
  <1>6. ASSUME NEW c \in Connections, Hit(c)
        PROVE  Inv'
    <2>1. OneCertificate'
      BY <1>6 DEF Inv, OneCertificate, Hit
    <2> QED  BY <1>1, <2>1 DEF Inv
  <1>7. ASSUME NEW c \in Connections, Generated(c)
        PROVE  Inv'
    BY <1>1, <1>7, GeneratedKeeps DEF Inv
  <1> QED  BY <1>3, <1>4, <1>5, <1>6, <1>7 DEF Next, Step

(* The invariant holds of every behaviour, with what its steps rely on.    *)
LEMMA Invariant == Spec => [](Inv /\ Absent)
  <1>1. Init => Inv /\ Absent
    BY InitInv DEF Init, Absent
  <1>2. Inv /\ Absent /\ [Next]_vars => (Inv /\ Absent)'
    BY NextInv, NextAbsent DEF Inv
  <1> QED  BY <1>1, <1>2, PTL DEF Spec

(* The mutex is held by exactly the connection that is between Lock and    *)
(* its deferred unlock (proxy.go:250-262).                                 *)
THEOREM StoreTyped == Spec => []TypeOK
  <1>1. Inv => TypeOK
    BY DEF Inv
  <1> QED  BY <1>1, Invariant, PTL

(* Whoever fetches the certificate of a host gets the same one.            *)
THEOREM HandsOutOne == Spec => []OneCertificate
  <1>1. Inv => OneCertificate
    BY DEF Inv
  <1> QED  BY <1>1, Invariant, PTL

-----------------------------------------------------------------------------
(* The files.                                                              *)

(* A whole file holds a pair.                                              *)
Numbered ==
    /\ cert.is = "whole" => cert.pair # NoPair
    /\ \A p \in Process : readCert[p].is = "whole" => readCert[p].pair # NoPair

(* While a process creates the files, nobody else writes them.             *)
Creates(p) ==
    /\ start[p] \in Creating \ {"create"} => ca[p] \in Nat \ {0}
    /\ start[p] = "key" /\ p \in Creators /\ readCert[p] = Missing => cert = Missing
    /\ start[p] = "create" => cert = Missing /\ key = Missing
    /\ start[p] = "writeCert" => cert = Part /\ key = Missing
    /\ start[p] = "openKey" => cert = Whole(ca[p]) /\ key = Missing
    /\ start[p] = "writeKey" => cert = Whole(ca[p]) /\ key = Part

Alone == \A p \in Process : Creates(p)

(* A certificate that was whole when it was read is still in its file.     *)
ReadLast ==
    \A p \in Process :
       start[p] = "key" /\ readCert[p].is = "whole" /\ p \notin outdated => cert = readCert[p]

FilesInv == FilesTypeOK /\ Numbered /\ Alone /\ ReadLast /\ RunsOnFiles

(* What the files may hold.                                                *)
LEMMA FileFacts ==
  /\ Missing \in File /\ Unreadable \in File /\ Part \in File
  /\ \A n \in Pair : Whole(n) \in File
  /\ Nat \subseteq Pair /\ NoPair \in Pair
  /\ Creators \subseteq Process
  BY DEF Missing, Unreadable, Part, Whole, File, Pair, NoPair, Process

LEMMA FilesInitInv == FilesInit => FilesInv
  <1> SUFFICES ASSUME FilesInit PROVE FilesInv
    OBVIOUS
  <1>1. FilesTypeOK
    BY FileFacts DEF FilesInit, FilesTypeOK, Starting, Creating
  <1>2. Numbered /\ Alone /\ ReadLast /\ RunsOnFiles
    BY DEF FilesInit, Numbered, Alone, Creates, ReadLast, RunsOnFiles, Missing, Creating
  <1> QED  BY <1>1, <1>2 DEF FilesInv

(* What the steps of a start do.                                           *)

LEMMA LaunchInv == ASSUME FilesInv, NEW p \in Process, Launch(p) PROVE FilesInv'
  <1> USE DEF FilesInv, Launch, Goes
  <1>1. FilesTypeOK'
    BY DEF FilesTypeOK, Starting, Creating, Process
  <1>2. Numbered' /\ Alone'
    BY DEF FilesTypeOK, Numbered, Alone, Creates, Creating
  <1>3. ReadLast' /\ RunsOnFiles'
    BY DEF FilesTypeOK, ReadLast, RunsOnFiles
  <1> QED  BY <1>1, <1>2, <1>3

LEMMA ReadCertInv == ASSUME FilesInv, NEW p \in Process, ReadCert(p) PROVE FilesInv'
  <1> USE DEF FilesInv, ReadCert, Goes
  <1>1. FilesTypeOK'
    BY DEF FilesTypeOK, Starting, Creating, Process
  <1>2. Numbered' /\ Alone'
    BY DEF FilesTypeOK, Numbered, Alone, Creates, Creating
  <1>3. ReadLast' /\ RunsOnFiles'
    BY DEF FilesTypeOK, ReadLast, RunsOnFiles
  <1> QED  BY <1>1, <1>2, <1>3

(* Reading the key ends a start, or begins a creation.                     *)
LEMMA ReadKeyInv == ASSUME FilesInv, NEW p \in Process, ReadKey(p) PROVE FilesInv'
  <1> USE FilesAssumption DEF FilesInv
  <1>1. CASE /\ Read(readCert[p]) /\ Read(key) /\ parseCA(readCert[p], key)
             /\ ca' = [ca EXCEPT ![p] = readCert[p].pair]
             /\ Goes(p, "running")
    <2>1. FilesTypeOK'
      BY <1>1, FileFacts DEF ReadKey, Goes, FilesTypeOK, Starting, Creating, File, parseCA, Numbered
    <2>2. Numbered' /\ Alone'
      BY <1>1 DEF ReadKey, Goes, FilesTypeOK, Numbered, Alone, Creates, Creating, Read, Missing
    <2>3. ReadLast'
      BY <1>1 DEF ReadKey, Goes, FilesTypeOK, ReadLast
    <2>4. RunsOnFiles'
      BY <1>1 DEF ReadKey, Goes, FilesTypeOK, File, ReadLast, RunsOnFiles, parseCA, Whole
    <2> QED  BY <2>1, <2>2, <2>3, <2>4
  <1>2. CASE UNCHANGED ca /\ Goes(p, "failed")
    <2>1. FilesTypeOK'
      BY <1>2, FileFacts DEF ReadKey, Goes, FilesTypeOK, Starting, Creating
    <2>2. Numbered' /\ Alone' /\ ReadLast' /\ RunsOnFiles'
      BY <1>2 DEF ReadKey, Goes, FilesTypeOK, Numbered, Alone, Creates, Creating, ReadLast, RunsOnFiles
    <2> QED  BY <2>1, <2>2
  <1>3. CASE /\ p \in Creators /\ readCert[p] = Missing /\ key = Missing
             /\ Goes(p, "create") /\ UNCHANGED ca
    <2>1. FilesTypeOK'
      BY <1>3 DEF ReadKey, Goes, FilesTypeOK, Starting, Creating, Process
    <2>2. Numbered' /\ ReadLast' /\ RunsOnFiles'
      BY <1>3 DEF ReadKey, Goes, FilesTypeOK, Numbered, ReadLast, RunsOnFiles
    <2>3. Alone'
      BY <1>3 DEF ReadKey, Goes, FilesTypeOK, Alone, Creates, Creating
    <2> QED  BY <2>1, <2>2, <2>3
  <1> QED  BY <1>1, <1>2, <1>3 DEF ReadKey

(* One process creates: another that starts is one that only loads.        *)
LEMMA OneCreates ==
  ASSUME FilesTypeOK, NEW p \in Process, start[p] \in Creating,
         NEW q \in Process, q # p
  PROVE  start[q] \notin Creating /\ (start[q] = "key" => q \notin Creators)
  <1>1. p \in Creators
    BY DEF FilesTypeOK
  <1>2. q \notin Creators \/ start[q] \notin Starting
    BY <1>1 DEF FilesTypeOK, Starting
  <1>3. start[q] \in Creating => q \in Creators
    BY DEF FilesTypeOK
  <1> QED  BY <1>2, <1>3 DEF Starting

(* Nobody runs on files that are not complete, unless they changed, nor    *)
(* has read a certificate that is not there.                               *)
LEMMA NobodyReliesOn ==
  ASSUME FilesInv, cert.is # "whole", NEW q \in Process, q \notin outdated
  PROVE  start[q] # "running" /\ ~(start[q] = "key" /\ readCert[q].is = "whole")
  <1>1. start[q] # "running"
    BY DEF FilesInv, RunsOnFiles, Whole
  <1>2. ~(start[q] = "key" /\ readCert[q].is = "whole")
    BY DEF FilesInv, ReadLast
  <1> QED  BY <1>1, <1>2

LEMMA OpenCertInv == ASSUME FilesInv, NEW p \in Process, OpenCert(p) PROVE FilesInv'
  <1>1. FilesTypeOK /\ p \in Creators /\ cert = Missing /\ key = Missing
    BY DEF FilesInv, OpenCert, FilesTypeOK, Creating, Alone, Creates
  <1>2. made + 1 \in Nat \ {0}
    BY <1>1 DEF FilesTypeOK
  <1>3. /\ start' = [start EXCEPT ![p] = "writeCert"]
        /\ made' = made + 1 /\ ca' = [ca EXCEPT ![p] = made + 1]
        /\ cert' = Part /\ UNCHANGED <<key, readCert, changes, outdated>>
    BY DEF OpenCert, Goes
  <1>4. ca' \in [Process -> Pair] /\ ca'[p] = made + 1
    BY <1>1, <1>2, <1>3, FileFacts DEF FilesTypeOK
  <1>5. /\ start' \in [Process -> {"down", "failed", "running"} \cup Starting]
        /\ start'[p] = "writeCert"
    BY <1>1, <1>3 DEF FilesTypeOK, Starting, Creating
  <1>6. \A q \in Process : q # p => ca'[q] = ca[q] /\ start'[q] = start[q]
    BY <1>1, <1>3 DEF FilesTypeOK
  <1>7. FilesTypeOK'
    BY <1>1, <1>2, <1>3, <1>4, <1>5, <1>6, OneCreates, FileFacts
       DEF FilesTypeOK, OpenCert, Starting, Creating
  <1>8. Numbered'
    BY <1>3 DEF FilesInv, Numbered, Part
  <1>9. Alone'
    <2>1. Creates(p)'
      BY <1>1, <1>2, <1>3, <1>4, <1>5 DEF Creates
    <2>2. ASSUME NEW q \in Process, q # p PROVE Creates(q)'
      <3>1. start[q] \notin Creating /\ (start[q] = "key" => q \notin Creators)
        BY <1>1, <2>2, OneCreates DEF OpenCert, Creating
      <3> QED  BY <1>6, <2>2, <3>1 DEF Creates, Creating
    <2> QED  BY <2>1, <2>2 DEF Alone
  <1>10. ReadLast' /\ RunsOnFiles'
    <2>1. cert.is # "whole"
      BY <1>1 DEF Missing
    <2>2. ASSUME NEW q \in Process, q \notin outdated
          PROVE  start'[q] # "running" /\ ~(start'[q] = "key" /\ readCert'[q].is = "whole")
      BY <1>3, <1>5, <1>6, <2>1, <2>2, NobodyReliesOn
    <2> QED  BY <1>3, <2>2 DEF ReadLast, RunsOnFiles
  <1> QED  BY <1>7, <1>8, <1>9, <1>10 DEF FilesInv

LEMMA WriteCertInv == ASSUME FilesInv, NEW p \in Process, WriteCert(p) PROVE FilesInv'
  <1> USE FilesAssumption DEF FilesInv, WriteCert, Goes
  <1>1. FilesTypeOK'
    BY FileFacts DEF FilesTypeOK, Starting, Creating
  <1>2. cert = Part /\ key = Missing /\ ca[p] \in Nat \ {0}
    BY DEF Alone, Creates, Creating
  <1>3. Numbered'
    BY <1>2 DEF Numbered, Whole, NoPair
  <1>4. Alone'
    BY <1>2, OneCreates DEF FilesTypeOK, Alone, Creates, Creating
  <1>5. ReadLast' /\ RunsOnFiles'
    <2>1. cert.is # "whole"
      BY <1>2 DEF Part
    <2>2. ASSUME NEW q \in Process, q \notin outdated
          PROVE  start'[q] # "running" /\ ~(start'[q] = "key" /\ readCert'[q].is = "whole")
      BY <2>1, <2>2, NobodyReliesOn DEF FilesTypeOK
    <2> QED  BY <2>2 DEF ReadLast, RunsOnFiles
  <1> QED  BY <1>1, <1>3, <1>4, <1>5

LEMMA OpenKeyInv == ASSUME FilesInv, NEW p \in Process, OpenKey(p) PROVE FilesInv'
  <1> USE FilesAssumption DEF FilesInv, OpenKey, Goes
  <1>1. FilesTypeOK'
    BY FileFacts DEF FilesTypeOK, Starting, Creating
  <1>2. cert = Whole(ca[p]) /\ key = Missing /\ ca[p] \in Nat \ {0}
    BY DEF Alone, Creates, Creating
  <1>3. Numbered'
    BY DEF Numbered
  <1>4. Alone'
    BY <1>2, OneCreates DEF FilesTypeOK, Alone, Creates, Creating
  <1>5. ReadLast' /\ RunsOnFiles'
    BY <1>2 DEF FilesTypeOK, ReadLast, RunsOnFiles, Whole, Missing
  <1> QED  BY <1>1, <1>3, <1>4, <1>5

LEMMA WriteKeyInv == ASSUME FilesInv, NEW p \in Process, WriteKey(p) PROVE FilesInv'
  <1> USE FilesAssumption DEF FilesInv, WriteKey, Goes
  <1>1. cert = Whole(ca[p]) /\ key = Part /\ ca[p] \in Nat \ {0}
    BY DEF Alone, Creates, Creating
  <1>2. FilesTypeOK'
    BY <1>1, FileFacts DEF FilesTypeOK, Starting, Creating, NoPair, Pair
  <1>3. Numbered'
    BY DEF Numbered
  <1>4. Alone'
    BY <1>1, OneCreates DEF FilesTypeOK, Alone, Creates, Creating
  <1>5. ReadLast' /\ RunsOnFiles'
    BY <1>1 DEF FilesTypeOK, ReadLast, RunsOnFiles, Whole, Part
  <1> QED  BY <1>2, <1>3, <1>4, <1>5

(* A start that fails, and a process that ends, leave the files alone.     *)
LEMMA CreateFailsInv == ASSUME FilesInv, NEW p \in Process, CreateFails(p) PROVE FilesInv'
  <1> USE DEF FilesInv, CreateFails, Goes
  <1>1. FilesTypeOK'
    BY FileFacts DEF FilesTypeOK, Starting, Creating
  <1>2. Numbered' /\ Alone' /\ ReadLast' /\ RunsOnFiles'
    BY DEF FilesTypeOK, Numbered, Alone, Creates, Creating, ReadLast, RunsOnFiles
  <1> QED  BY <1>1, <1>2

LEMMA StopsInv == ASSUME FilesInv, NEW p \in Process, Stops(p) PROVE FilesInv'
  <1> USE DEF FilesInv, Stops, Goes
  <1>1. FilesTypeOK'
    BY FileFacts DEF FilesTypeOK, Starting, Creating
  <1>2. /\ \A q \in Process : q # p =>
              start'[q] = start[q] /\ readCert'[q] = readCert[q] /\ ca'[q] = ca[q]
        /\ start'[p] = "down" /\ readCert'[p] = Missing
        /\ UNCHANGED <<cert, key, outdated>>
    BY DEF FilesTypeOK
  <1> HIDE DEF Stops
  <1>3. Numbered'
    BY <1>2 DEF Numbered, Missing
  <1>4. Alone'
    <2>1. Creates(p)'
      BY <1>2 DEF Creates, Creating
    <2>2. ASSUME NEW q \in Process, q # p PROVE Creates(q)'
      BY <1>2, <2>2 DEF Alone, Creates
    <2> QED  BY <2>1, <2>2 DEF Alone
  <1>5. ReadLast' /\ RunsOnFiles'
    BY <1>2 DEF ReadLast, RunsOnFiles
  <1> QED  BY <1>1, <1>3, <1>4, <1>5

(* The operator outdates every process, and leaves a creation alone.       *)
LEMMA ChangesInv == ASSUME FilesInv, NEW file \in Contents, Changes(file) PROVE FilesInv'
  <1> USE FilesAssumption DEF FilesInv, Changes
  <1>1. file \in File /\ (file.is = "whole" => file.pair # NoPair)
    BY DEF Contents, File, Missing, Unreadable, Whole, Pair, NoPair
  <1>2. FilesTypeOK'
    BY <1>1 DEF FilesTypeOK
  <1>3. Numbered'
    BY <1>1 DEF Numbered
  <1>4. Alone'
    BY DEF FilesTypeOK, Alone, Creates, Creating
  <1>5. ReadLast' /\ RunsOnFiles'
    BY DEF ReadLast, RunsOnFiles
  <1> QED  BY <1>2, <1>3, <1>4, <1>5

LEMMA FilesNextInv == FilesInv /\ [FilesNext]_fileVars => FilesInv'
  <1> SUFFICES ASSUME FilesInv, [FilesNext]_fileVars PROVE FilesInv'
    OBVIOUS
  <1>1. CASE UNCHANGED fileVars
    BY <1>1 DEF fileVars, FilesInv, FilesTypeOK, Numbered, Alone, Creates, ReadLast, RunsOnFiles
  <1>2. ASSUME NEW p \in Process, StartStep(p) PROVE FilesInv'
    BY <1>2, LaunchInv, ReadCertInv, ReadKeyInv, OpenCertInv, WriteCertInv, OpenKeyInv,
       WriteKeyInv, CreateFailsInv DEF StartStep
  <1>3. ASSUME NEW p \in Process, Stops(p) PROVE FilesInv'
    BY <1>3, StopsInv
  <1>4. ASSUME NEW file \in Contents, Changes(file) PROVE FilesInv'
    BY <1>4, ChangesInv
  <1> QED  BY <1>1, <1>2, <1>3, <1>4 DEF FilesNext


(* Every process serves with the CA of the files (LoadCA, LoadOrCreateCA), *)
(* whatever was killed or failed in between.                               *)
THEOREM RunsOnTheFiles == FilesSpec => [](FilesTypeOK /\ RunsOnFiles)
  <1>1. FilesInv => FilesTypeOK /\ RunsOnFiles
    BY DEF FilesInv
  <1> QED  BY <1>1, FilesInitInv, FilesNextInv, PTL DEF FilesSpec

(* A step that is not the operator's leaves a complete pair alone.         *)
LEMMA StepKeepsPair ==
  ASSUME FilesInv, [FilesNext]_fileVars, Complete, changes' = changes
  PROVE  UNCHANGED files
  <1>1. ASSUME NEW p \in Process, StartStep(p) PROVE UNCHANGED files
    <2>1. cert # Missing /\ cert # Part /\ key # Missing /\ key # Part
      BY DEF Complete, Missing, Part
    <2>2. start[p] \notin Creating
      BY <2>1 DEF FilesInv, Alone, Creates, Creating
    <2> QED  BY <1>1, <2>2 DEF StartStep, Launch, ReadCert, ReadKey, OpenCert, WriteCert,
                OpenKey, WriteKey, CreateFails, Creating, files
  <1>2. ASSUME NEW p \in Process, Stops(p) PROVE UNCHANGED files
    BY <1>2 DEF Stops, files
  <1>3. ASSUME NEW file \in Contents, Changes(file) PROVE FALSE
    BY <1>3 DEF Changes, FilesInv, FilesTypeOK
  <1> QED  BY <1>1, <1>2, <1>3 DEF FilesNext, fileVars, files

(* No start replaces the CA that clients trust (ca.go:18-20).              *)
THEOREM KeepsThePair == FilesSpec => PairKept
  <1>1. FilesInv /\ [FilesNext]_fileVars
        => [Complete /\ changes' = changes => UNCHANGED files]_fileVars
    BY StepKeepsPair
  <1> QED  BY <1>1, FilesInitInv, FilesNextInv, PTL DEF FilesSpec, PairKept

-----------------------------------------------------------------------------
(* Both together.                                                          *)

(* The store is as in the beginning unless the proxy runs; what it holds   *)
(* the CA signed with which it runs.                                       *)
Empty ==
    /\ certificates = [h \in Hosts |-> None] /\ generated = 0 /\ handed = {}
    /\ mu = Free /\ at = [c \in Connections |-> "outside"]

SignedHere ==
    /\ signer \in [Hosts -> Pair]
    /\ ~Serving => Empty
    /\ \A h \in Hosts : certificates[h] # None => signer[h] = ca[Server]

CInv == Inv /\ Absent /\ FilesInv /\ SignedHere

(* A store that is empty is one that begins.                               *)
LEMMA EmptyInv == Empty /\ host \in [Connections -> Hosts] => Inv /\ Absent
  <1>1. Empty /\ host \in [Connections -> Hosts] => Init
    BY DEF Empty, Init
  <1> QED
    BY <1>1, InitInv DEF Empty, Absent

(* A step of both is a step of the files, and one of the store unless the  *)
(* proxy stops.                                                            *)
LEMMA ComposedSteps ==
  ASSUME [ComposedNext]_composed
  PROVE  /\ [FilesNext]_fileVars
         /\ [Next]_vars \/ ServerStops
  <1>1. ASSUME NEW c \in Connections, Serves(c) \/ Signs(c)
        PROVE  UNCHANGED fileVars /\ Next
    BY <1>1 DEF Serves, Signs, Next, Step
  <1>2. CASE ServerStops
    BY <1>2, ServerAssumption DEF ServerStops, FilesNext
  <1>3. CASE Elsewhere
    BY <1>3 DEF Elsewhere, FilesNext
  <1>4. CASE UNCHANGED composed
    BY <1>4 DEF composed
  <1> QED
    BY <1>1, <1>2, <1>3, <1>4 DEF ComposedNext

(* Whether the proxy runs, and with which CA, changes only when it starts  *)
(* or stops.                                                               *)
LEMMA ServingStays ==
  ASSUME FilesInv, Elsewhere, Serving
  PROVE  Serving' /\ ca'[Server] = ca[Server]
  <1>1. ASSUME NEW p \in Process, StartStep(p) PROVE Serving' /\ ca'[Server] = ca[Server]
    <2>1. p # Server
      BY <1>1 DEF StartStep, Serving, Launch, ReadCert, ReadKey, OpenCert, WriteCert,
         OpenKey, WriteKey, CreateFails, Creating
    <2>2. \A q \in Process : q # p => start'[q] = start[q] /\ ca'[q] = ca[q]
      BY <1>1 DEF FilesInv, FilesTypeOK, StartStep, Launch, ReadCert, ReadKey, OpenCert,
         WriteCert, OpenKey, WriteKey, CreateFails, Goes
    <2> QED  BY <2>1, <2>2, ServerAssumption DEF Serving
  <1>2. ASSUME NEW p \in Process \ {Server}, Stops(p)
        PROVE  Serving' /\ ca'[Server] = ca[Server]
    BY <1>2, ServerAssumption DEF FilesInv, FilesTypeOK, Stops, Goes, Serving
  <1>3. ASSUME NEW file \in Contents, Changes(file)
        PROVE  Serving' /\ ca'[Server] = ca[Server]
    BY <1>3 DEF Changes, Serving
  <1> QED  BY <1>1, <1>2, <1>3 DEF Elsewhere

LEMMA ComposedNextInv == CInv /\ [ComposedNext]_composed => CInv'
  <1> SUFFICES ASSUME CInv, [ComposedNext]_composed PROVE CInv'
    OBVIOUS
  <1> USE DEF CInv
  <1>1. FilesInv'
    BY ComposedSteps, FilesNextInv
  <1>2. Inv' /\ Absent'
    <2>1. CASE [Next]_vars
      BY <2>1, NextInv, NextAbsent DEF Inv
    <2>2. CASE ServerStops
      <3>1. (Empty /\ host \in [Connections -> Hosts])'
        BY <2>2 DEF ServerStops, Empty, Inv, TypeOK
      <3> QED  BY <3>1, EmptyInv, PTL
    <2> QED  BY <2>1, <2>2, ComposedSteps
  <1>3. SignedHere'
    <2>1. ASSUME NEW c \in Connections, Serves(c) PROVE SignedHere'
      <3>1. UNCHANGED <<certificates, start, ca, signer>> /\ Serving
        BY <2>1 DEF Serves, Lock, Hit, Miss, GenerationFails, Fetch, fileVars
      <3> QED  BY <3>1 DEF SignedHere, Serving
    <2>2. ASSUME NEW c \in Connections, Signs(c) PROVE SignedHere'
      <3>1. host[c] \in Hosts /\ ca[Server] \in Pair
        BY <2>2, ServerAssumption DEF Inv, TypeOK, FilesInv, FilesTypeOK
      <3>2. /\ \A h \in Hosts : h # host[c] => certificates'[h] = certificates[h]
            /\ signer' = [signer EXCEPT ![host[c]] = ca[Server]]
            /\ UNCHANGED <<start, ca>> /\ Serving
        BY <2>2 DEF Signs, Generated, Inv, TypeOK, fileVars
      <3> QED  BY <3>1, <3>2 DEF SignedHere, Serving
    <2>3. CASE ServerStops
      BY <2>3, ServerAssumption DEF ServerStops, Empty, SignedHere, Pair, NoPair
    <2>4. CASE Elsewhere
      <3>1. UNCHANGED <<vars, signer>>
        BY <2>4 DEF Elsewhere
      <3>2. CASE Serving
        BY <2>4, <3>1, <3>2, ServingStays DEF SignedHere, vars
      <3>3. CASE ~Serving
        BY <3>1, <3>3 DEF SignedHere, vars, Empty
      <3> QED  BY <3>2, <3>3
    <2>5. CASE UNCHANGED composed
      BY <2>5 DEF composed, vars, fileVars, SignedHere, Empty, Serving
    <2> QED  BY <2>1, <2>2, <2>3, <2>4, <2>5 DEF ComposedNext
  <1> QED  BY <1>1, <1>2, <1>3

LEMMA ComposedInvariant == ComposedSpec => []CInv
  <1>1. ComposedInit => CInv
    <2> SUFFICES ASSUME ComposedInit PROVE CInv
      OBVIOUS
    <2>1. Inv /\ Absent
      BY InitInv DEF ComposedInit, Init, Absent
    <2>2. FilesInv
      BY FilesInitInv DEF ComposedInit
    <2>3. SignedHere
      BY DEF ComposedInit, Init, SignedHere, Empty, Pair, NoPair, None
    <2> QED  BY <2>1, <2>2, <2>3 DEF CInv
  <1> QED  BY <1>1, ComposedNextInv, PTL DEF ComposedSpec

(* The proxy is one of the processes that use the files: what is proved of *)
(* them holds of the composition.                                          *)
THEOREM FilesImplemented == ComposedSpec => FilesSpec
  <1>1. [ComposedNext]_composed => [FilesNext]_fileVars
    BY ComposedSteps
  <1> QED  BY <1>1, PTL DEF ComposedSpec, ComposedInit, FilesSpec

(* While the proxy runs all connections to a host are given the same       *)
(* certificate, whatever happens to the files and to other processes       *)
(* (proxy.go:250-262).                                                     *)
THEOREM StoreKept == ComposedSpec => []OneCertificate
  <1>1. CInv => OneCertificate
    BY DEF CInv, Inv
  <1> QED  BY <1>1, ComposedInvariant, PTL

(* A client that trusts the certificate in the files accepts every         *)
(* certificate the proxy gives it, across kills, restarts and creations    *)
(* cut short, as long as the operator leaves the files alone (ca.go:18-20, *)
(* main.go:128).                                                           *)
THEOREM TrustedCertificates == ComposedSpec => []ClientsTrust
  <1>1. CInv => ClientsTrust
    <2> SUFFICES ASSUME CInv, Server \notin outdated, NEW p \in handed
                 PROVE  cert = Whole(signer[p[1]])
      BY DEF ClientsTrust
    <2>1. p[1] \in Hosts /\ certificates[p[1]] # None
      BY DEF CInv, Inv, TypeOK, OneCertificate
    <2>2. Serving /\ signer[p[1]] = ca[Server]
      BY <2>1 DEF CInv, SignedHere, Empty
    <2> QED  BY <2>2, ServerAssumption DEF CInv, FilesInv, RunsOnFiles, Serving
  <1> QED  BY <1>1, ComposedInvariant, PTL

=============================================================================
