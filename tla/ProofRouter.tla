----------------------------- MODULE ProofRouter -----------------------------
(***************************************************************************)
(* The proof cache, its router and the PostgreSQL tables they share.       *)
(*                                                                         *)
(* Every replica is one process of cmd/tap.  It owns an in-memory key, so  *)
(* a replica and the proof_ref derived from its key are the same thing     *)
(* here; a restarted container is another replica of this set.  A replica  *)
(* runs                                                                    *)
(*   - main and its shutdown goroutine      (variable main),               *)
(*   - the router's run loop                (variable loop),               *)
(*   - one goroutine per HTTP request       (variable call),               *)
(* and the last two call Cache.Issue (variable issue).  Every action is    *)
(* one statement at the database, one answer of the attestation launcher,  *)
(* or one choice of a select statement; everything between two of them is  *)
(* local to a goroutine.                                                   *)
(***************************************************************************)
EXTENDS Integers, Sequences, FiniteSets

CONSTANTS
    Replica,            \* the processes, and the proof_refs they own
    Challenge,          \* well-formed challenge nonces
    Call,               \* HTTP requests to /.well-known/confidential-attestation
    Asks,               \* what they ask: the replica they reach, proof_ref, nonce
    HeartbeatInterval, StaleAfter, PollInterval,      \* RouterOptions
    RequestTimeout, RequestTTL, LeaseDuration, BatchSize,
    LauncherTimeout,    \* timeout of the launcher's HTTP client
    ShutdownTimeout,    \* shutdownContext in main
    Skew                \* Skew[r]: how far the clock of r is ahead

CONSTANTS               \* the environment, and the bounds of the model
    Prompt,             \* TRUE: nothing that is ready waits for the clock
    MintTime,           \* if Prompt: the launcher answers within MintTime
    Stoppable,          \* the replicas that may receive SIGTERM
    MaxTime,            \* bound on the clock
    LastStart,          \* no process starts after this time
    LastCall,           \* no request arrives after this time
    MaxFaults,          \* bound on failed statements, launcher errors, clients gone
    MaxCrashes          \* bound on processes killed

(* What NewRouter checks (router.go:96-102). *)
ASSUME OptionsAssumption ==
    /\ {HeartbeatInterval, StaleAfter, PollInterval, RequestTimeout,
        RequestTTL, LeaseDuration, BatchSize} \subseteq Nat \ {0}
    /\ StaleAfter > HeartbeatInterval

ASSUME EnvironmentAssumption ==
    /\ {LauncherTimeout, ShutdownTimeout, MintTime, MaxTime, LastStart,
        LastCall, MaxFaults, MaxCrashes} \subseteq Nat
    /\ Skew \in [Replica -> Int]
    /\ Prompt \in BOOLEAN
    /\ Stoppable \subseteq Replica
    /\ Replica \cap Call = {}
    /\ Asks \subseteq [at : Replica, ref : Replica, challenge : Challenge]

VARIABLES
    clock,      \* true time
    proofs,     \* table attestation_proofs: a set of bundles
    replicas,   \* table attestation_replicas
    requests,   \* table attestation_requests
    main,       \* main[r]: the life of the process
    loop,       \* loop[r]: Router.run
    issue,      \* issue[w]: the Cache.Issue that goroutine w is in
    call,       \* call[k]: a request and its answer
    minted,     \* tokens the launcher has minted so far
    faults, crashes

tables == <<proofs, replicas, requests>>
vars == <<clock, proofs, replicas, requests, main, loop, issue, call, minted,
          faults, crashes>>

Worker == Replica \cup Call   \* the goroutines that may be in Issue

Bundle == [ref : Replica, challenge : Challenge, serial : Nat]
ReplicaRow == [ref : Replica, lastHeartbeat : Int, draining : BOOLEAN]
RequestStatus == {"pending", "processing", "complete", "failed"}
RequestRow == [ref : Replica, challenge : Challenge, status : RequestStatus,
               requestedAt : Int, expiresAt : Int, leaseUntil : Int]

MainState == [pc : {"new", "serve", "drain", "shutdown", "gone"},
              stopBy : Nat, goneAt : Nat]
LoopState == [pc : {"off", "select", "heartbeat", "cleanup", "issue", "complete",
                    "fail", "drain"},
              stamp : Int, hbDue : Int, pollDue : Int, batch : Seq(Challenge)]
IssueState == [pc : {"idle", "find", "mint", "put", "read"},
               serial : Nat, deadline : Nat, until : Nat]
CallState == [pc : {"idle", "issue", "find", "replica", "enqueue", "check",
                    "queued", "wait", "done"},
              at : Replica, ref : Replica, challenge : Challenge,
              stamp : Int, deadline : Nat, tick : Int,
              result : {"none", "ok", "notFound", "ownerUnavailable", "failed",
                        "timeout", "error", "lost"},
              answer : SUBSET Bundle]

TypeOK ==
    /\ clock \in Nat
    /\ proofs \subseteq Bundle
    /\ replicas \subseteq ReplicaRow
    /\ requests \subseteq RequestRow
    /\ main \in [Replica -> MainState]
    /\ loop \in [Replica -> LoopState]
    /\ issue \in [Worker -> IssueState]
    /\ call \in [Call -> CallState]
    /\ minted \in Nat
    /\ faults \in Nat
    /\ crashes \in Nat

-----------------------------------------------------------------------------
(* Time. *)

NoDeadline == MaxTime + 1
LocalTime(r) == clock + Skew[r]

(* A ticker whose tick of time due is received now drops the ticks missed  *)
(* since; the tick it delivers carries due, however late it is received.   *)
NextTick(due, period) == due + period * (1 + ((clock - due) \div period))

(* Processes. *)
Serving(r) == main[r].pc = "serve"            \* runContext is not cancelled
Stopping(r) == main[r].pc \in {"drain", "shutdown"}
Alive(r) == Serving(r) \/ Stopping(r)
Listening(r) == main[r].pc \in {"serve", "drain"}
Active(k) == call[k].pc \notin {"idle", "done"}

(* The context of a goroutine: the loop works under runContext, and each   *)
(* of its Issue calls under RequestTimeout; a routed request waits under   *)
(* RequestTimeout once it is enqueued.                                     *)
Deadline(w) == IF w \in Call THEN call[w].deadline ELSE issue[w].deadline
Cancelled(w) == w \in Replica /\ ~Serving(w)

(* The outcome the caller sees.  A call whose context has ended fails; any *)
(* other may fail too, but only MaxFaults times.                           *)
Succeeds(w) ==
    /\ ~Cancelled(w)
    /\ clock <= Deadline(w)
    /\ UNCHANGED faults
Fault == faults < MaxFaults /\ faults' = faults + 1
Fails(w) == IF Cancelled(w) \/ clock >= Deadline(w) THEN UNCHANGED faults
                                                    ELSE Fault

Idle == [pc |-> "idle", serial |-> 0, deadline |-> NoDeadline, until |-> 0]

Init ==
    /\ clock = 0
    /\ proofs = {} /\ replicas = {} /\ requests = {}
    /\ main = [r \in Replica |-> [pc |-> "new", stopBy |-> 0, goneAt |-> 0]]
    /\ loop = [r \in Replica |-> [pc |-> "off", stamp |-> 0, hbDue |-> 0,
                                  pollDue |-> 0, batch |-> <<>>]]
    /\ issue = [w \in Worker |-> Idle]
    /\ \E ask \in [Call -> Asks] :
          call = [k \in Call |->
                    [pc |-> "idle", at |-> ask[k].at, ref |-> ask[k].ref,
                     challenge |-> ask[k].challenge, stamp |-> 0,
                     deadline |-> NoDeadline, tick |-> 0,
                     result |-> "none", answer |-> {}]]
    /\ minted = 0 /\ faults = 0 /\ crashes = 0

-----------------------------------------------------------------------------
(* The tables: statements of PostgresStore.                                *)

(* Find: at most one bundle, see UniqueProofs. *)
Stored(ref, c) == {b \in proofs : b.ref = ref /\ b.challenge = c}

(* Mutants: the insert replaces the row that is there; the index that makes *)
(* the insert conflict is missing.                                          *)
PutProofOverwrites(b) == (proofs \ Stored(b.ref, b.challenge)) \cup {b}
PutProofAlwaysInserts(b) == proofs \cup {b}

(* INSERT ... ON CONFLICT DO NOTHING. *)
PutProof(b) == IF Stored(b.ref, b.challenge) = {} THEN proofs \cup {b} ELSE proofs

(* Upsert by proof_ref; the row starts, or starts again, not draining. *)
RegisterReplica(r) ==
    {row \in replicas : row.ref # r}
        \cup {[ref |-> r, lastHeartbeat |-> LocalTime(r), draining |-> FALSE]}

(* A heartbeat also clears draining. *)
HeartbeatReplica(r, now) ==
    {IF row.ref = r THEN [row EXCEPT !.lastHeartbeat = now, !.draining = FALSE]
                    ELSE row : row \in replicas}

SetReplicaDraining(r) ==
    {IF row.ref = r THEN [row EXCEPT !.draining = TRUE] ELSE row : row \in replicas}

(* INSERT ... ON CONFLICT DO NOTHING: a row that is there stays as it is,  *)
(* failed and expired ones included.                                       *)
EnqueueRequest(ref, c, requestedAt, expiresAt) ==
    IF \E row \in requests : row.ref = ref /\ row.challenge = c
    THEN requests
    ELSE requests \cup {[ref |-> ref, challenge |-> c, status |-> "pending",
                         requestedAt |-> requestedAt, expiresAt |-> expiresAt,
                         leaseUntil |-> 0]}

(* Mutant: a claim never takes over a row whose lease is over. *)
ClaimableOnlyPending(r, now) ==
    {row \in requests : row.ref = r /\ row.expiresAt > now /\ row.status = "pending"}

Claimable(r, now) ==
    {row \in requests : /\ row.ref = r
                        /\ row.expiresAt > now
                        /\ \/ row.status = "pending"
                           \/ row.status = "processing" /\ row.leaseUntil < now}

(* ORDER BY requested_at LIMIT BatchSize: the sequences the query returns. *)
Batch(rows) ==
    {q \in UNION {[1..n -> rows] : n \in 0..BatchSize} :
        LET taken == {q[i] : i \in DOMAIN q} IN
        /\ \A i, j \in DOMAIN q : i < j => /\ q[i] # q[j]
                                           /\ q[i].requestedAt <= q[j].requestedAt
        /\ \A row \in rows \ taken : /\ Len(q) = BatchSize
                                     /\ \A i \in DOMAIN q :
                                           q[i].requestedAt <= row.requestedAt}

ClaimRequests(taken, leaseUntil) ==
    {IF row \in taken
     THEN [row EXCEPT !.status = "processing", !.leaseUntil = leaseUntil]
     ELSE row : row \in requests}

(* CompleteRequest and FailRequest go by the key alone: they look neither  *)
(* at the status nor at who claimed the row.                               *)
MarkRequest(r, c, status) ==
    {IF row.ref = r /\ row.challenge = c
     THEN [row EXCEPT !.status = status, !.leaseUntil = 0] ELSE row : row \in requests}

(* Mutant: only requests that came to an end are deleted. *)
DeleteExpiredFinished(now) ==
    {row \in requests : row.expiresAt > now \/ row.status \in {"pending", "processing"}}

DeleteExpiredRequests(now) == {row \in requests : row.expiresAt > now}

-----------------------------------------------------------------------------
(* Cache.Issue, in the goroutine w: the run loop of a replica or a request *)
(* to the owner itself.                                                    *)

Owner(w) == IF w \in Call THEN call[w].at ELSE w
Nonce(w) == IF w \in Call THEN call[w].challenge ELSE Head(loop[w].batch)

NewIssue(w) == [pc |-> "find", serial |-> 0, until |-> 0,
                deadline |-> IF w \in Call THEN NoDeadline
                                           ELSE clock + RequestTimeout]

Finished(k, result, answer) ==
    [call EXCEPT ![k].pc = "done", ![k].result = result, ![k].answer = answer,
                 ![k].stamp = 0, ![k].deadline = NoDeadline, ![k].tick = 0]

(* Mutant: the loop does not look at the error Issue returned. *)
IssueReturnsErrorIgnored(w, bundles) ==
    /\ issue' = [issue EXCEPT ![w] = Idle]
    /\ IF w \in Call
       THEN /\ call' = Finished(w, IF bundles = {} THEN "error" ELSE "ok", bundles)
            /\ UNCHANGED loop
       ELSE /\ loop' = [loop EXCEPT
                 ![w].pc = IF Cancelled(w) THEN "select" ELSE "complete",
                 ![w].batch = IF Cancelled(w) THEN <<>> ELSE @]
            /\ UNCHANGED call

(* What a goroutine does once Issue returned: the loop records the outcome *)
(* in the request's row, which fails at once when runContext is cancelled; *)
(* a handler answers.                                                      *)
IssueReturns(w, bundles) ==
    /\ issue' = [issue EXCEPT ![w] = Idle]
    /\ IF w \in Call
       THEN /\ call' = Finished(w, IF bundles = {} THEN "error" ELSE "ok", bundles)
            /\ UNCHANGED loop
       ELSE /\ loop' = [loop EXCEPT
                 ![w].pc = IF Cancelled(w) THEN "select"
                           ELSE IF bundles = {} THEN "fail" ELSE "complete",
                 ![w].batch = IF Cancelled(w) THEN <<>> ELSE @]
            /\ UNCHANGED call

(* Mutant: Issue asks the launcher without looking into the table first. *)
IssueFindSkipped(w) ==
    /\ issue[w].pc = "find"
    /\ Succeeds(w)
    /\ issue' = [issue EXCEPT ![w].pc = "mint", ![w].until = clock + LauncherTimeout]
    /\ UNCHANGED <<clock, tables, main, loop, call, minted, crashes>>

IssueFind(w) ==
    /\ issue[w].pc = "find"
    /\ Succeeds(w)
    /\ LET found == Stored(Owner(w), Nonce(w)) IN
       IF found # {}
       THEN IssueReturns(w, found)
       ELSE /\ issue' = [issue EXCEPT ![w].pc = "mint",
                                      ![w].until = clock + LauncherTimeout]
            /\ UNCHANGED <<loop, call>>
    /\ UNCHANGED <<clock, tables, main, minted, crashes>>

(* Every answer of the launcher is a new token. *)
IssueMint(w) ==
    /\ issue[w].pc = "mint"
    /\ Succeeds(w)
    /\ clock <= issue[w].until
    /\ minted' = minted + 1
    /\ issue' = [issue EXCEPT ![w].pc = "put", ![w].serial = minted + 1,
                              ![w].until = 0]
    /\ UNCHANGED <<clock, tables, main, loop, call, crashes>>

(* Put is two statements: the insert, and a select that reads back the     *)
(* bundle that is stored, whoever stored it.                               *)
Minted(w) == [ref |-> Owner(w), challenge |-> Nonce(w), serial |-> issue[w].serial]

(* Mutant: Put returns the bundle it was given instead of the stored one. *)
IssuePutNotReadBack(w) ==
    /\ issue[w].pc = "put"
    /\ Succeeds(w)
    /\ proofs' = PutProof(Minted(w))
    /\ IssueReturns(w, {Minted(w)})
    /\ UNCHANGED <<clock, replicas, requests, main, minted, crashes>>

IssuePut(w) ==
    /\ issue[w].pc = "put"
    /\ Succeeds(w)
    /\ proofs' = PutProof(Minted(w))
    /\ issue' = [issue EXCEPT ![w].pc = "read", ![w].serial = 0]
    /\ UNCHANGED <<clock, replicas, requests, main, loop, call, minted, crashes>>

IssueRead(w) ==
    /\ issue[w].pc = "read"
    /\ Succeeds(w)
    /\ IssueReturns(w, Stored(Owner(w), Nonce(w)))
    /\ UNCHANGED <<clock, tables, main, minted, crashes>>

(* Any step may fail; the insert may have landed all the same. *)
IssueFails(w) ==
    /\ issue[w].pc # "idle"
    /\ IF issue[w].pc = "mint" /\ clock >= issue[w].until
       THEN UNCHANGED faults ELSE Fails(w)
    /\ \/ UNCHANGED proofs
       \/ issue[w].pc = "put" /\ proofs' = PutProof(Minted(w))
    /\ IssueReturns(w, {})
    /\ UNCHANGED <<clock, replicas, requests, main, minted, crashes>>

-----------------------------------------------------------------------------
(* Router.Start and Router.run. *)

(* The process starts: its row is written, then the loop runs and the      *)
(* server listens.                                                         *)
Start(r) ==
    /\ main[r].pc = "new"
    /\ clock <= LastStart
    /\ replicas' = RegisterReplica(r)
    /\ main' = [main EXCEPT ![r].pc = "serve"]
    /\ loop' = [loop EXCEPT ![r].pc = "select",
                            ![r].hbDue = clock + HeartbeatInterval,
                            ![r].pollDue = clock + PollInterval]
    /\ UNCHANGED <<clock, proofs, requests, issue, call, minted, faults, crashes>>

(* If the row cannot be written main exits; it may have been written.      *)
StartFails(r) ==
    /\ main[r].pc = "new"
    /\ clock <= LastStart
    /\ Fault
    /\ replicas' \in {replicas, RegisterReplica(r)}
    /\ main' = [main EXCEPT ![r].pc = "gone", ![r].goneAt = clock]
    /\ UNCHANGED <<clock, proofs, requests, loop, issue, call, minted, crashes>>

(* The select picks any case that is ready.  Under a cancelled context the *)
(* statements of a tick fail at once, and the loop is back at its select.  *)
Ready(r, pc) == IF Serving(r) THEN pc ELSE "select"

HeartbeatTick(r) ==
    /\ loop[r].pc = "select"
    /\ clock >= loop[r].hbDue
    /\ loop' = [loop EXCEPT ![r].pc = Ready(r, "heartbeat"),
                            ![r].stamp = IF Serving(r) THEN loop[r].hbDue + Skew[r] ELSE 0,
                            ![r].hbDue = NextTick(loop[r].hbDue, HeartbeatInterval)]
    /\ UNCHANGED <<clock, tables, main, issue, call, minted, faults, crashes>>

(* Both statements of a heartbeat only log their errors.  One that was in  *)
(* flight when the context ended may still land.                           *)
Heartbeat(r) ==
    /\ loop[r].pc = "heartbeat"
    /\ \/ Succeeds(r) /\ replicas' = HeartbeatReplica(r, loop[r].stamp)
       \/ Fails(r) /\ replicas' \in {replicas, HeartbeatReplica(r, loop[r].stamp)}
    /\ loop' = [loop EXCEPT ![r].pc = Ready(r, "cleanup"),
                            ![r].stamp = IF Serving(r) THEN @ ELSE 0]
    /\ UNCHANGED <<clock, proofs, requests, main, issue, call, minted, crashes>>

Cleanup(r) ==
    /\ loop[r].pc = "cleanup"
    /\ \/ Succeeds(r) /\ requests' = DeleteExpiredRequests(loop[r].stamp)
       \/ Fails(r) /\ requests' \in {requests, DeleteExpiredRequests(loop[r].stamp)}
    /\ loop' = [loop EXCEPT ![r].pc = "select", ![r].stamp = 0]
    /\ UNCHANGED <<clock, proofs, replicas, main, issue, call, minted, crashes>>

(* processPending: claim, then issue and record one request after another. *)
WorkOn(r, batch, pollDue) ==
    LET busy == batch # <<>> /\ Serving(r) IN
    /\ loop' = [loop EXCEPT ![r].pc = IF busy THEN "issue" ELSE "select",
                            ![r].batch = IF busy THEN batch ELSE <<>>,
                            ![r].pollDue = pollDue]
    /\ issue' = IF busy THEN [issue EXCEPT ![r] = NewIssue(r)] ELSE issue

(* The tick and the claim are one step: nothing the program does can come  *)
(* between the two and tell them apart.  Under a cancelled context the     *)
(* transaction does not begin.                                             *)
PollTick(r) ==
    /\ loop[r].pc = "select"
    /\ clock >= loop[r].pollDue
    /\ LET now == loop[r].pollDue + Skew[r]
           due == NextTick(loop[r].pollDue, PollInterval)
       IN IF Cancelled(r)
          THEN WorkOn(r, <<>>, due) /\ UNCHANGED <<requests, faults>>
          ELSE \E q \in Batch(Claimable(r, now)) :
                  LET claimed == ClaimRequests({q[i] : i \in DOMAIN q},
                                               now + LeaseDuration)
                  IN \/ /\ requests' = claimed /\ UNCHANGED faults
                        /\ WorkOn(r, [i \in DOMAIN q |-> q[i].challenge], due)
                     \/ /\ requests' \in {requests, claimed} /\ Fault
                        /\ WorkOn(r, <<>>, due)
    /\ UNCHANGED <<clock, proofs, replicas, main, call, minted, crashes>>

Record(r) ==
    /\ loop[r].pc \in {"complete", "fail"}
    /\ LET marked == MarkRequest(r, Head(loop[r].batch),
              IF loop[r].pc = "complete" THEN "complete" ELSE "failed")
       IN \/ Succeeds(r) /\ requests' = marked
          \/ Fails(r) /\ requests' \in {requests, marked}
    /\ WorkOn(r, Tail(loop[r].batch), loop[r].pollDue)
    /\ UNCHANGED <<clock, proofs, replicas, main, call, minted, crashes>>

(* Mutant: the loop relies on the shutdown goroutine to mark the row.      *)
RunStopsWithoutDrain(r) ==
    /\ loop[r].pc = "select" /\ Stopping(r)
    /\ loop' = [loop EXCEPT ![r].pc = "off"]
    /\ UNCHANGED <<clock, tables, main, issue, call, minted, faults, crashes>>

(* runContext is done: the loop marks its row draining itself and ends.    *)
RunStops(r) ==
    /\ loop[r].pc = "select" /\ Stopping(r)
    /\ loop' = [loop EXCEPT ![r].pc = "drain"]
    /\ UNCHANGED <<clock, tables, main, issue, call, minted, faults, crashes>>

RunDrains(r) ==
    /\ loop[r].pc = "drain"
    /\ \/ UNCHANGED faults /\ replicas' = SetReplicaDraining(r)
       \/ Fault /\ replicas' \in {replicas, SetReplicaDraining(r)}
    /\ loop' = [loop EXCEPT ![r].pc = "off"]
    /\ UNCHANGED <<clock, proofs, requests, main, issue, call, minted, crashes>>

-----------------------------------------------------------------------------
(* main: SIGTERM, the shutdown goroutine, the end of the process. *)

Signal(r) ==
    /\ r \in Stoppable
    /\ Serving(r)
    /\ main' = [main EXCEPT ![r].pc = "drain", ![r].stopBy = clock + ShutdownTimeout]
    /\ UNCHANGED <<clock, tables, loop, issue, call, minted, faults, crashes>>

MainDrains(r) ==
    /\ main[r].pc = "drain"
    /\ \/ /\ clock <= main[r].stopBy
          /\ replicas' = SetReplicaDraining(r) /\ UNCHANGED faults
       \/ /\ IF clock >= main[r].stopBy THEN UNCHANGED faults ELSE Fault
          /\ replicas' \in {replicas, SetReplicaDraining(r)}
    /\ main' = [main EXCEPT ![r].pc = "shutdown"]
    /\ UNCHANGED <<clock, proofs, requests, loop, issue, call, minted, crashes>>

(* The process ends, with every goroutine in it. *)
Ends(r) ==
    LET here(k) == call[k].at = r /\ Active(k) IN
    /\ main' = [main EXCEPT ![r].pc = "gone", ![r].goneAt = clock]
    /\ loop' = [loop EXCEPT ![r].pc = "off", ![r].batch = <<>>, ![r].stamp = 0]
    /\ issue' = [w \in Worker |->
                    IF w = r \/ (w \in Call /\ here(w)) THEN Idle ELSE issue[w]]
    /\ call' = [k \in Call |-> IF here(k) THEN Finished(k, "lost", {})[k]
                                          ELSE call[k]]

(* server.Shutdown waits for the requests in flight, but not for the loop. *)
ShutdownReturns(r) ==
    /\ main[r].pc = "shutdown"
    /\ \/ clock >= main[r].stopBy
       \/ \A k \in Call : call[k].at = r => ~Active(k)
    /\ Ends(r)
    /\ UNCHANGED <<clock, tables, minted, faults, crashes>>

Crash(r) ==
    /\ Alive(r)
    /\ crashes < MaxCrashes /\ crashes' = crashes + 1
    /\ Ends(r)
    /\ UNCHANGED <<clock, tables, minted, faults>>

-----------------------------------------------------------------------------
(* A request: the handler of confidential-attestation and Router.Resolve.  *)

Step(k, pc) == call' = [call EXCEPT ![k].pc = pc]

Arrives(k) ==
    /\ call[k].pc = "idle"
    /\ Listening(call[k].at)
    /\ clock <= LastCall
    /\ IF call[k].ref = call[k].at
       THEN Step(k, "issue") /\ issue' = [issue EXCEPT ![k] = NewIssue(k)]
       ELSE Step(k, "find") /\ UNCHANGED issue
    /\ UNCHANGED <<clock, tables, main, loop, minted, faults, crashes>>

(* The look-up that comes first, and the one that begins every round of    *)
(* the wait: right after the request is enqueued, then at every tick.      *)
ResolveFind(k, miss, tick) ==
    /\ Succeeds(k)
    /\ LET found == Stored(call[k].ref, call[k].challenge) IN
       call' = IF found # {} THEN Finished(k, "ok", found)
               ELSE [call EXCEPT ![k].pc = miss, ![k].tick = tick]
    /\ UNCHANGED <<clock, tables, main, loop, issue, minted, crashes>>

FindProof(k) == call[k].pc = "find" /\ ResolveFind(k, "replica", 0)

CheckProof(k) ==
    \/ call[k].pc = "check" /\ ResolveFind(k, "queued", call[k].tick)
    \/ /\ call[k].pc = "wait" /\ clock >= call[k].tick
       /\ ResolveFind(k, "queued", NextTick(call[k].tick, PollInterval))

(* Mutant: the age of the heartbeat is not checked. *)
FindReplicaAnyAge(k) ==
    /\ call[k].pc = "replica"
    /\ Succeeds(k)
    /\ LET rows == {row \in replicas : row.ref = call[k].ref}
       IN call' = IF rows = {} THEN Finished(k, "notFound", {})
                  ELSE IF \E row \in rows : row.draining
                  THEN Finished(k, "ownerUnavailable", {})
                  ELSE [call EXCEPT ![k].pc = "enqueue",
                                    ![k].stamp = LocalTime(call[k].at)]
    /\ UNCHANGED <<clock, tables, main, loop, issue, minted, crashes>>

FindReplica(k) ==
    /\ call[k].pc = "replica"
    /\ Succeeds(k)
    /\ LET rows == {row \in replicas : row.ref = call[k].ref}
           now == LocalTime(call[k].at)
           gone(row) == row.draining \/ now - row.lastHeartbeat > StaleAfter
       IN call' = IF rows = {} THEN Finished(k, "notFound", {})
                  ELSE IF \E row \in rows : gone(row)
                  THEN Finished(k, "ownerUnavailable", {})
                  ELSE [call EXCEPT ![k].pc = "enqueue", ![k].stamp = now]
    /\ UNCHANGED <<clock, tables, main, loop, issue, minted, crashes>>

(* Mutant: the request expires when it is made. *)
EnqueuedExpired(k) == EnqueueRequest(call[k].ref, call[k].challenge,
                                     LocalTime(call[k].at), call[k].stamp)

Enqueued(k) == EnqueueRequest(call[k].ref, call[k].challenge,
                              LocalTime(call[k].at), call[k].stamp + RequestTTL)

(* Mutant: the wait has no timeout. *)
EnqueueNoTimeout(k) ==
    /\ call[k].pc = "enqueue"
    /\ Succeeds(k)
    /\ requests' = Enqueued(k)
    /\ call' = [call EXCEPT ![k].pc = "check", ![k].stamp = 0,
                            ![k].tick = clock + PollInterval]
    /\ UNCHANGED <<clock, proofs, replicas, main, loop, issue, minted, crashes>>

Enqueue(k) ==
    /\ call[k].pc = "enqueue"
    /\ Succeeds(k)
    /\ requests' = Enqueued(k)
    /\ call' = [call EXCEPT ![k].pc = "check", ![k].stamp = 0,
                            ![k].deadline = clock + RequestTimeout,
                            ![k].tick = clock + PollInterval]
    /\ UNCHANGED <<clock, proofs, replicas, main, loop, issue, minted, crashes>>

(* A row that is gone is no error: the request keeps waiting. *)
CheckRequest(k) ==
    /\ call[k].pc = "queued"
    /\ Succeeds(k)
    /\ call' = IF \E row \in requests : /\ row.ref = call[k].ref
                                        /\ row.challenge = call[k].challenge
                                        /\ row.status = "failed"
               THEN Finished(k, "failed", {})
               ELSE [call EXCEPT ![k].pc = "wait"]
    /\ UNCHANGED <<clock, tables, main, loop, issue, minted, crashes>>

(* The deadline ends the wait: at the select, or at the statement of a     *)
(* tick that won against it, which ends with the context's error.          *)
TimesOut(k) ==
    /\ call[k].pc = "wait"
    /\ clock >= call[k].deadline
    /\ call' = Finished(k, "timeout", {})
    /\ UNCHANGED <<clock, tables, main, loop, issue, minted, faults, crashes>>

(* A statement of Resolve fails, or the client goes away.                  *)
ResolveFails(k) ==
    /\ call[k].pc \in {"find", "replica", "enqueue", "check", "queued", "wait"}
    /\ Fails(k)
    /\ \/ UNCHANGED requests
       \/ call[k].pc = "enqueue" /\ requests' = Enqueued(k)
    /\ call' = Finished(k, "error", {})
    /\ UNCHANGED <<clock, proofs, replicas, main, loop, issue, minted, crashes>>

-----------------------------------------------------------------------------
(* The clock.  If Prompt, it stands still while a goroutine can take a     *)
(* step: statements take no time, timers are served when they are due and  *)
(* the launcher needs at most MintTime.                                    *)

LoopRests(r) ==
    \/ loop[r].pc = "off"
    \/ loop[r].pc = "select" /\ Serving(r) /\ clock < loop[r].hbDue
                                           /\ clock < loop[r].pollDue
    \/ loop[r].pc = "issue"
CallRests(k) ==
    \/ call[k].pc \in {"idle", "issue", "done"}
    \/ call[k].pc = "wait" /\ clock < call[k].tick /\ clock < call[k].deadline
IssueRests(w) ==
    \/ issue[w].pc = "idle"
    \/ /\ issue[w].pc = "mint"
       /\ clock < issue[w].until /\ clock < Deadline(w)
       /\ clock < issue[w].until - LauncherTimeout + MintTime
MainRests(r) ==
    \/ main[r].pc \in {"new", "serve", "gone"}
    \/ main[r].pc = "shutdown" /\ clock < main[r].stopBy
                               /\ \E k \in Call : call[k].at = r /\ Active(k)

Tick ==
    /\ clock < MaxTime
    /\ Prompt => /\ \A r \in Replica : LoopRests(r) /\ MainRests(r)
                 /\ \A k \in Call : CallRests(k)
                 /\ \A w \in Worker : IssueRests(w)
    /\ clock' = clock + 1
    /\ UNCHANGED <<tables, main, loop, issue, call, minted, faults, crashes>>

(* The end of the modelled time; not a step of the program.                *)
TimeIsUp == clock = MaxTime /\ UNCHANGED vars

-----------------------------------------------------------------------------

IssueStep(w) == IssueFind(w) \/ IssueMint(w) \/ IssuePut(w) \/ IssueRead(w)
                \/ IssueFails(w)
LoopStep(r) == HeartbeatTick(r) \/ PollTick(r) \/ Heartbeat(r) \/ Cleanup(r)
               \/ Record(r) \/ RunStops(r) \/ RunDrains(r)
ResolveStep(k) == FindProof(k) \/ FindReplica(k) \/ Enqueue(k) \/ CheckProof(k)
                  \/ CheckRequest(k) \/ TimesOut(k) \/ ResolveFails(k)
MainStep(r) == MainDrains(r) \/ ShutdownReturns(r)

Next ==
    \/ \E r \in Replica : Start(r) \/ StartFails(r) \/ LoopStep(r)
                          \/ Signal(r) \/ MainStep(r) \/ Crash(r)
    \/ \E k \in Call : Arrives(k) \/ ResolveStep(k)
    \/ \E w \in Worker : IssueStep(w)
    \/ Tick
    \/ TimeIsUp

Spec == Init /\ [][Next]_vars

-----------------------------------------------------------------------------
(* Safety. *)

(* attestation_proofs never holds two bundles for one (proof_ref, nonce),  *)
(* however many goroutines of the owner insert one at the same time        *)
(* (PostgresStore.Put).                                                    *)
UniqueProofs ==
    \A a, b \in proofs : a.ref = b.ref /\ a.challenge = b.challenge => a = b

(* Every bundle a client was given is the archived one for what it asked:  *)
(* Issue returns what Put read back, never the token it minted itself      *)
(* (cache.go:129-135).                                                     *)
AnswersArchived ==
    \A k \in Call : call[k].result = "ok" =>
        /\ call[k].answer # {}
        /\ call[k].answer \subseteq Stored(call[k].ref, call[k].challenge)

(* Two clients that asked for the same proof hold the same bundle,         *)
(* whichever replicas answered them and by whichever of the three paths:   *)
(* Issue in a handler, Issue in the loop, or the table.                    *)
AnswersAgree ==
    \A j, k \in Call :
        /\ call[j].result = "ok" /\ call[k].result = "ok"
        /\ call[j].ref = call[k].ref /\ call[j].challenge = call[k].challenge
        => call[j].answer = call[k].answer

(* A request row marked complete has its proof in the table, even when the *)
(* row was deleted as expired and enqueued again while the loop was at     *)
(* work on the old one (CompleteRequest goes by the key alone).            *)
CompleteHasProof ==
    \A row \in requests : row.status = "complete" =>
        Stored(row.ref, row.challenge) # {}

(* The loop asks the launcher for a token only when the proof is not in    *)
(* the table, unless a request to the owner itself stored it meanwhile: a  *)
(* request claimed again after its lease finds the proof the first attempt *)
(* stored (Cache.Issue looks before it mints).                             *)
RoutedMintNeeded ==
    \A r \in Replica :
        /\ issue[r].pc \in {"mint", "put"}
        /\ Stored(r, Nonce(r)) # {}
        => \E k \in Call : /\ call[k].at = r /\ call[k].ref = r
                           /\ call[k].challenge = Nonce(r)
                           /\ call[k].pc # "idle"

(* A heartbeat that was in flight when the shutdown goroutine marked the   *)
(* replica draining clears the mark; the loop's own Drain, its last        *)
(* statement, sets it again.  So while the process still waits for its     *)
(* clients, a loop that ended has left the row draining.                   *)
DrainSurvivesHeartbeat ==
    \A r \in Replica :
        main[r].pc = "shutdown" /\ loop[r].pc = "off" /\ faults = 0
        => \A row \in replicas : row.ref = r => row.draining

(* No request is routed to a process that ended more than StaleAfter ago,  *)
(* give or take the skew of its clock, whatever heartbeat of it landed     *)
(* last (Resolve's check of the row's age, with the receiver's clock).     *)
DeadOwnerForgotten ==
    \A k \in Call :
        call[k].pc = "enqueue" /\ main[call[k].ref].pc = "gone"
        => call[k].stamp <= main[call[k].ref].goneAt + Skew[call[k].ref] + StaleAfter

-----------------------------------------------------------------------------
(* Promises that need a prompt environment. *)

(* How long the launcher may keep the loop from its select after one claim, *)
(* how far apart two claims are at most as long as requests are waiting,   *)
(* and how long all the requests take if one claim follows the other.      *)
RoundTime == BatchSize * MintTime
Period == IF PollInterval > RoundTime THEN PollInterval ELSE RoundTime
Backlog == Period * (Cardinality(Call) + BatchSize - 1)

(* The options suffice for the requests there are and for clocks that far  *)
(* apart.  A heartbeat may have to wait for the tokens of all of them: the *)
(* select may prefer the tick of the poll every time.                      *)
InTime ==
    /\ Prompt /\ IsFiniteSet(Call)
    /\ MintTime < LauncherTimeout
    /\ Backlog + BatchSize * (RoundTime + PollInterval) < BatchSize * RequestTimeout
    /\ \A a, r \in Replica :
          /\ Backlog < BatchSize * (RequestTTL + Skew[a] - Skew[r])
          /\ HeartbeatInterval + MintTime * Cardinality(Call) + Skew[a] - Skew[r]
                <= StaleAfter

(* As long as no statement fails, a request for the proof of a replica     *)
(* that is online is answered with the proof: it neither times out nor is  *)
(* told that the owner is gone (customer-verification-guide.md:122).       *)
OnlineOwnerAnswers ==
    \A k \in Call :
        /\ call[k].pc = "done" /\ faults = 0
        /\ Serving(call[k].ref) /\ Alive(call[k].at)
        => call[k].result \in {"ok", "notFound"}

(* router.go:73-74: a claim never takes more work than can finish within   *)
(* its lease.                                                              *)
WorkFitsLease ==
    \A r \in Replica :
        issue[r].pc # "idle" =>
            \A row \in requests :
                /\ row.ref = r /\ row.challenge = Nonce(r)
                /\ row.status = "processing"
                => LocalTime(r) <= row.leaseUntil

-----------------------------------------------------------------------------
(* Liveness.  Goroutines are scheduled, statements end, and time passes;   *)
(* nothing is assumed of clients, signals, crashes or failures.            *)

Fairness ==
    /\ \A r \in Replica : WF_vars(LoopStep(r)) /\ WF_vars(MainStep(r))
    /\ \A k \in Call : WF_vars(ResolveStep(k))
    /\ \A w \in Worker : WF_vars(IssueStep(w))
    /\ WF_vars(Tick)

FairSpec == Spec /\ Fairness

(* Every request that arrived is answered, or lost with its process.       *)
EveryCallReturns == \A k \in Call : Active(k) ~> call[k].pc = "done"

(* The row of a request that nobody works on any more (the statement that  *)
(* claimed or finished it failed) is claimed again once its lease is over, *)
(* as long as its owner lives and the row does not expire (ClaimRequests). *)
Unfinished(r, c) == \E row \in requests : /\ row.ref = r /\ row.challenge = c
                                          /\ row.status \in {"pending", "processing"}
LeaseRecovers ==
    \A r \in Replica, c \in Challenge :
        /\ Unfinished(r, c)
        /\ clock + PollInterval + LeaseDuration + 2 * LauncherTimeout < MaxTime
        ~> ~Unfinished(r, c) \/ ~Serving(r)

(* The requests that a dead owner leaves behind are deleted by whichever   *)
(* replica still runs (DeleteExpiredRequests takes every owner's rows).    *)
OrphansVanish ==
    \A r \in Replica, c \in Challenge :
        /\ main[r].pc = "gone" /\ Unfinished(r, c)
        /\ clock + RequestTTL + 2 * HeartbeatInterval <= MaxTime
        ~> ~Unfinished(r, c) \/ \A s \in Replica : ~Serving(s)

-----------------------------------------------------------------------------
(* The router implements the ledger: storing a bundle is Issue, a request  *)
(* that is answered with one is Answer, and everything else is a stutter.  *)
KeyOf(b) == <<b.ref, b.challenge>>

Ledger == INSTANCE ProofLedger WITH
    Client <- Call, Key <- Replica \X Challenge,
    issued <- proofs,
    asked <- [k \in Call |-> <<call[k].ref, call[k].challenge>>],
    given <- [k \in Call |-> call[k].answer]

ImplementsLedger == Ledger!Spec

=============================================================================
