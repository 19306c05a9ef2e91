-------------------------- MODULE RouterOnlineProofs --------------------------
(***************************************************************************)
(* The proof that an owner that is online answers: requests for its proof  *)
(* do not time out, and nobody takes it for dead, as long as no statement  *)
(* fails.  For every set of replicas and nonces, any finite number of      *)
(* requests, any skews, and every choice of the router's options that      *)
(* satisfies InTime.                                                       *)
(*                                                                         *)
(* Steady is what always holds in a prompt environment; Fluent is what     *)
(* holds until the first failure.  The argument counts work, not steps:    *)
(* the requests that may still need the loop (Load) and those in its hands *)
(* (InHand) only get less, and every one of them costs the loop MintTime   *)
(* at most.                                                                *)
(***************************************************************************)
EXTENDS ProofRouterProofs, FiniteSetTheorems

-----------------------------------------------------------------------------
(* The owner that is online.                                               *)

Demand == Cardinality(Call)

(* What InTime says, without products of two constants where one will do.  *)
LEMMA TimeFacts ==
    ASSUME InTime
    PROVE  /\ Demand \in Nat /\ RoundTime \in Nat /\ Period \in Nat /\ Backlog \in Int
           /\ MintTime \in Nat /\ PollInterval \in Nat \ {0} /\ BatchSize \in Nat \ {0}
           /\ PollInterval <= Period /\ RoundTime <= Period /\ MintTime <= RoundTime
           /\ MintTime < LauncherTimeout /\ RoundTime + PollInterval < RequestTimeout
           /\ Backlog = Period * (Demand - 1) + BatchSize * Period
  <1>1. /\ Demand \in Nat /\ MintTime \in Nat /\ PollInterval \in Nat \ {0}
        /\ BatchSize \in Nat \ {0} /\ RequestTimeout \in Nat \ {0}
    BY ConstantTypes, EnvironmentAssumption, FS_CardinalityType DEF InTime, Demand
  <1>2. RoundTime \in Nat /\ MintTime <= RoundTime
    BY <1>1 DEF RoundTime
  <1>3. Period \in Nat /\ PollInterval <= Period /\ RoundTime <= Period
    BY <1>1, <1>2 DEF Period
  <1>4. \A p, b \in Nat, n \in Int : p * (n + b - 1) = p * (n - 1) + b * p
    OBVIOUS
  <1>5. Backlog = Period * (Demand - 1) + BatchSize * Period
    BY <1>1, <1>3, <1>4 DEF Backlog, Demand
  <1>6. Backlog \in Int /\ Backlog >= 0
    <2>1. Demand + BatchSize - 1 \in Nat
      BY <1>1
    <2>2. \A x, y \in Nat : x * y \in Nat
      OBVIOUS
    <2> QED
      BY <1>3, <2>1, <2>2 DEF Backlog, Demand
  <1>7. RoundTime + PollInterval < RequestTimeout
    <2>1. BatchSize * (RoundTime + PollInterval) < BatchSize * RequestTimeout
      <3>1. /\ BatchSize * (RoundTime + PollInterval) \in Int
            /\ BatchSize * RequestTimeout \in Int
        BY <1>1, <1>2
      <3> QED
        BY <1>6, <3>1 DEF InTime
    <2>2. \A b \in Nat \ {0}, x, y \in Int : b * x < b * y => x < y
      OBVIOUS
    <2> QED
      BY <1>1, <1>2, <2>1, <2>2
  <1> QED
    BY <1>1, <1>2, <1>3, <1>5, <1>6, <1>7 DEF InTime

(* Products are monotonic, and distribute.                                 *)
LEMMA Products ==
    ASSUME NEW b \in Nat, NEW x \in Int, NEW y \in Int
    PROVE  /\ b * x \in Int
           /\ b * (x + y) = b * x + b * y
           /\ b * (x - y) = b * x - b * y
           /\ x <= y => b * x <= b * y
           /\ b # 0 /\ x < y => b * x < b * y
           /\ b # 0 /\ b * x < b * y => x < y
  OBVIOUS

(* The next tick of a ticker lies ahead, by a period at most.              *)
LEMMA NextTickValue ==
    ASSUME clock \in Nat, NEW due \in Int, NEW period \in Nat \ {0}, due <= clock
    PROVE  /\ NextTick(due, period) \in Int
           /\ clock < NextTick(due, period) /\ NextTick(due, period) <= clock + period
  <1> DEFINE late == clock - due
             missed == late \div period
  <1>1. late \in Nat
    OBVIOUS
  <1>2. missed \in Int /\ period * missed <= late /\ late < period * (missed + 1)
    BY <1>1
  <1>3. NextTick(due, period) = due + period * (1 + missed)
    BY DEF NextTick
  <1> HIDE DEF missed
  <1>4. period * (1 + missed) = period + period * missed /\ period * missed \in Int
        /\ period * (missed + 1) = period + period * missed
    BY <1>2
  <1> QED
    BY <1>1, <1>2, <1>3, <1>4

(* Who moves a request: itself, the Issue it is in, or the end of the      *)
(* process it is at.                                                       *)
LEMMA CallActor ==
    ASSUME TypeOK, Coupled, [Next]_vars, NEW k \in Call
    PROVE  \/ call'[k] = call[k]
           \/ Arrives(k)
           \/ ResolveStep(k)
           \/ call[k].pc = "issue" /\ call'[k].pc = "done" /\ IssueStep(k)
           \/ \E r \in Replica : /\ Ends(r) /\ call[k].at = r /\ Active(k)
                                 /\ call'[k].pc = "done"
  <1>1. CASE \E j \in Call : Arrives(j)
    BY <1>1 DEF Arrives, Step, TypeOK, CallState
  <1>2. CASE \E j \in Call : ResolveStep(j)
    BY <1>2, ResolveFrame
  <1>3. CASE \E w \in Worker : IssueStep(w)
    <2>1. PICK w \in Worker : IssueStep(w)
      BY <1>3
    <2>2. issue[w].pc # "idle"
      BY <2>1 DEF IssueStep, IssueFind, IssueMint, IssuePut, IssueRead, IssueFails
    <2>3. UNCHANGED call \/ \E bundles : IssueReturns(w, bundles)
      BY <2>1 DEF IssueStep, IssueFind, IssueMint, IssuePut, IssueRead, IssueFails
    <2>4. CASE w = k
      BY <2>1, <2>2, <2>3, <2>4, IssueReturnsValue DEF Worker, Coupled
    <2>5. CASE w # k
      BY <2>2, <2>3, <2>5, IssueReturnsValue DEF Worker
    <2> QED
      BY <2>4, <2>5
  <1>4. CASE \E r \in Replica : Ends(r)
    <2>1. PICK r \in Replica : Ends(r)
      BY <1>4
    <2>2. Finished(k, "lost", {})[k].pc = "done"
      BY FinishedValue
    <2> QED
      BY <2>1, <2>2 DEF Ends
  <1>5. CASE UNCHANGED call
    BY <1>5
  <1> QED
    BY <1>1, <1>2, <1>3, <1>4, <1>5, ZenonT(90)
    DEF Next, vars, TimeIsUp, Tick, Start, StartFails, LoopStep, HeartbeatTick, PollTick,
        Heartbeat, Cleanup, Record, RunStops, RunDrains, Signal, MainStep, MainDrains,
        ShutdownReturns, Crash

(* The steps of Resolve, by what becomes of the request.                   *)
LEMMA ResolveValues ==
    ASSUME TypeOK, NEW k \in Call
    PROVE  /\ FindProof(k) => call'[k].pc \in {"replica", "done"}
           /\ FindReplica(k) => \/ call'[k].pc = "enqueue" /\ call'[k].deadline = call[k].deadline
                                \/ call'[k].pc = "done"
           /\ Enqueue(k) => /\ call'[k].pc = "check"
                            /\ call'[k].deadline = clock + RequestTimeout
                            /\ call'[k].tick = clock + PollInterval
           /\ CheckProof(k) => \/ call'[k].pc = "done"
                               \/ call'[k].pc = "queued" /\ call'[k].deadline = call[k].deadline
           /\ CheckRequest(k) => \/ call'[k].pc = "done"
                                 \/ /\ call'[k].pc = "wait" /\ call'[k].tick = call[k].tick
                                    /\ call'[k].deadline = call[k].deadline
           /\ TimesOut(k) \/ ResolveFails(k) => call'[k].pc = "done"
           /\ Arrives(k) => /\ call'[k].pc \in {"find", "issue"}
                            /\ call'[k].deadline = call[k].deadline
  <1>0. \A result, answer : call' = Finished(k, result, answer) => call'[k].pc = "done"
    BY FinishedValue
  <1>1. ASSUME NEW miss \in {"replica", "queued"}, NEW tick, ResolveFind(k, miss, tick)
        PROVE  \/ call'[k].pc = "done"
               \/ call'[k].pc = miss /\ call'[k].deadline = call[k].deadline
    <2>1. CASE call' = [call EXCEPT ![k].pc = miss, ![k].tick = tick]
      BY <2>1, ZenonT(90) DEF TypeOK, CallState
    <2> QED
      BY <1>0, <1>1, <2>1 DEF ResolveFind
  <1>2. FindProof(k) => call'[k].pc \in {"replica", "done"}
    BY <1>1 DEF FindProof
  <1>3. FindReplica(k) => \/ call'[k].pc = "enqueue" /\ call'[k].deadline = call[k].deadline
                          \/ call'[k].pc = "done"
    <2> DEFINE now == LocalTime(call[k].at)
    <2>1. CASE call' = [call EXCEPT ![k].pc = "enqueue", ![k].stamp = now]
      <3> HIDE DEF now
      <3> QED
        BY <2>1, ZenonT(90) DEF TypeOK, CallState
    <2> QED
      BY <1>0, <2>1 DEF FindReplica
  <1>4. Enqueue(k) => /\ call'[k].pc = "check"
                      /\ call'[k].deadline = clock + RequestTimeout
                      /\ call'[k].tick = clock + PollInterval
    <2> DEFINE until == clock + RequestTimeout
               next == clock + PollInterval
    <2> SUFFICES ASSUME Enqueue(k)
                 PROVE  call'[k].pc = "check" /\ call'[k].deadline = until /\ call'[k].tick = next
      OBVIOUS
    <2>1. call' = [call EXCEPT ![k].pc = "check", ![k].stamp = 0,
                               ![k].deadline = until, ![k].tick = next]
      BY DEF Enqueue
    <2> HIDE DEF until, next
    <2> QED
      BY <2>1, ZenonT(90) DEF TypeOK, CallState
  <1>5. CheckProof(k) => \/ call'[k].pc = "done"
                         \/ call'[k].pc = "queued" /\ call'[k].deadline = call[k].deadline
    BY <1>1 DEF CheckProof
  <1>6. CheckRequest(k) => \/ call'[k].pc = "done"
                           \/ /\ call'[k].pc = "wait" /\ call'[k].tick = call[k].tick
                              /\ call'[k].deadline = call[k].deadline
    <2>1. CASE call' = [call EXCEPT ![k].pc = "wait"]
      BY <2>1, ZenonT(90) DEF TypeOK, CallState
    <2> QED
      BY <1>0, <2>1, Zenon DEF CheckRequest
  <1>7. TimesOut(k) \/ ResolveFails(k) => call'[k].pc = "done"
    BY <1>0 DEF TimesOut, ResolveFails
  <1>8. Arrives(k) => call'[k].pc \in {"find", "issue"} /\ call'[k].deadline = call[k].deadline
    BY DEF Arrives, Step, TypeOK, CallState
  <1> QED
    BY <1>2, <1>3, <1>4, <1>5, <1>6, <1>7, <1>8

(* What a step does to attestation_requests.                               *)
Deletes == \E r \in Replica : /\ loop[r].pc = "cleanup"
                              /\ requests' = DeleteExpiredRequests(loop[r].stamp)
Claims(r, q) ==
    LET now == loop[r].pollDue + Skew[r] IN
    /\ PollTick(r) /\ Serving(r)
    /\ q \in Batch(Claimable(r, now))
    /\ requests' = ClaimRequests({q[i] : i \in DOMAIN q}, now + LeaseDuration)
Records(r) == LET marked == MarkRequest(r, Head(loop[r].batch),
                               IF loop[r].pc = "complete" THEN "complete" ELSE "failed")
              IN Record(r) /\ requests' = marked
Inserts(k) == /\ Enqueue(k) \/ ResolveFails(k)
              /\ call[k].pc = "enqueue" /\ requests' = Enqueued(k)

(* Every statement on the table is one of these, whoever makes it.         *)
LEMMA RequestsStep ==
    ASSUME TypeOK, [Next]_vars
    PROVE  \/ UNCHANGED requests
           \/ Deletes
           \/ \E r \in Replica : \E q : Claims(r, q)
           \/ \E r \in Replica : Records(r)
           \/ \E k \in Call : Inserts(k)
  <1> USE DEF tables
  <1>1. ASSUME NEW r \in Replica, LoopStep(r)
        PROVE  \/ UNCHANGED requests \/ Deletes \/ (\E q : Claims(r, q)) \/ Records(r)
    <2>1. CASE PollTick(r)
      <3>1. CASE Cancelled(r)
        BY <2>1, <3>1 DEF PollTick
      <3>2. CASE ~Cancelled(r)
        <4>1. Serving(r)
          BY <3>2 DEF Cancelled
        <4>2. PICK q \in Batch(Claimable(r, loop[r].pollDue + Skew[r])) :
                 \/ UNCHANGED requests
                 \/ requests' = ClaimRequests({q[i] : i \in DOMAIN q},
                                   loop[r].pollDue + Skew[r] + LeaseDuration)
          BY <2>1, <3>2 DEF PollTick
        <4> QED
          BY <2>1, <4>1, <4>2 DEF Claims
      <3> QED
        BY <3>1, <3>2
    <2>2. CASE Record(r)
      BY <2>2 DEF Record, Records
    <2>3. CASE Cleanup(r)
      BY <2>3 DEF Cleanup, Deletes
    <2>4. CASE HeartbeatTick(r) \/ Heartbeat(r) \/ RunStops(r) \/ RunDrains(r)
      BY <2>4 DEF HeartbeatTick, Heartbeat, RunStops, RunDrains
    <2> QED
      BY <1>1, <2>1, <2>2, <2>3, <2>4 DEF LoopStep
  <1>2. ASSUME NEW r \in Replica,
               Start(r) \/ StartFails(r) \/ Signal(r) \/ MainStep(r) \/ Crash(r)
        PROVE  UNCHANGED requests
    BY <1>2 DEF Start, StartFails, Signal, MainStep, MainDrains, ShutdownReturns, Crash
  <1>3. ASSUME NEW k \in Call, Arrives(k) \/ ResolveStep(k)
        PROVE  UNCHANGED requests \/ Inserts(k)
    BY <1>3 DEF Inserts, Arrives, ResolveStep, FindProof, FindReplica, Enqueue, CheckProof,
                CheckRequest, TimesOut, ResolveFails, ResolveFind
  <1>4. ASSUME NEW w \in Worker, IssueStep(w) PROVE UNCHANGED requests
    BY <1>4 DEF IssueStep, IssueFind, IssueMint, IssuePut, IssueRead, IssueFails
  <1>5. CASE Tick \/ UNCHANGED vars
    BY <1>5 DEF Tick, vars
  <1> QED
    BY <1>1, <1>2, <1>3, <1>4, <1>5 DEF Next, TimeIsUp

(* The rows a claim, a record or an insert leaves.                         *)
LEMMA ClaimedRows ==
    ASSUME TypeOK, NEW taken, NEW until, NEW row \in ClaimRequests(taken, until)
    PROVE  \/ row \in requests /\ row \notin taken
           \/ /\ row.status = "processing"
              /\ \E old \in requests \cap taken : /\ old.ref = row.ref
                                                  /\ old.challenge = row.challenge
  <1>1. PICK old \in requests :
           row = IF old \in taken
                 THEN [old EXCEPT !.status = "processing", !.leaseUntil = until] ELSE old
    BY DEF ClaimRequests
  <1>2. CASE old \in taken
    <2>1. row.status = "processing" /\ old.ref = row.ref /\ old.challenge = row.challenge
      BY <1>1, <1>2, ZenonT(90) DEF TypeOK, RequestRow
    <2> QED
      BY <1>2, <2>1
  <1>3. CASE old \notin taken
    BY <1>1, <1>3
  <1> QED
    BY <1>2, <1>3

(* CompleteRequest and FailRequest change the rows of one key.             *)
LEMMA MarkedRows ==
    ASSUME TypeOK, NEW r, NEW c, NEW status, NEW row \in MarkRequest(r, c, status)
    PROVE  \/ row \in requests /\ ~(row.ref = r /\ row.challenge = c)
           \/ /\ row.status = status /\ row.ref = r /\ row.challenge = c
              /\ \E old \in requests : old.ref = r /\ old.challenge = c
  <1>1. PICK old \in requests :
           row = IF old.ref = r /\ old.challenge = c
                 THEN [old EXCEPT !.status = status, !.leaseUntil = 0] ELSE old
    BY DEF MarkRequest
  <1>2. CASE old.ref = r /\ old.challenge = c
    <2>1. row.status = status /\ old.ref = row.ref /\ old.challenge = row.challenge
      BY <1>1, <1>2, ZenonT(90) DEF TypeOK, RequestRow
    <2> QED
      BY <1>2, <2>1
  <1>3. CASE ~(old.ref = r /\ old.challenge = c)
    BY <1>1, <1>3
  <1> QED
    BY <1>2, <1>3

(* The row a request inserts for itself.                                   *)
NewRow(k) == [ref |-> call[k].ref, challenge |-> call[k].challenge, status |-> "pending",
              requestedAt |-> LocalTime(call[k].at),
              expiresAt |-> call[k].stamp + RequestTTL, leaseUntil |-> 0]

(* A row that is there stays as it is; otherwise it is this one.           *)
LEMMA InsertedRows ==
    ASSUME NEW k \in Call, requests' = Enqueued(k)
    PROVE  /\ \/ /\ UNCHANGED requests
                 /\ \E row \in requests : /\ row.ref = call[k].ref
                                          /\ row.challenge = call[k].challenge
              \/ requests' = requests \cup {NewRow(k)}
           /\ requests \subseteq requests' /\ requests' \subseteq requests \cup {NewRow(k)}
  BY DEF Enqueued, EnqueueRequest, NewRow

-----------------------------------------------------------------------------
(* The requests for the proofs of r that the loop of r has not claimed:    *)
(* those that may still reach the table, and those that wait there.        *)
Heading(r) == {k \in Call : /\ call[k].ref = r
                            /\ call[k].pc \in {"idle", "find", "replica", "enqueue"}}
Pending(r) == {row \in requests : row.ref = r /\ row.status = "pending"}
Load(r) == Cardinality(Heading(r)) + Cardinality(Pending(r))

(* Every waiting row stood for a request that was on its way.              *)
LEMMA LoadFrame ==
    ASSUME TypeOK, Coupled, [Next]_vars, NEW r \in Replica
    PROVE  /\ Heading(r)' \subseteq Heading(r)
           /\ \/ Pending(r)' \subseteq Pending(r)
              \/ \E k \in Call : /\ Inserts(k) /\ k \in Heading(r) /\ k \notin Heading(r)'
                                 /\ Pending(r)' \subseteq Pending(r) \cup {NewRow(k)}
  <1>1. Heading(r)' \subseteq Heading(r)
    <2> SUFFICES ASSUME NEW k \in Call, call'[k].ref = r,
                        call'[k].pc \in {"idle", "find", "replica", "enqueue"}
                 PROVE  k \in Heading(r)
      BY DEF Heading
    <2>1. call[k].ref = r
      BY CallStep DEF SameAsk
    <2>2. call[k].pc \in {"idle", "find", "replica", "enqueue"}
      BY CallActor, ResolveValues
         DEF Arrives, ResolveStep, FindProof, FindReplica, Enqueue, CheckProof, CheckRequest
    <2> QED
      BY <2>1, <2>2 DEF Heading
  <1>2. CASE UNCHANGED requests \/ Deletes
    BY <1>1, <1>2 DEF Pending, Deletes, DeleteExpiredRequests
  <1>3. ASSUME NEW s \in Replica, NEW q, Claims(s, q) PROVE Pending(r)' \subseteq Pending(r)
    BY <1>3, ClaimedRows, Zenon DEF Claims, Pending
  <1>4. ASSUME NEW s \in Replica, Records(s) PROVE Pending(r)' \subseteq Pending(r)
    BY <1>4, MarkedRows DEF Records, Pending
  <1>5. ASSUME NEW k \in Call, Inserts(k)
        PROVE  \/ Pending(r)' \subseteq Pending(r)
               \/ /\ Inserts(k) /\ k \in Heading(r) /\ k \notin Heading(r)'
                  /\ Pending(r)' \subseteq Pending(r) \cup {NewRow(k)}
    <2>1. requests' \subseteq requests \cup {NewRow(k)} /\ NewRow(k).ref = call[k].ref
      BY <1>5, InsertedRows DEF Inserts, NewRow
    <2>2. call'[k].pc \in {"check", "done"}
      BY <1>5, ResolveValues DEF Inserts
    <2>3. call[k].ref = r => k \in Heading(r) /\ k \notin Heading(r)'
      BY <1>5, <2>2 DEF Inserts, Heading
    <2> QED
      BY <1>5, <2>1, <2>3 DEF Pending
  <1> QED
    BY <1>1, <1>2, <1>3, <1>4, <1>5, RequestsStep

(* So the load only goes down, by the size of every batch the loop claims. *)
LEMMA LoadStep ==
    ASSUME TypeOK, Coupled, [Next]_vars, NEW r \in Replica,
           IsFiniteSet(Call), IsFiniteSet(Pending(r))
    PROVE  /\ IsFiniteSet(Pending(r)')
           /\ Load(r) \in Nat /\ Load(r)' \in Nat /\ Load(r)' <= Load(r)
  <1> DEFINE h == Cardinality(Heading(r))
             p == Cardinality(Pending(r))
  <1>1. IsFiniteSet(Heading(r)) /\ IsFiniteSet(Heading(r)')
    BY FS_Subset DEF Heading
  <1>2. h \in Nat /\ h' \in Nat /\ p \in Nat
    BY <1>1, FS_CardinalityType
  <1>3. CASE Pending(r)' \subseteq Pending(r)
    <2>1. IsFiniteSet(Pending(r)') /\ p' <= p /\ p' \in Nat
      BY <1>3, FS_Subset, FS_CardinalityType
    <2>2. h' <= h
      BY <1>1, LoadFrame, FS_Subset
    <2> QED
      BY <1>2, <2>1, <2>2 DEF Load
  <1>4. ASSUME NEW k, k \in Heading(r), k \notin Heading(r)',
               Pending(r)' \subseteq Pending(r) \cup {NewRow(k)}
        PROVE  IsFiniteSet(Pending(r)') /\ p' \in Nat /\ h' + p' <= h + p
    <2>1. /\ IsFiniteSet(Pending(r) \cup {NewRow(k)})
          /\ Cardinality(Pending(r) \cup {NewRow(k)}) <= p + 1
      <3> DEFINE rows == Pending(r)
                 new == NewRow(k)
      <3>1. IsFiniteSet(rows) /\ Cardinality(rows) \in Nat
        BY <1>2
      <3> HIDE DEF rows, new
      <3>2. IsFiniteSet(rows \cup {new}) /\ Cardinality(rows \cup {new}) <= Cardinality(rows) + 1
        <4>1. /\ IsFiniteSet(rows \cup {new})
              /\ Cardinality(rows \cup {new})
                   = IF new \in rows THEN Cardinality(rows) ELSE Cardinality(rows) + 1
          BY <3>1, FS_AddElement, Zenon
        <4> QED
          BY <3>1, <4>1
      <3> QED
        BY <3>2 DEF rows, new
    <2>2. /\ IsFiniteSet(Pending(r)') /\ p' <= p + 1 /\ p' \in Nat
      <3>1. Cardinality(Pending(r) \cup {NewRow(k)}) \in Nat
        BY <2>1, FS_CardinalityType
      <3>2. IsFiniteSet(Pending(r)') /\ p' <= Cardinality(Pending(r) \cup {NewRow(k)})
        BY <1>4, <2>1, FS_Subset
      <3> QED
        BY <1>2, <2>1, <3>1, <3>2, FS_CardinalityType
    <2>3. h' <= h - 1
      <3>1. IsFiniteSet(Heading(r) \ {k}) /\ Cardinality(Heading(r) \ {k}) = h - 1
        BY <1>1, <1>4, FS_RemoveElement
      <3>2. Heading(r)' \subseteq Heading(r) \ {k}
        BY <1>4, LoadFrame
      <3> QED
        BY <3>1, <3>2, FS_Subset
    <2> QED
      BY <1>2, <2>2, <2>3
  <1> QED
    BY <1>2, <1>3, <1>4, LoadFrame DEF Load

(* A claim takes as many rows as it returns, and BatchSize if any is left. *)
LEMMA BatchFacts ==
    ASSUME NEW rows, NEW q \in Batch(rows), NEW taken,
           \A row : row \in taken <=> \E i \in DOMAIN q : row = q[i]
    PROVE  \E n \in 0..BatchSize :
              /\ q \in [1..n -> rows]
              /\ taken \subseteq rows /\ IsFiniteSet(taken) /\ Cardinality(taken) = n
              /\ rows \ taken # {} => n = BatchSize
  <1>1. PICK n \in 0..BatchSize : q \in [1..n -> rows]
    BY DEF Batch
  <1>2. n \in Nat /\ BatchSize \in Nat
    BY <1>1, ConstantTypes
  <1>3. /\ \A i, j \in DOMAIN q : i < j => q[i] # q[j]
        /\ \A row \in rows \ taken : Len(q) = BatchSize
    BY DEF Batch
  <1>4. DOMAIN q = 1..n /\ Len(q) = n
    BY <1>1, <1>2
  <1>5. \A i, j \in DOMAIN q : q[i] = q[j] => i = j
    BY <1>3, <1>4
  <1>6. q \in Bijection(1..n, taken)
    BY <1>1, <1>4, <1>5 DEF Bijection, Injection, Surjection, IsInjective
  <1>7. IsFiniteSet(1..n) /\ Cardinality(1..n) = n
    BY <1>2, FS_Interval
  <1>8. IsFiniteSet(taken) /\ Cardinality(taken) = n
    <2> QED
      BY <1>6, <1>7, FS_Bijection DEF ExistsBijection
  <1>9. taken \subseteq rows /\ (rows \ taken # {} => n = BatchSize)
    BY <1>1, <1>3, <1>4
  <1> QED
    BY <1>1, <1>8, <1>9

(* What the loop of r has claimed and not recorded yet.                    *)
Claimed(r) == {loop[r].batch[i] : i \in DOMAIN loop[r].batch}

(* A claim of pending rows moves them from the table's load to the loop's. *)
LEMMA ClaimStep ==
    ASSUME TypeOK, NEW r \in Replica, PollTick(r), Serving(r), faults' = 0,
           IsFiniteSet(Call), IsFiniteSet(Pending(r)),
           Claimable(r, loop[r].pollDue + Skew[r]) \subseteq Pending(r)
    PROVE  \E taken \in SUBSET Pending(r), batch \in Seq(Challenge) :
              /\ Len(batch) \in 0..BatchSize
              /\ Load(r)' = Load(r) - Len(batch)
              /\ Pending(r)' = Pending(r) \ taken
              /\ requests' = ClaimRequests(taken, loop[r].pollDue + Skew[r] + LeaseDuration)
              /\ Claimable(r, loop[r].pollDue + Skew[r]) \ taken # {}
                    => Len(batch) = BatchSize
              /\ {batch[i] : i \in DOMAIN batch} = {row.challenge : row \in taken}
              /\ WorkOn(r, batch, NextTick(loop[r].pollDue, PollInterval))
  <1> DEFINE now == loop[r].pollDue + Skew[r]
             due == NextTick(loop[r].pollDue, PollInterval)
             rows == Claimable(r, now)
  <1>1. PICK q \in Batch(rows) :
           /\ requests' = ClaimRequests({q[i] : i \in DOMAIN q}, now + LeaseDuration)
           /\ WorkOn(r, [i \in DOMAIN q |-> q[i].challenge], due)
    <2>1. ~Cancelled(r) /\ ~Fault
      BY DEF Cancelled, Fault, TypeOK
    <2> QED
      BY <2>1 DEF PollTick
  <1> DEFINE taken == {q[i] : i \in DOMAIN q}
             batch == [i \in DOMAIN q |-> q[i].challenge]
  <1>2. PICK n \in 0..BatchSize :
           /\ q \in [1..n -> rows]
           /\ taken \subseteq rows /\ IsFiniteSet(taken) /\ Cardinality(taken) = n
           /\ rows \ taken # {} => n = BatchSize
    <2>1. \A row : row \in taken <=> \E i \in DOMAIN q : row = q[i]
      OBVIOUS
    <2>2. q \in Batch(rows)
      BY <1>1
    <2> HIDE DEF rows, taken
    <2> QED
      BY <2>1, <2>2, BatchFacts, Zenon
  <1>3. n \in Nat
    BY <1>2, ConstantTypes
  <1>4. batch \in Seq(Challenge) /\ Len(batch) = n /\ DOMAIN batch = 1..n
    <2>1. \A row \in rows : row.challenge \in Challenge
      BY DEF Claimable, TypeOK, RequestRow
    <2> QED
      BY <1>2, <1>3, <2>1
  <1>5. {batch[i] : i \in DOMAIN batch} = {row.challenge : row \in taken}
    BY <1>2, <1>3
  <1>6. taken \subseteq Pending(r)
    BY <1>2
  <1>7. Pending(r)' = Pending(r) \ taken
    <2>1. ASSUME NEW row, row \in Pending(r)' PROVE row \in Pending(r) \ taken
      <3>1. row \in ClaimRequests(taken, now + LeaseDuration) /\ row.ref = r
            /\ row.status = "pending"
        BY <1>1, <2>1 DEF Pending
      <3> HIDE DEF taken, now
      <3> QED
        BY <3>1, ClaimedRows DEF Pending
    <2>2. ASSUME NEW row, row \in Pending(r) \ taken PROVE row \in Pending(r)'
      BY <1>1, <2>2 DEF Pending, ClaimRequests
    <2> HIDE DEF taken
    <2> QED
      BY <2>1, <2>2
  <1>8. Load(r)' = Load(r) - n
    <2>1. UNCHANGED call
      BY DEF PollTick
    <2>2. Heading(r)' = Heading(r)
      BY <2>1 DEF Heading
    <2> HIDE DEF taken
    <2>3. Cardinality(Pending(r) \ taken) = Cardinality(Pending(r)) - Cardinality(taken)
      <3>1. Pending(r) \cap taken = taken
        BY <1>6
      <3> QED
        BY <3>1, FS_Difference
    <2>4. Cardinality(Heading(r)) \in Nat /\ Cardinality(Pending(r)) \in Nat
      BY FS_Subset, FS_CardinalityType DEF Heading
    <2> QED
      BY <1>2, <1>3, <1>7, <2>2, <2>3, <2>4 DEF Load
  <1> HIDE DEF taken, batch
  <1> QED
    BY <1>1, <1>2, <1>4, <1>5, <1>6, <1>7, <1>8 DEF taken, batch

-----------------------------------------------------------------------------
(* Who moves a replica: its loop, the Issue the loop is in, its main, or   *)
(* time; every other step leaves it and its row alone.                     *)
Still(r) == /\ clock' = clock /\ main'[r] = main[r] /\ loop'[r] = loop[r]
            /\ issue'[r] = issue[r]
            /\ \A row \in replicas' : row.ref = r => row \in replicas
MainMoves(r) == Start(r) \/ StartFails(r) \/ Signal(r) \/ MainStep(r) \/ Crash(r)

(* There is nobody else.                                                   *)
LEMMA ReplicaActor ==
    ASSUME TypeOK, Coupled, [Next]_vars, NEW r \in Replica
    PROVE  Still(r) \/ Tick \/ LoopStep(r) \/ IssueStep(r) \/ MainMoves(r)
  <1> USE DEF tables
  <1>0. r \in Worker /\ r \notin Call
    BY ConstantTypes DEF Worker
  <1>1. ASSUME NEW s \in Replica, s # r, LoopStep(s) PROVE Still(r)
    <2>1. clock' = clock /\ main' = main
      BY <1>1, Zenon DEF LoopStep, HeartbeatTick, PollTick, Heartbeat, Cleanup, Record,
                         RunStops, RunDrains
    <2>2. ASSUME NEW batch, NEW due, WorkOn(s, batch, due)
          PROVE  loop'[r] = loop[r] /\ issue'[r] = issue[r]
      BY <1>0, <1>1, <2>2 DEF WorkOn, TypeOK
    <2>3. loop'[r] = loop[r] /\ issue'[r] = issue[r]
      <3>1. CASE PollTick(s)
        BY <2>2, <3>1 DEF PollTick
      <3>2. CASE Record(s)
        BY <2>2, <3>2 DEF Record
      <3>3. CASE HeartbeatTick(s) \/ Heartbeat(s) \/ Cleanup(s) \/ RunStops(s) \/ RunDrains(s)
        BY <1>1, <3>3 DEF HeartbeatTick, Heartbeat, Cleanup, RunStops, RunDrains, TypeOK
      <3> QED
        BY <1>1, <3>1, <3>2, <3>3 DEF LoopStep
    <2>4. \A row \in replicas' : row.ref # s => row \in replicas
      BY <1>1, OtherRows DEF LoopStep, HeartbeatTick, PollTick, Heartbeat, Cleanup, Record,
                             RunStops, RunDrains
    <2> QED
      BY <1>1, <2>1, <2>3, <2>4 DEF Still
  <1>2. ASSUME NEW s \in Replica, s # r, MainMoves(s) PROVE Still(r)
    <2>1. /\ clock' = clock /\ main'[r] = main[r] /\ loop'[r] = loop[r]
          /\ issue'[r] = issue[r]
      BY <1>0, <1>2 DEF MainMoves, Start, StartFails, Signal, MainStep, MainDrains,
                        ShutdownReturns, Crash, Ends, TypeOK
    <2>2. \A row \in replicas' : row.ref # s => row \in replicas
      BY <1>2, OtherRows DEF MainMoves, Start, StartFails, Signal, MainStep, MainDrains,
                             ShutdownReturns, Crash
    <2> QED
      BY <1>2, <2>1, <2>2 DEF Still
  <1>3. ASSUME NEW w \in Worker, w # r, IssueStep(w) PROVE Still(r)
    <2>1. UNCHANGED <<clock, main, replicas>> /\ issue[w].pc # "idle"
      BY <1>3 DEF IssueStep, IssueFind, IssueMint, IssuePut, IssueRead, IssueFails
    <2>2. ASSUME NEW bundles, IssueReturns(w, bundles)
          PROVE  loop'[r] = loop[r] /\ issue'[r] = issue[r]
      BY <1>0, <1>3, <2>1, <2>2, IssueReturnsValue
    <2>3. loop'[r] = loop[r] /\ issue'[r] = issue[r]
      BY <1>0, <1>3, <2>2
         DEF IssueStep, IssueFind, IssueMint, IssuePut, IssueRead, IssueFails, TypeOK
    <2> QED
      BY <2>1, <2>3 DEF Still
  <1>4. ASSUME NEW k \in Call, Arrives(k) \/ ResolveStep(k) PROVE Still(r)
    <2>1. UNCHANGED <<clock, main, loop, replicas>>
      BY <1>4 DEF Arrives, ResolveStep, FindProof, FindReplica, Enqueue, CheckProof,
                  CheckRequest, TimesOut, ResolveFails, ResolveFind
    <2>2. issue'[r] = issue[r]
      BY <1>0, <1>4 DEF Arrives, ResolveStep, FindProof, FindReplica, Enqueue, CheckProof,
                        CheckRequest, TimesOut, ResolveFails, ResolveFind, TypeOK
    <2> QED
      BY <2>1, <2>2 DEF Still
  <1>5. CASE UNCHANGED vars
    BY <1>5 DEF vars, Still
  <1> QED
    BY <1>1, <1>2, <1>3, <1>4, <1>5 DEF Next, TimeIsUp, MainMoves

(* The values a step of the loop leaves.                                   *)
LEMMA LoopValues ==
    ASSUME TypeOK, Coupled, NEW r \in Replica
    PROVE  /\ HeartbeatTick(r) =>
                /\ loop'[r].pc = Ready(r, "heartbeat")
                /\ loop'[r].stamp = IF Serving(r) THEN loop[r].hbDue + Skew[r] ELSE 0
                /\ loop'[r].hbDue = NextTick(loop[r].hbDue, HeartbeatInterval)
                /\ loop'[r].pollDue = loop[r].pollDue /\ loop'[r].batch = loop[r].batch
           /\ Heartbeat(r) =>
                /\ loop'[r].pc = Ready(r, "cleanup")
                /\ loop'[r].stamp = IF Serving(r) THEN loop[r].stamp ELSE 0
                /\ loop'[r].hbDue = loop[r].hbDue /\ loop'[r].pollDue = loop[r].pollDue
                /\ loop'[r].batch = loop[r].batch
           /\ Cleanup(r) =>
                /\ loop'[r].pc = "select" /\ loop'[r].hbDue = loop[r].hbDue
                /\ loop'[r].pollDue = loop[r].pollDue /\ loop'[r].batch = loop[r].batch
           /\ RunStops(r) => loop'[r].pc = "drain" /\ loop'[r].batch = loop[r].batch
           /\ RunDrains(r) => loop'[r].pc = "off" /\ loop'[r].batch = loop[r].batch
           /\ Start(r) =>
                /\ loop'[r].pc = "select" /\ loop'[r].batch = loop[r].batch
                /\ loop'[r].hbDue = clock + HeartbeatInterval
                /\ loop'[r].pollDue = clock + PollInterval
           /\ \A batch, due : WorkOn(r, batch, due) =>
                LET busy == batch # <<>> /\ Serving(r) IN
                /\ loop'[r].pc = IF busy THEN "issue" ELSE "select"
                /\ loop'[r].batch = IF busy THEN batch ELSE <<>>
                /\ loop'[r].pollDue = due /\ loop'[r].hbDue = loop[r].hbDue
                /\ issue'[r] = IF busy THEN NewIssue(r) ELSE issue[r]
           /\ HeartbeatTick(r) \/ Heartbeat(r) \/ Cleanup(r) \/ RunStops(r) \/ RunDrains(r)
                => issue'[r] = issue[r]
  <1>1. loop[r] \in LoopState /\ loop \in [Replica -> LoopState] /\ r \in Worker
    BY DEF TypeOK, Worker
  <1>3. HeartbeatTick(r) =>
                /\ loop'[r].pc = Ready(r, "heartbeat")
                /\ loop'[r].stamp = IF Serving(r) THEN loop[r].hbDue + Skew[r] ELSE 0
                /\ loop'[r].hbDue = NextTick(loop[r].hbDue, HeartbeatInterval)
                /\ loop'[r].pollDue = loop[r].pollDue /\ loop'[r].batch = loop[r].batch
    <2> DEFINE pc == Ready(r, "heartbeat")
               stamp == IF Serving(r) THEN loop[r].hbDue + Skew[r] ELSE 0
               due == NextTick(loop[r].hbDue, HeartbeatInterval)
    <2> SUFFICES ASSUME HeartbeatTick(r)
                 PROVE  /\ loop'[r].pc = pc /\ loop'[r].stamp = stamp /\ loop'[r].hbDue = due
                        /\ loop'[r].pollDue = loop[r].pollDue /\ loop'[r].batch = loop[r].batch
      OBVIOUS
    <2>1. loop' = [loop EXCEPT ![r].pc = pc, ![r].stamp = stamp, ![r].hbDue = due]
      BY DEF HeartbeatTick
    <2> HIDE DEF pc, stamp, due
    <2> QED
      BY <1>1, <2>1, ZenonT(90) DEF LoopState
  <1>4. Heartbeat(r) =>
                /\ loop'[r].pc = Ready(r, "cleanup")
                /\ loop'[r].stamp = IF Serving(r) THEN loop[r].stamp ELSE 0
                /\ loop'[r].hbDue = loop[r].hbDue /\ loop'[r].pollDue = loop[r].pollDue
                /\ loop'[r].batch = loop[r].batch
    <2> DEFINE pc == Ready(r, "cleanup")
               stamp == IF Serving(r) THEN loop[r].stamp ELSE 0
    <2> SUFFICES ASSUME Heartbeat(r)
                 PROVE  /\ loop'[r].pc = pc /\ loop'[r].stamp = stamp
                        /\ loop'[r].hbDue = loop[r].hbDue /\ loop'[r].pollDue = loop[r].pollDue
                        /\ loop'[r].batch = loop[r].batch
      OBVIOUS
    <2>1. loop' = [loop EXCEPT ![r].pc = pc, ![r].stamp = stamp]
      BY DEF Heartbeat
    <2> HIDE DEF pc, stamp
    <2> QED
      BY <1>1, <2>1, ZenonT(90) DEF LoopState
  <1>5. /\ Cleanup(r) =>
                /\ loop'[r].pc = "select" /\ loop'[r].hbDue = loop[r].hbDue
                /\ loop'[r].pollDue = loop[r].pollDue /\ loop'[r].batch = loop[r].batch
        /\ RunStops(r) => loop'[r].pc = "drain" /\ loop'[r].batch = loop[r].batch
        /\ RunDrains(r) => loop'[r].pc = "off" /\ loop'[r].batch = loop[r].batch
    BY <1>1 DEF Cleanup, RunStops, RunDrains, LoopState
  <1>6. Start(r) =>
                /\ loop'[r].pc = "select" /\ loop'[r].batch = loop[r].batch
                /\ loop'[r].hbDue = clock + HeartbeatInterval
                /\ loop'[r].pollDue = clock + PollInterval
    BY <1>1 DEF Start, LoopState
  <1>7. ASSUME NEW batch, NEW due, WorkOn(r, batch, due)
        PROVE   LET busy == batch # <<>> /\ Serving(r) IN
                /\ loop'[r].pc = IF busy THEN "issue" ELSE "select"
                /\ loop'[r].batch = IF busy THEN batch ELSE <<>>
                /\ loop'[r].pollDue = due /\ loop'[r].hbDue = loop[r].hbDue
                /\ issue'[r] = IF busy THEN NewIssue(r) ELSE issue[r]
    <2> DEFINE busy == batch # <<>> /\ Serving(r)
               pc == IF busy THEN "issue" ELSE "select"
               todo == IF busy THEN batch ELSE <<>>
    <2>1. loop' = [loop EXCEPT ![r].pc = pc, ![r].batch = todo, ![r].pollDue = due]
      BY <1>7, Zenon DEF WorkOn
    <2>2. issue'[r] = IF busy THEN NewIssue(r) ELSE issue[r]
      BY <1>1, <1>7 DEF WorkOn, TypeOK
    <2>3. /\ loop'[r].pc = pc /\ loop'[r].batch = todo
          /\ loop'[r].pollDue = due /\ loop'[r].hbDue = loop[r].hbDue
      <3> HIDE DEF pc, todo
      <3> QED
        BY <1>1, <2>1, ZenonT(90) DEF LoopState
    <2> QED
      BY <2>2, <2>3, Zenon
  <1>8. HeartbeatTick(r) \/ Heartbeat(r) \/ Cleanup(r) \/ RunStops(r) \/ RunDrains(r)
                => issue'[r] = issue[r]
    BY DEF HeartbeatTick, Heartbeat, Cleanup, RunStops, RunDrains
  <1> QED
    BY <1>3, <1>4, <1>5, <1>6, <1>7, <1>8

(* What a step of Cache.Issue leaves: the next statement of the same       *)
(* Issue, or the loop at its outcome.                                      *)
IssueGoes(w, from, to) == /\ issue[w].pc = from /\ issue'[w].pc = to
                          /\ issue'[w].deadline = issue[w].deadline
                          /\ UNCHANGED <<loop, call>>

(* A bundle is missing at the end only if a step failed, or nothing was    *)
(* read back.                                                              *)
LEMMA IssueValues ==
    ASSUME TypeOK, NEW w \in Worker, IssueStep(w)
    PROVE  /\ clock' = clock /\ issue[w].pc # "idle"
           /\ \A v \in Worker : v # w => issue'[v] = issue[v]
           /\ \/ IssueGoes(w, "find", "mint") /\ issue'[w].until = clock + LauncherTimeout
              \/ IssueGoes(w, "mint", "put")
              \/ IssueGoes(w, "put", "read")
              \/ \E bundles : /\ IssueReturns(w, bundles)
                              /\ \/ issue[w].pc \in {"find", "read"} /\ Succeeds(w)
                                 \/ IssueFails(w)
                              /\ bundles = {} => \/ IssueFails(w)
                                                 \/ /\ issue[w].pc = "read"
                                                    /\ Stored(Owner(w), Nonce(w)) = {}
  <1> USE DEF IssueGoes
  <1>1. CASE IssueFind(w)
    <2>1. CASE Stored(Owner(w), Nonce(w)) # {}
      BY <1>1, <2>1 DEF IssueFind, IssueReturns, TypeOK
    <2>2. CASE Stored(Owner(w), Nonce(w)) = {}
      <3> DEFINE until == clock + LauncherTimeout
      <3>1. /\ issue' = [issue EXCEPT ![w].pc = "mint", ![w].until = until]
            /\ UNCHANGED <<clock, loop, call>> /\ issue[w].pc = "find"
        BY <1>1, <2>2 DEF IssueFind
      <3> HIDE DEF until
      <3>2. /\ issue'[w].pc = "mint" /\ issue'[w].until = until
            /\ issue'[w].deadline = issue[w].deadline
            /\ \A v \in Worker : v # w => issue'[v] = issue[v]
        BY <3>1, ZenonT(90) DEF TypeOK, IssueState
      <3> QED
        BY <3>1, <3>2 DEF until
    <2> QED
      BY <2>1, <2>2
  <1>2. CASE IssueMint(w)
    <2>1. /\ UNCHANGED <<clock, loop, call>> /\ issue[w].pc = "mint"
          /\ issue' = [issue EXCEPT ![w].pc = "put", ![w].serial = minted', ![w].until = 0]
      BY <1>2 DEF IssueMint
    <2>2. /\ issue'[w].pc = "put" /\ issue'[w].deadline = issue[w].deadline
          /\ \A v \in Worker : v # w => issue'[v] = issue[v]
      BY <2>1, ZenonT(90) DEF TypeOK, IssueState
    <2> QED
      BY <2>1, <2>2
  <1>3. CASE IssuePut(w)
    <2>1. /\ UNCHANGED <<clock, loop, call>> /\ issue[w].pc = "put"
          /\ issue' = [issue EXCEPT ![w].pc = "read", ![w].serial = 0]
      BY <1>3 DEF IssuePut
    <2>2. /\ issue'[w].pc = "read" /\ issue'[w].deadline = issue[w].deadline
          /\ \A v \in Worker : v # w => issue'[v] = issue[v]
      BY <2>1, ZenonT(90) DEF TypeOK, IssueState
    <2> QED
      BY <2>1, <2>2
  <1>4. CASE IssueRead(w)
    BY <1>4 DEF IssueRead, IssueReturns, TypeOK
  <1>5. CASE IssueFails(w)
    BY <1>5 DEF IssueFails, IssueReturns, TypeOK
  <1> QED
    BY <1>1, <1>2, <1>3, <1>4, <1>5 DEF IssueStep

(* What the loop does with the outcome of Issue.                           *)
LEMMA ReturnValues ==
    ASSUME TypeOK, NEW r \in Replica, NEW bundles, IssueReturns(r, bundles)
    PROVE  /\ issue'[r] = Idle /\ UNCHANGED call
           /\ loop'[r].pc = IF ~Serving(r) THEN "select"
                            ELSE IF bundles = {} THEN "fail" ELSE "complete"
           /\ loop'[r].batch = IF ~Serving(r) THEN <<>> ELSE loop[r].batch
           /\ loop'[r].hbDue = loop[r].hbDue /\ loop'[r].pollDue = loop[r].pollDue
           /\ loop'[r].stamp = loop[r].stamp
  <1>1. r \notin Call /\ r \in Worker
    BY ConstantTypes DEF Worker
  <1> DEFINE pc == IF ~Serving(r) THEN "select"
                   ELSE IF bundles = {} THEN "fail" ELSE "complete"
             batch == IF ~Serving(r) THEN <<>> ELSE loop[r].batch
  <1>2. /\ issue' = [issue EXCEPT ![r] = Idle] /\ UNCHANGED call
        /\ loop' = [loop EXCEPT ![r].pc = pc, ![r].batch = batch]
    BY <1>1 DEF IssueReturns, Cancelled
  <1> HIDE DEF pc, batch
  <1>3. /\ loop'[r].pc = pc /\ loop'[r].batch = batch
        /\ loop'[r].hbDue = loop[r].hbDue /\ loop'[r].pollDue = loop[r].pollDue
        /\ loop'[r].stamp = loop[r].stamp
    BY <1>2, ZenonT(90) DEF TypeOK, LoopState
  <1> QED
    BY <1>1, <1>2, <1>3 DEF pc, batch, TypeOK

-----------------------------------------------------------------------------
(* What holds whatever the environment does.                               *)

(* Rows and routed requests belong to processes that started, and no       *)
(* request is at a process that did not.                                   *)
Started(r) == main[r].pc # "new"
Known ==
    /\ \A row \in replicas : Started(row.ref)
    /\ \A row \in requests : Started(row.ref)
    /\ \A k \in Call :
          /\ call[k].pc # "idle" => Started(call[k].at)
          /\ call[k].pc \in {"enqueue", "check", "queued", "wait"} => Started(call[k].ref)

(* A loop that issues is in Issue, one that does not work has no batch,    *)
(* and a tick is not received before it is due.                            *)
Orderly(r) ==
    /\ loop[r].pc = "issue" => issue[r].pc # "idle"
    /\ issue[r].pc = "idle" => issue[r].deadline = NoDeadline
    /\ loop[r].pc \notin {"issue", "complete", "fail"} => loop[r].batch = <<>>
    /\ loop[r].pc \in {"heartbeat", "cleanup"} => loop[r].stamp <= clock + Skew[r]

(* A request has no deadline before it is enqueued.                        *)
Unhurried == \A k \in Call : call[k].pc \in {"idle", "issue", "find", "replica", "enqueue"}
                                => call[k].deadline = NoDeadline

(* A process that started stays started.                                   *)
LEMMA StartedStays ==
    ASSUME TypeOK, Coupled, [Next]_vars, NEW r \in Replica, Started(r)
    PROVE  Started(r)'
  <1> USE DEF Started
  <1>1. CASE MainMoves(r)
    <2>1. \/ main' = [main EXCEPT ![r].pc = "gone", ![r].goneAt = clock]
          \/ main' = [main EXCEPT ![r].pc = "serve"]
          \/ main' = [main EXCEPT ![r].pc = "drain", ![r].stopBy = clock + ShutdownTimeout]
          \/ main' = [main EXCEPT ![r].pc = "shutdown"]
      BY <1>1 DEF MainMoves, Start, StartFails, Signal, MainStep, MainDrains,
                  ShutdownReturns, Crash, Ends
    <2> QED
      BY <2>1 DEF TypeOK, MainState
  <1>2. CASE ~MainMoves(r)
    <2>1. main'[r] = main[r]
      BY <1>2, ReplicaActor
         DEF Still, Tick, LoopStep, HeartbeatTick, PollTick, Heartbeat, Cleanup, Record,
             RunStops, RunDrains, IssueStep, IssueFind, IssueMint, IssuePut, IssueRead,
             IssueFails
    <2> QED
      BY <2>1
  <1> QED
    BY <1>1, <1>2

(* Every row is an old one's, or that of a process that starts.            *)
LEMMA ReplicaRows ==
    ASSUME TypeOK, Coupled, [Next]_vars, NEW row \in replicas'
    PROVE  \/ row.ref \in Replica /\ \E old \in replicas : old.ref = row.ref
           \/ row.ref \in Replica /\ main'[row.ref].pc # "new"
  <1> USE DEF tables
  <1> DEFINE Old == row.ref \in Replica /\ \E old \in replicas : old.ref = row.ref
  <1>1. CASE UNCHANGED replicas
    BY <1>1 DEF TypeOK, ReplicaRow
  <1>2. ASSUME NEW r \in Replica, NEW now, replicas' = HeartbeatReplica(r, now) PROVE Old
    <2>1. PICK old \in replicas :
             row = IF old.ref = r THEN [old EXCEPT !.lastHeartbeat = now, !.draining = FALSE]
                                  ELSE old
      BY <1>2 DEF HeartbeatReplica
    <2> QED
      BY <2>1 DEF TypeOK, ReplicaRow
  <1>3. ASSUME NEW r \in Replica, replicas' = SetReplicaDraining(r) PROVE Old
    <2>1. PICK old \in replicas :
             row = IF old.ref = r THEN [old EXCEPT !.draining = TRUE] ELSE old
      BY <1>3 DEF SetReplicaDraining
    <2> QED
      BY <2>1 DEF TypeOK, ReplicaRow
  <1>4. ASSUME NEW r \in Replica, replicas' = RegisterReplica(r), main'[r].pc # "new"
        PROVE  Old \/ (row.ref \in Replica /\ main'[row.ref].pc # "new")
    <2>1. CASE row \in replicas
      BY <2>1 DEF TypeOK, ReplicaRow
    <2>2. CASE row \notin replicas
      <3>1. row = [ref |-> r, lastHeartbeat |-> LocalTime(r), draining |-> FALSE]
        BY <1>4, <2>2 DEF RegisterReplica
      <3> QED
        BY <1>4, <3>1
    <2> QED
      BY <2>1, <2>2
  <1>5. ASSUME NEW r \in Replica, LoopStep(r)
        PROVE  \/ UNCHANGED replicas \/ replicas' = SetReplicaDraining(r)
               \/ \E now : replicas' = HeartbeatReplica(r, now)
    BY <1>5 DEF LoopStep, HeartbeatTick, PollTick, Heartbeat, Cleanup, Record, RunStops,
                RunDrains
  <1>6. ASSUME NEW r \in Replica, MainMoves(r)
        PROVE  \/ UNCHANGED replicas \/ replicas' = SetReplicaDraining(r)
               \/ replicas' = RegisterReplica(r) /\ main'[r].pc # "new"
    BY <1>6 DEF MainMoves, Start, StartFails, Signal, MainStep, MainDrains, ShutdownReturns,
                Crash, TypeOK, MainState
  <1>7. \/ UNCHANGED replicas
        \/ \E r \in Replica : LoopStep(r) \/ MainMoves(r)
    BY ZenonT(90) DEF Next, vars, TimeIsUp, Tick, MainMoves, Arrives, ResolveStep, FindProof,
           FindReplica,
           Enqueue, CheckProof, CheckRequest, TimesOut, ResolveFails, ResolveFind,
           IssueStep, IssueFind, IssueMint, IssuePut, IssueRead, IssueFails
  <1> QED
    BY <1>1, <1>2, <1>3, <1>4, <1>5, <1>6, <1>7

(* Rows and routed requests only come to be after Router.Start.            *)
LEMMA KnownStep ==
    ASSUME TypeOK, TypeOK', Coupled, Known, [Next]_vars
    PROVE  Known'
  <1> USE DEF Started
  <1>1. \A r \in Replica : Started(r) => main'[r].pc # "new"
    BY StartedStays
  <1>2. ASSUME NEW row \in replicas' PROVE main'[row.ref].pc # "new"
    BY <1>1, <1>2, ReplicaRows DEF Known, Started
  <1>3. ASSUME NEW row \in requests' PROVE main'[row.ref].pc # "new"
    <2>1. row.ref \in Replica
      BY <1>3 DEF TypeOK, RequestRow
    <2>2. (\E old \in requests : old.ref = row.ref) => main'[row.ref].pc # "new"
      BY <1>1, <2>1 DEF Known
    <2>3. CASE UNCHANGED requests \/ Deletes
      BY <1>3, <2>2, <2>3 DEF Deletes, DeleteExpiredRequests
    <2>4. CASE \E r \in Replica : \E q : Claims(r, q)
      BY <1>3, <2>2, <2>4, ClaimedRows DEF Claims
    <2>5. CASE \E r \in Replica : Records(r)
      BY <1>3, <2>2, <2>5, MarkedRows DEF Records
    <2>6. CASE \E k \in Call : Inserts(k)
      <3>1. PICK k \in Call : Inserts(k)
        BY <2>6
      <3>2. row \in requests \/ row.ref = call[k].ref
        BY <1>3, <3>1, InsertedRows DEF Inserts, NewRow
      <3>3. main'[call[k].ref].pc # "new" /\ call[k].ref \in Replica
        BY <1>1, <3>1 DEF Known, Inserts, TypeOK, CallState
      <3> QED
        BY <2>2, <3>2, <3>3
    <2> QED
      BY <2>3, <2>4, <2>5, <2>6, RequestsStep
  <1>4. ASSUME NEW k \in Call
        PROVE  /\ call'[k].pc # "idle" => main'[call[k].at].pc # "new"
               /\ call'[k].pc \in {"enqueue", "check", "queued", "wait"}
                     => main'[call[k].ref].pc # "new"
    <2>1. call[k].at \in Replica /\ call[k].ref \in Replica
      BY DEF TypeOK, CallState
    <2>2. call'[k].pc # "idle" => Started(call[k].at)
      <3>1. Arrives(k) => Started(call[k].at)
        BY DEF Arrives, Listening, Started
      <3>2. call[k].pc = "idle" => call'[k].pc = "idle" \/ Arrives(k)
        BY CallActor DEF ResolveStep, FindProof, FindReplica, Enqueue, CheckProof, CheckRequest,
              TimesOut, ResolveFails, Active
      <3> QED
        BY <3>1, <3>2 DEF Known
    <2>3. call'[k].pc \in {"enqueue", "check", "queued", "wait"} => Started(call[k].ref)
      <3>1. CASE call[k].pc \in {"enqueue", "check", "queued", "wait"}
        BY <3>1 DEF Known
      <3>2. CASE call[k].pc \notin {"enqueue", "check", "queued", "wait"}
        <4>1. call'[k].pc \in {"enqueue", "check", "queued", "wait"} => FindReplica(k)
          BY <3>2, CallActor, ResolveValues
             DEF ResolveStep, FindProof, Enqueue, CheckProof, CheckRequest
        <4>2. FindReplica(k) /\ call'[k].pc = "enqueue"
                 => \E row \in replicas : row.ref = call[k].ref
          <5>1. \A result : call' = Finished(k, result, {}) => call'[k].pc # "enqueue"
            BY FinishedValue
          <5> QED
            BY <5>1 DEF FindReplica
        <4>3. FindReplica(k) => call'[k].pc \in {"enqueue", "done"}
          BY ResolveValues
        <4> QED
          BY <4>1, <4>2, <4>3 DEF Known
      <3> QED
        BY <3>1, <3>2
    <2> QED
      BY <1>1, <2>1, <2>2, <2>3
  <1>5. \A k \in Call : call'[k].at = call[k].at /\ call'[k].ref = call[k].ref
    BY CallStep DEF SameAsk
  <1> QED
    BY <1>2, <1>3, <1>4, <1>5 DEF Known, Started

(* Time only passes when every process rests.                              *)
LEMMA TimeStep ==
    ASSUME TypeOK, [Next]_vars
    PROVE  clock' = clock \/ Tick
  <1> QED
    BY ZenonT(90) DEF Next, vars, TimeIsUp, Start, StartFails, LoopStep, HeartbeatTick, PollTick,
           Heartbeat, Cleanup, Record, RunStops, RunDrains, Signal, MainStep, MainDrains,
           ShutdownReturns, Crash, Arrives, ResolveStep, FindProof, FindReplica, Enqueue,
           CheckProof, CheckRequest, TimesOut, ResolveFails, ResolveFind, IssueStep,
           IssueFind, IssueMint, IssuePut, IssueRead, IssueFails

(* processPending takes its batch and begins Issue in one step; a tick     *)
(* carries the time it was due.                                            *)
LEMMA OrderlyStep ==
    ASSUME TypeOK, Coupled, [Next]_vars, NEW r \in Replica, Orderly(r)
    PROVE  Orderly(r)'
  <1>1. /\ clock \in Nat /\ Skew[r] \in Int /\ r \in Worker /\ Idle.deadline = NoDeadline
        /\ loop[r].hbDue \in Int /\ loop[r].stamp \in Int /\ Idle.pc = "idle"
        /\ NewIssue(r).pc # "idle"
    BY ConstantTypes DEF TypeOK, LoopState, Worker, Idle, NewIssue
  <1>2. CASE Still(r)
    BY <1>2 DEF Still, Orderly
  <1>3. CASE Tick
    <2>1. clock' = clock + 1 /\ UNCHANGED <<loop, issue>>
      BY <1>3 DEF Tick
    <2> QED
      BY <1>1, <2>1 DEF Orderly
  <1>4. CASE HeartbeatTick(r) \/ Heartbeat(r) \/ Cleanup(r) \/ RunStops(r) \/ RunDrains(r)
    <2>1. loop[r].pc \in {"select", "heartbeat", "cleanup", "drain"} /\ clock' = clock
      BY <1>4 DEF HeartbeatTick, Heartbeat, Cleanup, RunStops, RunDrains
    <2>2. HeartbeatTick(r) => loop[r].hbDue + Skew[r] <= clock + Skew[r]
      BY <1>1 DEF HeartbeatTick
    <2>3. Heartbeat(r) => loop[r].pc = "heartbeat"
      BY DEF Heartbeat
    <2> QED
      BY <1>4, <2>1, <2>2, <2>3, LoopValues DEF Orderly, Ready
  <1>5. CASE PollTick(r) \/ Record(r)
    <2>1. \E batch, due : WorkOn(r, batch, due)
      BY <1>5, Zenon DEF PollTick, Record
    <2>2. clock' = clock /\ issue[r].pc = "idle"
      BY <1>5 DEF PollTick, Record, Coupled
    <2> QED
      BY <1>1, <2>1, <2>2, LoopValues DEF Orderly
  <1>6. CASE IssueStep(r)
    <2>1. clock' = clock /\ loop[r].pc = "issue"
      BY <1>1, <1>6, IssueValues DEF Coupled
    <2>2. ASSUME NEW bundles, IssueReturns(r, bundles) PROVE Orderly(r)'
      BY <1>1, <2>1, <2>2, ReturnValues DEF Orderly
    <2>3. ASSUME NEW from, NEW to \in {"mint", "put", "read"}, IssueGoes(r, from, to)
          PROVE  Orderly(r)'
      BY <2>1, <2>3 DEF Orderly, IssueGoes
    <2> QED
      BY <1>1, <1>6, <2>2, <2>3, IssueValues
  <1>7. CASE MainMoves(r)
    <2>1. CASE Ends(r)
      <3>1. loop'[r].pc = "off" /\ loop'[r].batch = <<>> /\ issue'[r] = Idle
        BY <1>1, <2>1 DEF Ends, TypeOK, LoopState
      <3> QED
        BY <1>1, <3>1 DEF Orderly
    <2>2. CASE Start(r)
      <3>1. clock' = clock /\ issue' = issue /\ loop[r].pc = "off"
        BY <2>2 DEF Start, Coupled
      <3> QED
        BY <2>2, <3>1, LoopValues DEF Orderly
    <2>3. CASE UNCHANGED <<clock, loop, issue>>
      BY <2>3 DEF Orderly
    <2> QED
      BY <1>7, <2>1, <2>2, <2>3
         DEF MainMoves, StartFails, Signal, MainStep, MainDrains, ShutdownReturns, Crash
  <1> QED
    BY <1>2, <1>3, <1>4, <1>5, <1>6, <1>7, ReplicaActor DEF LoopStep

(* Resolve gets its timeout after the enqueue, not before.                 *)
LEMMA UnhurriedStep ==
    ASSUME TypeOK, Coupled, Unhurried, [Next]_vars
    PROVE  Unhurried'
  <1> SUFFICES ASSUME NEW k \in Call,
                      call'[k].pc \in {"idle", "issue", "find", "replica", "enqueue"}
               PROVE  call'[k].deadline = NoDeadline
    BY DEF Unhurried, NoDeadline
  <1>1. CASE call'[k] = call[k]
    BY <1>1 DEF Unhurried
  <1>2. CASE FindProof(k)
    <2>1. call[k].pc = "find"
      BY <1>2 DEF FindProof
    <2>2. call'[k].deadline = call[k].deadline
      <3>1. \A result, answer : call' = Finished(k, result, answer) => call'[k].pc = "done"
        BY FinishedValue
      <3>2. call' = [call EXCEPT ![k].pc = "replica", ![k].tick = 0]
        BY <1>2, <3>1 DEF FindProof, ResolveFind
      <3> QED
        BY <3>2, ZenonT(90) DEF TypeOK, CallState
    <2> QED
      BY <2>1, <2>2 DEF Unhurried
  <1>3. CASE ~FindProof(k) /\ call'[k] # call[k]
    <2>1. /\ Arrives(k) \/ FindReplica(k)
          /\ call'[k].deadline = call[k].deadline
      BY <1>3, CallActor, ResolveValues DEF ResolveStep
    <2>2. call[k].pc \in {"idle", "replica"}
      BY <2>1 DEF Arrives, FindReplica
    <2> QED
      BY <2>1, <2>2 DEF Unhurried
  <1> QED
    BY <1>1, <1>2, <1>3

-----------------------------------------------------------------------------
(* What holds if the environment is prompt.                                *)

(* The launcher answers in time.                                           *)
MintsOnTime == \A w \in Worker : issue[w].pc = "mint" =>
                  /\ issue[w].until - LauncherTimeout <= clock
                  /\ clock <= issue[w].until - LauncherTimeout + MintTime

(* A request is enqueued at the time at which its owner was looked up.     *)
Stamped == \A k \in Call : call[k].pc = "enqueue" => call[k].stamp = LocalTime(call[k].at)

(* The work for r that the loop has not done, and the time it had to spend *)
(* on the rest: one answer of the launcher each.                           *)
InHand(r) == Len(loop[r].batch)
Todo(r) == Load(r) + InHand(r)
Paid(r) == MintTime * (Demand - Todo(r))

(* When the launcher was asked at the latest, when the loop is back at its *)
(* select at the latest, and when it claims again.                         *)
Begun(r) ==
    IF issue[r].pc = "mint" THEN issue[r].until - LauncherTimeout
    ELSE IF issue[r].pc \in {"put", "read"} \/ loop[r].pc \in {"complete", "fail"}
    THEN clock - MintTime ELSE clock
Free(r) == Begun(r) + MintTime * InHand(r)
NextPoll(r) == IF loop[r].pollDue > Free(r) THEN loop[r].pollDue ELSE Free(r)

(* If a time passes, the launcher's answers do not.                        *)
LEMMA MintsStep ==
    ASSUME InTime, TypeOK, Coupled, MintsOnTime, [Next]_vars
    PROVE  MintsOnTime'
  <1> SUFFICES ASSUME NEW w \in Worker, issue'[w].pc = "mint"
               PROVE  /\ issue'[w].until - LauncherTimeout <= clock'
                      /\ clock' <= issue'[w].until - LauncherTimeout + MintTime
    BY DEF MintsOnTime
  <1>1. /\ clock \in Nat /\ issue[w].until \in Nat /\ LauncherTimeout \in Nat /\ MintTime \in Nat
        /\ Prompt
    BY ConstantTypes, TimeFacts DEF TypeOK, IssueState, InTime
  <1>2. CASE Tick
    <2>1. clock' = clock + 1 /\ issue' = issue /\ IssueRests(w)
      BY <1>1, <1>2 DEF Tick
    <2> QED
      BY <1>1, <2>1 DEF IssueRests, MintsOnTime
  <1>3. CASE ~Tick /\ issue'[w] = issue[w]
    BY <1>3, TimeStep DEF MintsOnTime
  <1>4. CASE ~Tick /\ issue'[w].until = clock + LauncherTimeout
    <2>1. clock' = clock
      BY <1>4, TimeStep
    <2> QED
      BY <1>1, <1>4, <2>1
  <1>5. issue'[w] = issue[w] \/ issue'[w].until = clock + LauncherTimeout
    <2>0. Idle.pc # "mint" /\ \A v : NewIssue(v).pc # "mint"
      BY DEF Idle, NewIssue
    <2>1. CASE \E v \in Worker : IssueStep(v)
      <3>1. PICK v \in Worker : IssueStep(v)
        BY <2>1
      <3>2. \A bundles : IssueReturns(w, bundles) => issue'[w].pc = "idle"
        BY DEF IssueReturns, TypeOK, Idle
      <3> QED
        BY <3>1, <3>2, IssueValues DEF IssueGoes
    <2>2. CASE \E r \in Replica : \E batch, due : WorkOn(r, batch, due)
      BY <2>0, <2>2 DEF WorkOn, TypeOK
    <2>3. CASE \E k \in Call : Arrives(k)
      BY <2>0, <2>3 DEF Arrives, TypeOK
    <2>4. CASE \E r \in Replica : Ends(r)
      BY <2>0, <2>4 DEF Ends, TypeOK
    <2>5. CASE UNCHANGED issue
      BY <2>5
    <2>6. ASSUME NEW r \in Replica, PollTick(r) \/ Record(r)
          PROVE  \E batch, due : WorkOn(r, batch, due)
      BY <2>6, Zenon DEF PollTick, Record
    <2> QED
      BY <2>1, <2>2, <2>3, <2>4, <2>5, <2>6, ZenonT(90)
      DEF Next, vars, TimeIsUp, Tick, Start, StartFails, LoopStep, HeartbeatTick,
          Heartbeat, Cleanup, RunStops, RunDrains, Signal, MainStep, MainDrains,
          ShutdownReturns, Crash, ResolveStep, FindProof, FindReplica, Enqueue,
          CheckProof, CheckRequest, TimesOut, ResolveFails, ResolveFind
  <1> QED
    BY <1>2, <1>3, <1>4, <1>5

(* Time stands still between the two statements.                           *)
LEMMA StampedStep ==
    ASSUME InTime, TypeOK, Coupled, Stamped, [Next]_vars
    PROVE  Stamped'
  <1> SUFFICES ASSUME NEW k \in Call, call'[k].pc = "enqueue"
               PROVE  call'[k].stamp = clock' + Skew[call'[k].at]
    BY DEF Stamped, LocalTime
  <1>1. call'[k].at = call[k].at
    BY CallStep DEF SameAsk
  <1>2. CASE Tick
    <2>1. call' = call /\ CallRests(k)
      BY <1>2 DEF Tick, InTime
    <2> QED
      BY <2>1 DEF CallRests
  <1>3. CASE ~Tick
    <2>1. clock' = clock
      BY <1>3, TimeStep
    <2> QED
      BY <1>1, <2>1, EnqueueFrame DEF Stamped, LocalTime
  <1> QED
    BY <1>2, <1>3

(* The loop is never late: it is at its select, or waits for the launcher. *)
LEMMA FreeFacts ==
    ASSUME InTime, TypeOK, Coupled, MintsOnTime, NEW r \in Replica, Orderly(r)
    PROVE  /\ Begun(r) \in Int /\ Free(r) \in Int /\ NextPoll(r) \in Int
           /\ loop[r].pollDue \in Int /\ clock \in Nat /\ InHand(r) \in Nat
           /\ Begun(r) <= clock /\ clock <= Begun(r) + MintTime /\ clock <= Free(r)
           /\ loop[r].pollDue <= NextPoll(r) /\ Free(r) <= NextPoll(r)
           /\ NextPoll(r) \in {loop[r].pollDue, Free(r)}
           /\ loop[r].pc \notin {"issue", "complete", "fail"}
                 => InHand(r) = 0 /\ Begun(r) = clock /\ Free(r) = clock
  <1>1. /\ clock \in Nat /\ issue[r].until \in Nat /\ LauncherTimeout \in Nat /\ MintTime \in Nat
        /\ loop[r].pollDue \in Int /\ loop[r].batch \in Seq(Challenge) /\ r \in Worker
    BY ConstantTypes, TimeFacts DEF TypeOK, IssueState, LoopState, Worker
  <1>2. Begun(r) \in Int /\ Begun(r) <= clock /\ clock <= Begun(r) + MintTime
    <2>1. CASE issue[r].pc = "mint"
      <3>1. /\ issue[r].until - LauncherTimeout <= clock
            /\ clock <= issue[r].until - LauncherTimeout + MintTime
        BY <1>1, <2>1 DEF MintsOnTime
      <3> QED
        BY <1>1, <2>1, <3>1 DEF Begun
    <2>2. CASE issue[r].pc # "mint"
      BY <1>1, <2>2 DEF Begun
    <2> QED
      BY <2>1, <2>2
  <1> DEFINE n == InHand(r)
  <1>3. n \in Nat
    BY <1>1 DEF InHand
  <1>4. MintTime * n \in Nat /\ (n = 0 => MintTime * n = 0) /\ (n # 0 => MintTime <= MintTime * n)
    <2>1. \A m, x \in Nat : /\ m * x \in Nat /\ (x = 0 => m * x = 0)
                            /\ (x # 0 => m <= m * x)
      OBVIOUS
    <2> QED
      BY <1>1, <1>3, <2>1
  <1>5. /\ Free(r) \in Int /\ clock <= Free(r)
        /\ loop[r].pc \notin {"issue", "complete", "fail"}
              => InHand(r) = 0 /\ Begun(r) = clock /\ Free(r) = clock
    <2> DEFINE work == MintTime * n
    <2>1. Free(r) = Begun(r) + work
      BY DEF Free
    <2>2. CASE loop[r].pc \in {"issue", "complete", "fail"}
      <3>1. n # 0
        BY <1>1, <2>2 DEF Coupled, InHand
      <3>2. work \in Nat /\ MintTime <= work
        BY <1>4, <3>1
      <3>3. MintTime \in Nat /\ clock \in Nat
        BY <1>1
      <3> HIDE DEF work
      <3>4. Free(r) \in Int /\ clock <= Free(r)
        BY <1>2, <2>1, <3>2, <3>3
      <3> QED
        BY <2>2, <3>4
    <2>3. CASE loop[r].pc \notin {"issue", "complete", "fail"}
      <3>1. loop[r].batch = <<>> /\ issue[r].pc = "idle"
        BY <2>3 DEF Orderly, Coupled
      <3>2. n = 0 /\ Begun(r) = clock
        BY <2>3, <3>1 DEF Begun, InHand
      <3>3. work = 0
        BY <1>4, <3>2
      <3> HIDE DEF work
      <3> QED
        BY <1>1, <2>1, <3>2, <3>3
    <2> QED
      BY <2>2, <2>3
  <1>6. /\ NextPoll(r) \in Int /\ loop[r].pollDue <= NextPoll(r) /\ Free(r) <= NextPoll(r)
        /\ NextPoll(r) \in {loop[r].pollDue, Free(r)}
    BY <1>1, <1>5 DEF NextPoll
  <1> QED
    BY <1>1, <1>2, <1>3, <1>5, <1>6

(* The state between two steps of a system in a prompt environment.        *)
Steady ==
    /\ TypeOK /\ Coupled /\ Archive /\ Known /\ Unhurried /\ MintsOnTime /\ Stamped
    /\ clock <= MaxTime
    /\ \A r \in Replica : /\ Orderly(r) /\ RowTrue(r)
                          /\ IsFiniteSet(Pending(r)) /\ Load(r) <= Demand

(* No more requests can need the loop than there are.                      *)
LEMMA SteadyStep ==
    ASSUME InTime, Steady, [Next]_vars
    PROVE  Steady'
  <1> USE DEF Steady
  <1>1. TypeOK' /\ Coupled' /\ Archive'
    BY TypeStep, CoupledStep, ArchiveStep
  <1>2. Known' /\ Unhurried' /\ MintsOnTime' /\ Stamped'
    BY <1>1, KnownStep, UnhurriedStep, MintsStep, StampedStep
  <1>3. clock' <= MaxTime
    <2>1. clock \in Nat /\ MaxTime \in Nat
      BY EnvironmentAssumption DEF TypeOK
    <2>2. CASE Tick
      BY <2>1, <2>2 DEF Tick
    <2> QED
      BY <2>2, TimeStep
  <1>4. ASSUME NEW r \in Replica
        PROVE  Orderly(r)' /\ RowTrue(r)' /\ IsFiniteSet(Pending(r))' /\ (Load(r) <= Demand)'
    <2>1. Orderly(r)' /\ RowTrue(r)'
      BY OrderlyStep, RowStep
    <2>2. IsFiniteSet(Pending(r)') /\ Load(r)' \in Nat /\ Load(r) \in Nat /\ Load(r)' <= Load(r)
      BY LoadStep DEF InTime
    <2>3. Demand \in Nat /\ Load(r) <= Demand
      BY TimeFacts
    <2> QED
      BY <2>1, <2>2, <2>3 DEF Demand
  <1> QED
    BY <1>1, <1>2, <1>3, <1>4

(* The steps that leave the loop's timers and its batch alone.             *)
Quiet(r) ==
    /\ clock' = clock
    /\ loop'[r].hbDue = loop[r].hbDue /\ loop'[r].pollDue = loop[r].pollDue
    /\ loop'[r].batch = loop[r].batch
    /\ Begun(r)' <= Begun(r)
    /\ loop'[r].pc = "heartbeat" <=> loop[r].pc = "heartbeat"
    /\ loop'[r].pc = "heartbeat" => loop'[r].stamp = loop[r].stamp
    /\ issue'[r].pc # "idle" => /\ issue[r].pc # "idle"
                                /\ issue'[r].deadline = issue[r].deadline
    /\ \A row \in replicas' : row.ref = r => row \in replicas

(* What moves a replica that serves.                                       *)
LEMMA ServingStep ==
    ASSUME InTime, Steady, [Next]_vars, NEW r \in Replica, Serving(r)'
    PROVE  \/ Start(r)
           \/ /\ Serving(r)
              /\ \/ Tick \/ Quiet(r) \/ HeartbeatTick(r) \/ Heartbeat(r)
                 \/ PollTick(r) \/ Record(r)
  <1>0. TypeOK /\ Coupled /\ MintsOnTime /\ Orderly(r) /\ RowTrue(r)
    BY DEF Steady
  <1>1. /\ clock \in Nat /\ Begun(r) \in Int /\ Begun(r) <= clock
        /\ clock <= Begun(r) + MintTime /\ MintTime \in Nat /\ LauncherTimeout \in Nat
        /\ loop[r].pc \notin {"issue", "complete", "fail"} => Begun(r) = clock
    BY <1>0, FreeFacts, TimeFacts, ConstantTypes
  <1>2. CASE MainMoves(r)
    <2>1. \/ Start(r)
          \/ main'[r].pc # "serve"
      BY <1>0, <1>2 DEF MainMoves, StartFails, Signal, MainStep, MainDrains, ShutdownReturns,
                        Crash, Ends, TypeOK, MainState
    <2> QED
      BY <2>1 DEF Serving
  <1>3. CASE Still(r)
    <2>1. Serving(r) /\ Begun(r)' = Begun(r)
      BY <1>3 DEF Still, Serving, Begun
    <2> QED
      BY <1>1, <1>3, <2>1 DEF Quiet, Still
  <1>4. CASE Tick
    BY <1>4 DEF Tick, Serving
  <1>5. CASE LoopStep(r)
    <2>1. Serving(r)
      BY <1>5, Zenon DEF LoopStep, HeartbeatTick, PollTick, Heartbeat, Cleanup, Record, RunStops,
                  RunDrains, Serving
    <2>2. CASE Cleanup(r)
      <3>1. /\ loop[r].pc = "cleanup" /\ UNCHANGED <<clock, issue, replicas>>
        BY <2>2 DEF Cleanup
      <3>2. /\ loop'[r].pc = "select" /\ loop'[r].hbDue = loop[r].hbDue
            /\ loop'[r].pollDue = loop[r].pollDue /\ loop'[r].batch = loop[r].batch
        BY <1>0, <2>2, LoopValues
      <3>3. issue[r].pc = "idle"
        BY <1>0, <3>1 DEF Coupled
      <3>4. Begun(r)' = Begun(r)
        BY <3>1, <3>2, <3>3 DEF Begun
      <3> QED
        BY <1>1, <2>1, <3>1, <3>2, <3>3, <3>4 DEF Quiet
    <2>3. ~RunStops(r) /\ ~RunDrains(r)
      BY <1>0, <2>1 DEF RunStops, RunDrains, RowTrue, Serving, Stopping
    <2> QED
      BY <1>5, <2>1, <2>2, <2>3 DEF LoopStep
  <1>6. CASE IssueStep(r)
    <2>0. r \in Worker /\ Idle.pc = "idle"
      BY DEF Worker, Idle
    <2>1. UNCHANGED <<clock, main, replicas>>
      BY <1>6, Zenon DEF IssueStep, IssueFind, IssueMint, IssuePut, IssueRead, IssueFails, tables
    <2>2. Serving(r) /\ issue[r].pc # "idle" /\ loop[r].pc = "issue"
      BY <1>0, <1>6, <2>0, <2>1, IssueValues DEF Serving, Coupled
    <2>3. ASSUME NEW bundles, IssueReturns(r, bundles) PROVE Quiet(r)
      <3>1. /\ issue'[r].pc = "idle" /\ loop'[r].pc \in {"fail", "complete"}
            /\ loop'[r].batch = loop[r].batch /\ loop'[r].hbDue = loop[r].hbDue
            /\ loop'[r].pollDue = loop[r].pollDue
        BY <1>0, <2>0, <2>2, <2>3, ReturnValues
      <3>2. Begun(r)' = clock - MintTime
        BY <2>1, <3>1 DEF Begun
      <3>3. Begun(r)' <= Begun(r)
        BY <1>1, <3>2
      <3> QED
        BY <2>1, <2>2, <3>1, <3>3 DEF Quiet
    <2>4. ASSUME NEW from, NEW to, IssueGoes(r, from, to),
                 \/ from = "find" /\ to = "mint" /\ issue'[r].until = clock + LauncherTimeout
                 \/ to \in {"put", "read"}
          PROVE  Quiet(r)
      <3>1. UNCHANGED loop /\ issue'[r].pc = to /\ issue'[r].deadline = issue[r].deadline
            /\ issue[r].pc = from
        BY <2>4 DEF IssueGoes
      <3>2. CASE to \in {"put", "read"}
        <4>1. Begun(r)' = clock - MintTime
          BY <2>1, <3>1, <3>2 DEF Begun
        <4>2. Begun(r)' <= Begun(r)
          BY <1>1, <4>1
        <4> QED
          BY <2>1, <2>2, <3>1, <4>2 DEF Quiet
      <3>3. CASE from = "find" /\ to = "mint" /\ issue'[r].until = clock + LauncherTimeout
        <4>1. Begun(r) = clock
          BY <2>2, <3>1, <3>3 DEF Begun
        <4>2. Begun(r)' = issue'[r].until - LauncherTimeout
          BY <3>1, <3>3 DEF Begun
        <4>3. Begun(r)' <= Begun(r)
          BY <1>1, <3>3, <4>1, <4>2
        <4> QED
          BY <2>1, <2>2, <3>1, <4>3 DEF Quiet
      <3> QED
        BY <2>4, <3>2, <3>3
    <2> QED
      BY <1>0, <1>6, <2>0, <2>2, <2>3, <2>4, IssueValues
  <1> QED
    BY <1>0, <1>2, <1>3, <1>4, <1>5, <1>6, ReplicaActor

(* What the loop has spent only grows, by an answer for every row it has   *)
(* recorded.                                                               *)
LEMMA PaidFacts ==
    ASSUME InTime, Steady, Steady', NEW r \in Replica
    PROVE  /\ Load(r) \in Nat /\ Load(r)' \in Nat /\ Todo(r) \in Nat /\ Todo(r)' \in Nat
           /\ Paid(r) \in Int /\ Paid(r)' \in Int
           /\ Todo(r) <= Demand => Paid(r) >= 0
           /\ Todo(r)' <= Demand => Paid(r)' >= 0
           /\ Todo(r)' <= Todo(r) => Paid(r) <= Paid(r)'
           /\ Todo(r)' < Todo(r) => Paid(r) + MintTime <= Paid(r)'
           /\ Paid(r) + MintTime * InHand(r) <= MintTime * Demand
  <1>1. Load(r) \in Nat /\ Load(r)' \in Nat
    <2>1. IsFiniteSet(Heading(r)) /\ IsFiniteSet(Heading(r)')
      BY FS_Subset DEF Heading, InTime
    <2>2. IsFiniteSet(Pending(r)) /\ IsFiniteSet(Pending(r)')
      BY DEF Steady
    <2>3. Cardinality(Heading(r)) \in Nat /\ Cardinality(Pending(r)) \in Nat
      BY <2>1, <2>2, FS_CardinalityType
    <2>4. Cardinality(Heading(r)') \in Nat /\ Cardinality(Pending(r)') \in Nat
      BY <2>1, <2>2, FS_CardinalityType
    <2> QED
      BY <2>3, <2>4 DEF Load
  <1>2. InHand(r) \in Nat /\ InHand(r)' \in Nat
    BY DEF Steady, TypeOK, LoopState, InHand
  <1>3. Todo(r) \in Nat /\ Todo(r)' \in Nat
    BY <1>1, <1>2 DEF Todo
  <1>4. MintTime \in Nat /\ Demand \in Nat
    BY TimeFacts
  <1>5. Paid(r) = MintTime * (Demand - Todo(r)) /\ Paid(r)' = MintTime * (Demand - Todo(r)')
    BY DEF Paid, Demand
  <1>6. \A m, d, x, y \in Nat :
           /\ m * (d - x) \in Int
           /\ x <= d => m * (d - x) >= 0
           /\ y <= x => m * (d - x) <= m * (d - y)
           /\ y < x => m * (d - x) + m <= m * (d - y)
    <2> SUFFICES ASSUME NEW m \in Nat, NEW d \in Nat, NEW x \in Nat, NEW y \in Nat
                 PROVE  /\ m * (d - x) \in Int
                        /\ x <= d => m * (d - x) >= 0
                        /\ y <= x => m * (d - x) <= m * (d - y)
                        /\ y < x => m * (d - x) + m <= m * (d - y)
      OBVIOUS
    <2>1. y < x => m * (d - x) + m <= m * (d - y)
      <3>1. \A a, b \in Int : a + 1 <= b => m * a + m <= m * b
        OBVIOUS
      <3> QED
        BY <3>1
    <2> QED
      BY <2>1
  <1>7. Paid(r) + MintTime * InHand(r) <= MintTime * Demand
    <2>1. \A m, d, a, b \in Nat : m * (d - (a + b)) + m * b <= m * d
      <3> SUFFICES ASSUME NEW m \in Nat, NEW d \in Nat, NEW a \in Nat, NEW b \in Nat
                   PROVE  m * (d - (a + b)) + m * b <= m * d
        OBVIOUS
      <3>1. m * (d - (a + b)) + m * b = m * d - m * a /\ m * a \in Nat /\ m * d \in Nat
        OBVIOUS
      <3> QED
        BY <3>1
    <2> QED
      BY <1>1, <1>2, <1>4, <1>5, <2>1 DEF Todo
  <1> QED
    BY <1>1, <1>3, <1>4, <1>5, <1>6, <1>7

(* A loop that serves keeps its times: it polls within PollInterval, its   *)
(* Issue has RequestTimeout, and a heartbeat follows the last one within   *)
(* HeartbeatInterval and the time of the launcher's answers.               *)
Beats(r, beat) == beat - Skew[r] + HeartbeatInterval + Paid(r)
OnTime(r) == Serving(r) =>
    /\ Todo(r) <= Demand
    /\ loop[r].pollDue <= clock + PollInterval
    /\ InHand(r) <= BatchSize
    /\ Begun(r) <= loop[r].hbDue + Paid(r)
    /\ issue[r].pc # "idle" => Begun(r) + RequestTimeout <= issue[r].deadline
    /\ loop[r].pc = "heartbeat" => /\ loop[r].hbDue <= Beats(r, loop[r].stamp)
                                   /\ clock <= Beats(r, loop[r].stamp)
    /\ \A row \in replicas : row.ref = r =>
          /\ ~row.draining
          /\ Begun(r) <= Beats(r, row.lastHeartbeat)
          /\ loop[r].pc # "heartbeat" => loop[r].hbDue <= Beats(r, row.lastHeartbeat)

(* The integers that the times of a replica are computed from.             *)
LEMMA TimesTypes ==
    ASSUME InTime, Steady, Steady', NEW r \in Replica
    PROVE  /\ clock \in Nat /\ clock' \in Nat /\ Skew[r] \in Int
           /\ HeartbeatInterval \in Nat \ {0} /\ PollInterval \in Nat \ {0}
           /\ BatchSize \in Nat \ {0} /\ RequestTimeout \in Nat \ {0} /\ MintTime \in Nat
           /\ Begun(r) \in Int /\ Begun(r)' \in Int
           /\ loop[r].hbDue \in Int /\ loop'[r].hbDue \in Int
           /\ loop[r].pollDue \in Int /\ loop'[r].pollDue \in Int
           /\ loop[r].stamp \in Int /\ loop'[r].stamp \in Int
           /\ InHand(r) \in Nat /\ InHand(r)' \in Nat
           /\ issue[r].deadline \in Nat /\ issue'[r].deadline \in Nat
           /\ \A row \in replicas : row.lastHeartbeat \in Int
           /\ \A row \in replicas' : row.lastHeartbeat \in Int
  <1>1. r \in Worker
    BY DEF Worker
  <1>2. TypeOK /\ TypeOK'
    BY DEF Steady
  <1>3. Begun(r) \in Int /\ Begun(r)' \in Int
    <2>1. clock \in Nat /\ clock' \in Nat /\ issue[r].until \in Nat /\ issue'[r].until \in Nat
      BY <1>1, <1>2 DEF TypeOK, IssueState
    <2>2. MintTime \in Nat /\ LauncherTimeout \in Nat
      BY TimeFacts, ConstantTypes
    <2> QED
      BY <2>1, <2>2 DEF Begun
  <1>4. /\ loop[r] \in LoopState /\ loop'[r] \in LoopState
        /\ issue[r] \in IssueState /\ issue'[r] \in IssueState
        /\ replicas \subseteq ReplicaRow /\ replicas' \subseteq ReplicaRow
        /\ clock \in Nat /\ clock' \in Nat
    BY <1>1, <1>2 DEF TypeOK
  <1>5. InHand(r) \in Nat /\ InHand(r)' \in Nat
    BY DEF Steady, TypeOK, LoopState, InHand
  <1> QED
    BY <1>3, <1>4, <1>5, TimeFacts, ConstantTypes DEF LoopState, IssueState, ReplicaRow

(* The time spent grows as the work gets less.                             *)
LEMMA PaidGrows ==
    ASSUME InTime, Steady, Steady', NEW r \in Replica, Todo(r) <= Demand, Todo(r)' <= Todo(r)
    PROVE  /\ Paid(r) \in Int /\ Paid(r)' \in Int /\ Paid(r) >= 0 /\ Paid(r) <= Paid(r)'
           /\ (Todo(r) <= Demand)'
  <1>1. Paid(r) <= Paid(r)' /\ Todo(r)' <= Demand /\ Paid(r) \in Int /\ Paid(r)' \in Int
        /\ Paid(r) >= 0
    BY PaidFacts, TimeFacts
  <1>2. (Todo(r) <= Demand)'
    BY <1>1 DEF Demand
  <1> QED
    BY <1>1, <1>2

(* Steps that leave the timers alone.                                      *)
LEMMA OnTimeQuiet ==
    ASSUME InTime, Steady, Steady', [Next]_vars, NEW r \in Replica, Serving(r), OnTime(r),
           Quiet(r)
    PROVE  OnTime(r)'
  <1>1. InHand(r)' = InHand(r) /\ Todo(r) <= Demand
    BY DEF InHand, Quiet, OnTime
  <1>2. Todo(r)' <= Todo(r)
    <2>1. Load(r)' <= Load(r)
      BY LoadStep DEF Steady, InTime
    <2> QED
      BY <1>1, <2>1, PaidFacts, TimesTypes DEF Todo
  <1>3. (InHand(r) <= BatchSize)'
    BY <1>1 DEF OnTime
  <1>4. (loop[r].pollDue <= clock + PollInterval)'
    BY DEF OnTime, Quiet
  <1>5. (Begun(r) <= loop[r].hbDue + Paid(r))'
    BY <1>1, <1>2, PaidGrows, TimesTypes DEF OnTime, Quiet
  <1>6. (issue[r].pc # "idle" => Begun(r) + RequestTimeout <= issue[r].deadline)'
    BY TimesTypes DEF OnTime, Quiet
  <1>7. (loop[r].pc = "heartbeat" => /\ loop[r].hbDue <= Beats(r, loop[r].stamp)
                                     /\ clock <= Beats(r, loop[r].stamp))'
    BY <1>1, <1>2, PaidGrows, TimesTypes DEF OnTime, Quiet, Beats
  <1>8. ASSUME NEW row \in replicas', row.ref = r
         PROVE  /\ ~row.draining
                /\ Begun(r)' <= Beats(r, row.lastHeartbeat)'
                /\ loop'[r].pc # "heartbeat" => loop'[r].hbDue <= Beats(r, row.lastHeartbeat)'
    <2>1. row \in replicas /\ row.lastHeartbeat \in Int
      BY <1>8, TimesTypes DEF Quiet
    <2>2. /\ ~row.draining /\ Begun(r) <= Beats(r, row.lastHeartbeat)
          /\ loop[r].pc # "heartbeat" => loop[r].hbDue <= Beats(r, row.lastHeartbeat)
      BY <1>8, <2>1 DEF OnTime
    <2> QED
      BY <1>1, <1>2, <2>1, <2>2, PaidGrows, TimesTypes DEF Quiet, Beats
  <1> QED
    BY <1>2, <1>1, PaidGrows, <1>3, <1>4, <1>5, <1>6, <1>7, <1>8 DEF OnTime

(* Time only passes before the loop's next tick, or while the launcher     *)
(* works.                                                                  *)
LEMMA TickRests ==
    ASSUME InTime, Steady, NEW r \in Replica, Serving(r), Tick
    PROVE  /\ clock' = clock + 1
           /\ UNCHANGED <<proofs, requests, replicas, main, loop, issue, call>>
           /\ \/ /\ loop[r].pc = "select" /\ issue[r].pc = "idle"
                 /\ clock < loop[r].hbDue /\ clock < loop[r].pollDue
                 /\ Begun(r)' = clock'
              \/ /\ loop[r].pc = "issue"
                 /\ Begun(r)' = Begun(r) /\ clock < Begun(r) + MintTime
  <1>1. clock' = clock + 1 /\ UNCHANGED <<proofs, requests, replicas, main, loop, issue, call>>
    BY DEF Tick, tables
  <1>2. LoopRests(r) /\ IssueRests(r) /\ loop[r].pc # "off"
        /\ (issue[r].pc # "idle" => loop[r].pc = "issue")
        /\ (loop[r].pc = "issue" => issue[r].pc # "idle")
    BY DEF Tick, InTime, Worker, Steady, RowTrue, Serving, Coupled, Orderly
  <1>3. CASE loop[r].pc = "select"
    BY <1>1, <1>2, <1>3 DEF LoopRests, Begun
  <1>4. CASE loop[r].pc = "issue"
    BY <1>1, <1>2, <1>4 DEF IssueRests, Begun
  <1> QED
    BY <1>1, <1>2, <1>3, <1>4 DEF LoopRests

(* So time does not make the loop late.                                    *)
LEMMA OnTimeTick ==
    ASSUME InTime, Steady, Steady', [Next]_vars, NEW r \in Replica, Serving(r), OnTime(r), Tick
    PROVE  OnTime(r)'
  <1>1. /\ clock' = clock + 1 /\ UNCHANGED <<replicas, loop, issue>>
    BY TickRests
  <1>2. Todo(r)' <= Todo(r) /\ Todo(r) <= Demand /\ InHand(r)' = InHand(r)
    <2>1. Load(r)' <= Load(r)
      BY LoadStep DEF Steady, InTime
    <2>2. InHand(r)' = InHand(r)
      BY <1>1 DEF InHand
    <2> QED
      BY <2>1, <2>2, PaidFacts, TimesTypes DEF Todo, OnTime
  <1>3. /\ Paid(r) \in Int /\ Paid(r)' \in Int /\ Paid(r) >= 0 /\ Paid(r) <= Paid(r)'
        /\ (Todo(r) <= Demand)'
    BY <1>2, PaidGrows
  <1>4. /\ (loop[r].pollDue <= clock + PollInterval)'
        /\ (InHand(r) <= BatchSize)'
    BY <1>1, <1>2, TimesTypes DEF OnTime
  <1>5. CASE /\ loop[r].pc = "select" /\ issue[r].pc = "idle"
             /\ clock < loop[r].hbDue /\ clock < loop[r].pollDue
             /\ Begun(r)' = clock'
    <2>1. (Begun(r) <= loop[r].hbDue + Paid(r))'
      BY <1>1, <1>3, <1>5, TimesTypes
    <2>2. ASSUME NEW row \in replicas, row.ref = r
          PROVE  /\ ~row.draining /\ Begun(r)' <= Beats(r, row.lastHeartbeat)'
                 /\ loop[r].hbDue <= Beats(r, row.lastHeartbeat)'
      <3>1. row.lastHeartbeat \in Int
        BY TimesTypes
      <3>2. ~row.draining /\ loop[r].hbDue <= Beats(r, row.lastHeartbeat)
        BY <1>5, <2>2 DEF OnTime
      <3> QED
        BY <1>1, <1>3, <1>5, <3>1, <3>2, TimesTypes DEF Beats
    <2> QED
      BY <1>1, <1>3, <1>4, <1>5, <2>1, <2>2 DEF OnTime
  <1>6. CASE /\ loop[r].pc = "issue" /\ Begun(r)' = Begun(r)
    <2>1. (Begun(r) <= loop[r].hbDue + Paid(r))'
      BY <1>1, <1>3, <1>6, TimesTypes DEF OnTime
    <2>2. (issue[r].pc # "idle" => Begun(r) + RequestTimeout <= issue[r].deadline)'
      BY <1>1, <1>6 DEF OnTime
    <2>3. ASSUME NEW row \in replicas, row.ref = r
          PROVE  /\ ~row.draining /\ Begun(r)' <= Beats(r, row.lastHeartbeat)'
                 /\ loop[r].hbDue <= Beats(r, row.lastHeartbeat)'
      <3>1. row.lastHeartbeat \in Int
        BY TimesTypes
      <3>2. /\ ~row.draining /\ loop[r].hbDue <= Beats(r, row.lastHeartbeat)
            /\ Begun(r) <= Beats(r, row.lastHeartbeat)
        BY <1>6, <2>3 DEF OnTime
      <3> QED
        BY <1>1, <1>3, <1>6, <3>1, <3>2, TimesTypes DEF Beats
    <2> QED
      BY <1>1, <1>3, <1>4, <1>6, <2>1, <2>2, <2>3 DEF OnTime
  <1> QED
    BY <1>5, <1>6, TickRests

(* The tick of a heartbeat carries the time it was due.                    *)
LEMMA OnTimeHeartbeatTick ==
    ASSUME InTime, Steady, Steady', [Next]_vars, NEW r \in Replica, Serving(r), OnTime(r),
           HeartbeatTick(r)
    PROVE  OnTime(r)'
  <1> DEFINE due == loop[r].hbDue
  <1>1. /\ clock' = clock /\ UNCHANGED <<replicas, issue>>
        /\ loop[r].pc = "select" /\ due <= clock /\ issue[r].pc = "idle"
    BY TimesTypes DEF HeartbeatTick, tables, Steady, Coupled
  <1>2. /\ loop'[r].pc = "heartbeat" /\ loop'[r].stamp = due + Skew[r]
        /\ loop'[r].hbDue = NextTick(due, HeartbeatInterval)
        /\ loop'[r].pollDue = loop[r].pollDue /\ loop'[r].batch = loop[r].batch
    BY LoopValues DEF Steady, Ready
  <1>3. clock < loop'[r].hbDue /\ loop'[r].hbDue <= clock + HeartbeatInterval
    BY <1>1, <1>2, NextTickValue, TimesTypes
  <1>4. Todo(r)' <= Todo(r) /\ Todo(r) <= Demand /\ InHand(r)' = InHand(r)
    <2>1. Load(r)' <= Load(r)
      BY LoadStep DEF Steady, InTime
    <2>2. InHand(r)' = InHand(r)
      BY <1>2 DEF InHand
    <2> QED
      BY <2>1, <2>2, PaidFacts, TimesTypes DEF Todo, OnTime
  <1>5. /\ Paid(r) \in Int /\ Paid(r)' \in Int /\ Paid(r) >= 0 /\ Paid(r) <= Paid(r)'
        /\ (Todo(r) <= Demand)'
    BY <1>4, PaidGrows
  <1>6. Begun(r) = clock /\ Begun(r)' = clock
    BY <1>1, <1>2 DEF Begun
  <1>7. /\ (loop[r].pollDue <= clock + PollInterval)'
        /\ (InHand(r) <= BatchSize)'
    BY <1>1, <1>2, <1>4, TimesTypes DEF OnTime
  <1>8. (Begun(r) <= loop[r].hbDue + Paid(r))'
    BY <1>3, <1>5, <1>6, TimesTypes
  <1>9. clock <= due + Paid(r)
    BY <1>6 DEF OnTime
  <1>10. (loop[r].pc = "heartbeat" => /\ loop[r].hbDue <= Beats(r, loop[r].stamp)
                                      /\ clock <= Beats(r, loop[r].stamp))'
    BY <1>1, <1>2, <1>3, <1>5, <1>9, TimesTypes DEF Beats
  <1>11. ASSUME NEW row \in replicas, row.ref = r
         PROVE  ~row.draining /\ Begun(r)' <= Beats(r, row.lastHeartbeat)'
    <2>1. row.lastHeartbeat \in Int
      BY TimesTypes
    <2>2. ~row.draining /\ Begun(r) <= Beats(r, row.lastHeartbeat)
      BY <1>11 DEF OnTime
    <2> QED
      BY <1>5, <1>6, <2>1, <2>2, TimesTypes DEF Beats
  <1> QED
    BY <1>1, <1>2, <1>5, <1>7, <1>8, <1>10, <1>11 DEF OnTime

(* A heartbeat that does not fail writes its stamp.                        *)
LEMMA OnTimeHeartbeat ==
    ASSUME InTime, Steady, Steady', [Next]_vars, NEW r \in Replica, Serving(r), OnTime(r),
           Heartbeat(r), faults' = 0
    PROVE  OnTime(r)'
  <1>0. TypeOK /\ Coupled /\ Orderly(r) /\ clock <= MaxTime
    BY DEF Steady
  <1>1. /\ clock' = clock /\ UNCHANGED issue
        /\ loop[r].pc = "heartbeat" /\ issue[r].pc = "idle"
        /\ replicas' = HeartbeatReplica(r, loop[r].stamp)
    <2>1. issue[r].pc = "idle" /\ r \notin Call
      BY <1>0, ConstantTypes DEF Heartbeat, Coupled
    <2>2. Deadline(r) > clock
      BY <1>0, <2>1, EnvironmentAssumption DEF Deadline, Orderly, NoDeadline, TypeOK
    <2>3. ~Fails(r)
      BY <1>0, <2>1, <2>2, ConstantTypes, TimesTypes
         DEF Fails, Fault, Cancelled, TypeOK, Deadline
    <2> QED
      BY <2>1, <2>3 DEF Heartbeat
  <1>2. /\ loop'[r].pc = "cleanup" /\ loop'[r].stamp = loop[r].stamp
        /\ loop'[r].hbDue = loop[r].hbDue
        /\ loop'[r].pollDue = loop[r].pollDue /\ loop'[r].batch = loop[r].batch
    BY <1>0, LoopValues DEF Ready
  <1>4. Todo(r)' <= Todo(r) /\ Todo(r) <= Demand /\ InHand(r)' = InHand(r)
    <2>1. Load(r)' <= Load(r)
      BY LoadStep DEF Steady, InTime
    <2>2. InHand(r)' = InHand(r)
      BY <1>2 DEF InHand
    <2> QED
      BY <2>1, <2>2, PaidFacts, TimesTypes DEF Todo, OnTime
  <1>5. /\ Paid(r) \in Int /\ Paid(r)' \in Int /\ Paid(r) >= 0 /\ Paid(r) <= Paid(r)'
        /\ (Todo(r) <= Demand)'
    BY <1>4, PaidGrows
  <1>6. Begun(r) = clock /\ Begun(r)' = clock
    BY <1>1, <1>2 DEF Begun
  <1>7. /\ (loop[r].pollDue <= clock + PollInterval)'
        /\ (InHand(r) <= BatchSize)'
    BY <1>1, <1>2, <1>4, TimesTypes DEF OnTime
  <1>8. (Begun(r) <= loop[r].hbDue + Paid(r))'
    BY <1>2, <1>5, <1>6, TimesTypes DEF OnTime
  <1>9. ASSUME NEW row \in replicas', row.ref = r
        PROVE  /\ ~row.draining /\ Begun(r)' <= Beats(r, row.lastHeartbeat)'
               /\ loop'[r].hbDue <= Beats(r, row.lastHeartbeat)'
    <2>1. row.lastHeartbeat = loop[r].stamp /\ ~row.draining
      BY <1>0, <1>1, <1>9, OwnRow
    <2>2. loop[r].hbDue <= Beats(r, loop[r].stamp) /\ clock <= Beats(r, loop[r].stamp)
      BY <1>1 DEF OnTime
    <2> QED
      BY <1>2, <1>5, <1>6, <2>1, <2>2, TimesTypes DEF Beats
  <1> QED
    BY <1>1, <1>2, <1>5, <1>7, <1>8, <1>9 DEF OnTime

(* A process that starts registers at that time, and its tickers start.    *)
LEMMA OnTimeStart ==
    ASSUME InTime, Steady, Steady', NEW r \in Replica, Start(r)
    PROVE  OnTime(r)'
  <1>0. TypeOK /\ Coupled /\ Orderly(r)
    BY DEF Steady
  <1>1. /\ clock' = clock /\ UNCHANGED issue /\ issue[r].pc = "idle"
        /\ replicas' = RegisterReplica(r) /\ loop[r].pc = "off"
    BY <1>0 DEF Start, Coupled
  <1>2. /\ loop'[r].pc = "select" /\ loop'[r].batch = <<>>
        /\ loop'[r].hbDue = clock + HeartbeatInterval
        /\ loop'[r].pollDue = clock + PollInterval
    BY <1>0, <1>1, LoopValues DEF Orderly
  <1>3. /\ InHand(r)' = 0 /\ loop'[r].hbDue = clock + HeartbeatInterval
        /\ loop'[r].pollDue = clock + PollInterval
    BY <1>2 DEF InHand
  <1>4. Todo(r)' <= Demand
    <2>1. Load(r)' <= Demand
      BY DEF Steady, Demand
    <2>2. Todo(r)' = Load(r)' + InHand(r)'
      BY DEF Todo
    <2> QED
      BY <1>3, <2>1, <2>2, PaidFacts
  <1>5. Paid(r)' \in Int /\ Paid(r)' >= 0
    BY <1>4, PaidFacts
  <1>6. Begun(r)' = clock
    BY <1>1, <1>2 DEF Begun
  <1>7. ASSUME NEW row \in replicas', row.ref = r
        PROVE  row.lastHeartbeat = clock + Skew[r] /\ ~row.draining
    BY <1>1, <1>7 DEF RegisterReplica, LocalTime
  <1>8. /\ (loop[r].pollDue <= clock + PollInterval)' /\ (InHand(r) <= BatchSize)'
        /\ (Begun(r) <= loop[r].hbDue + Paid(r))' /\ (Todo(r) <= Demand)'
    <2>1. (InHand(r) <= BatchSize)' /\ (Todo(r) <= Demand)'
      BY <1>3, <1>4, TimesTypes DEF Demand
    <2>2. (Begun(r) <= loop[r].hbDue + Paid(r))'
      BY <1>3, <1>5, <1>6, TimesTypes
    <2>3. (loop[r].pollDue <= clock + PollInterval)'
      BY <1>1, <1>3, TimesTypes
    <2> QED
      BY <2>1, <2>2, <2>3
  <1>9. ASSUME NEW row \in replicas', row.ref = r
        PROVE  /\ ~row.draining /\ Begun(r)' <= Beats(r, row.lastHeartbeat)'
               /\ loop'[r].hbDue <= Beats(r, row.lastHeartbeat)'
    BY <1>3, <1>5, <1>6, <1>7, <1>9, TimesTypes DEF Beats
  <1> QED
    BY <1>1, <1>2, <1>8, <1>9 DEF OnTime

(* The tick of the poll, when no request waits for a lease to end.         *)
Polls(r, taken, n) ==
    /\ UNCHANGED <<clock, proofs, replicas, main, call>>
    /\ loop[r].pc = "select" /\ loop[r].pollDue <= clock
    /\ loop'[r].pc \in {"select", "issue"} /\ loop'[r].hbDue = loop[r].hbDue
    /\ clock < loop'[r].pollDue /\ loop'[r].pollDue <= clock + PollInterval
    /\ issue'[r].pc # "idle" => issue'[r].deadline = clock + RequestTimeout
    /\ Begun(r) = clock /\ Begun(r)' = clock
    /\ InHand(r) = 0 /\ InHand(r)' = n /\ Load(r)' = Load(r) - n
    /\ Pending(r)' = Pending(r) \ taken
    /\ Claimable(r, loop[r].pollDue + Skew[r]) \ taken # {} => n = BatchSize
    /\ \A row \in taken : row.challenge \in Claimed(r)'
    /\ requests' = ClaimRequests(taken, loop[r].pollDue + Skew[r] + LeaseDuration)

(* processPending, if its claim does not fail: it takes rows that wait, and*)
(* starts Issue for the first.                                             *)
LEMMA PollStep ==
    ASSUME InTime, Steady, Steady', NEW r \in Replica, Serving(r), PollTick(r), faults' = 0,
           Claimable(r, loop[r].pollDue + Skew[r]) \subseteq Pending(r)
    PROVE  \E taken \in SUBSET Pending(r), n \in 0..BatchSize : Polls(r, taken, n)
  <1>0. TypeOK /\ Coupled /\ Orderly(r) /\ IsFiniteSet(Call) /\ IsFiniteSet(Pending(r))
    BY DEF Steady, InTime
  <1> DEFINE until == loop[r].pollDue + Skew[r] + LeaseDuration
             due == NextTick(loop[r].pollDue, PollInterval)
  <1>1. PICK taken \in SUBSET Pending(r), batch \in Seq(Challenge) :
              /\ Len(batch) \in 0..BatchSize
              /\ Load(r)' = Load(r) - Len(batch)
              /\ Pending(r)' = Pending(r) \ taken
              /\ requests' = ClaimRequests(taken, until)
              /\ Claimable(r, loop[r].pollDue + Skew[r]) \ taken # {}
                    => Len(batch) = BatchSize
              /\ {batch[i] : i \in DOMAIN batch} = {row.challenge : row \in taken}
              /\ WorkOn(r, batch, due)
    BY <1>0, ClaimStep
  <1>2. /\ UNCHANGED <<clock, proofs, replicas, main, call>>
        /\ loop[r].pc = "select" /\ loop[r].pollDue <= clock
    BY TimesTypes DEF PollTick
  <1>3. clock < due /\ due <= clock + PollInterval
    BY <1>2, NextTickValue, TimesTypes
  <1>4. issue[r].pc = "idle" /\ loop[r].batch = <<>>
    BY <1>0, <1>2 DEF Coupled, Orderly
  <1> HIDE DEF due, until
  <1>5. /\ loop'[r].pc = IF batch # <<>> THEN "issue" ELSE "select"
        /\ loop'[r].batch = batch
        /\ loop'[r].pollDue = due /\ loop'[r].hbDue = loop[r].hbDue
        /\ issue'[r] = IF batch # <<>> THEN NewIssue(r) ELSE issue[r]
    BY <1>0, <1>1, LoopValues
  <1>6. issue'[r].pc # "idle" => issue'[r].deadline = clock + RequestTimeout
    BY <1>4, <1>5, ConstantTypes DEF NewIssue
  <1>7. Begun(r) = clock /\ Begun(r)' = clock
    <2>1. issue'[r].pc \in {"idle", "find"}
      BY <1>4, <1>5 DEF NewIssue
    <2> QED
      BY <1>2, <1>4, <1>5, <2>1 DEF Begun
  <1>8. InHand(r) = 0 /\ InHand(r)' = Len(batch)
    BY <1>4, <1>5 DEF InHand
  <1>9. \A row \in taken : row.challenge \in Claimed(r)'
    <2>1. Claimed(r)' = {batch[i] : i \in DOMAIN batch}
      BY <1>5 DEF Claimed
    <2> QED
      BY <1>1, <2>1
  <1> DEFINE n == Len(batch)
  <1>10. /\ Load(r)' = Load(r) - n /\ InHand(r)' = n /\ n \in 0..BatchSize
         /\ Claimable(r, loop[r].pollDue + Skew[r]) \ taken # {} => n = BatchSize
    BY <1>1, <1>8
  <1>11. loop'[r].pc \in {"select", "issue"} /\ loop'[r].hbDue = loop[r].hbDue
         /\ loop'[r].pollDue = due
    BY <1>5
  <1> HIDE DEF n
  <1> QED
    BY <1>1, <1>2, <1>3, <1>6, <1>7, <1>8, <1>9, <1>10, <1>11 DEF Polls, until

(* The loop records an outcome, and turns to the next request of the       *)
(* batch.                                                                  *)
Outcome(r) == IF loop[r].pc = "complete" THEN "complete" ELSE "failed"
Turns(r) ==
    /\ UNCHANGED <<clock, proofs, replicas, main, call>>
    /\ loop[r].pc \in {"complete", "fail"}
    /\ loop'[r].pc \in {"select", "issue"} /\ loop'[r].hbDue = loop[r].hbDue
    /\ loop'[r].pollDue = loop[r].pollDue
    /\ issue'[r].pc # "idle" => issue'[r].deadline = clock + RequestTimeout
    /\ Begun(r) = clock - MintTime /\ Begun(r)' = clock
    /\ InHand(r)' = InHand(r) - 1
    /\ requests' = MarkRequest(r, Head(loop[r].batch), Outcome(r))
    /\ \A c : c \in Claimed(r) => c \in Claimed(r)' \/ c = Head(loop[r].batch)

(* So it does with every request of the batch, as long as nothing fails.   *)
LEMMA TurnStep ==
    ASSUME InTime, Steady, Steady', NEW r \in Replica, Serving(r), Record(r), faults' = 0
    PROVE  Turns(r)
  <1>0. TypeOK /\ Coupled /\ Orderly(r) /\ clock <= MaxTime
    BY DEF Steady
  <1>1. /\ UNCHANGED <<clock, proofs, replicas, main, call>>
        /\ loop[r].pc \in {"complete", "fail"} /\ issue[r].pc = "idle"
        /\ WorkOn(r, Tail(loop[r].batch), loop[r].pollDue)
    BY <1>0 DEF Record, Coupled
  <1>2. requests' = MarkRequest(r, Head(loop[r].batch), Outcome(r))
    <2>1. r \notin Call
      BY ConstantTypes
    <2>2. Deadline(r) > clock
      BY <1>0, <1>1, <2>1, EnvironmentAssumption DEF Deadline, Orderly, NoDeadline, TypeOK
    <2>3. ~Fails(r)
      BY <1>0, <2>1, <2>2, ConstantTypes, TimesTypes
         DEF Fails, Fault, Cancelled, TypeOK, Deadline
    <2> QED
      BY <2>3 DEF Record, Outcome
  <1>3. loop[r].batch \in Seq(Challenge) /\ loop[r].batch # <<>>
    BY <1>0, <1>1 DEF TypeOK, LoopState, Coupled
  <1> DEFINE batch == loop[r].batch
             rest == Tail(batch)
  <1>4. /\ Len(rest) = Len(batch) - 1 /\ DOMAIN rest = 1..(Len(batch) - 1)
        /\ \A i \in DOMAIN rest : rest[i] = batch[i + 1]
        /\ Head(batch) = batch[1] /\ DOMAIN batch = 1..Len(batch) /\ Len(batch) \in Nat
    BY <1>3
  <1>5. /\ loop'[r].pc = IF rest # <<>> THEN "issue" ELSE "select"
        /\ loop'[r].batch = rest
        /\ loop'[r].pollDue = loop[r].pollDue /\ loop'[r].hbDue = loop[r].hbDue
        /\ issue'[r] = IF rest # <<>> THEN NewIssue(r) ELSE issue[r]
    <2> HIDE DEF rest
    <2>1. WorkOn(r, rest, loop[r].pollDue)
      BY <1>1 DEF rest
    <2> QED
      BY <1>0, <2>1, LoopValues
  <1>6. issue'[r].pc # "idle" => issue'[r].deadline = clock + RequestTimeout
    <2>1. NewIssue(r).deadline = clock + RequestTimeout
      BY ConstantTypes DEF NewIssue
    <2>2. issue'[r] \in {NewIssue(r), issue[r]}
      BY <1>5
    <2> HIDE DEF rest
    <2> QED
      BY <1>1, <2>1, <2>2
  <1>7. Begun(r) = clock - MintTime /\ Begun(r)' = clock
    <2>1. issue'[r].pc \in {"idle", "find"}
      BY <1>1, <1>5 DEF NewIssue
    <2> QED
      BY <1>1, <1>5, <2>1 DEF Begun
  <1>8. InHand(r)' = InHand(r) - 1
    BY <1>4, <1>5 DEF InHand
  <1>9. ASSUME NEW c, c \in Claimed(r) PROVE c \in Claimed(r)' \/ c = Head(batch)
    <2>1. PICK i \in DOMAIN batch : c = batch[i]
      BY <1>9 DEF Claimed
    <2>2. CASE i = 1
      BY <1>4, <2>1, <2>2
    <2>3. CASE i # 1
      <3>1. i - 1 \in DOMAIN rest
        BY <1>4, <2>1, <2>3
      <3>2. rest[i - 1] = batch[i]
        <4>1. rest[i - 1] = batch[(i - 1) + 1] /\ (i - 1) + 1 = i
          BY <1>4, <2>1, <3>1
        <4> QED
          BY <4>1
      <3> HIDE DEF rest
      <3> QED
        BY <1>5, <2>1, <3>1, <3>2 DEF Claimed
    <2> QED
      BY <2>2, <2>3
  <1> HIDE DEF batch, rest
  <1>10. loop'[r].pc \in {"select", "issue"} /\ loop'[r].hbDue = loop[r].hbDue
         /\ loop'[r].pollDue = loop[r].pollDue
    BY <1>5
  <1> QED
    BY <1>1, <1>2, <1>6, <1>7, <1>8, <1>9, <1>10 DEF Turns, batch

(* Both keep the loop on time.                                             *)
LEMMA OnTimePoll ==
    ASSUME InTime, Steady, Steady', NEW r \in Replica, Serving(r), OnTime(r),
           NEW taken, NEW n \in 0..BatchSize, Polls(r, taken, n)
    PROVE  OnTime(r)'
  <1>1. n \in Nat /\ n <= BatchSize
    BY TimesTypes
  <1>2. Todo(r)' <= Todo(r) /\ Todo(r) <= Demand
    BY <1>1, PaidFacts, TimesTypes DEF Todo, OnTime, Polls
  <1>3. /\ Paid(r) \in Int /\ Paid(r)' \in Int /\ Paid(r) >= 0 /\ Paid(r) <= Paid(r)'
        /\ (Todo(r) <= Demand)'
    BY <1>2, PaidGrows
  <1>4. (loop[r].pollDue <= clock + PollInterval)' /\ (InHand(r) <= BatchSize)'
    BY <1>1 DEF Polls
  <1>5. (Begun(r) <= loop[r].hbDue + Paid(r))'
    BY <1>3, TimesTypes DEF OnTime, Polls
  <1>6. (issue[r].pc # "idle" => Begun(r) + RequestTimeout <= issue[r].deadline)'
    BY TimesTypes DEF Polls
  <1>7. ASSUME NEW row \in replicas', row.ref = r
        PROVE  /\ ~row.draining /\ Begun(r)' <= Beats(r, row.lastHeartbeat)'
               /\ loop'[r].hbDue <= Beats(r, row.lastHeartbeat)'
    <2>1. row \in replicas /\ row.lastHeartbeat \in Int
      BY <1>7, TimesTypes DEF Polls
    <2>2. /\ ~row.draining /\ Begun(r) <= Beats(r, row.lastHeartbeat)
          /\ loop[r].hbDue <= Beats(r, row.lastHeartbeat)
      BY <1>7, <2>1 DEF OnTime, Polls
    <2> QED
      BY <1>3, <2>1, <2>2, TimesTypes DEF Polls, Beats
  <1>8. loop'[r].pc # "heartbeat"
    BY DEF Polls
  <1> QED
    BY <1>3, <1>4, <1>5, <1>6, <1>7, <1>8 DEF OnTime

(* The token of a request that is recorded is paid for.                    *)
LEMMA OnTimeTurn ==
    ASSUME InTime, Steady, Steady', [Next]_vars, NEW r \in Replica, Serving(r), OnTime(r),
           Turns(r)
    PROVE  OnTime(r)'
  <1>1. InHand(r)' = InHand(r) - 1 /\ Todo(r) <= Demand
    BY DEF Turns, OnTime
  <1>2. Todo(r)' < Todo(r)
    <2>1. Load(r)' <= Load(r)
      BY LoadStep DEF Steady, InTime
    <2> QED
      BY <1>1, <2>1, PaidFacts, TimesTypes DEF Todo
  <1>3. /\ Paid(r) \in Int /\ Paid(r)' \in Int /\ Paid(r) + MintTime <= Paid(r)'
        /\ (Todo(r) <= Demand)'
    BY <1>1, <1>2, PaidGrows, PaidFacts
  <1>4. (loop[r].pollDue <= clock + PollInterval)' /\ (InHand(r) <= BatchSize)'
    BY <1>1, TimesTypes DEF Turns, OnTime
  <1>5. (Begun(r) <= loop[r].hbDue + Paid(r))'
    BY <1>3, TimesTypes DEF OnTime, Turns
  <1>6. (issue[r].pc # "idle" => Begun(r) + RequestTimeout <= issue[r].deadline)'
    BY TimesTypes DEF Turns
  <1>7. ASSUME NEW row \in replicas', row.ref = r
        PROVE  /\ ~row.draining /\ Begun(r)' <= Beats(r, row.lastHeartbeat)'
               /\ loop'[r].hbDue <= Beats(r, row.lastHeartbeat)'
    <2>1. row \in replicas /\ row.lastHeartbeat \in Int
      BY <1>7, TimesTypes DEF Turns
    <2>2. /\ ~row.draining /\ Begun(r) <= Beats(r, row.lastHeartbeat)
          /\ loop[r].hbDue <= Beats(r, row.lastHeartbeat)
      BY <1>7, <2>1 DEF OnTime, Turns
    <2> QED
      BY <1>3, <2>1, <2>2, TimesTypes DEF Turns, Beats
  <1>8. loop'[r].pc # "heartbeat"
    BY DEF Turns
  <1> QED
    BY <1>3, <1>4, <1>5, <1>6, <1>7, <1>8 DEF OnTime

-----------------------------------------------------------------------------
(* Nothing fails.                                                          *)

(* Issue has the time it needs.                                            *)
LEMMA IssueSucceeds ==
    ASSUME InTime, Steady, NEW w \in Worker, faults' = 0,
           w \in Replica => Serving(w) /\ OnTime(w)
    PROVE  ~IssueFails(w)
  <1> SUFFICES ASSUME IssueFails(w) PROVE FALSE
    OBVIOUS
  <1>0. /\ TypeOK /\ Coupled /\ MintsOnTime /\ Unhurried /\ clock <= MaxTime
        /\ \A r \in Replica : Orderly(r)
    BY DEF Steady
  <1>1. /\ clock \in Nat /\ issue[w].until \in Nat /\ issue[w].deadline \in Nat
        /\ LauncherTimeout \in Nat /\ MintTime \in Nat /\ MintTime < LauncherTimeout
        /\ MintTime < RequestTimeout /\ RequestTimeout \in Nat /\ issue[w].pc # "idle"
    BY <1>0, TimeFacts, ConstantTypes DEF IssueFails, TypeOK, IssueState
  <1>2. ~Fault
    BY <1>0 DEF Fault, TypeOK
  <1>3. ~(issue[w].pc = "mint" /\ clock >= issue[w].until)
    <2> SUFFICES ASSUME issue[w].pc = "mint" PROVE ~(clock >= issue[w].until)
      OBVIOUS
    <2>1. clock <= issue[w].until - LauncherTimeout + MintTime
      BY <1>0 DEF MintsOnTime
    <2> QED
      BY <1>1, <2>1
  <1>4. Cancelled(w) \/ clock >= Deadline(w)
    BY <1>2, <1>3 DEF IssueFails, Fails
  <1>5. CASE w \in Call
    <2>1. call[w].deadline = NoDeadline /\ w \notin Replica
      BY <1>0, <1>1, <1>5, ConstantTypes DEF Coupled, Unhurried
    <2> QED
      BY <1>0, <1>1, <1>4, <1>5, <2>1, EnvironmentAssumption DEF Cancelled, Deadline, NoDeadline
  <1>6. CASE w \in Replica
    <2>1. w \notin Call /\ Serving(w) /\ OnTime(w)
      BY <1>6, ConstantTypes
    <2>2. clock >= issue[w].deadline
      BY <1>4, <1>6, <2>1 DEF Cancelled, Deadline
    <2>3. Begun(w) + RequestTimeout <= issue[w].deadline
      BY <1>1, <2>1 DEF OnTime
    <2>4. Begun(w) \in Int /\ clock <= Begun(w) + MintTime
      BY <1>0, <1>6, FreeFacts
    <2> QED
      BY <1>1, <2>2, <2>3, <2>4
  <1> QED
    BY <1>5, <1>6 DEF Worker

(* So no loop has a failure to record, and no row holds one.               *)
NoneFails == /\ \A r \in Replica : loop[r].pc # "fail"
             /\ \A row \in requests : row.status # "failed"

(* FailRequest only follows an error of Issue.                             *)
LEMMA NoneFailsStep ==
    ASSUME InTime, Steady, [Next]_vars, faults' = 0, NoneFails, \A r \in Replica : OnTime(r)
    PROVE  NoneFails'
  <1>0. TypeOK /\ Coupled /\ Archive
    BY DEF Steady
  <1>1. ASSUME NEW r \in Replica PROVE loop'[r].pc # "fail"
    <2>0. loop[r].pc # "fail" /\ r \in Worker /\ r \notin Call
      BY ConstantTypes DEF NoneFails, Worker
    <2>1. CASE Still(r) \/ Tick
      BY <2>0, <2>1 DEF Still, Tick
    <2>2. CASE HeartbeatTick(r) \/ Heartbeat(r) \/ Cleanup(r) \/ RunStops(r) \/ RunDrains(r)
      BY <1>0, <2>2, LoopValues DEF Ready
    <2>3. CASE PollTick(r) \/ Record(r)
      <3>1. \E batch, due : WorkOn(r, batch, due)
        BY <2>3, Zenon DEF PollTick, Record
      <3> QED
        BY <1>0, <3>1, LoopValues
    <2>4. CASE IssueStep(r)
      <3>1. ASSUME NEW bundles, IssueReturns(r, bundles), Serving(r) => bundles # {}
            PROVE  loop'[r].pc # "fail"
        BY <1>0, <3>1, ReturnValues
      <3>2. Serving(r) => ~IssueFails(r)
        BY <2>0, IssueSucceeds
      <3>3. issue[r].pc = "read" => Stored(Owner(r), Nonce(r)) # {}
        BY <1>0, <2>0 DEF Archive, ReadFinds
      <3> QED
        BY <1>0, <2>0, <2>4, <3>1, <3>2, <3>3, IssueValues DEF IssueGoes
    <2>5. CASE MainMoves(r)
      <3>1. CASE Ends(r)
        BY <1>0, <3>1 DEF Ends, TypeOK, LoopState
      <3>2. CASE Start(r)
        BY <1>0, <3>2, LoopValues
      <3>3. CASE UNCHANGED loop
        BY <2>0, <3>3
      <3> QED
        BY <2>5, <3>1, <3>2, <3>3
           DEF MainMoves, StartFails, Signal, MainStep, MainDrains, ShutdownReturns, Crash
    <2> QED
      BY <1>0, <2>1, <2>2, <2>3, <2>4, <2>5, ReplicaActor DEF LoopStep
  <1>2. ASSUME NEW row \in requests' PROVE row.status # "failed"
    <2>1. CASE UNCHANGED requests \/ Deletes
      BY <1>2, <2>1 DEF NoneFails, Deletes, DeleteExpiredRequests
    <2>2. CASE \E r \in Replica : \E q : Claims(r, q)
      BY <1>0, <1>2, <2>2, ClaimedRows DEF Claims, NoneFails
    <2>3. CASE \E r \in Replica : Records(r)
      <3>1. PICK r \in Replica : Records(r)
        BY <2>3
      <3>2. requests' = MarkRequest(r, Head(loop[r].batch), "complete")
        BY <3>1 DEF Records, Record, NoneFails
      <3> QED
        BY <1>0, <1>2, <3>2, MarkedRows DEF NoneFails
    <2>4. CASE \E k \in Call : Inserts(k)
      <3>1. PICK k \in Call : Inserts(k)
        BY <2>4
      <3>2. row \in requests \/ row.status = "pending"
        BY <1>2, <3>1, InsertedRows DEF Inserts, NewRow
      <3> QED
        BY <3>2 DEF NoneFails
    <2> QED
      BY <1>0, <2>1, <2>2, <2>3, <2>4, RequestsStep
  <1> QED
    BY <1>1, <1>2 DEF NoneFails

-----------------------------------------------------------------------------
(* When the rows that wait are claimed.                                    *)

(* When the last of them is claimed, times BatchSize: one batch every      *)
(* Period after the next poll.                                             *)
LastPoll(r) == BatchSize * NextPoll(r) + Period * (Load(r) - 1)

(* It moves closer as the load gets less, and a full batch makes up for a  *)
(* Period.                                                                 *)
LEMMA LastPollFacts ==
    ASSUME InTime, Steady, Steady', NEW r \in Replica
    PROVE  /\ LastPoll(r) \in Int /\ LastPoll(r)' \in Int
           /\ NextPoll(r) \in Int /\ NextPoll(r)' \in Int
           /\ NextPoll(r)' <= NextPoll(r) /\ Load(r)' <= Load(r) => LastPoll(r)' <= LastPoll(r)
           /\ 1 <= Load(r) => BatchSize * NextPoll(r) <= LastPoll(r)
           /\ NextPoll(r)' <= clock' + Period => LastPoll(r)' <= BatchSize * clock' + Backlog
           /\ /\ Load(r)' = Load(r) - BatchSize
              /\ NextPoll(r)' <= clock + Period /\ clock <= NextPoll(r)
              => LastPoll(r)' <= LastPoll(r)
  <1>1. /\ BatchSize \in Nat \ {0} /\ Period \in Nat /\ MintTime \in Nat /\ clock \in Nat
        /\ clock' \in Nat /\ Demand \in Nat /\ Load(r) \in Nat /\ Load(r)' \in Nat
        /\ Load(r)' <= Demand /\ Backlog = Period * (Demand - 1) + BatchSize * Period
    <2>1. Load(r)' <= Demand
      BY DEF Steady, Demand
    <2> QED
      BY <2>1, TimeFacts, TimesTypes, PaidFacts
  <1>2. NextPoll(r) \in Int /\ NextPoll(r)' \in Int
    <2>1. Free(r) \in Int /\ Free(r)' \in Int
      <3>1. MintTime * InHand(r) \in Int /\ MintTime * InHand(r)' \in Int
        BY TimesTypes
      <3>2. Free(r)' = Begun(r)' + MintTime * InHand(r)'
        BY DEF Free
      <3>3. Free(r) = Begun(r) + MintTime * InHand(r)
        BY DEF Free
      <3> QED
        BY <3>1, <3>2, <3>3, TimesTypes
    <2>2. NextPoll(r) \in {loop[r].pollDue, Free(r)}
      BY DEF NextPoll
    <2>3. NextPoll(r)' \in {loop'[r].pollDue, Free(r)'}
      BY DEF NextPoll
    <2> QED
      BY <2>1, <2>2, <2>3, TimesTypes
  <1>3. /\ LastPoll(r) = BatchSize * NextPoll(r) + Period * (Load(r) - 1)
        /\ LastPoll(r)' = BatchSize * NextPoll(r)' + Period * (Load(r)' - 1)
    BY DEF LastPoll, Period, RoundTime
  <1> DEFINE x == NextPoll(r)
             y == NextPoll(r)'
             m == Load(r)
             n == Load(r)'
  <1>4. x \in Int /\ y \in Int /\ m \in Nat /\ n \in Nat
    BY <1>1, <1>2
  <1>5. /\ BatchSize * x \in Int /\ BatchSize * y \in Int
        /\ Period * (m - 1) \in Int /\ Period * (n - 1) \in Int
        /\ y <= x => BatchSize * y <= BatchSize * x
        /\ n <= m => Period * (n - 1) <= Period * (m - 1)
        /\ 1 <= m => 0 <= Period * (m - 1)
    <2> HIDE DEF x, y, m, n
    <2>1. \A p \in Nat, a, b \in Int : /\ p * a \in Int /\ (0 <= a => 0 <= p * a)
                                      /\ (a <= b => p * a <= p * b)
      OBVIOUS
    <2>2. m - 1 \in Int /\ n - 1 \in Int
      BY <1>4
    <2> QED
      BY <1>1, <1>4, <2>1, <2>2
  <1>6. y <= clock' + Period => BatchSize * y + Period * (n - 1) <= BatchSize * clock' + Backlog
    <2> SUFFICES ASSUME y <= clock' + Period
                 PROVE  BatchSize * y + Period * (n - 1) <= BatchSize * clock' + Backlog
      OBVIOUS
    <2> DEFINE t == clock'
    <2>1. BatchSize * y <= BatchSize * (t + Period)
      <3>1. t + Period \in Int /\ BatchSize \in Nat /\ y <= t + Period
        BY <1>1
      <3> HIDE DEF y, t
      <3> QED
        BY <1>4, <3>1, Products
    <2>2. BatchSize * (t + Period) = BatchSize * t + BatchSize * Period
      BY <1>1
    <2>3. Period * (n - 1) <= Period * (Demand - 1)
      <3>1. n - 1 \in Int /\ Demand - 1 \in Int /\ n - 1 <= Demand - 1
        BY <1>1, <1>4
      <3> HIDE DEF n
      <3> QED
        BY <1>1, <3>1, Products
    <2>4. BatchSize * t \in Int /\ BatchSize * Period \in Int /\ Period * (Demand - 1) \in Int
      BY <1>1
    <2> HIDE DEF y, n, t
    <2> QED
      BY <1>1, <1>5, <2>1, <2>2, <2>3, <2>4 DEF t
  <1>7. n = m - BatchSize /\ y <= clock + Period /\ clock <= x
        => BatchSize * y + Period * (n - 1) <= BatchSize * x + Period * (m - 1)
    <2> SUFFICES ASSUME n = m - BatchSize, y <= clock + Period, clock <= x
                 PROVE  BatchSize * y + Period * (n - 1) <= BatchSize * x + Period * (m - 1)
      OBVIOUS
    <2> HIDE DEF x, y, m, n
    <2>1. BatchSize * y <= BatchSize * (x + Period)
      <3>1. x + Period \in Int /\ BatchSize \in Nat /\ y <= x + Period
        BY <1>1, <1>4
      <3> QED
        BY <1>4, <3>1, Products
    <2>2. BatchSize * (x + Period) = BatchSize * x + BatchSize * Period
      BY <1>1, <1>4
    <2>3. Period * (n - 1) = Period * (m - 1) - BatchSize * Period
      <3>1. \A p, b, a \in Int : p * (a - b - 1) = p * (a - 1) - b * p
        OBVIOUS
      <3> QED
        BY <1>1, <1>4, <3>1
    <2>4. BatchSize * Period \in Int
      BY <1>1
    <2> QED
      BY <1>5, <2>1, <2>2, <2>3, <2>4
  <1>8. Backlog \in Int /\ BatchSize * clock' \in Int
    BY <1>1, TimeFacts
  <1> HIDE DEF x, y, m, n
  <1>9. /\ BatchSize * x + Period * (m - 1) \in Int /\ BatchSize * y + Period * (n - 1) \in Int
        /\ y <= x /\ n <= m
              => BatchSize * y + Period * (n - 1) <= BatchSize * x + Period * (m - 1)
        /\ 1 <= m => BatchSize * x <= BatchSize * x + Period * (m - 1)
    BY <1>5
  <1> QED
    BY <1>3, <1>4, <1>6, <1>7, <1>9 DEF x, y, m, n

(* Between two polls the next one does not move away, and what is in hand  *)
(* is not done later.                                                      *)
LEMMA NextPollStep ==
    ASSUME InTime, Steady, Steady', [Next]_vars, NEW r \in Replica, Serving(r), Serving(r)',
           OnTime(r), faults' = 0, ~PollTick(r)
    PROVE  /\ NextPoll(r)' <= NextPoll(r) /\ Load(r)' <= Load(r)
           /\ loop[r].batch # <<>> => Free(r)' <= Free(r)
  <1>0. TypeOK /\ Coupled /\ MintsOnTime /\ Orderly(r)
    BY DEF Steady
  <1>1. Load(r)' <= Load(r)
    BY <1>0, LoadStep DEF Steady, InTime
  <1> DEFINE m == MintTime * InHand(r)
             n == MintTime * InHand(r)'
  <1>2. /\ m \in Nat /\ n \in Nat /\ Free(r) = Begun(r) + m /\ Free(r)' = Begun(r)' + n
        /\ InHand(r)' = InHand(r) => n = m
        /\ InHand(r)' = InHand(r) - 1 => n = m - MintTime
    <2>1. MintTime \in Nat /\ InHand(r) \in Nat /\ InHand(r)' \in Nat
      BY TimesTypes
    <2>2. Free(r) = Begun(r) + m
      BY DEF Free
    <2>3. Free(r)' = Begun(r)' + n
      BY DEF Free
    <2>4. \A a, b, c \in Nat : /\ a * b \in Nat /\ a * c \in Nat
                              /\ c = b - 1 => a * c = a * b - a
      OBVIOUS
    <2> QED
      BY <2>1, <2>2, <2>3, <2>4
  <1> HIDE DEF m, n
  <1>3. CASE Free(r)' <= Free(r) /\ loop'[r].pollDue = loop[r].pollDue
    <2>1. Free(r) \in Int /\ Free(r)' \in Int
      BY <1>2, TimesTypes
    <2>2. NextPoll(r) = IF loop[r].pollDue > Free(r) THEN loop[r].pollDue ELSE Free(r)
      BY DEF NextPoll
    <2>3. NextPoll(r)' = IF loop[r].pollDue > Free(r)' THEN loop[r].pollDue ELSE Free(r)'
      BY <1>3 DEF NextPoll
    <2>4. NextPoll(r)' <= NextPoll(r)
      BY <1>3, <2>1, <2>2, <2>3, TimesTypes
    <2> QED
      BY <1>1, <1>3, <2>4
  <1>4. CASE Tick
    <2>1. clock' = clock + 1 /\ UNCHANGED loop /\ InHand(r)' = InHand(r)
      BY <1>4, TickRests DEF InHand
    <2>2. CASE Begun(r)' = Begun(r)
      <3>1. Free(r)' <= Free(r)
        BY <1>2, <2>1, <2>2, TimesTypes
      <3> QED
        BY <1>3, <2>1, <3>1
    <2>3. CASE loop[r].pc = "select" /\ clock < loop[r].pollDue /\ Begun(r)' = clock'
      <3>1. loop[r].batch = <<>> /\ InHand(r) = 0 /\ Free(r) = clock
        BY <1>0, <2>3, FreeFacts DEF Orderly
      <3>2. m = 0
        BY <3>1, TimesTypes DEF m
      <3>3. Free(r)' = clock + 1
        BY <1>2, <2>1, <2>3, <3>2, TimesTypes
      <3>4. NextPoll(r) = IF loop[r].pollDue > Free(r) THEN loop[r].pollDue ELSE Free(r)
        BY DEF NextPoll
      <3>5. NextPoll(r)' = IF loop[r].pollDue > Free(r)' THEN loop[r].pollDue ELSE Free(r)'
        BY <2>1 DEF NextPoll
      <3>6. Free(r) = clock
        BY <3>1
      <3>7. NextPoll(r)' <= NextPoll(r)
        BY <2>3, <3>3, <3>4, <3>5, <3>6, TimesTypes
      <3> QED
        BY <1>1, <3>1, <3>7
    <2> QED
      BY <1>4, <2>2, <2>3, TickRests
  <1>5. CASE Quiet(r)
    <2>1. /\ InHand(r)' = InHand(r) /\ loop'[r].pollDue = loop[r].pollDue
          /\ Begun(r)' <= Begun(r)
      BY <1>5 DEF Quiet, InHand
    <2>2. Free(r)' <= Free(r)
      BY <1>2, <2>1, TimesTypes
    <2> QED
      BY <1>3, <2>1, <2>2
  <1>6. CASE HeartbeatTick(r) \/ Heartbeat(r)
    <2>1. /\ loop'[r].pollDue = loop[r].pollDue /\ loop'[r].batch = loop[r].batch
          /\ issue'[r] = issue[r] /\ loop'[r].pc \in {"heartbeat", "cleanup"}
      BY <1>0, <1>6, LoopValues DEF Ready
    <2>2. clock' = clock /\ issue[r].pc = "idle" /\ loop[r].pc \in {"select", "heartbeat"}
      BY <1>0, <1>6 DEF HeartbeatTick, Heartbeat, Coupled
    <2>3. Begun(r)' = Begun(r)
      BY <2>1, <2>2 DEF Begun
    <2>4. InHand(r)' = InHand(r)
      BY <2>1 DEF InHand
    <2>5. loop'[r].pollDue = loop[r].pollDue
      BY <2>1
    <2> QED
      BY <1>2, <1>3, <2>3, <2>4, <2>5, TimesTypes
  <1>7. CASE Record(r)
    <2>1. /\ Begun(r) = clock - MintTime /\ Begun(r)' = clock
          /\ InHand(r)' = InHand(r) - 1 /\ loop'[r].pollDue = loop[r].pollDue
      BY <1>7, TurnStep DEF Turns
    <2>2. Free(r)' <= Free(r)
      BY <1>2, <2>1, TimesTypes
    <2> QED
      BY <1>3, <2>1, <2>2
  <1>8. ~Start(r)
    BY DEF Start, Serving
  <1> QED
    BY <1>4, <1>5, <1>6, <1>7, <1>8, ServingStep

(* The next poll is never further away than a Period.                      *)
LEMMA PollNear ==
    ASSUME InTime, Steady, Steady', NEW r \in Replica, Serving(r), OnTime(r)
    PROVE  /\ NextPoll(r) <= clock + Period /\ clock <= NextPoll(r)
           /\ clock <= Free(r) /\ Free(r) <= clock + RoundTime /\ Free(r) \in Int
           /\ loop[r].pollDue <= NextPoll(r)
  <1>0. TypeOK /\ Coupled /\ MintsOnTime /\ Orderly(r)
    BY DEF Steady
  <1>1. /\ Free(r) \in Int /\ clock <= Free(r) /\ Begun(r) <= clock
        /\ loop[r].pollDue <= NextPoll(r) /\ Free(r) <= NextPoll(r) /\ NextPoll(r) \in Int
        /\ NextPoll(r) \in {loop[r].pollDue, Free(r)}
    BY <1>0, FreeFacts
  <1>2. Free(r) <= clock + RoundTime
    <2>1. InHand(r) <= BatchSize
      BY DEF OnTime
    <2>2. MintTime * InHand(r) <= MintTime * BatchSize
      BY <2>1, TimesTypes, Products
    <2>3. MintTime * BatchSize = RoundTime
      BY TimesTypes DEF RoundTime
    <2>4. Free(r) = Begun(r) + MintTime * InHand(r)
      BY DEF Free
    <2>5. MintTime * InHand(r) \in Int /\ RoundTime \in Nat
      BY TimesTypes, TimeFacts
    <2> QED
      BY <1>1, <2>2, <2>3, <2>4, <2>5, TimesTypes
  <1>3. loop[r].pollDue <= clock + PollInterval
    BY DEF OnTime
  <1> QED
    BY <1>1, <1>2, <1>3, TimeFacts, TimesTypes

(* The rows of an owner that serves: what is being processed is in the     *)
(* loop's hands, and what is pending does not expire before the last poll. *)
Queued(r) == Serving(r) =>
    /\ \A row \in requests : row.ref = r /\ row.status = "processing"
                                => row.challenge \in Claimed(r)
    /\ \A row \in Pending(r), a \in Replica :
          LastPoll(r) + BatchSize * Skew[a] < BatchSize * row.expiresAt

(* No replica's clock deletes such a row, and the next poll can claim it.  *)
LEMMA PendingLives ==
    ASSUME InTime, Steady, Steady', NEW r \in Replica, Serving(r), Queued(r),
           NEW row \in Pending(r)
    PROVE  /\ 1 <= Load(r) /\ row.expiresAt \in Int
           /\ \A a \in Replica : NextPoll(r) + Skew[a] < row.expiresAt
  <1>1. row.expiresAt \in Int
    BY DEF Pending, Steady, TypeOK, RequestRow
  <1>2. 1 <= Load(r)
    <2>1. IsFiniteSet(Pending(r)) /\ IsFiniteSet(Heading(r))
      BY FS_Subset DEF Steady, InTime, Heading
    <2>2. Cardinality(Pending(r)) \in Nat /\ Cardinality(Heading(r)) \in Nat
      BY <2>1, FS_CardinalityType
    <2>3. Cardinality(Pending(r)) # 0
      BY <2>1, FS_EmptySet
    <2> QED
      BY <2>2, <2>3 DEF Load
  <1>3. ASSUME NEW a \in Replica PROVE NextPoll(r) + Skew[a] < row.expiresAt
    <2>1. /\ NextPoll(r) \in Int /\ LastPoll(r) \in Int /\ BatchSize * NextPoll(r) <= LastPoll(r)
          /\ Skew[a] \in Int /\ BatchSize \in Nat \ {0}
      BY <1>2, LastPollFacts, TimesTypes, ConstantTypes
    <2>2. LastPoll(r) + BatchSize * Skew[a] < BatchSize * row.expiresAt
      BY DEF Queued
    <2> DEFINE x == NextPoll(r) + Skew[a]
    <2>3. BatchSize * x = BatchSize * NextPoll(r) + BatchSize * Skew[a]
      BY <2>1, Products
    <2>4. BatchSize * NextPoll(r) \in Int /\ BatchSize * Skew[a] \in Int
          /\ BatchSize * row.expiresAt \in Int /\ x \in Int
      BY <1>1, <2>1
    <2> HIDE DEF x
    <2>5. BatchSize * x < BatchSize * row.expiresAt
      BY <2>1, <2>2, <2>3, <2>4
    <2>6. x < row.expiresAt
      BY <1>1, <2>1, <2>4, <2>5, Products
    <2> QED
      BY <2>6 DEF x
  <1> QED
    BY <1>1, <1>2, <1>3

(* A loop at its select has nothing in hand, so its claim finds only       *)
(* pending rows.                                                           *)
LEMMA ClaimsPending ==
    ASSUME Steady, NEW r \in Replica, Serving(r), Queued(r), loop[r].pc = "select"
    PROVE  /\ Claimed(r) = {}
           /\ \A now : Claimable(r, now) \subseteq Pending(r)
  <1>1. loop[r].batch = <<>>
    BY DEF Steady, Orderly
  <1>2. Claimed(r) = {}
    BY <1>1 DEF Claimed
  <1> QED
    BY <1>2 DEF Queued, Claimable, Pending

(* A row that is not claimed is not claimed later than expected.           *)
LEMMA LastPollStep ==
    ASSUME InTime, Steady, Steady', [Next]_vars, NEW r \in Replica, Serving(r), Serving(r)',
           OnTime(r), Queued(r), faults' = 0,
           NEW row \in Pending(r), row \in Pending(r)'
    PROVE  LastPoll(r)' <= LastPoll(r)
  <1>1. CASE ~PollTick(r)
    BY <1>1, NextPollStep, LastPollFacts
  <1>2. CASE PollTick(r)
    <2> DEFINE now == loop[r].pollDue + Skew[r]
    <2>1. loop[r].pc = "select"
      BY <1>2 DEF PollTick
    <2>2. PICK taken \in SUBSET Pending(r), n \in 0..BatchSize : Polls(r, taken, n)
      BY <1>2, <2>1, ClaimsPending, PollStep
    <2>3. row \in Claimable(r, now) \ taken
      <3>1. row \in Pending(r)' /\ row \notin taken
        BY <2>2 DEF Polls
      <3>2. NextPoll(r) + Skew[r] < row.expiresAt /\ row.expiresAt \in Int
            /\ NextPoll(r) \in Int
        BY PendingLives, LastPollFacts
      <3>3. now < row.expiresAt
        BY <3>2, PollNear, TimesTypes
      <3> QED
        BY <3>1, <3>2, <3>3, TimesTypes DEF Claimable, Pending
    <2>4. n = BatchSize
      BY <2>2, <2>3 DEF Polls
    <2>5. Load(r)' = Load(r) - BatchSize
      BY <2>2, <2>4 DEF Polls
    <2>6. NextPoll(r)' <= clock + Period
      <3>1. InHand(r)' = BatchSize /\ Begun(r)' = clock /\ loop'[r].pollDue <= clock + PollInterval
        BY <2>2, <2>4 DEF Polls
      <3>2. Free(r)' = Begun(r)' + MintTime * InHand(r)'
        BY DEF Free
      <3>3. MintTime * BatchSize = RoundTime
        BY TimesTypes DEF RoundTime
      <3>4. Free(r)' = clock + RoundTime
        BY <3>1, <3>2, <3>3
      <3>5. NextPoll(r)' \in {loop'[r].pollDue, Free(r)'}
        BY DEF NextPoll
      <3> QED
        BY <3>1, <3>4, <3>5, TimeFacts, TimesTypes
    <2>7. clock <= NextPoll(r)
      BY PollNear
    <2> QED
      BY <2>5, <2>6, <2>7, LastPollFacts
  <1> QED
    BY <1>1, <1>2

(* Only the owner claims and records its rows, one batch after the other,  *)
(* and a new row has all of RequestTTL.                                    *)
LEMMA QueuedStep ==
    ASSUME InTime, Steady, Steady', [Next]_vars, NEW r \in Replica, Serving(r)', faults' = 0,
           OnTime(r), Queued(r)
    PROVE  Queued(r)'
  <1>0. TypeOK /\ Coupled /\ Known
    BY DEF Steady
  <1>1. CASE Start(r)
    <2>1. requests' = requests /\ main[r].pc = "new"
      BY <1>1 DEF Start
    <2>2. \A row \in requests' : row.ref # r
      BY <1>0, <2>1 DEF Known, Started
    <2> QED
      BY <2>2 DEF Queued, Pending
  <1>2. CASE Serving(r)
    <2>1. ASSUME NEW row \in requests', row.ref = r, row.status = "processing"
          PROVE  row.challenge \in Claimed(r)'
      <3>1. CASE PollTick(r)
        <4>1. loop[r].pc = "select"
          BY <3>1 DEF PollTick
        <4>2. PICK taken \in SUBSET Pending(r), n \in 0..BatchSize : Polls(r, taken, n)
          BY <1>2, <3>1, <4>1, ClaimsPending, PollStep
        <4>3. ~(row \in requests)
          BY <1>2, <2>1, <4>1, ClaimsPending DEF Queued
        <4>4. \E old \in requests \cap taken : old.challenge = row.challenge
          BY <1>0, <2>1, <4>2, <4>3, ClaimedRows DEF Polls
        <4> QED
          BY <4>2, <4>4 DEF Polls
      <3>2. CASE Record(r)
        <4>1. Turns(r)
          BY <1>2, <3>2, TurnStep
        <4>2. row \in requests /\ ~(row.ref = r /\ row.challenge = Head(loop[r].batch))
          BY <1>0, <2>1, <4>1, MarkedRows DEF Turns, Outcome
        <4>3. row.challenge \in Claimed(r)
          BY <1>2, <2>1, <4>2 DEF Queued
        <4> QED
          BY <2>1, <4>1, <4>2, <4>3 DEF Turns
      <3>3. CASE ~PollTick(r) /\ ~Record(r)
        <4>1. loop'[r].batch = loop[r].batch
          <5>1. CASE Tick
            BY <5>1 DEF Tick
          <5>2. CASE Quiet(r)
            BY <5>2 DEF Quiet
          <5>3. CASE HeartbeatTick(r) \/ Heartbeat(r)
            BY <1>0, <5>3, LoopValues
          <5>4. ~Start(r)
            BY <1>2 DEF Start, Serving
          <5> QED
            BY <3>3, <5>1, <5>2, <5>3, <5>4, ServingStep
        <4>2. Claimed(r)' = Claimed(r)
          BY <4>1 DEF Claimed
        <4>3. row \in requests
          <5>1. CASE UNCHANGED requests \/ Deletes
            BY <2>1, <5>1 DEF Deletes, DeleteExpiredRequests
          <5>2. CASE \E s \in Replica : \E q : Claims(s, q)
            <6>0. PICK s \in Replica : \E q : Claims(s, q)
              BY <5>2
            <6>1. PICK q : Claims(s, q)
              BY <6>0
            <6> DEFINE taken == {q[i] : i \in DOMAIN q}
                       until == loop[s].pollDue + Skew[s] + LeaseDuration
            <6>2. s # r /\ requests' = ClaimRequests(taken, until)
                  /\ q \in Batch(Claimable(s, loop[s].pollDue + Skew[s]))
              BY <3>3, <6>1 DEF Claims
            <6>3. taken \subseteq Claimable(s, loop[s].pollDue + Skew[s])
              BY <6>2 DEF Batch
            <6>4. \A old \in taken : old.ref = s
              BY <6>3 DEF Claimable
            <6> HIDE DEF taken, until
            <6> QED
              BY <1>0, <2>1, <6>2, <6>4, ClaimedRows
          <5>3. CASE \E s \in Replica : Records(s)
            <6>1. PICK s \in Replica : Records(s)
              BY <5>3
            <6>2. \E status \in {"complete", "failed"} :
                     requests' = MarkRequest(s, Head(loop[s].batch), status)
              BY <6>1 DEF Records
            <6> QED
              BY <1>0, <2>1, <6>2, MarkedRows
          <5>4. CASE \E k \in Call : Inserts(k)
            <6>1. PICK k \in Call : Inserts(k)
              BY <5>4
            <6>2. row \in requests \/ row = NewRow(k)
              BY <6>1, InsertedRows DEF Inserts
            <6> QED
              BY <2>1, <6>2 DEF NewRow
          <5> QED
            BY <1>0, <5>1, <5>2, <5>3, <5>4, RequestsStep
        <4> QED
          BY <1>2, <2>1, <4>2, <4>3 DEF Queued
      <3> QED
        BY <3>1, <3>2, <3>3
    <2>2. ASSUME NEW row \in Pending(r)', NEW a \in Replica
          PROVE  LastPoll(r)' + BatchSize * Skew[a] < BatchSize * row.expiresAt
      <3>0. /\ LastPoll(r) \in Int /\ LastPoll(r)' \in Int /\ BatchSize \in Nat \ {0}
            /\ Skew[a] \in Int /\ row.expiresAt \in Int /\ clock \in Nat /\ clock' \in Nat
        <4>1. row.expiresAt \in Int
          BY DEF Pending, Steady, TypeOK, RequestRow
        <4> QED
          BY <4>1, LastPollFacts, TimesTypes, ConstantTypes
      <3>1. CASE row \in Pending(r)
        <4>1. LastPoll(r) + BatchSize * Skew[a] < BatchSize * row.expiresAt
          BY <1>2, <3>1 DEF Queued
        <4>2. LastPoll(r)' <= LastPoll(r)
          BY <1>2, <2>2, <3>1, LastPollStep
        <4>3. BatchSize * Skew[a] \in Int /\ BatchSize * row.expiresAt \in Int
          BY <3>0
        <4> QED
          BY <3>0, <4>1, <4>2, <4>3
      <3>2. CASE row \notin Pending(r)
        <4>1. PICK k \in Call : Inserts(k) /\ row = NewRow(k) /\ k \in Heading(r)
          BY <1>0, <2>2, <3>2, LoadFrame
        <4>2. UNCHANGED <<clock, loop, issue>>
          BY <4>1 DEF Inserts, Enqueue, ResolveFails
        <4>3. NextPoll(r)' = NextPoll(r)
          BY <4>2 DEF NextPoll, Free, InHand, Begun
        <4>4. LastPoll(r)' <= BatchSize * clock + Backlog
          <5>1. NextPoll(r)' <= clock' + Period
            BY <1>2, <4>2, <4>3, PollNear
          <5> QED
            BY <4>2, <5>1, LastPollFacts
        <4> DEFINE b == call[k].at
        <4>5. row.expiresAt = clock + Skew[b] + RequestTTL /\ b \in Replica
          <5>1. call[k].stamp = clock + Skew[b] /\ b \in Replica
            BY <1>0, <4>1 DEF Steady, Stamped, Inserts, LocalTime, TypeOK, CallState
          <5> QED
            BY <4>1, <5>1 DEF NewRow
        <4>6. Backlog < BatchSize * (RequestTTL + Skew[b] - Skew[a])
          BY <4>5 DEF InTime
        <4> HIDE DEF b
        <4>7. Skew[b] \in Int /\ RequestTTL \in Nat /\ Backlog \in Int
          BY <4>5, ConstantTypes, TimeFacts
        <4>8. BatchSize * (clock + Skew[b] + RequestTTL)
                = BatchSize * clock + BatchSize * (RequestTTL + Skew[b] - Skew[a])
                  + BatchSize * Skew[a]
          <5>1. \A m, x, y, z, w \in Int : m * (x + y + z) = m * x + m * (z + y - w) + m * w
            OBVIOUS
          <5> QED
            BY <3>0, <4>7, <5>1
        <4> DEFINE u == BatchSize * clock
                   v == BatchSize * (RequestTTL + Skew[b] - Skew[a])
                   w == BatchSize * Skew[a]
        <4>9. u \in Int /\ v \in Int /\ w \in Int
          BY <3>0, <4>7
        <4>10. BatchSize * row.expiresAt = u + v + w /\ LastPoll(r)' <= u + Backlog /\ Backlog < v
          BY <4>4, <4>5, <4>6, <4>8
        <4> HIDE DEF u, v, w
        <4>11. LastPoll(r)' + w < BatchSize * row.expiresAt
          BY <3>0, <4>7, <4>9, <4>10
        <4> QED
          BY <4>11 DEF w
      <3> QED
        BY <3>1, <3>2
    <2> QED
      BY <2>1, <2>2 DEF Queued, Pending
  <1> QED
    BY <1>1, <1>2, ServingStep

(* So a loop stays on time as long as no statement fails.                  *)
LEMMA OnTimeStep ==
    ASSUME InTime, Steady, Steady', [Next]_vars, NEW r \in Replica, faults' = 0,
           OnTime(r), Queued(r)
    PROVE  OnTime(r)'
  <1>1. CASE ~Serving(r)'
    BY <1>1 DEF OnTime
  <1>2. CASE Start(r)
    BY <1>2, OnTimeStart
  <1>3. CASE Serving(r) /\ PollTick(r)
    <2>1. loop[r].pc = "select"
      BY <1>3 DEF PollTick
    <2>2. PICK taken \in SUBSET Pending(r), n \in 0..BatchSize : Polls(r, taken, n)
      BY <1>3, <2>1, ClaimsPending, PollStep
    <2> QED
      BY <1>3, <2>2, OnTimePoll
  <1>4. CASE Serving(r) /\ Record(r)
    BY <1>4, TurnStep, OnTimeTurn
  <1>5. CASE Serving(r) /\ (Tick \/ Quiet(r) \/ HeartbeatTick(r) \/ Heartbeat(r))
    BY <1>5, OnTimeTick, OnTimeQuiet, OnTimeHeartbeatTick, OnTimeHeartbeat
  <1> QED
    BY <1>1, <1>2, <1>3, <1>4, <1>5, ServingStep

-----------------------------------------------------------------------------
(* A request that waits will find its proof.                               *)

(* The proof of r for c is stored, or its row is claimed, or the request   *)
(* in the loop's hands is done, a poll before d.                           *)
Prospect(r, c, d) ==
    \/ Stored(r, c) # {}
    \/ /\ \E row \in Pending(r) : row.challenge = c
       /\ LastPoll(r) + BatchSize * (RoundTime + PollInterval) < BatchSize * d
    \/ c \in Claimed(r) /\ Free(r) + PollInterval < d

(* The rows that a claim, or a record, does not concern.                   *)
LEMMA RowsLeft ==
    ASSUME NEW row \in requests
    PROVE  /\ \A taken, until : row \notin taken => row \in ClaimRequests(taken, until)
           /\ \A s, c, status : ~(row.ref = s /\ row.challenge = c)
                                   => row \in MarkRequest(s, c, status)
  <1>1. ASSUME NEW taken, NEW until, row \notin taken PROVE row \in ClaimRequests(taken, until)
    <2> DEFINE f(x) == IF x \in taken
                       THEN [x EXCEPT !.status = "processing", !.leaseUntil = until] ELSE x
    <2>1. f(row) = row
      BY <1>1
    <2> HIDE DEF f
    <2>2. row \in {f(x) : x \in requests}
      BY <2>1
    <2> QED
      BY <2>2, Zenon DEF f, ClaimRequests
  <1>2. ASSUME NEW s, NEW c, NEW status, ~(row.ref = s /\ row.challenge = c)
        PROVE  row \in MarkRequest(s, c, status)
    <2> DEFINE f(x) == IF x.ref = s /\ x.challenge = c
                       THEN [x EXCEPT !.status = status, !.leaseUntil = 0] ELSE x
    <2>1. f(row) = row
      BY <1>2
    <2> HIDE DEF f
    <2>2. row \in {f(x) : x \in requests}
      BY <2>1
    <2> QED
      BY <2>2, Zenon DEF f, MarkRequest
  <1> QED
    BY <1>1, <1>2

(* A row that waits stays until the loop of its owner claims it.           *)
LEMMA PendingStep ==
    ASSUME InTime, Steady, Steady', [Next]_vars, NEW r \in Replica, Serving(r), Serving(r)',
           OnTime(r), Queued(r), NoneFails, faults' = 0, NEW row \in Pending(r)
    PROVE  \/ row \in Pending(r)'
           \/ Stored(r, row.challenge)' # {}
           \/ /\ row.challenge \in Claimed(r)'
              /\ \E taken \in SUBSET Pending(r), n \in 0..BatchSize : Polls(r, taken, n)
  <1>0. TypeOK /\ Coupled /\ Archive /\ row \in requests /\ row.ref = r /\ row.status = "pending"
    BY DEF Steady, Pending
  <1>1. CASE PollTick(r)
    <2>1. loop[r].pc = "select"
      BY <1>1 DEF PollTick
    <2>2. PICK taken \in SUBSET Pending(r), n \in 0..BatchSize : Polls(r, taken, n)
      BY <1>1, <2>1, ClaimsPending, PollStep
    <2>3. row \notin taken => row \in Pending(r)'
      BY <2>2 DEF Polls
    <2>4. row \in taken => row.challenge \in Claimed(r)'
      BY <2>2 DEF Polls
    <2> QED
      BY <2>2, <2>3, <2>4
  <1>2. CASE ~PollTick(r) /\ row \notin requests'
    <2>1. CASE Deletes
      <3>1. PICK s \in Replica : /\ loop[s].pc = "cleanup"
                                 /\ requests' = DeleteExpiredRequests(loop[s].stamp)
        BY <2>1 DEF Deletes
      <3>2. loop[s].stamp <= clock + Skew[s]
        BY <3>1 DEF Steady, Orderly
      <3>3. NextPoll(r) + Skew[s] < row.expiresAt /\ row.expiresAt \in Int
        BY PendingLives
      <3>4. clock <= NextPoll(r) /\ NextPoll(r) \in Int
        BY PollNear, LastPollFacts
      <3>5. loop[s].stamp < row.expiresAt
        <4>1. loop[s].stamp \in Int /\ Skew[s] \in Int /\ clock \in Nat
          BY TimesTypes
        <4> QED
          BY <3>2, <3>3, <3>4, <4>1
      <3>6. loop[s].stamp \in Int
        BY TimesTypes
      <3>7. row.expiresAt > loop[s].stamp
        BY <3>3, <3>5, <3>6
      <3> QED
        BY <1>0, <1>2, <3>1, <3>7 DEF DeleteExpiredRequests
    <2>2. CASE \E s \in Replica : \E q : Claims(s, q)
      <3>0. PICK s \in Replica : \E q : Claims(s, q)
        BY <2>2
      <3>1. PICK q : Claims(s, q)
        BY <3>0
      <3> DEFINE taken == {q[i] : i \in DOMAIN q}
                 until == loop[s].pollDue + Skew[s] + LeaseDuration
      <3>2. s # r /\ requests' = ClaimRequests(taken, until)
            /\ q \in Batch(Claimable(s, loop[s].pollDue + Skew[s]))
        BY <1>2, <3>1 DEF Claims
      <3>3. taken \subseteq Claimable(s, loop[s].pollDue + Skew[s])
        BY <3>2 DEF Batch
      <3>4. row \notin taken
        BY <1>0, <3>2, <3>3 DEF Claimable
      <3> HIDE DEF taken, until
      <3> QED
        BY <1>0, <1>2, <3>2, <3>4, RowsLeft
    <2>3. CASE \E s \in Replica : Records(s)
      <3>1. PICK s \in Replica : Records(s)
        BY <2>3
      <3>2. \E status \in {"complete", "failed"} :
               requests' = MarkRequest(s, Head(loop[s].batch), status)
        BY <3>1 DEF Records
      <3>3. s = r /\ row.challenge = Head(loop[r].batch)
        BY <1>0, <1>2, <3>2, RowsLeft
      <3>4. loop[r].pc = "complete"
        BY <3>1, <3>3 DEF Records, Record, NoneFails
      <3>5. Stored(r, row.challenge) # {}
        BY <1>0, <3>3, <3>4 DEF Archive, RecordFinds
      <3> QED
        BY <1>0, <3>5, StoredStays DEF Archive
    <2>4. CASE UNCHANGED requests \/ \E k \in Call : Inserts(k)
      <3>1. requests \subseteq requests'
        BY <2>4, InsertedRows DEF Inserts
      <3> QED
        BY <1>0, <1>2, <3>1
    <2> QED
      BY <1>0, <2>1, <2>2, <2>3, <2>4, RequestsStep
  <1>3. CASE row \in requests'
    BY <1>0, <1>3 DEF Pending
  <1> QED
    BY <1>1, <1>2, <1>3

(* What the loop has claimed stays in its hands until it is recorded.      *)
LEMMA ClaimedStep ==
    ASSUME InTime, Steady, Steady', [Next]_vars, NEW r \in Replica, Serving(r), Serving(r)',
           NoneFails, faults' = 0, NEW c \in Claimed(r)
    PROVE  ~PollTick(r) /\ (c \in Claimed(r)' \/ Stored(r, c)' # {})
  <1>0. TypeOK /\ Coupled /\ Archive
    BY DEF Steady
  <1>1. loop[r].batch # <<>>
    BY DEF Claimed
  <1>2. ~PollTick(r)
    BY <1>1 DEF PollTick, Steady, Orderly
  <1>3. CASE Record(r)
    <2>1. Turns(r)
      BY <1>3, TurnStep
    <2>2. c \in Claimed(r)' \/ c = Head(loop[r].batch)
      BY <2>1 DEF Turns
    <2>3. loop[r].pc = "complete"
      BY <2>1 DEF Turns, NoneFails
    <2>4. Stored(r, Head(loop[r].batch)) # {}
      BY <1>0, <2>3 DEF Archive, RecordFinds
    <2> QED
      BY <1>0, <1>2, <2>2, <2>4, StoredStays DEF Archive
  <1>4. CASE ~Record(r)
    <2>1. loop'[r].batch = loop[r].batch
      <3>1. CASE Tick
        BY <3>1 DEF Tick
      <3>2. CASE Quiet(r)
        BY <3>2 DEF Quiet
      <3>3. CASE HeartbeatTick(r) \/ Heartbeat(r)
        BY <1>0, <3>3, LoopValues
      <3>4. ~Start(r)
        BY DEF Start, Serving
      <3> QED
        BY <1>2, <1>4, <3>1, <3>2, <3>3, <3>4, ServingStep
    <2>2. Claimed(r)' = Claimed(r)
      BY <2>1 DEF Claimed
    <2> QED
      BY <1>2, <2>2
  <1> QED
    BY <1>3, <1>4

(* So a prospect stays one: the last poll does not move away, a poll puts  *)
(* the request into the loop's hands, and those are free no later.         *)
LEMMA ProspectStep ==
    ASSUME InTime, Steady, Steady', [Next]_vars, NEW r \in Replica, Serving(r), Serving(r)',
           OnTime(r), Queued(r), NoneFails, faults' = 0,
           NEW c, NEW d \in Nat, Prospect(r, c, d)
    PROVE  Prospect(r, c, d)'
  <1>0. TypeOK /\ Coupled /\ UniqueProofs
    BY DEF Steady, Archive
  <1> DEFINE wait == BatchSize * (RoundTime + PollInterval)
  <1>1. /\ wait \in Int /\ BatchSize * d \in Int /\ BatchSize \in Nat \ {0}
        /\ RoundTime \in Nat /\ PollInterval \in Nat \ {0} /\ clock \in Nat /\ MintTime \in Nat
        /\ LastPoll(r) \in Int /\ LastPoll(r)' \in Int /\ NextPoll(r) \in Int
    BY TimeFacts, TimesTypes, LastPollFacts
  <1>2. CASE Stored(r, c) # {}
    BY <1>0, <1>2, StoredStays DEF Prospect
  <1>3. CASE \E row \in Pending(r) : row.challenge = c /\ LastPoll(r) + wait < BatchSize * d
    <2>1. PICK row \in Pending(r) : row.challenge = c /\ LastPoll(r) + wait < BatchSize * d
      BY <1>3
    <2>2. CASE row \in Pending(r)'
      <3>1. LastPoll(r)' <= LastPoll(r)
        BY <2>2, LastPollStep
      <3> HIDE DEF wait
      <3>2. LastPoll(r)' + wait < BatchSize * d
        BY <1>1, <2>1, <3>1
      <3> QED
        BY <2>1, <2>2, <3>2 DEF Prospect, wait, RoundTime
    <2>3. CASE Stored(r, c)' # {}
      BY <2>3 DEF Prospect
    <2>4. CASE /\ c \in Claimed(r)'
               /\ \E taken \in SUBSET Pending(r), n \in 0..BatchSize : Polls(r, taken, n)
      <3>1. PICK taken \in SUBSET Pending(r), n \in 0..BatchSize : Polls(r, taken, n)
        BY <2>4
      <3>2. Free(r)' <= clock + RoundTime /\ Free(r)' \in Int
        <4>1. InHand(r)' = n /\ Begun(r)' = clock
          BY <3>1 DEF Polls
        <4>2. Free(r)' = Begun(r)' + MintTime * InHand(r)'
          BY DEF Free
        <4>3. Free(r)' = clock + MintTime * n
          BY <4>1, <4>2
        <4>4. MintTime * n <= MintTime * BatchSize /\ MintTime * n \in Int
          BY <1>1, Products
        <4>5. MintTime * BatchSize = RoundTime
          BY <1>1 DEF RoundTime
        <4> QED
          BY <1>1, <4>3, <4>4, <4>5
      <3>3. BatchSize * clock <= LastPoll(r)
        <4>1. 1 <= Load(r)
          BY PendingLives
        <4>2. BatchSize * NextPoll(r) <= LastPoll(r) /\ clock <= NextPoll(r)
          BY <4>1, LastPollFacts, PollNear
        <4>3. BatchSize * clock <= BatchSize * NextPoll(r)
          BY <1>1, <4>2, Products
        <4>4. BatchSize * clock \in Int /\ BatchSize * NextPoll(r) \in Int
          BY <1>1
        <4> QED
          BY <1>1, <4>2, <4>3, <4>4
      <3> DEFINE x == clock + (RoundTime + PollInterval)
      <3>4. BatchSize * x = BatchSize * clock + wait /\ x \in Int
        BY <1>1
      <3>5. BatchSize * clock \in Int
        BY <1>1
      <3> HIDE DEF x, wait
      <3>6. BatchSize * x < BatchSize * d
        BY <1>1, <2>1, <3>3, <3>4, <3>5
      <3>7. x < d
        BY <1>1, <3>4, <3>6, Products
      <3>8. Free(r)' + PollInterval < d
        BY <1>1, <3>2, <3>4, <3>7 DEF x
      <3> QED
        BY <2>4, <3>8 DEF Prospect
    <2> QED
      BY <2>1, <2>2, <2>3, <2>4, PendingStep
  <1>4. CASE c \in Claimed(r) /\ Free(r) + PollInterval < d
    <2>1. ~PollTick(r) /\ (c \in Claimed(r)' \/ Stored(r, c)' # {})
      BY <1>4, ClaimedStep
    <2>2. loop[r].batch # <<>>
      BY <1>4 DEF Claimed
    <2>3. Free(r)' <= Free(r)
      BY <2>1, <2>2, NextPollStep
    <2>4. Free(r) \in Int /\ Free(r)' \in Int
      <3>1. Free(r) \in Int
        BY PollNear
      <3>2. MintTime * InHand(r)' \in Int /\ Begun(r)' \in Int
        BY TimesTypes
      <3>3. Free(r)' = Begun(r)' + MintTime * InHand(r)'
        BY DEF Free
      <3> QED
        BY <3>1, <3>2, <3>3
    <2>5. Free(r)' + PollInterval < d
      BY <1>1, <1>4, <2>3, <2>4
    <2> QED
      BY <2>1, <2>5 DEF Prospect
  <1> QED
    BY <1>2, <1>3, <1>4 DEF Prospect

(* A request whose proof is not there yet has time for another tick.       *)
LEMMA ProspectNear ==
    ASSUME InTime, Steady, Steady', NEW r \in Replica, Serving(r), OnTime(r), Queued(r),
           NEW c, NEW d \in Nat, Prospect(r, c, d), Stored(r, c) = {}
    PROVE  clock + PollInterval < d
  <1> DEFINE wait == BatchSize * (RoundTime + PollInterval)
  <1>1. /\ wait \in Int /\ BatchSize * d \in Int /\ BatchSize \in Nat \ {0}
        /\ RoundTime \in Nat /\ PollInterval \in Nat \ {0} /\ clock \in Nat
        /\ LastPoll(r) \in Int /\ NextPoll(r) \in Int
    BY TimeFacts, TimesTypes, LastPollFacts
  <1>2. CASE \E row \in Pending(r) : row.challenge = c /\ LastPoll(r) + wait < BatchSize * d
    <2>1. PICK row \in Pending(r) : LastPoll(r) + wait < BatchSize * d
      BY <1>2
    <2>2. 1 <= Load(r)
      BY PendingLives
    <2>3. BatchSize * NextPoll(r) <= LastPoll(r) /\ clock <= NextPoll(r)
      BY <2>2, LastPollFacts, PollNear
    <2>4. BatchSize * clock <= BatchSize * NextPoll(r)
      BY <1>1, <2>3, Products
    <2>5. BatchSize * clock \in Int /\ BatchSize * NextPoll(r) \in Int
      BY <1>1
    <2> DEFINE x == clock + (RoundTime + PollInterval)
    <2>6. BatchSize * x = BatchSize * clock + wait /\ x \in Int
      BY <1>1
    <2> HIDE DEF x, wait
    <2>7. BatchSize * x < BatchSize * d
      BY <1>1, <2>1, <2>3, <2>4, <2>5, <2>6
    <2>8. x < d
      BY <1>1, <2>6, <2>7, Products
    <2> QED
      BY <1>1, <2>6, <2>8 DEF x
  <1>3. CASE Free(r) + PollInterval < d
    <2>1. clock <= Free(r) /\ Free(r) \in Int
      BY PollNear
    <2> QED
      BY <1>1, <1>3, <2>1
  <1> QED
    BY <1>2, <1>3 DEF Prospect

(* A request that is enqueued is claimed, and its batch done, before its   *)
(* deadline; a row that was there before it is no worse.                   *)
LEMMA EnqueueProspect ==
    ASSUME InTime, Steady, Steady', [Next]_vars, NEW k \in Call, Enqueue(k),
           NEW r \in Replica, r = call[k].ref, NEW c, c = call[k].challenge,
           NEW d \in Nat, d = clock + RequestTimeout,
           Serving(r), OnTime(r), Queued(r), NoneFails
    PROVE  Prospect(r, c, d)'
  <1> DEFINE wait == BatchSize * (RoundTime + PollInterval)
  <1>1. /\ wait \in Int /\ BatchSize * d \in Int /\ BatchSize \in Nat \ {0}
        /\ RoundTime \in Nat /\ PollInterval \in Nat \ {0} /\ clock \in Nat
        /\ RequestTimeout \in Nat /\ Backlog \in Int /\ RoundTime + PollInterval < RequestTimeout
        /\ LastPoll(r)' \in Int
    BY TimeFacts, TimesTypes, LastPollFacts
  <1>2. /\ UNCHANGED <<clock, proofs, main, loop, issue>> /\ requests' = Enqueued(k)
    BY DEF Enqueue
  <1>3. /\ Free(r)' = Free(r) /\ NextPoll(r)' = NextPoll(r) /\ Claimed(r)' = Claimed(r)
        /\ Stored(r, c)' = Stored(r, c)
    BY <1>2 DEF NextPoll, Free, InHand, Begun, Claimed, Stored
  <1>4. LastPoll(r)' + wait < BatchSize * d
    <2>1. NextPoll(r)' <= clock' + Period
      BY <1>2, <1>3, PollNear
    <2>2. LastPoll(r)' <= BatchSize * clock + Backlog
      BY <1>2, <2>1, LastPollFacts
    <2>3. BatchSize * d = BatchSize * clock + BatchSize * RequestTimeout
      BY <1>1
    <2>4. Backlog + wait < BatchSize * RequestTimeout
      BY DEF InTime
    <2>5. BatchSize * clock \in Int /\ BatchSize * RequestTimeout \in Int
      BY <1>1
    <2> HIDE DEF wait
    <2> QED
      BY <1>1, <2>2, <2>3, <2>4, <2>5
  <1>5. ASSUME NEW row \in Pending(r)', row.challenge = c PROVE Prospect(r, c, d)'
    BY <1>4, <1>5 DEF Prospect, RoundTime
  <1>6. CASE \E row \in requests : row \in requests' /\ row.ref = r /\ row.challenge = c
    <2>1. PICK row \in requests : row \in requests' /\ row.ref = r /\ row.challenge = c
      BY <1>6
    <2>2. CASE row.status = "pending"
      BY <1>5, <2>1, <2>2 DEF Pending
    <2>3. CASE row.status = "processing"
      <3>1. c \in Claimed(r)'
        BY <1>3, <2>1, <2>3 DEF Queued
      <3>2. Free(r)' <= clock + RoundTime /\ Free(r)' \in Int
        BY <1>3, PollNear
      <3>3. Free(r)' + PollInterval < d
        BY <1>1, <3>2
      <3> QED
        BY <3>1, <3>3 DEF Prospect
    <2>4. CASE row.status = "complete"
      BY <1>3, <2>1, <2>4 DEF Prospect, Steady, Archive, CompleteHasProof
    <2>5. row.status \in RequestStatus /\ row.status # "failed"
      BY <2>1 DEF Steady, TypeOK, RequestRow, NoneFails
    <2> QED
      BY <2>2, <2>3, <2>4, <2>5 DEF RequestStatus
  <1>7. CASE requests' = requests \cup {NewRow(k)}
    <2>1. NewRow(k) \in Pending(r)' /\ NewRow(k).challenge = c
      BY <1>7 DEF Pending, NewRow
    <2> QED
      BY <1>5, <2>1
  <1> QED
    BY <1>2, <1>6, <1>7, InsertedRows

(* A routed request looks for its proof at every tick, the last one before *)
(* its deadline, and the proof is there by then.                           *)
Waiting(k) ==
    \A r \in Replica, c \in Challenge, d \in Nat :
        /\ call[k].pc \in {"check", "queued", "wait"} /\ Serving(r)
        /\ r = call[k].ref /\ c = call[k].challenge /\ d = call[k].deadline
        => clock <= call[k].tick /\ call[k].tick < d /\ Prospect(r, c, d)

(* The look-up that misses sets the next tick, if a tick began it.         *)
LEMMA CheckValues ==
    ASSUME TypeOK, NEW k \in Call, CheckProof(k), call'[k].pc # "done"
    PROVE  /\ Stored(call[k].ref, call[k].challenge) = {} /\ clock' = clock
           /\ call'[k].deadline = call[k].deadline
           /\ \/ call[k].pc = "check" /\ call'[k].tick = call[k].tick
              \/ /\ call[k].pc = "wait" /\ clock >= call[k].tick
                 /\ call'[k].tick = NextTick(call[k].tick, PollInterval)
  <1> DEFINE found == Stored(call[k].ref, call[k].challenge)
  <1>1. ASSUME NEW tick, ResolveFind(k, "queued", tick)
        PROVE  /\ found = {} /\ clock' = clock /\ call'[k].deadline = call[k].deadline
               /\ call'[k].tick = tick
    <2>1. call' = IF found # {} THEN Finished(k, "ok", found)
                  ELSE [call EXCEPT ![k].pc = "queued", ![k].tick = tick]
      BY <1>1 DEF ResolveFind
    <2>2. found # {} => call'[k].pc = "done"
      BY <2>1 DEF Finished, TypeOK, CallState
    <2> QED
      BY <1>1, <2>1, <2>2 DEF ResolveFind, TypeOK, CallState
  <1> QED
    BY <1>1, Zenon DEF CheckProof

(* Every step of a request that waits keeps it so.                         *)
LEMMA WaitingStep ==
    ASSUME InTime, Steady, Steady', [Next]_vars, NEW k \in Call, faults' = 0, NoneFails,
           OnTime(call[k].ref), Queued(call[k].ref), Waiting(k)
    PROVE  Waiting(k)'
  <1>0. TypeOK /\ Coupled /\ Known /\ call[k] \in CallState /\ call'[k] \in CallState
    BY DEF Steady, TypeOK
  <1>1. SUFFICES ASSUME NEW r \in Replica, NEW c \in Challenge, NEW d \in Nat,
                        call'[k].pc \in {"check", "queued", "wait"}, Serving(r)',
                        r = call'[k].ref, c = call'[k].challenge, d = call'[k].deadline
                 PROVE  clock' <= call'[k].tick /\ call'[k].tick < d /\ Prospect(r, c, d)'
    BY DEF Waiting
  <1>2. r = call[k].ref /\ c = call[k].challenge
    BY <1>0, <1>1, CallStep DEF SameAsk
  <1>3. /\ clock \in Nat /\ call[k].tick \in Int /\ call'[k].tick \in Int
        /\ RoundTime \in Nat /\ PollInterval \in Nat \ {0} /\ RequestTimeout \in Nat
        /\ RoundTime + PollInterval < RequestTimeout
    BY <1>0, TimeFacts, TimesTypes DEF TypeOK, CallState
  <1>4. OnTime(r) /\ Queued(r)
    BY <1>2
  <1>5. Start(r) => main[r].pc = "new"
    BY DEF Start
  <1>6. Started(r) => Serving(r)
    BY <1>1, <1>5, ServingStep DEF Started
  <1>7. call[k].pc \in {"check", "queued", "wait"} => Serving(r) /\ clock <= call[k].tick
    <2>1. call[k].pc \in {"check", "queued", "wait"} => Serving(r)
      BY <1>0, <1>2, <1>6 DEF Known
    <2>2. call[k].deadline \in Nat
      BY <1>0 DEF CallState
    <2> QED
      BY <1>2, <2>1, <2>2 DEF Waiting
  <1>8. CASE /\ call[k].pc \in {"check", "queued", "wait"} /\ call'[k].deadline = call[k].deadline
              /\ clock' <= call'[k].tick
              /\ \/ call'[k].tick = call[k].tick
                 \/ /\ Stored(r, c) = {} /\ call'[k].tick <= clock + PollInterval
    <2>1. Serving(r)
      BY <1>7, <1>8
    <2>2. Prospect(r, c, d) /\ call[k].tick < d
      BY <1>1, <1>2, <1>8, <2>1 DEF Waiting
    <2>3. Prospect(r, c, d)'
      BY <1>1, <1>4, <2>1, <2>2, ProspectStep
    <2>4. Stored(r, c) = {} => clock + PollInterval < d
      BY <1>4, <2>1, <2>2, ProspectNear
    <2>5. call'[k].tick < d
      BY <1>3, <1>8, <2>2, <2>4
    <2> QED
      BY <1>8, <2>3, <2>5
  <1>9. CASE call'[k] = call[k]
    <2>1. Serving(r) /\ clock <= call[k].tick
      BY <1>1, <1>7, <1>9
    <2>2. clock' <= call[k].tick
      <3>1. CASE clock' = clock
        BY <2>1, <3>1
      <3>2. CASE Tick
        <4>1. call[k].pc = "wait" /\ clock < call[k].tick /\ clock' = clock + 1
          BY <1>1, <1>9, <3>2 DEF Tick, CallRests, InTime
        <4> QED
          BY <1>3, <4>1
      <3> QED
        BY <1>0, <3>1, <3>2, TimeStep
    <2> QED
      BY <1>1, <1>8, <1>9, <2>2
  <1>10. CASE Enqueue(k)
    <2>1. /\ call'[k].deadline = clock + RequestTimeout /\ call'[k].tick = clock + PollInterval
      BY <1>0, <1>10, ResolveValues
    <2>2. call[k].pc = "enqueue" /\ clock' = clock
      BY <1>10 DEF Enqueue
    <2>3. Serving(r)
      BY <1>0, <1>2, <1>6, <2>2 DEF Known
    <2>4. Prospect(r, c, d)'
      BY <1>1, <1>2, <1>4, <1>10, <2>1, <2>2, <2>3, EnqueueProspect
    <2> QED
      BY <1>1, <1>3, <2>1, <2>2, <2>4
  <1>11. CASE CheckProof(k)
    <2>1. /\ Stored(r, c) = {} /\ clock' = clock /\ call'[k].deadline = call[k].deadline
          /\ \/ call[k].pc = "check" /\ call'[k].tick = call[k].tick
             \/ /\ call[k].pc = "wait" /\ clock >= call[k].tick
                /\ call'[k].tick = NextTick(call[k].tick, PollInterval)
      BY <1>0, <1>1, <1>2, <1>11, CheckValues
    <2>2. clock <= call[k].tick
      BY <1>7, <2>1
    <2>3. CASE call'[k].tick = NextTick(call[k].tick, PollInterval) /\ clock >= call[k].tick
      <3>1. clock < call'[k].tick /\ call'[k].tick <= clock + PollInterval
        BY <1>3, <2>3, NextTickValue
      <3> QED
        BY <1>3, <1>8, <2>1, <3>1
    <2>4. CASE call'[k].tick = call[k].tick
      BY <1>8, <2>1, <2>2, <2>4
    <2> QED
      BY <2>1, <2>3, <2>4
  <1>12. CASE CheckRequest(k)
    <2>1. /\ call[k].pc = "queued" /\ clock' = clock /\ call'[k].tick = call[k].tick
          /\ call'[k].deadline = call[k].deadline
      BY <1>0, <1>1, <1>12, ResolveValues DEF CheckRequest
    <2>2. clock <= call[k].tick
      BY <1>7, <2>1
    <2> QED
      BY <1>8, <2>1, <2>2
  <1>13. CASE FindProof(k) \/ FindReplica(k) \/ TimesOut(k) \/ ResolveFails(k) \/ Arrives(k)
    BY <1>0, <1>1, <1>13, ResolveValues
  <1> QED
    BY <1>0, <1>1, <1>9, <1>10, <1>11, <1>12, <1>13, CallActor DEF ResolveStep

-----------------------------------------------------------------------------
(* How requests end.                                                       *)

(* Without the proof, or the news that there is no owner, only if the      *)
(* owner is online no more, or with the process the request is at.         *)
Ended(k) ==
    call[k].pc = "done" /\ call[k].result \notin {"ok", "notFound"} =>
        \/ main[call[k].ref].pc \notin {"new", "serve"}
        \/ main[call[k].at].pc = "gone"

(* A process does not serve again, and one that is gone stays gone.        *)
LEMMA MainStays ==
    ASSUME TypeOK, Coupled, [Next]_vars, NEW r \in Replica
    PROVE  /\ main[r].pc \notin {"new", "serve"} => main'[r].pc \notin {"new", "serve"}
           /\ main[r].pc = "gone" => main'[r].pc = "gone"
  <1>1. CASE main'[r] = main[r]
    BY <1>1
  <1>2. CASE Ends(r)
    BY <1>2 DEF Ends, TypeOK, MainState
  <1>3. CASE MainDrains(r)
    BY <1>3 DEF MainDrains, TypeOK, MainState
  <1>4. CASE Start(r) \/ StartFails(r) \/ Signal(r)
    BY <1>4 DEF Start, StartFails, Signal, Serving, TypeOK, MainState
  <1>5. CASE Tick \/ LoopStep(r)
    BY <1>5 DEF Tick, LoopStep, HeartbeatTick, PollTick, Heartbeat, Cleanup, Record, RunStops,
                RunDrains
  <1>6. CASE IssueStep(r)
    BY <1>6 DEF IssueStep, IssueFind, IssueMint, IssuePut, IssueRead, IssueFails
  <1> QED
    BY <1>1, <1>2, <1>3, <1>4, <1>5, <1>6, ReplicaActor
       DEF Still, MainMoves, MainStep, ShutdownReturns, Crash

(* The heartbeat of an owner that serves is young enough for every clock.  *)
LEMMA OwnerFresh ==
    ASSUME InTime, Steady, Steady', NEW r \in Replica, NEW a \in Replica, Serving(r), OnTime(r),
           NEW row \in replicas, row.ref = r
    PROVE  ~row.draining /\ ~(LocalTime(a) - row.lastHeartbeat > StaleAfter)
  <1>1. ~row.draining /\ Begun(r) <= Beats(r, row.lastHeartbeat)
    BY DEF OnTime
  <1>2. /\ clock \in Nat /\ Skew[r] \in Int /\ Skew[a] \in Int /\ row.lastHeartbeat \in Int
        /\ HeartbeatInterval \in Nat /\ Begun(r) \in Int /\ MintTime \in Nat /\ InHand(r) \in Nat
        /\ Paid(r) \in Int /\ Demand \in Nat /\ StaleAfter \in Nat
    BY TimesTypes, PaidFacts, TimeFacts, ConstantTypes, OptionsAssumption
  <1> DEFINE p == MintTime * InHand(r)
             q == MintTime * Demand
  <1>3. p \in Int /\ q \in Int
    BY <1>2
  <1>4. clock <= Begun(r) + p
    BY PollNear DEF Free
  <1>5. Paid(r) + p <= q
    BY PaidFacts
  <1>6. HeartbeatInterval + q + Skew[a] - Skew[r] <= StaleAfter
    BY DEF InTime, Demand
  <1>7. Begun(r) <= row.lastHeartbeat - Skew[r] + HeartbeatInterval + Paid(r)
    BY <1>1 DEF Beats
  <1> HIDE DEF p, q
  <1>8. clock + Skew[a] - row.lastHeartbeat <= StaleAfter
    BY <1>2, <1>3, <1>4, <1>5, <1>6, <1>7
  <1> QED
    BY <1>1, <1>2, <1>8 DEF LocalTime

(* What FindReplica and CheckRequest tell a client whose owner is online.  *)
LEMMA LookupEnds ==
    ASSUME TypeOK, NEW k \in Call, call'[k].pc = "done"
    PROVE  /\ FindProof(k) \/ CheckProof(k) => call'[k].result = "ok"
           /\ FindReplica(k) =>
                \/ call'[k].result = "notFound"
                \/ \E row \in replicas :
                      /\ row.ref = call[k].ref
                      /\ \/ row.draining
                         \/ LocalTime(call[k].at) - row.lastHeartbeat > StaleAfter
           /\ CheckRequest(k) => \E row \in requests : row.status = "failed"
  <1>1. \A result, answer : Finished(k, result, answer)[k].result = result
    BY DEF Finished, TypeOK, CallState
  <1>2. ASSUME NEW miss, NEW tick, miss # "done", ResolveFind(k, miss, tick)
        PROVE  call'[k].result = "ok"
    <2> DEFINE found == Stored(call[k].ref, call[k].challenge)
    <2>1. call' = IF found # {} THEN Finished(k, "ok", found)
                  ELSE [call EXCEPT ![k].pc = miss, ![k].tick = tick]
      BY <1>2 DEF ResolveFind
    <2>2. found # {}
      BY <1>2, <2>1 DEF TypeOK, CallState
    <2> QED
      BY <1>1, <2>1, <2>2
  <1>3. FindProof(k) \/ CheckProof(k) => call'[k].result = "ok"
    BY <1>2 DEF FindProof, CheckProof
  <1>4. ASSUME FindReplica(k)
        PROVE  \/ call'[k].result = "notFound"
               \/ \E row \in replicas :
                     /\ row.ref = call[k].ref
                     /\ \/ row.draining
                        \/ LocalTime(call[k].at) - row.lastHeartbeat > StaleAfter
    <2> DEFINE rows == {row \in replicas : row.ref = call[k].ref}
               now == LocalTime(call[k].at)
               gone(row) == row.draining \/ now - row.lastHeartbeat > StaleAfter
    <2>1. call' = IF rows = {} THEN Finished(k, "notFound", {})
                  ELSE IF \E row \in rows : gone(row)
                  THEN Finished(k, "ownerUnavailable", {})
                  ELSE [call EXCEPT ![k].pc = "enqueue", ![k].stamp = now]
      BY <1>4 DEF FindReplica
    <2>2. CASE rows = {}
      BY <1>1, <2>1, <2>2
    <2>3. CASE \E row \in rows : gone(row)
      BY <2>3
    <2>4. CASE rows # {} /\ ~\E row \in rows : gone(row)
      <3>1. call' = [call EXCEPT ![k].pc = "enqueue", ![k].stamp = now]
        BY <2>1, <2>4
      <3> HIDE DEF now
      <3>2. call'[k].pc = "enqueue"
        BY <3>1 DEF TypeOK, CallState
      <3> QED
        BY <3>2
    <2> QED
      BY <2>2, <2>3, <2>4
  <1>5. ASSUME CheckRequest(k), \A row \in requests : row.status # "failed"
        PROVE  FALSE
    <2>1. call' = [call EXCEPT ![k].pc = "wait"]
      BY <1>5 DEF CheckRequest
    <2> QED
      BY <2>1 DEF TypeOK, CallState
  <1> QED
    BY <1>3, <1>4, <1>5

(* A request that waits, or has no deadline yet, does not miss it.         *)
LEMMA NoneLate ==
    ASSUME InTime, Steady, NEW k \in Call, Waiting(k), faults' = 0,
           call[k].pc \in {"issue", "find", "replica", "enqueue"} \/ Serving(call[k].ref)
    PROVE  /\ ~ResolveFails(k)
           /\ ~TimesOut(k)
  <1>1. /\ TypeOK /\ call[k] \in CallState /\ k \notin Replica /\ clock \in Nat /\ clock <= MaxTime
        /\ MaxTime \in Nat
    BY ConstantTypes, EnvironmentAssumption DEF Steady, TypeOK
  <1>2. call[k].pc \in {"issue", "find", "replica", "enqueue"} => call[k].deadline = MaxTime + 1
    BY DEF Steady, Unhurried, NoDeadline
  <1>3. call[k].pc \in {"check", "queued", "wait"} /\ Serving(call[k].ref)
        => clock <= call[k].tick /\ call[k].tick < call[k].deadline
    BY <1>1 DEF Waiting, CallState
  <1>4. call[k].tick \in Int /\ call[k].deadline \in Nat
    BY <1>1 DEF CallState
  <1>5. call[k].pc \in {"issue", "find", "replica", "enqueue", "check", "queued", "wait"}
        => clock < call[k].deadline
    BY <1>1, <1>2, <1>3, <1>4
  <1>6. Fails(k) => ~(clock < call[k].deadline)
    <2>1. ~Fault
      BY <1>1 DEF Fault, TypeOK
    <2> QED
      BY <1>1, <1>4, <2>1 DEF Fails, Cancelled, Deadline
  <1> QED
    BY <1>1, <1>4, <1>5, <1>6 DEF ResolveFails, TimesOut

(* So a request ends with the proof, or the news that there is no owner,   *)
(* as long as nothing fails.                                               *)
LEMMA EndedStep ==
    ASSUME InTime, Steady, Steady', [Next]_vars, NEW k \in Call, faults' = 0, NoneFails,
           OnTime(call[k].ref), Waiting(k), Ended(k)
    PROVE  Ended(k)'
  <1>0. TypeOK /\ Coupled /\ Known /\ Archive /\ call[k] \in CallState
    BY DEF Steady, TypeOK
  <1>1. PICK r \in Replica, a \in Replica : r = call[k].ref /\ a = call[k].at
    BY <1>0 DEF CallState
  <1>2. r = call'[k].ref /\ a = call'[k].at
    BY <1>0, <1>1, CallStep DEF SameAsk
  <1>3. /\ main[r].pc \notin {"new", "serve"} => main'[r].pc \notin {"new", "serve"}
        /\ main[a].pc = "gone" => main'[a].pc = "gone"
    BY <1>0, MainStays
  <1>4. SUFFICES ASSUME call'[k].pc = "done", call'[k].result \notin {"ok", "notFound"},
                        call'[k] # call[k], Serving(r) \/ ~Started(r), main'[a].pc # "gone"
                 PROVE  FALSE
    BY <1>1, <1>2, <1>3 DEF Ended, Serving, Started
  <1>5. ~IssueFails(k)
    BY IssueSucceeds, ConstantTypes DEF Worker
  <1>6. CASE ResolveStep(k)
    <2>1. call[k].pc \in {"find", "replica", "enqueue", "check", "queued", "wait"}
      BY <1>6 DEF ResolveStep, FindProof, FindReplica, Enqueue, CheckProof, CheckRequest,
                  TimesOut, ResolveFails
    <2>2. ~ResolveFails(k) /\ ~TimesOut(k)
      <3>1. call[k].pc \in {"check", "queued", "wait"} => Serving(r)
        BY <1>0, <1>1, <1>4 DEF Known
      <3> QED
        BY <1>1, <2>1, <3>1, NoneLate
    <2>3. ~FindReplica(k)
      <3>1. SUFFICES ASSUME FindReplica(k) PROVE FALSE
        OBVIOUS
      <3>2. PICK row \in replicas : /\ row.ref = r
                                    /\ \/ row.draining
                                       \/ LocalTime(a) - row.lastHeartbeat > StaleAfter
        BY <1>0, <1>1, <1>4, <3>1, LookupEnds
      <3>3. Serving(r)
        BY <1>0, <1>4, <3>2 DEF Known
      <3> QED
        BY <1>1, <3>2, <3>3, OwnerFresh
    <2>4. ~CheckRequest(k)
      BY <1>0, <1>4, LookupEnds DEF NoneFails
    <2>5. ~FindProof(k) /\ ~CheckProof(k)
      BY <1>0, <1>4, LookupEnds
    <2>6. ~Enqueue(k)
      BY <1>0, <1>4, ResolveValues
    <2> QED
      BY <1>6, <2>2, <2>3, <2>4, <2>5, <2>6 DEF ResolveStep
  <1>7. CASE call[k].pc = "issue" /\ IssueStep(k)
    <2>1. k \in Worker
      BY DEF Worker
    <2>2. PICK bundles : IssueReturns(k, bundles) /\ bundles # {}
      <3>1. ~IssueGoes(k, "find", "mint") /\ ~IssueGoes(k, "mint", "put")
            /\ ~IssueGoes(k, "put", "read")
        BY <1>4 DEF IssueGoes
      <3>2. issue[k].pc = "read" => Stored(Owner(k), Nonce(k)) # {}
        BY <1>0, <2>1 DEF Archive, ReadFinds
      <3> QED
        BY <1>0, <1>5, <1>7, <2>1, <3>1, <3>2, IssueValues
    <2>3. issue[k].pc # "idle"
      BY <1>0, <1>7, <2>1, IssueValues
    <2>4. call'[k].result = "ok"
      BY <1>0, <2>1, <2>2, <2>3, IssueReturnsValue
    <2> QED
      BY <1>4, <2>4
  <1>8. CASE \E s \in Replica : Ends(s) /\ call[k].at = s
    BY <1>0, <1>1, <1>4, <1>8 DEF Ends, TypeOK, MainState
  <1>9. CASE Arrives(k)
    BY <1>0, <1>4, <1>9, ResolveValues
  <1> QED
    BY <1>0, <1>4, <1>6, <1>7, <1>8, <1>9, CallActor

-----------------------------------------------------------------------------
(* The owner that is online answers.                                       *)

Fluent == /\ NoneFails
          /\ \A r \in Replica : OnTime(r) /\ Queued(r)
          /\ \A k \in Call : Waiting(k) /\ Ended(k)

(* Nothing has begun.                                                      *)
LEMMA InitFluent ==
    ASSUME InTime, Init
    PROVE  Steady /\ Fluent
  <1>1. TypeOK /\ Coupled /\ Archive
    BY InitType, InitArchive
  <1>2. /\ replicas = {} /\ requests = {} /\ clock = 0
        /\ \A r \in Replica : /\ main[r].pc = "new" /\ loop[r].pc = "off"
                              /\ loop[r].batch = <<>>
        /\ \A w \in Worker : issue[w].pc = "idle" /\ issue[w].deadline = NoDeadline
        /\ \A k \in Call : call[k].pc = "idle" /\ call[k].deadline = NoDeadline
    BY DEF Init, Idle
  <1>3. clock <= MaxTime
    BY <1>2, EnvironmentAssumption
  <1>4. ASSUME NEW r \in Replica
        PROVE  /\ Orderly(r) /\ RowTrue(r) /\ IsFiniteSet(Pending(r)) /\ Load(r) <= Demand
    <2>1. Pending(r) = {} /\ IsFiniteSet(Pending(r)) /\ Cardinality(Pending(r)) = 0
      BY <1>2, FS_EmptySet DEF Pending
    <2>2. /\ Cardinality(Heading(r)) \in Nat /\ Cardinality(Call) \in Nat
          /\ Cardinality(Heading(r)) <= Cardinality(Call)
      BY FS_Subset, FS_CardinalityType DEF Heading, InTime
    <2>3. Load(r) <= Demand
      BY <2>1, <2>2 DEF Load, Demand
    <2>4. RowTrue(r)
      BY <1>2 DEF RowTrue
    <2>5. Orderly(r)
      BY <1>2 DEF Orderly, Worker
    <2> QED
      BY <2>1, <2>3, <2>4, <2>5
  <1>5. Known /\ Unhurried /\ MintsOnTime /\ Stamped
    BY <1>2 DEF Known, Unhurried, MintsOnTime, Stamped
  <1>6. Steady
    BY <1>1, <1>3, <1>4, <1>5 DEF Steady
  <1>7. Fluent
    BY <1>2 DEF Fluent, NoneFails, OnTime, Queued, Serving, Waiting, Ended
  <1> QED
    BY <1>6, <1>7

(* Steady always holds; and everything is fluent until the first failure.  *)
LEMMA FluentStep ==
    ASSUME InTime, Steady, faults = 0 => Fluent, [Next]_vars
    PROVE  Steady' /\ (faults' = 0 => Fluent')
  <1>1. Steady'
    BY SteadyStep
  <1>2. SUFFICES ASSUME faults' = 0 PROVE Fluent'
    BY <1>1
  <1>3. Fluent
    BY <1>2, FaultsGrow DEF Steady
  <1>4. NoneFails'
    BY <1>2, <1>3, NoneFailsStep DEF Fluent
  <1>5. ASSUME NEW r \in Replica PROVE OnTime(r)' /\ Queued(r)'
    <2>1. OnTime(r) /\ Queued(r)
      BY <1>3 DEF Fluent
    <2>2. OnTime(r)'
      BY <1>1, <1>2, <2>1, OnTimeStep
    <2>3. CASE Serving(r)'
      BY <1>1, <1>2, <2>1, <2>2, <2>3, QueuedStep
    <2>4. CASE ~Serving(r)'
      BY <2>2, <2>4 DEF Queued
    <2> QED
      BY <2>2, <2>3, <2>4
  <1>6. ASSUME NEW k \in Call PROVE Waiting(k)' /\ Ended(k)'
    <2>1. call[k].ref \in Replica
      BY DEF Steady, TypeOK, CallState
    <2>2. NoneFails /\ OnTime(call[k].ref) /\ Queued(call[k].ref) /\ Waiting(k) /\ Ended(k)
      BY <1>3, <2>1 DEF Fluent
    <2> QED
      BY <1>1, <1>2, <2>2, WaitingStep, EndedStep
  <1> QED
    BY <1>4, <1>5, <1>6 DEF Fluent

(* If the environment is prompt and the options suffice, a request whose   *)
(* owner is online is answered with the proof as long as no statement      *)
(* fails, whatever the order in which the select takes its ticks and       *)
(* however the clocks differ (customer-verification-guide.md:122).         *)
THEOREM OnlineAnswers ==
    ASSUME InTime
    PROVE  Spec => []OnlineOwnerAnswers
  <1> DEFINE Inv == Steady /\ (faults = 0 => Fluent)
  <1>1. Init => Inv
    BY InitFluent
  <1>2. Inv /\ [Next]_vars => Inv'
    BY FluentStep
  <1>3. Inv => OnlineOwnerAnswers
    BY DEF Fluent, Ended, OnlineOwnerAnswers, Serving, Alive, Stopping
  <1> QED
    BY <1>1, <1>2, <1>3, PTL DEF Spec

===============================================================================
