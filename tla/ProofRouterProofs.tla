--------------------------- MODULE ProofRouterProofs ---------------------------
(***************************************************************************)
(* Proofs about ProofRouter, for every set of replicas, challenges and     *)
(* requests, every choice of the router's options, clocks that disagree by *)
(* any amount, and any number of failures, crashes and delays.             *)
(***************************************************************************)
EXTENDS ProofRouter, TLAPS

(* The assumptions on the constants, one by one. *)
LEMMA ConstantTypes ==
    /\ HeartbeatInterval \in Nat \ {0} /\ PollInterval \in Nat \ {0}
    /\ RequestTimeout \in Nat \ {0} /\ RequestTTL \in Nat \ {0}
    /\ LeaseDuration \in Nat \ {0} /\ BatchSize \in Nat \ {0}
    /\ LauncherTimeout \in Nat /\ ShutdownTimeout \in Nat /\ NoDeadline \in Nat
    /\ \A r \in Replica : Skew[r] \in Int /\ r \notin Call
  BY OptionsAssumption, EnvironmentAssumption DEF NoDeadline

-----------------------------------------------------------------------------
(* What the statements of PostgresStore do to the types of the tables.     *)

(* The statements on attestation_replicas keep its rows well-typed.        *)
LEMMA ReplicaStatements ==
    ASSUME replicas \subseteq ReplicaRow, NEW r \in Replica, NEW now \in Int,
           clock \in Nat
    PROVE  /\ RegisterReplica(r) \subseteq ReplicaRow
           /\ HeartbeatReplica(r, now) \subseteq ReplicaRow
           /\ SetReplicaDraining(r) \subseteq ReplicaRow
  <1>1. LocalTime(r) \in Int
    BY ConstantTypes DEF LocalTime
  <1>2. RegisterReplica(r) \subseteq ReplicaRow
    <2>1. [ref |-> r, lastHeartbeat |-> LocalTime(r), draining |-> FALSE] \in ReplicaRow
      BY <1>1 DEF ReplicaRow
    <2> QED
      BY <2>1 DEF RegisterReplica
  <1>3. HeartbeatReplica(r, now) \subseteq ReplicaRow
    BY DEF HeartbeatReplica, ReplicaRow
  <1>4. SetReplicaDraining(r) \subseteq ReplicaRow
    BY DEF SetReplicaDraining, ReplicaRow
  <1> QED
    BY <1>2, <1>3, <1>4

(* The statements on attestation_requests keep its rows well-typed.        *)
LEMMA RequestStatements ==
    ASSUME requests \subseteq RequestRow, NEW r \in Replica, NEW c \in Challenge,
           NEW t \in Int, NEW u \in Int, NEW taken,
           NEW status \in {"complete", "failed"}
    PROVE  /\ EnqueueRequest(r, c, t, u) \subseteq RequestRow
           /\ ClaimRequests(taken, t) \subseteq RequestRow
           /\ MarkRequest(r, c, status) \subseteq RequestRow
           /\ DeleteExpiredRequests(t) \subseteq RequestRow
  <1>1. EnqueueRequest(r, c, t, u) \subseteq RequestRow
    <2>1. [ref |-> r, challenge |-> c, status |-> "pending", requestedAt |-> t,
           expiresAt |-> u, leaseUntil |-> 0] \in RequestRow
      BY DEF RequestRow, RequestStatus
    <2> QED
      BY <2>1 DEF EnqueueRequest
  <1>2. ClaimRequests(taken, t) \subseteq RequestRow
    BY DEF ClaimRequests, RequestRow, RequestStatus
  <1>3. MarkRequest(r, c, status) \subseteq RequestRow
    <2>1. 0 \in Int /\ status \in RequestStatus
      BY DEF RequestStatus
    <2>2. \A row \in RequestRow :
             [row EXCEPT !.status = status, !.leaseUntil = 0] \in RequestRow
      BY <2>1, ZenonT(90) DEF RequestRow
    <2> QED
      BY <2>2 DEF MarkRequest
  <1>4. DeleteExpiredRequests(t) \subseteq RequestRow
    BY DEF DeleteExpiredRequests
  <1> QED
    BY <1>1, <1>2, <1>3, <1>4

(* A ticker's next tick is a time. *)
LEMMA NextTickType ==
    ASSUME clock \in Nat, NEW due \in Int, NEW period \in Nat \ {0}
    PROVE  NextTick(due, period) \in Int
  BY DEF NextTick

(* A claim returns a sequence of challenges. *)
LEMMA BatchType ==
    ASSUME NEW rows, rows \subseteq RequestRow, NEW q \in Batch(rows)
    PROVE  /\ [i \in DOMAIN q |-> q[i].challenge] \in Seq(Challenge)
           /\ {q[i] : i \in DOMAIN q} \subseteq rows
  <1>1. PICK n \in 0..BatchSize : q \in [1..n -> rows]
    BY DEF Batch
  <1>2. n \in Nat
    BY OptionsAssumption
  <1> QED
    BY <1>1, <1>2 DEF RequestRow

(* The end of a request, by type. *)
LEMMA FinishedType ==
    ASSUME TypeOK, NEW k \in Call, NEW answer \in SUBSET Bundle,
           NEW result \in {"ok", "notFound", "ownerUnavailable", "failed",
                           "timeout", "error", "lost"}
    PROVE  Finished(k, result, answer) \in [Call -> CallState]
  <1>1. NoDeadline \in Nat /\ 0 \in Int
    BY ConstantTypes
  <1>2. [call[k] EXCEPT !.pc = "done", !.result = result, !.answer = answer,
                        !.stamp = 0, !.deadline = NoDeadline, !.tick = 0] \in CallState
    BY <1>1, ZenonT(90) DEF TypeOK, CallState
  <1> QED
    BY <1>2, ZenonT(90) DEF TypeOK, Finished

(* The end of an Issue, in the loop or in a handler, by type. *)
LEMMA IssueReturnsType ==
    ASSUME TypeOK, NEW w \in Worker, NEW bundles \in SUBSET Bundle,
           IssueReturns(w, bundles)
    PROVE  /\ issue' \in [Worker -> IssueState]
           /\ loop' \in [Replica -> LoopState]
           /\ call' \in [Call -> CallState]
  <1>1. Idle \in IssueState
    BY ConstantTypes DEF Idle, IssueState
  <1>2. issue' \in [Worker -> IssueState]
    BY <1>1 DEF IssueReturns, TypeOK
  <1>3. CASE w \in Call
    BY <1>2, <1>3, FinishedType DEF IssueReturns, TypeOK
  <1>4. CASE w \notin Call
    <2>1. w \in Replica
      BY <1>4 DEF Worker
    <2> DEFINE pc == IF Cancelled(w) THEN "select"
                     ELSE IF bundles = {} THEN "fail" ELSE "complete"
               batch == IF Cancelled(w) THEN <<>> ELSE loop[w].batch
    <2>2. pc \in {"select", "fail", "complete"}
      OBVIOUS
    <2>3. batch \in Seq(Challenge)
      BY <2>1 DEF TypeOK, LoopState
    <2>4. /\ loop' = [loop EXCEPT ![w].pc = pc, ![w].batch = batch]
          /\ UNCHANGED call
      BY <1>4, Zenon DEF IssueReturns
    <2> HIDE DEF pc, batch
    <2>5. loop' \in [Replica -> LoopState]
      BY <2>1, <2>2, <2>3, <2>4, ZenonT(90) DEF TypeOK, LoopState
    <2> QED
      BY <1>2, <2>4, <2>5 DEF TypeOK
  <1> QED
    BY <1>3, <1>4

(* processPending's next request, or the end of its batch, by type. *)
LEMMA WorkOnType ==
    ASSUME TypeOK, NEW r \in Replica, NEW batch \in Seq(Challenge),
           NEW due \in Int, WorkOn(r, batch, due)
    PROVE  /\ issue' \in [Worker -> IssueState]
           /\ loop' \in [Replica -> LoopState]
  <1>1. NewIssue(r) \in IssueState
    <2>1. (IF r \in Call THEN NoDeadline ELSE clock + RequestTimeout) \in Nat
      BY ConstantTypes DEF TypeOK
    <2> QED
      BY <2>1 DEF NewIssue, IssueState
  <1> DEFINE busy == batch # <<>> /\ Serving(r)
             pc == IF busy THEN "issue" ELSE "select"
             todo == IF busy THEN batch ELSE <<>>
  <1>2. pc \in {"issue", "select"} /\ todo \in Seq(Challenge)
    OBVIOUS
  <1>3. loop' = [loop EXCEPT ![r].pc = pc, ![r].batch = todo, ![r].pollDue = due]
    BY Zenon DEF WorkOn
  <1>4. issue' \in [Worker -> IssueState]
    BY <1>1 DEF WorkOn, TypeOK, Worker
  <1> HIDE DEF pc, todo
  <1>5. loop' \in [Replica -> LoopState]
    BY <1>2, <1>3, ZenonT(90) DEF TypeOK, LoopState
  <1> QED
    BY <1>4, <1>5

-----------------------------------------------------------------------------
(* Which goroutine is where: a loop that issues or records has a batch, an *)
(* Issue runs in a loop that issues or in a request to the owner itself.   *)
Coupled ==
    /\ \A r \in Replica :
          /\ loop[r].pc \in {"issue", "complete", "fail"} => loop[r].batch # <<>>
          /\ issue[r].pc # "idle" => loop[r].pc = "issue"
          /\ main[r].pc = "new" => loop[r].pc = "off"
    /\ \A k \in Call :
          /\ issue[k].pc # "idle" => call[k].pc = "issue"
          /\ call[k].pc = "issue" => call[k].ref = call[k].at

(* What a goroutine in Issue asks for is the owner's own proof. *)
LEMMA WorkerKey ==
    ASSUME TypeOK, Coupled, NEW w \in Worker, issue[w].pc # "idle"
    PROVE  Owner(w) \in Replica /\ Nonce(w) \in Challenge
  <1>1. CASE w \in Call
    BY <1>1 DEF Owner, Nonce, TypeOK, CallState
  <1>2. CASE w \notin Call
    <2>1. w \in Replica
      BY <1>2 DEF Worker
    <2>2. loop[w].batch \in Seq(Challenge) /\ loop[w].batch # <<>>
      BY <2>1 DEF TypeOK, LoopState, Coupled
    <2> QED
      BY <1>2, <2>1, <2>2 DEF Owner, Nonce
  <1> QED
    BY <1>1, <1>2

(* Bundles found are bundles, and an insert adds a bundle. *)
LEMMA ProofStatements ==
    ASSUME TypeOK, NEW b \in Bundle
    PROVE  /\ PutProof(b) \subseteq Bundle
           /\ \A ref, c : Stored(ref, c) \in SUBSET Bundle
  BY DEF TypeOK, PutProof, Stored

(* PostgresStore.Find returns bundles. *)
LEMMA FoundType ==
    ASSUME TypeOK, NEW ref, NEW c
    PROVE  Stored(ref, c) \in SUBSET Bundle
  BY DEF TypeOK, Stored

(* What Cache.Issue inserts is a bundle of its own replica. *)
LEMMA MintedType ==
    ASSUME TypeOK, Coupled, NEW w \in Worker, issue[w].pc = "put"
    PROVE  Minted(w) \in Bundle
  <1>1. issue[w].serial \in Nat
    BY DEF TypeOK, IssueState
  <1> QED
    BY <1>1, WorkerKey DEF Minted, Bundle

(* Outcomes only count failures. *)
LEMMA OutcomeType ==
    ASSUME TypeOK, NEW w, Succeeds(w) \/ Fails(w) \/ Fault \/ UNCHANGED faults
    PROVE  faults' \in Nat
  BY DEF TypeOK, Succeeds, Fails, Fault

(* The steps of Cache.Issue preserve the types. *)
LEMMA IssueStepType ==
    ASSUME TypeOK, Coupled, NEW w \in Worker, IssueStep(w)
    PROVE  TypeOK'
  <1> USE DEF tables
  <1>1. ASSUME IssueFind(w) PROVE TypeOK'
    <2>1. faults' \in Nat
      BY <1>1, OutcomeType DEF IssueFind
    <2>2. CASE Stored(Owner(w), Nonce(w)) # {}
      <3>1. IssueReturns(w, Stored(Owner(w), Nonce(w)))
        BY <1>1, <2>2 DEF IssueFind
      <3> QED
        BY <1>1, <2>1, <3>1, FoundType, IssueReturnsType DEF IssueFind, TypeOK
    <2>3. CASE Stored(Owner(w), Nonce(w)) = {}
      <3> DEFINE until == clock + LauncherTimeout
      <3>1. until \in Nat
        BY ConstantTypes DEF TypeOK
      <3>2. /\ issue' = [issue EXCEPT ![w].pc = "mint", ![w].until = until]
            /\ UNCHANGED <<loop, call>>
        BY <1>1, <2>3 DEF IssueFind
      <3> HIDE DEF until
      <3>3. issue' \in [Worker -> IssueState]
        BY <3>1, <3>2, ZenonT(90) DEF TypeOK, IssueState
      <3> QED
        BY <1>1, <2>1, <3>2, <3>3 DEF IssueFind, TypeOK
    <2> QED
      BY <2>2, <2>3
  <1>2. ASSUME IssueMint(w) PROVE TypeOK'
    <2>1. faults' \in Nat
      BY <1>2, OutcomeType DEF IssueMint
    <2>2. minted' \in Nat /\ 0 \in Nat
      BY <1>2 DEF IssueMint, TypeOK
    <2>3. issue' = [issue EXCEPT ![w].pc = "put", ![w].serial = minted', ![w].until = 0]
      BY <1>2 DEF IssueMint
    <2>4. issue' \in [Worker -> IssueState]
      BY <2>2, <2>3, ZenonT(90) DEF TypeOK, IssueState
    <2> QED
      BY <1>2, <2>1, <2>2, <2>4 DEF IssueMint, TypeOK
  <1>3. ASSUME IssuePut(w) PROVE TypeOK'
    <2>1. faults' \in Nat
      BY <1>3, OutcomeType DEF IssuePut
    <2>2. proofs' \subseteq Bundle
      BY <1>3, MintedType, ProofStatements DEF IssuePut
    <2>3. issue' = [issue EXCEPT ![w].pc = "read", ![w].serial = 0] /\ 0 \in Nat
      BY <1>3 DEF IssuePut
    <2>4. issue' \in [Worker -> IssueState]
      BY <2>3, ZenonT(90) DEF TypeOK, IssueState
    <2> QED
      BY <1>3, <2>1, <2>2, <2>4 DEF IssuePut, TypeOK
  <1>4. ASSUME IssueRead(w) PROVE TypeOK'
    <2>1. faults' \in Nat
      BY <1>4, OutcomeType DEF IssueRead
    <2>2. IssueReturns(w, Stored(Owner(w), Nonce(w)))
      BY <1>4 DEF IssueRead
    <2> QED
      BY <1>4, <2>1, <2>2, FoundType, IssueReturnsType DEF IssueRead, TypeOK
  <1>5. ASSUME IssueFails(w) PROVE TypeOK'
    <2>1. faults' \in Nat
      BY <1>5, OutcomeType DEF IssueFails
    <2>2. proofs' \subseteq Bundle
      BY <1>5, MintedType, ProofStatements DEF IssueFails, TypeOK
    <2>3. IssueReturns(w, {})
      BY <1>5 DEF IssueFails
    <2> QED
      BY <1>5, <2>1, <2>2, <2>3, IssueReturnsType DEF IssueFails, TypeOK
  <1> QED
    BY <1>1, <1>2, <1>3, <1>4, <1>5 DEF IssueStep

(* The steps of the run loop preserve the types. *)
LEMMA LoopStepType ==
    ASSUME TypeOK, Coupled, NEW r \in Replica, LoopStep(r)
    PROVE  TypeOK'
  <1> USE DEF tables
  <1> DEFINE stamp == loop[r].stamp
             head == Head(loop[r].batch)
  <1>a. /\ loop[r] \in LoopState
        /\ stamp \in Int /\ loop[r].hbDue \in Int /\ loop[r].pollDue \in Int
        /\ loop[r].batch \in Seq(Challenge)
        /\ 0 \in Int /\ <<>> \in Seq(Challenge) /\ Skew[r] \in Int
    BY ConstantTypes DEF TypeOK, LoopState
  <1>1. ASSUME HeartbeatTick(r) PROVE TypeOK'
    <2> DEFINE pc == Ready(r, "heartbeat")
               at == IF Serving(r) THEN loop[r].hbDue + Skew[r] ELSE 0
               due == NextTick(loop[r].hbDue, HeartbeatInterval)
    <2>a. due \in Int
      <3>1. clock \in Nat /\ HeartbeatInterval \in Nat \ {0}
        BY ConstantTypes DEF TypeOK
      <3> QED
        BY <1>a, <3>1, NextTickType
    <2>1. pc \in {"heartbeat", "select"} /\ at \in Int /\ due \in Int
      BY <1>a, <2>a DEF Ready
    <2>2. loop' = [loop EXCEPT ![r].pc = pc, ![r].stamp = at, ![r].hbDue = due]
      BY <1>1 DEF HeartbeatTick
    <2> HIDE DEF pc, at, due
    <2>3. loop' \in [Replica -> LoopState]
      BY <2>1, <2>2, ZenonT(90) DEF TypeOK, LoopState
    <2> QED
      BY <1>1, <2>3 DEF HeartbeatTick, TypeOK
  <1>2. ASSUME PollTick(r) PROVE TypeOK'
    <2> DEFINE now == loop[r].pollDue + Skew[r]
               due == NextTick(loop[r].pollDue, PollInterval)
    <2>a. due \in Int
      <3>1. clock \in Nat /\ PollInterval \in Nat \ {0}
        BY ConstantTypes DEF TypeOK
      <3> QED
        BY <1>a, <3>1, NextTickType
    <2>1. now \in Int /\ now + LeaseDuration \in Int
      BY <1>a, ConstantTypes
    <2> HIDE DEF now, due
    <2>2. (\E batch \in Seq(Challenge) : WorkOn(r, batch, due))
            /\ requests' \subseteq RequestRow /\ faults' \in Nat
      <3>1. CASE Cancelled(r)
        <4>1. WorkOn(r, <<>>, due) /\ UNCHANGED <<requests, faults>>
          BY <1>2, <3>1 DEF PollTick, now, due
        <4> QED
          BY <4>1, <1>a DEF TypeOK
      <3>2. CASE ~Cancelled(r)
        <4>1. PICK q \in Batch(Claimable(r, now)) :
                 LET claimed == ClaimRequests({q[i] : i \in DOMAIN q},
                                              now + LeaseDuration)
                 IN \/ /\ requests' = claimed /\ UNCHANGED faults
                       /\ WorkOn(r, [i \in DOMAIN q |-> q[i].challenge], due)
                    \/ /\ requests' \in {requests, claimed} /\ Fault
                       /\ WorkOn(r, <<>>, due)
          BY <1>2, <3>2 DEF PollTick, now, due
        <4>2. [i \in DOMAIN q |-> q[i].challenge] \in Seq(Challenge)
          <5>1. Claimable(r, now) \subseteq RequestRow
            BY DEF Claimable, TypeOK
          <5> QED
            BY <5>1, BatchType
        <4>3. PICK until \in Int : until = now + LeaseDuration
          BY <2>1
        <4>4. ClaimRequests({q[i] : i \in DOMAIN q}, until) \subseteq RequestRow
          BY DEF ClaimRequests, RequestRow, RequestStatus, TypeOK
        <4>5. requests' \subseteq RequestRow
          BY <4>1, <4>3, <4>4 DEF TypeOK
        <4>6. faults' \in Nat
          BY <4>1 DEF Fault, TypeOK
        <4> QED
          BY <4>1, <4>2, <4>5, <4>6, <1>a
      <3> QED
        BY <3>1, <3>2
    <2>4. loop' \in [Replica -> LoopState] /\ issue' \in [Worker -> IssueState]
      BY <2>a, <2>2, WorkOnType
    <2> QED
      BY <1>2, <2>2, <2>4 DEF PollTick, TypeOK
  <1>3. ASSUME Heartbeat(r) PROVE TypeOK'
    <2> DEFINE pc == Ready(r, "cleanup")
               at == IF Serving(r) THEN stamp ELSE 0
    <2>1. pc \in {"cleanup", "select"} /\ at \in Int
      BY <1>a DEF Ready
    <2>2. loop' = [loop EXCEPT ![r].pc = pc, ![r].stamp = at]
      BY <1>3 DEF Heartbeat
    <2>3. replicas' \subseteq ReplicaRow
      BY <1>3, <1>a, ReplicaStatements DEF Heartbeat, TypeOK
    <2>4. faults' \in Nat
      BY <1>3, OutcomeType DEF Heartbeat
    <2> HIDE DEF pc, at
    <2>5. loop' \in [Replica -> LoopState]
      BY <2>1, <2>2, ZenonT(90) DEF TypeOK, LoopState
    <2> QED
      BY <1>3, <2>3, <2>4, <2>5 DEF Heartbeat, TypeOK
  <1>4. ASSUME Cleanup(r) PROVE TypeOK'
    <2>1. requests' \subseteq RequestRow
      BY <1>4 DEF Cleanup, TypeOK, DeleteExpiredRequests
    <2>2. faults' \in Nat
      BY <1>4, OutcomeType DEF Cleanup
    <2>3. loop' = [loop EXCEPT ![r].pc = "select", ![r].stamp = 0]
      BY <1>4 DEF Cleanup
    <2>4. loop' \in [Replica -> LoopState]
      BY <1>a, <2>3, ZenonT(90) DEF TypeOK, LoopState
    <2> QED
      BY <1>4, <2>1, <2>2, <2>4 DEF Cleanup, TypeOK
  <1>5. ASSUME Record(r) PROVE TypeOK'
    <2>1. loop[r].batch # <<>>
      BY <1>5 DEF Record, Coupled
    <2>2. head \in Challenge /\ Tail(loop[r].batch) \in Seq(Challenge)
      BY <1>a, <2>1
    <2>3. WorkOn(r, Tail(loop[r].batch), loop[r].pollDue)
      BY <1>5 DEF Record
    <2>4. loop' \in [Replica -> LoopState] /\ issue' \in [Worker -> IssueState]
      BY <1>a, <2>2, <2>3, WorkOnType
    <2>5. requests' \subseteq RequestRow
      <3>1. \A status \in {"complete", "failed"} :
               MarkRequest(r, head, status) \subseteq RequestRow
        BY <2>2, <1>a, RequestStatements DEF TypeOK
      <3> QED
        BY <1>5, <3>1 DEF Record, TypeOK
    <2>6. faults' \in Nat
      BY <1>5, OutcomeType DEF Record
    <2> QED
      BY <1>5, <2>4, <2>5, <2>6 DEF Record, TypeOK
  <1>6. ASSUME RunStops(r) PROVE TypeOK'
    <2>1. loop' \in [Replica -> LoopState]
      BY <1>6, ZenonT(90) DEF RunStops, TypeOK, LoopState
    <2> QED
      BY <1>6, <2>1 DEF RunStops, TypeOK
  <1>7. ASSUME RunDrains(r) PROVE TypeOK'
    <2>1. loop' \in [Replica -> LoopState]
      BY <1>7, ZenonT(90) DEF RunDrains, TypeOK, LoopState
    <2>2. replicas' \subseteq ReplicaRow
      BY <1>7, <1>a, ReplicaStatements DEF RunDrains, TypeOK
    <2>3. faults' \in Nat
      BY <1>7, OutcomeType DEF RunDrains
    <2> QED
      BY <1>7, <2>1, <2>2, <2>3 DEF RunDrains, TypeOK
  <1> QED
    BY <1>1, <1>2, <1>3, <1>4, <1>5, <1>6, <1>7 DEF LoopStep

(* The steps of main preserve the types. *)
LEMMA MainStepType ==
    ASSUME TypeOK, NEW r \in Replica,
           Start(r) \/ StartFails(r) \/ Signal(r) \/ MainStep(r) \/ Crash(r)
    PROVE  TypeOK'
  <1> USE DEF tables
  <1>a. 0 \in Int /\ <<>> \in Seq(Challenge) /\ clock \in Nat
    BY DEF TypeOK
  <1>b. RegisterReplica(r) \subseteq ReplicaRow /\ SetReplicaDraining(r) \subseteq ReplicaRow
    BY <1>a, ReplicaStatements DEF TypeOK
  <1>1. ASSUME Start(r) PROVE TypeOK'
    <2> DEFINE hb == clock + HeartbeatInterval
               poll == clock + PollInterval
    <2>1. hb \in Int /\ poll \in Int
      BY <1>a, ConstantTypes
    <2>2. loop' = [loop EXCEPT ![r].pc = "select", ![r].hbDue = hb, ![r].pollDue = poll]
      BY <1>1 DEF Start
    <2> HIDE DEF hb, poll
    <2>3. loop' \in [Replica -> LoopState]
      BY <2>1, <2>2, ZenonT(90) DEF TypeOK, LoopState
    <2>4. main' \in [Replica -> MainState]
      BY <1>1, ZenonT(90) DEF Start, TypeOK, MainState
    <2> QED
      BY <1>1, <1>b, <2>3, <2>4 DEF Start, TypeOK
  <1>2. ASSUME StartFails(r) PROVE TypeOK'
    <2>1. main' \in [Replica -> MainState]
      BY <1>2, <1>a, ZenonT(90) DEF StartFails, TypeOK, MainState
    <2>2. faults' \in Nat
      BY <1>2 DEF StartFails, Fault, TypeOK
    <2>3. replicas' \subseteq ReplicaRow
      BY <1>2, <1>b DEF StartFails, TypeOK
    <2> QED
      BY <1>2, <2>1, <2>2, <2>3 DEF StartFails, TypeOK
  <1>3. ASSUME Signal(r) PROVE TypeOK'
    <2> DEFINE by == clock + ShutdownTimeout
    <2>1. by \in Nat
      BY <1>a, ConstantTypes
    <2>2. main' = [main EXCEPT ![r].pc = "drain", ![r].stopBy = by]
      BY <1>3 DEF Signal
    <2> HIDE DEF by
    <2>3. main' \in [Replica -> MainState]
      BY <2>1, <2>2, ZenonT(90) DEF TypeOK, MainState
    <2> QED
      BY <1>3, <2>3 DEF Signal, TypeOK
  <1>4. ASSUME MainDrains(r) PROVE TypeOK'
    <2>1. main' \in [Replica -> MainState]
      BY <1>4, ZenonT(90) DEF MainDrains, TypeOK, MainState
    <2>2. faults' \in Nat
      BY <1>4 DEF MainDrains, Fault, TypeOK
    <2>3. replicas' \subseteq ReplicaRow
      BY <1>4, <1>b DEF MainDrains, TypeOK
    <2> QED
      BY <1>4, <2>1, <2>2, <2>3 DEF MainDrains, TypeOK
  <1>5. ASSUME Ends(r)
        PROVE  /\ main' \in [Replica -> MainState]
               /\ loop' \in [Replica -> LoopState]
               /\ issue' \in [Worker -> IssueState]
               /\ call' \in [Call -> CallState]
    <2>1. main' \in [Replica -> MainState]
      BY <1>5, <1>a, ZenonT(90) DEF Ends, TypeOK, MainState
    <2>2. loop' \in [Replica -> LoopState]
      BY <1>5, <1>a, ZenonT(90) DEF Ends, TypeOK, LoopState
    <2>3. issue' \in [Worker -> IssueState]
      <3>1. Idle \in IssueState
        BY ConstantTypes DEF Idle, IssueState
      <3> QED
        BY <1>5, <3>1 DEF Ends, TypeOK
    <2>4. call' \in [Call -> CallState]
      <3>1. \A k \in Call : Finished(k, "lost", {})[k] \in CallState
        BY FinishedType
      <3> QED
        BY <1>5, <3>1 DEF Ends, TypeOK
    <2> QED
      BY <2>1, <2>2, <2>3, <2>4
  <1>6. ASSUME ShutdownReturns(r) PROVE TypeOK'
    BY <1>5, <1>6 DEF ShutdownReturns, TypeOK
  <1>7. ASSUME Crash(r) PROVE TypeOK'
    BY <1>5, <1>7 DEF Crash, TypeOK
  <1> QED
    BY <1>1, <1>2, <1>3, <1>4, <1>6, <1>7 DEF MainStep

(* The steps of a routed request preserve the types. *)
LEMMA ResolveStepType ==
    ASSUME TypeOK, NEW k \in Call, Arrives(k) \/ ResolveStep(k)
    PROVE  TypeOK'
  <1> USE DEF tables
  <1>a. /\ call[k] \in CallState
        /\ clock \in Nat /\ 0 \in Int /\ call[k].tick \in Int
        /\ LocalTime(call[k].at) \in Int
    BY ConstantTypes DEF TypeOK, CallState, LocalTime
  <1>1. ASSUME Arrives(k) PROVE TypeOK'
    <2>1. NewIssue(k) \in IssueState
      BY ConstantTypes DEF NewIssue, IssueState
    <2>2. issue' \in [Worker -> IssueState]
      BY <1>1, <2>1 DEF Arrives, TypeOK, Worker
    <2>3. PICK pc \in {"issue", "find"} : call' = [call EXCEPT ![k].pc = pc]
      BY <1>1 DEF Arrives, Step
    <2>4. call' \in [Call -> CallState]
      BY <2>3, ZenonT(90) DEF TypeOK, CallState
    <2> QED
      BY <1>1, <2>2, <2>4 DEF Arrives, TypeOK
  <1>2. ASSUME NEW miss \in {"replica", "queued"}, NEW tick \in Int,
               ResolveFind(k, miss, tick)
        PROVE  TypeOK'
    <2> DEFINE found == Stored(call[k].ref, call[k].challenge)
    <2>1. faults' \in Nat
      BY <1>2, OutcomeType DEF ResolveFind
    <2>2. found \in SUBSET Bundle
      BY FoundType
    <2>3. \/ call' = Finished(k, "ok", found)
          \/ call' = [call EXCEPT ![k].pc = miss, ![k].tick = tick]
      BY <1>2 DEF ResolveFind
    <2> HIDE DEF found
    <2>4. [call EXCEPT ![k].pc = miss, ![k].tick = tick] \in [Call -> CallState]
      BY <1>2, ZenonT(90) DEF TypeOK, CallState
    <2>5. Finished(k, "ok", found) \in [Call -> CallState]
      BY <2>2, FinishedType
    <2>6. call' \in [Call -> CallState]
      BY <2>3, <2>4, <2>5
    <2> QED
      BY <1>2, <2>1, <2>6 DEF ResolveFind, TypeOK
  <1>3. ASSUME FindProof(k) PROVE TypeOK'
    BY <1>2, <1>3 DEF FindProof
  <1>4. ASSUME CheckProof(k) PROVE TypeOK'
    <2>1. NextTick(call[k].tick, PollInterval) \in Int
      <3>1. PollInterval \in Nat \ {0}
        BY ConstantTypes
      <3> QED
        BY <1>a, <3>1, NextTickType
    <2>2. PICK tick \in Int : ResolveFind(k, "queued", tick)
      BY <1>4, <1>a, <2>1, Zenon DEF CheckProof
    <2> QED
      BY <1>2, <2>2
  <1>5. ASSUME FindReplica(k) PROVE TypeOK'
    <2> DEFINE now == LocalTime(call[k].at)
    <2>1. faults' \in Nat
      BY <1>5, OutcomeType DEF FindReplica
    <2>2. \/ call' = Finished(k, "notFound", {})
          \/ call' = Finished(k, "ownerUnavailable", {})
          \/ call' = [call EXCEPT ![k].pc = "enqueue", ![k].stamp = now]
      BY <1>5 DEF FindReplica
    <2>3. now \in Int
      BY <1>a
    <2> HIDE DEF now
    <2>4. [call EXCEPT ![k].pc = "enqueue", ![k].stamp = now] \in [Call -> CallState]
      BY <2>3, ZenonT(90) DEF TypeOK, CallState
    <2>5. /\ Finished(k, "notFound", {}) \in [Call -> CallState]
          /\ Finished(k, "ownerUnavailable", {}) \in [Call -> CallState]
      BY FinishedType
    <2>6. call' \in [Call -> CallState]
      BY <2>2, <2>4, <2>5
    <2> QED
      BY <1>5, <2>1, <2>6 DEF FindReplica, TypeOK
  <1>b. Enqueued(k) \subseteq RequestRow
    <2>1. call[k].stamp + RequestTTL \in Int /\ call[k].ref \in Replica
            /\ call[k].challenge \in Challenge
      BY <1>a, ConstantTypes DEF CallState
    <2> QED
      BY <1>a, <2>1, RequestStatements DEF Enqueued, TypeOK
  <1>6. ASSUME Enqueue(k) PROVE TypeOK'
    <2> DEFINE until == clock + RequestTimeout
               tick == clock + PollInterval
    <2>1. until \in Nat /\ tick \in Int
      BY <1>a, ConstantTypes
    <2>2. call' = [call EXCEPT ![k].pc = "check", ![k].stamp = 0,
                               ![k].deadline = until, ![k].tick = tick]
      BY <1>6 DEF Enqueue
    <2> HIDE DEF until, tick
    <2>3. call' \in [Call -> CallState]
      BY <1>a, <2>1, <2>2, ZenonT(90) DEF TypeOK, CallState
    <2>4. faults' \in Nat
      BY <1>6, OutcomeType DEF Enqueue
    <2> QED
      BY <1>6, <1>b, <2>3, <2>4 DEF Enqueue, TypeOK
  <1>7. ASSUME CheckRequest(k) PROVE TypeOK'
    <2>1. faults' \in Nat
      BY <1>7, OutcomeType DEF CheckRequest
    <2>2. [call EXCEPT ![k].pc = "wait"] \in [Call -> CallState]
      BY ZenonT(90) DEF TypeOK, CallState
    <2>3. Finished(k, "failed", {}) \in [Call -> CallState]
      BY FinishedType
    <2>4. call' \in [Call -> CallState]
      BY <1>7, <2>2, <2>3, Zenon DEF CheckRequest
    <2> QED
      BY <1>7, <2>1, <2>4 DEF CheckRequest, TypeOK
  <1>8. ASSUME TimesOut(k) PROVE TypeOK'
    <2>1. call' \in [Call -> CallState]
      BY <1>8, FinishedType DEF TimesOut
    <2> QED
      BY <1>8, <2>1 DEF TimesOut, TypeOK
  <1>9. ASSUME ResolveFails(k) PROVE TypeOK'
    <2>1. faults' \in Nat
      BY <1>9, OutcomeType DEF ResolveFails
    <2>2. call' \in [Call -> CallState]
      BY <1>9, FinishedType DEF ResolveFails
    <2> QED
      BY <1>9, <1>b, <2>1, <2>2 DEF ResolveFails, TypeOK
  <1> QED
    BY <1>1, <1>3, <1>4, <1>5, <1>6, <1>7, <1>8, <1>9 DEF ResolveStep

(* Every step preserves the types. *)
LEMMA TypeStep ==
    ASSUME TypeOK, Coupled, [Next]_vars
    PROVE  TypeOK'
  <1>1. CASE \E r \in Replica : Start(r) \/ StartFails(r) \/ LoopStep(r)
                                \/ Signal(r) \/ MainStep(r) \/ Crash(r)
    BY <1>1, LoopStepType, MainStepType
  <1>2. CASE \E k \in Call : Arrives(k) \/ ResolveStep(k)
    BY <1>2, ResolveStepType
  <1>3. CASE \E w \in Worker : IssueStep(w)
    BY <1>3, IssueStepType
  <1>4. CASE Tick
    BY <1>4 DEF Tick, TypeOK, tables
  <1>5. CASE UNCHANGED vars
    BY <1>5 DEF vars, TypeOK
  <1> QED
    BY <1>1, <1>2, <1>3, <1>4, <1>5 DEF Next, TimeIsUp

(* The initial states are well-typed, and no goroutine is at work. *)
LEMMA InitType ==
    ASSUME Init
    PROVE  TypeOK /\ Coupled
  <1>1. Idle \in IssueState /\ NoDeadline \in Nat
    BY ConstantTypes DEF Idle, IssueState
  <1>2. PICK ask \in [Call -> Asks] :
          call = [k \in Call |->
                    [pc |-> "idle", at |-> ask[k].at, ref |-> ask[k].ref,
                     challenge |-> ask[k].challenge, stamp |-> 0,
                     deadline |-> NoDeadline, tick |-> 0,
                     result |-> "none", answer |-> {}]]
    BY DEF Init
  <1>3. \A k \in Call : ask[k] \in [at : Replica, ref : Replica, challenge : Challenge]
    BY <1>2, EnvironmentAssumption
  <1>4. call \in [Call -> CallState]
    BY <1>1, <1>2, <1>3 DEF CallState
  <1>5. loop \in [Replica -> LoopState] /\ main \in [Replica -> MainState]
    BY DEF Init, LoopState, MainState
  <1>6. TypeOK
    BY <1>1, <1>4, <1>5 DEF Init, TypeOK
  <1>7. Coupled
    BY <1>2 DEF Init, Coupled, Idle, Worker
  <1> QED
    BY <1>6, <1>7

-----------------------------------------------------------------------------
(* The goroutines stay coupled. *)

LEMMA WorkOnCoupled ==
    ASSUME TypeOK, Coupled, NEW r \in Replica, NEW batch, NEW due,
           WorkOn(r, batch, due), UNCHANGED <<call, main>>,
           issue[r].pc = "idle", loop[r].pc # "off"
    PROVE  Coupled'
  <1>1. \A s \in Replica : s # r => loop'[s] = loop[s] /\ issue'[s] = issue[s]
    BY DEF WorkOn, TypeOK, Worker
  <1>2. \A k \in Call : issue'[k] = issue[k]
    BY ConstantTypes DEF WorkOn, TypeOK, Worker
  <1>3. CASE batch # <<>> /\ Serving(r)
    BY <1>1, <1>2, <1>3 DEF WorkOn, Coupled, TypeOK, LoopState, Worker
  <1>4. CASE ~(batch # <<>> /\ Serving(r))
    BY <1>1, <1>2, <1>4 DEF WorkOn, Coupled, TypeOK, LoopState, Worker
  <1> QED
    BY <1>3, <1>4

(* The end of an Issue leaves its goroutine coupled. *)
LEMMA IssueReturnsCoupled ==
    ASSUME TypeOK, Coupled, NEW w \in Worker, NEW bundles, issue[w].pc # "idle",
           IssueReturns(w, bundles), UNCHANGED main
    PROVE  Coupled'
  <1>1. /\ issue'[w].pc = "idle"
        /\ \A v \in Worker : v # w => issue'[v] = issue[v]
    BY DEF IssueReturns, TypeOK, Idle
  <1>2. CASE w \in Call
    <2>1. UNCHANGED loop
      BY <1>2 DEF IssueReturns
    <2>2. PICK result : call' = Finished(w, result, bundles)
      BY <1>2 DEF IssueReturns
    <2>3. /\ call'[w].pc = "done"
          /\ \A k \in Call : k # w => call'[k] = call[k]
      BY <1>2, <2>2, ZenonT(90) DEF Finished, TypeOK, CallState
    <2> QED
      BY <1>1, <1>2, <2>1, <2>3, ConstantTypes DEF Coupled, Worker
  <1>3. CASE w \notin Call
    <2>1. w \in Replica
      BY <1>3 DEF Worker
    <2>2. UNCHANGED call
      BY <1>3 DEF IssueReturns
    <2>3. \A s \in Replica : s # w => loop'[s] = loop[s]
      BY <1>3 DEF IssueReturns, TypeOK
    <2>4. loop'[w].pc \in {"issue", "complete", "fail"} => loop'[w].batch # <<>>
      BY <1>3, <2>1 DEF IssueReturns, TypeOK, LoopState, Coupled
    <2> QED
      BY <1>1, <1>3, <2>1, <2>2, <2>3, <2>4 DEF Coupled, Worker
  <1> QED
    BY <1>2, <1>3

(* So do the steps of Cache.Issue. *)
LEMMA IssueStepCoupled ==
    ASSUME TypeOK, Coupled, NEW w \in Worker, IssueStep(w)
    PROVE  Coupled'
  <1>1. ASSUME issue[w].pc # "idle", UNCHANGED <<loop, call, main>>,
               \E f \in [Worker -> IssueState] :
                  /\ issue' = f
                  /\ \A v \in Worker : v # w => f[v] = issue[v]
        PROVE  Coupled'
    BY <1>1 DEF Coupled, TypeOK, Worker
  <1>a. TypeOK'
    BY IssueStepType
  <1>2. CASE IssueFind(w)
    <2>1. CASE Stored(Owner(w), Nonce(w)) # {}
      BY <1>2, <2>1, IssueReturnsCoupled DEF IssueFind
    <2>2. CASE Stored(Owner(w), Nonce(w)) = {}
      <3>1. \A v \in Worker : v # w => issue'[v] = issue[v]
        BY <1>2, <2>2 DEF IssueFind, TypeOK
      <3> QED
        BY <1>1, <1>2, <1>a, <2>2, <3>1 DEF IssueFind, TypeOK
    <2> QED
      BY <2>1, <2>2
  <1>3. CASE IssueMint(w) \/ IssuePut(w)
    <2>1. \A v \in Worker : v # w => issue'[v] = issue[v]
      BY <1>3 DEF IssueMint, IssuePut, TypeOK
    <2> QED
      BY <1>1, <1>3, <1>a, <2>1 DEF IssueMint, IssuePut, TypeOK, tables
  <1>4. CASE IssueRead(w)
    BY <1>4, IssueReturnsCoupled DEF IssueRead
  <1>5. CASE IssueFails(w)
    BY <1>5, IssueReturnsCoupled DEF IssueFails
  <1> QED
    BY <1>2, <1>3, <1>4, <1>5 DEF IssueStep

(* The steps of Router.run keep the goroutines coupled. *)
LEMMA LoopStepCoupled ==
    ASSUME TypeOK, Coupled, NEW r \in Replica, LoopStep(r)
    PROVE  Coupled'
  <1>1. /\ loop[r].pc \notin {"issue", "off"} /\ issue[r].pc = "idle"
        /\ main[r].pc # "new" /\ UNCHANGED <<call, main>>
    BY DEF LoopStep, HeartbeatTick, PollTick, Heartbeat, Cleanup, Record,
           RunStops, RunDrains, Coupled
  <1>2. ASSUME UNCHANGED issue,
               loop'[r].pc \notin {"issue", "complete", "fail"},
               \A s \in Replica : s # r => loop'[s] = loop[s]
        PROVE  Coupled'
    BY <1>1, <1>2 DEF Coupled
  <1>3. ASSUME HeartbeatTick(r) \/ Heartbeat(r) \/ Cleanup(r)
                 \/ RunStops(r) \/ RunDrains(r)
        PROVE  Coupled'
    <2>1. UNCHANGED issue
      BY <1>3 DEF HeartbeatTick, Heartbeat, Cleanup, RunStops, RunDrains
    <2>2. \A s \in Replica : s # r => loop'[s] = loop[s]
      BY <1>3 DEF HeartbeatTick, Heartbeat, Cleanup, RunStops, RunDrains, TypeOK
    <2>3. loop'[r].pc \notin {"issue", "complete", "fail"}
      BY <1>3 DEF HeartbeatTick, Heartbeat, Cleanup, RunStops, RunDrains, TypeOK,
                  LoopState, Ready
    <2> QED
      BY <1>2, <2>1, <2>2, <2>3
  <1>4. ASSUME PollTick(r) PROVE Coupled'
    <2>1. PICK batch, due : WorkOn(r, batch, due)
      BY <1>4 DEF PollTick
    <2> QED
      BY <1>1, <2>1, WorkOnCoupled
  <1>5. ASSUME Record(r) PROVE Coupled'
    BY <1>1, <1>5, WorkOnCoupled DEF Record
  <1> QED
    BY <1>3, <1>4, <1>5 DEF LoopStep

(* Only a start and an end of a process touch its goroutines. *)
LEMMA MainStepCoupled ==
    ASSUME TypeOK, Coupled, NEW r \in Replica,
           Start(r) \/ StartFails(r) \/ Signal(r) \/ MainStep(r) \/ Crash(r)
    PROVE  Coupled'
  <1>a. main'[r].pc # "new" /\ \A s \in Replica : s # r => main'[s] = main[s]
    BY DEF Start, StartFails, Signal, MainStep, MainDrains, ShutdownReturns, Crash,
           Ends, TypeOK, MainState
  <1>1. ASSUME Start(r) PROVE Coupled'
    <2>1. loop'[r].pc = "select" /\ \A s \in Replica : s # r => loop'[s] = loop[s]
      BY <1>1 DEF Start, TypeOK, LoopState
    <2>2. issue[r].pc = "idle"
      BY <1>1 DEF Start, Coupled
    <2>3. UNCHANGED <<issue, call>>
      BY <1>1 DEF Start
    <2> QED
      BY <1>a, <2>1, <2>2, <2>3 DEF Coupled
  <1>2. ASSUME StartFails(r) \/ Signal(r) \/ MainDrains(r) PROVE Coupled'
    BY <1>2, <1>a DEF StartFails, Signal, MainDrains, Coupled, tables
  <1>3. ASSUME Ends(r) PROVE Coupled'
    <2>1. loop'[r].pc = "off" /\ \A s \in Replica : s # r => loop'[s] = loop[s]
      BY <1>3 DEF Ends, TypeOK, LoopState
    <2>2. issue'[r].pc = "idle" /\ \A s \in Replica : s # r => issue'[s] = issue[s]
      BY <1>3, ConstantTypes DEF Ends, Idle, Worker
    <2>3. ASSUME NEW k \in Call
          PROVE  /\ issue'[k].pc # "idle" => call'[k].pc = "issue"
                 /\ call'[k].pc = "issue" => call'[k].ref = call'[k].at
      <3>1. CASE call[k].at = r /\ Active(k)
        <4>1. issue'[k].pc = "idle"
          BY <1>3, <3>1 DEF Ends, Idle, Worker
        <4>2. call'[k] = Finished(k, "lost", {})[k]
          BY <1>3, <3>1 DEF Ends
        <4>3. Finished(k, "lost", {})[k].pc = "done"
          BY ZenonT(90) DEF Finished, TypeOK, CallState
        <4> QED
          BY <4>1, <4>2, <4>3
      <3>2. CASE ~(call[k].at = r /\ Active(k))
        <4>1. call'[k] = call[k]
          BY <1>3, <3>2 DEF Ends
        <4>2. issue'[k] = issue[k]
          BY <1>3, <3>2, ConstantTypes DEF Ends, Worker
        <4> QED
          BY <4>1, <4>2 DEF Coupled
      <3> QED
        BY <3>1, <3>2
    <2> QED
      BY <1>a, <2>1, <2>2, <2>3 DEF Coupled
  <1> QED
    BY <1>1, <1>2, <1>3 DEF MainStep, ShutdownReturns, Crash

(* What a request that ends keeps and what it becomes. *)
LEMMA FinishedValue ==
    ASSUME TypeOK, NEW k \in Call, NEW result, NEW answer
    PROVE  LET f == Finished(k, result, answer) IN
           /\ \A j \in Call : j # k => f[j] = call[j]
           /\ f[k].pc = "done" /\ f[k].result = result /\ f[k].answer = answer
           /\ f[k].ref = call[k].ref /\ f[k].challenge = call[k].challenge
           /\ f[k].at = call[k].at
  BY ZenonT(90) DEF Finished, TypeOK, CallState

(* A step of a routed request moves it along the path of Resolve, or ends  *)
(* it: with a bundle found in the table, or without one.                   *)
LEMMA ResolveFrame ==
    ASSUME TypeOK, NEW k \in Call, ResolveStep(k)
    PROVE  /\ \A j \in Call : j # k => call'[j] = call[j]
           /\ \/ /\ call'[k].pc \in {"replica", "enqueue", "check", "queued", "wait"}
                 /\ call'[k].result = call[k].result
                 /\ call'[k].answer = call[k].answer
              \/ /\ call'[k].pc = "done"
                 /\ call'[k].result # "ok" /\ call'[k].answer = {}
              \/ /\ call'[k].pc = "done" /\ call'[k].result = "ok"
                 /\ call'[k].answer = Stored(call[k].ref, call[k].challenge)
                 /\ call'[k].answer # {}
           /\ call'[k].ref = call[k].ref /\ call'[k].challenge = call[k].challenge
           /\ call'[k].at = call[k].at
  <1> DEFINE Frame ==
           /\ \A j \in Call : j # k => call'[j] = call[j]
           /\ call'[k].ref = call[k].ref /\ call'[k].challenge = call[k].challenge
           /\ call'[k].at = call[k].at
             Moves ==
           /\ call'[k].pc \in {"replica", "enqueue", "check", "queued", "wait"}
           /\ call'[k].result = call[k].result
           /\ call'[k].answer = call[k].answer
             Ended ==
           /\ call'[k].pc = "done"
           /\ call'[k].result # "ok" /\ call'[k].answer = {}
             Given ==
           /\ call'[k].pc = "done" /\ call'[k].result = "ok"
           /\ call'[k].answer = Stored(call[k].ref, call[k].challenge)
           /\ call'[k].answer # {}
  <1>1. ASSUME NEW result \in {"notFound", "ownerUnavailable", "failed", "timeout",
                               "error"},
               call' = Finished(k, result, {})
        PROVE  Frame /\ Ended
    BY <1>1, FinishedValue
  <1>2. ASSUME NEW pc \in {"replica", "enqueue", "check", "queued", "wait"},
               NEW stamp, NEW deadline, NEW tick,
               call' = [call EXCEPT ![k].pc = pc, ![k].stamp = stamp,
                                    ![k].deadline = deadline, ![k].tick = tick]
        PROVE  Frame /\ Moves
    BY <1>2, ZenonT(90) DEF TypeOK, CallState
  <1>3. ASSUME NEW miss \in {"replica", "queued"}, NEW tick, ResolveFind(k, miss, tick)
        PROVE  Frame /\ (Moves \/ Given)
    <2> DEFINE found == Stored(call[k].ref, call[k].challenge)
    <2>1. CASE found # {}
      <3>1. call' = Finished(k, "ok", found)
        BY <1>3, <2>1 DEF ResolveFind
      <3> QED
        BY <2>1, <3>1, FinishedValue
    <2>2. CASE found = {}
      <3>1. call' = [call EXCEPT ![k].pc = miss, ![k].tick = tick]
        BY <1>3, <2>2 DEF ResolveFind
      <3> QED
        BY <1>3, <3>1, ZenonT(90) DEF TypeOK, CallState
    <2> QED
      BY <2>1, <2>2
  <1>4. ASSUME FindReplica(k) PROVE Frame /\ (Moves \/ Ended)
    <2> DEFINE now == LocalTime(call[k].at)
    <2>1. CASE call' = [call EXCEPT ![k].pc = "enqueue", ![k].stamp = now]
      <3> HIDE DEF now
      <3> QED
        BY <2>1, ZenonT(90) DEF TypeOK, CallState
    <2> QED
      BY <1>1, <1>4, <2>1 DEF FindReplica
  <1>5. ASSUME Enqueue(k) PROVE Frame /\ Moves
    <2>1. PICK deadline, tick :
             call' = [call EXCEPT ![k].pc = "check", ![k].stamp = 0,
                                  ![k].deadline = deadline, ![k].tick = tick]
      BY <1>5 DEF Enqueue
    <2> QED
      BY <1>2, <2>1
  <1>6. ASSUME CheckRequest(k) PROVE Frame /\ (Moves \/ Ended)
    <2>1. CASE call' = [call EXCEPT ![k].pc = "wait"]
      BY <2>1 DEF TypeOK, CallState
    <2> QED
      BY <1>1, <1>6, <2>1, Zenon DEF CheckRequest
  <1>7. ASSUME TimesOut(k) \/ ResolveFails(k) PROVE Frame /\ Ended
    BY <1>1, <1>7 DEF TimesOut, ResolveFails
  <1>8. ASSUME FindProof(k) \/ CheckProof(k) PROVE Frame /\ (Moves \/ Given)
    BY <1>3, <1>8 DEF FindProof, CheckProof
  <1> QED
    BY <1>4, <1>5, <1>6, <1>7, <1>8 DEF ResolveStep

(* A handler enters Issue only for the key of its own replica. *)
LEMMA ResolveStepCoupled ==
    ASSUME TypeOK, Coupled, NEW k \in Call, Arrives(k) \/ ResolveStep(k)
    PROVE  Coupled'
  <1>1. UNCHANGED <<main, loop>>
    BY DEF Arrives, ResolveStep, FindProof, FindReplica, Enqueue, CheckProof,
           CheckRequest, TimesOut, ResolveFails, ResolveFind
  <1>2. CASE Arrives(k)
    <2>1. /\ \A j \in Call : j # k => call'[j] = call[j]
          /\ call'[k].ref = call[k].ref /\ call'[k].at = call[k].at
          /\ call'[k].pc = IF call[k].ref = call[k].at THEN "issue" ELSE "find"
      BY <1>2 DEF Arrives, Step, TypeOK, CallState
    <2>2. /\ \A w \in Worker : w # k => issue'[w] = issue[w]
          /\ call[k].ref # call[k].at => issue'[k] = issue[k]
      BY <1>2 DEF Arrives, TypeOK
    <2>3. call[k].pc = "idle"
      BY <1>2 DEF Arrives
    <2>4. \A r \in Replica : issue'[r] = issue[r]
      BY <2>2, ConstantTypes DEF Worker
    <2> QED
      BY <1>1, <2>1, <2>2, <2>3, <2>4 DEF Coupled, Worker
  <1>3. CASE ResolveStep(k)
    <2>1. UNCHANGED issue
      BY <1>3 DEF ResolveStep, FindProof, FindReplica, Enqueue, CheckProof,
                  CheckRequest, TimesOut, ResolveFails, ResolveFind
    <2>2. issue[k].pc = "idle"
      BY <1>3 DEF ResolveStep, FindProof, FindReplica, Enqueue, CheckProof,
                  CheckRequest, TimesOut, ResolveFails, Coupled
    <2>3. \A j \in Call : j # k => call'[j] = call[j]
      BY <1>3, ResolveFrame
    <2>4. call'[k].pc # "issue"
      BY <1>3, ResolveFrame
    <2> QED
      BY <1>1, <2>1, <2>2, <2>3, <2>4 DEF Coupled
  <1> QED
    BY <1>2, <1>3

(* Every step keeps the goroutines coupled. *)
LEMMA CoupledStep ==
    ASSUME TypeOK, Coupled, [Next]_vars
    PROVE  Coupled'
  <1>1. CASE \E r \in Replica : Start(r) \/ StartFails(r) \/ LoopStep(r)
                                \/ Signal(r) \/ MainStep(r) \/ Crash(r)
    BY <1>1, LoopStepCoupled, MainStepCoupled
  <1>2. CASE \E k \in Call : Arrives(k) \/ ResolveStep(k)
    BY <1>2, ResolveStepCoupled
  <1>3. CASE \E w \in Worker : IssueStep(w)
    BY <1>3, IssueStepCoupled
  <1>4. CASE Tick \/ UNCHANGED vars
    BY <1>4 DEF Tick, vars, Coupled
  <1> QED
    BY <1>1, <1>2, <1>3, <1>4 DEF Next, TimeIsUp

(* The tables and the goroutines are well-typed in every reachable state.  *)
THEOREM TypeCorrect == Spec => []TypeOK
  <1>1. Init => TypeOK /\ Coupled
    BY InitType
  <1>2. TypeOK /\ Coupled /\ [Next]_vars => (TypeOK /\ Coupled)'
    BY TypeStep, CoupledStep
  <1> QED
    BY <1>1, <1>2, PTL DEF Spec

-----------------------------------------------------------------------------
(* The archive.  The inductive invariant: bundles are unique, what clients *)
(* were given and what rows call complete is stored, and so is what an     *)
(* Issue is about to read back and what the loop is about to record.       *)

(* After its insert, Issue finds a bundle: its own, or the one that was    *)
(* there before.                                                           *)
ReadFinds ==
    \A w \in Worker : issue[w].pc = "read" => Stored(Owner(w), Nonce(w)) # {}

RecordFinds ==
    \A r \in Replica : loop[r].pc = "complete" => Stored(r, Head(loop[r].batch)) # {}

(* Only a request that ended well holds a bundle. *)
OnlyOkAnswers ==
    \A k \in Call : /\ call[k].result # "ok" => call[k].answer = {}
                    /\ call[k].pc # "done" => call[k].result = "none"

Archive == /\ UniqueProofs /\ AnswersArchived /\ CompleteHasProof
           /\ ReadFinds /\ RecordFinds /\ OnlyOkAnswers

(* A step leaves attestation_proofs alone or adds one bundle to it, under  *)
(* a key that had none (PostgresStore.Put).                                *)
LEMMA ProofsStep ==
    ASSUME TypeOK, Coupled, [Next]_vars
    PROVE  \/ UNCHANGED proofs
           \/ \E b \in Bundle : /\ Stored(b.ref, b.challenge) = {}
                                /\ proofs' = proofs \cup {b}
  <1> USE DEF tables
  <1>1. CASE \E r \in Replica : Start(r) \/ StartFails(r) \/ LoopStep(r)
                                \/ Signal(r) \/ MainStep(r) \/ Crash(r)
    BY <1>1 DEF Start, StartFails, LoopStep, HeartbeatTick, PollTick, Heartbeat,
                Cleanup, Record, RunStops, RunDrains, Signal, MainStep, MainDrains,
                ShutdownReturns, Crash
  <1>2. CASE \E k \in Call : Arrives(k) \/ ResolveStep(k)
    BY <1>2 DEF Arrives, ResolveStep, FindProof, FindReplica, Enqueue, CheckProof,
                CheckRequest, TimesOut, ResolveFails, ResolveFind
  <1>3. CASE \E w \in Worker : IssueStep(w)
    <2>1. PICK w \in Worker : IssueStep(w)
      BY <1>3
    <2>2. CASE UNCHANGED proofs
      BY <2>2
    <2>3. CASE issue[w].pc = "put" /\ proofs' = PutProof(Minted(w))
      BY <2>3, MintedType DEF PutProof
    <2> QED
      BY <2>1, <2>2, <2>3 DEF IssueStep, IssueFind, IssueMint, IssuePut, IssueRead,
                              IssueFails
  <1>4. CASE Tick \/ UNCHANGED vars
    BY <1>4 DEF Tick, vars
  <1> QED
    BY <1>1, <1>2, <1>3, <1>4 DEF Next, TimeIsUp

(* So bundles stay unique, and what is stored under a key stays.           *)
LEMMA StoredStays ==
    ASSUME TypeOK, Coupled, UniqueProofs, [Next]_vars
    PROVE  /\ UniqueProofs'
           /\ \A ref, c : Stored(ref, c) # {} => Stored(ref, c)' = Stored(ref, c)
  <1>1. CASE UNCHANGED proofs
    BY <1>1 DEF UniqueProofs, Stored
  <1>2. CASE \E b \in Bundle : /\ Stored(b.ref, b.challenge) = {}
                               /\ proofs' = proofs \cup {b}
    BY <1>2 DEF UniqueProofs, Stored
  <1> QED
    BY <1>1, <1>2, ProofsStep

(* What Issue returns to a handler or to the loop.                         *)
LEMMA IssueReturnsValue ==
    ASSUME TypeOK, Coupled, NEW w \in Worker, issue[w].pc # "idle", NEW bundles,
           IssueReturns(w, bundles)
    PROVE  /\ \A v \in Worker : v # w => issue'[v] = issue[v]
           /\ issue'[w].pc = "idle"
           /\ \A k \in Call : k # w => call'[k] = call[k]
           /\ \A r \in Replica : r # w => loop'[r] = loop[r]
           /\ w \in Call =>
                /\ UNCHANGED loop
                /\ call'[w].pc = "done" /\ call'[w].answer = bundles
                /\ call'[w].result = IF bundles = {} THEN "error" ELSE "ok"
                /\ call'[w].ref = call[w].ref /\ call'[w].at = call[w].at
                /\ call'[w].challenge = call[w].challenge
           /\ w \in Replica =>
                /\ UNCHANGED call
                /\ loop'[w].pc = "complete" => /\ bundles # {}
                                               /\ loop'[w].batch = loop[w].batch
  <1>1. /\ issue'[w].pc = "idle"
        /\ \A v \in Worker : v # w => issue'[v] = issue[v]
    BY DEF IssueReturns, TypeOK, Idle
  <1>2. CASE w \in Call
    <2>1. w \notin Replica /\ UNCHANGED loop
      BY <1>2, ConstantTypes DEF IssueReturns
    <2>2. call' = Finished(w, IF bundles = {} THEN "error" ELSE "ok", bundles)
      BY <1>2 DEF IssueReturns
    <2> QED
      BY <1>1, <1>2, <2>1, <2>2, FinishedValue
  <1>3. CASE w \in Replica
    <2>1. w \notin Call /\ UNCHANGED call
      BY <1>3, ConstantTypes DEF IssueReturns
    <2>2. \A r \in Replica : r # w => loop'[r] = loop[r]
      BY <2>1 DEF IssueReturns, TypeOK
    <2>3. loop'[w].pc = "complete" => bundles # {} /\ loop'[w].batch = loop[w].batch
      BY <1>3, <2>1 DEF IssueReturns, TypeOK, LoopState
    <2> QED
      BY <1>1, <1>3, <2>1, <2>2, <2>3
  <1> QED
    BY <1>2, <1>3 DEF Worker

(* What a step may do to a request. *)
Keeps(k) == /\ call'[k].result = call[k].result /\ call'[k].answer = call[k].answer
            /\ call'[k].pc = "done" <=> call[k].pc = "done"
Gives(k, answer) ==
    /\ call[k].pc # "done" /\ call'[k].pc = "done"
    /\ call'[k].answer = answer
    /\ call'[k].result = "ok" <=> answer # {}
SameAsk(k) == /\ call'[k].ref = call[k].ref /\ call'[k].at = call[k].at
              /\ call'[k].challenge = call[k].challenge

(* A step keeps what a request asks for; it keeps the request's answer, or *)
(* it ends the request: with the bundle stored for it, or without one.     *)
LEMMA CallStep ==
    ASSUME TypeOK, Coupled, [Next]_vars, NEW k \in Call
    PROVE  /\ SameAsk(k)
           /\ \/ Keeps(k)
              \/ Gives(k, {})
              \/ Gives(k, Stored(call[k].ref, call[k].challenge))
  <1> USE DEF SameAsk, Keeps, Gives
  <1>1. CASE UNCHANGED call
    BY <1>1
  <1>2. ASSUME NEW r \in Replica, Ends(r) PROVE SameAsk(k) /\ (Keeps(k) \/ Gives(k, {}))
    <2>1. CASE call[k].at = r /\ Active(k)
      <3>1. call'[k] = Finished(k, "lost", {})[k]
        BY <1>2, <2>1 DEF Ends
      <3>2. call[k].pc # "done"
        BY <2>1 DEF Active
      <3> QED
        BY <3>1, <3>2, FinishedValue
    <2>2. CASE ~(call[k].at = r /\ Active(k))
      BY <1>2, <2>2 DEF Ends
    <2> QED
      BY <2>1, <2>2
  <1>3. CASE \E r \in Replica : Start(r) \/ StartFails(r) \/ LoopStep(r)
                                \/ Signal(r) \/ MainStep(r) \/ Crash(r)
    BY <1>1, <1>2, <1>3
       DEF Start, StartFails, LoopStep, HeartbeatTick, PollTick, Heartbeat, Cleanup,
           Record, RunStops, RunDrains, Signal, MainStep, MainDrains,
           ShutdownReturns, Crash
  <1>4. ASSUME NEW j \in Call, Arrives(j)
        PROVE  SameAsk(k) /\ Keeps(k)
    BY <1>4 DEF Arrives, Step, TypeOK, CallState
  <1>5. ASSUME NEW j \in Call, ResolveStep(j)
        PROVE  SameAsk(k) /\ \/ Keeps(k) \/ Gives(k, {})
                             \/ Gives(k, Stored(call[k].ref, call[k].challenge))
    <2>1. call[j].pc # "done"
      BY <1>5 DEF ResolveStep, FindProof, FindReplica, Enqueue, CheckProof,
                  CheckRequest, TimesOut, ResolveFails
    <2> QED
      BY <1>5, <2>1, ResolveFrame
  <1>6. ASSUME NEW w \in Worker, NEW bundles, issue[w].pc # "idle",
               IssueReturns(w, bundles)
        PROVE  /\ SameAsk(k)
               /\ Keeps(k) \/ (w = k /\ Gives(k, bundles))
    BY <1>6, IssueReturnsValue DEF Coupled, Worker
  <1>7. ASSUME NEW w \in Worker, IssueStep(w)
        PROVE  SameAsk(k) /\ \/ Keeps(k) \/ Gives(k, {})
                             \/ Gives(k, Stored(call[k].ref, call[k].challenge))
    <2>1. \/ UNCHANGED call
          \/ /\ issue[w].pc # "idle"
             /\ \/ IssueReturns(w, {})
                \/ IssueReturns(w, Stored(Owner(w), Nonce(w)))
      BY <1>7 DEF IssueStep, IssueFind, IssueMint, IssuePut, IssueRead, IssueFails
    <2>2. issue[k].pc # "idle" =>
             Stored(Owner(k), Nonce(k)) = Stored(call[k].ref, call[k].challenge)
      BY DEF Coupled, Owner, Nonce
    <2> QED
      BY <1>1, <1>6, <2>1, <2>2
  <1>8. CASE Tick \/ UNCHANGED vars
    BY <1>1, <1>8 DEF Tick, vars
  <1> QED
    BY <1>3, <1>4, <1>5, <1>7, <1>8 DEF Next, TimeIsUp

(* An Issue is about to read back only what it, or another, inserted.      *)
LEMMA ReadStep ==
    ASSUME TypeOK, Coupled, [Next]_vars, NEW w \in Worker, issue'[w].pc = "read"
    PROVE  /\ Owner(w)' = Owner(w) /\ Nonce(w)' = Nonce(w)
           /\ \/ issue[w].pc = "read"
              \/ issue[w].pc = "put" /\ proofs' = PutProof(Minted(w))
  <1> DEFINE Same == w \in Replica => loop'[w] = loop[w]
             Stays == issue'[w] = issue[w]
             Put == issue[w].pc = "put" /\ proofs' = PutProof(Minted(w))
  <1>1. Owner(w)' = Owner(w)
    BY CallStep DEF Owner, SameAsk
  <1>2. ASSUME Same PROVE Nonce(w)' = Nonce(w)
    BY <1>2, CallStep DEF Nonce, SameAsk, Worker
  <1>3. ASSUME NEW v \in Worker, NEW bundles, issue[v].pc # "idle",
               IssueReturns(v, bundles)
        PROVE  Stays /\ Same
    BY <1>3, IssueReturnsValue
  <1>4. ASSUME NEW v \in Worker, IssueStep(v)
        PROVE  Same /\ (issue[w].pc = "read" \/ Put)
    <2>1. CASE IssueFind(v)
      <3>1. CASE Stored(Owner(v), Nonce(v)) # {}
        BY <1>3, <2>1, <3>1 DEF IssueFind
      <3>2. CASE Stored(Owner(v), Nonce(v)) = {}
        BY <2>1, <3>2 DEF IssueFind, TypeOK, IssueState
      <3> QED
        BY <3>1, <3>2
    <2>2. CASE IssueMint(v)
      BY <2>2 DEF IssueMint, TypeOK, IssueState
    <2>3. CASE IssuePut(v)
      BY <2>3 DEF IssuePut, TypeOK, IssueState
    <2>4. CASE IssueRead(v) \/ IssueFails(v)
      BY <1>3, <2>4 DEF IssueRead, IssueFails
    <2> QED
      BY <1>4, <2>1, <2>2, <2>3, <2>4 DEF IssueStep
  <1>5. ASSUME NEW r \in Replica, NEW batch, NEW due, WorkOn(r, batch, due),
               loop[r].pc # "issue"
        PROVE  Stays /\ Same
    <2>1. w # r
      BY <1>5 DEF WorkOn, NewIssue, TypeOK, Worker, Coupled
    <2> QED
      BY <1>5, <2>1 DEF WorkOn, TypeOK
  <1>6. ASSUME NEW r \in Replica, LoopStep(r)
        PROVE  Stays /\ Same
    <2>1. CASE HeartbeatTick(r) \/ Heartbeat(r) \/ Cleanup(r) \/ RunStops(r) \/ RunDrains(r)
      <3>1. UNCHANGED issue /\ loop[r].pc # "issue"
        BY <2>1 DEF HeartbeatTick, Heartbeat, Cleanup, RunStops, RunDrains
      <3>2. w # r
        BY <3>1 DEF Coupled
      <3>3. Same
        BY <2>1, <3>2 DEF HeartbeatTick, Heartbeat, Cleanup, RunStops, RunDrains, TypeOK
      <3> QED
        BY <3>1, <3>3
    <2>2. CASE PollTick(r) \/ Record(r)
      <3>1. loop[r].pc # "issue" /\ \E batch, due : WorkOn(r, batch, due)
        BY <2>2 DEF PollTick, Record
      <3> QED
        BY <1>5, <3>1
    <2> QED
      BY <1>6, <2>1, <2>2 DEF LoopStep
  <1>7. ASSUME NEW r \in Replica,
               Start(r) \/ StartFails(r) \/ Signal(r) \/ MainStep(r) \/ Crash(r)
        PROVE  Stays /\ Same
    <2>1. ASSUME Ends(r) PROVE Stays /\ Same
      <3>1. Stays /\ w # r
        BY <2>1 DEF Ends, Idle
      <3> QED
        BY <2>1, <3>1 DEF Ends, TypeOK
    <2>2. ASSUME Start(r) PROVE Stays /\ Same
      <3>1. Stays /\ w # r
        BY <2>2 DEF Start, Coupled
      <3> QED
        BY <2>2, <3>1 DEF Start, TypeOK
    <2> QED
      BY <1>7, <2>1, <2>2 DEF StartFails, Signal, MainStep, MainDrains,
                              ShutdownReturns, Crash
  <1>8. ASSUME NEW k \in Call, Arrives(k) \/ ResolveStep(k)
        PROVE  Stays /\ Same
    <2>1. UNCHANGED loop
      BY <1>8 DEF Arrives, ResolveStep, FindProof, FindReplica, Enqueue, CheckProof,
                  CheckRequest, TimesOut, ResolveFails, ResolveFind
    <2>2. Stays
      BY <1>8 DEF Arrives, ResolveStep, FindProof, FindReplica, Enqueue, CheckProof,
                  CheckRequest, TimesOut, ResolveFails, ResolveFind, NewIssue, TypeOK
    <2> QED
      BY <2>1, <2>2
  <1>9. CASE Tick \/ UNCHANGED vars
    BY <1>1, <1>2, <1>9 DEF Tick, vars
  <1> QED
    BY <1>1, <1>2, <1>4, <1>6, <1>7, <1>8, <1>9 DEF Next, TimeIsUp

(* The loop turns to recording a request as complete only with the bundle  *)
(* that Issue found or read back.                                          *)
LEMMA RecordStep ==
    ASSUME TypeOK, Coupled, [Next]_vars, NEW r \in Replica, loop'[r].pc = "complete"
    PROVE  /\ Head(loop'[r].batch) = Head(loop[r].batch)
           /\ \/ loop[r].pc = "complete"
              \/ Stored(r, Head(loop[r].batch)) # {}
  <1> DEFINE Stays == loop'[r] = loop[r]
             Found == /\ loop'[r].batch = loop[r].batch
                      /\ Stored(r, Head(loop[r].batch)) # {}
  <1>1. ASSUME NEW v \in Worker, NEW bundles, issue[v].pc # "idle",
               IssueReturns(v, bundles)
        PROVE  \/ Stays
               \/ v = r /\ bundles # {} /\ loop'[r].batch = loop[r].batch
    BY <1>1, IssueReturnsValue DEF Worker
  <1>2. ASSUME NEW v \in Worker, IssueStep(v) PROVE Stays \/ Found
    <2>1. \/ UNCHANGED loop
          \/ /\ issue[v].pc # "idle"
             /\ \/ IssueReturns(v, {})
                \/ IssueReturns(v, Stored(Owner(v), Nonce(v)))
      BY <1>2 DEF IssueStep, IssueFind, IssueMint, IssuePut, IssueRead, IssueFails
    <2>2. Stored(Owner(r), Nonce(r)) = Stored(r, Head(loop[r].batch))
      BY ConstantTypes DEF Owner, Nonce
    <2> QED
      BY <1>1, <2>1, <2>2
  <1>3. ASSUME NEW s \in Replica, NEW batch, NEW due, WorkOn(s, batch, due)
        PROVE  Stays
    BY <1>3 DEF WorkOn, TypeOK, LoopState
  <1>4. ASSUME NEW s \in Replica, LoopStep(s) PROVE Stays
    <2>1. CASE HeartbeatTick(s) \/ Heartbeat(s) \/ Cleanup(s) \/ RunStops(s) \/ RunDrains(s)
      BY <2>1 DEF HeartbeatTick, Heartbeat, Cleanup, RunStops, RunDrains, Ready,
                  TypeOK, LoopState
    <2>2. CASE PollTick(s) \/ Record(s)
      <3>1. PICK batch, due : WorkOn(s, batch, due)
        BY <2>2 DEF PollTick, Record
      <3> QED
        BY <1>3, <3>1
    <2> QED
      BY <1>4, <2>1, <2>2 DEF LoopStep
  <1>5. ASSUME NEW s \in Replica,
               Start(s) \/ StartFails(s) \/ Signal(s) \/ MainStep(s) \/ Crash(s)
        PROVE  Stays
    <2>1. ASSUME Ends(s) \/ Start(s) PROVE Stays
      BY <2>1 DEF Ends, Start, TypeOK, LoopState
    <2> QED
      BY <1>5, <2>1 DEF StartFails, Signal, MainStep, MainDrains, ShutdownReturns, Crash
  <1>6. ASSUME NEW k \in Call, Arrives(k) \/ ResolveStep(k) PROVE Stays
    BY <1>6 DEF Arrives, ResolveStep, FindProof, FindReplica, Enqueue, CheckProof,
                CheckRequest, TimesOut, ResolveFails, ResolveFind
  <1>7. CASE Tick \/ UNCHANGED vars
    BY <1>7 DEF Tick, vars
  <1> QED
    BY <1>2, <1>4, <1>5, <1>6, <1>7 DEF Next, TimeIsUp

(* A row becomes complete only by the statement with which the loop of its *)
(* owner records that it found the bundle.                                 *)
LEMMA CompleteStep ==
    ASSUME TypeOK, Coupled, [Next]_vars,
           NEW row \in requests', row.status = "complete"
    PROVE  \/ \E old \in requests : /\ old.status = "complete"
                                    /\ old.ref = row.ref
                                    /\ old.challenge = row.challenge
           \/ \E r \in Replica : /\ loop[r].pc = "complete" /\ row.ref = r
                                 /\ row.challenge = Head(loop[r].batch)
  <1> DEFINE Was == \E old \in requests : /\ old.status = "complete"
                                          /\ old.ref = row.ref
                                          /\ old.challenge = row.challenge
  <1>a. ASSUME requests' \subseteq requests PROVE Was
    BY <1>a
  <1>b. ASSUME NEW k \in Call, requests' = Enqueued(k) PROVE Was
    BY <1>b DEF Enqueued, EnqueueRequest
  <1>c. ASSUME NEW taken, NEW t, requests' = ClaimRequests(taken, t) PROVE Was
    BY <1>c DEF ClaimRequests, TypeOK, RequestRow
  <1>d. ASSUME NEW r, NEW c, NEW status \in {"complete", "failed"},
               requests' = MarkRequest(r, c, status)
        PROVE  Was \/ (status = "complete" /\ row.ref = r /\ row.challenge = c)
    <2>1. PICK old \in requests :
             row = IF old.ref = r /\ old.challenge = c
                   THEN [old EXCEPT !.status = status, !.leaseUntil = 0] ELSE old
      BY <1>d DEF MarkRequest
    <2>2. old \in RequestRow
      BY DEF TypeOK
    <2>3. CASE old.ref = r /\ old.challenge = c
      <3>1. row = [old EXCEPT !.status = status, !.leaseUntil = 0]
        BY <2>1, <2>3
      <3>2. row.ref = r /\ row.challenge = c /\ row.status = status
        BY <2>2, <2>3, <3>1, ZenonT(90) DEF RequestRow
      <3> QED
        BY <3>2
    <2>4. CASE ~(old.ref = r /\ old.challenge = c)
      BY <2>1, <2>4
    <2> QED
      BY <2>3, <2>4
  <1>1. ASSUME NEW r \in Replica, LoopStep(r)
        PROVE  Was \/ /\ loop[r].pc = "complete" /\ row.ref = r
                      /\ row.challenge = Head(loop[r].batch)
    <2>1. CASE HeartbeatTick(r) \/ Heartbeat(r) \/ RunStops(r) \/ RunDrains(r)
      BY <1>a, <2>1 DEF HeartbeatTick, Heartbeat, RunStops, RunDrains, tables
    <2>2. CASE Cleanup(r)
      BY <1>a, <2>2 DEF Cleanup, DeleteExpiredRequests
    <2>3. CASE PollTick(r)
      <3>1. \/ requests' = requests
            \/ \E taken, t : requests' = ClaimRequests(taken, t)
        BY <2>3 DEF PollTick
      <3> QED
        BY <1>a, <1>c, <3>1
    <2>4. CASE Record(r)
      <3>1. \/ requests' = requests
            \/ /\ loop[r].pc = "complete"
               /\ requests' = MarkRequest(r, Head(loop[r].batch), "complete")
            \/ requests' = MarkRequest(r, Head(loop[r].batch), "failed")
        BY <2>4 DEF Record
      <3> QED
        BY <1>a, <1>d, <3>1
    <2> QED
      BY <1>1, <2>1, <2>2, <2>3, <2>4 DEF LoopStep
  <1>2. ASSUME NEW k \in Call, Arrives(k) \/ ResolveStep(k) PROVE Was
    <2>1. requests' = requests \/ requests' = Enqueued(k)
      BY <1>2 DEF Arrives, ResolveStep, FindProof, FindReplica, Enqueue, CheckProof,
                  CheckRequest, TimesOut, ResolveFails, ResolveFind, tables
    <2> QED
      BY <1>a, <1>b, <2>1
  <1>3. ASSUME NEW r \in Replica,
               Start(r) \/ StartFails(r) \/ Signal(r) \/ MainStep(r) \/ Crash(r)
        PROVE  Was
    BY <1>a, <1>3 DEF Start, StartFails, Signal, MainStep, MainDrains,
                      ShutdownReturns, Crash, tables
  <1>4. ASSUME NEW w \in Worker, IssueStep(w) PROVE Was
    BY <1>a, <1>4 DEF IssueStep, IssueFind, IssueMint, IssuePut, IssueRead,
                      IssueFails, tables
  <1>5. CASE Tick \/ UNCHANGED vars
    BY <1>a, <1>5 DEF Tick, vars, tables
  <1> QED
    BY <1>1, <1>2, <1>3, <1>4, <1>5 DEF Next, TimeIsUp

(* Every step keeps the archive's invariant. *)
LEMMA ArchiveStep ==
    ASSUME TypeOK, Coupled, Archive, [Next]_vars
    PROVE  Archive'
  <1>1. /\ UniqueProofs'
        /\ \A ref, c : Stored(ref, c) # {} => Stored(ref, c)' = Stored(ref, c)
    BY StoredStays DEF Archive
  <1>2. OnlyOkAnswers'
    <2> SUFFICES ASSUME NEW k \in Call
                 PROVE  /\ call'[k].result # "ok" => call'[k].answer = {}
                        /\ call'[k].pc # "done" => call'[k].result = "none"
      BY DEF OnlyOkAnswers
    <2>1. /\ call[k].result # "ok" => call[k].answer = {}
          /\ call[k].pc # "done" => call[k].result = "none"
      BY DEF Archive, OnlyOkAnswers
    <2> QED
      BY <2>1, CallStep DEF Keeps, Gives
  <1>3. AnswersArchived'
    <2> SUFFICES ASSUME NEW k \in Call, call'[k].result = "ok"
                 PROVE  /\ call'[k].answer # {}
                        /\ call'[k].answer \subseteq
                              Stored(call[k].ref, call[k].challenge)'
      BY DEF AnswersArchived
    <2> DEFINE stored == Stored(call[k].ref, call[k].challenge)
    <2>1. SameAsk(k)
      BY CallStep
    <2>2. CASE Keeps(k)
      <3>1. call[k].answer # {} /\ call[k].answer \subseteq stored
        BY <2>2 DEF Keeps, Archive, AnswersArchived
      <3>2. stored' = stored
        BY <1>1, <2>1, <3>1 DEF SameAsk
      <3> QED
        BY <2>1, <2>2, <3>1, <3>2 DEF Keeps, SameAsk
    <2>3. CASE Gives(k, {})
      BY <2>3 DEF Gives
    <2>4. CASE Gives(k, stored)
      <3>1. stored # {} /\ call'[k].answer = stored
        BY <2>4 DEF Gives
      <3>2. stored' = stored
        BY <1>1, <2>1, <3>1 DEF SameAsk
      <3> QED
        BY <2>1, <3>1, <3>2 DEF SameAsk
    <2> QED
      BY <2>2, <2>3, <2>4, CallStep
  <1>4. CompleteHasProof'
    <2> SUFFICES ASSUME NEW row \in requests', row.status = "complete"
                 PROVE  Stored(row.ref, row.challenge)' # {}
      BY DEF CompleteHasProof
    <2>1. Stored(row.ref, row.challenge) # {}
      BY CompleteStep DEF Archive, CompleteHasProof, RecordFinds
    <2> QED
      BY <1>1, <2>1
  <1>5. ReadFinds'
    <2> SUFFICES ASSUME NEW w \in Worker, issue'[w].pc = "read"
                 PROVE  Stored(Owner(w), Nonce(w))' # {}
      BY DEF ReadFinds
    <2>1. Owner(w)' = Owner(w) /\ Nonce(w)' = Nonce(w)
      BY ReadStep
    <2>2. CASE issue[w].pc = "read"
      <3>1. Stored(Owner(w), Nonce(w)) # {}
        BY <2>2 DEF Archive, ReadFinds
      <3> QED
        BY <1>1, <2>1, <3>1
    <2>3. CASE issue[w].pc = "put" /\ proofs' = PutProof(Minted(w))
      <3>1. Minted(w).ref = Owner(w) /\ Minted(w).challenge = Nonce(w)
        BY DEF Minted
      <3>2. \E b \in proofs' : b.ref = Owner(w) /\ b.challenge = Nonce(w)
        BY <2>3, <3>1 DEF PutProof, Stored
      <3> QED
        BY <2>1, <3>2 DEF Stored
    <2> QED
      BY <2>2, <2>3, ReadStep
  <1>6. RecordFinds'
    <2> SUFFICES ASSUME NEW r \in Replica, loop'[r].pc = "complete"
                 PROVE  Stored(r, Head(loop[r].batch))' # {}
      BY DEF RecordFinds
    <2>1. Head(loop'[r].batch) = Head(loop[r].batch)
      BY RecordStep
    <2>2. Stored(r, Head(loop[r].batch)) # {}
      BY RecordStep DEF Archive, RecordFinds
    <2> QED
      BY <1>1, <2>1, <2>2
  <1> QED
    BY <1>1, <1>2, <1>3, <1>4, <1>5, <1>6 DEF Archive

(* The archive's invariant holds of empty tables. *)
LEMMA InitArchive ==
    ASSUME Init
    PROVE  Archive
  <1>1. \A k \in Call : /\ call[k].pc = "idle" /\ call[k].result = "none"
                        /\ call[k].answer = {}
    BY DEF Init
  <1>2. \A w \in Worker : issue[w].pc = "idle"
    BY DEF Init, Idle
  <1>3. \A r \in Replica : loop[r].pc = "off"
    BY DEF Init
  <1>4. proofs = {} /\ requests = {}
    BY DEF Init
  <1> QED
    BY <1>1, <1>2, <1>3, <1>4
       DEF Archive, UniqueProofs, AnswersArchived, CompleteHasProof, ReadFinds,
           RecordFinds, OnlyOkAnswers

(* The archive's invariant holds in every reachable state. *)
THEOREM ArchiveInvariant == Spec => [](TypeOK /\ Coupled /\ Archive)
  <1>1. Init => TypeOK /\ Coupled /\ Archive
    BY InitType, InitArchive
  <1>2. TypeOK /\ Coupled /\ Archive /\ [Next]_vars => (TypeOK /\ Coupled /\ Archive)'
    BY TypeStep, CoupledStep, ArchiveStep
  <1> QED
    BY <1>1, <1>2, PTL DEF Spec

(* Every bundle a client was given is, and stays, the archived one for     *)
(* what it asked (cache.go:129-135).                                       *)
THEOREM ArchivedAnswers == Spec => []AnswersArchived
  <1>1. TypeOK /\ Coupled /\ Archive => AnswersArchived
    BY DEF Archive
  <1> QED
    BY <1>1, ArchiveInvariant, PTL

(* Two clients that asked for the same proof hold the same bundle, whoever *)
(* answered them (Store.Put, cache.go:29-31).                              *)
THEOREM AgreeingAnswers == Spec => []AnswersAgree
  <1>1. TypeOK /\ Coupled /\ Archive => AnswersAgree
    <2> SUFFICES ASSUME UniqueProofs, AnswersArchived, NEW j \in Call, NEW k \in Call,
                        call[j].result = "ok", call[k].result = "ok",
                        call[j].ref = call[k].ref,
                        call[j].challenge = call[k].challenge
                 PROVE  call[j].answer = call[k].answer
      BY DEF Archive, AnswersAgree
    <2> DEFINE stored == Stored(call[k].ref, call[k].challenge)
    <2>1. \A a, b \in stored : a = b
      BY DEF UniqueProofs, Stored
    <2>2. /\ call[j].answer # {} /\ call[j].answer \subseteq stored
          /\ call[k].answer # {} /\ call[k].answer \subseteq stored
      BY DEF AnswersArchived
    <2> QED
      BY <2>1, <2>2
  <1> QED
    BY <1>1, ArchiveInvariant, PTL

(* A row marked complete has its proof in the table, whatever happened to  *)
(* the row in between (PostgresStore.CompleteRequest).                     *)
THEOREM CompletedRequests == Spec => []CompleteHasProof
  <1>1. TypeOK /\ Coupled /\ Archive => CompleteHasProof
    BY DEF Archive
  <1> QED
    BY <1>1, ArchiveInvariant, PTL

-----------------------------------------------------------------------------
(* The router implements the ledger. *)

(* A step that stores a bundle gives none to a client; any other gives one *)
(* to one client at most.                                                  *)
LEMMA AnswersStep ==
    ASSUME TypeOK, Coupled, Archive, [Next]_vars
    PROVE  \/ \A k \in Call : call'[k].answer = call[k].answer
           \/ /\ UNCHANGED proofs
              /\ \E k \in Call :
                    /\ call[k].answer = {} /\ call'[k].answer # {}
                    /\ call'[k].answer = Stored(call[k].ref, call[k].challenge)
                    /\ \A j \in Call : j # k => call'[j].answer = call[j].answer
  <1> DEFINE Silent == \A k \in Call : call'[k].answer = call[k].answer
             One(k) == \A j \in Call : j # k => call'[j].answer = call[j].answer
  <1>1. \A k \in Call : call[k].pc # "done" => call[k].answer = {}
    BY DEF Archive, OnlyOkAnswers
  <1>2. ASSUME NEW k \in Call, One(k), UNCHANGED proofs
        PROVE  \/ Silent
               \/ /\ call[k].answer = {} /\ call'[k].answer # {}
                  /\ call'[k].answer = Stored(call[k].ref, call[k].challenge)
    BY <1>1, <1>2, CallStep DEF Keeps, Gives
  <1>3. ASSUME NEW w \in Worker, NEW bundles, issue[w].pc # "idle",
               IssueReturns(w, bundles)
        PROVE  (Silent /\ w \notin Call) \/ (w \in Call /\ One(w))
    BY <1>3, IssueReturnsValue DEF Worker
  <1>4. CASE \E w \in Worker : IssueStep(w)
    <2>1. PICK w \in Worker : IssueStep(w)
      BY <1>4
    <2>2. CASE IssueMint(w) \/ IssuePut(w)
      BY <2>2 DEF IssueMint, IssuePut, tables
    <2>3. CASE IssueFind(w) \/ IssueRead(w)
      <3>1. UNCHANGED proofs
        BY <2>3 DEF IssueFind, IssueRead, tables
      <3>2. \/ UNCHANGED call
            \/ IssueReturns(w, Stored(Owner(w), Nonce(w))) /\ issue[w].pc # "idle"
        BY <2>3 DEF IssueFind, IssueRead
      <3>3. CASE UNCHANGED call
        BY <3>3
      <3>4. CASE IssueReturns(w, Stored(Owner(w), Nonce(w))) /\ issue[w].pc # "idle"
        <4>1. CASE w \in Call /\ One(w)
          BY <1>2, <3>1, <4>1, Zenon
        <4> QED
          BY <1>3, <3>4, <4>1
      <3> QED
        BY <3>2, <3>3, <3>4
    <2>4. CASE IssueFails(w)
      <3>1. IssueReturns(w, {}) /\ issue[w].pc # "idle"
        BY <2>4 DEF IssueFails
      <3>2. w \in Call => call'[w].answer = call[w].answer
        <4>1. w \in Call => call[w].pc = "issue"
          BY <3>1, Zenon DEF Coupled
        <4>2. w \in Call => call[w].answer = {}
          BY <1>1, <4>1
        <4>3. w \in Call => call'[w].answer = {}
          BY <3>1, IssueReturnsValue, Zenon
        <4> QED
          BY <4>2, <4>3, Zenon
      <3>3. (Silent /\ w \notin Call) \/ (w \in Call /\ One(w))
        <4> HIDE DEF Silent, One
        <4> QED
          BY <1>3, <3>1, Zenon
      <3>4. Silent
        BY <3>2, <3>3
      <3> QED
        BY <3>4, Zenon
    <2>5. IssueMint(w) \/ IssuePut(w) \/ IssueFind(w) \/ IssueRead(w) \/ IssueFails(w)
      BY <2>1, Zenon DEF IssueStep
    <2> HIDE DEF Silent
    <2> QED
      BY <2>2, <2>3, <2>4, <2>5, Zenon
  <1>5. CASE \E k \in Call : ResolveStep(k)
    <2>1. PICK k \in Call : ResolveStep(k)
      BY <1>5
    <2>2. UNCHANGED proofs
      BY <2>1 DEF ResolveStep, FindProof, FindReplica, Enqueue, CheckProof,
                  CheckRequest, TimesOut, ResolveFails, ResolveFind, tables
    <2>3. One(k)
      BY <2>1, ResolveFrame
    <2> QED
      BY <1>2, <2>2, <2>3
  <1>6. CASE \E k \in Call : Arrives(k)
    BY <1>6 DEF Arrives, Step, TypeOK, CallState
  <1>7. ASSUME NEW r \in Replica, Ends(r) PROVE Silent
    <2>1. ASSUME NEW k \in Call PROVE call'[k].answer = call[k].answer
      <3>1. CASE call[k].at = r /\ Active(k)
        <4>1. call'[k] = Finished(k, "lost", {})[k]
          BY <1>7, <3>1 DEF Ends
        <4>2. Finished(k, "lost", {})[k].answer = {}
          BY FinishedValue
        <4>3. call[k].answer = {}
          BY <1>1, <3>1 DEF Active
        <4> QED
          BY <4>1, <4>2, <4>3
      <3>2. CASE ~(call[k].at = r /\ Active(k))
        BY <1>7, <3>2 DEF Ends
      <3> QED
        BY <3>1, <3>2
    <2> QED
      BY <2>1
  <1>8. CASE \E r \in Replica : Start(r) \/ StartFails(r) \/ LoopStep(r)
                                \/ Signal(r) \/ MainStep(r) \/ Crash(r)
    BY <1>7, <1>8
       DEF Start, StartFails, LoopStep, HeartbeatTick, PollTick, Heartbeat, Cleanup,
           Record, RunStops, RunDrains, Signal, MainStep, MainDrains,
           ShutdownReturns, Crash
  <1>9. CASE Tick \/ UNCHANGED vars
    BY <1>9 DEF Tick, vars
  <1> QED
    BY <1>4, <1>5, <1>6, <1>8, <1>9 DEF Next, TimeIsUp

(* The initial states are those of the ledger. *)
LEMMA LedgerInit ==
    ASSUME Init
    PROVE  Ledger!Init
  <1>a. TypeOK
    BY InitType
  <1>1. proofs = {} /\ \A k \in Call : call[k].answer = {}
    BY DEF Init
  <1>2. \A k \in Call : <<call[k].ref, call[k].challenge>> \in Replica \X Challenge
    BY <1>a DEF TypeOK, CallState
  <1> QED
    BY <1>1, <1>2 DEF Ledger!Init

(* A step that stores a bundle is Issue, one that gives it to a client is  *)
(* Answer, and every other step is a stutter.                              *)
LEMMA LedgerStep ==
    ASSUME TypeOK, Coupled, Archive, [Next]_vars
    PROVE  [Ledger!Next]_Ledger!vars
  <1> DEFINE asked == [k \in Call |-> <<call[k].ref, call[k].challenge>>]
             given == [k \in Call |-> call[k].answer]
             Silent == \A k \in Call : call'[k].answer = call[k].answer
  <1>1. asked' = asked
    BY CallStep DEF SameAsk
  <1>2. Silent => given' = given
    OBVIOUS
  <1>3. CASE Silent /\ UNCHANGED proofs
    BY <1>1, <1>2, <1>3 DEF Ledger!vars
  <1>4. ASSUME NEW b \in Bundle, Stored(b.ref, b.challenge) = {},
               proofs' = proofs \cup {b}, Silent
        PROVE  Ledger!Issue
    <2>1. \A other \in proofs : KeyOf(other) # KeyOf(b)
      BY <1>4 DEF Stored, KeyOf
    <2>2. b \in proofs'
      BY <1>4
    <2> QED
      BY <1>1, <1>2, <1>4, <2>1, <2>2 DEF Ledger!Issue
  <1>5. ASSUME NEW k \in Call, UNCHANGED proofs,
               call[k].answer = {}, call'[k].answer # {},
               call'[k].answer = Stored(call[k].ref, call[k].challenge),
               \A j \in Call : j # k => call'[j].answer = call[j].answer
        PROVE  Ledger!Answer(k)
    <2>1. PICK b \in proofs : /\ b.ref = call[k].ref
                              /\ b.challenge = call[k].challenge
      BY <1>5 DEF Stored
    <2>2. Stored(call[k].ref, call[k].challenge) = {b}
      BY <2>1 DEF Stored, Archive, UniqueProofs
    <2>3. KeyOf(b) = asked[k]
      BY <2>1 DEF KeyOf
    <2>4. given' = [given EXCEPT ![k] = {b}]
      BY <1>5, <2>2
    <2>5. given[k] = {}
      BY <1>5
    <2> QED
      BY <1>1, <1>5, <2>1, <2>3, <2>4, <2>5 DEF Ledger!Answer
  <1> QED
    BY <1>3, <1>4, <1>5, ProofsStep, AnswersStep DEF Ledger!Next

(* The router implements the ledger: at most one bundle per proof_ref and  *)
(* nonce is ever issued, it stays the one, and clients are only ever given *)
(* that one (cache.go:29-31).                                              *)
THEOREM RouterImplementsLedger == Spec => ImplementsLedger
  <1>1. Init => Ledger!Init
    BY LedgerInit
  <1>2. TypeOK /\ Coupled /\ Archive /\ [Next]_vars => [Ledger!Next]_Ledger!vars
    BY LedgerStep
  <1> QED
    BY <1>1, <1>2, ArchiveInvariant, PTL DEF Spec, ImplementsLedger, Ledger!Spec

-----------------------------------------------------------------------------
(* A process and its row.                                                  *)

(* The last moment of a process so far.                                    *)
LastSeen(r) == IF main[r].pc = "gone" THEN main[r].goneAt ELSE clock

(* The loop runs as long as the process serves, and not once it is gone;   *)
(* the row is never younger than the process, and a loop that ended has    *)
(* marked it, unless a statement failed.                                   *)
RowTrue(r) ==
    /\ main[r].pc = "gone" => loop[r].pc = "off"
    /\ main[r].pc = "serve" => loop[r].pc \notin {"off", "drain"}
    /\ loop[r].pc = "heartbeat" => loop[r].stamp <= clock + Skew[r]
    /\ main[r].pc \in {"drain", "shutdown"} /\ loop[r].pc = "off" /\ faults = 0
          => \A row \in replicas : row.ref = r => row.draining
    /\ \A row \in replicas : row.ref = r => row.lastHeartbeat <= LastSeen(r) + Skew[r]

(* No step takes back a failure.                                           *)
LEMMA FaultsGrow ==
    ASSUME TypeOK, [Next]_vars
    PROVE  faults' = 0 => faults = 0
  <1> USE DEF TypeOK, tables
  <1>0. UNCHANGED faults \/ Fault => (faults' = 0 => faults = 0)
    BY DEF Fault
  <1>1. CASE \E r \in Replica : Start(r) \/ StartFails(r) \/ LoopStep(r)
                                \/ Signal(r) \/ MainStep(r) \/ Crash(r)
    <2>1. PICK r \in Replica : Start(r) \/ StartFails(r) \/ LoopStep(r)
                               \/ Signal(r) \/ MainStep(r) \/ Crash(r)
      BY <1>1
    <2>2. CASE LoopStep(r)
      <3>1. UNCHANGED faults \/ Succeeds(r) \/ Fails(r) \/ Fault
        BY <2>2, Zenon DEF LoopStep, HeartbeatTick, PollTick, Heartbeat, Cleanup, Record,
                           RunStops, RunDrains
      <3> QED
        BY <1>0, <3>1 DEF Succeeds, Fails
    <2>3. CASE MainDrains(r)
      <3>1. UNCHANGED faults \/ Fault
        BY <2>3, Zenon DEF MainDrains
      <3> QED
        BY <1>0, <3>1
    <2> QED
      BY <1>0, <2>1, <2>2, <2>3 DEF Start, StartFails, Signal, MainStep, ShutdownReturns, Crash
  <1>2. CASE \E k \in Call : Arrives(k) \/ ResolveStep(k)
    BY <1>0, <1>2 DEF Arrives, ResolveStep, FindProof, FindReplica, Enqueue, CheckProof,
                CheckRequest, TimesOut, ResolveFails, ResolveFind, Succeeds, Fails
  <1>3. CASE \E w \in Worker : IssueStep(w)
    BY <1>0, <1>3 DEF Succeeds, Fails, IssueStep, IssueFind, IssueMint, IssuePut, IssueRead, IssueFails
  <1>4. CASE Tick \/ UNCHANGED vars
    BY <1>4 DEF Tick, vars
  <1> QED
    BY <1>1, <1>2, <1>3, <1>4 DEF Next, TimeIsUp

(* A step that concerns neither the process nor its row.                   *)
LEMMA OthersStay ==
    ASSUME NEW s \in Replica, RowTrue(s),
           main'[s] = main[s], clock' = clock, faults' = 0 => faults = 0,
           loop'[s].pc = loop[s].pc, loop'[s].stamp = loop[s].stamp,
           \A row \in replicas' : row.ref = s => row \in replicas
    PROVE  RowTrue(s)'
  BY DEF RowTrue, LastSeen

(* The statements on one replica's row leave the others' alone.            *)
LEMMA OtherRows ==
    ASSUME TypeOK, NEW r \in Replica, NEW now,
           \/ replicas' = replicas
           \/ replicas' = RegisterReplica(r)
           \/ replicas' = HeartbeatReplica(r, now)
           \/ replicas' = SetReplicaDraining(r)
    PROVE  \A row \in replicas' : row.ref # r => row \in replicas
  <1>1. CASE replicas' = RegisterReplica(r)
    BY <1>1 DEF RegisterReplica
  <1>2. CASE replicas' = HeartbeatReplica(r, now)
    <2> SUFFICES ASSUME NEW row \in replicas', row.ref # r PROVE row \in replicas
      OBVIOUS
    <2>1. PICK old \in replicas :
             row = IF old.ref = r THEN [old EXCEPT !.lastHeartbeat = now, !.draining = FALSE]
                                  ELSE old
      BY <1>2 DEF HeartbeatReplica
    <2>2. old.ref # r
      BY <2>1 DEF TypeOK, ReplicaRow
    <2> QED
      BY <2>1, <2>2
  <1>3. CASE replicas' = SetReplicaDraining(r)
    <2> SUFFICES ASSUME NEW row \in replicas', row.ref # r PROVE row \in replicas
      OBVIOUS
    <2>1. PICK old \in replicas :
             row = IF old.ref = r THEN [old EXCEPT !.draining = TRUE] ELSE old
      BY <1>3 DEF SetReplicaDraining
    <2>2. old.ref # r
      BY <2>1 DEF TypeOK, ReplicaRow
    <2> QED
      BY <2>1, <2>2
  <1> QED
    BY <1>1, <1>2, <1>3

(* What they do to its own.                                                *)
LEMMA OwnRow ==
    ASSUME TypeOK, NEW r \in Replica, NEW now
    PROVE  /\ \A row \in HeartbeatReplica(r, now) :
                 row.ref = r => row.lastHeartbeat = now /\ ~row.draining
           /\ \A row \in SetReplicaDraining(r) : row.ref = r =>
                 /\ row.draining
                 /\ \E old \in replicas : old.ref = r /\ old.lastHeartbeat = row.lastHeartbeat
  <1>1. ASSUME NEW row \in HeartbeatReplica(r, now), row.ref = r
        PROVE  row.lastHeartbeat = now /\ ~row.draining
    <2>1. PICK old \in replicas :
             row = IF old.ref = r THEN [old EXCEPT !.lastHeartbeat = now, !.draining = FALSE]
                                  ELSE old
      BY DEF HeartbeatReplica
    <2> QED
      BY <1>1, <2>1 DEF TypeOK, ReplicaRow
  <1>2. ASSUME NEW row \in SetReplicaDraining(r), row.ref = r
        PROVE  /\ row.draining
               /\ \E old \in replicas : old.ref = r /\ old.lastHeartbeat = row.lastHeartbeat
    <2>1. PICK old \in replicas :
             row = IF old.ref = r THEN [old EXCEPT !.draining = TRUE] ELSE old
      BY DEF SetReplicaDraining
    <2>2. old.ref = r
      BY <1>2, <2>1
    <2>3. row.draining = TRUE /\ row.lastHeartbeat = old.lastHeartbeat
      BY <2>1, <2>2 DEF TypeOK, ReplicaRow
    <2> QED
      BY <2>2, <2>3
  <1> QED
    BY <1>1, <1>2

(* The steps of the loop.                                                  *)
LEMMA LoopRow ==
    ASSUME TypeOK, Coupled, NEW r \in Replica, NEW s \in Replica, RowTrue(s),
           LoopStep(r), faults' = 0 => faults = 0
    PROVE  RowTrue(s)'
  <1> USE DEF tables
  <1>1. /\ UNCHANGED <<clock, main>>
        /\ \A q \in Replica : q # r => loop'[q] = loop[q]
    BY DEF LoopStep, HeartbeatTick, PollTick, Heartbeat, Cleanup, Record, RunStops,
           RunDrains, WorkOn, TypeOK
  <1>2. \A row \in replicas' : row.ref # r => row \in replicas
    BY OtherRows DEF LoopStep, HeartbeatTick, PollTick, Heartbeat, Cleanup, Record,
                     RunStops, RunDrains
  <1>3. CASE s # r
    BY <1>1, <1>2, <1>3, OthersStay
  <1>4. SUFFICES ASSUME s = r PROVE RowTrue(r)'
    BY <1>3
  <1>5. loop[r].pc # "off"
    BY DEF LoopStep, HeartbeatTick, PollTick, Heartbeat, Cleanup, Record, RunStops, RunDrains
  <1>6. main[r].pc # "gone" /\ clock \in Nat /\ Skew[r] \in Int /\ LastSeen(r) = clock
    BY <1>4, <1>5, ConstantTypes DEF RowTrue, TypeOK, LastSeen
  <1>7. main'[r] = main[r] /\ LastSeen(r)' = clock
    BY <1>1, <1>6 DEF LastSeen
  <1>8. ASSUME UNCHANGED replicas, loop'[r].pc # "off",
               main[r].pc = "serve" => loop'[r].pc # "drain",
               loop'[r].pc = "heartbeat" => loop'[r].stamp <= clock + Skew[r]
        PROVE  RowTrue(r)'
    BY <1>1, <1>4, <1>6, <1>7, <1>8 DEF RowTrue
  <1>9. CASE HeartbeatTick(r)
    <2>1. loop[r].hbDue \in Int /\ clock >= loop[r].hbDue /\ UNCHANGED replicas
      BY <1>9 DEF HeartbeatTick, TypeOK, LoopState
    <2>2. /\ loop'[r].pc \in {"heartbeat", "select"}
          /\ loop'[r].pc = "heartbeat" => loop'[r].stamp = loop[r].hbDue + Skew[r]
      BY <1>9 DEF HeartbeatTick, TypeOK, LoopState, Ready
    <2>3. loop'[r].pc = "heartbeat" => loop'[r].stamp <= clock + Skew[r]
      BY <1>6, <2>1, <2>2
    <2> QED
      BY <1>8, <2>1, <2>2, <2>3
  <1>10. CASE PollTick(r) \/ Record(r)
    <2>1. UNCHANGED replicas
      BY <1>10, Zenon DEF PollTick, Record
    <2>2. \E batch, due : WorkOn(r, batch, due)
      BY <1>10, Zenon DEF PollTick, Record
    <2>3. loop'[r].pc \in {"issue", "select"}
      BY <2>2 DEF WorkOn, TypeOK
    <2> QED
      BY <1>8, <2>1, <2>3
  <1>11. CASE Cleanup(r) \/ RunStops(r)
    <2>1. UNCHANGED replicas
      BY <1>11, Zenon DEF Cleanup, RunStops, tables
    <2>2. CASE Cleanup(r)
      <3>1. loop' = [loop EXCEPT ![r].pc = "select", ![r].stamp = 0]
        BY <2>2, Zenon DEF Cleanup
      <3>2. loop'[r].pc = "select"
        BY <3>1 DEF TypeOK, LoopState
      <3> QED
        BY <1>8, <2>1, <3>2
    <2>3. CASE RunStops(r)
      <3>1. loop'[r].pc = "drain" /\ main[r].pc # "serve"
        BY <2>3 DEF RunStops, TypeOK, LoopState, Stopping
      <3> QED
        BY <1>8, <2>1, <3>1
    <2> QED
      BY <1>11, <2>2, <2>3
  <1>12. CASE Heartbeat(r)
    <2>1. loop'[r].pc \in {"cleanup", "select"}
      BY <1>12 DEF Heartbeat, Ready, TypeOK
    <2>2. replicas' = replicas \/ replicas' = HeartbeatReplica(r, loop[r].stamp)
      BY <1>12 DEF Heartbeat
    <2>3. loop[r].stamp <= clock + Skew[r]
      BY <1>4, <1>12 DEF Heartbeat, RowTrue
    <2>4. \A row \in replicas' : row.ref = r => row.lastHeartbeat <= clock + Skew[r]
      BY <1>4, <1>6, <2>2, <2>3, OwnRow DEF RowTrue
    <2> QED
      BY <1>1, <1>6, <1>7, <2>1, <2>4 DEF RowTrue
  <1>13. CASE RunDrains(r)
    <2>1. loop'[r].pc = "off"
      BY <1>13 DEF RunDrains, TypeOK
    <2>2. /\ replicas' = replicas \/ replicas' = SetReplicaDraining(r)
          /\ faults' = 0 => replicas' = SetReplicaDraining(r)
      BY <1>13 DEF RunDrains, Fault, TypeOK
    <2>3. faults' = 0 => \A row \in replicas' : row.ref = r => row.draining
      BY <2>2, OwnRow
    <2>4. \A row \in replicas' : row.ref = r => row.lastHeartbeat <= clock + Skew[r]
      <3>1. \A row \in replicas : row.ref = r => row.lastHeartbeat <= clock + Skew[r]
        BY <1>4, <1>6 DEF RowTrue
      <3>2. CASE replicas' = SetReplicaDraining(r)
        BY <3>1, <3>2, OwnRow
      <3> QED
        BY <2>2, <3>1, <3>2
    <2>5. main[r].pc # "serve"
      BY <1>4, <1>13 DEF RunDrains, RowTrue
    <2> QED
      BY <1>1, <1>6, <1>7, <2>1, <2>3, <2>4, <2>5 DEF RowTrue
  <1> QED
    BY <1>9, <1>10, <1>12, <1>13, <1>11 DEF LoopStep

(* The steps of main.                                                      *)
LEMMA MainRow ==
    ASSUME TypeOK, Coupled, NEW r \in Replica, NEW s \in Replica, RowTrue(s),
           Start(r) \/ StartFails(r) \/ Signal(r) \/ MainStep(r) \/ Crash(r),
           faults' = 0 => faults = 0
    PROVE  RowTrue(s)'
  <1> USE DEF tables
  <1>1. /\ clock' = clock
        /\ \A q \in Replica : q # r => main'[q] = main[q] /\ loop'[q] = loop[q]
    BY DEF Start, StartFails, Signal, MainStep, MainDrains, ShutdownReturns, Crash,
           Ends, TypeOK
  <1>2. \A row \in replicas' : row.ref # r => row \in replicas
    BY OtherRows DEF Start, StartFails, Signal, MainStep, MainDrains, ShutdownReturns, Crash
  <1>3. CASE s # r
    BY <1>1, <1>2, <1>3, OthersStay
  <1>4. SUFFICES ASSUME s = r PROVE RowTrue(r)'
    BY <1>3
  <1>5. clock \in Nat /\ Skew[r] \in Int /\ LocalTime(r) = clock + Skew[r]
    BY ConstantTypes DEF TypeOK, LocalTime
  <1>6. CASE Start(r)
    <2>1. main'[r].pc = "serve" /\ loop'[r].pc = "select" /\ replicas' = RegisterReplica(r)
      BY <1>6 DEF Start, TypeOK, MainState, LoopState
    <2>2. LastSeen(r)' = clock
      BY <1>1, <2>1 DEF LastSeen
    <2>3. \A row \in replicas' : row.ref = r => row.lastHeartbeat <= clock + Skew[r]
      BY <1>5, <2>1 DEF RegisterReplica
    <2> QED
      BY <2>1, <2>2, <2>3 DEF RowTrue
  <1>7. CASE StartFails(r)
    <2>1. /\ main'[r].pc = "gone" /\ main'[r].goneAt = clock
          /\ loop'[r].pc = "off" /\ main[r].pc = "new"
      BY <1>7 DEF StartFails, TypeOK, MainState, Coupled
    <2>2. LastSeen(r)' = clock /\ LastSeen(r) = clock
      BY <1>1, <2>1 DEF LastSeen
    <2>3. replicas' = replicas \/ replicas' = RegisterReplica(r)
      BY <1>7 DEF StartFails
    <2>4. \A row \in replicas' : row.ref = r => row.lastHeartbeat <= clock + Skew[r]
      <3>1. \A row \in replicas : row.ref = r => row.lastHeartbeat <= clock + Skew[r]
        BY <1>4, <2>2 DEF RowTrue
      <3>2. \A row \in RegisterReplica(r) : row.ref = r => row.lastHeartbeat <= clock + Skew[r]
        BY <1>5 DEF RegisterReplica
      <3> QED
        BY <2>3, <3>1, <3>2
    <2> QED
      BY <2>1, <2>2, <2>4 DEF RowTrue
  <1>8. CASE Signal(r)
    <2>1. /\ main[r].pc = "serve" /\ main'[r].pc = "drain"
          /\ UNCHANGED <<loop, replicas>>
      BY <1>8 DEF Signal, Serving, TypeOK, MainState
    <2>2. LastSeen(r)' = LastSeen(r)
      BY <1>1, <2>1 DEF LastSeen
    <2> QED
      BY <1>1, <1>4, <2>1, <2>2 DEF RowTrue
  <1>9. CASE MainDrains(r)
    <2>1. /\ main[r].pc = "drain" /\ main'[r].pc = "shutdown" /\ UNCHANGED loop
          /\ replicas' = replicas \/ replicas' = SetReplicaDraining(r)
      BY <1>9 DEF MainDrains, TypeOK, MainState
    <2>2. LastSeen(r)' = clock /\ LastSeen(r) = clock
      BY <1>1, <2>1 DEF LastSeen
    <2>3. \A row \in replicas : row.ref = r => row.lastHeartbeat <= clock + Skew[r]
      BY <1>4, <2>2 DEF RowTrue
    <2>4. CASE replicas' = SetReplicaDraining(r)
      <3>1. \A row \in replicas' : row.ref = r =>
               row.draining /\ row.lastHeartbeat <= clock + Skew[r]
        BY <2>3, <2>4, OwnRow
      <3> QED
        BY <1>1, <1>4, <2>1, <2>2, <3>1 DEF RowTrue
    <2>5. CASE replicas' = replicas
      BY <1>1, <1>4, <2>1, <2>2, <2>5 DEF RowTrue
    <2> QED
      BY <2>1, <2>4, <2>5
  <1>10. CASE ShutdownReturns(r) \/ Crash(r)
    <2>1. Ends(r) /\ UNCHANGED replicas /\ main[r].pc \in {"serve", "drain", "shutdown"}
      BY <1>10 DEF ShutdownReturns, Crash, Alive, Serving, Stopping
    <2>2. main'[r].pc = "gone" /\ main'[r].goneAt = clock /\ loop'[r].pc = "off"
      BY <2>1 DEF Ends, TypeOK, MainState, LoopState
    <2>3. LastSeen(r)' = clock /\ LastSeen(r) = clock
      BY <1>1, <2>1, <2>2 DEF LastSeen
    <2> QED
      BY <1>4, <2>1, <2>2, <2>3 DEF RowTrue
  <1> QED
    BY <1>6, <1>7, <1>8, <1>9, <1>10 DEF MainStep

(* A step of anybody else, or of time.                                     *)
LEMMA RowStep ==
    ASSUME TypeOK, Coupled, NEW s \in Replica, RowTrue(s), [Next]_vars
    PROVE  RowTrue(s)'
  <1>1. faults' = 0 => faults = 0
    BY FaultsGrow
  <1>2. CASE \E r \in Replica : Start(r) \/ StartFails(r) \/ LoopStep(r)
                                \/ Signal(r) \/ MainStep(r) \/ Crash(r)
    BY <1>1, <1>2, LoopRow, MainRow
  <1>3. CASE \E k \in Call : Arrives(k) \/ ResolveStep(k)
    <2>1. UNCHANGED <<clock, replicas, main, loop>>
      BY <1>3 DEF Arrives, ResolveStep, FindProof, FindReplica, Enqueue, CheckProof,
                  CheckRequest, TimesOut, ResolveFails, ResolveFind, tables
    <2> QED
      BY <1>1, <2>1, OthersStay
  <1>4. CASE \E w \in Worker : IssueStep(w)
    <2>1. PICK w \in Worker : IssueStep(w)
      BY <1>4
    <2>2. UNCHANGED <<clock, replicas, main>>
      BY <2>1 DEF IssueStep, IssueFind, IssueMint, IssuePut, IssueRead, IssueFails, tables
    <2>3. CASE loop'[s] = loop[s]
      BY <1>1, <2>2, <2>3, OthersStay
    <2>4. CASE loop'[s] # loop[s]
      <3>1. PICK bundles : IssueReturns(w, bundles)
        BY <2>1, <2>4 DEF IssueStep, IssueFind, IssueMint, IssuePut, IssueRead, IssueFails
      <3>2. issue[w].pc # "idle"
        BY <2>1 DEF IssueStep, IssueFind, IssueMint, IssuePut, IssueRead, IssueFails
      <3>3. w = s
        BY <2>4, <3>1, <3>2, IssueReturnsValue DEF Worker
      <3>4. loop[s].pc = "issue"
        BY <3>2, <3>3 DEF Coupled
      <3>5. loop'[s].pc \in {"select", "fail", "complete"}
        <4>1. loop' = [loop EXCEPT
                         ![s].pc = IF Cancelled(s) THEN "select"
                                   ELSE IF bundles = {} THEN "fail" ELSE "complete",
                         ![s].batch = IF Cancelled(s) THEN <<>> ELSE @]
          BY <2>4, <3>1, <3>3 DEF IssueReturns
        <4> QED
          BY <4>1 DEF TypeOK, LoopState
      <3>6. main[s].pc # "gone"
        BY <3>4 DEF RowTrue
      <3> QED
        BY <1>1, <2>2, <3>4, <3>5, <3>6 DEF RowTrue, LastSeen
    <2> QED
      BY <2>3, <2>4
  <1>5. CASE Tick
    <2>1. /\ clock' = clock + 1 /\ clock \in Nat /\ Skew[s] \in Int
          /\ main[s].goneAt \in Nat
          /\ UNCHANGED <<replicas, main, loop, faults>>
      BY <1>5, ConstantTypes DEF Tick, tables, TypeOK, MainState
    <2>2. LastSeen(s)' >= LastSeen(s) /\ LastSeen(s) \in Nat /\ LastSeen(s)' \in Nat
      BY <2>1 DEF LastSeen
    <2>3. \A row \in replicas : row.lastHeartbeat \in Int
      BY DEF TypeOK, ReplicaRow
    <2>4. loop[s].stamp \in Int
      BY DEF TypeOK, LoopState
    <2> QED
      BY <2>1, <2>2, <2>3, <2>4 DEF RowTrue
  <1>6. CASE UNCHANGED vars
    BY <1>1, <1>6, OthersStay DEF vars
  <1> QED
    BY <1>2, <1>3, <1>4, <1>5, <1>6 DEF Next, TimeIsUp

(* A loop that ended before the process, without a failed statement, has   *)
(* left its row draining.                                                  *)
THEOREM DrainStays == Spec => []DrainSurvivesHeartbeat
  <1> DEFINE RowsTrue == \A s \in Replica : RowTrue(s)
  <1>1. Init => RowsTrue
    BY DEF Init, RowTrue
  <1>2. TypeOK /\ Coupled /\ RowsTrue /\ [Next]_vars => RowsTrue'
    BY RowStep
  <1>3. RowsTrue => DrainSurvivesHeartbeat
    BY DEF RowTrue, DrainSurvivesHeartbeat
  <1>4. Spec => [](TypeOK /\ Coupled)
    BY ArchiveInvariant, PTL
  <1> QED
    BY <1>1, <1>2, <1>3, <1>4, PTL DEF Spec

-----------------------------------------------------------------------------
(* A request and the process it is for.                                    *)

(* A process that is gone stays gone, and time does not run backwards.     *)
LEMMA SeenGrows ==
    ASSUME TypeOK, Coupled, [Next]_vars, NEW s \in Replica
    PROVE  /\ LastSeen(s) \in Nat /\ LastSeen(s)' \in Nat
           /\ LastSeen(s)' >= LastSeen(s)
  <1>1. clock' \in {clock, clock + 1} /\ clock \in Nat /\ main[s].goneAt \in Nat
    <2>1. clock' = clock \/ Tick
      BY ZenonT(90) DEF Next, vars, TimeIsUp, Start, StartFails, LoopStep, HeartbeatTick, PollTick,
             Heartbeat, Cleanup, Record, RunStops, RunDrains, Signal, MainStep, MainDrains,
             ShutdownReturns, Crash, Arrives, ResolveStep, FindProof, FindReplica, Enqueue,
             CheckProof, CheckRequest, TimesOut, ResolveFails, ResolveFind, IssueStep,
             IssueFind, IssueMint, IssuePut, IssueRead, IssueFails
    <2> QED
      BY <2>1 DEF Tick, TypeOK, MainState
  <1>2. \/ main'[s] = main[s]
        \/ /\ main[s].pc # "gone"
           /\ main'[s].pc = "gone" => main'[s].goneAt = clock
    <2>1. CASE \E r \in Replica : Start(r) \/ StartFails(r) \/ Signal(r) \/ MainStep(r)
                                  \/ Crash(r)
      <3>1. PICK r \in Replica : Start(r) \/ StartFails(r) \/ Signal(r) \/ MainStep(r)
                                 \/ Crash(r)
        BY <2>1
      <3>2. main[r].pc # "gone"
        BY <3>1 DEF Start, StartFails, Signal, MainStep, MainDrains, ShutdownReturns, Crash,
                    Serving, Alive, Stopping
      <3>3. \/ main' = [main EXCEPT ![r].pc = "gone", ![r].goneAt = clock]
            \/ main' = [main EXCEPT ![r].pc = "serve"]
            \/ main' = [main EXCEPT ![r].pc = "drain", ![r].stopBy = clock + ShutdownTimeout]
            \/ main' = [main EXCEPT ![r].pc = "shutdown"]
        BY <3>1 DEF Start, StartFails, Signal, MainStep, MainDrains, ShutdownReturns, Crash,
                    Ends
      <3> QED
        BY <3>2, <3>3 DEF TypeOK, MainState
    <2>2. CASE UNCHANGED main
      BY <2>2
    <2>3. \/ UNCHANGED main
          \/ \E r \in Replica : Start(r) \/ StartFails(r) \/ Signal(r) \/ MainStep(r) \/ Crash(r)
      BY ZenonT(90)
      DEF Next, vars, TimeIsUp, Tick, LoopStep, HeartbeatTick, PollTick,
          Heartbeat, Cleanup, Record, RunStops, RunDrains, Arrives, ResolveStep, FindProof,
          FindReplica, Enqueue, CheckProof, CheckRequest, TimesOut, ResolveFails,
          ResolveFind, IssueStep, IssueFind, IssueMint, IssuePut, IssueRead, IssueFails
    <2> QED
      BY <2>1, <2>2, <2>3, Zenon
  <1> QED
    BY <1>1, <1>2 DEF LastSeen

(* A request is about to be enqueued only once FindReplica found a row     *)
(* that was young enough.                                                  *)
LEMMA EnqueueFrame ==
    ASSUME TypeOK, Coupled, [Next]_vars, NEW k \in Call, call'[k].pc = "enqueue"
    PROVE  \/ call[k].pc = "enqueue" /\ call'[k].stamp = call[k].stamp
           \/ /\ call'[k].stamp = LocalTime(call[k].at)
              /\ \E row \in replicas :
                    /\ row.ref = call[k].ref
                    /\ ~(LocalTime(call[k].at) - row.lastHeartbeat > StaleAfter)
  <1>1. CASE call'[k] = call[k]
    BY <1>1
  <1>2. CASE \E j \in Call : ResolveStep(j)
    <2>1. PICK j \in Call : ResolveStep(j)
      BY <1>2
    <2>2. CASE j # k
      BY <1>1, <2>1, <2>2, ResolveFrame
    <2>3. CASE FindReplica(k)
      <3> DEFINE rows == {row \in replicas : row.ref = call[k].ref}
                 now == LocalTime(call[k].at)
      <3>1. \A result : call' # Finished(k, result, {})
        BY FinishedValue
      <3>2. /\ rows # {} /\ \A row \in rows : ~(now - row.lastHeartbeat > StaleAfter)
            /\ call' = [call EXCEPT ![k].pc = "enqueue", ![k].stamp = now]
        BY <2>3, <3>1 DEF FindReplica
      <3> HIDE DEF now
      <3>3. call'[k].stamp = now
        BY <3>2 DEF TypeOK, CallState
      <3> QED
        BY <3>2, <3>3 DEF now
    <2>4. CASE j = k /\ ~FindReplica(k)
      <3>1. \A result, answer : call' # Finished(k, result, answer)
        BY FinishedValue
      <3>2. ASSUME NEW miss \in {"replica", "queued"}, NEW tick, ResolveFind(k, miss, tick)
            PROVE  FALSE
        <4>1. call' = [call EXCEPT ![k].pc = miss, ![k].tick = tick]
          BY <3>1, <3>2 DEF ResolveFind
        <4>2. call'[k].pc = miss
          BY <4>1, ZenonT(90) DEF TypeOK, CallState
        <4> QED
          BY <3>2, <4>2
      <3>3. ~FindProof(k)
        BY <3>2 DEF FindProof
      <3>4. ~CheckProof(k)
        BY <3>2 DEF CheckProof
      <3>5. ~Enqueue(k)
        <4> SUFFICES ASSUME Enqueue(k) PROVE call'[k].pc = "check"
          OBVIOUS
        <4> QED
          BY ZenonT(90) DEF Enqueue, TypeOK, CallState
      <3>6. ~CheckRequest(k)
        <4> SUFFICES ASSUME CheckRequest(k) PROVE call'[k].pc = "wait"
          OBVIOUS
        <4>1. call' = [call EXCEPT ![k].pc = "wait"]
          BY <3>1 DEF CheckRequest
        <4> QED
          BY <4>1, ZenonT(90) DEF TypeOK, CallState
      <3>7. ~TimesOut(k) /\ ~ResolveFails(k)
        BY <3>1 DEF TimesOut, ResolveFails
      <3> QED
        BY <2>1, <2>4, <3>3, <3>4, <3>5, <3>6, <3>7 DEF ResolveStep
    <2> QED
      BY <2>1, <2>2, <2>3, <2>4
  <1>3. CASE \E j \in Call : Arrives(j)
    BY <1>1, <1>3 DEF Arrives, Step, TypeOK, CallState
  <1>4. CASE \E w \in Worker : IssueStep(w)
    <2>1. PICK w \in Worker : IssueStep(w)
      BY <1>4
    <2>2. issue[w].pc # "idle"
      BY <2>1 DEF IssueStep, IssueFind, IssueMint, IssuePut, IssueRead, IssueFails
    <2>3. UNCHANGED call \/ \E bundles : IssueReturns(w, bundles)
      BY <2>1 DEF IssueStep, IssueFind, IssueMint, IssuePut, IssueRead, IssueFails
    <2> QED
      BY <1>1, <2>2, <2>3, IssueReturnsValue DEF Worker
  <1>5. CASE \E r \in Replica : Ends(r)
    <2>1. PICK r \in Replica : Ends(r)
      BY <1>5
    <2>2. Finished(k, "lost", {})[k].pc = "done"
      BY FinishedValue
    <2> QED
      BY <1>1, <2>1, <2>2 DEF Ends
  <1>6. CASE UNCHANGED call
    BY <1>1, <1>6
  <1> QED
    BY <1>2, <1>3, <1>4, <1>5, <1>6, ZenonT(90)
    DEF Next, vars, TimeIsUp, Tick, Start, StartFails, LoopStep, HeartbeatTick, PollTick,
        Heartbeat, Cleanup, Record, RunStops, RunDrains, Signal, MainStep, MainDrains,
        ShutdownReturns, Crash

(* What a request was routed to was seen not too long ago.                 *)
RoutedFresh ==
    \A k \in Call : call[k].pc = "enqueue" =>
       call[k].stamp <= LastSeen(call[k].ref) + Skew[call[k].ref] + StaleAfter

(* No request is routed to a process that has been gone for longer than    *)
(* StaleAfter, however its last heartbeat landed.                          *)
THEOREM DeadForgotten == Spec => []DeadOwnerForgotten
  <1> DEFINE RowsTrue == \A s \in Replica : RowTrue(s)
  <1>1. Init => RowsTrue /\ RoutedFresh
    BY DEF Init, RowTrue, RoutedFresh
  <1>2. TypeOK /\ Coupled /\ RowsTrue /\ [Next]_vars => RowsTrue'
    BY RowStep
  <1>3. TypeOK /\ TypeOK' /\ Coupled /\ RowsTrue /\ RoutedFresh /\ [Next]_vars => RoutedFresh'
    <2> SUFFICES ASSUME TypeOK, TypeOK', Coupled, RowsTrue, RoutedFresh, [Next]_vars
                 PROVE  RoutedFresh'
      OBVIOUS
    <2> SUFFICES ASSUME NEW k \in Call, call'[k].pc = "enqueue"
                 PROVE  (call[k].stamp <= LastSeen(call[k].ref) + Skew[call[k].ref]
                                          + StaleAfter)'
      BY Zenon DEF RoutedFresh
    <2> DEFINE ref == call[k].ref
    <2>1. /\ call'[k].ref = ref /\ ref \in Replica /\ call[k].at \in Replica
          /\ call[k].stamp \in Int
      BY CallStep DEF SameAsk, TypeOK, CallState
    <2>2. /\ LastSeen(ref) \in Nat /\ LastSeen(ref)' \in Nat /\ LastSeen(ref)' >= LastSeen(ref)
          /\ Skew[ref] \in Int /\ StaleAfter \in Nat
      BY <2>1, SeenGrows, ConstantTypes, OptionsAssumption
    <2>3. LocalTime(call[k].at) \in Int
      BY <2>1, ConstantTypes DEF LocalTime, TypeOK
    <2>4. call'[k].stamp <= LastSeen(ref) + Skew[ref] + StaleAfter
      <3>1. CASE call[k].pc = "enqueue" /\ call'[k].stamp = call[k].stamp
        BY <3>1 DEF RoutedFresh
      <3>2. ASSUME call'[k].stamp = LocalTime(call[k].at), NEW row \in replicas,
                   row.ref = ref, ~(LocalTime(call[k].at) - row.lastHeartbeat > StaleAfter)
            PROVE  call'[k].stamp <= LastSeen(ref) + Skew[ref] + StaleAfter
        <4>1. row.lastHeartbeat \in Int
          BY DEF TypeOK, ReplicaRow
        <4>2. row.lastHeartbeat <= LastSeen(ref) + Skew[ref]
          BY <2>1, <3>2 DEF RowTrue
        <4> QED
          BY <2>2, <2>3, <3>2, <4>1, <4>2
      <3> QED
        BY <3>1, <3>2, EnqueueFrame
    <2>5. call'[k].stamp \in Int
      BY DEF TypeOK, CallState
    <2> QED
      BY <2>1, <2>2, <2>4, <2>5
  <1>4. RoutedFresh => DeadOwnerForgotten
    BY DEF RoutedFresh, DeadOwnerForgotten, LastSeen
  <1>5. Spec => [](TypeOK /\ Coupled)
    BY ArchiveInvariant, PTL
  <1> QED
    BY <1>1, <1>2, <1>3, <1>4, <1>5, PTL DEF Spec

-----------------------------------------------------------------------------
(* A token the loop asks the launcher for.                                 *)

(* A request to the owner r for its proof for c has arrived. *)
AskedDirectly(r, c) == \E k \in Call : /\ call[k].at = r /\ call[k].ref = r
                                       /\ call[k].challenge = c
                                       /\ call[k].pc # "idle"

(* No step turns a request back into one that has not arrived.             *)
LEMMA AskStays ==
    ASSUME TypeOK, Coupled, [Next]_vars, NEW r, NEW c, AskedDirectly(r, c)
    PROVE  AskedDirectly(r, c)'
  <1>1. PICK k \in Call : /\ call[k].at = r /\ call[k].ref = r
                          /\ call[k].challenge = c /\ call[k].pc # "idle"
    BY DEF AskedDirectly
  <1>2. call'[k].at = r /\ call'[k].ref = r /\ call'[k].challenge = c
    BY <1>1, CallStep DEF SameAsk
  <1>3. call'[k].pc # "idle"
    <2>1. CASE call'[k] = call[k]
      BY <1>1, <2>1
    <2>2. CASE \E j \in Call : ResolveStep(j)
      BY <1>1, <2>2, ResolveFrame
    <2>3. CASE \E j \in Call : Arrives(j)
      BY <1>1, <2>3 DEF Arrives, Step, TypeOK, CallState
    <2>4. CASE \E w \in Worker : IssueStep(w)
      <3>1. PICK w \in Worker : IssueStep(w)
        BY <2>4
      <3>2. issue[w].pc # "idle"
        BY <3>1 DEF IssueStep, IssueFind, IssueMint, IssuePut, IssueRead, IssueFails
      <3>3. UNCHANGED call \/ \E bundles : IssueReturns(w, bundles)
        BY <3>1 DEF IssueStep, IssueFind, IssueMint, IssuePut, IssueRead, IssueFails
      <3> QED
        BY <2>1, <3>2, <3>3, IssueReturnsValue DEF Worker
    <2>5. CASE \E s \in Replica : Ends(s)
      <3>1. PICK s \in Replica : Ends(s)
        BY <2>5
      <3>2. Finished(k, "lost", {})[k].pc = "done"
        BY FinishedValue
      <3> QED
        BY <2>1, <3>1, <3>2 DEF Ends
    <2>6. CASE UNCHANGED call
      BY <2>1, <2>6
    <2> QED
      BY <2>2, <2>3, <2>4, <2>5, <2>6, ZenonT(90)
      DEF Next, vars, TimeIsUp, Tick, Start, StartFails, LoopStep, HeartbeatTick, PollTick,
          Heartbeat, Cleanup, Record, RunStops, RunDrains, Signal, MainStep, MainDrains,
          ShutdownReturns, Crash
  <1> QED
    BY <1>2, <1>3 DEF AskedDirectly

Minting(r) == issue[r].pc \in {"mint", "put"}

(* A loop that asks for a token does so for the request it looked up, and  *)
(* it looked before it asked; a proof stored meanwhile is another          *)
(* goroutine's.                                                            *)
LEMMA MintFrame ==
    ASSUME TypeOK, Coupled, [Next]_vars, NEW r \in Replica, Minting(r)'
    PROVE  /\ loop'[r].batch = loop[r].batch
           /\ Minting(r) \/ Stored(r, Nonce(r)) = {}
           /\ \/ UNCHANGED proofs
              \/ \E w \in Worker : /\ w # r /\ issue[w].pc = "put"
                                   /\ proofs' = PutProof(Minted(w))
  <1> USE DEF Minting
  <1>1. r \in Worker /\ r \notin Call
    BY ConstantTypes DEF Worker
  <1>2. ASSUME NEW w \in Worker, IssueStep(w)
        PROVE  /\ loop'[r].batch = loop[r].batch
               /\ Minting(r) \/ Stored(r, Nonce(r)) = {}
               /\ \/ UNCHANGED proofs
                  \/ w # r /\ issue[w].pc = "put" /\ proofs' = PutProof(Minted(w))
    <2>1. issue[w].pc # "idle"
      BY <1>2 DEF IssueStep, IssueFind, IssueMint, IssuePut, IssueRead, IssueFails
    <2>2. ASSUME NEW bundles, IssueReturns(w, bundles)
          PROVE  w # r /\ loop'[r] = loop[r] /\ issue'[r] = issue[r]
      <3>1. w # r
        BY <2>1, <2>2, IssueReturnsValue
      <3> QED
        BY <1>1, <2>1, <2>2, <3>1, IssueReturnsValue
    <2>3. CASE IssueFind(w)
      <3>1. UNCHANGED proofs
        BY <2>3 DEF IssueFind, tables
      <3>2. CASE Stored(Owner(w), Nonce(w)) # {}
        BY <2>2, <2>3, <3>1, <3>2 DEF IssueFind
      <3>3. CASE Stored(Owner(w), Nonce(w)) = {}
        <4>1. UNCHANGED loop /\ \A v \in Worker : v # w => issue'[v] = issue[v]
          BY <2>3, <3>3 DEF IssueFind, TypeOK
        <4>2. w = r => Owner(w) = r
          BY <1>1 DEF Owner
        <4> QED
          BY <1>1, <3>1, <3>3, <4>1, <4>2
      <3> QED
        BY <3>2, <3>3
    <2>4. CASE IssueMint(w)
      <3>1. UNCHANGED <<loop, proofs>> /\ issue[w].pc = "mint"
            /\ \A v \in Worker : v # w => issue'[v] = issue[v]
        BY <2>4 DEF IssueMint, tables, TypeOK
      <3> QED
        BY <1>1, <3>1
    <2>5. CASE IssuePut(w)
      <3>1. /\ UNCHANGED loop /\ proofs' = PutProof(Minted(w)) /\ issue[w].pc = "put"
            /\ issue'[w].pc = "read"
            /\ \A v \in Worker : v # w => issue'[v] = issue[v]
        BY <2>5 DEF IssuePut, TypeOK
      <3> QED
        BY <1>1, <3>1
    <2>6. CASE IssueRead(w)
      BY <2>2, <2>6 DEF IssueRead, tables
    <2>7. CASE IssueFails(w)
      BY <2>2, <2>7 DEF IssueFails
    <2> QED
      BY <1>2, <2>3, <2>4, <2>5, <2>6, <2>7 DEF IssueStep
  <1>3. CASE \E w \in Worker : IssueStep(w)
    BY <1>2, <1>3
  <1>4. ASSUME UNCHANGED proofs, UNCHANGED issue, Minting(r) => loop'[r].batch = loop[r].batch
        PROVE  /\ loop'[r].batch = loop[r].batch
               /\ Minting(r) \/ Stored(r, Nonce(r)) = {}
               /\ UNCHANGED proofs
    BY <1>4
  <1>5. ASSUME NEW s \in Replica, LoopStep(s)
        PROVE  UNCHANGED proofs /\ issue'[r] = issue[r] /\ loop'[r] = loop[r]
    <2>1. UNCHANGED proofs
      BY <1>5 DEF LoopStep, HeartbeatTick, PollTick, Heartbeat, Cleanup, Record, RunStops,
                  RunDrains, tables
    <2>2. issue[s].pc = "idle"
      BY <1>5 DEF LoopStep, HeartbeatTick, PollTick, Heartbeat, Cleanup, Record, RunStops,
                  RunDrains, Coupled
    <2>3. \/ UNCHANGED issue
          \/ \E batch, due : WorkOn(s, batch, due)
      BY <1>5 DEF LoopStep, HeartbeatTick, PollTick, Heartbeat, Cleanup, Record, RunStops,
                  RunDrains
    <2>4. \A v \in Replica : v # s => issue'[v] = issue[v]
      BY <2>3 DEF WorkOn, TypeOK, Worker
    <2>5. issue'[s].pc \in {"idle", "find"}
      <3>1. NewIssue(s).pc = "find" /\ s \in Worker
        BY DEF NewIssue, Worker
      <3>2. issue'[s] = issue[s] \/ issue'[s] = NewIssue(s)
        BY <2>3, <3>1 DEF WorkOn, TypeOK
      <3> QED
        BY <2>2, <3>1, <3>2
    <2>6. \A v \in Replica : v # s => loop'[v] = loop[v]
      <3>1. ASSUME NEW batch, NEW due, WorkOn(s, batch, due)
            PROVE  \A v \in Replica : v # s => loop'[v] = loop[v]
        BY <3>1 DEF WorkOn, TypeOK
      <3>2. CASE PollTick(s)
        BY <3>1, <3>2 DEF PollTick
      <3>3. CASE Record(s)
        BY <3>1, <3>3 DEF Record
      <3>4. CASE HeartbeatTick(s) \/ Heartbeat(s) \/ Cleanup(s) \/ RunStops(s) \/ RunDrains(s)
        BY <3>4 DEF HeartbeatTick, Heartbeat, Cleanup, RunStops, RunDrains, TypeOK
      <3> QED
        BY <1>5, <3>2, <3>3, <3>4 DEF LoopStep
    <2> QED
      BY <2>1, <2>4, <2>5, <2>6
  <1>6. ASSUME NEW s \in Replica, Ends(s), UNCHANGED proofs
        PROVE  issue'[r] = issue[r] /\ loop'[r] = loop[r]
    <2>1. s # r
      BY <1>1, <1>6 DEF Ends, Idle
    <2> QED
      BY <1>1, <1>6, <2>1 DEF Ends, TypeOK
  <1>7. ASSUME NEW s \in Replica, Start(s) \/ StartFails(s) \/ Signal(s) \/ MainStep(s)
                                  \/ Crash(s)
        PROVE  UNCHANGED proofs /\ issue'[r] = issue[r] /\ loop'[r].batch = loop[r].batch
    <2>1. UNCHANGED proofs
      BY <1>7 DEF Start, StartFails, Signal, MainStep, MainDrains, ShutdownReturns, Crash,
                  tables
    <2>2. CASE Start(s)
      BY <2>1, <2>2 DEF Start, TypeOK, LoopState
    <2>3. CASE Ends(s)
      BY <1>6, <2>1, <2>3
    <2>4. CASE UNCHANGED <<issue, loop>>
      BY <2>1, <2>4
    <2> QED
      BY <1>7, <2>2, <2>3, <2>4
      DEF StartFails, Signal, MainStep, MainDrains, ShutdownReturns, Crash
  <1>8. ASSUME NEW k \in Call, Arrives(k) \/ ResolveStep(k)
        PROVE  UNCHANGED proofs /\ UNCHANGED loop /\ issue'[r] = issue[r]
    <2>1. UNCHANGED <<proofs, loop>>
      BY <1>8 DEF Arrives, ResolveStep, FindProof, FindReplica, Enqueue, CheckProof,
                  CheckRequest, TimesOut, ResolveFails, ResolveFind, tables
    <2>2. CASE Arrives(k)
      BY <1>1, <2>1, <2>2 DEF Arrives, TypeOK
    <2>3. CASE ResolveStep(k)
      BY <2>1, <2>3 DEF ResolveStep, FindProof, FindReplica, Enqueue, CheckProof,
                        CheckRequest, TimesOut, ResolveFails, ResolveFind
    <2> QED
      BY <1>8, <2>2, <2>3
  <1>9. CASE Tick \/ UNCHANGED vars
    BY <1>9 DEF Tick, vars, tables
  <1> QED
    BY <1>3, <1>5, <1>7, <1>8, <1>9 DEF Next, TimeIsUp

(* A proof that turns up while the loop asks for it is due to a request    *)
(* that a handler of the same process answers.                             *)
LEMMA MintStep ==
    ASSUME TypeOK, Coupled, [Next]_vars, RoutedMintNeeded
    PROVE  RoutedMintNeeded'
  <1> SUFFICES ASSUME NEW r \in Replica, Minting(r)', Stored(r, Nonce(r))' # {}
               PROVE  AskedDirectly(r, Nonce(r))'
    BY DEF RoutedMintNeeded, Minting, AskedDirectly
  <1> DEFINE c == Nonce(r)
  <1>1. r \in Worker /\ r \notin Call
    BY ConstantTypes DEF Worker
  <1>2. c' = c
    BY <1>1, MintFrame DEF Nonce
  <1>3. AskedDirectly(r, c) \/ Stored(r, c) = {}
    BY MintFrame DEF RoutedMintNeeded, Minting, AskedDirectly
  <1> HIDE DEF c
  <1>4. CASE AskedDirectly(r, c)
    BY <1>2, <1>4, AskStays DEF c, AskedDirectly
  <1>5. CASE Stored(r, c) = {}
    <2>1. PICK w \in Worker : /\ w # r /\ issue[w].pc = "put"
                              /\ proofs' = PutProof(Minted(w))
      BY <1>2, <1>5, MintFrame DEF Stored, c
    <2>2. Owner(w) = r /\ Nonce(w) = c
      BY <1>2, <1>5, <2>1 DEF PutProof, Minted, Stored, c
    <2>3. w \in Call
      BY <2>1, <2>2 DEF Owner, Worker
    <2>4. call[w].pc = "issue" /\ call[w].at = r /\ call[w].ref = r /\ call[w].challenge = c
      BY <2>1, <2>2, <2>3 DEF Coupled, Owner, Nonce
    <2>5. AskedDirectly(r, c)
      BY <2>3, <2>4 DEF AskedDirectly
    <2> QED
      BY <1>4, <2>5
  <1> QED
    BY <1>3, <1>4, <1>5

(* The loop never asks the launcher for a token it has: a proof that is in *)
(* the table by then is due to a request to the owner itself.              *)
THEOREM RoutedMints == Spec => []RoutedMintNeeded
  <1>1. Init => RoutedMintNeeded
    BY DEF Init, RoutedMintNeeded, Idle, Worker
  <1>2. TypeOK /\ Coupled /\ RoutedMintNeeded /\ [Next]_vars => RoutedMintNeeded'
    BY MintStep
  <1>3. Spec => [](TypeOK /\ Coupled)
    BY ArchiveInvariant, PTL
  <1> QED
    BY <1>1, <1>2, <1>3, PTL DEF Spec

=============================================================================
