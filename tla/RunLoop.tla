------------------------------ MODULE RunLoop ------------------------------
(***************************************************************************)
(* The timing of Router.run (internal/proofcache/router.go): one goroutine *)
(* beats, deletes expired requests and issues tokens, so that a token that *)
(* takes long delays the heartbeat.  ProofRouter has the interleavings of  *)
(* the loop with everything else; here statements succeed and take no      *)
(* time.  What select prefers is left open, as it is in Go.                *)
(***************************************************************************)
EXTENDS Integers, FiniteSets

CONSTANTS
    Keys, NoKey,            \* challenges that are asked of this owner, and none
    HeartbeatInterval, StaleAfter, PollInterval,    \* RouterOptions
    RequestTimeout, RequestTTL, LeaseDuration,
    MaxTime

ASSUME OptionsAssumption ==
    /\ {HeartbeatInterval, StaleAfter, PollInterval, RequestTimeout, RequestTTL,
        LeaseDuration} \subseteq Nat \ {0}
    /\ MaxTime \in Nat /\ NoKey \notin Keys

VARIABLES
    now,
    heartbeat, poll,        \* tickers: their next tick, and the one not received
    working,                \* the key of the token that is issued, or NoKey
    doneBy,                 \* when its context ends
    lastHeartbeat,          \* in the owner's row of attestation_replicas
    requests,               \* the owner's rows of attestation_requests
    skipped, before         \* history: polls that select preferred to the heartbeat
                            \* that waits, and to the one that was sent last

loopVars == <<now, heartbeat, poll, working, doneBy, lastHeartbeat, requests, skipped, before>>

Nothing == 0
Waits(ticker) == ticker.due # Nothing
Idle == working = NoKey

Init ==
    /\ now = 0 /\ lastHeartbeat = 0 /\ requests = {}
    /\ heartbeat = [next |-> HeartbeatInterval, due |-> Nothing]
    /\ poll = [next |-> PollInterval, due |-> Nothing]
    /\ working = NoKey /\ doneBy = 0 /\ skipped = 0 /\ before = 0

(* Resolve on another replica found no proof, and a heartbeat that is not  *)
(* too old.                                                                *)
EnqueueRequest(k) ==
    /\ now - lastHeartbeat <= StaleAfter
    /\ \A row \in requests : row.key # k
    /\ requests' = requests \cup
          {[key |-> k, status |-> "pending", requestedAt |-> now,
            expiresAt |-> now + RequestTTL, leaseUntil |-> 0]}
    /\ UNCHANGED <<now, heartbeat, poll, working, doneBy, skipped, before, lastHeartbeat>>

(* Mutant: only requests that came to an end are deleted.                  *)
DeleteDecided(stamp) ==
    {row \in requests : row.expiresAt > stamp \/ row.status = "pending"}

DeleteExpiredRequests(stamp) == {row \in requests : row.expiresAt > stamp}

Heartbeat ==
    /\ Idle /\ Waits(heartbeat)
    /\ lastHeartbeat' = heartbeat.due
    /\ requests' = DeleteExpiredRequests(heartbeat.due)
    /\ heartbeat' = [heartbeat EXCEPT !.due = Nothing]
    /\ skipped' = 0 /\ before' = skipped
    /\ UNCHANGED <<now, poll, working, doneBy>>

(* The heartbeat of another replica, whose clock agrees.                   *)
PeerSweeps ==
    /\ requests' = DeleteExpiredRequests(now)
    /\ UNCHANGED <<now, heartbeat, poll, working, doneBy, skipped, before, lastHeartbeat>>

Claimable(stamp) ==
    {row \in requests : /\ row.expiresAt > stamp
                        /\ \/ row.status = "pending"
                           \/ row.status = "processing" /\ row.leaseUntil < stamp}

(* ORDER BY requested_at LIMIT 1.                                          *)
FirstOf(rows) == {row \in rows : \A other \in rows : row.requestedAt <= other.requestedAt}

(* UPDATE the row for the key, if there still is one.                      *)
Set(k, status, leaseUntil) ==
    {IF row.key = k THEN [row EXCEPT !.status = status, !.leaseUntil = leaseUntil] ELSE row :
        row \in requests}

PollFinds ==
    /\ Idle /\ Waits(poll)
    /\ skipped' = IF Waits(heartbeat) THEN skipped + 1 ELSE 0
    /\ \E row \in FirstOf(Claimable(poll.due)) :
          /\ requests' = Set(row.key, "processing", poll.due + LeaseDuration)
          /\ working' = row.key
    /\ doneBy' = now + RequestTimeout
    /\ poll' = [poll EXCEPT !.due = Nothing]
    /\ UNCHANGED <<now, heartbeat, lastHeartbeat, before>>

PollFindsNone ==
    /\ Idle /\ Waits(poll)
    /\ Claimable(poll.due) = {}
    /\ poll' = [poll EXCEPT !.due = Nothing]
    /\ UNCHANGED <<now, heartbeat, working, doneBy, skipped, before, lastHeartbeat, requests>>

(* Mutant: the next request is claimed at once.                            *)
IssueGoesOn(status) ==
    /\ ~Idle
    /\ requests' = Set(working, status, 0)
    /\ IF \E r \in requests : r.status = "pending"
       THEN /\ working' \in {r.key : r \in {s \in requests : s.status = "pending"}}
            /\ doneBy' = now + RequestTimeout
       ELSE working' = NoKey /\ doneBy' = 0
    /\ UNCHANGED <<now, heartbeat, poll, skipped, before, lastHeartbeat>>

(* Issue returns, in time or when its context ends, and the loop records   *)
(* how: CompleteRequest or FailRequest.                                    *)
IssueEnds(status) ==
    /\ ~Idle
    /\ requests' = Set(working, status, 0)
    /\ working' = NoKey /\ doneBy' = 0
    /\ UNCHANGED <<now, heartbeat, poll, skipped, before, lastHeartbeat>>

(* A ticker drops its tick if the one before has not been received.        *)
Fire(ticker, interval) ==
    IF now + 1 < ticker.next THEN ticker
    ELSE [next |-> ticker.next + interval,
          due |-> IF Waits(ticker) THEN ticker.due ELSE ticker.next]

(* Time passes when the loop has nothing to do, or waits for a token.      *)
Tick ==
    /\ now < MaxTime
    /\ IF Idle THEN ~Waits(heartbeat) /\ ~Waits(poll) ELSE now < doneBy
    /\ now' = now + 1
    /\ heartbeat' = Fire(heartbeat, HeartbeatInterval)
    /\ poll' = Fire(poll, PollInterval)
    /\ UNCHANGED <<working, doneBy, skipped, before, lastHeartbeat, requests>>

Next ==
    \/ \E k \in Keys : EnqueueRequest(k)
    \/ Heartbeat \/ PeerSweeps \/ PollFinds \/ PollFindsNone
    \/ IssueEnds("complete") \/ IssueEnds("failed")
    \/ Tick

Spec == Init /\ [][Next]_loopVars

-----------------------------------------------------------------------------
(* Properties.                                                             *)

Row == [key : Keys, status : {"pending", "processing", "complete", "failed"},
        requestedAt : Nat, expiresAt : Nat, leaseUntil : Nat]
Ticker == [next : Nat, due : Nat]

(* The variables have their types, there is one row for a key, and only    *)
(* the request that is worked on is processing.                            *)
TypeOK ==
    /\ now \in Nat /\ lastHeartbeat \in Nat /\ doneBy \in Nat
    /\ heartbeat \in Ticker /\ poll \in Ticker
    /\ skipped \in Nat /\ before \in Nat
    /\ working \in Keys \cup {NoKey}
    /\ requests \subseteq Row
    /\ \A a, b \in requests : a.key = b.key => a = b
    /\ \A row \in requests : row.status = "processing" => row.key = working

(* The work that keeps a tick waiting: the token in progress when it comes *)
(* due, and those of the polls that select prefers to it.                  *)
Work(preferred) == (preferred + 1) * RequestTimeout

(* A heartbeat is stamped with the time it was due, and ticks are dropped  *)
(* while it waits: the next one is due at the first beat after it is sent. *)
NextBeat(preferred) == (Work(preferred) \div HeartbeatInterval + 1) * HeartbeatInterval

(* How old a heartbeat may get.  With DefaultRouterOptions this is         *)
(* StaleAfter exactly as long as select prefers no poll to a heartbeat.    *)
Gap == NextBeat(before) + Work(skipped)

(* A heartbeat is late for work alone, and for no more work than was       *)
(* preferred to it and to the one before: however the tokens take their    *)
(* time and whatever ticks are dropped, the row of an owner that runs is   *)
(* no older than that (Router.run, router.go:188-205).                     *)
LateOnlyForWork == now - lastHeartbeat <= Gap

(* A row is swept by the first heartbeat that was due after it expired,    *)
(* and so outlives its expiry by less than two heartbeats are apart: for   *)
(* no longer does it swallow requests for its key that nobody will serve,  *)
(* or repeat a failure that is past (postgres.go:242, router.go:170).      *)
RowsVanish == \A row \in requests : now < row.expiresAt + Gap

=============================================================================
