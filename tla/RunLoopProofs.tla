--------------------------- MODULE RunLoopProofs ---------------------------
(***************************************************************************)
(* A heartbeat is late for work alone, and expired requests vanish by the  *)
(* next but one, for all options and whatever select prefers.              *)
(***************************************************************************)
EXTENDS RunLoop, TLAPS

OnTheBeat(t) == \E n \in Nat : t = n * HeartbeatInterval

(* The beat that follows a wait comes after it.                            *)
LEMMA BeatFacts ==
  ASSUME NEW k \in Nat
  PROVE  /\ Work(k) \in Nat /\ Work(k + 1) = Work(k) + RequestTimeout
         /\ NextBeat(k) \in Nat /\ NextBeat(k) > Work(k)
         /\ \E n \in Nat : NextBeat(k) = n * HeartbeatInterval
  <1>1. RequestTimeout \in Nat \ {0} /\ HeartbeatInterval \in Nat \ {0}
    BY OptionsAssumption
  <1>2. Work(k) \in Nat /\ Work(k + 1) = Work(k) + RequestTimeout
    BY <1>1 DEF Work
  <1>3. \A w \in Nat, h \in Nat \ {0} : w \div h \in Nat /\ w < h * (w \div h) + h
    <2>1. \A w \in Nat, h \in Nat \ {0} :
             w \div h \in Nat /\ w = h * (w \div h) + (w % h) /\ (w % h) \in 0..(h - 1)
      OBVIOUS
    <2> QED  BY <2>1
  <1> DEFINE q == Work(k) \div HeartbeatInterval
  <1>4. q \in Nat /\ q * HeartbeatInterval + HeartbeatInterval > Work(k)
    <2>1. q \in Nat /\ Work(k) < HeartbeatInterval * q + HeartbeatInterval
      BY <1>1, <1>2, <1>3
    <2> HIDE DEF q
    <2>2. HeartbeatInterval * q = q * HeartbeatInterval /\ q * HeartbeatInterval \in Nat
      BY <1>1, <2>1
    <2> QED  BY <1>1, <1>2, <2>1, <2>2
  <1>5. NextBeat(k) = (q + 1) * HeartbeatInterval
    BY DEF NextBeat
  <1>6. (q + 1) * HeartbeatInterval = q * HeartbeatInterval + HeartbeatInterval
    BY <1>1, <1>4
  <1>7. q + 1 \in Nat /\ q * HeartbeatInterval \in Nat
    BY <1>1, <1>4
  <1> HIDE DEF q
  <1> QED  BY <1>1, <1>2, <1>4, <1>5, <1>6, <1>7

(* Between two multiples lies a whole one.                                 *)
LEMMA NextMultiple ==
  ASSUME NEW i \in Int, NEW j \in Int, NEW h \in Nat \ {0}, i * h < j * h
  PROVE  i * h + h <= j * h
  <1>1. i < j
    <2> SUFFICES ASSUME j <= i PROVE FALSE
      OBVIOUS
    <2>1. PICK d \in Nat : i = j + d
      <3>1. i - j \in Nat
        OBVIOUS
      <3> QED  BY <3>1
    <2>2. i * h = j * h + d * h
      BY <2>1
    <2>3. d * h \in Nat /\ i * h \in Int /\ j * h \in Int
      BY <2>1
    <2> QED  BY <2>2, <2>3
  <1>2. PICK d \in Nat : j = i + 1 + d
    <2>1. j - i - 1 \in Nat
      BY <1>1
    <2> QED  BY <2>1
  <1>3. j * h = i * h + h + d * h
    BY <1>2
  <1>4. d * h \in Nat /\ i * h \in Int
    BY <1>2
  <1> QED  BY <1>3, <1>4

-----------------------------------------------------------------------------
(* The invariant.                                                          *)

Types ==
    /\ now \in Nat /\ lastHeartbeat \in Nat /\ doneBy \in Nat
    /\ heartbeat \in Ticker /\ poll \in Ticker
    /\ skipped \in Nat /\ before \in Nat

(* The ticker is ahead of the clock, and its ticks are on the beat.        *)
OnTime ==
    /\ now < heartbeat.next /\ heartbeat.next <= now + HeartbeatInterval
    /\ heartbeat.due <= now /\ lastHeartbeat <= now
    /\ OnTheBeat(heartbeat.next) /\ OnTheBeat(heartbeat.due)

(* A tick waits for the work that was preferred and for that in progress.  *)
Waiting ==
    /\ ~Idle => now <= doneBy /\ doneBy <= now + RequestTimeout
    /\ ~Waits(heartbeat) => skipped = 0
    /\ Waits(heartbeat) => 
          (IF Idle THEN now ELSE doneBy) <= heartbeat.due + Work(skipped)

(* The last heartbeat is the one due before the next.                      *)
Recent ==
    (IF Waits(heartbeat) THEN heartbeat.due ELSE heartbeat.next) <= lastHeartbeat + NextBeat(before)

(* What had expired by the last heartbeat is gone.                         *)
Swept == \A row \in requests : row \in Row /\ row.expiresAt > lastHeartbeat

LoopInv == Types /\ OnTime /\ Waiting /\ Recent /\ Swept

LEMMA Constants ==
  /\ HeartbeatInterval \in Nat \ {0} /\ RequestTimeout \in Nat \ {0}
  /\ RequestTTL \in Nat \ {0} /\ LeaseDuration \in Nat \ {0} /\ StaleAfter \in Nat \ {0} /\ PollInterval \in Nat \ {0}
  BY OptionsAssumption

LEMMA InitInv == Init => LoopInv
  <1> SUFFICES ASSUME Init PROVE LoopInv
    OBVIOUS
  <1>1. Types
    BY Constants DEF Init, Types, Ticker, Nothing
  <1>2. OnTime
    <2>1. OnTheBeat(HeartbeatInterval) /\ OnTheBeat(0)
      <3>1. HeartbeatInterval = 1 * HeartbeatInterval /\ 0 = 0 * HeartbeatInterval
        BY Constants
      <3> QED  BY <3>1 DEF OnTheBeat
    <2> QED  BY <2>1, Constants DEF Init, OnTime, Nothing
  <1>3. Waiting
    BY DEF Init, Waiting, Idle, Waits, Nothing
  <1>4. Recent
    <2>1. PICK n \in Nat : NextBeat(0) = n * HeartbeatInterval
      BY BeatFacts
    <2>2. 0 * HeartbeatInterval = 0 /\ 0 * HeartbeatInterval < n * HeartbeatInterval
      <3>1. Work(0) \in Nat /\ NextBeat(0) \in Nat /\ NextBeat(0) > Work(0)
        BY BeatFacts
      <3> QED  BY <2>1, <3>1, Constants
    <2>3. HeartbeatInterval <= NextBeat(0)
      BY <2>1, <2>2, NextMultiple, Constants
    <2> QED  BY <2>3, BeatFacts, Constants DEF Init, Recent, Waits, Nothing
  <1>5. Swept
    BY DEF Init, Swept
  <1> QED  BY <1>1, <1>2, <1>3, <1>4, <1>5 DEF LoopInv

-----------------------------------------------------------------------------
(* The steps.                                                              *)

LEMMA EnqueueInv == ASSUME LoopInv, NEW k \in Keys, EnqueueRequest(k) PROVE LoopInv'
  <1>1. Swept'
    BY Constants DEF LoopInv, Types, OnTime, Swept, Row, EnqueueRequest
  <1>2. (Types /\ OnTime /\ Waiting /\ Recent)'
    BY DEF LoopInv, Types, OnTime, Waiting, Recent, Idle, Waits, EnqueueRequest
  <1> QED  BY <1>1, <1>2 DEF LoopInv

(* A tick waits no longer than the work it waits for.                      *)
LEMMA DueInTime ==
  ASSUME LoopInv, Waits(heartbeat)
  PROVE  now <= heartbeat.due + Work(skipped)
  <1>1. CASE Idle
    BY <1>1 DEF LoopInv, Waiting
  <1>2. CASE ~Idle
    <2>1. Work(skipped) \in Nat
      BY BeatFacts DEF LoopInv, Types
    <2> QED  BY <1>2, <2>1 DEF LoopInv, Types, Ticker, Waiting
  <1> QED  BY <1>1, <1>2

LEMMA HeartbeatInv == ASSUME LoopInv, Heartbeat PROVE LoopInv'
  <1>1. now <= heartbeat.due + Work(skipped)
    BY DueInTime DEF Heartbeat
  <1>2. /\ now \in Nat /\ heartbeat.next \in Nat /\ heartbeat.due \in Nat
        /\ heartbeat' = [next |-> heartbeat.next, due |-> Nothing]
        /\ lastHeartbeat' = heartbeat.due /\ skipped' = 0 /\ before' = skipped
    BY DEF LoopInv, Types, Ticker, Heartbeat
  <1>3. Types'
    BY <1>2, Constants DEF LoopInv, Types, Ticker, Heartbeat, Nothing
  <1>4. OnTime'
    <2>1. OnTheBeat(0)
      <3>1. 0 = 0 * HeartbeatInterval
        BY Constants
      <3> QED  BY <3>1 DEF OnTheBeat
    <2> QED  BY <1>2, <2>1 DEF LoopInv, OnTime, Heartbeat, Nothing, OnTheBeat
  <1>5. Waiting'
    BY <1>2 DEF LoopInv, Waiting, Heartbeat, Waits, Idle
  <1>6. Recent'
    <2>0. /\ skipped \in Nat /\ Work(skipped) \in Nat
          /\ NextBeat(skipped) \in Nat /\ NextBeat(skipped) > Work(skipped)
      BY BeatFacts DEF LoopInv, Types
    <2>1. PICK m \in Nat, n \in Nat, b \in Nat :
             /\ heartbeat.next = m * HeartbeatInterval
             /\ heartbeat.due = n * HeartbeatInterval
             /\ NextBeat(skipped) = b * HeartbeatInterval
      BY <2>0, BeatFacts DEF LoopInv, OnTime, OnTheBeat
    <2>2. heartbeat.next - HeartbeatInterval < heartbeat.due + NextBeat(skipped)
      BY <1>1, <1>2, <2>0, Constants DEF LoopInv, OnTime
    <2>3. /\ (m - 1) * HeartbeatInterval = heartbeat.next - HeartbeatInterval
          /\ (n + b) * HeartbeatInterval = heartbeat.due + NextBeat(skipped)
      BY <2>1, Constants
    <2>4. m - 1 \in Int /\ n + b \in Int
      BY <2>1
    <2>5. (m - 1) * HeartbeatInterval + HeartbeatInterval <= (n + b) * HeartbeatInterval
      BY <2>2, <2>3, <2>4, NextMultiple, Constants
    <2>6. heartbeat.next <= heartbeat.due + NextBeat(skipped)
      BY <2>0, <2>3, <2>5, <1>2, Constants
    <2> QED  BY <1>2, <2>6 DEF Recent, Waits
  <1>7. Swept'
    BY <1>2 DEF LoopInv, Swept, Heartbeat, DeleteExpiredRequests
  <1> QED  BY <1>3, <1>4, <1>5, <1>6, <1>7 DEF LoopInv

(* What a row becomes keeps its expiry.                                    *)
LEMMA SetSwept ==
  ASSUME Swept, NEW k, NEW leaseUntil \in Nat,
         NEW status \in {"processing", "complete", "failed"},
         requests' = Set(k, status, leaseUntil), UNCHANGED lastHeartbeat
  PROVE  Swept'
  <1>1. SUFFICES ASSUME NEW new \in requests'
                 PROVE  new \in Row /\ new.expiresAt > lastHeartbeat
    BY DEF Swept
  <1>2. PICK row \in requests :
           new = IF row.key = k
                 THEN [row EXCEPT !.status = status, !.leaseUntil = leaseUntil] ELSE row
    BY DEF Set
  <1>3. row \in Row /\ row.expiresAt > lastHeartbeat
    BY DEF Swept
  <1> QED  BY <1>2, <1>3 DEF Row

LEMMA PollFindsInv == ASSUME LoopInv, PollFinds PROVE LoopInv'
  <1>1. /\ now \in Nat /\ heartbeat.due \in Nat /\ skipped \in Nat
        /\ Idle /\ doneBy' = now + RequestTimeout
        /\ UNCHANGED <<now, heartbeat, lastHeartbeat, before>>
    BY DEF LoopInv, Types, Ticker, PollFinds
  <1>2. skipped' \in Nat
    BY <1>1, Constants DEF PollFinds
  <1>3. Types'
    BY <1>1, <1>2, Constants DEF LoopInv, Types, Ticker, PollFinds, Nothing
  <1>4. OnTime' /\ Recent'
    BY <1>1 DEF LoopInv, OnTime, Recent, Waits
  <1>5. Waiting'
    <2>0. Work(skipped) \in Nat /\ Work(skipped + 1) = Work(skipped) + RequestTimeout
      BY <1>1, BeatFacts
    <2>1. CASE ~Waits(heartbeat)
      BY <1>1, <2>1, Constants DEF PollFinds, Waiting, Waits
    <2>2. CASE Waits(heartbeat)
      <3>1. skipped' = skipped + 1 /\ now <= heartbeat.due + Work(skipped)
        BY <1>1, <2>2 DEF PollFinds, LoopInv, Waiting
      <3>2. Work(skipped') = Work(skipped) + RequestTimeout
        BY <2>0, <3>1
      <3>3. doneBy' <= heartbeat.due + Work(skipped') /\ now <= heartbeat.due + Work(skipped')
        BY <1>1, <2>0, <3>1, <3>2, Constants
      <3>4. doneBy' \in Nat /\ now <= doneBy'
        BY <1>1, Constants
      <3> QED  BY <1>1, <2>2, <3>3, <3>4 DEF Waiting, Waits
    <2> QED  BY <2>1, <2>2
  <1>6. Swept'
    <2>1. PICK row \in FirstOf(Claimable(poll.due)) :
             requests' = Set(row.key, "processing", poll.due + LeaseDuration)
      BY DEF PollFinds
    <2>2. poll.due + LeaseDuration \in Nat
      BY Constants DEF LoopInv, Types, Ticker
    <2> QED  BY <1>1, <2>1, <2>2, SetSwept DEF LoopInv
  <1> QED  BY <1>3, <1>4, <1>5, <1>6 DEF LoopInv

LEMMA PeerSweepsInv == ASSUME LoopInv, PeerSweeps PROVE LoopInv'
  <1>1. Swept'
    BY DEF LoopInv, Swept, PeerSweeps, DeleteExpiredRequests
  <1>2. (Types /\ OnTime /\ Waiting /\ Recent)'
    BY DEF LoopInv, Types, OnTime, Waiting, Recent, Idle, Waits, PeerSweeps
  <1> QED  BY <1>1, <1>2 DEF LoopInv

LEMMA PollFindsNoneInv == ASSUME LoopInv, PollFindsNone PROVE LoopInv'
  BY Constants DEF LoopInv, Types, Ticker, OnTime, Waiting, Recent, Swept, Idle, Waits,
     Nothing, PollFindsNone

LEMMA IssueEndsInv == ASSUME LoopInv, NEW status \in {"complete", "failed"}, IssueEnds(status) PROVE LoopInv'
  <1>1. Types' /\ OnTime' /\ Recent'
    BY DEF LoopInv, Types, OnTime, Recent, Waits, IssueEnds
  <1>2. Waiting'
    <2>1. Idle' /\ ~Idle /\ UNCHANGED <<now, heartbeat, skipped>>
      BY DEF IssueEnds, Idle
    <2>2. Waits(heartbeat) => now <= heartbeat.due + Work(skipped)
      BY DueInTime
    <2> QED  BY <2>1, <2>2 DEF LoopInv, Waiting, Waits
  <1>3. Swept'
    BY SetSwept DEF LoopInv, IssueEnds
  <1> QED  BY <1>1, <1>2, <1>3 DEF LoopInv

(* The clock stands still while an idle loop has a tick to receive.        *)
LEMMA TickInv == ASSUME LoopInv, Tick PROVE LoopInv'
  <1>1. /\ now \in Nat /\ now' = now + 1 /\ doneBy \in Nat
        /\ heartbeat.next \in Nat /\ heartbeat.due \in Nat /\ lastHeartbeat \in Nat
        /\ heartbeat \in Ticker /\ poll \in Ticker
        /\ UNCHANGED <<working, doneBy, skipped, before, lastHeartbeat, requests>>
    BY DEF LoopInv, Types, Ticker, Tick
  <1>2. heartbeat' \in Ticker /\ poll' \in Ticker
    BY <1>1, Constants DEF Tick, Fire, Ticker
  <1>3. Types'
    BY <1>1, <1>2 DEF LoopInv, Types
  <1>4. Swept'
    BY <1>1 DEF LoopInv, Swept
  <1>5. CASE now + 1 < heartbeat.next
    <2>1. heartbeat' = heartbeat
      BY <1>5 DEF Tick, Fire
    <2>2. OnTime' /\ Recent'
      BY <1>1, <1>5, <2>1, Constants DEF LoopInv, OnTime, Recent, Waits
    <2>3. Waiting'
      BY <1>1, <2>1, Constants DEF LoopInv, Waiting, Tick, Idle, Waits
    <2> QED  BY <1>3, <1>4, <2>2, <2>3 DEF LoopInv
  <1>6. CASE ~(now + 1 < heartbeat.next)
    <2>1. heartbeat.next = now + 1
      BY <1>1, <1>6 DEF LoopInv, OnTime
    <2>2. /\ heartbeat'.next = heartbeat.next + HeartbeatInterval
          /\ heartbeat'.due = IF Waits(heartbeat) THEN heartbeat.due ELSE heartbeat.next
      BY <1>6 DEF Tick, Fire
    <2>3. OnTheBeat(heartbeat'.next) /\ OnTheBeat(heartbeat'.due)
      <3>1. PICK n \in Nat : heartbeat.next = n * HeartbeatInterval
        BY DEF LoopInv, OnTime, OnTheBeat
      <3>2. (n + 1) * HeartbeatInterval = heartbeat.next + HeartbeatInterval /\ n + 1 \in Nat
        BY <3>1, Constants
      <3> QED  BY <2>2, <3>2 DEF LoopInv, OnTime, OnTheBeat
    <2>4. OnTime'
      BY <1>1, <2>1, <2>2, <2>3, Constants DEF LoopInv, OnTime
    <2>5. Waits(heartbeat)'
      BY <1>1, <2>1, <2>2 DEF Waits, Nothing
    <2>6. Recent'
      BY <1>1, <2>2, <2>5 DEF LoopInv, Recent
    <2>7. Waiting'
      <3>1. CASE Waits(heartbeat)
        <4>1. ~Idle /\ now < doneBy
          BY <3>1 DEF Tick
        <4>2. /\ heartbeat'.due = heartbeat.due /\ now' = now + 1
              /\ UNCHANGED <<working, doneBy, skipped>>
          BY <1>1, <2>2, <3>1
        <4>3. /\ doneBy <= heartbeat.due + Work(skipped)
              /\ doneBy <= now + RequestTimeout
          BY <3>1, <4>1 DEF LoopInv, Waiting
        <4>4. now + 1 <= doneBy /\ doneBy <= now + 1 + RequestTimeout
          BY <1>1, <4>1, <4>3, Constants
        <4> QED  BY <2>5, <4>1, <4>2, <4>3, <4>4 DEF Waiting, Idle
      <3>2. CASE ~Waits(heartbeat)
        <4>1. skipped = 0 /\ Work(skipped) = RequestTimeout
          BY <3>2, Constants DEF LoopInv, Waiting, Work
        <4>2. heartbeat'.due = now + 1
          BY <2>1, <2>2, <3>2
        <4> QED  BY <1>1, <2>5, <4>1, <4>2, Constants DEF LoopInv, Waiting, Tick, Idle
      <3> QED  BY <3>1, <3>2
    <2> QED  BY <1>3, <1>4, <2>4, <2>6, <2>7 DEF LoopInv
  <1> QED  BY <1>5, <1>6

LEMMA NextInv == LoopInv /\ [Next]_loopVars => LoopInv'
  <1> SUFFICES ASSUME LoopInv, [Next]_loopVars PROVE LoopInv'
    OBVIOUS
  <1>1. CASE UNCHANGED loopVars
    BY <1>1 DEF loopVars, LoopInv, Types, OnTime, Waiting, Recent, Swept, Idle, Waits
  <1>2. CASE Next
    BY <1>2, EnqueueInv, HeartbeatInv, PeerSweepsInv, PollFindsInv, PollFindsNoneInv, IssueEndsInv, TickInv
       DEF Next
  <1> QED  BY <1>1, <1>2

-----------------------------------------------------------------------------

(* The row of an owner that runs is no older than the work that select     *)
(* preferred to its last two heartbeats makes it (Router.run).             *)
THEOREM HeartbeatsLate == Spec => []LateOnlyForWork
  <1>1. ASSUME LoopInv PROVE LateOnlyForWork
    <2>1. now \in Nat /\ lastHeartbeat \in Nat /\ heartbeat \in Ticker
      BY <1>1 DEF LoopInv, Types
    <2>2. Work(skipped) \in Nat /\ NextBeat(before) \in Nat
      BY <1>1, BeatFacts DEF LoopInv, Types
    <2>3. CASE Waits(heartbeat)
      BY <1>1, <2>1, <2>2, <2>3, DueInTime DEF LoopInv, Recent, Ticker, LateOnlyForWork, Gap
    <2>4. CASE ~Waits(heartbeat)
      BY <1>1, <2>1, <2>2, <2>4 DEF LoopInv, OnTime, Recent, Ticker, LateOnlyForWork, Gap
    <2> QED  BY <2>3, <2>4
  <1> QED  BY <1>1, InitInv, NextInv, PTL DEF Spec

(* Whatever the age of the row, no request outlives its expiry by more     *)
(* (DeleteExpiredRequests).                                                *)
THEOREM ExpiredRowsVanish == Spec => []RowsVanish
  <1>1. ASSUME LoopInv, LateOnlyForWork PROVE RowsVanish
    <2>1. Gap \in Nat
      BY <1>1, BeatFacts DEF LoopInv, Types, Gap
    <2> QED  BY <1>1, <2>1 DEF LoopInv, Types, Swept, Row, LateOnlyForWork, RowsVanish
  <1> QED  BY <1>1, HeartbeatsLate, InitInv, NextInv, PTL DEF Spec

(* Rows have keys of their own, and only what is worked on is processing.  *)
Attended ==
    /\ working \in Keys \cup {NoKey}
    /\ \A a, b \in requests : a.key = b.key => a = b
    /\ \A row \in requests : row.status = "processing" => row.key = working

(* Writing a status leaves the keys of the rows apart.                     *)
LEMMA SetAttended ==
  ASSUME requests \subseteq Row, Attended, NEW k \in Keys, NEW status, NEW leaseUntil,
         requests' = Set(k, status, leaseUntil),
         working' \in Keys \cup {NoKey},
         \A row \in requests : row.key # k => row.status # "processing",
         status = "processing" => working' = k
  PROVE  Attended'
  <1>1. ASSUME NEW new \in requests'
        PROVE  \E row \in requests :
                  /\ new.key = row.key
                  /\ row.key # k => new = row
                  /\ row.key = k => /\ new.status = status
                                    /\ new = [row EXCEPT !.status = status, !.leaseUntil = leaseUntil]
    BY <1>1 DEF Set, Row
  <1>2. \A a, b \in requests' : a.key = b.key => a = b
    <2> SUFFICES ASSUME NEW a \in requests', NEW b \in requests', a.key = b.key PROVE a = b
      OBVIOUS
    <2>1. PICK ra \in requests :
             /\ a.key = ra.key
             /\ ra.key # k => a = ra
             /\ ra.key = k => a = [ra EXCEPT !.status = status, !.leaseUntil = leaseUntil]
      BY <1>1
    <2>2. PICK rb \in requests :
             /\ b.key = rb.key
             /\ rb.key # k => b = rb
             /\ rb.key = k => b = [rb EXCEPT !.status = status, !.leaseUntil = leaseUntil]
      BY <1>1
    <2>3. ra = rb
      BY <2>1, <2>2 DEF Attended
    <2> QED  BY <2>1, <2>2, <2>3
  <1>3. \A new \in requests' : new.status = "processing" => new.key = working'
    BY <1>1
  <1> QED  BY <1>2, <1>3 DEF Attended

(* The loop issues one token at a time.                                    *)
LEMMA NextAttended ==
  ASSUME requests \subseteq Row, Attended, [Next]_loopVars
  PROVE  Attended'
  <1>1. NoKey \notin Keys
    BY OptionsAssumption
  <1>2. CASE UNCHANGED loopVars
    BY <1>2 DEF loopVars, Attended
  <1>3. ASSUME NEW k \in Keys, EnqueueRequest(k) PROVE Attended'
    <2>1. PICK r : /\ r.key = k /\ r.status = "pending"
                   /\ requests' = requests \cup {r} /\ UNCHANGED working
                   /\ \A row \in requests : row.key # k
      BY <1>3 DEF EnqueueRequest
    <2> QED  BY <2>1 DEF Attended
  <1>4. CASE Heartbeat \/ PeerSweeps
    BY <1>4 DEF Heartbeat, PeerSweeps, DeleteExpiredRequests, Attended
  <1>5. CASE PollFinds
    <2>1. PICK row \in FirstOf(Claimable(poll.due)) :
             /\ requests' = Set(row.key, "processing", poll.due + LeaseDuration)
             /\ working' = row.key
      BY <1>5 DEF PollFinds
    <2>2. row \in requests /\ row.key \in Keys
      BY <2>1 DEF FirstOf, Claimable, Row
    <2>3. \A other \in requests : other.status # "processing"
      BY <1>1, <1>5 DEF PollFinds, Idle, Attended, Row
    <2> QED  BY <2>1, <2>2, <2>3, SetAttended
  <1>6. ASSUME NEW status \in {"complete", "failed"}, IssueEnds(status) PROVE Attended'
    <2>1. working \in Keys /\ working' = NoKey /\ requests' = Set(working, status, 0)
      BY <1>6 DEF IssueEnds, Idle, Attended
    <2>2. \A row \in requests : row.key # working => row.status # "processing"
      BY DEF Attended
    <2> QED  BY <2>1, <2>2, SetAttended
  <1>7. CASE PollFindsNone \/ Tick
    BY <1>7 DEF PollFindsNone, Tick, Attended
  <1> QED  BY <1>2, <1>3, <1>4, <1>5, <1>6, <1>7 DEF Next

(* The variables have their types, and the loop issues one token at a      *)
(* time (Router.run, processPending).                                      *)
THEOREM TypeCorrect == Spec => []TypeOK
  <1>1. Init => Attended
    BY DEF Init, Attended
  <1>2. LoopInv => requests \subseteq Row
    BY DEF LoopInv, Swept
  <1>3. LoopInv /\ Attended => TypeOK
    BY <1>2 DEF LoopInv, Types, Attended, TypeOK
  <1> QED  BY <1>1, <1>2, <1>3, InitInv, NextInv, NextAttended, PTL DEF Spec

=============================================================================
