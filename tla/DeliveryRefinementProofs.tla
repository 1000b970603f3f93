---------------------- MODULE DeliveryRefinementProofs ----------------------
(***************************************************************************)
(* Proof that the engine implements Delivery, for every number of          *)
(* endpoints, requests, workers and retries: every step is one of          *)
(* Delivery's on the log it concerns, or leaves what a publisher sees.     *)
(***************************************************************************)
EXTENDS DeliveryRefinement, DeliveryPromises

USE EngineAssumption

\* What the proofs so far have established of every state.
Established ==
  /\ TypeOK /\ Known /\ Evidence
  /\ \A l \in Logs : Sole(l)
  /\ \A l \in Logs : Budget(l)

\* The step concerns no log but l.
OnlyOf(l) ==
  \A m \in Logs : m # l =>
    /\ Aside(m)
    /\ \A d \in Dispatches : Enqueueing(d, m)' = Enqueueing(d, m)
    /\ \A p \in Replays : Requeueing(p, m)' = Requeueing(p, m)

LEMMA CarriedAside ==
  ASSUME NEW l, OnlyOf(l), NEW m \in Logs, m # l
  PROVE  Carried(m)' = Carried(m)
<1>1. \A w \in Workers : Working(w, m)' = Working(w, m)
  BY DEF OnlyOf, Aside, Working
<1>2. Queued(m)' = Queued(m)
  BY DEF OnlyOf, Aside, Queued
<1>. QED BY <1>1, <1>2 DEF OnlyOf, Carried

\* What a publisher sees of a step that concerns l only.
LEMMA SeenOf ==
  ASSUME TypeOK, TypeOK', NEW l \in created, OnlyOf(l), UNCHANGED created
  PROVE  /\ l \in Logs
         /\ StatusBar[l] = row[l].status
         /\ StatusBar' = [StatusBar EXCEPT ![l] = row'[l].status]
         /\ row'[l].status = row[l].status => StatusBar' = StatusBar
         /\ Carried(l)' => OwedBar' = OwedBar \cup {l}
         /\ ~Carried(l)' => OwedBar' = OwedBar \ {l}
         /\ Carried(l)' = Carried(l) => OwedBar' = OwedBar
         /\ (Carried(l)' => Carried(l)) => OwedBar' \in {OwedBar, OwedBar \ {l}}
<1>1. l \in Logs
  BY DEF TypeOK, RowType
<1>2. \A m \in Logs : m # l => row'[m] = row[m]
  BY DEF OnlyOf, Aside
<1>3. /\ StatusBar[l] = row[l].status
      /\ StatusBar' = [StatusBar EXCEPT ![l] = row'[l].status]
  BY <1>1, <1>2 DEF StatusBar
<1>4. row'[l].status = row[l].status => StatusBar' = StatusBar
  BY <1>3 DEF StatusBar
<1>5. \A m \in Logs : m # l => Carried(m)' = Carried(m)
  BY CarriedAside
<1>6. /\ Carried(l)' => OwedBar' = OwedBar \cup {l}
      /\ ~Carried(l)' => OwedBar' = OwedBar \ {l}
      /\ Carried(l)' = Carried(l) => OwedBar' = OwedBar
  BY <1>1, <1>5 DEF OwedBar
<1>7. (Carried(l)' => Carried(l)) => OwedBar' \in {OwedBar, OwedBar \ {l}}
  BY <1>1, <1>5 DEF OwedBar
<1>. QED BY <1>1, <1>3, <1>4, <1>6, <1>7

LEMMA SeenEndpoints ==
  ASSUME UNCHANGED endpoint
  PROVE  ClosedBar' = ClosedBar /\ GoneBar' = GoneBar
  BY DEF ClosedBar, GoneBar

\* A delivery is started by a message that is no retry.
LEMMA Starts ==
  ASSUME TypeOK, TypeOK', NEW l \in created, OnlyOf(l), NEW r \in 0..MaxRetries,
         queue' = Published(queue, l, r), chains' = [chains EXCEPT ![l] = @ + 1],
         UNCHANGED <<endpoint, created, row, attempts, refused, hit>>
  PROVE  D!Start(l)
<1>1. l \in Logs /\ queue'[l][r] = queue[l][r] + 1 /\ queue[l][r] \in Nat
  BY DEF TypeOK, RowType, QueueType, Published
<1>2. Carried(l)'
  BY <1>1 DEF Carried, Queued
<1>3. /\ StatusBar[l] = row[l].status /\ StatusBar' = StatusBar
      /\ OwedBar' = OwedBar \cup {l}
  BY <1>2, SeenOf
<1>4. row[l].status # "none"
  BY <1>1 DEF TypeOK, RowType, Columns, Statuses
<1>5. ClosedBar' = ClosedBar /\ GoneBar' = GoneBar
  BY SeenEndpoints
<1>. QED BY <1>3, <1>4, <1>5 DEF D!Start, D!taken, attempts

\* A delivery may be lost by a call that failed.
LEMMA Loses ==
  ASSUME TypeOK, TypeOK', NEW l \in created, OnlyOf(l), hit' = hit \cup {l},
         Carried(l)' => Carried(l),
         UNCHANGED <<endpoint, created, row, chains, attempts, refused>>
  PROVE  D!Lose(l)
<1>1. l \in Logs
  BY DEF TypeOK, RowType
<1>2. /\ StatusBar[l] = row[l].status /\ StatusBar' = StatusBar
      /\ OwedBar' \in {OwedBar, OwedBar \ {l}}
  BY SeenOf
<1>3. row[l].status # "none"
  BY <1>1 DEF TypeOK, RowType, Columns, Statuses
<1>4. ClosedBar' = ClosedBar /\ GoneBar' = GoneBar
  BY SeenEndpoints
<1>. QED BY <1>2, <1>3, <1>4 DEF D!Lose, D!taken, attempts

\* A carrier that stops at a settled row or at none lets the delivery rest.
LEMMA Rests ==
  ASSUME TypeOK, TypeOK', NEW l \in created, OnlyOf(l), Carried(l)' => Carried(l),
         Settled(l) \/ ~Live(l),
         UNCHANGED <<endpoint, created, row, chains, attempts, refused, hit>>
  PROVE  D!Rest(l) \/ UNCHANGED D!vars
<1>1. l \in Logs /\ row[l].status \in Statuses
  BY DEF TypeOK, RowType, Columns
<1>2. /\ StatusBar[l] = row[l].status /\ StatusBar' = StatusBar
      /\ OwedBar' \in {OwedBar, OwedBar \ {l}}
  BY SeenOf
<1>3. ClosedBar' = ClosedBar /\ GoneBar' = GoneBar
  BY SeenEndpoints
<1>4. StatusBar[l] \in D!Settled \/ l \in GoneBar
  BY <1>1, <1>2 DEF Settled, Unsettled, Statuses, D!Settled, Live, GoneBar
<1>. QED BY <1>2, <1>3, <1>4 DEF D!Rest, D!vars, D!taken, attempts

\* A step that neither moves a row nor what carries it.
LEMMA Unseen ==
  ASSUME TypeOK, TypeOK', NEW l \in created, OnlyOf(l), Carried(l)' = Carried(l),
         row'[l].status = row[l].status,
         UNCHANGED <<endpoint, created, chains, attempts, refused, hit>>
  PROVE  UNCHANGED D!vars
  BY SeenOf, SeenEndpoints DEF D!vars, D!taken, attempts

----------------------------------------------------------------------------
(* The steps of a worker. *)

LEMMA WorkerOnlyOf ==
  ASSUME TypeOK, Known, NEW w \in Workers, WorkerStep(w),
         ~\E l \in Logs, r \in 0..MaxRetries : Receive(w, l, r)
  PROVE  job[w].log \in created /\ OnlyOf(job[w].log) /\ UNCHANGED <<endpoint, created>>
<1>1. /\ job[w].pc # "idle"
      /\ \A m \in Logs : m # job[w].log => Aside(m)
      /\ UNCHANGED <<endpoint, created, dispatch, replay>>
  BY WorkerTouches
<1>2. job[w].log \in created
  BY <1>1, WorkersLog
<1>3. \A m \in Logs : /\ \A d \in Dispatches : Enqueueing(d, m)' = Enqueueing(d, m)
                      /\ \A p \in Replays : Requeueing(p, m)' = Requeueing(p, m)
  BY <1>1 DEF Enqueueing, Requeueing
<1>. QED BY <1>1, <1>2, <1>3 DEF OnlyOf

LEMMA TaskCarries ==
  ASSUME NEW l \in Logs, NEW w \in Workers, \A v \in Workers : v # w => job'[v] = job[v],
         queue'[l] = queue[l], UNCHANGED <<dispatch, replay>>
  PROVE  /\ Working(w, l)' = Working(w, l) => Carried(l)' = Carried(l)
         /\ ~Working(w, l)' => (Carried(l)' => Carried(l))
<1>1. \A v \in Workers : v # w => Working(v, l)' = Working(v, l)
  BY DEF Working
<1>2. Queued(l)' = Queued(l)
  BY DEF Queued
<1>3. /\ \A d \in Dispatches : Enqueueing(d, l)' = Enqueueing(d, l)
      /\ \A p \in Replays : Requeueing(p, l)' = Requeueing(p, l)
  BY DEF Enqueueing, Requeueing
<1>. QED BY <1>1, <1>2, <1>3 DEF Carried

\* A commit reports what its task has seen, unless the object was loaded with the
\* status it leaves: then the row keeps the one it has.
LEMMA Reports ==
  ASSUME Established, TypeOK', NEW w \in Workers, NEW l \in created, l = job[w].log,
         OnlyOf(l), job[w].pc \in {"recording", "disabling"},
         NEW mine \in Columns, NEW next \in {"acking", "publishing"}, Commit(w, mine, next),
         mine.status \in {"success", "failed", "retrying"},
         mine.status = "success" => confirmed[l] > 0,
         mine.status = "failed" => posts[l] > MaxRetries \/ l \in refused,
         mine.status = "retrying" <=> next = "publishing"
  PROVE  D!Report(l, mine.status) \/ UNCHANGED D!vars
<1>1. /\ TypeOK /\ l \in Logs /\ row[l].status \in Statuses /\ job[w] \in Jobs
      /\ chains[l] \in Nat
  BY DEF Established, TypeOK, RowType, JobType, Columns, HistoryType
<1>2. /\ Live(l)
      /\ row' = [row EXCEPT ![l] = Flush(@, job[w].loaded, mine)]
      /\ job' = [job EXCEPT ![w] = [@ EXCEPT !.pc = next, !.loaded = NewRow,
                                            !.outcome = None]]
      /\ UNCHANGED <<endpoint, created, queue, dispatch, replay,
                     attempts, chains, refused, hit>>
  BY DEF Commit, history
<1>3. /\ job'[w].pc = next /\ job'[w].log = l
      /\ \A v \in Workers : v # w => job'[v] = job[v]
  BY <1>1, <1>2 DEF TypeOK, JobType, Jobs
<1>4. row'[l].status =
        IF mine.status = job[w].loaded.status THEN row[l].status ELSE mine.status
  BY <1>1, <1>2, FlushStatus DEF TypeOK, RowType
<1>5. Working(w, l)' <=> mine.status = "retrying"
  BY <1>3 DEF Working
<1>6. Working(w, l) <=> job[w].loaded.status \in Unsettled
  BY DEF Working
<1>7. CASE mine.status = job[w].loaded.status
  <2>1. Working(w, l)' = Working(w, l)
    BY <1>3, <1>7 DEF Working, Unsettled
  <2>2. Carried(l)' = Carried(l)
    BY <1>1, <1>2, <1>3, <2>1, TaskCarries
  <2>. QED BY <1>1, <1>2, <1>4, <1>7, <2>2, Unseen
<1>8. CASE mine.status # job[w].loaded.status
  <2>1. /\ StatusBar[l] = row[l].status
        /\ StatusBar' = [StatusBar EXCEPT ![l] = mine.status]
    BY <1>1, <1>2, <1>4, <1>8, SeenOf
  <2>2. ClosedBar' = ClosedBar /\ GoneBar' = GoneBar /\ l \notin GoneBar
    BY <1>2, SeenEndpoints DEF Live, GoneBar
  <2>3. \/ row[l].status \in D!Open
        \/ row[l].status \in D!Settled /\ chains[l] > 1
    <3>1. CASE chains[l] < 2
      <4>1. ~Settled(l)
        BY <1>1, <3>1 DEF Established, Sole, OpenWhileCarried, Busy
      <4>. QED BY <1>1, <4>1 DEF Settled, Unsettled, Statuses, D!Open, D!Settled
    <3>2. CASE ~(chains[l] < 2)
      BY <1>1, <3>2 DEF Statuses, D!Open, D!Settled
    <3>. QED BY <3>1, <3>2
  <2>4. IF mine.status \in D!Settled THEN OwedBar' \in {OwedBar, OwedBar \ {l}}
                                     ELSE OwedBar' = OwedBar \cup {l}
    <3>1. CASE mine.status = "retrying"
      <4>1. Carried(l)'
        BY <1>5, <3>1 DEF Carried
      <4>. QED BY <1>1, <1>2, <3>1, <4>1, SeenOf DEF D!Settled
    <3>2. CASE mine.status # "retrying"
      <4>1. Carried(l)' => Carried(l)
        BY <1>1, <1>2, <1>3, <1>5, <3>2, TaskCarries
      <4>. QED BY <1>1, <1>2, <3>2, <4>1, SeenOf DEF D!Settled
    <3>. QED BY <3>1, <3>2
  <2>. QED BY <1>2, <2>1, <2>2, <2>3, <2>4 DEF D!Report, D!taken, attempts
<1>. QED BY <1>7, <1>8

LEMMA WorkerReports ==
  ASSUME Established, TypeOK', NEW w \in Workers, NEW l \in created, l = job[w].log,
         OnlyOf(l), RecordSuccess(w) \/ RecordRetry(w) \/ RecordFailed(w) \/ RecordRefused(w)
  PROVE  \/ \E s \in {"success", "failed", "retrying"} : D!Report(l, s)
         \/ UNCHANGED D!vars
<1>1. /\ TypeOK /\ l \in Logs /\ job[w] \in Jobs /\ TaskEvidence(w)
      /\ posts[l] \in Nat /\ job[w].retries \in 0..MaxRetries
      /\ job[w].loaded \in Columns
      /\ job[w].pc = "recording" => job[w].outcome \in Outcomes
  BY DEF Established, TypeOK, RowType, JobType, Jobs, HistoryType, Evidence
<1>2. \A status \in Statuses :
        /\ job[w].pc = "recording" =>
             Recorded(job[w].loaded, job[w].retries, job[w].outcome, status) \in Columns
        /\ Recorded(job[w].loaded, job[w].retries, job[w].outcome, status).status = status
  BY <1>1, RecordedType DEF Recorded
<1>3. CASE RecordSuccess(w)
  <2>. DEFINE mine == Recorded(job[w].loaded, job[w].retries, job[w].outcome, "success")
  <2>1. /\ job[w].pc = "recording" /\ job[w].outcome \in GoodCodes
        /\ Commit(w, mine, "acking")
    BY <1>3 DEF RecordSuccess
  <2>2. mine \in Columns /\ mine.status = "success" /\ confirmed[l] > 0
    BY <1>1, <1>2, <2>1 DEF Statuses, TaskEvidence
  <2>. HIDE DEF mine
  <2>. QED BY <2>1, <2>2, Reports
<1>4. CASE RecordRetry(w)
  <2>. DEFINE mine == Recorded(job[w].loaded, job[w].retries, job[w].outcome, "retrying")
  <2>1. job[w].pc = "recording" /\ Commit(w, mine, "publishing")
    BY <1>4 DEF RecordRetry
  <2>2. mine \in Columns /\ mine.status = "retrying"
    BY <1>2, <2>1 DEF Statuses
  <2>. HIDE DEF mine
  <2>. QED BY <2>1, <2>2, Reports
<1>5. CASE RecordFailed(w)
  <2>. DEFINE mine == Recorded(job[w].loaded, job[w].retries, job[w].outcome, "failed")
  <2>1. /\ job[w].pc = "recording" /\ ~(job[w].retries < MaxRetries)
        /\ Commit(w, mine, "acking")
    BY <1>5 DEF RecordFailed
  <2>2. mine \in Columns /\ mine.status = "failed" /\ posts[l] > MaxRetries
    BY <1>1, <1>2, <2>1 DEF Statuses, TaskEvidence
  <2>. HIDE DEF mine
  <2>. QED BY <2>1, <2>2, Reports
<1>6. CASE RecordRefused(w)
  <2>. DEFINE mine == Refused(job[w].loaded)
  <2>1. job[w].pc = "disabling" /\ Commit(w, mine, "acking")
    BY <1>6 DEF RecordRefused
  <2>2. mine \in Columns /\ mine.status = "failed"
    BY <1>1 DEF Refused, Columns, Statuses
  <2>3. l \in refused
    BY <1>1, <2>1 DEF TaskEvidence
  <2>. HIDE DEF mine
  <2>. QED BY <2>1, <2>2, <2>3, Reports
<1>. QED BY <1>3, <1>4, <1>5, <1>6

\* An attempt is made within what is left of the budget.
LEMMA Attempts ==
  ASSUME Established, TypeOK', NEW w \in Workers, NEW outcome \in Outcomes, Post(w, outcome),
         NEW l \in created, l = job[w].log, OnlyOf(l)
  PROVE  D!Attempt(l)
<1>1. /\ TypeOK /\ l \in Logs /\ Budget(l) /\ job[w] \in Jobs
      /\ chains[l] \in Nat /\ posts[l] \in Nat /\ confirmed[l] \in Nat
  BY DEF Established, TypeOK, RowType, JobType, HistoryType
<1>2. /\ job[w].pc = "sending"
      /\ job' = [job EXCEPT ![w].pc = "recording", ![w].outcome = outcome]
      /\ posts' = [posts EXCEPT ![l] = @ + 1]
      /\ UNCHANGED <<endpoint, created, row, queue, dispatch, replay, chains, refused, hit>>
  BY DEF Post
<1>3. /\ \A v \in Workers : v # w => job'[v] = job[v]
      /\ job'[w].pc = "recording" /\ job'[w].log = l /\ job'[w].loaded = job[w].loaded
  BY <1>1, <1>2 DEF TypeOK, JobType, Jobs
<1>4. Working(w, l)' = Working(w, l)
  BY <1>2, <1>3 DEF Working
<1>5. Carried(l)' = Carried(l)
  BY <1>1, <1>2, <1>3, <1>4, TaskCarries
<1>6. StatusBar' = StatusBar /\ OwedBar' = OwedBar
  BY <1>1, <1>2, <1>5, SeenOf
<1>7. ClosedBar' = ClosedBar /\ GoneBar' = GoneBar
  BY <1>2, SeenEndpoints
<1>8. /\ Seat(w, l) = 1 /\ Share(w, l) \in Nat /\ Share(w, l) > 0
  BY <1>1, <1>2 DEF Seat, Share, MayPost, NextTry, Jobs
<1>9. /\ Cardinality(Waiting(l)) \in Nat /\ Cardinality(WaitingTries(l)) \in Nat
      /\ Cardinality(Trying(l)) \in Nat /\ Cardinality(TaskTries(l)) \in Nat
      /\ Cardinality(Trying(l)) >= 1 /\ Cardinality(TaskTries(l)) > 0
  <2>1. /\ Cardinality(Trying(l) \ {w}) \in Nat
        /\ Cardinality(Trying(l)) = Cardinality(Trying(l) \ {w}) + Seat(w, l)
        /\ Cardinality(TaskTries(l) \ Run(w, 0)) \in Nat
        /\ Cardinality(TaskTries(l)) = Cardinality(TaskTries(l) \ Run(w, 0)) + Share(w, l)
    BY <1>1, TaskSplit DEF Budget, ConfirmedBudget, PostBudget
  <2>2. Cardinality(Waiting(l)) \in Nat /\ Cardinality(WaitingTries(l)) \in Nat
    BY <1>1, FS_CardinalityType DEF Budget, ConfirmedBudget, PostBudget
  <2>. QED BY <1>8, <2>1, <2>2
<1>10. confirmed[l] < chains[l]
  BY <1>1, <1>9 DEF Budget, ConfirmedBudget
<1>11. posts[l] < (MaxRetries + 1) * chains[l]
  <2>. DEFINE b == (MaxRetries + 1) * chains[l]
  <2>1. b \in Nat
    BY <1>1
  <2>2. Cardinality(WaitingTries(l)) + Cardinality(TaskTries(l)) + posts[l] <= b
    BY <1>1 DEF Budget, PostBudget
  <2>. HIDE DEF b
  <2>3. posts[l] < b
    BY <1>1, <1>9, <2>1, <2>2
  <2>. QED BY <2>3 DEF b
<1>12. /\ accepted' \in {accepted, [accepted EXCEPT ![l] = @ + 1]}
       /\ \/ UNCHANGED confirmed
          \/ /\ confirmed' = [confirmed EXCEPT ![l] = @ + 1]
             /\ accepted' = [accepted EXCEPT ![l] = @ + 1]
  BY DEF Post
<1>13. accepted' = [accepted EXCEPT ![l] = @ + 1] => accepted' # accepted
  <2>1. accepted \in [Logs -> Nat]
    BY <1>1 DEF TypeOK, HistoryType
  <2>2. [accepted EXCEPT ![l] = @ + 1][l] = accepted[l] + 1 /\ accepted[l] + 1 # accepted[l]
    BY <1>1, <2>1
  <2>. QED BY <2>2
<1>. QED BY <1>2, <1>6, <1>7, <1>10, <1>11, <1>12, <1>13 DEF D!Attempt

\* The steps that follow a message: to an endpoint that takes the delivery or is
\* gone, and to one that is disabled.
LEMMA Receives ==
  ASSUME Established, TypeOK', NEW w \in Workers, NEW l \in Logs, NEW r \in 0..MaxRetries,
         Receive(w, l, r)
  PROVE  D!Rest(l) \/ D!TurnAway(l) \/ UNCHANGED D!vars
<1>1. /\ TypeOK /\ Known /\ queue[l][r] \in Nat /\ chains[l] \in Nat
      /\ queue[l][r] > 0
      /\ \A m \in Logs : m # l => Aside(m)
      /\ UNCHANGED <<endpoint, created, row, dispatch, replay, attempts, chains, hit>>
      /\ \A v \in Workers : v # w => job'[v] = job[v]
      /\ job'[w].log = l
      /\ job'[w].pc \in {"acking", "disabling", "sending"}
      /\ Live(l) => job'[w].pc # "acking" /\ job'[w].loaded = row[l]
  <2>1. TypeOK /\ Known
    BY DEF Established
  <2>2. queue[l][r] \in Nat /\ chains[l] \in Nat
    BY <2>1 DEF TypeOK, QueueType, HistoryType
  <2>. QED BY <2>1, <2>2, ReceiveTouches
<1>2. l \in created
  BY <1>1 DEF Known, Unstarted, RowsInserted
<1>3. OnlyOf(l)
  BY <1>1 DEF OnlyOf, Enqueueing, Requeueing
<1>4. Carried(l)
  BY <1>1 DEF Carried, Queued
<1>5. Live(l) /\ ~Settled(l) => Carried(l)'
  BY <1>1 DEF Working, Settled, Carried
<1>6. CASE Live(l) /\ endpoint[EndpointOf(l)] = "inactive"
  <2>1. refused' = refused \cup {l}
    BY <1>6 DEF Receive
  <2>2. /\ StatusBar[l] = row[l].status /\ StatusBar' = StatusBar
        /\ OwedBar' \in {OwedBar, OwedBar \ {l}}
        /\ Carried(l)' => OwedBar' = OwedBar
    BY <1>1, <1>2, <1>3, <1>4, SeenOf
  <2>3. ClosedBar' = ClosedBar /\ GoneBar' = GoneBar
    BY <1>1, SeenEndpoints
  <2>4. l \in OwedBar /\ l \in ClosedBar \ GoneBar
    BY <1>4, <1>6 DEF OwedBar, ClosedBar, GoneBar
  <2>5. StatusBar[l] \in D!Open => OwedBar' = OwedBar
    BY <1>5, <1>6, <2>2 DEF D!Open, Settled, Unsettled
  <2>. QED BY <1>1, <2>1, <2>2, <2>3, <2>4, <2>5 DEF D!TurnAway, D!taken, attempts
<1>7. CASE ~(Live(l) /\ endpoint[EndpointOf(l)] = "inactive")
  <2>1. UNCHANGED refused
    BY <1>7 DEF Receive
  <2>2. CASE Live(l) /\ ~Settled(l)
    <3>1. Carried(l)' = Carried(l)
      BY <1>4, <1>5, <2>2
    <3>. QED BY <1>1, <1>2, <1>3, <2>1, <3>1, Unseen
  <2>3. CASE ~(Live(l) /\ ~Settled(l))
    BY <1>1, <1>2, <1>3, <1>4, <2>1, <2>3, Rests
  <2>. QED BY <2>2, <2>3
<1>. QED BY <1>6, <1>7

LEMMA WorkerImplements ==
  ASSUME Established, TypeOK', NEW w \in Workers, WorkerStep(w)
  PROVE  D!Next \/ UNCHANGED D!vars
<1>0. TypeOK /\ Known
  BY DEF Established
<1>1. ASSUME NEW l \in Logs, NEW r \in 0..MaxRetries, Receive(w, l, r)
      PROVE  D!Next \/ UNCHANGED D!vars
  BY <1>1, Receives DEF D!Next
<1>2. CASE ~\E l \in Logs, r \in 0..MaxRetries : Receive(w, l, r)
  <2>1. PICK l \in created : l = job[w].log /\ OnlyOf(l) /\ UNCHANGED <<endpoint, created>>
    BY <1>0, <1>2, WorkerOnlyOf
  <2>2. l \in Logs /\ job[w] \in Jobs /\ job[w].retries \in 0..MaxRetries
    BY <1>0 DEF TypeOK, RowType, JobType, Jobs
  <2>3. ASSUME NEW outcome \in Outcomes, Post(w, outcome) PROVE D!Next
    BY <2>1, <2>2, <2>3, Attempts DEF D!Next
  <2>4. CASE RecordSuccess(w) \/ RecordRetry(w) \/ RecordFailed(w) \/ RecordRefused(w)
    BY <2>1, <2>2, <2>4, WorkerReports DEF D!Next
  <2>5. CASE PublishRetry(w)
    <3>1. /\ job[w].pc = "publishing" /\ job[w].retries + 1 \in 0..MaxRetries
          /\ queue' = Published(queue, l, job[w].retries + 1)
          /\ UNCHANGED <<created, row, chains, attempts, refused, hit>>
      BY <1>0, <2>1, <2>2, <2>5 DEF PublishRetry, history, TypeOK, JobType
    <3>2. Carried(l)
      BY <2>1, <3>1 DEF Carried, Working
    <3>3. Carried(l)'
      <4>. DEFINE r == job[w].retries + 1
      <4>1. queue'[l][r] = queue[l][r] + 1 /\ queue[l][r] \in Nat
        BY <1>0, <2>2, <3>1 DEF TypeOK, QueueType, Published
      <4>. HIDE DEF r
      <4>. QED BY <3>1, <4>1 DEF Carried, Queued, r
    <3>. QED BY <1>0, <2>1, <3>1, <3>2, <3>3, Unseen
  <2>6. CASE Ack(w) \/ CommitStale(w) \/ TaskFails(w)
    <3>1. /\ UNCHANGED <<queue, row, dispatch, replay, chains, attempts, refused>>
          /\ \A v \in Workers : v # w => job'[v] = job[v]
          /\ job'[w].pc = "idle"
      BY <1>0, <2>6 DEF Ack, CommitStale, TaskFails, history, TypeOK, JobType, Idle
    <3>2. ~Working(w, l)'
      BY <3>1 DEF Working
    <3>3. Carried(l)' => Carried(l)
      BY <2>2, <3>1, <3>2, TaskCarries
    <3>4. CASE Ack(w)
      <4>1. Working(w, l)' = Working(w, l) /\ UNCHANGED hit
        BY <3>1, <3>4 DEF Ack, Working, history
      <4>2. Carried(l)' = Carried(l)
        BY <2>2, <3>1, <3>2, <4>1, TaskCarries
      <4>. QED BY <1>0, <2>1, <3>1, <4>1, <4>2, Unseen
    <3>5. CASE CommitStale(w)
      <4>1. ~Live(l) /\ UNCHANGED hit
        BY <2>1, <3>5 DEF CommitStale, history
      <4>. QED BY <1>0, <2>1, <2>2, <3>1, <3>3, <4>1, Rests DEF D!Next
    <3>6. CASE TaskFails(w)
      <4>1. hit' = hit \cup {l}
        BY <2>1, <3>6 DEF TaskFails
      <4>. QED BY <1>0, <2>1, <2>2, <3>1, <3>3, <4>1, Loses DEF D!Next
    <3>. QED BY <2>6, <3>4, <3>5, <3>6
  <2>7. CASE WorkerLost(w) \/ Redeliver(w)
    <3>1. /\ queue' = Published(queue, l, job[w].retries)
          /\ chains' = [chains EXCEPT ![l] = @ + 1]
          /\ UNCHANGED <<endpoint, created, row, attempts, refused, hit>>
      BY <2>1, <2>7 DEF WorkerLost, Redeliver
    <3>. QED BY <1>0, <2>1, <2>2, <3>1, Starts DEF D!Next
  <2>. QED BY <1>2, <2>3, <2>4, <2>5, <2>6, <2>7 DEF WorkerStep, WorkerProgress, AttemptEnds
<1>. QED BY <1>1, <1>2

----------------------------------------------------------------------------
(* The steps of the handlers and of the operator. *)

\* Nothing is carried by a task or a row that the step leaves alone.
LEMMA HandlerOnlyOf ==
  ASSUME NEW l, UNCHANGED <<job>>,
         \A m \in Logs : m # l =>
           /\ queue'[m] = queue[m] /\ row'[m] = row[m] /\ chains'[m] = chains[m]
           /\ posts'[m] = posts[m] /\ confirmed'[m] = confirmed[m]
           /\ \A d \in Dispatches : Enqueueing(d, m)' = Enqueueing(d, m)
           /\ \A p \in Replays : Requeueing(p, m)' = Requeueing(p, m)
  PROVE  OnlyOf(l)
  BY DEF OnlyOf, Aside

LEMMA HandlerUnseen ==
  ASSUME UNCHANGED <<endpoint, created, row, queue, job, attempts, chains, refused, hit>>,
         \A m \in Logs, d \in Dispatches : Enqueueing(d, m)' = Enqueueing(d, m),
         \A m \in Logs, p \in Replays : Requeueing(p, m)' = Requeueing(p, m)
  PROVE  UNCHANGED D!vars
<1>1. StatusBar' = StatusBar
  BY DEF StatusBar
<1>2. \A m \in Logs : Carried(m)' = Carried(m)
  <2>. SUFFICES ASSUME NEW m \in Logs PROVE Carried(m)' = Carried(m)
    OBVIOUS
  <2>1. Queued(m)' = Queued(m)
    BY DEF Queued
  <2>2. \A w \in Workers : Working(w, m)' = Working(w, m)
    BY DEF Working
  <2>. QED BY <2>1, <2>2 DEF Carried
<1>3. OwedBar' = OwedBar
  BY <1>2 DEF OwedBar
<1>. QED BY <1>1, <1>3, SeenEndpoints DEF D!vars, D!taken, attempts

\* The operator's steps.
LEMMA OperatorImplements ==
  ASSUME TypeOK, OperatorStep
  PROVE  D!Next \/ UNCHANGED D!vars
<1>1. UNCHANGED <<created, row, queue, job, dispatch, replay, history>>
  BY DEF OperatorStep, CreateEndpoint, Disable, Enable, Remove
<1>2. StatusBar' = StatusBar /\ OwedBar' = OwedBar
  BY <1>1 DEF StatusBar, OwedBar, Carried, Queued, Working, Enqueueing, Requeueing
<1>3. PICK e \in Endpoints : CreateEndpoint(e) \/ Disable(e) \/ Enable(e) \/ Remove(e)
  BY DEF OperatorStep
<1>. DEFINE S == {l \in Logs : EndpointOf(l) = e}
<1>4. \A l \in Logs : EndpointOf(l) \in Endpoints
  BY DEF Logs, EndpointOf
<1>5. \/ /\ endpoint[e] = "absent"
         /\ endpoint' = [endpoint EXCEPT ![e] = "active"]
      \/ endpoint' = [endpoint EXCEPT ![e] = "inactive"] /\ endpoint[e] # "removed"
      \/ endpoint' = [endpoint EXCEPT ![e] = "active"] /\ endpoint[e] = "inactive"
      \/ endpoint' = [endpoint EXCEPT ![e] = "removed"]
  BY <1>3 DEF CreateEndpoint, Disable, Enable, Remove
<1>6. endpoint \in [Endpoints -> {"absent", "active", "inactive", "removed"}]
  BY DEF TypeOK, EndpointType
<1>7. CASE endpoint[e] = "absent" /\ endpoint' = [endpoint EXCEPT ![e] = "active"]
  <2>1. ClosedBar' = ClosedBar /\ GoneBar' = GoneBar
    BY <1>4, <1>6, <1>7 DEF ClosedBar, GoneBar
  <2>. QED BY <1>1, <1>2, <2>1 DEF D!vars, D!taken, history, attempts
<1>8. CASE endpoint' = [endpoint EXCEPT ![e] = "inactive"] /\ endpoint[e] # "removed"
  <2>1. ClosedBar' = ClosedBar \cup S /\ GoneBar' = GoneBar
    BY <1>4, <1>6, <1>8 DEF ClosedBar, GoneBar
  <2>2. D!Close(S)
    BY <1>1, <1>2, <2>1 DEF D!Close, D!taken, history, attempts
  <2>. QED BY <2>2 DEF D!Next
<1>9. CASE endpoint' = [endpoint EXCEPT ![e] = "removed"]
  <2>1. ClosedBar' = ClosedBar \cup S /\ GoneBar' = GoneBar \cup S
    BY <1>4, <1>6, <1>9 DEF ClosedBar, GoneBar
  <2>2. D!Close(S)
    BY <1>1, <1>2, <2>1 DEF D!Close, D!taken, history, attempts
  <2>. QED BY <2>2 DEF D!Next
<1>10. CASE endpoint' = [endpoint EXCEPT ![e] = "active"] /\ endpoint[e] = "inactive"
  <2>1. ClosedBar' = ClosedBar \ S /\ GoneBar' = GoneBar /\ S \cap GoneBar = {}
    BY <1>4, <1>6, <1>10 DEF ClosedBar, GoneBar
  <2>2. D!Admit(S)
    BY <1>1, <1>2, <2>1 DEF D!Admit, D!taken, history, attempts
  <2>. QED BY <2>2 DEF D!Next
<1>. QED BY <1>5, <1>7, <1>8, <1>9, <1>10

LEMMA DispatchImplements ==
  ASSUME Established, TypeOK', NEW d \in Dispatches, DispatchStep(d)
  PROVE  D!Next \/ UNCHANGED D!vars
<1>0. /\ TypeOK /\ Known
      /\ UNCHANGED <<endpoint, job, replay, attempts, refused>>
      /\ \A c \in Dispatches : c # d => dispatch'[c] = dispatch[c]
      /\ dispatch[d] \in DispatchStates
      /\ \A e \in Endpoints : <<d, e>> \in Logs
  <2>1. TypeOK /\ Known
    BY DEF Established
  <2>2. dispatch \in [Dispatches -> DispatchStates] /\ \A e \in Endpoints : <<d, e>> \in Logs
    BY <2>1 DEF TypeOK, DispatchType, Logs
  <2>3. /\ UNCHANGED <<endpoint, job, replay, attempts, refused>>
        /\ \A c \in Dispatches : c # d => dispatch'[c] = dispatch[c]
    BY <2>2 DEF DispatchStep, DispatchProgress, DispatchList, DispatchCreate, DispatchPublish,
                DispatchFails, history
  <2>. QED BY <2>1, <2>2, <2>3
<1>1. \A m \in Logs : /\ \A c \in Dispatches : c # d => Enqueueing(c, m)' = Enqueueing(c, m)
                      /\ \A p \in Replays : Requeueing(p, m)' = Requeueing(p, m)
  BY <1>0 DEF Enqueueing, Requeueing
<1>2. ASSUME UNCHANGED <<created, row, queue, chains, hit>>,
             dispatch[d].pc # "enqueueing", dispatch'[d].pc # "enqueueing"
      PROVE  UNCHANGED D!vars
  <2>1. \A m \in Logs : Enqueueing(d, m)' = Enqueueing(d, m)
    BY <1>2 DEF Enqueueing
  <2>2. \A m \in Logs, c \in Dispatches : Enqueueing(c, m)' = Enqueueing(c, m)
    BY <1>1, <2>1
  <2>. QED BY <1>0, <1>1, <1>2, <2>2, HandlerUnseen
<1>3. CASE DispatchList(d)
  <2>1. /\ UNCHANGED <<created, row, queue, chains, hit>>
        /\ dispatch[d].pc # "enqueueing" /\ dispatch'[d].pc # "enqueueing"
    BY <1>3 DEF DispatchList, history, TypeOK, DispatchType, DispatchStates
  <2>. QED BY <1>2, <2>1
<1>4. ASSUME NEW e \in Endpoints, DispatchCreate(d, e)
      PROVE  D!Next \/ UNCHANGED D!vars
  <2>1. CASE endpoint[e] = "removed"
    <3>1. /\ UNCHANGED <<created, row, queue, chains, hit>>
          /\ dispatch[d].pc # "enqueueing" /\ dispatch'[d].pc # "enqueueing"
      BY <1>0, <1>4, <2>1 DEF DispatchCreate, history, TypeOK, DispatchType, DispatchStates
    <3>. QED BY <1>2, <3>1
  <2>2. CASE endpoint[e] # "removed"
    <3>1. PICK l \in Logs : l = <<d, e>>
      BY <1>0
    <3>2. /\ dispatch[d].pc = "looping" /\ l \notin created
          /\ dispatch'[d].pc = "enqueueing" /\ dispatch'[d].at = e
          /\ created' = created \cup {l} /\ row' = [row EXCEPT ![l] = NewRow]
          /\ UNCHANGED <<queue, chains, hit>>
      BY <1>0, <1>4, <2>2, <3>1 DEF DispatchCreate, history, TypeOK, DispatchType,
                                    DispatchStates, Known, LoopOrder
    <3>3. /\ Enqueueing(d, l)'
          /\ \A m \in Logs : m # l => Enqueueing(d, m)' = Enqueueing(d, m)
      BY <3>1, <3>2 DEF Enqueueing
    <3>4. \A m \in Logs : m # l => row'[m] = row[m]
      BY <1>0, <3>2 DEF TypeOK, RowType
    <3>5. OnlyOf(l)
      BY <1>0, <1>1, <3>2, <3>3, <3>4, HandlerOnlyOf DEF attempts
    <3>6. \A m \in Logs : m # l => Carried(m)' = Carried(m)
      BY <3>5, CarriedAside
    <3>7. Carried(l)'
      BY <3>3 DEF Carried
    <3>8. OwedBar' = OwedBar \cup {l}
      BY <3>6, <3>7 DEF OwedBar
    <3>9. row'[l].status = "pending"
      BY <1>0, <3>2 DEF TypeOK, RowType, NewRow
    <3>10. StatusBar[l] = "none" /\ StatusBar' = [StatusBar EXCEPT ![l] = "pending"]
      <4>1. l \notin created /\ l \in created'
        BY <3>2
      <4>2. \A m \in Logs : m # l => (m \in created' <=> m \in created) /\ row'[m] = row[m]
        BY <3>2, <3>4
      <4>. QED BY <3>9, <4>1, <4>2 DEF StatusBar
    <3>11. ClosedBar' = ClosedBar /\ GoneBar' = GoneBar /\ l \notin GoneBar
      BY <1>0, <2>2, <3>1, SeenEndpoints DEF GoneBar, EndpointOf
    <3>12. D!Accept(l)
      BY <1>0, <3>2, <3>8, <3>10, <3>11 DEF D!Accept, D!taken, attempts
    <3>. QED BY <3>12 DEF D!Next
  <2>. QED BY <2>1, <2>2
<1>5. CASE dispatch[d].pc = "enqueueing" /\ (DispatchPublish(d) \/ DispatchFails(d))
  <2>1. PICK l \in created : l = <<d, dispatch[d].at>>
    BY <1>0, <1>5 DEF Known, LoopOrder
  <2>2. l \in Logs /\ Enqueueing(d, l) /\ dispatch'[d].pc # "enqueueing"
    BY <1>0, <1>5, <2>1 DEF DispatchPublish, DispatchFails, Enqueueing, TypeOK, RowType,
                            DispatchType, DispatchStates
  <2>3. \A m \in Logs : m # l => Enqueueing(d, m)' = Enqueueing(d, m)
    BY <2>1, <2>2 DEF Enqueueing
  <2>4. CASE DispatchPublish(d)
    <3>1. /\ queue' = Published(queue, l, 0) /\ chains' = [chains EXCEPT ![l] = @ + 1]
          /\ UNCHANGED <<created, row, hit>>
      BY <2>1, <2>4 DEF DispatchPublish
    <3>2. \A m \in Logs : m # l => queue'[m] = queue[m] /\ chains'[m] = chains[m]
      BY <1>0, <3>1 DEF TypeOK, QueueType, HistoryType, Published
    <3>3. OnlyOf(l)
      BY <1>0, <1>1, <2>3, <3>1, <3>2, HandlerOnlyOf DEF attempts
    <3>4. 0 \in 0..MaxRetries
      OBVIOUS
    <3>. QED BY <1>0, <2>2, <3>1, <3>3, <3>4, Starts DEF D!Next
  <2>5. CASE DispatchFails(d)
    <3>1. hit' = hit \cup {l} /\ UNCHANGED <<created, row, queue, chains>>
      BY <1>5, <2>1, <2>5 DEF DispatchFails
    <3>2. OnlyOf(l)
      BY <1>0, <1>1, <2>3, <3>1, HandlerOnlyOf DEF attempts
    <3>3. Carried(l)
      BY <2>2 DEF Carried
    <3>. QED BY <1>0, <2>2, <3>1, <3>2, <3>3, Loses DEF D!Next
  <2>. QED BY <1>5, <2>4, <2>5
<1>6. CASE dispatch[d].pc # "enqueueing" /\ DispatchFails(d)
  <2>1. /\ UNCHANGED <<created, row, queue, chains, hit>>
        /\ dispatch'[d].pc # "enqueueing"
    BY <1>0, <1>6 DEF DispatchFails, TypeOK, DispatchType, DispatchStates
  <2>. QED BY <1>2, <1>6, <2>1
<1>. QED BY <1>3, <1>4, <1>5, <1>6 DEF DispatchStep, DispatchProgress, DispatchPublish

LEMMA ReplayImplements ==
  ASSUME Established, TypeOK', NEW p \in Replays, ReplayStep(p)
  PROVE  D!Next \/ UNCHANGED D!vars
<1>0. /\ TypeOK /\ Known
      /\ UNCHANGED <<endpoint, created, job, dispatch, attempts, refused>>
      /\ \A q \in Replays : q # p => replay'[q] = replay[q]
      /\ replay[p] \in ReplayStates
  <2>1. TypeOK /\ Known
    BY DEF Established
  <2>2. replay \in [Replays -> ReplayStates]
    BY <2>1 DEF TypeOK, ReplayType
  <2>3. /\ UNCHANGED <<endpoint, created, job, dispatch, attempts, refused>>
        /\ \A q \in Replays : q # p => replay'[q] = replay[q]
    BY <2>2 DEF ReplayStep, ReplayProgress, ReplayLoad, ReplayReset, ReplayPublish,
                ReplayFails, history
  <2>. QED BY <2>1, <2>2, <2>3
<1>1. \A m \in Logs : /\ \A q \in Replays : q # p => Requeueing(q, m)' = Requeueing(q, m)
                      /\ \A d \in Dispatches : Enqueueing(d, m)' = Enqueueing(d, m)
  BY <1>0 DEF Enqueueing, Requeueing
<1>2. ASSUME UNCHANGED <<row, queue, chains, hit>>,
             replay[p].pc # "requeueing", replay'[p].pc # "requeueing"
      PROVE  UNCHANGED D!vars
  <2>1. \A m \in Logs : Requeueing(p, m)' = Requeueing(p, m)
    BY <1>2 DEF Requeueing
  <2>2. \A m \in Logs, q \in Replays : Requeueing(q, m)' = Requeueing(q, m)
    BY <1>1, <2>1
  <2>. QED BY <1>0, <1>1, <1>2, <2>2, HandlerUnseen
<1>3. ASSUME NEW l \in Logs, ReplayLoad(p, l) PROVE UNCHANGED D!vars
  <2>1. /\ UNCHANGED <<row, queue, chains, hit>>
        /\ replay[p].pc # "requeueing" /\ replay'[p].pc # "requeueing"
    BY <1>3 DEF ReplayLoad, history, TypeOK, ReplayType, ReplayStates
  <2>. QED BY <1>2, <2>1
<1>4. CASE replay[p].pc = "resetting" /\ (ReplayFails(p) \/ ~Live(replay[p].log))
           /\ (ReplayFails(p) \/ ReplayReset(p))
  <2>1. /\ UNCHANGED <<row, queue, chains, hit>>
        /\ replay[p].pc # "requeueing" /\ replay'[p].pc # "requeueing"
    BY <1>0, <1>4 DEF ReplayReset, ReplayFails, history, TypeOK, ReplayType, ReplayStates
  <2>. QED BY <1>2, <2>1
<1>5. CASE ReplayReset(p) /\ Live(replay[p].log)
  <2>1. PICK l \in Logs : l = replay[p].log
    BY <1>0, <1>5 DEF ReplayReset, TypeOK, ReplayType
  <2>2. /\ replay[p].pc = "resetting" /\ replay'[p].pc = "requeueing"
        /\ replay'[p].log = l /\ l \in created /\ replay[p].loaded \in Columns
        /\ row' = [row EXCEPT ![l] = Flush(@, replay[p].loaded, Reset(replay[p].loaded))]
        /\ UNCHANGED <<queue, chains, hit>>
    BY <1>0, <1>5, <2>1 DEF ReplayReset, history, Live, TypeOK, ReplayType, ReplayStates
  <2>3. Requeueing(p, l)' /\ \A m \in Logs : m # l => Requeueing(p, m)' = Requeueing(p, m)
    BY <2>2 DEF Requeueing
  <2>4. \A m \in Logs : m # l => row'[m] = row[m]
    BY <1>0, <2>2 DEF TypeOK, RowType
  <2>5. OnlyOf(l)
    BY <1>0, <1>1, <2>2, <2>3, <2>4, HandlerOnlyOf DEF attempts
  <2>6. Carried(l)'
    BY <2>3 DEF Carried
  <2>7. Reset(replay[p].loaded).status = "pending"
    BY <2>2 DEF Reset, Columns
  <2>8. row'[l].status \in {row[l].status, "pending"}
    BY <1>0, <2>2, <2>7, FlushStatus DEF TypeOK, RowType
  <2>9. /\ StatusBar[l] = row[l].status /\ OwedBar' = OwedBar \cup {l}
        /\ StatusBar' \in {StatusBar, [StatusBar EXCEPT ![l] = "pending"]}
    BY <1>0, <2>2, <2>5, <2>6, <2>8, SeenOf
  <2>10. row[l].status # "none"
    BY <1>0 DEF TypeOK, RowType, Columns, Statuses
  <2>11. ClosedBar' = ClosedBar /\ GoneBar' = GoneBar /\ l \notin GoneBar
    BY <1>0, <1>5, <2>1, SeenEndpoints DEF Live, GoneBar
  <2>12. D!Reopen(l)
    BY <1>0, <2>2, <2>9, <2>10, <2>11 DEF D!Reopen, D!taken, attempts
  <2>. QED BY <2>12 DEF D!Next
<1>6. CASE replay[p].pc = "requeueing" /\ (ReplayPublish(p) \/ ReplayFails(p))
  <2>1. PICK l \in created : l = replay[p].log
    BY <1>0, <1>6 DEF Known, RowsInserted
  <2>2. l \in Logs /\ Requeueing(p, l) /\ replay'[p].pc # "requeueing"
    BY <1>0, <1>6, <2>1 DEF ReplayPublish, ReplayFails, Requeueing, TypeOK, RowType,
                            ReplayType, ReplayStates
  <2>3. \A m \in Logs : m # l => Requeueing(p, m)' = Requeueing(p, m)
    BY <2>1, <2>2 DEF Requeueing
  <2>4. CASE ReplayPublish(p)
    <3>1. /\ queue' = Published(queue, l, 0) /\ chains' = [chains EXCEPT ![l] = @ + 1]
          /\ UNCHANGED <<row, hit>>
      BY <2>1, <2>4 DEF ReplayPublish
    <3>2. \A m \in Logs : m # l => queue'[m] = queue[m] /\ chains'[m] = chains[m]
      BY <1>0, <3>1 DEF TypeOK, QueueType, HistoryType, Published
    <3>3. OnlyOf(l)
      BY <1>0, <1>1, <2>3, <3>1, <3>2, HandlerOnlyOf DEF attempts
    <3>4. 0 \in 0..MaxRetries
      OBVIOUS
    <3>. QED BY <1>0, <2>2, <3>1, <3>3, <3>4, Starts DEF D!Next
  <2>5. CASE ReplayFails(p)
    <3>1. hit' = hit \cup {l} /\ UNCHANGED <<row, queue, chains>>
      BY <1>6, <2>1, <2>5 DEF ReplayFails
    <3>2. OnlyOf(l)
      BY <1>0, <1>1, <2>3, <3>1, HandlerOnlyOf DEF attempts
    <3>3. Carried(l)
      BY <2>2 DEF Carried
    <3>. QED BY <1>0, <2>2, <3>1, <3>2, <3>3, Loses DEF D!Next
  <2>. QED BY <1>6, <2>4, <2>5
<1>. QED BY <1>3, <1>4, <1>5, <1>6
         DEF ReplayStep, ReplayProgress, ReplayReset, ReplayPublish, ReplayFails

----------------------------------------------------------------------------
\* The engine keeps what a publisher may rely on: every delivery that is open is
\* owed to its publisher, no status is told that nothing backs, and no attempt is
\* made beyond what the starts allow.
THEOREM EngineImplementsDelivery == Spec => ImplementsDelivery
<1>1. Init => D!Init
  <2>. SUFFICES ASSUME Init PROVE D!Init
    OBVIOUS
  <2>1. StatusBar = [l \in Logs |-> "none"]
    BY DEF Init, StatusBar
  <2>2. \A l \in Logs : endpoint[EndpointOf(l)] = "absent"
    BY DEF Init, Logs, EndpointOf
  <2>3. ClosedBar = {} /\ GoneBar = {}
    BY <2>2 DEF ClosedBar, GoneBar
  <2>4. \A l \in Logs : ~Carried(l)
    BY DEF Init, Carried, Queued, Working, Idle, Enqueueing, Requeueing
  <2>5. OwedBar = {}
    BY <2>4 DEF OwedBar
  <2>. QED BY <2>1, <2>3, <2>5 DEF Init, D!Init
<1>2. Established /\ TypeOK' /\ [Next]_vars => [D!Next]_(D!vars)
  <2>. SUFFICES ASSUME Established, TypeOK', [Next]_vars PROVE D!Next \/ UNCHANGED D!vars
    OBVIOUS
  <2>1. CASE UNCHANGED vars
    BY <2>1 DEF vars, history, attempts, D!vars, D!taken, StatusBar, ClosedBar, GoneBar, OwedBar, Carried, Queued,
                Working, Enqueueing, Requeueing
  <2>2. CASE OperatorStep
    BY <2>2, OperatorImplements DEF Established
  <2>3. CASE \E d \in Dispatches : DispatchStep(d)
    BY <2>3, DispatchImplements
  <2>4. CASE \E p \in Replays : ReplayStep(p)
    BY <2>4, ReplayImplements
  <2>5. CASE \E w \in Workers : WorkerStep(w)
    BY <2>5, WorkerImplements
  <2>. QED BY <2>1, <2>2, <2>3, <2>4, <2>5 DEF Next
<1>3. TypeOK /\ Known /\ Evidence /\ (\A l \in Logs : Sole(l)) /\ (\A l \in Logs : Budget(l))
        => Established
  BY DEF Established
<1>. QED BY <1>1, <1>2, <1>3, TypeCorrect, KnownInvariant, EvidenceInvariant, SoleInvariant,
            BudgetInvariant, PTL DEF Spec, ImplementsDelivery, D!Spec
=============================================================================
