----------------------- MODULE DeliveryEngineProofs ------------------------
(***************************************************************************)
(* Proofs about DeliveryEngine for every number of endpoints, requests,    *)
(* workers and retries.                                                    *)
(***************************************************************************)
EXTENDS DeliveryEngine, TLAPS

----------------------------------------------------------------------------
(* The delivery log rows *)

\* A commit of well-formed columns leaves a well-formed row.
LEMMA FlushType ==
  ASSUME NEW stored \in Columns, NEW loaded \in Columns, NEW mine \in Columns
  PROVE  Flush(stored, loaded, mine) \in Columns
  BY DEF Flush, Column, Columns

LEMMA RecordedType ==
  ASSUME NEW loaded \in Columns, NEW retries \in Nat, NEW outcome \in Outcomes,
         NEW status \in Statuses
  PROVE  Recorded(loaded, retries, outcome, status) \in Columns
  BY DEF Recorded, Columns, Outcomes, Codes

LEMMA ObjectTypes ==
  /\ NewRow \in Columns
  /\ \A loaded \in Columns : Reset(loaded) \in Columns /\ Refused(loaded) \in Columns
  BY DEF NewRow, Reset, Refused, Columns, Statuses

----------------------------------------------------------------------------
(* Type correctness *)

USE EngineAssumption

LEMMA IdleType == Idle \in Jobs
  BY ObjectTypes DEF Idle, Jobs

LEMMA TypeInit == Init => TypeOK
<1>. SUFFICES ASSUME Init PROVE TypeOK
  OBVIOUS
<1>1. EndpointType /\ QueueType /\ HistoryType
  BY DEF Init, EndpointType, QueueType, HistoryType
<1>2. RowType
  BY ObjectTypes DEF Init, RowType
<1>3. JobType
  BY IdleType DEF Init, JobType, Idle
<1>4. DispatchType
  BY DEF Init, DispatchType, DispatchStates
<1>5. ReplayType
  BY ObjectTypes DEF Init, ReplayType, ReplayStates
<1>. QED BY <1>1, <1>2, <1>3, <1>4, <1>5 DEF TypeOK

LEMMA TypeUnchanged ==
  /\ EndpointType /\ UNCHANGED endpoint => EndpointType'
  /\ RowType /\ UNCHANGED <<created, row>> => RowType'
  /\ QueueType /\ UNCHANGED queue => QueueType'
  /\ JobType /\ UNCHANGED job => JobType'
  /\ DispatchType /\ UNCHANGED dispatch => DispatchType'
  /\ ReplayType /\ UNCHANGED replay => ReplayType'
  /\ HistoryType /\ UNCHANGED history => HistoryType'
  BY DEF EndpointType, RowType, QueueType, JobType, DispatchType, ReplayType,
         HistoryType, history, attempts

\* Publishing a message of a log keeps the type of the queue and of the history.
LEMMA PublishType ==
  ASSUME QueueType, HistoryType, NEW l \in Logs, NEW r \in 0..MaxRetries
  PROVE  /\ queue' = Published(queue, l, r) => QueueType'
         /\ /\ chains' = [chains EXCEPT ![l] = @ + 1]
            /\ crossed' \in {crossed, crossed \cup {l}}
            /\ UNCHANGED <<attempts, refused, hit>>
            => HistoryType'
<1>1. queue' = Published(queue, l, r) => QueueType'
  BY DEF QueueType, Published
<1>2. /\ chains' = [chains EXCEPT ![l] = @ + 1]
      /\ crossed' \in {crossed, crossed \cup {l}}
      /\ UNCHANGED <<attempts, refused, hit>>
      => HistoryType'
  BY DEF HistoryType, attempts
<1>. QED BY <1>1, <1>2

\* Noting a log keeps the type of the history.
LEMMA NotedType ==
  ASSUME HistoryType, NEW l \in Logs, hit' \in {hit, hit \cup {l}},
         refused' \in {refused, refused \cup {l}}, crossed' \in {crossed, crossed \cup {l}},
         UNCHANGED <<attempts, chains>>
  PROVE  HistoryType'
  BY DEF HistoryType, attempts

LEMMA TypeOperator == TypeOK /\ OperatorStep => TypeOK'
<1>. SUFFICES ASSUME TypeOK, NEW e \in Endpoints,
                     CreateEndpoint(e) \/ Disable(e) \/ Enable(e) \/ Remove(e)
              PROVE  TypeOK'
  BY DEF OperatorStep
<1>1. EndpointType'
  BY DEF TypeOK, EndpointType, CreateEndpoint, Disable, Enable, Remove
<1>2. UNCHANGED <<created, row, queue, job, dispatch, replay, history>>
  BY DEF CreateEndpoint, Disable, Enable, Remove
<1>. QED BY <1>1, <1>2, TypeUnchanged DEF TypeOK

LEMMA TypeDispatch ==
  ASSUME TypeOK, NEW d \in Dispatches, DispatchStep(d)
  PROVE  TypeOK'
<1>0. dispatch[d] \in DispatchStates
  BY DEF TypeOK, DispatchType
<1>1. CASE DispatchList(d)
  <2>1. DispatchType'
    BY <1>1 DEF TypeOK, DispatchType, DispatchList, ActiveEndpoints, DispatchStates
  <2>. QED BY <1>1, <2>1, TypeUnchanged DEF TypeOK, DispatchList, ActiveEndpoints
<1>2. ASSUME NEW e \in Endpoints, DispatchCreate(d, e)
      PROVE  TypeOK'
  <2>1. dispatch'[d] \in DispatchStates /\ dispatch'[d].at \in Endpoints \cup {dispatch[d].at}
    BY <1>0, <1>2 DEF DispatchCreate, DispatchStates, TypeOK, DispatchType
  <2>2. DispatchType'
    BY <1>2, <2>1 DEF DispatchCreate, TypeOK, DispatchType, DispatchStates
  <2>3. RowType'
    BY <1>2, ObjectTypes DEF DispatchCreate, TypeOK, RowType, Logs
  <2>. QED BY <1>2, <2>2, <2>3, TypeUnchanged DEF TypeOK, DispatchCreate
<1>3. CASE DispatchPublish(d)
  <2>1. <<d, dispatch[d].at>> \in Logs
    BY <1>3 DEF DispatchPublish, Logs, TypeOK, DispatchType
  <2>2. 0 \in 0..MaxRetries
    OBVIOUS
  <2>3. QueueType' /\ HistoryType'
    BY <1>3, <2>1, <2>2, PublishType DEF TypeOK, DispatchPublish
  <2>4. DispatchType'
    BY <1>3 DEF DispatchPublish, TypeOK, DispatchType, DispatchStates
  <2>. QED BY <1>3, <2>3, <2>4, TypeUnchanged DEF TypeOK, DispatchPublish
<1>4. CASE DispatchFails(d)
  <2>1. DispatchType'
    BY <1>4 DEF DispatchFails, TypeOK, DispatchType, DispatchStates
  <2>2. HistoryType'
    <3>1. CASE dispatch[d].pc = "enqueueing"
      <4>1. <<d, dispatch[d].at>> \in Logs
        BY <3>1 DEF TypeOK, DispatchType, Logs
      <4>. QED BY <1>4, <3>1, <4>1, NotedType DEF DispatchFails, TypeOK
    <3>2. CASE dispatch[d].pc # "enqueueing"
      BY <1>4, <3>2 DEF DispatchFails, TypeOK, HistoryType, attempts
    <3>. QED BY <3>1, <3>2
  <2>. QED BY <1>4, <2>1, <2>2, TypeUnchanged DEF TypeOK, DispatchFails
<1>. QED BY <1>1, <1>2, <1>3, <1>4 DEF DispatchStep, DispatchProgress

LEMMA TypeReplay ==
  ASSUME TypeOK, NEW p \in Replays, ReplayStep(p)
  PROVE  TypeOK'
<1>0. /\ replay[p] \in ReplayStates
      /\ replay[p].pc \in {"resetting", "requeueing"} => replay[p].log \in Logs
  BY DEF TypeOK, ReplayType
<1>1. ASSUME NEW l \in Logs, ReplayLoad(p, l)
      PROVE  TypeOK'
  <2>1. row[l] \in Columns
    BY DEF TypeOK, RowType
  <2>2. replay'[p] \in ReplayStates /\ (replay'[p].pc = "resetting" => replay'[p].log \in Logs)
        /\ replay'[p].pc # "requeueing"
    BY <1>1, <2>1, ObjectTypes DEF ReplayLoad, ReplayStates, TypeOK, ReplayType
  <2>3. ReplayType'
    BY <1>1, <2>2 DEF ReplayLoad, TypeOK, ReplayType
  <2>. QED BY <1>1, <2>3, TypeUnchanged DEF TypeOK, ReplayLoad
<1>2. CASE ReplayReset(p)
  <2>1. replay[p].log \in Logs /\ replay[p].loaded \in Columns
    BY <1>0, <1>2 DEF ReplayReset, ReplayStates
  <2>2. Flush(row[replay[p].log], replay[p].loaded, Reset(replay[p].loaded)) \in Columns
    BY <2>1, FlushType, ObjectTypes DEF TypeOK, RowType
  <2>3. RowType'
    BY <1>2, <2>1, <2>2 DEF ReplayReset, TypeOK, RowType
  <2>4. ReplayType'
    BY <1>0, <1>2, ObjectTypes DEF ReplayReset, TypeOK, ReplayType, ReplayStates
  <2>5. HistoryType'
    BY <1>2, <2>1, NotedType DEF ReplayReset, TypeOK
  <2>. QED BY <1>2, <2>3, <2>4, <2>5, TypeUnchanged DEF TypeOK, ReplayReset
<1>3. CASE ReplayPublish(p)
  <2>1. replay[p].log \in Logs /\ 0 \in 0..MaxRetries
    BY <1>0, <1>3 DEF ReplayPublish
  <2>2. QueueType' /\ HistoryType'
    BY <1>3, <2>1, PublishType DEF TypeOK, ReplayPublish
  <2>3. ReplayType'
    BY <1>3 DEF ReplayPublish, TypeOK, ReplayType, ReplayStates
  <2>. QED BY <1>3, <2>2, <2>3, TypeUnchanged DEF TypeOK, ReplayPublish
<1>4. CASE ReplayFails(p)
  <2>1. ReplayType'
    BY <1>4 DEF ReplayFails, TypeOK, ReplayType, ReplayStates
  <2>2. HistoryType'
    BY <1>0, <1>4, NotedType DEF ReplayFails, TypeOK
  <2>. QED BY <1>4, <2>1, <2>2, TypeUnchanged DEF TypeOK, ReplayFails
<1>. QED BY <1>1, <1>2, <1>3, <1>4 DEF ReplayStep, ReplayProgress

\* A commit of well-formed columns keeps every type.
LEMMA CommitType ==
  ASSUME TypeOK, NEW w \in Workers, NEW mine \in Columns, job[w].pc # "idle",
         NEW next \in {"acking", "publishing"},
         next = "publishing" => job[w].retries < MaxRetries,
         Commit(w, mine, next)
  PROVE  TypeOK'
<1>1. job[w] \in Jobs /\ job[w].log \in Logs
  BY DEF TypeOK, JobType
<1>2. RowType'
  BY <1>1, FlushType DEF Commit, TypeOK, RowType, Jobs
<1>3. JobType'
  BY <1>1, ObjectTypes DEF Commit, TypeOK, JobType, Jobs
<1>. QED BY <1>2, <1>3, TypeUnchanged DEF Commit, TypeOK

LEMMA TypeWorker ==
  ASSUME TypeOK, NEW w \in Workers, WorkerStep(w)
  PROVE  TypeOK'
<1>0. /\ job[w] \in Jobs
      /\ job[w].pc # "idle" => job[w].log \in Logs
      /\ job[w].pc = "recording" => job[w].outcome \in Outcomes
      /\ job[w].pc = "publishing" => job[w].retries < MaxRetries
  BY DEF TypeOK, JobType
<1>1. ASSUME NEW l \in Logs, NEW r \in 0..MaxRetries, Receive(w, l, r)
      PROVE  TypeOK'
  <2>1. QueueType'
    BY <1>1 DEF Receive, TypeOK, QueueType
  <2>2. row[l] \in Columns
    BY DEF TypeOK, RowType
  <2>3. JobType'
    BY <1>1, <2>2, ObjectTypes DEF Receive, TypeOK, JobType, Jobs
  <2>4. HistoryType'
    BY <1>1, NotedType DEF Receive, TypeOK
  <2>. QED BY <1>1, <2>1, <2>3, <2>4, TypeUnchanged DEF Receive, TypeOK
<1>2. ASSUME NEW outcome \in Outcomes, Post(w, outcome)
      PROVE  TypeOK'
  <2>1. job[w].log \in Logs
    BY <1>0, <1>2 DEF Post
  <2>2. JobType'
    BY <1>0, <1>2 DEF Post, TypeOK, JobType, Jobs
  <2>3. HistoryType'
    BY <1>2, <2>1 DEF Post, TypeOK, HistoryType
  <2>. QED BY <1>2, <2>2, <2>3, TypeUnchanged DEF Post, TypeOK
<1>3. \A status \in Statuses : job[w].pc = "recording" =>
        Recorded(job[w].loaded, job[w].retries, job[w].outcome, status) \in Columns
  BY <1>0, RecordedType DEF Jobs
<1>4. CASE RecordSuccess(w)
  BY <1>3, <1>4, CommitType DEF RecordSuccess, Statuses
<1>5. CASE RecordRetry(w)
  BY <1>3, <1>5, CommitType DEF RecordRetry, Statuses
<1>6. CASE RecordFailed(w)
  BY <1>3, <1>6, CommitType DEF RecordFailed, Statuses
<1>7. CASE RecordRefused(w)
  BY <1>0, <1>7, CommitType, ObjectTypes DEF RecordRefused, Jobs
<1>8. CASE PublishRetry(w)
  <2>1. job[w].log \in Logs /\ job[w].retries + 1 \in 0..MaxRetries
    BY <1>0, <1>8 DEF PublishRetry, Jobs
  <2>2. QueueType'
    BY <1>8, <2>1, PublishType DEF PublishRetry, TypeOK
  <2>3. JobType'
    BY <1>0, <1>8 DEF PublishRetry, TypeOK, JobType, Jobs
  <2>. QED BY <1>8, <2>2, <2>3, TypeUnchanged DEF PublishRetry, TypeOK
<1>10. CASE Ack(w) \/ CommitStale(w)
  <2>1. JobType'
    BY <1>10, IdleType DEF Ack, CommitStale, TypeOK, JobType, Idle
  <2>. QED BY <1>10, <2>1, TypeUnchanged DEF Ack, CommitStale, TypeOK
<1>11. CASE TaskFails(w)
  <2>1. HistoryType'
    BY <1>0, <1>11, NotedType DEF TaskFails, TypeOK
  <2>2. JobType'
    BY <1>11, IdleType DEF TaskFails, TypeOK, JobType, Idle
  <2>. QED BY <1>11, <2>1, <2>2, TypeUnchanged DEF TaskFails, TypeOK
<1>12. CASE WorkerLost(w) \/ Redeliver(w)
  <2>1. job[w].log \in Logs /\ job[w].retries \in 0..MaxRetries
    BY <1>0, <1>12 DEF WorkerLost, Redeliver, Jobs
  <2>2. QueueType' /\ HistoryType'
    BY <1>12, <2>1, PublishType DEF WorkerLost, Redeliver, TypeOK
  <2>3. JobType'
    BY <1>12, IdleType DEF WorkerLost, Redeliver, TypeOK, JobType, Idle
  <2>. QED BY <1>12, <2>2, <2>3, TypeUnchanged DEF WorkerLost, Redeliver, TypeOK
<1>. QED BY <1>1, <1>2, <1>4, <1>5, <1>6, <1>7, <1>8, <1>10, <1>11, <1>12
         DEF WorkerStep, WorkerProgress, AttemptEnds

\* Every variable keeps its type.
THEOREM TypeCorrect == Spec => []TypeOK
<1>1. TypeOK /\ [Next]_vars => TypeOK'
  <2>1. CASE UNCHANGED vars
    BY <2>1, TypeUnchanged DEF vars, TypeOK, history
  <2>2. CASE Next
    BY <2>2, TypeOperator, TypeDispatch, TypeReplay, TypeWorker DEF Next
  <2>. QED BY <2>1, <2>2
<1>. QED BY <1>1, TypeInit, PTL DEF Spec
----------------------------------------------------------------------------
(* No delivery is lost.  With the types the invariant is inductive: every  *)
(* step that takes a log from one carrier gives it to the next, settles    *)
(* its row, or counts it as hit.                                           *)

LEMMA PublishCarries ==
  ASSUME QueueType, NEW l \in Logs, NEW r \in 0..MaxRetries,
         queue' = Published(queue, l, r)
  PROVE  /\ Queued(l)'
         /\ \A m \in Logs : Queued(m) => Queued(m)'
<1>1. \A m \in Logs, s \in 0..MaxRetries : queue'[m][s] >= queue[m][s]
  BY DEF QueueType, Published
<1>2. queue'[l][r] > 0
  BY DEF QueueType, Published
<1>3. queue' \in [Logs -> [0..MaxRetries -> Nat]]
  BY DEF QueueType, Published
<1>4. Queued(l)'
  BY <1>2 DEF Queued
<1>5. ASSUME NEW m \in Logs, Queued(m)
      PROVE  Queued(m)'
  <2>1. PICK s \in 0..MaxRetries : queue[m][s] > 0
    BY <1>5 DEF Queued
  <2>2. queue'[m][s] \in Nat /\ queue[m][s] \in Nat
    BY <1>3 DEF QueueType
  <2>3. queue'[m][s] > 0
    BY <1>1, <2>1, <2>2
  <2>. QED BY <2>3 DEF Queued
<1>. QED BY <1>4, <1>5

\* A commit settles the row, or it leaves the status as it is now because the
\* task had loaded the status it writes.
LEMMA FlushStatus ==
  ASSUME NEW stored, NEW loaded, NEW mine
  PROVE  Flush(stored, loaded, mine).status =
           IF mine.status = loaded.status THEN stored.status ELSE mine.status
  BY DEF Flush, Column

LEMMA LostOperator ==
  ASSUME TypeOK, NoLostDelivery, OperatorStep
  PROVE  NoLostDelivery'
<1>1. UNCHANGED <<created, row, queue, job, dispatch, replay, hit>>
  BY DEF OperatorStep, CreateEndpoint, Disable, Enable, Remove, history
<1>2. \A l \in Logs : Live(l)' => Live(l)
  <2>. SUFFICES ASSUME NEW l \in Logs, Live(l)' PROVE Live(l)
    OBVIOUS
  <2>1. l[2] \in Endpoints
    BY DEF Logs
  <2>2. endpoint[l[2]] = "removed" => endpoint'[l[2]] = "removed"
    BY <2>1 DEF OperatorStep, CreateEndpoint, Disable, Enable, Remove, TypeOK, EndpointType
  <2>. QED BY <1>1, <2>2 DEF Live, EndpointOf
<1>3. \A l \in Logs : Carried(l) => Carried(l)'
  BY <1>1 DEF Carried, Queued, Working, Enqueueing, Requeueing
<1>. QED BY <1>1, <1>2, <1>3 DEF NoLostDelivery, Settled

LEMMA LostDispatch ==
  ASSUME TypeOK, NoLostDelivery, NEW d \in Dispatches, DispatchStep(d)
  PROVE  NoLostDelivery'
<1>. SUFFICES ASSUME NEW l \in Logs, Live(l)', ~Settled(l)', l \notin hit'
              PROVE  Carried(l)'
  BY DEF NoLostDelivery
<1>0. UNCHANGED <<endpoint, job, replay>>
  BY DEF DispatchStep, DispatchProgress, DispatchList, ActiveEndpoints, DispatchCreate,
         DispatchPublish, DispatchFails
<1>1. \A c \in Dispatches : c # d /\ Enqueueing(c, l) => Enqueueing(c, l)'
  BY DEF DispatchStep, DispatchProgress, DispatchList, ActiveEndpoints, DispatchCreate,
         DispatchPublish, DispatchFails, Enqueueing, TypeOK, DispatchType
<1>2. CASE DispatchList(d)
  <2>1. Carried(l)
    BY <1>2 DEF DispatchList, ActiveEndpoints, NoLostDelivery, Live, Settled, history
  <2>2. ~Enqueueing(d, l) /\ UNCHANGED queue
    BY <1>2 DEF DispatchList, ActiveEndpoints, Enqueueing
  <2>. QED BY <1>0, <1>1, <2>1, <2>2 DEF Carried, Queued, Working, Requeueing
<1>3. ASSUME NEW e \in Endpoints, DispatchCreate(d, e)
      PROVE  Carried(l)'
  <2>1. UNCHANGED <<queue, hit>> /\ ~Enqueueing(d, l)
    BY <1>3 DEF DispatchCreate, Enqueueing, history
  <2>2. CASE l = <<d, e>>
    <3>1. endpoint[e] # "removed"
      BY <1>0, <2>2 DEF Live, EndpointOf
    <3>2. dispatch'[d].pc = "enqueueing" /\ dispatch'[d].at = e
      BY <1>3, <3>1 DEF DispatchCreate, TypeOK, DispatchType, DispatchStates
    <3>. QED BY <2>2, <3>2 DEF Carried, Enqueueing
  <2>3. CASE l # <<d, e>>
    <3>1. Live(l) /\ ~Settled(l)
      BY <1>3, <2>3 DEF DispatchCreate, Live, Settled, TypeOK, RowType
    <3>2. Carried(l)
      BY <2>1, <3>1 DEF NoLostDelivery
    <3>. QED BY <1>0, <1>1, <2>1, <3>2 DEF Carried, Queued, Working, Requeueing
  <2>. QED BY <2>2, <2>3
<1>4. CASE DispatchPublish(d)
  <2>1. PICK m \in Logs : m = <<d, dispatch[d].at>>
    BY <1>4 DEF DispatchPublish, Logs, TypeOK, DispatchType
  <2>2. Queued(m)' /\ (Queued(l) => Queued(l)')
    <3>1. 0 \in 0..MaxRetries
      OBVIOUS
    <3>. QED BY <1>4, <2>1, <3>1, PublishCarries DEF DispatchPublish, TypeOK
  <2>3. Carried(l)
    BY <1>4 DEF DispatchPublish, NoLostDelivery, Live, Settled
  <2>4. CASE Enqueueing(d, l)
    BY <2>1, <2>2, <2>4 DEF Carried, Enqueueing
  <2>5. CASE ~Enqueueing(d, l)
    BY <1>0, <1>1, <2>2, <2>3, <2>5 DEF Carried, Working, Requeueing
  <2>. QED BY <2>4, <2>5
<1>5. CASE DispatchFails(d)
  <2>1. ~Enqueueing(d, l) /\ UNCHANGED queue
    BY <1>5 DEF DispatchFails, Enqueueing
  <2>2. Carried(l)
    BY <1>5 DEF DispatchFails, NoLostDelivery, Live, Settled
  <2>. QED BY <1>0, <1>1, <2>1, <2>2 DEF Carried, Queued, Working, Requeueing
<1>. QED BY <1>2, <1>3, <1>4, <1>5 DEF DispatchStep, DispatchProgress

LEMMA LostReplay ==
  ASSUME TypeOK, NoLostDelivery, NEW p \in Replays, ReplayStep(p)
  PROVE  NoLostDelivery'
<1>. SUFFICES ASSUME NEW l \in Logs, Live(l)', ~Settled(l)', l \notin hit'
              PROVE  Carried(l)'
  BY DEF NoLostDelivery
<1>0. UNCHANGED <<endpoint, created, job, dispatch>>
  BY DEF ReplayStep, ReplayProgress, ReplayLoad, ReplayReset, ReplayPublish, ReplayFails
<1>1. \A q \in Replays : q # p /\ Requeueing(q, l) => Requeueing(q, l)'
  BY DEF ReplayStep, ReplayProgress, ReplayLoad, ReplayReset, ReplayPublish,
         ReplayFails, Requeueing, TypeOK, ReplayType
<1>2. ASSUME NEW m \in Logs, ReplayLoad(p, m)
      PROVE  Carried(l)'
  <2>1. Carried(l)
    BY <1>2 DEF ReplayLoad, NoLostDelivery, Live, Settled, history
  <2>2. ~Requeueing(p, l) /\ UNCHANGED queue
    BY <1>2 DEF ReplayLoad, Requeueing
  <2>. QED BY <1>0, <1>1, <2>1, <2>2 DEF Carried, Queued, Working, Enqueueing
<1>3. CASE ReplayReset(p)
  <2>1. ~Requeueing(p, l) /\ UNCHANGED <<queue, hit>>
    BY <1>3 DEF ReplayReset, Requeueing, history
  <2>2. CASE l = replay[p].log
    <3>1. Live(l)
      BY <1>0 DEF Live
    <3>2. Requeueing(p, l)'
      BY <1>3, <2>2, <3>1 DEF ReplayReset, Requeueing, TypeOK, ReplayType, ReplayStates
    <3>. QED BY <3>2 DEF Carried
  <2>3. CASE l # replay[p].log
    <3>1. Live(l) /\ ~Settled(l)
      BY <1>0, <1>3, <2>3 DEF ReplayReset, Live, Settled, TypeOK, RowType
    <3>2. Carried(l)
      BY <2>1, <3>1 DEF NoLostDelivery
    <3>. QED BY <1>0, <1>1, <2>1, <3>2 DEF Carried, Queued, Working, Enqueueing
  <2>. QED BY <2>2, <2>3
<1>4. CASE ReplayPublish(p)
  <2>1. PICK m \in Logs : m = replay[p].log
    BY <1>4 DEF ReplayPublish, TypeOK, ReplayType
  <2>2. Queued(m)' /\ (Queued(l) => Queued(l)')
    <3>1. 0 \in 0..MaxRetries
      OBVIOUS
    <3>. QED BY <1>4, <2>1, <3>1, PublishCarries DEF ReplayPublish, TypeOK
  <2>3. Carried(l)
    BY <1>4 DEF ReplayPublish, NoLostDelivery, Live, Settled
  <2>4. CASE Requeueing(p, l)
    BY <2>1, <2>2, <2>4 DEF Carried, Requeueing
  <2>5. CASE ~Requeueing(p, l)
    BY <1>0, <1>1, <2>2, <2>3, <2>5 DEF Carried, Working, Enqueueing
  <2>. QED BY <2>4, <2>5
<1>5. CASE ReplayFails(p)
  <2>1. ~Requeueing(p, l) /\ UNCHANGED queue
    BY <1>5 DEF ReplayFails, Requeueing
  <2>2. Carried(l)
    BY <1>5 DEF ReplayFails, NoLostDelivery, Live, Settled
  <2>. QED BY <1>0, <1>1, <2>1, <2>2 DEF Carried, Queued, Working, Enqueueing
<1>. QED BY <1>2, <1>3, <1>4, <1>5 DEF ReplayStep, ReplayProgress

\* A task that commits a settled status leaves the rows that were not settled to
\* others, or settles them.
LEMMA LostCommit ==
  ASSUME TypeOK, NoLostDelivery, NEW w \in Workers, NEW mine, NEW next,
         job[w].pc \in {"recording", "disabling"}, Commit(w, mine, next),
         next = "publishing" \/ mine.status \notin Unsettled
  PROVE  NoLostDelivery'
<1>. SUFFICES ASSUME NEW l \in Logs, Live(l)', ~Settled(l)', l \notin hit'
              PROVE  Carried(l)'
  BY DEF NoLostDelivery
<1>1. /\ UNCHANGED <<endpoint, created, queue, dispatch, replay, hit>>
      /\ \A v \in Workers : v # w => job'[v] = job[v]
      /\ job'[w].log = job[w].log /\ job'[w].pc = next
  BY DEF Commit, history, TypeOK, JobType, Jobs
<1>2. ASSUME Carried(l), ~Working(w, l)
      PROVE  Carried(l)'
  <2>1. CASE \E v \in Workers : Working(v, l)
    BY <1>1, <1>2, <2>1 DEF Carried, Working
  <2>2. CASE ~\E v \in Workers : Working(v, l)
    BY <1>1, <1>2, <2>2 DEF Carried, Queued, Enqueueing, Requeueing
  <2>. QED BY <2>1, <2>2
<1>3. CASE job[w].log # l
  <2>1. row'[l] = row[l]
    BY <1>3 DEF Commit, TypeOK, RowType
  <2>2. Carried(l)
    BY <1>1, <2>1 DEF NoLostDelivery, Live, Settled
  <2>. QED BY <1>2, <1>3, <2>2 DEF Working
<1>4. CASE job[w].log = l /\ next = "publishing"
  BY <1>1, <1>4 DEF Carried, Working
<1>5. CASE job[w].log = l /\ mine.status \notin Unsettled
  <2>1. row'[l].status = IF mine.status = job[w].loaded.status
                           THEN row[l].status ELSE mine.status
    BY <1>5, FlushStatus DEF Commit, TypeOK, RowType
  <2>2. mine.status = job[w].loaded.status /\ row'[l].status = row[l].status
    BY <1>5, <2>1 DEF Settled
  <2>3. ~Working(w, l)
    BY <1>5, <2>2 DEF Working
  <2>4. Carried(l)
    BY <1>1, <2>2 DEF NoLostDelivery, Live, Settled
  <2>. QED BY <1>2, <2>3, <2>4
<1>. QED BY <1>3, <1>4, <1>5

LEMMA LostWorker ==
  ASSUME TypeOK, NoLostDelivery, NEW w \in Workers, WorkerStep(w)
  PROVE  NoLostDelivery'
<1>1. CASE RecordSuccess(w)
  BY <1>1, LostCommit DEF RecordSuccess, Recorded, Unsettled
<1>2. CASE RecordRetry(w)
  BY <1>2, LostCommit DEF RecordRetry
<1>3. CASE RecordFailed(w)
  BY <1>3, LostCommit DEF RecordFailed, Recorded, Unsettled
<1>4. CASE RecordRefused(w)
  <2>1. Refused(job[w].loaded).status = "failed"
    BY DEF Refused, TypeOK, JobType, Jobs, Columns
  <2>. QED BY <1>4, <2>1, LostCommit DEF RecordRefused, Unsettled
<1>5. ASSUME UNCHANGED <<endpoint, created, row, dispatch, replay>>,
             \A v \in Workers : v # w => job'[v] = job[v],
             hit \subseteq hit',
             \A l \in Logs : Live(l) /\ ~Settled(l) /\ l \notin hit' /\
               (Queued(l) \/ Working(w, l)) => Queued(l)' \/ Working(w, l)'
      PROVE  NoLostDelivery'
  <2>. SUFFICES ASSUME NEW l \in Logs, Live(l)', ~Settled(l)', l \notin hit'
                PROVE  Carried(l)'
    BY DEF NoLostDelivery
  <2>1. Live(l) /\ ~Settled(l)
    BY <1>5 DEF Live, Settled
  <2>2. Carried(l)
    BY <1>5, <2>1 DEF NoLostDelivery
  <2>3. CASE Queued(l) \/ Working(w, l)
    BY <1>5, <2>1, <2>3 DEF Carried
  <2>4. CASE \E v \in Workers : v # w /\ Working(v, l)
    BY <1>5, <2>4 DEF Carried, Working
  <2>5. CASE (\E d \in Dispatches : Enqueueing(d, l)) \/ \E p \in Replays : Requeueing(p, l)
    BY <1>5, <2>5 DEF Carried, Enqueueing, Requeueing
  <2>. QED BY <2>2, <2>3, <2>4, <2>5 DEF Carried
<1>6. ASSUME NEW m \in Logs, NEW r \in 0..MaxRetries, Receive(w, m, r)
      PROVE  NoLostDelivery'
  <2>1. \A l \in Logs : l # m => (Queued(l) <=> Queued(l)')
    BY <1>6 DEF Receive, Queued, TypeOK, QueueType
  <2>2. Live(m) /\ ~Settled(m) => Working(w, m)'
    BY <1>6 DEF Receive, Settled, Working, TypeOK, JobType
  <2>3. \A l \in Logs : ~Working(w, l)
    BY <1>6 DEF Receive, Working
  <2>. QED BY <1>5, <1>6, <2>1, <2>2, <2>3 DEF Receive, history, TypeOK, JobType
<1>7. ASSUME NEW outcome \in Outcomes, Post(w, outcome)
      PROVE  NoLostDelivery'
  <2>1. \A l \in Logs : (Queued(l) => Queued(l)') /\ (Working(w, l) => Working(w, l)')
    BY <1>7 DEF Post, Queued, Working, TypeOK, JobType, Jobs
  <2>. QED BY <1>5, <1>7, <2>1 DEF Post, TypeOK, JobType
<1>8. CASE PublishRetry(w)
  <2>1. PICK m \in Logs : m = job[w].log
    BY <1>8 DEF PublishRetry, TypeOK, JobType
  <2>2. Queued(m)' /\ \A l \in Logs : Queued(l) => Queued(l)'
    <3>1. job[w].retries + 1 \in 0..MaxRetries
      BY <1>8 DEF PublishRetry, TypeOK, JobType, Jobs
    <3>. QED BY <1>8, <2>1, <3>1, PublishCarries DEF PublishRetry, TypeOK
  <2>3. \A l \in Logs : Working(w, l) => Queued(l)'
    BY <2>1, <2>2 DEF Working
  <2>. QED BY <1>5, <1>8, <2>2, <2>3 DEF PublishRetry, history, TypeOK, JobType
<1>9. CASE Ack(w)
  <2>1. \A l \in Logs : ~Working(w, l) /\ (Queued(l) => Queued(l)')
    BY <1>9 DEF Ack, Working, Queued
  <2>. QED BY <1>5, <1>9, <2>1 DEF Ack, history, TypeOK, JobType
<1>10. CASE CommitStale(w)
  <2>1. \A l \in Logs : (Queued(l) => Queued(l)') /\ (Live(l) => ~Working(w, l))
    BY <1>10 DEF CommitStale, Working, Queued
  <2>. QED BY <1>5, <1>10, <2>1 DEF CommitStale, history, TypeOK, JobType
<1>11. CASE TaskFails(w)
  <2>1. \A l \in Logs : (Queued(l) => Queued(l)') /\ (l \notin hit' => ~Working(w, l))
    BY <1>11 DEF TaskFails, Working, Queued
  <2>. QED BY <1>5, <1>11, <2>1 DEF TaskFails, TypeOK, JobType
<1>12. CASE WorkerLost(w) \/ Redeliver(w)
  <2>1. PICK m \in Logs : m = job[w].log
    BY <1>12 DEF WorkerLost, Redeliver, TypeOK, JobType
  <2>2. Queued(m)' /\ \A l \in Logs : Queued(l) => Queued(l)'
    <3>1. job[w].retries \in 0..MaxRetries
      BY <1>12 DEF WorkerLost, Redeliver, TypeOK, JobType, Jobs
    <3>. QED BY <1>12, <2>1, <3>1, PublishCarries DEF WorkerLost, Redeliver, TypeOK
  <2>3. \A l \in Logs : Working(w, l) => Queued(l)'
    BY <2>1, <2>2 DEF Working
  <2>. QED BY <1>5, <1>12, <2>2, <2>3 DEF WorkerLost, Redeliver, TypeOK, JobType
<1>. QED BY <1>1, <1>2, <1>3, <1>4, <1>6, <1>7, <1>8, <1>9, <1>10, <1>11, <1>12
         DEF WorkerStep, WorkerProgress, AttemptEnds

\* No delivery is forgotten: a row that says pending or retrying is carried by a
\* message or a process, unless a failed call lost its message.
THEOREM NothingLost == Spec => []NoLostDelivery
<1>1. Init => NoLostDelivery
  BY DEF Init, NoLostDelivery, Live
<1>2. TypeOK /\ NoLostDelivery /\ [Next]_vars => NoLostDelivery'
  <2>1. CASE UNCHANGED vars
    BY <2>1 DEF vars, history, NoLostDelivery, Live, Settled, Carried, Queued, Working,
                Enqueueing, Requeueing
  <2>2. CASE Next
    BY <2>2, LostOperator, LostDispatch, LostReplay, LostWorker DEF Next
  <2>. QED BY <2>1, <2>2
<1>. QED BY <1>1, <1>2, TypeCorrect, PTL DEF Spec

----------------------------------------------------------------------------
(* A final status is backed by what happened.  The invariant carries the   *)
(* attempts made along the chain of messages: the message of the r-th      *)
(* retry exists only after r attempts, the task that has posted only after *)
(* one more.                                                               *)

MessageEvidence == \A l \in Logs, r \in 0..MaxRetries : queue[l][r] > 0 => posts[l] >= r

TaskEvidence(w) ==
  LET l == job[w].log IN
  job[w].pc # "idle" =>
    /\ posts[l] >= job[w].retries
    /\ job[w].pc \in {"recording", "publishing"} => posts[l] > job[w].retries
    /\ job[w].pc = "recording" /\ job[w].outcome \in GoodCodes => confirmed[l] > 0
    /\ job[w].pc = "disabling" => l \in refused

RowEvidence(l) ==
  /\ row[l].status = "success" => confirmed[l] > 0
  /\ row[l].status = "failed" => posts[l] > MaxRetries \/ l \in refused

Evidence ==
  /\ MessageEvidence
  /\ \A w \in Workers : TaskEvidence(w)
  /\ \A l \in Logs : RowEvidence(l)

\* What evidence rests on only grows.
Growing ==
  \A l \in Logs :
    /\ posts'[l] >= posts[l]
    /\ confirmed'[l] >= confirmed[l]
    /\ l \in refused => l \in refused'

LEMMA RowEvidenceKept ==
  ASSUME TypeOK, TypeOK', Growing, NEW l \in Logs, RowEvidence(l),
         row'[l].status \in {row[l].status, "pending", "retrying"}
  PROVE  RowEvidence(l)'
<1>1. /\ posts[l] \in Nat /\ posts'[l] \in Nat
      /\ confirmed[l] \in Nat /\ confirmed'[l] \in Nat
  BY DEF TypeOK, HistoryType
<1>. QED BY <1>1 DEF Growing, RowEvidence

LEMMA TaskEvidenceKept ==
  ASSUME TypeOK, TypeOK', Growing, NEW w \in Workers, TaskEvidence(w), job'[w] = job[w]
  PROVE  TaskEvidence(w)'
<1>. SUFFICES ASSUME job[w].pc # "idle" PROVE TaskEvidence(w)'
  BY DEF TaskEvidence
<1>. DEFINE l == job[w].log
<1>1. /\ l \in Logs /\ job[w].retries \in Nat
      /\ posts[l] \in Nat /\ posts'[l] \in Nat
      /\ confirmed[l] \in Nat /\ confirmed'[l] \in Nat
  BY DEF TypeOK, HistoryType, JobType, Jobs
<1>2. /\ posts'[l] >= posts[l]
      /\ confirmed'[l] >= confirmed[l]
      /\ l \in refused => l \in refused'
  BY <1>1 DEF Growing
<1>. HIDE DEF l
<1>3. posts'[l] >= job[w].retries /\ (posts[l] > job[w].retries => posts'[l] > job[w].retries)
      /\ (confirmed[l] > 0 => confirmed'[l] > 0)
  BY <1>1, <1>2 DEF TaskEvidence, l
<1>. QED BY <1>2, <1>3 DEF TaskEvidence, l

LEMMA MessageEvidenceKept ==
  ASSUME TypeOK, TypeOK', Growing, MessageEvidence,
         \A l \in Logs, r \in 0..MaxRetries :
           queue'[l][r] > 0 => queue[l][r] > 0 \/ posts[l] >= r
  PROVE  MessageEvidence'
<1>1. SUFFICES ASSUME NEW l \in Logs, NEW r \in 0..MaxRetries, queue'[l][r] > 0
               PROVE  posts'[l] >= r
  BY DEF MessageEvidence
<1>2. posts[l] >= r
  BY <1>1 DEF MessageEvidence
<1>3. posts[l] \in Nat /\ posts'[l] \in Nat /\ posts'[l] >= posts[l]
  BY DEF TypeOK, HistoryType, Growing
<1>. QED BY <1>2, <1>3

\* A message published for a log after r attempts is evidence enough.
LEMMA PublishEvidence ==
  ASSUME TypeOK, NEW m \in Logs, NEW s \in 0..MaxRetries, posts[m] >= s,
         queue' = Published(queue, m, s)
  PROVE  \A l \in Logs, r \in 0..MaxRetries :
           queue'[l][r] > 0 => queue[l][r] > 0 \/ posts[l] >= r
  BY DEF TypeOK, QueueType, Published

LEMMA GrowingUnlessPosted ==
  ASSUME TypeOK, [Next]_vars,
         ~\E w \in Workers, outcome \in Outcomes : Post(w, outcome)
  PROVE  Growing /\ UNCHANGED attempts
<1>1. UNCHANGED attempts
  BY DEF Next, vars, history, attempts, OperatorStep, CreateEndpoint, Disable, Enable, Remove,
         DispatchStep, DispatchProgress, DispatchList, ActiveEndpoints, DispatchCreate,
         DispatchPublish, DispatchFails, ReplayStep, ReplayProgress, ReplayLoad,
         ReplayReset, ReplayPublish, ReplayFails, WorkerStep, WorkerProgress, AttemptEnds,
         Receive, RecordSuccess, RecordRetry, RecordFailed, RecordRefused, Commit,
         PublishRetry, Ack, CommitStale, TaskFails, WorkerLost, Redeliver
<1>2. refused \subseteq refused'
  BY DEF Next, vars, history, OperatorStep, CreateEndpoint, Disable, Enable, Remove,
         DispatchStep, DispatchProgress, DispatchList, ActiveEndpoints, DispatchCreate,
         DispatchPublish, DispatchFails, ReplayStep, ReplayProgress, ReplayLoad,
         ReplayReset, ReplayPublish, ReplayFails, WorkerStep, WorkerProgress, AttemptEnds,
         Receive, RecordSuccess, RecordRetry, RecordFailed, RecordRefused, Commit,
         PublishRetry, Ack, CommitStale, TaskFails, WorkerLost, Redeliver
<1>3. \A l \in Logs : posts[l] \in Nat /\ confirmed[l] \in Nat
  BY DEF TypeOK, HistoryType
<1>. QED BY <1>1, <1>2, <1>3 DEF Growing, attempts

\* The steps that neither take, make nor record an attempt.
LEMMA EvidenceAside ==
  ASSUME TypeOK, TypeOK', Evidence, Growing,
         \A l \in Logs, r \in 0..MaxRetries :
           queue'[l][r] > 0 => queue[l][r] > 0 \/ posts[l] >= r,
         \A w \in Workers : job'[w] = job[w] \/ job'[w].pc = "idle",
         \A l \in Logs : row'[l].status \in {row[l].status, "pending", "retrying"}
  PROVE  Evidence'
<1>1. MessageEvidence'
  BY MessageEvidenceKept DEF Evidence
<1>2. ASSUME NEW w \in Workers PROVE TaskEvidence(w)'
  <2>1. CASE job'[w] = job[w]
    BY <2>1, TaskEvidenceKept DEF Evidence
  <2>2. CASE job'[w].pc = "idle"
    BY <2>2 DEF TaskEvidence
  <2>. QED BY <2>1, <2>2
<1>3. \A l \in Logs : RowEvidence(l)'
  BY RowEvidenceKept DEF Evidence
<1>. QED BY <1>1, <1>2, <1>3 DEF Evidence

\* A commit whose status is backed by the history.
LEMMA EvidenceCommit ==
  ASSUME TypeOK, TypeOK', Evidence, Growing, NEW w \in Workers, NEW mine,
         NEW next \in {"acking", "publishing"},
         job[w].pc # "idle", Commit(w, mine, next),
         next = "publishing" => posts[job[w].log] > job[w].retries,
         mine.status = "success" => confirmed[job[w].log] > 0,
         mine.status = "failed" =>
           posts[job[w].log] > MaxRetries \/ job[w].log \in refused
  PROVE  Evidence'
<1>1. /\ UNCHANGED <<queue, attempts, refused>>
      /\ job[w].log \in Logs
      /\ job'[w].log = job[w].log /\ job'[w].pc = next /\ job'[w].retries = job[w].retries
      /\ \A v \in Workers : v # w => job'[v] = job[v]
  BY DEF Commit, history, TypeOK, JobType, Jobs
<1>2. MessageEvidence'
  BY <1>1 DEF Evidence, MessageEvidence, attempts
<1>3. ASSUME NEW v \in Workers PROVE TaskEvidence(v)'
  <2>1. CASE v # w
    BY <1>1, <2>1, TaskEvidenceKept DEF Evidence
  <2>2. CASE v = w
    BY <1>1, <2>2 DEF Evidence, TaskEvidence, attempts
  <2>. QED BY <2>1, <2>2
<1>4. ASSUME NEW l \in Logs PROVE RowEvidence(l)'
  <2>1. CASE l # job[w].log
    <3>1. row'[l] = row[l]
      BY <2>1 DEF Commit, TypeOK, RowType
    <3>. QED BY <3>1, RowEvidenceKept DEF Evidence
  <2>2. CASE l = job[w].log
    <3>1. row'[l].status \in {row[l].status, mine.status}
      BY <2>2, FlushStatus DEF Commit, TypeOK, RowType
    <3>. QED BY <1>1, <2>2, <3>1 DEF Evidence, RowEvidence, attempts
  <2>. QED BY <2>1, <2>2
<1>. QED BY <1>2, <1>3, <1>4 DEF Evidence

LEMMA EvidenceDispatch ==
  ASSUME TypeOK, TypeOK', Evidence, Growing, NEW d \in Dispatches, DispatchStep(d)
  PROVE  Evidence'
<1>1. UNCHANGED job
  BY DEF DispatchStep, DispatchProgress, DispatchList, ActiveEndpoints, DispatchCreate,
         DispatchPublish, DispatchFails
<1>2. \A l \in Logs : row'[l].status \in {row[l].status, "pending"}
  <2>1. CASE \E e \in Endpoints : DispatchCreate(d, e)
    <3>1. PICK e \in Endpoints : DispatchCreate(d, e)
      BY <2>1
    <3>2. CASE endpoint[e] = "removed"
      BY <3>1, <3>2 DEF DispatchCreate
    <3>3. CASE endpoint[e] # "removed"
      <4>1. row' = [row EXCEPT ![<<d, e>>] = NewRow]
        BY <3>1, <3>3 DEF DispatchCreate
      <4>. QED BY <4>1 DEF NewRow, TypeOK, RowType
    <3>. QED BY <3>2, <3>3
  <2>2. CASE ~\E e \in Endpoints : DispatchCreate(d, e)
    BY <2>2 DEF DispatchStep, DispatchProgress, DispatchList, ActiveEndpoints, DispatchPublish,
                DispatchFails
  <2>. QED BY <2>1, <2>2
<1>3. CASE DispatchPublish(d)
  <2>1. PICK m \in Logs : m = <<d, dispatch[d].at>>
    BY <1>3 DEF DispatchPublish, Logs, TypeOK, DispatchType
  <2>2. 0 \in 0..MaxRetries /\ posts[m] >= 0
    BY DEF TypeOK, HistoryType
  <2>3. queue' = Published(queue, m, 0)
    BY <1>3, <2>1 DEF DispatchPublish
  <2>. QED BY <1>1, <1>2, <2>2, <2>3, PublishEvidence, EvidenceAside
<1>4. CASE ~DispatchPublish(d)
  <2>1. UNCHANGED queue
    BY <1>4 DEF DispatchStep, DispatchProgress, DispatchList, ActiveEndpoints, DispatchCreate,
                DispatchFails
  <2>. QED BY <1>1, <1>2, <2>1, EvidenceAside
<1>. QED BY <1>3, <1>4

LEMMA EvidenceReplay ==
  ASSUME TypeOK, TypeOK', Evidence, Growing, NEW p \in Replays, ReplayStep(p)
  PROVE  Evidence'
<1>1. UNCHANGED job
  BY DEF ReplayStep, ReplayProgress, ReplayLoad, ReplayReset, ReplayPublish, ReplayFails
<1>2. \A l \in Logs : row'[l].status \in {row[l].status, "pending"}
  <2>1. CASE ReplayReset(p)
    <3>1. Reset(replay[p].loaded).status = "pending"
      BY <2>1 DEF Reset, Columns, TypeOK, ReplayType, ReplayStates
    <3>. QED BY <2>1, <3>1, FlushStatus DEF ReplayReset, TypeOK, RowType
  <2>2. CASE ~ReplayReset(p)
    BY <2>2 DEF ReplayStep, ReplayProgress, ReplayLoad, ReplayPublish, ReplayFails
  <2>. QED BY <2>1, <2>2
<1>3. CASE ReplayPublish(p)
  <2>1. PICK m \in Logs : m = replay[p].log
    BY <1>3 DEF ReplayPublish, TypeOK, ReplayType
  <2>2. 0 \in 0..MaxRetries /\ posts[m] >= 0
    BY DEF TypeOK, HistoryType
  <2>3. queue' = Published(queue, m, 0)
    BY <1>3, <2>1 DEF ReplayPublish
  <2>. QED BY <1>1, <1>2, <2>2, <2>3, PublishEvidence, EvidenceAside
<1>4. CASE ~ReplayPublish(p)
  <2>1. UNCHANGED queue
    BY <1>4 DEF ReplayStep, ReplayProgress, ReplayLoad, ReplayReset, ReplayFails
  <2>. QED BY <1>1, <1>2, <2>1, EvidenceAside
<1>. QED BY <1>3, <1>4

LEMMA EvidencePost ==
  ASSUME TypeOK, TypeOK', Evidence, NEW w \in Workers, NEW outcome \in Outcomes,
         Post(w, outcome)
  PROVE  Evidence'
<1>. DEFINE l == job[w].log
<1>1. /\ l \in Logs /\ job[w].retries \in Nat
      /\ posts \in [Logs -> Nat] /\ confirmed \in [Logs -> Nat]
  BY DEF Post, TypeOK, JobType, Jobs, HistoryType
<1>2. /\ UNCHANGED <<queue, row, refused>>
      /\ \A v \in Workers : v # w => job'[v] = job[v]
      /\ job'[w].log = l /\ job'[w].pc = "recording" /\ job'[w].outcome = outcome
      /\ job'[w].retries = job[w].retries
  BY DEF Post, TypeOK, JobType, Jobs
<1>3. /\ posts'[l] = posts[l] + 1
      /\ outcome \in GoodCodes => confirmed'[l] > 0
      /\ \A m \in Logs : posts'[m] >= posts[m] /\ confirmed'[m] >= confirmed[m]
  <2>1. /\ posts' = [posts EXCEPT ![l] = @ + 1]
        /\ outcome \in GoodCodes => confirmed' = [confirmed EXCEPT ![l] = @ + 1]
        /\ confirmed' \in {confirmed, [confirmed EXCEPT ![l] = @ + 1]}
    BY CodesAssumption DEF Post, Codes
  <2>. QED BY <1>1, <2>1
<1>. HIDE DEF l
<1>4. Growing
  BY <1>2, <1>3 DEF Growing
<1>5. MessageEvidence'
  BY <1>2, <1>4, MessageEvidenceKept DEF Evidence
<1>6. ASSUME NEW v \in Workers PROVE TaskEvidence(v)'
  <2>1. CASE v # w
    BY <1>2, <1>4, <2>1, TaskEvidenceKept DEF Evidence
  <2>2. CASE v = w
    <3>1. posts[l] >= job[w].retries
      BY DEF Evidence, TaskEvidence, Post, l
    <3>2. posts'[l] > job[w].retries
      BY <1>1, <1>3, <3>1
    <3>. QED BY <1>1, <1>2, <1>3, <2>2, <3>1, <3>2 DEF TaskEvidence
  <2>. QED BY <2>1, <2>2
<1>7. \A m \in Logs : RowEvidence(m)'
  BY <1>2, <1>4, RowEvidenceKept DEF Evidence
<1>. QED BY <1>5, <1>6, <1>7 DEF Evidence

LEMMA EvidenceWorker ==
  ASSUME TypeOK, TypeOK', Evidence, Growing, NEW w \in Workers, WorkerStep(w),
         ~\E outcome \in Outcomes : Post(w, outcome)
  PROVE  Evidence'
<1>0. /\ job[w] \in Jobs
      /\ job[w].pc # "idle" => job[w].log \in Logs
      /\ job[w].pc = "publishing" => job[w].retries < MaxRetries
      /\ TaskEvidence(w)
  BY DEF TypeOK, JobType, Evidence
<1>1. ASSUME NEW m \in Logs, NEW r \in 0..MaxRetries, Receive(w, m, r)
      PROVE  Evidence'
  <2>1. posts[m] >= r /\ posts' = posts
    BY <1>1 DEF Receive, Evidence, MessageEvidence, attempts, history
  <2>2. MessageEvidence'
    <3>1. \A l \in Logs, s \in 0..MaxRetries : queue'[l][s] > 0 => queue[l][s] > 0
      BY <1>1 DEF Receive, TypeOK, QueueType
    <3>. QED BY <3>1, MessageEvidenceKept DEF Evidence
  <2>3. ASSUME NEW v \in Workers PROVE TaskEvidence(v)'
    <3>1. CASE v # w
      <4>1. job'[v] = job[v]
        BY <1>1, <3>1 DEF Receive, TypeOK, JobType
      <4>. QED BY <4>1, TaskEvidenceKept DEF Evidence
    <3>2. CASE v = w
      <4>1. /\ job'[w].log = m /\ job'[w].retries = r
            /\ job'[w].pc \in {"acking", "disabling", "sending"}
            /\ job'[w].pc = "disabling" => m \in refused'
        BY <1>1 DEF Receive, TypeOK, JobType
      <4>. QED BY <2>1, <3>2, <4>1 DEF TaskEvidence
    <3>. QED BY <3>1, <3>2
  <2>4. \A l \in Logs : RowEvidence(l)'
    BY <1>1, RowEvidenceKept DEF Evidence, Receive
  <2>. QED BY <2>2, <2>3, <2>4 DEF Evidence
<1>2. CASE RecordSuccess(w)
  BY <1>0, <1>2, EvidenceCommit DEF RecordSuccess, Recorded, TaskEvidence
<1>3. CASE RecordRetry(w)
  BY <1>0, <1>3, EvidenceCommit DEF RecordRetry, Recorded, TaskEvidence
<1>4. CASE RecordFailed(w)
  <2>1. posts[job[w].log] > MaxRetries
    <3>1. posts[job[w].log] > job[w].retries /\ job[w].retries = MaxRetries
      BY <1>0, <1>4 DEF RecordFailed, TaskEvidence, Jobs
    <3>. QED BY <3>1
  <2>. QED BY <1>0, <1>4, <2>1, EvidenceCommit DEF RecordFailed, Recorded
<1>5. CASE RecordRefused(w)
  <2>1. Refused(job[w].loaded).status = "failed"
    BY <1>0 DEF Refused, Jobs, Columns
  <2>. QED BY <1>0, <1>5, <2>1, EvidenceCommit DEF RecordRefused, TaskEvidence
<1>6. CASE PublishRetry(w)
  <2>1. PICK m \in Logs : m = job[w].log
    BY <1>0, <1>6 DEF PublishRetry
  <2>2. job[w].retries + 1 \in 0..MaxRetries /\ posts[m] >= job[w].retries + 1
    BY <1>0, <1>6, <2>1 DEF PublishRetry, Jobs, TaskEvidence, TypeOK, HistoryType
  <2>3. queue' = Published(queue, m, job[w].retries + 1)
    BY <1>6, <2>1 DEF PublishRetry
  <2>4. MessageEvidence'
    BY <2>2, <2>3, PublishEvidence, MessageEvidenceKept DEF Evidence
  <2>5. ASSUME NEW v \in Workers PROVE TaskEvidence(v)'
    <3>1. CASE v # w
      <4>1. job'[v] = job[v]
        BY <1>6, <3>1 DEF PublishRetry, TypeOK, JobType
      <4>. QED BY <4>1, TaskEvidenceKept DEF Evidence
    <3>2. CASE v = w
      <4>1. /\ job'[w].log = job[w].log /\ job'[w].retries = job[w].retries
            /\ job'[w].pc = "acking" /\ posts' = posts
        BY <1>0, <1>6 DEF PublishRetry, TypeOK, JobType, Jobs, history, attempts
      <4>. QED BY <1>0, <1>6, <3>2, <4>1 DEF TaskEvidence, PublishRetry
    <3>. QED BY <3>1, <3>2
  <2>6. \A l \in Logs : RowEvidence(l)'
    BY <1>6, RowEvidenceKept DEF Evidence, PublishRetry
  <2>. QED BY <2>4, <2>5, <2>6 DEF Evidence
<1>7. CASE Ack(w) \/ CommitStale(w) \/ TaskFails(w)
  <2>1. UNCHANGED <<queue, row>>
    BY <1>7 DEF Ack, CommitStale, TaskFails
  <2>2. \A v \in Workers : job'[v] = job[v] \/ job'[v].pc = "idle"
    BY <1>7 DEF Ack, CommitStale, TaskFails, TypeOK, JobType, Idle
  <2>. QED BY <2>1, <2>2, EvidenceAside
<1>8. CASE WorkerLost(w) \/ Redeliver(w)
  <2>1. PICK m \in Logs : m = job[w].log
    BY <1>0, <1>8 DEF WorkerLost, Redeliver
  <2>2. job[w].retries \in 0..MaxRetries /\ posts[m] >= job[w].retries
    BY <1>0, <1>8, <2>1 DEF WorkerLost, Redeliver, Jobs, TaskEvidence
  <2>3. queue' = Published(queue, m, job[w].retries) /\ UNCHANGED row
    BY <1>8, <2>1 DEF WorkerLost, Redeliver
  <2>4. \A v \in Workers : job'[v] = job[v] \/ job'[v].pc = "idle"
    BY <1>8 DEF WorkerLost, Redeliver, TypeOK, JobType, Idle
  <2>. QED BY <2>2, <2>3, <2>4, PublishEvidence, EvidenceAside
<1>. QED BY <1>1, <1>2, <1>3, <1>4, <1>5, <1>6, <1>7, <1>8
         DEF WorkerStep, WorkerProgress, AttemptEnds

LEMMA EvidenceInvariant == Spec => []Evidence
<1>1. Init => Evidence
  BY DEF Init, Evidence, MessageEvidence, TaskEvidence, RowEvidence, Idle, NewRow
<1>2. TypeOK /\ TypeOK' /\ Evidence /\ [Next]_vars => Evidence'
  <2>. SUFFICES ASSUME TypeOK, TypeOK', Evidence, [Next]_vars PROVE Evidence'
    OBVIOUS
  <2>1. CASE \E w \in Workers, outcome \in Outcomes : Post(w, outcome)
    BY <2>1, EvidencePost
  <2>2. CASE ~\E w \in Workers, outcome \in Outcomes : Post(w, outcome)
    <3>1. Growing /\ UNCHANGED attempts
      BY <2>2, GrowingUnlessPosted
    <3>2. CASE UNCHANGED vars \/ OperatorStep
      <4>1. UNCHANGED <<queue, row, job>>
        BY <3>2 DEF vars, OperatorStep, CreateEndpoint, Disable, Enable, Remove
      <4>. QED BY <3>1, <4>1, EvidenceAside
    <3>3. CASE \E d \in Dispatches : DispatchStep(d)
      BY <3>1, <3>3, EvidenceDispatch
    <3>4. CASE \E p \in Replays : ReplayStep(p)
      BY <3>1, <3>4, EvidenceReplay
    <3>5. CASE \E w \in Workers : WorkerStep(w)
      BY <2>2, <3>1, <3>5, EvidenceWorker
    <3>. QED BY <3>2, <3>3, <3>4, <3>5 DEF Next
  <2>. QED BY <2>1, <2>2
<1>. QED BY <1>1, <1>2, TypeCorrect, PTL DEF Spec

\* A row says success only when a worker has read a 2xx for an attempt of it.
THEOREM SuccessBacked == Spec => []SuccessIsReal
<1>1. Evidence => SuccessIsReal
  BY DEF Evidence, RowEvidence, SuccessIsReal
<1>. QED BY <1>1, EvidenceInvariant, PTL

\* A row says failed only after MaxRetries + 1 attempts, or after a task of it found
\* the endpoint disabled.
THEOREM FailureBacked == Spec => []ExhaustedMeansTried
<1>1. Evidence => ExhaustedMeansTried
  BY DEF Evidence, RowEvidence, ExhaustedMeansTried
<1>. QED BY <1>1, EvidenceInvariant, PTL
=============================================================================
