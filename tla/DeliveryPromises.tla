------------------------- MODULE DeliveryPromises --------------------------
(***************************************************************************)
(* Proofs of what the API promises about a fan-out, about a settled        *)
(* delivery, about the audit row and about how often a delivery is made,   *)
(* for every number of endpoints, requests, workers and retries.           *)
(***************************************************************************)
EXTENDS DeliveryEngineProofs, FiniteSetTheorems

USE EngineAssumption

----------------------------------------------------------------------------
(* The fan-out.  The loop of a dispatch leaves behind it only logs that    *)
(* are created and published, but for the one it is at.                    *)

\* The dispatch d stands, or has stopped, between the insert and the task of e.
StandsAt(d, e) == dispatch[d].pc \in {"enqueueing", "failed"} /\ dispatch[d].at = e

OnlyOneUnpublished ==
  \A d \in Dispatches, e \in Endpoints :
    <<d, e>> \in created => chains[<<d, e>>] > 0 \/ StandsAt(d, e)

Covers(d) ==
  dispatch[d].pc \in {"looping", "enqueueing", "accepted"} =>
    \A e \in dispatch[d].targets :
      \/ e \in dispatch[d].todo /\ dispatch[d].pc # "accepted"
      \/ <<d, e>> \in created /\ (chains[<<d, e>>] > 0 \/ StandsAt(d, e))

FanOut == OnlyOneUnpublished /\ \A d \in Dispatches : Covers(d)

\* No step takes a log away or forgets a message of it.
LEMMA CreatedAndChainsGrow ==
  ASSUME TypeOK, [Next]_vars
  PROVE  /\ created \subseteq created'
         /\ \A l \in Logs : chains[l] > 0 => chains'[l] > 0
<1>1. CASE UNCHANGED vars \/ OperatorStep
  BY <1>1 DEF vars, OperatorStep, CreateEndpoint, Disable, Enable, Remove, history
<1>2. ASSUME NEW d \in Dispatches, DispatchStep(d)
      PROVE  created \subseteq created' /\ \A l \in Logs : chains[l] > 0 => chains'[l] > 0
  <2>1. CASE DispatchPublish(d)
    <3>1. PICK m \in Logs : m = <<d, dispatch[d].at>>
      BY <2>1 DEF DispatchPublish, Logs, TypeOK, DispatchType
    <3>. QED BY <2>1, <3>1 DEF DispatchPublish, TypeOK, HistoryType
  <2>2. CASE ~DispatchPublish(d)
    BY <1>2, <2>2 DEF DispatchStep, DispatchProgress, DispatchList, ActiveEndpoints,
                      DispatchCreate, DispatchFails, history
  <2>. QED BY <2>1, <2>2
<1>3. ASSUME NEW p \in Replays, ReplayStep(p)
      PROVE  created \subseteq created' /\ \A l \in Logs : chains[l] > 0 => chains'[l] > 0
  BY <1>3 DEF ReplayStep, ReplayProgress, ReplayLoad, ReplayReset, ReplayPublish,
              ReplayFails, history, TypeOK, HistoryType
<1>4. ASSUME NEW w \in Workers, WorkerStep(w)
      PROVE  created \subseteq created' /\ \A l \in Logs : chains[l] > 0 => chains'[l] > 0
  BY <1>4 DEF WorkerStep, WorkerProgress, AttemptEnds, Receive, Post, RecordSuccess,
              RecordRetry, RecordFailed, RecordRefused, Commit, PublishRetry, Ack,
              CommitStale, TaskFails, WorkerLost, Redeliver, history, TypeOK, HistoryType
<1>. QED BY <1>1, <1>2, <1>3, <1>4 DEF Next

\* A step that leaves the dispatches alone, or moves none of them on, keeps the fan-out.
LEMMA FanOutAside ==
  ASSUME TypeOK, [Next]_vars, FanOut, UNCHANGED <<dispatch, created>>
  PROVE  FanOut'
<1>1. \A d \in Dispatches, e \in Endpoints : <<d, e>> \in Logs
  BY DEF Logs
<1>2. \A d \in Dispatches : dispatch[d].targets \subseteq Endpoints
  BY DEF TypeOK, DispatchType, DispatchStates
<1>. QED BY <1>1, <1>2, CreatedAndChainsGrow
         DEF FanOut, OnlyOneUnpublished, Covers, StandsAt

LEMMA FanOutDispatch ==
  ASSUME TypeOK, FanOut, NEW d \in Dispatches, DispatchStep(d)
  PROVE  FanOut'
<1>0. /\ \A c \in Dispatches, e \in Endpoints : <<c, e>> \in Logs
      /\ \A c \in Dispatches : dispatch[c] \in DispatchStates
      /\ dispatch[d].pc = "enqueueing" => dispatch[d].at \in Endpoints
      /\ chains \in [Logs -> Nat]
  BY DEF Logs, TypeOK, DispatchType, HistoryType
<1>1. \A c \in Dispatches : c # d => dispatch'[c] = dispatch[c]
  BY DEF DispatchStep, DispatchProgress, DispatchList, ActiveEndpoints, DispatchCreate,
         DispatchPublish, DispatchFails, TypeOK, DispatchType
<1>2. ASSUME NEW c \in Dispatches, c # d
      PROVE  /\ Covers(c)'
             /\ \A e \in Endpoints :
                  <<c, e>> \in created' => chains'[<<c, e>>] > 0 \/ StandsAt(c, e)'
  <2>1. created \subseteq created' /\ \A l \in Logs : chains[l] > 0 => chains'[l] > 0
    <3>1. Next
      BY DEF Next
    <3>. QED BY <3>1, CreatedAndChainsGrow
  <2>2. \A e \in Endpoints : <<c, e>> \in created' => <<c, e>> \in created
    <3>1. ASSUME NEW f \in Endpoints, DispatchCreate(d, f)
          PROVE  created' \subseteq created \cup {<<d, f>>}
      BY <3>1 DEF DispatchCreate
    <3>2. CASE ~\E f \in Endpoints : DispatchCreate(d, f)
      BY <3>2 DEF DispatchStep, DispatchProgress, DispatchList, DispatchPublish, DispatchFails
    <3>. QED BY <1>2, <3>1, <3>2
  <2>3. dispatch'[c] = dispatch[c] /\ dispatch[c].targets \subseteq Endpoints
    BY <1>0, <1>1, <1>2 DEF DispatchStates
  <2>4. \A e \in Endpoints : StandsAt(c, e)' = StandsAt(c, e)
    BY <2>3 DEF StandsAt
  <2>5. \A e \in Endpoints :
          <<c, e>> \in created' => chains'[<<c, e>>] > 0 \/ StandsAt(c, e)'
    BY <1>0, <2>1, <2>2, <2>4 DEF FanOut, OnlyOneUnpublished
  <2>6. Covers(c)'
    <3>1. \A e \in Endpoints : <<c, e>> \in created /\ (chains[<<c, e>>] > 0 \/ StandsAt(c, e))
            => <<c, e>> \in created' /\ (chains'[<<c, e>>] > 0 \/ StandsAt(c, e)')
      BY <1>0, <2>1, <2>4
    <3>. QED BY <2>3, <3>1 DEF FanOut, Covers
  <2>. QED BY <2>5, <2>6
<1>3. /\ Covers(d)'
      /\ \A e \in Endpoints :
           <<d, e>> \in created' => chains'[<<d, e>>] > 0 \/ StandsAt(d, e)'
  <2>1. CASE DispatchList(d)
    <3>1. /\ dispatch'[d].pc \in {"rejected", "looping"}
          /\ dispatch'[d].todo = dispatch'[d].targets
          /\ UNCHANGED <<created, chains>>
          /\ \A e \in Endpoints : ~StandsAt(d, e)
      BY <2>1 DEF DispatchList, TypeOK, DispatchType, history, StandsAt
    <3>. QED BY <1>0, <3>1 DEF FanOut, OnlyOneUnpublished, Covers
  <2>2. ASSUME NEW e \in Endpoints, DispatchCreate(d, e)
        PROVE  /\ Covers(d)'
               /\ \A f \in Endpoints :
                    <<d, f>> \in created' => chains'[<<d, f>>] > 0 \/ StandsAt(d, f)'
    <3>1. CASE endpoint[e] = "removed"
      <4>1. dispatch'[d].pc = "failed" /\ UNCHANGED <<created, chains>>
        BY <2>2, <3>1 DEF DispatchCreate, TypeOK, DispatchType, DispatchStates, history
      <4>2. \A f \in Endpoints : ~StandsAt(d, f)
        BY <2>2 DEF DispatchCreate, StandsAt
      <4>. QED BY <1>0, <4>1, <4>2 DEF FanOut, OnlyOneUnpublished, Covers
    <3>2. CASE endpoint[e] # "removed"
      <4>1. /\ dispatch'[d].pc = "enqueueing" /\ dispatch'[d].at = e
            /\ dispatch'[d].targets = dispatch[d].targets
            /\ dispatch'[d].todo = dispatch[d].todo \ {e}
            /\ created' = created \cup {<<d, e>>} /\ UNCHANGED chains
        BY <1>0, <2>2, <3>2 DEF DispatchCreate, TypeOK, DispatchType, DispatchStates, history
      <4>2. StandsAt(d, e)' /\ \A f \in Endpoints : ~StandsAt(d, f)
        BY <2>2, <4>1 DEF DispatchCreate, StandsAt
      <4>3. Covers(d)'
        BY <1>0, <2>2, <4>1, <4>2 DEF FanOut, Covers, DispatchCreate, DispatchStates
      <4>4. \A f \in Endpoints :
              <<d, f>> \in created' => chains'[<<d, f>>] > 0 \/ StandsAt(d, f)'
        BY <1>0, <4>1, <4>2 DEF FanOut, OnlyOneUnpublished
      <4>. QED BY <4>3, <4>4
    <3>. QED BY <3>1, <3>2
  <2>3. CASE DispatchPublish(d)
    <3>. DEFINE m == <<d, dispatch[d].at>>
    <3>1. m \in Logs /\ chains' = [chains EXCEPT ![m] = @ + 1]
      BY <1>0, <2>3 DEF DispatchPublish
    <3>2. chains'[m] > 0 /\ \A l \in Logs : chains[l] > 0 => chains'[l] > 0
      BY <1>0, <3>1
    <3>3. /\ dispatch'[d].todo = dispatch[d].todo
          /\ dispatch'[d].targets = dispatch[d].targets
          /\ dispatch'[d].pc = IF dispatch[d].todo = {} THEN "accepted" ELSE "looping"
          /\ UNCHANGED created
      BY <1>0, <2>3 DEF DispatchPublish, DispatchStates, TypeOK, DispatchType
    <3>4. \A f \in Endpoints : StandsAt(d, f) => <<d, f>> = m
      BY DEF StandsAt
    <3>5. dispatch[d].targets \subseteq Endpoints /\ dispatch[d].pc = "enqueueing"
      BY <1>0, <2>3 DEF DispatchPublish, DispatchStates
    <3>. HIDE DEF m
    <3>6. \A f \in Endpoints : <<d, f>> \in created' => chains'[<<d, f>>] > 0
      BY <1>0, <3>2, <3>3, <3>4 DEF FanOut, OnlyOneUnpublished
    <3>7. Covers(d)'
      BY <3>3, <3>5, <3>6 DEF FanOut, Covers
    <3>. QED BY <3>6, <3>7
  <2>4. CASE DispatchFails(d)
    <3>1. /\ dispatch'[d].pc = "failed" /\ dispatch'[d].at = dispatch[d].at
          /\ UNCHANGED <<created, chains>>
      BY <1>0, <2>4 DEF DispatchFails, TypeOK, DispatchType, DispatchStates
    <3>. QED BY <1>0, <3>1 DEF FanOut, OnlyOneUnpublished, Covers, StandsAt
  <2>. QED BY <2>1, <2>2, <2>3, <2>4 DEF DispatchStep, DispatchProgress
<1>. QED BY <1>2, <1>3 DEF FanOut, OnlyOneUnpublished

LEMMA FanOutInvariant == Spec => []FanOut
<1>1. Init => FanOut
  BY DEF Init, FanOut, OnlyOneUnpublished, Covers
<1>2. TypeOK /\ FanOut /\ [Next]_vars => FanOut'
  <2>. SUFFICES ASSUME TypeOK, FanOut, [Next]_vars PROVE FanOut'
    OBVIOUS
  <2>1. CASE \E d \in Dispatches : DispatchStep(d)
    BY <2>1, FanOutDispatch
  <2>2. CASE ~\E d \in Dispatches : DispatchStep(d)
    <3>1. UNCHANGED <<dispatch, created>>
      BY <2>2 DEF Next, vars, OperatorStep, CreateEndpoint, Disable, Enable, Remove, ReplayStep,
           ReplayProgress, ReplayLoad, ReplayReset, ReplayPublish, ReplayFails, WorkerStep,
           WorkerProgress, AttemptEnds, Receive, Post, RecordSuccess, RecordRetry,
           RecordFailed, RecordRefused, Commit, PublishRetry, Ack, CommitStale, TaskFails,
           WorkerLost, Redeliver
    <3>. QED BY <3>1, FanOutAside
  <2>. QED BY <2>1, <2>2
<1>. QED BY <1>1, <1>2, TypeCorrect, PTL DEF Spec

\* A log never published is the one at which its dispatch stopped: a fan-out that
\* breaks leaves at most one row that no message will ever settle.
THEOREM OrphansAreWhereDispatchesStopped == Spec => []OrphanIsWhereDispatchStopped
<1>1. TypeOK /\ FanOut => OrphanIsWhereDispatchStopped
  <2>. SUFFICES ASSUME TypeOK, FanOut, NEW l \in created, chains[l] = 0
                PROVE  \E d \in Dispatches : /\ dispatch[d].pc \in {"enqueueing", "failed"}
                                             /\ l = <<d, dispatch[d].at>>
    BY DEF OrphanIsWhereDispatchStopped
  <2>1. PICK d \in Dispatches, e \in Endpoints : l = <<d, e>>
    BY DEF TypeOK, RowType, Logs
  <2>2. StandsAt(d, e)
    BY <2>1 DEF FanOut, OnlyOneUnpublished
  <2>. QED BY <2>1, <2>2 DEF StandsAt
<1>. QED BY <1>1, FanOutInvariant, TypeCorrect, PTL

\* A dispatch that was answered has created and published a log for every endpoint
\* it counted in its answer.
THEOREM AcceptedDispatchesCover == Spec => []AcceptedCoversTargets
<1>1. FanOut => AcceptedCoversTargets
  BY DEF FanOut, Covers, StandsAt, AcceptedCoversTargets
<1>. QED BY <1>1, FanOutInvariant, PTL

----------------------------------------------------------------------------
(* What is known of a log before its first message, and of the logs that a *)
(* dispatch has yet to create.                                             *)

\* Nobody has anything to do with l, and its row is as it was inserted.
Unstarted(l) ==
  /\ \A r \in 0..MaxRetries : queue[l][r] = 0
  /\ \A w \in Workers : job[w].pc # "idle" => job[w].log # l
  /\ row[l] = NewRow /\ posts[l] = 0 /\ confirmed[l] = 0

RowsInserted ==
  /\ \A l \in Logs : chains[l] > 0 => l \in created
  /\ \A p \in Replays : replay[p].pc \in {"resetting", "requeueing"} =>
       replay[p].log \in created

LoadedFresh(p) ==
  replay[p].pc = "resetting" /\ chains[replay[p].log] = 0 => replay[p].loaded = NewRow

LoopOrder(d) ==
  /\ dispatch[d].pc = "new" => \A e \in Endpoints : <<d, e>> \notin created
  /\ dispatch[d].pc \in {"looping", "enqueueing"} =>
       \A e \in dispatch[d].todo : <<d, e>> \notin created
  /\ dispatch[d].pc = "enqueueing" => <<d, dispatch[d].at>> \in created

Known ==
  /\ \A l \in Logs : chains[l] = 0 => Unstarted(l)
  /\ RowsInserted
  /\ \A p \in Replays : LoadedFresh(p)
  /\ \A d \in Dispatches : LoopOrder(d)

\* The step concerns m neither in its row nor in its tasks.
Aside(m) ==
  /\ queue'[m] = queue[m] /\ row'[m] = row[m] /\ chains'[m] = chains[m]
  /\ posts'[m] = posts[m] /\ confirmed'[m] = confirmed[m]
  /\ \A w \in Workers : \/ job'[w] = job[w]
                        \/ /\ job[w].pc = "idle" \/ job[w].log # m
                           /\ job'[w].pc = "idle" \/ job'[w].log # m

\* A step about a log that has been started.
LEMMA KnownTouched ==
  ASSUME TypeOK, TypeOK', Known, UNCHANGED created,
         NEW l \in created, chains'[l] > 0, \A m \in Logs : m # l => Aside(m),
         \A d \in Dispatches :
           \/ dispatch'[d] = dispatch[d]
           \/ /\ dispatch[d].pc = "enqueueing" /\ dispatch'[d].todo = dispatch[d].todo
              /\ dispatch'[d].pc \in {"accepted", "looping", "failed"},
         \A p \in Replays :
           \/ replay'[p] = replay[p]
           \/ replay'[p].pc \in {"done", "failed"}
           \/ replay'[p].pc = "requeueing" /\ replay'[p].log = l
  PROVE  Known'
<1>0. l \in Logs /\ chains \in [Logs -> Nat] /\ chains' \in [Logs -> Nat]
  BY DEF TypeOK, RowType, HistoryType
<1>1. ASSUME NEW m \in Logs, chains'[m] = 0
      PROVE  Unstarted(m)'
  <2>1. m # l
    BY <1>0, <1>1
  <2>2. Aside(m) /\ Unstarted(m)
    BY <1>1, <2>1 DEF Aside, Known
  <2>. QED BY <2>2 DEF Aside, Unstarted
<1>2. RowsInserted'
  BY <1>0 DEF RowsInserted, Known, Aside
<1>3. ASSUME NEW p \in Replays PROVE LoadedFresh(p)'
  <2>1. replay[p].pc = "resetting" => replay[p].log \in Logs
    BY DEF TypeOK, ReplayType
  <2>. QED BY <1>0, <2>1 DEF LoadedFresh, Known, Aside
<1>4. ASSUME NEW d \in Dispatches PROVE LoopOrder(d)'
  BY DEF LoopOrder, Known
<1>. QED BY <1>1, <1>2, <1>3, <1>4 DEF Known

\* A step about no log at all.
LEMMA KnownAside ==
  ASSUME TypeOK, TypeOK', Known, UNCHANGED <<created, chains>>, \A m \in Logs : Aside(m),
         \A d \in Dispatches :
           \/ dispatch'[d] = dispatch[d]
           \/ dispatch'[d].pc \in {"failed", "rejected"}
           \/ /\ dispatch[d].pc = "new" /\ dispatch'[d].pc = "looping"
              /\ dispatch'[d].todo \subseteq Endpoints,
         \A p \in Replays :
           \/ replay'[p] = replay[p]
           \/ replay'[p].pc \in {"notfound", "failed"}
           \/ /\ replay'[p].pc = "resetting" /\ replay'[p].log \in created
              /\ replay'[p].loaded = row[replay'[p].log]
  PROVE  Known'
<1>1. \A m \in Logs : chains'[m] = 0 => Unstarted(m)'
  BY DEF Aside, Unstarted, Known
<1>2. RowsInserted'
  BY DEF RowsInserted, Known
<1>3. ASSUME NEW p \in Replays PROVE LoadedFresh(p)'
  <2>1. created \subseteq Logs
    BY DEF TypeOK, RowType
  <2>. QED BY <2>1 DEF LoadedFresh, Known, Unstarted
<1>4. ASSUME NEW d \in Dispatches PROVE LoopOrder(d)'
  BY DEF LoopOrder, Known
<1>. QED BY <1>1, <1>2, <1>3, <1>4 DEF Known

\* The log a worker step is about has a row and a message.
LEMMA WorkersLog ==
  ASSUME TypeOK, Known, NEW w \in Workers, job[w].pc # "idle"
  PROVE  job[w].log \in created /\ chains[job[w].log] > 0 /\ job[w].log \in Logs
<1>1. job[w].log \in Logs /\ chains[job[w].log] \in Nat
  BY DEF TypeOK, JobType, HistoryType
<1>2. chains[job[w].log] # 0
  BY <1>1 DEF Known, Unstarted
<1>. QED BY <1>1, <1>2 DEF Known, RowsInserted

\* The steps of a worker other than the first concern the log of its task only.
LEMMA WorkerTouches ==
  ASSUME TypeOK, Known, NEW w \in Workers, WorkerStep(w),
         ~\E l \in Logs, r \in 0..MaxRetries : Receive(w, l, r)
  PROVE  /\ job[w].pc # "idle"
         /\ \A m \in Logs : m # job[w].log => Aside(m)
         /\ chains'[job[w].log] > 0
         /\ UNCHANGED <<endpoint, created, dispatch, replay>>
<1>1. job[w].pc # "idle"
  BY DEF WorkerStep, WorkerProgress, AttemptEnds, Post, RecordSuccess, RecordRetry,
         RecordFailed, RecordRefused, PublishRetry, Ack, CommitStale, TaskFails, WorkerLost,
         Redeliver
<1>2. job[w].log \in Logs /\ chains[job[w].log] > 0 /\ job[w].log \in created
  BY <1>1, WorkersLog
<1>3. UNCHANGED <<endpoint, created, dispatch, replay>>
  BY DEF WorkerStep, WorkerProgress, AttemptEnds, Post, RecordSuccess, RecordRetry,
         RecordFailed, RecordRefused, Commit, PublishRetry, Ack, CommitStale, TaskFails,
         WorkerLost, Redeliver, history
<1>4. \A v \in Workers : v # w => job'[v] = job[v]
  BY DEF WorkerStep, WorkerProgress, AttemptEnds, Post, RecordSuccess, RecordRetry,
         RecordFailed, RecordRefused, Commit, PublishRetry, Ack, CommitStale, TaskFails,
         WorkerLost, Redeliver, TypeOK, JobType
<1>5. job'[w] = job[w] \/ job'[w].pc = "idle" \/ job'[w].log = job[w].log
  <2>1. job[w] \in Jobs
    BY DEF TypeOK, JobType
  <2>2. ASSUME NEW mine, NEW next, Commit(w, mine, next)
        PROVE  job'[w].log = job[w].log
    BY <2>1, <2>2 DEF Commit, TypeOK, JobType, Jobs
  <2>3. RecordSuccess(w) \/ RecordRetry(w) \/ RecordFailed(w) \/ RecordRefused(w) =>
          job'[w].log = job[w].log
    BY <2>2 DEF RecordSuccess, RecordRetry, RecordFailed, RecordRefused
  <2>4. PublishRetry(w) \/ (\E outcome \in Outcomes : Post(w, outcome)) =>
          job'[w].log = job[w].log
    BY <2>1 DEF PublishRetry, Post, TypeOK, JobType, Jobs
  <2>5. Ack(w) \/ CommitStale(w) \/ TaskFails(w) \/ WorkerLost(w) \/ Redeliver(w) =>
          job'[w] = job[w] \/ job'[w].pc = "idle"
    BY DEF Ack, CommitStale, TaskFails, WorkerLost, Redeliver, TypeOK, JobType, Idle
  <2>. QED BY <2>3, <2>4, <2>5 DEF WorkerStep, WorkerProgress, AttemptEnds
<1>6. \A m \in Logs : m # job[w].log => queue'[m] = queue[m] /\ chains'[m] = chains[m]
  BY <1>2 DEF WorkerStep, WorkerProgress, AttemptEnds, Post, RecordSuccess, RecordRetry,
         RecordFailed, RecordRefused, Commit, PublishRetry, Ack, CommitStale, TaskFails,
         WorkerLost, Redeliver, history, TypeOK, QueueType, HistoryType, Published
<1>7. \A m \in Logs : m # job[w].log =>
        row'[m] = row[m] /\ posts'[m] = posts[m] /\ confirmed'[m] = confirmed[m]
  BY <1>2 DEF WorkerStep, WorkerProgress, AttemptEnds, Post, RecordSuccess, RecordRetry,
         RecordFailed, RecordRefused, Commit, PublishRetry, Ack, CommitStale, TaskFails,
         WorkerLost, Redeliver, history, TypeOK, RowType, HistoryType, attempts
<1>8. chains'[job[w].log] > 0
  BY <1>2 DEF WorkerStep, WorkerProgress, AttemptEnds, Post, RecordSuccess, RecordRetry,
         RecordFailed, RecordRefused, Commit, PublishRetry, Ack, CommitStale, TaskFails,
         WorkerLost, Redeliver, history, TypeOK, HistoryType
<1>9. \A m \in Logs : m # job[w].log => Aside(m)
  BY <1>4, <1>5, <1>6, <1>7 DEF Aside
<1>. QED BY <1>1, <1>3, <1>8, <1>9

\* What one attempt adds to the counts: a request, at most one acceptance, and the
\* 2xx only if it was read.
LEMMA PostCounts ==
  ASSUME TypeOK, NEW w \in Workers, NEW outcome \in Outcomes, NEW l \in Logs,
         l = job[w].log, Post(w, outcome)
  PROVE  /\ posts'[l] = posts[l] + 1
         /\ confirmed'[l] = IF outcome \in GoodCodes THEN confirmed[l] + 1 ELSE confirmed[l]
         /\ accepted'[l] \in {accepted[l], accepted[l] + 1}
         /\ outcome \in GoodCodes => accepted'[l] = accepted[l] + 1
<1>1. NoAnswer \notin GoodCodes
  BY CodesAssumption DEF Codes
<1>2. posts' = [posts EXCEPT ![l] = @ + 1]
  BY DEF Post
<1>3. \/ /\ outcome \in GoodCodes
         /\ accepted' = [accepted EXCEPT ![l] = @ + 1]
         /\ confirmed' = [confirmed EXCEPT ![l] = @ + 1]
      \/ /\ outcome \notin GoodCodes
         /\ accepted' \in {accepted, [accepted EXCEPT ![l] = @ + 1]}
         /\ UNCHANGED confirmed
  BY <1>1 DEF Post
<1>. QED BY <1>2, <1>3 DEF TypeOK, HistoryType

LEMMA ReceiveTouches ==
  ASSUME TypeOK, NEW w \in Workers, NEW l \in Logs, NEW r \in 0..MaxRetries,
         Receive(w, l, r)
  PROVE  /\ job[w].pc = "idle" /\ queue[l][r] > 0
         /\ \A m \in Logs : m # l => Aside(m)
         /\ UNCHANGED <<endpoint, created, row, dispatch, replay, attempts, chains, hit>>
         /\ \A v \in Workers : v # w => job'[v] = job[v]
         /\ job'[w].log = l /\ job'[w].retries = r
         /\ job'[w].pc \in {"acking", "disabling", "sending"}
         /\ job'[w].pc # "acking" => Live(l) /\ job'[w].loaded = row[l]
         /\ Live(l) => job'[w].pc # "acking"
<1>1. job'[w] = [pc |-> IF ~Live(l) THEN "acking"
                        ELSE IF endpoint[EndpointOf(l)] = "inactive" THEN "disabling"
                        ELSE "sending",
                 log |-> l, retries |-> r,
                 loaded |-> IF Live(l) THEN row[l] ELSE NewRow, outcome |-> None]
  BY DEF Receive, TypeOK, JobType
<1>2. \A v \in Workers : v # w => job'[v] = job[v]
  BY DEF Receive, TypeOK, JobType
<1>3. \A m \in Logs : m # l => queue'[m] = queue[m]
  BY DEF Receive, TypeOK, QueueType
<1>4. /\ job[w].pc = "idle" /\ queue[l][r] > 0
      /\ UNCHANGED <<endpoint, created, row, dispatch, replay, attempts, chains, hit>>
  BY DEF Receive, history
<1>5. \A m \in Logs : m # l => Aside(m)
  BY <1>1, <1>2, <1>3, <1>4 DEF Aside, attempts
<1>. QED BY <1>1, <1>2, <1>4, <1>5

LEMMA KnownWorker ==
  ASSUME TypeOK, TypeOK', Known, NEW w \in Workers, WorkerStep(w)
  PROVE  Known'
<1>1. ASSUME NEW l \in Logs, NEW r \in 0..MaxRetries, Receive(w, l, r)
      PROVE  Known'
  <2>1. queue[l][r] > 0 /\ UNCHANGED <<created, dispatch, replay, chains>>
        /\ \A m \in Logs : m # l => Aside(m)
    BY <1>1, ReceiveTouches
  <2>2. queue[l][r] \in Nat /\ chains[l] \in Nat
    BY DEF TypeOK, QueueType, HistoryType
  <2>3. chains[l] > 0
    BY <2>1, <2>2 DEF Known, Unstarted
  <2>4. l \in created
    BY <2>3 DEF Known, RowsInserted
  <2>. QED BY <2>1, <2>3, <2>4, KnownTouched
<1>2. CASE ~\E l \in Logs, r \in 0..MaxRetries : Receive(w, l, r)
  BY <1>2, WorkerTouches, WorkersLog, KnownTouched
<1>. QED BY <1>1, <1>2

LEMMA KnownReplay ==
  ASSUME TypeOK, TypeOK', Known, NEW p \in Replays, ReplayStep(p)
  PROVE  Known'
<1>0. /\ UNCHANGED <<created, dispatch, job, attempts>>
      /\ \A q \in Replays : q # p => replay'[q] = replay[q]
  BY DEF ReplayStep, ReplayProgress, ReplayLoad, ReplayReset, ReplayPublish, ReplayFails,
         history, TypeOK, ReplayType
<1>1. ASSUME NEW l \in Logs, ReplayLoad(p, l) PROVE Known'
  <2>1. UNCHANGED <<row, queue, chains>>
    BY <1>1 DEF ReplayLoad, history
  <2>2. replay'[p] = IF Live(l) THEN [pc |-> "resetting", log |-> l, loaded |-> row[l]]
                                ELSE [pc |-> "notfound", log |-> NoLog, loaded |-> NewRow]
    BY <1>1 DEF ReplayLoad, TypeOK, ReplayType
  <2>3. \A m \in Logs : Aside(m)
    BY <1>0, <2>1 DEF Aside, attempts
  <2>4. \/ replay'[p].pc = "notfound"
        \/ /\ replay'[p].pc = "resetting" /\ replay'[p].log \in created
           /\ replay'[p].loaded = row[replay'[p].log]
    BY <2>2 DEF Live
  <2>. QED BY <1>0, <2>1, <2>3, <2>4, KnownAside
<1>2. CASE ReplayReset(p) /\ chains[replay[p].log] > 0 /\ Live(replay[p].log)
  <2>1. replay[p].log \in Logs /\ replay[p].log \in created
    BY <1>2 DEF ReplayReset, Known, RowsInserted, TypeOK, RowType
  <2>2. \A m \in Logs : m # replay[p].log => Aside(m)
    BY <1>0, <1>2, <2>1 DEF ReplayReset, Aside, history, TypeOK, RowType, attempts
  <2>3. replay'[p].pc = "requeueing" /\ replay'[p].log = replay[p].log /\ UNCHANGED chains
    BY <1>2 DEF ReplayReset, TypeOK, ReplayType, ReplayStates, history
  <2>. QED BY <1>0, <1>2, <2>1, <2>2, <2>3, KnownTouched
<1>3. CASE ReplayReset(p) /\ ~(chains[replay[p].log] > 0) /\ Live(replay[p].log)
  <2>0. replay[p].log \in Logs /\ replay[p].log \in created /\ chains[replay[p].log] = 0
    BY <1>3 DEF ReplayReset, Known, RowsInserted, TypeOK, RowType, HistoryType
  <2>1. row[replay[p].log] = NewRow /\ replay[p].loaded = NewRow
    BY <1>3, <2>0 DEF ReplayReset, Known, Unstarted, LoadedFresh
  <2>2. Flush(NewRow, NewRow, Reset(NewRow)) = NewRow
    BY DEF Flush, Column, Reset, NewRow
  <2>3. UNCHANGED <<queue, chains>> /\ row' = [row EXCEPT ![replay[p].log] = NewRow]
    BY <1>3, <2>1, <2>2 DEF ReplayReset, history
  <2>4. row' = row
    BY <2>0, <2>1, <2>3 DEF TypeOK, RowType
  <2>5. \A m \in Logs : Aside(m)
    BY <1>0, <2>3, <2>4 DEF Aside, attempts
  <2>6. replay'[p].pc = "requeueing" /\ replay'[p].log = replay[p].log
    BY <1>3 DEF ReplayReset, TypeOK, ReplayType, ReplayStates
  <2>7. RowsInserted' /\ \A q \in Replays : LoadedFresh(q)'
    BY <1>0, <2>0, <2>3, <2>6 DEF RowsInserted, LoadedFresh, Known
  <2>8. \A m \in Logs : chains'[m] = 0 => Unstarted(m)'
    BY <2>5 DEF Aside, Unstarted, Known
  <2>9. \A d \in Dispatches : LoopOrder(d)'
    BY <1>0 DEF LoopOrder, Known
  <2>. QED BY <2>7, <2>8, <2>9 DEF Known
<1>4. CASE (ReplayReset(p) /\ ~Live(replay[p].log)) \/ ReplayFails(p)
  <2>1. UNCHANGED <<row, queue, chains>> /\ replay'[p].pc = "failed"
    BY <1>4 DEF ReplayReset, ReplayFails, history, TypeOK, ReplayType, ReplayStates
  <2>2. \A m \in Logs : Aside(m)
    BY <1>0, <2>1 DEF Aside, attempts
  <2>. QED BY <1>0, <2>1, <2>2, KnownAside
<1>5. CASE ReplayPublish(p)
  <2>1. replay[p].log \in Logs /\ replay[p].log \in created
    BY <1>5 DEF ReplayPublish, Known, RowsInserted, TypeOK, RowType
  <2>2. \A m \in Logs : m # replay[p].log => Aside(m)
    BY <1>0, <1>5, <2>1 DEF ReplayPublish, Aside, Published, TypeOK, QueueType, HistoryType, attempts
  <2>3. replay'[p].pc = "done" /\ chains'[replay[p].log] > 0
    BY <1>5, <2>1 DEF ReplayPublish, TypeOK, ReplayType, ReplayStates, HistoryType
  <2>. QED BY <1>0, <2>1, <2>2, <2>3, KnownTouched
<1>. QED BY <1>1, <1>2, <1>3, <1>4, <1>5 DEF ReplayStep, ReplayProgress

LEMMA KnownDispatch ==
  ASSUME TypeOK, TypeOK', Known, NEW d \in Dispatches, DispatchStep(d)
  PROVE  Known'
<1>0. /\ UNCHANGED <<job, replay, attempts>>
      /\ \A c \in Dispatches : c # d => dispatch'[c] = dispatch[c]
  BY DEF DispatchStep, DispatchProgress, DispatchList, DispatchCreate, DispatchPublish,
         DispatchFails, history, TypeOK, DispatchType
<1>1. CASE DispatchList(d)
  <2>1. /\ UNCHANGED <<created, row, queue, chains>>
        /\ dispatch[d].pc = "new" /\ dispatch'[d].pc \in {"rejected", "looping"}
        /\ dispatch'[d].todo \subseteq Endpoints
    BY <1>1 DEF DispatchList, ActiveEndpoints, history, TypeOK, DispatchType
  <2>2. \A m \in Logs : Aside(m)
    BY <1>0, <2>1 DEF Aside, attempts
  <2>. QED BY <1>0, <2>1, <2>2, KnownAside
<1>2. ASSUME NEW e \in Endpoints, DispatchCreate(d, e), endpoint[e] = "removed"
      PROVE  Known'
  <2>1. UNCHANGED <<created, row, queue, chains>> /\ dispatch'[d].pc = "failed"
    BY <1>2 DEF DispatchCreate, history, TypeOK, DispatchType, DispatchStates
  <2>2. \A m \in Logs : Aside(m)
    BY <1>0, <2>1 DEF Aside, attempts
  <2>. QED BY <1>0, <2>1, <2>2, KnownAside
<1>3. ASSUME NEW e \in Endpoints, DispatchCreate(d, e), endpoint[e] # "removed"
      PROVE  Known'
  <2>. DEFINE l == <<d, e>>
  <2>1. /\ l \in Logs /\ l \notin created /\ chains[l] = 0
    <3>1. dispatch[d].pc = "looping" /\ e \in dispatch[d].todo
      BY <1>3 DEF DispatchCreate
    <3>2. l \in Logs /\ l \notin created
      BY <3>1 DEF Known, LoopOrder, Logs
    <3>3. chains[l] \in Nat /\ ~(chains[l] > 0)
      BY <3>2 DEF Known, RowsInserted, TypeOK, HistoryType
    <3>. QED BY <3>2, <3>3
  <2>2. row[l] = NewRow /\ row' = [row EXCEPT ![l] = NewRow]
    BY <1>3, <2>1 DEF DispatchCreate, Known, Unstarted
  <2>3. row' = row /\ UNCHANGED <<queue, chains>> /\ created' = created \cup {l}
    BY <1>3, <2>2 DEF DispatchCreate, history, TypeOK, RowType
  <2>4. /\ dispatch'[d].pc = "enqueueing" /\ dispatch'[d].at = e
        /\ dispatch'[d].todo = dispatch[d].todo \ {e}
        /\ dispatch[d].pc = "looping"
        /\ dispatch[d].todo \subseteq Endpoints
    BY <1>3 DEF DispatchCreate, TypeOK, DispatchType, DispatchStates
  <2>5. \A m \in Logs : Aside(m)
    BY <1>0, <2>3 DEF Aside, attempts
  <2>6. \A m \in Logs : chains'[m] = 0 => Unstarted(m)'
    BY <2>5 DEF Aside, Unstarted, Known
  <2>7. RowsInserted' /\ \A q \in Replays : LoadedFresh(q)'
    BY <1>0, <2>3 DEF RowsInserted, LoadedFresh, Known
  <2>8. ASSUME NEW c \in Dispatches PROVE LoopOrder(c)'
    <3>1. CASE c = d
      BY <2>3, <2>4, <3>1 DEF LoopOrder, Known
    <3>2. CASE c # d
      <4>1. dispatch'[c] = dispatch[c] /\ \A f : <<c, f>> # l
        BY <1>0, <3>2
      <4>. QED BY <2>3, <4>1 DEF LoopOrder, Known
    <3>. QED BY <3>1, <3>2
  <2>. QED BY <2>6, <2>7, <2>8 DEF Known
<1>4. CASE DispatchPublish(d)
  <2>. DEFINE l == <<d, dispatch[d].at>>
  <2>1. l \in created /\ l \in Logs
    BY <1>4 DEF DispatchPublish, Known, LoopOrder, TypeOK, RowType
  <2>2. queue' = Published(queue, l, 0) /\ chains' = [chains EXCEPT ![l] = @ + 1]
        /\ UNCHANGED <<row, created>>
    BY <1>4 DEF DispatchPublish
  <2>3. /\ dispatch[d].pc = "enqueueing" /\ dispatch'[d].pc \in {"accepted", "looping"}
        /\ dispatch'[d].todo = dispatch[d].todo
    BY <1>4 DEF DispatchPublish, TypeOK, DispatchType, DispatchStates
  <2>. HIDE DEF l
  <2>4. \A m \in Logs : m # l => Aside(m)
    BY <1>0, <2>1, <2>2 DEF Aside, Published, TypeOK, QueueType, HistoryType, attempts
  <2>5. chains'[l] > 0
    BY <2>1, <2>2 DEF TypeOK, HistoryType
  <2>. QED BY <1>0, <2>1, <2>2, <2>3, <2>4, <2>5, KnownTouched
<1>5. CASE DispatchFails(d)
  <2>1. UNCHANGED <<created, row, queue, chains>> /\ dispatch'[d].pc = "failed"
    BY <1>5 DEF DispatchFails, TypeOK, DispatchType, DispatchStates
  <2>2. \A m \in Logs : Aside(m)
    BY <1>0, <2>1 DEF Aside, attempts
  <2>. QED BY <1>0, <2>1, <2>2, KnownAside
<1>. QED BY <1>1, <1>2, <1>3, <1>4, <1>5 DEF DispatchStep, DispatchProgress

LEMMA KnownInvariant == Spec => []Known
<1>1. Init => Known
  BY DEF Init, Known, Unstarted, RowsInserted, LoadedFresh, LoopOrder, Idle
<1>2. TypeOK /\ TypeOK' /\ Known /\ [Next]_vars => Known'
  <2>. SUFFICES ASSUME TypeOK, TypeOK', Known, [Next]_vars PROVE Known'
    OBVIOUS
  <2>1. CASE UNCHANGED vars \/ OperatorStep
    <3>1. UNCHANGED <<created, row, queue, job, dispatch, replay, attempts, chains>>
      BY <2>1 DEF vars, OperatorStep, CreateEndpoint, Disable, Enable, Remove, history
    <3>2. \A m \in Logs : Aside(m)
      BY <3>1 DEF Aside, attempts
    <3>. QED BY <3>1, <3>2, KnownAside
  <2>. QED BY <2>1, KnownDispatch, KnownReplay, KnownWorker DEF Next
<1>. QED BY <1>1, <1>2, TypeCorrect, PTL DEF Spec

----------------------------------------------------------------------------
(* A log that was started once, or whose starts have not crossed, has one  *)
(* carrier at most, and is not settled while it has one.                   *)

OneMessage(l) ==
  /\ \A r \in 0..MaxRetries : queue[l][r] <= 1
  /\ \A r, s \in 0..MaxRetries : queue[l][r] > 0 /\ queue[l][s] > 0 => r = s

OneTask(l) == \A v, w \in Workers : Busy(v, l) /\ Busy(w, l) => v = w

MessageOrTask(l) == \A w \in Workers : Busy(w, l) => \A r \in 0..MaxRetries : queue[l][r] = 0

OpenWhileCarried(l) == Queued(l) \/ (\E w \in Workers : Busy(w, l)) => ~Settled(l)

Sole(l) ==
  chains[l] < 2 \/ l \notin crossed =>
    OneMessage(l) /\ OneTask(l) /\ MessageOrTask(l) /\ OpenWhileCarried(l)

\* No message and no task of l is about.
Resting(l) == ~Queued(l) /\ \A w \in Workers : ~Busy(w, l)

Publishing(l) ==
  (\E d \in Dispatches : Enqueueing(d, l)) \/ (\E p \in Replays : Requeueing(p, l))

\* A log whose starts have not crossed has one start under way at most.
Lone(l) ==
  l \notin crossed =>
    /\ Publishing(l) => Resting(l) /\ ~Settled(l)
    /\ \A p \in Replays : Requeueing(p, l) => \A d \in Dispatches : ~Enqueueing(d, l)
    /\ \A p, q \in Replays : Requeueing(p, l) /\ Requeueing(q, l) => p = q

Orderly(l) == Sole(l) /\ Lone(l)

LEMMA CrossedGrows ==
  ASSUME TypeOK, [Next]_vars
  PROVE  crossed \subseteq crossed'
<1>1. CASE UNCHANGED vars \/ OperatorStep \/ \E d \in Dispatches : DispatchStep(d)
  BY <1>1 DEF vars, history, OperatorStep, CreateEndpoint, Disable, Enable, Remove,
              DispatchStep, DispatchProgress, DispatchList, DispatchCreate, DispatchPublish,
              DispatchFails
<1>2. CASE \E p \in Replays : ReplayStep(p)
  BY <1>2 DEF ReplayStep, ReplayProgress, ReplayLoad, ReplayReset, ReplayPublish,
              ReplayFails, history
<1>3. CASE \E w \in Workers : WorkerStep(w)
  BY <1>3 DEF WorkerStep, WorkerProgress, AttemptEnds, Receive, Post, RecordSuccess,
              RecordRetry, RecordFailed, RecordRefused, Commit, PublishRetry, Ack,
              CommitStale, TaskFails, WorkerLost, Redeliver, history
<1>. QED BY <1>1, <1>2, <1>3 DEF Next

LEMMA AsideBusy ==
  ASSUME NEW m \in Logs, Aside(m), NEW w \in Workers
  PROVE  Busy(w, m)' = Busy(w, m)
  BY DEF Aside, Busy

LEMMA SoleAside ==
  ASSUME NEW m \in Logs, Aside(m), Sole(m), crossed \subseteq crossed'
  PROVE  Sole(m)'
  BY AsideBusy DEF Aside, Sole, OneMessage, OneTask, MessageOrTask, OpenWhileCarried,
                   Queued, Settled

\* Nothing but the publication of l ends here, and no start of it begins.
LEMMA LoneKept ==
  ASSUME NEW l \in Logs, Lone(l), crossed \subseteq crossed',
         l \notin crossed' /\ Resting(l) /\ ~Settled(l) => Resting(l)' /\ ~Settled(l)',
         \A d \in Dispatches : Enqueueing(d, l)' => Enqueueing(d, l),
         \A p \in Replays : Requeueing(p, l)' => Requeueing(p, l)
  PROVE  Lone(l)'
  BY DEF Lone, Publishing

LEMMA RestingAside ==
  ASSUME NEW m \in Logs, Aside(m)
  PROVE  Resting(m)' = Resting(m) /\ Settled(m)' = Settled(m)
  BY AsideBusy DEF Aside, Resting, Queued, Settled

\* The one message of a log that nothing else carries, or one too many to say anything.
LEMMA SolePublished ==
  ASSUME TypeOK, Known, NEW l \in Logs, NEW r \in 0..MaxRetries,
         queue' = Published(queue, l, r), chains' = [chains EXCEPT ![l] = @ + 1],
         UNCHANGED <<row, job>>,
         l \notin crossed' => Resting(l) /\ ~Settled(l)
  PROVE  Sole(l)'
<1>1. /\ chains[l] \in Nat /\ chains'[l] = chains[l] + 1
      /\ \A s \in 0..MaxRetries : queue[l][s] \in Nat
  BY DEF TypeOK, HistoryType, QueueType
<1>. SUFFICES ASSUME chains'[l] < 2 \/ l \notin crossed'
              PROVE  OneMessage(l)' /\ OneTask(l)' /\ MessageOrTask(l)' /\ OpenWhileCarried(l)'
  BY DEF Sole
<1>2. Resting(l) /\ ~Settled(l)
  <2>1. ASSUME chains[l] = 0 PROVE Resting(l) /\ ~Settled(l)
    BY <2>1 DEF Known, Unstarted, Resting, Queued, Busy, Settled, Unsettled, NewRow
  <2>. QED BY <1>1, <2>1
<1>3. \A s \in 0..MaxRetries : queue'[l][s] = IF s = r THEN 1 ELSE 0
  <2>1. \A s \in 0..MaxRetries : queue[l][s] = 0
    BY <1>1, <1>2 DEF Resting, Queued
  <2>. QED BY <2>1 DEF Published, TypeOK, QueueType
<1>4. \A w \in Workers : ~Busy(w, l)'
  BY <1>2 DEF Resting, Busy
<1>5. ~Settled(l)'
  BY <1>2 DEF Settled
<1>. QED BY <1>3, <1>4, <1>5 DEF OneMessage, OneTask, MessageOrTask, OpenWhileCarried

\* A task hands l on to a message.
LEMMA SoleHandsOn ==
  ASSUME TypeOK, NEW l \in Logs, Sole(l), NEW w \in Workers, NEW r \in 0..MaxRetries,
         Busy(w, l), ~Busy(w, l)', \A v \in Workers : v # w => job'[v] = job[v],
         queue' = Published(queue, l, r), UNCHANGED row,
         chains'[l] < 2 \/ l \notin crossed' => chains[l] < 2 \/ l \notin crossed
  PROVE  Sole(l)'
<1>. SUFFICES ASSUME chains[l] < 2 \/ l \notin crossed
              PROVE  OneMessage(l)' /\ OneTask(l)' /\ MessageOrTask(l)' /\ OpenWhileCarried(l)'
  BY DEF Sole
<1>1. \A s \in 0..MaxRetries : queue'[l][s] = IF s = r THEN 1 ELSE 0
  <2>1. \A s \in 0..MaxRetries : queue[l][s] = 0
    BY DEF Sole, MessageOrTask
  <2>. QED BY <2>1 DEF Published, TypeOK, QueueType
<1>2. \A v \in Workers : ~Busy(v, l)'
  <2>1. \A v \in Workers : Busy(v, l) => v = w
    BY DEF Sole, OneTask
  <2>. QED BY <2>1 DEF Busy
<1>3. ~Settled(l)'
  BY DEF Sole, OpenWhileCarried, Settled
<1>. QED BY <1>1, <1>2, <1>3 DEF OneMessage, OneTask, MessageOrTask, OpenWhileCarried

\* A task goes on with l, or comes to its end.
LEMMA SoleTask ==
  ASSUME TypeOK, TypeOK', NEW l \in Logs, Sole(l), NEW w \in Workers, Busy(w, l),
         UNCHANGED <<queue, chains>>, crossed \subseteq crossed',
         \A v \in Workers : v # w => job'[v] = job[v],
         Busy(w, l)' => ~Settled(l)' \/ row'[l].status = row[l].status
  PROVE  Sole(l)'
<1>1. \A v \in Workers : Busy(v, l)' => Busy(v, l)
  BY DEF Busy
<1>. SUFFICES ASSUME chains[l] < 2 \/ l \notin crossed
              PROVE  OneMessage(l)' /\ OneTask(l)' /\ MessageOrTask(l)' /\ OpenWhileCarried(l)'
  BY DEF Sole
<1>2. OneMessage(l)' /\ OneTask(l)' /\ MessageOrTask(l)'
  BY <1>1 DEF Sole, OneMessage, OneTask, MessageOrTask
<1>3. ~Queued(l)'
  BY DEF Sole, MessageOrTask, Queued
<1>4. \A v \in Workers : Busy(v, l)' => v = w
  BY <1>1 DEF Sole, OneTask
<1>5. ~Settled(l)
  BY DEF Sole, OpenWhileCarried
<1>. QED BY <1>2, <1>3, <1>4, <1>5 DEF OpenWhileCarried, Settled

LEMMA SoleWorker ==
  ASSUME TypeOK, TypeOK', Known, NEW w \in Workers, WorkerStep(w), \A l \in Logs : Sole(l)
  PROVE  \A l \in Logs : Sole(l)'
<1>0. crossed \subseteq crossed'
  BY CrossedGrows DEF Next
<1>1. ASSUME NEW l \in Logs, NEW r \in 0..MaxRetries, Receive(w, l, r)
      PROVE  Sole(l)'
  <2>0. /\ \A v \in Workers : v # w => job'[v] = job[v]
        /\ UNCHANGED <<row, chains>> /\ queue[l][r] > 0
    BY <1>1, ReceiveTouches
  <2>1. /\ queue[l][r] \in Nat
        /\ \A s \in 0..MaxRetries : queue'[l][s] = IF s = r THEN queue[l][r] - 1 ELSE queue[l][s]
    BY <1>1 DEF Receive, TypeOK, QueueType
  <2>. SUFFICES ASSUME chains[l] < 2 \/ l \notin crossed
                PROVE  OneMessage(l)' /\ OneTask(l)' /\ MessageOrTask(l)' /\ OpenWhileCarried(l)'
    BY <1>0, <2>0 DEF Sole
  <2>2. \A s \in 0..MaxRetries : queue'[l][s] = 0
    <3>. TAKE s \in 0..MaxRetries
    <3>1. queue[l][s] \in Nat
      BY DEF TypeOK, QueueType
    <3>. QED BY <2>0, <2>1, <3>1 DEF Sole, OneMessage
  <2>3. \A v \in Workers : ~Busy(v, l)
    BY <2>0 DEF Sole, MessageOrTask
  <2>4. \A v \in Workers : Busy(v, l)' => v = w
    BY <2>0, <2>3 DEF Busy
  <2>5. ~Settled(l)'
    BY <2>0 DEF Sole, OpenWhileCarried, Queued, Settled
  <2>. QED BY <2>2, <2>4, <2>5 DEF OneMessage, OneTask, MessageOrTask, OpenWhileCarried
<1>2. ASSUME ~\E m \in Logs, r \in 0..MaxRetries : Receive(w, m, r),
             NEW l \in Logs, l = job[w].log
      PROVE  Sole(l)'
  <2>0. job[w].pc # "idle" /\ chains[l] > 0
    BY <1>2, WorkerTouches, WorkersLog
  <2>1. /\ job[w] \in Jobs /\ chains \in [Logs -> Nat] /\ row \in [Logs -> Columns]
        /\ job[w].pc = "publishing" => job[w].retries < MaxRetries
    BY DEF TypeOK, JobType, HistoryType, RowType
  <2>2. ASSUME NEW outcome \in Outcomes, Post(w, outcome) PROVE Sole(l)'
    <3>1. /\ Busy(w, l) /\ UNCHANGED <<queue, chains, row>>
          /\ \A v \in Workers : v # w => job'[v] = job[v]
      BY <1>2, <2>2 DEF Post, Busy, TypeOK, JobType
    <3>. QED BY <1>0, <2>0, <3>1, SoleTask
  <2>3. ASSUME NEW mine, NEW next, Commit(w, mine, next), Busy(w, l),
               next = "acking" \/ mine.status = "retrying"
        PROVE  Sole(l)'
    <3>1. /\ UNCHANGED <<queue, chains>> /\ job'[w].pc = next
          /\ \A v \in Workers : v # w => job'[v] = job[v]
      BY <2>1, <2>3 DEF Commit, history, TypeOK, JobType, Jobs
    <3>2. row'[l].status \in {row[l].status, mine.status}
      BY <1>2, <2>1, <2>3, FlushStatus DEF Commit
    <3>3. Busy(w, l)' => ~Settled(l)' \/ row'[l].status = row[l].status
      BY <2>3, <3>1, <3>2 DEF Busy, Settled, Unsettled
    <3>. QED BY <1>0, <2>0, <2>3, <3>1, <3>3, SoleTask
  <2>4. CASE RecordSuccess(w) \/ RecordFailed(w) \/ RecordRefused(w)
    BY <1>2, <2>3, <2>4 DEF RecordSuccess, RecordFailed, RecordRefused, Busy
  <2>5. CASE RecordRetry(w)
    <3>1. Recorded(job[w].loaded, job[w].retries, job[w].outcome, "retrying").status = "retrying"
      BY DEF Recorded
    <3>. QED BY <1>2, <2>3, <2>5, <3>1 DEF RecordRetry, Busy
  <2>6. CASE PublishRetry(w)
    <3>. DEFINE r == job[w].retries + 1
    <3>1. /\ r \in 0..MaxRetries /\ UNCHANGED <<row, chains>> /\ Busy(w, l)
          /\ queue' = Published(queue, l, r) /\ ~Busy(w, l)'
          /\ \A v \in Workers : v # w => job'[v] = job[v]
      BY <1>2, <2>1, <2>6 DEF PublishRetry, Busy, history, TypeOK, JobType, Jobs
    <3>. HIDE DEF r
    <3>. QED BY <1>0, <3>1, SoleHandsOn
  <2>7. CASE Ack(w) \/ CommitStale(w) \/ TaskFails(w)
    <3>1. /\ UNCHANGED <<queue, chains, row>> /\ job'[w].pc = "idle"
          /\ \A v \in Workers : v # w => job'[v] = job[v]
      BY <2>7 DEF Ack, CommitStale, TaskFails, history, TypeOK, JobType, Idle
    <3>2. \A v \in Workers : Busy(v, l)' => Busy(v, l)
      BY <3>1 DEF Busy
    <3>. QED BY <1>0, <2>0, <3>1, <3>2 DEF Sole, OneMessage, OneTask, MessageOrTask,
                                           OpenWhileCarried, Queued, Settled
  <2>8. CASE WorkerLost(w) \/ Redeliver(w)
    <3>1. /\ chains' = [chains EXCEPT ![l] = @ + 1]
          /\ queue' = Published(queue, l, job[w].retries) /\ UNCHANGED row
          /\ Redeliver(w) \/ job[w].pc = "acking" => l \in crossed'
          /\ WorkerLost(w) => job' = [job EXCEPT ![w] = Idle]
      BY <1>2, <2>8 DEF WorkerLost, Redeliver
    <3>2. ~(chains'[l] < 2)
      BY <2>0, <2>1, <3>1
    <3>3. CASE Redeliver(w) \/ job[w].pc = "acking"
      BY <3>1, <3>2, <3>3 DEF Sole
    <3>4. CASE ~(Redeliver(w) \/ job[w].pc = "acking")
      <4>1. /\ Busy(w, l) /\ ~Busy(w, l)' /\ job[w].retries \in 0..MaxRetries
            /\ \A v \in Workers : v # w => job'[v] = job[v]
        BY <1>2, <2>0, <2>1, <2>8, <3>1, <3>4 DEF Busy, Jobs, Idle, TypeOK, JobType
      <4>2. chains'[l] < 2 \/ l \notin crossed' => chains[l] < 2 \/ l \notin crossed
        BY <1>0, <3>2
      <4>. QED BY <2>0, <3>1, <4>1, <4>2, SoleHandsOn
    <3>. QED BY <3>3, <3>4
  <2>. QED BY <1>2, <2>2, <2>4, <2>5, <2>6, <2>7, <2>8
           DEF WorkerStep, WorkerProgress, AttemptEnds
<1>3. CASE \E l \in Logs, r \in 0..MaxRetries : Receive(w, l, r)
  BY <1>0, <1>1, <1>3, ReceiveTouches, SoleAside
<1>4. CASE ~\E l \in Logs, r \in 0..MaxRetries : Receive(w, l, r)
  <2>1. PICK l \in Logs : l = job[w].log
    BY <1>4, WorkerTouches, WorkersLog
  <2>2. \A m \in Logs : m # l => Aside(m)
    BY <1>4, <2>1, WorkerTouches
  <2>. QED BY <1>0, <1>2, <1>4, <2>1, <2>2, SoleAside
<1>. QED BY <1>3, <1>4

\* A step that publishes nothing and only opens rows.
LEMMA SoleOpened ==
  ASSUME TypeOK, NEW l \in Logs, Sole(l), UNCHANGED <<queue, job, chains>>,
         crossed \subseteq crossed', row'[l].status \in {row[l].status, "pending"}
  PROVE  Sole(l)'
<1>1. \A w \in Workers : Busy(w, l)' = Busy(w, l)
  BY DEF Busy
<1>2. ~Settled(l) => ~Settled(l)'
  BY DEF Settled, Unsettled
<1>. QED BY <1>1, <1>2 DEF Sole, OneMessage, OneTask, MessageOrTask, OpenWhileCarried, Queued

\* What a handler publishes and does to the rows.
LEMMA HandlerRows ==
  ASSUME TypeOK, Known,
         \/ \E d \in Dispatches : DispatchStep(d) /\ ~DispatchPublish(d)
         \/ \E p \in Replays : ReplayStep(p) /\ ~ReplayPublish(p)
  PROVE  /\ UNCHANGED <<queue, job, chains, attempts>>
         /\ \A l \in Logs : row'[l].status \in {row[l].status, "pending"}
<1>1. ASSUME NEW d \in Dispatches, DispatchStep(d), ~DispatchPublish(d)
      PROVE  /\ UNCHANGED <<queue, job, chains, attempts>>
             /\ \A l \in Logs : row'[l].status \in {row[l].status, "pending"}
  <2>1. UNCHANGED <<queue, job, chains, attempts>>
    BY <1>1 DEF DispatchStep, DispatchProgress, DispatchList, DispatchCreate, DispatchFails,
                history
  <2>2. ASSUME NEW e \in Endpoints, DispatchCreate(d, e)
        PROVE  row' \in {row, [row EXCEPT ![<<d, e>>] = NewRow]}
    BY <2>2 DEF DispatchCreate
  <2>3. CASE ~\E e \in Endpoints : DispatchCreate(d, e)
    BY <1>1, <2>1, <2>3 DEF DispatchStep, DispatchProgress, DispatchList, DispatchFails
  <2>4. NewRow.status = "pending" /\ row \in [Logs -> Columns]
    BY DEF NewRow, TypeOK, RowType
  <2>. QED BY <2>1, <2>2, <2>3, <2>4
<1>2. ASSUME NEW p \in Replays, ReplayStep(p), ~ReplayPublish(p)
      PROVE  /\ UNCHANGED <<queue, job, chains, attempts>>
             /\ \A l \in Logs : row'[l].status \in {row[l].status, "pending"}
  <2>1. UNCHANGED <<queue, job, chains, attempts>>
    BY <1>2 DEF ReplayStep, ReplayProgress, ReplayLoad, ReplayReset, ReplayFails, history
  <2>2. CASE ReplayReset(p)
    <3>1. Reset(replay[p].loaded).status = "pending"
      BY <2>2 DEF Reset, Columns, TypeOK, ReplayType, ReplayStates
    <3>. QED BY <2>1, <2>2, <3>1, FlushStatus DEF ReplayReset, TypeOK, RowType
  <2>3. CASE ~ReplayReset(p)
    BY <1>2, <2>1, <2>3 DEF ReplayStep, ReplayProgress, ReplayLoad, ReplayFails
  <2>. QED BY <2>2, <2>3
<1>. QED BY <1>1, <1>2

LEMMA HandlerPublishes ==
  ASSUME TypeOK, Known,
         \/ \E d \in Dispatches : DispatchPublish(d)
         \/ \E p \in Replays : ReplayPublish(p)
  PROVE  \E l \in Logs :
           /\ l \in created
           /\ \/ \E d \in Dispatches : Enqueueing(d, l) /\ DispatchPublish(d)
              \/ \E p \in Replays : Requeueing(p, l) /\ ReplayPublish(p)
           /\ queue' = Published(queue, l, 0) /\ chains' = [chains EXCEPT ![l] = @ + 1]
           /\ UNCHANGED <<endpoint, created, row, job, attempts, refused, crossed, hit>>
           /\ \A m \in Logs : m # l => Aside(m)
<1>1. ASSUME NEW l \in Logs, queue' = Published(queue, l, 0),
             chains' = [chains EXCEPT ![l] = @ + 1],
             UNCHANGED <<row, job, attempts>>
      PROVE  \A m \in Logs : m # l => Aside(m)
  BY <1>1 DEF Aside, attempts, Published, TypeOK, QueueType, HistoryType
<1>2. ASSUME NEW d \in Dispatches, DispatchPublish(d)
      PROVE  \E l \in Logs : l = <<d, dispatch[d].at>> /\ l \in created
    BY <1>2 DEF DispatchPublish, Known, LoopOrder, TypeOK, RowType
<1>3. ASSUME NEW p \in Replays, ReplayPublish(p)
      PROVE  \E l \in Logs : l = replay[p].log /\ l \in created
    BY <1>3 DEF ReplayPublish, Known, RowsInserted, TypeOK, RowType
<1>4. CASE \E d \in Dispatches : DispatchPublish(d)
  <2>1. PICK d \in Dispatches : DispatchPublish(d)
    BY <1>4
  <2>2. PICK l \in Logs : l = <<d, dispatch[d].at>> /\ l \in created
    BY <1>2, <2>1
  <2>3. /\ Enqueueing(d, l) /\ queue' = Published(queue, l, 0)
        /\ chains' = [chains EXCEPT ![l] = @ + 1]
        /\ UNCHANGED <<endpoint, created, row, job, attempts, refused, crossed, hit>>
    BY <2>1, <2>2 DEF DispatchPublish, Enqueueing
  <2>. QED BY <1>1, <2>1, <2>2, <2>3
<1>5. CASE \E p \in Replays : ReplayPublish(p)
  <2>1. PICK p \in Replays : ReplayPublish(p)
    BY <1>5
  <2>2. PICK l \in Logs : l = replay[p].log /\ l \in created
    BY <1>3, <2>1
  <2>3. /\ Requeueing(p, l) /\ queue' = Published(queue, l, 0)
        /\ chains' = [chains EXCEPT ![l] = @ + 1]
        /\ UNCHANGED <<endpoint, created, row, job, attempts, refused, crossed, hit>>
    BY <2>1, <2>2 DEF ReplayPublish, Requeueing
  <2>. QED BY <1>1, <2>1, <2>2, <2>3
<1>. QED BY <1>4, <1>5

LEMMA LoneWorker ==
  ASSUME TypeOK, Known, NEW w \in Workers, WorkerStep(w), NEW l \in Logs, Lone(l)
  PROVE  Lone(l)'
<1>0. crossed \subseteq crossed'
  BY CrossedGrows DEF Next
<1>1. CASE Aside(l) /\ UNCHANGED <<dispatch, replay>>
  BY <1>0, <1>1, LoneKept, RestingAside DEF Enqueueing, Requeueing
<1>2. ASSUME NEW r \in 0..MaxRetries, Receive(w, l, r) PROVE Lone(l)'
  <2>1. queue[l][r] > 0 /\ UNCHANGED <<dispatch, replay>>
    BY <1>2, ReceiveTouches
  <2>2. ~Resting(l)
    BY <2>1 DEF Resting, Queued
  <2>. QED BY <1>0, <2>1, <2>2, LoneKept DEF Enqueueing, Requeueing
<1>3. CASE /\ ~\E m \in Logs, r \in 0..MaxRetries : Receive(w, m, r)
           /\ l = job[w].log
  <2>1. job[w].pc # "idle" /\ UNCHANGED <<dispatch, replay>>
    BY <1>3, WorkerTouches
  <2>2. ASSUME l \notin crossed', Resting(l), ~Settled(l)
        PROVE  Resting(l)' /\ ~Settled(l)'
    <3>1. job[w].pc = "acking"
      BY <1>3, <2>1, <2>2 DEF Resting, Busy, TypeOK, JobType, Jobs
    <3>2. Ack(w)
      BY <1>3, <2>2, <3>1 DEF WorkerStep, WorkerProgress, AttemptEnds, Post, RecordSuccess,
                RecordRetry, RecordFailed, RecordRefused, PublishRetry, CommitStale,
                TaskFails, WorkerLost, Redeliver
    <3>3. /\ UNCHANGED <<queue, row>> /\ job' = [job EXCEPT ![w] = Idle]
      BY <3>2 DEF Ack
    <3>4. \A v \in Workers : Busy(v, l)' => Busy(v, l)
      BY <3>3 DEF Busy, Idle, TypeOK, JobType
    <3>. QED BY <2>2, <3>3, <3>4 DEF Resting, Queued, Settled
  <2>. QED BY <1>0, <2>1, <2>2, LoneKept DEF Enqueueing, Requeueing
<1>4. CASE \E m \in Logs, r \in 0..MaxRetries : Receive(w, m, r)
  BY <1>1, <1>2, <1>4, ReceiveTouches
<1>5. CASE /\ ~\E m \in Logs, r \in 0..MaxRetries : Receive(w, m, r)
           /\ l # job[w].log
  BY <1>1, <1>5, WorkerTouches
<1>. QED BY <1>3, <1>4, <1>5

LEMMA LoneDispatch ==
  ASSUME TypeOK, Known, NEW d \in Dispatches, DispatchStep(d), NEW l \in Logs, Lone(l)
  PROVE  Lone(l)'
<1>0. /\ UNCHANGED <<job, replay, crossed>>
      /\ \A c \in Dispatches : c # d => dispatch'[c] = dispatch[c]
  BY DEF DispatchStep, DispatchProgress, DispatchList, DispatchCreate, DispatchPublish,
         DispatchFails, history, TypeOK, DispatchType
<1>1. CASE /\ UNCHANGED <<queue, row>>
           /\ dispatch'[d].pc # "enqueueing" \/ dispatch'[d].at # EndpointOf(l)
  <2>1. Resting(l)' = Resting(l) /\ Settled(l)' = Settled(l)
    BY <1>0, <1>1 DEF Resting, Queued, Busy, Settled
  <2>2. \A c \in Dispatches : Enqueueing(c, l)' => Enqueueing(c, l)
    BY <1>0, <1>1 DEF Enqueueing, EndpointOf, Logs
  <2>. QED BY <1>0, <2>1, <2>2, LoneKept DEF Requeueing
<1>2. CASE DispatchList(d) \/ DispatchFails(d)
  BY <1>1, <1>2 DEF DispatchList, DispatchFails, TypeOK, DispatchType, DispatchStates
<1>3. ASSUME NEW e \in Endpoints, DispatchCreate(d, e) PROVE Lone(l)'
  <2>1. CASE endpoint[e] = "removed"
    BY <1>1, <1>3, <2>1 DEF DispatchCreate, TypeOK, DispatchType, DispatchStates
  <2>2. CASE endpoint[e] # "removed"
    <3>1. /\ dispatch[d].pc = "looping" /\ e \in dispatch[d].todo
          /\ dispatch'[d].pc = "enqueueing" /\ dispatch'[d].at = e
          /\ row' = [row EXCEPT ![<<d, e>>] = NewRow] /\ UNCHANGED queue
      BY <1>3, <2>2 DEF DispatchCreate, TypeOK, DispatchType, DispatchStates
    <3>2. CASE l = <<d, e>>
      <4>1. l \notin created /\ chains[l] \in Nat
        BY <3>1, <3>2 DEF Known, LoopOrder, TypeOK, HistoryType
      <4>2. Unstarted(l)
        BY <4>1 DEF Known, RowsInserted
      <4>3. Resting(l)' /\ ~Settled(l)'
        BY <1>0, <3>1, <3>2, <4>2 DEF Unstarted, Resting, Queued, Busy, Settled, Unsettled,
                                      NewRow, TypeOK, RowType
      <4>4. \A p \in Replays : ~Requeueing(p, l)'
        BY <1>0, <4>1 DEF Requeueing, Known, RowsInserted
      <4>. QED BY <4>3, <4>4 DEF Lone
    <3>3. CASE l # <<d, e>>
      <4>1. Resting(l)' = Resting(l) /\ Settled(l)' = Settled(l)
        BY <1>0, <3>1, <3>3 DEF Resting, Queued, Busy, Settled, TypeOK, RowType
      <4>2. \A c \in Dispatches : Enqueueing(c, l)' => Enqueueing(c, l)
        BY <1>0, <3>1, <3>3 DEF Enqueueing
      <4>. QED BY <1>0, <4>1, <4>2, LoneKept DEF Requeueing
    <3>. QED BY <3>2, <3>3
  <2>. QED BY <2>1, <2>2
<1>4. CASE DispatchPublish(d)
  <2>1. /\ dispatch[d].pc = "enqueueing" /\ dispatch'[d].pc # "enqueueing"
        /\ queue' = Published(queue, <<d, dispatch[d].at>>, 0) /\ UNCHANGED row
    BY <1>4 DEF DispatchPublish, TypeOK, DispatchType, DispatchStates
  <2>2. CASE l = <<d, dispatch[d].at>>
    <3>1. Enqueueing(d, l) /\ \A c \in Dispatches : ~Enqueueing(c, l)'
      BY <1>0, <2>1, <2>2 DEF Enqueueing
    <3>2. l \notin crossed => \A p \in Replays : ~Requeueing(p, l)
      BY <3>1 DEF Lone
    <3>. QED BY <1>0, <3>1, <3>2 DEF Lone, Publishing, Requeueing
  <2>3. CASE l # <<d, dispatch[d].at>>
    <3>1. Resting(l)' = Resting(l) /\ Settled(l)' = Settled(l)
      BY <1>0, <2>1, <2>3 DEF Resting, Queued, Busy, Settled, Published, TypeOK, QueueType
    <3>2. \A c \in Dispatches : Enqueueing(c, l)' => Enqueueing(c, l)
      BY <1>0, <2>1 DEF Enqueueing
    <3>. QED BY <1>0, <3>1, <3>2, LoneKept DEF Requeueing
  <2>. QED BY <2>2, <2>3
<1>. QED BY <1>2, <1>3, <1>4 DEF DispatchStep, DispatchProgress

LEMMA LoneReplay ==
  ASSUME TypeOK, Known, NEW p \in Replays, ReplayStep(p), NEW l \in Logs, Lone(l)
  PROVE  Lone(l)'
<1>0. /\ UNCHANGED <<job, dispatch>> /\ crossed \subseteq crossed'
      /\ \A q \in Replays : q # p => replay'[q] = replay[q]
  BY CrossedGrows DEF Next, ReplayStep, ReplayProgress, ReplayLoad, ReplayReset,
                      ReplayPublish, ReplayFails, TypeOK, ReplayType
<1>1. CASE /\ queue'[l] = queue[l] /\ row'[l] = row[l]
           /\ replay'[p].pc # "requeueing" \/ replay'[p].log # l
  <2>1. Resting(l)' = Resting(l) /\ Settled(l)' = Settled(l)
    BY <1>0, <1>1 DEF Resting, Queued, Busy, Settled
  <2>2. \A q \in Replays : Requeueing(q, l)' => Requeueing(q, l)
    BY <1>0, <1>1 DEF Requeueing
  <2>. QED BY <1>0, <2>1, <2>2, LoneKept DEF Enqueueing
<1>2. CASE (\E m \in Logs : ReplayLoad(p, m)) \/ ReplayFails(p)
  BY <1>1, <1>2 DEF ReplayLoad, ReplayFails, TypeOK, ReplayType, ReplayStates
<1>3. CASE ReplayReset(p)
  <2>1. CASE ~Live(replay[p].log)
    BY <1>1, <1>3, <2>1 DEF ReplayReset, TypeOK, ReplayType, ReplayStates
  <2>2. CASE Live(replay[p].log)
    <3>1. /\ replay[p].pc = "resetting" /\ replay[p].log \in Logs /\ UNCHANGED queue
          /\ replay'[p].pc = "requeueing" /\ replay'[p].log = replay[p].log
          /\ row' = [row EXCEPT ![replay[p].log] =
                       Flush(@, replay[p].loaded, Reset(replay[p].loaded))]
          /\ \/ Underway(replay[p].log)
             \/ Settled(replay[p].log) /\ replay[p].loaded.status = "pending"
             => replay[p].log \in crossed'
      BY <1>3, <2>2 DEF ReplayReset, TypeOK, ReplayType, ReplayStates
    <3>2. CASE l # replay[p].log
      BY <1>1, <3>1, <3>2 DEF TypeOK, RowType
    <3>3. CASE l = replay[p].log
      <4>. SUFFICES ASSUME l \notin crossed' PROVE Lone(l)'
        BY DEF Lone
      <4>1. ~Underway(l) /\ ~(Settled(l) /\ replay[p].loaded.status = "pending")
        BY <3>1, <3>3
      <4>2. Resting(l)' /\ (\A d \in Dispatches : ~Enqueueing(d, l)')
        BY <1>0, <3>1, <4>1 DEF Underway, Resting, Queued, Busy, Enqueueing
      <4>3. Reset(replay[p].loaded).status = "pending"
        BY <3>1 DEF Reset, Columns, TypeOK, ReplayType, ReplayStates
      <4>4. row'[l].status = IF replay[p].loaded.status = "pending" THEN row[l].status
                                                                    ELSE "pending"
        BY <3>1, <3>3, <4>3, FlushStatus DEF TypeOK, RowType
      <4>5. ~Settled(l)'
        BY <4>1, <4>4 DEF Settled, Unsettled
      <4>6. \A q \in Replays : Requeueing(q, l)' => q = p
        BY <1>0, <4>1 DEF Underway, Requeueing
      <4>. QED BY <4>2, <4>5, <4>6 DEF Lone
    <3>. QED BY <3>2, <3>3
  <2>. QED BY <2>1, <2>2
<1>4. CASE ReplayPublish(p)
  <2>1. /\ replay[p].pc = "requeueing" /\ replay'[p].pc # "requeueing"
        /\ queue' = Published(queue, replay[p].log, 0) /\ UNCHANGED <<row, crossed>>
    BY <1>4 DEF ReplayPublish, TypeOK, ReplayType, ReplayStates
  <2>2. CASE l = replay[p].log
    <3>1. Requeueing(p, l) /\ ~Requeueing(p, l)'
      BY <2>1, <2>2 DEF Requeueing
    <3>2. l \notin crossed => /\ \A d \in Dispatches : ~Enqueueing(d, l)
                              /\ \A q \in Replays : q # p => ~Requeueing(q, l)
      BY <3>1 DEF Lone
    <3>3. l \notin crossed' => ~Publishing(l)'
      BY <1>0, <2>1, <3>1, <3>2 DEF Publishing, Enqueueing, Requeueing
    <3>. QED BY <3>3 DEF Lone, Publishing
  <2>3. CASE l # replay[p].log
    BY <1>1, <2>1, <2>3 DEF Published, TypeOK, QueueType
  <2>. QED BY <2>2, <2>3
<1>. QED BY <1>2, <1>3, <1>4 DEF ReplayStep, ReplayProgress

LEMMA OrderlyInvariant == Spec => [](\A l \in Logs : Orderly(l))
<1>1. Init => \A l \in Logs : Orderly(l)
  BY DEF Init, Orderly, Sole, Lone, Publishing, Enqueueing, Requeueing, OneMessage, OneTask,
         MessageOrTask, OpenWhileCarried, Queued, Busy, Settled, Unsettled, NewRow, Idle
<1>2. TypeOK /\ TypeOK' /\ Known /\ (\A l \in Logs : Orderly(l)) /\ [Next]_vars
        => (\A l \in Logs : Orderly(l))'
  <2>. SUFFICES ASSUME TypeOK, TypeOK', Known, \A l \in Logs : Orderly(l), [Next]_vars
                PROVE  (\A l \in Logs : Sole(l)') /\ (\A l \in Logs : Lone(l)')
    BY DEF Orderly
  <2>0. crossed \subseteq crossed' /\ \A l \in Logs : Sole(l) /\ Lone(l)
    BY CrossedGrows DEF Orderly
  <2>1. CASE UNCHANGED vars \/ OperatorStep
    <3>1. UNCHANGED <<row, queue, job, dispatch, replay, attempts, chains>>
      BY <2>1 DEF vars, OperatorStep, CreateEndpoint, Disable, Enable, Remove, history
    <3>2. \A l \in Logs : Resting(l)' = Resting(l) /\ Settled(l)' = Settled(l)
      BY <3>1 DEF Resting, Queued, Busy, Settled
    <3>3. \A l \in Logs : Lone(l)'
      BY <2>0, <3>1, <3>2, LoneKept DEF Enqueueing, Requeueing
    <3>. QED BY <2>0, <3>1, <3>3, SoleOpened
  <2>2. CASE \/ \E d \in Dispatches : DispatchStep(d) /\ ~DispatchPublish(d)
             \/ \E p \in Replays : ReplayStep(p) /\ ~ReplayPublish(p)
    BY <2>0, <2>2, HandlerRows, SoleOpened, LoneDispatch, LoneReplay
  <2>3. CASE \/ \E d \in Dispatches : DispatchPublish(d)
             \/ \E p \in Replays : ReplayPublish(p)
    <3>1. PICK l \in Logs :
             /\ Publishing(l) /\ UNCHANGED <<row, job, crossed>>
             /\ queue' = Published(queue, l, 0) /\ chains' = [chains EXCEPT ![l] = @ + 1]
             /\ \A m \in Logs : m # l => Aside(m)
      BY <2>3, HandlerPublishes DEF Publishing
    <3>2. Sole(l)'
      <4>1. 0 \in 0..MaxRetries
        OBVIOUS
      <4>2. l \notin crossed' => Resting(l) /\ ~Settled(l)
        BY <2>0, <3>1 DEF Lone
      <4>. QED BY <3>1, <4>1, <4>2, SolePublished
    <3>3. \A m \in Logs : m # l => Sole(m)'
      BY <2>0, <3>1, SoleAside
    <3>4. \A m \in Logs : Lone(m)'
      BY <2>0, <2>3, LoneDispatch, LoneReplay
         DEF DispatchStep, DispatchProgress, ReplayStep, ReplayProgress
    <3>. QED BY <3>2, <3>3, <3>4
  <2>4. CASE \E w \in Workers : WorkerStep(w)
    BY <2>0, <2>4, SoleWorker, LoneWorker
  <2>. QED BY <2>1, <2>2, <2>3, <2>4 DEF Next
<1>. QED BY <1>1, <1>2, TypeCorrect, KnownInvariant, PTL DEF Spec

LEMMA SoleInvariant == Spec => [](\A l \in Logs : Sole(l))
<1>1. (\A l \in Logs : Orderly(l)) => \A l \in Logs : Sole(l)
  BY DEF Orderly
<1>. QED BY <1>1, OrderlyInvariant, PTL

\* While no two starts of a log have overlapped, a step changes the status of its
\* settled row only by a replay.
THEOREM SettledStaysSettled == Spec => SettledIsFinal
<1>. DEFINE Kept == \A l \in Logs :
       l \notin crossed /\ l \in created /\ row'[l].status # row[l].status =>
         \/ ~Settled(l) /\ row'[l].status # "pending"
         \/ \E p \in Replays : /\ replay[p].pc = "resetting" /\ replay[p].log = l
                               /\ replay'[p].pc = "requeueing"
                               /\ row'[l].status = "pending"
<1>1. TypeOK /\ Known /\ (\A l \in Logs : Sole(l)) /\ [Next]_vars => Kept
  <2>. SUFFICES ASSUME TypeOK, Known, \A l \in Logs : Sole(l), [Next]_vars,
                       NEW l \in Logs, l \notin crossed, l \in created,
                       row'[l].status # row[l].status
                PROVE  \/ ~Settled(l) /\ row'[l].status # "pending"
                       \/ \E p \in Replays :
                            /\ replay[p].pc = "resetting" /\ replay[p].log = l
                            /\ replay'[p].pc = "requeueing" /\ row'[l].status = "pending"
    OBVIOUS
  <2>1. ASSUME NEW d \in Dispatches, DispatchStep(d) PROVE FALSE
    <3>1. ASSUME NEW e \in Endpoints, DispatchCreate(d, e) PROVE FALSE
      <4>1. row' \in {row, [row EXCEPT ![<<d, e>>] = NewRow]}
            /\ dispatch[d].pc = "looping" /\ e \in dispatch[d].todo
        BY <3>1 DEF DispatchCreate
      <4>2. l # <<d, e>>
        BY <4>1 DEF Known, LoopOrder
      <4>. QED BY <4>1, <4>2 DEF TypeOK, RowType
    <3>2. CASE ~\E e \in Endpoints : DispatchCreate(d, e)
      BY <2>1, <3>2 DEF DispatchStep, DispatchProgress, DispatchList, DispatchPublish,
                        DispatchFails
    <3>. QED BY <3>1, <3>2
  <2>2. ASSUME NEW p \in Replays, ReplayStep(p)
        PROVE  /\ replay[p].pc = "resetting" /\ replay[p].log = l
               /\ replay'[p].pc = "requeueing" /\ row'[l].status = "pending"
    <3>1. ReplayReset(p) /\ Live(replay[p].log)
      BY <2>2 DEF ReplayStep, ReplayProgress, ReplayLoad, ReplayReset, ReplayPublish,
                  ReplayFails
    <3>2. Reset(replay[p].loaded).status = "pending"
      BY <3>1 DEF ReplayReset, Reset, Columns, TypeOK, ReplayType, ReplayStates
    <3>3. /\ replay[p].pc = "resetting" /\ replay'[p].pc = "requeueing"
          /\ row' = [row EXCEPT ![replay[p].log] =
                       Flush(@, replay[p].loaded, Reset(replay[p].loaded))]
      BY <3>1 DEF ReplayReset, TypeOK, ReplayType, ReplayStates
    <3>4. replay[p].log = l
      BY <3>3 DEF TypeOK, RowType
    <3>. QED BY <3>2, <3>3, <3>4, FlushStatus DEF TypeOK, RowType
  <2>3. ASSUME NEW w \in Workers, WorkerStep(w)
        PROVE  ~Settled(l) /\ row'[l].status # "pending"
    <3>1. ASSUME NEW mine, NEW next, Commit(w, mine, next), mine.status # "pending",
                 job[w].pc \in {"recording", "disabling"}
          PROVE  ~Settled(l) /\ row'[l].status # "pending"
      <4>1. job[w].log = l /\ row'[l].status \in {row[l].status, mine.status}
        BY <3>1, FlushStatus DEF Commit, TypeOK, RowType
      <4>2. Busy(w, l)
        BY <3>1, <4>1 DEF Busy
      <4>. QED BY <3>1, <4>1, <4>2 DEF Sole, OpenWhileCarried
    <3>2. \A status, outcome : Recorded(job[w].loaded, job[w].retries, outcome, status).status
                                 = status
      BY DEF Recorded
    <3>3. Refused(job[w].loaded).status = "failed"
      BY DEF Refused, TypeOK, JobType, Jobs, Columns
    <3>4. CASE RecordSuccess(w)
      BY <3>1, <3>2, <3>4 DEF RecordSuccess
    <3>5. CASE RecordRetry(w)
      BY <3>1, <3>2, <3>5 DEF RecordRetry
    <3>6. CASE RecordFailed(w)
      BY <3>1, <3>2, <3>6 DEF RecordFailed
    <3>7. CASE RecordRefused(w)
      BY <3>1, <3>3, <3>7 DEF RecordRefused
    <3>. QED BY <2>3, <3>4, <3>5, <3>6, <3>7
             DEF WorkerStep, WorkerProgress, AttemptEnds, Receive, Post, PublishRetry, Ack,
                 CommitStale, TaskFails, WorkerLost, Redeliver
  <2>4. ~(UNCHANGED vars \/ OperatorStep)
    BY DEF vars, OperatorStep, CreateEndpoint, Disable, Enable, Remove
  <2>. QED BY <2>1, <2>2, <2>3, <2>4 DEF Next
<1>2. Kept => [Kept]_vars
  OBVIOUS
<1>. QED BY <1>1, TypeCorrect, KnownInvariant, SoleInvariant, PTL DEF Spec, SettledIsFinal

----------------------------------------------------------------------------
(* The audit row.  While a log that was started once is left to its one    *)
(* carrier, its row tells the attempts that were made, and the carrier's   *)
(* object is the row.                                                      *)

\* No replay and no failed call has touched l, and it has a row.
Quiet(l) == l \notin hit /\ Live(l) /\ \A p \in Replays : ~Requeueing(p, l)

\* The row between two attempts, when n have been made.
OpenAfter(l, n) ==
  /\ posts[l] = n /\ confirmed[l] = 0
  /\ row[l].attempt_count = n /\ ~Settled(l) /\ row[l].status_code \notin GoodCodes
  /\ row[l].status = "retrying" => row[l].error_message # None

TaskExact(w, l) ==
  /\ job[w].pc \in {"sending", "disabling"} =>
       job[w].loaded = row[l] /\ OpenAfter(l, job[w].retries)
  /\ job[w].pc = "recording" =>
       /\ job[w].loaded = row[l] /\ posts[l] = job[w].retries + 1
       /\ (confirmed[l] > 0) = (job[w].outcome \in GoodCodes)
       /\ row[l].status_code \notin GoodCodes
  /\ job[w].pc = "publishing" => OpenAfter(l, job[w].retries + 1)

SettledExact(l) ==
  /\ row[l].attempt_count = posts[l] /\ Settled(l)
  /\ row[l].status = "success" <=> confirmed[l] > 0
  /\ row[l].status = "success" =>
       row[l].status_code \in GoodCodes /\ row[l].error_message = None
  /\ row[l].status = "failed" =>
       row[l].error_message # None /\ row[l].status_code \notin GoodCodes

RowExact(l) ==
  /\ \A r \in 0..MaxRetries : queue[l][r] > 0 => OpenAfter(l, r)
  /\ \A w \in Workers : Busy(w, l) => TaskExact(w, l)
  /\ Queued(l) \/ (\E w \in Workers : Busy(w, l)) \/ SettledExact(l)

Exact(l) == chains[l] = 1 /\ Quiet(l) => RowExact(l)

LEMMA ExactAside ==
  ASSUME NEW m \in Logs, Aside(m), Exact(m), Quiet(m)' => Quiet(m)
  PROVE  Exact(m)'
<1>. SUFFICES ASSUME chains[m] = 1, Quiet(m) PROVE RowExact(m)'
  BY DEF Exact, Aside
<1>1. RowExact(m)
  BY DEF Exact
<1>2. \A w \in Workers : Busy(w, m)' = Busy(w, m) /\ (Busy(w, m) => job'[w] = job[w])
  BY AsideBusy DEF Aside, Busy
<1>3. \A n : OpenAfter(m, n)' = OpenAfter(m, n)
  BY DEF Aside, OpenAfter, Settled
<1>4. \A w \in Workers : job'[w] = job[w] => TaskExact(w, m)' = TaskExact(w, m)
  BY <1>3 DEF Aside, TaskExact
<1>5. Queued(m)' = Queued(m) /\ SettledExact(m)' = SettledExact(m) /\ queue'[m] = queue[m]
  BY DEF Aside, Queued, SettledExact, Settled
<1>. QED BY <1>1, <1>2, <1>3, <1>4, <1>5 DEF RowExact

\* The first message of a log finds its row as it was inserted.
LEMMA ExactPublished ==
  ASSUME TypeOK, Known, NEW l \in Logs,
         queue' = Published(queue, l, 0), chains' = [chains EXCEPT ![l] = @ + 1],
         UNCHANGED <<row, job, attempts>>
  PROVE  Exact(l)'
<1>1. chains[l] \in Nat /\ chains'[l] = chains[l] + 1
  BY DEF TypeOK, HistoryType
<1>. SUFFICES ASSUME chains[l] = 0 PROVE RowExact(l)'
  BY <1>1 DEF Exact
<1>2. Unstarted(l)
  BY DEF Known
<1>3. \A s \in 0..MaxRetries : queue'[l][s] = IF s = 0 THEN 1 ELSE 0
  <2>1. \A s \in 0..MaxRetries : queue[l][s] = 0
    BY <1>2 DEF Unstarted
  <2>. QED BY <2>1 DEF Published, TypeOK, QueueType
<1>4. \A w \in Workers : ~Busy(w, l)'
  BY <1>2 DEF Unstarted, Busy
<1>5. OpenAfter(l, 0)'
  BY <1>2, CodesAssumption DEF OpenAfter, Unstarted, NewRow, Settled, Unsettled, Codes, None, attempts
<1>6. Queued(l)'
  BY <1>3 DEF Queued
<1>. QED BY <1>3, <1>4, <1>5, <1>6 DEF RowExact

\* A task commits an object over the row it was read from.
LEMMA ExactCommit ==
  ASSUME TypeOK, NEW l \in Logs, NEW w \in Workers, Busy(w, l), job[w].loaded = row[l],
         NEW mine \in Columns, NEW next, Commit(w, mine, next)
  PROVE  /\ row'[l] = mine /\ job'[w].pc = next /\ job'[w].log = l
         /\ job'[w].retries = job[w].retries
         /\ UNCHANGED <<queue, chains, attempts, hit, endpoint, created, replay>>
         /\ \A v \in Workers : v # w => job'[v] = job[v]
<1>1. Flush(row[l], row[l], mine) = mine
  BY DEF Flush, Column, Columns, TypeOK, RowType
<1>2. row'[l] = mine
  BY <1>1 DEF Commit, Busy, TypeOK, RowType
<1>3. /\ job'[w].pc = next /\ job'[w].log = l /\ job'[w].retries = job[w].retries
      /\ UNCHANGED <<queue, chains, attempts, hit, endpoint, created, replay>>
      /\ \A v \in Workers : v # w => job'[v] = job[v]
  BY DEF Commit, Busy, history, TypeOK, JobType, Jobs
<1>. QED BY <1>2, <1>3

\* Only the one task of l has moved.
LEMMA ExactTask ==
  ASSUME NEW l \in Logs, chains[l] = 1, Sole(l), NEW w \in Workers, Busy(w, l),
         UNCHANGED queue, \A v \in Workers : v # w => job'[v] = job[v],
         \/ Busy(w, l)' /\ TaskExact(w, l)'
         \/ ~Busy(w, l)' /\ SettledExact(l)'
  PROVE  RowExact(l)'
<1>1. \A v \in Workers : Busy(v, l)' => v = w
  BY DEF Busy, Sole, OneTask
<1>2. \A r \in 0..MaxRetries : queue[l][r] = 0
  BY DEF Sole, MessageOrTask
<1>. QED BY <1>1, <1>2 DEF RowExact

LEMMA QuietBefore ==
  ASSUME TypeOK, TypeOK', [Next]_vars, NEW l \in Logs, Quiet(l)', chains'[l] = chains[l]
  PROVE  Quiet(l) \/ l \notin created
<1>1. l \notin hit
  <2>1. hit \subseteq hit'
    BY DEF Next, vars, OperatorStep, CreateEndpoint, Disable, Enable, Remove, DispatchStep,
           DispatchProgress, DispatchList, DispatchCreate, DispatchPublish, DispatchFails,
           ReplayStep, ReplayProgress, ReplayLoad, ReplayReset, ReplayPublish, ReplayFails,
           WorkerStep, WorkerProgress, AttemptEnds, Receive, Post, RecordSuccess, RecordRetry,
           RecordFailed, RecordRefused, Commit, PublishRetry, Ack, CommitStale, TaskFails,
           WorkerLost, Redeliver, history
  <2>. QED BY <2>1 DEF Quiet
<1>2. endpoint[EndpointOf(l)] # "removed"
  <2>1. EndpointOf(l) \in Endpoints /\ endpoint'[EndpointOf(l)] # "removed"
    BY DEF EndpointOf, Logs, Quiet, Live
  <2>2. CASE OperatorStep
    BY <2>1, <2>2 DEF OperatorStep, CreateEndpoint, Disable, Enable, Remove, TypeOK, EndpointType
  <2>3. CASE ~OperatorStep
    <3>1. UNCHANGED endpoint
      BY <2>3 DEF Next, vars, DispatchStep,
           DispatchProgress, DispatchList, DispatchCreate, DispatchPublish, DispatchFails,
           ReplayStep, ReplayProgress, ReplayLoad, ReplayReset, ReplayPublish, ReplayFails,
           WorkerStep, WorkerProgress, AttemptEnds, Receive, Post, RecordSuccess, RecordRetry,
           RecordFailed, RecordRefused, Commit, PublishRetry, Ack, CommitStale, TaskFails,
           WorkerLost, Redeliver, history
    <3>. QED BY <2>1, <3>1
  <2>. QED BY <2>2, <2>3
<1>3. ASSUME NEW p \in Replays, Requeueing(p, l) PROVE FALSE
  <2>1. replay'[p] # replay[p]
    BY <1>3 DEF Requeueing, Quiet
  <2>2. ReplayStep(p)
    <3>1. CASE \E q \in Replays : ReplayStep(q)
      BY <2>1, <3>1 DEF ReplayStep, ReplayProgress, ReplayLoad, ReplayReset, ReplayPublish,
                        ReplayFails, TypeOK, ReplayType
    <3>2. CASE ~\E q \in Replays : ReplayStep(q)
      BY <2>1, <3>2 DEF Next, vars, OperatorStep, CreateEndpoint, Disable, Enable, Remove,
           DispatchStep, DispatchProgress, DispatchList, DispatchCreate, DispatchPublish,
           DispatchFails, WorkerStep, WorkerProgress, AttemptEnds, Receive, Post,
           RecordSuccess, RecordRetry, RecordFailed, RecordRefused, Commit, PublishRetry, Ack,
           CommitStale, TaskFails, WorkerLost, Redeliver
    <3>. QED BY <3>1, <3>2
  <2>3. ReplayPublish(p) \/ ReplayFails(p)
    BY <1>3, <2>2 DEF ReplayStep, ReplayProgress, ReplayLoad, ReplayReset, Requeueing
  <2>4. CASE ReplayPublish(p)
    BY <1>3, <2>4 DEF ReplayPublish, Requeueing, TypeOK, HistoryType
  <2>5. CASE ReplayFails(p)
    BY <1>3, <2>5 DEF ReplayFails, Requeueing, Quiet
  <2>. QED BY <2>3, <2>4, <2>5
<1>. QED BY <1>1, <1>2, <1>3 DEF Quiet, Live

LEMMA ExactWorker ==
  ASSUME TypeOK, TypeOK', Known, \A l \in Logs : Sole(l), \A l \in Logs : Exact(l),
         NEW w \in Workers, WorkerStep(w)
  PROVE  \A l \in Logs : Exact(l)'
<1>0. [Next]_vars
  BY DEF Next
<1>1. ASSUME NEW m \in Logs, Aside(m) PROVE Exact(m)'
  <2>1. ASSUME chains[m] = 1 PROVE m \in created
    BY <2>1 DEF Known, RowsInserted
  <2>. QED BY <1>0, <1>1, <2>1, QuietBefore, ExactAside DEF Aside, Exact
<1>2. ASSUME NEW l \in Logs, NEW r \in 0..MaxRetries, Receive(w, l, r)
      PROVE  Exact(l)'
  <2>1. /\ \A v \in Workers : v # w => job'[v] = job[v]
        /\ UNCHANGED <<endpoint, created, row, replay, attempts, chains, hit>>
        /\ job'[w].log = l /\ job'[w].retries = r /\ queue[l][r] > 0
        /\ job'[w].pc \in {"acking", "disabling", "sending"}
        /\ job'[w].pc # "acking" => Live(l) /\ job'[w].loaded = row[l]
        /\ Live(l) => job'[w].pc # "acking"
    BY <1>2, ReceiveTouches
  <2>. SUFFICES ASSUME chains[l] = 1, Quiet(l) PROVE RowExact(l)'
    BY <2>1 DEF Exact, Quiet, Live, Requeueing
  <2>2. OpenAfter(l, r)
    BY <2>1 DEF Exact, RowExact
  <2>3. Busy(w, l)' /\ TaskExact(w, l)'
    BY <2>1, <2>2 DEF Busy, Quiet, TaskExact, OpenAfter, Settled, attempts
  <2>4. \A s \in 0..MaxRetries : queue'[l][s] = 0
    <3>1. \A s \in 0..MaxRetries : queue'[l][s] = IF s = r THEN queue[l][r] - 1 ELSE queue[l][s]
      BY <1>2 DEF Receive, TypeOK, QueueType
    <3>2. Sole(l) /\ \A s \in 0..MaxRetries : queue[l][s] \in Nat
      BY DEF TypeOK, QueueType
    <3>. QED BY <2>1, <3>1, <3>2 DEF Sole, OneMessage
  <2>5. \A v \in Workers : Busy(v, l)' => v = w
    <3>1. \A v \in Workers : ~Busy(v, l)
      BY <2>1 DEF Sole, MessageOrTask
    <3>. QED BY <2>1, <3>1 DEF Busy
  <2>. QED BY <2>3, <2>4, <2>5 DEF RowExact
<1>3. ASSUME ~\E m \in Logs, r \in 0..MaxRetries : Receive(w, m, r),
             NEW l \in Logs, l = job[w].log
      PROVE  Exact(l)'
  <2>0. job[w].pc # "idle" /\ chains[l] > 0 /\ l \in created
    BY <1>3, WorkerTouches, WorkersLog
  <2>1. /\ job[w] \in Jobs /\ row[l] \in Columns /\ posts[l] \in Nat /\ confirmed[l] \in Nat
        /\ chains[l] \in Nat
        /\ job[w].pc = "publishing" => job[w].retries < MaxRetries
        /\ job[w].pc = "recording" => job[w].outcome \in Outcomes
    BY DEF TypeOK, JobType, HistoryType, RowType
  <2>. SUFFICES ASSUME chains'[l] = 1, Quiet(l)' PROVE RowExact(l)'
    BY DEF Exact
  <2>2. chains[l] = 1 /\ ~WorkerLost(w) /\ ~Redeliver(w)
    <3>1. chains' \in {chains, [chains EXCEPT ![l] = @ + 1]}
      BY <1>3 DEF WorkerStep, WorkerProgress, AttemptEnds, Post, RecordSuccess, RecordRetry,
         RecordFailed, RecordRefused, Commit, PublishRetry, Ack, CommitStale, TaskFails,
         WorkerLost, Redeliver, history
    <3>2. chains'[l] \in {chains[l], chains[l] + 1}
      BY <3>1 DEF TypeOK, HistoryType
    <3>3. WorkerLost(w) \/ Redeliver(w) => chains'[l] = chains[l] + 1
      BY <1>3 DEF WorkerLost, Redeliver, TypeOK, HistoryType
    <3>. QED BY <2>0, <2>1, <3>2, <3>3
  <2>3. Quiet(l) /\ RowExact(l) /\ Sole(l)
    BY <1>0, <2>0, <2>2, QuietBefore DEF Exact
  <2>4. ASSUME NEW outcome \in Outcomes, Post(w, outcome) PROVE RowExact(l)'
    <3>1. /\ Busy(w, l) /\ UNCHANGED <<queue, chains, row>>
          /\ \A v \in Workers : v # w => job'[v] = job[v]
          /\ job'[w] = [job[w] EXCEPT !.pc = "recording", !.outcome = outcome]
      BY <1>3, <2>4 DEF Post, Busy, TypeOK, JobType
    <3>2. /\ job'[w].pc = "recording" /\ job'[w].outcome = outcome /\ job'[w].log = l
          /\ job'[w].retries = job[w].retries /\ job'[w].loaded = job[w].loaded
      BY <1>3, <2>1, <3>1 DEF Jobs
    <3>3. /\ posts'[l] = posts[l] + 1
          /\ confirmed'[l] = IF outcome \in GoodCodes THEN confirmed[l] + 1 ELSE confirmed[l]
      BY <1>3, <2>4, PostCounts
    <3>4. job[w].loaded = row[l] /\ OpenAfter(l, job[w].retries)
      BY <2>3, <2>4, <3>1 DEF RowExact, TaskExact, Post
    <3>5. (confirmed'[l] > 0) = (outcome \in GoodCodes)
      BY <3>3, <3>4 DEF OpenAfter
    <3>6. Busy(w, l)' /\ TaskExact(w, l)'
      BY <3>1, <3>2, <3>3, <3>4, <3>5 DEF Busy, TaskExact, OpenAfter
    <3>. QED BY <2>2, <2>3, <3>1, <3>6, ExactTask
  <2>5. ASSUME job[w].pc = "recording", NEW status \in {"success", "failed", "retrying"},
               NEW next \in {"acking", "publishing"},
               status = "success" <=> job[w].outcome \in GoodCodes,
               next = "publishing" <=> status = "retrying",
               Commit(w, Recorded(job[w].loaded, job[w].retries, job[w].outcome, status), next)
        PROVE  RowExact(l)'
    <3>. DEFINE mine == Recorded(job[w].loaded, job[w].retries, job[w].outcome, status)
    <3>1. Busy(w, l) /\ mine \in Columns
      BY <1>3, <2>1, <2>5, RecordedType DEF Busy, Jobs, Statuses
    <3>2. /\ job[w].loaded = row[l] /\ posts[l] = job[w].retries + 1
          /\ (confirmed[l] > 0) = (job[w].outcome \in GoodCodes)
          /\ row[l].status_code \notin GoodCodes
      BY <2>3, <2>5, <3>1 DEF RowExact, TaskExact
    <3>3. /\ row'[l] = mine /\ job'[w].pc = next /\ job'[w].log = l
          /\ job'[w].retries = job[w].retries
          /\ UNCHANGED <<queue, attempts>>
          /\ \A v \in Workers : v # w => job'[v] = job[v]
      BY <2>5, <3>1, <3>2, ExactCommit
    <3>4. /\ mine.attempt_count = posts[l] /\ mine.status = status
          /\ job[w].outcome \in GoodCodes =>
               mine.status_code \in GoodCodes /\ mine.error_message = None
          /\ job[w].outcome \notin GoodCodes =>
               mine.error_message # None /\ mine.status_code \notin GoodCodes
      BY <2>1, <2>5, <3>2, CodesAssumption DEF Recorded, Outcomes, Codes, NoAnswer, None
    <3>. HIDE DEF mine
    <3>5. CASE next = "publishing"
      <4>1. confirmed[l] = 0
        BY <2>1, <2>5, <3>2, <3>5
      <4>2. OpenAfter(l, job[w].retries + 1)'
        BY <2>5, <3>2, <3>3, <3>4, <3>5, <4>1 DEF OpenAfter, Settled, Unsettled, attempts
      <4>3. Busy(w, l)' /\ TaskExact(w, l)'
        BY <3>3, <3>5, <4>2 DEF Busy, TaskExact
      <4>. QED BY <2>2, <2>3, <3>1, <3>3, <4>3, ExactTask
    <3>6. CASE next = "acking"
      <4>1. SettledExact(l)'
        BY <2>5, <3>2, <3>3, <3>4, <3>6 DEF SettledExact, Settled, Unsettled, attempts
      <4>2. ~Busy(w, l)'
        BY <3>3, <3>6 DEF Busy
      <4>. QED BY <2>2, <2>3, <3>1, <3>3, <4>1, <4>2, ExactTask
    <3>. QED BY <3>5, <3>6
  <2>6. CASE RecordSuccess(w)
    BY <2>5, <2>6 DEF RecordSuccess
  <2>7. CASE RecordRetry(w)
    BY <2>5, <2>7 DEF RecordRetry
  <2>8. CASE RecordFailed(w)
    BY <2>5, <2>8 DEF RecordFailed
  <2>9. CASE RecordRefused(w)
    <3>1. Busy(w, l) /\ Refused(job[w].loaded) \in Columns
      BY <1>3, <2>1, <2>9, ObjectTypes DEF RecordRefused, Busy, Jobs
    <3>2. job[w].loaded = row[l] /\ OpenAfter(l, job[w].retries)
      BY <2>3, <2>9, <3>1 DEF RecordRefused, RowExact, TaskExact
    <3>3. /\ row'[l] = Refused(row[l]) /\ job'[w].pc = "acking"
          /\ UNCHANGED <<queue, attempts>>
          /\ \A v \in Workers : v # w => job'[v] = job[v]
      BY <2>9, <3>1, <3>2, ExactCommit DEF RecordRefused
    <3>4. /\ Refused(row[l]).status = "failed" /\ Refused(row[l]).error_message = Disabled
          /\ Refused(row[l]).attempt_count = row[l].attempt_count
          /\ Refused(row[l]).status_code = row[l].status_code
      BY <2>1 DEF Refused, Columns
    <3>5. SettledExact(l)'
      BY <3>2, <3>3, <3>4 DEF SettledExact, OpenAfter, Settled, Unsettled, Disabled, None, attempts
    <3>6. ~Busy(w, l)'
      BY <3>3 DEF Busy
    <3>. QED BY <2>2, <2>3, <3>1, <3>3, <3>5, <3>6, ExactTask
  <2>10. CASE PublishRetry(w)
    <3>1. /\ Busy(w, l) /\ UNCHANGED <<row, attempts>>
          /\ queue' = Published(queue, l, job[w].retries + 1) /\ ~Busy(w, l)'
          /\ job[w].retries + 1 \in 0..MaxRetries
          /\ \A v \in Workers : v # w => job'[v] = job[v]
      BY <1>3, <2>1, <2>10 DEF PublishRetry, Busy, history, TypeOK, JobType, Jobs
    <3>2. OpenAfter(l, job[w].retries + 1)
      BY <2>3, <2>10, <3>1 DEF PublishRetry, RowExact, TaskExact
    <3>3. \A s \in 0..MaxRetries : queue'[l][s] = IF s = job[w].retries + 1 THEN 1 ELSE 0
      <4>1. \A s \in 0..MaxRetries : queue[l][s] = 0
        BY <2>2, <2>3, <3>1 DEF Sole, MessageOrTask
      <4>. QED BY <3>1, <4>1 DEF Published, TypeOK, QueueType
    <3>4. \A v \in Workers : ~Busy(v, l)'
      <4>1. \A v \in Workers : Busy(v, l) => v = w
        BY <2>2, <2>3, <3>1 DEF Sole, OneTask
      <4>. QED BY <3>1, <4>1 DEF Busy
    <3>5. \A n : OpenAfter(l, n) => posts'[l] = n /\ confirmed'[l] = 0
            /\ row'[l].attempt_count = n /\ ~Settled(l)' /\ row'[l].status_code \notin GoodCodes
            /\ (row'[l].status = "retrying" => row'[l].error_message # None)
      BY <3>1 DEF OpenAfter, Settled, attempts
    <3>6. \A r \in 0..MaxRetries : queue'[l][r] > 0 => OpenAfter(l, r)'
      BY <3>2, <3>3, <3>5 DEF OpenAfter
    <3>7. Queued(l)'
      BY <3>1, <3>3 DEF Queued
    <3>. QED BY <3>4, <3>6, <3>7 DEF RowExact
  <2>11. CASE TaskFails(w)
    BY <1>3, <2>11 DEF TaskFails, Quiet, Live, Requeueing
  <2>12. CASE CommitStale(w)
    BY <1>3, <2>3, <2>12 DEF CommitStale, Quiet
  <2>13. CASE Ack(w)
    <3>1. /\ UNCHANGED <<queue, row, attempts, chains>> /\ job'[w].pc = "idle"
          /\ \A v \in Workers : v # w => job'[v] = job[v]
      BY <2>13 DEF Ack, history, TypeOK, JobType, Idle
    <3>2. \A v \in Workers : Busy(v, l)' = Busy(v, l) /\ (Busy(v, l) => job'[v] = job[v])
      BY <2>13, <3>1 DEF Ack, Busy
    <3>3. \A n : OpenAfter(l, n)' = OpenAfter(l, n)
      BY <3>1 DEF OpenAfter, Settled, attempts
    <3>4. \A v \in Workers : job'[v] = job[v] => TaskExact(v, l)' = TaskExact(v, l)
      BY <3>1, <3>3 DEF TaskExact, attempts
    <3>5. Queued(l)' = Queued(l) /\ SettledExact(l)' = SettledExact(l)
      BY <3>1 DEF Queued, SettledExact, Settled, attempts
    <3>. QED BY <2>3, <3>1, <3>2, <3>3, <3>4, <3>5 DEF RowExact
  <2>. QED BY <1>3, <2>2, <2>4, <2>6, <2>7, <2>8, <2>9, <2>10, <2>11, <2>12, <2>13
           DEF WorkerStep, WorkerProgress, AttemptEnds
<1>4. CASE \E l \in Logs, r \in 0..MaxRetries : Receive(w, l, r)
  BY <1>1, <1>2, <1>4, ReceiveTouches
<1>5. CASE ~\E l \in Logs, r \in 0..MaxRetries : Receive(w, l, r)
  <2>1. PICK l \in Logs : l = job[w].log
    BY <1>5, WorkerTouches, WorkersLog
  <2>2. \A m \in Logs : m # l => Aside(m)
    BY <1>5, <2>1, WorkerTouches
  <2>. QED BY <1>1, <1>3, <1>5, <2>1, <2>2
<1>. QED BY <1>4, <1>5

LEMMA ExactHandler ==
  ASSUME TypeOK, TypeOK', Known, \A l \in Logs : Exact(l), [Next]_vars,
         ~\E w \in Workers : WorkerStep(w),
         ~\E d \in Dispatches : DispatchPublish(d), ~\E p \in Replays : ReplayPublish(p),
         NEW l \in Logs
  PROVE  Exact(l)'
<1>1. UNCHANGED <<queue, job, chains, attempts>>
  <2>1. CASE UNCHANGED vars \/ OperatorStep
    BY <2>1 DEF vars, OperatorStep, CreateEndpoint, Disable, Enable, Remove, history
  <2>2. CASE ~(UNCHANGED vars \/ OperatorStep)
    BY <2>2, HandlerRows DEF Next
  <2>. QED BY <2>1, <2>2
<1>. SUFFICES ASSUME chains[l] = 1, Quiet(l)' PROVE RowExact(l)'
  BY <1>1 DEF Exact
<1>2. l \in created
  BY DEF Known, RowsInserted
<1>3. row'[l] = row[l]
  <2>1. ASSUME NEW d \in Dispatches, NEW e \in Endpoints, DispatchCreate(d, e)
        PROVE  row'[l] = row[l]
    <3>1. row' \in {row, [row EXCEPT ![<<d, e>>] = NewRow]}
          /\ dispatch[d].pc = "looping" /\ e \in dispatch[d].todo
      BY <2>1 DEF DispatchCreate
    <3>2. l # <<d, e>>
      BY <1>2, <3>1 DEF Known, LoopOrder
    <3>. QED BY <3>1, <3>2 DEF TypeOK, RowType
  <2>2. ASSUME NEW p \in Replays, ReplayReset(p)
        PROVE  row'[l] = row[l]
    <3>1. CASE Live(replay[p].log)
      <4>1. /\ replay'[p].pc = "requeueing" /\ replay'[p].log = replay[p].log
            /\ row' = [row EXCEPT ![replay[p].log] =
                         Flush(@, replay[p].loaded, Reset(replay[p].loaded))]
        BY <2>2, <3>1 DEF ReplayReset, TypeOK, ReplayType, ReplayStates
      <4>2. replay[p].log # l
        BY <4>1 DEF Quiet, Requeueing
      <4>. QED BY <4>1, <4>2 DEF TypeOK, RowType
    <3>2. CASE ~Live(replay[p].log)
      BY <2>2, <3>2 DEF ReplayReset
    <3>. QED BY <3>1, <3>2
  <2>3. CASE /\ ~\E d \in Dispatches, e \in Endpoints : DispatchCreate(d, e)
             /\ ~\E p \in Replays : ReplayReset(p)
    BY <2>3 DEF Next, vars, OperatorStep, CreateEndpoint, Disable, Enable, Remove, DispatchStep,
                DispatchProgress, DispatchList, DispatchFails, ReplayStep, ReplayProgress,
                ReplayLoad, ReplayFails
  <2>. QED BY <2>1, <2>2, <2>3
<1>4. Quiet(l)
  BY <1>1, <1>2, QuietBefore
<1>5. Aside(l)
  BY <1>1, <1>3 DEF Aside, attempts
<1>. QED BY <1>1, <1>4, <1>5, ExactAside DEF Exact

LEMMA ExactInvariant == Spec => [](\A l \in Logs : Exact(l))
<1>1. Init => \A l \in Logs : Exact(l)
  BY DEF Init, Exact
<1>2. TypeOK /\ TypeOK' /\ Known /\ (\A l \in Logs : Sole(l)) /\ (\A l \in Logs : Exact(l))
        /\ [Next]_vars => (\A l \in Logs : Exact(l))'
  <2>. SUFFICES ASSUME TypeOK, TypeOK', Known, \A l \in Logs : Sole(l),
                       \A l \in Logs : Exact(l), [Next]_vars
                PROVE  \A l \in Logs : Exact(l)'
    OBVIOUS
  <2>1. CASE \E w \in Workers : WorkerStep(w)
    BY <2>1, ExactWorker
  <2>2. CASE \/ \E d \in Dispatches : DispatchPublish(d)
             \/ \E p \in Replays : ReplayPublish(p)
    <3>1. PICK l \in Logs :
             /\ queue' = Published(queue, l, 0) /\ chains' = [chains EXCEPT ![l] = @ + 1]
             /\ UNCHANGED <<row, job, attempts>>
             /\ \A m \in Logs : m # l => Aside(m)
      BY <2>2, HandlerPublishes
    <3>2. Exact(l)'
      BY <3>1, ExactPublished
    <3>3. ASSUME NEW m \in Logs, m # l PROVE Exact(m)'
      <4>1. ASSUME chains[m] = 1 PROVE m \in created
        BY <4>1 DEF Known, RowsInserted
      <4>. QED BY <3>1, <3>3, <4>1, QuietBefore, ExactAside DEF Aside, Exact
    <3>. QED BY <3>2, <3>3
  <2>3. CASE /\ ~\E w \in Workers : WorkerStep(w)
             /\ ~\E d \in Dispatches : DispatchPublish(d)
             /\ ~\E p \in Replays : ReplayPublish(p)
    BY <2>3, ExactHandler
  <2>. QED BY <2>1, <2>2, <2>3
<1>. QED BY <1>1, <1>2, TypeCorrect, KnownInvariant, SoleInvariant, PTL DEF Spec

\* The row of a log that nothing disturbed, between two attempts.
LEMMA UndisturbedRow ==
  ASSUME TypeOK, Known, NEW l \in Logs, Exact(l), Undisturbed(l), Live(l), AtRest(l)
  PROVE  (\E n : OpenAfter(l, n)) \/ SettledExact(l)
<1>1. chains[l] \in Nat /\ chains[l] < 2
  BY DEF TypeOK, HistoryType, Undisturbed
<1>2. CASE chains[l] = 0
  <2>1. Unstarted(l)
    BY <1>2 DEF Known
  <2>2. OpenAfter(l, 0)
    BY <2>1, CodesAssumption DEF OpenAfter, Unstarted, NewRow, Settled, Unsettled, Codes, None
  <2>. QED BY <2>2
<1>3. CASE chains[l] = 1
  <2>1. RowExact(l)
    BY <1>3 DEF Exact, Quiet, Undisturbed, Requeueing, AtRest
  <2>. QED BY <2>1 DEF RowExact, Queued, Busy, TaskExact, AtRest
<1>. QED BY <1>1, <1>2, <1>3

\* Without replays, redeliveries and lost messages the audit row is exact between
\* attempts: it counts the attempts made and tells how the last one ended.
THEOREM AuditExact == Spec => []AuditIsExact
<1>1. TypeOK /\ Known /\ (\A l \in Logs : Exact(l)) => AuditIsExact
  <2>. SUFFICES ASSUME TypeOK, Known, \A l \in Logs : Exact(l), NEW l \in Logs,
                       Undisturbed(l), Live(l), AtRest(l)
                PROVE  /\ row[l].attempt_count = posts[l]
                       /\ row[l].status = "success" <=> confirmed[l] > 0
                       /\ row[l].status = "success" =>
                            row[l].status_code \in GoodCodes /\ row[l].error_message = None
                       /\ row[l].status \in {"failed", "retrying"} =>
                            row[l].error_message # None
    BY DEF AuditIsExact
  <2>1. (\E n : OpenAfter(l, n)) \/ SettledExact(l)
    BY UndisturbedRow
  <2>2. row[l] \in Columns
    BY DEF TypeOK, RowType
  <2>. QED BY <2>1, <2>2 DEF OpenAfter, SettledExact, Settled, Unsettled
<1>. QED BY <1>1, ExactInvariant, TypeCorrect, KnownInvariant, PTL

----------------------------------------------------------------------------
(* How far at-least-once goes.  A message that is no retry gives a log     *)
(* MaxRetries + 1 attempts, of one of which a worker may read a 2xx.  What *)
(* is left of it lies with the messages that are queued and with the tasks *)
(* that run, and no step but a publication or a redelivery adds to it.     *)

\* Disjoint finite sets add up.
LEMMA CardinalityAdds ==
  ASSUME NEW S, NEW T, IsFiniteSet(S), IsFiniteSet(T), S \cap T = {}
  PROVE  /\ IsFiniteSet(S \cup T)
         /\ Cardinality(S \cup T) = Cardinality(S) + Cardinality(T)
         /\ Cardinality(S) \in Nat /\ Cardinality(T) \in Nat
<1>1. Cardinality(S \cap T) = 0
  BY FS_EmptySet
<1>2. Cardinality(S) \in Nat /\ Cardinality(T) \in Nat
  BY FS_CardinalityType
<1>3. /\ IsFiniteSet(S \cup T)
      /\ Cardinality(S \cup T) = Cardinality(S) + Cardinality(T) - Cardinality(S \cap T)
  BY FS_Union
<1>. QED BY <1>1, <1>2, <1>3

\* So does a part with the rest.
LEMMA CardinalityTakes ==
  ASSUME NEW S, NEW T \in SUBSET S, IsFiniteSet(S)
  PROVE  /\ IsFiniteSet(S \ T) /\ IsFiniteSet(T)
         /\ Cardinality(S) = Cardinality(S \ T) + Cardinality(T)
         /\ Cardinality(S \ T) \in Nat /\ Cardinality(T) \in Nat
<1>1. IsFiniteSet(T) /\ IsFiniteSet(S \ T)
  BY FS_Subset
<1>2. (S \ T) \cap T = {} /\ (S \ T) \cup T = S
  OBVIOUS
<1>. QED BY <1>1, <1>2, CardinalityAdds

\* The attempts from r on that one carrier has left.
Run(x, r)     == {<<x, k>> : k \in r..MaxRetries}

LEMMA RunCardinality ==
  ASSUME NEW x, NEW r \in 0..(MaxRetries + 1)
  PROVE  IsFiniteSet(Run(x, r)) /\ Cardinality(Run(x, r)) = MaxRetries + 1 - r
<1>. DEFINE f == [k \in r..MaxRetries |-> <<x, k>>]
<1>1. f \in Bijection(r..MaxRetries, Run(x, r))
  BY DEF Run, Bijection, Injection, Surjection, IsInjective
<1>2. ExistsBijection(r..MaxRetries, Run(x, r))
  BY <1>1 DEF ExistsBijection
<1>3. IsFiniteSet(r..MaxRetries) /\ Cardinality(r..MaxRetries) = MaxRetries + 1 - r
  BY FS_Interval
<1>. QED BY <1>2, <1>3, FS_Bijection

----------------------------------------------------------------------------
(* What is left of a log's budget *)

\* The messages of l: how many retries each has behind it, and which it is of those.
Waiting(l) == {m \in (0..MaxRetries) \X Nat : 0 < m[2] /\ m[2] <= queue[l][m[1]]}

\* The attempts they may lead to.
WaitingTries(l) == {t \in Waiting(l) \X (0..MaxRetries) : t[1][1] <= t[2]}

\* Worker w, or a retry it publishes, may yet read a 2xx for an attempt of l.
MayPost(w, l) ==
  /\ job[w].log = l
  /\ \/ job[w].pc \in {"sending", "disabling", "publishing"}
     \/ job[w].pc = "recording" /\ job[w].outcome \notin GoodCodes

\* The first attempt it has not made.
NextTry(w) ==
  IF job[w].pc \in {"sending", "disabling"} THEN job[w].retries ELSE job[w].retries + 1

Trying(l) == {w \in Workers : MayPost(w, l)}

TaskTries(l) == {t \in Trying(l) \X (0..MaxRetries) : NextTry(t[1]) <= t[2]}

ConfirmedBudget(l) ==
  /\ IsFiniteSet(Waiting(l)) /\ IsFiniteSet(Trying(l))
  /\ Cardinality(Waiting(l)) + Cardinality(Trying(l)) + confirmed[l] <= chains[l]

PostBudget(l) ==
  /\ IsFiniteSet(WaitingTries(l)) /\ IsFiniteSet(TaskTries(l))
  /\ Cardinality(WaitingTries(l)) + Cardinality(TaskTries(l)) + posts[l]
       <= (MaxRetries + 1) * chains[l]

Budget(l) == ConfirmedBudget(l) /\ PostBudget(l)

\* A message more.
LEMMA MessageAdded ==
  ASSUME TypeOK, NEW l \in Logs, NEW r \in 0..MaxRetries, queue' = Published(queue, l, r),
         IsFiniteSet(Waiting(l)), IsFiniteSet(WaitingTries(l))
  PROVE  /\ IsFiniteSet(Waiting(l)') /\ IsFiniteSet(WaitingTries(l)')
         /\ Cardinality(Waiting(l)') = Cardinality(Waiting(l)) + 1
         /\ Cardinality(WaitingTries(l)') = Cardinality(WaitingTries(l)) + MaxRetries + 1 - r
<1>. DEFINE m == <<r, queue[l][r] + 1>>
<1>1. /\ \A s \in 0..MaxRetries : queue'[l][s] = IF s = r THEN queue[l][r] + 1 ELSE queue[l][s]
      /\ \A s \in 0..MaxRetries : queue[l][s] \in Nat
  BY DEF TypeOK, QueueType, Published
<1>2. Waiting(l)' = Waiting(l) \cup {m} /\ m \notin Waiting(l)
  BY <1>1 DEF Waiting
<1>3. m[1] = r
  OBVIOUS
<1>. HIDE DEF m
<1>4. /\ WaitingTries(l)' = WaitingTries(l) \cup Run(m, r)
      /\ WaitingTries(l) \cap Run(m, r) = {}
  BY <1>2, <1>3 DEF WaitingTries, Run
<1>5. IsFiniteSet(Waiting(l)') /\ Cardinality(Waiting(l)') = Cardinality(Waiting(l)) + 1
  BY <1>2, FS_AddElement
<1>6. IsFiniteSet(Run(m, r)) /\ Cardinality(Run(m, r)) = MaxRetries + 1 - r
  BY RunCardinality
<1>7. /\ IsFiniteSet(WaitingTries(l)')
      /\ Cardinality(WaitingTries(l)') = Cardinality(WaitingTries(l)) + (MaxRetries + 1 - r)
      /\ Cardinality(WaitingTries(l)) \in Nat
  BY <1>4, <1>6, CardinalityAdds
<1>. QED BY <1>5, <1>7

\* A message less.
LEMMA MessageTaken ==
  ASSUME TypeOK, NEW l \in Logs, NEW r \in 0..MaxRetries, queue[l][r] > 0,
         queue' = [queue EXCEPT ![l][r] = @ - 1],
         IsFiniteSet(Waiting(l)), IsFiniteSet(WaitingTries(l))
  PROVE  /\ IsFiniteSet(Waiting(l)') /\ IsFiniteSet(WaitingTries(l)')
         /\ Cardinality(Waiting(l)') \in Nat /\ Cardinality(WaitingTries(l)') \in Nat
         /\ Cardinality(Waiting(l)) = Cardinality(Waiting(l)') + 1
         /\ Cardinality(WaitingTries(l)) = Cardinality(WaitingTries(l)') + MaxRetries + 1 - r
<1>. DEFINE m == <<r, queue[l][r]>>
<1>1. /\ \A s \in 0..MaxRetries : queue'[l][s] = IF s = r THEN queue[l][r] - 1 ELSE queue[l][s]
      /\ \A s \in 0..MaxRetries : queue[l][s] \in Nat
  BY DEF TypeOK, QueueType
<1>2. Waiting(l)' = Waiting(l) \ {m} /\ m \in Waiting(l)
  BY <1>1 DEF Waiting
<1>3. m[1] = r
  OBVIOUS
<1>. HIDE DEF m
<1>4. /\ WaitingTries(l)' = WaitingTries(l) \ Run(m, r)
      /\ Run(m, r) \in SUBSET WaitingTries(l)
  BY <1>2, <1>3 DEF WaitingTries, Run
<1>5. /\ IsFiniteSet(Waiting(l)') /\ Cardinality(Waiting(l)') = Cardinality(Waiting(l)) - 1
      /\ Cardinality(Waiting(l)) \in Nat
  BY <1>2, FS_RemoveElement, FS_CardinalityType
<1>6. IsFiniteSet(Run(m, r)) /\ Cardinality(Run(m, r)) = MaxRetries + 1 - r
  BY RunCardinality
<1>7. /\ IsFiniteSet(WaitingTries(l)') /\ Cardinality(WaitingTries(l)') \in Nat
      /\ Cardinality(WaitingTries(l)) = Cardinality(WaitingTries(l)') + (MaxRetries + 1 - r)
  BY <1>4, <1>6, CardinalityTakes
<1>8. Cardinality(Waiting(l)') \in Nat
  BY <1>5, FS_CardinalityType
<1>. QED BY <1>5, <1>7, <1>8

\* What of it lies with worker w.
Seat(w, l)  == IF MayPost(w, l) THEN 1 ELSE 0
Share(w, l) == IF MayPost(w, l) THEN MaxRetries + 1 - NextTry(w) ELSE 0

LEMMA NextTryType ==
  ASSUME TypeOK, NEW w \in Workers
  PROVE  NextTry(w) \in 0..(MaxRetries + 1)
  BY DEF NextTry, TypeOK, JobType, Jobs

\* The rest of what lies with the tasks.
LEMMA TaskSplit ==
  ASSUME TypeOK, NEW l \in Logs, NEW w \in Workers,
         IsFiniteSet(Trying(l)), IsFiniteSet(TaskTries(l))
  PROVE  /\ IsFiniteSet(Trying(l) \ {w})
         /\ Cardinality(Trying(l) \ {w}) \in Nat
         /\ Cardinality(Trying(l)) = Cardinality(Trying(l) \ {w}) + Seat(w, l)
         /\ IsFiniteSet(TaskTries(l) \ Run(w, 0))
         /\ Cardinality(TaskTries(l) \ Run(w, 0)) \in Nat
         /\ Cardinality(TaskTries(l)) = Cardinality(TaskTries(l) \ Run(w, 0)) + Share(w, l)
<1>0. NextTry(w) \in 0..(MaxRetries + 1)
  BY NextTryType
<1>1. /\ IsFiniteSet(Trying(l) \ {w}) /\ Cardinality(Trying(l)) \in Nat
      /\ Cardinality(Trying(l) \ {w}) =
           IF w \in Trying(l) THEN Cardinality(Trying(l)) - 1 ELSE Cardinality(Trying(l))
      /\ Cardinality(Trying(l) \ {w}) \in Nat
  BY FS_RemoveElement, FS_CardinalityType
<1>2. Cardinality(Trying(l)) = Cardinality(Trying(l) \ {w}) + Seat(w, l)
  BY <1>1 DEF Trying, Seat
<1>3. CASE MayPost(w, l)
  <2>1. /\ Run(w, NextTry(w)) \in SUBSET TaskTries(l)
        /\ TaskTries(l) \ Run(w, 0) = TaskTries(l) \ Run(w, NextTry(w))
    BY <1>0, <1>3 DEF Run, TaskTries, Trying
  <2>. QED BY <1>0, <1>1, <1>2, <1>3, <2>1, CardinalityTakes, RunCardinality DEF Share
<1>4. CASE ~MayPost(w, l)
  <2>1. TaskTries(l) \ Run(w, 0) = TaskTries(l)
    BY <1>4 DEF Run, TaskTries, Trying
  <2>2. Cardinality(TaskTries(l)) \in Nat
    BY FS_CardinalityType
  <2>. QED BY <1>1, <1>2, <1>4, <2>1, <2>2 DEF Share
<1>. QED BY <1>3, <1>4

\* A step of w changes what lies with w.
LEMMA TaskMoves ==
  ASSUME TypeOK, TypeOK', NEW l \in Logs, NEW w \in Workers,
         \A v \in Workers : v # w => job'[v] = job[v],
         IsFiniteSet(Trying(l)), IsFiniteSet(TaskTries(l))
  PROVE  /\ IsFiniteSet(Trying(l)') /\ IsFiniteSet(TaskTries(l)')
         /\ Cardinality(Trying(l)) \in Nat /\ Cardinality(Trying(l)') \in Nat
         /\ Cardinality(TaskTries(l)) \in Nat /\ Cardinality(TaskTries(l)') \in Nat
         /\ Cardinality(Trying(l)') + Seat(w, l) = Cardinality(Trying(l)) + Seat(w, l)'
         /\ Cardinality(TaskTries(l)') + Share(w, l) = Cardinality(TaskTries(l)) + Share(w, l)'
<1>0. NextTry(w) \in 0..(MaxRetries + 1) /\ NextTry(w)' \in 0..(MaxRetries + 1)
  BY NextTryType DEF NextTry, TypeOK, JobType, Jobs
<1>1. /\ Trying(l)' \ {w} = Trying(l) \ {w}
      /\ TaskTries(l)' \ Run(w, 0) = TaskTries(l) \ Run(w, 0)
  <2>1. \A v \in Workers : v # w => MayPost(v, l)' = MayPost(v, l) /\ NextTry(v)' = NextTry(v)
    BY DEF MayPost, NextTry
  <2>. QED BY <2>1 DEF Trying, TaskTries, Run
<1>2. /\ IsFiniteSet(Trying(l)') /\ IsFiniteSet(TaskTries(l)')
  <2>1. IsFiniteSet(Trying(l)')
    <3>1. Trying(l)' = Trying(l) \ {w} \/ Trying(l)' = (Trying(l) \ {w}) \cup {w}
      BY <1>1
    <3>. QED BY <3>1, FS_AddElement, FS_RemoveElement
  <2>2. IsFiniteSet(TaskTries(l)')
    <3>1. IsFiniteSet(Run(w, 0))
      BY RunCardinality
    <3>2. IsFiniteSet(TaskTries(l) \ Run(w, 0))
      BY TaskSplit
    <3>3. IsFiniteSet((TaskTries(l) \ Run(w, 0)) \cup Run(w, 0))
      BY <3>1, <3>2, FS_Union
    <3>4. TaskTries(l)' \in SUBSET ((TaskTries(l) \ Run(w, 0)) \cup Run(w, 0))
      BY <1>1
    <3>. QED BY <3>3, <3>4, FS_Subset
  <2>. QED BY <2>1, <2>2
<1>3. /\ Cardinality(Trying(l)') = Cardinality(Trying(l)' \ {w}) + Seat(w, l)'
      /\ Cardinality(TaskTries(l)') = Cardinality(TaskTries(l)' \ Run(w, 0)) + Share(w, l)'
  <2>. DEFINE T == Trying(l)'
              U == TaskTries(l)'
  <2>1. /\ IsFiniteSet(T \ {w}) /\ Cardinality(T) \in Nat
        /\ Cardinality(T \ {w}) = IF w \in T THEN Cardinality(T) - 1 ELSE Cardinality(T)
    BY <1>2, FS_RemoveElement, FS_CardinalityType
  <2>2. Cardinality(T) = Cardinality(T \ {w}) + Seat(w, l)'
    BY <2>1 DEF Trying, Seat
  <2>3. CASE MayPost(w, l)'
    <3>1. /\ Run(w, NextTry(w)') \in SUBSET U
          /\ U \ Run(w, 0) = U \ Run(w, NextTry(w)')
      BY <1>0, <2>3 DEF Run, TaskTries, Trying
    <3>2. Cardinality(U) = Cardinality(U \ Run(w, NextTry(w)'))
                             + Cardinality(Run(w, NextTry(w)'))
      BY <1>2, <3>1, CardinalityTakes
    <3>3. Cardinality(Run(w, NextTry(w)')) = MaxRetries + 1 - NextTry(w)'
      BY <1>0, RunCardinality
    <3>4. Share(w, l)' = MaxRetries + 1 - NextTry(w)'
      BY <2>3 DEF Share
    <3>. QED BY <2>2, <3>1, <3>2, <3>3, <3>4
  <2>4. CASE ~MayPost(w, l)'
    <3>1. U \ Run(w, 0) = U
      BY <2>4 DEF Run, TaskTries, Trying
    <3>2. Cardinality(U) \in Nat
      BY <1>2, FS_CardinalityType
    <3>3. Share(w, l)' = 0
      BY <2>4 DEF Share
    <3>. QED BY <2>2, <3>1, <3>2, <3>3
  <2>. QED BY <2>3, <2>4
<1>4. /\ Seat(w, l) \in Nat /\ Seat(w, l)' \in Nat
      /\ Share(w, l) \in Nat /\ Share(w, l)' \in Nat
  BY <1>0 DEF Seat, Share
<1>5. /\ Cardinality(Trying(l) \ {w}) \in Nat
      /\ Cardinality(Trying(l)) = Cardinality(Trying(l) \ {w}) + Seat(w, l)
      /\ Cardinality(TaskTries(l) \ Run(w, 0)) \in Nat
      /\ Cardinality(TaskTries(l)) = Cardinality(TaskTries(l) \ Run(w, 0)) + Share(w, l)
  BY TaskSplit
<1>6. /\ Cardinality(Trying(l)) \in Nat /\ Cardinality(Trying(l)') \in Nat
      /\ Cardinality(TaskTries(l)) \in Nat /\ Cardinality(TaskTries(l)') \in Nat
  BY <1>2, FS_CardinalityType
<1>7. /\ Cardinality(Trying(l)' \ {w}) = Cardinality(Trying(l) \ {w})
      /\ Cardinality(TaskTries(l)' \ Run(w, 0)) = Cardinality(TaskTries(l) \ Run(w, 0))
  BY <1>1
<1>8. Cardinality(Trying(l)') + Seat(w, l) = Cardinality(Trying(l)) + Seat(w, l)'
  BY <1>3, <1>4, <1>5, <1>7
<1>9. Cardinality(TaskTries(l)') + Share(w, l) = Cardinality(TaskTries(l)) + Share(w, l)'
  BY <1>3, <1>4, <1>5, <1>7
<1>. QED BY <1>2, <1>6, <1>8, <1>9

----------------------------------------------------------------------------
(* Every step keeps within the budget. *)

LEMMA BudgetAside ==
  ASSUME NEW m \in Logs, Aside(m), Budget(m)
  PROVE  Budget(m)'
<1>1. Waiting(m)' = Waiting(m)
  BY DEF Aside, Waiting
<1>2. WaitingTries(m)' = WaitingTries(m)
  BY <1>1 DEF WaitingTries
<1>3. \A w \in Workers : MayPost(w, m)' = MayPost(w, m)
                           /\ (MayPost(w, m) => NextTry(w)' = NextTry(w))
  BY DEF Aside, MayPost, NextTry
<1>4. Trying(m)' = Trying(m)
  BY <1>3 DEF Trying
<1>5. TaskTries(m)' = TaskTries(m)
  BY <1>3, <1>4 DEF TaskTries, Trying
<1>. QED BY <1>1, <1>2, <1>4, <1>5 DEF Budget, ConfirmedBudget, PostBudget, Aside

\* A message that is no retry brings its own budget.
LEMMA BudgetStarted ==
  ASSUME TypeOK, NEW l \in Logs, NEW r \in 0..MaxRetries, Budget(l),
         queue' = Published(queue, l, r), chains' = [chains EXCEPT ![l] = @ + 1],
         UNCHANGED <<attempts>>,
         IsFiniteSet(Trying(l)'), IsFiniteSet(TaskTries(l)'),
         Cardinality(Trying(l)') <= Cardinality(Trying(l)),
         Cardinality(TaskTries(l)') <= Cardinality(TaskTries(l))
  PROVE  Budget(l)'
<1>1. /\ IsFiniteSet(Waiting(l)') /\ IsFiniteSet(WaitingTries(l)')
      /\ Cardinality(Waiting(l)') = Cardinality(Waiting(l)) + 1
      /\ Cardinality(WaitingTries(l)') = Cardinality(WaitingTries(l)) + MaxRetries + 1 - r
  BY MessageAdded DEF Budget, ConfirmedBudget, PostBudget
<1>2. /\ Cardinality(Waiting(l)) \in Nat /\ Cardinality(WaitingTries(l)) \in Nat
      /\ Cardinality(Trying(l)) \in Nat /\ Cardinality(TaskTries(l)) \in Nat
      /\ Cardinality(Trying(l)') \in Nat /\ Cardinality(TaskTries(l)') \in Nat
  BY FS_CardinalityType DEF Budget, ConfirmedBudget, PostBudget
<1>3. /\ chains[l] \in Nat /\ chains'[l] = chains[l] + 1
      /\ posts[l] \in Nat /\ posts'[l] = posts[l]
      /\ confirmed[l] \in Nat /\ confirmed'[l] = confirmed[l]
  BY DEF TypeOK, HistoryType, attempts
<1>4. ConfirmedBudget(l)'
  BY <1>1, <1>2, <1>3 DEF Budget, ConfirmedBudget
<1>5. \A c \in Nat : (MaxRetries + 1) * (c + 1) = (MaxRetries + 1) * c + MaxRetries + 1
  OBVIOUS
<1>6. \A c \in Nat : (MaxRetries + 1) * c \in Nat
  OBVIOUS
<1>7. (MaxRetries + 1) * chains'[l] = (MaxRetries + 1) * chains[l] + MaxRetries + 1
  BY <1>3, <1>5
<1>8. PostBudget(l)'
  <2>. DEFINE b == (MaxRetries + 1) * chains[l]
              c == (MaxRetries + 1) * chains'[l]
  <2>1. b \in Nat /\ c = b + MaxRetries + 1
    BY <1>3, <1>6, <1>7
  <2>2. Cardinality(WaitingTries(l)) + Cardinality(TaskTries(l)) + posts[l] <= b
    BY DEF Budget, PostBudget
  <2>. HIDE DEF b, c
  <2>3. Cardinality(WaitingTries(l)') + Cardinality(TaskTries(l)') + posts'[l] <= c
    BY <1>1, <1>2, <1>3, <2>1, <2>2
  <2>. QED BY <1>1, <2>3 DEF PostBudget, c
<1>. QED BY <1>4, <1>8 DEF Budget

LEMMA ShareType ==
  ASSUME TypeOK, NEW l \in Logs, NEW w \in Workers
  PROVE  Seat(w, l) \in Nat /\ Share(w, l) \in Nat
  BY NextTryType DEF Seat, Share

\* A task that goes on spends what it has.
LEMMA BudgetSpent ==
  ASSUME TypeOK, TypeOK', NEW l \in Logs, NEW w \in Workers, Budget(l),
         \A v \in Workers : v # w => job'[v] = job[v],
         queue'[l] = queue[l], chains'[l] = chains[l],
         Seat(w, l)' + confirmed'[l] <= Seat(w, l) + confirmed[l],
         Share(w, l)' + posts'[l] <= Share(w, l) + posts[l]
  PROVE  Budget(l)'
<1>1. Waiting(l)' = Waiting(l)
  BY DEF Waiting
<1>2. WaitingTries(l)' = WaitingTries(l)
  BY <1>1 DEF WaitingTries
<1>3. /\ Cardinality(Waiting(l)) \in Nat /\ Cardinality(WaitingTries(l)) \in Nat
      /\ chains[l] \in Nat /\ posts[l] \in Nat /\ posts'[l] \in Nat
      /\ confirmed[l] \in Nat /\ confirmed'[l] \in Nat
  BY FS_CardinalityType DEF Budget, ConfirmedBudget, PostBudget, TypeOK, HistoryType
<1>4. Seat(w, l) \in Nat /\ Share(w, l) \in Nat
  BY ShareType
<1>5. Seat(w, l)' \in Nat /\ Share(w, l)' \in Nat
  <2>1. NextTry(w)' \in 0..(MaxRetries + 1)
    BY DEF NextTry, TypeOK, JobType, Jobs
  <2>. QED BY <2>1 DEF Seat, Share
<1>6. /\ IsFiniteSet(Trying(l)') /\ IsFiniteSet(TaskTries(l)')
      /\ Cardinality(Trying(l)) \in Nat /\ Cardinality(Trying(l)') \in Nat
      /\ Cardinality(TaskTries(l)) \in Nat /\ Cardinality(TaskTries(l)') \in Nat
      /\ Cardinality(Trying(l)') + Seat(w, l) = Cardinality(Trying(l)) + Seat(w, l)'
      /\ Cardinality(TaskTries(l)') + Share(w, l) = Cardinality(TaskTries(l)) + Share(w, l)'
  BY TaskMoves DEF Budget, ConfirmedBudget, PostBudget
<1>7. ConfirmedBudget(l)'
  BY <1>1, <1>3, <1>4, <1>5, <1>6 DEF Budget, ConfirmedBudget
<1>8. PostBudget(l)'
  <2>. DEFINE b == (MaxRetries + 1) * chains[l]
  <2>1. b \in Nat
    BY <1>3
  <2>2. Cardinality(WaitingTries(l)) + Cardinality(TaskTries(l)) + posts[l] <= b
    BY DEF Budget, PostBudget
  <2>. HIDE DEF b
  <2>3. Cardinality(WaitingTries(l)) + Cardinality(TaskTries(l)') + posts'[l] <= b
    BY <1>3, <1>4, <1>5, <1>6, <2>1, <2>2
  <2>. QED BY <1>2, <1>6, <2>3 DEF Budget, PostBudget, b
<1>. QED BY <1>7, <1>8 DEF Budget

LEMMA BudgetReceive ==
  ASSUME TypeOK, TypeOK', NEW w \in Workers, NEW l \in Logs, NEW r \in 0..MaxRetries,
         Receive(w, l, r), Budget(l)
  PROVE  Budget(l)'
<1>1. /\ job[w].pc = "idle" /\ queue[l][r] > 0
      /\ UNCHANGED <<attempts, chains>>
      /\ \A v \in Workers : v # w => job'[v] = job[v]
      /\ job'[w].log = l /\ job'[w].retries = r
      /\ job'[w].pc \in {"acking", "disabling", "sending"}
  BY ReceiveTouches
<1>2. queue' = [queue EXCEPT ![l][r] = @ - 1]
  BY DEF Receive
<1>3. /\ IsFiniteSet(Waiting(l)') /\ IsFiniteSet(WaitingTries(l)')
      /\ Cardinality(Waiting(l)') \in Nat /\ Cardinality(WaitingTries(l)') \in Nat
      /\ Cardinality(Waiting(l)) = Cardinality(Waiting(l)') + 1
      /\ Cardinality(WaitingTries(l)) = Cardinality(WaitingTries(l)') + MaxRetries + 1 - r
  BY <1>1, <1>2, MessageTaken DEF Budget, ConfirmedBudget, PostBudget
<1>4. /\ IsFiniteSet(Trying(l)') /\ IsFiniteSet(TaskTries(l)')
      /\ Cardinality(Trying(l)) \in Nat /\ Cardinality(Trying(l)') \in Nat
      /\ Cardinality(TaskTries(l)) \in Nat /\ Cardinality(TaskTries(l)') \in Nat
      /\ Cardinality(Trying(l)') + Seat(w, l) = Cardinality(Trying(l)) + Seat(w, l)'
      /\ Cardinality(TaskTries(l)') + Share(w, l) = Cardinality(TaskTries(l)) + Share(w, l)'
  BY <1>1, TaskMoves DEF Budget, ConfirmedBudget, PostBudget
<1>5. Seat(w, l) = 0 /\ Share(w, l) = 0
  BY <1>1 DEF Seat, Share, MayPost
<1>6. /\ Seat(w, l)' \in {0, 1}
      /\ Share(w, l)' \in {0, MaxRetries + 1 - r}
  BY <1>1 DEF Seat, Share, MayPost, NextTry
<1>7. /\ Cardinality(Trying(l)') <= Cardinality(Trying(l)) + 1
      /\ Cardinality(TaskTries(l)') <= Cardinality(TaskTries(l)) + MaxRetries + 1 - r
  BY <1>4, <1>5, <1>6
<1>8. chains[l] \in Nat /\ posts[l] \in Nat /\ confirmed[l] \in Nat
  BY DEF TypeOK, HistoryType
<1>9. ConfirmedBudget(l)'
  BY <1>1, <1>3, <1>4, <1>7, <1>8 DEF Budget, ConfirmedBudget, attempts
<1>10. PostBudget(l)'
  <2>. DEFINE b == (MaxRetries + 1) * chains[l]
  <2>1. b \in Nat
    BY <1>8
  <2>2. Cardinality(WaitingTries(l)) + Cardinality(TaskTries(l)) + posts[l] <= b
    BY DEF Budget, PostBudget
  <2>. HIDE DEF b
  <2>3. Cardinality(WaitingTries(l)') + Cardinality(TaskTries(l)') + posts[l] <= b
    BY <1>3, <1>4, <1>7, <1>8, <2>1, <2>2
  <2>. QED BY <1>1, <1>3, <1>4, <2>3 DEF PostBudget, b, attempts
<1>. QED BY <1>9, <1>10 DEF Budget

\* The request: its task has a seat, and a share with the attempt in it.
LEMMA BudgetPost ==
  ASSUME TypeOK, TypeOK', NEW w \in Workers, NEW outcome \in Outcomes, NEW l \in Logs,
         l = job[w].log, Post(w, outcome), Budget(l)
  PROVE  Budget(l)'
<1>1. /\ job[w].pc = "sending" /\ job[w] \in Jobs
      /\ job' = [job EXCEPT ![w].pc = "recording", ![w].outcome = outcome]
      /\ posts'[l] = posts[l] + 1 /\ posts[l] \in Nat /\ confirmed[l] \in Nat
      /\ confirmed'[l] = IF outcome \in GoodCodes THEN confirmed[l] + 1 ELSE confirmed[l]
      /\ UNCHANGED <<queue, chains>>
  BY PostCounts DEF Post, TypeOK, JobType, HistoryType
<1>2. /\ \A v \in Workers : v # w => job'[v] = job[v]
      /\ job'[w].pc = "recording" /\ job'[w].outcome = outcome
      /\ job'[w].log = l /\ job'[w].retries = job[w].retries
      /\ job[w].retries \in 0..MaxRetries
  BY <1>1 DEF TypeOK, JobType, Jobs
<1>3. Seat(w, l) = 1 /\ Share(w, l) = MaxRetries + 1 - job[w].retries
  BY <1>1 DEF Seat, Share, MayPost, NextTry
<1>4. CASE outcome \in GoodCodes
  <2>1. Seat(w, l)' = 0 /\ Share(w, l)' = 0
    BY <1>2, <1>4 DEF Seat, Share, MayPost
  <2>2. /\ Seat(w, l)' + confirmed'[l] <= Seat(w, l) + confirmed[l]
        /\ Share(w, l)' + posts'[l] <= Share(w, l) + posts[l]
    BY <1>1, <1>2, <1>3, <1>4, <2>1
  <2>. QED BY <1>1, <1>2, <2>2, BudgetSpent
<1>5. CASE outcome \notin GoodCodes
  <2>1. Seat(w, l)' = 1 /\ Share(w, l)' = MaxRetries - job[w].retries
    BY <1>2, <1>5 DEF Seat, Share, MayPost, NextTry
  <2>2. /\ Seat(w, l)' + confirmed'[l] <= Seat(w, l) + confirmed[l]
        /\ Share(w, l)' + posts'[l] <= Share(w, l) + posts[l]
    BY <1>1, <1>2, <1>3, <1>5, <2>1
  <2>. QED BY <1>1, <1>2, <2>2, BudgetSpent
<1>. QED BY <1>4, <1>5

LEMMA BudgetCommit ==
  ASSUME TypeOK, TypeOK', NEW w \in Workers, NEW l \in Logs, l = job[w].log, Budget(l),
         RecordSuccess(w) \/ RecordRetry(w) \/ RecordFailed(w) \/ RecordRefused(w)
  PROVE  Budget(l)'
<1>1. /\ UNCHANGED <<queue, chains, attempts>>
      /\ posts[l] \in Nat /\ confirmed[l] \in Nat
      /\ \A v \in Workers : v # w => job'[v] = job[v]
      /\ job'[w].log = l /\ job'[w].retries = job[w].retries
      /\ \/ job'[w].pc = "acking"
         \/ /\ job'[w].pc = "publishing" /\ job[w].pc = "recording"
            /\ job[w].outcome \notin GoodCodes
  <2>1. job[w] \in Jobs /\ job \in [Workers -> Jobs]
        /\ posts[l] \in Nat /\ confirmed[l] \in Nat
    BY DEF TypeOK, JobType, HistoryType
  <2>2. ASSUME NEW mine, NEW next, Commit(w, mine, next)
        PROVE  /\ UNCHANGED <<queue, chains, attempts>>
               /\ \A v \in Workers : v # w => job'[v] = job[v]
               /\ job'[w].log = l /\ job'[w].retries = job[w].retries
               /\ job'[w].pc = next
    BY <2>1, <2>2 DEF Commit, history, Jobs
  <2>3. CASE RecordSuccess(w)
    BY <2>1, <2>2, <2>3 DEF RecordSuccess
  <2>4. CASE RecordRetry(w)
    BY <2>1, <2>2, <2>4 DEF RecordRetry
  <2>5. CASE RecordFailed(w)
    BY <2>1, <2>2, <2>5 DEF RecordFailed
  <2>6. CASE RecordRefused(w)
    BY <2>1, <2>2, <2>6 DEF RecordRefused
  <2>. QED BY <2>3, <2>4, <2>5, <2>6
<1>2. Seat(w, l) \in Nat /\ Share(w, l) \in Nat
  BY ShareType
<1>3. CASE job'[w].pc = "acking"
  <2>1. Seat(w, l)' = 0 /\ Share(w, l)' = 0
    BY <1>3 DEF Seat, Share, MayPost
  <2>. QED BY <1>1, <1>2, <2>1, BudgetSpent DEF attempts
<1>4. CASE /\ job'[w].pc = "publishing" /\ job[w].pc = "recording"
           /\ job[w].outcome \notin GoodCodes
  <2>1. Seat(w, l)' = Seat(w, l) /\ Share(w, l)' = Share(w, l)
    BY <1>1, <1>4 DEF Seat, Share, MayPost, NextTry
  <2>. QED BY <1>1, <1>2, <2>1, BudgetSpent DEF attempts
<1>. QED BY <1>1, <1>3, <1>4

\* A retry takes over what its task has left.
LEMMA BudgetRetry ==
  ASSUME TypeOK, TypeOK', NEW w \in Workers, NEW l \in Logs, l = job[w].log, Budget(l),
         PublishRetry(w)
  PROVE  Budget(l)'
<1>1. /\ job[w].pc = "publishing" /\ job[w].retries + 1 \in 0..MaxRetries
      /\ queue' = Published(queue, l, job[w].retries + 1)
      /\ UNCHANGED <<chains, attempts>>
      /\ \A v \in Workers : v # w => job'[v] = job[v]
      /\ job'[w].pc = "acking"
  BY DEF PublishRetry, history, TypeOK, JobType, Jobs
<1>2. Seat(w, l) = 1 /\ Share(w, l) = MaxRetries - job[w].retries
  BY <1>1 DEF Seat, Share, MayPost, NextTry, TypeOK, JobType, Jobs
<1>3. Seat(w, l)' = 0 /\ Share(w, l)' = 0
  BY <1>1 DEF Seat, Share, MayPost
<1>4. /\ IsFiniteSet(Trying(l)') /\ IsFiniteSet(TaskTries(l)')
      /\ Cardinality(Trying(l)) \in Nat /\ Cardinality(Trying(l)') \in Nat
      /\ Cardinality(TaskTries(l)) \in Nat /\ Cardinality(TaskTries(l)') \in Nat
      /\ Cardinality(Trying(l)') + Seat(w, l) = Cardinality(Trying(l)) + Seat(w, l)'
      /\ Cardinality(TaskTries(l)') + Share(w, l) = Cardinality(TaskTries(l)) + Share(w, l)'
  BY <1>1, TaskMoves DEF Budget, ConfirmedBudget, PostBudget
<1>5. /\ IsFiniteSet(Waiting(l)') /\ IsFiniteSet(WaitingTries(l)')
      /\ Cardinality(Waiting(l)') = Cardinality(Waiting(l)) + 1
      /\ Cardinality(WaitingTries(l)')
           = Cardinality(WaitingTries(l)) + MaxRetries + 1 - (job[w].retries + 1)
  BY <1>1, MessageAdded DEF Budget, ConfirmedBudget, PostBudget
<1>6. /\ Cardinality(Waiting(l)) \in Nat /\ Cardinality(WaitingTries(l)) \in Nat
      /\ job[w].retries \in Nat
  BY FS_CardinalityType DEF Budget, ConfirmedBudget, PostBudget, TypeOK, JobType, Jobs
<1>7. /\ Cardinality(Waiting(l)') + Cardinality(Trying(l)')
           = Cardinality(Waiting(l)) + Cardinality(Trying(l))
      /\ Cardinality(WaitingTries(l)') + Cardinality(TaskTries(l)')
           = Cardinality(WaitingTries(l)) + Cardinality(TaskTries(l))
  BY <1>2, <1>3, <1>4, <1>5, <1>6
<1>. QED BY <1>1, <1>4, <1>5, <1>7 DEF Budget, ConfirmedBudget, PostBudget, attempts

\* A task that ends leaves what it had unspent.
LEMMA BudgetEnds ==
  ASSUME TypeOK, TypeOK', NEW w \in Workers, NEW l \in Logs, l = job[w].log, Budget(l),
         Ack(w) \/ CommitStale(w) \/ TaskFails(w)
  PROVE  Budget(l)'
<1>1. /\ UNCHANGED <<queue, chains, attempts>>
      /\ posts[l] \in Nat /\ confirmed[l] \in Nat
      /\ \A v \in Workers : v # w => job'[v] = job[v]
      /\ job'[w].pc = "idle"
  BY DEF Ack, CommitStale, TaskFails, history, TypeOK, JobType, Idle, HistoryType
<1>2. Seat(w, l) \in Nat /\ Share(w, l) \in Nat
  BY ShareType
<1>3. Seat(w, l)' = 0 /\ Share(w, l)' = 0
  BY <1>1 DEF Seat, Share, MayPost
<1>. QED BY <1>1, <1>2, <1>3, BudgetSpent DEF attempts

LEMMA BudgetAgain ==
  ASSUME TypeOK, TypeOK', NEW w \in Workers, NEW l \in Logs, l = job[w].log, Budget(l),
         WorkerLost(w) \/ Redeliver(w)
  PROVE  Budget(l)'
<1>1. /\ queue' = Published(queue, l, job[w].retries) /\ job[w].retries \in 0..MaxRetries
      /\ chains' = [chains EXCEPT ![l] = @ + 1]
      /\ UNCHANGED <<attempts>>
      /\ \A v \in Workers : v # w => job'[v] = job[v]
      /\ job'[w] = job[w] \/ job'[w].pc = "idle"
  BY DEF WorkerLost, Redeliver, TypeOK, JobType, Jobs, Idle
<1>2. Seat(w, l) \in Nat /\ Share(w, l) \in Nat
  BY ShareType
<1>3. \/ Seat(w, l)' = 0 /\ Share(w, l)' = 0
      \/ Seat(w, l)' = Seat(w, l) /\ Share(w, l)' = Share(w, l)
  BY <1>1 DEF Seat, Share, MayPost, NextTry
<1>4. /\ IsFiniteSet(Trying(l)') /\ IsFiniteSet(TaskTries(l)')
      /\ Cardinality(Trying(l)) \in Nat /\ Cardinality(Trying(l)') \in Nat
      /\ Cardinality(TaskTries(l)) \in Nat /\ Cardinality(TaskTries(l)') \in Nat
      /\ Cardinality(Trying(l)') + Seat(w, l) = Cardinality(Trying(l)) + Seat(w, l)'
      /\ Cardinality(TaskTries(l)') + Share(w, l) = Cardinality(TaskTries(l)) + Share(w, l)'
  BY <1>1, TaskMoves DEF Budget, ConfirmedBudget, PostBudget
<1>5. /\ Cardinality(Trying(l)') <= Cardinality(Trying(l))
      /\ Cardinality(TaskTries(l)') <= Cardinality(TaskTries(l))
  BY <1>2, <1>3, <1>4
<1>. QED BY <1>1, <1>4, <1>5, BudgetStarted

LEMMA BudgetWorker ==
  ASSUME TypeOK, TypeOK', Known, NEW w \in Workers, WorkerStep(w), \A l \in Logs : Budget(l)
  PROVE  \A l \in Logs : Budget(l)'
<1>1. ASSUME NEW l \in Logs, NEW r \in 0..MaxRetries, Receive(w, l, r)
      PROVE  \A m \in Logs : Budget(m)'
  BY <1>1, ReceiveTouches, BudgetReceive, BudgetAside
<1>2. CASE ~\E l \in Logs, r \in 0..MaxRetries : Receive(w, l, r)
  <2>1. job[w].pc # "idle" /\ \A m \in Logs : m # job[w].log => Aside(m)
    BY <1>2, WorkerTouches
  <2>2. PICK l \in Logs : l = job[w].log
    BY <2>1, WorkersLog
  <2>3. Budget(l)'
    BY <1>2, <2>2, BudgetPost, BudgetCommit, BudgetRetry, BudgetEnds, BudgetAgain
       DEF WorkerStep, WorkerProgress, AttemptEnds
  <2>. QED BY <2>1, <2>2, <2>3, BudgetAside
<1>. QED BY <1>1, <1>2

LEMMA BudgetInvariant == Spec => [](\A l \in Logs : Budget(l))
<1>1. Init => \A l \in Logs : Budget(l)
  <2>. SUFFICES ASSUME Init, NEW l \in Logs PROVE Budget(l)
    OBVIOUS
  <2>1. Waiting(l) = {}
    BY DEF Init, Waiting
  <2>2. Trying(l) = {}
    BY DEF Init, Trying, MayPost, Idle
  <2>3. WaitingTries(l) = {} /\ TaskTries(l) = {}
    BY <2>1, <2>2 DEF WaitingTries, TaskTries
  <2>4. confirmed[l] = 0 /\ posts[l] = 0 /\ chains[l] = 0
    BY DEF Init
  <2>. QED BY <2>1, <2>2, <2>3, <2>4, FS_EmptySet DEF Budget, ConfirmedBudget, PostBudget
<1>2. TypeOK /\ TypeOK' /\ Known /\ (\A l \in Logs : Budget(l)) /\ [Next]_vars
        => (\A l \in Logs : Budget(l))'
  <2>. SUFFICES ASSUME TypeOK, TypeOK', Known, \A l \in Logs : Budget(l), [Next]_vars
                PROVE  \A l \in Logs : Budget(l)'
    OBVIOUS
  <2>1. CASE UNCHANGED <<queue, job, chains, attempts>>
    BY <2>1 DEF Budget, ConfirmedBudget, PostBudget, Waiting, WaitingTries, Trying, TaskTries,
                MayPost, NextTry, attempts
  <2>2. CASE UNCHANGED vars \/ OperatorStep
    <3>1. UNCHANGED <<queue, job, chains, attempts>>
      BY <2>2 DEF vars, OperatorStep, CreateEndpoint, Disable, Enable, Remove, history
    <3>. QED BY <2>1, <3>1
  <2>3. CASE \/ \E d \in Dispatches : DispatchStep(d) /\ ~DispatchPublish(d)
             \/ \E p \in Replays : ReplayStep(p) /\ ~ReplayPublish(p)
    BY <2>1, <2>3, HandlerRows
  <2>4. CASE \/ \E d \in Dispatches : DispatchPublish(d)
             \/ \E p \in Replays : ReplayPublish(p)
    <3>1. PICK l \in Logs :
             /\ queue' = Published(queue, l, 0) /\ chains' = [chains EXCEPT ![l] = @ + 1]
             /\ UNCHANGED <<row, job, attempts>>
             /\ \A m \in Logs : m # l => Aside(m)
      BY <2>4, HandlerPublishes
    <3>2. Budget(l)'
      <4>1. 0 \in 0..MaxRetries
        OBVIOUS
      <4>2. Trying(l)' = Trying(l) /\ TaskTries(l)' = TaskTries(l)
        BY <3>1 DEF Trying, TaskTries, MayPost, NextTry
      <4>3. /\ IsFiniteSet(Trying(l)) /\ IsFiniteSet(TaskTries(l))
            /\ Cardinality(Trying(l)) \in Nat /\ Cardinality(TaskTries(l)) \in Nat
        BY FS_CardinalityType DEF Budget, ConfirmedBudget, PostBudget
      <4>4. /\ IsFiniteSet(Trying(l)') /\ IsFiniteSet(TaskTries(l)')
            /\ Cardinality(Trying(l)') <= Cardinality(Trying(l))
            /\ Cardinality(TaskTries(l)') <= Cardinality(TaskTries(l))
        BY <4>2, <4>3
      <4>. QED BY <3>1, <4>1, <4>4, BudgetStarted
    <3>3. \A m \in Logs : m # l => Budget(m)'
      BY <3>1, BudgetAside
    <3>. QED BY <3>2, <3>3
  <2>5. CASE \E w \in Workers : WorkerStep(w)
    BY <2>5, BudgetWorker
  <2>. QED BY <2>2, <2>3, <2>4, <2>5 DEF Next
<1>. QED BY <1>1, <1>2, TypeCorrect, KnownInvariant, PTL DEF Spec

\* A subscriber accepts no attempt that was not made, and all those a worker knows of.
AcceptedRange == \A l \in Logs : accepted[l] \in confirmed[l]..posts[l]

LEMMA AcceptedInRange == Spec => []AcceptedRange
<1>1. Init => AcceptedRange
  BY DEF Init, AcceptedRange
<1>2. TypeOK /\ AcceptedRange /\ [Next]_vars => AcceptedRange'
  <2>. SUFFICES ASSUME TypeOK, AcceptedRange, [Next]_vars PROVE AcceptedRange'
    OBVIOUS
  <2>1. ASSUME NEW w \in Workers, NEW outcome \in Outcomes, Post(w, outcome),
               NEW l \in Logs
        PROVE  accepted'[l] \in confirmed'[l]..posts'[l]
    <3>1. /\ posts[l] \in Nat /\ accepted[l] \in Nat /\ confirmed[l] \in Nat
          /\ confirmed[l] <= accepted[l] /\ accepted[l] <= posts[l]
      BY DEF TypeOK, HistoryType, AcceptedRange
    <3>2. CASE l = job[w].log
      BY <2>1, <3>1, <3>2, PostCounts
    <3>3. CASE l # job[w].log
      BY <2>1, <3>1, <3>3 DEF Post, TypeOK, HistoryType
    <3>. QED BY <3>2, <3>3
  <2>2. CASE ~\E w \in Workers, outcome \in Outcomes : Post(w, outcome)
    BY <2>2, GrowingUnlessPosted DEF AcceptedRange, attempts
  <2>. QED BY <2>1, <2>2 DEF AcceptedRange
<1>. QED BY <1>1, <1>2, TypeCorrect, PTL DEF Spec

\* How far at-least-once goes, for every number of workers, replays, deaths and
\* redeliveries, and whatever answers are lost or come too late: a message that is no
\* retry allows MaxRetries + 1 attempts, each of which the subscriber may accept, and
\* ends at the first 2xx a worker reads.
THEOREM DuplicatesBounded == Spec => []DuplicatesAreBounded
<1>1. TypeOK /\ AcceptedRange /\ (\A l \in Logs : Budget(l)) => DuplicatesAreBounded
  <2>. SUFFICES ASSUME TypeOK, AcceptedRange, NEW l \in Logs, Budget(l)
                PROVE  confirmed[l] <= chains[l] /\ posts[l] <= (MaxRetries + 1) * chains[l]
    BY DEF DuplicatesAreBounded, AcceptedRange
  <2>. DEFINE b == (MaxRetries + 1) * chains[l]
  <2>1. /\ Cardinality(Waiting(l)) \in Nat /\ Cardinality(WaitingTries(l)) \in Nat
        /\ Cardinality(Trying(l)) \in Nat /\ Cardinality(TaskTries(l)) \in Nat
    BY FS_CardinalityType DEF Budget, ConfirmedBudget, PostBudget
  <2>2. chains[l] \in Nat /\ posts[l] \in Nat /\ confirmed[l] \in Nat /\ b \in Nat
    BY DEF TypeOK, HistoryType
  <2>3. Cardinality(WaitingTries(l)) + Cardinality(TaskTries(l)) + posts[l] <= b
    BY DEF Budget, PostBudget
  <2>. HIDE DEF b
  <2>4. posts[l] <= b
    BY <2>1, <2>2, <2>3
  <2>5. confirmed[l] <= chains[l]
    BY <2>1, <2>2 DEF Budget, ConfirmedBudget
  <2>. QED BY <2>4, <2>5 DEF b
<1>. QED BY <1>1, TypeCorrect, AcceptedInRange, BudgetInvariant, PTL
=============================================================================
