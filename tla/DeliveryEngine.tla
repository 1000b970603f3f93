-------------------------- MODULE DeliveryEngine ---------------------------
(***************************************************************************)
(* Webhook deliveries from the request that creates them to their final    *)
(* status: the dispatch and the replay handlers of the API, the Celery     *)
(* queue, the workers that run send_webhook_event, and the delivery log    *)
(* rows they share.                                                        *)
(*                                                                         *)
(* One step of a process ends where the code awaits something that other   *)
(* processes can observe or that can fail by itself: a commit, a publish,  *)
(* the HTTP request, the acknowledgement.  Between two steps every other   *)
(* process may run, the process may die and the broker may deliver again.  *)
(***************************************************************************)
EXTENDS DeliveryLog

CONSTANTS
  Endpoints,   \* the webhook endpoints of one user
  Dispatches,  \* the POST /dispatch requests, each served once
  Replays,     \* the POST /logs/{log_id}/retry requests, each served once
  Workers,     \* the Celery worker processes
  MaxRetries,  \* max_retries of send_webhook_event
  MaxChains,   \* bound: the broker redelivers messages of a log only below it
  NoLog,       \* the log of an idle worker or of a request that has none
  NoEndpoint   \* the endpoint of a dispatch that has created no log

\* A dispatch creates at most one log per endpoint, which names the log.
Logs          == Dispatches \X Endpoints
EndpointOf(l) == l[2]

ASSUME EngineAssumption ==
  /\ MaxRetries \in Nat
  /\ MaxChains \in Nat
  /\ NoLog \notin Logs
  /\ NoEndpoint \notin Endpoints

VARIABLES
  endpoint,   \* the webhook_endpoints rows: what is left of them
  created,    \* the logs whose row was inserted
  row,        \* the webhook_delivery_logs rows, by log
  queue,      \* how many messages the broker holds, by log and by retries
  job,        \* what each worker process is doing
  dispatch,   \* the progress of each dispatch request
  replay,     \* the progress of each replay request
  posts,      \* history: the attempts made, by log
  accepted,   \* history: the attempts its subscriber accepted, by log
  confirmed,  \* history: the attempts whose 2xx a worker has read, by log
  chains,     \* history: the messages of a log that are not a retry of another
  refused,    \* history: the logs whose task found the endpoint disabled
  crossed,    \* history: the logs of which two starts have overlapped
  hit         \* history: the logs whose message a failed call has lost

attempts == <<posts, accepted, confirmed>>

history == <<attempts, chains, refused, crossed, hit>>

vars == <<endpoint, created, row, queue, job, dispatch, replay, history>>

Jobs == [pc      : {"idle", "sending", "recording", "disabling",
                    "publishing", "acking"},
         log     : Logs \cup {NoLog},
         retries : 0..MaxRetries,
         loaded  : Columns,
         outcome : Outcomes \cup {None}]

Idle == [pc |-> "idle", log |-> NoLog, retries |-> 0, loaded |-> NewRow,
         outcome |-> None]

DispatchStates ==
  [pc      : {"new", "looping", "enqueueing", "accepted", "rejected", "failed"},
   targets : SUBSET Endpoints,    \* the endpoints that were listed
   todo    : SUBSET Endpoints,    \* those the loop has not reached
   at      : Endpoints \cup {NoEndpoint}]

ReplayStates ==
  [pc     : {"new", "resetting", "requeueing", "done", "notfound", "failed"},
   log    : Logs \cup {NoLog},
   loaded : Columns]

\* The row of l is there: deleting an endpoint deletes its logs.
Live(l) == l \in created /\ endpoint[EndpointOf(l)] # "removed"

Settled(l) == row[l].status \notin Unsettled

Queued(l) == \E r \in 0..MaxRetries : queue[l][r] > 0

\* Worker w has not finished with l.
Busy(w, l) ==
  job[w].log = l /\ job[w].pc \in {"sending", "recording", "disabling", "publishing"}

Enqueueing(d, l) == dispatch[d].pc = "enqueueing" /\ l = <<d, dispatch[d].at>>

Requeueing(p, l) == replay[p].pc = "requeueing" /\ l = replay[p].log

\* A start of l is not over.
Underway(l) ==
  \/ Queued(l)
  \/ \E w \in Workers : Busy(w, l)
  \/ \E d \in Dispatches : Enqueueing(d, l)
  \/ \E p \in Replays : Requeueing(p, l)

Published(q, l, r) == [q EXCEPT ![l][r] = @ + 1]

Init ==
  /\ endpoint  = [e \in Endpoints |-> "absent"]
  /\ created   = {}
  /\ row       = [l \in Logs |-> NewRow]
  /\ queue     = [l \in Logs |-> [r \in 0..MaxRetries |-> 0]]
  /\ job       = [w \in Workers |-> Idle]
  /\ dispatch  = [d \in Dispatches |->
                   [pc |-> "new", targets |-> {}, todo |-> {}, at |-> NoEndpoint]]
  /\ replay    = [p \in Replays |-> [pc |-> "new", log |-> NoLog, loaded |-> NewRow]]
  /\ posts     = [l \in Logs |-> 0]
  /\ accepted  = [l \in Logs |-> 0]
  /\ confirmed = [l \in Logs |-> 0]
  /\ chains    = [l \in Logs |-> 0]
  /\ refused   = {}
  /\ crossed   = {}
  /\ hit       = {}

----------------------------------------------------------------------------
(* The endpoints.  No route changes or deletes one after its creation:     *)
(* Disable, Enable and Remove are the operator's, on the database or       *)
(* through CRUDBase.update and CRUDBase.remove.                            *)

CreateEndpoint(e) ==
  /\ endpoint[e] = "absent"
  /\ \E state \in {"active", "inactive"} :
       endpoint' = [endpoint EXCEPT ![e] = state]
  /\ UNCHANGED <<created, row, queue, job, dispatch, replay, history>>

Disable(e) ==
  /\ endpoint[e] = "active"
  /\ endpoint' = [endpoint EXCEPT ![e] = "inactive"]
  /\ UNCHANGED <<created, row, queue, job, dispatch, replay, history>>

Enable(e) ==
  /\ endpoint[e] = "inactive"
  /\ endpoint' = [endpoint EXCEPT ![e] = "active"]
  /\ UNCHANGED <<created, row, queue, job, dispatch, replay, history>>

Remove(e) ==
  /\ endpoint[e] \in {"active", "inactive"}
  /\ endpoint' = [endpoint EXCEPT ![e] = "removed"]
  /\ UNCHANGED <<created, row, queue, job, dispatch, replay, history>>

----------------------------------------------------------------------------
(* POST /dispatch: list the active endpoints, then for each of them insert *)
(* a log and publish its task.                                             *)

\* get_endpoints_by_user
ActiveEndpoints == {e \in Endpoints : endpoint[e] = "active"}

DispatchList(d) ==
  /\ dispatch[d].pc = "new"
  /\ dispatch' = [dispatch EXCEPT ![d] =
       [pc      |-> IF ActiveEndpoints = {} THEN "rejected" ELSE "looping",
        targets |-> ActiveEndpoints, todo |-> ActiveEndpoints, at |-> NoEndpoint]]
  /\ UNCHANGED <<endpoint, created, row, queue, job, replay, history>>

\* Slip: delay() is indented out of the loop, so only the last log is published.
DispatchCreateUnqueued(d, e) ==
  /\ dispatch[d].pc = "looping"
  /\ e \in dispatch[d].todo
  /\ endpoint[e] # "removed"
  /\ dispatch' = [dispatch EXCEPT
       ![d].pc = IF dispatch[d].todo = {e} THEN "enqueueing" ELSE "looping",
       ![d].todo = @ \ {e}, ![d].at = e]
  /\ created' = created \cup {<<d, e>>}
  /\ row' = [row EXCEPT ![<<d, e>>] = NewRow]
  /\ UNCHANGED <<endpoint, queue, job, replay, history>>

\* The loop follows the order of a query without ORDER BY.  The insert of a log
\* for an endpoint that is gone breaks its foreign key and the request.
DispatchCreate(d, e) ==
  /\ dispatch[d].pc = "looping"
  /\ e \in dispatch[d].todo
  /\ IF endpoint[e] = "removed"
       THEN /\ dispatch' = [dispatch EXCEPT ![d].pc = "failed"]
            /\ UNCHANGED <<created, row>>
       ELSE /\ dispatch' = [dispatch EXCEPT ![d].pc = "enqueueing",
                                            ![d].todo = @ \ {e}, ![d].at = e]
            /\ created' = created \cup {<<d, e>>}
            /\ row' = [row EXCEPT ![<<d, e>>] = NewRow]
  /\ UNCHANGED <<endpoint, queue, job, replay, history>>

\* Slip: the handler returns from inside the loop.
DispatchPublishReturns(d) ==
  LET l == <<d, dispatch[d].at>> IN
  /\ dispatch[d].pc = "enqueueing"
  /\ queue' = Published(queue, l, 0)
  /\ chains' = [chains EXCEPT ![l] = @ + 1]
  /\ dispatch' = [dispatch EXCEPT ![d].pc = "accepted"]
  /\ UNCHANGED <<endpoint, created, row, job, replay,
                 attempts, refused, crossed, hit>>

DispatchPublish(d) ==
  LET l == <<d, dispatch[d].at>> IN
  /\ dispatch[d].pc = "enqueueing"
  /\ queue' = Published(queue, l, 0)
  /\ chains' = [chains EXCEPT ![l] = @ + 1]
  /\ dispatch' = [dispatch EXCEPT ![d].pc =
                    IF dispatch[d].todo = {} THEN "accepted" ELSE "looping"]
  /\ UNCHANGED <<endpoint, created, row, job, replay,
                 attempts, refused, crossed, hit>>

\* The process dies, or the database or the broker refuses a call.
DispatchFails(d) ==
  /\ dispatch[d].pc \in {"looping", "enqueueing"}
  /\ dispatch' = [dispatch EXCEPT ![d].pc = "failed"]
  /\ hit' = IF dispatch[d].pc = "enqueueing"
              THEN hit \cup {<<d, dispatch[d].at>>} ELSE hit
  /\ UNCHANGED <<endpoint, created, row, queue, job, replay,
                 attempts, chains, refused, crossed>>

----------------------------------------------------------------------------
(* POST /logs/{log_id}/retry: load the log whatever its status, reset it,  *)
(* publish a new task for it.                                              *)

ReplayLoad(p, l) ==
  /\ replay[p].pc = "new"
  /\ replay' = [replay EXCEPT ![p] =
       IF Live(l) THEN [pc |-> "resetting", log |-> l, loaded |-> row[l]]
                  ELSE [pc |-> "notfound", log |-> NoLog, loaded |-> NewRow]]
  /\ UNCHANGED <<endpoint, created, row, queue, job, dispatch, history>>

\* An UPDATE that meets no row is an error of the request.  A replay crosses the
\* start before it when that one is not over, or when it ended after the replay had
\* read "pending": the UPDATE does not write the status then.
ReplayReset(p) ==
  LET l == replay[p].log IN
  /\ replay[p].pc = "resetting"
  /\ IF Live(l)
       THEN /\ row' = [row EXCEPT ![l] =
                         Flush(@, replay[p].loaded, Reset(replay[p].loaded))]
            /\ replay' = [replay EXCEPT ![p].pc = "requeueing", ![p].loaded = NewRow]
            /\ crossed' = IF \/ Underway(l)
                             \/ Settled(l) /\ replay[p].loaded.status = "pending"
                            THEN crossed \cup {l} ELSE crossed
       ELSE /\ replay' = [replay EXCEPT ![p].pc = "failed"]
            /\ UNCHANGED <<row, crossed>>
  /\ UNCHANGED <<endpoint, created, queue, job, dispatch,
                 attempts, chains, refused, hit>>

ReplayPublish(p) ==
  LET l == replay[p].log IN
  /\ replay[p].pc = "requeueing"
  /\ queue' = Published(queue, l, 0)
  /\ chains' = [chains EXCEPT ![l] = @ + 1]
  /\ replay' = [replay EXCEPT ![p].pc = "done"]
  /\ UNCHANGED <<endpoint, created, row, job, dispatch,
                 attempts, refused, crossed, hit>>

ReplayFails(p) ==
  /\ replay[p].pc \in {"resetting", "requeueing"}
  /\ replay' = [replay EXCEPT ![p].pc = "failed"]
  /\ hit' = IF replay[p].pc = "requeueing" THEN hit \cup {replay[p].log} ELSE hit
  /\ UNCHANGED <<endpoint, created, row, queue, job, dispatch,
                 attempts, chains, refused, crossed>>

----------------------------------------------------------------------------
(* send_webhook_event.  Messages are taken in any order: retries carry a   *)
(* countdown and several workers compete.                                  *)

Receive(w, l, r) ==
  /\ job[w].pc = "idle"
  /\ queue[l][r] > 0
  /\ queue' = [queue EXCEPT ![l][r] = @ - 1]
  /\ job' = [job EXCEPT ![w] =
       [pc      |-> IF ~Live(l) THEN "acking"
                    ELSE IF endpoint[EndpointOf(l)] = "inactive" THEN "disabling"
                    ELSE "sending",
        log     |-> l, retries |-> r,
        loaded  |-> IF Live(l) THEN row[l] ELSE NewRow, outcome |-> None]]
  /\ refused' = IF Live(l) /\ endpoint[EndpointOf(l)] = "inactive"
                  THEN refused \cup {l} ELSE refused
  /\ UNCHANGED <<endpoint, created, row, dispatch, replay,
                 attempts, chains, crossed, hit>>

\* The request of a task, and `outcome`, what the task reads of its answer.  The
\* subscriber may have accepted a request that ended in an error: its answer came
\* too late, was cut off or could not be decoded.
Post(w, outcome) ==
  LET l == job[w].log IN
  /\ job[w].pc = "sending"
  /\ job' = [job EXCEPT ![w].pc = "recording", ![w].outcome = outcome]
  /\ posts' = [posts EXCEPT ![l] = @ + 1]
  /\ \/ /\ outcome \in GoodCodes
        /\ accepted' = [accepted EXCEPT ![l] = @ + 1]
        /\ confirmed' = [confirmed EXCEPT ![l] = @ + 1]
     \/ /\ outcome = NoAnswer
        /\ accepted' = [accepted EXCEPT ![l] = @ + 1]
        /\ UNCHANGED confirmed
     \/ /\ outcome \notin GoodCodes
        /\ UNCHANGED <<accepted, confirmed>>
  /\ UNCHANGED <<endpoint, created, row, queue, dispatch, replay,
                 chains, refused, crossed, hit>>

\* The commit of `mine`, over a row that must still be there.  The object is of
\* no use to the task after it.
Commit(w, mine, next) ==
  /\ Live(job[w].log)
  /\ row' = [row EXCEPT ![job[w].log] = Flush(@, job[w].loaded, mine)]
  /\ job' = [job EXCEPT ![w] = [@ EXCEPT !.pc = next, !.loaded = NewRow,
                                        !.outcome = None]]
  /\ UNCHANGED <<endpoint, created, queue, dispatch, replay, history>>

\* Slip: the answer is not looked at, so whatever ends the request is a success.
RecordSuccessAlways(w) ==
  /\ job[w].pc = "recording"
  /\ job[w].outcome \in Outcomes
  /\ Commit(w, Recorded(job[w].loaded, job[w].retries, job[w].outcome, "success"),
            "acking")

\* Slip: the success branch falls through to the retry.
RecordSuccessFallsThrough(w) ==
  /\ job[w].pc = "recording"
  /\ job[w].outcome \in GoodCodes
  /\ Commit(w, Recorded(job[w].loaded, job[w].retries, job[w].outcome, "success"),
            "publishing")

RecordSuccess(w) ==
  /\ job[w].pc = "recording"
  /\ job[w].outcome \in GoodCodes
  /\ Commit(w, Recorded(job[w].loaded, job[w].retries, job[w].outcome, "success"),
            "acking")

\* Slip: max_retries is not looked at.
RecordRetryUnlimited(w) ==
  /\ job[w].pc = "recording"
  /\ job[w].outcome \notin GoodCodes
  /\ Commit(w, Recorded(job[w].loaded, job[w].retries, job[w].outcome, "retrying"),
            "publishing")

RecordRetry(w) ==
  /\ job[w].pc = "recording"
  /\ job[w].outcome \notin GoodCodes
  /\ job[w].retries < MaxRetries
  /\ Commit(w, Recorded(job[w].loaded, job[w].retries, job[w].outcome, "retrying"),
            "publishing")

\* Slip: the attempt just made is compared instead of the retries before it.
RecordFailedEarly(w) ==
  /\ job[w].pc = "recording"
  /\ job[w].outcome \notin GoodCodes
  /\ ~(job[w].retries + 1 < MaxRetries)
  /\ Commit(w, Recorded(job[w].loaded, job[w].retries, job[w].outcome, "failed"),
            "acking")

\* Slip: the status of the last failed attempt is not moved on to failed.
RecordFailedAsRetrying(w) ==
  /\ job[w].pc = "recording"
  /\ job[w].outcome \notin GoodCodes
  /\ ~(job[w].retries < MaxRetries)
  /\ Commit(w, Recorded(job[w].loaded, job[w].retries, job[w].outcome, "retrying"),
            "acking")

RecordFailed(w) ==
  /\ job[w].pc = "recording"
  /\ job[w].outcome \notin GoodCodes
  /\ ~(job[w].retries < MaxRetries)
  /\ Commit(w, Recorded(job[w].loaded, job[w].retries, job[w].outcome, "failed"),
            "acking")

RecordRefused(w) ==
  /\ job[w].pc = "disabling"
  /\ Commit(w, Refused(job[w].loaded), "acking")

\* Slip: the retry is decided and recorded, and never published.
PublishRetrySilent(w) ==
  /\ job[w].pc = "publishing"
  /\ job' = [job EXCEPT ![w].pc = "acking"]
  /\ UNCHANGED <<endpoint, created, row, queue, dispatch, replay, history>>

\* task_instance.retry: the next message of the chain, then the exception that
\* ends this task, which Celery acknowledges.
PublishRetry(w) ==
  LET l == job[w].log IN
  /\ job[w].pc = "publishing"
  /\ queue' = Published(queue, l, job[w].retries + 1)
  /\ job' = [job EXCEPT ![w].pc = "acking"]
  /\ UNCHANGED <<endpoint, created, row, dispatch, replay, history>>

\* Slip: a finished task rejects its message with requeue.
AckRequeues(w) ==
  /\ job[w].pc = "acking"
  /\ queue' = Published(queue, job[w].log, job[w].retries)
  /\ job' = [job EXCEPT ![w] = Idle]
  /\ UNCHANGED <<endpoint, created, row, dispatch, replay, history>>

\* task_acks_late: the message is acknowledged after the task.
Ack(w) ==
  /\ job[w].pc = "acking"
  /\ job' = [job EXCEPT ![w] = Idle]
  /\ UNCHANGED <<endpoint, created, row, queue, dispatch, replay, history>>

\* A commit that finds no row, because the endpoint was removed, fails the task.
CommitStale(w) ==
  /\ job[w].pc \in {"recording", "disabling"}
  /\ ~Live(job[w].log)
  /\ job' = [job EXCEPT ![w] = Idle]
  /\ UNCHANGED <<endpoint, created, row, queue, dispatch, replay, history>>

\* The task raises anything but a RequestError: the database is away, the
\* response cannot be stored, the retry cannot be published.  Celery drops the
\* message of a failed task.
TaskFails(w) ==
  /\ job[w].pc \in {"sending", "recording", "disabling", "publishing"}
  /\ job' = [job EXCEPT ![w] = Idle]
  /\ hit' = hit \cup {job[w].log}
  /\ UNCHANGED <<endpoint, created, row, queue, dispatch, replay,
                 attempts, chains, refused, crossed>>

\* Slip: task_reject_on_worker_lost is off, so a death counts as the task's end.
WorkerLostDropped(w) ==
  /\ job[w].pc # "idle"
  /\ job' = [job EXCEPT ![w] = Idle]
  /\ UNCHANGED <<endpoint, created, row, queue, dispatch, replay, history>>

\* task_reject_on_worker_lost: the message of a dead process is queued again.  One
\* whose task was done starts the log anew over what that task left.
WorkerLost(w) ==
  LET l == job[w].log IN
  /\ job[w].pc # "idle"
  /\ chains[l] < MaxChains
  /\ queue' = Published(queue, l, job[w].retries)
  /\ chains' = [chains EXCEPT ![l] = @ + 1]
  /\ job' = [job EXCEPT ![w] = Idle]
  /\ crossed' = IF job[w].pc = "acking" THEN crossed \cup {l} ELSE crossed
  /\ UNCHANGED <<endpoint, created, row, dispatch, replay, attempts, refused, hit>>

\* The broker's visibility timeout: a message that is not acknowledged in time
\* is queued again while its task goes on.
Redeliver(w) ==
  LET l == job[w].log IN
  /\ job[w].pc # "idle"
  /\ chains[l] < MaxChains
  /\ queue' = Published(queue, l, job[w].retries)
  /\ chains' = [chains EXCEPT ![l] = @ + 1]
  /\ crossed' = crossed \cup {l}
  /\ UNCHANGED <<endpoint, created, row, job, dispatch, replay, attempts, refused, hit>>

----------------------------------------------------------------------------
OperatorStep ==
  \E e \in Endpoints : CreateEndpoint(e) \/ Disable(e) \/ Enable(e) \/ Remove(e)

\* The steps of a request that nothing but its own code has to make happen.
DispatchProgress(d) ==
  (\E e \in Endpoints : DispatchCreate(d, e)) \/ DispatchPublish(d)
ReplayProgress(p) == ReplayReset(p) \/ ReplayPublish(p)

DispatchStep(d) == DispatchList(d) \/ DispatchProgress(d) \/ DispatchFails(d)
ReplayStep(p) ==
  (\E l \in Logs : ReplayLoad(p, l)) \/ ReplayProgress(p) \/ ReplayFails(p)

WorkerProgress(w) ==
  \/ \E l \in Logs, r \in 0..MaxRetries : Receive(w, l, r)
  \/ RecordSuccess(w) \/ RecordRetry(w) \/ RecordFailed(w) \/ RecordRefused(w)
  \/ PublishRetry(w) \/ Ack(w) \/ CommitStale(w)

AttemptEnds(w) == \E outcome \in Outcomes : Post(w, outcome)

WorkerStep(w) ==
  WorkerProgress(w) \/ AttemptEnds(w) \/ TaskFails(w) \/ WorkerLost(w) \/ Redeliver(w)

Next ==
  \/ OperatorStep
  \/ \E d \in Dispatches : DispatchStep(d)
  \/ \E p \in Replays : ReplayStep(p)
  \/ \E w \in Workers : WorkerStep(w)

Spec == Init /\ [][Next]_vars

\* A worker process takes what is queued and its task goes on; a handler that
\* has begun goes on.  An attempt ends: a subscriber that is silent for ten
\* seconds is given up, and one that goes on sending is assumed to come to an
\* end.  No request has to be sent, nothing has to fail, and a subscriber may
\* answer anything.
Fairness ==
  /\ \A w \in Workers : WF_vars(WorkerProgress(w))
  /\ \A w \in Workers : WF_vars(AttemptEnds(w))
  /\ \A d \in Dispatches : WF_vars(DispatchProgress(d))
  /\ \A p \in Replays : WF_vars(ReplayProgress(p))

FairSpec == Spec /\ Fairness

----------------------------------------------------------------------------
(* Properties *)

EndpointType == endpoint \in [Endpoints -> {"absent", "active", "inactive", "removed"}]

RowType == created \subseteq Logs /\ row \in [Logs -> Columns]

QueueType == queue \in [Logs -> [0..MaxRetries -> Nat]]

\* Only an idle worker has no log, only an attempt that was made has an outcome,
\* and only a task that may retry publishes.
JobType ==
  /\ job \in [Workers -> Jobs]
  /\ \A w \in Workers :
       /\ job[w].pc # "idle" => job[w].log \in Logs
       /\ job[w].pc = "recording" => job[w].outcome \in Outcomes
       /\ job[w].pc = "publishing" => job[w].retries < MaxRetries

DispatchType ==
  /\ dispatch \in [Dispatches -> DispatchStates]
  /\ \A d \in Dispatches :
       dispatch[d].pc = "enqueueing" => dispatch[d].at \in Endpoints

ReplayType ==
  /\ replay \in [Replays -> ReplayStates]
  /\ \A p \in Replays :
       replay[p].pc \in {"resetting", "requeueing"} => replay[p].log \in Logs

HistoryType ==
  /\ posts \in [Logs -> Nat]
  /\ accepted \in [Logs -> Nat]
  /\ confirmed \in [Logs -> Nat]
  /\ chains \in [Logs -> Nat]
  /\ refused \subseteq Logs
  /\ crossed \subseteq Logs
  /\ hit \subseteq Logs

\* Every variable has its type.
TypeOK ==
  /\ EndpointType
  /\ RowType
  /\ QueueType
  /\ JobType
  /\ DispatchType
  /\ ReplayType
  /\ HistoryType

\* Worker w runs a task that leaves the row of l settled or hands l on.
Working(w, l) ==
  /\ job[w].log = l
  /\ \/ job[w].pc = "publishing"
     \/ /\ job[w].pc \in {"sending", "recording", "disabling"}
        /\ job[w].loaded.status \in Unsettled

\* A task for l is queued, runs, or is about to be published.
Carried(l) ==
  \/ Queued(l)
  \/ \E w \in Workers : Working(w, l)
  \/ \E d \in Dispatches : Enqueueing(d, l)
  \/ \E p \in Replays : Requeueing(p, l)

\* No delivery is forgotten: while a row says pending or retrying, a message or
\* a running process carries it, unless a call that failed outright lost its
\* message.  Worker deaths, redeliveries, replays and stale commits lose none.
NoLostDelivery == \A l \in Logs : Live(l) /\ ~Settled(l) /\ l \notin hit => Carried(l)

\* A row says success only when a worker has read a 2xx for an attempt of it.
SuccessIsReal == \A l \in Logs : row[l].status = "success" => confirmed[l] > 0

\* A row says failed only when every retry was spent or a task of it found its
\* endpoint disabled, whatever the endpoint is by now.
ExhaustedMeansTried ==
  \A l \in Logs : row[l].status = "failed" => posts[l] > MaxRetries \/ l \in refused

\* How far at-least-once goes.  A message that is no retry allows MaxRetries + 1
\* attempts, and its chain ends at the first 2xx that is read: so it confirms one
\* acceptance at most, and a subscriber that took more of its attempts answered the
\* others in a way no worker could read.  Only a replay or a redelivery adds to it.
DuplicatesAreBounded ==
  \A l \in Logs : /\ confirmed[l] <= chains[l]
                  /\ posts[l] <= (MaxRetries + 1) * chains[l]
                  /\ accepted[l] \in confirmed[l]..posts[l]

\* A log never published is the one at which its dispatch stopped: a fan-out that
\* breaks leaves one such row at most, and one that was accepted leaves none.
OrphanIsWhereDispatchStopped ==
  \A l \in created : chains[l] = 0 =>
    \E d \in Dispatches : /\ dispatch[d].pc \in {"enqueueing", "failed"}
                          /\ l = <<d, dispatch[d].at>>

\* Every endpoint an accepted dispatch counted has its log.
AcceptedCoversTargets ==
  \A d \in Dispatches : dispatch[d].pc = "accepted" =>
    \A e \in dispatch[d].targets : <<d, e>> \in created /\ chains[<<d, e>>] > 0

Undisturbed(l) == chains[l] < 2 /\ l \notin hit

\* No session is between its first and its last write of l.
AtRest(l) ==
  /\ \A w \in Workers : job[w].log = l => job[w].pc # "recording"
  /\ \A p \in Replays : replay[p].log = l => replay[p].pc # "requeueing"

\* Without replays, redeliveries and lost messages the audit row is exact between
\* attempts: it counts the attempts made and tells how the last one ended.
AuditIsExact ==
  \A l \in Logs :
    Undisturbed(l) /\ Live(l) /\ AtRest(l) =>
       /\ row[l].attempt_count = posts[l]
       /\ row[l].status = "success" <=> confirmed[l] > 0
       /\ row[l].status = "success" =>
            row[l].status_code \in GoodCodes /\ row[l].error_message = None
       /\ row[l].status \in {"failed", "retrying"} => row[l].error_message # None

\* A settled row changes its status only by a replay, however often the log was
\* started, as long as no two of its starts have overlapped: failed calls, replays of
\* a log at rest and workers that die before their task is done do not undo it.
SettledIsFinal ==
  [][\A l \in Logs :
       l \notin crossed /\ l \in created /\ row'[l].status # row[l].status =>
         \/ ~Settled(l) /\ row'[l].status # "pending"
         \/ \E p \in Replays : /\ replay[p].pc = "resetting" /\ replay[p].log = l
                               /\ replay'[p].pc = "requeueing"
                               /\ row'[l].status = "pending"]_vars

\* Every log comes to rest: it is settled for good, its endpoint is removed, or a
\* failed call lost its message.
EventuallySettled ==
  \A l \in Logs : <>[](l \in created => Settled(l) \/ ~Live(l) \/ l \in hit)

----------------------------------------------------------------------------
\* "Can be used for permanently failed or pending dispatches.": a replay resets
\* no row that it found in another status.
ReplayOnlyFailedOrPending ==
  [][\A p \in Replays :
       replay[p].pc = "resetting" /\ replay'[p].pc = "requeueing" =>
         replay[p].loaded.status \in {"failed", "pending"}]_vars

\* "Detailed tracking of HTTP status codes": a row whose last attempt failed does
\* not show the code of an attempt that succeeded.
FailedAttemptShowsNoSuccessCode ==
  \A l \in Logs : row[l].status = "failed" /\ row[l].error_message # Disabled =>
    row[l].status_code \notin GoodCodes
=============================================================================
