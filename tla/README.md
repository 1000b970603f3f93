# Verification of the webhook gateway

TLA+ models of the webhook gateway in this repository, the TLC runs that check
them on small instances and the TLAPS proofs of what holds for every instance.
Paths are relative to the repository's root; `tasks.py` is
`app/worker/tasks.py`, `webhooks.py` is `app/api/v1/endpoints/webhooks.py`.

    tlc -workers 2 -config OneDelivery.cfg MCDeliveryEngine.tla
    tlapm DeliveryEngineProofs.tla

## 1. The system

A user registers, logs in for a token, registers webhook endpoints and creates
API keys. An event is posted to `/dispatch` with an API key. If the rate limiter
admits it, the handler writes one delivery log per active endpoint and publishes
one Celery task for each. Workers post the event to the subscriber, record what
came back in the log, and publish a retry, or give up. The user reads logs and
statistics and may replay a delivery.

| Component | State | Operations | Talks to |
|---|---|---|---|
| Accounts (`auth.py`, `deps.py`, `security.py`, `crud_user.py`) | `users`; tokens are stateless | register, login, authenticate | database |
| API keys (`api_keys.py`, `crud_api_key.py`) | `api_keys` | create, list, revoke, look up by hash | database; accounts |
| Rate limiter (`rate_limiter.py`) | one Redis hash per key: `tokens`, `last_updated`, a TTL | look up, stamp, run the Lua script | API keys; Redis |
| Endpoint registration (`webhooks.py:29-54`) | `webhook_endpoints` | create, list | database |
| Dispatch (`webhooks.py:80-111`) | its loop | list endpoints, insert a log, publish | rate limiter, database, broker |
| Replay (`webhooks.py:143-177`) | the row it loaded | load, reset, publish | database, broker |
| Delivery worker (`tasks.py`, `celery_app.py`) | the row it loaded, the retries of its message | receive, post, commit, retry, acknowledge | broker, database, subscriber |
| Delivery log (`models/webhook.py`, `crud_webhook.py`) | `webhook_delivery_logs` | insert, partial UPDATE, reset | shared by dispatch, replay, workers |
| Statistics (`crud_webhook.py:98-195`) | none | one aggregate query | reads the delivery log |
| Signatures (`tasks.py:36-44`, `verifier.py`, `examples/`) | none | sign, parse, verify, test | worker to subscriber |
| Gateway route (`gateway.py`) | none | not mounted by `api.py` | rate limiter |
| Health (`health.py`, `main.py`) | none | probe database and Redis | pools |
| Sessions and pools (`database.py`, `redis.py`, `config.py`) | connections | check out, return, discard | every handler |
| Migrations and deployment (`alembic/`, `docker-compose.yaml`) | tables, `alembic_version` | upgrade, then serve; start again | database; the API container |

What is hard here:

* **Two stores, no transaction over both.** A log is committed in PostgreSQL and
  its task published to Redis, in this order, by dispatch, by replay and by the
  retry of a worker. Whatever fails in between leaves a row and no message.
* **At-least-once.** Late acknowledgement and `task_reject_on_worker_lost` repeat
  the task of a dead worker; the visibility timeout of the Redis broker repeats
  one that is merely slow; a replay starts a second task while the first may
  still be retrying. Tasks of one log then run side by side.
* **Lost answers.** A request that ends in an error may have been accepted: its
  answer came too late, was cut off or could not be decoded. The worker cannot tell
  and tries again.
* **Read, wait, write.** A worker loads a row, waits for the subscriber, and
  commits the columns it changed over whatever is there then. So does a replay,
  with a shorter wait.
* **Late requests.** The rate limiter's time stamp is taken before the script runs,
  on another host than Redis, so stamps reach the bucket out of order; the TTL of
  the bucket is measured by Redis's own clock.
* **Another clock at the other end.** A subscriber judges a signature by its own
  clock, after a way that may delay, repeat or rewrite the request, and the example
  it may have copied parses the header in another way than the verifier.
* **Pools at their limits.** A request takes a connection, gives it back with a
  commit and takes one again; the database pool waits, the Redis pool raises.
* **A start that may die.** The container migrates and then serves, whoever else
  migrates and whenever the process or the database stops.
* **Check, then insert.** Registration looks an address up and inserts later; a key
  is created for a user that was read earlier.

What makes each component correct:

* Delivery: no delivery is forgotten, none retries for ever, the row tells the truth
  about the attempts, duplicates come only from the sources named above and are
  bounded.
* Dispatch: what it accepted is complete, and what it left behind when it failed is
  known.
* Rate limiter: what is admitted is bounded by burst and rate, a burst is honoured,
  `Retry-After` is right.
* Signatures: what is fresh is accepted, what is accepted was signed by the holder
  of the secret a short time ago, by the verifier and by the published example.
* Statistics: the counts are those of the deliveries of which a 2xx was read, at any
  moment.
* Pools: no connection leaks, nobody waits for ever, an outage leaves nothing behind.
* Migrations: the schema is a revision, and nothing is served before the head.
* Accounts: an address has one account, which opens to its password; a revoked key
  stays revoked; a key belongs to a user who alone can revoke it.

`PROJECT.json` lists the hazards at their lines with the properties that would
catch them.

## 2. The models

### DeliveryLog

The row of one delivery with the columns that decide anything: `status`,
`attempt_count`, `status_code`, `error_message`. `NewRow`, `Reset`, `Refused` and
`Recorded` are the objects the handlers build; `Flush` is the commit. SQLAlchemy
writes only the columns whose value differs from the loaded one, so a commit mixes
the object with what concurrent sessions have written. That decides several
properties: a replay that loaded a pending row writes no `status` at all.

Answers are the members of `GoodCodes` (2xx) and `BadCodes` (every other); a request
without an answer (`httpx.RequestError`) is `NoAnswer`.

### DeliveryEngine

| Variable | Stands for |
|---|---|
| `endpoint` | rows of `webhook_endpoints`: absent, active, inactive, removed |
| `created`, `row` | rows of `webhook_delivery_logs`, named by their dispatch and endpoint |
| `queue` | messages in the broker, by log and `request.retries` |
| `job` | what each worker process does, with the row as loaded |
| `dispatch`, `replay` | where each request of the API is |
| `posts`, `accepted`, `confirmed` | history: attempts made, attempts the subscriber accepted, those of them whose 2xx a worker has read |
| `chains` | history: messages that are no retry |
| `refused` | history: logs of which a task found the endpoint disabled |
| `crossed` | history: logs of which two starts have overlapped, by a redelivery or a replay |
| `hit` | history: logs whose message a failed call lost |

`Post` makes a subscriber accept what it answers with a 2xx, and leaves open whether
it has accepted a request that ended in an error (`httpx.RequestError`: a ReadTimeout
or a ReadError may come after the subscriber took the event, and a DecodingError after
it answered). `accepted` counts both, `confirmed` only what the worker has read.
The operator disables, enables and removes endpoints (`Disable`, `Enable`, `Remove`);
no route does.

A step ends at an await that others can observe or that can fail by itself. For the
worker: `Receive` (the select with its join, and the two early exits), `Post`,
`RecordSuccess` / `RecordRetry` / `RecordFailed` / `RecordRefused` (each with its
commit), `PublishRetry`, `Ack`. For a dispatch: `DispatchList`, `DispatchCreate`,
`DispatchPublish`; for a replay: `ReplayLoad`, `ReplayReset`, `ReplayPublish`.

Failures: a request dies or a call of it is refused (`DispatchFails`,
`ReplayFails`); a worker process dies (`WorkerLost`); the visibility timeout passes
(`Redeliver`); a commit meets no row (`CommitStale`); the task raises anything else
(`TaskFails`), upon which Celery acknowledges the message, because late
acknowledgement acknowledges failed tasks too. `hit` records which logs a failed
call has left without their message, so that properties can say precisely what
they do not promise.

Messages are unordered: retries carry a countdown and workers compete. The length
of the countdown is not modelled. Celery, SQLAlchemy, PostgreSQL and the broker are
external; they do what their configuration in `celery_app.py` and the session
factory in `tasks.py` asks of them.

### Delivery and DeliveryRefinement

`Delivery` is what a publisher may rely on and no more: a status per delivery, how
often it was started, attempted, accepted and known to be accepted, who is still owed
an attempt, what a failure may have lost. An attempt needs a start that allows it, and
the subscriber may accept any: a start makes the gateway know of one acceptance at most,
and never promises that there is only one. A status needs evidence - a failure all
attempts of a start, or a subscriber that was closed when the delivery came to be
attempted (`TurnAway`) -, and a settled delivery that was started once stays as it is.
`DeliveryRefinement` maps the engine to it: the row's status, the messages that are
no retry as starts, `refused` as what was turned away, `Carried` as what is owed. `ImplementsDelivery` is the whole
specification of `Delivery` under that mapping.

### DeliveryStats

The counts of the aggregate query over any set of rows of the engine, at any moment.
`InBucket` is the text of the CASE expressions: a comparison with NULL counts
nowhere, and nothing counts an answer 3xx. User and window choose rows, so the
property quantifies over every set of them.

### RateLimits and RateLimiter

`RateLimits` holds the limits as integers: time in ticks of a second, tokens in a
unit so small that a tick adds a whole number of them (1/100 token per tick of a
second for the plans' 1.0, 16.67 and 166.67, 1/60 for an override). Rounding of
floating-point numbers and of their decimal form in Redis is not modelled.

`RateLimiter` splits a request into `Lookup` (key known and active), `Stamp`
(`now = time.time()`) and `Eval` (the script). `Script` is the Lua text: take the
cost or not, write both fields, renew the TTL. `Present` says whether HMGET finds
the bucket, by the clock of Redis. Clocks agree; a request may be late by up to
`MaxDelay`, which with the time a bucket needs to refill lies under the TTL. The
history variables `spent`, `birth` and `regress` count what was admitted, the
earliest stamp, and how far `last_updated` went back.

`TokenBucket` is what the limiter is meant to be to each key: a bucket that is full
from the beginning, is never taken away, and decides each request by what it holds when
it is filled up to the stamp. `LevelBar` maps the limiter to it: a key without a hash
has a full bucket, and one whose hash has expired still has what it held, filled up
by the time that has passed. `ImplementsTokenBucket` is the whole specification under
that mapping. The ideal bucket takes its stamp back when a late request does, as the
script does: what that gives away is found by `RateIsEnforced` and not here.

### Accounts

`users`/`user` and `keys`/`key` are the two tables, `registration` and `call` the
requests under way, `tokens` the users with an unexpired token in circulation.
`RegisterCheck` and `RegisterInsert` are two steps, with the unique constraint of
`users.email` in the second. The answer of a commit may be an error, because the
refresh after it may fail. `Normalized` is what EmailStr makes of an address: the
registration stores it, the login compares what was typed. `Prefix` is the first 72
bytes of a password: `get_password_hash` cuts, `verify_password` does not, and
bcrypt 5.0.0 (`uv.lock`) raises on more. A token proves who calls and is no state
of the server.
Deactivating and deleting users are the operator's actions; no route does either.

### Signatures

A header is the sequence of its comma-separated elements, each with its name, its value and
whether a space precedes it. HMAC-SHA256 is ideal: a digest is the record of its
key, time stamp and body. A body carries the encoding it was written in, because
the signature is over bytes.

`Attempt` signs with a time stamp of its own (`Stamp`); the request then lies on
`wire`, where it may arrive late, again or never, or be rewritten: its body encoded
anew, or its header cut after the first element, given an empty element, another time
stamp or one that is no integer (`NoInteger`), or joined with the header of any request
that is on its way, and then with a space after any of its commas (`Spaced`; the one
before a header is stripped by whoever reads it). A request is rewritten once at most, and
`MaxChanged` of them are.

`Verify` is `verifier.py`, in the order of its errors; `Example` is
`examples/verify_signature.py`, whose `dict()` raises on an element without `=`, whose
`int()` raises on what is no integer, and which keeps the space in a name. So the two
part on headers joined by a comma and a space: of `t=NEW,v1=..., t=OLD,v1=...` the
verifier takes the last time stamp and the example the first, and either may accept
what the other refuses. What the example promises is therefore not that it agrees with
the verifier on everything, but that what it accepts was signed (`ExampleIsSound`).
`drift` is the offset of the subscriber's clock.
`TestAnswer` is what the route `/verify-test`, which changes nothing, answers with the
keywords it passes.

### Migrations, Connections and Service

`Migrations` is `alembic upgrade head`: revisions with what they create and refer to,
one transaction for all of them, any number of runs side by side. `Connections` has
the two pools with live and broken connections, and the path of a dispatch and of a
health check through them: a request without a key or with one that is not accepted
(401), a checkout that fails or waits too long, a statement over a connection that
broke, an insert that breaks its foreign key and a refresh that finds no row
(`RowFails`), a Redis pool at its limit or a Redis that is away, a limit that is
reached, a broker that refuses. `loop` is the request
that holds the event loop while `delay()` publishes. `Service` composes both with the
container: it migrates and then serves (`&&` in `docker-compose.yaml`), it dies and
starts again, and the database stops and comes back under all of them.

`CanMove` says that nothing keeps a request from its next step, and `Ahead` how many
steps it has before its end, four for every target of a dispatch that is left.

Other handlers take a part of the path of a dispatch. A listing, for instance, is a
checkout and a return.

### Slips

Operators introduced by a comment "Slip:" are not part of the specifications. Each
is a definition with one plausible mistake in it (a dropped guard, an off-by-one, a
publication outside its loop), and `PROJECT.json` names the property that it breaks
when it takes the place of the original.

## 3. The runs

| Run | Instance | Properties | Distinct states |
|---|---|---|---|
| OneDelivery | 1 endpoint, 1 dispatch, 1 replay, 2 workers, a 2xx or no answer, 1 retry, messages below 2 redelivered | TypeOK, NoLostDelivery, SuccessIsReal, ExhaustedMeansTried, DuplicatesAreBounded, SettledIsFinal, ImplementsDelivery | 440,000 |
| FanOut | 2 endpoints, 1 dispatch, 2 workers, answers 200 and 300 or none, no replay and no redelivery | NoLostDelivery, AuditIsExact, OrphanIsWhereDispatchStopped, AcceptedCoversTargets, StatsTellTheTruth | 555,000 |
| Settling | as OneDelivery, with fairness and without symmetry | EventuallySettled | 823,000 |
| Limiter | 1 key with 1 request a minute, 4 requests, a clock that moves by 22.5 s, delays up to that, a TTL of 82.5 s | TypeOK, AdmissionBudget, BurstIsHonoured, RetryAfterIsExact, RateHoldsInAnyWindow, ImplementsTokenBucket | 19,000 |
| Accounts | 2 registrations, 2 spellings of one address, 3 passwords, one of them too long, 2 calls | TypeOK, OneAccountPerEmail, RegisteredCanLogin, RevokedStaysRevoked, KeysHaveOwners, OnlyOwnerRevokes | 530,000 |
| Signatures | 2 deliveries and a retry of each, 2 secrets, a tolerance of 1 s, half-second ticks, drifts up to 0.5 s, one rewritten request | TypeOK, FreshIsAccepted, AcceptedIsAuthentic, ExampleIsSound | 686,000 |
| Service | 2 requests, pools of 1, dispatches to at most 2 endpoints, 2 who migrate, 2 faults; with fairness | TypeOK, SchemaIsARevision, ServesOnlyAtHead, ConnectionsAccounted, SomeoneCanMove, OutagesEnd, HealthIsAnswered, StepsLeadOn, EventuallyServes, EveryRequestAnswered | 188,000 |

What they show:

* **NoLostDelivery** - while a row says pending or retrying, a message or a running
  process carries it, unless a call that failed outright has lost its message. It
  covers deaths, redeliveries, replays and commits over a row that has moved on.
* **SuccessIsReal**, **ExhaustedMeansTried** - no interleaving of tasks and replays,
  with their commits of single columns, produces a success for which no worker has read
  a 2xx, or a failure without as many attempts as a message allows and without a task
  that found the endpoint disabled. That a task found it so is remembered (`refused`):
  an endpoint that is disabled by now is no excuse.
* **AuditIsExact** - without replay and redelivery the row counts the attempts and
  tells how the last one ended. **SettledIsFinal** - only a replay reopens a row, as
  long as no two starts of the log have overlapped (`crossed`): replays of a log at rest
  and workers that die before their task is done are covered, any number of them.
  Once two have overlapped, the older task may commit its result over the newer one's,
  and no property says that it does not.
* **DuplicatesAreBounded** - a message that is no retry allows `MaxRetries + 1` attempts,
  all of which a subscriber may accept when it does not get its answers through, and one
  acceptance that a worker reads, after which its chain is over.
* **ImplementsDelivery** - the engine is a way of doing `Delivery`: a step that is
  none of its steps, such as a retry that forgets the delivery, is found here.
* **OrphanIsWhereDispatchStopped**, **AcceptedCoversTargets** - a fan-out that breaks
  leaves one row without a task at most, and an accepted one is complete.
* **StatsTellTheTruth** - over rows that no replay, redelivery or loss has disturbed,
  successes are the deliveries of which a 2xx was read, and the 2xx answers, open rows are carried, and only
  a redirect is counted in no bucket.
* **EventuallySettled** - every delivery comes to rest, unless a failed call lost its
  message.
* **AdmissionBudget** - the cost of admitted requests and what the bucket holds never
  exceed the burst plus the refill for the time covered, counted once more for
  every interval a late request moved `last_updated` back over. Expiry adds nothing.
  **RateHoldsInAnyWindow** says the same of every step, and so of any two moments, not
  of the time since the first request alone. **ImplementsTokenBucket** - nobody can tell
  the hash that comes and goes from a bucket that was always there.
  **BurstIsHonoured** and **RetryAfterIsExact** are the promises to the client.
* **OneAccountPerEmail**, **RegisteredCanLogin**, **RevokedStaysRevoked**,
  **KeysHaveOwners**, **OnlyOwnerRevokes** - the races of accounts and keys.
* **FreshIsAccepted**, **AcceptedIsAuthentic** - the window from both sides: no attempt,
  however late a retry, is refused that arrives as sent within the tolerance, and
  nothing valid is unsigned or older than the tolerance and a second, however its header
  was spaced, cut, joined or re-stamped. **ExampleIsSound** - the same of what the
  example accepts, which agrees with the verifier on every request that arrives as sent.
* **SchemaIsARevision**, **ServesOnlyAtHead** - migrations that race, fail and die half
  way leave a revision, and no request meets another than the head.
* **ConnectionsAccounted**, **OutagesEnd**, **HealthIsAnswered** - every connection is
  returned or discarded on every path of a dispatch and of a health check; a restart of the database breaks no request
  that came after it; a health check ends in 200 or 503.
* **SomeoneCanMove**, **StepsLeadOn** - requests never wait for one another in a circle,
  nor does one go round in a circle of its own: while any is under way one of them can
  go on, and whatever step it takes it comes nearer to its end.
* **EventuallyServes**, **EveryRequestAnswered** - when faults end the API serves, and
  with pools of one connection no request waits for ever, without any time-out.

Deadlock checking is off in every configuration: requests are served once and the
system may come to rest when all are.

**Bounds.** `MaxRetries = 1` (5 in the code) has a first attempt, a retry and the last
failure; `MaxRetries = 0` and larger values differ in the length of the chain only,
and the theorems hold for all. `MaxChains` bounds redeliveries and deaths: with 2 the
task of a dispatch overlaps one redelivery and the replay; the theorems
hold for every `MaxChains`. `OneDelivery` and `Settling` have no code but a 2xx: a request without an
answer fails an attempt there, and no property of theirs looks at the code. `FanOut` has
another one, for the audit and the statistics, which are about deliveries without a
replay and a redelivery, and leaves these to `OneDelivery`.
`Limiter`'s clock step is more than a third of the time a token takes, so that
requests are refused, refilled in several steps and let the bucket expire; four
requests are needed for a late one between two that are in time. Two registrations
and two calls are what a race needs. With pools of one connection every second request
waits or is refused; `MaxFaults = 2` lets the database stop, the process die during what
follows, and both. `Signatures` has ticks of half a second so that times are truncated,
and a clock that runs past the tolerance of an attempt. It has two
deliveries, so that a header of one can carry the signature of the other. One rewritten
request is enough for properties of single requests: what a header is joined with is a
request that is unchanged.
Symmetry under permutations of workers and replays, of requests, of registrations and
calls, and of secrets and deliveries is used in safety runs only.

**Fairness.** Run Settling: Weak fairness of each worker's own steps - a Celery worker
takes what is queued and its task goes on -, of the end of an attempt, and of the
steps of a handler that has begun. `timeout=10.0` gives up a subscriber that is
silent for ten seconds, and does not bound the whole answer: that a subscriber
which goes on sending comes to an end is an assumption about subscribers. Nothing
is assumed of requests, operators, failures or answers. Deaths and redeliveries
end, by `MaxChains`. Run Service: the container is started again
(`restart: unless-stopped`) and so is the database; a migration that has begun, and a
request that can move, go on. No time-out has to occur, so that `EveryRequestAnswered`
shows that nobody waits for what another one keeps. That a call to Redis, the broker or
the database ends is part of it, and so is that `delay()` does: while the broker is slow
the request in it holds the event loop, which counts as moving.

### Where the code and its documents disagree

| Run | What TLC shows | Against |
|---|---|---|
| AuditFinding | success, the worker lost before its acknowledgement, redelivered, no answers: the row is failed and shows status code 200; a replay in place of the lost worker does the same | `README.md:16` "Full Audit Logging: Detailed tracking of HTTP status codes..." |
| ReplayFinding | a retrying or successful delivery is replayed | `webhooks.py:155` "Can be used for permanently failed or pending dispatches." |
| RateFinding | a late evaluation moves `last_updated` back and the same interval is refilled twice | `README.md:12` "Atomic Redis Lua scripts enforcing granular per-minute limits" |
| VerifyTestFinding | every call of `/verify-test` raises TypeError, a valid one too | `webhooks.py:125` "Subscribers can use this endpoint to test their signature generation and verification." |
| LoginFinding | registered with more than 72 bytes, no login succeeds | `tests/test_api.py:31`, `schemas/user.py:14` (`max_length=128`) |

## 4. The proofs

For every set of endpoints, requests and workers and every `MaxRetries` and
`MaxChains` (`DeliveryEngineProofs`); every plan, override, resolution of the clock
and set of steps under `LimiterAssumption` (`RateLimiterProofs`); every set of
addresses, passwords, registrations and calls (`AccountsProofs`); every tolerance,
resolution and drift of the clocks (`SignaturesProofs`); pools of every size, and any
number of requests and of migrations (`ServiceProofs`). `DeliveryPromises` builds on
`DeliveryEngineProofs`, `DeliveryStatsProofs` and `DeliveryRefinementProofs` on it.
Every invariant and every action property of a run is a theorem, and so are both
refinements.

* **TypeCorrect** (all five components). `TypeOK` is inductive. In the engine it needs that only
  a task below `MaxRetries` publishes, so that the queue keeps its domain.
* **NothingLost**: `Spec => []NoLostDelivery`, from `TypeOK` and `NoLostDelivery`
  itself, which is inductive because `Carried` counts the processes that are about
  to settle the row or to publish. Actions that take a carrier away put another in
  its place: `Receive` turns a message into a task, `RecordRetry` a task into one
  that publishes. The delicate case is a commit
  over a row that was reset after it was loaded. A task that loaded a settled row
  writes no status that the row already had, and so leaves the reset row open: it is
  no carrier (`Working`), and the replay that reset the row is one.
* **SuccessBacked**, **FailureBacked**: `SuccessIsReal` and `ExhaustedMeansTried` are not
  inductive. The strengthening (`Evidence` in the proof module) follows the attempts
  along the chain of messages: the message of the r-th retry exists after r attempts,
  a task that has posted after one more, a task with a 2xx in its hands after an
  attempt that is confirmed, a task about to record a refusal after it found the endpoint
  disabled. What it rests on only grows (`Growing`), whoever else runs.
* **OrphansAreWhereDispatchesStopped**, **AcceptedDispatchesCover**: the invariant
  `FanOut` says what the loop of a dispatch has behind it: every log before the one in
  hand is published, and none after it is created.
* **SettledStaysSettled**: while no two starts of a log have overlapped, it has one task
  or message at most, and while it has one it is not settled (`Sole`); whoever is about to
  publish for it does so while none is about (`Lone`). The two together are inductive
  (`Orderly`), with `Known` for what is the case before a log is published. So whoever
  could write over a settled row is the one that settled it, or a replay.
* **AuditExact**: with one task, the numbers in the row, in the hands of the task and in
  its message agree at every step of an attempt (`Exact`).
* **DuplicatesBounded**: every message that is no retry brings `MaxRetries + 1` attempts
  and one acceptance that is read; `PostBudget` and `ConfirmedBudget` count what queued
  messages and running tasks may still spend. Without them the bounds are not inductive:
  they say nothing of what is in flight. Acceptances lie between those that were read and
  the attempts (`AcceptedInRange`).
* **StatsTrue**: `UndisturbedRow` is what `Exact` says of a row at rest: an open one has
  no success code, a settled one that of its last attempt. `RowTells` turns that into
  what is counted, `OneBucket` into the bucket, and the counts follow because the sets
  counted are equal, or disjoint parts of one. They are finite: `RowsAreFinite`.
* **EngineImplementsDelivery**: initial states map to initial states, and every action
  to a step of `Delivery` or a stutter. The invariants above are what the steps need:
  an attempt is covered by a start, what it confirms by `ConfirmedBudget`, a report by
  evidence.
* **FreshAccepted**, **AcceptedAuthentic**: `Way` says what is on the way: what is
  unchanged is what was sent, and a header is a sequence of `Honest` elements, in which
  every digest is that of something signed. Spaces, cuts, joins and other time stamps
  keep it so (`HeadersHonest`, `SpacedHonest`). The last of several elements is one of
  them (`HasGreatest`, `FinalIsOne`), so what a subscriber finds is honest too.
  `SecondsNear` and `TimesNear` carry distances of times to distances of whole seconds
  and back; they are why the second bound is a second wider.
* **ExampleIsRight**: the example may take another element than the verifier, but it takes
  one of the header, and compares its digest with the time stamp it has taken and the
  body it has got. `FoundBacks` says that a digest which matches these is that of a
  signature made near that time: it serves verifier and example alike.
* **OneRevision**, **HeadServed**: of all runs at most one has created anything, and it
  is at a `Stage` of the plan of the version; the others have their first statement
  before them, which waits for that run and fails when it has committed (`OnPlan`).
* **NothingLeaks**, **OutagesPass**, **HealthAnswered**: `Sound` says what a request holds
  at each place. `OneMoves` is the one place where connections are counted.
* **NobodyDeadlocks**: whoever holds a connection is at a place where it waits for none
  (`Sound`), so a full pool is full of requests that can move.
* **RequestsLeadOn**: `Distance` measures a request by its place and what it has left.
  `OnwardLeads`, `EndLeads` and `RaisesLeads` are the three ways a step goes. Together
  with NobodyDeadlocks it is the part of `EveryRequestAnswered` that needs no fairness.
* **BudgetHolds**, **BurstHolds**, **RetryAfterHolds**: the budget inequality with
  two facts (`Timely`, `Budget`): no request is evaluated more than `MaxDelay` after its
  stamp, and a bucket outlives its `last_updated` by the TTL. So a bucket that expired had
  the time to be full. `PlansRefillInAMinute` discharges that for every plan and override.
  `CeilIsExact` is the lemma behind Retry-After. **RateHolds** is the same inequality
  of one step.
* **LimiterImplementsTokenBucket**: `FilledIsRefilled` is the step: what the script finds,
  and the full bucket it assumes where it finds none, is what the ideal bucket holds.
  Where the hash has expired this is the argument about the TTL again.
* **AddressesAreUnique**, **AccountsOpen**: a row holds what its registration asked for
  (`RowsAreAsked`), whose two steps the unique constraint joins.
* **RevocationIsFinal**, **KeysAreOwned**, **OwnersRevoke**: a key is created once, by a
  call that is over by the time another one loads it (`KeysAreCreated`,
  `RevokedWereCreated`), and a call that has loaded a key is its owner's.

Assumptions are those the modules name (`CodesAssumption`, `EngineAssumption`,
`ResolutionAssumption`, `LimiterAssumption`, `AccountsAssumption`,
`SignaturesAssumption`, `ConnectionsAssumption`, `ServiceAssumption`), which TLC
evaluates on every run.

Model-checked only: `EventuallySettled`, `EventuallyServes` and `EveryRequestAnswered`,
liveness under fairness, which the prover cannot do. The proofs of `SignaturesProofs`
take digests as records, which is what an ideal HMAC means; they say nothing of its
strength.

## 5. What is not modelled

* The countdown between retries, and the content of payloads and answers. Mean response
  times and the rounding of rates in the statistics.
* `expires_at` of a key, which no code reads, and `last_used_at`, which none writes.
* Listings and `/me`, which change nothing. `gateway.py`, which is not mounted.
* `downgrade()` and the offline mode of the migrations, which no part of the system runs.
* `pool_recycle`, which replaces old connections. Settings other than the pools' sizes
  and time-outs, which decide nothing that is modelled.
* Floating-point rounding in the rate limiter. The request whose user is deleted between
  the lookup of its key and that of its user (`rate_limiter.py:87-88`) is limited as FREE:
  its key, and the bucket named after it, go with the user, and the dispatch that follows
  finds no endpoint.
* That `delay()` might never come back: kombu gives up after a few tries.
* The rewriting of a request more than once, and of what no verifier reads.
* What PostgreSQL, Redis, Celery, bcrypt and SQLAlchemy do inside; the models take from
  them what the code relies on, and `PROJECT.json` marks those definitions external.

## 6. What is left

1. `Registry`: what accounts and keys promise, each change in one step, and the proof
   that `Accounts`, with its checks and inserts apart, implements it.
2. `Gateway`: accounts, keys, limiter and dispatch composed, for revocation and limits as
   a publisher sees them.
