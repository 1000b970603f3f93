---------------------------- MODULE Connections -----------------------------
(***************************************************************************)
(* The connections of the API process and the requests that take them: the *)
(* pool of the database, where requests wait, and the pool of Redis, where *)
(* they do not.                                                            *)
(*                                                                         *)
(* The session of a request takes a connection with its first statement,   *)
(* gives it back with a commit and at its end, and takes one again for the *)
(* refresh that follows a commit.  delay() publishes without awaiting: no  *)
(* other request moves meanwhile.                                          *)
(***************************************************************************)
EXTENDS Naturals, FiniteSets

CONSTANTS
  Requests,   \* the requests, each sent once
  PoolSize,   \* DB_POOL_SIZE + DB_MAX_OVERFLOW
  RedisSize,  \* max_connections of the Redis pool
  MaxTargets, \* bound: the endpoints of a dispatch
  NoRequest   \* nobody holds the event loop

ASSUME ConnectionsAssumption ==
  /\ PoolSize \in Nat \ {0} /\ RedisSize \in Nat \ {0} /\ MaxTargets \in Nat
  /\ NoRequest \notin Requests /\ IsFiniteSet(Requests)

VARIABLES
  db,        \* whether the database answers
  idle,      \* the connections in the database pool: how many live, how many broken
  request,   \* the requests
  loop       \* the request whose delay() holds the event loop

poolVars == <<db, idle, request, loop>>

Errors == {"dberror", "rowerror", "poolerror", "rediserror", "brokererror"}
Ends   == {"ok", "refused", "unwell", "dropped"} \cup Errors

Unsent == [kind |-> "dispatch", pc |-> "unsent", conn |-> "none", redis |-> FALSE,
           left |-> 0, outage |-> FALSE, unwell |-> FALSE]

Ended(r)  == request[r].pc \in Ends
Active(r) == request[r].pc \notin Ends \cup {"unsent"}
At(r, pc) == loop = NoRequest /\ request[r].pc = pc

Holding  == {r \in Requests : request[r].conn # "none"}
OnRedis  == {r \in Requests : request[r].redis}
PoolFull == Cardinality(Holding) >= PoolSize

ConnectionsInit ==
  /\ db = "up"
  /\ idle = [live |-> 0, broken |-> 0]
  /\ request = [r \in Requests |-> Unsent]
  /\ loop = NoRequest

Moves(r, next) ==
  /\ request' = [request EXCEPT ![r] = next]
  /\ UNCHANGED <<db, idle, loop>>

\* session.close() or commit(): a live connection goes back to the pool, and a
\* broken one is discarded.
GivesBack(r, next) ==
  /\ request' = [request EXCEPT ![r] = [next EXCEPT !.conn = "none", !.redis = FALSE]]
  /\ idle' = IF request[r].conn = "live" THEN [idle EXCEPT !.live = @ + 1] ELSE idle
  /\ UNCHANGED db

\* Slip: get_db does not close the session of a request that fails.
EndsUnclosed(r, end) ==
  IF end \in Errors
    THEN /\ request' = [request EXCEPT ![r].pc = end]
         /\ UNCHANGED <<db, idle>>
    ELSE GivesBack(r, [request[r] EXCEPT !.pc = end])

\* The request ends, get_db and get_redis with it.
EndsWith(r, end) == GivesBack(r, [request[r] EXCEPT !.pc = end])

\* Slip: the probes of the health check stand outside their try.
RaisesUncaught(r, end) == EndsWith(r, end) /\ UNCHANGED loop

\* A checkout, a statement or a command raises: the end of a request, but for the
\* health check, which notes it and goes on.
Raises(r, end) ==
  IF request[r].kind = "health" /\ request[r].pc \in {"waiting", "probing"}
    THEN Moves(r, [request[r] EXCEPT !.pc = "pinging", !.unwell = TRUE])
  ELSE IF request[r].kind = "health"
    THEN EndsWith(r, "unwell") /\ UNCHANGED loop
  ELSE EndsWith(r, end) /\ UNCHANGED loop

----------------------------------------------------------------------------
\* A dispatch without a key is refused before its session has a statement.
Send(r) ==
  /\ At(r, "unsent")
  /\ \/ \E kind \in {"dispatch", "health"}, n \in 1..MaxTargets :
          Moves(r, [Unsent EXCEPT !.kind = kind, !.pc = "waiting", !.outage = (db = "down"),
                                  !.left = IF kind = "dispatch" THEN n ELSE 0])
     \/ EndsWith(r, "refused") /\ UNCHANGED loop

Wants(r) == At(r, "waiting") \/ At(r, "refreshing")

AfterCheckout(r) ==
  IF request[r].kind = "health" THEN "probing"
  ELSE IF request[r].pc = "waiting" THEN "looking"
  ELSE "publishing"

\* Slip: no pool_pre_ping, so a connection is taken as it lies in the pool.
CheckoutUnpinged(r) ==
  /\ Wants(r) /\ ~PoolFull
  /\ \/ /\ idle.broken > 0
        /\ request' = [request EXCEPT ![r].pc = AfterCheckout(r), ![r].conn = "broken"]
        /\ idle' = [idle EXCEPT !.broken = @ - 1]
     \/ /\ idle.broken = 0 /\ db = "up"
        /\ request' = [request EXCEPT ![r].pc = AfterCheckout(r), ![r].conn = "live"]
        /\ idle' = [idle EXCEPT !.live = IF @ > 0 THEN @ - 1 ELSE 0]
  /\ UNCHANGED <<db, loop>>

\* With pool_pre_ping a broken connection is found out, the broken ones are all
\* discarded and a new one is made.
Checkout(r) ==
  /\ Wants(r) /\ ~PoolFull /\ db = "up"
  /\ request' = [request EXCEPT ![r].pc = AfterCheckout(r), ![r].conn = "live"]
  /\ \/ idle.live > 0 /\ idle' = [idle EXCEPT !.live = @ - 1]
     \/ (idle.live = 0 \/ idle.broken > 0) /\ idle' = [idle EXCEPT !.broken = 0]
  /\ UNCHANGED <<db, loop>>

CheckoutFails(r) == Wants(r) /\ ~PoolFull /\ db = "down" /\ Raises(r, "dberror")

\* DB_POOL_TIMEOUT
PoolTimeout(r) == Wants(r) /\ PoolFull /\ Raises(r, "poolerror")

\* Slip: the request begins anew on another connection.
StatementFailsAgain(r) ==
  /\ At(r, "looking") \/ At(r, "inserting") \/ At(r, "probing")
  /\ request[r].conn = "broken"
  /\ GivesBack(r, [request[r] EXCEPT !.pc = "waiting"])
  /\ UNCHANGED loop

\* A statement over a connection that broke under the request.
StatementFails(r) ==
  /\ At(r, "looking") \/ At(r, "inserting") \/ At(r, "publishing") \/ At(r, "probing")
  /\ request[r].conn = "broken"
  /\ Raises(r, "dberror")

\* The insert of a log breaks the foreign key, or its refresh finds no row: the
\* endpoint is gone.
RowFails(r) ==
  /\ At(r, "inserting") \/ At(r, "publishing")
  /\ request[r].conn = "live"
  /\ Raises(r, "rowerror")

TakesRedis(r, next) ==
  IF Cardinality(OnRedis) < RedisSize
    THEN Moves(r, [request[r] EXCEPT !.pc = next, !.redis = TRUE])
    ELSE Raises(r, "rediserror")

\* The key is looked up, and the connection kept while Redis runs the script.  A key
\* that is unknown or revoked is refused.
Lookup(r) ==
  /\ At(r, "looking") /\ request[r].conn = "live"
  /\ TakesRedis(r, "limiting") \/ (EndsWith(r, "refused") /\ UNCHANGED loop)

Limit(r) ==
  /\ At(r, "limiting")
  /\ \/ Moves(r, [request[r] EXCEPT !.pc = "inserting", !.redis = FALSE])
     \/ EndsWith(r, "ok") /\ UNCHANGED loop
     \/ Raises(r, "rediserror")

\* Slip: the refresh takes a connection while that of the commit is kept.
InsertKeeps(r) ==
  /\ At(r, "inserting") /\ request[r].conn = "live"
  /\ Moves(r, [request[r] EXCEPT !.pc = "refreshing", !.left = @ - 1])

\* The insert and the commit of a log.
Insert(r) ==
  /\ At(r, "inserting") /\ request[r].conn = "live"
  /\ GivesBack(r, [request[r] EXCEPT !.pc = "refreshing", !.left = @ - 1])
  /\ UNCHANGED loop

Publish(r) ==
  /\ At(r, "publishing")
  /\ loop' = r
  /\ UNCHANGED <<db, idle, request>>

\* Slip: the loop goes round once more.
PublishEndsOnceMore(r) ==
  /\ loop = r
  /\ loop' = NoRequest
  /\ request' = [request EXCEPT ![r].pc = "inserting"]
  /\ UNCHANGED <<db, idle>>

\* kombu gives up after a few tries.
PublishEnds(r) ==
  /\ loop = r
  /\ loop' = NoRequest
  /\ \/ /\ request[r].left > 0
        /\ request' = [request EXCEPT ![r].pc = "inserting"]
        /\ UNCHANGED <<db, idle>>
     \/ request[r].left = 0 /\ EndsWith(r, "ok")
     \/ EndsWith(r, "brokererror")

Probe(r) ==
  /\ At(r, "probing") /\ request[r].conn = "live"
  /\ Moves(r, [request[r] EXCEPT !.pc = "pinging"])

Ping(r) == At(r, "pinging") /\ TakesRedis(r, "ponging")

Pong(r) ==
  /\ At(r, "ponging")
  /\ \/ EndsWith(r, IF request[r].unwell THEN "unwell" ELSE "ok") /\ UNCHANGED loop
     \/ Raises(r, "rediserror")

RequestProgress(r) ==
  \/ Checkout(r) \/ CheckoutFails(r) \/ StatementFails(r) \/ RowFails(r)
  \/ Lookup(r) \/ Limit(r) \/ Insert(r) \/ Publish(r) \/ PublishEnds(r)
  \/ Probe(r) \/ Ping(r) \/ Pong(r)

----------------------------------------------------------------------------
(* The database stops: every connection breaks.  The process stops: so do  *)
(* its requests, and its pools are gone.                                   *)

DatabaseStops ==
  /\ db = "up"
  /\ db' = "down"
  /\ idle' = [live |-> 0, broken |-> idle.live + idle.broken]
  /\ request' = [r \in Requests |->
       IF ~Active(r) THEN request[r]
       ELSE [request[r] EXCEPT !.outage = TRUE,
                               !.conn = IF @ = "none" THEN @ ELSE "broken"]]
  /\ UNCHANGED loop

DatabaseStarts ==
  /\ db = "down"
  /\ db' = "up"
  /\ UNCHANGED <<idle, request, loop>>

RequestsDropped ==
  /\ request' = [r \in Requests |->
       IF Active(r) THEN [request[r] EXCEPT !.pc = "dropped", !.conn = "none",
                                            !.redis = FALSE]
       ELSE request[r]]
  /\ idle' = [live |-> 0, broken |-> 0]
  /\ loop' = NoRequest
  /\ UNCHANGED db

----------------------------------------------------------------------------
(* Properties *)

ConnectionsType ==
  /\ db \in {"up", "down"}
  /\ idle \in [live : Nat, broken : Nat]
  /\ request \in [Requests ->
       [kind   : {"dispatch", "health"},
        pc     : {"unsent", "waiting", "looking", "limiting", "inserting", "refreshing",
                  "publishing", "probing", "pinging", "ponging"} \cup Ends,
        conn   : {"none", "live", "broken"}, redis : BOOLEAN, left : 0..MaxTargets,
        outage : BOOLEAN, unwell : BOOLEAN]]
  /\ loop \in Requests \cup {NoRequest}

\* No connection leaks: what the pools have given out is held by requests under way,
\* and the database sees no more connections than the pool allows.
ConnectionsAccounted ==
  /\ \A r \in Requests : Ended(r) => request[r].conn = "none" /\ ~request[r].redis
  /\ Cardinality(Holding) + idle.live + idle.broken <= PoolSize
  /\ Cardinality(OnRedis) <= RedisSize

\* Nothing keeps r from its next step: it has the event loop, or nobody has and it
\* waits for no connection.
CanMove(r) ==
  \/ loop = r
  \/ /\ loop = NoRequest
     /\ Wants(r) => ~PoolFull
     /\ request[r].pc \in {"looking", "inserting", "probing"} => request[r].conn # "none"

\* Requests never wait for one another in a circle, whatever the pools hold: while
\* any is under way, one of them can go on without a time-out.
SomeoneCanMove ==
  (\E r \in Requests : Active(r)) => \E r \in Requests : Active(r) /\ CanMove(r)

\* How far r is from its end: a target of a dispatch is four steps, from the insert
\* of its log to the end of delay().
Rank == [unsent  |-> 4 * MaxTargets + 6, waiting    |-> 5, looking    |-> 4,
         probing |-> 4,                  limiting   |-> 3, pinging    |-> 3,
         ponging |-> 2,                  refreshing |-> 4, publishing |-> 3,
         inserting |-> 1]

Ahead(r) ==
  IF Ended(r) THEN 0
  ELSE 4 * request[r].left + Rank[request[r].pc] - (IF loop = r THEN 1 ELSE 0)

\* No request goes round in a circle of its own: whatever step it takes, and whatever
\* fails under it, it is nearer to its end.
StepsLeadOn ==
  [][\A r \in Requests :
       \/ request'[r].pc = request[r].pc /\ (loop' = r) = (loop = r)
       \/ Ahead(r)' < Ahead(r)]_poolVars

\* A request fails for the database only when the database was away during it: a
\* restart leaves nothing in the pool that breaks a later request.
OutagesEnd == \A r \in Requests : request[r].pc = "dberror" => request[r].outage

\* Whatever fails and in whatever order, a health check is answered 200 or 503.
HealthIsAnswered ==
  \A r \in Requests : request[r].kind = "health" => request[r].pc \notin Errors
=============================================================================
