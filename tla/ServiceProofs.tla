--------------------------- MODULE ServiceProofs ----------------------------
(***************************************************************************)
(* Proofs about the containers, for any number of migrators and requests   *)
(* and pools of any size: the schema is a revision at every moment, no     *)
(* request meets another one than the head, no connection leaks, requests  *)
(* do not block one another, and every health check is answered.           *)
(***************************************************************************)
EXTENDS Service, Integers, SequenceTheorems, FiniteSetTheorems, TLAPS

USE ConnectionsAssumption, ServiceAssumption

----------------------------------------------------------------------------
(* The pools. *)

RequestType ==
  [kind   : {"dispatch", "health"},
   pc     : {"unsent", "waiting", "looking", "limiting", "inserting", "refreshing",
             "publishing", "probing", "pinging", "ponging"} \cup Ends,
   conn   : {"none", "live", "broken"}, redis : BOOLEAN, left : 0..MaxTargets,
   outage : BOOLEAN, unwell : BOOLEAN]

\* What a request holds, and what it may have met, where it is.
Sound(q) ==
  /\ q \in RequestType
  /\ q.conn # "none" => q.pc \in {"looking", "limiting", "inserting", "publishing",
                                  "probing", "pinging", "ponging"}
  /\ q.pc \in {"looking", "limiting", "inserting", "publishing", "probing"} => q.conn # "none"
  /\ q.redis => q.pc \in {"limiting", "ponging"}
  /\ q.kind = "health" => q.pc \in {"waiting", "probing", "pinging", "ponging",
                                    "ok", "unwell", "dropped"}
  /\ q.kind = "dispatch" /\ q.pc \in {"waiting", "looking", "limiting", "inserting"}
       => q.left > 0
  /\ q.conn = "broken" => q.outage
  /\ q.pc = "dberror" => q.outage

Knows(q, state) == state = "down" /\ q.pc \notin Ends \cup {"unsent"} => q.outage

Counted ==
  /\ Cardinality(Holding) + idle.live + idle.broken <= PoolSize
  /\ Cardinality(OnRedis) <= RedisSize

PoolInv ==
  /\ db \in {"up", "down"}
  /\ idle \in [live : Nat, broken : Nat]
  /\ request \in [Requests -> RequestType]
  /\ \A r \in Requests : Sound(request[r]) /\ Knows(request[r], db)
  /\ loop \in Requests \cup {NoRequest}
  /\ loop # NoRequest => request[loop].pc = "publishing"
  /\ Counted

LEMMA PoolInvPromises ==
  ASSUME PoolInv
  PROVE  ConnectionsType /\ ConnectionsAccounted /\ OutagesEnd /\ HealthIsAnswered
<1>1. ConnectionsType
  BY DEF PoolInv, ConnectionsType, RequestType
<1>2. ConnectionsAccounted
  <2>1. \A r \in Requests : Ended(r) => request[r].conn = "none" /\ ~request[r].redis
    BY DEF PoolInv, Sound, Ended, Ends, Errors
  <2>. QED BY <2>1 DEF PoolInv, Counted, ConnectionsAccounted
<1>3. OutagesEnd
  BY DEF PoolInv, Sound, OutagesEnd
<1>4. HealthIsAnswered
  BY DEF PoolInv, Sound, HealthIsAnswered, Errors
<1>. QED BY <1>1, <1>2, <1>3, <1>4

\* Whoever waits for the pool holds nothing of it, so when it is full a holder can
\* go on; and whoever has the event loop can.
LEMMA PoolInvMoves ==
  ASSUME PoolInv, NEW r \in Requests, Active(r)
  PROVE  \E k \in Requests : Active(k) /\ CanMove(k)
<1>1. CASE loop # NoRequest
  <2>1. loop \in Requests /\ request[loop].pc = "publishing"
    BY <1>1 DEF PoolInv
  <2>. QED BY <2>1 DEF Active, Ends, Errors, CanMove
<1>2. CASE loop = NoRequest /\ PoolFull
  <2>1. Holding # {}
    BY <1>2, FS_EmptySet DEF PoolFull
  <2>2. PICK k \in Requests : request[k].conn # "none"
    BY <2>1 DEF Holding
  <2>3. request[k].pc \in {"looking", "limiting", "inserting", "publishing",
                           "probing", "pinging", "ponging"}
    BY <2>2 DEF PoolInv, Sound
  <2>. QED BY <1>2, <2>2, <2>3 DEF Active, Ends, Errors, CanMove, Wants, At
<1>3. CASE loop = NoRequest /\ ~PoolFull
  <2>1. Sound(request[r])
    BY DEF PoolInv
  <2>2. CanMove(r)
    BY <1>3, <2>1 DEF Sound, CanMove
  <2>. QED BY <2>2
<1>. QED BY <1>1, <1>2, <1>3

LEMMA FiniteParts ==
  /\ IsFiniteSet(Holding) /\ Cardinality(Holding) \in Nat
  /\ IsFiniteSet(OnRedis) /\ Cardinality(OnRedis) \in Nat
<1>1. Holding \in SUBSET Requests /\ OnRedis \in SUBSET Requests
  BY DEF Holding, OnRedis
<1>. QED BY <1>1, FS_Subset, FS_CardinalityType

LEMMA PoolInit ==
  ASSUME ConnectionsInit
  PROVE  PoolInv
<1>1. Sound(Unsent) /\ Unsent.pc = "unsent" /\ Unsent.conn = "none" /\ Unsent.redis = FALSE
  BY DEF Unsent, Sound, RequestType
<1>2. \A r \in Requests : request[r] = Unsent
  BY Zenon DEF ConnectionsInit
<1>3. Holding = {} /\ OnRedis = {}
  BY <1>1, <1>2 DEF Holding, OnRedis
<1>4. Counted
  BY <1>3, FS_EmptySet DEF Counted, ConnectionsInit
<1>5. request \in [Requests -> RequestType]
  BY <1>1 DEF ConnectionsInit, Sound
<1>6. \A r \in Requests : Sound(request[r]) /\ Knows(request[r], db)
  BY <1>1, <1>2 DEF Knows
<1>7. db \in {"up", "down"} /\ idle \in [live : Nat, broken : Nat] /\ loop = NoRequest
  BY DEF ConnectionsInit
<1>. QED BY <1>4, <1>5, <1>6, <1>7 DEF PoolInv

\* One request changes: who holds what after it.
LEMMA Holders ==
  ASSUME PoolInv, NEW r \in Requests, NEW q, request' = [request EXCEPT ![r] = q]
  PROVE  /\ Holding' = IF q.conn = "none" THEN Holding \ {r} ELSE Holding \cup {r}
         /\ OnRedis' = IF q.redis THEN OnRedis \cup {r} ELSE OnRedis \ {r}
         /\ r \in Holding <=> request[r].conn # "none"
         /\ r \in OnRedis <=> request[r].redis
<1>1. \A k \in Requests : request'[k] = IF k = r THEN q ELSE request[k]
  BY DEF PoolInv
<1>2. Holding' = IF q.conn = "none" THEN Holding \ {r} ELSE Holding \cup {r}
  BY <1>1, Zenon DEF Holding
<1>3. OnRedis' = IF q.redis THEN OnRedis \cup {r} ELSE OnRedis \ {r}
  BY <1>1, Zenon DEF OnRedis
<1>4. r \in Holding <=> request[r].conn # "none"
  BY DEF Holding
<1>5. r \in OnRedis <=> request[r].redis
  BY DEF OnRedis
<1>. QED BY <1>2, <1>3, <1>4, <1>5

\* One request changes, and what it takes it gives back or the pools have it.
LEMMA OneMoves ==
  ASSUME PoolInv, NEW r \in Requests, NEW q, Sound(q), Knows(q, db),
         request' = [request EXCEPT ![r] = q], db' = db,
         \/ loop' = NoRequest
         \/ loop' = loop /\ loop # r,
         \/ idle' = idle /\ (q.conn = "none" \/ request[r].conn # "none")
         \/ /\ q.conn = "none"
            /\ request[r].conn = "live" /\ idle' = [idle EXCEPT !.live = @ + 1]
         \/ /\ ~PoolFull
            /\ \/ idle.live > 0 /\ idle' = [idle EXCEPT !.live = @ - 1]
               \/ (idle.live = 0 \/ idle.broken > 0) /\ idle' = [idle EXCEPT !.broken = 0],
         q.redis => request[r].redis \/ Cardinality(OnRedis) < RedisSize
  PROVE  PoolInv'
<1>1. idle \in [live : Nat, broken : Nat] /\ idle' \in [live : Nat, broken : Nat]
  BY DEF PoolInv
<1>2. PICK h, o : h = Cardinality(Holding) /\ o = Cardinality(OnRedis)
  OBVIOUS
<1>3. h \in Nat /\ o \in Nat /\ h + idle.live + idle.broken <= PoolSize /\ o <= RedisSize
  BY <1>2, FiniteParts DEF PoolInv, Counted
<1>4. /\ Cardinality(Holding \cup {r}) = IF r \in Holding THEN h ELSE h + 1
      /\ Cardinality(Holding \ {r}) = IF r \in Holding THEN h - 1 ELSE h
      /\ Cardinality(OnRedis \cup {r}) = IF r \in OnRedis THEN o ELSE o + 1
      /\ Cardinality(OnRedis \ {r}) = IF r \in OnRedis THEN o - 1 ELSE o
  BY <1>2, FiniteParts, FS_AddElement, FS_RemoveElement
<1>13. /\ Holding' = IF q.conn = "none" THEN Holding \ {r} ELSE Holding \cup {r}
       /\ OnRedis' = IF q.redis THEN OnRedis \cup {r} ELSE OnRedis \ {r}
       /\ r \in Holding <=> request[r].conn # "none"
       /\ r \in OnRedis <=> request[r].redis
  BY Holders
<1>14. /\ q.conn = "none" => Cardinality(Holding') = IF r \in Holding THEN h - 1 ELSE h
       /\ q.conn # "none" => Cardinality(Holding') = IF r \in Holding THEN h ELSE h + 1
       /\ q.redis => Cardinality(OnRedis') = IF r \in OnRedis THEN o ELSE o + 1
       /\ ~q.redis => Cardinality(OnRedis') = IF r \in OnRedis THEN o - 1 ELSE o
  BY <1>4, <1>13
<1>5. Cardinality(OnRedis') <= RedisSize
  <2>1. CASE q.redis
    BY <1>2, <1>3, <1>13, <1>14, <2>1
  <2>2. CASE ~q.redis
    BY <1>3, <1>14, <2>2
  <2>. QED BY <2>1, <2>2
<1>6. Cardinality(Holding') + idle'.live + idle'.broken <= PoolSize
  <2>1. CASE idle' = idle /\ (q.conn = "none" \/ request[r].conn # "none")
    <3>1. Cardinality(Holding') <= h /\ Cardinality(Holding') \in Int
      BY <1>3, <1>13, <1>14, <2>1
    <3>. QED BY <1>1, <1>3, <2>1, <3>1
  <2>2. CASE /\ q.conn = "none"
             /\ request[r].conn = "live" /\ idle' = [idle EXCEPT !.live = @ + 1]
    <3>1. Cardinality(Holding') = h - 1
      BY <1>3, <1>13, <1>14, <2>2
    <3>2. idle'.live = idle.live + 1 /\ idle'.broken = idle.broken
      BY <1>1, <2>2
    <3>. QED BY <1>1, <1>3, <3>1, <3>2
  <2>3. CASE /\ ~PoolFull
             /\ idle.live > 0 /\ idle' = [idle EXCEPT !.live = @ - 1]
    <3>1. Cardinality(Holding') <= h + 1 /\ Cardinality(Holding') \in Int
      BY <1>3, <1>14
    <3>2. idle'.live = idle.live - 1 /\ idle'.broken = idle.broken
      BY <1>1, <2>3
    <3>. QED BY <1>1, <1>3, <3>1, <3>2
  <2>4. CASE /\ ~PoolFull
             /\ (idle.live = 0 \/ idle.broken > 0) /\ idle' = [idle EXCEPT !.broken = 0]
    <3>1. Cardinality(Holding') <= h + 1 /\ Cardinality(Holding') \in Int
      BY <1>3, <1>14
    <3>2. idle'.live = idle.live /\ idle'.broken = 0
      BY <1>1, <2>4
    <3>3. h < PoolSize
      BY <1>2, <1>3, <2>4 DEF PoolFull
    <3>4. CASE idle.live = 0
      BY <1>1, <1>3, <3>1, <3>2, <3>3, <3>4
    <3>5. CASE idle.broken > 0
      BY <1>1, <1>3, <3>1, <3>2, <3>5
    <3>. QED BY <2>4, <3>4, <3>5
  <2>. QED BY <2>1, <2>2, <2>3, <2>4
<1>7. Counted'
  BY <1>5, <1>6 DEF Counted
<1>8. request' \in [Requests -> RequestType]
  BY DEF PoolInv, Sound
<1>9. \A k \in Requests : request'[k] = IF k = r THEN q ELSE request[k]
  BY DEF PoolInv
<1>10. \A k \in Requests : Sound(request'[k]) /\ Knows(request'[k], db')
  BY <1>9 DEF PoolInv
<1>11. /\ loop' \in Requests \cup {NoRequest}
       /\ loop' # NoRequest => request'[loop'].pc = "publishing"
  BY <1>9 DEF PoolInv
<1>12. db' \in {"up", "down"}
  BY DEF PoolInv
<1>. QED BY <1>1, <1>7, <1>8, <1>10, <1>11, <1>12 DEF PoolInv

LEMMA RequestSound ==
  ASSUME PoolInv, NEW r \in Requests
  PROVE  Sound(request[r]) /\ Knows(request[r], db) /\ request[r] \in RequestType
  BY DEF PoolInv, Sound

LEMMA MoveKeeps ==
  ASSUME PoolInv, NEW r \in Requests, NEW q, Moves(r, q), Sound(q), Knows(q, db),
         loop # r,
         q.conn = "none" \/ request[r].conn # "none",
         q.redis => request[r].redis \/ Cardinality(OnRedis) < RedisSize
  PROVE  PoolInv'
<1>1. request' = [request EXCEPT ![r] = q] /\ UNCHANGED <<db, idle, loop>>
  BY Zenon DEF Moves
<1>. QED BY <1>1, OneMoves

LEMMA BackKeeps ==
  ASSUME PoolInv, NEW r \in Requests, NEW next, GivesBack(r, next),
         NEW q, q = [next EXCEPT !.conn = "none", !.redis = FALSE], Sound(q), Knows(q, db),
         q.conn = "none", ~q.redis,
         \/ loop' = NoRequest
         \/ loop' = loop /\ loop # r
  PROVE  PoolInv'
<1>1. /\ request' = [request EXCEPT ![r] = q] /\ db' = db
      /\ idle' = IF request[r].conn = "live" THEN [idle EXCEPT !.live = @ + 1] ELSE idle
  BY DEF GivesBack
<1>. QED BY <1>1, OneMoves

LEMMA EndKeeps ==
  ASSUME PoolInv, NEW r \in Requests, NEW end \in Ends, EndsWith(r, end),
         request[r].kind = "health" => end \in {"ok", "unwell", "dropped"},
         end = "dberror" => request[r].outage,
         \/ loop' = NoRequest
         \/ loop' = loop /\ loop # r
  PROVE  PoolInv'
<1>1. PICK next, q : /\ next = [request[r] EXCEPT !.pc = end]
                     /\ q = [next EXCEPT !.conn = "none", !.redis = FALSE]
  OBVIOUS
<1>2. Sound(request[r]) /\ request[r] \in RequestType
  BY RequestSound
<1>3. /\ q \in RequestType /\ q.pc = end /\ q.conn = "none" /\ q.redis = FALSE
      /\ q.kind = request[r].kind /\ q.outage = request[r].outage
  BY <1>1, <1>2 DEF RequestType
<1>4. end \notin {"waiting", "looking", "limiting", "inserting", "publishing", "probing"}
  BY DEF Ends, Errors
<1>5. Sound(q)
  BY <1>3, <1>4 DEF Sound
<1>6. Knows(q, db)
  BY <1>3 DEF Knows
<1>7. GivesBack(r, next)
  BY <1>1 DEF EndsWith
<1>. QED BY <1>1, <1>3, <1>5, <1>6, <1>7, BackKeeps

LEMMA RaisesKeeps ==
  ASSUME PoolInv, NEW r \in Requests, loop = NoRequest,
         NEW end \in {"dberror", "rowerror", "poolerror", "rediserror"}, Raises(r, end),
         end = "dberror" => request[r].outage
  PROVE  PoolInv'
<1>1. Sound(request[r]) /\ Knows(request[r], db) /\ request[r] \in RequestType
  BY RequestSound
<1>2. loop # r /\ end \in Ends /\ "unwell" \in Ends
  BY DEF Ends, Errors
<1>3. request[r].kind \in {"dispatch", "health"}
  BY <1>1 DEF RequestType
<1>4. CASE request[r].kind = "health" /\ request[r].pc \in {"waiting", "probing"}
  <2>1. PICK q : q = [request[r] EXCEPT !.pc = "pinging", !.unwell = TRUE]
    OBVIOUS
  <2>2. /\ q \in RequestType /\ q.pc = "pinging" /\ q.conn = request[r].conn
        /\ q.redis = request[r].redis /\ q.kind = "health" /\ q.outage = request[r].outage
    BY <1>1, <1>4, <2>1 DEF RequestType
  <2>3. ~request[r].redis
    BY <1>1, <1>4 DEF Sound
  <2>4. Sound(q)
    BY <1>1, <2>2, <2>3 DEF Sound
  <2>5. Knows(q, db)
    BY <1>1, <1>4, <2>2 DEF Knows, Ends, Errors
  <2>6. Moves(r, q)
    BY <1>4, <2>1, Zenon DEF Raises
  <2>. QED BY <1>2, <2>2, <2>4, <2>5, <2>6, MoveKeeps
<1>5. CASE request[r].kind = "health" /\ request[r].pc \notin {"waiting", "probing"}
  <2>1. EndsWith(r, "unwell") /\ loop' = loop
    BY <1>5, Zenon DEF Raises
  <2>. QED BY <1>2, <2>1, EndKeeps
<1>6. CASE request[r].kind # "health"
  <2>1. EndsWith(r, end) /\ loop' = loop
    BY <1>6, Zenon DEF Raises
  <2>. QED BY <1>2, <1>6, <2>1, EndKeeps
<1>. QED BY <1>4, <1>5, <1>6

LEMMA Free ==
  ASSUME NEW r \in Requests, NEW pc, At(r, pc)
  PROVE  loop = NoRequest /\ loop # r /\ request[r].pc = pc
  BY DEF At

LEMMA SentKeyedKeeps ==
  ASSUME PoolInv, NEW r \in Requests, At(r, "unsent"),
         NEW kind \in {"dispatch", "health"}, NEW n \in 1..MaxTargets,
         Moves(r, [Unsent EXCEPT !.kind = kind, !.pc = "waiting", !.outage = (db = "down"),
                                 !.left = IF kind = "dispatch" THEN n ELSE 0])
  PROVE  PoolInv'
<1>2. PICK q : q = [Unsent EXCEPT !.kind = kind, !.pc = "waiting", !.outage = (db = "down"),
                                  !.left = IF kind = "dispatch" THEN n ELSE 0]
  OBVIOUS
<1>3. /\ q \in RequestType /\ q.pc = "waiting" /\ q.conn = "none" /\ q.redis = FALSE
      /\ q.kind = "dispatch" => q.left > 0
      /\ q.outage = (db = "down")
  <2>1. PICK left \in 0..MaxTargets : left = IF kind = "dispatch" THEN n ELSE 0
    OBVIOUS
  <2>2. PICK down \in BOOLEAN : down = (db = "down")
    OBVIOUS
  <2>3. q = [kind |-> kind, pc |-> "waiting", conn |-> "none", redis |-> FALSE,
             left |-> left, outage |-> down, unwell |-> FALSE]
    BY <1>2, <2>1, <2>2 DEF Unsent
  <2>4. q \in RequestType
    BY <2>3 DEF RequestType
  <2>5. q.outage = (db = "down")
    BY <2>2, <2>3
  <2>. QED BY <2>1, <2>3, <2>4, <2>5
<1>4. Sound(q)
  BY <1>3 DEF Sound
<1>5. Knows(q, db)
  BY <1>3 DEF Knows
<1>6. loop # r
  BY Free
<1>. QED BY <1>2, <1>3, <1>4, <1>5, <1>6, MoveKeeps

LEMMA SendKeeps ==
  ASSUME PoolInv, NEW r \in Requests, Send(r)
  PROVE  PoolInv'
<1>1. At(r, "unsent") /\ loop = NoRequest /\ loop # r /\ request[r].pc = "unsent"
  BY Zenon, Free DEF Send
<1>2. CASE EndsWith(r, "refused") /\ UNCHANGED loop
  <2>1. "refused" \in Ends /\ "unsent" \notin Ends
    BY DEF Ends, Errors
  <2>2. request[r].kind # "health"
    BY <1>1 DEF PoolInv, Sound
  <2>. QED BY <1>1, <1>2, <2>1, <2>2, EndKeeps
<1>3. CASE \E kind \in {"dispatch", "health"}, n \in 1..MaxTargets :
             Moves(r, [Unsent EXCEPT !.kind = kind, !.pc = "waiting",
                                     !.outage = (db = "down"),
                                     !.left = IF kind = "dispatch" THEN n ELSE 0])
  BY <1>1, <1>3, SentKeyedKeeps, Zenon
<1>. QED BY <1>2, <1>3, Zenon DEF Send

LEMMA CheckoutKeeps ==
  ASSUME PoolInv, NEW r \in Requests, Checkout(r)
  PROVE  PoolInv'
<1>1. /\ Wants(r) /\ ~PoolFull /\ db = "up"
      /\ request' = [request EXCEPT ![r].pc = AfterCheckout(r), ![r].conn = "live"]
      /\ \/ idle.live > 0 /\ idle' = [idle EXCEPT !.live = @ - 1]
         \/ (idle.live = 0 \/ idle.broken > 0) /\ idle' = [idle EXCEPT !.broken = 0]
      /\ UNCHANGED <<db, loop>>
  BY Zenon DEF Checkout
<1>2. Sound(request[r]) /\ request[r] \in RequestType
  BY RequestSound
<1>3. loop # r /\ request[r].pc \in {"waiting", "refreshing"}
  BY <1>1, Free DEF Wants
<1>4. PICK next : next = AfterCheckout(r)
  OBVIOUS
<1>5. /\ request[r].kind = "health" => next = "probing"
      /\ request[r].kind # "health" /\ request[r].pc = "waiting" => next = "looking"
      /\ request[r].kind # "health" /\ request[r].pc = "refreshing" => next = "publishing"
  <2>1. CASE request[r].kind = "health"
    BY <1>3, <1>4, <2>1 DEF AfterCheckout
  <2>2. CASE request[r].kind # "health" /\ request[r].pc = "waiting"
    BY <1>4, <2>2 DEF AfterCheckout
  <2>3. CASE request[r].kind # "health" /\ request[r].pc = "refreshing"
    BY <1>4, <2>3 DEF AfterCheckout
  <2>. QED BY <1>3, <2>1, <2>2, <2>3
<1>6. PICK q : q = [request[r] EXCEPT !.pc = next, !.conn = "live"]
  OBVIOUS
<1>7. next \in {"probing", "looking", "publishing"}
  BY <1>2, <1>3, <1>5 DEF RequestType
<1>8. /\ q \in RequestType /\ q.pc = next /\ q.conn = "live" /\ q.redis = request[r].redis
      /\ q.kind = request[r].kind /\ q.left = request[r].left
      /\ q.outage = request[r].outage
  BY <1>2, <1>6, <1>7 DEF RequestType
<1>9. ~request[r].redis
  BY <1>2, <1>3 DEF Sound
<1>10. q.kind = "dispatch" /\ q.pc = "looking" => q.left > 0
  BY <1>2, <1>3, <1>5, <1>8 DEF Sound
<1>11. Sound(q)
  BY <1>2, <1>3, <1>5, <1>7, <1>8, <1>9, <1>10 DEF Sound
<1>12. Knows(q, db)
  BY <1>1 DEF Knows
<1>13. request' = [request EXCEPT ![r] = q]
  BY <1>1, <1>4, <1>6
<1>. QED BY <1>1, <1>3, <1>8, <1>9, <1>11, <1>12, <1>13, OneMoves

LEMMA FailureKeeps ==
  ASSUME PoolInv, NEW r \in Requests,
         CheckoutFails(r) \/ PoolTimeout(r) \/ StatementFails(r) \/ RowFails(r)
  PROVE  PoolInv'
<1>1. Sound(request[r]) /\ Knows(request[r], db)
  BY RequestSound
<1>2. CASE CheckoutFails(r)
  <2>1. Wants(r) /\ db = "down" /\ Raises(r, "dberror")
    BY <1>2, Zenon DEF CheckoutFails
  <2>2. loop = NoRequest /\ request[r].pc \in {"waiting", "refreshing"}
    BY <2>1, Free DEF Wants
  <2>3. request[r].outage
    BY <1>1, <2>1, <2>2 DEF Knows, Ends, Errors
  <2>. QED BY <2>1, <2>2, <2>3, RaisesKeeps
<1>3. CASE PoolTimeout(r)
  <2>1. Wants(r) /\ Raises(r, "poolerror")
    BY <1>3, Zenon DEF PoolTimeout
  <2>2. loop = NoRequest
    BY <2>1, Free DEF Wants
  <2>. QED BY <2>1, <2>2, RaisesKeeps
<1>4. CASE StatementFails(r)
  <2>1. loop = NoRequest /\ request[r].conn = "broken" /\ Raises(r, "dberror")
    BY <1>4, Zenon DEF StatementFails, At
  <2>2. request[r].outage
    BY <1>1, <2>1 DEF Sound
  <2>. QED BY <2>1, <2>2, RaisesKeeps
<1>5. CASE RowFails(r)
  <2>1. loop = NoRequest /\ Raises(r, "rowerror")
    BY <1>5, Zenon DEF RowFails, At
  <2>. QED BY <2>1, RaisesKeeps
<1>. QED BY <1>2, <1>3, <1>4, <1>5

\* A request moves on with what it has.
LEMMA Onward ==
  ASSUME PoolInv, NEW r \in Requests, NEW pc \in {"pinging", "limiting", "inserting", "ponging"},
         NEW redis \in BOOLEAN, NEW q, q = [request[r] EXCEPT !.pc = pc, !.redis = redis],
         request[r].pc \in {"looking", "limiting", "probing", "pinging", "inserting"},
         request[r].kind = "health" => pc \in {"pinging", "ponging"},
         pc \in {"limiting", "inserting"} => request[r].pc \in {"looking", "limiting"},
         redis => pc \in {"limiting", "ponging"}
  PROVE  Sound(q) /\ Knows(q, db) /\ q.redis = redis /\ q.conn = request[r].conn
<1>1. Sound(request[r]) /\ Knows(request[r], db) /\ request[r] \in RequestType
  BY RequestSound
<1>2. /\ q \in RequestType /\ q.pc = pc /\ q.conn = request[r].conn /\ q.redis = redis
      /\ q.kind = request[r].kind /\ q.left = request[r].left
      /\ q.outage = request[r].outage
  BY <1>1 DEF RequestType
<1>3. q.kind = "dispatch" /\ q.pc \in {"limiting", "inserting"} => q.left > 0
  BY <1>1, <1>2 DEF Sound
<1>4. Sound(q)
  BY <1>1, <1>2, <1>3 DEF Sound
<1>5. Knows(q, db)
  BY <1>1, <1>2 DEF Knows, Ends, Errors
<1>. QED BY <1>2, <1>4, <1>5

LEMMA TakesRedisKeeps ==
  ASSUME PoolInv, NEW r \in Requests, loop = NoRequest,
         NEW next \in {"limiting", "ponging"}, TakesRedis(r, next),
         next = "limiting" => request[r].pc = "looking",
         request[r].pc \in {"looking", "pinging"},
         request[r].kind = "health" => next = "ponging"
  PROVE  PoolInv'
<1>1. CASE Cardinality(OnRedis) < RedisSize
  <2>1. PICK q : q = [request[r] EXCEPT !.pc = next, !.redis = TRUE]
    OBVIOUS
  <2>2. Moves(r, q)
    BY <1>1, <2>1, Zenon DEF TakesRedis
  <2>3. Sound(q) /\ Knows(q, db) /\ q.conn = request[r].conn
    BY <2>1, Onward, ZenonT(60)
  <2>4. loop # r
    OBVIOUS
  <2>. QED BY <1>1, <2>2, <2>3, <2>4, MoveKeeps
<1>2. CASE ~(Cardinality(OnRedis) < RedisSize)
  <2>1. Raises(r, "rediserror")
    BY <1>2, Zenon DEF TakesRedis
  <2>. QED BY <2>1, RaisesKeeps
<1>. QED BY <1>1, <1>2

LEMMA LookupKeeps ==
  ASSUME PoolInv, NEW r \in Requests, Lookup(r)
  PROVE  PoolInv'
<1>1. /\ loop = NoRequest /\ loop # r /\ request[r].pc = "looking"
      /\ TakesRedis(r, "limiting") \/ (EndsWith(r, "refused") /\ loop' = loop)
  BY Zenon, Free DEF Lookup, At
<1>2. request[r].kind # "health"
  BY <1>1 DEF PoolInv, Sound
<1>3. "refused" \in Ends
  BY DEF Ends
<1>. QED BY <1>1, <1>2, <1>3, TakesRedisKeeps, EndKeeps

LEMMA LimitKeeps ==
  ASSUME PoolInv, NEW r \in Requests, Limit(r)
  PROVE  PoolInv'
<1>1. loop = NoRequest /\ loop # r /\ request[r].pc = "limiting"
  BY Free DEF Limit
<1>2. request[r].kind # "health" /\ "ok" \in Ends
  BY <1>1 DEF PoolInv, Sound, Ends
<1>3. \/ Moves(r, [request[r] EXCEPT !.pc = "inserting", !.redis = FALSE])
      \/ EndsWith(r, "ok") /\ UNCHANGED loop
      \/ Raises(r, "rediserror")
  BY Zenon DEF Limit
<1>4. CASE Moves(r, [request[r] EXCEPT !.pc = "inserting", !.redis = FALSE])
  <2>1. PICK q : q = [request[r] EXCEPT !.pc = "inserting", !.redis = FALSE]
    OBVIOUS
  <2>2. Sound(q) /\ Knows(q, db) /\ q.conn = request[r].conn /\ q.redis = FALSE
    BY <1>1, <1>2, <2>1, Onward
  <2>. QED BY <1>1, <1>4, <2>1, <2>2, MoveKeeps
<1>5. CASE EndsWith(r, "ok") /\ UNCHANGED loop
  BY <1>1, <1>2, <1>5, EndKeeps
<1>6. CASE Raises(r, "rediserror")
  BY <1>1, <1>6, RaisesKeeps
<1>. QED BY <1>3, <1>4, <1>5, <1>6

LEMMA InsertKeepsAll ==
  ASSUME PoolInv, NEW r \in Requests, Insert(r)
  PROVE  PoolInv'
<1>1. loop # r /\ request[r].pc = "inserting"
  BY Free DEF Insert
<1>2. PICK next, q : /\ next = [request[r] EXCEPT !.pc = "refreshing", !.left = @ - 1]
                     /\ q = [next EXCEPT !.conn = "none", !.redis = FALSE]
  OBVIOUS
<1>3. Sound(request[r]) /\ Knows(request[r], db) /\ request[r] \in RequestType
  BY RequestSound
<1>4. request[r].kind = "dispatch" /\ request[r].left > 0 /\ request[r].left \in 0..MaxTargets
  BY <1>1, <1>3 DEF Sound, RequestType
<1>5. PICK left \in 0..MaxTargets : left = request[r].left - 1
  BY <1>4
<1>6. q = [request[r] EXCEPT !.pc = "refreshing", !.left = left, !.conn = "none",
                             !.redis = FALSE]
  BY <1>2, <1>3, <1>5 DEF RequestType
<1>7. /\ q \in RequestType /\ q.pc = "refreshing" /\ q.conn = "none" /\ q.redis = FALSE
      /\ q.kind = "dispatch" /\ q.outage = request[r].outage
  BY <1>3, <1>4, <1>6 DEF RequestType
<1>8. Sound(q)
  BY <1>7 DEF Sound
<1>9. Knows(q, db)
  BY <1>1, <1>3, <1>7 DEF Knows, Ends, Errors
<1>10. GivesBack(r, next) /\ loop' = loop
  BY <1>2, Zenon DEF Insert
<1>. QED BY <1>1, <1>2, <1>7, <1>8, <1>9, <1>10, BackKeeps

LEMMA PublishKeeps ==
  ASSUME PoolInv, NEW r \in Requests, Publish(r)
  PROVE  PoolInv'
<1>1. request[r].pc = "publishing" /\ loop' = r /\ UNCHANGED <<db, idle, request>>
  BY Zenon DEF Publish, At
<1>2. Counted'
  BY <1>1 DEF PoolInv, Counted, Holding, OnRedis
<1>. QED BY <1>1, <1>2 DEF PoolInv

LEMMA PublishEndsKeeps ==
  ASSUME PoolInv, NEW r \in Requests, PublishEnds(r)
  PROVE  PoolInv'
<1>1. loop = r /\ loop' = NoRequest
  BY Zenon DEF PublishEnds
<1>2. Sound(request[r]) /\ Knows(request[r], db) /\ request[r] \in RequestType
  BY RequestSound
<1>3. request[r].pc = "publishing"
  BY <1>1 DEF PoolInv
<1>4. request[r].kind = "dispatch" /\ ~request[r].redis
  BY <1>2, <1>3 DEF Sound, RequestType
<1>5. CASE /\ request[r].left > 0
           /\ request' = [request EXCEPT ![r].pc = "inserting"]
           /\ UNCHANGED <<db, idle>>
  <2>1. PICK q : q = [request[r] EXCEPT !.pc = "inserting"]
    OBVIOUS
  <2>2. /\ q \in RequestType /\ q.pc = "inserting" /\ q.conn = request[r].conn
        /\ q.redis = FALSE /\ q.kind = "dispatch" /\ q.left = request[r].left
        /\ q.outage = request[r].outage
    BY <1>2, <1>4, <2>1 DEF RequestType
  <2>3. Sound(q)
    BY <1>2, <1>3, <1>5, <2>2 DEF Sound
  <2>4. Knows(q, db)
    BY <1>2, <1>3, <2>2 DEF Knows, Ends, Errors
  <2>5. request' = [request EXCEPT ![r] = q]
    BY <1>5, <2>1
  <2>. QED BY <1>1, <1>5, <2>2, <2>3, <2>4, <2>5, OneMoves
<1>6. ASSUME NEW end \in {"ok", "brokererror"}, EndsWith(r, end)
      PROVE  PoolInv'
  <2>1. end \in Ends /\ end # "dberror"
    BY DEF Ends, Errors
  <2>. QED BY <1>1, <1>4, <1>6, <2>1, EndKeeps
<1>7. \/ /\ request[r].left > 0
         /\ request' = [request EXCEPT ![r].pc = "inserting"]
         /\ UNCHANGED <<db, idle>>
      \/ EndsWith(r, "ok")
      \/ EndsWith(r, "brokererror")
  BY Zenon DEF PublishEnds
<1>. QED BY <1>5, <1>6, <1>7

LEMMA HealthKeeps ==
  ASSUME PoolInv, NEW r \in Requests, Probe(r) \/ Ping(r) \/ Pong(r)
  PROVE  PoolInv'
<1>1. CASE Probe(r)
  <2>1. loop # r /\ request[r].pc = "probing"
    BY <1>1, Free DEF Probe
  <2>2. Moves(r, [request[r] EXCEPT !.pc = "pinging"])
    BY <1>1, Zenon DEF Probe
  <2>3. Sound(request[r]) /\ request[r] \in RequestType
    BY RequestSound
  <2>4. ~request[r].redis
    BY <2>1, <2>3 DEF Sound
  <2>5. PICK q : q = [request[r] EXCEPT !.pc = "pinging", !.redis = FALSE]
    OBVIOUS
  <2>6. q = [request[r] EXCEPT !.pc = "pinging"]
    BY <2>3, <2>4, <2>5 DEF RequestType
  <2>7. Sound(q) /\ Knows(q, db) /\ q.conn = request[r].conn /\ q.redis = FALSE
    BY <2>1, <2>5, Onward, ZenonT(60)
  <2>. QED BY <2>1, <2>2, <2>6, <2>7, MoveKeeps
<1>2. CASE Ping(r)
  <2>1. loop = NoRequest /\ request[r].pc = "pinging" /\ TakesRedis(r, "ponging")
    BY <1>2, Zenon DEF Ping, At
  <2>. QED BY <2>1, TakesRedisKeeps
<1>3. CASE Pong(r)
  <2>1. loop = NoRequest /\ loop # r /\ "ok" \in Ends /\ "unwell" \in Ends
    BY <1>3, Free DEF Pong, Ends
  <2>2. \/ EndsWith(r, "unwell") /\ loop' = loop
        \/ EndsWith(r, "ok") /\ loop' = loop
        \/ Raises(r, "rediserror")
    BY <1>3, Zenon DEF Pong
  <2>3. CASE EndsWith(r, "unwell") /\ loop' = loop
    BY <2>1, <2>3, EndKeeps
  <2>4. CASE EndsWith(r, "ok") /\ loop' = loop
    BY <2>1, <2>4, EndKeeps
  <2>5. CASE Raises(r, "rediserror")
    BY <2>1, <2>5, RaisesKeeps
  <2>. QED BY <2>2, <2>3, <2>4, <2>5
<1>. QED BY <1>1, <1>2, <1>3

LEMMA DatabaseKeeps ==
  ASSUME PoolInv, DatabaseStops \/ DatabaseStarts
  PROVE  PoolInv'
<1>1. CASE DatabaseStarts
  <2>1. db' = "up" /\ UNCHANGED <<idle, request, loop>>
    BY <1>1, Zenon DEF DatabaseStarts
  <2>2. Counted'
    BY <2>1 DEF PoolInv, Counted, Holding, OnRedis
  <2>3. \A r \in Requests : Knows(request'[r], db')
    BY <2>1 DEF Knows
  <2>. QED BY <2>1, <2>2, <2>3 DEF PoolInv
<1>2. CASE DatabaseStops
  <2>1. /\ db' = "down" /\ loop' = loop
        /\ idle' = [live |-> 0, broken |-> idle.live + idle.broken]
        /\ request' = [r \in Requests |->
             IF ~Active(r) THEN request[r]
             ELSE [request[r] EXCEPT !.outage = TRUE,
                                     !.conn = IF @ = "none" THEN @ ELSE "broken"]]
    BY <1>2, Zenon DEF DatabaseStops
  <2>2. ASSUME NEW r \in Requests
        PROVE  /\ Sound(request'[r]) /\ Knows(request'[r], "down")
               /\ request'[r].conn = "none" <=> request[r].conn = "none"
               /\ request'[r].redis = request[r].redis /\ request'[r].pc = request[r].pc
    <3>1. Sound(request[r]) /\ request[r] \in RequestType
      BY RequestSound
    <3>2. CASE ~Active(r)
      <4>1. request'[r] = request[r]
        BY <2>1, <3>2
      <4>. QED BY <3>1, <3>2, <4>1 DEF Knows, Active
    <3>3. CASE Active(r)
      <4>1. PICK conn : conn = IF request[r].conn = "none" THEN "none" ELSE "broken"
        OBVIOUS
      <4>2. PICK q : q = [request[r] EXCEPT !.outage = TRUE, !.conn = conn]
        OBVIOUS
      <4>3. request'[r] = q
        BY <2>1, <3>1, <3>3, <4>1, <4>2 DEF RequestType
      <4>4. conn \in {"none", "broken"} /\ (conn = "none" <=> request[r].conn = "none")
        BY <4>1
      <4>5. /\ q \in RequestType /\ q.pc = request[r].pc /\ q.conn = conn
            /\ q.redis = request[r].redis /\ q.kind = request[r].kind
            /\ q.left = request[r].left /\ q.outage = TRUE
        BY <3>1, <4>2, <4>4 DEF RequestType
      <4>6. Sound(q)
        BY <3>1, <4>4, <4>5 DEF Sound
      <4>7. Knows(q, "down")
        BY <4>5 DEF Knows
      <4>. QED BY <4>3, <4>4, <4>5, <4>6, <4>7
    <3>. QED BY <3>2, <3>3
  <2>3. Holding' = Holding /\ OnRedis' = OnRedis
    BY <2>2 DEF Holding, OnRedis
  <2>4. /\ idle.live \in Nat /\ idle.broken \in Nat
        /\ idle' \in [live : Nat, broken : Nat]
        /\ idle'.live = 0 /\ idle'.broken = idle.live + idle.broken
    <3>1. idle.live \in Nat /\ idle.broken \in Nat
      BY DEF PoolInv
    <3>2. PICK n \in Nat : n = idle.live + idle.broken
      BY <3>1
    <3>3. idle' = [live |-> 0, broken |-> n]
      BY <2>1, <3>2
    <3>. QED BY <3>1, <3>2, <3>3
  <2>5. Counted'
    <3>1. Cardinality(Holding) + idle.live + idle.broken <= PoolSize
          /\ Cardinality(OnRedis) <= RedisSize
      BY DEF PoolInv, Counted
    <3>2. Cardinality(Holding') + idle'.live + idle'.broken <= PoolSize
      BY <2>3, <2>4, <3>1, FiniteParts
    <3>3. Cardinality(OnRedis') <= RedisSize
      BY <2>3, <3>1
    <3>. QED BY <3>2, <3>3 DEF Counted
  <2>6. request' \in [Requests -> RequestType]
    BY <2>1, <2>2 DEF Sound
  <2>. QED BY <2>1, <2>2, <2>4, <2>5, <2>6 DEF PoolInv
<1>. QED BY <1>1, <1>2

LEMMA Stopped ==
  ASSUME DatabaseStops
  PROVE  \A r \in Requests : Active(r)' => Active(r)
<1>1. request' = [r \in Requests |->
        IF ~Active(r) THEN request[r]
        ELSE [request[r] EXCEPT !.outage = TRUE,
                                !.conn = IF @ = "none" THEN @ ELSE "broken"]]
  BY Zenon DEF DatabaseStops
<1>2. ASSUME NEW r \in Requests, ~Active(r) PROVE ~Active(r)'
  <2>1. request'[r] = request[r]
    BY <1>1, <1>2
  <2>. QED BY <1>2, <2>1 DEF Active
<1>. QED BY <1>2

LEMMA DroppedKeeps ==
  ASSUME PoolInv, RequestsDropped
  PROVE  PoolInv' /\ \A r \in Requests : ~Active(r)'
<1>1. /\ db' = db /\ loop' = NoRequest /\ idle' = [live |-> 0, broken |-> 0]
      /\ request' = [r \in Requests |->
           IF Active(r) THEN [request[r] EXCEPT !.pc = "dropped", !.conn = "none",
                                                !.redis = FALSE]
           ELSE request[r]]
  BY Zenon DEF RequestsDropped
<1>2. ASSUME NEW r \in Requests
      PROVE  /\ Sound(request'[r]) /\ request'[r].pc \in Ends \cup {"unsent"}
             /\ request'[r].conn = "none" /\ ~request'[r].redis
  <2>1. Sound(request[r]) /\ request[r] \in RequestType
    BY RequestSound
  <2>2. CASE Active(r)
    <3>1. PICK q : q = [request[r] EXCEPT !.pc = "dropped", !.conn = "none", !.redis = FALSE]
      OBVIOUS
    <3>2. request'[r] = q
      BY <1>1, <2>2, <3>1
    <3>3. /\ q \in RequestType /\ q.pc = "dropped" /\ q.conn = "none" /\ q.redis = FALSE
          /\ q.kind = request[r].kind
      BY <2>1, <3>1 DEF RequestType, Ends
    <3>4. Sound(q)
      BY <3>3 DEF Sound
    <3>. QED BY <3>2, <3>3, <3>4 DEF Ends
  <2>3. CASE ~Active(r)
    <3>1. request'[r] = request[r] /\ request[r].pc \in Ends \cup {"unsent"}
      BY <1>1, <2>3 DEF Active
    <3>. QED BY <2>1, <3>1 DEF Sound, Ends, Errors
  <2>. QED BY <2>2, <2>3
<1>3. Holding' = {} /\ OnRedis' = {}
  BY <1>2 DEF Holding, OnRedis
<1>4. Counted'
  <2>1. Cardinality(Holding') = 0 /\ Cardinality(OnRedis') = 0
    BY <1>3, FS_EmptySet
  <2>2. idle'.live = 0 /\ idle'.broken = 0
    BY <1>1
  <2>. QED BY <2>1, <2>2 DEF Counted
<1>5. request' \in [Requests -> RequestType]
  BY <1>1, <1>2 DEF Sound
<1>6. \A r \in Requests : Knows(request'[r], db')
  BY <1>2 DEF Knows
<1>7. PoolInv'
  BY <1>1, <1>2, <1>4, <1>5, <1>6 DEF PoolInv
<1>. QED BY <1>2, <1>7 DEF Active

LEMMA ProgressKeeps ==
  ASSUME PoolInv, NEW r \in Requests, RequestProgress(r)
  PROVE  PoolInv'
<1>1. \/ Checkout(r) \/ CheckoutFails(r) \/ StatementFails(r) \/ RowFails(r)
      \/ Lookup(r) \/ Limit(r) \/ Insert(r) \/ Publish(r) \/ PublishEnds(r) \/ Probe(r) \/ Ping(r) \/ Pong(r)
  BY Zenon DEF RequestProgress
<1>. QED BY <1>1, CheckoutKeeps, FailureKeeps, LookupKeeps, LimitKeeps, InsertKeepsAll,
            PublishKeeps, PublishEndsKeeps, HealthKeeps

LEMMA StutterKeeps ==
  ASSUME PoolInv, UNCHANGED poolVars
  PROVE  PoolInv'
<1>1. UNCHANGED <<db, idle, request, loop>>
  BY DEF poolVars
<1>2. Counted'
  BY <1>1 DEF PoolInv, Counted, Holding, OnRedis
<1>. QED BY <1>1, <1>2 DEF PoolInv

----------------------------------------------------------------------------
(* The schema. *)

Objects == Tables \cup Columns

Runs == [pc   : {"idle", "running", "failed", "done"},
         plan : Seq(Objects), made : SUBSET Objects]

\* What a run that has begun to create may have left, and have made.
Stages(v) ==
  IF v = Base
    THEN {<< <<"api_keys", "webhook_endpoints", "webhook_delivery_logs",
               "users.full_name">>, {"users"}>>,
          << <<"webhook_endpoints", "webhook_delivery_logs", "users.full_name">>,
             {"users", "api_keys"}>>,
          << <<"webhook_delivery_logs", "users.full_name">>,
             {"users", "api_keys", "webhook_endpoints"}>>,
          << <<"users.full_name">>, Tables>>,
          << <<>>, Objects>>}
  ELSE IF v = Initial THEN {<< <<>>, Columns>>}
  ELSE {}

\* A run has not begun to create, and then it makes the plan of the version or has
\* come too late for its own; or it is the one that has.
OnPlan(run, v, present) ==
  \/ /\ run.made = {} /\ v = Newest
     /\ run.plan # <<>> => Head(run.plan) \in present
  \/ run.made = {} /\ v # Newest /\ run.plan = Plan(v)
  \/ <<run.plan, run.made>> \in Stages(v)

SchemaInv ==
  /\ version \in Versions /\ objects = ObjectsAt(version)
  /\ migration \in [Migrators -> Runs]
  /\ \A m \in Migrators : Running(m) => OnPlan(migration[m], version, objects)
  /\ \A m \in Migrators : ~Running(m) => migration[m].made = {}
  /\ \A m, n \in Migrators :
       migration[m].made # {} /\ migration[n].made # {} => m = n
  /\ \A m \in Migrators : migration[m].pc = "done" => version = Newest

LEMMA Distinct == Base # Initial /\ Base # Newest /\ Initial # Newest
  BY DEF Base, Initial, Newest

LEMMA Plans ==
  /\ Plan(Base) = <<"users", "api_keys", "webhook_endpoints", "webhook_delivery_logs",
                    "users.full_name">>
  /\ Plan(Initial) = <<"users.full_name">>
  /\ Plan(Newest) = <<>>
<1>1. Creates(Initial) = <<"users", "api_keys", "webhook_endpoints",
                           "webhook_delivery_logs">>
      /\ Creates(Newest) = <<"users.full_name">>
  BY Distinct DEF Creates
<1>2. Plan(Base) = Creates(Initial) \o Creates(Newest)
      /\ Plan(Initial) = Creates(Newest) /\ Plan(Newest) = <<>>
  BY Distinct, Zenon DEF Plan
<1>3. PICK s, e : /\ s = <<"users", "api_keys", "webhook_endpoints",
                          "webhook_delivery_logs">>
                  /\ e = "users.full_name"
  OBVIOUS
<1>4. s \in Seq(Objects) /\ e \in Objects
  BY <1>3 DEF Objects, Tables, Columns
<1>5. s \o <<e>> = Append(s, e)
  BY <1>4, AppendIsConcat
<1>6. Append(s, e) = <<"users", "api_keys", "webhook_endpoints", "webhook_delivery_logs",
                       "users.full_name">>
  <2>1. PICK t, a : /\ t = <<"users", "api_keys", "webhook_endpoints",
                             "webhook_delivery_logs", "users.full_name">>
                    /\ a = Append(s, e)
    OBVIOUS
  <2>2. /\ Len(s) = 4 /\ s[1] = "users" /\ s[2] = "api_keys"
        /\ s[3] = "webhook_endpoints" /\ s[4] = "webhook_delivery_logs"
    BY <1>3
  <2>3. /\ a \in Seq(Objects) /\ Len(a) = 5 /\ \A i \in 1..4 : a[i] = s[i]
        /\ a[5] = e
    <3>1. /\ a \in Seq(Objects) /\ Len(a) = Len(s) + 1
          /\ \A i \in 1..Len(s) : a[i] = s[i]
          /\ a[Len(s) + 1] = e
      BY <1>4, <2>1, AppendProperties
    <3>. QED BY <2>2, <3>1
  <2>4. /\ t \in Seq(Objects) /\ Len(t) = 5 /\ t[1] = "users" /\ t[2] = "api_keys"
        /\ t[3] = "webhook_endpoints" /\ t[4] = "webhook_delivery_logs"
        /\ t[5] = "users.full_name"
    BY <2>1 DEF Objects, Tables, Columns
  <2>5. \A i \in 1..Len(a) : a[i] = t[i]
    <3>1. a[1] = t[1] /\ a[2] = t[2] /\ a[3] = t[3] /\ a[4] = t[4] /\ a[5] = t[5]
      BY <1>3, <2>2, <2>3, <2>4
    <3>2. \A i \in 1..Len(a) : i = 1 \/ i = 2 \/ i = 3 \/ i = 4 \/ i = 5
      BY <2>3
    <3>. QED BY <3>1, <3>2
  <2>6. a = t
    BY <2>3, <2>4, <2>5, SeqEqual
  <2>. QED BY <2>1, <2>6
<1>. QED BY <1>1, <1>2, <1>3, <1>5, <1>6

LEMMA ObjectsOf ==
  /\ ObjectsAt(Base) = {} /\ ObjectsAt(Initial) = Tables /\ ObjectsAt(Newest) = Objects
  BY Distinct, Zenon DEF ObjectsAt, Objects

\* The first statement of a plan.
LEMMA FirstStatement ==
  ASSUME NEW v \in Versions, v # Newest
  PROVE  /\ Plan(v) \in Seq(Objects) /\ Plan(v) # <<>> /\ Head(Plan(v)) \in Objects
         /\ <<Tail(Plan(v)), {Head(Plan(v))}>> \in Stages(v)
         /\ \A s \in Stages(v) : Head(Plan(v)) \in s[2]
<1>1. CASE v = Base
  <2>1. PICK p : p = <<"users", "api_keys", "webhook_endpoints", "webhook_delivery_logs",
                       "users.full_name">>
    OBVIOUS
  <2>2. p \in Seq(Objects) /\ p # <<>> /\ Head(p) = "users"
    BY <2>1 DEF Objects, Tables, Columns
  <2>3. Tail(p) = <<"api_keys", "webhook_endpoints", "webhook_delivery_logs",
                    "users.full_name">>
    BY <2>1
  <2>4. "users" \in Objects /\ "users" \in Tables
    BY DEF Objects, Tables
  <2>5. <<Tail(p), {Head(p)}>> \in Stages(v)
    BY <1>1, <2>2, <2>3, Zenon DEF Stages
  <2>6. \A s \in Stages(v) : "users" \in s[2]
    BY <1>1, <2>4 DEF Stages
  <2>. QED BY <1>1, <2>1, <2>2, <2>4, <2>5, <2>6, Plans
<1>2. CASE v = Initial
  <2>1. PICK p : p = <<"users.full_name">>
    OBVIOUS
  <2>2. p \in Seq(Objects) /\ p # <<>> /\ Head(p) = "users.full_name"
    BY <2>1 DEF Objects, Columns
  <2>3. Tail(p) = <<>>
    BY <2>1
  <2>4. "users.full_name" \in Objects /\ {"users.full_name"} = Columns
    BY DEF Objects, Columns
  <2>5. Stages(v) = {<< <<>>, Columns>>}
    BY <1>2, Distinct DEF Stages
  <2>. QED BY <1>2, <2>1, <2>2, <2>3, <2>4, <2>5, Plans
<1>. QED BY <1>1, <1>2 DEF Versions

\* The next statement of a plan.
LEMMA NextStatement ==
  ASSUME NEW v, NEW plan, NEW made, <<plan, made>> \in Stages(v), plan # <<>>
  PROVE  <<Tail(plan), made \cup {Head(plan)}>> \in Stages(v)
<1>1. v = Base
  BY Distinct DEF Stages
<1>2. CASE /\ plan = <<"api_keys", "webhook_endpoints", "webhook_delivery_logs",
                       "users.full_name">>
           /\ made = {"users"}
  <2>1. Head(plan) = "api_keys"
        /\ Tail(plan) = <<"webhook_endpoints", "webhook_delivery_logs", "users.full_name">>
    BY <1>2
  <2>2. made \cup {"api_keys"} = {"users", "api_keys"}
    BY <1>2
  <2>. QED BY <1>1, <2>1, <2>2, Zenon DEF Stages
<1>3. CASE /\ plan = <<"webhook_endpoints", "webhook_delivery_logs", "users.full_name">>
           /\ made = {"users", "api_keys"}
  <2>1. Head(plan) = "webhook_endpoints"
        /\ Tail(plan) = <<"webhook_delivery_logs", "users.full_name">>
    BY <1>3
  <2>2. made \cup {"webhook_endpoints"} = {"users", "api_keys", "webhook_endpoints"}
    BY <1>3
  <2>. QED BY <1>1, <2>1, <2>2, Zenon DEF Stages
<1>4. CASE /\ plan = <<"webhook_delivery_logs", "users.full_name">>
           /\ made = {"users", "api_keys", "webhook_endpoints"}
  <2>1. Head(plan) = "webhook_delivery_logs" /\ Tail(plan) = <<"users.full_name">>
    BY <1>4
  <2>2. made \cup {"webhook_delivery_logs"} = Tables
    BY <1>4 DEF Tables
  <2>. QED BY <1>1, <2>1, <2>2, Zenon DEF Stages
<1>5. CASE plan = <<"users.full_name">> /\ made = Tables
  <2>1. Head(plan) = "users.full_name" /\ Tail(plan) = <<>>
    BY <1>5
  <2>2. made \cup {"users.full_name"} = Objects
    BY <1>5 DEF Objects, Columns
  <2>. QED BY <1>1, <2>1, <2>2, Zenon DEF Stages
<1>. QED BY <1>1, <1>2, <1>3, <1>4, <1>5 DEF Stages

LEMMA LastStatement ==
  ASSUME NEW v, NEW made, << <<>>, made>> \in Stages(v)
  PROVE  ObjectsAt(v) \cup made = ObjectsAt(Newest) /\ v # Newest
<1>1. CASE v = Base
  BY <1>1, ObjectsOf, Distinct DEF Stages
<1>2. CASE v = Initial
  <2>1. made = Columns
    BY <1>2, Distinct DEF Stages
  <2>. QED BY <1>2, <2>1, ObjectsOf, Distinct DEF Objects
<1>3. v = Base \/ v = Initial
  BY DEF Stages
<1>. QED BY <1>1, <1>2, <1>3

LEMMA StageTypes ==
  ASSUME NEW v, NEW s \in Stages(v)
  PROVE  s[1] \in Seq(Objects) /\ s[2] \in SUBSET Objects /\ s[2] # {} /\ v # Newest
<1>1. CASE v = Base
  <2>1. /\ <<"api_keys", "webhook_endpoints", "webhook_delivery_logs",
             "users.full_name">> \in Seq(Objects)
        /\ <<"webhook_endpoints", "webhook_delivery_logs", "users.full_name">> \in Seq(Objects)
        /\ <<"webhook_delivery_logs", "users.full_name">> \in Seq(Objects)
        /\ <<"users.full_name">> \in Seq(Objects)
        /\ <<>> \in Seq(Objects)
    BY DEF Objects, Tables, Columns
  <2>2. /\ {"users"} \subseteq Objects /\ {"users", "api_keys"} \subseteq Objects
        /\ {"users", "api_keys", "webhook_endpoints"} \subseteq Objects
        /\ Tables \subseteq Objects /\ "users" \in Tables /\ "users" \in Objects
    BY DEF Objects, Tables
  <2>3. \/ s = << <<"api_keys", "webhook_endpoints", "webhook_delivery_logs",
                   "users.full_name">>, {"users"}>>
        \/ s = << <<"webhook_endpoints", "webhook_delivery_logs", "users.full_name">>,
                 {"users", "api_keys"}>>
        \/ s = << <<"webhook_delivery_logs", "users.full_name">>,
                 {"users", "api_keys", "webhook_endpoints"}>>
        \/ s = << <<"users.full_name">>, Tables>>
        \/ s = << <<>>, Objects>>
    BY <1>1, Zenon DEF Stages
  <2>4. ASSUME NEW p \in Seq(Objects), NEW m \in SUBSET Objects, m # {}, s = <<p, m>>
        PROVE  s[1] \in Seq(Objects) /\ s[2] \in SUBSET Objects /\ s[2] # {}
    BY <2>4
  <2>5. /\ {"users"} # {} /\ {"users", "api_keys"} # {} /\ Tables # {} /\ Objects # {}
        /\ {"users", "api_keys", "webhook_endpoints"} # {}
    BY <2>2
  <2>6. s[1] \in Seq(Objects) /\ s[2] \in SUBSET Objects /\ s[2] # {}
    BY <2>1, <2>2, <2>3, <2>4, <2>5
  <2>. QED BY <1>1, <2>6, Distinct
<1>2. CASE v = Initial
  <2>1. s = << <<>>, Columns>>
    BY <1>2, Distinct DEF Stages
  <2>2. Columns \subseteq Objects /\ Columns # {} /\ <<>> \in Seq(Objects)
    BY DEF Objects, Columns
  <2>. QED BY <1>2, <2>1, <2>2, Distinct
<1>3. v = Base \/ v = Initial
  BY DEF Stages
<1>. QED BY <1>1, <1>2, <1>3

LEMMA NoRunType == NoRun \in Runs /\ NoRun.made = {} /\ NoRun.pc = "idle"
<1>1. <<>> \in Seq(Objects)
  OBVIOUS
<1>. QED BY <1>1 DEF NoRun, Runs

LEMMA RunKnown ==
  ASSUME SchemaInv, NEW m \in Migrators
  PROVE  /\ migration[m] \in Runs /\ (Running(m) => OnPlan(migration[m], version, objects))
         /\ ~Running(m) => migration[m].made = {}
  BY DEF SchemaInv

LEMMA SchemaInit ==
  ASSUME MigrationsInit
  PROVE  SchemaInv
<1>1. version \in Versions /\ objects = ObjectsAt(version)
  BY DEF MigrationsInit, Versions
<1>2. \A m \in Migrators : migration[m] = NoRun
  BY Zenon DEF MigrationsInit
<1>3. migration \in [Migrators -> Runs]
  BY NoRunType DEF MigrationsInit
<1>. QED BY <1>1, <1>2, <1>3, NoRunType DEF SchemaInv, Running

\* A run changes while the schema stays.
LEMMA RunMoves ==
  ASSUME SchemaInv, UNCHANGED <<objects, version>>, NEW m \in Migrators, NEW run \in Runs,
         migration' = [migration EXCEPT ![m] = run],
         run.pc = "running" => OnPlan(run, version, objects),
         run.pc # "running" => run.made = {},
         run.pc = "done" => version = Newest,
         run.made # {} => \A n \in Migrators : n # m => migration[n].made = {}
  PROVE  SchemaInv'
<1>1. \A n \in Migrators : migration'[n] = IF n = m THEN run ELSE migration[n]
  BY DEF SchemaInv
<1>2. migration' \in [Migrators -> Runs]
  BY DEF SchemaInv
<1>3. \A n \in Migrators : Running(n)' => OnPlan(migration'[n], version', objects')
  BY <1>1 DEF SchemaInv, Running, OnPlan
<1>4. \A n \in Migrators : ~Running(n)' => migration'[n].made = {}
  BY <1>1 DEF SchemaInv, Running
<1>5. \A k, n \in Migrators : migration'[k].made # {} /\ migration'[n].made # {} => k = n
  BY <1>1 DEF SchemaInv
<1>6. \A n \in Migrators : migration'[n].pc = "done" => version = Newest
  BY <1>1 DEF SchemaInv
<1>. QED BY <1>2, <1>3, <1>4, <1>5, <1>6 DEF SchemaInv

LEMMA BeginKeeps ==
  ASSUME SchemaInv, NEW m \in Migrators, BeginMigration(m)
  PROVE  SchemaInv'
<1>1. PICK run : run = [pc |-> "running", plan |-> Plan(version), made |-> {}]
  OBVIOUS
<1>2. migration' = [migration EXCEPT ![m] = run] /\ UNCHANGED <<objects, version>>
  BY <1>1, Zenon DEF BeginMigration
<1>3. Plan(version) \in Seq(Objects)
  <2>1. CASE version = Newest
    <3>1. <<>> \in Seq(Objects)
      OBVIOUS
    <3>. QED BY <2>1, <3>1, Plans, Zenon
  <2>2. CASE version # Newest
    BY <2>2, FirstStatement DEF SchemaInv
  <2>. QED BY <2>1, <2>2
<1>4. run \in Runs /\ run.pc = "running" /\ run.made = {} /\ run.plan = Plan(version)
  BY <1>1, <1>3 DEF Runs
<1>5. OnPlan(run, version, objects)
  BY <1>4, Plans, Zenon DEF OnPlan
<1>. QED BY <1>2, <1>4, <1>5, RunMoves

LEMMA StatementKeeps ==
  ASSUME SchemaInv, NEW m \in Migrators, Statement(m)
  PROVE  SchemaInv'
<1>1. PICK old : old = migration[m]
  OBVIOUS
<1>2. PICK object : object = Head(old.plan)
  OBVIOUS
<1>3. /\ Running(m) /\ old.plan # <<>>
      /\ \A n \in Migrators : n # m => object \notin migration[n].made
      /\ UNCHANGED <<objects, version>>
  BY <1>1, <1>2, Zenon DEF Statement
<1>4. old \in Runs /\ old.pc = "running" /\ OnPlan(old, version, objects) /\ old.plan \in Seq(Objects)
  BY <1>1, <1>3 DEF SchemaInv, Running, Runs
<1>5. CASE ~Possible(m, object)
  <2>1. PICK run : run = [NoRun EXCEPT !.pc = "failed"]
    OBVIOUS
  <2>2. migration' = [migration EXCEPT ![m] = run]
    BY <1>1, <1>2, <1>5, <2>1, Zenon DEF Statement, RunAfter
  <2>3. run \in Runs /\ run.pc = "failed" /\ run.made = {}
    BY <2>1, NoRunType DEF Runs
  <2>. QED BY <1>3, <2>2, <2>3, RunMoves
<1>6. CASE Possible(m, object)
  <2>1. PICK run : run = [old EXCEPT !.plan = Tail(old.plan), !.made = old.made \cup {object}]
    OBVIOUS
  <2>2. migration' = [migration EXCEPT ![m] = run]
    <3>1. migration' = [migration EXCEPT ![m] = RunAfter(m, object)]
      BY <1>1, <1>2, Zenon DEF Statement
    <3>2. RunAfter(m, object) = run
      BY <1>1, <1>6, <2>1 DEF RunAfter
    <3>. QED BY <3>1, <3>2
  <2>3. object \notin objects
    BY <1>6 DEF Possible
  <2>4. <<Tail(old.plan), old.made \cup {object}>> \in Stages(version)
    <3>1. CASE old.made = {} /\ version # Newest /\ old.plan = Plan(version)
      BY <1>2, <3>1, FirstStatement DEF SchemaInv
    <3>2. CASE <<old.plan, old.made>> \in Stages(version)
      BY <1>2, <1>3, <3>2, NextStatement
    <3>. QED BY <1>2, <1>3, <1>4, <2>3, <3>1, <3>2 DEF OnPlan
  <2>5. /\ Tail(old.plan) \in Seq(Objects) /\ old.made \cup {object} \in SUBSET Objects
        /\ version # Newest
    <3>1. PICK s : s = <<Tail(old.plan), old.made \cup {object}>>
      OBVIOUS
    <3>2. s[1] = Tail(old.plan) /\ s[2] = old.made \cup {object}
      BY <3>1
    <3>. QED BY <2>4, <3>1, <3>2, StageTypes
  <2>6. /\ run \in Runs /\ run.pc = "running" /\ run.plan = Tail(old.plan)
        /\ run.made = old.made \cup {object}
    BY <1>4, <2>1, <2>5 DEF Runs
  <2>7. OnPlan(run, version, objects)
    BY <2>4, <2>6 DEF OnPlan
  <2>8. \A n \in Migrators : n # m => migration[n].made = {}
    <3>1. CASE old.made # {}
      BY <1>1, <3>1 DEF SchemaInv
    <3>2. CASE old.made = {}
      <4>1. ASSUME NEW v, NEW p, <<p, {}>> \in Stages(v) PROVE FALSE
        <5>1. PICK s : s = <<p, {}>>
          OBVIOUS
        <5>2. s[2] = {}
          BY <5>1
        <5>. QED BY <4>1, <5>1, <5>2, StageTypes
      <4>2. old.plan = Plan(version)
        BY <1>4, <2>5, <3>2, <4>1 DEF OnPlan
      <4>3. \A s \in Stages(version) : object \in s[2]
        BY <1>2, <2>5, <4>2, FirstStatement DEF SchemaInv
      <4>4. ASSUME NEW n \in Migrators, n # m, migration[n].made # {}
            PROVE  FALSE
        <5>1. Running(n) /\ OnPlan(migration[n], version, objects)
          BY <4>4 DEF SchemaInv
        <5>2. <<migration[n].plan, migration[n].made>> \in Stages(version)
          BY <4>4, <5>1 DEF OnPlan
        <5>3. PICK s : s = <<migration[n].plan, migration[n].made>>
          OBVIOUS
        <5>4. s[2] = migration[n].made
          BY <5>3
        <5>. QED BY <1>3, <4>3, <4>4, <5>2, <5>3, <5>4
      <4>. QED BY <4>4
    <3>. QED BY <3>1, <3>2
  <2>. QED BY <1>3, <2>2, <2>6, <2>7, <2>8, RunMoves
<1>. QED BY <1>5, <1>6

LEMMA CommitKeeps ==
  ASSUME SchemaInv, NEW m \in Migrators, CommitMigration(m)
  PROVE  SchemaInv' /\ version' = Newest
<1>1. PICK old, run : old = migration[m] /\ run = [NoRun EXCEPT !.pc = "done"]
  OBVIOUS
<1>2. /\ Running(m) /\ old.plan = <<>> /\ objects' = objects \cup old.made
      /\ version' = Newest /\ migration' = [migration EXCEPT ![m] = run]
  BY <1>1, Zenon DEF CommitMigration
<1>3. run \in Runs /\ run.pc = "done" /\ run.made = {}
  BY <1>1, NoRunType DEF Runs
<1>4. old \in Runs /\ OnPlan(old, version, objects)
  BY <1>1, <1>2 DEF SchemaInv
<1>5. \A n \in Migrators : migration'[n] = IF n = m THEN run ELSE migration[n]
  BY <1>2 DEF SchemaInv
<1>6. migration' \in [Migrators -> Runs]
  BY <1>2, <1>3 DEF SchemaInv
<1>7. /\ objects' = ObjectsAt(Newest)
      /\ \A n \in Migrators : n # m /\ Running(n) =>
           /\ migration[n].made = {}
           /\ migration[n].plan # <<>> => Head(migration[n].plan) \in ObjectsAt(Newest)
  <2>1. CASE version = Newest
    <3>1. old.made = {}
      <4>1. <<old.plan, old.made>> \notin Stages(version)
        BY <2>1, StageTypes
      <4>. QED BY <1>4, <2>1, <4>1 DEF OnPlan
    <3>2. objects' = ObjectsAt(Newest)
      BY <1>2, <2>1, <3>1 DEF SchemaInv
    <3>3. ASSUME NEW n \in Migrators, Running(n)
          PROVE  /\ migration[n].made = {}
                 /\ migration[n].plan # <<>> => Head(migration[n].plan) \in ObjectsAt(Newest)
      <4>1. OnPlan(migration[n], version, objects) /\ objects = ObjectsAt(Newest)
        BY <2>1, <3>3 DEF SchemaInv
      <4>2. <<migration[n].plan, migration[n].made>> \notin Stages(version)
        BY <2>1, StageTypes
      <4>. QED BY <2>1, <4>1, <4>2 DEF OnPlan
    <3>. QED BY <3>2, <3>3
  <2>2. CASE version # Newest
    <3>1. version \in Versions /\ Plan(version) # <<>>
          /\ Head(Plan(version)) \in ObjectsAt(Newest)
      BY <2>2, FirstStatement, ObjectsOf DEF SchemaInv
    <3>2. << <<>>, old.made>> \in Stages(version)
      BY <1>2, <1>4, <2>2, <3>1 DEF OnPlan
    <3>3. objects' = ObjectsAt(Newest)
      BY <1>2, <3>2, LastStatement DEF SchemaInv
    <3>4. old.made # {}
      <4>1. PICK s : s = << <<>>, old.made>>
        OBVIOUS
      <4>2. s[2] = old.made
        BY <4>1
      <4>. QED BY <3>2, <4>1, <4>2, StageTypes
    <3>5. ASSUME NEW n \in Migrators, n # m, Running(n)
          PROVE  /\ migration[n].made = {}
                 /\ migration[n].plan # <<>> => Head(migration[n].plan) \in ObjectsAt(Newest)
      <4>1. OnPlan(migration[n], version, objects) /\ migration[n].made = {}
        BY <1>1, <3>4, <3>5 DEF SchemaInv
      <4>2. <<migration[n].plan, migration[n].made>> \notin Stages(version)
        <5>1. PICK s : s = <<migration[n].plan, migration[n].made>>
          OBVIOUS
        <5>2. s[2] = {}
          BY <4>1, <5>1
        <5>. QED BY <5>1, <5>2, StageTypes
      <4>3. migration[n].plan = Plan(version)
        BY <2>2, <4>1, <4>2 DEF OnPlan
      <4>. QED BY <3>1, <4>1, <4>3
    <3>. QED BY <3>3, <3>5
  <2>. QED BY <2>1, <2>2
<1>8. \A n \in Migrators : Running(n)' => OnPlan(migration'[n], version', objects')
  BY <1>2, <1>3, <1>5, <1>7 DEF Running, OnPlan
<1>9. \A n \in Migrators : migration'[n].made = {}
  BY <1>3, <1>5, <1>7, RunKnown
<1>10. version' \in Versions /\ objects' = ObjectsAt(version')
  BY <1>2, <1>7 DEF Versions
<1>. QED BY <1>2, <1>6, <1>8, <1>9, <1>10 DEF SchemaInv

\* Runs end without a trace.
LEMMA RunsEnd ==
  ASSUME SchemaInv, UNCHANGED <<objects, version>>,
         migration' \in [Migrators -> Runs],
         \A n \in Migrators : \/ migration'[n] = migration[n]
                              \/ /\ migration'[n].pc \notin {"running", "done"}
                                 /\ migration'[n].made = {}
  PROVE  SchemaInv'
<1>1. \A n \in Migrators : Running(n)' => OnPlan(migration'[n], version', objects')
  BY DEF SchemaInv, Running, OnPlan
<1>2. \A n \in Migrators : ~Running(n)' => migration'[n].made = {}
  BY DEF SchemaInv, Running
<1>3. \A k, n \in Migrators : migration'[k].made # {} /\ migration'[n].made # {} => k = n
  BY DEF SchemaInv
<1>4. \A n \in Migrators : migration'[n].pc = "done" => version = Newest
  BY DEF SchemaInv
<1>. QED BY <1>1, <1>2, <1>3, <1>4 DEF SchemaInv

LEMMA ResetKeeps ==
  ASSUME SchemaInv, UNCHANGED <<objects, version>>,
         migration' = [migration EXCEPT ![Api] = NoRun]
  PROVE  SchemaInv'
<1>1. migration' \in [Migrators -> Runs]
  BY NoRunType DEF SchemaInv
<1>2. \A n \in Migrators : migration'[n] = migration[n] \/ migration'[n] = NoRun
  BY DEF SchemaInv
<1>. QED BY <1>1, <1>2, NoRunType, RunsEnd

LEMMA SchemaStays ==
  ASSUME SchemaInv, UNCHANGED schemaVars
  PROVE  SchemaInv'
<1>1. UNCHANGED <<objects, version, migration>>
  BY DEF schemaVars
<1>. QED BY <1>1, RunsEnd DEF SchemaInv

----------------------------------------------------------------------------
(* The containers. *)

\* Who serves has migrated, and who has not serves nobody.
ApiInv ==
  /\ api \in {"down", "migrating", "serving"} /\ faults \in 0..MaxFaults
  /\ api = "serving" => version = Newest
  /\ \A r \in Requests : Active(r) => api = "serving"

Inv == SchemaInv /\ PoolInv /\ ApiInv

LEMMA InvInit ==
  ASSUME Init
  PROVE  Inv
<1>1. MigrationsInit /\ ConnectionsInit /\ api = "down" /\ faults = 0
  BY Zenon DEF Init
<1>2. \A r \in Requests : ~Active(r)
  BY <1>1 DEF ConnectionsInit, Active, Unsent
<1>3. ApiInv
  BY <1>1, <1>2 DEF ApiInv
<1>. QED BY <1>1, <1>3, SchemaInit, PoolInit DEF Inv

\* A step that is the API's, or nobody's, leaves the requests where they are.
LEMMA ApiStays ==
  ASSUME Inv, UNCHANGED <<request, api, faults>>, version' = version \/ version' = Newest
  PROVE  ApiInv'
<1>1. \A r \in Requests : Active(r)' => Active(r)
  BY DEF Active
<1>. QED BY <1>1 DEF Inv, ApiInv

LEMMA InvNext ==
  ASSUME Inv, [Next]_vars
  PROVE  Inv'
<1>1. SchemaInv /\ PoolInv /\ ApiInv
  BY DEF Inv
<1>2. CASE StartApi
  <2>1. /\ api = "down" /\ api' = "migrating" /\ BeginMigration(Api)
        /\ UNCHANGED poolVars /\ faults' = faults
    BY <1>2, Zenon DEF StartApi
  <2>2. SchemaInv' /\ PoolInv'
    BY <1>1, <2>1, BeginKeeps, StutterKeeps
  <2>3. \A r \in Requests : ~Active(r)'
    BY <1>1, <2>1 DEF ApiInv, Active, poolVars
  <2>. QED BY <1>1, <2>1, <2>2, <2>3 DEF Inv, ApiInv
<1>3. CASE Serve
  <2>1. /\ migration[Api].pc = "done" /\ api' = "serving"
        /\ migration' = [migration EXCEPT ![Api] = NoRun]
        /\ UNCHANGED <<objects, version, faults>> /\ UNCHANGED poolVars
    BY <1>3, Zenon DEF Serve
  <2>2. SchemaInv' /\ PoolInv'
    BY <1>1, <2>1, ResetKeeps, StutterKeeps
  <2>3. version = Newest
    BY <1>1, <2>1 DEF SchemaInv
  <2>. QED BY <1>1, <2>1, <2>2, <2>3 DEF Inv, ApiInv
<1>4. CASE MigrationFailed
  <2>1. /\ api = "migrating" /\ api' = "down"
        /\ migration' = [migration EXCEPT ![Api] = NoRun]
        /\ UNCHANGED <<objects, version, faults>> /\ UNCHANGED poolVars
    BY <1>4, Zenon DEF MigrationFailed
  <2>2. SchemaInv' /\ PoolInv'
    BY <1>1, <2>1, ResetKeeps, StutterKeeps
  <2>3. \A r \in Requests : ~Active(r)'
    BY <1>1, <2>1 DEF ApiInv, Active, poolVars
  <2>. QED BY <1>1, <2>1, <2>2, <2>3 DEF Inv, ApiInv
<1>5. CASE ApiDies
  <2>1. /\ Fault /\ api' = "down" /\ migration' = [migration EXCEPT ![Api] = NoRun]
        /\ RequestsDropped /\ UNCHANGED <<objects, version>>
    BY <1>5, Zenon DEF ApiDies
  <2>2. SchemaInv' /\ PoolInv' /\ \A r \in Requests : ~Active(r)'
    BY <1>1, <2>1, ResetKeeps, DroppedKeeps
  <2>3. faults' \in 0..MaxFaults
    BY <1>1, <2>1 DEF ApiInv, Fault
  <2>. QED BY <2>1, <2>2, <2>3 DEF Inv, ApiInv
<1>6. CASE DatabaseFails
  <2>1. /\ Fault /\ DatabaseStops /\ UNCHANGED <<objects, version, api>>
        /\ migration' = [m \in Migrators |->
             IF Running(m) THEN [NoRun EXCEPT !.pc = "failed"] ELSE migration[m]]
    BY <1>6, Zenon DEF DatabaseFails
  <2>2. PoolInv'
    BY <1>1, <2>1, DatabaseKeeps
  <2>3. PICK gone : gone = [NoRun EXCEPT !.pc = "failed"]
    OBVIOUS
  <2>4. gone \in Runs /\ gone.pc = "failed" /\ gone.made = {}
    BY <2>3, NoRunType DEF Runs
  <2>5. migration' = [m \in Migrators |-> IF Running(m) THEN gone ELSE migration[m]]
    BY <2>1, <2>3, Zenon
  <2>6. /\ migration' \in [Migrators -> Runs]
        /\ \A n \in Migrators : migration'[n] = migration[n] \/ migration'[n] = gone
    BY <1>1, <2>4, <2>5 DEF SchemaInv
  <2>7. SchemaInv'
    BY <1>1, <2>1, <2>4, <2>6, RunsEnd
  <2>8. \A r \in Requests : Active(r)' => Active(r)
    BY <2>1, Stopped
  <2>9. faults' \in 0..MaxFaults
    BY <1>1, <2>1 DEF ApiInv, Fault
  <2>. QED BY <1>1, <2>1, <2>2, <2>7, <2>8, <2>9 DEF Inv, ApiInv
<1>7. CASE DatabaseReturns
  <2>1. DatabaseStarts /\ UNCHANGED <<request, api, faults>> /\ UNCHANGED schemaVars
    BY <1>7, Zenon DEF DatabaseReturns, DatabaseStarts
  <2>2. SchemaInv' /\ PoolInv'
    BY <1>1, <2>1, SchemaStays, DatabaseKeeps
  <2>3. version' = version
    BY <2>1 DEF schemaVars
  <2>. QED BY <2>1, <2>2, <2>3, ApiStays DEF Inv
<1>8. ASSUME NEW m \in Migrators, Migrate(m)
      PROVE  Inv'
  <2>1. BeginMigration(m) /\ UNCHANGED <<api, faults>> /\ UNCHANGED poolVars
    BY <1>8, Zenon DEF Migrate
  <2>2. version' = version /\ request' = request
    BY <2>1, Zenon DEF BeginMigration, poolVars
  <2>. QED BY <1>1, <2>1, <2>2, BeginKeeps, StutterKeeps, ApiStays DEF Inv
<1>9. ASSUME NEW m \in Migrators, MigrationSteps(m)
      PROVE  Inv'
  <2>1. (Statement(m) \/ CommitMigration(m)) /\ UNCHANGED <<api, faults>> /\ UNCHANGED poolVars
    BY <1>9, Zenon DEF MigrationSteps, MigrationStep
  <2>2. version' = version \/ version' = Newest
    BY <2>1, Zenon DEF Statement, CommitMigration
  <2>3. request' = request
    BY <2>1 DEF poolVars
  <2>. QED BY <1>1, <2>1, <2>2, <2>3, StatementKeeps, CommitKeeps, StutterKeeps, ApiStays
           DEF Inv
<1>10. ASSUME NEW r \in Requests, api = "serving",
              RequestProgress(r) \/ Send(r) \/ PoolTimeout(r),
              UNCHANGED <<api, faults>>, UNCHANGED schemaVars
       PROVE  Inv'
  <2>1. PoolInv'
    BY <1>1, <1>10, ProgressKeeps, SendKeeps, FailureKeeps
  <2>2. SchemaInv' /\ version' = version
    BY <1>1, <1>10, SchemaStays DEF schemaVars
  <2>. QED BY <1>1, <1>10, <2>1, <2>2 DEF Inv, ApiInv
<1>11. CASE UNCHANGED vars
  <2>1. UNCHANGED schemaVars /\ UNCHANGED poolVars /\ UNCHANGED <<api, faults>>
    BY <1>11, Zenon DEF vars
  <2>2. version' = version /\ request' = request
    BY <2>1 DEF schemaVars, poolVars
  <2>. QED BY <1>1, <2>1, <2>2, SchemaStays, StutterKeeps, ApiStays DEF Inv
<1>12. ASSUME NEW r \in Requests,
              \/ Handle(r)
              \/ /\ api = "serving" /\ (Send(r) \/ PoolTimeout(r))
                 /\ UNCHANGED <<schemaVars, api, faults>>
       PROVE  Inv'
  <2>1. CASE Handle(r)
    BY <1>10, <2>1, Zenon DEF Handle
  <2>2. CASE /\ api = "serving" /\ (Send(r) \/ PoolTimeout(r))
             /\ UNCHANGED <<schemaVars, api, faults>>
    BY <1>10, <2>2, Zenon
  <2>. QED BY <1>12, <2>1, <2>2
<1>13. \/ StartApi \/ Serve \/ MigrationFailed \/ ApiDies \/ DatabaseFails
       \/ DatabaseReturns \/ UNCHANGED vars
       \/ \E m \in Migrators : Migrate(m) \/ MigrationSteps(m)
       \/ \E r \in Requests :
            \/ Handle(r)
            \/ /\ api = "serving" /\ (Send(r) \/ PoolTimeout(r))
               /\ UNCHANGED <<schemaVars, api, faults>>
  BY Zenon DEF Next
<1>. QED BY <1>2, <1>3, <1>4, <1>5, <1>6, <1>7, <1>8, <1>9, <1>11, <1>12, <1>13, Zenon

LEMMA InvHolds == Spec => []Inv
  BY InvInit, InvNext, PTL DEF Spec

----------------------------------------------------------------------------
(* The theorems. *)

\* Every variable has its type.
THEOREM TypeCorrect == Spec => []TypeOK
<1>1. ASSUME Inv PROVE TypeOK
  <2>1. MigrationsType
    <3>1. version \in Versions /\ objects = ObjectsAt(version)
          /\ migration \in [Migrators -> Runs]
      BY <1>1 DEF Inv, SchemaInv
    <3>2. objects \subseteq Objects
      BY <3>1, ObjectsOf DEF Versions, Objects
    <3>3. ASSUME NEW m \in Migrators
          PROVE  /\ migration[m].pc \in {"idle", "running", "failed", "done"}
                 /\ migration[m].made \subseteq Objects
                 /\ migration[m].plan \in Seq(Objects)
      BY <3>1 DEF Runs
    <3>. QED BY <3>1, <3>2, <3>3 DEF MigrationsType, Objects
  <2>2. ConnectionsType /\ api \in {"down", "migrating", "serving"} /\ faults \in 0..MaxFaults
    BY <1>1, PoolInvPromises DEF Inv, ApiInv
  <2>. QED BY <2>1, <2>2 DEF TypeOK
<1>. QED BY <1>1, InvHolds, PTL

\* However many migrate at once, and whatever dies on the way, the database has
\* exactly the objects of the version it says it has.
THEOREM OneRevision == Spec => []SchemaIsARevision
<1>1. Inv => SchemaIsARevision
  BY DEF Inv, SchemaInv, SchemaIsARevision
<1>. QED BY <1>1, InvHolds, PTL

\* No request meets a database that is not at the head.
THEOREM HeadServed == Spec => []ServesOnlyAtHead
<1>1. Inv => ServesOnlyAtHead
  BY DEF Inv, ApiInv, ServesOnlyAtHead
<1>. QED BY <1>1, InvHolds, PTL

\* No connection leaks, and the pools keep their sizes.
THEOREM NothingLeaks == Spec => []ConnectionsAccounted
<1>1. Inv => ConnectionsAccounted
  BY PoolInvPromises DEF Inv
<1>. QED BY <1>1, InvHolds, PTL

\* However small the pools and however many the requests, they do not come to wait
\* for one another in a circle.
THEOREM NobodyDeadlocks == Spec => []SomeoneCanMove
<1>1. Inv => SomeoneCanMove
  BY PoolInvMoves DEF Inv, SomeoneCanMove
<1>. QED BY <1>1, InvHolds, PTL

\* A request fails for the database only when the database was away during it.
THEOREM OutagesPass == Spec => []OutagesEnd
<1>1. Inv => OutagesEnd
  BY PoolInvPromises DEF Inv
<1>. QED BY <1>1, InvHolds, PTL

\* Whatever fails and in whatever order, a health check is answered 200 or 503.
THEOREM HealthAnswered == Spec => []HealthIsAnswered
<1>1. Inv => HealthIsAnswered
  BY PoolInvPromises DEF Inv
<1>. QED BY <1>1, InvHolds, PTL
----------------------------------------------------------------------------
(* Every step of a request leads on. *)

\* Ahead of a request q, and whether it has the event loop.
Distance(q, held) ==
  IF q.pc \in Ends THEN 0 ELSE 4 * q.left + Rank[q.pc] - (IF held THEN 1 ELSE 0)

LeadsOn ==
  \A r \in Requests :
    \/ request'[r].pc = request[r].pc /\ (loop' = r) = (loop = r)
    \/ Ahead(r)' < Ahead(r)

LEMMA Ranks ==
  /\ Rank["unsent"] = 4 * MaxTargets + 6 /\ Rank["waiting"] = 5
  /\ Rank["looking"] = 4 /\ Rank["probing"] = 4 /\ Rank["refreshing"] = 4
  /\ Rank["limiting"] = 3 /\ Rank["pinging"] = 3 /\ Rank["publishing"] = 3
  /\ Rank["ponging"] = 2 /\ Rank["inserting"] = 1
  BY DEF Rank

LEMMA Distances ==
  ASSUME NEW q \in RequestType, NEW held \in BOOLEAN, held => q.pc = "publishing"
  PROVE  /\ q.left \in 0..MaxTargets
         /\ q.pc \in Ends => Distance(q, held) = 0
         /\ q.pc \notin Ends => 0 < Distance(q, held)
         /\ q.pc = "unsent" /\ ~held => Distance(q, held) = 4 * q.left + 4 * MaxTargets + 6
         /\ q.pc = "waiting" /\ ~held => Distance(q, held) = 4 * q.left + 5
         /\ q.pc \in {"looking", "probing", "refreshing"} /\ ~held
              => Distance(q, held) = 4 * q.left + 4
         /\ q.pc \in {"limiting", "pinging", "publishing"} /\ ~held
              => Distance(q, held) = 4 * q.left + 3
         /\ q.pc = "ponging" /\ ~held => Distance(q, held) = 4 * q.left + 2
         /\ q.pc = "publishing" /\ held => Distance(q, held) = 4 * q.left + 2
         /\ q.pc = "inserting" /\ ~held => Distance(q, held) = 4 * q.left + 1
<1>1. q.left \in 0..MaxTargets /\ q.left \in Nat /\ MaxTargets \in Nat
  BY DEF RequestType
<1>2. /\ q.pc \in {"unsent", "waiting", "looking", "limiting", "inserting", "refreshing",
                   "publishing", "probing", "pinging", "ponging"} \cup Ends
  BY DEF RequestType
<1>3. PICK rank : rank = Rank[q.pc]
  OBVIOUS
<1>4. PICK n : n = Distance(q, held)
  OBVIOUS
<1>5. q.pc \in Ends => n = 0
  BY <1>4 DEF Distance
<1>6. q.pc \notin Ends => n = 4 * q.left + rank - (IF held THEN 1 ELSE 0)
  BY <1>3, <1>4 DEF Distance
<1>7. /\ q.pc = "unsent" => rank = 4 * MaxTargets + 6
      /\ q.pc = "waiting" => rank = 5
      /\ q.pc \in {"looking", "probing", "refreshing"} => rank = 4
      /\ q.pc \in {"limiting", "pinging", "publishing"} => rank = 3
      /\ q.pc = "ponging" => rank = 2
      /\ q.pc = "inserting" => rank = 1
  <2>1. /\ q.pc = "unsent" => rank = Rank["unsent"]
        /\ q.pc = "waiting" => rank = Rank["waiting"]
        /\ q.pc = "looking" => rank = Rank["looking"]
        /\ q.pc = "probing" => rank = Rank["probing"]
        /\ q.pc = "refreshing" => rank = Rank["refreshing"]
        /\ q.pc = "limiting" => rank = Rank["limiting"]
        /\ q.pc = "pinging" => rank = Rank["pinging"]
        /\ q.pc = "publishing" => rank = Rank["publishing"]
        /\ q.pc = "ponging" => rank = Rank["ponging"]
        /\ q.pc = "inserting" => rank = Rank["inserting"]
    BY <1>3, Zenon
  <2>. QED BY <2>1, Ranks
<1>8. q.pc \notin Ends <=> q.pc \in {"unsent", "waiting", "looking", "limiting", "inserting",
        "refreshing", "publishing", "probing", "pinging", "ponging"}
  BY <1>2 DEF Ends, Errors
<1>9. q.pc \notin Ends => 0 < n
  BY <1>1, <1>6, <1>7, <1>8
<1>10. /\ q.pc = "unsent" /\ ~held => n = 4 * q.left + 4 * MaxTargets + 6
       /\ q.pc = "waiting" /\ ~held => n = 4 * q.left + 5
       /\ q.pc \in {"looking", "probing", "refreshing"} /\ ~held => n = 4 * q.left + 4
       /\ q.pc \in {"limiting", "pinging", "publishing"} /\ ~held => n = 4 * q.left + 3
       /\ q.pc = "ponging" /\ ~held => n = 4 * q.left + 2
       /\ q.pc = "publishing" /\ held => n = 4 * q.left + 2
       /\ q.pc = "inserting" /\ ~held => n = 4 * q.left + 1
  BY <1>1, <1>6, <1>7, <1>8
<1>. QED BY <1>1, <1>4, <1>5, <1>9, <1>10

\* What is under way and what has the loop.
LEMMA Positions ==
  ASSUME PoolInv, NEW r \in Requests
  PROVE  /\ request[r] \in RequestType /\ Sound(request[r]) /\ request[r].left \in Nat
         /\ (loop = r) \in BOOLEAN /\ (loop = r => request[r].pc = "publishing")
         /\ Ahead(r) = Distance(request[r], loop = r)
         /\ Ahead(r)' = Distance(request'[r], loop' = r)
<1>1. request[r] \in RequestType /\ Sound(request[r])
  BY RequestSound
<1>2. loop = r => request[r].pc = "publishing"
  BY DEF PoolInv
<1>3. Ahead(r) = Distance(request[r], loop = r)
  BY Zenon DEF Ahead, Distance, Ended
<1>4. Ahead(r)' = Distance(request'[r], loop' = r)
  BY Zenon DEF Ahead, Distance, Ended
<1>5. request[r].left \in Nat
  BY <1>1 DEF RequestType
<1>. QED BY <1>1, <1>2, <1>3, <1>4, <1>5

\* One request moves, and nobody else takes or loses the event loop.
LEMMA OneLeads ==
  ASSUME PoolInv, NEW r \in Requests, NEW q, request' = [request EXCEPT ![r] = q],
         loop' = loop \/ (loop = r /\ loop' = NoRequest),
         Distance(q, loop' = r) < Distance(request[r], loop = r)
  PROVE  LeadsOn
<1>1. ASSUME NEW k \in Requests, k # r
      PROVE  request'[k].pc = request[k].pc /\ (loop' = k) = (loop = k)
  BY <1>1 DEF PoolInv
<1>2. request'[r] = q
  BY DEF PoolInv
<1>3. Ahead(r)' < Ahead(r)
  BY <1>2, Positions
<1>. QED BY <1>1, <1>3 DEF LeadsOn

\* A request goes on from b steps before its end to a, with what it has left.
LEMMA NearerLeads ==
  ASSUME PoolInv, NEW r \in Requests, loop # r, NEW q,
         request' = [request EXCEPT ![r] = q], loop' = loop,
         NEW a, Distance(q, FALSE) = 4 * q.left + a,
         NEW b, Distance(request[r], FALSE) = 4 * request[r].left + b,
         4 * q.left + a < 4 * request[r].left + b
  PROVE  LeadsOn
<1>1. (loop = r) = FALSE /\ (loop' = r) = FALSE
  OBVIOUS
<1>2. Distance(q, FALSE) < Distance(request[r], FALSE)
  OBVIOUS
<1>3. Distance(q, loop' = r) < Distance(request[r], loop = r)
  BY <1>1, <1>2
<1>. QED BY <1>3, OneLeads

LEMMA EndLeads ==
  ASSUME PoolInv, NEW r \in Requests, NEW end \in Ends, EndsWith(r, end),
         request[r].pc \notin Ends, loop' = loop \/ (loop = r /\ loop' = NoRequest)
  PROVE  LeadsOn
<1>0. PICK next : next = [request[r] EXCEPT !.pc = end]
  OBVIOUS
<1>1. PICK q : q = [next EXCEPT !.conn = "none", !.redis = FALSE]
  OBVIOUS
<1>2. q.pc = end
  BY <1>0, <1>1, Positions DEF RequestType
<1>3. request' = [request EXCEPT ![r] = q]
  BY <1>0, <1>1, Zenon DEF EndsWith, GivesBack
<1>4. Distance(q, loop' = r) = 0
  BY <1>2 DEF Distance
<1>5. 0 < Distance(request[r], loop = r)
  BY Positions, Distances
<1>. QED BY <1>3, <1>4, <1>5, OneLeads

LEMMA RaisesLeads ==
  ASSUME PoolInv, NEW r \in Requests, loop = NoRequest,
         NEW end \in {"dberror", "rowerror", "poolerror", "rediserror"}, Raises(r, end),
         request[r].pc \notin Ends
  PROVE  LeadsOn
<1>1. loop # r /\ end \in Ends /\ "unwell" \in Ends
  BY DEF Ends, Errors
<1>2. CASE request[r].kind = "health" /\ request[r].pc \in {"waiting", "probing"}
  <2>1. PICK q : q = [request[r] EXCEPT !.pc = "pinging", !.unwell = TRUE]
    OBVIOUS
  <2>2. request[r] \in RequestType /\ request[r].left \in Nat
    BY Positions
  <2>3. q \in RequestType /\ q.pc = "pinging" /\ q.left = request[r].left
    BY <2>1, <2>2 DEF RequestType
  <2>4. request' = [request EXCEPT ![r] = q] /\ loop' = loop
    BY <1>2, <2>1, Zenon DEF Raises, Moves
  <2>5. Distance(q, FALSE) = 4 * q.left + 3
    BY <2>3, Distances
  <2>6. \/ Distance(request[r], FALSE) = 4 * request[r].left + 5
        \/ Distance(request[r], FALSE) = 4 * request[r].left + 4
    BY <1>2, <2>2, Distances
  <2>7. 4 * q.left + 3 < 4 * request[r].left + 5 /\ 4 * q.left + 3 < 4 * request[r].left + 4
    BY <2>2, <2>3
  <2>. QED BY <1>1, <2>4, <2>5, <2>6, <2>7, NearerLeads
<1>3. CASE request[r].kind = "health" /\ request[r].pc \notin {"waiting", "probing"}
  <2>1. EndsWith(r, "unwell") /\ loop' = loop
    BY <1>3, Zenon DEF Raises
  <2>. QED BY <1>1, <2>1, EndLeads
<1>4. CASE request[r].kind # "health"
  <2>1. EndsWith(r, end) /\ loop' = loop
    BY <1>4, Zenon DEF Raises
  <2>. QED BY <1>1, <2>1, EndLeads
<1>. QED BY <1>2, <1>3, <1>4

\* What r does with the event loop its own, from pc to next.
LEMMA OnwardLeads ==
  ASSUME PoolInv, NEW r \in Requests, loop # r, NEW q \in RequestType,
         request' = [request EXCEPT ![r] = q], loop' = loop, q.left = request[r].left,
         \/ request[r].pc = "waiting" /\ q.pc \in {"looking", "probing"}
         \/ request[r].pc = "looking" /\ q.pc = "limiting"
         \/ request[r].pc = "limiting" /\ q.pc = "inserting"
         \/ request[r].pc = "refreshing" /\ q.pc = "publishing"
         \/ request[r].pc = "probing" /\ q.pc = "pinging"
         \/ request[r].pc = "pinging" /\ q.pc = "ponging"
  PROVE  LeadsOn
<1>1. request[r] \in RequestType /\ request[r].left \in Nat
  BY Positions
<1>2. /\ q.pc \in {"looking", "probing"} => Distance(q, FALSE) = 4 * q.left + 4
      /\ q.pc \in {"limiting", "publishing", "pinging"} => Distance(q, FALSE) = 4 * q.left + 3
      /\ q.pc = "ponging" => Distance(q, FALSE) = 4 * q.left + 2
      /\ q.pc = "inserting" => Distance(q, FALSE) = 4 * q.left + 1
  BY Distances
<1>3. /\ request[r].pc = "waiting" => Distance(request[r], FALSE) = 4 * request[r].left + 5
      /\ request[r].pc \in {"looking", "probing", "refreshing"}
           => Distance(request[r], FALSE) = 4 * request[r].left + 4
      /\ request[r].pc \in {"limiting", "pinging"}
           => Distance(request[r], FALSE) = 4 * request[r].left + 3
  BY <1>1, Distances
<1>4. \/ Distance(q, FALSE) = 4 * q.left + 4 /\ Distance(request[r], FALSE) = 4 * request[r].left + 5
      \/ Distance(q, FALSE) = 4 * q.left + 3 /\ Distance(request[r], FALSE) = 4 * request[r].left + 4
      \/ Distance(q, FALSE) = 4 * q.left + 2 /\ Distance(request[r], FALSE) = 4 * request[r].left + 3
      \/ Distance(q, FALSE) = 4 * q.left + 1 /\ Distance(request[r], FALSE) = 4 * request[r].left + 3
  BY <1>2, <1>3
<1>5. /\ 4 * q.left + 4 < 4 * request[r].left + 5 /\ 4 * q.left + 3 < 4 * request[r].left + 4
      /\ 4 * q.left + 2 < 4 * request[r].left + 3 /\ 4 * q.left + 1 < 4 * request[r].left + 3
  BY <1>1
<1>. QED BY <1>4, <1>5, NearerLeads

LEMMA SentKeyedLeads ==
  ASSUME PoolInv, NEW r \in Requests, At(r, "unsent"),
         NEW kind \in {"dispatch", "health"}, NEW n \in 1..MaxTargets,
         Moves(r, [Unsent EXCEPT !.kind = kind, !.pc = "waiting", !.outage = (db = "down"),
                                 !.left = IF kind = "dispatch" THEN n ELSE 0])
  PROVE  LeadsOn
<1>2. PICK left \in 0..MaxTargets : left = IF kind = "dispatch" THEN n ELSE 0
  OBVIOUS
<1>3. PICK down \in BOOLEAN : down = (db = "down")
  OBVIOUS
<1>4. PICK q : q = [Unsent EXCEPT !.kind = kind, !.pc = "waiting", !.outage = (db = "down"),
                                  !.left = IF kind = "dispatch" THEN n ELSE 0]
  OBVIOUS
<1>5. q = [kind |-> kind, pc |-> "waiting", conn |-> "none", redis |-> FALSE,
           left |-> left, outage |-> down, unwell |-> FALSE]
  BY <1>2, <1>3, <1>4 DEF Unsent
<1>6. request' = [request EXCEPT ![r] = q] /\ loop' = loop
  BY <1>4, Zenon DEF Moves
<1>7. q \in RequestType /\ q.pc = "waiting" /\ q.left \in 0..MaxTargets
  BY <1>5 DEF RequestType
<1>8. loop # r /\ request[r].pc = "unsent"
  BY Free
<1>9. request[r] \in RequestType /\ request[r].left \in Nat
  BY Positions
<1>10. Distance(q, FALSE) = 4 * q.left + 5
  BY <1>7, Distances
<1>11. PICK b \in Nat : b = 4 * MaxTargets + 6
  OBVIOUS
<1>12. Distance(request[r], FALSE) = 4 * request[r].left + b
  <2>1. Distance(request[r], FALSE) = 4 * request[r].left + 4 * MaxTargets + 6
    BY <1>8, <1>9, Distances
  <2>2. 4 * request[r].left + 4 * MaxTargets + 6 = 4 * request[r].left + b
    BY <1>9, <1>11
  <2>. QED BY <2>1, <2>2
<1>13. 4 * q.left + 5 < 4 * request[r].left + b
  BY <1>7, <1>9, <1>11
<1>. QED BY <1>6, <1>8, <1>10, <1>12, <1>13, NearerLeads

LEMMA SendLeads ==
  ASSUME PoolInv, NEW r \in Requests, Send(r)
  PROVE  LeadsOn
<1>1. At(r, "unsent") /\ loop = NoRequest /\ loop # r /\ request[r].pc = "unsent"
  BY Zenon, Free DEF Send
<1>2. CASE EndsWith(r, "refused") /\ UNCHANGED loop
  <2>1. "refused" \in Ends /\ "unsent" \notin Ends
    BY DEF Ends, Errors
  <2>2. request[r].kind # "health"
    BY <1>1 DEF PoolInv, Sound
  <2>. QED BY <1>1, <1>2, <2>1, <2>2, EndLeads
<1>3. CASE \E kind \in {"dispatch", "health"}, n \in 1..MaxTargets :
             Moves(r, [Unsent EXCEPT !.kind = kind, !.pc = "waiting",
                                     !.outage = (db = "down"),
                                     !.left = IF kind = "dispatch" THEN n ELSE 0])
  BY <1>1, <1>3, SentKeyedLeads, Zenon
<1>. QED BY <1>2, <1>3, Zenon DEF Send

LEMMA CheckoutLeads ==
  ASSUME PoolInv, NEW r \in Requests, Checkout(r)
  PROVE  LeadsOn
<1>1. /\ Wants(r) /\ loop' = loop
      /\ request' = [request EXCEPT ![r].pc = AfterCheckout(r), ![r].conn = "live"]
  BY Zenon DEF Checkout
<1>2. Sound(request[r]) /\ request[r] \in RequestType
  BY Positions
<1>3. loop # r /\ request[r].pc \in {"waiting", "refreshing"}
  BY <1>1, Free DEF Wants
<1>4. PICK next : next = AfterCheckout(r)
  OBVIOUS
<1>5. \/ request[r].pc = "waiting" /\ next \in {"looking", "probing"}
      \/ request[r].pc = "refreshing" /\ next = "publishing"
  <2>1. CASE request[r].kind = "health"
    BY <1>2, <1>3, <1>4, <2>1 DEF AfterCheckout, Sound
  <2>2. CASE request[r].kind # "health"
    BY <1>3, <1>4, <2>2 DEF AfterCheckout
  <2>. QED BY <2>1, <2>2
<1>6. PICK q : q = [request[r] EXCEPT !.pc = next, !.conn = "live"]
  OBVIOUS
<1>7. q \in RequestType /\ q.pc = next /\ q.left = request[r].left
  BY <1>2, <1>5, <1>6 DEF RequestType
<1>8. request' = [request EXCEPT ![r] = q]
  BY <1>1, <1>4, <1>6
<1>. QED BY <1>1, <1>3, <1>5, <1>7, <1>8, OnwardLeads

LEMMA FailureLeads ==
  ASSUME PoolInv, NEW r \in Requests,
         CheckoutFails(r) \/ PoolTimeout(r) \/ StatementFails(r) \/ RowFails(r)
  PROVE  LeadsOn
<1>1. CASE CheckoutFails(r) \/ PoolTimeout(r)
  <2>1. Wants(r) /\ (Raises(r, "dberror") \/ Raises(r, "poolerror"))
    BY <1>1, Zenon DEF CheckoutFails, PoolTimeout
  <2>2. loop = NoRequest /\ request[r].pc \in {"waiting", "refreshing"}
    BY <2>1, Free DEF Wants
  <2>3. request[r].pc \notin Ends
    BY <2>2 DEF Ends, Errors
  <2>. QED BY <2>1, <2>2, <2>3, RaisesLeads
<1>2. CASE StatementFails(r) \/ RowFails(r)
  <2>1. /\ loop = NoRequest
        /\ request[r].pc \in {"looking", "inserting", "publishing", "probing"}
        /\ Raises(r, "dberror") \/ Raises(r, "rowerror")
    BY <1>2, Zenon, Free DEF StatementFails, RowFails
  <2>2. request[r].pc \notin Ends
    BY <2>1 DEF Ends, Errors
  <2>. QED BY <2>1, <2>2, RaisesLeads
<1>. QED BY <1>1, <1>2

LEMMA TakesRedisLeads ==
  ASSUME PoolInv, NEW r \in Requests, loop = NoRequest, NEW next, TakesRedis(r, next),
         \/ request[r].pc = "looking" /\ next = "limiting"
         \/ request[r].pc = "pinging" /\ next = "ponging"
  PROVE  LeadsOn
<1>1. request[r].pc \notin Ends /\ loop # r /\ request[r] \in RequestType
  BY Positions DEF Ends, Errors
<1>2. CASE Cardinality(OnRedis) < RedisSize
  <2>1. PICK q : q = [request[r] EXCEPT !.pc = next, !.redis = TRUE]
    OBVIOUS
  <2>2. request' = [request EXCEPT ![r] = q] /\ loop' = loop
    BY <1>2, <2>1, Zenon DEF TakesRedis, Moves
  <2>3. q \in RequestType /\ q.pc = next /\ q.left = request[r].left
    BY <1>1, <2>1 DEF RequestType
  <2>. QED BY <1>1, <2>2, <2>3, OnwardLeads
<1>3. CASE ~(Cardinality(OnRedis) < RedisSize)
  <2>1. Raises(r, "rediserror")
    BY <1>3, Zenon DEF TakesRedis
  <2>. QED BY <1>1, <2>1, RaisesLeads
<1>. QED BY <1>2, <1>3

LEMMA LimitLeads ==
  ASSUME PoolInv, NEW r \in Requests, Limit(r)
  PROVE  LeadsOn
<1>1. loop = NoRequest /\ loop # r /\ request[r].pc = "limiting"
  BY Free DEF Limit
<1>2. request[r].pc \notin Ends /\ "ok" \in Ends
  BY <1>1 DEF Ends, Errors
<1>3. \/ Moves(r, [request[r] EXCEPT !.pc = "inserting", !.redis = FALSE])
      \/ EndsWith(r, "ok") /\ loop' = loop
      \/ Raises(r, "rediserror")
  BY Zenon DEF Limit
<1>4. CASE Moves(r, [request[r] EXCEPT !.pc = "inserting", !.redis = FALSE])
  <2>1. PICK q : q = [request[r] EXCEPT !.pc = "inserting", !.redis = FALSE]
    OBVIOUS
  <2>2. request' = [request EXCEPT ![r] = q] /\ loop' = loop
    BY <1>4, <2>1, Zenon DEF Moves
  <2>3. request[r] \in RequestType
    BY Positions
  <2>4. q \in RequestType /\ q.pc = "inserting" /\ q.left = request[r].left
    BY <2>1, <2>3 DEF RequestType
  <2>. QED BY <1>1, <2>2, <2>4, OnwardLeads
<1>5. CASE EndsWith(r, "ok") /\ loop' = loop
  BY <1>2, <1>5, EndLeads
<1>6. CASE Raises(r, "rediserror")
  BY <1>1, <1>2, <1>6, RaisesLeads
<1>. QED BY <1>3, <1>4, <1>5, <1>6

LEMMA InsertLeads ==
  ASSUME PoolInv, NEW r \in Requests, Insert(r)
  PROVE  LeadsOn
<1>1. loop # r /\ request[r].pc = "inserting"
  BY Free DEF Insert
<1>2. Sound(request[r]) /\ request[r] \in RequestType
  BY Positions
<1>3. request[r].kind = "dispatch" /\ request[r].left > 0 /\ request[r].left \in 0..MaxTargets
  BY <1>1, <1>2 DEF Sound, RequestType
<1>4. PICK left \in 0..MaxTargets : left = request[r].left - 1
  BY <1>3
<1>5. PICK next : next = [request[r] EXCEPT !.pc = "refreshing", !.left = @ - 1]
  OBVIOUS
<1>6. PICK q : q = [next EXCEPT !.conn = "none", !.redis = FALSE]
  OBVIOUS
<1>7. q = [request[r] EXCEPT !.pc = "refreshing", !.left = left, !.conn = "none",
                             !.redis = FALSE]
  BY <1>2, <1>4, <1>5, <1>6 DEF RequestType
<1>8. q \in RequestType /\ q.pc = "refreshing" /\ q.left = left
  BY <1>2, <1>4, <1>7 DEF RequestType
<1>9. request' = [request EXCEPT ![r] = q] /\ loop' = loop
  BY <1>5, <1>6, Zenon DEF Insert, GivesBack
<1>10. Distance(q, FALSE) = 4 * q.left + 4
  BY <1>8, Distances
<1>11. Distance(request[r], FALSE) = 4 * request[r].left + 1
  BY <1>1, <1>2, Distances
<1>12. 4 * q.left + 4 < 4 * request[r].left + 1
  BY <1>3, <1>4, <1>8
<1>. QED BY <1>1, <1>9, <1>10, <1>11, <1>12, NearerLeads

LEMMA PublishLeads ==
  ASSUME PoolInv, NEW r \in Requests, Publish(r)
  PROVE  LeadsOn
<1>1. loop = NoRequest /\ request[r].pc = "publishing" /\ loop' = r /\ request' = request
  BY Zenon DEF Publish, At
<1>2. (loop = r) = FALSE /\ (loop' = r) = TRUE
  BY <1>1
<1>3. request[r] \in RequestType /\ request[r].left \in Nat
  BY Positions
<1>4. Distance(request[r], FALSE) = 4 * request[r].left + 3
  BY <1>1, <1>3, Distances
<1>5. Distance(request[r], TRUE) = 4 * request[r].left + 2
  BY <1>1, <1>3, Distances
<1>6. 4 * request[r].left + 2 < 4 * request[r].left + 3
  BY <1>3
<1>7. Ahead(r)' < Ahead(r)
  <2>1. Ahead(r) = Distance(request[r], FALSE) /\ Ahead(r)' = Distance(request[r], TRUE)
    BY <1>1, <1>2, Positions
  <2>. QED BY <1>4, <1>5, <1>6, <2>1
<1>8. ASSUME NEW k \in Requests, k # r
      PROVE  request'[k].pc = request[k].pc /\ (loop' = k) = (loop = k)
  BY <1>1, <1>8
<1>. QED BY <1>7, <1>8 DEF LeadsOn

LEMMA PublishEndsLeads ==
  ASSUME PoolInv, NEW r \in Requests, PublishEnds(r)
  PROVE  LeadsOn
<1>1. loop = r /\ loop' = NoRequest
  BY Zenon DEF PublishEnds
<1>2. request[r].pc = "publishing" /\ "ok" \in Ends /\ "brokererror" \in Ends
  BY <1>1 DEF PoolInv, Ends, Errors
<1>3. request[r] \in RequestType /\ request[r].left \in Nat /\ request[r].pc \notin Ends
  BY <1>2, Positions DEF Ends, Errors
<1>4. CASE request' = [request EXCEPT ![r].pc = "inserting"]
  <2>1. PICK q : q = [request[r] EXCEPT !.pc = "inserting"]
    OBVIOUS
  <2>2. q \in RequestType /\ q.pc = "inserting" /\ q.left = request[r].left
    BY <1>3, <2>1 DEF RequestType
  <2>3. request' = [request EXCEPT ![r] = q]
    BY <1>4, <2>1
  <2>4. (loop = r) = TRUE /\ (loop' = r) = FALSE
    BY <1>1
  <2>5. Distance(q, FALSE) = 4 * q.left + 1
    BY <2>2, Distances
  <2>6. Distance(request[r], TRUE) = 4 * request[r].left + 2
    BY <1>2, <1>3, Distances
  <2>7. 4 * q.left + 1 < 4 * request[r].left + 2
    BY <1>3, <2>2
  <2>8. Distance(q, loop' = r) < Distance(request[r], loop = r)
    BY <2>4, <2>5, <2>6, <2>7
  <2>. QED BY <1>1, <2>3, <2>8, OneLeads
<1>5. CASE EndsWith(r, "ok") \/ EndsWith(r, "brokererror")
  BY <1>1, <1>2, <1>3, <1>5, EndLeads
<1>. QED BY <1>4, <1>5, Zenon DEF PublishEnds

LEMMA HealthLeads ==
  ASSUME PoolInv, NEW r \in Requests, Probe(r) \/ Ping(r) \/ Pong(r)
  PROVE  LeadsOn
<1>1. CASE Probe(r)
  <2>1. loop # r /\ request[r].pc = "probing"
    BY <1>1, Free DEF Probe
  <2>2. PICK q : q = [request[r] EXCEPT !.pc = "pinging"]
    OBVIOUS
  <2>3. request' = [request EXCEPT ![r] = q] /\ loop' = loop
    BY <1>1, <2>2, Zenon DEF Probe, Moves
  <2>4. request[r] \in RequestType
    BY Positions
  <2>5. q \in RequestType /\ q.pc = "pinging" /\ q.left = request[r].left
    BY <2>2, <2>4 DEF RequestType
  <2>. QED BY <2>1, <2>3, <2>5, OnwardLeads
<1>2. CASE Ping(r)
  <2>1. loop = NoRequest /\ request[r].pc = "pinging" /\ TakesRedis(r, "ponging")
    BY <1>2, Zenon DEF Ping, At
  <2>. QED BY <2>1, TakesRedisLeads
<1>3. CASE Pong(r)
  <2>1. loop = NoRequest /\ request[r].pc = "ponging"
    BY <1>3, Free DEF Pong
  <2>2. request[r].pc \notin Ends /\ "ok" \in Ends /\ "unwell" \in Ends
    BY <2>1 DEF Ends, Errors
  <2>3. \/ EndsWith(r, "unwell") /\ loop' = loop
        \/ EndsWith(r, "ok") /\ loop' = loop
        \/ Raises(r, "rediserror")
    BY <1>3, Zenon DEF Pong
  <2>. QED BY <2>1, <2>2, <2>3, EndLeads, RaisesLeads
<1>. QED BY <1>1, <1>2, <1>3

LEMMA DatabaseLeads ==
  ASSUME PoolInv, DatabaseStops \/ DatabaseStarts
  PROVE  LeadsOn
<1>1. loop' = loop
  BY Zenon DEF DatabaseStops, DatabaseStarts
<1>2. CASE DatabaseStarts
  <2>1. request' = request
    BY <1>2, Zenon DEF DatabaseStarts
  <2>. QED BY <1>1, <2>1 DEF LeadsOn
<1>3. CASE DatabaseStops
  <2>1. request' = [r \in Requests |->
          IF ~Active(r) THEN request[r]
          ELSE [request[r] EXCEPT !.outage = TRUE,
                                  !.conn = IF @ = "none" THEN @ ELSE "broken"]]
    BY <1>3, Zenon DEF DatabaseStops
  <2>2. ASSUME NEW r \in Requests
        PROVE  request'[r].pc = request[r].pc
    <3>1. request[r] \in RequestType
      BY Positions
    <3>2. CASE ~Active(r)
      <4>1. request'[r] = request[r]
        BY <2>1, <3>2, Zenon
      <4>. QED BY <4>1
    <3>3. CASE Active(r)
      <4>1. PICK conn : conn = IF request[r].conn = "none" THEN "none" ELSE "broken"
        OBVIOUS
      <4>2. PICK q : q = [request[r] EXCEPT !.outage = TRUE, !.conn = conn]
        OBVIOUS
      <4>3. request'[r] = q
        BY <2>1, <3>3, <4>1, <4>2, Zenon
      <4>. QED BY <3>1, <4>2, <4>3 DEF RequestType
    <3>. QED BY <3>2, <3>3
  <2>. QED BY <1>1, <2>2 DEF LeadsOn
<1>. QED BY <1>2, <1>3

LEMMA DroppedLeads ==
  ASSUME PoolInv, RequestsDropped
  PROVE  LeadsOn
<1>1. /\ request' = [r \in Requests |->
            IF Active(r) THEN [request[r] EXCEPT !.pc = "dropped", !.conn = "none",
                                                 !.redis = FALSE]
            ELSE request[r]]
      /\ loop' = NoRequest
  BY Zenon DEF RequestsDropped
<1>2. ASSUME NEW r \in Requests, Active(r)
      PROVE  Ahead(r)' < Ahead(r)
  <2>1. request[r] \in RequestType
    BY Positions
  <2>2. request'[r].pc = "dropped"
    <3>1. PICK q : q = [request[r] EXCEPT !.pc = "dropped", !.conn = "none", !.redis = FALSE]
      OBVIOUS
    <3>2. request'[r] = q
      BY <1>1, <1>2, <3>1, Zenon
    <3>. QED BY <2>1, <3>1, <3>2 DEF RequestType
  <2>3. Distance(request'[r], loop' = r) = 0
    BY <2>2 DEF Distance, Ends
  <2>4. request[r].pc \notin Ends
    BY <1>2 DEF Active
  <2>5. 0 < Distance(request[r], loop = r)
    BY <2>4, Positions, Distances
  <2>. QED BY <2>3, <2>5, Positions
<1>3. ASSUME NEW r \in Requests, ~Active(r)
      PROVE  request'[r].pc = request[r].pc /\ (loop' = r) = (loop = r)
  <2>1. request'[r] = request[r]
    BY <1>1, <1>3, Zenon
  <2>2. loop # r /\ NoRequest # r
    BY <1>3 DEF PoolInv, Active, Ends, Errors
  <2>3. (loop = r) = FALSE /\ (loop' = r) = FALSE
    BY <1>1, <2>2, Zenon
  <2>. QED BY <2>1, <2>3
<1>. QED BY <1>2, <1>3 DEF LeadsOn

LEMMA StepLeads ==
  ASSUME PoolInv, Next
  PROVE  LeadsOn \/ UNCHANGED poolVars
<1>1. CASE StartApi \/ Serve \/ MigrationFailed
  BY <1>1, Zenon DEF StartApi, Serve, MigrationFailed
<1>2. CASE ApiDies
  BY <1>2, DroppedLeads, Zenon DEF ApiDies
<1>3. CASE DatabaseFails \/ DatabaseReturns
  BY <1>3, DatabaseLeads, Zenon DEF DatabaseFails, DatabaseReturns
<1>4. CASE \E m \in Migrators : Migrate(m) \/ MigrationSteps(m)
  BY <1>4, Zenon DEF Migrate, MigrationSteps
<1>5. ASSUME NEW r \in Requests, RequestProgress(r) \/ Send(r) \/ PoolTimeout(r)
      PROVE  LeadsOn
  <2>1. ASSUME Lookup(r)
        PROVE  LeadsOn
    <3>1. /\ loop = NoRequest /\ loop # r /\ request[r].pc = "looking"
          /\ TakesRedis(r, "limiting") \/ (EndsWith(r, "refused") /\ loop' = loop)
      BY <2>1, Zenon, Free DEF Lookup, At
    <3>2. "refused" \in Ends /\ "looking" \notin Ends
      BY DEF Ends, Errors
    <3>. QED BY <3>1, <3>2, TakesRedisLeads, EndLeads
  <2>. QED BY <1>5, <2>1, CheckoutLeads, FailureLeads, LimitLeads, InsertLeads, PublishLeads,
              PublishEndsLeads, HealthLeads, SendLeads, Zenon DEF RequestProgress
<1>6. CASE \E r \in Requests :
             \/ Handle(r)
             \/ /\ api = "serving" /\ (Send(r) \/ PoolTimeout(r))
                /\ UNCHANGED <<schemaVars, api, faults>>
  BY <1>5, <1>6, Zenon DEF Handle
<1>. QED BY <1>1, <1>2, <1>3, <1>4, <1>6, Zenon DEF Next

\* Whatever a request does, and whatever fails under it, it comes nearer to its end:
\* with NobodyDeadlocks, the part of EveryRequestAnswered that needs no fairness.
THEOREM RequestsLeadOn == Spec => StepsLeadOn
<1>1. ASSUME Inv, [Next]_vars PROVE LeadsOn \/ UNCHANGED poolVars
  <2>1. CASE UNCHANGED vars
    BY <2>1, Zenon DEF vars
  <2>2. CASE Next
    BY <1>1, <2>2, StepLeads DEF Inv
  <2>. QED BY <1>1, <2>1, <2>2
<1>2. ASSUME Inv, [Next]_vars
      PROVE  [\A r \in Requests :
                \/ request'[r].pc = request[r].pc /\ (loop' = r) = (loop = r)
                \/ Ahead(r)' < Ahead(r)]_poolVars
  BY <1>1, <1>2, Zenon DEF LeadsOn
<1>. QED BY <1>2, InvHolds, PTL DEF Spec, StepsLeadOn
=============================================================================
