---------------------------- MODULE RateLimiter ----------------------------
(***************************************************************************)
(* The token bucket in Redis that guards POST /dispatch.  A request looks  *)
(* its key up in the database, takes the time of its host, and sends it to *)
(* Redis with the limits of the key; the script is one atomic step, but    *)
(* requests reach it in any order.  The clocks of the hosts agree: what is *)
(* late is only the evaluation.                                            *)
(***************************************************************************)
EXTENDS RateLimits

CONSTANTS
  Keys,       \* the API keys
  Plan,       \* the plan tier of the owner of each key
  Override,   \* the rate_limit_override of each key, 0 when it has none
  Requests,   \* the POST /dispatch requests, each served once
  TTL,        \* EXPIRE in ticks: 3600 seconds
  Steps,      \* bound: how far the clock moves at once
  MaxDelay,   \* bound: how late after its time stamp a request is evaluated
  MaxTime,    \* bound: where the clock stops
  NoKey       \* the key of a request that has not begun

ASSUME LimiterAssumption ==
  /\ Plan \in [Keys -> Tiers]
  /\ Override \in [Keys -> Nat]
  /\ TTL \in Nat /\ MaxDelay \in Nat /\ MaxTime \in Nat
  /\ Steps \subseteq Nat \ {0}
  /\ MaxDelay + Seconds(60) <= TTL
  /\ NoKey \notin Keys

VARIABLES
  clock,     \* the time, by all hosts and by Redis
  active,    \* the keys that are not revoked
  request,   \* the progress of each request
  made,      \* the keys that ever had a bucket
  tokens,    \* the hash field "tokens" of each key's bucket
  last,      \* the hash field "last_updated"
  expiry,    \* when Redis drops the bucket
  spent,     \* history: the cost of all admitted requests, by key
  birth,     \* history: the earliest time stamp evaluated, by key
  regress    \* history: how far last_updated moved back in all, by key

vars == <<clock, active, request, made, tokens, last, expiry, spent, birth, regress>>

Limits(k) == LimitsOf(Plan[k], Override[k])

RequestStates ==
  [pc          : {"new", "known", "sent", "allowed", "limited", "unauthorized", "failed"},
   key         : Keys \cup {NoKey},
   now         : Nat,
   retry_after : Nat]

\* What is left of a request that was answered.
Answer(pc, retry_after) ==
  [pc |-> pc, key |-> NoKey, now |-> 0, retry_after |-> retry_after]

Init ==
  /\ clock   = 0
  /\ active  = Keys
  /\ request = [r \in Requests |->
                 [pc |-> "new", key |-> NoKey, now |-> 0, retry_after |-> 0]]
  /\ made    = {}
  /\ tokens  = [k \in Keys |-> 0]
  /\ last    = [k \in Keys |-> 0]
  /\ expiry  = [k \in Keys |-> 0]
  /\ spent   = [k \in Keys |-> 0]
  /\ birth   = [k \in Keys |-> 0]
  /\ regress = [k \in Keys |-> 0]

Tick ==
  \E s \in Steps :
    /\ clock + s <= MaxTime
    /\ \A r \in Requests :
         request[r].pc = "sent" => clock + s - request[r].now <= MaxDelay
    /\ clock' = clock + s
    /\ UNCHANGED <<active, request, made, tokens, last, expiry, spent, birth, regress>>

Revoke(k) ==
  /\ k \in active
  /\ active' = active \ {k}
  /\ UNCHANGED <<clock, request, made, tokens, last, expiry, spent, birth, regress>>

\* The key must exist and be active; its expires_at is not looked at.
Lookup(r, k) ==
  /\ request[r].pc = "new"
  /\ request' = [request EXCEPT
       ![r] = IF k \in active THEN [@ EXCEPT !.pc = "known", !.key = k]
                              ELSE Answer("unauthorized", 0)]
  /\ UNCHANGED <<clock, active, made, tokens, last, expiry, spent, birth, regress>>

Stamp(r) ==
  /\ request[r].pc = "known"
  /\ request' = [request EXCEPT ![r].pc = "sent", ![r].now = clock]
  /\ UNCHANGED <<clock, active, made, tokens, last, expiry, spent, birth, regress>>

\* HMGET finds the bucket: it was written and has not expired.
Present(k) == k \in made /\ clock < expiry[k]

Lesser(a, b) == IF a <= b THEN a ELSE b
Positive(a)  == IF a >= 0 THEN a ELSE 0

\* Slip: the refill is not capped at the capacity.
RefilledUncapped(k, now) ==
  IF Present(k) THEN tokens[k] + Positive(now - last[k]) * Limits(k).fill_rate
                ELSE Limits(k).capacity

\* Slip: a bucket that is not there counts as empty.
RefilledEmpty(k, now) ==
  IF Present(k)
    THEN Lesser(Limits(k).capacity,
                tokens[k] + Positive(now - last[k]) * Limits(k).fill_rate)
    ELSE 0

\* The tokens the script finds for a request stamped `now`, before it takes any.
Refilled(k, now) ==
  IF Present(k)
    THEN Lesser(Limits(k).capacity,
                tokens[k] + Positive(now - last[k]) * Limits(k).fill_rate)
    ELSE Limits(k).capacity

\* Slip: the TTL is set when the bucket is made and not renewed.
ExpiryOnce(k) == IF Present(k) THEN expiry[k] ELSE clock + TTL

\* EXPIRE, with every write.
Expiry(k) == clock + TTL

\* Slip: a refusal saves the refilled tokens and not the time they were refilled at.
ScriptKeepsTime(r, k, now, found) ==
  /\ IF found >= Limits(k).cost
       THEN /\ tokens' = [tokens EXCEPT ![k] = found - Limits(k).cost]
            /\ spent' = [spent EXCEPT ![k] = @ + Limits(k).cost]
            /\ last' = [last EXCEPT ![k] = now]
            /\ request' = [request EXCEPT ![r] = Answer("allowed", 0)]
       ELSE /\ tokens' = [tokens EXCEPT ![k] = found]
            /\ request' = [request EXCEPT ![r] = Answer("limited", 1)]
            /\ UNCHANGED <<spent, last>>
  /\ made'   = made \cup {k}
  /\ expiry' = [expiry EXCEPT ![k] = Expiry(k)]
  /\ birth'  = IF k \in made /\ birth[k] <= now THEN birth
                                                ELSE [birth EXCEPT ![k] = now]
  /\ UNCHANGED <<clock, active, regress>>

\* The script, for a bucket found with `found` tokens: take the cost if it is
\* there, write both fields, renew the TTL, answer.
Script(r, k, now, found) ==
  /\ IF found >= Limits(k).cost
       THEN /\ tokens' = [tokens EXCEPT ![k] = found - Limits(k).cost]
            /\ spent' = [spent EXCEPT ![k] = @ + Limits(k).cost]
            /\ request' = [request EXCEPT ![r] = Answer("allowed", 0)]
       ELSE /\ tokens' = [tokens EXCEPT ![k] = found]
            /\ request' = [request EXCEPT ![r] = Answer("limited",
                 Ceil(Limits(k).cost - found, Seconds(Limits(k).fill_rate)))]
            /\ UNCHANGED spent
  /\ made'    = made \cup {k}
  /\ last'    = [last EXCEPT ![k] = now]
  /\ expiry'  = [expiry EXCEPT ![k] = Expiry(k)]
  /\ birth'   = IF k \in made /\ birth[k] <= now THEN birth
                                                 ELSE [birth EXCEPT ![k] = now]
  /\ regress' = IF k \in made THEN [regress EXCEPT ![k] = @ + Positive(last[k] - now)]
                              ELSE regress
  /\ UNCHANGED <<clock, active>>

Eval(r) ==
  /\ request[r].pc = "sent"
  /\ Script(r, request[r].key, request[r].now,
            Refilled(request[r].key, request[r].now))

\* The database or Redis cannot be reached, or has no connection left.
RequestFails(r) ==
  /\ request[r].pc \in {"known", "sent"}
  /\ request' = [request EXCEPT ![r] = Answer("failed", 0)]
  /\ UNCHANGED <<clock, active, made, tokens, last, expiry, spent, birth, regress>>

Next ==
  \/ Tick
  \/ \E k \in Keys : Revoke(k)
  \/ \E r \in Requests, k \in Keys : Lookup(r, k)
  \/ \E r \in Requests : Stamp(r) \/ Eval(r) \/ RequestFails(r)

Spec == Init /\ [][Next]_vars

----------------------------------------------------------------------------
(* Properties *)

\* The bucket never holds less than nothing or more than its capacity.
TypeOK ==
  /\ clock \in Nat
  /\ active \subseteq Keys
  /\ request \in [Requests -> RequestStates]
  /\ \A r \in Requests : request[r].pc \in {"known", "sent"} => request[r].key \in Keys
  /\ made \subseteq Keys
  /\ tokens \in [Keys -> Nat]
  /\ \A k \in Keys : tokens[k] <= Limits(k).capacity
  /\ last \in [Keys -> Nat]
  /\ expiry \in [Keys -> Nat]
  /\ spent \in [Keys -> Nat]
  /\ birth \in [Keys -> Nat]
  /\ regress \in [Keys -> Nat]

\* The time the bucket was refilled for: from the earliest stamp to the last one,
\* and once more every interval that a late request moved last_updated back over.
RefillTime(k) == last[k] - birth[k] + regress[k]

\* What was admitted and what is left never exceed the burst and the refill: an
\* expired bucket comes back full, but the TTL is long enough that it was full.
AdmissionBudget ==
  \A k \in made :
    spent[k] + tokens[k] <= Limits(k).capacity + Limits(k).fill_rate * RefillTime(k)

\* No request of the first burst is refused: tokens are lost to admissions only.
BurstIsHonoured == \A k \in made : spent[k] + tokens[k] >= Limits(k).capacity

\* The rate holds over every window, not only since the first request: between two
\* moments, what is admitted is at most what the bucket held at the first and the
\* refill for the time last_updated has moved forward.  No step, in any order and
\* over any expiry, adds to that.
RateHoldsInAnyWindow ==
  [][\A k \in made :
       (spent'[k] + tokens'[k]) - (spent[k] + tokens[k])
         <= Limits(k).fill_rate * ((last'[k] + regress'[k]) - (last[k] + regress[k]))]_vars

\* Retry-After is exact: waiting that long refills the cost of the request that was
\* refused, and a second less does not.
RetryAfterIsExact ==
  [][\A r \in Requests :
       request[r].pc = "sent" /\ request'[r].pc = "limited" =>
         LET k       == request[r].key
             after   == request'[r].retry_after
             Upon(s) == tokens'[k] + Seconds(s) * Limits(k).fill_rate
         IN after > 0 /\ Upon(after - 1) < Limits(k).cost /\ Limits(k).cost <= Upon(after)]_vars

----------------------------------------------------------------------------
\* The bucket of a key that never had one is full.  What Redis has dropped counts as
\* it was last written: the time since has filled it.
LevelBar == [k \in Keys |-> IF k \in made THEN tokens[k] ELSE Limits(k).capacity]

B == INSTANCE TokenBucket WITH
       LimitOf <- [k \in Keys |-> Limits(k)], level <- LevelBar, at <- last

\* That a bucket is made by its first request and dropped by its TTL cannot be told
\* from one that was always there, whoever is late.
ImplementsTokenBucket == B!Spec

----------------------------------------------------------------------------
\* "Atomic Redis Lua scripts enforcing granular per-minute limits": since its first
\* request no key is admitted more than its burst and its rate allow.
RateIsEnforced ==
  \A k \in made :
    spent[k] <= Limits(k).capacity + Limits(k).fill_rate * (clock - birth[k])
=============================================================================
