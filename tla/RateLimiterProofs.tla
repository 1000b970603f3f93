------------------------- MODULE RateLimiterProofs -------------------------
(***************************************************************************)
(* Proofs about RateLimiter for every plan, override and number of keys    *)
(* and requests.                                                           *)
(***************************************************************************)
EXTENDS RateLimiter, TLAPS

----------------------------------------------------------------------------
(* Arithmetic the solvers need stated *)

LEMMA TimesMonotone ==
  ASSUME NEW f \in Nat, NEW a \in Int, NEW b \in Int, a <= b
  PROVE  f * a <= f * b
  OBVIOUS

LEMMA TimesSum ==
  ASSUME NEW f \in Int, NEW a \in Int, NEW b \in Int
  PROVE  f * (a + b) = f * a + f * b
  OBVIOUS

LEMMA TimesNat == \A a, b \in Nat : a * b \in Nat
  OBVIOUS

LEMMA TimesPositive ==
  ASSUME NEW a \in Nat \ {0}, NEW b \in Nat \ {0}
  PROVE  a * b \in Nat \ {0}
<1>1. a * b \in Nat /\ 1 * b <= a * b
  BY TimesNat, TimesMonotone
<1>. QED BY <1>1

\* Math.ceil, by what it promises.
LEMMA CeilIsExact ==
  ASSUME NEW a \in Nat \ {0}, NEW b \in Nat \ {0}
  PROVE  LET n == Ceil(a, b) IN n \in Nat \ {0} /\ a <= n * b /\ (n - 1) * b < a
<1>. DEFINE n == (a + b - 1) \div b
<1>1. n \in Int /\ b * n <= a + b - 1 /\ a + b - 1 < b * n + b
  OBVIOUS
<1>2. n >= 1
  <2>. SUFFICES ASSUME n <= 0 PROVE FALSE
    BY <1>1
  <2>1. b * n <= b * 0
    BY <1>1, TimesMonotone
  <2>. QED BY <1>1, <2>1
<1>3. (n - 1) * b = b * n - b
  BY <1>1
<1>. QED BY <1>1, <1>2, <1>3 DEF Ceil

----------------------------------------------------------------------------
(* The limits of the plans and of the overrides *)

USE ResolutionAssumption, LimiterAssumption

\* A limit refills its burst within a minute, and its burst serves one request.
LEMMA LimitFacts ==
  ASSUME NEW requests \in Nat \ {0}, NEW rate \in Nat \ {0}, NEW scale \in Nat \ {0},
         requests * scale <= rate * 60
  PROVE  LET limit == Limit(requests, rate, scale) IN
         /\ limit.capacity \in Nat /\ limit.fill_rate \in Nat \ {0}
         /\ limit.cost \in Nat \ {0}
         /\ limit.cost <= limit.capacity
         /\ limit.capacity <= limit.fill_rate * Seconds(60)
<1>. DEFINE T == TicksPerSecond
<1>1. T \in Nat \ {0} /\ scale * T \in Nat \ {0} /\ requests * scale \in Nat \ {0}
  BY TimesPositive
<1>2. (requests * scale) * T \in Nat
  BY <1>1, TimesNat
<1>3. scale * T <= (requests * scale) * T
  <2>1. scale * 1 <= scale * requests
    BY TimesMonotone
  <2>2. T * scale <= T * (requests * scale)
    BY <1>1, <2>1, TimesMonotone
  <2>. QED BY <1>1, <2>2
<1>4. (requests * scale) * T <= rate * (60 * T)
  <2>1. T * (requests * scale) <= T * (rate * 60)
    BY <1>1, TimesMonotone
  <2>2. T * (rate * 60) = rate * (60 * T) /\ T * (requests * scale) = (requests * scale) * T
    BY <1>1
  <2>. QED BY <2>1, <2>2
<1>5. /\ Limit(requests, rate, scale).capacity = (requests * scale) * T
      /\ Limit(requests, rate, scale).fill_rate = rate
      /\ Limit(requests, rate, scale).cost = scale * T
  BY DEF Limit
<1>. QED BY <1>1, <1>2, <1>3, <1>4, <1>5 DEF Seconds

\* Every plan of PLAN_RATE_LIMITS and every override is such a limit.
THEOREM PlansRefillInAMinute ==
  ASSUME NEW plan \in Tiers, NEW override \in Nat
  PROVE  LET limit == LimitsOf(plan, override) IN
         /\ limit.capacity \in Nat /\ limit.fill_rate \in Nat \ {0}
         /\ limit.cost \in Nat \ {0}
         /\ limit.cost <= limit.capacity
         /\ limit.capacity <= limit.fill_rate * Seconds(60)
<1>1. CASE override # 0
  BY <1>1, LimitFacts DEF LimitsOf
<1>2. CASE override = 0 /\ plan = "FREE"
  BY <1>2, LimitFacts DEF LimitsOf, PLAN_RATE_LIMITS
<1>3. CASE override = 0 /\ plan = "PRO"
  <2>1. LimitsOf(plan, override) = Limit(1000, 1667, 100)
    BY <1>3 DEF LimitsOf, PLAN_RATE_LIMITS
  <2>2. 1000 * 100 <= 1667 * 60
    OBVIOUS
  <2>. QED BY <2>1, <2>2, LimitFacts
<1>4. CASE override = 0 /\ plan = "ENTERPRISE"
  <2>1. LimitsOf(plan, override) = Limit(10000, 16667, 100)
    BY <1>4 DEF LimitsOf, PLAN_RATE_LIMITS
  <2>2. 10000 * 100 <= 16667 * 60
    OBVIOUS
  <2>. QED BY <2>1, <2>2, LimitFacts
<1>. QED BY <1>1, <1>2, <1>3, <1>4 DEF Tiers

LEMMA LimitsType ==
  ASSUME NEW k \in Keys
  PROVE  /\ Limits(k).capacity \in Nat /\ Limits(k).fill_rate \in Nat \ {0}
         /\ Limits(k).cost \in Nat \ {0}
         /\ Limits(k).cost <= Limits(k).capacity
         /\ Limits(k).capacity <= Limits(k).fill_rate * Seconds(60)
  BY PlansRefillInAMinute DEF Limits

----------------------------------------------------------------------------
(* Type correctness: the bucket stays between empty and full. *)

LEMMA RefilledType ==
  ASSUME TypeOK, NEW k \in Keys, NEW now \in Nat
  PROVE  /\ Refilled(k, now) \in Nat
         /\ Refilled(k, now) <= Limits(k).capacity
         /\ Present(k) => /\ tokens[k] <= Refilled(k, now)
                          /\ Refilled(k, now) <=
                               tokens[k] + Positive(now - last[k]) * Limits(k).fill_rate
<1>1. /\ Limits(k).capacity \in Nat /\ Limits(k).fill_rate \in Nat
      /\ tokens[k] \in Nat /\ tokens[k] <= Limits(k).capacity /\ last[k] \in Nat
  BY LimitsType DEF TypeOK
<1>2. Positive(now - last[k]) \in Nat
  BY <1>1 DEF Positive
<1>3. Positive(now - last[k]) * Limits(k).fill_rate \in Nat
  BY <1>1, <1>2, TimesNat
<1>. HIDE DEF Positive
<1>. QED BY <1>1, <1>3 DEF Refilled, Lesser

LEMMA AnswerType ==
  ASSUME NEW pc \in {"allowed", "limited", "unauthorized", "failed"},
         NEW retry_after \in Nat
  PROVE  Answer(pc, retry_after) \in RequestStates
  BY DEF Answer, RequestStates

LEMMA TypeInit == Init => TypeOK
<1>1. \A k \in Keys : Limits(k).capacity \in Nat
  BY LimitsType
<1>. QED BY <1>1 DEF Init, TypeOK, RequestStates

LEMMA TypeEval ==
  ASSUME TypeOK, NEW r \in Requests, Eval(r)
  PROVE  TypeOK'
<1>1. PICK k \in Keys, now \in Nat, found \in Nat :
        /\ found = Refilled(k, now) /\ Script(r, k, now, found)
  BY RefilledType DEF Eval, TypeOK, RequestStates
<1>2. /\ Limits(k).cost \in Nat \ {0} /\ Limits(k).cost <= Limits(k).capacity
      /\ Limits(k).capacity \in Nat /\ Limits(k).fill_rate \in Nat \ {0}
      /\ found <= Limits(k).capacity
  BY <1>1, LimitsType, RefilledType
<1>3. request' \in [Requests -> RequestStates]
  <2>1. found < Limits(k).cost =>
          Ceil(Limits(k).cost - found, Seconds(Limits(k).fill_rate)) \in Nat
    <3>. SUFFICES ASSUME found < Limits(k).cost
                  PROVE  Ceil(Limits(k).cost - found, Seconds(Limits(k).fill_rate)) \in Nat
      OBVIOUS
    <3>1. Limits(k).cost - found \in Nat \ {0}
      BY <1>2
    <3>2. Seconds(Limits(k).fill_rate) \in Nat \ {0}
      BY <1>2, TimesPositive DEF Seconds
    <3>. QED BY <3>1, <3>2, CeilIsExact
  <2>2. request'[r] \in RequestStates
    BY <1>1, <1>2, <2>1, AnswerType DEF Script, TypeOK
  <2>. QED BY <1>1, <2>2 DEF Script, TypeOK
<1>4. request'[r].pc \notin {"known", "sent"}
      /\ \A q \in Requests : q # r => request'[q] = request[q]
  BY <1>1 DEF Script, TypeOK, Answer
<1>5. tokens' \in [Keys -> Nat] /\ spent' \in [Keys -> Nat]
      /\ \A j \in Keys : tokens'[j] <= Limits(j).capacity
  BY <1>1, <1>2 DEF Script, TypeOK
<1>6. Positive(last[k] - now) \in Nat
  BY DEF Positive, TypeOK
<1>7. regress' \in [Keys -> Nat]
  BY <1>1, <1>6 DEF Script, TypeOK
<1>8. /\ made' \subseteq Keys /\ last' \in [Keys -> Nat] /\ expiry' \in [Keys -> Nat]
      /\ birth' \in [Keys -> Nat] /\ clock' \in Nat /\ active' \subseteq Keys
  BY <1>1 DEF Script, TypeOK, Expiry
<1>. QED BY <1>3, <1>4, <1>5, <1>7, <1>8 DEF TypeOK

LEMMA TypeStep == TypeOK /\ [Next]_vars => TypeOK'
<1>. SUFFICES ASSUME TypeOK, [Next]_vars PROVE TypeOK'
  OBVIOUS
<1>1. CASE Tick
  BY <1>1 DEF Tick, TypeOK, Limits
<1>2. ASSUME NEW k \in Keys, Revoke(k) PROVE TypeOK'
  BY <1>2 DEF Revoke, TypeOK
<1>3. ASSUME NEW r \in Requests, NEW k \in Keys, Lookup(r, k) PROVE TypeOK'
  <2>1. CASE k \in active
    <3>1. /\ request'[r] = [request[r] EXCEPT !.pc = "known", !.key = k]
          /\ request[r] \in RequestStates
      BY <1>3, <2>1 DEF Lookup, TypeOK
    <3>2. request'[r] \in RequestStates /\ request'[r].key = k
      BY <3>1 DEF RequestStates
    <3>. QED BY <1>3, <3>2 DEF Lookup, TypeOK
  <2>2. CASE k \notin active
    <3>1. request'[r] \in RequestStates /\ request'[r].pc = "unauthorized"
      BY <1>3, <2>2, AnswerType DEF Lookup, TypeOK, Answer
    <3>. QED BY <1>3, <3>1 DEF Lookup, TypeOK
  <2>. QED BY <2>1, <2>2
<1>4. ASSUME NEW r \in Requests, Stamp(r) PROVE TypeOK'
  <2>1. /\ request'[r] = [request[r] EXCEPT !.pc = "sent", !.now = clock]
        /\ request[r] \in RequestStates /\ clock \in Nat
    BY <1>4 DEF Stamp, TypeOK
  <2>2. request'[r] \in RequestStates /\ request'[r].key = request[r].key
    BY <2>1 DEF RequestStates
  <2>. QED BY <1>4, <2>2 DEF Stamp, TypeOK
<1>5. ASSUME NEW r \in Requests, RequestFails(r) PROVE TypeOK'
  <2>1. request'[r] \in RequestStates /\ request'[r].pc = "failed"
    BY <1>5, AnswerType DEF RequestFails, TypeOK, Answer
  <2>. QED BY <1>5, <2>1 DEF RequestFails, TypeOK
<1>6. CASE UNCHANGED vars
  BY <1>6 DEF vars, TypeOK
<1>. QED BY <1>1, <1>2, <1>3, <1>4, <1>5, <1>6, TypeEval DEF Next

\* Every variable has its type, and no bucket is below empty or above full.
THEOREM TypeCorrect == Spec => []TypeOK
  BY TypeInit, TypeStep, PTL DEF Spec

----------------------------------------------------------------------------
(* The admission budget.  The invariant adds what the TTL rests on: no     *)
(* request is evaluated more than MaxDelay after its time stamp, and a     *)
(* bucket outlives its last_updated by the TTL.                            *)

BudgetOf(k) ==
  /\ k \notin made => spent[k] = 0 /\ regress[k] = 0
  /\ k \in made => /\ spent[k] + tokens[k] <=
                     Limits(k).capacity + Limits(k).fill_rate * RefillTime(k)
                   /\ Limits(k).capacity <= spent[k] + tokens[k]
                   /\ last[k] + TTL <= expiry[k]

Timely ==
  \A r \in Requests : request[r].pc = "sent" =>
    request[r].now <= clock /\ clock <= request[r].now + MaxDelay

Budget == Timely /\ \A k \in Keys : BudgetOf(k)

LEMMA TimelyStep == TypeOK /\ Timely /\ [Next]_vars => Timely'
<1>. SUFFICES ASSUME TypeOK, Timely, [Next]_vars PROVE Timely'
  OBVIOUS
<1>1. CASE Tick
  BY <1>1 DEF Tick, TypeOK, RequestStates, Timely
<1>2. ASSUME NEW k \in Keys, Revoke(k) PROVE Timely'
  BY <1>2 DEF Revoke, Timely
<1>3. ASSUME NEW r \in Requests, NEW k \in Keys, Lookup(r, k) PROVE Timely'
  BY <1>3 DEF Lookup, TypeOK, RequestStates, Timely, Answer
<1>4. ASSUME NEW r \in Requests, Stamp(r) PROVE Timely'
  BY <1>4 DEF Stamp, TypeOK, RequestStates, Timely
<1>5. ASSUME NEW r \in Requests, RequestFails(r) PROVE Timely'
  BY <1>5 DEF RequestFails, TypeOK, Timely, Answer
<1>6. ASSUME NEW r \in Requests, Eval(r) PROVE Timely'
  BY <1>6 DEF Eval, Script, TypeOK, Timely, Answer
<1>7. CASE UNCHANGED vars
  BY <1>7 DEF vars, Timely
<1>. QED BY <1>1, <1>2, <1>3, <1>4, <1>5, <1>6, <1>7 DEF Next

\* A found bucket holds no more than the refill since its last_updated; one that
\* is gone was last updated more than a minute before, and was full by now.
LEMMA FoundWithinRefill ==
  ASSUME TypeOK, NEW k \in made, NEW now \in Nat, BudgetOf(k),
         now <= clock, clock <= now + MaxDelay
  PROVE  /\ Refilled(k, now) <=
              tokens[k] + Limits(k).fill_rate * Positive(now - last[k])
         /\ tokens[k] <= Refilled(k, now)
<1>1. /\ k \in Keys /\ Limits(k).capacity \in Nat /\ Limits(k).fill_rate \in Nat
      /\ tokens[k] \in Nat /\ tokens[k] <= Limits(k).capacity /\ last[k] \in Nat
      /\ expiry[k] \in Nat /\ clock \in Nat
      /\ Limits(k).capacity <= Limits(k).fill_rate * Seconds(60)
  BY LimitsType DEF TypeOK
<1>2. CASE Present(k)
  <2>1. Positive(now - last[k]) \in Nat
    BY <1>1 DEF Positive
  <2>2. Positive(now - last[k]) * Limits(k).fill_rate =
          Limits(k).fill_rate * Positive(now - last[k])
    BY <1>1, <2>1
  <2>. QED BY <1>1, <1>2, <2>2, RefilledType
<1>3. CASE ~Present(k)
  <2>1. Seconds(60) \in Nat
    BY TimesNat DEF Seconds
  <2>2. Seconds(60) <= Positive(now - last[k]) /\ Positive(now - last[k]) \in Nat
    <3>1. expiry[k] <= clock /\ last[k] + TTL <= expiry[k]
      BY <1>1, <1>3 DEF Present, BudgetOf
    <3>2. Seconds(60) + MaxDelay <= TTL
      BY <2>1
    <3>3. Seconds(60) <= now - last[k]
      BY <1>1, <2>1, <3>1, <3>2
    <3>. QED BY <1>1, <2>1, <3>3 DEF Positive
  <2>3. Limits(k).fill_rate * Seconds(60) <=
          Limits(k).fill_rate * Positive(now - last[k])
    BY <1>1, <2>1, <2>2, TimesMonotone
  <2>4. /\ Limits(k).fill_rate * Seconds(60) \in Nat
        /\ Limits(k).fill_rate * Positive(now - last[k]) \in Nat
    BY <1>1, <2>1, <2>2, TimesNat
  <2>5. Refilled(k, now) = Limits(k).capacity
    BY <1>3 DEF Refilled
  <2>. QED BY <1>1, <2>3, <2>4, <2>5
<1>. QED BY <1>2, <1>3

LEMMA BudgetEval ==
  ASSUME TypeOK, Budget, NEW r \in Requests, Eval(r), NEW j \in Keys
  PROVE  BudgetOf(j)'
<1>1. PICK k \in Keys, now \in Nat :
        /\ Script(r, k, now, Refilled(k, now))
        /\ now <= clock /\ clock <= now + MaxDelay
  BY DEF Eval, TypeOK, RequestStates, Budget, Timely
<1>. DEFINE found == Refilled(k, now)
            cap   == Limits(k).capacity
            fill  == Limits(k).fill_rate
            cost  == Limits(k).cost
<1>2. /\ found \in Nat /\ found <= cap /\ cap \in Nat /\ fill \in Nat /\ cost \in Nat
      /\ tokens[k] \in Nat /\ spent[k] \in Nat /\ last[k] \in Nat
      /\ birth[k] \in Nat /\ regress[k] \in Nat /\ clock \in Nat
  BY RefilledType, LimitsType DEF TypeOK
<1>3. CASE j # k
  BY <1>1, <1>3 DEF Script, Budget, BudgetOf, RefillTime, TypeOK, Limits
<1>4. CASE j = k
  <2>1. /\ spent'[k] + tokens'[k] = spent[k] + found
        /\ last'[k] = now /\ expiry'[k] = clock + TTL
    BY <1>1, <1>2 DEF Script, TypeOK, Expiry
  <2>2. last'[k] + TTL <= expiry'[k]
    BY <1>1, <1>2, <2>1
  <2>3. CASE k \notin made
    <3>1. /\ regress'[k] = 0 /\ birth'[k] = now /\ spent[k] = 0
      BY <1>1, <2>3 DEF Script, TypeOK, Budget, BudgetOf
    <3>2. found = cap
      BY <2>3 DEF Refilled, Present
    <3>3. RefillTime(k)' = 0
      BY <2>1, <3>1 DEF RefillTime
    <3>4. fill * 0 = 0
      BY <1>2
    <3>5. k \in made' /\ Limits(k)' = Limits(k)
      BY <1>1 DEF Script, Limits
    <3>. QED BY <1>2, <1>4, <2>1, <2>2, <3>1, <3>2, <3>3, <3>4, <3>5 DEF BudgetOf
  <2>4. CASE k \in made
    <3>. DEFINE d == Positive(now - last[k])
    <3>1. /\ found <= tokens[k] + fill * d /\ tokens[k] <= found
          /\ spent[k] + tokens[k] <= cap + fill * RefillTime(k)
          /\ cap <= spent[k] + tokens[k]
      BY <1>1, <2>4, FoundWithinRefill DEF Budget, BudgetOf
    <3>2. d \in Nat /\ RefillTime(k) \in Int /\ RefillTime(k)' \in Int
          /\ RefillTime(k) + d <= RefillTime(k)'
      <4>1. /\ regress'[k] = regress[k] + Positive(last[k] - now)
            /\ birth'[k] = IF birth[k] <= now THEN birth[k] ELSE now
        BY <1>1, <2>4 DEF Script, TypeOK
      <4>. QED BY <1>2, <2>1, <4>1 DEF RefillTime, Positive
    <3>. HIDE DEF d
    <3>3. fill * (RefillTime(k) + d) <= fill * RefillTime(k)'
      BY <1>2, <3>2, TimesMonotone
    <3>4. fill * (RefillTime(k) + d) = fill * RefillTime(k) + fill * d
      BY <1>2, <3>2, TimesSum
    <3>5. fill * RefillTime(k) \in Int /\ fill * d \in Int /\ fill * RefillTime(k)' \in Int
      BY <1>2, <3>2
    <3>6. spent[k] + found <= cap + fill * RefillTime(k)' /\ cap <= spent[k] + found
      BY <1>2, <3>1, <3>3, <3>4, <3>5
    <3>7. k \in made' /\ Limits(k)' = Limits(k)
      BY <1>1 DEF Script, Limits
    <3>. QED BY <1>4, <2>1, <2>2, <3>6, <3>7 DEF BudgetOf
  <2>. QED BY <2>3, <2>4
<1>. QED BY <1>3, <1>4

LEMMA BudgetInvariant == Spec => []Budget
<1>1. Init => Budget
  BY DEF Init, Budget, Timely, BudgetOf
<1>2. TypeOK /\ Budget /\ [Next]_vars => Budget'
  <2>. SUFFICES ASSUME TypeOK, Budget, [Next]_vars PROVE Budget'
    OBVIOUS
  <2>1. Timely'
    BY TimelyStep DEF Budget
  <2>2. CASE \E r \in Requests : Eval(r)
    BY <2>1, <2>2, BudgetEval DEF Budget
  <2>3. CASE ~\E r \in Requests : Eval(r)
    <3>1. UNCHANGED <<made, tokens, last, expiry, spent, birth, regress>>
      BY <2>3 DEF Next, Tick, Revoke, Lookup, Stamp, RequestFails, vars
    <3>2. \A k \in Keys : BudgetOf(k)'
      BY <3>1 DEF Budget, BudgetOf, RefillTime, Limits
    <3>. QED BY <2>1, <3>2 DEF Budget
  <2>. QED BY <2>2, <2>3
<1>. QED BY <1>1, <1>2, TypeCorrect, PTL DEF Spec

\* What a key was admitted and what its bucket holds never exceed its burst and
\* the refill of the time its stamps moved on, whatever the order of requests, and
\* although the bucket expires.
THEOREM BudgetHolds == Spec => []AdmissionBudget
<1>1. TypeOK /\ Budget => AdmissionBudget
  BY DEF TypeOK, Budget, BudgetOf, AdmissionBudget
<1>. QED BY <1>1, BudgetInvariant, TypeCorrect, PTL

\* A key loses tokens to its admitted requests only.
THEOREM BurstHolds == Spec => []BurstIsHonoured
<1>1. TypeOK /\ Budget => BurstIsHonoured
  BY DEF TypeOK, Budget, BudgetOf, BurstIsHonoured
<1>. QED BY <1>1, BudgetInvariant, TypeCorrect, PTL

\* A refused request is told the least number of seconds that refills its cost.
THEOREM RetryAfterHolds == Spec => RetryAfterIsExact
<1>1. ASSUME TypeOK, [Next]_vars, NEW r \in Requests,
             request[r].pc = "sent", request'[r].pc = "limited"
      PROVE  LET k       == request[r].key
                 after   == request'[r].retry_after
                 Upon(s) == tokens'[k] + Seconds(s) * Limits(k).fill_rate
             IN after > 0 /\ Upon(after - 1) < Limits(k).cost
                          /\ Limits(k).cost <= Upon(after)
  <2>1. Eval(r)
    <3>1. request'[r] # request[r]
      BY <1>1
    <3>2. ~Tick /\ ~(\E k \in Keys : Revoke(k)) /\ ~UNCHANGED vars
      BY <3>1 DEF Tick, Revoke, vars
    <3>3. ~\E q \in Requests, k \in Keys : Lookup(q, k)
      BY <1>1, <3>1 DEF Lookup, TypeOK
    <3>4. ~\E q \in Requests : Stamp(q) \/ RequestFails(q)
      <4>. SUFFICES ASSUME NEW q \in Requests, Stamp(q) \/ RequestFails(q) PROVE FALSE
        OBVIOUS
      <4>1. q = r
        BY <1>1, <3>1 DEF Stamp, RequestFails, TypeOK
      <4>2. request[r] \in RequestStates
        BY <1>1 DEF TypeOK
      <4>3. request'[r].pc \in {"sent", "failed"}
        BY <1>1, <4>1, <4>2 DEF Stamp, RequestFails, Answer, RequestStates, TypeOK
      <4>. QED BY <1>1, <4>3
    <3>5. PICK q \in Requests : Eval(q)
      BY <1>1, <3>2, <3>3, <3>4 DEF Next
    <3>6. q = r
      <4>1. \E answer : request' = [request EXCEPT ![q] = answer]
        BY <3>5, Zenon DEF Eval, Script
      <4>. QED BY <1>1, <3>1, <4>1 DEF TypeOK
    <3>. QED BY <3>5, <3>6
  <2>2. PICK k \in Keys, found \in Nat :
          k = request[r].key /\ found = Refilled(k, request[r].now)
    BY <1>1, RefilledType DEF TypeOK, RequestStates
  <2>. DEFINE cost == Limits(k).cost
              fill == Limits(k).fill_rate
              after == Ceil(cost - found, Seconds(fill))
  <2>3. /\ found < cost /\ tokens'[k] = found /\ request'[r].retry_after = after
    BY <1>1, <2>1, <2>2, LimitsType DEF Eval, Script, Answer, TypeOK
  <2>4. cost - found \in Nat \ {0} /\ Seconds(fill) \in Nat \ {0} /\ fill \in Nat
    BY <2>3, LimitsType, TimesPositive DEF Seconds
  <2>5. /\ after \in Nat \ {0} /\ cost - found <= after * Seconds(fill)
        /\ (after - 1) * Seconds(fill) < cost - found
    BY <2>4, CeilIsExact
  <2>. HIDE DEF after
  <2>6. \A s \in Int : Seconds(s) * fill = s * Seconds(fill)
    BY <2>4 DEF Seconds
  <2>7. /\ Seconds(after) * fill = after * Seconds(fill)
        /\ Seconds(after - 1) * fill = (after - 1) * Seconds(fill)
    BY <2>5, <2>6
  <2>8. /\ after * Seconds(fill) \in Int /\ (after - 1) * Seconds(fill) \in Int
        /\ cost \in Int
    BY <2>4, <2>5, LimitsType
  <2>9. /\ found + Seconds(after - 1) * fill < cost
        /\ cost <= found + Seconds(after) * fill /\ after > 0
    BY <2>5, <2>7, <2>8
  <2>. QED BY <2>2, <2>3, <2>9
<1>2. TypeOK /\ [Next]_vars =>
        [\A r \in Requests :
           request[r].pc = "sent" /\ request'[r].pc = "limited" =>
             LET k       == request[r].key
                 after   == request'[r].retry_after
                 Upon(s) == tokens'[k] + Seconds(s) * Limits(k).fill_rate
             IN after > 0 /\ Upon(after - 1) < Limits(k).cost
                          /\ Limits(k).cost <= Upon(after)]_vars
  BY <1>1
<1>. QED BY <1>2, TypeCorrect, PTL DEF Spec, RetryAfterIsExact

----------------------------------------------------------------------------
(* The rate over every window, and the ideal bucket.                       *)

\* What evaluating a request does: its key and its stamp, and that the stamp is not
\* older than the delay.
LEMMA EvalOf ==
  ASSUME TypeOK, Timely, NEW r \in Requests, Eval(r)
  PROVE  \E k \in Keys, now \in Nat :
           /\ Script(r, k, now, Refilled(k, now))
           /\ now <= clock /\ clock <= now + MaxDelay
  BY DEF Eval, TypeOK, RequestStates, Timely

\* A step that evaluates no request leaves every bucket alone.
LEMMA BucketsAside ==
  ASSUME [Next]_vars, ~\E r \in Requests : Eval(r)
  PROVE  UNCHANGED <<made, tokens, last, expiry, spent, birth, regress>>
  BY DEF Next, Tick, Revoke, Lookup, Stamp, RequestFails, vars

LEMMA RateStep ==
  ASSUME TypeOK, Budget, [Next]_vars, NEW j \in made
  PROVE  (spent'[j] + tokens'[j]) - (spent[j] + tokens[j])
           <= Limits(j).fill_rate * ((last'[j] + regress'[j]) - (last[j] + regress[j]))
<1>1. /\ j \in Keys /\ Limits(j).fill_rate \in Nat
      /\ spent[j] \in Nat /\ tokens[j] \in Nat /\ last[j] \in Nat /\ regress[j] \in Nat
  BY LimitsType DEF TypeOK
<1>2. CASE UNCHANGED <<tokens, last, spent, regress>>
  <2>1. Limits(j).fill_rate * 0 = 0
    BY <1>1
  <2>. QED BY <1>1, <1>2, <2>1
<1>3. CASE \E r \in Requests : Eval(r)
  <2>1. PICK r \in Requests, k \in Keys, now \in Nat :
          /\ Script(r, k, now, Refilled(k, now))
          /\ now <= clock /\ clock <= now + MaxDelay
    BY <1>3, EvalOf DEF Budget
  <2>2. CASE j # k
    BY <1>2, <2>1, <2>2, <1>1 DEF Script, TypeOK
  <2>3. CASE j = k
    <3>. DEFINE d == Positive(now - last[k])
    <3>1. /\ Refilled(k, now) <= tokens[k] + Limits(k).fill_rate * d
          /\ Refilled(k, now) \in Nat
      BY <2>1, <2>3, FoundWithinRefill, RefilledType DEF Budget
    <3>2. Limits(k).cost \in Nat
      BY LimitsType
    <3>3. /\ spent'[k] + tokens'[k] = spent[k] + Refilled(k, now)
          /\ last'[k] = now /\ regress'[k] = regress[k] + Positive(last[k] - now)
      BY <1>1, <2>1, <2>3, <3>1, <3>2 DEF Script, TypeOK
    <3>4. (last'[k] + regress'[k]) - (last[k] + regress[k]) = d /\ d \in Nat
      BY <1>1, <2>3, <3>3 DEF Positive
    <3>. HIDE DEF d
    <3>5. Limits(k).fill_rate * d \in Nat
      BY <1>1, <2>3, <3>4, TimesNat
    <3>6. (spent'[k] + tokens'[k]) - (spent[k] + tokens[k]) <= Limits(k).fill_rate * d
      BY <1>1, <2>3, <3>1, <3>3, <3>5
    <3>. QED BY <2>3, <3>4, <3>6
  <2>. QED BY <2>2, <2>3
<1>. QED BY <1>2, <1>3, BucketsAside

\* Between any two moments a key is admitted no more than its bucket held and the
\* refill for the time its stamps moved forward: no order of requests and no expiry
\* gives it more.
THEOREM RateHolds == Spec => RateHoldsInAnyWindow
<1>1. TypeOK /\ Budget /\ [Next]_vars =>
        [\A k \in made :
           (spent'[k] + tokens'[k]) - (spent[k] + tokens[k])
             <= Limits(k).fill_rate * ((last'[k] + regress'[k]) - (last[k] + regress[k]))]_vars
  BY RateStep
<1>. QED BY <1>1, BudgetInvariant, TypeCorrect, PTL DEF Spec, RateHoldsInAnyWindow

\* The ideal bucket holds as much as the script finds: one that was dropped has had
\* the time to be full.
LEMMA FilledIsRefilled ==
  ASSUME TypeOK, Budget, NEW k \in Keys, NEW now \in Nat,
         now <= clock, clock <= now + MaxDelay
  PROVE  B!Filled(k, now) = Refilled(k, now)
<1>. DEFINE cap  == Limits(k).capacity
            fill == Limits(k).fill_rate
            d    == Positive(now - last[k])
<1>1. cap \in Nat /\ fill \in Nat /\ tokens[k] \in Nat /\ tokens[k] <= cap
      /\ last[k] \in Nat
  BY LimitsType DEF TypeOK
<1>2. B!Elapsed(k, now) = d /\ d \in Nat
  BY <1>1 DEF B!Elapsed, Positive
<1>. HIDE DEF d
<1>3. d * fill \in Nat /\ fill * d = d * fill
  BY <1>1, <1>2, TimesNat
<1>4. B!Filled(k, now) = Lesser(cap, LevelBar[k] + d * fill)
  BY <1>2 DEF B!Filled, B!Least, Lesser
<1>5. CASE k \notin made
  BY <1>1, <1>3, <1>4, <1>5 DEF LevelBar, Lesser, Refilled, Present
<1>6. CASE k \in made /\ Present(k)
  BY <1>4, <1>6 DEF LevelBar, Refilled, d
<1>7. CASE k \in made /\ ~Present(k)
  <2>1. Refilled(k, now) = cap
    BY <1>7 DEF Refilled
  <2>2. cap <= tokens[k] + fill * d
    BY <1>7, <2>1, FoundWithinRefill DEF Budget, d
  <2>. QED BY <1>1, <1>3, <1>4, <1>7, <2>1, <2>2 DEF LevelBar, Lesser
<1>. QED BY <1>5, <1>6, <1>7

LEMMA EvalDecides ==
  ASSUME TypeOK, Budget, NEW r \in Requests, Eval(r)
  PROVE  B!Next
<1>1. PICK k \in Keys, now \in Nat :
        /\ Script(r, k, now, Refilled(k, now))
        /\ now <= clock /\ clock <= now + MaxDelay
  BY EvalOf DEF Budget
<1>2. now \in (clock - MaxDelay)..clock
  BY <1>1 DEF TypeOK
<1>3. B!Filled(k, now) = Refilled(k, now)
  BY <1>1, FilledIsRefilled
<1>4. last' = [last EXCEPT ![k] = now] /\ UNCHANGED clock
  BY <1>1 DEF Script
<1>5. LevelBar' = [LevelBar EXCEPT ![k] = tokens'[k]]
  <2>1. /\ made' = made \cup {k} /\ \A j \in Keys : Limits(j)' = Limits(j)
        /\ \A j \in Keys : j # k => tokens'[j] = tokens[j]
    BY <1>1 DEF Script, Limits, TypeOK
  <2>. QED BY <2>1 DEF LevelBar
<1>6. /\ Refilled(k, now) \in Nat /\ Limits(k).cost \in Nat
      /\ [j \in Keys |-> Limits(j)][k] = Limits(k)
  BY RefilledType, LimitsType
<1>7. CASE Refilled(k, now) >= Limits(k).cost
  <2>1. tokens'[k] = Refilled(k, now) - Limits(k).cost
        /\ spent' = [spent EXCEPT ![k] = @ + Limits(k).cost]
    BY <1>1, <1>7 DEF Script, TypeOK
  <2>2. B!Admit(k, now)
    BY <1>3, <1>5, <1>6, <1>7, <2>1 DEF B!Admit
  <2>. QED BY <1>2, <1>4, <2>2 DEF B!Next, B!Decide
<1>8. CASE ~(Refilled(k, now) >= Limits(k).cost)
  <2>1. tokens'[k] = Refilled(k, now) /\ UNCHANGED spent
    BY <1>1, <1>8 DEF Script, TypeOK
  <2>2. B!Refuse(k, now)
    BY <1>3, <1>5, <1>6, <1>8, <2>1 DEF B!Refuse
  <2>. QED BY <1>2, <1>4, <2>2 DEF B!Next, B!Decide
<1>. QED BY <1>7, <1>8

\* A publisher cannot tell the buckets in Redis, which come with a request and go
\* with their TTL, from buckets that were always there.
THEOREM LimiterImplementsTokenBucket == Spec => ImplementsTokenBucket
<1>1. Init => B!Init
  BY DEF Init, B!Init, LevelBar
<1>2. TypeOK /\ Budget /\ [Next]_vars => [B!Next]_(B!vars)
  <2>. SUFFICES ASSUME TypeOK, Budget, [Next]_vars PROVE B!Next \/ UNCHANGED B!vars
    OBVIOUS
  <2>1. CASE \E r \in Requests : Eval(r)
    BY <2>1, EvalDecides
  <2>2. CASE ~\E r \in Requests : Eval(r)
    <3>1. UNCHANGED <<LevelBar, last, spent>>
      BY <2>2, BucketsAside DEF LevelBar, Limits
    <3>2. clock' > clock \/ UNCHANGED clock
      <4>1. CASE Tick
        BY <4>1 DEF Tick, TypeOK
      <4>2. CASE ~Tick
        BY <2>2, <4>2 DEF Next, Revoke, Lookup, Stamp, RequestFails, vars
      <4>. QED BY <4>1, <4>2
    <3>. QED BY <3>1, <3>2 DEF B!Next, B!Pass, B!vars
  <2>. QED BY <2>1, <2>2
<1>. QED BY <1>1, <1>2, BudgetInvariant, TypeCorrect, PTL
     DEF Spec, ImplementsTokenBucket, B!Spec
=============================================================================
