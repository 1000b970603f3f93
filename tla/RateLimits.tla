----------------------------- MODULE RateLimits -----------------------------
(***************************************************************************)
(* The token bucket limits of an API key.  The fractions of the code are   *)
(* integers here.  Time is counted in ticks, a fraction of a second, and   *)
(* tokens in a unit per limit, such that one tick adds a whole number of   *)
(* units: 1/100 of a token per tick of a second for the plans, 1/60 for an *)
(* override (capacity / 60.0).                                             *)
(***************************************************************************)
EXTENDS Integers

CONSTANT TicksPerSecond   \* the resolution of time.time()

ASSUME ResolutionAssumption == TicksPerSecond \in Nat \ {0}

Tiers == {"FREE", "PRO", "ENTERPRISE"}

\* A burst of `requests`, refilled by `rate` / `scale` requests per second.
Limit(requests, rate, scale) ==
  [capacity  |-> requests * scale * TicksPerSecond,   \* units
   fill_rate |-> rate,                                \* units per tick
   cost      |-> scale * TicksPerSecond]              \* units per request

PLAN_RATE_LIMITS(plan) ==
  CASE plan = "FREE"       -> Limit(60, 100, 100)
    [] plan = "PRO"        -> Limit(1000, 1667, 100)
    [] plan = "ENTERPRISE" -> Limit(10000, 16667, 100)

\* 0 stands for a rate_limit_override that is NULL.  The owner of a key is there:
\* with a user that is deleted between the lookup of the key and its own, the code
\* takes the plan FREE, for a key that is deleted with its user.
LimitsOf(plan, override) ==
  IF override # 0 THEN Limit(override, override, 60) ELSE PLAN_RATE_LIMITS(plan)

Seconds(n) == n * TicksPerSecond

\* Slip: int() instead of math.ceil().
Floor(a, b) == a \div b

\* math.ceil(a / b) for a natural a and a positive b
Ceil(a, b) == (a + b - 1) \div b
=============================================================================
