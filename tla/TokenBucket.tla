---------------------------- MODULE TokenBucket -----------------------------
(***************************************************************************)
(* What the limiter is meant to be to each key: a bucket that is full from *)
(* the beginning of time, that nobody ever takes away or makes anew, and   *)
(* that is refilled up to the time stamp of each request it decides on.    *)
(*                                                                         *)
(* Like last_updated in the code, its own stamp follows each request, back *)
(* too, and the interval it moved back over is refilled once more.  What   *)
(* this gives away is for RateIsEnforced of RateLimiter to find.           *)
(***************************************************************************)
EXTENDS Integers

CONSTANTS
  Keys,
  LimitOf,    \* of each key: capacity, fill_rate and cost
  MaxDelay    \* how old the time stamp of a request may be

VARIABLES
  clock,
  level,      \* what each bucket holds
  at,         \* the time stamp it was last decided for
  spent       \* what was taken from it

vars == <<clock, level, at, spent>>

Least(a, b) == IF a <= b THEN a ELSE b

\* No time runs backward in a bucket.
Elapsed(k, now) == IF now >= at[k] THEN now - at[k] ELSE 0

Filled(k, now) ==
  Least(LimitOf[k].capacity, level[k] + Elapsed(k, now) * LimitOf[k].fill_rate)

Init ==
  /\ clock = 0
  /\ level = [k \in Keys |-> LimitOf[k].capacity]
  /\ at    = [k \in Keys |-> 0]
  /\ spent = [k \in Keys |-> 0]

Pass == clock' > clock /\ UNCHANGED <<level, at, spent>>

\* A request is admitted exactly when its cost is there.
Admit(k, now) ==
  /\ Filled(k, now) >= LimitOf[k].cost
  /\ level' = [level EXCEPT ![k] = Filled(k, now) - LimitOf[k].cost]
  /\ spent' = [spent EXCEPT ![k] = @ + LimitOf[k].cost]

Refuse(k, now) ==
  /\ Filled(k, now) < LimitOf[k].cost
  /\ level' = [level EXCEPT ![k] = Filled(k, now)]
  /\ UNCHANGED spent

Decide(k, now) ==
  /\ Admit(k, now) \/ Refuse(k, now)
  /\ at' = [at EXCEPT ![k] = now]
  /\ UNCHANGED clock

Next == Pass \/ \E k \in Keys : \E now \in (clock - MaxDelay)..clock : Decide(k, now)

Spec == Init /\ [][Next]_vars
=============================================================================
