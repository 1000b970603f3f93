--------------------------- MODULE MCRateLimiter ---------------------------
(* Small instances of RateLimiter for TLC. *)
EXTENDS RateLimiter, TLC

CONSTANT MCLimit   \* the override of every key

\* Every key has the same override: the plans differ only in scale.
MCPlan     == [k \in Keys |-> "FREE"]
MCOverride == [k \in Keys |-> MCLimit]
MCSymmetry == Permutations(Requests)
=============================================================================
