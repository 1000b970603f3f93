-------------------------- MODULE MCDeliveryStats --------------------------
(* A small instance of DeliveryStats for TLC. *)
EXTENDS DeliveryStats, TLC

CONSTANTS Accepted, Moved   \* an answer 200 and an answer 300

MCCodeOf == Accepted :> 200 @@ Moved :> 300
=============================================================================
