------------------------- MODULE MCDeliveryEngine --------------------------
(* Small instances of DeliveryEngine for TLC. *)
EXTENDS DeliveryRefinement, TLC

\* Workers and replays are interchangeable, so the safety runs need one
\* representative of the states that differ by a permutation of them.
MCSymmetry == Permutations(Workers) \cup Permutations(Replays)
=============================================================================
