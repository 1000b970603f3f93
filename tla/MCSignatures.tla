---------------------------- MODULE MCSignatures ----------------------------
(* Small instances of Signatures for TLC. *)
EXTENDS Signatures, TLC

MCSymmetry == Permutations(Secrets) \cup Permutations(Deliveries)
=============================================================================
