----------------------------- MODULE MCAccounts -----------------------------
(* A small instance of Accounts for TLC. *)
EXTENDS Accounts, TLC

CONSTANTS
  Lower, Upper,       \* one address, its domain in lower and in upper case
  Short, Cut, TooLong \* passwords: Cut is what 72 bytes keep of TooLong

MCEmails     == {Lower, Upper}
MCNormalized == [e \in MCEmails |-> Lower]
MCPasswords  == {Short, Cut, TooLong}
MCPrefix     == [p \in MCPasswords |-> IF p = TooLong THEN Cut ELSE p]
MCSymmetry   == Permutations(Registrations) \cup Permutations(Calls)
=============================================================================
