------------------------------ MODULE MCBilling ------------------------------
(***************************************************************************)
(* Small instances of BillingProfiles for TLC.                             *)
(***************************************************************************)
EXTENDS BillingProfiles, TLC

MCProfiles2 == 1..2
MCProfiles3 == 1..3

\* Tax ids, and sessions, are interchangeable where no liveness is checked.
TaxSymmetry     == Permutations(TaxIds)
SessionSymmetry == Permutations(TaxIds) \cup Permutations(Sessions)
=============================================================================
