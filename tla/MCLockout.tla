------------------------------ MODULE MCLockout ------------------------------
(* Three logins at once on an account about to reach the first and the      *)
(* second length of the schedule; the lengths keep their order, not their   *)
(* proportions.                                                             *)
EXTENDS Lockout, TLC

Symmetry == Permutations(Logins)
=============================================================================
