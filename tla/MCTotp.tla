------------------------------- MODULE MCTotp -------------------------------
(* Three requests of one user at once, and as many secrets and batches as   *)
(* an enrolment, its removal and a second enrolment need beside a race.     *)
EXTENDS Totp, TLC

Symmetry == Permutations(Handlers) \cup Permutations(Secrets) \cup Permutations(Batches)
=============================================================================
