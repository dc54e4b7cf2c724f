----------------------------- MODULE MCSessions -----------------------------
(* Two requests in flight at a time and two identifiers: a session and the   *)
(* one it is stepped up to, or those of two logins.                          *)
EXTENDS Sessions, TLC

Symmetry == Permutations(Requests) \cup Permutations(Sids)
=============================================================================
