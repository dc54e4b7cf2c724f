------------------------------ MODULE MCInvites ------------------------------
(* Two requests at once on two organisations: an address invited to both,   *)
(* invited twice to one, or signing up by itself meanwhile.                 *)
EXTENDS Invites, TLC

Symmetry == Permutations(Handlers) \cup Permutations(Orgs) \cup Permutations(Emails)
            \cup Permutations(Ids)
=============================================================================
