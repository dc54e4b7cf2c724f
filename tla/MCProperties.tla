---------------------------- MODULE MCProperties -----------------------------
(* Two requests at once, two organisations and two users, each of whom can  *)
(* be anything in either: ids and slugs of one are tried in the other.      *)
EXTENDS Properties, TLC

Symmetry == Permutations(Handlers) \cup Permutations(Users) \cup Permutations(Orgs)
            \cup Permutations(Slugs) \cup Permutations(Ids)
=============================================================================
