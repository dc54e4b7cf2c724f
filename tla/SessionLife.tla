----------------------------- MODULE SessionLife -----------------------------
(***************************************************************************)
(* What a session identifier may go through, whatever stores it: it is     *)
(* issued once, with the second factor cleared or not, keeps that until it *)
(* ends, and ends for good.                                                *)
(***************************************************************************)
CONSTANT Sids

VARIABLE life    \* "unborn", "plain", "elevated" or "ended", for each identifier

LifeInit == life = [s \in Sids |-> "unborn"]

Issue(s, as) ==
    /\ life[s] = "unborn"
    /\ life' = [life EXCEPT ![s] = as]

\* Any number of sessions can end at once: time passes for all of them.
End(S) ==
    /\ \A s \in S : life[s] \in {"plain", "elevated"}
    /\ life' = [s \in Sids |-> IF s \in S THEN "ended" ELSE life[s]]

LifeNext == \/ \E s \in Sids, as \in {"plain", "elevated"} : Issue(s, as)
            \/ \E S \in SUBSET Sids : End(S)

LifeSpec == LifeInit /\ [][LifeNext]_life
=============================================================================
