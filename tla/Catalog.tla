------------------------------- MODULE Catalog -------------------------------
(***************************************************************************)
(* What the properties of the organisations promise, whatever stores them: *)
(* under a slug an organisation has at most one property; a property stays *)
(* in its organisation, is taken off for good, and its notes, once given,  *)
(* are replaced and never lost.                                            *)
(***************************************************************************)
CONSTANTS Orgs, Slugs, Texts, Ids, NoId, NoText

VARIABLES
    shelf,     \* the property an organisation has under a slug
    notes,     \* the notes of each property
    spent      \* the properties that are or were on a shelf

catalogVars == <<shelf, notes, spent>>

CatalogInit ==
    /\ shelf = [k \in Orgs \X Slugs |-> NoId]
    /\ notes = [i \in Ids |-> NoText]
    /\ spent = {}

Given(i, t) == notes' = [notes EXCEPT ![i] = IF t = NoText THEN @ ELSE t]

Add(o, s, i, t) ==
    /\ shelf[<<o, s>>] = NoId
    /\ i \in Ids \ spent
    /\ shelf' = [shelf EXCEPT ![<<o, s>>] = i]
    /\ spent' = spent \cup {i}
    /\ Given(i, t)

\* To another slug that is free, or to its own.
Revise(o, s, to, t) ==
    /\ shelf[<<o, s>>] # NoId
    /\ to = s \/ shelf[<<o, to>>] = NoId
    /\ shelf' = [shelf EXCEPT ![<<o, s>>] = NoId, ![<<o, to>>] = shelf[<<o, s>>]]
    /\ Given(shelf[<<o, s>>], t)
    /\ UNCHANGED spent

Remove(o, s) ==
    /\ shelf[<<o, s>>] # NoId
    /\ shelf' = [shelf EXCEPT ![<<o, s>>] = NoId]
    /\ UNCHANGED <<notes, spent>>

CatalogNext ==
    \E o \in Orgs, s \in Slugs :
        \/ \E i \in Ids, t \in Texts \cup {NoText} : Add(o, s, i, t)
        \/ \E to \in Slugs, t \in Texts \cup {NoText} : Revise(o, s, to, t)
        \/ Remove(o, s)

CatalogSpec == CatalogInit /\ [][CatalogNext]_catalogVars
=============================================================================
