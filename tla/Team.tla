-------------------------------- MODULE Team --------------------------------
(***************************************************************************)
(* What the team of an organisation promises, whatever carries it out: a   *)
(* person is a member because they founded the organisation or because     *)
(* they accepted, once, a pending invitation addressed to them; there is   *)
(* one pending invitation to an address at a time, and a settled one stays *)
(* settled.                                                                *)
(***************************************************************************)
CONSTANTS Orgs, Emails, Roles, Ids, NoInvite, NoRole, Owner

VARIABLES
    book,      \* the invitations: where to, for whom, as what, how it stands
    members    \* the role each person has in each organisation

teamVars == <<book, members>>

TeamInit ==
    /\ book = [i \in Ids |-> NoInvite]
    /\ members = [m \in Emails \X Orgs |-> NoRole]

Found(e, o) ==
    /\ \A d \in Emails : members[<<d, o>>] = NoRole
    /\ members' = [members EXCEPT ![<<e, o>>] = Owner]
    /\ UNCHANGED book

Invite(i, o, e, r) ==
    /\ book[i] = NoInvite
    /\ \A j \in Ids : book[j] # NoInvite /\ book[j].org = o /\ book[j].email = e
                      => book[j].status # "pending"
    /\ book' = [book EXCEPT ![i] = [org |-> o, email |-> e, role |-> r, status |-> "pending"]]
    /\ UNCHANGED members

Settle(i, how) ==
    /\ book[i] # NoInvite
    /\ book[i].status = "pending"
    /\ book' = [book EXCEPT ![i].status = how]

Cancel(i) ==
    /\ Settle(i, "cancelled")
    /\ UNCHANGED members

\* A member keeps the role they have.
Accept(i) ==
    /\ Settle(i, "accepted")
    /\ members' = [members EXCEPT ![<<book[i].email, book[i].org>>] =
                      IF @ = NoRole THEN book[i].role ELSE @]

TeamNext ==
    \/ \E e \in Emails, o \in Orgs : Found(e, o)
    \/ \E i \in Ids, o \in Orgs, e \in Emails, r \in Roles \ {Owner} : Invite(i, o, e, r)
    \/ \E i \in Ids : Cancel(i) \/ Accept(i)

TeamSpec == TeamInit /\ [][TeamNext]_teamVars
=============================================================================
