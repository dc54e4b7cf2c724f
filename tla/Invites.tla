------------------------------ MODULE Invites -------------------------------
(***************************************************************************)
(* Sign-up, invitations and how people join an organisation                *)
(* (apps/api/src/invites/, signup_organization in auth/service.rs, tables  *)
(* users, organizations, organization_members and organization_invites).   *)
(* Any number of requests run at once; an action is one statement or one   *)
(* transaction, and a request may stop between two of them.                *)
(*                                                                         *)
(* A user is their email, which is unique.  An invitation is named by its  *)
(* token, known to whoever got the mail.  Nothing removes a member or      *)
(* lowers a role, so the role a request read first still holds later.      *)
(***************************************************************************)
EXTENDS Naturals

CONSTANTS
    Handlers,     \* requests that run concurrently
    Orgs,
    Emails,
    Ids,          \* invitations, each token drawn at most once
    InviteTtl,    \* invite_ttl, in ticks of the clock
    MaxTime,      \* bound: the clock stops there
    NoInvite, NoId, NoUser, NoRole

Owner == "owner"
Roles == {Owner, "manager", "guest"}     \* cleaner and guest differ in no check here
Status == {"pending", "accepted", "cancelled"}
Rows == [org : Orgs, email : Emails, role : Roles, status : Status, expires : Nat, at : Nat]
Entries == [org : Orgs, email : Emails, role : Roles, status : Status]

ASSUME BoundAssumption == InviteTtl \in Nat \ {0} /\ MaxTime \in Nat
ASSUME NullAssumption ==
    NoInvite \notin Rows \cup Entries /\ NoId \notin Ids /\ NoUser \notin Emails /\ NoRole \notin Roles

VARIABLES
    now,         \* wall clock, of the server and of Postgres
    users,       \* the emails that have an account
    members,     \* organization_members: the role of a user in an organisation
    invites,     \* organization_invites; at is accepted_at
    mailed,      \* the invitations whose mail went out
    handler      \* where each request stands, with its local variables

vars == <<now, users, members, invites, mailed, handler>>

\* Named for the next await.
Handler ==
    [pc : {"idle"}, id : {NoId}, user : {NoUser}]
    \cup [pc : {"send", "user", "refused"}, id : Ids, user : {NoUser}]
    \cup [pc : {"accept"}, id : Ids, user : Emails]

NoHandler == [pc |-> "idle", id |-> NoId, user |-> NoUser]

TypeOK ==
    /\ now \in Nat
    /\ users \subseteq Emails
    /\ members \in [Emails \X Orgs -> Roles \cup {NoRole}]
    /\ invites \in [Ids -> Rows \cup {NoInvite}]
    /\ mailed \subseteq Ids
    /\ handler \in [Handlers -> Handler]

Init ==
    /\ now = 0
    /\ users = {}
    /\ members = [m \in Emails \X Orgs |-> NoRole]
    /\ invites = [i \in Ids |-> NoInvite]
    /\ mailed = {}
    /\ handler = [h \in Handlers |-> NoHandler]

-----------------------------------------------------------------------------
Founded(o) == \E e \in Emails : members[<<e, o>>] # NoRole

Pending(i) == invites[i] # NoInvite /\ invites[i].status = "pending"

Goto(h, where, i, e) ==
    handler' = [handler EXCEPT ![h] = [pc |-> where, id |-> i, user |-> e]]
Ends(h) == handler' = [handler EXCEPT ![h] = NoHandler]

\* create_organization_with_owner: organisation, user and membership in one
\* transaction; a taken email or slug rolls it back.
SignupInTwo(h, e, o) ==
    /\ handler[h].pc = "idle"
    /\ ~Founded(o)
    /\ users' = users \cup {e}
    /\ members' = IF e \in users THEN [members EXCEPT ![<<e, o>>] = Owner] ELSE members
    /\ UNCHANGED <<now, invites, mailed, handler>>

SignupOrganization(h, e, o) ==
    /\ handler[h].pc = "idle"
    /\ e \notin users
    /\ ~Founded(o)
    /\ users' = users \cup {e}
    /\ members' = [members EXCEPT ![<<e, o>>] = Owner]
    /\ UNCHANGED <<now, invites, mailed, handler>>

\* create_invite past ensure_role(Manager): the INSERT.  The unique index on
\* (org_id, email) counts expired rows as pending; whether the invitee is a
\* member already is not looked at.
InsertInvite(h, i, o, e, r) ==
    /\ invites[i] = NoInvite
    /\ invites' = [invites EXCEPT ![i] = [org |-> o, email |-> e, role |-> r, status |-> "pending",
                                          expires |-> now + InviteTtl, at |-> 0]]
    /\ Goto(h, "send", i, NoUser)
    /\ UNCHANGED <<now, users, members, mailed>>

Manages(o) == \E m \in Emails : members[<<m, o>>] \in {Owner, "manager"}

Create(h, i, o, e, r) ==
    /\ handler[h].pc = "idle"
    /\ Manages(o)
    /\ r # Owner
    /\ \A j \in Ids : ~(Pending(j) /\ invites[j].org = o /\ invites[j].email = e)
    /\ InsertInvite(h, i, o, e, r)

\* The INSERT met i in the unique index: AlreadyPending, a 409.
CreateRefused(h, i) ==
    /\ handler[h].pc = "idle"
    /\ Pending(i)
    /\ Manages(invites[i].org)
    /\ Goto(h, "refused", i, NoUser)
    /\ UNCHANGED <<now, users, members, invites, mailed>>

\* What list_pending shows the managers of the organisation.
Listed(i) == Pending(i) /\ now < invites[i].expires

\* The mail goes out, or the transport reports that it did not.
Send(h) ==
    /\ handler[h].pc = "send"
    /\ mailed' = mailed \cup {handler[h].id}
    /\ Ends(h)
    /\ UNCHANGED <<now, users, members, invites>>

\* cancel: one UPDATE, expired rows included.
Cancel(h, i) ==
    /\ handler[h].pc = "idle"
    /\ Pending(i)
    /\ Manages(invites[i].org)
    /\ invites' = [invites EXCEPT ![i].status = "cancelled"]
    /\ UNCHANGED <<now, users, members, mailed, handler>>

\* find_active_by_token_hash found the row pending and in time.
Finds(h, i) ==
    /\ handler[h].pc = "idle"
    /\ i \in mailed
    /\ Listed(i)

\* accept_as: a signed-in user with the token; another address is a 404.
AcceptFind(h, i, e) ==
    /\ Finds(h, i)
    /\ e \in users
    /\ e = invites[i].email
    /\ Goto(h, "accept", i, e)
    /\ UNCHANGED <<now, users, members, invites, mailed>>

\* signup_and_accept: anyone with the token.
SignupWithoutUser(h, i) ==
    /\ Finds(h, i)
    /\ Goto(h, "accept", i, NoUser)
    /\ UNCHANGED <<now, users, members, invites, mailed>>

SignupFind(h, i) ==
    /\ Finds(h, i)
    /\ Goto(h, "user", i, NoUser)
    /\ UNCHANGED <<now, users, members, invites, mailed>>

\* create_user_with_email, a statement of its own; a taken address is a 409.
SignupUser(h) ==
    LET e == invites[handler[h].id].email IN
    /\ handler[h].pc = "user"
    /\ e \notin users
    /\ users' = users \cup {e}
    /\ Goto(h, "accept", handler[h].id, e)
    /\ UNCHANGED <<now, members, invites, mailed>>

SignupTaken(h) ==
    /\ handler[h].pc = "user"
    /\ invites[handler[h].id].email \in users
    /\ Ends(h)
    /\ UNCHANGED <<now, users, members, invites, mailed>>

\* accept: consume the row and link the member in one transaction.  The session
\* of a sign-up is created next (Sessions!Create).
Consume(h) ==
    LET i == handler[h].id IN
    /\ handler[h].pc = "accept"
    /\ invites' = [invites EXCEPT ![i].status = "accepted", ![i].at = now]
    /\ members' = [members EXCEPT ![<<handler[h].user, invites[i].org>>] =
                      IF @ = NoRole THEN invites[i].role ELSE @]
    /\ Ends(h)
    /\ UNCHANGED <<now, users, mailed>>

AcceptExpired(h) == handler[h].pc = "accept" /\ Pending(handler[h].id) /\ Consume(h)

AcceptTaken(h) ==
    /\ handler[h].pc = "accept"
    /\ now < invites[handler[h].id].expires
    /\ Consume(h)

Accept(h) ==
    /\ handler[h].pc = "accept"
    /\ Pending(handler[h].id)
    /\ now < invites[handler[h].id].expires
    /\ Consume(h)

\* The UPDATE matched no row: cancelled, consumed or expired since the lookup.
AcceptTooLate(h) ==
    /\ handler[h].pc = "accept"
    /\ ~(Pending(handler[h].id) /\ now < invites[handler[h].id].expires)
    /\ Ends(h)
    /\ UNCHANGED <<now, users, members, invites, mailed>>

\* The request fails or is dropped between two statements, or answers its 409.
GiveUp(h) ==
    /\ handler[h].pc # "idle"
    /\ Ends(h)
    /\ UNCHANGED <<now, users, members, invites, mailed>>

Tick ==
    /\ now < MaxTime
    /\ now' = now + 1
    /\ UNCHANGED <<users, members, invites, mailed, handler>>

Next ==
    \/ \E h \in Handlers :
          \/ \E e \in Emails, o \in Orgs : SignupOrganization(h, e, o)
          \/ \E i \in Ids, o \in Orgs, e \in Emails, r \in Roles : Create(h, i, o, e, r)
          \/ Send(h)
          \/ \E i \in Ids : Cancel(h, i) \/ CreateRefused(h, i)
          \/ \E i \in Ids, e \in Emails : AcceptFind(h, i, e)
          \/ \E i \in Ids : SignupFind(h, i)
          \/ SignupUser(h) \/ SignupTaken(h)
          \/ Accept(h) \/ AcceptTooLate(h) \/ GiveUp(h)
    \/ Tick

Spec == Init /\ [][Next]_vars

-----------------------------------------------------------------------------
(* Properties *)

\* What an invitation says of the team, without its dates.
TeamBook == [i \in Ids |-> IF invites[i] = NoInvite THEN NoInvite
                           ELSE [org |-> invites[i].org, email |-> invites[i].email,
                                 role |-> invites[i].role, status |-> invites[i].status]]
Book == INSTANCE Team WITH book <- TeamBook

\* Whatever requests do at once, the tables are a Team: a membership comes from
\* founding or from one pending invitation to that address, consumed with it;
\* a settled invitation stays settled; one pending invitation per address.
ImplementsTeam == Book!TeamSpec

\* An invitation is accepted before it expires, however long the request took
\* between its lookup and its transaction.
AcceptedInTime ==
    \A i \in Ids : invites[i] # NoInvite /\ invites[i].status = "accepted"
                   => invites[i].at < invites[i].expires

\* With no request at work on it, an account that belongs to no organisation is
\* one a sign-up by invitation left behind: its user was created and the
\* transaction that links it came too late or never (invites/service.rs:239-251).
\* Founding an organisation leaves none.
LoneAccountsWereInvited ==
    \A e \in users :
        \/ \E h \in Handlers : handler[h].user = e
        \/ \E o \in Orgs : members[<<e, o>>] # NoRole
        \/ \E i \in Ids : i \in mailed /\ invites[i].email = e

\* What migration 0004 says of the index ("only one pending invite", pending
\* being in time too, ADR 0009:59) and error.rs:20 of the refusal: an address is
\* refused because its managers have an invitation to it that they can see.
RefusedForAPending ==
    [][\A h \in Handlers :
           handler[h].pc # "refused" /\ handler'[h].pc = "refused"
               => Listed(handler'[h].id)]_vars
=============================================================================
