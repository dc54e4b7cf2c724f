--------------------------- MODULE Invites_proofs ---------------------------
(***************************************************************************)
(* Invites, for any requests, organisations, addresses and invitations:    *)
(* whatever requests do at once the tables are a Team, nobody joins on an  *)
(* expired invitation, and only a sign-up by invitation leaves an account  *)
(* without an organisation.                                                *)
(***************************************************************************)
EXTENDS Invites, TLAPS

\* A request at work holds an invitation that exists; one that signs somebody
\* up or accepts found it by a token that was mailed; one that accepts does it
\* for the person it is addressed to.
Holds(h) ==
    /\ handler[h].pc # "idle" => handler[h].id \in Ids /\ invites[handler[h].id] # NoInvite
    /\ handler[h].pc \in {"user", "accept"} => handler[h].id \in mailed
    /\ handler[h].pc = "accept" => handler[h].user = invites[handler[h].id].email

\* A mail announces an invitation there is.
Announced == \A i \in mailed : invites[i] # NoInvite

IInv ==
    /\ TypeOK
    /\ Announced
    /\ \A h \in Handlers : Holds(h)
    /\ AcceptedInTime
    /\ LoneAccountsWereInvited

-----------------------------------------------------------------------------
\* The records a request passes through.
LEMMA Records ==
    /\ NoHandler \in Handler /\ NoHandler.pc = "idle"
    /\ \A w \in {"send", "user", "refused"}, i \in Ids :
           [pc |-> w, id |-> i, user |-> NoUser] \in Handler
    /\ \A i \in Ids, e \in Emails : [pc |-> "accept", id |-> i, user |-> e] \in Handler
    /\ \A r \in Handler : /\ r.pc # "idle" => r.id \in Ids
                          /\ r.user \in Emails => r.pc = "accept"
                          /\ r.pc = "accept" => r.user \in Emails
  BY NullAssumption DEF NoHandler, Handler

\* Nobody has signed up.
LEMMA InitIInv == Init => IInv
<1> SUFFICES ASSUME Init PROVE IInv
  OBVIOUS
<1>1. TypeOK /\ \A h \in Handlers : Holds(h)
  BY Records DEF Init, TypeOK, Holds
<1>2. AcceptedInTime /\ LoneAccountsWereInvited
  BY DEF Init, AcceptedInTime, LoneAccountsWereInvited
<1>3. Announced
  BY DEF Init, Announced
<1> QED
  BY <1>1, <1>2, <1>3 DEF IInv

\* A request that moves on while the tables grow leaves what every request
\* holds as it was.
LEMMA OthersHold ==
    ASSUME IInv, NEW h \in Handlers, NEW x \in Handler,
           handler' = [handler EXCEPT ![h] = x],
           mailed \subseteq mailed',
           \A i \in Ids : invites[i] # NoInvite =>
               invites'[i] # NoInvite /\ invites'[i].email = invites[i].email,
           x.pc # "idle" => invites'[x.id] # NoInvite,
           x.pc \in {"user", "accept"} => x.id \in mailed',
           x.pc = "accept" => x.user = invites'[x.id].email
    PROVE  handler' \in [Handlers -> Handler] /\ \A k \in Handlers : Holds(k)'
<1>1. /\ handler \in [Handlers -> Handler] /\ \A k \in Handlers : Holds(k)
      /\ handler'[h] = x /\ \A k \in Handlers \ {h} : handler'[k] = handler[k]
  BY DEF IInv, TypeOK
<1>2. x.pc # "idle" => x.id \in Ids
  BY Records
<1>3. Holds(h)'
  BY <1>1, <1>2 DEF Holds
<1>4. ASSUME NEW k \in Handlers \ {h} PROVE Holds(k)'
  BY <1>1 DEF Holds
<1> QED
  BY <1>1, <1>3, <1>4

\* With the accounts, the memberships and the invitations as they were, a
\* request that was not about to link anybody leaves no account behind.
LEMMA NobodyLeftAlone ==
    ASSUME IInv, NEW h \in Handlers, NEW x \in Handler,
           handler' = [handler EXCEPT ![h] = x],
           mailed \subseteq mailed',
           UNCHANGED <<users, members, invites>>
    PROVE  LoneAccountsWereInvited'
<1> SUFFICES ASSUME NEW e \in users
             PROVE  \/ \E k \in Handlers : handler'[k].user = e
                    \/ \E o \in Orgs : members[<<e, o>>] # NoRole
                    \/ \E i \in Ids : i \in mailed' /\ invites[i].email = e
  BY DEF LoneAccountsWereInvited
<1>1. e \in Emails /\ handler \in [Handlers -> Handler]
  BY DEF IInv, TypeOK
<1>2. CASE \E k \in Handlers : handler[k].user = e
  <2>1. PICK k \in Handlers : handler[k].user = e
    BY <1>2
  <2>2. CASE k = h
    <3>1. handler[h].pc = "accept" /\ handler[h].id \in Ids
      BY <1>1, <2>1, <2>2, Records
    <3> QED
      BY <2>1, <2>2, <3>1 DEF IInv, Holds
  <2>3. CASE k # h
    BY <1>1, <2>1, <2>3
  <2> QED
    BY <2>2, <2>3
<1>3. CASE ~\E k \in Handlers : handler[k].user = e
  BY <1>3 DEF IInv, LoneAccountsWereInvited
<1> QED
  BY <1>2, <1>3

-----------------------------------------------------------------------------
\* Look-ups, refusals, mails and failures change no table but mailed.
LEMMA QuietSteps ==
    ASSUME IInv, NEW h \in Handlers,
           \/ Send(h) \/ SignupTaken(h) \/ AcceptTooLate(h) \/ GiveUp(h)
           \/ \E i \in Ids : CreateRefused(h, i) \/ SignupFind(h, i)
           \/ \E i \in Ids, e \in Emails : AcceptFind(h, i, e)
    PROVE  IInv'
<1>1. PICK x \in Handler :
        /\ handler' = [handler EXCEPT ![h] = x]
        /\ mailed \subseteq mailed' /\ mailed' \subseteq Ids
        /\ \A i \in mailed' : invites[i] # NoInvite
        /\ UNCHANGED <<now, users, members, invites>>
        /\ x.pc # "idle" => invites[x.id] # NoInvite
        /\ x.pc \in {"user", "accept"} => x.id \in mailed'
        /\ x.pc = "accept" => x.user = invites[x.id].email
  <2>1. /\ mailed \subseteq Ids /\ handler[h] \in Handler
        /\ \A i \in mailed : invites[i] # NoInvite
    BY DEF IInv, TypeOK, Announced
  <2>2. CASE Send(h)
    <3>1. handler[h].id \in Ids /\ invites[handler[h].id] # NoInvite
      BY <2>2 DEF Send, IInv, Holds
    <3> QED
      BY <2>1, <2>2, <3>1, Records DEF Send, Ends
  <2>3. CASE SignupTaken(h) \/ AcceptTooLate(h) \/ GiveUp(h)
    BY <2>1, <2>3, Records DEF SignupTaken, AcceptTooLate, GiveUp, Ends
  <2>4. ASSUME NEW i \in Ids, CreateRefused(h, i) \/ SignupFind(h, i)
        PROVE  \E w \in {"user", "refused"} :
                   /\ handler' = [handler EXCEPT ![h] = [pc |-> w, id |-> i, user |-> NoUser]]
                   /\ UNCHANGED <<now, users, members, invites, mailed>>
                   /\ invites[i] # NoInvite /\ (w = "user" => i \in mailed)
    BY <2>4 DEF CreateRefused, SignupFind, Finds, Listed, Pending, Goto
  <2>5. ASSUME NEW i \in Ids, NEW e \in Emails, AcceptFind(h, i, e)
        PROVE  /\ handler' = [handler EXCEPT ![h] = [pc |-> "accept", id |-> i, user |-> e]]
               /\ UNCHANGED <<now, users, members, invites, mailed>>
               /\ invites[i] # NoInvite /\ i \in mailed /\ e = invites[i].email
    BY <2>5 DEF AcceptFind, Finds, Listed, Pending, Goto
  <2> QED
    BY <2>1, <2>2, <2>3, <2>4, <2>5, Records
<1>2. handler' \in [Handlers -> Handler] /\ \A k \in Handlers : Holds(k)'
  BY <1>1, OthersHold
<1>3. LoneAccountsWereInvited'
  BY <1>1, NobodyLeftAlone
<1> QED
  BY <1>1, <1>2, <1>3 DEF IInv, TypeOK, Announced, AcceptedInTime

\* A founder is a member of what they found.
LEMMA FoundStep ==
    ASSUME IInv, NEW h \in Handlers, NEW e \in Emails, NEW o \in Orgs,
           SignupOrganization(h, e, o)
    PROVE  IInv'
<1>1. /\ users' = users \cup {e} /\ members' = [members EXCEPT ![<<e, o>>] = Owner]
      /\ UNCHANGED <<now, invites, mailed, handler>>
  BY DEF SignupOrganization
<1>2. Owner \in Roles /\ Owner # NoRole /\ members \in [Emails \X Orgs -> Roles \cup {NoRole}]
  BY NullAssumption DEF IInv, TypeOK, Roles
<1>3. /\ members' \in [Emails \X Orgs -> Roles \cup {NoRole}]
      /\ members'[<<e, o>>] = Owner
      /\ \A d \in Emails, p \in Orgs : members[<<d, p>>] # NoRole => members'[<<d, p>>] # NoRole
  BY <1>1, <1>2
<1>4. TypeOK'
  BY <1>1, <1>3 DEF IInv, TypeOK
<1>5. LoneAccountsWereInvited'
  BY <1>1, <1>2, <1>3 DEF IInv, TypeOK, LoneAccountsWereInvited
<1> QED
  BY <1>1, <1>4, <1>5 DEF IInv, Announced, Holds, AcceptedInTime

\* An invitation is inserted under a fresh token.
LEMMA CreateStep ==
    ASSUME IInv, NEW h \in Handlers, NEW i \in Ids, NEW o \in Orgs, NEW e \in Emails,
           NEW r \in Roles, Create(h, i, o, e, r)
    PROVE  IInv'
<1> DEFINE new == [org |-> o, email |-> e, role |-> r, status |-> "pending",
                   expires |-> now + InviteTtl, at |-> 0]
           x == [pc |-> "send", id |-> i, user |-> NoUser]
<1>1. /\ invites[i] = NoInvite /\ invites' = [invites EXCEPT ![i] = new]
      /\ handler' = [handler EXCEPT ![h] = x]
      /\ handler[h].pc = "idle"
      /\ UNCHANGED <<now, users, members, mailed>>
  BY DEF Create, InsertInvite, Goto
<1>2. new \in Rows /\ new # NoInvite /\ new.status = "pending"
  BY BoundAssumption, NullAssumption DEF IInv, TypeOK, Rows, Status
<1>3. x \in Handler /\ x.pc = "send" /\ x.id = i
  BY Records
<1> HIDE DEF new, x
<1>4. /\ invites' \in [Ids -> Rows \cup {NoInvite}] /\ invites'[i] = new
      /\ \A j \in Ids : invites[j] # NoInvite => invites'[j] = invites[j]
      /\ \A j \in Ids \ {i} : invites'[j] = invites[j]
  BY <1>1, <1>2 DEF IInv, TypeOK
<1>5. handler' \in [Handlers -> Handler] /\ \A k \in Handlers : Holds(k)'
  BY <1>1, <1>2, <1>3, <1>4, OthersHold
<1>6. TypeOK'
  BY <1>1, <1>4, <1>5 DEF IInv, TypeOK
<1>7. AcceptedInTime'
  BY <1>2, <1>4 DEF IInv, AcceptedInTime
<1>8. LoneAccountsWereInvited'
  <2> SUFFICES ASSUME NEW d \in users
               PROVE  \/ \E k \in Handlers : handler'[k].user = d
                      \/ \E p \in Orgs : members[<<d, p>>] # NoRole
                      \/ \E j \in Ids : j \in mailed /\ invites'[j].email = d
    BY <1>1 DEF LoneAccountsWereInvited
  <2>1. d \in Emails /\ handler \in [Handlers -> Handler]
    BY DEF IInv, TypeOK
  <2>2. CASE \E k \in Handlers : handler[k].user = d
    <3>1. PICK k \in Handlers : handler[k].user = d
      BY <2>2
    <3>2. k # h
      BY <1>1, <2>1, <3>1, Records
    <3> QED
      BY <1>1, <2>1, <3>1, <3>2
  <2>3. CASE \E j \in Ids : j \in mailed /\ invites[j].email = d
    BY <1>4, <2>3 DEF IInv, Announced
  <2> QED
    BY <2>2, <2>3 DEF IInv, LoneAccountsWereInvited
<1>9. Announced'
  BY <1>1, <1>2, <1>4 DEF IInv, Announced
<1> QED
  BY <1>5, <1>6, <1>7, <1>8, <1>9 DEF IInv

\* A manager cancels: the row keeps its address and its expiry.
LEMMA CancelStep ==
    ASSUME IInv, NEW h \in Handlers, NEW i \in Ids, Cancel(h, i)
    PROVE  IInv'
<1>1. /\ Pending(i) /\ invites' = [invites EXCEPT ![i].status = "cancelled"]
      /\ UNCHANGED <<now, users, members, mailed, handler>>
  BY DEF Cancel
<1>2. /\ invites' \in [Ids -> Rows \cup {NoInvite}]
      /\ \A j \in Ids : invites[j] # NoInvite =>
             invites'[j] # NoInvite /\ invites'[j].email = invites[j].email
      /\ invites'[i].status = "cancelled"
      /\ \A j \in Ids \ {i} : invites'[j] = invites[j]
  BY <1>1, NullAssumption DEF Pending, IInv, TypeOK, Rows, Status
<1>3. TypeOK' /\ AcceptedInTime'
  BY <1>1, <1>2 DEF IInv, TypeOK, AcceptedInTime
<1>4. Announced' /\ \A k \in Handlers : Holds(k)'
  BY <1>1, <1>2 DEF IInv, TypeOK, Announced, Holds
<1>5. LoneAccountsWereInvited'
  BY <1>1, <1>2 DEF IInv, TypeOK, Announced, LoneAccountsWereInvited
<1> QED
  BY <1>3, <1>4, <1>5 DEF IInv

\* The account of somebody who signs up by an invitation: until it is linked
\* its request, and after that its mail, accounts for it.
LEMMA SignupStep ==
    ASSUME IInv, NEW h \in Handlers, SignupUser(h)
    PROVE  IInv'
<1> DEFINE i == handler[h].id
           e == invites[i].email
           x == [pc |-> "accept", id |-> i, user |-> e]
<1>1. /\ handler[h].pc = "user" /\ users' = users \cup {e}
      /\ handler' = [handler EXCEPT ![h] = x]
      /\ UNCHANGED <<now, members, invites, mailed>>
  BY DEF SignupUser, Goto
<1>2. i \in Ids /\ invites[i] # NoInvite /\ i \in mailed
  BY <1>1 DEF IInv, Holds
<1>3. e \in Emails
  BY <1>2 DEF IInv, TypeOK, Rows
<1>4. x \in Handler /\ x.pc = "accept" /\ x.id = i /\ x.user = e
  BY <1>2, <1>3, Records
<1> HIDE DEF i, e, x
<1>5. handler' \in [Handlers -> Handler] /\ \A k \in Handlers : Holds(k)'
  <2>1. x.user = invites[x.id].email
    BY <1>4 DEF e
  <2> QED
    BY <1>1, <1>2, <1>4, <2>1, OthersHold
<1>6. TypeOK' /\ Announced' /\ AcceptedInTime'
  BY <1>1, <1>3, <1>5 DEF IInv, TypeOK, Announced, AcceptedInTime
<1>7. LoneAccountsWereInvited'
  <2>1. invites[i].email = e
    BY DEF e
  <2>2. \A d \in users : \/ \E k \in Handlers \ {h} : handler[k].user = d
                         \/ \E p \in Orgs : members[<<d, p>>] # NoRole
                         \/ \E j \in Ids : j \in mailed /\ invites[j].email = d
    <3> SUFFICES ASSUME NEW d \in users, handler[h].user = d PROVE FALSE
      BY DEF IInv, LoneAccountsWereInvited
    <3> QED
      BY <1>1, Records DEF IInv, TypeOK
  <2>3. \A k \in Handlers \ {h} : handler'[k] = handler[k]
    BY <1>1 DEF IInv, TypeOK
  <2> QED
    BY <1>1, <1>2, <2>1, <2>2, <2>3 DEF LoneAccountsWereInvited
<1> QED
  BY <1>5, <1>6, <1>7 DEF IInv

\* The invitation is consumed in time and its addressee is a member from then on.
LEMMA AcceptStep ==
    ASSUME IInv, NEW h \in Handlers, Accept(h)
    PROVE  IInv'
<1> DEFINE i == handler[h].id
           e == handler[h].user
           o == invites[i].org
           r == invites[i].role
<1>1. /\ handler[h].pc = "accept" /\ Pending(i) /\ now < invites[i].expires
      /\ invites' = [invites EXCEPT ![i].status = "accepted", ![i].at = now]
      /\ members' = [members EXCEPT ![<<e, o>>] = IF @ = NoRole THEN r ELSE @]
      /\ handler' = [handler EXCEPT ![h] = NoHandler]
      /\ UNCHANGED <<now, users, mailed>>
  BY DEF Accept, Consume, Ends
<1>2. i \in Ids /\ e \in Emails /\ invites[i] \in Rows
  BY <1>1, Records DEF Pending, IInv, TypeOK
<1>3. o \in Orgs /\ r \in Roles /\ r # NoRole /\ now \in Nat
  BY <1>2, NullAssumption DEF Rows, IInv, TypeOK
<1> HIDE DEF i, e, o, r
<1>4. /\ invites' \in [Ids -> Rows \cup {NoInvite}]
      /\ \A j \in Ids : invites[j] # NoInvite =>
             invites'[j] # NoInvite /\ invites'[j].email = invites[j].email
      /\ invites'[i].at = now /\ invites'[i].expires = invites[i].expires
      /\ \A j \in Ids \ {i} : invites'[j] = invites[j]
  BY <1>1, <1>2, <1>3, NullAssumption DEF IInv, TypeOK, Rows, Status
<1>5. /\ members' \in [Emails \X Orgs -> Roles \cup {NoRole}]
      /\ members'[<<e, o>>] # NoRole
      /\ \A d \in Emails, p \in Orgs : members[<<d, p>>] # NoRole => members'[<<d, p>>] # NoRole
  BY <1>1, <1>2, <1>3 DEF IInv, TypeOK
<1>6. handler' \in [Handlers -> Handler] /\ \A k \in Handlers : Holds(k)'
  BY <1>1, <1>4, Records, OthersHold
<1>7. TypeOK' /\ Announced'
  BY <1>1, <1>4, <1>5, <1>6 DEF IInv, TypeOK, Announced
<1>8. AcceptedInTime'
  BY <1>1, <1>3, <1>4 DEF IInv, AcceptedInTime
<1>9. LoneAccountsWereInvited'
  <2> SUFFICES ASSUME NEW d \in users
               PROVE  \/ \E k \in Handlers : handler'[k].user = d
                      \/ \E p \in Orgs : members'[<<d, p>>] # NoRole
                      \/ \E j \in Ids : j \in mailed /\ invites'[j].email = d
    BY <1>1 DEF LoneAccountsWereInvited
  <2>1. d \in Emails /\ handler \in [Handlers -> Handler]
    BY DEF IInv, TypeOK
  <2>2. CASE d = e
    BY <1>3, <1>5, <2>2
  <2>3. CASE \E k \in Handlers : handler[k].user = d /\ d # e
    BY <1>1, <2>1, <2>3 DEF e
  <2>4. CASE \E p \in Orgs : members[<<d, p>>] # NoRole
    BY <1>5, <2>1, <2>4
  <2>5. CASE \E j \in Ids : j \in mailed /\ invites[j].email = d
    BY <1>4, <2>5 DEF IInv, Announced
  <2> QED
    BY <2>2, <2>3, <2>4, <2>5 DEF IInv, LoneAccountsWereInvited
<1> QED
  BY <1>6, <1>7, <1>8, <1>9 DEF IInv

\* The invariant is inductive.
LEMMA NextIInv == IInv /\ [Next]_vars => IInv'
<1> SUFFICES ASSUME IInv, [Next]_vars PROVE IInv'
  OBVIOUS
<1>1. CASE UNCHANGED vars
  BY <1>1 DEF IInv, TypeOK, Announced, Holds, AcceptedInTime, LoneAccountsWereInvited, vars
<1>2. CASE Tick
  <2>1. /\ now' = now + 1 /\ now \in Nat
        /\ UNCHANGED <<users, members, invites, mailed, handler>>
    BY <1>2 DEF Tick, IInv, TypeOK
  <2> QED
    BY <2>1 DEF IInv, TypeOK, Announced, Holds, AcceptedInTime, LoneAccountsWereInvited
<1>3. CASE Next
  BY <1>2, <1>3, QuietSteps, FoundStep, CreateStep, CancelStep, SignupStep, AcceptStep
  DEF Next
<1> QED
  BY <1>1, <1>3

-----------------------------------------------------------------------------
\* The invariant holds in every state of every behaviour.
THEOREM Invariant == Spec => []IInv
  BY InitIInv, NextIInv, PTL DEF Spec

\* Every variable keeps its type.
THEOREM TypeCorrect == Spec => []TypeOK
<1>1. IInv => TypeOK
  BY DEF IInv
<1> QED
  BY <1>1, Invariant, PTL

\* Nobody joins on an expired invitation (invites/repo.rs, the UPDATE's
\* expires_at > now()), however late the transaction comes after its look-up.
THEOREM NobodyJoinsLate == Spec => []AcceptedInTime
<1>1. IInv => AcceptedInTime
  BY DEF IInv
<1> QED
  BY <1>1, Invariant, PTL

\* An account without an organisation is the remainder of a sign-up by
\* invitation (invites/service.rs:239-251).
THEOREM OnlyInvitationsLeaveAccounts == Spec => []LoneAccountsWereInvited
<1>1. IInv => LoneAccountsWereInvited
  BY DEF IInv
<1> QED
  BY <1>1, Invariant, PTL

\* The tables start as a Team does.
LEMMA InitTeam == Init => Book!TeamInit
  BY DEF Init, Book!TeamInit, TeamBook

\* What the book says of an invitation.
LEMMA BookOf ==
    ASSUME TypeOK
    PROVE  /\ TeamBook \in [Ids -> Entries \cup {NoInvite}]
           /\ \A i \in Ids :
                  /\ TeamBook[i] = NoInvite <=> invites[i] = NoInvite
                  /\ invites[i] # NoInvite =>
                         TeamBook[i] = [org |-> invites[i].org, email |-> invites[i].email,
                                        role |-> invites[i].role, status |-> invites[i].status]
<1>1. ASSUME NEW i \in Ids, invites[i] # NoInvite
      PROVE  [org |-> invites[i].org, email |-> invites[i].email,
              role |-> invites[i].role, status |-> invites[i].status] \in Entries
  BY <1>1 DEF TypeOK, Rows, Entries
<1> QED
  BY <1>1, NullAssumption DEF TeamBook

\* A pending invitation is settled: nothing else in the book changes.
LEMMA SettledInBook ==
    ASSUME IInv, IInv', NEW i \in Ids, NEW how \in Status, Pending(i),
           invites'[i] \in Rows,
           invites'[i].org = invites[i].org, invites'[i].email = invites[i].email,
           invites'[i].role = invites[i].role, invites'[i].status = how,
           \A j \in Ids \ {i} : invites'[j] = invites[j]
    PROVE  Book!Settle(i, how)
<1>1. /\ TypeOK /\ TypeOK' /\ invites[i] # NoInvite /\ invites[i].status = "pending"
      /\ invites'[i] # NoInvite
  BY NullAssumption DEF Pending, IInv
<1>2. /\ TeamBook \in [Ids -> Entries \cup {NoInvite}]
      /\ \A j \in Ids :
             /\ TeamBook[j] = NoInvite <=> invites[j] = NoInvite
             /\ invites[j] # NoInvite =>
                    TeamBook[j] = [org |-> invites[j].org, email |-> invites[j].email,
                                   role |-> invites[j].role, status |-> invites[j].status]
  BY <1>1, BookOf
<1>3. /\ TeamBook' \in [Ids -> Entries \cup {NoInvite}]
      /\ \A j \in Ids \ {i} : TeamBook'[j] = TeamBook[j]
      /\ TeamBook'[i] = [org |-> invites[i].org, email |-> invites[i].email,
                         role |-> invites[i].role, status |-> how]
  <2>1. TeamBook' \in [Ids -> Entries \cup {NoInvite}]
    BY <1>1 DEF TypeOK, TeamBook, Rows, Entries
  <2> QED
    BY <1>1, <2>1 DEF TeamBook
<1>4. TeamBook'[i] = [TeamBook[i] EXCEPT !.status = how]
  BY <1>1, <1>2, <1>3
<1>5. TeamBook' = [TeamBook EXCEPT ![i].status = how]
  BY <1>2, <1>3, <1>4
<1>6. TeamBook[i] # NoInvite /\ TeamBook[i].status = "pending"
  BY <1>1, <1>2
<1> QED
  BY <1>5, <1>6 DEF Book!Settle

\* Every step of a request is a step of the Team or leaves it as it is.
LEMMA StepsOfTeam == IInv /\ IInv' /\ [Next]_vars => [Book!TeamNext]_(Book!teamVars)
<1> SUFFICES ASSUME IInv, IInv', [Next]_vars
             PROVE  Book!TeamNext \/ UNCHANGED Book!teamVars
  OBVIOUS
<1>1. ASSUME UNCHANGED <<invites, members>> PROVE UNCHANGED Book!teamVars
  BY <1>1 DEF Book!teamVars, TeamBook
<1>2. ASSUME NEW h \in Handlers, NEW e \in Emails, NEW o \in Orgs,
             SignupOrganization(h, e, o)
      PROVE  Book!TeamNext
  <2>1. Book!Found(e, o)
    BY <1>2 DEF SignupOrganization, Founded, Book!Found, TeamBook
  <2> QED
    BY <2>1 DEF Book!TeamNext
<1>3. ASSUME NEW h \in Handlers, NEW i \in Ids, NEW o \in Orgs, NEW e \in Emails,
             NEW r \in Roles, Create(h, i, o, e, r)
      PROVE  Book!TeamNext
  <2> DEFINE entry == [org |-> o, email |-> e, role |-> r, status |-> "pending"]
  <2>1. TypeOK /\ TypeOK'
    BY DEF IInv
  <2>2. /\ invites[i] = NoInvite /\ r # Owner /\ UNCHANGED members
        /\ invites' = [invites EXCEPT ![i] =
                           [org |-> o, email |-> e, role |-> r, status |-> "pending",
                            expires |-> now + InviteTtl, at |-> 0]]
        /\ \A j \in Ids : ~(Pending(j) /\ invites[j].org = o /\ invites[j].email = e)
    BY <1>3 DEF Create, InsertInvite
  <2>3. invites'[i] = [org |-> o, email |-> e, role |-> r, status |-> "pending",
                       expires |-> now + InviteTtl, at |-> 0]
    BY <2>1, <2>2 DEF TypeOK
  <2>4. /\ invites'[i] # NoInvite
        /\ invites'[i].org = o /\ invites'[i].email = e
        /\ invites'[i].role = r /\ invites'[i].status = "pending"
        /\ \A j \in Ids \ {i} : invites'[j] = invites[j]
    <3>1. now + InviteTtl \in Nat
      BY <2>1, BoundAssumption DEF TypeOK
    <3>2. invites'[i] \in Rows
      BY <2>3, <3>1 DEF Rows, Status
    <3> QED
      BY <2>1, <2>2, <2>3, <3>2, NullAssumption DEF TypeOK
  <2>5. /\ TeamBook \in [Ids -> Entries \cup {NoInvite}]
        /\ \A j \in Ids : TeamBook[j] = NoInvite <=> invites[j] = NoInvite
        /\ \A j \in Ids : invites[j] # NoInvite =>
               /\ TeamBook[j].org = invites[j].org /\ TeamBook[j].email = invites[j].email
               /\ TeamBook[j].status = invites[j].status
    BY <2>1, BookOf
  <2>6. /\ TeamBook' \in [Ids -> Entries \cup {NoInvite}]
        /\ TeamBook'[i] = entry
        /\ \A j \in Ids \ {i} : TeamBook'[j] = TeamBook[j]
    <3>1. TeamBook' \in [Ids -> Entries \cup {NoInvite}]
      BY <2>1 DEF TypeOK, TeamBook, Rows, Entries
    <3> QED
      BY <2>4, <3>1 DEF TeamBook
  <2>7. TeamBook' = [TeamBook EXCEPT ![i] = entry]
    BY <2>5, <2>6
  <2>8. Book!Invite(i, o, e, r)
    BY <2>2, <2>5, <2>7 DEF Pending, Book!Invite
  <2> QED
    BY <2>2, <2>8 DEF Book!TeamNext
<1>4. ASSUME NEW h \in Handlers, NEW i \in Ids, Cancel(h, i)
      PROVE  Book!TeamNext
  <2>1. /\ Pending(i) /\ UNCHANGED members
        /\ invites' = [invites EXCEPT ![i].status = "cancelled"]
    BY <1>4 DEF Cancel
  <2>2. Book!Settle(i, "cancelled")
    <3>1. invites[i] \in Rows /\ invites \in [Ids -> Rows \cup {NoInvite}]
      BY <2>1 DEF Pending, IInv, TypeOK
    <3>2. "cancelled" \in Status
      BY DEF Status
    <3>3. /\ invites'[i] \in Rows
          /\ invites'[i].org = invites[i].org /\ invites'[i].email = invites[i].email
          /\ invites'[i].role = invites[i].role /\ invites'[i].status = "cancelled"
          /\ \A j \in Ids \ {i} : invites'[j] = invites[j]
      BY <2>1, <3>1, <3>2 DEF Rows
    <3> QED
      BY <2>1, <3>2, <3>3, SettledInBook
  <2> QED
    BY <2>1, <2>2 DEF Book!Cancel, Book!TeamNext
<1>5. ASSUME NEW h \in Handlers, Accept(h)
      PROVE  Book!TeamNext
  <2> DEFINE i == handler[h].id
             e == invites[i].email
             o == invites[i].org
  <2>1. /\ handler[h].pc = "accept" /\ Pending(i)
        /\ invites' = [invites EXCEPT ![i].status = "accepted", ![i].at = now]
        /\ members' = [members EXCEPT ![<<handler[h].user, o>>] =
                           IF @ = NoRole THEN invites[i].role ELSE @]
    BY <1>5 DEF Accept, Consume
  <2>2. i \in Ids /\ handler[h].user = e
    BY <2>1 DEF IInv, Holds
  <2> HIDE DEF i
  <2>3. /\ invites[i] \in Rows /\ invites \in [Ids -> Rows \cup {NoInvite}]
        /\ now \in Nat /\ "accepted" \in Status
    BY <2>1, <2>2 DEF Pending, IInv, TypeOK, Status
  <2>4. Book!Settle(i, "accepted")
    <3>1. /\ invites'[i] \in Rows
          /\ invites'[i].org = invites[i].org /\ invites'[i].email = invites[i].email
          /\ invites'[i].role = invites[i].role /\ invites'[i].status = "accepted"
          /\ \A j \in Ids \ {i} : invites'[j] = invites[j]
      BY <2>1, <2>2, <2>3 DEF Rows
    <3> QED
      BY <2>1, <2>2, <2>3, <3>1, SettledInBook
  <2>5. /\ TeamBook[i].org = o /\ TeamBook[i].email = e
        /\ TeamBook[i].role = invites[i].role
    <3>1. TypeOK /\ invites[i] # NoInvite
      BY <2>1 DEF IInv, Pending
    <3> QED
      BY <2>2, <3>1, BookOf
  <2>6. Book!Accept(i)
    BY <2>1, <2>2, <2>4, <2>5 DEF Book!Accept
  <2> QED
    BY <2>2, <2>6 DEF Book!TeamNext
<1>6. CASE UNCHANGED vars
  BY <1>1, <1>6 DEF vars
<1>7. CASE Next
  BY <1>1, <1>2, <1>3, <1>4, <1>5, <1>7
  DEF Next, Send, CreateRefused, AcceptFind, SignupFind, SignupUser, SignupTaken,
      AcceptTooLate, GiveUp, Tick
<1> QED
  BY <1>6, <1>7

\* Whatever requests do at once, and wherever they stop, the tables are a Team.
THEOREM TablesAreATeam == Spec => ImplementsTeam
  BY InitTeam, StepsOfTeam, Invariant, PTL DEF Spec, ImplementsTeam, Book!TeamSpec

-----------------------------------------------------------------------------
(* The contract with those who read the memberships *)

Seats == INSTANCE Memberships WITH Users <- Emails

\* A step of the Team lets at most one person in, and takes nobody's role: who
\* founds an organisation or accepts for the first time enters it.
LEMMA TeamLetsIn ==
    ASSUME IInv, [Book!TeamNext]_(Book!teamVars)
    PROVE  [Seats!MembersNext]_members
<1>1. members \in [Emails \X Orgs -> Roles \cup {NoRole}] /\ Owner \in Roles
  BY DEF IInv, TypeOK, Roles
<1>2. CASE UNCHANGED Book!teamVars
  BY <1>2 DEF Book!teamVars
<1>3. ASSUME NEW e \in Emails, NEW o \in Orgs, Book!Found(e, o) PROVE Seats!MembersNext
  BY <1>1, <1>3 DEF Book!Found, Seats!Enter, Seats!MembersNext
<1>4. ASSUME NEW i \in Ids, NEW o \in Orgs, NEW e \in Emails, NEW r \in Roles \ {Owner},
             Book!Invite(i, o, e, r)
      PROVE  UNCHANGED members
  BY <1>4 DEF Book!Invite
<1>5. ASSUME NEW i \in Ids, Book!Cancel(i) PROVE UNCHANGED members
  BY <1>5 DEF Book!Cancel
<1>6. ASSUME NEW i \in Ids, Book!Accept(i) PROVE [Seats!MembersNext]_members
  <2> DEFINE entry == TeamBook[i]
  <2>1. /\ entry # NoInvite
        /\ members' = [members EXCEPT ![<<entry.email, entry.org>>] =
                           IF @ = NoRole THEN entry.role ELSE @]
    BY <1>6 DEF Book!Accept, Book!Settle
  <2>2. entry \in Entries
    <3>1. TypeOK
      BY DEF IInv
    <3> QED
      BY <2>1, <3>1, BookOf
  <2>3. entry.email \in Emails /\ entry.org \in Orgs /\ entry.role \in Roles
    BY <2>2 DEF Entries
  <2> HIDE DEF entry
  <2>4. CASE members[<<entry.email, entry.org>>] = NoRole
    BY <2>1, <2>3, <2>4 DEF Seats!Enter, Seats!MembersNext
  <2>5. CASE members[<<entry.email, entry.org>>] # NoRole
    BY <1>1, <2>1, <2>3, <2>5
  <2> QED
    BY <2>4, <2>5
<1> QED
  BY <1>2, <1>3, <1>4, <1>5, <1>6 DEF Book!TeamNext

\* A role once read still holds later: whatever requests of this module do, a
\* membership is only ever added.  Properties assumes this and no more of the
\* table (Properties!Join), and so does the check of the role in Create, which is
\* read before the statement it allows.
THEOREM MembershipsAreKept == Spec => Seats!MembersSpec
<1>1. Init => Seats!MembersInit
  BY DEF Init, Seats!MembersInit
<1> QED
  BY <1>1, StepsOfTeam, TeamLetsIn, Invariant, PTL DEF Spec, Seats!MembersSpec
=============================================================================
