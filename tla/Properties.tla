----------------------------- MODULE Properties ------------------------------
(***************************************************************************)
(* The properties of the organisations (apps/api/src/properties/) behind   *)
(* the Membership extractor (apps/api/src/tenancy/mod.rs).  A request      *)
(* resolves the organisation of its path and the caller's role in one      *)
(* query, runs one statement scoped by that organisation, and hands the    *)
(* event to the audit trail (AuditChain).  Other requests run in between,  *)
(* and it may stop there.                                                  *)
(*                                                                         *)
(* Of the columns, notes stands for every one that may be NULL: trimmed,   *)
(* an empty text counting as not sent.  A slug is always sent whole or not *)
(* at all.  Ids are known to everybody.                                    *)
(***************************************************************************)
EXTENDS Naturals

CONSTANTS
    Handlers,     \* requests that run concurrently
    Users,
    Orgs,
    Slugs,
    Texts,        \* notes a client may send
    Ids,          \* properties, each id drawn at most once
    NoRole, NoRow, NoSlug, NoText, NoId,
    Empty         \* a text of nothing but blanks

\* An owner passes every check a manager does.
Roles == {"manager", "cleaner", "guest"}

Rows == [org : Orgs, slug : Slugs, notes : Texts \cup {NoText}, deleted : BOOLEAN]

ASSUME NullAssumption ==
    /\ NoRole \notin Roles /\ NoRow \notin Rows /\ NoSlug \notin Slugs
    /\ NoId \notin Ids /\ {NoText, Empty} \cap Texts = {} /\ NoText # Empty

VARIABLES
    members,     \* organization_members
    props,       \* the table properties
    handler      \* where each request stands, with its local variables

vars == <<members, props, handler>>

\* "run": a Membership is resolved; "reply": rows are on their way to the
\* client; "audit": a change is done and its event about to be recorded.
Handler ==
    [pc : {"idle"}]
    \cup [pc : {"run"}, user : Users, org : Orgs, role : Roles]
    \cup [pc : {"reply"}, user : Users, org : Orgs, shown : SUBSET Ids]
    \cup [pc : {"audit"}, user : Users, org : Orgs,
          kind : {"created", "updated", "deleted"}, id : Ids]

Idle == [pc |-> "idle"]

TypeOK ==
    /\ members \in [Users \X Orgs -> Roles \cup {NoRole}]
    /\ props \in [Ids -> Rows \cup {NoRow}]
    /\ handler \in [Handlers -> Handler]

Init ==
    /\ members = [m \in Users \X Orgs |-> NoRole]
    /\ props = [i \in Ids |-> NoRow]
    /\ handler = [h \in Handlers |-> Idle]

-----------------------------------------------------------------------------
(* Membership *)

\* Someone joins an organisation (Invites!SignupOrganization, Invites!Accept):
\* a step of the contract that Invites keeps.
Tenancy == INSTANCE Memberships

Join(u, o, r) == Tenancy!Enter(u, o, r) /\ UNCHANGED <<props, handler>>

find_active_membership(u, o) == members[<<u, o>>]

\* The extractor: an unknown slug and a missing membership are both a 404.
Resolve(h, u, o) ==
    /\ handler[h].pc = "idle"
    /\ find_active_membership(u, o) # NoRole
    /\ handler' = [handler EXCEPT ![h] = [pc |-> "run", user |-> u, org |-> o,
                                         role |-> find_active_membership(u, o)]]
    /\ UNCHANGED <<members, props>>

role_level(role) == CASE role = "manager" -> 2 [] role = "cleaner" -> 1 [] role = "guest" -> 0

ensure_role(h, required) == role_level(handler[h].role) >= role_level(required)

MayRead(h) == handler[h].pc = "run" /\ ensure_role(h, "cleaner")
MayWrite(h) == handler[h].pc = "run" /\ ensure_role(h, "manager")

-----------------------------------------------------------------------------
(* The statements *)

Active(i) == props[i] # NoRow /\ ~props[i].deleted

\* WHERE id = $1 AND org_id = $2 AND deleted_at IS NULL
VisibleAnywhere(h, i) == Active(i)
VisibleEvenDeleted(h, i) == props[i] # NoRow /\ props[i].org = handler[h].org
Visible(h, i) == Active(i) /\ props[i].org = handler[h].org

\* The unique index on (org_id, slug), which knows active rows only.
Taken(o, s, but) == \E j \in Ids \ {but} : Active(j) /\ props[j].org = o /\ props[j].slug = s

\* parse_optional_text: what is empty counts as not sent.
AsSent(raw) == raw
parse_optional_text(raw) == IF raw = Empty THEN NoText ELSE raw

Coalesce(new, old, null) == IF new = null THEN old ELSE new

Show(h, ids) ==
    /\ handler' = [handler EXCEPT ![h] = [pc |-> "reply", user |-> @.user, org |-> @.org, shown |-> ids]]
    /\ UNCHANGED <<members, props>>

Emit(h, kind, i) ==
    handler' = [handler EXCEPT ![h] = [pc |-> "audit", user |-> @.user, org |-> @.org,
                                       kind |-> kind, id |-> i]]

List(h) == MayRead(h) /\ Show(h, {i \in Ids : Visible(h, i)})

Get(h, i) == MayRead(h) /\ Visible(h, i) /\ Show(h, {i})

Create(h, i, s, raw) ==
    /\ MayWrite(h)
    /\ props[i] = NoRow
    /\ ~Taken(handler[h].org, s, i)
    /\ props' = [props EXCEPT ![i] = [org |-> handler[h].org, slug |-> s,
                                      notes |-> parse_optional_text(raw), deleted |-> FALSE]]
    /\ Emit(h, "created", i)
    /\ UNCHANGED members

\* PATCH: a column is set to what was sent, or to itself.
Patch(h, i, s, t) ==
    /\ props' = [props EXCEPT ![i].slug = Coalesce(s, @, NoSlug), ![i].notes = t]
    /\ Emit(h, "updated", i)
    /\ UNCHANGED members

UpdateWhole(h, i, s, raw) ==
    /\ MayWrite(h)
    /\ Visible(h, i)
    /\ ~Taken(handler[h].org, Coalesce(s, props[i].slug, NoSlug), i)
    /\ Patch(h, i, s, parse_optional_text(raw))

Update(h, i, s, raw) ==
    /\ MayWrite(h)
    /\ Visible(h, i)
    /\ ~Taken(handler[h].org, Coalesce(s, props[i].slug, NoSlug), i)
    /\ Patch(h, i, s, Coalesce(parse_optional_text(raw), props[i].notes, NoText))

SoftDelete(h, i) ==
    /\ props' = [props EXCEPT ![i].deleted = TRUE]
    /\ Emit(h, "deleted", i)
    /\ UNCHANGED members

DeleteAgain(h, i) == MayWrite(h) /\ VisibleEvenDeleted(h, i) /\ SoftDelete(h, i)

Delete(h, i) == MayWrite(h) /\ Visible(h, i) /\ SoftDelete(h, i)

\* The role does not suffice or no row matched (404), the slug is taken (409),
\* the body is invalid (422), the statement failed or the request was dropped.
Refuse(h) ==
    /\ handler[h].pc = "run"
    /\ handler' = [handler EXCEPT ![h] = Idle]
    /\ UNCHANGED <<members, props>>

\* emit_audit, whether or not the event is recorded, and the response.
Finish(h) ==
    /\ handler[h].pc \in {"reply", "audit"}
    /\ handler' = [handler EXCEPT ![h] = Idle]
    /\ UNCHANGED <<members, props>>

Raw == Texts \cup {Empty, NoText}

Next ==
    \/ \E u \in Users, o \in Orgs, r \in Roles : Join(u, o, r)
    \/ \E h \in Handlers :
          \/ \E u \in Users, o \in Orgs : Resolve(h, u, o)
          \/ List(h)
          \/ \E i \in Ids :
                \/ Get(h, i)
                \/ \E s \in Slugs, raw \in Raw : Create(h, i, s, raw)
                \/ \E s \in Slugs \cup {NoSlug}, raw \in Raw : Update(h, i, s, raw)
                \/ Delete(h, i)
          \/ Refuse(h) \/ Finish(h)

Spec == Init /\ [][Next]_vars

-----------------------------------------------------------------------------
(* Properties *)

\* A request sees and changes only properties of the organisation its caller is
\* in, with a role that allows it, whatever ids it names (ADR 0008).
TenantIsolation ==
    \A h \in Handlers :
        /\ handler[h].pc = "reply" =>
              /\ members[<<handler[h].user, handler[h].org>>] \in {"manager", "cleaner"}
              /\ \A i \in handler[h].shown : props[i].org = handler[h].org
        /\ handler[h].pc = "audit" =>
              /\ members[<<handler[h].user, handler[h].org>>] = "manager"
              /\ props[handler[h].id].org = handler[h].org

\* Of the requests that delete a property at the same time one succeeds and the
\* others get a 404, and no update succeeds after it: an event of a deletion is
\* the only one, and the row stays deleted.
DeletedOnce ==
    \A h \in Handlers : handler[h].pc = "audit" /\ handler[h].kind = "deleted" =>
        /\ props[handler[h].id].deleted
        /\ \A k \in Handlers \ {h} :
              ~(handler[k].pc = "audit" /\ handler[k].kind = "deleted" /\ handler[k].id = handler[h].id)

\* The table is a Catalog: a slug of an organisation names one active property,
\* however creations, renames and deletions interleave; a deleted property never
\* comes back; and a PATCH that does not send the notes leaves them.
Named(o, s) == {i \in Ids : Active(i) /\ props[i].org = o /\ props[i].slug = s}

Shelves == INSTANCE Catalog WITH
    shelf <- [k \in Orgs \X Slugs |-> IF Named(k[1], k[2]) = {} THEN NoId
                                      ELSE CHOOSE i \in Named(k[1], k[2]) : TRUE],
    notes <- [i \in Ids |-> IF props[i] = NoRow THEN NoText ELSE props[i].notes],
    spent <- {i \in Ids : props[i] # NoRow}
ImplementsCatalog == Shelves!CatalogSpec
=============================================================================
