-------------------------- MODULE Properties_proofs --------------------------
(***************************************************************************)
(* Proofs about Properties, for any handlers, users, organisations, slugs, *)
(* texts and ids.  TenantIsolation is not inductive: that a caller still   *)
(* has the role rests on the role resolved first, which nobody lowers, and *)
(* that a row is of the organisation on rows never moving.  The refinement *)
(* of Catalog rests on the unique index, kept as UniqueSlugs.              *)
(***************************************************************************)
EXTENDS Properties, TLAPS

Sound(q, mem, pr) ==
    /\ q.pc = "run" => mem[<<q.user, q.org>>] = q.role
    /\ q.pc = "reply" =>
          /\ mem[<<q.user, q.org>>] \in {"manager", "cleaner"}
          /\ \A i \in q.shown : pr[i] # NoRow /\ pr[i].org = q.org
    /\ q.pc = "audit" =>
          /\ mem[<<q.user, q.org>>] = "manager"
          /\ pr[q.id] # NoRow /\ pr[q.id].org = q.org
          /\ q.kind = "deleted" => pr[q.id].deleted

Deletes(q, i) == q.pc = "audit" /\ q.kind = "deleted" /\ q.id = i

OneDeletion == \A h, k \in Handlers, i \in Ids : Deletes(handler[h], i) /\ Deletes(handler[k], i) => h = k

UniqueSlugs ==
    \A i, j \in Ids :
        Active(i) /\ Active(j) /\ props[i].org = props[j].org /\ props[i].slug = props[j].slug => i = j

IInv ==
    /\ TypeOK
    /\ \A h \in Handlers : Sound(handler[h], members, props)
    /\ OneDeletion
    /\ UniqueSlugs

\* What every step does to the tables: roles stay, rows stay where they are,
\* and a deletion stays.
Joined(mem, mem2) == \A u \in Users, o \in Orgs : mem[<<u, o>>] # NoRole => mem2[<<u, o>>] = mem[<<u, o>>]
Stays(pr, pr2) ==
    \A i \in Ids : pr[i] # NoRow =>
        pr2[i] # NoRow /\ pr2[i].org = pr[i].org /\ (pr[i].deleted => pr2[i].deleted)

-----------------------------------------------------------------------------
\* What holds of a request goes on holding while others change the tables.
LEMMA Frame ==
    ASSUME NEW q \in Handler, NEW mem, NEW mem2, NEW pr, NEW pr2,
           Sound(q, mem, pr), Joined(mem, mem2), Stays(pr, pr2)
    PROVE  Sound(q, mem2, pr2)
<1>1. CASE q.pc = "idle"
    BY <1>1 DEF Sound
<1>2. CASE q.pc = "run"
    <2>1. q.user \in Users /\ q.org \in Orgs /\ q.role \in Roles
        BY <1>2 DEF Handler
    <2>. QED
        BY <1>2, <2>1, NullAssumption DEF Sound, Joined
<1>3. CASE q.pc = "reply"
    <2>1. q.user \in Users /\ q.org \in Orgs /\ q.shown \subseteq Ids
        BY <1>3 DEF Handler
    <2>. QED
        BY <1>3, <2>1, NullAssumption DEF Sound, Joined, Stays, Roles
<1>4. CASE q.pc = "audit"
    <2>1. q.user \in Users /\ q.org \in Orgs /\ q.id \in Ids
        BY <1>4 DEF Handler
    <2>. QED
        BY <1>4, <2>1, NullAssumption DEF Sound, Joined, Stays, Roles
<1>. QED
    BY <1>1, <1>2, <1>3, <1>4 DEF Handler

\* A step of one request that leaves the tables alone and brings no deletion.
LEMMA Moves ==
    ASSUME IInv, NEW h \in Handlers, NEW q \in Handler, UNCHANGED <<members, props>>,
           handler' = [handler EXCEPT ![h] = q],
           Sound(q, members, props), q.pc # "audit"
    PROVE  IInv'
<1>1. TypeOK'
    BY DEF IInv, TypeOK
<1>2. (\A k \in Handlers : Sound(handler[k], members, props))'
    BY DEF IInv, TypeOK
<1>3. OneDeletion'
    BY DEF IInv, TypeOK, OneDeletion, Deletes
<1>4. UniqueSlugs'
    BY DEF IInv, UniqueSlugs, Active
<1>. QED
    BY <1>1, <1>2, <1>3, <1>4 DEF IInv

\* A request may write only as a manager.
LEMMA Writers ==
    ASSUME IInv, NEW h \in Handlers, MayWrite(h)
    PROVE  /\ handler[h].pc = "run"
           /\ handler[h].user \in Users /\ handler[h].org \in Orgs
           /\ members[<<handler[h].user, handler[h].org>>] = "manager"
<1>1. handler[h] \in Handler /\ handler[h].pc = "run"
    BY DEF IInv, TypeOK, MayWrite
<1>2. /\ handler[h].user \in Users /\ handler[h].org \in Orgs
      /\ handler[h].role \in {"manager", "cleaner", "guest"}
    BY <1>1 DEF Handler, Roles
<1>3. handler[h].role = "manager"
    BY <1>2 DEF MayWrite, ensure_role, role_level
<1>. QED
    BY <1>1, <1>2, <1>3 DEF IInv, Sound

\* A request may read as a manager or a cleaner.
LEMMA Readers ==
    ASSUME IInv, NEW h \in Handlers, MayRead(h)
    PROVE  /\ handler[h].pc = "run"
           /\ handler[h].user \in Users /\ handler[h].org \in Orgs
           /\ members[<<handler[h].user, handler[h].org>>] \in {"manager", "cleaner"}
<1>1. handler[h] \in Handler /\ handler[h].pc = "run"
    BY DEF IInv, TypeOK, MayRead
<1>2. /\ handler[h].user \in Users /\ handler[h].org \in Orgs
      /\ handler[h].role \in {"manager", "cleaner", "guest"}
    BY <1>1 DEF Handler, Roles
<1>3. handler[h].role # "guest"
    BY DEF MayRead, ensure_role, role_level
<1>. QED
    BY <1>1, <1>2, <1>3 DEF IInv, Sound

\* Rows shown to a member are rows of the organisation.
LEMMA Showing ==
    ASSUME IInv, NEW h \in Handlers, NEW ids \in SUBSET Ids, MayRead(h), Show(h, ids),
           \A i \in ids : Visible(h, i)
    PROVE  IInv'
<1>. DEFINE q == [pc |-> "reply", user |-> handler[h].user, org |-> handler[h].org, shown |-> ids]
<1>1. q \in Handler
    BY Readers DEF Handler
<1>2. Sound(q, members, props)
    BY Readers DEF Sound, Visible, Active
<1>3. handler' = [handler EXCEPT ![h] = q]
    BY DEF Show
<1>4. q.pc # "audit"
    OBVIOUS
<1>. HIDE DEF q
<1>. QED
    BY <1>1, <1>2, <1>3, <1>4, Moves DEF Show

\* A statement that writes one row, and hands over its event.
LEMMA Writing ==
    ASSUME IInv, NEW h \in Handlers, NEW i \in Ids, NEW kind \in {"created", "updated", "deleted"},
           NEW new \in Rows, MayWrite(h),
           props' = [props EXCEPT ![i] = new], Emit(h, kind, i), UNCHANGED members,
           new.org = handler[h].org,
           props[i] # NoRow => props[i].org = new.org /\ ~props[i].deleted,
           kind = "deleted" => new.deleted /\ props[i] # NoRow,
           ~new.deleted => ~Taken(new.org, new.slug, i)
    PROVE  IInv'
<1>. DEFINE q == [pc |-> "audit", user |-> handler[h].user, org |-> handler[h].org,
                  kind |-> kind, id |-> i]
<1>1. q \in Handler
    BY Writers DEF Handler
<1>2. /\ props \in [Ids -> Rows \cup {NoRow}] /\ props' \in [Ids -> Rows \cup {NoRow}]
      /\ props'[i] = new /\ new # NoRow
    BY NullAssumption DEF IInv, TypeOK
<1>3. Sound(q, members, props')
    BY <1>2, Writers DEF Sound
<1>4. handler' = [handler EXCEPT ![h] = q] /\ handler \in [Handlers -> Handler]
    BY DEF Emit, IInv, TypeOK
<1>5. Joined(members, members) /\ Stays(props, props')
    BY <1>2 DEF Joined, Stays
<1>6. TypeOK'
    BY <1>1, <1>2, <1>4 DEF IInv, TypeOK
<1>7. (\A k \in Handlers : Sound(handler[k], members, props))'
    <2>1. SUFFICES ASSUME NEW k \in Handlers
                   PROVE  Sound(handler'[k], members, props')
        OBVIOUS
    <2>2. CASE k = h
        BY <1>3, <1>4, <2>2
    <2>3. CASE k # h
        <3>1. handler'[k] = handler[k] /\ handler[k] \in Handler /\ Sound(handler[k], members, props)
            BY <1>4, <2>3 DEF IInv
        <3>. QED
            BY <3>1, <1>5, Frame
    <2>. QED
        BY <2>2, <2>3
<1>8. OneDeletion'
    <2>1. \A k \in Handlers : kind = "deleted" => ~Deletes(handler[k], i)
        BY DEF IInv, Sound, Deletes
    <2>2. \A k \in Handlers, j \in Ids : k # h => (Deletes(handler'[k], j) <=> Deletes(handler[k], j))
        BY <1>4
    <2>3. \A j \in Ids : Deletes(handler'[h], j) => kind = "deleted" /\ j = i
        BY <1>4 DEF Deletes
    <2>. QED
        BY <2>1, <2>2, <2>3 DEF IInv, OneDeletion
<1>9. UniqueSlugs'
    <2>1. SUFFICES ASSUME NEW j \in Ids, NEW k \in Ids, Active(j)', Active(k)',
                          props'[j].org = props'[k].org, props'[j].slug = props'[k].slug
                   PROVE  j = k
        BY DEF UniqueSlugs
    <2>2. \A m \in Ids \ {i} : props'[m] = props[m] /\ (Active(m)' <=> Active(m))
        BY <1>2 DEF Active
    <2>3. \A m \in Ids \ {i} : Active(m) /\ Active(i)'
                               => ~(props[m].org = new.org /\ props[m].slug = new.slug)
        BY <1>2 DEF Taken, Active
    <2>. QED
        BY <1>2, <2>1, <2>2, <2>3 DEF IInv, UniqueSlugs
<1>. QED
    BY <1>6, <1>7, <1>8, <1>9 DEF IInv

-----------------------------------------------------------------------------
\* The row each of the three statements writes.
Fresh(h, s, raw) == [org |-> handler[h].org, slug |-> s, notes |-> parse_optional_text(raw), deleted |-> FALSE]
Patched(i, s, raw) ==
    [props[i] EXCEPT !.slug = Coalesce(s, @, NoSlug), !.notes = Coalesce(parse_optional_text(raw), @, NoText)]
Gone(i) == [props[i] EXCEPT !.deleted = TRUE]

\* A text that is sent is a text or counts as not sent.
LEMMA Parsed ==
    ASSUME NEW raw \in Raw
    PROVE  parse_optional_text(raw) \in Texts \cup {NoText}
BY DEF parse_optional_text, Raw

\* INSERT writes a well-formed row under a slug that is free.
LEMMA Creating ==
    ASSUME IInv, NEW h \in Handlers, NEW i \in Ids, NEW s \in Slugs, NEW raw \in Raw,
           Create(h, i, s, raw)
    PROVE  /\ Fresh(h, s, raw) \in Rows
           /\ props' = [props EXCEPT ![i] = Fresh(h, s, raw)]
           /\ props[i] = NoRow
           /\ ~Taken(handler[h].org, s, i)
           /\ IInv'
<1>1. MayWrite(h)
    BY DEF Create
<1>2. Fresh(h, s, raw) \in Rows
    BY <1>1, Writers, Parsed DEF Fresh, Rows
<1>3. props' = [props EXCEPT ![i] = Fresh(h, s, raw)] /\ props[i] = NoRow
      /\ ~Taken(handler[h].org, s, i)
    BY DEF Create, Fresh
<1>4. Fresh(h, s, raw).org = handler[h].org /\ Fresh(h, s, raw).slug = s
    BY DEF Fresh
<1>5. IInv'
    BY <1>1, <1>2, <1>3, <1>4, Writing DEF Create
<1>. QED
    BY <1>2, <1>3, <1>5

\* UPDATE keeps the row in its organisation and gives it a slug that is free.
LEMMA Updating ==
    ASSUME IInv, NEW h \in Handlers, NEW i \in Ids, NEW s \in Slugs \cup {NoSlug}, NEW raw \in Raw,
           Update(h, i, s, raw)
    PROVE  /\ props[i] \in Rows /\ ~props[i].deleted
           /\ Patched(i, s, raw) \in Rows
           /\ Patched(i, s, raw).org = props[i].org
           /\ ~Patched(i, s, raw).deleted
           /\ props' = [props EXCEPT ![i] = Patched(i, s, raw)]
           /\ ~Taken(props[i].org, Patched(i, s, raw).slug, i)
           /\ IInv'
<1>1. MayWrite(h)
    BY DEF Update
<1>2. props[i] \in Rows /\ ~props[i].deleted /\ props[i].org = handler[h].org
    BY DEF Update, Visible, Active, IInv, TypeOK
<1>3. /\ Patched(i, s, raw) \in Rows
      /\ Patched(i, s, raw).org = props[i].org
      /\ ~Patched(i, s, raw).deleted
      /\ Patched(i, s, raw).slug = Coalesce(s, props[i].slug, NoSlug)
    BY <1>2, Parsed DEF Patched, Rows, Coalesce
<1>4. props' = [props EXCEPT ![i] = Patched(i, s, raw)]
    BY DEF Update, Patch, Patched, IInv, TypeOK
<1>5. ~Taken(props[i].org, Patched(i, s, raw).slug, i)
    BY <1>2, <1>3 DEF Update
<1>6. Emit(h, "updated", i) /\ UNCHANGED members
    BY DEF Update, Patch
<1>7. IInv'
    BY <1>1, <1>2, <1>3, <1>4, <1>5, <1>6, Writing
<1>. QED
    BY <1>2, <1>3, <1>4, <1>5, <1>7

\* The soft deletion changes nothing else of the row.
LEMMA Deleting ==
    ASSUME IInv, NEW h \in Handlers, NEW i \in Ids, Delete(h, i)
    PROVE  /\ props[i] \in Rows /\ ~props[i].deleted
           /\ Gone(i) \in Rows
           /\ Gone(i).org = props[i].org /\ Gone(i).slug = props[i].slug
           /\ Gone(i).notes = props[i].notes /\ Gone(i).deleted
           /\ props' = [props EXCEPT ![i] = Gone(i)]
           /\ IInv'
<1>1. MayWrite(h)
    BY DEF Delete
<1>2. props[i] \in Rows /\ ~props[i].deleted /\ props[i].org = handler[h].org /\ props[i] # NoRow
    BY DEF Delete, Visible, Active, IInv, TypeOK
<1>3. /\ Gone(i) \in Rows
      /\ Gone(i).org = props[i].org /\ Gone(i).slug = props[i].slug
      /\ Gone(i).notes = props[i].notes /\ Gone(i).deleted
    BY <1>2 DEF Gone, Rows
<1>4. props' = [props EXCEPT ![i] = Gone(i)]
    BY DEF Delete, SoftDelete, Gone, IInv, TypeOK
<1>5. Emit(h, "deleted", i) /\ UNCHANGED members
    BY DEF Delete, SoftDelete
<1>6. IInv'
    BY <1>1, <1>2, <1>3, <1>4, <1>5, Writing
<1>. QED
    BY <1>2, <1>3, <1>4, <1>6

-----------------------------------------------------------------------------
\* Empty tables and idle requests.
LEMMA InitIInv == Init => IInv
BY DEF Init, IInv, TypeOK, Handler, Idle, Sound, OneDeletion, Deletes, UniqueSlugs, Active

\* Every step keeps the invariant.
LEMMA NextIInv == IInv /\ [Next]_vars => IInv'
<1>. SUFFICES ASSUME IInv, [Next]_vars PROVE IInv'
    OBVIOUS
<1>1. CASE UNCHANGED vars
    BY <1>1 DEF vars, IInv, TypeOK, OneDeletion, Deletes, UniqueSlugs, Active
<1>2. ASSUME NEW u \in Users, NEW o \in Orgs, NEW r \in Roles, Join(u, o, r)
      PROVE  IInv'
    <2>1. TypeOK'
        BY <1>2 DEF Join, Tenancy!Enter, IInv, TypeOK
    <2>2. Joined(members, members') /\ Stays(props, props')
        BY <1>2 DEF Join, Tenancy!Enter, Joined, Stays, IInv, TypeOK
    <2>3. (\A h \in Handlers : Sound(handler[h], members, props))'
        <3>1. SUFFICES ASSUME NEW h \in Handlers PROVE Sound(handler[h], members', props')
            BY <1>2 DEF Join, Tenancy!Enter
        <3>2. handler[h] \in Handler /\ Sound(handler[h], members, props)
            BY DEF IInv, TypeOK
        <3>. QED
            BY <2>2, <3>2, Frame
    <2>4. (OneDeletion /\ UniqueSlugs)'
        BY <1>2 DEF Join, Tenancy!Enter, IInv, OneDeletion, Deletes, UniqueSlugs, Active
    <2>. QED
        BY <2>1, <2>3, <2>4 DEF IInv
<1>3. ASSUME NEW h \in Handlers, NEW u \in Users, NEW o \in Orgs, Resolve(h, u, o)
      PROVE  IInv'
    <2>. DEFINE q == [pc |-> "run", user |-> u, org |-> o, role |-> members[<<u, o>>]]
    <2>1. q \in Handler
        BY <1>3 DEF Resolve, find_active_membership, IInv, TypeOK, Handler
    <2>2. Sound(q, members, props) /\ q.pc # "audit"
        BY DEF Sound
    <2>3. handler' = [handler EXCEPT ![h] = q] /\ UNCHANGED <<members, props>>
        BY <1>3 DEF Resolve, find_active_membership
    <2>. HIDE DEF q
    <2>. QED
        BY <2>1, <2>2, <2>3, Moves
<1>4. ASSUME NEW h \in Handlers, List(h)
      PROVE  IInv'
    BY <1>4, Showing, {i \in Ids : Visible(h, i)} \in SUBSET Ids DEF List
<1>5. ASSUME NEW h \in Handlers, NEW i \in Ids, Get(h, i)
      PROVE  IInv'
    BY <1>5, Showing, {i} \in SUBSET Ids DEF Get
<1>6. ASSUME NEW h \in Handlers, Refuse(h) \/ Finish(h)
      PROVE  IInv'
    <2>1. Idle \in Handler /\ Sound(Idle, members, props) /\ Idle.pc # "audit"
        BY DEF Idle, Handler, Sound
    <2>. QED
        BY <1>6, <2>1, Moves DEF Refuse, Finish
<1>. QED
    BY <1>1, <1>2, <1>3, <1>4, <1>5, <1>6, Creating, Updating, Deleting DEF Next

\* Type correctness.
THEOREM TypeCorrect == Spec => []TypeOK
<1>1. IInv => TypeOK
    BY DEF IInv
<1>. QED
    BY <1>1, InitIInv, NextIInv, PTL DEF Spec

\* A request sees and changes only properties of an organisation its caller is
\* in, whatever ids it names.
THEOREM TenantsAreIsolated == Spec => []TenantIsolation
<1>1. IInv => TenantIsolation
    BY DEF IInv, Sound, TenantIsolation
<1>. QED
    BY <1>1, InitIInv, NextIInv, PTL DEF Spec

\* Of concurrent deletions of a property one succeeds, and it stays deleted.
THEOREM DeletionsHappenOnce == Spec => []DeletedOnce
<1>1. IInv => DeletedOnce
    <2>1. SUFFICES ASSUME IInv, NEW h \in Handlers, handler[h].pc = "audit", handler[h].kind = "deleted"
                   PROVE  /\ props[handler[h].id].deleted
                          /\ \A k \in Handlers \ {h} : ~Deletes(handler[k], handler[h].id)
        BY DEF DeletedOnce, Deletes
    <2>2. handler[h].id \in Ids
        BY <2>1 DEF IInv, TypeOK, Handler
    <2>. QED
        BY <2>1, <2>2 DEF IInv, Sound, OneDeletion, Deletes
<1>. QED
    BY <1>1, InitIInv, NextIInv, PTL DEF Spec

-----------------------------------------------------------------------------
(* The refinement.  A table is passed as pr, to speak of props and props'. *)

On(pr, o, s) == {i \in Ids : pr[i] # NoRow /\ ~pr[i].deleted /\ pr[i].org = o /\ pr[i].slug = s}

AtMostOne(pr) == \A o \in Orgs, s \in Slugs : \A i, j \in On(pr, o, s) : i = j

TheOne(ids) == IF ids = {} THEN NoId ELSE CHOOSE i \in ids : TRUE

Shelf(pr) == [k \in Orgs \X Slugs |-> TheOne(On(pr, k[1], k[2]))]

Written(pr) == [i \in Ids |-> IF pr[i] = NoRow THEN NoText ELSE pr[i].notes]

Known(pr) == {i \in Ids : pr[i] # NoRow}

\* The shelves of Catalog, read off the table.
LEMMA Mapped ==
    /\ Shelves!CatalogInit <=>
          /\ Shelf(props) = [k \in Orgs \X Slugs |-> NoId]
          /\ Written(props) = [i \in Ids |-> NoText]
          /\ Known(props) = {}
    /\ \A o \in Orgs, s \in Slugs, i \in Ids, t \in Texts \cup {NoText} :
          Shelves!Add(o, s, i, t) <=>
             /\ Shelf(props)[<<o, s>>] = NoId
             /\ i \in Ids \ Known(props)
             /\ Shelf(props') = [Shelf(props) EXCEPT ![<<o, s>>] = i]
             /\ Known(props') = Known(props) \cup {i}
             /\ Written(props') = [Written(props) EXCEPT ![i] = IF t = NoText THEN @ ELSE t]
    /\ \A o \in Orgs, s \in Slugs, to \in Slugs, t \in Texts \cup {NoText} :
          Shelves!Revise(o, s, to, t) <=>
             /\ Shelf(props)[<<o, s>>] # NoId
             /\ to = s \/ Shelf(props)[<<o, to>>] = NoId
             /\ Shelf(props') = [Shelf(props) EXCEPT ![<<o, s>>] = NoId,
                                                     ![<<o, to>>] = Shelf(props)[<<o, s>>]]
             /\ Written(props') = [Written(props) EXCEPT ![Shelf(props)[<<o, s>>]] =
                                      IF t = NoText THEN @ ELSE t]
             /\ Known(props') = Known(props)
    /\ \A o \in Orgs, s \in Slugs :
          Shelves!Remove(o, s) <=>
             /\ Shelf(props)[<<o, s>>] # NoId
             /\ Shelf(props') = [Shelf(props) EXCEPT ![<<o, s>>] = NoId]
             /\ Written(props') = Written(props) /\ Known(props') = Known(props)
    /\ props' = props => UNCHANGED Shelves!catalogVars
<1>1. /\ Shelves!CatalogInit <=>
          /\ Shelf(props) = [k \in Orgs \X Slugs |-> NoId]
          /\ Written(props) = [i \in Ids |-> NoText]
          /\ Known(props) = {}
    BY DEF Shelves!CatalogInit, Named, Active, Shelf, TheOne, On, Written, Known
<1>2. \A o \in Orgs, s \in Slugs, i \in Ids, t \in Texts \cup {NoText} :
          Shelves!Add(o, s, i, t) <=>
             /\ Shelf(props)[<<o, s>>] = NoId
             /\ i \in Ids \ Known(props)
             /\ Shelf(props') = [Shelf(props) EXCEPT ![<<o, s>>] = i]
             /\ Known(props') = Known(props) \cup {i}
             /\ Written(props') = [Written(props) EXCEPT ![i] = IF t = NoText THEN @ ELSE t]
    BY DEF Shelves!Add, Shelves!Given, Named, Active, Shelf, TheOne, On, Written, Known
<1>3. \A o \in Orgs, s \in Slugs, to \in Slugs, t \in Texts \cup {NoText} :
          Shelves!Revise(o, s, to, t) <=>
             /\ Shelf(props)[<<o, s>>] # NoId
             /\ to = s \/ Shelf(props)[<<o, to>>] = NoId
             /\ Shelf(props') = [Shelf(props) EXCEPT ![<<o, s>>] = NoId,
                                                     ![<<o, to>>] = Shelf(props)[<<o, s>>]]
             /\ Written(props') = [Written(props) EXCEPT ![Shelf(props)[<<o, s>>]] =
                                      IF t = NoText THEN @ ELSE t]
             /\ Known(props') = Known(props)
    BY DEF Shelves!Revise, Shelves!Given, Named, Active, Shelf, TheOne, On, Written, Known
<1>4. \A o \in Orgs, s \in Slugs :
          Shelves!Remove(o, s) <=>
             /\ Shelf(props)[<<o, s>>] # NoId
             /\ Shelf(props') = [Shelf(props) EXCEPT ![<<o, s>>] = NoId]
             /\ Written(props') = Written(props) /\ Known(props') = Known(props)
    BY DEF Shelves!Remove, Named, Active, Shelf, TheOne, On, Written, Known
<1>5. props' = props => UNCHANGED Shelves!catalogVars
    BY DEF Shelves!catalogVars, Named, Active
<1>. QED
    BY <1>1, <1>2, <1>3, <1>4, <1>5

\* A shelf holds the one property of its slug, or nothing.
LEMMA OnShelf ==
    ASSUME NEW pr, AtMostOne(pr), NEW o \in Orgs, NEW s \in Slugs
    PROVE  /\ Shelf(pr)[<<o, s>>] \in Ids \cup {NoId}
           /\ \A i \in Ids : Shelf(pr)[<<o, s>>] = i <=> i \in On(pr, o, s)
           /\ Shelf(pr)[<<o, s>>] = NoId <=> On(pr, o, s) = {}
<1>1. Shelf(pr)[<<o, s>>] = TheOne(On(pr, o, s))
    BY DEF Shelf
<1>2. On(pr, o, s) \subseteq Ids
    BY DEF On
<1>3. CASE On(pr, o, s) = {}
    BY <1>1, <1>3, NullAssumption DEF TheOne
<1>4. CASE On(pr, o, s) # {}
    <2>1. PICK i \in On(pr, o, s) : TRUE
        BY <1>4
    <2>2. (CHOOSE j \in On(pr, o, s) : TRUE) = i
        BY <2>1 DEF AtMostOne
    <2>. QED
        BY <1>1, <1>2, <1>4, <2>1, <2>2, NullAssumption DEF AtMostOne, TheOne
<1>. QED
    BY <1>3, <1>4

\* Shelves are the same when they hold the same under every slug.
LEMMA SameShelves ==
    ASSUME NEW pr, NEW f, f = [k \in Orgs \X Slugs |-> f[k]],
           \A o \in Orgs, s \in Slugs : Shelf(pr)[<<o, s>>] = f[<<o, s>>]
    PROVE  Shelf(pr) = f
<1>1. ASSUME NEW k \in Orgs \X Slugs PROVE Shelf(pr)[k] = f[k]
    <2>1. PICK o \in Orgs, s \in Slugs : k = <<o, s>>
        OBVIOUS
    <2>. QED
        BY <2>1
<1>2. Shelf(pr) = [k \in Orgs \X Slugs |-> Shelf(pr)[k]]
    BY Zenon DEF Shelf
<1>. QED
    BY <1>1, <1>2, Zenon

\* The unique index in the words of the refinement.
LEMMA Indexed == IInv => AtMostOne(props)
BY DEF IInv, UniqueSlugs, AtMostOne, On, Active

\* An INSERT is an Add.
LEMMA CreateAdds ==
    ASSUME IInv, AtMostOne(props'), NEW h \in Handlers, NEW i \in Ids, NEW s \in Slugs, NEW raw \in Raw,
           Create(h, i, s, raw)
    PROVE  Shelves!CatalogNext
<1>. DEFINE o == handler[h].org
            t == parse_optional_text(raw)
            new == Fresh(h, s, raw)
<1>1. /\ new \in Rows /\ props' = [props EXCEPT ![i] = new]
      /\ props[i] = NoRow /\ ~Taken(o, s, i)
    BY Creating
<1>2. o \in Orgs /\ t \in Texts \cup {NoText}
    BY Writers, Parsed DEF Create
<1>3. new.org = o /\ new.slug = s /\ ~new.deleted /\ new.notes = t
    BY DEF Fresh
<1>4. props \in [Ids -> Rows \cup {NoRow}] /\ AtMostOne(props)
    BY Indexed DEF IInv, TypeOK
<1>. HIDE DEF new, t, o
<1>5. Shelf(props)[<<o, s>>] = NoId
    <2>1. On(props, o, s) = {}
        BY <1>1 DEF Taken, Active, On
    <2>. QED
        BY <1>2, <1>4, <2>1, OnShelf
<1>6. Shelf(props') = [Shelf(props) EXCEPT ![<<o, s>>] = i]
    <2>1. \A p \in Orgs, z \in Slugs :
             Shelf(props')[<<p, z>>] = IF p = o /\ z = s THEN i ELSE Shelf(props)[<<p, z>>]
        <3>1. SUFFICES ASSUME NEW p \in Orgs, NEW z \in Slugs
                       PROVE  Shelf(props')[<<p, z>>] = IF p = o /\ z = s THEN i
                                                        ELSE Shelf(props)[<<p, z>>]
            OBVIOUS
        <3>2. \A j \in Ids : j \in On(props', p, z) <=>
                 IF j = i THEN p = o /\ z = s ELSE j \in On(props, p, z)
            BY <1>1, <1>3, <1>4, NullAssumption DEF On
        <3>3. i \notin On(props, p, z)
            BY <1>1 DEF On
        <3>. QED
            BY <1>4, <3>2, <3>3, OnShelf
    <2>. DEFINE f == [Shelf(props) EXCEPT ![<<o, s>>] = i]
    <2>2. f = [k \in Orgs \X Slugs |-> f[k]]
        BY DEF Shelf
    <2>3. \A p \in Orgs, z \in Slugs : f[<<p, z>>] = IF p = o /\ z = s THEN i ELSE Shelf(props)[<<p, z>>]
        BY DEF Shelf
    <2>. HIDE DEF f
    <2>4. \A p \in Orgs, z \in Slugs : Shelf(props')[<<p, z>>] = f[<<p, z>>]
        BY <2>1, <2>3
    <2>5. Shelf(props') = f
        BY <2>2, <2>4, SameShelves
    <2>. QED
        BY <2>5 DEF f
<1>7. Known(props') = Known(props) \cup {i}
    BY <1>1, <1>4, NullAssumption DEF Known
<1>8. Written(props') = [Written(props) EXCEPT ![i] = IF t = NoText THEN @ ELSE t]
    BY <1>1, <1>2, <1>3, <1>4, NullAssumption DEF Written
<1>9. i \in Ids \ Known(props)
    BY <1>1 DEF Known
<1>10. Shelves!Add(o, s, i, t)
    BY <1>2, <1>5, <1>6, <1>7, <1>8, <1>9, Mapped
<1>. QED
    BY <1>2, <1>10 DEF Shelves!CatalogNext

\* A row that stays active and in its organisation gets another slug or text.
Rewrites(i, org, from, dest, text) ==
    /\ props[i] \in Rows /\ ~props[i].deleted /\ props[i].org = org /\ props[i].slug = from
    /\ ~Taken(org, dest, i)
    /\ \E new \in Rows :
          /\ props' = [props EXCEPT ![i] = new]
          /\ new.org = org /\ new.slug = dest /\ ~new.deleted
          /\ new.notes = IF text = NoText THEN props[i].notes ELSE text

\* It is a Revise.
LEMMA Revising ==
    ASSUME IInv, AtMostOne(props'), NEW i \in Ids,
           NEW org \in Orgs, NEW from \in Slugs, NEW dest \in Slugs, NEW text \in Texts \cup {NoText},
           Rewrites(i, org, from, dest, text)
    PROVE  Shelves!CatalogNext
<1>1. PICK new \in Rows : /\ props' = [props EXCEPT ![i] = new]
                         /\ new.org = org /\ new.slug = dest /\ ~new.deleted
                         /\ new.notes = IF text = NoText THEN props[i].notes ELSE text
    BY DEF Rewrites
<1>2. props[i] \in Rows /\ ~props[i].deleted /\ props[i].org = org /\ props[i].slug = from
    BY DEF Rewrites
<1>3. props \in [Ids -> Rows \cup {NoRow}] /\ AtMostOne(props)
    BY Indexed DEF IInv, TypeOK
<1>4. Shelf(props)[<<org, from>>] = i
    <2>1. i \in On(props, org, from)
        BY <1>2, NullAssumption DEF On
    <2>. QED
        BY <1>3, <2>1, OnShelf
<1>5. dest = from \/ Shelf(props)[<<org, dest>>] = NoId
    <2>1. SUFFICES ASSUME dest # from PROVE On(props, org, dest) = {}
        BY <1>3, OnShelf
    <2>. QED
        BY <1>2, <2>1 DEF Rewrites, Taken, Active, On
<1>6. Shelf(props') = [Shelf(props) EXCEPT ![<<org, from>>] = NoId, ![<<org, dest>>] = i]
    <2>. DEFINE f == [Shelf(props) EXCEPT ![<<org, from>>] = NoId, ![<<org, dest>>] = i]
    <2>1. f = [k \in Orgs \X Slugs |-> f[k]]
        BY DEF Shelf
    <2>2. \A p \in Orgs, z \in Slugs :
             f[<<p, z>>] = IF p = org /\ z = dest THEN i
                           ELSE IF p = org /\ z = from THEN NoId
                           ELSE Shelf(props)[<<p, z>>]
        BY DEF Shelf
    <2>. HIDE DEF f
    <2>3. ASSUME NEW p \in Orgs, NEW z \in Slugs
          PROVE  Shelf(props')[<<p, z>>] = f[<<p, z>>]
        <3>1. \A j \in Ids : j \in On(props', p, z) <=>
                 IF j = i THEN p = org /\ z = dest ELSE j \in On(props, p, z)
            BY <1>1, <1>3, NullAssumption DEF On
        <3>2. i \in On(props, p, z) <=> p = org /\ z = from
            BY <1>2, NullAssumption DEF On
        <3>3. CASE p = org /\ z = dest
            BY <2>2, <3>1, <3>3, OnShelf
        <3>4. CASE p = org /\ z = from /\ z # dest
            <4>1. On(props, p, z) = {i}
                BY <1>3, <3>2, <3>4 DEF AtMostOne, On
            <4>2. On(props', p, z) = {}
                BY <3>1, <3>4, <4>1 DEF On
            <4>. QED
                BY <2>2, <3>4, <4>2, OnShelf
        <3>5. CASE ~(p = org /\ z = dest) /\ ~(p = org /\ z = from)
            <4>1. \A j \in Ids : j \in On(props', p, z) <=> j \in On(props, p, z)
                BY <3>1, <3>2, <3>5
            <4>2. f[<<p, z>>] = Shelf(props)[<<p, z>>]
                BY <2>2, <3>5
            <4>3. Shelf(props')[<<p, z>>] = Shelf(props)[<<p, z>>]
                BY <1>3, <4>1, OnShelf
            <4>. QED
                BY <4>2, <4>3
        <3>. QED
            BY <3>3, <3>4, <3>5
    <2>4. \A p \in Orgs, z \in Slugs : Shelf(props')[<<p, z>>] = f[<<p, z>>]
        BY <2>3
    <2>5. ASSUME NEW k \in Orgs \X Slugs PROVE Shelf(props')[k] = f[k]
        BY <2>4
    <2>6. Shelf(props') = [k \in Orgs \X Slugs |-> Shelf(props')[k]]
        BY Zenon DEF Shelf
    <2>7. Shelf(props') = f
        BY <2>1, <2>5, <2>6, Zenon
    <2>. QED
        BY <2>7 DEF f
<1>7. Known(props') = Known(props)
    BY <1>1, <1>3, <1>2, NullAssumption DEF Known
<1>8. Written(props') = [Written(props) EXCEPT ![i] = IF text = NoText THEN @ ELSE text]
    BY <1>1, <1>3, <1>2, NullAssumption DEF Written
<1>9. i # NoId
    BY NullAssumption
<1>10. Shelves!Revise(org, from, dest, text)
    <2>1. /\ Shelf(props)[<<org, from>>] # NoId
          /\ Shelf(props') = [Shelf(props) EXCEPT ![<<org, from>>] = NoId,
                                                  ![<<org, dest>>] = Shelf(props)[<<org, from>>]]
          /\ Written(props') = [Written(props) EXCEPT ![Shelf(props)[<<org, from>>]] =
                                   IF text = NoText THEN @ ELSE text]
        BY <1>4, <1>6, <1>8, <1>9
    <2>2. Shelves!Revise(org, from, dest, text) <=>
             /\ Shelf(props)[<<org, from>>] # NoId
             /\ dest = from \/ Shelf(props)[<<org, dest>>] = NoId
             /\ Shelf(props') = [Shelf(props) EXCEPT ![<<org, from>>] = NoId,
                                                     ![<<org, dest>>] = Shelf(props)[<<org, from>>]]
             /\ Written(props') = [Written(props) EXCEPT ![Shelf(props)[<<org, from>>]] =
                                      IF text = NoText THEN @ ELSE text]
             /\ Known(props') = Known(props)
        BY Mapped
    <2>. QED
        BY <1>5, <1>7, <2>1, <2>2
<1>11. \E y \in Slugs, u \in Texts \cup {NoText} : Shelves!Revise(org, from, y, u)
    BY <1>10
<1>. QED
    BY <1>11 DEF Shelves!CatalogNext

\* An UPDATE is a Revise.
LEMMA UpdateRevises ==
    ASSUME IInv, AtMostOne(props'), NEW h \in Handlers, NEW i \in Ids,
           NEW sent \in Slugs \cup {NoSlug}, NEW raw \in Raw,
           Update(h, i, sent, raw)
    PROVE  Shelves!CatalogNext
<1>. DEFINE new == Patched(i, sent, raw)
            text == parse_optional_text(raw)
<1>1. /\ new \in Rows /\ props' = [props EXCEPT ![i] = new]
      /\ props[i] \in Rows /\ ~props[i].deleted
      /\ ~Taken(props[i].org, new.slug, i)
    BY Updating
<1>2. text \in Texts \cup {NoText}
    BY Parsed
<1>3. /\ new.org = props[i].org /\ ~new.deleted
      /\ new.notes = IF text = NoText THEN props[i].notes ELSE text
    BY <1>1, Updating DEF Patched, Coalesce, Rows
<1>4. props[i].org \in Orgs /\ props[i].slug \in Slugs /\ new.slug \in Slugs
    BY <1>1 DEF Rows
<1>5. Rewrites(i, props[i].org, props[i].slug, new.slug, text)
    BY <1>1, <1>3 DEF Rewrites
<1>. HIDE DEF new, text
<1>. QED
    BY <1>2, <1>4, <1>5, Revising

\* A soft deletion is a Remove.
LEMMA DeleteRemoves ==
    ASSUME IInv, AtMostOne(props'), NEW h \in Handlers, NEW i \in Ids, Delete(h, i)
    PROVE  Shelves!CatalogNext
<1>. DEFINE o == props[i].org
            s == props[i].slug
            new == Gone(i)
<1>1. /\ new \in Rows /\ props' = [props EXCEPT ![i] = new]
      /\ props[i] \in Rows /\ ~props[i].deleted
      /\ new.deleted /\ new.notes = props[i].notes
    BY Deleting
<1>2. o \in Orgs /\ s \in Slugs
    BY <1>1 DEF Rows
<1>3. props \in [Ids -> Rows \cup {NoRow}] /\ AtMostOne(props)
    BY Indexed DEF IInv, TypeOK
<1>4. props[i].org = o /\ props[i].slug = s
    OBVIOUS
<1>. HIDE DEF new, o, s
<1>5. Shelf(props)[<<o, s>>] = i
    <2>1. i \in On(props, o, s)
        BY <1>1, <1>4, NullAssumption DEF On
    <2>. QED
        BY <1>2, <1>3, <2>1, OnShelf
<1>6. Shelf(props') = [Shelf(props) EXCEPT ![<<o, s>>] = NoId]
    <2>. DEFINE f == [Shelf(props) EXCEPT ![<<o, s>>] = NoId]
    <2>1. f = [k \in Orgs \X Slugs |-> f[k]]
        BY DEF Shelf
    <2>2. \A p \in Orgs, z \in Slugs :
             f[<<p, z>>] = IF p = o /\ z = s THEN NoId ELSE Shelf(props)[<<p, z>>]
        BY DEF Shelf
    <2>. HIDE DEF f
    <2>3. ASSUME NEW p \in Orgs, NEW z \in Slugs
          PROVE  Shelf(props')[<<p, z>>] = f[<<p, z>>]
        <3>1. \A j \in Ids : j \in On(props', p, z) <=> j # i /\ j \in On(props, p, z)
            BY <1>1, <1>3, NullAssumption DEF On
        <3>2. i \in On(props, p, z) <=> p = o /\ z = s
            BY <1>1, <1>4, NullAssumption DEF On
        <3>3. CASE p = o /\ z = s
            <4>1. On(props, p, z) = {i}
                BY <1>3, <3>2, <3>3 DEF AtMostOne, On
            <4>2. On(props', p, z) = {}
                BY <3>1, <4>1 DEF On
            <4>. QED
                BY <2>2, <3>3, <4>2, OnShelf
        <3>4. CASE ~(p = o /\ z = s)
            <4>1. \A j \in Ids : j \in On(props', p, z) <=> j \in On(props, p, z)
                BY <3>1, <3>2, <3>4
            <4>2. f[<<p, z>>] = Shelf(props)[<<p, z>>]
                BY <2>2, <3>4
            <4>. QED
                BY <1>3, <4>1, <4>2, OnShelf
        <3>. QED
            BY <3>3, <3>4
    <2>4. Shelf(props') = f
        BY <2>1, <2>3, SameShelves
    <2>. QED
        BY <2>4 DEF f
<1>7. Known(props') = Known(props)
    BY <1>1, <1>3, NullAssumption DEF Known
<1>8. Written(props') = Written(props)
    BY <1>1, <1>3, NullAssumption DEF Written
<1>9. Shelves!Remove(o, s)
    BY <1>2, <1>5, <1>6, <1>7, <1>8, NullAssumption, Mapped
<1>. QED
    BY <1>2, <1>9 DEF Shelves!CatalogNext

\* The table is a Catalog, whatever requests do at once.
THEOREM Refinement == Spec => ImplementsCatalog
<1>1. Init => Shelves!CatalogInit
    <2>1. SUFFICES ASSUME Init PROVE Shelves!CatalogInit
        OBVIOUS
    <2>2. \A o, s : On(props, o, s) = {}
        BY <2>1 DEF Init, On
    <2>3. Shelf(props) = [k \in Orgs \X Slugs |-> NoId]
        BY <2>2 DEF Shelf, TheOne
    <2>4. Written(props) = [i \in Ids |-> NoText] /\ Known(props) = {}
        BY <2>1 DEF Init, Written, Known
    <2>. QED
        BY <2>3, <2>4, Mapped
<1>2. IInv /\ IInv' /\ [Next]_vars => [Shelves!CatalogNext]_(Shelves!catalogVars)
    <2>1. SUFFICES ASSUME IInv, IInv', [Next]_vars
                   PROVE  [Shelves!CatalogNext]_(Shelves!catalogVars)
        OBVIOUS
    <2>2. AtMostOne(props')
        BY <2>1 DEF IInv, UniqueSlugs, AtMostOne, On, Active
    <2>3. CASE props' = props
        BY <2>3, Mapped
    <2>4. CASE \E h \in Handlers, i \in Ids :
                  \/ \E s \in Slugs, raw \in Raw : Create(h, i, s, raw)
                  \/ \E s \in Slugs \cup {NoSlug}, raw \in Raw : Update(h, i, s, raw)
                  \/ Delete(h, i)
        BY <2>1, <2>2, <2>4, CreateAdds, UpdateRevises, DeleteRemoves
    <2>. QED
        BY <2>1, <2>3, <2>4
           DEF Next, vars, Join, Tenancy!Enter, Resolve, List, Get, Show, Refuse, Finish
<1>. QED
    BY InitIInv, NextIInv, <1>1, <1>2, PTL DEF Spec, ImplementsCatalog, Shelves!CatalogSpec
=============================================================================
