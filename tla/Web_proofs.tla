----------------------------- MODULE Web_proofs ------------------------------
(***************************************************************************)
(* The web application.  PropertyForm, for any number of editors, texts,   *)
(* saves and retries: what an editor is told is true, its own save is      *)
(* never taken back by a fetch, and a save only writes what was typed in   *)
(* or what somebody else changed.  WebSession, for any number of calls,    *)
(* sessions, retries and clicks: the token follows the cookie, nobody with *)
(* a live session is sent to /login without a cause, redirects end.        *)
(***************************************************************************)
EXTENDS PropertyForm, WebSession, TLAPS

-----------------------------------------------------------------------------
(* The property page *)

\* An input nobody typed in holds the cached row.
Seeded == \A e \in Editors : ~touched[e] /\ data[e] # NoData => form[e] = data[e].val

\* A save on its way sends what was typed in, or the row its form was reset to.
Honest(s) == ~s.typed /\ s.base # NoData => s.payload = s.base.val
Honesty ==
    /\ \A e \in Editors : save[e].stage = "sent" => Honest(save[e].call)
    /\ \A s \in late : Honest(s)

\* Versions only come from the row, and a fetch that an editor may still be
\* shown is as recent as the last save that editor was told of.
Fresh(e) ==
    /\ saved[e] <= row.ver
    /\ save[e].stage = "ok" => save[e].ver <= row.ver
    /\ Here(e) /\ get[e].stage = "back" => get[e].row.ver >= saved[e]

\* Whoever was answered that the row is gone was answered by a row that was.
Truthful(e) ==
    \/ row.gone
    \/ /\ del[e].stage \notin {"ok", "missing"}
       /\ save[e].stage # "missing"
       /\ told[e] \notin {"left", "not_found"}
       /\ get[e].stage # "missing" /\ shown[e] # "missing"

\* Only an attempt that may be repeated waits to be.
Patient(e) == del[e].stage = "pause" => del[e].tries > 0

IInv ==
    /\ TypeOK
    /\ Seeded
    /\ Honesty
    /\ \A e \in Editors : Fresh(e) /\ Truthful(e) /\ Patient(e)

-----------------------------------------------------------------------------
\* The constant records have their types.
LEMMA Records ==
    /\ NoFetch \in Fetch /\ Fetching \in Fetch /\ Missed \in Fetch
    /\ NoFetch.stage = "idle" /\ Fetching.stage = "sent" /\ Missed.stage = "missing"
    /\ \A f \in Fetch : f.stage = "back" => f.row \in Snapshots
    /\ \A r \in Snapshots : [stage |-> "back", row |-> r] \in Fetch
    /\ IdleSave \in Save /\ IdleSave.stage = "idle"
    /\ IdleDelete \in Delete /\ IdleDelete.stage = "idle"
  BY BoundAssumption
  DEF NoFetch, Fetching, Missed, Fetch, IdleSave, NoSave, Save, Sent, Inputs, Versions,
      IdleDelete, Delete

\* Each tab has just been opened.
LEMMA InitIInv == Init => IInv
<1> SUFFICES ASSUME Init PROVE IInv
  OBVIOUS
<1>1. row \in Row /\ row.ver = 0
  <2>1. /\ row = [val |-> row.val, ver |-> row.ver, gone |-> row.gone]
        /\ row.val \in Texts /\ row.ver = 0 /\ row.gone \in BOOLEAN
    BY DEF Init
  <2>2. row.ver \in Versions
    BY <2>1 DEF Versions
  <2> QED
    BY <2>1, <2>2, Zenon DEF Row
<1>2. TypeOK
  BY <1>1, Records, BoundAssumption, TextAssumption DEF Init, TypeOK, Inputs, Versions, Showings
<1>3. /\ Seeded /\ Honesty
      /\ \A e \in Editors : Fresh(e)
      /\ \A e \in Editors : Patient(e)
  <2>1. Seeded /\ late = {}
    BY DEF Init, Seeded
  <2>2. \A e \in Editors : /\ get[e].stage = "sent" /\ saved[e] = 0
                          /\ save[e].stage = "idle" /\ del[e].stage = "idle"
    BY Records DEF Init
  <2> QED
    BY <1>1, <2>1, <2>2 DEF Honesty, Fresh, Patient
<1>4. \A e \in Editors : Truthful(e)
  <2>1. \A e \in Editors : get[e].stage = "sent" /\ shown[e] = "form" /\ told[e] = "nothing"
    BY Records DEF Init
  <2>2. \A e \in Editors : save[e].stage = "idle" /\ del[e].stage = "idle"
    BY Records DEF Init
  <2> QED
    BY <2>1, <2>2 DEF Truthful
<1> QED
  BY <1>2, <1>3, <1>4 DEF IInv

-----------------------------------------------------------------------------
\* What may happen to the row: nothing, a save of some input, or a delete.
LEMMA RowMoves ==
    ASSUME IInv, Next
    PROVE  \/ row' = row
           \/ row' = Deleted
           \/ \E p \in Inputs : row' = Updated(p)
<1>1. \A e \in Editors : save[e] \in Save /\ save[e].call.payload \in Inputs
  BY DEF IInv, TypeOK, Save, Sent
<1>2. \A s \in late : s.payload \in Inputs
  BY DEF IInv, TypeOK, Sent
<1>3. ASSUME NEW e \in Editors, ServeSave(e)
      PROVE  row' = row \/ \E p \in Inputs : row' = Updated(p)
  BY <1>1, <1>3 DEF ServeSave
<1>4. ASSUME NEW s \in late, ServeLate(s)
      PROVE  row' = row \/ \E p \in Inputs : row' = Updated(p)
  BY <1>2, <1>4 DEF ServeLate
<1>5. ASSUME NEW v \in Texts, SaveElsewhere(v)
      PROVE  \E p \in Inputs : row' = Updated(p)
  BY <1>5 DEF SaveElsewhere, Inputs
<1>6. ASSUME NEW e \in Editors, ServeDelete(e)
      PROVE  row' = Deleted
  BY <1>6 DEF ServeDelete
<1>7. CASE DeleteElsewhere
  BY <1>7 DEF DeleteElsewhere
<1>8. ASSUME NEW e \in Editors,
             \/ ServeGet(e) \/ Deliver(e) \/ GetMissing(e) \/ GetFails(e) \/ Refetch(e)
             \/ (\E v \in Inputs : Type(e, v))
             \/ Submit(e) \/ SaveLost(e) \/ SaveSettles(e)
             \/ ClickDelete(e) \/ AttemptFails(e) \/ Retry(e)
             \/ DeleteTimesOut(e) \/ DeleteSettles(e)
      PROVE  row' = row
  BY <1>8 DEF ServeGet, Deliver, GetMissing, GetFails, GetEnds, Refetch, Type, Submit,
              SaveLost, SaveSettles, ClickDelete, AttemptFails, Retry, DeleteTimesOut, DeleteSettles, server
<1> QED
  BY <1>3, <1>4, <1>5, <1>6, <1>7, <1>8 DEF Next

\* Its version never goes back and a deleted row stays deleted.
LEMMA RowGrows ==
    ASSUME IInv, Next
    PROVE  /\ row' \in Row
           /\ row.ver \in Nat /\ row'.ver \in Nat /\ row'.ver >= row.ver
           /\ row.gone => row'.gone
<1>1. row \in Row /\ row.ver \in Nat
  BY DEF IInv, TypeOK, Row, Versions
<1>2. ASSUME NEW p \in Inputs
      PROVE  /\ Updated(p) \in Row /\ Updated(p).ver = row.ver + 1
             /\ Updated(p).gone = row.gone
  <2> DEFINE new == IF p = Blank THEN row.val ELSE p
  <2>1. /\ Updated(p) = [row EXCEPT !.val = new, !.ver = row.ver + 1]
        /\ new \in Texts /\ row.ver + 1 \in Versions
    BY <1>1 DEF Updated, Row, Versions, Inputs
  <2> HIDE DEF new
  <2>2. Updated(p) = [val |-> new, ver |-> row.ver + 1, gone |-> row.gone]
    BY <1>1, <2>1 DEF Row
  <2>3. row.gone \in BOOLEAN
    BY <1>1 DEF Row
  <2> QED
    BY <2>1, <2>2, <2>3 DEF Row
<1>3. Deleted \in Row /\ Deleted.ver = row.ver /\ Deleted.gone = TRUE
  BY <1>1 DEF Deleted, Row
<1> QED
  BY <1>1, <1>2, <1>3, RowMoves DEF Row, Versions

-----------------------------------------------------------------------------
\* The editor types and its query fetches: the form follows the cached row, and
\* a fetch brings back the row as it stands.
LEMMA QuerySteps ==
    ASSUME IInv, NEW e \in Editors,
           \/ ServeGet(e) \/ Deliver(e) \/ GetMissing(e) \/ GetFails(e) \/ Refetch(e)
           \/ \E v \in Inputs : Type(e, v)
    PROVE  IInv'
<1> DEFINE Kept == UNCHANGED <<form, touched, data>>
<1>1. UNCHANGED <<row, late, save, del, told, saved, saves>>
  BY DEF ServeGet, Deliver, GetMissing, GetFails, GetEnds, Refetch, Type, server
<1>2. /\ form \in [Editors -> Inputs] /\ touched \in [Editors -> BOOLEAN]
      /\ data \in [Editors -> Snapshots \cup {NoData}] /\ get \in [Editors -> Fetch]
      /\ shown \in [Editors -> Showings] /\ row \in Row
  BY DEF IInv, TypeOK
<1>3. /\ form' \in [Editors -> Inputs] /\ data' \in [Editors -> Snapshots \cup {NoData}]
      /\ touched' \in [Editors -> BOOLEAN] /\ Seeded'
  <2>1. CASE Kept
    BY <1>2, <2>1 DEF IInv, Seeded
  <2>2. CASE Deliver(e)
    <3> DEFINE new == get[e].row
    <3>1. new \in Snapshots /\ new.val \in Inputs /\ data' = [data EXCEPT ![e] = new]
      BY <1>2, <2>2, Records DEF Deliver, Snapshots, Inputs
    <3>2. \/ new = data[e] /\ UNCHANGED <<form, touched>>
          \/ /\ form' = [form EXCEPT ![e] = new.val]
             /\ touched' = [touched EXCEPT ![e] = FALSE]
      BY <2>2 DEF Deliver
    <3> HIDE DEF new
    <3> QED
      BY <1>2, <3>1, <3>2 DEF IInv, Seeded
  <2>3. ASSUME NEW v \in Inputs, Type(e, v)
        PROVE  /\ form' \in [Editors -> Inputs] /\ data' = data
               /\ touched' \in [Editors -> BOOLEAN] /\ Seeded'
    BY <1>2, <2>3 DEF Type, IInv, Seeded
  <2>4. ServeGet(e) \/ GetMissing(e) \/ GetFails(e) \/ Refetch(e) => Kept
    BY DEF ServeGet, GetMissing, GetFails, GetEnds, Refetch
  <2> QED
    BY <1>2, <2>1, <2>2, <2>3, <2>4
<1>4. /\ get' \in [Editors -> Fetch]
      /\ \A d \in Editors :
             get'[d].stage = "back" =>
                 \/ get[d].stage = "back" /\ get'[d].row = get[d].row
                 \/ get'[d].row.ver = row.ver
  <2>1. CASE ServeGet(e)
    <3>1. [stage |-> "back", row |-> Seen] \in Fetch /\ Seen.ver = row.ver
      <4>1. Seen \in Snapshots /\ Seen.ver = row.ver
        BY <1>2 DEF Row, Seen, Snapshots
      <4> QED
        BY <4>1, Records
    <3>2. \E f \in {Missed, [stage |-> "back", row |-> Seen]} : get' = [get EXCEPT ![e] = f]
      BY <2>1 DEF ServeGet
    <3> QED
      BY <1>2, <3>1, <3>2, Records
  <2>2. CASE Deliver(e) \/ GetMissing(e) \/ GetFails(e)
    BY <1>2, <2>2, Records DEF Deliver, GetMissing, GetFails, GetEnds
  <2>3. CASE Refetch(e)
    BY <1>2, <2>3, Records DEF Refetch
  <2>4. CASE \E v \in Inputs : Type(e, v)
    BY <1>2, <2>4 DEF Type
  <2> QED
    BY <2>1, <2>2, <2>3, <2>4
<1>5. shown' \in [Editors -> Showings]
  BY <1>2 DEF ServeGet, Deliver, GetMissing, GetFails, GetEnds, Refetch, Reloaded, Type, Showings
<1>6. \A d \in Editors : Fresh(d)'
  <2>1. \A d \in Editors : Fresh(d) /\ saved[d] \in Nat /\ row.ver \in Nat
    BY DEF IInv, TypeOK, Versions, Row
  <2> QED
    BY <1>1, <1>4, <2>1 DEF Fresh, Here
<1>7. \A d \in Editors : Truthful(d)'
  <2>1. ASSUME NEW d \in Editors, ~row.gone
        PROVE  get'[d].stage # "missing" /\ shown'[d] # "missing"
    <3>1. \A c \in Editors : get[c].stage # "missing" /\ shown[c] # "missing"
      BY <2>1 DEF IInv, Truthful
    <3>2. CASE ServeGet(e)
      <4>1. get' = [get EXCEPT ![e] = [stage |-> "back", row |-> Seen]] /\ shown' = shown
        BY <2>1, <3>2 DEF ServeGet
      <4> QED
        BY <1>2, <3>1, <4>1
    <3>3. CASE Deliver(e) \/ GetFails(e)
      BY <1>2, <3>1, <3>3, Records DEF Deliver, GetFails, GetEnds
    <3>4. CASE GetMissing(e)
      BY <3>1, <3>4 DEF GetMissing
    <3>5. CASE Refetch(e)
      BY <1>2, <3>1, <3>5, Records DEF Refetch, Reloaded
    <3>6. CASE \E v \in Inputs : Type(e, v)
      BY <3>1, <3>6 DEF Type
    <3> QED
      BY <3>2, <3>3, <3>4, <3>5, <3>6
  <2> QED
    BY <1>1, <2>1 DEF IInv, Truthful
<1> QED
  BY <1>1, <1>3, <1>4, <1>5, <1>6, <1>7 DEF IInv, TypeOK, Honesty, Patient

-----------------------------------------------------------------------------
\* A step that leaves the editors alone, but for the row and the late saves.
LEMMA ElsewhereSteps ==
    ASSUME IInv, Next,
           UNCHANGED <<view, save, del, told, saved>>,
           late' \subseteq late, saves' \in 0..MaxSaves
    PROVE  IInv'
<1>1. /\ row' \in Row /\ row.ver \in Nat /\ row'.ver \in Nat /\ row'.ver >= row.ver
      /\ row.gone => row'.gone
  BY RowGrows
<1>2. TypeOK' /\ Seeded' /\ Honesty'
  BY <1>1 DEF IInv, TypeOK, Seeded, Honesty, view
<1>3. \A d \in Editors : Truthful(d)' /\ Patient(d)'
  BY <1>1 DEF IInv, Truthful, Patient, view
<1>4. \A d \in Editors : saved[d] \in Nat /\ save[d].ver \in Nat
  BY DEF IInv, TypeOK, Save, Versions
<1>5. \A d \in Editors : Fresh(d)'
  BY <1>1, <1>4 DEF IInv, Fresh, Here, view
<1> QED
  BY <1>2, <1>3, <1>5 DEF IInv

\* A save is sent with what the form holds.
LEMMA SubmitStep ==
    ASSUME IInv, NEW e \in Editors, Submit(e)
    PROVE  IInv'
<1> DEFINE sent == [payload |-> form[e], typed |-> touched[e], base |-> data[e]]
           x == [stage |-> "sent", ver |-> 0, call |-> sent]
<1>1. /\ save' = [save EXCEPT ![e] = x] /\ told' = [told EXCEPT ![e] = "nothing"]
      /\ saves' = saves + 1 /\ saves < MaxSaves /\ told[e] # "left"
      /\ UNCHANGED <<row, late, view, del, saved>>
  BY DEF Submit, Here, server
<1>2. sent \in Sent /\ Honest(sent)
  <2>1. form[e] \in Inputs /\ touched[e] \in BOOLEAN /\ data[e] \in Snapshots \cup {NoData}
    BY DEF IInv, TypeOK
  <2>2. sent \in Sent
    BY <2>1 DEF Sent
  <2> QED
    BY <2>2 DEF Honest, IInv, Seeded
<1> HIDE DEF sent
<1>3. x \in Save /\ x.stage = "sent" /\ x.call = sent
  BY <1>2 DEF Save, Versions
<1> HIDE DEF x
<1>4. /\ save \in [Editors -> Save] /\ saves \in 0..MaxSaves
      /\ told \in [Editors -> {"nothing", "left", "not_found", "generic"}]
  BY DEF IInv, TypeOK
<1>5. TypeOK'
  <2>1. saves' \in 0..MaxSaves
    BY <1>1, <1>4, BoundAssumption
  <2>2. save' \in [Editors -> Save]
    BY <1>1, <1>3, <1>4
  <2>3. told' \in [Editors -> {"nothing", "left", "not_found", "generic"}]
    BY <1>1, <1>4
  <2> QED
    BY <1>1, <2>1, <2>2, <2>3 DEF IInv, TypeOK, view
<1>6. Seeded' /\ Honesty'
  BY <1>1, <1>2, <1>3, <1>4 DEF IInv, Seeded, Honesty, view
<1>7. \A d \in Editors : Fresh(d)' /\ Truthful(d)' /\ Patient(d)'
  BY <1>1, <1>3, <1>4 DEF IInv, Fresh, Here, Truthful, Patient, view
<1> QED
  BY <1>5, <1>6, <1>7 DEF IInv

\* The save is executed, or refused because the row is gone.
LEMMA ServeSaveStep ==
    ASSUME IInv, NEW e \in Editors, ServeSave(e), Next
    PROVE  IInv'
<1>1. /\ row' \in Row /\ row.ver \in Nat /\ row'.ver \in Nat /\ row'.ver >= row.ver
      /\ row.gone => row'.gone
  BY RowGrows
<1>2. /\ \/ row.gone /\ save' = [save EXCEPT ![e].stage = "missing"]
         \/ save' = [save EXCEPT ![e].stage = "ok", ![e].ver = row'.ver]
      /\ UNCHANGED <<late, view, del, told, saved, saves>>
  BY DEF ServeSave
<1>3. save \in [Editors -> Save] /\ \A d \in Editors : saved[d] \in Nat /\ save[d].ver \in Nat
  BY DEF IInv, TypeOK, Save, Versions
<1>4. /\ save' \in [Editors -> Save]
      /\ save'[e].stage \in {"ok", "missing"}
      /\ save'[e].stage = "missing" => row.gone
      /\ save'[e].stage = "ok" => save'[e].ver = row'.ver
      /\ \A d \in Editors \ {e} : save'[d] = save[d]
  BY <1>1, <1>2, <1>3 DEF Save, Versions
<1>5. TypeOK' /\ Seeded' /\ Honesty'
  BY <1>1, <1>2, <1>4 DEF IInv, TypeOK, Seeded, Honesty, view
<1>6. \A d \in Editors : Truthful(d)' /\ Patient(d)'
  BY <1>1, <1>2, <1>4 DEF IInv, Truthful, Patient, view
<1>7. \A d \in Editors : Fresh(d)'
  BY <1>1, <1>2, <1>3, <1>4 DEF IInv, Fresh, Here, view
<1> QED
  BY <1>5, <1>6, <1>7 DEF IInv

\* Its answer is lost; what was not executed yet may be later.
LEMMA SaveLostStep ==
    ASSUME IInv, NEW e \in Editors, SaveLost(e)
    PROVE  IInv'
<1>1. /\ save' = [save EXCEPT ![e].stage = "failed"]
      /\ late' = IF save[e].stage = "sent" THEN late \cup {save[e].call} ELSE late
      /\ UNCHANGED <<row, view, del, told, saved, saves>>
  BY DEF SaveLost
<1>2. save \in [Editors -> Save] /\ save[e].call \in Sent /\ late \subseteq Sent
  BY DEF IInv, TypeOK, Save
<1>3. /\ save' \in [Editors -> Save] /\ save'[e].stage = "failed"
      /\ \A d \in Editors \ {e} : save'[d] = save[d]
  BY <1>1, <1>2 DEF Save
<1>4. late' \subseteq Sent /\ \A s \in late' : Honest(s)
  BY <1>1, <1>2 DEF IInv, Honesty
<1>5. TypeOK' /\ Seeded' /\ Honesty'
  BY <1>1, <1>3, <1>4 DEF IInv, TypeOK, Seeded, Honesty, view
<1>6. \A d \in Editors : Fresh(d)' /\ Truthful(d)' /\ Patient(d)'
  BY <1>1, <1>3 DEF IInv, Fresh, Here, Truthful, Patient, view
<1> QED
  BY <1>5, <1>6 DEF IInv

\* The mutation ends: after a success the fetch begins again, so that it cannot
\* bring back what the save replaced.
LEMMA SaveSettlesStep ==
    ASSUME IInv, NEW e \in Editors, SaveSettles(e)
    PROVE  IInv'
<1>1. /\ save' = [save EXCEPT ![e] = IdleSave]
      /\ UNCHANGED <<row, late, form, touched, data, del, saves>>
  BY DEF SaveSettles, server
<1>2. /\ save \in [Editors -> Save] /\ get \in [Editors -> Fetch]
      /\ shown \in [Editors -> Showings] /\ saved \in [Editors -> Nat]
      /\ told \in [Editors -> {"nothing", "left", "not_found", "generic"}]
      /\ row.ver \in Nat /\ \A d \in Editors : save[d].ver \in Nat
  BY DEF IInv, TypeOK, Save, Versions, Row
<1>3. /\ save' \in [Editors -> Save] /\ save'[e].stage = "idle"
      /\ \A d \in Editors \ {e} : save'[d] = save[d]
  BY <1>1, <1>2, Records
<1>4. CASE save[e].stage = "ok"
  <2>1. /\ get' = IF Here(e) THEN Invalidated(e) ELSE get
        /\ shown' = Reloaded(e)
        /\ saved' = [saved EXCEPT ![e] = IF data[e] = NoData THEN @ ELSE save[e].ver]
        /\ told' = told
    BY <1>4 DEF SaveSettles
  <2>2. /\ get' \in [Editors -> Fetch]
        /\ \A d \in Editors \ {e} : get'[d] = get[d]
        /\ Here(e) /\ data[e] # NoData => get'[e].stage = "sent"
        /\ get'[e].stage = "back" => get'[e] = get[e]
    BY <1>2, <2>1, Records DEF Invalidated
  <2>3. shown' \in [Editors -> Showings]
    BY <1>2, <2>1 DEF Reloaded, Showings
  <2>4. /\ saved' \in [Editors -> Nat] /\ saved'[e] <= row.ver
        /\ \A d \in Editors \ {e} : saved'[d] = saved[d]
        /\ data[e] = NoData => saved'[e] = saved[e]
    BY <1>2, <1>4, <2>1 DEF IInv, Fresh
  <2>5. TypeOK' /\ Seeded' /\ Honesty'
    BY <1>1, <1>3, <2>1, <2>2, <2>3, <2>4 DEF IInv, TypeOK, Seeded, Honesty, Versions
  <2>6. \A d \in Editors : Truthful(d)' /\ Patient(d)'
    <3>1. \A d \in Editors : /\ get'[d].stage # "missing" \/ get'[d] = get[d]
                            /\ shown'[d] \in {shown[d], "form"}
      <4>1. get' = get \/ get' = [get EXCEPT ![e] = Fetching]
        BY <2>1 DEF Invalidated
      <4>2. shown \in [Editors -> Showings]
        BY <1>2
      <4> QED
        BY <1>2, <2>1, <4>1, <4>2, Records DEF Reloaded
    <3> QED
      BY <1>1, <1>3, <2>1, <3>1 DEF IInv, Truthful, Patient
  <2>7. \A d \in Editors : Fresh(d)'
    BY <1>1, <1>2, <1>3, <2>1, <2>2, <2>4 DEF IInv, Fresh, Here
  <2> QED
    BY <2>5, <2>6, <2>7 DEF IInv
<1>5. CASE save[e].stage # "ok"
  <2>1. /\ UNCHANGED <<get, shown, saved>>
        /\ \/ told' = told
           \/ save[e].stage = "missing" /\ told' = [told EXCEPT ![e] = "not_found"] /\ Here(e)
           \/ told' = [told EXCEPT ![e] = "generic"] /\ Here(e)
    <3>1. \/ /\ save[e].stage = "missing"
             /\ told' = [told EXCEPT ![e] = IF Here(e) THEN "not_found" ELSE @]
          \/ told' = [told EXCEPT ![e] = IF Here(e) THEN "generic" ELSE @]
      BY <1>5 DEF SaveSettles
    <3>2. UNCHANGED <<get, shown, saved>>
      BY <1>5 DEF SaveSettles
    <3> QED
      BY <1>2, <3>1, <3>2
  <2>2. TypeOK' /\ Seeded' /\ Honesty'
    BY <1>1, <1>2, <1>3, <2>1 DEF IInv, TypeOK, Seeded, Honesty
  <2>3. \A d \in Editors : Truthful(d)' /\ Patient(d)'
    BY <1>1, <1>2, <1>3, <2>1 DEF IInv, Truthful, Patient
  <2>4. \A d \in Editors : Fresh(d)'
    BY <1>1, <1>2, <1>3, <2>1 DEF IInv, Fresh, Here
  <2> QED
    BY <2>2, <2>3, <2>4 DEF IInv
<1> QED
  BY <1>4, <1>5

\* The delete button and the attempts of its call, up to the answer.
LEMMA DeleteSteps ==
    ASSUME IInv, Next, NEW e \in Editors,
           \/ ClickDelete(e) \/ ServeDelete(e) \/ AttemptFails(e)
           \/ Retry(e) \/ DeleteTimesOut(e)
    PROVE  IInv'
<1>1. /\ row' \in Row /\ row.ver \in Nat /\ row'.ver \in Nat /\ row'.ver >= row.ver
      /\ row.gone => row'.gone
  BY RowGrows
<1>2. UNCHANGED <<late, view, save, told, saved, saves>>
  BY DEF ClickDelete, ServeDelete, AttemptFails, Retry, DeleteTimesOut, server
<1>3. /\ del \in [Editors -> Delete] /\ del[e] \in Delete
      /\ \A d \in Editors : Patient(d)
      /\ \A d \in Editors : saved[d] \in Nat /\ save[d].ver \in Nat
  BY DEF IInv, TypeOK, Save, Versions
<1>4. PICK x \in Delete :
        /\ del' = [del EXCEPT ![e] = x]
        /\ x.stage \in {"ok", "missing"} => row'.gone
        /\ x.stage = "pause" => x.tries > 0
  <2>1. CASE ClickDelete(e)
    <3>1. PICK w \in {"armed", "sent"} : del' = [del EXCEPT ![e].stage = w]
      BY <2>1 DEF ClickDelete
    <3> DEFINE x == [del[e] EXCEPT !.stage = w]
    <3>2. x \in Delete /\ x.stage = w /\ x.tries = del[e].tries
      BY <1>3 DEF Delete
    <3>3. del' = [del EXCEPT ![e] = x]
      BY <3>1
    <3> HIDE DEF x
    <3> QED
      BY <3>1, <3>2, <3>3
  <2>2. CASE ServeDelete(e)
    <3>1. PICK w \in {"ok", "missing"} : del' = [del EXCEPT ![e].stage = w]
      BY <2>2 DEF ServeDelete
    <3>2. row'.gone
      <4>1. row \in Row /\ row' = Deleted
        BY <2>2 DEF ServeDelete, IInv, TypeOK
      <4> QED
        BY <4>1 DEF Deleted, Row
    <3> DEFINE x == [del[e] EXCEPT !.stage = w]
    <3>3. x \in Delete /\ x.stage = w /\ x.tries = del[e].tries
      BY <1>3 DEF Delete
    <3>4. del' = [del EXCEPT ![e] = x]
      BY <3>1
    <3> HIDE DEF x
    <3> QED
      BY <3>1, <3>2, <3>3, <3>4
  <2>3. CASE AttemptFails(e) \/ DeleteTimesOut(e)
    <3>1. PICK w \in {"pause", "failed"} :
              /\ del' = [del EXCEPT ![e].stage = w]
              /\ w = "pause" => del[e].tries > 0
      BY <2>3 DEF AttemptFails, DeleteTimesOut
    <3> DEFINE x == [del[e] EXCEPT !.stage = w]
    <3>2. x \in Delete /\ x.stage = w /\ x.tries = del[e].tries
      BY <1>3 DEF Delete
    <3>3. del' = [del EXCEPT ![e] = x]
      BY <3>1
    <3> HIDE DEF x
    <3> QED
      BY <3>1, <3>2, <3>3
  <2>4. CASE Retry(e)
    <3>1. /\ del[e].stage = "pause" /\ del[e].tries > 0
          /\ del' = [del EXCEPT ![e] = [stage |-> "sent", tries |-> del[e].tries - 1]]
      BY <1>3, <2>4 DEF Retry, Patient
    <3>2. [stage |-> "sent", tries |-> del[e].tries - 1] \in Delete
      BY <1>3, <3>1, BoundAssumption DEF Delete
    <3> QED
      BY <3>1, <3>2
  <2> QED
    BY <2>1, <2>2, <2>3, <2>4
<1>5. TypeOK' /\ Seeded' /\ Honesty'
  BY <1>1, <1>2, <1>3, <1>4 DEF IInv, TypeOK, Seeded, Honesty, view
<1>6. \A d \in Editors : Truthful(d)' /\ Patient(d)'
  BY <1>1, <1>2, <1>3, <1>4 DEF IInv, Truthful, Patient, view
<1>7. \A d \in Editors : Fresh(d)'
  BY <1>1, <1>2, <1>3 DEF IInv, Fresh, Here, view
<1> QED
  BY <1>5, <1>6, <1>7 DEF IInv

\* The call is over: what is told follows from the answer, and the answer from
\* a row that was gone.
LEMMA DeleteSettlesStep ==
    ASSUME IInv, NEW e \in Editors, DeleteSettles(e)
    PROVE  IInv'
<1>1. /\ del[e].stage \in {"ok", "missing", "failed"}
      /\ del' = [del EXCEPT ![e] = IdleDelete]
      /\ UNCHANGED <<row, late, view, save, saved, saves>>
  BY DEF DeleteSettles, server
<1>2. /\ del \in [Editors -> Delete]
      /\ told \in [Editors -> {"nothing", "left", "not_found", "generic"}]
  BY DEF IInv, TypeOK
<1>3. \/ told' = told
      \/ /\ Here(e)
         /\ \E t \in {"left", "not_found", "generic"} :
                /\ told' = [told EXCEPT ![e] = t]
                /\ t # "generic" => del[e].stage \in {"ok", "missing"}
  <2>1. told' = [told EXCEPT ![e] = IF Here(e) THEN Outcome(del[e].stage) ELSE @]
    BY DEF DeleteSettles
  <2>2. /\ Outcome(del[e].stage) \in {"left", "not_found", "generic"}
        /\ Outcome(del[e].stage) # "generic" => del[e].stage \in {"ok", "missing"}
    BY <1>1 DEF Outcome
  <2> QED
    BY <1>2, <2>1, <2>2
<1>4. TypeOK' /\ Seeded' /\ Honesty'
  BY <1>1, <1>2, <1>3, Records DEF IInv, TypeOK, Seeded, Honesty, view
<1>5. \A d \in Editors : Truthful(d)' /\ Patient(d)'
  BY <1>1, <1>2, <1>3, Records DEF IInv, Truthful, Patient, view
<1>6. \A d \in Editors : Fresh(d)'
  BY <1>1, <1>2, <1>3 DEF IInv, Fresh, Here, view
<1> QED
  BY <1>4, <1>5, <1>6 DEF IInv

\* The invariant is inductive.
LEMMA NextIInv == IInv /\ [Next]_vars => IInv'
<1> SUFFICES ASSUME IInv, [Next]_vars PROVE IInv'
  OBVIOUS
<1>1. CASE UNCHANGED vars
  BY <1>1 DEF IInv, TypeOK, Seeded, Honesty, Fresh, Here, Truthful, Patient, vars, server, view
<1>2. CASE Next
  <2>1. ASSUME NEW s \in late, ServeLate(s) PROVE IInv'
    <3>1. UNCHANGED <<view, save, del, told, saved>> /\ late' \subseteq late /\ saves' = saves
      BY <2>1 DEF ServeLate
    <3> QED
      BY <1>2, <3>1, ElsewhereSteps DEF IInv, TypeOK
  <2>2. ASSUME NEW v \in Texts, SaveElsewhere(v) PROVE IInv'
    <3>1. /\ UNCHANGED <<late, view, save, del, told, saved>>
          /\ saves < MaxSaves /\ saves' = saves + 1
      BY <2>2 DEF SaveElsewhere
    <3>2. saves' \in 0..MaxSaves
      BY <3>1, BoundAssumption DEF IInv, TypeOK
    <3> QED
      BY <1>2, <3>1, <3>2, ElsewhereSteps
  <2>3. CASE DeleteElsewhere
    <3>1. UNCHANGED <<late, view, save, del, told, saved, saves>>
      BY <2>3 DEF DeleteElsewhere
    <3> QED
      BY <1>2, <3>1, ElsewhereSteps DEF IInv, TypeOK
  <2>4. ASSUME NEW e \in Editors,
               \/ ServeGet(e) \/ Deliver(e) \/ GetMissing(e) \/ GetFails(e) \/ Refetch(e)
               \/ \E v \in Inputs : Type(e, v)
        PROVE  IInv'
    BY <2>4, QuerySteps
  <2>5. ASSUME NEW e \in Editors,
               Submit(e) \/ ServeSave(e) \/ SaveLost(e) \/ SaveSettles(e)
        PROVE  IInv'
    BY <1>2, <2>5, SubmitStep, ServeSaveStep, SaveLostStep, SaveSettlesStep
  <2>6. ASSUME NEW e \in Editors,
               \/ ClickDelete(e) \/ ServeDelete(e) \/ AttemptFails(e) \/ Retry(e)
               \/ DeleteTimesOut(e) \/ DeleteSettles(e)
        PROVE  IInv'
    BY <1>2, <2>6, DeleteSteps, DeleteSettlesStep
  <2> QED
    BY <1>2, <2>1, <2>2, <2>3, <2>4, <2>5, <2>6 DEF Next
<1> QED
  BY <1>1, <1>2

-----------------------------------------------------------------------------
\* The invariant holds in every state of every behaviour.
THEOREM Invariant == Spec => []IInv
  BY InitIInv, NextIInv, PTL DEF Spec

\* Every variable keeps its type.
THEOREM TypeCorrect == Spec => []TypeOK
<1>1. IInv => TypeOK
  BY DEF IInv
<1> QED
  BY <1>1, Invariant, PTL

\* An editor sent back to the list, or told that the property is gone, is told
\* the truth, however often its call was repeated (useProperties.ts:88).
THEOREM DeletionsAreTrue == Spec => []GoneToldTruly
<1>1. IInv => GoneToldTruly
  BY DEF IInv, Truthful, GoneToldTruly
<1> QED
  BY <1>1, Invariant, PTL

\* No fetch shows an editor a row older than its last successful save
\* (useProperties.ts:74), whatever was on its way.
THEOREM OwnSavesStay == Spec => OwnSaveShown
<1>1. ASSUME IInv, [Next]_vars, NEW e \in Editors, data'[e] # data[e]
      PROVE  data'[e].ver >= saved[e]
  <2>1. Deliver(e)
    <3>1. ASSUME NEW d \in Editors, Deliver(d) PROVE d = e
      <4>1. data' = [data EXCEPT ![d] = get[d].row]
        BY <3>1 DEF Deliver
      <4> QED
        BY <1>1, <4>1 DEF IInv, TypeOK
    <3>2. Next
      BY <1>1 DEF vars, view
    <3>3. PICK d \in Editors : Deliver(d)
      BY <1>1, <3>2
      DEF Next, ServeGet, GetMissing, GetFails, GetEnds, Refetch, Type, Submit,
          ServeSave, SaveLost, SaveSettles, ClickDelete, ServeDelete, AttemptFails, Retry, DeleteTimesOut, DeleteSettles,
          ServeLate, SaveElsewhere, DeleteElsewhere, view
    <3> QED
      BY <3>1, <3>3
  <2>2. data'[e] = get[e].row
    BY <1>1, <2>1 DEF Deliver, IInv, TypeOK
  <2>3. get[e].row.ver >= saved[e]
    BY <1>1, <2>1 DEF Deliver, IInv, Fresh
  <2> QED
    BY <2>2, <2>3
<1>2. IInv /\ [Next]_vars => (\A e \in Editors : data'[e] # data[e] => data'[e].ver >= saved[e])
  BY <1>1
<1> QED
  BY <1>2, Invariant, PTL DEF Spec, OwnSaveShown

\* A save writes what its user typed in or, over a change made elsewhere since,
\* what its form was reset to (PropertyFormView.vue:116); never anything else.
THEOREM SavesAreEdits == Spec => SavesOnlyEdits
<1> DEFINE Allowed == row'.val # row.val /\ saves' = saves =>
               \E s \in Running :
                   /\ row' = Updated(s.payload)
                   /\ s.typed \/ s.base = NoData \/ s.base.val # row.val
<1>1. ASSUME IInv, [Next]_vars, row'.val # row.val, saves' = saves
      PROVE  \E s \in Running :
                 /\ row' = Updated(s.payload)
                 /\ s.typed \/ s.base = NoData \/ s.base.val # row.val
  <2>1. row \in Row /\ saves \in Nat
    BY <1>1, BoundAssumption DEF IInv, TypeOK
  <2>2. ASSUME NEW p, row' = Updated(p) PROVE p # row.val
    BY <1>1, <2>1, <2>2 DEF Updated, Row
  <2>3. ASSUME NEW s, Honest(s), s.payload # row.val
        PROVE  s.typed \/ s.base = NoData \/ s.base.val # row.val
    BY <2>3 DEF Honest
  <2>4. PICK s \in Running : row' = Updated(s.payload) /\ Honest(s)
    <3>1. Next
      BY <1>1 DEF vars, server
    <3>2. ASSUME NEW e \in Editors, ServeSave(e)
          PROVE  \E s \in Running : row' = Updated(s.payload) /\ Honest(s)
      BY <1>1, <3>2 DEF ServeSave, Running, IInv, Honesty
    <3>3. ASSUME NEW s \in late, ServeLate(s)
          PROVE  row' = Updated(s.payload) /\ Honest(s) /\ s \in Running
      BY <1>1, <3>3 DEF ServeLate, Running, IInv, Honesty
    <3>4. ASSUME NEW v \in Texts, SaveElsewhere(v) PROVE FALSE
      BY <1>1, <2>1, <3>4 DEF SaveElsewhere
    <3>5. row' # Deleted
      BY <1>1, <2>1 DEF Deleted, Row
    <3> QED
      BY <1>1, <3>1, <3>2, <3>3, <3>4, <3>5
      DEF Next, ServeGet, Deliver, GetMissing, GetFails, GetEnds, Refetch, Type, Submit,
          SaveLost, SaveSettles, ClickDelete, ServeDelete, AttemptFails, Retry, DeleteTimesOut, DeleteSettles,
          DeleteElsewhere, server
  <2> QED
    BY <2>2, <2>3, <2>4
<1>2. IInv /\ [Next]_vars => Allowed
  BY <1>1
<1> QED
  BY <1>2, Invariant, PTL DEF Spec, SavesOnlyEdits

-----------------------------------------------------------------------------
(* The session store and the router *)

\* A call of /auth/me is under way.
Me(c) == call[c].pc # "off" /\ call[c].kind = "me"

\* The cookie, and an answer that sets it, name sessions that were drawn; an
\* answer the store takes names one.
Drawn ==
    /\ jar # NoSid => session[jar] # "unborn"
    /\ \A c \in Calls : call[c].pc = "ok" =>
          /\ call[c].kind \in Issuing \cup {"me", "accept"} => call[c].sid # NoSid
          /\ call[c].kind \in Issuing => session[call[c].sid] # "unborn"

\* hydrate() asks once.
OneMe == \A c \in Calls : Me(c) => hydrating /\ \A d \in Calls : Me(d) => d = c

\* Until something fills the store, the cookie is the one hydrate() asked with.
MeIsCurrent ==
    ~store.hydrated => \A c \in Calls : Me(c) =>
        /\ call[c].pc = "sent" => call[c].cookie = jar
        /\ call[c].pc = "ok" => call[c].sid = jar

\* A refused /auth/me means an anonymous visitor, unless a session was opened
\* meanwhile or an answer lost.
RefusalIsRight ==
    ~excused => \A c \in Calls : Me(c) =>
        /\ call[c].pc = "sent" => jar \in {call[c].cookie, NoSid}
        /\ call[c].pc = "refused" => ~Live(jar)

\* So does an empty store.
AnonymousIsRight == store.hydrated /\ store.token = NoSid /\ ~excused => ~Live(jar)

TabInv ==
    /\ TabTypeOK
    /\ Drawn /\ OneMe /\ MeIsCurrent /\ RefusalIsRight /\ AnonymousIsRight

-----------------------------------------------------------------------------
\* The records of the calls and of the store have their types.
LEMMA CallRecords ==
    /\ Off \in Call /\ Off.pc = "off"
    /\ \A x \in Call :
          /\ x.pc \in {"off", "sent", "refused", "ok"}
          /\ x.pc # "off" => x.kind \in Kinds /\ x.tries \in 0..Retries
          /\ x.pc = "sent" => x.cookie \in Cookie /\ x.token \in Cookie
          /\ x.pc = "ok" => x.sid \in Cookie /\ x.flags \in Flags
    /\ \A k \in Kinds, t \in 0..Retries :
          /\ [pc |-> "refused", kind |-> k, tries |-> t] \in Call
          /\ \A j, x \in Cookie :
                [pc |-> "sent", kind |-> k, tries |-> t, cookie |-> j, token |-> x] \in Call
          /\ \A s \in Cookie, f \in Flags :
                [pc |-> "ok", kind |-> k, tries |-> t, sid |-> s, flags |-> f] \in Call
  BY DEF Off, Call

LEMMA StoreRecords ==
    /\ NoFlags \in Flags /\ EmptyStore \in Store /\ EmptyStore.token = NoSid
    /\ \A s \in Cookie, f \in Flags : [token |-> s, hydrated |-> TRUE, flags |-> f] \in Store
  BY DEF NoFlags, Flags, EmptyStore, Store, Cookie

\* A visitor without a session, or back with a cookie.
LEMMA TabInitInv == TabInit => TabInv
<1> SUFFICES ASSUME TabInit PROVE TabInv
  OBVIOUS
<1>1. TabTypeOK
  <2>1. session \in [Sids -> {"unborn", "plain", "elevated", "dead"}] /\ jar \in Cookie
    BY DEF TabInit, Cookie
  <2>2. store \in Store /\ call \in [Calls -> Call]
    BY CallRecords, StoreRecords DEF TabInit
  <2>3. clicks \in 0..MaxClicks
    BY ClickAssumption DEF TabInit
  <2> QED
    BY <2>1, <2>2, <2>3 DEF TabInit, TabTypeOK
<1>2. \A c \in Calls : call[c].pc = "off"
  BY CallRecords DEF TabInit
<1>3. ~store.hydrated
  BY DEF TabInit, EmptyStore
<1>4. jar # NoSid => session[jar] # "unborn"
  BY NullAssumption DEF TabInit
<1> QED
  BY <1>1, <1>2, <1>3, <1>4
  DEF TabInv, Drawn, OneMe, MeIsCurrent, RefusalIsRight, AnonymousIsRight, Me

\* A call is sent with the cookie of the day, in the place of one that is off or
\* is sent again.
LEMMA Sends ==
    ASSUME TabInv, NEW c \in Calls, NEW k \in Kinds, NEW t \in 0..Retries,
           call' = [call EXCEPT ![c] = Request(k, t)],
           UNCHANGED <<api, jar, store, excused>>,
           at' \in Routes \cup {NoRoute}, nav' \in Routes \cup {NoRoute},
           preview' \in {"none", "asked", "shown", "error"}, clicks' \in 0..MaxClicks,
           booting' \in BOOLEAN, hydrating' \in BOOLEAN,
           hydrating => hydrating',
           k = "me" => hydrating' /\ \A d \in Calls \ {c} : ~Me(d)
    PROVE  TabInv'
<1>1. Request(k, t) \in Call /\ call' \in [Calls -> Call]
  BY CallRecords DEF TabInv, TabTypeOK, Request, Store, Cookie
<1>2. /\ call'[c].pc = "sent" /\ call'[c].kind = k /\ call'[c].cookie = jar
      /\ \A d \in Calls \ {c} : call'[d] = call[d]
  BY DEF TabInv, TabTypeOK, Request
<1>3. TabTypeOK'
  BY <1>1 DEF TabInv, TabTypeOK, api
<1>4. Drawn'
  BY <1>2 DEF TabInv, Drawn, api
<1>5. OneMe'
  BY <1>2 DEF TabInv, OneMe, Me
<1>6. MeIsCurrent' /\ RefusalIsRight'
  BY <1>2 DEF TabInv, MeIsCurrent, RefusalIsRight, Me, Live, api
<1>7. AnonymousIsRight'
  BY DEF TabInv, AnonymousIsRight, Live, api
<1> QED
  BY <1>3, <1>4, <1>5, <1>6, <1>7 DEF TabInv

\* The steps that send nothing and leave calls, cookie, sessions and store alone.
LEMMA Stays ==
    ASSUME TabInv, UNCHANGED <<api, jar, store, call, hydrating, excused>>,
           at' \in Routes \cup {NoRoute}, nav' \in Routes \cup {NoRoute},
           preview' \in {"none", "asked", "shown", "error"}, clicks' \in 0..MaxClicks,
           booting' \in BOOLEAN
    PROVE  TabInv'
<1>1. TabTypeOK'
  BY DEF TabInv, TabTypeOK, api
<1>2. Drawn' /\ OneMe' /\ AnonymousIsRight'
  BY DEF TabInv, Drawn, OneMe, AnonymousIsRight, Me, Live, api
<1>3. MeIsCurrent' /\ RefusalIsRight'
  BY DEF TabInv, MeIsCurrent, RefusalIsRight, Me, Live, api
<1> QED
  BY <1>1, <1>2, <1>3 DEF TabInv

\* main.ts, the guard and the user.
LEMMA PageSteps ==
    ASSUME TabInv,
           \/ Boot \/ GuardHydrates \/ Decide \/ AskPreview
           \/ \E to \in Routes : Click(to)
           \/ \E kind \in Kinds : SendForm(kind)
           \/ \E c \in Calls : AskAgain(c)
    PROVE  TabInv'
<1>1. ASSUME hydrate, UNCHANGED <<api, jar, store, at, nav, preview, clicks, excused>>, booting' \in BOOLEAN
      PROVE  TabInv'
  <2>1. CASE store.hydrated \/ hydrating
    BY <1>1, <2>1, Stays DEF hydrate, TabInv, TabTypeOK
  <2>2. CASE ~(store.hydrated \/ hydrating)
    <3>1. PICK c \in Calls : call' = [call EXCEPT ![c] = Request("me", 0)] /\ hydrating' = TRUE
      BY <1>1, <2>2 DEF hydrate, Send
    <3>2. \A d \in Calls : ~Me(d)
      BY <2>2 DEF TabInv, OneMe
    <3>3. "me" \in Kinds /\ 0 \in 0..Retries
      BY ClickAssumption DEF Kinds
    <3> QED
      BY <1>1, <3>1, <3>2, <3>3, Sends DEF TabInv, TabTypeOK
  <2> QED
    BY <2>1, <2>2
<1>2. CASE Boot
  BY <1>1, <1>2 DEF Boot
<1>3. CASE GuardHydrates
  BY <1>1, <1>3 DEF GuardHydrates, TabInv, TabTypeOK
<1>4. CASE Decide
  <2>1. nav \in Routes => authGuard(nav) \in Routes
    BY DEF authGuard, Routes
  <2> QED
    BY <1>4, <2>1, Stays DEF Decide, Decision, TabInv, TabTypeOK
<1>5. ASSUME NEW kind \in Kinds, kind # "me", Send(kind),
             UNCHANGED <<api, jar, store, booting, hydrating, at, nav, excused>>,
             preview' \in {"none", "asked", "shown", "error"}, clicks' \in 0..MaxClicks
      PROVE  TabInv'
  <2>1. PICK c \in Calls : call' = [call EXCEPT ![c] = Request(kind, 0)]
    BY <1>5 DEF Send
  <2>2. 0 \in 0..Retries
    BY ClickAssumption
  <2> QED
    BY <1>5, <2>1, <2>2, Sends DEF TabInv, TabTypeOK
<1>6. CASE AskPreview
  <2>1. "preview" \in Kinds /\ "preview" # "me"
    BY DEF Kinds
  <2> QED
    BY <1>5, <1>6, <2>1 DEF AskPreview, TabInv, TabTypeOK
<1>7. ASSUME clicks < MaxClicks, clicks' = clicks + 1
      PROVE  clicks' \in 0..MaxClicks
  BY <1>7, ClickAssumption DEF TabInv, TabTypeOK
<1>8. ASSUME NEW to \in Routes, Click(to) PROVE TabInv'
  BY <1>7, <1>8, Stays DEF Click, TabInv, TabTypeOK
<1>9. ASSUME NEW kind \in Kinds, SendForm(kind) PROVE TabInv'
  <2>1. kind # "me"
    BY <1>9 DEF SendForm, Offers, LoginView, DashboardView, SettingsView, TotpSetupView,
                TotpChallengeView, AcceptInviteView
  <2> QED
    BY <1>5, <1>7, <1>9, <2>1 DEF SendForm, page, TabInv, TabTypeOK
<1>10. ASSUME NEW c \in Calls, AskAgain(c) PROVE TabInv'
  <2>1. call[c].tries + 1 \in 0..Retries /\ Me(c)
    BY <1>10, CallRecords, ClickAssumption DEF AskAgain, Me, TabInv, TabTypeOK
  <2>2. hydrating /\ \A d \in Calls \ {c} : ~Me(d)
    BY <2>1 DEF TabInv, OneMe
  <2>3. "me" \in Kinds
    BY DEF Kinds
  <2> QED
    BY <1>10, <2>1, <2>2, <2>3, Sends DEF AskAgain, SentAgain, page, TabInv, TabTypeOK
<1> QED
  BY <1>2, <1>3, <1>4, <1>6, <1>8, <1>9, <1>10

\* Sessions are drawn, and end, for good.
Aged == \A s \in Sids : /\ session[s] # "unborn" => session'[s] # "unborn"
                        /\ session[s] = "dead" => session'[s] = "dead"

\* Time and the API do not make a drawn session live again.
LEMMA AgedSessions ==
    ASSUME TabInv, Aged, jar' = jar
    PROVE  Live(jar)' => Live(jar)
<1>1. session \in [Sids -> {"unborn", "plain", "elevated", "dead"}] /\ jar \in Cookie
  BY DEF TabInv, TabTypeOK
<1>2. jar # NoSid => jar \in Sids /\ session[jar] \in {"plain", "elevated", "dead"}
  BY <1>1 DEF TabInv, Drawn, Cookie
<1> QED
  BY <1>2 DEF Live, Aged

\* The API admits a call and answers it: the sessions age, the page stays.
LEMMA Replying ==
    ASSUME TabInv, NEW c \in Calls, NEW s \in Cookie, call[c].pc = "sent", Replies(c, s),
           session' \in [Sids -> {"unborn", "plain", "elevated", "dead"}], Aged,
           user' \in [enrolled : BOOLEAN, required : BOOLEAN],
           UNCHANGED <<jar, page, clicks, excused>>,
           call[c].kind \in {"me", "accept"} => s = call[c].cookie /\ s # NoSid,
           call[c].kind \in Issuing => s # NoSid /\ session'[s] # "unborn"
    PROVE  TabInv'
<1>1. call[c] \in Call /\ call[c].kind \in Kinds /\ call[c].tries \in 0..Retries
  BY CallRecords DEF TabInv, TabTypeOK
<1> DEFINE flags == IF s = NoSid THEN NoFlags ELSE FlagsOf(s)
<1>2. flags \in Flags
  BY StoreRecords DEF FlagsOf, Flags
<1>3. call' = [call EXCEPT ![c] = [pc |-> "ok", kind |-> call[c].kind, tries |-> call[c].tries,
                                   sid |-> s, flags |-> flags]]
  BY DEF Replies
<1> HIDE DEF flags
<1>4. call' \in [Calls -> Call]
  BY <1>1, <1>2, <1>3, CallRecords DEF TabInv, TabTypeOK
<1>5. /\ call'[c].pc = "ok" /\ call'[c].kind = call[c].kind /\ call'[c].sid = s
      /\ \A d \in Calls \ {c} : call'[d] = call[d]
  BY <1>3 DEF TabInv, TabTypeOK
<1>6. TabTypeOK'
  BY <1>4 DEF TabInv, TabTypeOK, page
<1>7. Drawn'
  <2>1. \A x \in Cookie : x # NoSid /\ session[x] # "unborn" => session'[x] # "unborn"
    BY DEF Aged, Cookie
  <2>2. jar \in Cookie /\ \A d \in Calls : call[d].pc = "ok" => call[d].sid \in Cookie
    BY CallRecords DEF TabInv, TabTypeOK
  <2>3. jar' = jar
    OBVIOUS
  <2>4. (jar # NoSid => session[jar] # "unborn")'
    BY <2>1, <2>2, <2>3 DEF TabInv, Drawn
  <2>5. ASSUME NEW d \in Calls, call'[d].pc = "ok"
        PROVE  /\ call'[d].kind \in Issuing \cup {"me", "accept"} => call'[d].sid # NoSid
               /\ call'[d].kind \in Issuing => session'[call'[d].sid] # "unborn"
    <3>1. CASE d = c
      BY <1>5, <3>1
    <3>2. CASE d # c
      BY <1>5, <2>1, <2>2, <2>5, <3>2 DEF TabInv, Drawn
    <3> QED
      BY <3>1, <3>2
  <2> QED
    BY <2>4, <2>5 DEF Drawn
<1>8. OneMe' /\ MeIsCurrent'
  <2>1. \A d \in Calls : Me(d)' <=> Me(d)
    BY <1>5 DEF Me
  <2>2. \A d \in Calls : call'[d].pc = "sent" => d # c
    BY <1>5
  <2>3. ASSUME ~store.hydrated, Me(c) PROVE s = jar
    BY <2>3 DEF Me, TabInv, MeIsCurrent
  <2> QED
    BY <1>5, <2>1, <2>2, <2>3 DEF TabInv, OneMe, MeIsCurrent, Me, page
<1>9. RefusalIsRight' /\ AnonymousIsRight'
  BY <1>5, AgedSessions DEF TabInv, RefusalIsRight, AnonymousIsRight, Me, page
<1> QED
  BY <1>6, <1>7, <1>8, <1>9 DEF TabInv

\* Every success of the API is such an answer.
LEMMA ApiSteps ==
    ASSUME TabInv, NEW c \in Calls,
           Look(c) \/ Open(c) \/ Rotate(c) \/ Close(c) \/ Enroll(c)
    PROVE  TabInv'
<1>1. /\ session \in [Sids -> {"unborn", "plain", "elevated", "dead"}]
      /\ user \in [enrolled : BOOLEAN, required : BOOLEAN]
      /\ call[c].pc = "sent" => call[c].cookie \in Cookie
      /\ NoSid \in Cookie
  BY CallRecords DEF TabInv, TabTypeOK, Cookie
<1>2. CASE Look(c)
  <2>1. call[c].kind \in {"me", "accept"} => call[c].cookie # NoSid
    BY <1>2 DEF Look, Served, Admits, Anonymous, Live
  <2>2. call[c].pc = "sent" /\ call[c].kind \in {"me", "preview", "accept"}
    BY <1>2 DEF Look, Served
  <2>3. user' \in [enrolled : BOOLEAN, required : BOOLEAN] /\ session' = session
    BY <1>1, <1>2 DEF Look
  <2>4. Aged
    BY <2>3 DEF Aged
  <2>5. CASE call[c].kind = "preview"
    BY <1>1, <1>2, <2>2, <2>3, <2>4, <2>5, Replying DEF Look, Issuing
  <2>6. CASE call[c].kind \in {"me", "accept"}
    BY <1>1, <1>2, <2>1, <2>2, <2>3, <2>4, <2>6, Replying DEF Look, Issuing
  <2> QED
    BY <2>2, <2>5, <2>6
<1>3. CASE Open(c)
  <2>1. PICK s \in Undrawn :
            /\ session' = [session EXCEPT ![s] = "plain"]
            /\ user' = IF call[c].kind = "join" THEN [user EXCEPT !.enrolled = FALSE] ELSE user
            /\ Replies(c, s)
    BY <1>3 DEF Open
  <2>2. s \in Sids /\ session[s] = "unborn" /\ s # NoSid /\ s \in Cookie
    BY NullAssumption DEF Undrawn, Cookie
  <2>3. /\ session' \in [Sids -> {"unborn", "plain", "elevated", "dead"}]
        /\ session'[s] = "plain"
        /\ Aged
    BY <1>1, <2>1, <2>2 DEF Aged
  <2>4. user' \in [enrolled : BOOLEAN, required : BOOLEAN]
    BY <1>1, <2>1
  <2>5. /\ call[c].pc = "sent" /\ call[c].kind \in {"login", "join"}
        /\ UNCHANGED <<jar, page, clicks, excused>>
    BY <1>3 DEF Open, Served
  <2> QED
    BY <2>1, <2>2, <2>3, <2>4, <2>5, Replying
<1>4. CASE Rotate(c)
  <2>1. PICK s \in Undrawn :
            /\ session' = [session EXCEPT ![s] = "elevated", ![call[c].cookie] = "dead"]
            /\ Replies(c, s)
    BY <1>4 DEF Rotate
  <2>2. s \in Sids /\ session[s] = "unborn" /\ s # NoSid /\ s \in Cookie
    BY NullAssumption DEF Undrawn, Cookie
  <2>3. /\ call[c].pc = "sent" /\ call[c].kind = "verify" /\ UNCHANGED user
        /\ UNCHANGED <<jar, page, clicks, excused>>
    BY <1>4 DEF Rotate, Served
  <2>4. call[c].cookie \in Sids /\ session[call[c].cookie] \in {"plain", "elevated"}
    BY <1>1, <1>4, <2>3 DEF Rotate, Served, Admits, Anonymous, Live, Cookie
  <2>5. /\ session' \in [Sids -> {"unborn", "plain", "elevated", "dead"}]
        /\ session'[s] = "elevated"
        /\ Aged
    BY <1>1, <2>1, <2>2, <2>4 DEF Aged
  <2> QED
    BY <1>1, <2>1, <2>2, <2>3, <2>5, Replying
<1>5. CASE Close(c)
  <2>1. /\ call[c].pc = "sent" /\ call[c].kind \in Closing /\ Replies(c, NoSid)
        /\ session' = [session EXCEPT ![call[c].cookie] = "dead"]
        /\ UNCHANGED <<jar, page, clicks, excused>>
    BY <1>5 DEF Close, Served
  <2>2. call[c].cookie \in Sids
    BY <1>1, <1>5, <2>1 DEF Close, Served, Admits, Anonymous, Closing, Live, Cookie
  <2>3. session' \in [Sids -> {"unborn", "plain", "elevated", "dead"}] /\ Aged
    BY <1>1, <2>1, <2>2 DEF Aged
  <2>4. user' \in [enrolled : BOOLEAN, required : BOOLEAN]
    BY <1>1, <1>5 DEF Close
  <2>5. call[c].kind \notin Issuing \cup {"me", "accept"}
    BY <2>1 DEF Closing, Issuing
  <2> QED
    BY <1>1, <2>1, <2>3, <2>4, <2>5, Replying
<1>6. CASE Enroll(c)
  <2>1. /\ call[c].pc = "sent" /\ call[c].kind = "enroll" /\ Replies(c, NoSid)
        /\ UNCHANGED session /\ UNCHANGED <<jar, page, clicks, excused>>
    BY <1>6 DEF Enroll, Served
  <2>2. user' \in [enrolled : BOOLEAN, required : BOOLEAN] /\ Aged
    BY <1>1, <1>6, <2>1 DEF Enroll, Aged
  <2>3. call[c].kind \notin Issuing \cup {"me", "accept"}
    BY <2>1 DEF Issuing
  <2> QED
    BY <1>1, <2>1, <2>2, <2>3, Replying
<1> QED
  BY <1>2, <1>3, <1>4, <1>5, <1>6

\* /auth/me is turned down only when the cookie names no live session.
LEMMA RefuseStep ==
    ASSUME TabInv, NEW c \in Calls, Refuse(c)
    PROVE  TabInv'
<1>1. call[c] \in Call /\ call[c].kind \in Kinds /\ call[c].tries \in 0..Retries
  BY CallRecords DEF Refuse, TabInv, TabTypeOK
<1>2. call' = [call EXCEPT ![c] = [pc |-> "refused", kind |-> call[c].kind, tries |-> call[c].tries]]
  BY DEF Refuse
<1>3. call' \in [Calls -> Call]
  BY <1>1, <1>2, CallRecords DEF TabInv, TabTypeOK
<1>4. /\ call[c].pc = "sent" /\ call'[c].pc = "refused" /\ call'[c].kind = call[c].kind
      /\ \A d \in Calls \ {c} : call'[d] = call[d]
  BY <1>2 DEF Refuse, TabInv, TabTypeOK
<1>5. UNCHANGED <<api, jar, page, clicks, excused>>
  BY DEF Refuse
<1>6. TabTypeOK'
  BY <1>3, <1>5 DEF TabInv, TabTypeOK, api, page
<1>7. Drawn' /\ OneMe' /\ MeIsCurrent' /\ AnonymousIsRight'
  BY <1>4, <1>5 DEF TabInv, Drawn, OneMe, MeIsCurrent, AnonymousIsRight, Me, Live, api, page
<1>8. RefusalIsRight'
  <2>1. Me(c) => ~Live(call[c].cookie)
    BY <1>4 DEF Refuse, Admits, Me, Anonymous
  <2>2. Me(c) /\ ~excused => ~Live(jar)
    BY <1>4, <2>1 DEF TabInv, RefusalIsRight, Live
  <2> QED
    BY <1>4, <1>5, <2>2 DEF TabInv, RefusalIsRight, Me, Live, api
<1> QED
  BY <1>6, <1>7, <1>8 DEF TabInv

\* A session that ends on its own is over for the calls under way too.
LEMMA ExpireStep ==
    ASSUME TabInv, NEW s \in Sids, Expire(s)
    PROVE  TabInv'
<1>1. /\ session' \in [Sids -> {"unborn", "plain", "elevated", "dead"}]
      /\ Aged
      /\ UNCHANGED <<user, jar, page, call, clicks, excused>>
  BY DEF Expire, TabInv, TabTypeOK, Aged
<1>2. TabTypeOK'
  BY <1>1 DEF TabInv, TabTypeOK, page
<1>3. Drawn'
  <2>1. \A x \in Cookie : x # NoSid /\ session[x] # "unborn" => session'[x] # "unborn"
    BY <1>1 DEF Aged, Cookie
  <2>2. jar \in Cookie /\ \A d \in Calls : call[d].pc = "ok" => call[d].sid \in Cookie
    BY CallRecords DEF TabInv, TabTypeOK
  <2> QED
    BY <1>1, <2>1, <2>2 DEF TabInv, Drawn
<1>4. OneMe' /\ MeIsCurrent'
  BY <1>1 DEF TabInv, OneMe, MeIsCurrent, Me, page
<1>5. RefusalIsRight' /\ AnonymousIsRight'
  BY <1>1, AgedSessions DEF TabInv, RefusalIsRight, AnonymousIsRight, Me, page
<1> QED
  BY <1>2, <1>3, <1>4, <1>5 DEF TabInv

\* A call is over: what is left to see to is the store and the cookie.
LEMMA CallEnds ==
    ASSUME TabInv, NEW c \in Calls, call' = [call EXCEPT ![c] = Off], UNCHANGED api,
           jar' \in Cookie, store' \in Store, excused' \in BOOLEAN, hydrating' \in BOOLEAN,
           nav' \in Routes \cup {NoRoute}, preview' \in {"none", "asked", "shown", "error"},
           UNCHANGED <<booting, at, clicks>>,
           jar' # NoSid => session[jar'] # "unborn",
           store.hydrated => store'.hydrated,
           jar' # jar => store'.hydrated,
           excused => excused',
           jar' \notin {jar, NoSid} /\ hydrating' => excused',
           hydrating' = hydrating \/ Me(c),
           store'.hydrated /\ store'.token = NoSid /\ ~excused' => ~Live(jar')
    PROVE  TabInv'
<1>1. call' \in [Calls -> Call]
  BY CallRecords DEF TabInv, TabTypeOK
<1>2. call'[c].pc = "off" /\ \A d \in Calls \ {c} : call'[d] = call[d]
  BY CallRecords DEF TabInv, TabTypeOK
<1>3. TabTypeOK'
  BY <1>1 DEF TabInv, TabTypeOK, api
<1>4. Drawn'
  BY <1>2 DEF TabInv, Drawn, api
<1>5. OneMe'
  BY <1>2 DEF TabInv, OneMe, Me
<1>6. MeIsCurrent'
  BY <1>2 DEF TabInv, MeIsCurrent, Me
<1>7. RefusalIsRight'
  <2>1. ASSUME ~excused', NEW d \in Calls, Me(d)'
        PROVE  /\ call'[d].pc = "sent" => jar' \in {call'[d].cookie, NoSid}
               /\ call'[d].pc = "refused" => ~Live(jar)'
    <3>1. d # c /\ Me(d) /\ hydrating' /\ call'[d] = call[d]
      BY <1>2, <1>5, <2>1 DEF OneMe, Me
    <3>2. jar' \in {jar, NoSid} /\ ~excused
      BY <2>1, <3>1
    <3> QED
      BY <3>1, <3>2 DEF TabInv, RefusalIsRight, Live, api
  <2> QED
    BY <2>1 DEF RefusalIsRight
<1>8. AnonymousIsRight'
  BY DEF AnonymousIsRight, Live, api
<1> QED
  BY <1>3, <1>4, <1>5, <1>6, <1>7, <1>8 DEF TabInv

\* Every answer, and every failure, ends its call that way.
LEMMA AnswerSteps ==
    ASSUME TabInv, NEW c \in Calls,
           \/ GotSession(c) \/ GotMe(c) \/ GotClosed(c) \/ GotEnrolled(c) \/ GotPreview(c)
           \/ FailedMe(c) \/ FailedLogout(c) \/ FailedOther(c)
    PROVE  TabInv'
<1>1. /\ call[c].pc = "ok" => call[c].sid \in Cookie /\ call[c].flags \in Flags
      /\ jar \in Cookie /\ store \in Store /\ NoSid \in Cookie
      /\ {excused, hydrating} \subseteq BOOLEAN /\ nav \in Routes \cup {NoRoute}
      /\ preview \in {"none", "asked", "shown", "error"}
  BY CallRecords DEF TabInv, TabTypeOK, Cookie
<1>2. /\ jar # NoSid => session[jar] # "unborn"
      /\ store.hydrated /\ store.token = NoSid /\ ~excused => ~Live(jar)
  BY DEF TabInv, Drawn, AnonymousIsRight
<1>3. /\ \A s \in Cookie, f \in Flags : [token |-> s, hydrated |-> TRUE, flags |-> f] \in Store
      /\ NoFlags \in Flags
  BY StoreRecords
<1>4. Routes \subseteq Routes \cup {NoRoute} /\ "login" \in Routes /\ "dashboard" \in Routes
  BY DEF Routes
<1>5. CASE GotSession(c)
  <2>1. /\ call[c].pc = "ok" /\ call[c].kind \in Issuing \cup {"accept"}
        /\ call' = [call EXCEPT ![c] = Off]
        /\ store' = [token |-> call[c].sid, hydrated |-> TRUE, flags |-> call[c].flags]
        /\ jar' = IF call[c].kind \in Issuing THEN call[c].sid ELSE jar
        /\ excused' = (excused \/ hydrating)
        /\ UNCHANGED <<api, booting, hydrating, at, preview, clicks>>
    BY <1>5 DEF GotSession, Arrived, TakeSession, setFromAuth
  <2>2. nav' \in Routes
    BY <1>4, <1>5 DEF GotSession, TakeSession, Targets, Routes
  <2>3. /\ call[c].sid # NoSid
        /\ call[c].kind \in Issuing => session[call[c].sid] # "unborn"
    BY <2>1 DEF TabInv, Drawn
  <2>4. ~Me(c)
    BY <2>1 DEF Me, Issuing
  <2>5. store' \in Store /\ store'.hydrated /\ store'.token # NoSid
    BY <1>1, <1>3, <2>1, <2>3
  <2> QED
    BY <1>1, <1>2, <2>1, <2>2, <2>3, <2>4, <2>5, CallEnds
<1>6. CASE GotMe(c)
  <2>1. /\ call[c].pc = "ok" /\ call[c].kind = "me"
        /\ call' = [call EXCEPT ![c] = Off]
        /\ store' = [token |-> call[c].sid, hydrated |-> TRUE, flags |-> call[c].flags]
        /\ hydrating' = FALSE
        /\ UNCHANGED <<api, jar, booting, at, nav, preview, clicks, excused>>
    BY <1>6 DEF GotMe, Arrived, setFromAuth
  <2>2. call[c].sid # NoSid /\ Me(c)
    BY <2>1 DEF TabInv, Drawn, Me
  <2>3. store' \in Store /\ store'.hydrated /\ store'.token # NoSid
    BY <1>1, <1>3, <2>1, <2>2
  <2> QED
    BY <1>1, <1>2, <2>1, <2>2, <2>3, CallEnds
<1>7. CASE GotClosed(c)
  <2>1. /\ call[c].pc = "ok" /\ call[c].kind \in Closing
        /\ call' = [call EXCEPT ![c] = Off]
        /\ store' = [token |-> NoSid, hydrated |-> TRUE, flags |-> NoFlags]
        /\ jar' = NoSid /\ nav' = "login"
        /\ UNCHANGED <<api, booting, hydrating, at, preview, clicks, excused>>
    BY <1>7 DEF GotClosed, Arrived, clear
  <2>2. ~Me(c) /\ ~Live(NoSid)
    BY <2>1 DEF Me, Closing, Live
  <2>3. store' \in Store /\ store'.hydrated
    BY <1>1, <1>3, <2>1
  <2> QED
    BY <1>1, <1>4, <2>1, <2>2, <2>3, CallEnds
<1>8. CASE GotEnrolled(c)
  <2>1. /\ call[c].pc = "ok" /\ call[c].kind = "enroll"
        /\ call' = [call EXCEPT ![c] = Off]
        /\ store' = [store EXCEPT !.flags.enrolled = TRUE]
        /\ UNCHANGED <<api, jar, booting, hydrating, at, nav, preview, clicks, excused>>
    BY <1>8 DEF GotEnrolled, Arrived
  <2>2. ~Me(c)
    BY <2>1 DEF Me
  <2>3. store' \in Store /\ store'.hydrated = store.hydrated /\ store'.token = store.token
    BY <1>1, <2>1 DEF Store, Flags
  <2> QED
    BY <1>1, <1>2, <2>1, <2>2, <2>3, CallEnds
<1>9. CASE GotPreview(c)
  <2>1. /\ call[c].pc = "ok" /\ call[c].kind = "preview"
        /\ call' = [call EXCEPT ![c] = Off]
        /\ preview' \in {"none", "asked", "shown", "error"}
        /\ UNCHANGED <<api, jar, store, booting, hydrating, at, nav, clicks, excused>>
    BY <1>1, <1>9 DEF GotPreview, Arrived
  <2>2. ~Me(c)
    BY <2>1 DEF Me
  <2> QED
    BY <1>1, <1>2, <2>1, <2>2, CallEnds
<1>10. CASE FailedMe(c)
  <2>1. /\ call[c].pc # "off" /\ call[c].kind = "me"
        /\ call' = [call EXCEPT ![c] = Off]
        /\ store' = [token |-> NoSid, hydrated |-> TRUE, flags |-> NoFlags]
        /\ hydrating' = FALSE
        /\ excused' = (excused \/ call[c].pc # "refused")
        /\ UNCHANGED <<api, jar, booting, at, nav, preview, clicks>>
    BY <1>10 DEF FailedMe, Failed, clear
  <2>2. Me(c)
    BY <2>1 DEF Me
  <2>3. ~excused' => ~Live(jar)
    BY <2>1, <2>2 DEF TabInv, RefusalIsRight
  <2>4. store' \in Store /\ store'.hydrated
    BY <1>1, <1>3, <2>1
  <2> QED
    BY <1>1, <1>2, <2>1, <2>2, <2>3, <2>4, CallEnds
<1>11. CASE FailedLogout(c)
  <2>1. /\ call[c].kind = "logout"
        /\ call' = [call EXCEPT ![c] = Off]
        /\ store' = [token |-> NoSid, hydrated |-> TRUE, flags |-> NoFlags]
        /\ nav' = "login" /\ excused' = TRUE
        /\ UNCHANGED <<api, jar, booting, hydrating, at, preview, clicks>>
    BY <1>11 DEF FailedLogout, Failed, clear
  <2>2. ~Me(c)
    BY <2>1 DEF Me
  <2>3. store' \in Store /\ store'.hydrated
    BY <1>1, <1>3, <2>1
  <2> QED
    BY <1>1, <1>2, <1>4, <2>1, <2>2, <2>3, CallEnds
<1>12. CASE FailedOther(c)
  <2>1. /\ call[c].kind # "me"
        /\ call' = [call EXCEPT ![c] = Off]
        /\ preview' \in {"none", "asked", "shown", "error"}
        /\ UNCHANGED <<api, jar, store, booting, hydrating, at, nav, clicks, excused>>
    BY <1>1, <1>12 DEF FailedOther, Failed
  <2>2. ~Me(c)
    BY <2>1 DEF Me
  <2> QED
    BY <1>1, <1>2, <2>1, <2>2, CallEnds
<1> QED
  BY <1>5, <1>6, <1>7, <1>8, <1>9, <1>10, <1>11, <1>12

\* Every step of the tab keeps the invariant.
LEMMA TabNextInv == TabInv /\ [TabNext]_tabVars => TabInv'
<1> SUFFICES ASSUME TabInv, [TabNext]_tabVars PROVE TabInv'
  OBVIOUS
<1>1. CASE UNCHANGED tabVars
  BY <1>1, Stays DEF TabInv, TabTypeOK, tabVars, page
<1>2. CASE TabNext
  BY <1>2, PageSteps, ApiSteps, RefuseStep, ExpireStep, AnswerSteps DEF TabNext, Answers
<1> QED
  BY <1>1, <1>2

-----------------------------------------------------------------------------
\* The invariant holds in every state of every behaviour of the tab.
THEOREM TabInvariant == TabSpec => []TabInv
  BY TabInitInv, TabNextInv, PTL DEF TabSpec

\* Every variable of the tab keeps its type.
THEOREM TabTypeCorrect == TabSpec => []TabTypeOK
<1>1. TabInv => TabTypeOK
  BY DEF TabInv
<1> QED
  BY <1>1, TabInvariant, PTL

\* Whatever the store holds, the guard (router/index.ts:105) lets a navigation
\* through after two redirects at most: login, dashboard, challenge and setup make no
\* loop.
THEOREM GuardSettles ==
    ASSUME NEW to \in Routes
    PROVE  authGuard(authGuard(authGuard(to))) = authGuard(authGuard(to))
  BY DEF authGuard, requiresAuth, requiresAnonymous, mfaFlow, StepUp, Enrollment

\* A visitor with a live session is sent to /login (router/index.ts:124) only when
\* /auth/me or logout failed, or a session was opened while /auth/me was under way.
THEOREM BouncesAreRight == TabSpec => BounceIsRight
<1> DEFINE Right == nav' = "login" /\ requiresAuth(nav) /\ clicks' = clicks /\ call' = call
                    => excused \/ ~Live(jar)
<1>1. ASSUME TabInv, [TabNext]_tabVars, nav' = "login", requiresAuth(nav), clicks' = clicks,
             call' = call
      PROVE  excused \/ ~Live(jar)
  <2>1. TabNext
    BY <1>1 DEF tabVars, page, requiresAuth
  <2>2. Decide
    <3>1. nav' # nav
      BY <1>1 DEF requiresAuth
    <3>2. call \in [Calls -> Call]
      BY <1>1 DEF TabInv, TabTypeOK
    <3>3. ASSUME NEW c \in Calls, call[c].pc # "off", call' = [call EXCEPT ![c] = Off]
          PROVE  FALSE
      BY <1>1, <3>2, <3>3, CallRecords
    <3>4. ASSUME NEW c \in Calls, call[c].pc = "sent", NEW x, x.pc # "sent",
                 call' = [call EXCEPT ![c] = x]
          PROVE  FALSE
      BY <1>1, <3>2, <3>4
    <3>5. ASSUME NEW c \in Calls,
                 Look(c) \/ Open(c) \/ Rotate(c) \/ Close(c) \/ Enroll(c) \/ Refuse(c)
          PROVE  FALSE
      BY <3>4, <3>5 DEF Look, Open, Rotate, Close, Enroll, Refuse, Served, Replies
    <3>6. ASSUME NEW c \in Calls,
                 \/ GotSession(c) \/ GotMe(c) \/ GotClosed(c) \/ GotEnrolled(c)
                 \/ GotPreview(c) \/ FailedMe(c) \/ FailedLogout(c) \/ FailedOther(c)
          PROVE  FALSE
      BY <3>3, <3>6 DEF GotSession, GotMe, GotClosed, GotEnrolled, GotPreview, FailedMe,
                        FailedLogout, FailedOther, Arrived, Failed
    <3>7. /\ ~Boot /\ ~GuardHydrates /\ ~AskPreview
          /\ \A kind \in Kinds : ~SendForm(kind)
          /\ \A c \in Calls : ~AskAgain(c)
          /\ \A s \in Sids : ~Expire(s)
      BY <3>1 DEF AskAgain, Expire, Boot, GuardHydrates, AskPreview, SendForm, page
    <3>8. \A to \in Routes : ~Click(to)
      BY <1>1, ClickAssumption DEF Click, TabInv, TabTypeOK
    <3> QED
      BY <2>1, <3>5, <3>6, <3>7, <3>8 DEF TabNext, Answers
  <2>3. store.hydrated /\ store.token = NoSid
    BY <1>1, <2>2, NullAssumption
    DEF Decide, Decision, authGuard, NeedsSession, isAuthenticated, requiresAuth, Routes
  <2> QED
    BY <1>1, <2>3 DEF TabInv, AnonymousIsRight
<1>2. TabInv /\ [TabNext]_tabVars => Right
  BY <1>1
<1> QED
  BY <1>2, TabInvariant, PTL DEF TabSpec, BounceIsRight

\* Whatever order answers arrive in, the store's CSRF token is that of the cookie's
\* session, unless one that was overtaken puts an older one back (useInvites.ts:54,
\* stores/session.ts:106).
THEOREM TokensFollowCookies == TabSpec => TokenFollowsCookie
<1> DEFINE Overtaken ==
      \E c \in Calls : /\ call[c].pc = "ok" /\ call'[c] = Off
                       /\ \/ call[c].kind = "accept"
                          \/ call[c].kind = "me" /\ store.hydrated
<1>1. ASSUME TabInv, [TabNext]_tabVars, <<store', jar'>> # <<store, jar>>,
             store'.token \notin {NoSid, jar'}
      PROVE  (store'.token = store.token /\ jar' = jar) \/ Overtaken
  <2>1. TabNext
    BY <1>1 DEF tabVars, page
  <2>2. PICK c \in Calls :
            \/ GotSession(c) \/ GotMe(c) \/ GotClosed(c) \/ GotEnrolled(c)
            \/ FailedMe(c) \/ FailedLogout(c)
    BY <1>1, <2>1
    DEF TabNext, Boot, GuardHydrates, Decide, Decision, AskPreview, Click, SendForm, Answers,
        Look, Open, Rotate, Close, Enroll, Refuse, GotPreview, FailedOther, AskAgain, Expire, page
  <2>3. \A d \in Calls : call' = [call EXCEPT ![d] = Off] => call'[d] = Off
    BY <1>1 DEF TabInv, TabTypeOK
  <2>4. CASE GotSession(c)
    BY <1>1, <2>3, <2>4 DEF GotSession, Arrived, TakeSession, setFromAuth
  <2>5. CASE GotMe(c)
    <3>1. store'.token = call[c].sid /\ jar' = jar /\ call[c].pc = "ok" /\ call[c].kind = "me"
          /\ call'[c] = Off
      BY <2>3, <2>5 DEF GotMe, Arrived, setFromAuth
    <3>2. ~store.hydrated => call[c].sid = jar
      BY <1>1, <3>1 DEF TabInv, MeIsCurrent, Me
    <3> QED
      BY <1>1, <3>1, <3>2
  <2>6. CASE GotEnrolled(c)
    BY <1>1, <2>6 DEF GotEnrolled, TabInv, TabTypeOK, Store
  <2>7. CASE GotClosed(c) \/ FailedMe(c) \/ FailedLogout(c)
    BY <1>1, <2>7 DEF GotClosed, FailedMe, FailedLogout, clear
  <2> QED
    BY <2>2, <2>4, <2>5, <2>6, <2>7
<1>2. TabInv /\ [TabNext]_tabVars =>
        (<<store', jar'>> # <<store, jar>> /\ store'.token \notin {NoSid, jar'} =>
            (store'.token = store.token /\ jar' = jar) \/ Overtaken)
  BY <1>1
<1> QED
  BY <1>2, TabInvariant, PTL DEF TabSpec, TokenFollowsCookie

-----------------------------------------------------------------------------
(* The API the tab talks to, and the one of Sessions *)

\* A session as SessionLife speaks of it, and its life alone.
LifeInTab(s) == IF session[s] = "dead" THEN "ended" ELSE session[s]

Lived(s) == INSTANCE SessionLife WITH Sids <- {s}, life <- [x \in {s} |-> LifeInTab(x)]

\* What a step may do to one session: open it, with a login or a step-up; end
\* it, with a logout, a removal, a step-up of its own or on its own.
LEMMA SessionSteps ==
    ASSUME TabTypeOK, [TabNext]_tabVars, NEW s \in Sids, session'[s] # session[s]
    PROVE  \/ session[s] = "unborn" /\ session'[s] \in {"plain", "elevated"}
           \/ session[s] \in {"plain", "elevated"} /\ session'[s] = "dead"
<1>1. session \in [Sids -> {"unborn", "plain", "elevated", "dead"}]
  BY DEF TabTypeOK
<1>2. TabNext
  BY DEF tabVars, api
<1>3. ASSUME NEW x \in Sids, Live(x), session' = [session EXCEPT ![x] = "dead"]
      PROVE  session[s] \in {"plain", "elevated"} /\ session'[s] = "dead"
  BY <1>1, <1>3 DEF Live
<1>4. ASSUME NEW c \in Calls, Open(c)
      PROVE  session[s] = "unborn" /\ session'[s] = "plain"
  <2>1. PICK x \in Undrawn : session' = [session EXCEPT ![x] = "plain"]
    BY <1>4 DEF Open
  <2> QED
    BY <1>1, <2>1 DEF Undrawn
<1>5. ASSUME NEW c \in Calls, Rotate(c)
      PROVE  \/ session[s] = "unborn" /\ session'[s] = "elevated"
             \/ session[s] \in {"plain", "elevated"} /\ session'[s] = "dead"
  <2>1. PICK x \in Undrawn :
            session' = [session EXCEPT ![x] = "elevated", ![call[c].cookie] = "dead"]
    BY <1>5 DEF Rotate
  <2>2. Live(call[c].cookie)
    BY <1>5 DEF Rotate, Served, Admits, Anonymous
  <2> QED
    BY <1>1, <2>1, <2>2 DEF Undrawn, Live
<1>6. ASSUME NEW c \in Calls, Close(c)
      PROVE  session[s] \in {"plain", "elevated"} /\ session'[s] = "dead"
  <2>1. Live(call[c].cookie) /\ session' = [session EXCEPT ![call[c].cookie] = "dead"]
    BY <1>6 DEF Close, Served, Admits, Anonymous, Closing
  <2> QED
    BY <1>1, <2>1 DEF Live
<1>7. \/ \E c \in Calls : Open(c) \/ Rotate(c) \/ Close(c)
      \/ \E x \in Sids : Expire(x)
  BY <1>2
  DEF TabNext, Boot, GuardHydrates, Decide, Decision, AskPreview, Click, SendForm, Answers,
      Look, Enroll, Refuse, GotSession, GotMe, GotClosed, GotEnrolled, GotPreview,
      FailedMe, FailedLogout, FailedOther, AskAgain, api
<1> QED
  BY <1>3, <1>4, <1>5, <1>6, <1>7 DEF Expire

\* The API answers the tab as the API does: each session lives on as SessionLife
\* says, which Sessions implements (Sessions_proofs!Refinement).  A step-up is one
\* call here and ends one session as it opens another; for each of the two that
\* is a single step.
THEOREM ApiKeepsSessionLife ==
  ASSUME NEW s \in Sids
  PROVE  TabSpec => [][Lived(s)!LifeNext]_(LifeInTab(s))
<1>1. TabTypeOK /\ [TabNext]_tabVars => [Lived(s)!LifeNext]_(LifeInTab(s))
  <2> SUFFICES ASSUME TabTypeOK, [TabNext]_tabVars, LifeInTab(s)' # LifeInTab(s)
               PROVE  Lived(s)!LifeNext
    OBVIOUS
  <2>1. \/ session[s] = "unborn" /\ session'[s] \in {"plain", "elevated"}
        \/ session[s] \in {"plain", "elevated"} /\ session'[s] = "dead"
    BY SessionSteps DEF LifeInTab
  <2>2. CASE session[s] = "unborn" /\ session'[s] \in {"plain", "elevated"}
    BY <2>2 DEF LifeInTab, Lived!LifeNext, Lived!Issue
  <2>3. CASE session[s] \in {"plain", "elevated"} /\ session'[s] = "dead"
    BY <2>3 DEF LifeInTab, Lived!LifeNext, Lived!End
  <2> QED
    BY <2>1, <2>2, <2>3
<1> QED
  BY <1>1, TabTypeCorrect, PTL DEF TabSpec
=============================================================================
