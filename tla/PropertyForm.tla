---------------------------- MODULE PropertyForm ----------------------------
(***************************************************************************)
(* Editors of one property in the web application: PropertyFormView.vue    *)
(* with the queries and mutations of useProperties.ts, against the row the *)
(* API keeps.  A form is seeded from the cached detail query, sends every  *)
(* field that is not blank, and is reset whenever a refetch brings a row   *)
(* that changed.  Calls run in the background and may be answered late,    *)
(* not at all, or be given up and carried out afterwards.                  *)
(*                                                                         *)
(* The form handles its fields alike and one by one, so one of them stands *)
(* for each: an input that may be blank, seeded, sent and kept or changed. *)
(* For the name and the slug the schema refuses a blank one, which takes   *)
(* behaviours away.  ky and TanStack Query are modelled from how the source *)
(* configures them.                                                        *)
(***************************************************************************)
EXTENDS Naturals

CONSTANTS
    Editors,      \* browser tabs on the property's page
    Texts,        \* what the column may hold
    Blank,        \* the empty input
    NoData,       \* the query has not answered yet
    BlankForm,    \* what the input of a form without a row holds
    MaxSaves,     \* bound: saves sent
    RetryLimit    \* ky: attempts that may follow the first

ASSUME TextAssumption == BlankForm \in Texts \cup {Blank} /\ Blank \notin Texts
ASSUME DataAssumption == NoData \notin [val : Texts, ver : Nat]
ASSUME BoundAssumption == MaxSaves \in Nat /\ RetryLimit \in Nat

VARIABLES
    row,       \* the row: its column, its updated_at, whether it is deleted
    late,      \* saves given up by their client that may still be executed
    form,      \* what the input of each editor holds
    touched,   \* whether it was typed in since the form was last reset
    data,      \* the cached row the form was reset to
    get,       \* the fetch of the detail query
    shown,     \* the form, or the message in its place and what it is due to
    save,      \* the update mutation
    del,       \* the delete mutation and its button
    told,      \* the message shown, or that the editor was taken to the list
    saved,     \* updated_at of the last success told to an editor with data
    saves      \* saves sent so far

server == <<row, late>>
view == <<form, touched, data, get, shown>>
vars == <<server, view, save, del, told, saved, saves>>

-----------------------------------------------------------------------------
Inputs == Texts \cup {Blank}
Versions == Nat
Snapshots == [val : Texts, ver : Versions]
Row == [val : Texts, ver : Versions, gone : BOOLEAN]

\* A fetch with the row it brings back.
Fetch == [stage : {"idle", "sent", "missing"}, row : {NoData}]
         \cup [stage : {"back"}, row : Snapshots]
NoFetch == [stage |-> "idle", row |-> NoData]
Fetching == [stage |-> "sent", row |-> NoData]
Missed == [stage |-> "missing", row |-> NoData]

\* The body of a save, Blank where it leaves the field out, with what its user
\* had typed in and the row the form was reset to.
Sent == [payload : Inputs, typed : BOOLEAN, base : Snapshots \cup {NoData}]
NoSave == [payload |-> Blank, typed |-> FALSE, base |-> NoData]
Save == [stage : {"idle", "sent", "ok", "missing", "failed"}, call : Sent, ver : Versions]

\* The query's error is shown in place of the form as "Property not found.",
\* whether the last fetch was answered 404 or failed in any other way.
Showings == {"form", "missing", "failed"}

Delete == [stage : {"idle", "armed", "sent", "pause", "ok", "missing", "failed"},
           tries : 0..RetryLimit]

TypeOK ==
    /\ row \in Row
    /\ late \subseteq Sent
    /\ form \in [Editors -> Inputs]
    /\ touched \in [Editors -> BOOLEAN]
    /\ data \in [Editors -> Snapshots \cup {NoData}]
    /\ get \in [Editors -> Fetch]
    /\ shown \in [Editors -> Showings]
    /\ save \in [Editors -> Save]
    /\ del \in [Editors -> Delete]
    /\ told \in [Editors -> {"nothing", "left", "not_found", "generic"}]
    /\ saved \in [Editors -> Versions]
    /\ saves \in 0..MaxSaves

IdleSave == [stage |-> "idle", call |-> NoSave, ver |-> 0]
IdleDelete == [stage |-> "idle", tries |-> RetryLimit]

\* Each tab has just been opened.
Init ==
    /\ row \in [val : Texts, ver : {0}, gone : {FALSE}]
    /\ late = {}
    /\ form = [e \in Editors |-> BlankForm]
    /\ touched = [e \in Editors |-> FALSE]
    /\ data = [e \in Editors |-> NoData]
    /\ get = [e \in Editors |-> Fetching]
    /\ shown = [e \in Editors |-> "form"]
    /\ save = [e \in Editors |-> IdleSave]
    /\ del = [e \in Editors |-> IdleDelete]
    /\ told = [e \in Editors |-> "nothing"]
    /\ saved = [e \in Editors |-> 0]
    /\ saves = 0

Here(e) == told[e] # "left"

-----------------------------------------------------------------------------
(* The API: what Properties!Get, Update and SoftDelete do to one row *)

UpdatedWithoutCoalesce(payload) == [row EXCEPT !.val = payload, !.ver = @ + 1]

\* COALESCE keeps the column of a field that is not in the body; the trigger
\* stamps the row all the same.
Updated(payload) ==
    [row EXCEPT !.val = IF payload = Blank THEN @ ELSE payload, !.ver = @ + 1]
Deleted == [row EXCEPT !.gone = TRUE]
Seen == [val |-> row.val, ver |-> row.ver]

\* Another member of the organisation, with whatever client they use.
SaveElsewhere(payload) ==
    /\ ~row.gone
    /\ saves < MaxSaves
    /\ saves' = saves + 1
    /\ row' = Updated(payload)
    /\ UNCHANGED <<late, view, save, del, told, saved>>

\* The same for a delete; one of this page's own that its client gave up and
\* the API carries out later is the same step.
DeleteElsewhere ==
    /\ ~row.gone
    /\ row' = Deleted
    /\ UNCHANGED <<late, view, save, del, told, saved, saves>>

-----------------------------------------------------------------------------
(* The detail query *)

ServeGet(e) ==
    /\ get[e].stage = "sent"
    /\ get' = [get EXCEPT ![e] = IF row.gone THEN Missed
                                 ELSE [stage |-> "back", row |-> Seen]]
    /\ UNCHANGED <<server, form, touched, data, shown, save, del, told, saved, saves>>

DeliverWithoutReset(e) ==
    /\ Here(e)
    /\ get[e].stage = "back"
    /\ get' = [get EXCEPT ![e] = NoFetch]
    /\ shown' = [shown EXCEPT ![e] = "form"]
    /\ data' = [data EXCEPT ![e] = get[e].row]
    /\ form' = [form EXCEPT ![e] = IF data[e] = NoData THEN get[e].row.val ELSE @]
    /\ UNCHANGED <<server, touched, save, del, told, saved, saves>>

\* Structural sharing: the watcher runs when the row is not the cached one.
Deliver(e) ==
    /\ Here(e)
    /\ get[e].stage = "back"
    /\ get' = [get EXCEPT ![e] = NoFetch]
    /\ shown' = [shown EXCEPT ![e] = "form"]
    /\ data' = [data EXCEPT ![e] = get[e].row]
    /\ IF get[e].row = data[e]
       THEN UNCHANGED <<form, touched>>
       ELSE /\ form' = [form EXCEPT ![e] = get[e].row.val]
            /\ touched' = [touched EXCEPT ![e] = FALSE]
    /\ UNCHANGED <<server, save, del, told, saved, saves>>

\* The query is in error, and keeps its data.
GetEnds(e, p) ==
    /\ Here(e)
    /\ get' = [get EXCEPT ![e] = NoFetch]
    /\ shown' = [shown EXCEPT ![e] = p]
    /\ UNCHANGED <<server, form, touched, data, save, del, told, saved, saves>>

GetMissing(e) == get[e].stage = "missing" /\ GetEnds(e, "missing")

\* The last attempt met a 5xx or a 408, a broken connection or the timeout,
\* whatever the API did or is still to do with it.
GetFails(e) == get[e].stage # "idle" /\ GetEnds(e, "failed")

\* A fetch that begins without data is a pending query, not one in error.
Reloaded(e) == [shown EXCEPT ![e] = IF data[e] = NoData THEN "form" ELSE @]

\* The query is stale and the browser is back online, or the tab refetches.
Refetch(e) ==
    /\ Here(e)
    /\ get[e].stage = "idle"
    /\ get' = [get EXCEPT ![e] = Fetching]
    /\ shown' = Reloaded(e)
    /\ UNCHANGED <<server, form, touched, data, save, del, told, saved, saves>>

-----------------------------------------------------------------------------
(* The form *)

Type(e, v) ==
    /\ Here(e) /\ shown[e] = "form"
    /\ form[e] # v
    /\ form' = [form EXCEPT ![e] = v]
    /\ touched' = [touched EXCEPT ![e] = TRUE]
    /\ UNCHANGED <<server, data, get, shown, save, del, told, saved, saves>>

\* onSubmit, once the schema accepts the values; clean drops what is blank.  The
\* button is disabled while the mutation runs.
Submit(e) ==
    /\ Here(e) /\ shown[e] = "form"
    /\ save[e].stage = "idle"
    /\ saves < MaxSaves
    /\ saves' = saves + 1
    /\ told' = [told EXCEPT ![e] = "nothing"]
    /\ save' = [save EXCEPT ![e] =
                    [stage |-> "sent", ver |-> 0,
                     call |-> [payload |-> form[e], typed |-> touched[e], base |-> data[e]]]]
    /\ UNCHANGED <<server, view, del, saved>>

\* PATCH: COALESCE on the active row, 404 without one.
ServeSave(e) ==
    /\ save[e].stage = "sent"
    /\ IF row.gone
       THEN /\ save' = [save EXCEPT ![e].stage = "missing"]
            /\ UNCHANGED row
       ELSE /\ row' = Updated(save[e].call.payload)
            /\ save' = [save EXCEPT ![e].stage = "ok", ![e].ver = row'.ver]
    /\ UNCHANGED <<late, view, del, told, saved, saves>>

\* An answer that says nothing of the row (408, 5xx) or none: PATCH is not
\* retried.  A request that was not executed yet may still be.
SaveLost(e) ==
    /\ save[e].stage \in {"sent", "ok", "missing"}
    /\ late' = IF save[e].stage = "sent" THEN late \cup {save[e].call} ELSE late
    /\ save' = [save EXCEPT ![e].stage = "failed"]
    /\ UNCHANGED <<row, view, del, told, saved, saves>>

ServeLate(s) ==
    /\ s \in late
    /\ late' = late \ {s}
    /\ row' = IF row.gone THEN row ELSE Updated(s.payload)
    /\ UNCHANGED <<view, save, del, told, saved, saves>>

\* invalidateQueries: a fetch in flight is cancelled and begun again when the
\* query has data, and joined when it has none.
InvalidatedJoining(e) ==
    IF get[e].stage # "idle" THEN get ELSE [get EXCEPT ![e] = Fetching]

Invalidated(e) ==
    IF get[e].stage # "idle" /\ data[e] = NoData THEN get ELSE [get EXCEPT ![e] = Fetching]

\* The end of the mutation: onSuccess invalidates, the view tells a failure.
SaveSettles(e) ==
    /\ save[e].stage \in {"ok", "missing", "failed"}
    /\ save' = [save EXCEPT ![e] = IdleSave]
    /\ CASE save[e].stage = "ok" ->
               /\ get' = IF Here(e) THEN Invalidated(e) ELSE get
               /\ shown' = Reloaded(e)
               /\ saved' = [saved EXCEPT ![e] = IF data[e] = NoData THEN @ ELSE save[e].ver]
               /\ UNCHANGED told
         [] save[e].stage = "missing" ->
               /\ told' = [told EXCEPT ![e] = IF Here(e) THEN "not_found" ELSE @]
               /\ UNCHANGED <<get, shown, saved>>
         [] OTHER ->
               /\ told' = [told EXCEPT ![e] = IF Here(e) THEN "generic" ELSE @]
               /\ UNCHANGED <<get, shown, saved>>
    /\ UNCHANGED <<server, form, touched, data, del, saves>>

-----------------------------------------------------------------------------
(* Deleting *)

\* onDelete: the first click asks, the second sends.
ClickDelete(e) ==
    /\ Here(e)
    /\ del[e].stage \in {"idle", "armed"}
    /\ del' = [del EXCEPT ![e].stage = IF @ = "idle" THEN "armed" ELSE "sent"]
    /\ UNCHANGED <<server, view, save, told, saved, saves>>

\* DELETE: 204 when it deletes the row, 404 when it was deleted before.
ServeDelete(e) ==
    /\ del[e].stage = "sent"
    /\ row' = Deleted
    /\ del' = [del EXCEPT ![e].stage = IF row.gone THEN "missing" ELSE "ok"]
    /\ UNCHANGED <<late, view, save, told, saved, saves>>

\* The attempt ends in a retryable status or the connection breaks, executed
\* or not: ky waits and sends it again while it has attempts left.
AttemptFails(e) ==
    /\ del[e].stage \in {"sent", "ok", "missing"}
    /\ del' = [del EXCEPT ![e].stage = IF del[e].tries > 0 THEN "pause" ELSE "failed"]
    /\ UNCHANGED <<server, view, save, told, saved, saves>>

Retry(e) ==
    /\ del[e].stage = "pause"
    /\ del' = [del EXCEPT ![e] = [stage |-> "sent", tries |-> @.tries - 1]]
    /\ UNCHANGED <<server, view, save, told, saved, saves>>

\* ky's TimeoutError is not retried.
DeleteTimesOut(e) ==
    /\ del[e].stage \in {"sent", "ok", "missing"}
    /\ del' = [del EXCEPT ![e].stage = "failed"]
    /\ UNCHANGED <<server, view, save, told, saved, saves>>

OutcomeInOneWord(stage) == IF stage = "ok" THEN "left" ELSE "not_found"

Outcome(stage) ==
    CASE stage = "ok"      -> "left"
      [] stage = "missing" -> "not_found"
      [] OTHER             -> "generic"

\* Success removes the query and goes to the list; a failure disarms the button.
DeleteSettles(e) ==
    /\ del[e].stage \in {"ok", "missing", "failed"}
    /\ del' = [del EXCEPT ![e] = IdleDelete]
    /\ told' = [told EXCEPT ![e] = IF Here(e) THEN Outcome(del[e].stage) ELSE @]
    /\ UNCHANGED <<server, view, save, saved, saves>>

Next ==
    \/ \E e \in Editors :
          \/ ServeGet(e) \/ Deliver(e) \/ GetMissing(e) \/ GetFails(e) \/ Refetch(e)
          \/ \E v \in Inputs : Type(e, v)
          \/ Submit(e) \/ ServeSave(e) \/ SaveLost(e) \/ SaveSettles(e)
          \/ ClickDelete(e) \/ ServeDelete(e) \/ AttemptFails(e) \/ Retry(e)
          \/ DeleteTimesOut(e) \/ DeleteSettles(e)
    \/ \E s \in late : ServeLate(s)
    \/ \E v \in Texts : SaveElsewhere(v)
    \/ DeleteElsewhere

Spec == Init /\ [][Next]_vars

-----------------------------------------------------------------------------
(* Properties *)

\* The saves that may be executed next.
Running == {save[e].call : e \in {d \in Editors : save[d].stage = "sent"}} \cup late

\* A save changes a field its user did not type in only when somebody else
\* changed that field since the form was reset, or the form had no row yet:
\* sending every field is harmless to a row that stayed as it was, whatever
\* refetches, resets and late answers come between.
SavesOnlyEdits ==
    [][row'.val # row.val /\ saves' = saves =>
           \E s \in Running :
               /\ row' = Updated(s.payload)
               /\ s.typed \/ s.base = NoData \/ s.base.val # row.val]_vars

\* An editor that was told its save succeeded is never shown an older row
\* again, though a refetch was on its way when it saved.
OwnSaveShown ==
    [][\A e \in Editors :
           data'[e] # data[e] => data'[e].ver >= saved[e]]_vars

\* An editor taken back to the list, told by the answer to its save or delete
\* that the property is not there, or whose last fetch was answered 404, is
\* told the truth: the row is deleted, by it, by another, or by an attempt whose
\* answer was lost.  The view says the same after a fetch that failed in any
\* other way (PropertyFormView.vue:192): that may be untrue of a row that lives,
\* and nothing is said of it here.
GoneToldTruly ==
    \A e \in Editors :
        told[e] \in {"left", "not_found"} \/ shown[e] = "missing" => row.gone
=============================================================================
