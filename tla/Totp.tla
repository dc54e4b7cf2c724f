-------------------------------- MODULE Totp --------------------------------
(***************************************************************************)
(* The second factor of one user (apps/api/src/auth/totp/): enrolment in   *)
(* two requests, step-up with a recovery code, and removal.  Tables        *)
(* user_totp (one row per user) and user_totp_recovery_codes of migration  *)
(* 0002, read and written under READ COMMITTED by any number of requests   *)
(* at once, each of which may stop at any await.                           *)
(*                                                                         *)
(* A transaction that holds the lock of the row from its first statement   *)
(* on is one action.  Two are not: start_enrollment locks nothing when     *)
(* there is no row yet, and delete_enrollment deletes the codes before it  *)
(* reaches the row.  disabled_at is never written.                         *)
(***************************************************************************)
EXTENDS Naturals, FiniteSets

CONSTANTS
    Handlers,       \* requests of the user that run concurrently
    Secrets,        \* secrets the generator can draw, each at most once
    Batches,        \* batches of recovery codes it can draw, likewise
    CodesPerBatch,
    NoRow, NoSecret, NoBatch, NoCode

Codes == Batches \X (1..CodesPerBatch)
CodesOf(b) == {b} \X (1..CodesPerBatch)

Rows == [secret : Secrets, active : BOOLEAN, batch : Batches \cup {NoBatch}]

ASSUME CodesAssumption == CodesPerBatch \in Nat \ {0}
ASSUME KindsAssumption == Secrets \cap Batches = {}
ASSUME NullAssumption ==
    NoRow \notin Rows /\ NoSecret \notin Secrets /\ NoBatch \notin Batches /\ NoCode \notin Codes

VARIABLES
    row,        \* the user's row of user_totp
    live,       \* the recovery codes that are stored and unused
    handler,    \* where each request stands, with its local variables
    (* history *)
    drawn,      \* the secrets and batches generated so far
    burned,     \* recovery codes marked used
    grants      \* how often each code was accepted for a step-up

vars == <<row, live, handler, drawn, burned, grants>>

\* Named for the next await.
Steps == {"idle",
          "insert",    \* start_enrollment saw no row
          "promote",   \* confirm_enrollment verified a code of the pending secret
          "list",      \* verify_code saw an active row, and no TOTP code matched
          "mark",      \* a recovery code matched one of those listed
          "disable",   \* disable verified a code of the active secret
          "delete"}    \* its transaction has deleted the codes

Handler == [pc : Steps,
            secret : Secrets \cup {NoSecret},
            code : Codes \cup {NoCode},
            doomed : SUBSET Codes]     \* codes deleted but not committed, and locked

NoHandler == [pc |-> "idle", secret |-> NoSecret, code |-> NoCode, doomed |-> {}]

TypeOK ==
    /\ row \in Rows \cup {NoRow}
    /\ live \subseteq Codes
    /\ handler \in [Handlers -> Handler]
    /\ drawn \subseteq Secrets \cup Batches
    /\ burned \subseteq Codes
    /\ grants \in [Codes -> Nat]

Init ==
    /\ row = NoRow
    /\ live = {}
    /\ handler = [h \in Handlers |-> NoHandler]
    /\ drawn = {} /\ burned = {}
    /\ grants = [c \in Codes |-> 0]

-----------------------------------------------------------------------------
Pending == row # NoRow /\ ~row.active     \* enrolled_at IS NULL
Active == row # NoRow /\ row.active

Goto(h, where) == handler' = [handler EXCEPT ![h].pc = where]
Ends(h) == handler' = [handler EXCEPT ![h] = NoHandler]

\* Codes another transaction has deleted: whoever writes them waits for it.
Locked(h) == UNION {handler[k].doomed : k \in Handlers \ {h}}

PendingWithoutSecret(s) == [secret |-> NoSecret, active |-> FALSE, batch |-> NoBatch]

PendingRow(s) == [secret |-> s, active |-> FALSE, batch |-> NoBatch]

\* upsert_pending_enrollment over a pending row, locked FOR UPDATE.  An active
\* one is refused without a change.
StartReplace(h) ==
    /\ handler[h].pc = "idle"
    /\ Pending
    /\ \E s \in Secrets \ drawn :
          /\ row' = PendingRow(s)
          /\ drawn' = drawn \cup {s}
    /\ UNCHANGED <<live, handler, burned, grants>>

\* The SELECT .. FOR UPDATE found no row, and so locked none.
StartNoRow(h) ==
    /\ handler[h].pc = "idle"
    /\ row = NoRow
    /\ \E s \in Secrets \ drawn :
          /\ handler' = [handler EXCEPT ![h].pc = "insert", ![h].secret = s]
          /\ drawn' = drawn \cup {s}
    /\ UNCHANGED <<row, live, burned, grants>>

\* INSERT .. ON CONFLICT (user_id) DO UPDATE
StartInsert(h) ==
    /\ handler[h].pc = "insert"
    /\ row' = PendingRow(handler[h].secret)
    /\ Ends(h)
    /\ UNCHANGED <<live, drawn, burned, grants>>

\* fetch_pending_secret, and a code of that secret.
ConfirmFetch(h) ==
    /\ handler[h].pc = "idle"
    /\ Pending
    /\ Goto(h, "promote")
    /\ UNCHANGED <<row, live, drawn, burned, grants>>

\* confirm_enrollment: promote the pending row, wipe the codes of any earlier
\* enrolment and store the new ones, all in one transaction.
Activate(h, wiped) ==
    /\ handler[h].pc = "promote"
    /\ live \cap Locked(h) = {}
    /\ \E b \in Batches \ drawn :
          /\ row' = [row EXCEPT !.active = TRUE, !.batch = b]
          /\ live' = (live \ wiped) \cup CodesOf(b)
          /\ drawn' = drawn \cup {b}
    /\ Ends(h)
    /\ UNCHANGED <<burned, grants>>

ConfirmUnwiped(h) == Pending /\ Activate(h, {})
ConfirmAgain(h) == row # NoRow /\ Activate(h, live)

Confirm(h) == Pending /\ Activate(h, live)

\* The UPDATE matched no row: TotpNotEnrolled.
ConfirmTooLate(h) ==
    /\ handler[h].pc = "promote"
    /\ ~Pending
    /\ Ends(h)
    /\ UNCHANGED <<row, live, drawn, burned, grants>>

\* verify_code: fetch_active_secret; a TOTP code would be accepted here.
VerifyFetch(h) ==
    /\ handler[h].pc = "idle"
    /\ Active
    /\ Goto(h, "list")
    /\ UNCHANGED <<row, live, drawn, burned, grants>>

\* list_unused_recovery_codes, one of which is the code submitted.
List(h) ==
    /\ handler[h].pc = "list"
    /\ \E c \in live : handler' = [handler EXCEPT ![h].pc = "mark", ![h].code = c]
    /\ UNCHANGED <<row, live, drawn, burned, grants>>

MarkUnconditional(h) ==
    /\ handler[h].pc = "mark"
    /\ handler[h].code \notin Locked(h)
    /\ live' = live \ {handler[h].code}
    /\ burned' = burned \cup {handler[h].code}
    /\ grants' = [grants EXCEPT ![handler[h].code] = @ + 1]
    /\ Ends(h)
    /\ UNCHANGED <<row, drawn>>

\* mark_recovery_code_used: UPDATE .. WHERE id = .. AND used_at IS NULL, which
\* grants the step-up only if it changed the row.
Mark(h) ==
    /\ handler[h].pc = "mark"
    /\ handler[h].code \notin Locked(h)
    /\ IF handler[h].code \in live
       THEN /\ live' = live \ {handler[h].code}
            /\ burned' = burned \cup {handler[h].code}
            /\ grants' = [grants EXCEPT ![handler[h].code] = @ + 1]
       ELSE UNCHANGED <<live, burned, grants>>
    /\ Ends(h)
    /\ UNCHANGED <<row, drawn>>

\* The UPDATE was carried out and its answer lost.
MarkFails(h) ==
    /\ handler[h].pc = "mark"
    /\ handler[h].code \in live \ Locked(h)
    /\ live' = live \ {handler[h].code}
    /\ burned' = burned \cup {handler[h].code}
    /\ Ends(h)
    /\ UNCHANGED <<row, drawn, grants>>

\* disable: fetch_active_secret, and a code of that secret.
DisableFetch(h) ==
    /\ handler[h].pc = "idle"
    /\ Active
    /\ Goto(h, "disable")
    /\ UNCHANGED <<row, live, drawn, burned, grants>>

\* delete_enrollment: the codes first, whichever are stored by now ...
DeleteCodes(h) ==
    /\ handler[h].pc = "disable"
    /\ live \cap Locked(h) = {}
    /\ handler' = [handler EXCEPT ![h].pc = "delete", ![h].doomed = live]
    /\ UNCHANGED <<row, live, drawn, burned, grants>>

\* ... then the row, whatever it holds by now, and COMMIT.
DeleteRow(h) ==
    /\ handler[h].pc = "delete"
    /\ row' = NoRow
    /\ live' = live \ handler[h].doomed
    /\ Ends(h)
    /\ UNCHANGED <<drawn, burned, grants>>

\* No code matched, or the request failed or was dropped: any transaction of
\* its own rolls back.
GiveUp(h) ==
    /\ handler[h].pc # "idle"
    /\ Ends(h)
    /\ UNCHANGED <<row, live, drawn, burned, grants>>

Next ==
    \E h \in Handlers :
        \/ StartReplace(h) \/ StartNoRow(h) \/ StartInsert(h)
        \/ ConfirmFetch(h) \/ Confirm(h) \/ ConfirmTooLate(h)
        \/ VerifyFetch(h) \/ List(h) \/ Mark(h) \/ MarkFails(h)
        \/ DisableFetch(h) \/ DeleteCodes(h) \/ DeleteRow(h)
        \/ GiveUp(h)

Spec == Init /\ [][Next]_vars

-----------------------------------------------------------------------------
(* Properties *)

\* A recovery code steps up at most one session: two requests that matched the
\* same row race on its UPDATE and one of them loses.
CodeUsedOnce == \A c \in Codes : grants[c] <= 1

\* The unused codes of an active enrolment are exactly those of the batch it
\* was confirmed with, less the used ones: no removal, restart or second
\* confirmation in between leaves it with old codes or without its own.
ActiveHasItsCodes == Active => live = CodesOf(row.batch) \ burned

\* The codes shown once stay the codes of the enrolment: an active row is never
\* turned into another active row, so a second confirmation changes nothing.
ActiveIsStable == [][Active /\ Active' => row' = row]_vars

\* Whatever the requests race for, the two tables are a SecondFactor: a factor
\* is switched on only from off, with a batch drawn for it and no other code
\* beside it, and no code comes back or serves again.
Factor == INSTANCE SecondFactor WITH
    factor <- IF Active THEN [secret |-> row.secret, batch |-> row.batch] ELSE NoRow,
    unused <- live, spent <- burned, granted <- grants, issued <- drawn \cap Batches,
    Off <- NoRow
ImplementsSecondFactor == Factor!FactorSpec

\* totp/repo.rs: "If the user already has an active 2FA row, returns
\* TotpAlreadyEnrolled without mutating anything".  Only a removal ends one.
ActiveUntilDisabled == [][Active /\ ~Active' => row' = NoRow]_vars
=============================================================================
