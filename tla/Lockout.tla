------------------------------ MODULE Lockout -------------------------------
(***************************************************************************)
(* The progressive lockout of one account (login_with_password in          *)
(* apps/api/src/auth/service.rs over record_failed_login and               *)
(* reset_failed_logins in auth/repo.rs).  A failure is two statements, one *)
(* that counts it and one that sets the deadline, each its own             *)
(* transaction; a login decides on the row it read first.  Any number of   *)
(* logins of the account run at once and each may stop at any await; the   *)
(* statement it was waiting for may then still be carried out, at any time *)
(* later.                                                                  *)
(***************************************************************************)
EXTENDS Naturals, FiniteSets

CONSTANTS
    Logins,          \* login requests that run concurrently
    TenMinutes,      \* the lengths of a lockout, in ticks of the clock
    Hour,
    Day,
    Week,
    RequestTimeout,
    Starts,          \* failures the account has gathered so far
    MaxTried,        \* bound: wrong passwords tried
    MaxTime          \* bound: the clock stops there

ASSUME DurationAssumption ==
    /\ {TenMinutes, Hour, Day, Week, RequestTimeout} \subseteq Nat \ {0}
    /\ TenMinutes < Hour /\ Hour < Day /\ Day < Week
ASSUME BoundAssumption == Starts \subseteq Nat /\ MaxTried \in Nat /\ MaxTime \in Nat
ASSUME LoginsAssumption == IsFiniteSet(Logins)

VARIABLES
    now,         \* wall clock
    attempts,    \* users.failed_login_attempts
    locked,      \* users.locked_until
    login,       \* where each login stands, with its local variables
    (* history *)
    lockedAt,    \* when the deadline in locked_until was written
    tried,       \* wrong passwords compared, those before the start included
    forgiven,    \* failures a successful login cleared
    uncounted,   \* failures that were never counted: the write failed
    unlocked     \* failures that may have set no deadline: a write failed, or
                 \* the request was gone when it was counted

history == <<lockedAt, tried, forgiven, uncounted, unlocked>>
vars == <<now, attempts, locked, login, history>>

NotLocked == 0     \* locked_until IS NULL

\* Named for the next await: the row is read ("check"), the failure counted
\* ("count") and the deadline set ("lock"), or the success recorded ("reset").
\* The last three are statements: Postgres goes on with one whose request is
\* gone.
Login == [pc : {"idle", "check", "count", "lock", "reset"},
          at : Nat,          \* when it arrived
          seen : Nat,        \* locked_until as it read it
          had : Nat,         \* failed_login_attempts as it read it
          until : Nat]       \* the deadline it is about to write

NoLogin == [pc |-> "idle", at |-> 0, seen |-> 0, had |-> 0, until |-> 0]

TypeOK ==
    /\ {now, attempts, locked, lockedAt, tried, forgiven, uncounted, unlocked} \subseteq Nat
    /\ login \in [Logins -> Login]

\* The account has failed before; a deadline, if it earned one, has passed.
Init ==
    /\ now = 1
    /\ attempts \in Starts
    /\ locked = IF attempts < 5 THEN NotLocked ELSE now
    /\ login = [l \in Logins |-> NoLogin]
    /\ lockedAt = 0
    /\ tried = attempts
    /\ forgiven = 0 /\ uncounted = 0 /\ unlocked = 0

-----------------------------------------------------------------------------
\* The schedule; NotLocked for a count that does not lock.
WindowFromSix(count) ==
    IF count <= 5 THEN NotLocked
    ELSE IF count <= 9 THEN TenMinutes
    ELSE IF count <= 19 THEN Hour
    ELSE IF count <= 49 THEN Day
    ELSE Week

progressive_lockout_window(count) ==
    IF count <= 4 THEN NotLocked
    ELSE IF count <= 9 THEN TenMinutes
    ELSE IF count <= 19 THEN Hour
    ELSE IF count <= 49 THEN Day
    ELSE Week

\* A login past the comparison keeps nothing of the row.
After(l, step, deadline) ==
    [pc |-> step, at |-> login[l].at, seen |-> NotLocked, had |-> 0, until |-> deadline]

Ends(l) == login' = [login EXCEPT ![l] = NoLogin]

\* The timeout layer has not dropped it yet.
InServer(l) == now <= login[l].at + RequestTimeout

\* find_user_by_email
Read(l) ==
    /\ login[l].pc = "idle"
    /\ login' = [login EXCEPT ![l] = [pc |-> "check", at |-> now, seen |-> locked,
                                           had |-> attempts, until |-> NotLocked]]
    /\ UNCHANGED <<now, attempts, locked, history>>

\* The lock in force is answered like a wrong password, and not counted.
RefuseLocked(l) ==
    /\ login[l].pc = "check"
    /\ login[l].seen > now
    /\ Ends(l)
    /\ UNCHANGED <<now, attempts, locked, history>>

CompareUnchecked(l) ==
    /\ login[l].pc = "check"
    /\ \/ /\ login' = [login EXCEPT ![l] = After(l, "reset", NotLocked)]
          /\ UNCHANGED tried
       \/ /\ tried < MaxTried
          /\ login' = [login EXCEPT ![l].pc = "count", ![l].seen = NotLocked]
          /\ tried' = tried + 1
    /\ UNCHANGED <<now, attempts, locked, lockedAt, forgiven, uncounted, unlocked>>

\* verify_password: it matches or it does not.
Compare(l) ==
    /\ login[l].pc = "check"
    /\ login[l].seen <= now
    /\ \/ /\ login' = [login EXCEPT ![l] = After(l, "reset", NotLocked)]
          /\ UNCHANGED tried
       \/ /\ tried < MaxTried
          /\ login' = [login EXCEPT ![l].pc = "count", ![l].seen = NotLocked]
          /\ tried' = tried + 1
    /\ UNCHANGED <<now, attempts, locked, lockedAt, forgiven, uncounted, unlocked>>

\* record_failed_login, first statement; the deadline is computed from the
\* clock of the server as soon as the count is back.
CountAs(l, count) ==
    /\ login[l].pc = "count"
    /\ InServer(l)
    /\ attempts' = count
    /\ IF progressive_lockout_window(count) = NotLocked THEN Ends(l)
       ELSE login' = [login EXCEPT ![l] = After(l, "lock",
                         now + progressive_lockout_window(count))]
    /\ UNCHANGED <<now, locked, history>>

CountFromSnapshot(l) == CountAs(l, login[l].had + 1)

Count(l) == CountAs(l, attempts + 1)

\* An error here is swallowed, the failure counted or not.  Nor does a deadline
\* follow when the request is gone before the count is back.
CountFails(l) ==
    /\ login[l].pc = "count"
    /\ \/ attempts' = attempts + 1 /\ UNCHANGED <<uncounted>>
       \/ uncounted' = uncounted + 1 /\ UNCHANGED attempts
    /\ unlocked' = unlocked + 1
    /\ Ends(l)
    /\ UNCHANGED <<now, locked, lockedAt, tried, forgiven>>

LockOnTop(l) ==
    /\ login[l].pc = "lock"
    /\ locked' = login[l].until + (IF locked > now THEN locked - now ELSE 0)
    /\ lockedAt' = now
    /\ Ends(l)
    /\ UNCHANGED <<now, attempts, tried, forgiven, uncounted, unlocked>>

\* record_failed_login, second statement: the deadline is the one computed
\* before, however late the statement is carried out.
Lock(l) ==
    /\ login[l].pc = "lock"
    /\ locked' = login[l].until
    /\ lockedAt' = now
    /\ Ends(l)
    /\ UNCHANGED <<now, attempts, tried, forgiven, uncounted, unlocked>>

LockFails(l) ==
    /\ login[l].pc = "lock"
    /\ unlocked' = unlocked + 1
    /\ Ends(l)
    /\ UNCHANGED <<now, attempts, locked, lockedAt, tried, forgiven, uncounted>>

ResetByOne(l) ==
    /\ login[l].pc = "reset"
    /\ forgiven' = forgiven + 1
    /\ attempts' = attempts - 1
    /\ locked' = NotLocked
    /\ Ends(l)
    /\ UNCHANGED <<now, lockedAt, tried, uncounted, unlocked>>

\* reset_failed_logins; the session is created next (Sessions!Create).
Reset(l) ==
    /\ login[l].pc = "reset"
    /\ forgiven' = forgiven + attempts
    /\ attempts' = 0
    /\ locked' = NotLocked
    /\ Ends(l)
    /\ UNCHANGED <<now, lockedAt, tried, uncounted, unlocked>>

\* The read or the reset fails, or the request is dropped there.
GiveUp(l) ==
    /\ login[l].pc \in {"check", "reset"}
    /\ Ends(l)
    /\ UNCHANGED <<now, attempts, locked, history>>

\* No password is compared for a login that has been dropped.
Tick ==
    /\ now < MaxTime
    /\ \A l \in Logins : login[l].pc = "check" => now < login[l].at + RequestTimeout
    /\ now' = now + 1
    /\ UNCHANGED <<attempts, locked, login, history>>

Next ==
    \/ \E l \in Logins :
          \/ Read(l) \/ RefuseLocked(l) \/ Compare(l)
          \/ Count(l) \/ CountFails(l) \/ Lock(l) \/ LockFails(l)
          \/ Reset(l) \/ GiveUp(l)
    \/ Tick

Spec == Init /\ [][Next]_vars

-----------------------------------------------------------------------------
(* Properties *)

In(step) == {l \in Logins : login[l].pc = step}

\* Every wrong password is in the counter, on its way to it, forgiven by a
\* success or lost to a failed write: logins that fail at the same time never
\* share a count.
GuessesCounted ==
    tried = attempts + Cardinality(In("count")) + forgiven + uncounted

\* A lock stops every login that arrives after it was written: one that gets or
\* got past the check under it had read the row before, and the check itself is
\* at most a request timeout later than the lock.
LockHoldsForNewcomers ==
    now < locked =>
        /\ \A l \in In("count") \cup In("reset") : login[l].at <= lockedAt
        /\ \A l \in In("check") : login[l].seen <= now =>
               login[l].at <= lockedAt /\ now <= lockedAt + RequestTimeout

\* Five failures set a deadline, unless a write failed or its request was
\* dropped before it: with no deadline left to write, an account at five
\* failures or more has one, whatever a successful login cleared in between.
FiveFailuresLock ==
    attempts >= 5 /\ In("lock") = {} /\ unlocked = 0 => locked # NotLocked

\* A deadline the schedule gives for one of so many failures, from a moment that
\* is past.
FromSchedule(deadline, moment, failures) ==
    \E t \in 0 .. moment, n \in 5 .. failures :
        deadline = t + progressive_lockout_window(n)

\* A lock is the schedule's for a failure that was counted before it was written; so
\* it never outlasts what the schedule gives for all the wrong passwords ever tried:
\* nine of them lock for ten minutes at most, however they overlap.
LockIsEarned ==
    lockedAt # 0 /\ locked # NotLocked =>
        /\ FromSchedule(locked, lockedAt, tried)
        /\ locked <= lockedAt + progressive_lockout_window(tried)

\* repo.rs: "apply a progressive lockout when the user has failed too many
\* consecutive attempts".  A failure never leaves the account with an earlier
\* deadline than the one it had.
LockoutIsProgressive == [][locked' # NotLocked => locked' >= locked]_vars
=============================================================================
