--------------------------- MODULE Lockout_proofs ---------------------------
(***************************************************************************)
(* Lockout, for any finite set of concurrent logins, any schedule that     *)
(* grows and any bounds: no failure shares a count, a lock stops whoever   *)
(* arrives later, and five failures set one.                               *)
(***************************************************************************)
EXTENDS Lockout, FiniteSetTheorems, TLAPS

\* No password is compared after the request timeout, and a deadline is written
\* in the past.
Timed ==
    /\ lockedAt <= now
    /\ \A l \in Logins : /\ login[l].pc # "idle" => login[l].at <= now
                         /\ login[l].pc = "check" => InServer(l)

\* A login about to set a deadline sets one.
Deadlines == \A l \in Logins : login[l].pc = "lock" => login[l].until # NotLocked

\* What a login may assume of the lock: until the password is compared, that it
\* saw the deadline in force or arrived before that was written; afterwards,
\* that it arrived before it or that there is none.
Sound(l) ==
    /\ login[l].pc = "check" =>
           \/ login[l].seen = locked
           \/ login[l].at <= lockedAt
           \/ locked <= now
    /\ login[l].pc \in {"count", "reset"} => locked <= now \/ login[l].at <= lockedAt

IInv ==
    /\ TypeOK
    /\ Timed
    /\ Deadlines
    /\ \A l \in Logins : Sound(l)
    /\ GuessesCounted
    /\ FiveFailuresLock

-----------------------------------------------------------------------------
\* The schedule locks from the fifth failure on, and only from there.
LEMMA Windows ==
    ASSUME NEW n \in Nat
    PROVE  /\ progressive_lockout_window(n) \in Nat
           /\ progressive_lockout_window(n) = NotLocked <=> n <= 4
  BY DurationAssumption DEF progressive_lockout_window, NotLocked

\* The number of logins about to count, as one of them moves on: it goes down by
\* the one that leaves, up by the one that joins, and stays otherwise.
LEMMA Moves ==
    ASSUME TypeOK, NEW l \in Logins, NEW x \in Login,
           login' = [login EXCEPT ![l] = x]
    PROVE  /\ Cardinality(In("count")) \in Nat /\ Cardinality(In("count"))' \in Nat
           /\ login[l].pc = "count" /\ x.pc # "count" =>
                  Cardinality(In("count")) = Cardinality(In("count"))' + 1
           /\ login[l].pc # "count" /\ x.pc = "count" =>
                  Cardinality(In("count"))' = Cardinality(In("count")) + 1
           /\ (login[l].pc = "count" <=> x.pc = "count") =>
                  Cardinality(In("count"))' = Cardinality(In("count"))
<1> DEFINE C == In("count")
           rest == C \ {l}
<1>1. login'[l] = x /\ \A k \in Logins \ {l} : login'[k] = login[k]
  BY DEF TypeOK
<1>2. C' = IF x.pc = "count" THEN rest \cup {l} ELSE rest
  BY <1>1 DEF In
<1>3. C = IF login[l].pc = "count" THEN rest \cup {l} ELSE rest
  BY DEF In
<1>4. IsFiniteSet(rest) /\ l \notin rest
  <2>1. rest \in SUBSET Logins
    BY DEF In
  <2> QED
    BY <2>1, LoginsAssumption, FS_Subset
<1> HIDE DEF rest
<1>5. Cardinality(rest) \in Nat /\ Cardinality(rest \cup {l}) = Cardinality(rest) + 1
  BY <1>4, FS_CardinalityType, FS_AddElement
<1> HIDE DEF C
<1>6. /\ Cardinality(C) \in Nat /\ Cardinality(C') \in Nat
      /\ login[l].pc = "count" /\ x.pc # "count" => Cardinality(C) = Cardinality(C') + 1
      /\ login[l].pc # "count" /\ x.pc = "count" => Cardinality(C') = Cardinality(C) + 1
      /\ (login[l].pc = "count" <=> x.pc = "count") => Cardinality(C') = Cardinality(C)
  BY <1>2, <1>3, <1>5
<1> QED
  BY <1>6 DEF C

\* The same for a login that is over.
LEMMA Leaves ==
    ASSUME TypeOK, NEW l \in Logins, Ends(l)
    PROVE  /\ Cardinality(In("count")) \in Nat /\ Cardinality(In("count"))' \in Nat
           /\ login[l].pc = "count" =>
                  Cardinality(In("count")) = Cardinality(In("count"))' + 1
           /\ login[l].pc # "count" =>
                  Cardinality(In("count"))' = Cardinality(In("count"))
<1> DEFINE x == NoLogin
<1>1. x \in Login /\ x.pc # "count" /\ login' = [login EXCEPT ![l] = x]
  BY DEF Ends, NoLogin, Login
<1> HIDE DEF x
<1> QED
  BY <1>1, Moves

\* The account has failed before and nobody is at work on it.
LEMMA InitIInv == Init => IInv
<1> SUFFICES ASSUME Init PROVE IInv
  OBVIOUS
<1>1. NoLogin \in Login /\ NoLogin.pc = "idle"
  BY DEF NoLogin, Login
<1>2. TypeOK
  BY <1>1, BoundAssumption DEF Init, TypeOK, NotLocked
<1>3. Timed /\ Deadlines /\ \A l \in Logins : Sound(l)
  BY <1>1 DEF Init, Timed, Deadlines, Sound
<1>4. GuessesCounted
  <2>1. In("count") = {}
    BY <1>1 DEF Init, In
  <2> QED
    BY <2>1, <1>2, FS_EmptySet DEF Init, GuessesCounted, TypeOK
<1>5. FiveFailuresLock
  BY BoundAssumption DEF Init, FiveFailuresLock, NotLocked
<1> QED
  BY <1>2, <1>3, <1>4, <1>5 DEF IInv

-----------------------------------------------------------------------------
\* One login moves on at an instant: what the others may assume of the lock
\* stays true when the deadline is kept, is cleared or is written now.
LEMMA OthersSound ==
    ASSUME IInv, NEW l \in Logins, NEW x \in Login,
           login' = [login EXCEPT ![l] = x], now' = now,
           locked' \in Nat, lockedAt' \in {lockedAt, now},
           locked' = locked \/ locked' = NotLocked \/ lockedAt' = now,
           x.pc # "idle" => x.at <= now,
           x.pc = "check" => now <= x.at + RequestTimeout,
           x.pc = "lock" => x.until # NotLocked,
           Sound(l)'
    PROVE  Timed' /\ Deadlines' /\ \A k \in Logins : Sound(k)'
<1>1. /\ login'[l] = x /\ \A k \in Logins \ {l} : login'[k] = login[k]
      /\ \A k \in Logins : login[k] \in Login
      /\ {now, locked, lockedAt} \subseteq Nat /\ RequestTimeout \in Nat
  BY DurationAssumption DEF IInv, TypeOK
<1>2. Timed'
  BY <1>1 DEF IInv, Timed, InServer
<1>3. Deadlines'
  BY <1>1 DEF IInv, Deadlines
<1>4. ASSUME NEW k \in Logins \ {l} PROVE Sound(k)'
  <2>1. Sound(k) /\ login'[k] = login[k] /\ lockedAt <= now
    BY <1>1 DEF IInv, Timed
  <2>2. login[k].pc # "idle" => login[k].at <= now
    BY DEF IInv, Timed
  <2>3. login[k].at \in Nat
    BY <1>1 DEF Login
  <2> QED
    BY <1>1, <2>1, <2>2, <2>3 DEF Sound, NotLocked
<1> QED
  BY <1>2, <1>3, <1>4

\* With the count of attempts kept and nobody leaving the second statement, an
\* account that has its lock keeps it.
LEMMA LockStays ==
    ASSUME IInv, NEW l \in Logins, NEW x \in Login,
           login' = [login EXCEPT ![l] = x],
           UNCHANGED <<attempts, locked, unlocked>>,
           login[l].pc # "lock"
    PROVE  FiveFailuresLock'
<1>1. \A k \in Logins : login[k].pc = "lock" => login'[k].pc = "lock"
  BY DEF IInv, TypeOK
<1>2. In("lock")' = {} => In("lock") = {}
  BY <1>1 DEF In
<1> QED
  BY <1>2 DEF IInv, FiveFailuresLock

\* The steps of a login that write nothing.
LEMMA QuietSteps ==
    ASSUME IInv, NEW l \in Logins, Read(l) \/ RefuseLocked(l) \/ GiveUp(l)
    PROVE  IInv'
<1>1. PICK x \in Login :
        /\ login' = [login EXCEPT ![l] = x]
        /\ UNCHANGED <<now, attempts, locked, history>>
        /\ login[l].pc \notin {"count", "lock"}
        /\ x.pc \in {"idle", "check"}
        /\ x.pc = "check" => x.at = now /\ x.seen = locked
  <2> DEFINE row == [pc |-> "check", at |-> now, seen |-> locked,
                    had |-> attempts, until |-> NotLocked]
  <2>1. NoLogin \in Login /\ NoLogin.pc = "idle"
    BY DEF NoLogin, Login
  <2>2. row \in Login /\ row.pc = "check" /\ row.at = now /\ row.seen = locked
    BY DEF IInv, TypeOK, Login, NotLocked
  <2>3. Read(l) => login' = [login EXCEPT ![l] = row] /\ login[l].pc = "idle"
    BY DEF Read
  <2> HIDE DEF row
  <2>4. CASE Read(l)
    BY <2>2, <2>3, <2>4 DEF Read
  <2>5. CASE RefuseLocked(l) \/ GiveUp(l)
    BY <2>1, <2>5 DEF RefuseLocked, GiveUp, Ends
  <2> QED
    BY <2>4, <2>5
<1>2. TypeOK'
  BY <1>1 DEF IInv, TypeOK, history
<1>3. Sound(l)'
  BY <1>1 DEF IInv, TypeOK, Sound
<1>4. Timed' /\ Deadlines' /\ \A k \in Logins : Sound(k)'
  <2>1. {now, locked} \subseteq Nat /\ RequestTimeout \in Nat
    BY DurationAssumption DEF IInv, TypeOK
  <2>2. /\ x.pc # "idle" => x.at <= now
        /\ x.pc = "check" => now <= x.at + RequestTimeout
    BY <1>1, <2>1
  <2> QED
    BY <1>1, <1>3, <2>1, <2>2, OthersSound DEF history
<1>5. GuessesCounted'
  <2>1. Cardinality(In("count"))' = Cardinality(In("count"))
    <3>1. TypeOK
      BY DEF IInv
    <3> QED
      BY <1>1, <3>1, Moves
  <2> QED
    BY <1>1, <2>1 DEF IInv, GuessesCounted, history
<1>6. FiveFailuresLock'
  BY <1>1, LockStays DEF history
<1> QED
  BY <1>2, <1>4, <1>5, <1>6 DEF IInv

\* The comparison: a login goes on with what it may assume of the lock it saw.
LEMMA CompareStep ==
    ASSUME IInv, NEW l \in Logins, Compare(l)
    PROVE  IInv'
<1>1. PICK x \in Login :
        /\ login' = [login EXCEPT ![l] = x]
        /\ x.at = login[l].at
        /\ \/ x.pc = "reset" /\ tried' = tried
           \/ x.pc = "count" /\ tried' = tried + 1
  <2> DEFINE right == After(l, "reset", NotLocked)
             wrong == [login[l] EXCEPT !.pc = "count", !.seen = NotLocked]
  <2>1. /\ right \in Login /\ right.pc = "reset" /\ right.at = login[l].at
        /\ wrong \in Login /\ wrong.pc = "count" /\ wrong.at = login[l].at
    BY DEF IInv, TypeOK, Login, NotLocked, After
  <2>2. \/ login' = [login EXCEPT ![l] = right] /\ tried' = tried
        \/ login' = [login EXCEPT ![l] = wrong] /\ tried' = tried + 1
    BY DEF Compare, IInv, TypeOK
  <2> HIDE DEF right, wrong
  <2> QED
    BY <2>1, <2>2
<1>2. login[l] \in Login /\ {now, locked, lockedAt} \subseteq Nat
  BY DEF IInv, TypeOK
<1>3. /\ UNCHANGED <<now, attempts, locked, lockedAt, forgiven, uncounted, unlocked>>
      /\ login[l].pc = "check" /\ login[l].seen <= now
  BY DEF Compare
<1>4. TypeOK'
  BY <1>1, <1>2, <1>3 DEF IInv, TypeOK
<1>5. Sound(l)'
  <2>1. locked <= now \/ x.at <= lockedAt
    BY <1>1, <1>2, <1>3 DEF IInv, Sound
  <2>2. login'[l] = x
    BY <1>1 DEF IInv, TypeOK
  <2> QED
    BY <1>1, <1>2, <1>3, <2>1, <2>2 DEF Sound
<1>6. Timed' /\ Deadlines' /\ \A k \in Logins : Sound(k)'
  <2>1. x.at <= now /\ x.pc # "check" /\ x.pc # "lock"
    BY <1>1, <1>2, <1>3 DEF IInv, Timed
  <2> QED
    BY <1>1, <1>2, <1>3, <1>5, <2>1, OthersSound
<1>7. GuessesCounted'
  <2>1. /\ Cardinality(In("count")) \in Nat
        /\ x.pc = "reset" => Cardinality(In("count"))' = Cardinality(In("count"))
        /\ x.pc = "count" => Cardinality(In("count"))' = Cardinality(In("count")) + 1
    <3>1. TypeOK /\ login[l].pc # "count"
      BY <1>3 DEF IInv
    <3> QED
      BY <1>1, <3>1, Moves
  <2> QED
    BY <1>1, <1>3, <2>1 DEF IInv, GuessesCounted, TypeOK
<1>8. FiveFailuresLock'
  BY <1>1, <1>2, <1>3, LockStays
<1> QED
  BY <1>4, <1>6, <1>7, <1>8 DEF IInv

\* The first statement: the failure is counted, and from the fifth on its lock
\* is on its way.
LEMMA CountStep ==
    ASSUME IInv, NEW l \in Logins, Count(l)
    PROVE  IInv'
<1> DEFINE window == progressive_lockout_window(attempts + 1)
           locking == After(l, "lock", now + window)
           x == IF window = NotLocked THEN NoLogin ELSE locking
<1>1. /\ login[l].pc = "count" /\ attempts' = attempts + 1
      /\ login' = [login EXCEPT ![l] = x]
      /\ UNCHANGED <<now, locked, history>>
  BY DEF Count, CountAs, Ends
<1>2. /\ {now, locked, lockedAt, attempts} \subseteq Nat
      /\ login[l] \in Login
      /\ window \in Nat /\ (window = NotLocked <=> attempts + 1 <= 4)
  BY Windows DEF IInv, TypeOK
<1> HIDE DEF window
<1>3. /\ x \in Login /\ x.pc \in {"idle", "lock"}
      /\ x.pc = "lock" <=> window # NotLocked
      /\ x.pc = "lock" => x.at = login[l].at /\ x.until = now + window
  <2>1. NoLogin \in Login /\ NoLogin.pc = "idle"
    BY DEF NoLogin, Login
  <2>2. /\ locking \in Login /\ locking.pc = "lock"
        /\ locking.at = login[l].at /\ locking.until = now + window
    BY <1>2 DEF Login, After, NotLocked
  <2> HIDE DEF locking
  <2> QED
    BY <2>1, <2>2
<1> HIDE DEF x
<1>4. TypeOK'
  BY <1>1, <1>2, <1>3 DEF IInv, TypeOK, history
<1>5. Sound(l)'
  BY <1>1, <1>3 DEF IInv, TypeOK, Sound
<1>6. Timed' /\ Deadlines' /\ \A k \in Logins : Sound(k)'
  <2>1. x.pc # "idle" => x.at <= now
    BY <1>1, <1>3 DEF IInv, Timed
  <2>2. x.pc = "lock" => x.until # NotLocked
    BY <1>2, <1>3 DEF NotLocked
  <2> QED
    BY <1>1, <1>2, <1>3, <1>5, <2>1, <2>2, OthersSound DEF history
<1>7. GuessesCounted'
  <2>1. /\ Cardinality(In("count")) \in Nat /\ Cardinality(In("count"))' \in Nat
        /\ Cardinality(In("count")) = Cardinality(In("count"))' + 1
    <3>1. TypeOK
      BY DEF IInv
    <3> QED
      BY <1>1, <1>3, <3>1, Moves
  <2> QED
    BY <1>1, <2>1 DEF IInv, GuessesCounted, TypeOK, history
<1>8. FiveFailuresLock'
  <2>1. CASE window = NotLocked
    BY <1>1, <1>2, <2>1 DEF FiveFailuresLock
  <2>2. CASE window # NotLocked
    <3>1. login'[l].pc = "lock"
      BY <1>1, <1>3, <2>2 DEF IInv, TypeOK
    <3> QED
      BY <3>1 DEF FiveFailuresLock, In
  <2> QED
    BY <2>1, <2>2
<1> QED
  BY <1>4, <1>6, <1>7, <1>8 DEF IInv

\* A failure whose count is lost, or that is counted with nobody there to lock.
LEMMA CountFailsStep ==
    ASSUME IInv, NEW l \in Logins, CountFails(l)
    PROVE  IInv'
<1>1. /\ login[l].pc = "count" /\ login' = [login EXCEPT ![l] = NoLogin]
      /\ unlocked' = unlocked + 1
      /\ \/ attempts' = attempts + 1 /\ uncounted' = uncounted
         \/ attempts' = attempts /\ uncounted' = uncounted + 1
      /\ UNCHANGED <<now, locked, lockedAt, tried, forgiven>>
  BY DEF CountFails, Ends
<1>2. NoLogin \in Login /\ NoLogin.pc = "idle"
  BY DEF NoLogin, Login
<1>3. TypeOK'
  BY <1>1, <1>2 DEF IInv, TypeOK
<1>4. Sound(l)'
  BY <1>1, <1>2 DEF IInv, TypeOK, Sound
<1>5. Timed' /\ Deadlines' /\ \A k \in Logins : Sound(k)'
  <2>1. locked \in Nat
    BY DEF IInv, TypeOK
  <2> QED
    BY <1>1, <1>2, <1>4, <2>1, OthersSound
<1>6. GuessesCounted'
  <2>1. /\ Cardinality(In("count")) \in Nat /\ Cardinality(In("count"))' \in Nat
        /\ Cardinality(In("count")) = Cardinality(In("count"))' + 1
    BY <1>1, Leaves DEF IInv, Ends
  <2> QED
    BY <1>1, <2>1 DEF IInv, GuessesCounted, TypeOK
<1>7. FiveFailuresLock'
  BY <1>1 DEF IInv, TypeOK, FiveFailuresLock
<1> QED
  BY <1>3, <1>5, <1>6, <1>7 DEF IInv

\* The second statement, carried out or not.
LEMMA LockSteps ==
    ASSUME IInv, NEW l \in Logins, Lock(l) \/ LockFails(l)
    PROVE  IInv'
<1>1. /\ login[l].pc = "lock" /\ login' = [login EXCEPT ![l] = NoLogin]
      /\ \/ locked' = login[l].until /\ lockedAt' = now /\ unlocked' = unlocked
         \/ unlocked' = unlocked + 1 /\ UNCHANGED <<locked, lockedAt>>
      /\ UNCHANGED <<now, attempts, tried, forgiven, uncounted>>
  BY DEF Lock, LockFails, Ends
<1>2. /\ NoLogin \in Login /\ NoLogin.pc = "idle"
      /\ {locked, login[l].until} \subseteq Nat /\ login[l].until # NotLocked
  BY <1>1 DEF IInv, Deadlines, TypeOK, NoLogin, Login
<1>3. TypeOK'
  BY <1>1, <1>2 DEF IInv, TypeOK
<1>4. Sound(l)'
  BY <1>1, <1>2 DEF IInv, TypeOK, Sound
<1>5. Timed' /\ Deadlines' /\ \A k \in Logins : Sound(k)'
  BY <1>1, <1>2, <1>4, OthersSound
<1>6. GuessesCounted'
  <2>1. Cardinality(In("count"))' = Cardinality(In("count")) /\ Cardinality(In("count")) \in Nat
    BY <1>1, Leaves DEF IInv, Ends
  <2> QED
    BY <1>1, <2>1 DEF IInv, GuessesCounted, TypeOK
<1>7. FiveFailuresLock'
  BY <1>1, <1>2 DEF IInv, TypeOK, FiveFailuresLock
<1> QED
  BY <1>3, <1>5, <1>6, <1>7 DEF IInv

\* A success clears the counter and the lock.
LEMMA ResetStep ==
    ASSUME IInv, NEW l \in Logins, Reset(l)
    PROVE  IInv'
<1>1. /\ login[l].pc = "reset" /\ login' = [login EXCEPT ![l] = NoLogin]
      /\ forgiven' = forgiven + attempts /\ attempts' = 0 /\ locked' = NotLocked
      /\ UNCHANGED <<now, lockedAt, tried, uncounted, unlocked>>
  BY DEF Reset, Ends
<1>2. NoLogin \in Login /\ NoLogin.pc = "idle" /\ NotLocked \in Nat
  BY DEF NoLogin, Login, NotLocked
<1>3. TypeOK'
  BY <1>1, <1>2 DEF IInv, TypeOK
<1>4. Sound(l)'
  BY <1>1, <1>2 DEF IInv, TypeOK, Sound
<1>5. Timed' /\ Deadlines' /\ \A k \in Logins : Sound(k)'
  BY <1>1, <1>2, <1>4, OthersSound
<1>6. GuessesCounted'
  <2>1. Cardinality(In("count"))' = Cardinality(In("count")) /\ Cardinality(In("count")) \in Nat
    BY <1>1, Leaves DEF IInv, Ends
  <2> QED
    BY <1>1, <2>1 DEF IInv, GuessesCounted, TypeOK
<1>7. FiveFailuresLock'
  BY <1>1 DEF FiveFailuresLock
<1> QED
  BY <1>3, <1>5, <1>6, <1>7 DEF IInv

\* The clock: no comparison is left behind, and a deadline only gets nearer.
LEMMA TickStep ==
    ASSUME IInv, Tick
    PROVE  IInv'
<1>1. /\ now' = now + 1
      /\ \A l \in Logins : login[l].pc = "check" => now < login[l].at + RequestTimeout
      /\ UNCHANGED <<attempts, locked, login, history>>
  BY DEF Tick
<1>2. /\ {now, locked, lockedAt} \subseteq Nat /\ RequestTimeout \in Nat
      /\ \A l \in Logins : login[l].at \in Nat
  BY DurationAssumption DEF IInv, TypeOK, Login
<1>3. TypeOK'
  BY <1>1 DEF IInv, TypeOK, history
<1>4. Timed'
  BY <1>1, <1>2 DEF IInv, Timed, InServer, history
<1>5. Deadlines'
  BY <1>1 DEF IInv, Deadlines
<1>6. \A l \in Logins : Sound(l)'
  BY <1>1, <1>2 DEF IInv, Sound, history
<1>7. GuessesCounted' /\ FiveFailuresLock'
  BY <1>1 DEF IInv, GuessesCounted, FiveFailuresLock, In, history
<1> QED
  BY <1>3, <1>4, <1>5, <1>6, <1>7 DEF IInv

\* The invariant is inductive.
LEMMA NextIInv == IInv /\ [Next]_vars => IInv'
<1> SUFFICES ASSUME IInv, [Next]_vars PROVE IInv'
  OBVIOUS
<1>1. CASE UNCHANGED vars
  BY <1>1 DEF IInv, TypeOK, Timed, InServer, Deadlines, Sound, GuessesCounted,
              FiveFailuresLock, In, vars, history
<1>2. CASE Tick
  BY <1>2, TickStep
<1>3. ASSUME NEW l \in Logins,
             \/ Read(l) \/ RefuseLocked(l) \/ Compare(l)
             \/ Count(l) \/ CountFails(l) \/ Lock(l) \/ LockFails(l)
             \/ Reset(l) \/ GiveUp(l)
      PROVE  IInv'
  BY <1>3, QuietSteps, CompareStep, CountStep, CountFailsStep, LockSteps, ResetStep
<1> QED
  BY <1>1, <1>2, <1>3 DEF Next

-----------------------------------------------------------------------------
\* The invariant holds in every state of every behaviour.
THEOREM Invariant == Spec => []IInv
  BY InitIInv, NextIInv, PTL DEF Spec

\* Every variable keeps its type.
THEOREM TypeCorrect == Spec => []TypeOK
<1>1. IInv => TypeOK
  BY DEF IInv
<1> QED
  BY <1>1, Invariant, PTL

\* Every wrong password is accounted for once (auth/repo.rs:206).
THEOREM NoGuessIsFree == Spec => []GuessesCounted
<1>1. IInv => GuessesCounted
  BY DEF IInv
<1> QED
  BY <1>1, Invariant, PTL

\* A lock lets nobody through who arrives after it (auth/service.rs:182).
THEOREM LockStopsNewcomers == Spec => []LockHoldsForNewcomers
<1>1. IInv => LockHoldsForNewcomers
  <2> SUFFICES ASSUME IInv, now < locked
               PROVE  /\ \A l \in In("count") \cup In("reset") : login[l].at <= lockedAt
                      /\ \A l \in In("check") : login[l].seen <= now =>
                             login[l].at <= lockedAt /\ now <= lockedAt + RequestTimeout
    BY DEF LockHoldsForNewcomers
  <2>1. {now, locked, lockedAt, RequestTimeout} \subseteq Nat
    BY DurationAssumption DEF IInv, TypeOK
  <2>2. ASSUME NEW l \in In("count") \cup In("reset") PROVE login[l].at <= lockedAt
    BY <2>1, <2>2 DEF In, IInv, Sound
  <2>3. ASSUME NEW l \in In("check"), login[l].seen <= now
        PROVE  login[l].at <= lockedAt /\ now <= lockedAt + RequestTimeout
    <3>1. l \in Logins /\ login[l].pc = "check" /\ login[l].at \in Nat /\ login[l].seen \in Nat
      BY <2>3 DEF In, IInv, TypeOK, Login
    <3>2. login[l].at <= lockedAt /\ now <= login[l].at + RequestTimeout
      BY <2>1, <2>3, <3>1 DEF IInv, Sound, Timed, InServer
    <3> QED
      BY <2>1, <3>1, <3>2
  <2> QED
    BY <2>2, <2>3
<1> QED
  BY <1>1, Invariant, PTL

\* Five failures set a lock unless a write fails (auth/repo.rs:206-230).
THEOREM FiveFailuresAlwaysLock == Spec => []FiveFailuresLock
<1>1. IInv => FiveFailuresLock
  BY DEF IInv
<1> QED
  BY <1>1, Invariant, PTL

-----------------------------------------------------------------------------
(* How far a lock may be from the schedule *)

\* Only the upper bound holds: the second statement of a dropped login may be
\* carried out long after the count, and may put ten minutes in the place of an
\* hour (LockoutIsProgressive fails).

\* A deadline about to be written was computed when its failure was counted.
Planned ==
    \A l \in Logins : login[l].pc = "lock" => FromSchedule(login[l].until, now, tried)

\* More failures never lock for less.
LEMMA WindowsGrow ==
    ASSUME NEW n \in Nat, NEW m \in Nat, n <= m
    PROVE  /\ progressive_lockout_window(n) \in Nat
           /\ progressive_lockout_window(n) <= progressive_lockout_window(m)
<1>1. /\ TenMinutes \in Nat /\ Hour \in Nat /\ Day \in Nat /\ Week \in Nat
      /\ TenMinutes <= Hour /\ Hour <= Day /\ Day <= Week
  BY DurationAssumption
<1>2. CASE n <= 4
  BY <1>1, <1>2 DEF progressive_lockout_window, NotLocked
<1>3. CASE n > 4
  <2>1. /\ n <= 9 \/ ~(m <= 9)
        /\ n <= 19 \/ ~(m <= 19)
        /\ n <= 49 \/ ~(m <= 49)
        /\ ~(n <= 4) /\ ~(m <= 4)
    BY <1>3
  <2> QED
    BY <1>1, <2>1 DEF progressive_lockout_window
<1> QED
  BY <1>2, <1>3

\* A deadline from the schedule is no further away than the schedule allows, and
\* stays from the schedule as time passes and passwords are tried.
LEMMA Scheduled ==
    ASSUME NEW d, NEW n \in Nat, NEW m \in Nat, n <= m,
           NEW few \in Nat, NEW many \in Nat, few <= many, FromSchedule(d, n, few)
    PROVE  /\ d \in Nat /\ d <= n + progressive_lockout_window(few)
           /\ FromSchedule(d, m, many)
<1>1. PICK t \in 0 .. n, k \in 5 .. few : d = t + progressive_lockout_window(k)
  BY DEF FromSchedule
<1>2. /\ progressive_lockout_window(k) \in Nat /\ progressive_lockout_window(few) \in Nat
      /\ progressive_lockout_window(k) <= progressive_lockout_window(few)
  BY WindowsGrow
<1>3. t \in 0 .. m /\ k \in 5 .. many
  OBVIOUS
<1> QED
  BY <1>1, <1>2, <1>3 DEF FromSchedule

\* The numbers the steps below compare.
LEMMA Numbers ==
    ASSUME IInv
    PROVE  /\ {now, attempts, locked, lockedAt, tried, forgiven, uncounted} \subseteq Nat
           /\ \A l \in Logins : login[l].at \in Nat /\ login[l].until \in Nat
           /\ login \in [Logins -> Login]
  BY DEF IInv, TypeOK, Login

\* A lock that stays is still within the schedule when more passwords were tried.
LEMMA LengthKept ==
    ASSUME IInv, LockIsEarned, UNCHANGED lockedAt, locked' \in {locked, NotLocked},
           tried' \in Nat, tried <= tried'
    PROVE  LockIsEarned'
<1>1. {locked, lockedAt, tried} \subseteq Nat
  BY Numbers
<1>2. CASE lockedAt # 0 /\ locked # NotLocked
  <2>1. /\ FromSchedule(locked, lockedAt, tried')
        /\ locked <= lockedAt + progressive_lockout_window(tried)
    BY <1>1, <1>2, Scheduled DEF LockIsEarned
  <2>2. /\ {progressive_lockout_window(tried), progressive_lockout_window(tried')} \subseteq Nat
        /\ progressive_lockout_window(tried) <= progressive_lockout_window(tried')
    BY <1>1, WindowsGrow
  <2> QED
    BY <1>1, <2>1, <2>2 DEF LockIsEarned
<1> QED
  BY <1>2 DEF LockIsEarned

\* One login moves on with the lock as it was: only a deadline that is planned
\* now has to be looked at.
LEMMA PlannedKept ==
    ASSUME IInv, Planned, LockIsEarned, NEW l \in Logins, NEW x \in Login,
           login' = [login EXCEPT ![l] = x], UNCHANGED <<now, lockedAt>>,
           locked' \in {locked, NotLocked}, tried' \in Nat, tried <= tried',
           x.pc = "lock" => FromSchedule(x.until, now, tried')
    PROVE  Planned' /\ LockIsEarned'
<1>1. login'[l] = x /\ \A k \in Logins \ {l} : login'[k] = login[k]
  BY Numbers
<1>2. ASSUME NEW k \in Logins \ {l}, login[k].pc = "lock"
      PROVE  FromSchedule(login[k].until, now, tried')
  BY <1>2, Numbers, Scheduled DEF Planned
<1>3. Planned'
  BY <1>1, <1>2 DEF Planned
<1> QED
  BY <1>3, LengthKept

\* The steps of a login that leave the lock as it is or clear it.
LEMMA LengthSteps ==
    ASSUME IInv, Planned, LockIsEarned, NEW l \in Logins,
           \/ Read(l) \/ RefuseLocked(l) \/ Compare(l) \/ CountFails(l)
           \/ LockFails(l) \/ Reset(l) \/ GiveUp(l)
    PROVE  Planned' /\ LockIsEarned'
<1>1. NoLogin \in Login /\ NoLogin.pc = "idle" /\ NotLocked \in Nat
  BY DEF NoLogin, Login, NotLocked
<1>2. {now, attempts, locked, tried} \subseteq Nat /\ login \in [Logins -> Login]
  BY Numbers
<1>3. CASE Read(l)
  <2> DEFINE x == [pc |-> "check", at |-> now, seen |-> locked, had |-> attempts,
                   until |-> NotLocked]
  <2>1. x \in Login /\ x.pc # "lock"
    BY <1>1, <1>2 DEF Login
  <2>2. login' = [login EXCEPT ![l] = x] /\ UNCHANGED <<now, lockedAt, locked>>
    BY <1>3 DEF Read, history
  <2>3. tried' \in Nat /\ tried <= tried' /\ locked' \in {locked, NotLocked}
    BY <1>2, <1>3 DEF Read, history
  <2> HIDE DEF x
  <2> QED
    BY <2>1, <2>2, <2>3, PlannedKept
<1>4. CASE Compare(l)
  <2>1. PICK x \in Login : login' = [login EXCEPT ![l] = x] /\ x.pc # "lock"
    <3>1. login[l] \in Login
      BY <1>2
    <3>2. CASE login' = [login EXCEPT ![l] = After(l, "reset", NotLocked)]
      <4>1. After(l, "reset", NotLocked) \in Login /\ After(l, "reset", NotLocked).pc # "lock"
        BY <1>1, <3>1 DEF After, Login
      <4> QED
        BY <3>2, <4>1
    <3>3. CASE login' = [login EXCEPT ![l].pc = "count", ![l].seen = NotLocked]
      <4> DEFINE x == [login[l] EXCEPT !.pc = "count", !.seen = NotLocked]
      <4>1. x \in Login /\ x.pc # "lock"
        BY <1>1, <3>1 DEF Login
      <4>2. login' = [login EXCEPT ![l] = x]
        BY <1>2, <3>3
      <4> QED
        BY <4>1, <4>2
    <3> QED
      BY <1>4, <3>2, <3>3 DEF Compare
  <2>2. /\ UNCHANGED <<now, lockedAt, locked>>
        /\ tried' \in Nat /\ tried <= tried'
    BY <1>2, <1>4 DEF Compare
  <2> QED
    BY <2>1, <2>2, PlannedKept
<1>5. CASE RefuseLocked(l) \/ CountFails(l) \/ LockFails(l) \/ Reset(l) \/ GiveUp(l)
  <2>1. /\ login' = [login EXCEPT ![l] = NoLogin] /\ UNCHANGED <<now, lockedAt>>
        /\ locked' \in {locked, NotLocked} /\ tried' \in Nat /\ tried <= tried'
    BY <1>2, <1>5 DEF RefuseLocked, CountFails, LockFails, Reset, GiveUp, Ends, history
  <2> QED
    BY <1>1, <2>1, PlannedKept
<1> QED
  BY <1>3, <1>4, <1>5

\* A failure about to be counted is one of those tried.
LEMMA CountedWereTried ==
    ASSUME IInv, NEW l \in Logins, login[l].pc = "count"
    PROVE  attempts + 1 <= tried
<1>1. l \in In("count") /\ In("count") \in SUBSET Logins
  BY DEF In
<1>2. IsFiniteSet(In("count"))
  BY <1>1, LoginsAssumption, FS_Subset
<1>3. Cardinality(In("count")) \in Nat /\ Cardinality(In("count")) # 0
  BY <1>1, <1>2, FS_CardinalityType, FS_EmptySet
<1> QED
  BY <1>3, Numbers DEF IInv, GuessesCounted

\* Counting plans a deadline from the clock of now and the count as it is.
LEMMA CountPlans ==
    ASSUME IInv, Planned, LockIsEarned, NEW l \in Logins, Count(l)
    PROVE  Planned' /\ LockIsEarned'
<1> DEFINE window == progressive_lockout_window(attempts + 1)
<1>1. UNCHANGED <<now, lockedAt, locked, tried>> /\ login[l].pc = "count"
  BY DEF Count, CountAs, history
<1>2. locked' \in {locked, NotLocked} /\ tried' \in Nat /\ tried <= tried' /\ tried' = tried
  BY <1>1, Numbers
<1>3. CASE window = NotLocked
  <2>1. NoLogin \in Login /\ NoLogin.pc # "lock"
    BY DEF NoLogin, Login, NotLocked
  <2>2. login' = [login EXCEPT ![l] = NoLogin]
    BY <1>3 DEF Count, CountAs, Ends
  <2> QED
    BY <1>1, <1>2, <2>1, <2>2, PlannedKept
<1>4. CASE window # NotLocked
  <2> DEFINE x == After(l, "lock", now + window)
  <2>1. window \in Nat /\ attempts + 1 \in 5 .. tried
    BY <1>1, <1>4, Numbers, Windows, CountedWereTried
  <2>2. login' = [login EXCEPT ![l] = x]
    BY <1>4 DEF Count, CountAs
  <2>3. login[l].at \in Nat /\ now \in Nat /\ now \in 0 .. now
    BY Numbers
  <2>4. x \in Login /\ x.until = now + window
    BY <2>1, <2>3 DEF After, Login, NotLocked
  <2>5. FromSchedule(x.until, now, tried)
    BY <2>1, <2>3, <2>4 DEF FromSchedule
  <2> HIDE DEF window, x
  <2> QED
    BY <1>1, <1>2, <2>2, <2>4, <2>5, PlannedKept
<1> QED
  BY <1>3, <1>4

\* A lock is written as it was planned, however late.
LEMMA LockWrites ==
    ASSUME IInv, Planned, NEW l \in Logins, Lock(l)
    PROVE  Planned' /\ LockIsEarned'
<1>1. /\ login[l].pc = "lock" /\ login' = [login EXCEPT ![l] = NoLogin]
      /\ locked' = login[l].until /\ lockedAt' = now /\ UNCHANGED <<now, tried>>
  BY DEF Lock, Ends
<1>2. /\ FromSchedule(login[l].until, now, tried)
      /\ login[l].until <= now + progressive_lockout_window(tried)
  BY <1>1, Numbers, Scheduled DEF Planned
<1>3. Planned'
  BY <1>1, Numbers DEF Planned, NoLogin
<1>4. LockIsEarned'
  BY <1>1, <1>2 DEF LockIsEarned
<1> QED
  BY <1>3, <1>4

\* However the statements of concurrent failures interleave, whichever of them
\* fail and however late they are carried out, a lock in force is one the schedule
\* gives, for no more failures than there were.
THEOREM LocksFollowSchedule == Spec => []LockIsEarned
<1>1. Init => Planned /\ LockIsEarned
  BY DEF Init, Planned, LockIsEarned, NoLogin
<1>2. IInv /\ Planned /\ LockIsEarned /\ [Next]_vars => Planned' /\ LockIsEarned'
  <2> SUFFICES ASSUME IInv, Planned, LockIsEarned, [Next]_vars PROVE Planned' /\ LockIsEarned'
    OBVIOUS
  <2>1. CASE UNCHANGED vars
    BY <2>1 DEF Planned, LockIsEarned, vars, history
  <2>2. CASE Tick
    <3>1. /\ now' = now + 1 /\ UNCHANGED <<locked, login, lockedAt, tried>>
      BY <2>2 DEF Tick, history
    <3>2. {now, now + 1, tried} \subseteq Nat /\ now <= now + 1
      BY Numbers
    <3>3. ASSUME NEW k \in Logins, login[k].pc = "lock"
          PROVE  FromSchedule(login[k].until, now + 1, tried)
      <4>1. FromSchedule(login[k].until, now, tried)
        BY <3>3 DEF Planned
      <4> QED
        BY <3>2, <4>1, Scheduled
    <3>4. Planned'
      BY <3>1, <3>3 DEF Planned
    <3> QED
      BY <3>1, <3>4 DEF LockIsEarned
  <2>3. ASSUME NEW l \in Logins,
               \/ Read(l) \/ RefuseLocked(l) \/ Compare(l)
               \/ Count(l) \/ CountFails(l) \/ Lock(l) \/ LockFails(l)
               \/ Reset(l) \/ GiveUp(l)
        PROVE  Planned' /\ LockIsEarned'
    BY <2>3, LengthSteps, CountPlans, LockWrites
  <2> QED
    BY <2>1, <2>2, <2>3 DEF Next
<1> QED
  BY <1>1, <1>2, Invariant, PTL DEF Spec
=============================================================================
