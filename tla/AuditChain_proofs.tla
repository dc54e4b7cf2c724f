-------------------------- MODULE AuditChain_proofs --------------------------
(***************************************************************************)
(* For any set of writers, any set of operations and any pool: the rows    *)
(* form one unbroken chain, each hash commits to the whole history before  *)
(* it, and the trail implements AuditLog.                                  *)
(***************************************************************************)
EXTENDS AuditChain, FiniteSetTheorems, TLAPS

\* The advisory lock belongs to the one writer between TakeLock and COMMIT.
LockExclusive == \A w \in Writers : pc[w] \in Holding <=> lock = w

\* What was read under the lock is still true when the row is inserted.
ReadStillCurrent == \A w \in Writers : pc[w] \in {"read", "inserted"} => prev[w] = LastHash

\* Every id in use is older than the sequence, and older than an inserted row.
IdsIncrease ==
    /\ \A i \in 1..Len(log) : log[i].id < nextId
    /\ \A w \in Writers : pc[w] = "inserted" =>
          /\ row[w] < nextId
          /\ \A i \in 1..Len(log) : log[i].id < row[w]

\* An event is in the hands of one writer or in the log, never in both.
EventsOnce ==
    /\ \A w \in Writers : pc[w] # "idle" => /\ event[w] \in performed
                                            /\ event[w] \in Events
    /\ \A v, w \in Writers : v # w /\ pc[v] # "idle" /\ pc[w] # "idle" => event[v] # event[w]
    /\ \A w \in Writers : pc[w] # "idle" => \A i \in 1..Len(log) : log[i].event # event[w]
    /\ \A i \in 1..Len(log) : log[i].event \in performed

IInv ==
    /\ TypeOK
    /\ LockExclusive
    /\ ReadStillCurrent
    /\ IdsIncrease
    /\ EventsOnce
    /\ ChainIntact
    /\ HashCommitsToHistory

-----------------------------------------------------------------------------
\* What a committed row adds to the log.
LEMMA AppendRow ==
    ASSUME NEW S, NEW s \in Seq(S), NEW x \in S
    PROVE  /\ Append(s, x) \in Seq(S)
           /\ Len(Append(s, x)) = Len(s) + 1
           /\ \A i \in 1..Len(s) : Append(s, x)[i] = s[i]
           /\ Append(s, x)[Len(s) + 1] = x
OBVIOUS

\* What TypeOK says of each committed row.
LEMMA RowTypes ==
    ASSUME TypeOK
    PROVE  /\ Len(log) \in Nat
           /\ \A i \in 1..Len(log) : log[i].id \in Nat /\ log[i].hash \in Seq(Events)
<1>1. Len(log) \in Nat /\ \A i \in 1..Len(log) : log[i] \in Rows
    BY DEF TypeOK
<1>. QED
    BY <1>1 DEF Rows

\* The row a writer is about to commit is a row of the table.
LEMMA NewRowType ==
    ASSUME TypeOK, EventsOnce, NEW w \in Writers, pc[w] = "inserted"
    PROVE  NewRow(w) \in Rows
<1>1. event[w] \in Events
    BY DEF EventsOnce
<1>2. prev[w] \in Seq(Events) /\ row[w] \in Nat
    BY DEF TypeOK
<1>3. Append(prev[w], event[w]) \in Seq(Events)
    BY <1>1, <1>2
<1>. QED
    BY <1>1, <1>2, <1>3 DEF NewRow, Rows, chain_hash

\* Giving a transaction up or finishing it leaves well-typed variables.
LEMMA ResetType ==
    ASSUME TypeOK, NEW w \in Writers, Reset(w)
    PROVE  /\ lock' \in Writers \cup {NoWriter}
           /\ pc' \in [Writers -> Steps]
           /\ event' \in [Writers -> Events \cup {NoEvent}]
           /\ prev' \in [Writers -> Seq(Events)]
           /\ row' \in [Writers -> Nat]
<1>1. Genesis \in Seq(Events)
    BY DEF Genesis
<1>. QED
    BY <1>1 DEF TypeOK, Reset, Free, Steps

\* The advisory lock is exclusive again after a transaction ended.
LEMMA ResetLock ==
    ASSUME TypeOK, LockExclusive, NEW w \in Writers, Reset(w)
    PROVE  LockExclusive'
BY NullAssumption DEF TypeOK, LockExclusive, Reset, Free, Holding

-----------------------------------------------------------------------------
\* The empty table satisfies the inductive invariant.
LEMMA InitIInv == Init => IInv
<1>. SUFFICES ASSUME Init PROVE IInv
    OBVIOUS
<1>1. TypeOK
    BY DEF Init, TypeOK, Steps, Genesis
<1>2. LockExclusive
    BY NullAssumption DEF Init, LockExclusive, Holding
<1>3. Len(log) = 0
    BY DEF Init
<1>. QED
    BY <1>1, <1>2, <1>3 DEF Init, IInv, ReadStillCurrent, IdsIncrease, EventsOnce, ChainIntact,
                            HashCommitsToHistory

\* Every step of every writer, an abort included, preserves it.
LEMMA NextIInv == IInv /\ [Next]_vars => IInv'
<1>. SUFFICES ASSUME IInv, [Next]_vars PROVE IInv'
    OBVIOUS
<1>. USE DEF IInv
<1>1. ASSUME NEW w \in Writers, NEW e \in Events, CommitOperation(w, e) PROVE IInv'
    <2>1. TypeOK'
        BY <1>1 DEF TypeOK, CommitOperation, Steps
    <2>2. LockExclusive' /\ ReadStillCurrent' /\ IdsIncrease'
        BY <1>1 DEF TypeOK, CommitOperation, LockExclusive, ReadStillCurrent, IdsIncrease, Holding,
                    LastHash
    <2>3. EventsOnce'
        BY <1>1 DEF TypeOK, CommitOperation, EventsOnce
    <2>4. ChainIntact' /\ HashCommitsToHistory'
        BY <1>1 DEF CommitOperation, ChainIntact, HashCommitsToHistory
    <2>. QED
        BY <2>1, <2>2, <2>3, <2>4
<1>2. ASSUME NEW w \in Writers, Begin(w) PROVE IInv'
    <2>1. TypeOK'
        BY <1>2 DEF TypeOK, Begin, Steps, InTx
    <2>2. LockExclusive' /\ ReadStillCurrent' /\ IdsIncrease'
        BY <1>2 DEF TypeOK, Begin, LockExclusive, ReadStillCurrent, IdsIncrease, Holding, LastHash
    <2>3. EventsOnce'
        BY <1>2 DEF TypeOK, Begin, EventsOnce
    <2>4. ChainIntact' /\ HashCommitsToHistory'
        BY <1>2 DEF Begin, ChainIntact, HashCommitsToHistory
    <2>. QED
        BY <2>1, <2>2, <2>3, <2>4
<1>3. ASSUME NEW w \in Writers, TakeLock(w) PROVE IInv'
    <2>1. TypeOK'
        BY <1>3 DEF TypeOK, TakeLock, Steps, InTx
    <2>2. LockExclusive'
        BY <1>3, NullAssumption DEF TypeOK, TakeLock, LockExclusive, Holding
    <2>3. ReadStillCurrent' /\ IdsIncrease'
        BY <1>3 DEF TypeOK, TakeLock, ReadStillCurrent, IdsIncrease, LastHash
    <2>4. EventsOnce'
        BY <1>3 DEF TypeOK, TakeLock, EventsOnce
    <2>5. ChainIntact' /\ HashCommitsToHistory'
        BY <1>3 DEF TakeLock, ChainIntact, HashCommitsToHistory
    <2>. QED
        BY <2>1, <2>2, <2>3, <2>4, <2>5
<1>4. ASSUME NEW w \in Writers, ReadLast(w) PROVE IInv'
    <2>1. TypeOK'
        <3>1. CASE log = <<>>
            BY <1>4, <3>1 DEF TypeOK, ReadLast, Steps, InTx, LastHash, Genesis
        <3>2. CASE log # <<>>
            <4>1. Len(log) \in 1..Len(log)
                BY <3>2, RowTypes DEF TypeOK
            <4>2. LastHash \in Seq(Events)
                BY <4>1, <3>2, RowTypes DEF LastHash
            <4>. QED
                BY <1>4, <4>2 DEF TypeOK, ReadLast, Steps, InTx
        <3>. QED
            BY <3>1, <3>2
    <2>2. LockExclusive'
        BY <1>4 DEF TypeOK, ReadLast, LockExclusive, Holding
    <2>3. ReadStillCurrent' /\ IdsIncrease'
        BY <1>4 DEF TypeOK, ReadLast, ReadStillCurrent, IdsIncrease, LastHash
    <2>4. EventsOnce'
        BY <1>4 DEF TypeOK, ReadLast, EventsOnce
    <2>5. ChainIntact' /\ HashCommitsToHistory'
        BY <1>4 DEF ReadLast, ChainIntact, HashCommitsToHistory
    <2>. QED
        BY <2>1, <2>2, <2>3, <2>4, <2>5
<1>5. ASSUME NEW w \in Writers, Insert(w) PROVE IInv'
    <2>1. TypeOK'
        BY <1>5 DEF TypeOK, Insert, Steps, InTx
    <2>2. LockExclusive' /\ ReadStillCurrent'
        BY <1>5 DEF TypeOK, Insert, LockExclusive, ReadStillCurrent, Holding, LastHash
    <2>3. IdsIncrease'
        <3>1. \A i \in 1..Len(log) : log[i].id \in Nat
            BY RowTypes
        <3>. QED
            BY <1>5, <3>1 DEF TypeOK, Insert, IdsIncrease
    <2>4. EventsOnce'
        BY <1>5 DEF TypeOK, Insert, EventsOnce
    <2>5. ChainIntact' /\ HashCommitsToHistory'
        BY <1>5 DEF Insert, ChainIntact, HashCommitsToHistory
    <2>. QED
        BY <2>1, <2>2, <2>3, <2>4, <2>5
<1>6. ASSUME NEW w \in Writers, Commit(w) PROVE IInv'
    <2>. DEFINE n == Len(log)
                r == NewRow(w)
    <2>1. /\ pc[w] = "inserted" /\ Reset(w) /\ log' = Append(log, r)
          /\ performed' = performed /\ nextId' = nextId
        BY <1>6 DEF Commit
    <2>2. r \in Rows
        BY <2>1, NewRowType
    <2>3. /\ log' \in Seq(Rows) /\ Len(log') = n + 1 /\ n \in Nat
          /\ \A i \in 1..n : log'[i] = log[i]
          /\ log'[n + 1] = r
        BY <2>1, <2>2, AppendRow DEF TypeOK
    <2>4. TypeOK'
        BY <2>1, <2>3, ResetType DEF TypeOK
    <2>5. LockExclusive'
        BY <2>1, ResetLock
    <2>6. \A v \in Writers : pc'[v] = IF v = w THEN "idle" ELSE pc[v]
        BY <2>1 DEF Reset, TypeOK
    <2>7. \A v \in Writers : pc'[v] \notin Holding
        BY <2>1, <2>6 DEF LockExclusive, Holding
    <2>8. ReadStillCurrent'
        BY <2>7 DEF ReadStillCurrent, Holding
    <2>9. r.id = row[w] /\ r.event = event[w] /\ r.prev = prev[w]
          /\ r.hash = Append(prev[w], event[w])
        BY DEF NewRow, chain_hash
    <2>10. IdsIncrease'
        <3>1. \A i \in 1..(n + 1) : log'[i].id < nextId'
            BY <2>1, <2>3, <2>9 DEF IdsIncrease
        <3>. QED
            BY <3>1, <2>3, <2>7 DEF IdsIncrease, Holding
    <2>11. EventsOnce'
        <3>1. \A v \in Writers : event'[v] = IF v = w THEN NoEvent ELSE event[v]
            BY <2>1 DEF Reset, TypeOK
        <3>2. \A i \in 1..(n + 1) : log'[i].event \in performed'
            BY <2>1, <2>3, <2>9 DEF EventsOnce
        <3>3. ASSUME NEW v \in Writers, pc'[v] # "idle", NEW i \in 1..(n + 1)
              PROVE  log'[i].event # event'[v]
            BY <3>1, <3>3, <2>1, <2>3, <2>6, <2>9 DEF EventsOnce
        <3>. QED
            BY <3>1, <3>2, <3>3, <2>1, <2>3, <2>6 DEF EventsOnce
    <2>12. prev[w] = IF n = 0 THEN Genesis ELSE log[n].hash
        BY <2>1 DEF ReadStillCurrent, LastHash, TypeOK
    <2>13. ChainIntact'
        <3>. SUFFICES ASSUME NEW i \in 1..(n + 1)
                      PROVE  /\ log'[i].prev = IF i = 1 THEN Genesis ELSE log'[i - 1].hash
                             /\ \A j \in 1..(i - 1) : log'[j].id < log'[i].id
            BY <2>3 DEF ChainIntact
        <3>1. CASE i \in 1..n
            BY <3>1, <2>3 DEF ChainIntact
        <3>2. CASE i = n + 1
            BY <3>2, <2>1, <2>3, <2>9, <2>12 DEF IdsIncrease
        <3>. QED
            BY <3>1, <3>2, <2>3
    <2>14. HashCommitsToHistory'
        <3>. SUFFICES ASSUME NEW i \in 1..(n + 1)
                      PROVE  /\ Len(log'[i].hash) = i
                             /\ \A j \in 1..i : log'[i].hash[j] = log'[j].event
            BY <2>3 DEF HashCommitsToHistory
        <3>1. CASE i \in 1..n
            BY <3>1, <2>3 DEF HashCommitsToHistory
        <3>2. CASE i = n + 1
            <4>1. prev[w] \in Seq(Events) /\ event[w] \in Events
                BY <2>1 DEF TypeOK, EventsOnce
            <4>2. Len(prev[w]) = n
                BY <2>3, <2>12 DEF HashCommitsToHistory, Genesis
            <4>3. \A j \in 1..n : prev[w][j] = log[j].event
                BY <2>3, <2>12 DEF HashCommitsToHistory, Genesis
            <4>4. /\ Len(r.hash) = n + 1
                  /\ \A j \in 1..n : r.hash[j] = prev[w][j]
                  /\ r.hash[n + 1] = event[w]
                BY <4>1, <4>2, <2>9, AppendRow
            <4>5. \A j \in 1..n : r.hash[j] = log'[j].event
                BY <4>3, <4>4, <2>3
            <4>6. r.hash[n + 1] = log'[n + 1].event
                BY <4>4, <2>3, <2>9
            <4>. QED
                BY <3>2, <4>4, <4>5, <4>6, <2>3
        <3>. QED
            BY <3>1, <3>2, <2>3
    <2>. HIDE DEF n, r
    <2>. QED
        BY <2>4, <2>5, <2>8, <2>10, <2>11, <2>13, <2>14
<1>7. ASSUME NEW w \in Writers, Abort(w) PROVE IInv'
    <2>1. Reset(w) /\ UNCHANGED <<performed, log, nextId>>
        BY <1>7 DEF Abort
    <2>2. TypeOK'
        BY <2>1, ResetType DEF TypeOK
    <2>3. LockExclusive'
        BY <2>1, ResetLock
    <2>4. \A v \in Writers \ {w} : /\ pc'[v] = pc[v] /\ event'[v] = event[v]
                                   /\ prev'[v] = prev[v] /\ row'[v] = row[v]
        BY <2>1 DEF Reset, TypeOK
    <2>5. pc'[w] = "idle"
        BY <2>1 DEF Reset, TypeOK
    <2>6. ReadStillCurrent' /\ IdsIncrease'
        BY <2>1, <2>4, <2>5 DEF ReadStillCurrent, IdsIncrease, LastHash
    <2>7. EventsOnce'
        BY <2>1, <2>4, <2>5 DEF EventsOnce
    <2>8. ChainIntact' /\ HashCommitsToHistory'
        BY <2>1 DEF ChainIntact, HashCommitsToHistory
    <2>. QED
        BY <2>2, <2>3, <2>6, <2>7, <2>8
<1>8. CASE UNCHANGED vars
    BY <1>8 DEF vars, TypeOK, LockExclusive, ReadStillCurrent, IdsIncrease, EventsOnce, ChainIntact,
                HashCommitsToHistory, LastHash
<1>. QED
    BY <1>1, <1>2, <1>3, <1>4, <1>5, <1>6, <1>7, <1>8 DEF Next

-----------------------------------------------------------------------------
\* The variables keep their types, for any number of writers.
THEOREM TypeCorrect == Spec => []TypeOK
<1>1. IInv => TypeOK
    BY DEF IInv
<1>. QED
    BY InitIInv, NextIInv, <1>1, PTL DEF Spec

\* The chain is unbroken and ordered by id in every reachable state.
THEOREM ChainAlwaysIntact == Spec => []ChainIntact
<1>1. IInv => ChainIntact
    BY DEF IInv
<1>. QED
    BY InitIInv, NextIInv, <1>1, PTL DEF Spec

\* Every hash commits to the whole history before it.
THEOREM HistoryCommitted == Spec => []HashCommitsToHistory
<1>1. IInv => HashCommitsToHistory
    BY DEF IInv
<1>. QED
    BY InitIInv, NextIInv, <1>1, PTL DEF Spec

\* The chain implements the abstract audit log: a commit writes one entry,
\* every other step writes none.
THEOREM Refinement == Spec => ImplementsAuditLog
<1>. DEFINE E == [i \in 1..Len(log) |-> log[i].event]
<1>1. Init => Trail!LogInit
    BY DEF Init, Trail!LogInit
<1>2. IInv /\ [Next]_vars => [Trail!LogNext]_(Trail!logVars)
    <2>. SUFFICES ASSUME IInv, [Next]_vars PROVE [Trail!LogNext]_(Trail!logVars)
        OBVIOUS
    <2>1. ASSUME NEW w \in Writers, NEW e \in Events, CommitOperation(w, e)
          PROVE  Trail!Perform(e)
        BY <2>1 DEF CommitOperation, Trail!Perform
    <2>2. ASSUME NEW w \in Writers, Commit(w)
          PROVE  \E e \in Events : Trail!Write(e)
        <3>. DEFINE n == Len(log)
        <3>1. /\ pc[w] = "inserted" /\ log' = Append(log, NewRow(w))
              /\ performed' = performed
            BY <2>2 DEF Commit
        <3>2. NewRow(w) \in Rows
            BY <3>1, NewRowType DEF IInv
        <3>3. /\ n \in Nat /\ Len(log') = n + 1
              /\ \A i \in 1..n : log'[i] = log[i]
              /\ log'[n + 1].event = event[w]
            BY <3>1, <3>2, AppendRow DEF IInv, TypeOK, NewRow
        <3>4. event[w] \in performed /\ event[w] \in Events
            BY <3>1 DEF IInv, EventsOnce
        <3>5. event[w] \notin {E[i] : i \in 1..Len(E)}
            <4>1. Len(E) = n
                BY <3>3
            <4>. QED
                BY <4>1, <3>1 DEF IInv, EventsOnce
        <3>6. E' = Append(E, event[w])
            <4>1. E \in Seq({log[i].event : i \in 1..n}) /\ Len(E) = n
                BY <3>3
            <4>2. Append(E, event[w]) = [i \in 1..(n + 1) |-> IF i = n + 1 THEN event[w] ELSE E[i]]
                BY <4>1
            <4>. QED
                BY <4>2, <3>3
        <3>. QED
            BY <3>1, <3>4, <3>5, <3>6 DEF Trail!Write, Trail!Written
    <2>3. ASSUME NEW w \in Writers, Begin(w) \/ TakeLock(w) \/ ReadLast(w) \/ Insert(w) \/ Abort(w)
          PROVE  UNCHANGED Trail!logVars
        BY <2>3 DEF Begin, TakeLock, ReadLast, Insert, Abort, Trail!logVars
    <2>4. CASE UNCHANGED vars
        BY <2>4 DEF vars, Trail!logVars
    <2>. QED
        BY <2>1, <2>2, <2>3, <2>4 DEF Next, Trail!LogNext
<1>. QED
    BY InitIInv, NextIInv, <1>1, <1>2, PTL DEF Spec, ImplementsAuditLog, Trail!LogSpec

-----------------------------------------------------------------------------
(* What WriterFinishes needs of the states, beside fairness *)

\* A writer that waits for nothing and nobody: the next statement of its
\* transaction can be carried out now.
CanGoOn(w) ==
    \/ pc[w] = "mutated" /\ Connections < PoolSize
    \/ pc[w] = "begun" /\ lock = NoWriter
    \/ pc[w] \in Holding

\* Whenever someone is recording an event, someone can go on: a writer that waits
\* for a connection or for the lock never waits in a circle, though all of them
\* wait for the lock with a connection in hand (record.rs takes both in the same
\* order).
NeverStuck == (\E w \in Writers : pc[w] # "idle") => \E w \in Writers : CanGoOn(w)

\* If nobody can go on, nobody has the lock, so nobody waits for it, so nobody
\* has a connection, and there is at least one to be had.
LEMMA SomeoneCanGoOn == IInv => NeverStuck
<1>. SUFFICES ASSUME IInv, NEW v \in Writers, pc[v] # "idle",
                     \A w \in Writers : ~CanGoOn(w)
              PROVE  FALSE
    BY DEF NeverStuck
<1>1. pc \in [Writers -> Steps] /\ lock \in Writers \cup {NoWriter} /\ LockExclusive
    BY DEF IInv, TypeOK
<1>2. lock = NoWriter
    BY <1>1 DEF LockExclusive, CanGoOn
<1>3. \A w \in Writers : pc[w] \notin InTx
    BY <1>2 DEF CanGoOn, InTx, Holding
<1>4. Connections = 0
    <2>1. {w \in Writers : pc[w] \in InTx} = {}
        BY <1>3
    <2>. QED
        BY <2>1, FS_EmptySet DEF Connections
<1>5. pc[v] = "mutated"
    BY <1>1, <1>3 DEF Steps
<1>. QED
    BY <1>4, <1>5, PoolAssumption DEF CanGoOn

\* No interleaving, and no abort at any await, leaves the writers waiting for
\* each other; with the fairness of FairSpec this is why WriterFinishes holds.
THEOREM WritersNeverStuck == Spec => []NeverStuck
    BY InitIInv, NextIInv, SomeoneCanGoOn, PTL DEF Spec
=============================================================================
