----------------------------- MODULE AuditChain -----------------------------
(***************************************************************************)
(* The hash-chained audit trail (apps/api/src/audit/record.rs, table       *)
(* audit_events of migration 0001).  A handler commits a business          *)
(* operation, then emit_audit calls AuditRepo::record: a transaction of    *)
(* its own that takes the advisory lock, reads the hash of the last row,   *)
(* inserts its row and commits.  Any await of that sequence may be its     *)
(* last one: the request times out, the connection drops or Postgres       *)
(* returns an error, and the transaction rolls back.                       *)
(*                                                                         *)
(* SHA-256 is modelled as collision free: a hash is the sequence of the    *)
(* events it was computed from, so chain_hash(prev, e) appends e to prev.  *)
(***************************************************************************)
EXTENDS Sequences, Naturals, FiniteSets

CONSTANTS
    Writers,     \* request handlers that run concurrently
    Events,      \* one value per occurrence of an audited operation
    PoolSize,    \* connections of the sqlx pool
    NoWriter,    \* nobody
    NoEvent      \* nothing to record

ASSUME PoolAssumption == PoolSize \in Nat \ {0}
ASSUME NullAssumption == NoWriter \notin Writers /\ NoEvent \notin Events

VARIABLES
    performed,   \* the operations whose own transaction committed
    log,         \* the committed rows of audit_events, in commit order
    nextId,      \* the bigserial sequence: never rolled back
    lock,        \* the holder of the advisory transaction lock
    pc,          \* where each writer stands
    event,       \* the event each writer records
    prev,        \* the prev_hash it read
    row          \* the id its INSERT got

vars == <<performed, log, nextId, lock, pc, event, prev, row>>

Genesis == <<>>   \* prev_hash IS NULL

Rows == [id : Nat, event : Events, prev : Seq(Events), hash : Seq(Events)]

\* The steps of record_in_tx, each named for what has just been done.
InTx == {"begun", "locked", "read", "inserted"}
Holding == {"locked", "read", "inserted"}
Steps == {"idle", "mutated"} \cup InTx

TypeOK ==
    /\ performed \subseteq Events
    /\ log \in Seq(Rows)
    /\ nextId \in Nat
    /\ lock \in Writers \cup {NoWriter}
    /\ pc \in [Writers -> Steps]
    /\ event \in [Writers -> Events \cup {NoEvent}]
    /\ prev \in [Writers -> Seq(Events)]
    /\ row \in [Writers -> Nat]

Init ==
    /\ performed = {}
    /\ log = <<>>
    /\ nextId = 1
    /\ lock = NoWriter
    /\ pc = [w \in Writers |-> "idle"]
    /\ event = [w \in Writers |-> NoEvent]
    /\ prev = [w \in Writers |-> Genesis]
    /\ row = [w \in Writers |-> 0]

-----------------------------------------------------------------------------
chain_hash(before, e) == Append(before, e)

\* SELECT hash FROM audit_events ORDER BY id DESC LIMIT 1
LastHash == IF log = <<>> THEN Genesis ELSE log[Len(log)].hash

Connections == Cardinality({w \in Writers : pc[w] \in InTx})

Free(w) == IF lock = w THEN NoWriter ELSE lock

\* The business transaction commits: the event to record is now a fact.
CommitWithoutEvent(w, e) ==
    /\ pc[w] = "idle"
    /\ e \notin performed
    /\ performed' = performed \cup {e}
    /\ pc' = [pc EXCEPT ![w] = "mutated"]
    /\ UNCHANGED <<log, nextId, lock, event, prev, row>>

CommitOperation(w, e) ==
    /\ pc[w] = "idle"
    /\ e \notin performed
    /\ performed' = performed \cup {e}
    /\ pc' = [pc EXCEPT ![w] = "mutated"]
    /\ event' = [event EXCEPT ![w] = e]
    /\ UNCHANGED <<log, nextId, lock, prev, row>>

\* pool.begin()
Begin(w) ==
    /\ pc[w] = "mutated"
    /\ Connections < PoolSize
    /\ pc' = [pc EXCEPT ![w] = "begun"]
    /\ UNCHANGED <<performed, log, nextId, lock, event, prev, row>>

\* SELECT pg_advisory_xact_lock(..)
TakeLockUnserialised(w) ==
    /\ pc[w] = "begun"
    /\ lock' = w
    /\ pc' = [pc EXCEPT ![w] = "locked"]
    /\ UNCHANGED <<performed, log, nextId, event, prev, row>>

TakeLock(w) ==
    /\ pc[w] = "begun"
    /\ lock = NoWriter
    /\ lock' = w
    /\ pc' = [pc EXCEPT ![w] = "locked"]
    /\ UNCHANGED <<performed, log, nextId, event, prev, row>>

ReadLast(w) ==
    /\ pc[w] = "locked"
    /\ prev' = [prev EXCEPT ![w] = LastHash]
    /\ pc' = [pc EXCEPT ![w] = "read"]
    /\ UNCHANGED <<performed, log, nextId, lock, event, row>>

\* INSERT: the row takes its id now and becomes visible at the commit.
Insert(w) ==
    /\ pc[w] = "read"
    /\ row' = [row EXCEPT ![w] = nextId]
    /\ nextId' = nextId + 1
    /\ pc' = [pc EXCEPT ![w] = "inserted"]
    /\ UNCHANGED <<performed, log, lock, event, prev>>

NewRow(w) == [id |-> row[w], event |-> event[w], prev |-> prev[w],
              hash |-> chain_hash(prev[w], event[w])]

\* Back to idle, the transaction (if any) closed and the lock given back.
Reset(w) ==
    /\ pc' = [pc EXCEPT ![w] = "idle"]
    /\ event' = [event EXCEPT ![w] = NoEvent]
    /\ prev' = [prev EXCEPT ![w] = Genesis]
    /\ row' = [row EXCEPT ![w] = 0]
    /\ lock' = Free(w)

CommitAndRetry(w) ==
    /\ pc[w] = "inserted"
    /\ log' = Append(log, NewRow(w))
    /\ pc' = [pc EXCEPT ![w] = "mutated"]
    /\ lock' = Free(w)
    /\ UNCHANGED <<performed, nextId, event, prev, row>>

\* COMMIT.  Whether its acknowledgement reaches the handler changes nothing:
\* emit_audit logs a failure and does not try again.
Commit(w) ==
    /\ pc[w] = "inserted"
    /\ log' = Append(log, NewRow(w))
    /\ Reset(w)
    /\ UNCHANGED <<performed, nextId>>

\* An error, a lost connection or the request timeout: the transaction rolls
\* back, the lock goes with it and the event is dropped.
AbortKeepingLock(w) ==
    /\ pc[w] # "idle"
    /\ pc' = [pc EXCEPT ![w] = "idle"]
    /\ event' = [event EXCEPT ![w] = NoEvent]
    /\ prev' = [prev EXCEPT ![w] = Genesis]
    /\ row' = [row EXCEPT ![w] = 0]
    /\ UNCHANGED <<performed, log, nextId, lock>>

Abort(w) ==
    /\ pc[w] # "idle"
    /\ Reset(w)
    /\ UNCHANGED <<performed, log, nextId>>

Next ==
    \E w \in Writers :
        \/ \E e \in Events : CommitOperation(w, e)
        \/ Begin(w)
        \/ TakeLock(w)
        \/ ReadLast(w)
        \/ Insert(w)
        \/ Commit(w)
        \/ Abort(w)

Spec == Init /\ [][Next]_vars

\* The runtime polls every handler that can go on; the pool hands out
\* connections and Postgres grants the lock first come, first served, so a
\* writer is not passed over for ever.  Nothing makes an abort happen.
Fairness ==
    \A w \in Writers : /\ WF_vars(ReadLast(w) \/ Insert(w) \/ Commit(w))
                       /\ SF_vars(Begin(w))
                       /\ SF_vars(TakeLock(w))

FairSpec == Spec /\ Fairness

-----------------------------------------------------------------------------
(* Properties *)

\* Read in id order, every row's prev_hash is the hash of the row before it
\* and the id order is the commit order: concurrent writers, rolled back
\* transactions and the gaps they leave in the ids never break the chain.
ChainIntact ==
    \A i \in 1..Len(log) :
        /\ log[i].prev = IF i = 1 THEN Genesis ELSE log[i - 1].hash
        /\ \A j \in 1..(i - 1) : log[j].id < log[i].id

\* The hash of a row commits to every event up to it, in order: changing,
\* removing or reordering any earlier row changes it (migration 0001).
HashCommitsToHistory ==
    \A i \in 1..Len(log) :
        /\ Len(log[i].hash) = i
        /\ \A j \in 1..i : log[i].hash[j] = log[j].event

\* The trail the rows carry is an AuditLog: it grows at its end only, by
\* operations that took place, each at most once.
Trail == INSTANCE AuditLog WITH entries <- [i \in 1..Len(log) |-> log[i].event]
ImplementsAuditLog == Trail!LogSpec

\* No writer stays behind: whatever the others do or fail to do, one that
\* started comes to an end, the lock and the connection with it.
WriterFinishes == \A w \in Writers : pc[w] # "idle" ~> pc[w] = "idle"
=============================================================================
