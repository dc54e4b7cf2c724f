------------------------------ MODULE AuditLog ------------------------------
(***************************************************************************)
(* What the audit trail of the API promises, whatever carries it out: a    *)
(* list of entries that only ever grows by one entry at its end, each      *)
(* entry being a business operation that took place before, and none of    *)
(* them written twice.  An operation may stay without an entry: the event  *)
(* is written after the operation, best effort.                            *)
(***************************************************************************)
EXTENDS Sequences, Naturals

CONSTANT Events  \* one value per occurrence of an audited operation

VARIABLES
    performed,   \* the operations that took place
    entries      \* the audit trail, oldest first

logVars == <<performed, entries>>

Written == {entries[i] : i \in 1..Len(entries)}

LogInit ==
    /\ performed = {}
    /\ entries = <<>>

\* A business operation takes place.
Perform(e) ==
    /\ e \in Events \ performed
    /\ performed' = performed \cup {e}
    /\ UNCHANGED entries

\* Its entry is written, at most once.
Write(e) ==
    /\ e \in performed \ Written
    /\ entries' = Append(entries, e)
    /\ UNCHANGED performed

LogNext == \E e \in Events : Perform(e) \/ Write(e)

LogSpec == LogInit /\ [][LogNext]_logVars
=============================================================================
