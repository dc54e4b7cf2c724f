---------------------------- MODULE SecondFactor ----------------------------
(***************************************************************************)
(* What the second factor of a user promises, whatever stores it: it is    *)
(* switched on, never swapped, together with a batch of recovery codes     *)
(* nobody was given before, which are then all the codes there are; a code *)
(* steps up once or is lost; switching it off voids codes and makes none.  *)
(***************************************************************************)
EXTENDS Naturals

CONSTANTS Secrets, Batches, CodesPerBatch, Off

Codes == Batches \X (1..CodesPerBatch)
CodesOf(b) == {b} \X (1..CodesPerBatch)

VARIABLES
    factor,     \* the secret and the batch in force, or Off
    unused,     \* the recovery codes that would be accepted
    spent,      \* those that never will be again
    granted,    \* how often each stepped up a session
    issued      \* the batches shown to the user so far

factorVars == <<factor, unused, spent, granted, issued>>

FactorInit ==
    /\ factor = Off
    /\ unused = {} /\ spent = {} /\ issued = {}
    /\ granted = [c \in Codes |-> 0]

Enable(s, b) ==
    /\ factor = Off
    /\ factor' = [secret |-> s, batch |-> b]
    /\ unused' = CodesOf(b)
    /\ issued' = issued \cup {b}
    /\ UNCHANGED <<spent, granted>>

Spend(c) ==
    /\ c \in unused
    /\ unused' = unused \ {c}
    /\ spent' = spent \cup {c}
    /\ UNCHANGED <<factor, issued>>

StepUp(c) == Spend(c) /\ granted' = [granted EXCEPT ![c] = @ + 1]

\* Used up by a request whose answer was lost.
Lose(c) == Spend(c) /\ UNCHANGED granted

Disable ==
    /\ factor' = Off
    /\ unused' \subseteq unused
    /\ UNCHANGED <<spent, granted, issued>>

FactorNext ==
    \/ \E s \in Secrets, b \in Batches \ issued : Enable(s, b)
    \/ \E c \in Codes : StepUp(c) \/ Lose(c)
    \/ Disable

FactorSpec == FactorInit /\ [][FactorNext]_factorVars
=============================================================================
