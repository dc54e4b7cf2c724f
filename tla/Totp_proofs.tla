----------------------------- MODULE Totp_proofs -----------------------------
(***************************************************************************)
(* Totp, for any set of concurrent requests, of secrets and of batches of  *)
(* any size: a recovery code serves once, an active enrolment has its own  *)
(* codes, and nothing but a removal or a fresh start ends one.             *)
(***************************************************************************)
EXTENDS Totp, TLAPS

\* A code is unused or used, and counts for a step-up only once it is used.
UsedOrNot ==
    /\ live \cap burned = {}
    /\ \A c \in Codes : grants[c] > 0 => c \in burned

\* Every code there is comes from a batch that was drawn.
Drawn == \A c \in live \cup burned : c[1] \in drawn

\* A request about to insert has a secret to insert.
HasSecret(h) == handler[h].pc = "insert" => handler[h].secret \in Secrets

IInv ==
    /\ TypeOK
    /\ UsedOrNot
    /\ Drawn
    /\ \A h \in Handlers : HasSecret(h)
    /\ CodeUsedOnce
    /\ ActiveHasItsCodes

-----------------------------------------------------------------------------
\* The codes of a batch are those that bear its name.
LEMMA CodesOfBatch ==
    ASSUME NEW b \in Batches
    PROVE  /\ CodesOf(b) \subseteq Codes
           /\ \A c \in Codes : c \in CodesOf(b) <=> c[1] = b
  BY DEF CodesOf, Codes

\* A request that ends or only moves on leaves every record as it must be.
LEMMA HandlersKept ==
    ASSUME IInv, NEW h \in Handlers,
           Ends(h) \/ (\E s \in Steps \ {"insert"} : Goto(h, s))
    PROVE  handler' \in [Handlers -> Handler] /\ \A k \in Handlers : HasSecret(k)'
<1>1. NoHandler \in Handler /\ NoHandler.pc = "idle"
  BY DEF NoHandler, Handler, Steps
<1>2. handler \in [Handlers -> Handler] /\ \A k \in Handlers : HasSecret(k)
  BY DEF IInv, TypeOK
<1>3. CASE Ends(h)
  BY <1>1, <1>2, <1>3 DEF Ends, HasSecret
<1>4. ASSUME NEW s \in Steps \ {"insert"}, Goto(h, s)
      PROVE  handler' \in [Handlers -> Handler] /\ \A k \in Handlers : HasSecret(k)'
  BY <1>2, <1>4 DEF Goto, HasSecret, Handler
<1> QED
  BY <1>3, <1>4

\* Nobody is enrolled and nothing was drawn.
LEMMA InitIInv == Init => IInv
<1> SUFFICES ASSUME Init PROVE IInv
  OBVIOUS
<1>1. NoHandler \in Handler /\ NoHandler.pc = "idle"
  BY DEF NoHandler, Handler, Steps
<1>2. TypeOK
  BY <1>1 DEF Init, TypeOK
<1>3. UsedOrNot /\ Drawn /\ CodeUsedOnce /\ ActiveHasItsCodes /\ \A h \in Handlers : HasSecret(h)
  BY <1>1 DEF Init, UsedOrNot, Drawn, HasSecret, CodeUsedOnce, ActiveHasItsCodes, Active
<1> QED
  BY <1>2, <1>3 DEF IInv

-----------------------------------------------------------------------------
\* The steps of a request that leave the tables and the history alone.
LEMMA QuietSteps ==
    ASSUME IInv, NEW h \in Handlers,
           \/ ConfirmFetch(h) \/ ConfirmTooLate(h) \/ VerifyFetch(h) \/ List(h)
           \/ DisableFetch(h) \/ DeleteCodes(h) \/ GiveUp(h)
    PROVE  IInv'
<1>1. UNCHANGED <<row, live, drawn, burned, grants>>
  BY DEF ConfirmFetch, ConfirmTooLate, VerifyFetch, List, DisableFetch, DeleteCodes, GiveUp
<1>2. handler' \in [Handlers -> Handler] /\ \A k \in Handlers : HasSecret(k)'
  <2>1. /\ handler \in [Handlers -> Handler] /\ live \subseteq Codes
        /\ \A k \in Handlers : HasSecret(k)
    BY DEF IInv, TypeOK
  <2>2. CASE \/ ConfirmFetch(h) \/ ConfirmTooLate(h) \/ VerifyFetch(h)
             \/ DisableFetch(h) \/ GiveUp(h)
    <3>1. Ends(h) \/ (\E s \in Steps \ {"insert"} : Goto(h, s))
      BY <2>2 DEF ConfirmFetch, ConfirmTooLate, VerifyFetch, DisableFetch, GiveUp, Steps
    <3> QED
      BY <3>1, HandlersKept
  <2>3. CASE List(h)
    <3>1. PICK c \in live : handler' = [handler EXCEPT ![h].pc = "mark", ![h].code = c]
      BY <2>3 DEF List
    <3>2. c \in Codes
      BY <2>1
    <3> QED
      BY <2>1, <3>1, <3>2 DEF Handler, Steps, HasSecret
  <2>4. CASE DeleteCodes(h)
    BY <2>1, <2>4 DEF DeleteCodes, Handler, Steps, HasSecret
  <2> QED
    BY <2>2, <2>3, <2>4
<1> QED
  BY <1>1, <1>2 DEF IInv, TypeOK, UsedOrNot, Drawn, CodeUsedOnce, ActiveHasItsCodes, Active

\* start_enrollment: the row it leaves is pending, so it has no codes to match.
LEMMA StartSteps ==
    ASSUME IInv, NEW h \in Handlers,
           StartReplace(h) \/ StartNoRow(h) \/ StartInsert(h)
    PROVE  IInv'
<1>1. /\ UNCHANGED <<live, burned, grants>>
      /\ drawn \subseteq drawn' /\ drawn' \subseteq Secrets \cup Batches
  BY DEF StartReplace, StartNoRow, StartInsert, IInv, TypeOK
<1>2. /\ row' \in Rows \cup {NoRow} /\ ~Active'
      /\ handler' \in [Handlers -> Handler] /\ \A k \in Handlers : HasSecret(k)'
  <2>1. handler \in [Handlers -> Handler] /\ \A k \in Handlers : HasSecret(k)
    BY DEF IInv, TypeOK
  <2>2. CASE StartReplace(h)
    BY <2>1, <2>2 DEF StartReplace, PendingRow, Rows, Active, HasSecret
  <2>3. CASE StartNoRow(h)
    <3>1. PICK s \in Secrets :
            handler' = [handler EXCEPT ![h].pc = "insert", ![h].secret = s]
      BY <2>3 DEF StartNoRow
    <3>2. row' = NoRow
      BY <2>3 DEF StartNoRow
    <3> QED
      BY <2>1, <3>1, <3>2 DEF Handler, Steps, Active, HasSecret
  <2>4. CASE StartInsert(h)
    <3>1. Ends(h) /\ handler[h].secret \in Secrets
      BY <2>1, <2>4 DEF StartInsert, HasSecret
    <3>2. row' \in Rows /\ ~row'.active
      BY <2>4, <3>1 DEF StartInsert, PendingRow, Rows
    <3> QED
      BY <3>1, <3>2, HandlersKept DEF Active
  <2> QED
    BY <2>2, <2>3, <2>4
<1> QED
  BY <1>1, <1>2 DEF IInv, TypeOK, UsedOrNot, Drawn, CodeUsedOnce, ActiveHasItsCodes

\* confirm_enrollment: the batch was never drawn, so none of its codes is used.
LEMMA ConfirmStep ==
    ASSUME IInv, NEW h \in Handlers, Confirm(h)
    PROVE  IInv'
<1>1. PICK b \in Batches \ drawn :
        /\ row' = [row EXCEPT !.active = TRUE, !.batch = b]
        /\ live' = CodesOf(b)
        /\ drawn' = drawn \cup {b}
  BY DEF Confirm, Activate
<1>2. Pending /\ Ends(h) /\ UNCHANGED <<burned, grants>>
  BY DEF Confirm, Activate
<1>3. /\ CodesOf(b) \subseteq Codes
      /\ \A c \in Codes : c \in CodesOf(b) <=> c[1] = b
  BY CodesOfBatch
<1>4. row' \in Rows /\ row'.batch = b
  BY <1>1, <1>2 DEF Pending, IInv, TypeOK, Rows
<1>5. TypeOK' /\ \A k \in Handlers : HasSecret(k)'
  BY <1>1, <1>2, <1>3, <1>4, HandlersKept DEF IInv, TypeOK
<1>6. CodesOf(b) \cap burned = {}
  BY <1>1, <1>3 DEF IInv, TypeOK, Drawn
<1>7. UsedOrNot' /\ Drawn' /\ CodeUsedOnce'
  BY <1>1, <1>2, <1>3, <1>5, <1>6 DEF IInv, UsedOrNot, Drawn, CodeUsedOnce
<1>8. ActiveHasItsCodes'
  BY <1>1, <1>2, <1>4, <1>6 DEF ActiveHasItsCodes
<1> QED
  BY <1>5, <1>7, <1>8 DEF IInv

\* A recovery code is marked: it was unused, so it has granted nothing yet.
LEMMA MarkSteps ==
    ASSUME IInv, NEW h \in Handlers, Mark(h) \/ MarkFails(h)
    PROVE  IInv'
<1> DEFINE c == handler[h].code
<1>1. Ends(h) /\ UNCHANGED <<row, drawn>>
  BY DEF Mark, MarkFails
<1>2. \/ /\ c \in live /\ live' = live \ {c} /\ burned' = burned \cup {c}
         /\ grants' = [grants EXCEPT ![c] = @ + 1] \/ grants' = grants
      \/ UNCHANGED <<live, burned, grants>>
  BY DEF Mark, MarkFails
<1> HIDE DEF c
<1>3. /\ live \subseteq Codes /\ burned \subseteq Codes /\ grants \in [Codes -> Nat]
      /\ c \in live => c \notin burned /\ grants[c] = 0
  BY DEF IInv, TypeOK, UsedOrNot
<1>4. /\ grants' \in [Codes -> Nat]
      /\ \A d \in Codes : grants'[d] > 0 => d \in burned'
      /\ \A d \in Codes : grants'[d] <= 1
  BY <1>2, <1>3 DEF IInv, UsedOrNot, CodeUsedOnce
<1>5. TypeOK' /\ Drawn' /\ \A k \in Handlers : HasSecret(k)'
  BY <1>1, <1>2, <1>3, <1>4, HandlersKept DEF IInv, TypeOK, Drawn
<1>6. UsedOrNot' /\ CodeUsedOnce'
  BY <1>2, <1>3, <1>4 DEF IInv, UsedOrNot, CodeUsedOnce
<1>7. ActiveHasItsCodes'
  BY <1>1, <1>2, <1>3 DEF IInv, ActiveHasItsCodes, Active
<1> QED
  BY <1>5, <1>6, <1>7 DEF IInv

\* delete_enrollment: with the row gone there is nothing to match.
LEMMA DeleteStep ==
    ASSUME IInv, NEW h \in Handlers, DeleteRow(h)
    PROVE  IInv'
<1>1. /\ row' = NoRow /\ live' \subseteq live /\ Ends(h)
      /\ UNCHANGED <<drawn, burned, grants>>
  BY DEF DeleteRow
<1>2. TypeOK' /\ Drawn' /\ \A k \in Handlers : HasSecret(k)'
  BY <1>1, HandlersKept DEF IInv, TypeOK, Drawn
<1>3. UsedOrNot' /\ CodeUsedOnce' /\ ActiveHasItsCodes'
  BY <1>1 DEF IInv, UsedOrNot, CodeUsedOnce, ActiveHasItsCodes, Active
<1> QED
  BY <1>2, <1>3 DEF IInv

\* The invariant is inductive.
LEMMA NextIInv == IInv /\ [Next]_vars => IInv'
<1> SUFFICES ASSUME IInv, [Next]_vars PROVE IInv'
  OBVIOUS
<1>1. CASE UNCHANGED vars
  BY <1>1 DEF IInv, TypeOK, UsedOrNot, Drawn, HasSecret, CodeUsedOnce, ActiveHasItsCodes,
              Active, vars
<1>2. CASE Next
  BY <1>2, QuietSteps, StartSteps, ConfirmStep, MarkSteps, DeleteStep DEF Next
<1> QED
  BY <1>1, <1>2

-----------------------------------------------------------------------------
\* The invariant holds in every state of every behaviour.
THEOREM Invariant == Spec => []IInv
  BY InitIInv, NextIInv, PTL DEF Spec

\* Every variable keeps its type.
THEOREM TypeCorrect == Spec => []TypeOK
<1>1. IInv => TypeOK
  BY DEF IInv
<1> QED
  BY <1>1, Invariant, PTL

\* A recovery code grants one step-up at most (totp/repo.rs, UPDATE .. WHERE
\* used_at IS NULL), however many requests matched it at once.
THEOREM CodesServeOnce == Spec => []CodeUsedOnce
<1>1. IInv => CodeUsedOnce
  BY DEF IInv
<1> QED
  BY <1>1, Invariant, PTL

\* An active enrolment has the unused codes of its own batch and no others,
\* whatever removals and confirmations it raced with.
THEOREM EnrolmentHasItsCodes == Spec => []ActiveHasItsCodes
<1>1. IInv => ActiveHasItsCodes
  BY DEF IInv
<1> QED
  BY <1>1, Invariant, PTL

\* No step turns an active enrolment into another one.
THEOREM EnrolmentIsStable == Spec => ActiveIsStable
<1>1. ASSUME IInv, [Next]_vars, Active, Active' PROVE row' = row
  <2>1. ASSUME NEW h \in Handlers, StartReplace(h) \/ Confirm(h) PROVE FALSE
    BY <1>1, <2>1 DEF StartReplace, Confirm, Pending, Active
  <2>2. ASSUME NEW h \in Handlers, StartInsert(h) PROVE FALSE
    BY <1>1, <2>2 DEF StartInsert, PendingRow, Active
  <2>3. ASSUME NEW h \in Handlers, DeleteRow(h) PROVE FALSE
    BY <1>1, <2>3 DEF DeleteRow, Active
  <2> QED
    BY <1>1, <2>1, <2>2, <2>3
    DEF Next, vars, StartNoRow, ConfirmFetch, ConfirmTooLate, VerifyFetch, List, Mark,
        MarkFails, DisableFetch, DeleteCodes, GiveUp
<1> QED
  BY <1>1, Invariant, PTL DEF Spec, ActiveIsStable

-----------------------------------------------------------------------------
(* The tables are a SecondFactor *)

\* A secret is no batch: drawing one issues no codes.
LEMMA SecretsIssueNothing ==
    ASSUME NEW s \in Secrets
    PROVE  (drawn \cup {s}) \cap Batches = drawn \cap Batches
  BY KindsAssumption

\* Nobody is enrolled: the factor is off and no batch was issued.
LEMMA InitFactor == Init => Factor!FactorInit
  BY DEF Init, Factor!FactorInit, Factor!Codes, Codes, Active

\* A request that leaves the tables alone leaves the factor alone.
LEMMA QuietFactor ==
    ASSUME NEW h \in Handlers,
           \/ ConfirmFetch(h) \/ ConfirmTooLate(h) \/ VerifyFetch(h) \/ List(h)
           \/ DisableFetch(h) \/ DeleteCodes(h) \/ GiveUp(h)
    PROVE  UNCHANGED Factor!factorVars
<1>1. UNCHANGED <<row, live, drawn, burned, grants>>
  BY DEF ConfirmFetch, ConfirmTooLate, VerifyFetch, List, DisableFetch, DeleteCodes, GiveUp
<1> QED
  BY <1>1 DEF Factor!factorVars, Active

\* start_enrollment leaves the factor off; it switches an active one off when it
\* inserts over a row it did not see.
LEMMA StartFactor ==
    ASSUME IInv, NEW h \in Handlers,
           StartReplace(h) \/ StartNoRow(h) \/ StartInsert(h)
    PROVE  Factor!Disable \/ UNCHANGED Factor!factorVars
<1>1. ASSUME NEW s \in Secrets, drawn' = drawn \cup {s} PROVE UNCHANGED (drawn \cap Batches)
  BY <1>1, SecretsIssueNothing
<1>2. CASE StartReplace(h)
  <2>1. UNCHANGED <<live, burned, grants, drawn \cap Batches>> /\ ~Active
    BY <1>1, <1>2 DEF StartReplace, Pending, Active
  <2>2. ~Active'
    BY <1>2 DEF StartReplace, PendingRow, Active
  <2> QED
    BY <2>1, <2>2 DEF Factor!factorVars
<1>3. CASE StartNoRow(h)
  <2>1. UNCHANGED <<row, live, burned, grants, drawn \cap Batches>>
    BY <1>1, <1>3 DEF StartNoRow
  <2> QED
    BY <2>1 DEF Factor!factorVars, Active
<1>4. CASE StartInsert(h)
  <2>1. UNCHANGED <<live, burned, grants, drawn>> /\ ~Active'
    BY <1>4 DEF StartInsert, PendingRow, Active
  <2> QED
    BY <2>1 DEF Factor!Disable
<1> QED
  BY <1>2, <1>3, <1>4

\* confirm_enrollment switches it on, with a batch it draws, from off.
LEMMA ConfirmFactor ==
    ASSUME IInv, NEW h \in Handlers, Confirm(h)
    PROVE  \E s \in Secrets, b \in Batches \ (drawn \cap Batches) : Factor!Enable(s, b)
<1>1. PICK b \in Batches \ drawn :
        /\ row' = [row EXCEPT !.active = TRUE, !.batch = b]
        /\ live' = CodesOf(b)
        /\ drawn' = drawn \cup {b}
  BY DEF Confirm, Activate
<1>2. Pending /\ UNCHANGED <<burned, grants>>
  BY DEF Confirm, Activate
<1>3. row \in Rows /\ ~Active
  BY <1>2 DEF Pending, Active, IInv, TypeOK
<1>4. row' \in Rows /\ Active' /\ row'.secret = row.secret /\ row'.batch = b
  BY <1>1, <1>3, NullAssumption DEF Rows, Active
<1>5. row.secret \in Secrets /\ (drawn \cap Batches)' = (drawn \cap Batches) \cup {b}
  BY <1>1, <1>3 DEF Rows
<1>6. Factor!Enable(row.secret, b)
  BY <1>1, <1>2, <1>3, <1>4, <1>5 DEF Factor!Enable, Factor!CodesOf, CodesOf
<1> QED
  BY <1>1, <1>5, <1>6

\* A code marked is spent, for a step-up or for nothing.
LEMMA MarkFactor ==
    ASSUME IInv, NEW h \in Handlers, Mark(h) \/ MarkFails(h)
    PROVE  (\E c \in Codes : Factor!StepUp(c) \/ Factor!Lose(c)) \/ UNCHANGED Factor!factorVars
<1> DEFINE c == handler[h].code
<1>1. UNCHANGED <<row, drawn>>
  BY DEF Mark, MarkFails
<1>2. \/ /\ c \in live /\ live' = live \ {c} /\ burned' = burned \cup {c}
         /\ grants' = [grants EXCEPT ![c] = @ + 1] \/ grants' = grants
      \/ UNCHANGED <<live, burned, grants>>
  BY DEF Mark, MarkFails
<1> HIDE DEF c
<1>3. live \subseteq Codes
  BY DEF IInv, TypeOK
<1> QED
  BY <1>1, <1>2, <1>3
  DEF Factor!StepUp, Factor!Lose, Factor!Spend, Factor!factorVars, Active

\* delete_enrollment switches it off.
LEMMA DeleteFactor ==
    ASSUME NEW h \in Handlers, DeleteRow(h)
    PROVE  Factor!Disable
  BY DEF DeleteRow, Factor!Disable, Active

\* Every step of a request is a step of the factor or leaves it alone.
LEMMA NextFactor == IInv /\ [Next]_vars => [Factor!FactorNext]_(Factor!factorVars)
<1> SUFFICES ASSUME IInv, [Next]_vars PROVE [Factor!FactorNext]_(Factor!factorVars)
  OBVIOUS
<1>1. CASE UNCHANGED vars
  BY <1>1 DEF vars, Factor!factorVars, Active
<1>2. ASSUME NEW h \in Handlers, StartReplace(h) \/ StartNoRow(h) \/ StartInsert(h)
      PROVE  [Factor!FactorNext]_(Factor!factorVars)
  BY <1>2, StartFactor DEF Factor!FactorNext
<1>3. ASSUME NEW h \in Handlers, Confirm(h) PROVE Factor!FactorNext
  BY <1>3, ConfirmFactor DEF Factor!FactorNext
<1>4. ASSUME NEW h \in Handlers, Mark(h) \/ MarkFails(h)
      PROVE  [Factor!FactorNext]_(Factor!factorVars)
  <2>1. Factor!Codes = Codes
    BY DEF Factor!Codes, Codes
  <2> QED
    BY <1>4, <2>1, MarkFactor DEF Factor!FactorNext
<1>5. ASSUME NEW h \in Handlers, DeleteRow(h) PROVE Factor!FactorNext
  BY <1>5, DeleteFactor DEF Factor!FactorNext
<1> QED
  BY <1>1, <1>2, <1>3, <1>4, <1>5, QuietFactor DEF Next

\* The tables implement the second factor: requests in any order, each stopped
\* at any await, switch it on, spend its codes and switch it off, and do nothing
\* else to it.
THEOREM Refinement == Spec => ImplementsSecondFactor
  BY InitFactor, NextFactor, Invariant, PTL
  DEF Spec, ImplementsSecondFactor, Factor!FactorSpec
=============================================================================
