--------------------------- MODULE Server_proofs ---------------------------
(***************************************************************************)
(* Server, for any number of requests, any pool and any layers of the      *)
(* configuration: its types, that it fails closed and answers truly, and   *)
(* what the end of a drain rests on.                                       *)
(***************************************************************************)
EXTENDS Server, TLAPS

\* How far the checks of the boot have gone when the process stands at p.
Loaded == {"tracing", "building", "binding", "serving", "draining", "stopped"}
Traced == Loaded \ {"tracing"}
Built == Traced \ {"building"}

BootInv ==
    /\ proc \in Loaded => conf = Merged(env, file) /\ Extracts(conf)
    /\ proc \in Traced => conf["filter"] = "directives"
    /\ proc \in Built => conf["totp_key"] = "hex32" /\ SenderBuilds(conf)

\* One request: an answer comes with the end of the handler, a handler that
\* has reached the audit has written its row, one that has not reached its
\* statement has nothing in Postgres.
RequestOK(r) ==
    /\ answer[r] # "none" => stage[r] = "over"
    /\ stage[r] \in {"none", "guard", "extract"} => sent[r] = "none" /\ r \notin wrote
    /\ stage[r] = "work" => sent[r] \in {"none", "work"}
    /\ stage[r] = "session" => sent[r] = "none"
    /\ stage[r] \in {"audit", "session"} => r \in wrote
    /\ kind[r] \in Writing =>
           /\ answer[r] = "ok" => r \in wrote
           /\ answer[r] = "refused" => r \notin wrote /\ sent[r] = "none"

IInv ==
    /\ TypeOK
    /\ BootInv
    /\ \A r \in Requests : RequestOK(r)

-----------------------------------------------------------------------------
\* Main starts from a state that satisfies the invariant.
LEMMA InitIInv == Init => IInv
<1> SUFFICES ASSUME Init PROVE IInv
  OBVIOUS
<1>1. TypeOK
  BY DEF Init, TypeOK, Booting, Kinds
<1>2. BootInv
  BY DEF Init, BootInv, Loaded, Traced, Built
<1>3. \A r \in Requests : RequestOK(r)
  BY DEF Init, RequestOK
<1> QED
  BY <1>1, <1>2, <1>3 DEF IInv

\* A step that leaves the requests alone and goes from a stage of the boot to
\* the next, or fails, keeps what is not about the configuration.
LEMMA BootKeepsRequests ==
    ASSUME IInv, NEW from \in Booting, NEW to \in Booting \cup {"serving"},
           NEW ok, BootStep(from, to, ok)
    PROVE  /\ \A r \in Requests : RequestOK(r)'
           /\ proc' \in {to, "failed"}
<1>1. proc' \in {to, "failed"} /\ proc = from /\ UNCHANGED <<stores, work>>
  BY DEF BootStep
<1>2. \A r \in Requests : RequestOK(r)'
  BY <1>1 DEF IInv, RequestOK, work
<1> QED
  BY <1>1, <1>2

\* Each step of the boot adds what it has checked to what is known of conf.
LEMMA BootSteps ==
    ASSUME IInv, Load \/ InitTelemetry \/ NewState \/ Bind
    PROVE  IInv'
<1>1. CASE Load
  <2>1. BootStep("loading", "tracing", Extracts(Merged(env, file)))
    BY <1>1 DEF Load
  <2>2. /\ \A r \in Requests : RequestOK(r)'
        /\ proc' \in {"tracing", "failed"}
    BY <2>1, BootKeepsRequests DEF Booting
  <2>3. TypeOK'
    BY <1>1, <2>1, <2>2 DEF IInv, TypeOK, Load, BootStep, stores, work, Booting, Ended
  <2>4. BootInv'
    BY <1>1, <2>1 DEF BootInv, Load, BootStep, Loaded, Traced, Built
  <2> QED
    BY <2>2, <2>3, <2>4 DEF IInv
<1>2. CASE InitTelemetry
  <2>1. BootStep("tracing", "building", conf["filter"] = "directives") /\ UNCHANGED boot
    BY <1>2 DEF InitTelemetry
  <2>2. /\ \A r \in Requests : RequestOK(r)'
        /\ proc' \in {"building", "failed"}
    BY <2>1, BootKeepsRequests DEF Booting
  <2>3. TypeOK'
    BY <2>1, <2>2 DEF IInv, TypeOK, BootStep, boot, stores, work, Booting, Ended
  <2>4. BootInv'
    BY <2>1 DEF IInv, BootInv, BootStep, boot, Loaded, Traced, Built
  <2> QED
    BY <2>2, <2>3, <2>4 DEF IInv
<1>3. CASE NewState
  <2> DEFINE ok == /\ conf["database_url"] = "url"
                   /\ redis = "up"
                   /\ conf["totp_key"] = "hex32"
                   /\ SenderBuilds(conf)
  <2>1. BootStep("building", "binding", ok) /\ UNCHANGED boot
    BY <1>3 DEF NewState
  <2>2. /\ \A r \in Requests : RequestOK(r)'
        /\ proc' \in {"binding", "failed"}
    BY <2>1, BootKeepsRequests DEF Booting
  <2>3. TypeOK'
    BY <2>1, <2>2 DEF IInv, TypeOK, BootStep, boot, stores, work, Booting, Ended
  <2>4. BootInv'
    BY <2>1 DEF IInv, BootInv, BootStep, boot, Loaded, Traced, Built
  <2> QED
    BY <2>2, <2>3, <2>4 DEF IInv
<1>4. CASE Bind
  <2>1. PICK free \in BOOLEAN : BootStep("binding", "serving", free) /\ UNCHANGED boot
    BY <1>4 DEF Bind
  <2>2. /\ \A r \in Requests : RequestOK(r)'
        /\ proc' \in {"serving", "failed"}
    BY <2>1, BootKeepsRequests DEF Booting
  <2>3. TypeOK'
    BY <2>1, <2>2 DEF IInv, TypeOK, BootStep, boot, stores, work, Up, Ended
  <2>4. BootInv'
    BY <2>1 DEF IInv, BootInv, BootStep, boot, Loaded, Traced, Built
  <2> QED
    BY <2>2, <2>3, <2>4 DEF IInv
<1> QED
  BY <1>1, <1>2, <1>3, <1>4

-----------------------------------------------------------------------------
\* What a step of one request has to show: the others, the process and the
\* configuration are as they were.
LEMMA OneRequest ==
    ASSUME IInv, NEW r \in Requests,
           UNCHANGED <<boot, proc, stores>>,
           TypeOK',
           \A q \in Requests \ {r} : /\ UNCHANGED <<kind[q], stage[q], sent[q], answer[q]>>
                                     /\ q \in wrote' <=> q \in wrote,
           RequestOK(r)'
    PROVE  IInv'
<1>1. BootInv'
  BY DEF IInv, BootInv, boot
<1>2. \A q \in Requests : RequestOK(q)'
  <2> SUFFICES ASSUME NEW q \in Requests \ {r} PROVE RequestOK(q)'
    OBVIOUS
  <2> QED
    BY DEF IInv, RequestOK
<1> QED
  BY <1>1, <1>2 DEF IInv

\* Whatever a request does, its own record stays right.
LEMMA HandleSteps ==
    ASSUME IInv, NEW r \in Requests, Handle(r)
    PROVE  IInv'
<1> USE DEF Live
<1>0. TypeOK /\ RequestOK(r)
  BY DEF IInv
<1>1. ASSUME NEW k \in Kinds, Accept(r, k) PROVE IInv'
  <2>1. TypeOK'
    BY <1>0, <1>1 DEF TypeOK, Accept, Goes, boot, stores
  <2>2. RequestOK(r)'
    BY <1>0, <1>1 DEF TypeOK, RequestOK, Accept, Goes
  <2> QED
    BY <1>0, <1>1, <2>1, <2>2, OneRequest DEF TypeOK, Accept, Goes
<1>2. CASE GuardPasses(r)
  <2>0. PICK s \in {"work", "extract"} : Goes(r, s)
    BY <1>2 DEF GuardPasses, Entries
  <2>1. TypeOK'
    BY <1>0, <1>2, <2>0 DEF TypeOK, GuardPasses, Goes, boot, stores
  <2>2. RequestOK(r)'
    BY <1>0, <1>2, <2>0 DEF TypeOK, RequestOK, GuardPasses, Goes
  <2> QED
    BY <1>0, <1>2, <2>0, <2>1, <2>2, OneRequest DEF TypeOK, GuardPasses, Goes
<1>3. CASE GuardRefuses(r)
  <2>1. TypeOK'
    BY <1>0, <1>3 DEF TypeOK, GuardRefuses, Over, Answers, boot, stores
  <2>2. RequestOK(r)'
    BY <1>0, <1>3 DEF TypeOK, RequestOK, GuardRefuses, Over
  <2> QED
    BY <1>0, <1>3, <2>1, <2>2, OneRequest DEF TypeOK, GuardRefuses, Over
<1>4. CASE Extract(r)
  <2>1. TypeOK'
    BY <1>0, <1>4 DEF TypeOK, Extract, Over, Goes, Answers, boot, stores
  <2>2. RequestOK(r)'
    BY <1>0, <1>4 DEF TypeOK, RequestOK, Extract, Over, Goes
  <2>3. \A q \in Requests \ {r} : UNCHANGED <<kind[q], stage[q], sent[q], answer[q]>>
    BY <1>0, <1>4 DEF TypeOK, Extract, Over, Goes
  <2> QED
    BY <1>0, <1>4, <2>1, <2>2, <2>3, OneRequest DEF Extract
<1>5. CASE Healthz(r)
  <2>1. TypeOK'
    BY <1>0, <1>5 DEF TypeOK, Healthz, Over, Answers, boot, stores
  <2>2. RequestOK(r)'
    BY <1>0, <1>5 DEF TypeOK, RequestOK, Healthz, Over, Writing
  <2> QED
    BY <1>0, <1>5, <2>1, <2>2, OneRequest DEF TypeOK, Healthz, Over
<1>6. CASE Send(r)
  <2>1. TypeOK'
    BY <1>0, <1>6 DEF TypeOK, Send, Waiting, boot, stores
  <2>2. RequestOK(r)'
    BY <1>0, <1>6 DEF TypeOK, RequestOK, Send, Waiting
  <2> QED
    BY <1>0, <1>6, <2>1, <2>2, OneRequest DEF TypeOK, Send, Waiting
<1>7. CASE AcquireFails(r)
  <2>1. TypeOK'
    BY <1>0, <1>7 DEF TypeOK, AcquireFails, Fails, Audited, Over, Goes, Answers, boot, stores
  <2>2. RequestOK(r)'
    BY <1>0, <1>7 DEF TypeOK, RequestOK, AcquireFails, Waiting, Fails, Audited, Over, Goes
  <2>3. \A q \in Requests \ {r} : UNCHANGED <<kind[q], stage[q], sent[q], answer[q]>>
    BY <1>0, <1>7 DEF TypeOK, AcquireFails, Fails, Audited, Over, Goes
  <2> QED
    BY <1>0, <1>7, <2>1, <2>2, <2>3, OneRequest DEF AcquireFails
<1>8. CASE StatementEnds(r)
  <2>0. /\ stage[r] \in {"work", "audit", "over"}
        /\ sent' = [sent EXCEPT ![r] = "none"]
        /\ wrote' = Wrote(r)
        /\ UNCHANGED <<boot, proc, stores, kind>>
    BY <1>0, <1>8 DEF TypeOK, RequestOK, StatementEnds
  <2>1. TypeOK'
    BY <1>0, <1>8, <2>0
    DEF TypeOK, StatementEnds, Proceeds, Audited, Wrote, Over, Goes, Answers, boot, stores
  <2>2. CASE stage[r] = "over"
    <3>1. UNCHANGED <<stage, answer>>
      BY <1>8, <2>2 DEF StatementEnds, Proceeds
    <3>2. RequestOK(r)'
      BY <1>0, <2>0, <2>2, <3>1 DEF TypeOK, RequestOK, Wrote
    <3>3. BootInv'
      BY <2>0, <3>1 DEF IInv, BootInv, boot
    <3>4. \A q \in Requests \ {r} : RequestOK(q)'
      BY <1>0, <2>0, <3>1 DEF IInv, TypeOK, RequestOK, Wrote
    <3> QED
      BY <2>1, <3>2, <3>3, <3>4 DEF IInv
  <2>3. CASE stage[r] = "work" /\ kind[r] \in Writing
    <3>1. Goes(r, "audit")
      BY <1>8, <2>3 DEF StatementEnds, Proceeds
    <3>2. sent[r] = "work"
      BY <1>0, <1>8, <2>3 DEF RequestOK, StatementEnds
    <3>3. RequestOK(r)'
      BY <1>0, <2>0, <2>3, <3>1, <3>2 DEF TypeOK, RequestOK, Goes, Wrote
    <3> QED
      BY <1>0, <2>0, <2>1, <2>3, <3>1, <3>3, OneRequest DEF TypeOK, Goes, Wrote
  <2>4. CASE stage[r] = "work" /\ kind[r] \notin Writing
    <3>1. Over(r, "ok")
      BY <1>8, <2>4 DEF StatementEnds, Proceeds
    <3>2. RequestOK(r)'
      BY <1>0, <2>0, <2>4, <3>1 DEF TypeOK, RequestOK, Over, Wrote
    <3> QED
      BY <1>0, <2>0, <2>1, <3>1, <3>2, OneRequest DEF TypeOK, Over, Wrote
  <2>5. CASE stage[r] = "audit"
    <3>1. Over(r, "ok") \/ Goes(r, "session")
      BY <1>8, <2>5 DEF StatementEnds, Proceeds, Audited
    <3>2. RequestOK(r)'
      BY <1>0, <2>0, <2>5, <3>1 DEF TypeOK, RequestOK, Over, Goes, Wrote
    <3> QED
      BY <1>0, <2>0, <2>1, <3>1, <3>2, OneRequest DEF TypeOK, Over, Goes, Wrote
  <2> QED
    BY <2>0, <2>2, <2>3, <2>4, <2>5
<1>9. CASE StatementBreaks(r)
  <2>0. /\ stage[r] \in {"work", "audit", "over"}
        /\ sent' = [sent EXCEPT ![r] = "none"]
        /\ wrote' \in {wrote, Wrote(r)}
        /\ UNCHANGED <<boot, proc, stores, kind>>
    BY <1>0, <1>9 DEF TypeOK, RequestOK, StatementBreaks
  <2>1. TypeOK'
    BY <1>0, <1>9, <2>0
    DEF TypeOK, StatementBreaks, Fails, Audited, Wrote, Over, Goes, Answers, boot, stores
  <2>2. CASE stage[r] = "over"
    <3>1. UNCHANGED <<stage, answer>>
      BY <1>9, <2>2 DEF StatementBreaks, Fails
    <3>2. RequestOK(r)'
      BY <1>0, <2>0, <2>2, <3>1, <1>9 DEF TypeOK, RequestOK, Wrote, StatementBreaks
    <3>3. BootInv'
      BY <2>0, <3>1 DEF IInv, BootInv, boot
    <3>4. \A q \in Requests \ {r} : RequestOK(q)'
      BY <1>0, <2>0, <3>1 DEF IInv, TypeOK, RequestOK, Wrote
    <3> QED
      BY <2>1, <3>2, <3>3, <3>4 DEF IInv
  <2>3. CASE stage[r] = "work"
    <3>1. Over(r, "error")
      BY <1>9, <2>3 DEF StatementBreaks, Fails
    <3>2. RequestOK(r)'
      BY <1>0, <2>0, <2>3, <3>1 DEF TypeOK, RequestOK, Over, Wrote
    <3> QED
      BY <1>0, <2>0, <2>1, <3>1, <3>2, OneRequest DEF TypeOK, Over, Wrote
  <2>4. CASE stage[r] = "audit"
    <3>1. Over(r, "ok") \/ Goes(r, "session")
      BY <1>9, <2>4 DEF StatementBreaks, Fails, Audited
    <3>2. RequestOK(r)'
      BY <1>0, <2>0, <2>4, <3>1 DEF TypeOK, RequestOK, Over, Goes, Wrote
    <3> QED
      BY <1>0, <2>0, <2>1, <3>1, <3>2, OneRequest DEF TypeOK, Over, Goes, Wrote
  <2> QED
    BY <2>0, <2>2, <2>3, <2>4
<1>10. ASSUME NEW a \in {"timeout", "left", "panic", "error"},
              stage[r] \in Live, Over(r, a),
              UNCHANGED <<boot, proc, stores, kind, sent, wrote>>
       PROVE  IInv'
  <2>1. TypeOK'
    BY <1>0, <1>10 DEF TypeOK, Over, Answers, boot, stores
  <2>2. RequestOK(r)'
    BY <1>0, <1>10 DEF TypeOK, RequestOK, Over
  <2> QED
    BY <1>0, <1>10, <2>1, <2>2, OneRequest DEF TypeOK, Over
<1>11. CASE Timeout(r)
  BY <1>10, <1>11 DEF Timeout
<1>12. CASE Leave(r)
  BY <1>10, <1>12 DEF Leave
<1>13. CASE Panic(r)
  BY <1>10, <1>13 DEF Panic
<1>14. CASE OpenSession(r)
  <2>1. CASE Over(r, "error")
    BY <1>10, <1>14, <2>1 DEF OpenSession
  <2>2. CASE Over(r, "ok")
    <3>1. TypeOK'
      BY <1>0, <1>14, <2>2 DEF TypeOK, OpenSession, Over, Answers, boot, stores
    <3>2. RequestOK(r)'
      BY <1>0, <1>14, <2>2 DEF TypeOK, RequestOK, OpenSession, Over
    <3> QED
      BY <1>0, <1>14, <2>2, <3>1, <3>2, OneRequest DEF TypeOK, OpenSession, Over
  <2> QED
    BY <1>14, <2>1, <2>2 DEF OpenSession
<1> QED
  BY <1>1, <1>2, <1>3, <1>4, <1>5, <1>6, <1>7, <1>8, <1>9, <1>11, <1>12, <1>13, <1>14
  DEF Handle

-----------------------------------------------------------------------------
\* The steps of the process as a whole and of the stores.
LEMMA ProcessSteps ==
    ASSUME IInv, Signal \/ Exit \/ Kill \/ RedisTurns \/ PostgresTurns
    PROVE  IInv'
<1>0. TypeOK /\ BootInv /\ (\A r \in Requests : RequestOK(r))
  BY DEF IInv
<1>1. CASE Signal
  <2>0. /\ proc' \in {"draining", "killed"} /\ UNCHANGED <<boot, stores, work>>
        /\ proc' = "draining" => proc = "serving"
    BY <1>1 DEF Signal
  <2>1. TypeOK'
    BY <1>0, <2>0 DEF TypeOK, boot, stores, work, Up, Ended
  <2>2. BootInv'
    BY <1>0, <2>0 DEF BootInv, boot, Loaded, Traced, Built
  <2>3. \A r \in Requests : RequestOK(r)'
    <3>1. proc # "killed"
      BY <1>1 DEF Signal, Booting
    <3> QED
      BY <1>0, <2>0, <3>1 DEF RequestOK, work
  <2> QED
    BY <2>1, <2>2, <2>3 DEF IInv
<1>2. CASE Exit
  <2>1. TypeOK'
    BY <1>0, <1>2 DEF TypeOK, Exit, boot, stores, work, Up, Ended
  <2>2. BootInv'
    BY <1>0, <1>2 DEF BootInv, Exit, boot, Loaded, Traced, Built
  <2>3. \A r \in Requests : RequestOK(r)'
    BY <1>0, <1>2 DEF RequestOK, Exit, work
  <2> QED
    BY <2>1, <2>2, <2>3 DEF IInv
<1>3. CASE Kill
  <2>1. TypeOK'
    BY <1>0, <1>3 DEF TypeOK, Kill, boot, stores, Up, Ended, Answers
  <2>2. BootInv'
    BY <1>0, <1>3 DEF BootInv, Kill, boot, Loaded, Traced, Built
  <2>3. \A r \in Requests : RequestOK(r)'
    BY <1>0, <1>3 DEF TypeOK, RequestOK, Kill, Live
  <2> QED
    BY <2>1, <2>2, <2>3 DEF IInv
<1>4. CASE RedisTurns
  <2>1. TypeOK'
    BY <1>0, <1>4 DEF TypeOK, RedisTurns, Other, boot, work
  <2>2. BootInv' /\ \A r \in Requests : RequestOK(r)'
    BY <1>0, <1>4 DEF BootInv, RequestOK, RedisTurns, boot, work
  <2> QED
    BY <2>1, <2>2 DEF IInv
<1>5. CASE PostgresTurns
  <2>1. TypeOK'
    BY <1>0, <1>5 DEF TypeOK, PostgresTurns, Other, boot, work
  <2>2. BootInv' /\ \A r \in Requests : RequestOK(r)'
    BY <1>0, <1>5 DEF BootInv, RequestOK, PostgresTurns, boot, work
  <2> QED
    BY <2>1, <2>2 DEF IInv
<1> QED
  BY <1>1, <1>2, <1>3, <1>4, <1>5

\* The invariant is inductive.
LEMMA NextIInv == IInv /\ [Next]_vars => IInv'
<1> SUFFICES ASSUME IInv, [Next]_vars PROVE IInv'
  OBVIOUS
<1>1. CASE UNCHANGED vars
  BY <1>1 DEF IInv, TypeOK, BootInv, RequestOK, vars, boot, stores, work
<1>2. CASE Next
  BY <1>2, BootSteps, HandleSteps, ProcessSteps DEF Next
<1> QED
  BY <1>1, <1>2

\* The invariant holds in every state of every behaviour.
THEOREM Invariant == Spec => []IInv
  BY InitIInv, NextIInv, PTL DEF Spec

\* Every variable keeps its type.
THEOREM Typed == Spec => []TypeOK
<1>1. IInv => TypeOK
  BY DEF IInv
<1> QED
  BY <1>1, Invariant, PTL

\* The process never serves with a configuration a check of the boot refuses.
THEOREM ServesOnlyChecked == Spec => []FailsClosed
<1>1. IInv => FailsClosed
  <2> SUFFICES ASSUME IInv, proc \in Up PROVE FailsClosed
    BY DEF FailsClosed
  <2>1. /\ conf = Merged(env, file) /\ Extracts(conf)
        /\ conf["filter"] = "directives"
        /\ conf["totp_key"] = "hex32" /\ SenderBuilds(conf)
    BY DEF IInv, BootInv, Up, Loaded, Traced, Built
  <2>2. /\ {"pepper", "totp_key"} \subseteq DOMAIN conf
        /\ DOMAIN conf \subseteq Known
        /\ conf["mode"] \in {"log", "smtp"}
    BY <2>1 DEF Extracts, Required, Known
  <2>3. conf["mode"] = "smtp" => "from_address" \in DOMAIN conf /\ conf["from_address"] = "mailbox"
    BY <2>1 DEF SenderBuilds
  <2> QED
    BY <2>1, <2>2, <2>3 DEF FailsClosed
<1> QED
  BY <1>1, Invariant, PTL

\* A success means a committed row and a 403 none, whatever fails meanwhile.
THEOREM TellsTheTruth == Spec => []AnswersTruly
<1>1. IInv => AnswersTruly
  BY DEF IInv, RequestOK, AnswersTruly
<1> QED
  BY <1>1, Invariant, PTL

-----------------------------------------------------------------------------
(* What StopsWhenTold needs of the steps, beside fairness *)

\* A handler that nothing outside it can hold up: the timer of its layer may
\* drop it, or it is at one of the two steps of /healthz, which wait for nothing.
EndsByItself(r) == kind[r] # "health" \/ stage[r] \in {"guard", "work"}

NobodyHangs == \A r \in Requests : stage[r] \in Live => EndsByItself(r)

\* /healthz has neither a session nor a statement of its own.
HealthOK(r) == kind[r] = "health" => stage[r] \notin {"extract", "audit", "session"}

\* While it drains the process takes no request in and none begins again.
DrainOnlyShrinks ==
    [][proc = "draining" =>
           \A r \in Requests : stage[r] \notin Live => stage'[r] \notin Live]_vars

\* What a step of one request does to the stages: its own goes on or ends, from
\* "none" only as it is accepted, from "over" never.
LEMMA StageSteps ==
    ASSUME IInv, NEW r \in Requests, Handle(r)
    PROVE  /\ \A q \in Requests \ {r} : stage'[q] = stage[q] /\ kind'[q] = kind[q]
           /\ \/ stage'[r] \in {stage[r], "over"} /\ kind'[r] = kind[r]
              \/ proc = "serving" /\ stage[r] = "none" /\ stage'[r] = "guard"
              \/ /\ stage[r] = "guard" /\ kind'[r] = kind[r]
                 /\ stage'[r] \in Entries(kind[r])
              \/ stage[r] = "extract" /\ stage'[r] = "work" /\ kind'[r] = kind[r]
              \/ /\ stage[r] = "work" /\ stage'[r] = "audit"
                 /\ kind[r] \in Writing /\ kind'[r] = kind[r]
              \/ /\ stage[r] = "audit" /\ stage'[r] = "session"
                 /\ kind[r] = "open" /\ kind'[r] = kind[r]
<1>0. stage \in [Requests -> Live \cup {"none", "over"}] /\ kind \in [Requests -> Kinds]
  BY DEF IInv, TypeOK
<1>1. ASSUME NEW k \in Kinds, Accept(r, k)
      PROVE  /\ \A q \in Requests \ {r} : stage'[q] = stage[q] /\ kind'[q] = kind[q]
             /\ proc = "serving" /\ stage[r] = "none" /\ stage'[r] = "guard"
  BY <1>0, <1>1 DEF Accept, Goes
<1>2. ASSUME NEW s \in {"work", "extract", "audit", "session"}, Goes(r, s), UNCHANGED kind
      PROVE  /\ \A q \in Requests \ {r} : stage'[q] = stage[q] /\ kind'[q] = kind[q]
             /\ stage'[r] = s /\ kind'[r] = kind[r]
  BY <1>0, <1>2 DEF Goes
<1>3. ASSUME NEW a, Over(r, a) \/ UNCHANGED <<stage, answer>>, UNCHANGED kind
      PROVE  /\ \A q \in Requests \ {r} : stage'[q] = stage[q] /\ kind'[q] = kind[q]
             /\ stage'[r] \in {stage[r], "over"} /\ kind'[r] = kind[r]
  BY <1>0, <1>3 DEF Over
<1>4. CASE GuardPasses(r)
  <2>1. stage[r] = "guard" /\ UNCHANGED kind /\ \E s \in Entries(kind[r]) : Goes(r, s)
    BY <1>4 DEF GuardPasses
  <2>2. Entries(kind[r]) \subseteq {"work", "extract"}
    BY DEF Entries
  <2> QED
    BY <1>2, <2>1, <2>2
<1>5. CASE Extract(r)
  BY <1>2, <1>3, <1>5 DEF Extract
<1>6. CASE StatementEnds(r)
  <2>1. UNCHANGED kind /\ Proceeds(r)
    BY <1>6 DEF StatementEnds
  <2>2. CASE stage[r] = "work" /\ kind[r] \in Writing
    BY <1>2, <2>1, <2>2 DEF Proceeds
  <2>3. CASE stage[r] = "over" \/ (stage[r] = "work" /\ kind[r] \notin Writing)
    BY <1>3, <2>1, <2>3 DEF Proceeds
  <2>4. CASE stage[r] = "audit"
    BY <1>2, <1>3, <2>1, <2>4 DEF Proceeds, Audited
  <2>5. stage[r] \in {"work", "audit", "over"}
    BY <1>0, <1>6 DEF IInv, RequestOK, StatementEnds, Live
  <2> QED
    BY <2>2, <2>3, <2>4, <2>5
<1>7. CASE AcquireFails(r) \/ StatementBreaks(r)
  <2>1. UNCHANGED kind /\ Fails(r)
    BY <1>7 DEF AcquireFails, StatementBreaks
  <2>2. CASE stage[r] = "audit"
    BY <1>2, <1>3, <2>1, <2>2 DEF Fails, Audited
  <2>3. CASE stage[r] # "audit"
    <3>1. \E a : Over(r, a) \/ UNCHANGED <<stage, answer>>
      BY <2>1, <2>3 DEF Fails
    <3> QED
      BY <1>3, <2>1, <3>1
  <2> QED
    BY <2>2, <2>3
<1>8. CASE Send(r)
  BY <1>8 DEF Send
<1>9. CASE \/ GuardRefuses(r) \/ Healthz(r) \/ OpenSession(r)
           \/ Timeout(r) \/ Leave(r) \/ Panic(r)
  BY <1>3, <1>9 DEF GuardRefuses, Healthz, OpenSession, Timeout, Leave, Panic
<1> QED
  BY <1>1, <1>4, <1>5, <1>6, <1>7, <1>8, <1>9 DEF Handle

\* The steps of the process and of the stores move no request, but for the end
\* of all of them when it is killed.
LEMMA StagesKept ==
    ASSUME TypeOK, \/ Load \/ InitTelemetry \/ NewState \/ Bind
                   \/ Signal \/ Exit \/ Kill \/ RedisTurns \/ PostgresTurns
    PROVE  \A r \in Requests : stage'[r] \in {stage[r], "over"} /\ kind'[r] = kind[r]
  BY DEF TypeOK, Load, InitTelemetry, NewState, Bind, BootStep, Signal, Exit, Kill,
         RedisTurns, PostgresTurns, work

\* No handler of a draining process waits for something that may never come.
THEOREM NobodyEverHangs == Spec => []NobodyHangs
<1> DEFINE J == IInv /\ \A r \in Requests : HealthOK(r)
<1>1. Init => J
  BY InitIInv DEF Init, HealthOK
<1>2. J /\ [Next]_vars => J'
  <2> SUFFICES ASSUME J, [Next]_vars PROVE J'
    OBVIOUS
  <2>1. IInv'
    BY NextIInv
  <2>2. CASE UNCHANGED vars
    BY <2>1, <2>2 DEF HealthOK, vars, work
  <2>3. ASSUME NEW r \in Requests, Handle(r) PROVE J'
    BY <2>1, <2>3, StageSteps DEF HealthOK, Entries, Writing
  <2>4. CASE \/ Load \/ InitTelemetry \/ NewState \/ Bind
             \/ Signal \/ Exit \/ Kill \/ RedisTurns \/ PostgresTurns
    BY <2>1, <2>4, StagesKept DEF IInv, HealthOK
  <2> QED
    BY <2>2, <2>3, <2>4 DEF Next
<1>3. J => NobodyHangs
  BY DEF HealthOK, NobodyHangs, EndsByItself, Live
<1> HIDE DEF J
<1> QED
  BY <1>1, <1>2, <1>3, PTL DEF Spec

\* A drain only ever has fewer handlers to wait for; as each can end by itself
\* (NobodyEverHangs), the fairness of the timers is all it takes to stop.
THEOREM DrainShrinks == Spec => DrainOnlyShrinks
<1>1. ASSUME IInv, [Next]_vars, proc = "draining",
             NEW r \in Requests, stage[r] \notin Live
      PROVE  stage'[r] \notin Live
  <2>0. TypeOK
    BY <1>1 DEF IInv
  <2>1. CASE UNCHANGED vars
    BY <1>1, <2>1 DEF vars, work
  <2>2. ASSUME NEW q \in Requests, Handle(q) PROVE stage'[r] \notin Live
    BY <1>1, <2>0, <2>2, StageSteps DEF Live
  <2>3. CASE \/ Load \/ InitTelemetry \/ NewState \/ Bind
             \/ Signal \/ Exit \/ Kill \/ RedisTurns \/ PostgresTurns
    BY <1>1, <2>0, <2>3, StagesKept DEF Live
  <2> QED
    BY <1>1, <2>1, <2>2, <2>3 DEF Next
<1>2. IInv /\ [Next]_vars =>
          [proc = "draining" =>
               \A r \in Requests : stage[r] \notin Live => stage'[r] \notin Live]_vars
  BY <1>1
<1> QED
  BY <1>2, Invariant, PTL DEF Spec, DrainOnlyShrinks
=============================================================================
