------------------------------- MODULE Server -------------------------------
(***************************************************************************)
(* The life of the api process and of the requests in it: main loads the   *)
(* layered configuration, builds the state, binds and serves until a       *)
(* signal, with every handler inside the layers of build_app.              *)
(*                                                                         *)
(* A request is cut at its awaits: the CSRF guard's look-up in Redis, the  *)
(* extractor's, the statement in Postgres, the audit event, the session of *)
(* a sign-up.  Between two of them the timeout layer may answer 408, the   *)
(* client may hang up, a store may go down, the process may be told to     *)
(* stop or be killed.  What a handler writes is one statement here;        *)
(* Properties, Invites and Totp model what is in it, Sessions what the     *)
(* look-ups say.                                                           *)
(***************************************************************************)
EXTENDS Naturals, FiniteSets, Sequences, TLC

CONSTANTS
    Requests,     \* the requests that may arrive
    PoolSize,     \* database.max_connections
    EnvLayers,    \* what the APP_ environment variables may set
    FileLayers    \* what the file at APP_CONFIG_FILE may set

ASSUME PoolAssumption == PoolSize \in Nat \ {0}

VARIABLES
    env,          \* the layer of the environment
    file,         \* the layer of the file
    conf,         \* the configuration main has loaded
    proc,         \* where the process stands
    redis,        \* "up" or "down"
    postgres,     \* "up" or "down"
    kind,         \* what each request is
    stage,        \* the await its handler is at
    sent,         \* its statement that Postgres is executing, on a connection
    wrote,        \* the requests whose row is committed
    answer        \* what became of it

boot == <<env, file, conf>>
stores == <<redis, postgres>>
work == <<kind, stage, sent, wrote, answer>>
vars == <<boot, proc, stores, work>>

-----------------------------------------------------------------------------
(* Config::load *)

\* One key stands for smtp_host and smtp_port.  "config_file" is what the
\* variable APP_CONFIG_FILE is called once its prefix is stripped.
Known == {"pepper", "totp_key", "mode", "smtp_relay", "from_address",
          "filter", "database_url"}
Required == Known \ {"smtp_relay", "from_address"}

\* default.toml, embedded in the binary: no secret in it.
Default == [mode |-> "log", filter |-> "directives", database_url |-> "url"]

Overlay(e, f) == IF "config_file" \in DOMAIN e THEN f ELSE <<>>

\* The later layer wins.
Merged(e, f) == (e @@ Overlay(e, f)) @@ Default

\* Every field without a default must be there and no other may be
\* (deny_unknown_fields).
Extracts(c) ==
    /\ Required \subseteq DOMAIN c
    /\ DOMAIN c \subseteq Known
    /\ c["mode"] \in {"log", "smtp"}

\* email::build_sender
SenderBuildsAnyhow(c) == TRUE

SenderBuilds(c) ==
    c["mode"] = "smtp" => /\ {"smtp_relay", "from_address"} \subseteq DOMAIN c
                          /\ c["from_address"] = "mailbox"

-----------------------------------------------------------------------------
Booting == {"loading", "tracing", "building", "binding"}
Up == {"serving", "draining"}
Ended == {"failed", "stopped", "killed"}
\* "open" is an unsafe request without a session cookie: a sign-up, or a write
\* whose user is not logged in.
Kinds == {"health", "read", "write", "open"}
Writing == {"write", "open"}
Live == {"guard", "extract", "work", "audit", "session"}
Answers == {"ok", "refused", "error", "timeout", "panic", "left", "lost"}

TypeOK ==
    /\ env \in EnvLayers
    /\ file \in FileLayers \cup {<<>>}
    /\ conf \in {Default, Merged(env, file)}
    /\ proc \in Booting \cup Up \cup Ended
    /\ redis \in {"up", "down"} /\ postgres \in {"up", "down"}
    /\ kind \in [Requests -> Kinds]
    /\ stage \in [Requests -> Live \cup {"none", "over"}]
    /\ sent \in [Requests -> {"none", "work", "audit"}]
    /\ wrote \subseteq Requests
    /\ answer \in [Requests -> Answers \cup {"none"}]

Init ==
    /\ env \in EnvLayers
    /\ file \in (IF "config_file" \in DOMAIN env THEN FileLayers ELSE {<<>>})
    /\ conf = Default
    /\ proc = "loading"
    /\ redis \in {"up", "down"} /\ postgres \in {"up", "down"}
    /\ kind = [r \in Requests |-> "health"]
    /\ stage = [r \in Requests |-> "none"]
    /\ sent = [r \in Requests |-> "none"]
    /\ wrote = {}
    /\ answer = [r \in Requests |-> "none"]

-----------------------------------------------------------------------------
(* main, up to axum::serve *)

BootStep(from, to, ok) ==
    /\ proc = from
    /\ proc' = IF ok THEN to ELSE "failed"
    /\ UNCHANGED <<stores, work>>

LoadWithoutFile ==
    /\ conf' = env @@ Default
    /\ BootStep("loading", "tracing", Extracts(env @@ Default))
    /\ UNCHANGED <<env, file>>

Load ==
    /\ conf' = Merged(env, file)
    /\ BootStep("loading", "tracing", Extracts(Merged(env, file)))
    /\ UNCHANGED <<env, file>>

\* telemetry::init
InitTelemetry ==
    /\ BootStep("tracing", "building", conf["filter"] = "directives")
    /\ UNCHANGED boot

\* AppState::new: the pool is lazy, so Postgres may be down; Redis may not.
NewState ==
    /\ BootStep("building", "binding",
                /\ conf["database_url"] = "url"
                /\ redis = "up"
                /\ conf["totp_key"] = "hex32"
                /\ SenderBuilds(conf))
    /\ UNCHANGED boot

Bind ==
    /\ \E free \in BOOLEAN : BootStep("binding", "serving", free)
    /\ UNCHANGED boot

-----------------------------------------------------------------------------
(* One request *)

Busy == Cardinality({r \in Requests : sent[r] # "none"})

\* The handler is gone and the answer, if any, is on the wire.  A statement
\* Postgres has been sent goes on there, and keeps its connection.
Over(r, a) ==
    /\ stage' = [stage EXCEPT ![r] = "over"]
    /\ answer' = [answer EXCEPT ![r] = a]

Goes(r, s) ==
    /\ stage' = [stage EXCEPT ![r] = s]
    /\ answer' = answer

Accept(r, k) ==
    /\ proc = "serving"
    /\ stage[r] = "none"
    /\ kind' = [kind EXCEPT ![r] = k]
    /\ Goes(r, "guard")
    /\ UNCHANGED <<boot, proc, stores, sent, wrote>>

\* healthz has no extractor, nor has a sign-up.
Entries(k) ==
    CASE k = "health" -> {"work"}
      [] k = "open"   -> {"work", "extract"}
      [] OTHER        -> {"extract"}

\* csrf::guard lets a safe method by, and a request without the cookie,
\* without looking a session up.
GuardPasses(r) ==
    /\ stage[r] = "guard"
    /\ kind[r] = "write" => redis = "up"
    /\ \E s \in Entries(kind[r]) : Goes(r, s)
    /\ UNCHANGED <<boot, proc, stores, kind, sent, wrote>>

\* An error of Redis is a 403 like any other failed look-up.
GuardRefuses(r) ==
    /\ stage[r] = "guard"
    /\ kind[r] = "write" /\ redis = "down"
    /\ Over(r, "refused")
    /\ UNCHANGED <<boot, proc, stores, kind, sent, wrote>>

\* AuthenticatedUser: without a cookie a 401 whatever Redis does, with one the
\* same look-up as the guard's, whose Backend error is a 500.
Extract(r) ==
    /\ stage[r] = "extract"
    /\ \/ kind[r] = "open" /\ Over(r, "refused")
       \/ kind[r] # "open" /\ redis = "up" /\ Goes(r, "work")
       \/ kind[r] # "open" /\ redis = "down" /\ Over(r, "error")
    /\ UNCHANGED <<boot, proc, stores, kind, sent, wrote>>

\* GET /healthz touches no store.
Healthz(r) ==
    /\ stage[r] = "work" /\ kind[r] = "health"
    /\ Over(r, "ok")
    /\ UNCHANGED <<boot, proc, stores, kind, sent, wrote>>

Waiting(r) == stage[r] \in {"work", "audit"} /\ kind[r] # "health" /\ sent[r] = "none"

Send(r) ==
    /\ Waiting(r)
    /\ Busy < PoolSize /\ postgres = "up"
    /\ sent' = [sent EXCEPT ![r] = stage[r]]
    /\ UNCHANGED <<boot, proc, stores, kind, stage, wrote, answer>>

FailsQuietly(r) ==
    IF stage[r] = "over" THEN UNCHANGED <<stage, answer>> ELSE Over(r, "ok")

\* Only a sign-up has something left to do after the audit event.
Audited(r) == IF kind[r] = "open" THEN Goes(r, "session") ELSE Over(r, "ok")

\* A failed statement is the handler's error; a failed audit is only logged.
Fails(r) ==
    CASE stage[r] = "work"  -> Over(r, "error")
      [] stage[r] = "audit" -> Audited(r)
      [] OTHER              -> UNCHANGED <<stage, answer>>

\* acquire_timeout: no connection came free in time, or none can be opened.
AcquireFails(r) ==
    /\ Waiting(r)
    /\ Busy >= PoolSize \/ postgres = "down"
    /\ Fails(r)
    /\ UNCHANGED <<boot, proc, stores, kind, sent, wrote>>

Wrote(r) ==
    IF kind[r] \in Writing /\ sent[r] = "work" THEN wrote \cup {r} ELSE wrote

Proceeds(r) ==
    CASE stage[r] = "over"                            -> UNCHANGED <<stage, answer>>
      [] stage[r] = "work" /\ kind[r] \in Writing     -> Goes(r, "audit")
      [] stage[r] = "work" /\ kind[r] \notin Writing  -> Over(r, "ok")
      [] stage[r] = "audit"                           -> Audited(r)

\* The connection goes back to the pool, whether the handler is there or not.
StatementEnds(r) ==
    /\ sent[r] # "none"
    /\ postgres = "up"
    /\ wrote' = Wrote(r)
    /\ sent' = [sent EXCEPT ![r] = "none"]
    /\ Proceeds(r)
    /\ UNCHANGED <<boot, proc, stores, kind>>

\* The connection breaks: the statement may have been executed or not.
StatementBreaks(r) ==
    /\ sent[r] # "none"
    /\ postgres = "down"
    /\ wrote' \in {wrote, Wrote(r)}
    /\ sent' = [sent EXCEPT ![r] = "none"]
    /\ Fails(r)
    /\ UNCHANGED <<boot, proc, stores, kind>>

\* The session of whoever signed up is created in Redis, then their memberships
\* are read: either may fail although the account is there.
OpenSession(r) ==
    /\ stage[r] = "session"
    /\ \/ redis = "up" /\ Over(r, "ok")
       \/ Over(r, "error")
    /\ UNCHANGED <<boot, proc, stores, kind, sent, wrote>>

\* TimeoutLayer: the future of everything inside it is dropped.  healthz
\* never waits, so it is never late.
TimeoutInsideGuard(r) ==
    /\ stage[r] \in Live \ {"guard"} /\ kind[r] # "health"
    /\ Over(r, "timeout")
    /\ UNCHANGED <<boot, proc, stores, kind, sent, wrote>>

Timeout(r) ==
    /\ stage[r] \in Live /\ kind[r] # "health"
    /\ Over(r, "timeout")
    /\ UNCHANGED <<boot, proc, stores, kind, sent, wrote>>

Leave(r) ==
    /\ stage[r] \in Live
    /\ Over(r, "left")
    /\ UNCHANGED <<boot, proc, stores, kind, sent, wrote>>

\* CatchPanicLayer
Panic(r) ==
    /\ stage[r] \in Live /\ kind[r] # "health"
    /\ Over(r, "panic")
    /\ UNCHANGED <<boot, proc, stores, kind, sent, wrote>>

-----------------------------------------------------------------------------
(* The end of the process, and the stores *)

\* SIGINT or SIGTERM.  shutdown_signal is first polled by axum::serve: before
\* that the signal has its default effect.
Signal ==
    \/ proc = "serving" /\ proc' = "draining" /\ UNCHANGED <<boot, stores, work>>
    \/ proc \in Booting /\ proc' = "killed" /\ UNCHANGED <<boot, stores, work>>

\* with_graceful_shutdown: no connection is accepted any more and serve
\* returns when those it has are done.
Exit ==
    /\ proc = "draining"
    /\ \A r \in Requests : stage[r] \notin Live
    /\ proc' = "stopped"
    /\ UNCHANGED <<boot, stores, work>>

\* SIGKILL, out of memory: every handler stops where it is.
Kill ==
    /\ proc \in Up
    /\ proc' = "killed"
    /\ stage' = [r \in Requests |-> IF stage[r] \in Live THEN "over" ELSE stage[r]]
    /\ answer' = [r \in Requests |-> IF stage[r] \in Live THEN "lost" ELSE answer[r]]
    /\ UNCHANGED <<boot, stores, kind, sent, wrote>>

Other(s) == IF s = "up" THEN "down" ELSE "up"

RedisTurns == redis' = Other(redis) /\ UNCHANGED <<boot, proc, postgres, work>>
PostgresTurns == postgres' = Other(postgres) /\ UNCHANGED <<boot, proc, redis, work>>

Handle(r) ==
    \/ \E k \in Kinds : Accept(r, k)
    \/ GuardPasses(r) \/ GuardRefuses(r) \/ Extract(r) \/ Healthz(r)
    \/ Send(r) \/ AcquireFails(r) \/ StatementEnds(r) \/ StatementBreaks(r)
    \/ OpenSession(r)
    \/ Timeout(r) \/ Leave(r) \/ Panic(r)

Next ==
    \/ Load \/ InitTelemetry \/ NewState \/ Bind
    \/ \E r \in Requests : Handle(r)
    \/ Signal \/ Exit \/ Kill
    \/ RedisTurns \/ PostgresTurns

Spec == Init /\ [][Next]_vars

\* tokio polls what is ready and its timers fire; serve returns once the last
\* connection is done.  Nothing is assumed of Redis, of Postgres or of how
\* long a statement takes.
Fairness ==
    /\ WF_vars(Exit)
    /\ \A r \in Requests :
           /\ WF_vars(Timeout(r))
           /\ WF_vars(kind[r] = "health" /\ (GuardPasses(r) \/ Healthz(r)))

FairSpec == Spec /\ Fairness

-----------------------------------------------------------------------------
(* Properties *)

\* Whatever the layers of the configuration hold, no request is served
\* without both secrets, with a TOTP key that is not 32 bytes, a sender that
\* cannot send, a filter that does not parse or a variable that is not a
\* setting (config.rs:116, email/mod.rs:50): main has gone through every
\* check of the boot with the configuration it serves with.
FailsClosed ==
    proc \in Up =>
        /\ conf = Merged(env, file)
        /\ {"pepper", "totp_key"} \subseteq DOMAIN conf
        /\ DOMAIN conf \subseteq Known
        /\ conf["totp_key"] = "hex32"
        /\ conf["filter"] = "directives"
        /\ conf["mode"] = "smtp" =>
               "from_address" \in DOMAIN conf /\ conf["from_address"] = "mailbox"

\* A success says that the row is there, a 403 of the guard or a 401 of the
\* extractor that it is not and never will be, even when the stores go up and
\* down and answers are cut short; of a 408, a 500 or a client that left
\* nothing can be said.
AnswersTruly ==
    \A r \in Requests :
        kind[r] \in Writing =>
            /\ answer[r] = "ok" => r \in wrote
            /\ answer[r] = "refused" => r \notin wrote /\ sent[r] = "none"

\* A process that is told to stop does, whatever its requests are waiting
\* for: nothing but the timeout bounds a statement or a look-up.
StopsWhenTold == proc = "draining" ~> proc \in Ended
=============================================================================
