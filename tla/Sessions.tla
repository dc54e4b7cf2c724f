------------------------------ MODULE Sessions ------------------------------
(***************************************************************************)
(* The session layer of the API (apps/api/src/session/) and the handlers   *)
(* that drive it: sign-up and login, logout, the second-factor step-up and *)
(* its removal, and any other authenticated route.                         *)
(*                                                                         *)
(* Every request runs on its own.  An action is one await: one command     *)
(* sent to Redis, or one database read whose failure matters.  Redis runs  *)
(* a command atomically but may fail, and a failed write may or may not    *)
(* have been carried out.  A request may also stop at any await (request   *)
(* timeout, client gone), and its response may be lost.  A command already *)
(* handed to the connection outlives its request: Redis carries it out     *)
(* later, or it is lost.                                                   *)
(*                                                                         *)
(* One browser sends all requests (several tabs), so they share a cookie.  *)
(* The CSRF token of a session is drawn with its identifier, so a request  *)
(* is modelled by whether its X-CSRF-Token is that of the session its      *)
(* cookie names.                                                           *)
(***************************************************************************)
EXTENDS Naturals, FiniteSets

CONSTANTS
    Sids,             \* identifiers the generator can draw, each at most once
    NoSid,            \* no identifier
    NoSession,        \* nothing stored under a key
    Requests,         \* requests that run concurrently
    IdleTtl,          \* idle_ttl, in ticks of the clock
    AbsoluteTtl,      \* absolute_ttl
    RequestTimeout,   \* request_timeout_secs
    RedisLag,         \* how long Redis may sit on a command whose request is gone
    MaxBusy,          \* bound: requests and such commands at a time
    MaxTime           \* bound: the clock stops there

ASSUME TtlAssumption ==
    /\ IdleTtl \in Nat \ {0}
    /\ AbsoluteTtl \in Nat \ {0}
    /\ RequestTimeout \in Nat \ {0}
    /\ {RedisLag, MaxBusy, MaxTime} \subseteq Nat

\* SessionData (the parts that are ever read again), and its key in Redis.
Data == [mfa : BOOLEAN, absolute : Nat]
Entry == [mfa : BOOLEAN, absolute : Nat, idle : Nat]
Stored == Entry \cup {NoSession}

ASSUME NullAssumption == NoSid \notin Sids /\ NoSession \notin Data \cup Entry

VARIABLES
    now,       \* wall clock
    store,     \* Redis: what is stored under session:<sid>
    used,      \* the identifiers saved so far
    jar,       \* the browser's lc_sid cookie and when Max-Age drops it
    req,       \* where each request stands, with its local variables
    late       \* commands on their way to Redis whose request is gone

vars == <<now, store, used, jar, req, late>>

Cookie == Sids \cup {NoSid}

Kinds == {"login", "read", "write", "logout", "verify", "disable"}
Unsafe == Kinds \ {"read"}       \* csrf.rs is_safe: every method but GET

\* "load", "evict" and "touch" are the awaits of SessionService::lookup, "run"
\* the handler, "retire" and "undo" the two deletions of verify_mfa, "context"
\* the reads between the new session and its Set-Cookie.
Handling == {"run", "retire", "undo", "context"}
Serving == {"load", "evict", "touch"} \cup Handling
Replies == {"none", "clear", "issue"}

Request == [pc : Serving \cup {"idle", "reply"},
            kind : Kinds,
            cookie : Cookie,              \* the lc_sid it carries
            token : BOOLEAN,              \* its X-CSRF-Token is that session's
            at : Nat,                     \* when it arrived
            gate : {"guard", "extract"},  \* whose lookup it is in
            data : Data \cup {NoSession}, \* the session a lookup loaded
            fresh : Cookie,               \* the session it created
            reply : Replies]              \* the Set-Cookie of its response

NoReq == [pc |-> "idle", kind |-> "read", cookie |-> NoSid, token |-> FALSE, at |-> 0,
          gate |-> "guard", data |-> NoSession, fresh |-> NoSid, reply |-> "none"]

\* save draws its own identifier; the other two name the key they are for.
Command == [op : {"save", "touch", "destroy"},
            sid : Cookie,
            data : Data \cup {NoSession},
            by : Nat]                     \* Redis has it carried out by then

NoCookie == [sid |-> NoSid, until |-> 0]

TypeOK ==
    /\ now \in Nat
    /\ store \in [Sids -> Stored]
    /\ used \subseteq Sids
    /\ jar \in [sid : Cookie, until : Nat]
    /\ req \in [Requests -> Request]
    /\ late \subseteq Command

Init ==
    /\ now = 0
    /\ store = [s \in Sids |-> NoSession]
    /\ used = {}
    /\ jar = NoCookie
    /\ req = [r \in Requests |-> NoReq]
    /\ late = {}

-----------------------------------------------------------------------------
(* Redis, as session/store.rs uses it *)

\* SET EX
Save(s, data) ==
    /\ store' = [store EXCEPT ![s] = [mfa |-> data.mfa, absolute |-> data.absolute,
                                      idle |-> now + IdleTtl]]
    /\ used' = used \cup {s}

\* EXPIRE, which does nothing to a key that is gone.
ExpireBySaving(s) ==
    store' = [store EXCEPT ![s] =
                 IF @ = NoSession
                 THEN [mfa |-> FALSE, absolute |-> now + AbsoluteTtl, idle |-> now + IdleTtl]
                 ELSE [@ EXCEPT !.idle = now + IdleTtl]]

Expire(s) ==
    store' = [store EXCEPT ![s] =
                 IF @ = NoSession THEN @ ELSE [@ EXCEPT !.idle = now + IdleTtl]]

Del(s) == store' = [store EXCEPT ![s] = NoSession]

\* GET: the payload, the TTL aside.
PayloadWithTtl(s) == store[s]

Payload(s) == [mfa |-> store[s].mfa, absolute |-> store[s].absolute]

-----------------------------------------------------------------------------
(* Commands that outlive their request *)

Runs(r, kinds) == req[r].pc = "run" /\ req[r].kind \in kinds

\* logout, and disable on a session with the second factor: delete the
\* session the request came with, then clear the cookie.
Closes(r) == Runs(r, {"logout"}) \/ (Runs(r, {"disable"}) /\ req[r].data.mfa)

\* The SessionData a handler makes when it is about to save it: login and
\* sign-up open a session without the second factor, the step-up one with it.
Opened(r) ==
    {[mfa |-> req[r].kind = "verify", absolute |-> made + AbsoluteTtl] : made \in req[r].at .. now}

LeaveBehind(op, s, data) ==
    late' = late \cup {[op |-> op, sid |-> s, data |-> data, by |-> now + RedisLag]}

\* The write a request waits for stays with the connection when the request
\* is gone.
Abandon(r) ==
    \/ req[r].pc = "touch" /\ LeaveBehind("touch", req[r].cookie, NoSession)
    \/ /\ req[r].pc \in {"evict", "retire"} \/ Closes(r)
       /\ LeaveBehind("destroy", req[r].cookie, NoSession)
    \/ req[r].pc = "undo" /\ LeaveBehind("destroy", req[r].fresh, NoSession)
    \/ /\ Runs(r, {"login", "verify"})
       /\ \E data \in Opened(r) : LeaveBehind("save", NoSid, data)

\* A write that reports an error was carried out, was not, or will be.
Uncertain(r, write) ==
    \/ write /\ UNCHANGED late
    \/ UNCHANGED <<store, late>>
    \/ UNCHANGED store /\ Abandon(r)

\* Redis carries it out, or it was lost with the connection.
RunLate(c) ==
    /\ late' = late \ {c}
    /\ \/ c.op = "save" /\ \E s \in Sids \ used : Save(s, c.data)
       \/ c.op = "touch" /\ Expire(c.sid) /\ UNCHANGED used
       \/ c.op = "destroy" /\ Del(c.sid) /\ UNCHANGED used
       \/ UNCHANGED <<store, used>>
    /\ UNCHANGED <<now, jar, req>>

-----------------------------------------------------------------------------
(* Responses *)

Goto(r, where) == req' = [req EXCEPT ![r].pc = where]

\* A response without Set-Cookie, whatever its status: the locals of the handler
\* are gone, and nothing changes when the browser has it.
Answer(r) == req' = [req EXCEPT ![r] = NoReq]

\* One that sets or clears the cookie.
AnswerCookie(r, reply) ==
    req' = [req EXCEPT ![r] = [NoReq EXCEPT !.pc = "reply", !.reply = reply, !.kind = req[r].kind,
                                            !.cookie = req[r].cookie, !.fresh = req[r].fresh]]

-----------------------------------------------------------------------------
(* A request arrives: csrf.rs guard, then the AuthenticatedUser extractor *)

\* The guard looks a session up for an unsafe method with a cookie, the
\* extractor for every route but login and sign-up: 401 without a cookie.
Send(r) ==
    /\ req[r].pc = "idle"
    /\ Cardinality({o \in Requests : req[o].pc # "idle"}) + Cardinality(late) < MaxBusy
    /\ \E k \in Kinds, t \in BOOLEAN :
          IF jar.sid = NoSid /\ k # "login" THEN Answer(r)
          ELSE req' = [req EXCEPT ![r] = [NoReq EXCEPT
                          !.pc = IF jar.sid = NoSid THEN "run" ELSE "load",
                          !.kind = k, !.cookie = jar.sid, !.token = t /\ k # "read", !.at = now,
                          !.gate = IF k \in Unsafe THEN "guard" ELSE "extract"]]
    /\ UNCHANGED <<now, store, used, jar, late>>

\* Past the guard: the handler of login and sign-up takes no AuthenticatedUser.
PassGuard(r) ==
    IF req[r].kind = "login" THEN Goto(r, "run")
    ELSE req' = [req EXCEPT ![r].pc = "load", ![r].gate = "extract"]

\* The guard turns every failed lookup into a 403; the extractor into a 401,
\* or a 500 when Redis failed.
RefuseInExtractorOnly(r) == IF req[r].gate = "guard" THEN PassGuard(r) ELSE Answer(r)

Refuse(r) == Answer(r)

\* lookup: GET, then the absolute deadline.
LoadPastDeadline(r) ==
    /\ req[r].pc = "load"
    /\ store[req[r].cookie] # NoSession
    /\ req' = [req EXCEPT ![r].pc = "touch", ![r].data = Payload(req[r].cookie)]
    /\ UNCHANGED <<now, store, used, jar, late>>

LoadAtDeadline(r) ==
    /\ req[r].pc = "load"
    /\ store[req[r].cookie] # NoSession
    /\ now <= store[req[r].cookie].absolute
    /\ req' = [req EXCEPT ![r].pc = "touch", ![r].data = Payload(req[r].cookie)]
    /\ UNCHANGED <<now, store, used, jar, late>>

LoadLive(r) ==
    /\ req[r].pc = "load"
    /\ store[req[r].cookie] # NoSession
    /\ now < store[req[r].cookie].absolute
    /\ req' = [req EXCEPT ![r].pc = "touch", ![r].data = Payload(req[r].cookie)]
    /\ UNCHANGED <<now, store, used, jar, late>>

LoadExpired(r) ==
    /\ req[r].pc = "load"
    /\ store[req[r].cookie] # NoSession
    /\ now >= store[req[r].cookie].absolute
    /\ Goto(r, "evict")
    /\ UNCHANGED <<now, store, used, jar, late>>

LoadNothing(r) ==
    /\ req[r].pc = "load"
    /\ store[req[r].cookie] = NoSession
    /\ Refuse(r)
    /\ UNCHANGED <<now, store, used, jar, late>>

LoadFails(r) ==
    /\ req[r].pc = "load"
    /\ Refuse(r)
    /\ UNCHANGED <<now, store, used, jar, late>>

\* Best-effort DEL of a session past its absolute deadline.
Evict(r) ==
    /\ req[r].pc = "evict"
    /\ Uncertain(r, Del(req[r].cookie))
    /\ Refuse(r)
    /\ UNCHANGED <<now, used, jar>>

\* The lookup succeeded: the guard compares the token, the extractor admits.
Touch(r) ==
    /\ req[r].pc = "touch"
    /\ Expire(req[r].cookie)
    /\ IF req[r].gate = "extract" THEN Goto(r, "run")
       ELSE IF req[r].token THEN PassGuard(r)
       ELSE Answer(r)
    /\ UNCHANGED <<now, used, jar, late>>

TouchFails(r) ==
    /\ req[r].pc = "touch"
    /\ Uncertain(r, Expire(req[r].cookie))
    /\ Refuse(r)
    /\ UNCHANGED <<now, used, jar>>

-----------------------------------------------------------------------------
(* The handlers *)

\* Any other route does its work and leaves the session alone.
Serve(r) ==
    /\ Runs(r, {"read", "write"})
    /\ Answer(r)
    /\ UNCHANGED <<now, store, used, jar, late>>

\* A disable without the second factor, a wrong password or code: the handler
\* returns before it reaches the session.
Reject(r) ==
    /\ Runs(r, {"login", "verify", "disable"})
    /\ Answer(r)
    /\ UNCHANGED <<now, store, used, jar, late>>

\* create_with_mfa
Create(r) ==
    /\ Runs(r, {"login", "verify"})
    /\ \E s \in Sids \ used, data \in Opened(r) :
          /\ Save(s, data)
          /\ req' = [req EXCEPT ![r].fresh = s,
                                ![r].pc = IF req[r].kind = "verify" THEN "retire" ELSE "context"]
    /\ UNCHANGED <<now, jar, late>>

CreateFails(r) ==
    /\ Runs(r, {"login", "verify"})
    /\ \/ (\E s \in Sids \ used, data \in Opened(r) : Save(s, data)) /\ UNCHANGED late
       \/ UNCHANGED <<store, used>> /\ (UNCHANGED late \/ Abandon(r))
    /\ Answer(r)
    /\ UNCHANGED <<now, jar>>

\* verify_mfa: the session the step-up came from goes.
RetireIgnoringErrors(r) ==
    /\ req[r].pc = "retire"
    /\ Uncertain(r, Del(req[r].cookie))
    /\ Goto(r, "context")
    /\ UNCHANGED <<now, used, jar>>

Retire(r) ==
    /\ req[r].pc = "retire"
    /\ Del(req[r].cookie)
    /\ Goto(r, "context")
    /\ UNCHANGED <<now, used, jar, late>>

RetireFails(r) ==
    /\ req[r].pc = "retire"
    /\ Uncertain(r, Del(req[r].cookie))
    /\ Goto(r, "undo")
    /\ UNCHANGED <<now, used, jar>>

\* The new session is deleted, best effort, and the error returned.
Undo(r) ==
    /\ req[r].pc = "undo"
    /\ Uncertain(r, Del(req[r].fresh))
    /\ Answer(r)
    /\ UNCHANGED <<now, used, jar>>

\* load_user_context and is_enrolled: the cookie is set only after them.
Context(r) ==
    /\ req[r].pc = "context"
    /\ AnswerCookie(r, "issue") \/ Answer(r)
    /\ UNCHANGED <<now, store, used, jar, late>>

Close(r) ==
    /\ Closes(r)
    /\ Del(req[r].cookie)
    /\ AnswerCookie(r, "clear")
    /\ UNCHANGED <<now, used, jar, late>>

CloseFails(r) ==
    /\ Closes(r)
    /\ Uncertain(r, Del(req[r].cookie))
    /\ Answer(r)
    /\ UNCHANGED <<now, used, jar>>

-----------------------------------------------------------------------------
(* The network, the browser and the clock *)

\* The browser takes the response: Set-Cookie restarts Max-Age = idle_ttl, or
\* clears the cookie.
Deliver(r) ==
    /\ req[r].pc = "reply"
    /\ jar' = IF req[r].reply = "issue" THEN [sid |-> req[r].fresh, until |-> now + IdleTtl]
              ELSE NoCookie
    /\ req' = [req EXCEPT ![r] = NoReq]
    /\ UNCHANGED <<now, store, used, late>>

\* The request is dropped at an await, or its response on its way.  What it
\* has handed to Redis by then is not taken back.
Drop(r) ==
    /\ req[r].pc # "idle"
    /\ req' = [req EXCEPT ![r] = NoReq]
    /\ UNCHANGED late \/ Abandon(r)
    /\ UNCHANGED <<now, store, used, jar>>

\* Time passes: Redis expires keys, the browser its cookie.  The timeout layer
\* has dropped every request whose time in the server is over, which stops
\* the handler and not Redis.
Tick ==
    /\ now < MaxTime
    /\ \A r \in Requests : req[r].pc \in Serving => now < req[r].at + RequestTimeout
    /\ \A c \in late : now < c.by
    /\ now' = now + 1
    /\ store' = [s \in Sids |-> IF store[s] # NoSession /\ store[s].idle <= now + 1
                                THEN NoSession ELSE store[s]]
    /\ jar' = IF jar.until <= now + 1 THEN NoCookie ELSE jar
    /\ UNCHANGED <<used, req, late>>

Next ==
    \/ \E r \in Requests :
          \/ Send(r)
          \/ LoadLive(r) \/ LoadExpired(r) \/ LoadNothing(r) \/ LoadFails(r)
          \/ Evict(r) \/ Touch(r) \/ TouchFails(r)
          \/ Serve(r) \/ Reject(r)
          \/ Create(r) \/ CreateFails(r)
          \/ Retire(r) \/ RetireFails(r) \/ Undo(r)
          \/ Context(r)
          \/ Close(r) \/ CloseFails(r)
          \/ Deliver(r) \/ Drop(r)
    \/ \E c \in late : RunLate(c)
    \/ Tick

Spec == Init /\ [][Next]_vars

-----------------------------------------------------------------------------
(* Properties *)

\* A destroyed, evicted or expired session never comes back, and its second
\* factor flag never changes: a lookup that runs beside a logout cannot revive
\* the key with its touch, and a step-up always changes the identifier.
LifeOf(s) == IF s \notin used THEN "unborn"
             ELSE IF store[s] = NoSession THEN "ended"
             ELSE IF store[s].mfa THEN "elevated"
             ELSE "plain"
Life == INSTANCE SessionLife WITH life <- [s \in Sids |-> LifeOf(s)]
ImplementsSessionLife == Life!LifeSpec

\* A state-changing handler runs on a cookie only if the request carried that
\* session's token, whatever Redis answers to the guard and to the extractor.
NoForgedWrite ==
    \A r \in Requests :
        req[r].pc \in Handling /\ req[r].kind \in Unsafe /\ req[r].cookie # NoSid => req[r].token

\* When a step-up has answered, the session it came from is gone for good,
\* whatever other requests did with it in the meantime.
RotationRetiresOld ==
    \A r \in Requests :
        req[r].pc = "reply" /\ req[r].kind = "verify" /\ req[r].reply = "issue"
        => store[req[r].cookie] = NoSession

\* The absolute cut-off counts at the lookup; with the request timeout it
\* bounds how late a handler can still act for the session.
ServedWithinHardCap ==
    \A r \in Requests :
        req[r].pc \in Handling /\ req[r].data # NoSession
        => now < req[r].data.absolute + RequestTimeout

\* However often it is touched, Redis drops a session less than an idle TTL, a
\* request and the lag of Redis after its absolute cut-off: a touch granted
\* before the cut-off may be carried out when its request is long gone.
GoneAfterHardCap ==
    \A s \in Sids : store[s] # NoSession =>
        /\ now < store[s].idle
        /\ store[s].idle < store[s].absolute + RequestTimeout + RedisLag + IdleTtl
=============================================================================
