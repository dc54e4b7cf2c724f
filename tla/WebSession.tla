----------------------------- MODULE WebSession ------------------------------
(***************************************************************************)
(* One tab of the web application (apps/web/src): the session store, the   *)
(* router's guard and the calls that change either, beside the browser's   *)
(* cookie and an API that answers as Sessions and Invites do, each call at *)
(* once.  Calls overlap, are answered in any order and may be lost; the    *)
(* user follows links meanwhile, and a call goes on after the view that    *)
(* made it is left.  A reload starts over: TabInit, with the cookie so far.*)
(*                                                                         *)
(* One user.  The CSRF token of a session is drawn with its identifier, so *)
(* the store's csrfToken is named by that identifier.                      *)
(***************************************************************************)
EXTENDS Naturals, FiniteSets

CONSTANTS
    Calls,        \* calls under way at a time
    Sids,         \* sessions, each drawn at most once
    NoSid, NoRoute,
    Retries,      \* api-client.ts: retry.limit, for a GET
    MaxClicks     \* bound: links followed and forms sent

\* "dashboard" stands for every protected route outside the MFA flow, "login"
\* for the two that are for anonymous visitors only.
Routes == {"home", "login", "dashboard", "setup", "challenge", "accept"}
requiresAuth(to) == to \in {"dashboard", "setup", "challenge"}
requiresAnonymous(to) == to = "login"
mfaFlow(to) == to \in {"setup", "challenge"}

\* Signing up is a "login" that comes first; "enroll" is 2fa/enroll/verify and
\* "join" invites/signup.
Kinds == {"me", "login", "logout", "verify", "disable", "enroll", "preview", "accept", "join"}
Anonymous == {"login", "preview", "join"}     \* routes without AuthenticatedUser
Issuing == {"login", "verify", "join"}        \* a success sets the cookie
Closing == {"logout", "disable"}              \* a success clears it

ASSUME ClickAssumption == {Retries, MaxClicks} \subseteq Nat
ASSUME NullAssumption == NoSid \notin Sids /\ NoRoute \notin Routes
ASSUME CallsAssumption == IsFiniteSet(Calls)

VARIABLES
    (* the API *)
    session,      \* "unborn", "plain", "elevated" or "dead", for each session
    user,         \* enrolled: has the second factor; required: must have it
    (* the browser *)
    jar,          \* the cookie lc_sid
    (* the page *)
    store,        \* stores/session.ts
    booting,      \* main.ts has not called hydrate() yet
    hydrating,    \* hydratePromise # null
    at,           \* the route shown
    nav,          \* the route a navigation is under way to
    preview,      \* of AcceptInviteView
    call,         \* the calls under way
    (* clicks and history *)
    clicks,
    excused       \* an answer was lost or overtaken that could clear the store

api == <<session, user>>
page == <<store, booting, hydrating, at, nav, preview>>
tabVars == <<api, jar, page, call, clicks, excused>>

Cookie == Sids \cup {NoSid}
Flags == [verified : BOOLEAN, enrolled : BOOLEAN, required : BOOLEAN]
Store == [token : Cookie, hydrated : BOOLEAN, flags : Flags]
NoFlags == [verified |-> FALSE, enrolled |-> FALSE, required |-> FALSE]

Call ==
    [pc : {"off"}]
    \cup [pc : {"sent"}, kind : Kinds, tries : 0..Retries, cookie : Cookie, token : Cookie]
    \cup [pc : {"refused"}, kind : Kinds, tries : 0..Retries]
    \cup [pc : {"ok"}, kind : Kinds, tries : 0..Retries, sid : Cookie, flags : Flags]

Off == [pc |-> "off"]

TabTypeOK ==
    /\ session \in [Sids -> {"unborn", "plain", "elevated", "dead"}]
    /\ user \in [enrolled : BOOLEAN, required : BOOLEAN]
    /\ jar \in Cookie
    /\ store \in Store
    /\ {booting, hydrating, excused} \subseteq BOOLEAN
    /\ at \in Routes \cup {NoRoute} /\ nav \in Routes \cup {NoRoute}
    /\ preview \in {"none", "asked", "shown", "error"}
    /\ call \in [Calls -> Call]
    /\ clicks \in 0..MaxClicks

EmptyStore == [token |-> NoSid, hydrated |-> FALSE, flags |-> NoFlags]

\* A visitor without a session, or one who comes back with a cookie.
TabInit ==
    /\ user \in [enrolled : BOOLEAN, required : BOOLEAN]
    /\ \/ jar = NoSid /\ session = [s \in Sids |-> "unborn"]
       \/ \E s \in Sids, how \in {"plain", "elevated", "dead"} :
             /\ jar = s
             /\ how = "elevated" => user.enrolled
             /\ session = [x \in Sids |-> IF x = s THEN how ELSE "unborn"]
    /\ store = EmptyStore
    /\ booting = TRUE /\ hydrating = FALSE
    /\ at = NoRoute /\ nav \in Routes
    /\ preview = "none"
    /\ call = [c \in Calls |-> Off]
    /\ clicks = 0
    /\ excused = FALSE

-----------------------------------------------------------------------------
(* The session store *)

isAuthenticated == store.token # NoSid
StepUp(f) == f.enrolled /\ ~f.verified
Enrollment(f) == f.required /\ ~f.enrolled

setFromAuth(answer) == store' = [token |-> answer.sid, hydrated |-> TRUE, flags |-> answer.flags]
clear == store' = [token |-> NoSid, hydrated |-> TRUE, flags |-> NoFlags]

\* The token in the X-CSRF-Token header is the one the store knows by now.
Request(kind, tries) ==
    [pc |-> "sent", kind |-> kind, tries |-> tries, cookie |-> jar,
     token |-> IF kind = "me" THEN NoSid ELSE store.token]

Send(kind) == \E c \in Calls : call[c] = Off /\ call' = [call EXCEPT ![c] = Request(kind, 0)]

\* Not twice: done, or under way for an earlier caller.
hydrate ==
    IF store.hydrated \/ hydrating THEN UNCHANGED <<call, hydrating>>
    ELSE Send("me") /\ hydrating' = TRUE

\* main.ts.  The router starts its first navigation when it is installed, just
\* before, and runs the guard from a microtask: either may come first.
Boot ==
    /\ booting
    /\ booting' = FALSE
    /\ hydrate
    /\ UNCHANGED <<api, jar, store, at, nav, preview, clicks, excused>>

-----------------------------------------------------------------------------
(* The router *)

NeedsSession(to) == requiresAuth(to) \/ requiresAnonymous(to)

\* Where the guard sends a navigation: on to its route, or somewhere else.
GuardLooping(to) ==
    IF requiresAuth(to) /\ ~isAuthenticated THEN "login"
    ELSE IF requiresAnonymous(to) /\ isAuthenticated THEN "dashboard"
    ELSE IF requiresAuth(to) /\ ~mfaFlow(to) /\ ~store.flags.verified THEN "challenge"
    ELSE IF to = "challenge" /\ ~StepUp(store.flags) THEN "dashboard"
    ELSE to

authGuard(to) ==
    IF requiresAuth(to) /\ ~isAuthenticated THEN "login"
    ELSE IF requiresAnonymous(to) /\ isAuthenticated THEN "dashboard"
    ELSE IF requiresAuth(to) /\ ~mfaFlow(to) /\ StepUp(store.flags) THEN "challenge"
    ELSE IF requiresAuth(to) /\ ~mfaFlow(to) /\ Enrollment(store.flags) THEN "setup"
    ELSE to

\* The guard awaits hydrate() before it decides.
GuardHydrates ==
    /\ nav # NoRoute
    /\ NeedsSession(nav)
    /\ ~store.hydrated
    /\ ~hydrating
    /\ hydrate
    /\ UNCHANGED <<api, jar, store, booting, at, nav, preview, clicks, excused>>

Decision ==
    /\ nav # NoRoute
    /\ IF authGuard(nav) = nav
       THEN at' = nav /\ nav' = NoRoute /\ preview' = "none"
       ELSE nav' = authGuard(nav) /\ UNCHANGED <<at, preview>>
    /\ UNCHANGED <<api, jar, store, booting, hydrating, call, clicks, excused>>

DecideAtOnce == Decision

Decide == (NeedsSession(nav) => store.hydrated) /\ Decision

-----------------------------------------------------------------------------
(* The user *)

\* A link is followed or the address typed within the application.
Click(to) ==
    /\ clicks < MaxClicks
    /\ clicks' = clicks + 1
    /\ nav' = to
    /\ UNCHANGED <<api, jar, store, booting, hydrating, at, preview, call, excused>>

\* What the view shown lets the user send.
LoginView(kind) == kind = "login" /\ at = "login"
DashboardView(kind) == kind = "logout" /\ at = "dashboard"
SettingsView(kind) == kind = "disable" /\ at = "dashboard" /\ store.flags.enrolled
TotpSetupView(kind) == kind = "enroll" /\ at = "setup"
TotpChallengeView(kind) == kind = "verify" /\ at = "challenge"
AcceptInviteView(kind) ==
    at = "accept" /\ preview = "shown" /\ kind = IF isAuthenticated THEN "accept" ELSE "join"

Offers(kind) ==
    \/ LoginView(kind) \/ DashboardView(kind) \/ SettingsView(kind)
    \/ TotpSetupView(kind) \/ TotpChallengeView(kind) \/ AcceptInviteView(kind)

SendForm(kind) ==
    /\ clicks < MaxClicks
    /\ clicks' = clicks + 1
    /\ Offers(kind)
    /\ Send(kind)
    /\ UNCHANGED <<api, jar, page, excused>>

\* onMounted of AcceptInviteView, which waits for nothing.
AskPreview ==
    /\ at = "accept"
    /\ preview = "none"
    /\ preview' = "asked"
    /\ Send("preview")
    /\ UNCHANGED <<api, jar, store, booting, hydrating, at, nav, clicks, excused>>

-----------------------------------------------------------------------------
(* The API *)

Live(s) == s # NoSid /\ session[s] \in {"plain", "elevated"}

Undrawn == {s \in Sids : session[s] = "unborn"}

FlagsOf(s) == [verified |-> session'[s] = "elevated", enrolled |-> user'.enrolled,
               required |-> user'.required]

Replies(c, s) == call' = [call EXCEPT ![c] = [pc |-> "ok", kind |-> @.kind, tries |-> @.tries, sid |-> s,
                                              flags |-> IF s = NoSid THEN NoFlags ELSE FlagsOf(s)]]

\* csrf.rs guard (Sessions!Send .. Sessions!Touch), then the extractor.
Admits(c) ==
    /\ call[c].kind = "me" \/ call[c].cookie = NoSid
       \/ (Live(call[c].cookie) /\ call[c].token = call[c].cookie)
    /\ call[c].kind \in Anonymous \/ Live(call[c].cookie)

Served(c, kinds) == call[c].pc = "sent" /\ call[c].kind \in kinds /\ Admits(c)

\* me, preview, and accept, after which the second factor may be mandatory.
Look(c) ==
    /\ Served(c, {"me", "preview", "accept"})
    /\ user' \in {user} \cup (IF call[c].kind = "accept" THEN {[user EXCEPT !.required = TRUE]} ELSE {})
    /\ UNCHANGED session
    /\ Replies(c, IF call[c].kind = "preview" THEN NoSid ELSE call[c].cookie)
    /\ UNCHANGED <<jar, page, clicks, excused>>

\* signup, login, invites/signup (of an address without an account).
Open(c) ==
    /\ Served(c, {"login", "join"})
    /\ call[c].kind = "join" => Undrawn = Sids
    /\ \E s \in Undrawn :
          /\ session' = [session EXCEPT ![s] = "plain"]
          /\ user' = IF call[c].kind = "join" THEN [user EXCEPT !.enrolled = FALSE] ELSE user
          /\ Replies(c, s)
    /\ UNCHANGED <<jar, page, clicks, excused>>

\* Sessions!Create and Sessions!Retire of a step-up.
Rotate(c) ==
    /\ Served(c, {"verify"})
    /\ user.enrolled
    /\ \E s \in Undrawn :
          /\ session' = [session EXCEPT ![s] = "elevated", ![call[c].cookie] = "dead"]
          /\ UNCHANGED user
          /\ Replies(c, s)
    /\ UNCHANGED <<jar, page, clicks, excused>>

\* logout, 2fa/disable
Close(c) ==
    /\ Served(c, Closing)
    /\ call[c].kind = "disable" => session[call[c].cookie] = "elevated" /\ user.enrolled
    /\ session' = [session EXCEPT ![call[c].cookie] = "dead"]
    /\ user' = IF call[c].kind = "disable" THEN [user EXCEPT !.enrolled = FALSE] ELSE user
    /\ Replies(c, NoSid)
    /\ UNCHANGED <<jar, page, clicks, excused>>

\* 2fa/enroll/verify: the session stays as it was.
Enroll(c) ==
    /\ Served(c, {"enroll"})
    /\ ~user.enrolled
    /\ user' = [user EXCEPT !.enrolled = TRUE]
    /\ UNCHANGED session
    /\ Replies(c, NoSid)
    /\ UNCHANGED <<jar, page, clicks, excused>>

\* Not admitted; or turned down, which /auth/me and logout never are.
Refuse(c) ==
    /\ call[c].pc = "sent"
    /\ Admits(c) => call[c].kind \notin {"me", "logout"}
    /\ call' = [call EXCEPT ![c] = [pc |-> "refused", kind |-> @.kind, tries |-> @.tries]]
    /\ UNCHANGED <<api, jar, page, clicks, excused>>

\* The session ends on its own: a TTL, or the API restarts with an empty Redis.
Expire(s) ==
    /\ Live(s)
    /\ session' = [session EXCEPT ![s] = "dead"]
    /\ UNCHANGED <<user, jar, page, call, clicks, excused>>

-----------------------------------------------------------------------------
(* Answers *)

\* postAuthTarget: a redirect may name any route.
Targets(flags) ==
    IF StepUp(flags) THEN {"challenge"}
    ELSE IF Enrollment(flags) THEN {"setup"}
    ELSE Routes

\* A success that carries the session: the store takes it, the router goes on.
TakeSessionKeepingToken(c) ==
    /\ store' = [store EXCEPT !.hydrated = TRUE, !.flags = call[c].flags,
                              !.token = IF @ = NoSid THEN call[c].sid ELSE @]
    /\ jar' = IF call[c].kind \in Issuing THEN call[c].sid ELSE jar
    /\ excused' = (excused \/ hydrating)
    /\ nav' \in CASE call[c].kind = "login" -> Targets(call[c].flags)
                  [] call[c].kind = "verify" -> Routes
                  [] OTHER -> {"dashboard"}

TakeSession(c) ==
    /\ setFromAuth(call[c])
    /\ jar' = IF call[c].kind \in Issuing THEN call[c].sid ELSE jar
    /\ excused' = (excused \/ hydrating)
    /\ nav' \in CASE call[c].kind = "login" -> Targets(call[c].flags)
                  [] call[c].kind = "verify" -> Routes
                  [] OTHER -> {"dashboard"}

Arrived(c, kinds) == call[c].pc = "ok" /\ call[c].kind \in kinds /\ call' = [call EXCEPT ![c] = Off]

GotSession(c) ==
    /\ Arrived(c, Issuing \cup {"accept"})
    /\ TakeSession(c)
    /\ UNCHANGED <<api, booting, hydrating, at, preview, clicks>>

GotMe(c) ==
    /\ Arrived(c, {"me"})
    /\ setFromAuth(call[c])
    /\ hydrating' = FALSE
    /\ UNCHANGED <<api, jar, booting, at, nav, preview, clicks, excused>>

GotClosed(c) ==
    /\ Arrived(c, Closing)
    /\ jar' = NoSid
    /\ clear
    /\ nav' = "login"
    /\ UNCHANGED <<api, booting, hydrating, at, preview, clicks, excused>>

\* The store flips mfaEnrolled on its own.
GotEnrolled(c) ==
    /\ Arrived(c, {"enroll"})
    /\ store' = [store EXCEPT !.flags.enrolled = TRUE]
    /\ UNCHANGED <<api, jar, booting, hydrating, at, nav, preview, clicks, excused>>

GotPreview(c) ==
    /\ Arrived(c, {"preview"})
    /\ preview' = IF preview = "asked" THEN "shown" ELSE preview
    /\ UNCHANGED <<api, jar, store, booting, hydrating, at, nav, clicks, excused>>

\* Refused, or lost on its way there or back, or out of time.
Failed(c, kinds) == call[c].pc # "off" /\ call[c].kind \in kinds /\ call' = [call EXCEPT ![c] = Off]

FailedMe(c) ==
    /\ Failed(c, {"me"})
    /\ clear
    /\ hydrating' = FALSE
    /\ excused' = (excused \/ call[c].pc # "refused")
    /\ UNCHANGED <<api, jar, booting, at, nav, preview, clicks>>

FailedLogout(c) ==
    /\ Failed(c, {"logout"})
    /\ clear
    /\ nav' = "login"
    /\ excused' = TRUE
    /\ UNCHANGED <<api, jar, booting, hydrating, at, preview, clicks>>

FailedOther(c) ==
    /\ Failed(c, Kinds \ {"me", "logout"})
    /\ preview' = IF call[c].kind = "preview" /\ preview = "asked" THEN "error" ELSE preview
    /\ UNCHANGED <<api, jar, store, booting, hydrating, at, nav, clicks, excused>>

SentAgain(c) == call' = [call EXCEPT ![c] = Request("me", call[c].tries + 1)]

\* A GET whose answer is lost is sent again, with the cookie of the day.
AskForEver(c) ==
    /\ call[c].pc \in {"sent", "ok"}
    /\ call[c].kind = "me"
    /\ SentAgain(c)
    /\ UNCHANGED <<api, jar, page, clicks, excused>>

AskAgain(c) ==
    /\ call[c].pc \in {"sent", "ok"}
    /\ call[c].kind = "me"
    /\ call[c].tries < Retries
    /\ SentAgain(c)
    /\ UNCHANGED <<api, jar, page, clicks, excused>>

Answers(c) ==
    \/ Look(c) \/ Open(c) \/ Rotate(c) \/ Close(c) \/ Enroll(c) \/ Refuse(c)
    \/ GotSession(c) \/ GotMe(c) \/ GotClosed(c) \/ GotEnrolled(c) \/ GotPreview(c)
    \/ FailedMe(c) \/ FailedLogout(c) \/ FailedOther(c)

TabNext ==
    \/ Boot \/ GuardHydrates \/ Decide \/ AskPreview
    \/ \E to \in Routes : Click(to)
    \/ \E kind \in Kinds : SendForm(kind)
    \/ \E c \in Calls : Answers(c) \/ AskAgain(c)
    \/ \E s \in Sids : Expire(s)

TabSpec == TabInit /\ [][TabNext]_tabVars

\* The page's microtasks run, and a call ends: with an answer, or with the
\* timeout of the client.  The user and the sessions' ends are free.
Fairness ==
    /\ WF_tabVars(Boot) /\ WF_tabVars(GuardHydrates) /\ WF_tabVars(Decide)
    /\ \A c \in Calls : WF_tabVars(Answers(c))

FairSpec == TabSpec /\ Fairness

-----------------------------------------------------------------------------
(* Properties *)

\* router/index.ts: a legitimate session is not mistaken for an anonymous one
\* and bounced to /login, unless /auth/me or logout failed, or a session was
\* opened while /auth/me was under way.
BounceIsRight ==
    [][nav' = "login" /\ requiresAuth(nav) /\ clicks' = clicks /\ call' = call
       => excused \/ ~Live(jar)]_tabVars

\* The store's CSRF token is that of the cookie's session after every answer
\* that changes either.  Only an answer that tells of the session it was asked
\* with, and is overtaken by one that replaced it, may put an older token back:
\* an accepted invitation's, or /auth/me's once the store is hydrated by another.
TokenFollowsCookie ==
    [][<<store', jar'>> # <<store, jar>> /\ store'.token \notin {NoSid, jar'} =>
          \/ store'.token = store.token /\ jar' = jar
          \/ \E c \in Calls : /\ call[c].pc = "ok" /\ call'[c] = Off
                              /\ \/ call[c].kind = "accept"
                                 \/ call[c].kind = "me" /\ store.hydrated]_tabVars

\* A navigation ends: the guard waits for no answer for ever and its redirects
\* make no loop.
NavigationSettles == nav # NoRoute ~> nav = NoRoute
=============================================================================
