--------------------------- MODULE Sessions_proofs ---------------------------
(***************************************************************************)
(* For any number of requests, identifiers and any time-outs: no write     *)
(* without the token of the session it runs on, no session that outlives   *)
(* its absolute cut-off by more than a request, the lag of Redis and an    *)
(* idle period, a step-up that ends the old session, and identifiers that  *)
(* live once.                                                              *)
(***************************************************************************)
EXTENDS Sessions, TLAPS

\* Of one request, against what Redis holds and the time.  The operators take
\* the state as arguments so that one lemma covers it before and after a step.

Known(q, us) == q.cookie \in us \cup {NoSid} /\ q.fresh \in us \cup {NoSid}

\* A request in the server is not older than the timeout layer lets it be.
Timely(q, n) == q.pc \in Serving => q.at <= n /\ n <= q.at + RequestTimeout

\* What a lookup loaded was live when the request came, and what Redis still
\* holds of it has not changed.
Faithful(q, st, us) ==
    q.data # NoSession =>
        /\ q.pc \in Serving
        /\ q.cookie \in us
        /\ q.at < q.data.absolute
        /\ st[q.cookie] # NoSession => st[q.cookie].absolute = q.data.absolute

Looking(q) ==
    /\ q.pc \in {"load", "evict", "touch"} => q.cookie # NoSid
    /\ q.pc = "touch" => q.data # NoSession

\* Past the guard an unsafe request with a cookie has shown the token.
Guarded(q) ==
    (q.gate = "extract" \/ q.pc \in Handling) /\ q.pc \in Serving
       /\ q.kind \in Unsafe /\ q.cookie # NoSid => q.token

\* Once verify_mfa returned, the session the step-up came from is gone.
Retired(q, st, us) ==
    /\ q.pc \in {"retire", "undo"} => q.kind = "verify" /\ q.fresh \in us
    /\ q.kind # "login" /\ q.pc \in Handling => q.cookie \in us
    /\ q.kind = "verify" /\ (q.pc = "context" \/ (q.pc = "reply" /\ q.reply = "issue"))
       => q.cookie \in us /\ st[q.cookie] = NoSession

Sound(q, st, us, n) ==
    Known(q, us) /\ Timely(q, n) /\ Faithful(q, st, us) /\ Looking(q) /\ Guarded(q)
    /\ Retired(q, st, us)

\* The latest a key of a session with this cut-off may be due to expire.
HardCap(absolute) == absolute + RequestTimeout + RedisLag + IdleTtl

\* A command without a request: a touch is for a session that was live when its
\* request came, and what is left to save was made while its request was there.
Granted(c, st, us, n) ==
    /\ n <= c.by
    /\ c.op = "save" => c.data # NoSession /\ c.by + IdleTtl < HardCap(c.data.absolute)
    /\ c.op \in {"touch", "destroy"} => c.sid \in us
    /\ c.op = "touch" /\ st[c.sid] # NoSession => c.by + IdleTtl < HardCap(st[c.sid].absolute)

\* Of what Redis holds.
Capped(st, us, n) ==
    \A s \in Sids :
        /\ s \notin us => st[s] = NoSession
        /\ st[s] # NoSession => n < st[s].idle /\ st[s].idle < HardCap(st[s].absolute)

IInv ==
    /\ TypeOK
    /\ jar.sid \in used \cup {NoSid}
    /\ Capped(store, used, now)
    /\ \A r \in Requests : Sound(req[r], store, used, now)
    /\ \A c \in late : Granted(c, store, used, now)

\* What a step may do to the sessions that exist: end them, or move their TTL.
Kept(st, st2, us, us2) ==
    /\ us \subseteq us2
    /\ \A s \in us : \/ st2[s] = NoSession
                     \/ /\ st[s] # NoSession
                        /\ st2[s].mfa = st[s].mfa
                        /\ st2[s].absolute = st[s].absolute

-----------------------------------------------------------------------------
\* A request that stands still stays sound whatever the others do to Redis.
LEMMA Frame ==
    ASSUME NEW q \in Request, NEW st, NEW st2, NEW us, NEW us2, NEW n, NEW n2,
           Sound(q, st, us, n), Kept(st, st2, us, us2),
           n2 = n \/ (n \in Nat /\ n2 = n + 1 /\ (q.pc \in Serving => n < q.at + RequestTimeout))
    PROVE  Sound(q, st2, us2, n2)
<1>1. q.at \in Nat
    BY DEF Request
<1>2. Known(q, us2) /\ Looking(q) /\ Guarded(q)
    BY DEF Sound, Known, Kept
<1>3. Timely(q, n2)
    BY <1>1, TtlAssumption DEF Sound, Timely
<1>4. Faithful(q, st2, us2)
    BY DEF Sound, Faithful, Kept
<1>5. Retired(q, st2, us2)
    BY DEF Sound, Retired, Kept
<1>. QED
    BY <1>2, <1>3, <1>4, <1>5 DEF Sound

\* Only the request that takes the step has to be looked at.
LEMMA OneMoves ==
    ASSUME IInv, NEW r \in Requests, now' = now, Kept(store, store', used, used'),
           \A v \in Requests \ {r} : req'[v] = req[v],
           Sound(req'[r], store', used', now')
    PROVE  \A v \in Requests : Sound(req'[v], store', used', now')
<1>1. SUFFICES ASSUME NEW v \in Requests, v # r
              PROVE  Sound(req'[v], store', used', now')
    OBVIOUS
<1>2. req[v] \in Request /\ Sound(req[v], store, used, now)
    BY DEF IInv, TypeOK
<1>3. Sound(req[v], store', used', now')
    BY <1>2, Frame
<1>. QED
    BY <1>1, <1>3

\* A request without locals is sound in every state.
LEMMA BlankSound ==
    ASSUME NEW q \in Request, NEW st, NEW us, NEW n, q.pc \in {"idle", "reply"},
           q.cookie = NoSid, q.fresh = NoSid, q.data = NoSession, q.kind = "read"
    PROVE  Sound(q, st, us, n)
BY DEF Sound, Known, Timely, Faithful, Looking, Guarded, Retired, Serving, Handling

\* A response without Set-Cookie leaves nothing of the request.
LEMMA Answering ==
    ASSUME TypeOK, NEW r \in Requests, Answer(r)
    PROVE  /\ req' \in [Requests -> Request]
           /\ \A v \in Requests \ {r} : req'[v] = req[v]
           /\ \A st, us, n : Sound(req'[r], st, us, n)
<1>1. /\ NoReq \in Request
      /\ NoReq.pc = "idle" /\ NoReq.cookie = NoSid /\ NoReq.fresh = NoSid
      /\ NoReq.data = NoSession /\ NoReq.kind = "read"
    BY DEF NoReq, Request, Kinds, Cookie, Replies
<1>2. \A st, us, n : Sound(NoReq, st, us, n)
    BY <1>1, BlankSound
<1>. QED
    BY <1>1, <1>2 DEF Answer, TypeOK

\* The handler or the middleware goes on to another step.
LEMMA Going ==
    ASSUME TypeOK, NEW r \in Requests, NEW where \in Serving, Goto(r, where)
    PROVE  /\ req' \in [Requests -> Request]
           /\ \A v \in Requests \ {r} : req'[v] = req[v]
           /\ req'[r] = [req[r] EXCEPT !.pc = where]
<1>1. req[r] \in Request
    BY DEF TypeOK
<1>2. [req[r] EXCEPT !.pc = where] \in Request
    BY <1>1 DEF Request
<1>. QED
    BY <1>2 DEF Goto, TypeOK

\* Leaving Redis and the clock alone.
LEMMA StoreUnchanged ==
    ASSUME TypeOK, UNCHANGED <<store, used>>
    PROVE  Kept(store, store', used, used')
BY DEF Kept, TypeOK

\* DEL ends one session.
LEMMA Deleting ==
    ASSUME IInv, NEW s \in Sids, Del(s) \/ UNCHANGED store, used' = used, now' = now
    PROVE  /\ Kept(store, store', used, used')
           /\ Capped(store', used', now')
           /\ store' \in [Sids -> Stored]
           /\ Del(s) => store'[s] = NoSession
BY DEF IInv, TypeOK, Del, Kept, Capped, Stored, Entry

\* EXPIRE moves the TTL of a session, not past its hard cap, and brings no
\* session back.
LEMMA Expiring ==
    ASSUME IInv, NEW s \in used,
           store[s] # NoSession => now + IdleTtl < HardCap(store[s].absolute),
           Expire(s) \/ UNCHANGED store, used' = used, now' = now
    PROVE  /\ Kept(store, store', used, used')
           /\ Capped(store', used', now')
           /\ store' \in [Sids -> Stored]
<1>. DEFINE e == store[s]
            moved == [e EXCEPT !.idle = now + IdleTtl]
<1>1. now \in Nat /\ s \in Sids /\ store \in [Sids -> Stored]
    BY DEF IInv, TypeOK
<1>2. CASE UNCHANGED store \/ e = NoSession
    <2>1. store' = store
        BY <1>1, <1>2 DEF Expire
    <2>. QED
        BY <2>1 DEF Kept, IInv, TypeOK
<1>3. CASE Expire(s) /\ e # NoSession
    <2>1. store' = [store EXCEPT ![s] = moved]
        BY <1>3 DEF Expire
    <2>2. e \in Entry
        BY <1>1, <1>3 DEF Stored, Entry
    <2>3. /\ moved \in Entry
          /\ moved.mfa = e.mfa /\ moved.absolute = e.absolute /\ moved.idle = now + IdleTtl
          /\ now < moved.idle
        BY <1>1, <2>2, TtlAssumption DEF Entry
    <2>. HIDE DEF moved
    <2>4. /\ store' \in [Sids -> Stored] /\ store'[s] = moved
          /\ \A v \in Sids \ {s} : store'[v] = store[v]
        BY <1>1, <2>1, <2>3 DEF Stored, Entry
    <2>5. Kept(store, store', used, used')
        BY <1>3, <2>3, <2>4 DEF Kept, IInv, TypeOK
    <2>6. Capped(store', used', now')
        BY <1>1, <1>3, <2>3, <2>4 DEF Capped, IInv
    <2>. QED
        BY <2>4, <2>5, <2>6
<1>. QED
    BY <1>2, <1>3

\* The lookup of a request touches its session in time.
LEMMA TouchGranted ==
    ASSUME IInv, NEW r \in Requests, req[r].pc = "touch"
    PROVE  /\ req[r].cookie \in used
           /\ store[req[r].cookie] # NoSession =>
                  now + RedisLag + IdleTtl < HardCap(store[req[r].cookie].absolute)
<1>1. req[r] \in Request /\ Sound(req[r], store, used, now) /\ now \in Nat
    BY DEF IInv, TypeOK
<1>2. /\ req[r].data \in Data /\ req[r].at \in Nat /\ req[r].cookie \in used
      /\ now <= req[r].at + RequestTimeout
      /\ req[r].at < req[r].data.absolute
      /\ store[req[r].cookie] # NoSession =>
             store[req[r].cookie].absolute = req[r].data.absolute
    BY <1>1 DEF Sound, Looking, Faithful, Timely, Request, Serving
<1>3. req[r].data.absolute \in Nat
    BY <1>2 DEF Data
<1>. QED
    BY <1>1, <1>2, <1>3, TtlAssumption DEF HardCap

\* So its EXPIRE keeps the cap.
LEMMA TouchExpires ==
    ASSUME IInv, NEW r \in Requests, req[r].pc = "touch",
           Expire(req[r].cookie) \/ UNCHANGED store, used' = used, now' = now
    PROVE  /\ Kept(store, store', used, used')
           /\ Capped(store', used', now')
           /\ store' \in [Sids -> Stored]
<1>1. now \in Nat /\ \A s \in Sids : store[s] # NoSession => store[s].absolute \in Nat
    BY DEF IInv, TypeOK, Stored, Entry
<1>2. /\ req[r].cookie \in used /\ req[r].cookie \in Sids
      /\ store[req[r].cookie] # NoSession =>
             now + RedisLag + IdleTtl < HardCap(store[req[r].cookie].absolute)
    BY TouchGranted DEF IInv, TypeOK
<1>3. store[req[r].cookie] # NoSession =>
          now + IdleTtl < HardCap(store[req[r].cookie].absolute)
    BY <1>1, <1>2, TtlAssumption DEF HardCap
<1>. QED
    BY <1>2, <1>3, Expiring

\* The SessionData a handler saves is cut off counting from its request.
LEMMA OpenedGranted ==
    ASSUME IInv, NEW r \in Requests, req[r].pc = "run", NEW data \in Opened(r)
    PROVE  /\ data \in Data
           /\ now + RedisLag + IdleTtl < HardCap(data.absolute)
<1>1. req[r] \in Request /\ Sound(req[r], store, used, now) /\ now \in Nat
    BY DEF IInv, TypeOK
<1>2. req[r].at \in Nat /\ now <= req[r].at + RequestTimeout
    BY <1>1 DEF Sound, Timely, Request, Serving, Handling
<1>3. PICK made \in req[r].at .. now :
          data = [mfa |-> req[r].kind = "verify", absolute |-> made + AbsoluteTtl]
    BY DEF Opened
<1>. QED
    BY <1>1, <1>2, <1>3, TtlAssumption DEF HardCap, Data

\* SET EX of an identifier drawn for the first time.
LEMMA Saving ==
    ASSUME IInv, NEW s \in Sids \ used, NEW data \in Data,
           now + IdleTtl < HardCap(data.absolute), Save(s, data), now' = now
    PROVE  /\ Kept(store, store', used, used')
           /\ Capped(store', used', now')
           /\ store' \in [Sids -> Stored]
           /\ used' \subseteq Sids
           /\ s \in used'
<1>. DEFINE new == [mfa |-> data.mfa, absolute |-> data.absolute, idle |-> now + IdleTtl]
<1>1. now \in Nat /\ store \in [Sids -> Stored] /\ used \subseteq Sids
    BY DEF IInv, TypeOK
<1>2. new \in Stored /\ now < new.idle /\ new.idle < HardCap(new.absolute)
    BY <1>1, TtlAssumption DEF Stored, Entry, Data
<1>3. store' = [store EXCEPT ![s] = new] /\ used' = used \cup {s}
    BY DEF Save
<1>. HIDE DEF new
<1>4. /\ store' \in [Sids -> Stored] /\ store'[s] = new
      /\ \A v \in Sids \ {s} : store'[v] = store[v]
    BY <1>1, <1>2, <1>3
<1>5. Kept(store, store', used, used')
    BY <1>1, <1>3, <1>4 DEF Kept
<1>6. Capped(store', used', now')
    BY <1>1, <1>2, <1>3, <1>4 DEF Capped, IInv
<1>. QED
    BY <1>1, <1>3, <1>4, <1>5, <1>6

\* So its SET keeps the cap, too.
LEMMA OpenedSaves ==
    ASSUME IInv, NEW r \in Requests, req[r].pc = "run", NEW s \in Sids \ used,
           NEW data \in Opened(r), Save(s, data), now' = now
    PROVE  /\ Kept(store, store', used, used')
           /\ Capped(store', used', now')
           /\ store' \in [Sids -> Stored]
           /\ used' \subseteq Sids
           /\ s \in used'
<1>1. data \in Data /\ now + RedisLag + IdleTtl < HardCap(data.absolute) /\ now \in Nat
    BY OpenedGranted DEF IInv, TypeOK
<1>2. now + IdleTtl < HardCap(data.absolute)
    BY <1>1, TtlAssumption DEF HardCap, Data
<1>. QED
    BY <1>1, <1>2, Saving

-----------------------------------------------------------------------------
\* The commands left behind, and any that a step adds to them.
LateFits ==
    \A c \in late' \ late : c \in Command /\ Granted(c, store', used', now')

\* What a request leaves behind was granted while it was there.
LEMMA Abandoning ==
    ASSUME IInv, NEW r \in Requests, Abandon(r), now' = now,
           Kept(store, store', used, used')
    PROVE  LateFits
<1>. SUFFICES ASSUME NEW c \in late' \ late
              PROVE  c \in Command /\ Granted(c, store', used', now)
    BY DEF LateFits
<1>1. /\ req[r] \in Request /\ Sound(req[r], store, used, now) /\ now + RedisLag \in Nat
      /\ now <= now + RedisLag /\ used \subseteq Sids /\ NoSid \notin Sids
    BY TtlAssumption, NullAssumption DEF IInv, TypeOK
<1>2. CASE req[r].pc = "touch" /\ LeaveBehind("touch", req[r].cookie, NoSession)
    <2>1. c = [op |-> "touch", sid |-> req[r].cookie, data |-> NoSession, by |-> now + RedisLag]
        BY <1>2 DEF LeaveBehind
    <2>2. /\ req[r].cookie \in used
          /\ store[req[r].cookie] # NoSession =>
                 now + RedisLag + IdleTtl < HardCap(store[req[r].cookie].absolute)
        BY <1>2, TouchGranted
    <2>3. c \in Command
        BY <1>1, <2>1, <2>2 DEF Command, Cookie
    <2>. QED
        BY <1>1, <2>1, <2>2, <2>3 DEF Granted, Kept
<1>3. ASSUME NEW s \in used, LeaveBehind("destroy", s, NoSession)
      PROVE  c \in Command /\ Granted(c, store', used', now)
    <2>1. c = [op |-> "destroy", sid |-> s, data |-> NoSession, by |-> now + RedisLag]
        BY <1>3 DEF LeaveBehind
    <2>. QED
        BY <1>1, <2>1 DEF Command, Cookie, Granted, Kept
<1>4. ASSUME NEW data \in Opened(r), req[r].pc = "run", LeaveBehind("save", NoSid, data)
      PROVE  c \in Command /\ Granted(c, store', used', now)
    <2>1. c = [op |-> "save", sid |-> NoSid, data |-> data, by |-> now + RedisLag]
        BY <1>4 DEF LeaveBehind
    <2>2. data \in Data /\ now + RedisLag + IdleTtl < HardCap(data.absolute)
        BY <1>4, OpenedGranted
    <2>3. data # NoSession
        BY <2>2, NullAssumption
    <2>. QED
        BY <1>1, <2>1, <2>2, <2>3 DEF Command, Cookie, Granted
<1>5. /\ req[r].pc \in {"evict", "retire"} \/ Closes(r) => req[r].cookie \in used
      /\ req[r].pc = "undo" => req[r].fresh \in used
    BY <1>1 DEF Closes, Runs, Sound, Known, Looking, Retired, Handling
<1>. QED
    BY <1>2, <1>3, <1>4, <1>5 DEF Abandon, Runs

\* A command keeps its grant whatever happens to Redis meanwhile.
LEMMA LateFrame ==
    ASSUME NEW c \in Command, NEW st, NEW st2, NEW us, NEW us2, NEW n, NEW n2,
           Granted(c, st, us, n), Kept(st, st2, us, us2),
           n2 = n \/ (n \in Nat /\ n2 = n + 1 /\ n < c.by)
    PROVE  Granted(c, st2, us2, n2)
<1>1. c.by \in Nat
    BY DEF Command
<1>. QED
    BY <1>1 DEF Granted, Kept

\* Both together.
LEMMA LateSettles ==
    ASSUME IInv, now' = now, Kept(store, store', used, used'), LateFits
    PROVE  late' \subseteq Command /\ \A c \in late' : Granted(c, store', used', now')
<1>1. ASSUME NEW c \in late PROVE c \in Command /\ Granted(c, store', used', now')
    BY LateFrame DEF IInv, TypeOK
<1>. QED
    BY <1>1 DEF LateFits

-----------------------------------------------------------------------------
\* What is left to show of a step that one request takes.
LEMMA Settle ==
    ASSUME IInv, NEW r \in Requests, now' = now, jar' = jar,
           Kept(store, store', used, used'), Capped(store', used', now'),
           store' \in [Sids -> Stored], used' \subseteq Sids,
           req' \in [Requests -> Request],
           \A v \in Requests \ {r} : req'[v] = req[v],
           Sound(req'[r], store', used', now'), LateFits
    PROVE  IInv'
<1>1. TypeOK' /\ \A c \in late' : Granted(c, store', used', now')
    BY LateSettles DEF IInv, TypeOK
<1>2. \A v \in Requests : Sound(req'[v], store', used', now')
    BY OneMoves
<1>3. (jar.sid \in used \cup {NoSid})'
    BY DEF IInv, Kept
<1>. QED
    BY <1>1, <1>2, <1>3 DEF IInv

\* Steps that leave Redis, the clock and the browser alone.
LEMMA SettleLocal ==
    ASSUME IInv, NEW r \in Requests, UNCHANGED <<now, store, used, jar, late>>,
           req' \in [Requests -> Request],
           \A v \in Requests \ {r} : req'[v] = req[v],
           Sound(req'[r], store, used, now)
    PROVE  IInv'
<1>1. Kept(store, store', used, used')
    BY StoreUnchanged DEF IInv
<1>2. /\ store' \in [Sids -> Stored] /\ used' \subseteq Sids
      /\ Capped(store', used', now') /\ LateFits
    BY DEF IInv, TypeOK, LateFits
<1>. QED
    BY <1>1, <1>2, Settle

\* The guard lets a request through that has shown the token, and the
\* extractor starts over.
LEMMA Passing ==
    ASSUME IInv, NEW r \in Requests, PassGuard(r), req[r].pc \in Serving,
           req[r].cookie # NoSid => req[r].token,
           req[r].kind # "login" => req[r].cookie # NoSid,
           NEW st, NEW us, NEW n, Sound(req[r], st, us, n)
    PROVE  /\ req' \in [Requests -> Request]
           /\ \A v \in Requests \ {r} : req'[v] = req[v]
           /\ Sound(req'[r], st, us, n)
<1>1. req[r] \in Request /\ TypeOK
    BY DEF IInv, TypeOK
<1>2. CASE req[r].kind = "login"
    <2>1. Goto(r, "run") /\ "run" \in Serving
        BY <1>2 DEF PassGuard, Serving, Handling
    <2>2. /\ req' \in [Requests -> Request]
          /\ \A v \in Requests \ {r} : req'[v] = req[v]
          /\ req'[r] = [req[r] EXCEPT !.pc = "run"]
        BY <1>1, <2>1, Going
    <2>3. Sound([req[r] EXCEPT !.pc = "run"], st, us, n)
        BY <1>1, <1>2 DEF Sound, Known, Timely, Faithful, Looking, Guarded, Retired, Serving,
                          Handling, Request
    <2>. QED
        BY <2>2, <2>3
<1>3. CASE req[r].kind # "login"
    <2>. DEFINE q == [req[r] EXCEPT !.pc = "load", !.gate = "extract"]
    <2>1. q \in Request
        BY <1>1 DEF Request, Serving
    <2>2. req' = [req EXCEPT ![r] = q]
        BY <1>3 DEF PassGuard
    <2>3. Sound(q, st, us, n)
        BY <1>1, <1>3 DEF Sound, Known, Timely, Faithful, Looking, Guarded, Retired, Serving,
                          Handling, Request
    <2>. HIDE DEF q
    <2>. QED
        BY <1>1, <2>1, <2>2, <2>3 DEF TypeOK
<1>. QED
    BY <1>2, <1>3

-----------------------------------------------------------------------------
\* Nothing is stored, no request runs.
LEMMA InitIInv == Init => IInv
<1>. SUFFICES ASSUME Init PROVE IInv
    OBVIOUS
<1>1. NoReq \in Request
    BY DEF NoReq, Request, Kinds, Cookie, Replies
<1>2. TypeOK /\ jar.sid \in used \cup {NoSid} /\ Capped(store, used, now) /\ late = {}
    BY <1>1 DEF Init, TypeOK, Stored, Entry, Cookie, NoCookie, Capped
<1>3. \A r \in Requests : Sound(req[r], store, used, now)
    BY <1>1, BlankSound DEF Init, NoReq
<1>. QED
    BY <1>2, <1>3 DEF IInv

\* The steps of a lookup and of the guard that turn the request away.
LEMMA RefusingSteps ==
    ASSUME IInv, NEW r \in Requests,
           LoadNothing(r) \/ LoadFails(r) \/ Evict(r) \/ TouchFails(r)
    PROVE  IInv'
<1>1. TypeOK /\ req[r] \in Request /\ Sound(req[r], store, used, now) /\ used \subseteq Sids
    BY DEF IInv, TypeOK
<1>2. Answer(r)
    BY DEF LoadNothing, LoadFails, Evict, TouchFails, Refuse
<1>3. /\ req' \in [Requests -> Request]
      /\ \A v \in Requests \ {r} : req'[v] = req[v]
      /\ Sound(req'[r], store', used', now')
    BY <1>1, <1>2, Answering
<1>4. now' = now /\ used' = used /\ jar' = jar
    BY DEF LoadNothing, LoadFails, Evict, TouchFails
<1>5. CASE LoadNothing(r) \/ LoadFails(r)
    BY <1>3, <1>4, <1>5, SettleLocal DEF LoadNothing, LoadFails
<1>6. CASE Evict(r)
    <2>1. req[r].cookie \in Sids
        BY <1>1, <1>6 DEF Evict, Sound, Looking, Request, Cookie
    <2>2. Uncertain(r, Del(req[r].cookie))
        BY <1>6 DEF Evict
    <2>3. /\ Kept(store, store', used, used')
          /\ Capped(store', used', now')
          /\ store' \in [Sids -> Stored]
        BY <1>4, <2>1, <2>2, Deleting DEF Uncertain
    <2>4. LateFits
        BY <1>4, <2>2, <2>3, Abandoning DEF Uncertain, LateFits
    <2>. QED
        BY <1>1, <1>3, <1>4, <2>3, <2>4, Settle
<1>7. CASE TouchFails(r)
    <2>1. req[r].pc = "touch" /\ Uncertain(r, Expire(req[r].cookie))
        BY <1>7 DEF TouchFails
    <2>2. /\ Kept(store, store', used, used')
          /\ Capped(store', used', now')
          /\ store' \in [Sids -> Stored]
        BY <1>4, <2>1, TouchExpires DEF Uncertain
    <2>3. LateFits
        BY <1>4, <2>1, <2>2, Abandoning DEF Uncertain, LateFits
    <2>. QED
        BY <1>1, <1>3, <1>4, <2>2, <2>3, Settle
<1>. QED
    BY <1>5, <1>6, <1>7

\* The steps of a lookup that go on.
LEMMA LookupSteps ==
    ASSUME IInv, NEW r \in Requests, LoadLive(r) \/ LoadExpired(r) \/ Touch(r)
    PROVE  IInv'
<1>1. TypeOK /\ req[r] \in Request /\ Sound(req[r], store, used, now)
    BY DEF IInv, TypeOK
<1>2. CASE LoadLive(r)
    <2>. DEFINE c == req[r].cookie
                d == Payload(c)
                q == [req[r] EXCEPT !.pc = "touch", !.data = d]
    <2>1. c \in used /\ c \in Sids /\ store[c] # NoSession /\ now < store[c].absolute
        BY <1>1, <1>2, NullAssumption
        DEF LoadLive, Sound, Looking, Known, IInv, Capped, TypeOK
    <2>2. d \in Data /\ d # NoSession /\ d.absolute = store[c].absolute
        <3>1. store[c] \in Entry
            BY <1>1, <2>1 DEF TypeOK, Stored, Entry
        <3>. QED
            BY <3>1, NullAssumption DEF Payload, Data, Entry
    <2>. HIDE DEF d
    <2>3. q \in Request
        BY <1>1, <2>2 DEF Request, Serving
    <2>4. Sound(q, store, used, now)
        <3>1. now \in Nat /\ req[r].pc = "load" /\ req[r].at \in Nat
            BY <1>1, <1>2 DEF LoadLive, TypeOK, Request
        <3>2. /\ q.pc = "touch" /\ q.data = d /\ q.kind = req[r].kind /\ q.cookie = c
              /\ q.token = req[r].token /\ q.at = req[r].at /\ q.gate = req[r].gate
              /\ q.fresh = req[r].fresh
            BY <1>1 DEF Request
        <3>. HIDE DEF q
        <3>3. Known(q, used) /\ Looking(q) /\ Guarded(q) /\ Retired(q, store, used)
            BY <1>1, <2>2, <3>1, <3>2 DEF Sound, Known, Looking, Guarded, Retired, Serving, Handling
        <3>4. Timely(q, now) /\ Faithful(q, store, used)
            <4>1. req[r].at <= now /\ now <= req[r].at + RequestTimeout
                BY <1>1, <3>1 DEF Sound, Timely, Serving
            <4>2. store[c].absolute \in Nat
                BY <1>1, <2>1 DEF TypeOK, Stored, Entry
            <4>. QED
                BY <2>1, <2>2, <3>1, <3>2, <4>1, <4>2 DEF Timely, Faithful, Serving
        <3>. QED
            BY <3>3, <3>4 DEF Sound
    <2>5. req' = [req EXCEPT ![r] = q] /\ UNCHANGED <<now, store, used, jar, late>>
        BY <1>2 DEF LoadLive, d
    <2>. HIDE DEF q
    <2>. QED
        BY <1>1, <2>3, <2>4, <2>5, SettleLocal DEF TypeOK
<1>3. CASE LoadExpired(r)
    <2>1. Goto(r, "evict") /\ "evict" \in Serving /\ req[r].pc = "load"
          /\ UNCHANGED <<now, store, used, jar, late>>
        BY <1>3 DEF LoadExpired, Serving
    <2>2. /\ req' \in [Requests -> Request]
          /\ \A v \in Requests \ {r} : req'[v] = req[v]
          /\ req'[r] = [req[r] EXCEPT !.pc = "evict"]
        BY <1>1, <2>1, Going
    <2>3. Sound([req[r] EXCEPT !.pc = "evict"], store, used, now)
        BY <1>1, <2>1 DEF Sound, Known, Timely, Faithful, Looking, Guarded, Retired, Serving,
                          Handling, Request
    <2>. QED
        BY <2>1, <2>2, <2>3, SettleLocal
<1>4. CASE Touch(r)
    <2>1. req[r].pc = "touch" /\ Expire(req[r].cookie) /\ UNCHANGED <<now, used, jar, late>>
        BY <1>4 DEF Touch
    <2>2. /\ Kept(store, store', used, used')
          /\ Capped(store', used', now')
          /\ store' \in [Sids -> Stored]
          /\ used' \subseteq Sids /\ LateFits
        BY <1>1, <2>1, TouchExpires DEF TypeOK, LateFits
    <2>3. Sound(req[r], store', used', now')
        BY <1>1, <2>1, <2>2, Frame
    <2>4. /\ req[r].pc \in Serving /\ req[r].cookie # NoSid
          /\ req[r].data # NoSession /\ req[r].cookie \in used'
        BY <1>1, <2>1 DEF Sound, Looking, Faithful, Serving
    <2>5. /\ req' \in [Requests -> Request]
          /\ \A v \in Requests \ {r} : req'[v] = req[v]
          /\ Sound(req'[r], store', used', now')
        <3>1. CASE req[r].gate = "extract"
            <4>1. Goto(r, "run") /\ "run" \in Serving
                BY <1>4, <3>1 DEF Touch, Serving, Handling
            <4>2. /\ req' \in [Requests -> Request]
                  /\ \A v \in Requests \ {r} : req'[v] = req[v]
                  /\ req'[r] = [req[r] EXCEPT !.pc = "run"]
                BY <1>1, <4>1, Going
            <4>3. Sound([req[r] EXCEPT !.pc = "run"], store', used', now')
                BY <1>1, <2>1, <2>3, <2>4, <3>1
                DEF Sound, Known, Timely, Faithful, Looking, Guarded, Retired, Serving, Handling,
                    Request
            <4>. QED
                BY <4>2, <4>3
        <3>2. CASE req[r].gate # "extract" /\ req[r].token
            BY <1>4, <2>3, <2>4, <3>2, Passing DEF Touch
        <3>3. CASE req[r].gate # "extract" /\ ~req[r].token
            BY <1>1, <1>4, <3>3, Answering DEF Touch
        <3>. QED
            BY <3>1, <3>2, <3>3
    <2>. QED
        BY <2>1, <2>2, <2>5, Settle
<1>. QED
    BY <1>2, <1>3, <1>4

\* A handler that opens a session, or fails to.
LEMMA CreatingSteps ==
    ASSUME IInv, NEW r \in Requests, Create(r) \/ CreateFails(r)
    PROVE  IInv'
<1>1. TypeOK /\ req[r] \in Request /\ Sound(req[r], store, used, now) /\ now' = now
      /\ jar' = jar /\ req[r].pc = "run" /\ req[r].kind \in {"login", "verify"}
    BY DEF IInv, TypeOK, Create, CreateFails, Runs
<1>2. CASE Create(r)
    <2>1. PICK s \in Sids \ used, data \in Opened(r) :
              /\ Save(s, data)
              /\ req' = [req EXCEPT ![r].fresh = s,
                                    ![r].pc = IF req[r].kind = "verify" THEN "retire" ELSE "context"]
        BY <1>2 DEF Create
    <2>. DEFINE where == IF req[r].kind = "verify" THEN "retire" ELSE "context"
                q == [req[r] EXCEPT !.fresh = s, !.pc = where]
    <2>2. /\ Kept(store, store', used, used')
          /\ Capped(store', used', now')
          /\ store' \in [Sids -> Stored]
          /\ used' \subseteq Sids
          /\ s \in used' /\ LateFits
        BY <1>1, <1>2, <2>1, OpenedSaves DEF Create, LateFits
    <2>3. Sound(req[r], store', used', now')
        BY <1>1, <2>2, Frame
    <2>4. q \in Request
        BY <1>1, <2>1 DEF Request, Serving, Handling, Cookie
    <2>5. Sound(q, store', used', now')
        BY <1>1, <2>2, <2>3 DEF Sound, Known, Timely, Faithful, Looking, Guarded, Retired, Serving,
                                Handling, Request
    <2>6. req' = [req EXCEPT ![r] = q]
        BY <2>1
    <2>. HIDE DEF q
    <2>7. req' \in [Requests -> Request] /\ req'[r] = q
          /\ \A v \in Requests \ {r} : req'[v] = req[v]
        BY <1>1, <2>4, <2>6 DEF TypeOK
    <2>. QED
        BY <1>1, <2>2, <2>5, <2>7, Settle
<1>3. CASE CreateFails(r)
    <2>1. /\ req' \in [Requests -> Request]
          /\ \A v \in Requests \ {r} : req'[v] = req[v]
          /\ Sound(req'[r], store', used', now')
        BY <1>1, <1>3, Answering DEF CreateFails
    <2>2. /\ Kept(store, store', used, used')
          /\ Capped(store', used', now')
          /\ store' \in [Sids -> Stored] /\ used' \subseteq Sids /\ LateFits
        <3>1. CASE UNCHANGED <<store, used>>
            <4>1. /\ Kept(store, store', used, used')
                  /\ Capped(store', used', now')
                  /\ store' \in [Sids -> Stored] /\ used' \subseteq Sids
                BY <1>1, <3>1, StoreUnchanged DEF IInv, TypeOK
            <4>2. CASE UNCHANGED late
                BY <4>1, <4>2 DEF LateFits
            <4>3. CASE Abandon(r)
                BY <1>1, <4>1, <4>3, Abandoning
            <4>. QED
                BY <1>3, <4>1, <4>2, <4>3 DEF CreateFails
        <3>2. CASE ~UNCHANGED <<store, used>>
            <4>1. UNCHANGED late /\ \E s \in Sids \ used, data \in Opened(r) : Save(s, data)
                BY <1>3, <3>2 DEF CreateFails
            <4>. QED
                BY <1>1, <4>1, OpenedSaves DEF LateFits
        <3>. QED
            BY <3>1, <3>2
    <2>. QED
        BY <1>1, <2>1, <2>2, Settle
<1>. QED
    BY <1>2, <1>3

\* A response that carries Set-Cookie.
LEMMA AnsweringCookie ==
    ASSUME TypeOK, NEW r \in Requests, NEW reply \in {"issue", "clear"}, AnswerCookie(r, reply),
           NEW st, NEW us, NEW n, Known(req[r], us),
           req[r].kind = "verify" /\ reply = "issue" =>
               req[r].cookie \in us /\ st[req[r].cookie] = NoSession
    PROVE  /\ req' \in [Requests -> Request]
           /\ \A v \in Requests \ {r} : req'[v] = req[v]
           /\ Sound(req'[r], st, us, n)
<1>. DEFINE q == [NoReq EXCEPT !.pc = "reply", !.reply = reply, !.kind = req[r].kind,
                               !.cookie = req[r].cookie, !.fresh = req[r].fresh]
<1>1. req[r] \in Request
    BY DEF TypeOK
<1>2. /\ q \in Request
      /\ q.pc = "reply" /\ q.reply = reply /\ q.kind = req[r].kind /\ q.cookie = req[r].cookie
      /\ q.fresh = req[r].fresh /\ q.data = NoSession
    BY <1>1 DEF NoReq, Request, Replies
<1>3. req' = [req EXCEPT ![r] = q]
    BY DEF AnswerCookie
<1>. HIDE DEF q
<1>4. Sound(q, st, us, n)
    BY <1>2 DEF Sound, Known, Timely, Faithful, Looking, Guarded, Retired, Serving, Handling
<1>. QED
    BY <1>2, <1>3, <1>4 DEF TypeOK

\* The handlers that end a session, and what they do after it.
LEMMA HandlerSteps ==
    ASSUME IInv, NEW r \in Requests,
           \/ Serve(r) \/ Reject(r) \/ Retire(r) \/ RetireFails(r) \/ Undo(r)
           \/ Context(r) \/ Close(r) \/ CloseFails(r)
    PROVE  IInv'
<1>1. TypeOK /\ req[r] \in Request /\ Sound(req[r], store, used, now) /\ used \subseteq Sids
      /\ NoSid \notin Sids
    BY NullAssumption DEF IInv, TypeOK
<1>2. UNCHANGED <<now, used, jar>>
    BY DEF Serve, Reject, Retire, RetireFails, Undo, Context, Close, CloseFails
<1>3. CASE Serve(r) \/ Reject(r)
    <2>1. Answer(r) /\ UNCHANGED <<store, late>>
        BY <1>3 DEF Serve, Reject
    <2>. QED
        BY <1>1, <1>2, <2>1, Answering, SettleLocal
<1>4. CASE Retire(r) \/ RetireFails(r)
    <2>1. req[r].pc = "retire" /\ req[r].cookie \in Sids /\ req[r].kind = "verify"
          /\ req[r].cookie \in used
        BY <1>1, <1>4 DEF Retire, RetireFails, Sound, Retired, Handling
    <2>2. /\ Kept(store, store', used, used')
          /\ Capped(store', used', now')
          /\ store' \in [Sids -> Stored]
          /\ Del(req[r].cookie) => store'[req[r].cookie] = NoSession
        BY <1>2, <1>4, <2>1, Deleting DEF Retire, RetireFails, Uncertain
    <2>3. LateFits
        BY <1>2, <1>4, <2>2, Abandoning DEF Retire, RetireFails, Uncertain, LateFits
    <2>4. Sound(req[r], store', used', now')
        BY <1>1, <1>2, <2>2, Frame
    <2>5. PICK where \in {"context", "undo"} :
              Goto(r, where) /\ (where = "context" => Del(req[r].cookie))
        BY <1>4 DEF Retire, RetireFails
    <2>6. /\ req' \in [Requests -> Request]
          /\ \A v \in Requests \ {r} : req'[v] = req[v]
          /\ req'[r] = [req[r] EXCEPT !.pc = where]
        BY <1>1, <2>5, Going DEF Serving, Handling
    <2>7. Sound([req[r] EXCEPT !.pc = where], store', used', now')
        BY <1>1, <1>2, <2>1, <2>2, <2>4, <2>5
        DEF Sound, Known, Timely, Faithful, Looking, Guarded, Retired, Serving, Handling, Request
    <2>. QED
        BY <1>1, <1>2, <2>2, <2>6, <2>7, <2>3, Settle
<1>5. CASE Undo(r)
    <2>1. req[r].fresh \in Sids /\ Answer(r) /\ Uncertain(r, Del(req[r].fresh))
        BY <1>1, <1>5 DEF Undo, Sound, Retired
    <2>2. /\ Kept(store, store', used, used')
          /\ Capped(store', used', now')
          /\ store' \in [Sids -> Stored]
        BY <1>2, <2>1, Deleting DEF Uncertain
    <2>3. LateFits
        BY <1>2, <2>1, <2>2, Abandoning DEF Uncertain, LateFits
    <2>. QED
        BY <1>1, <1>2, <2>1, <2>2, <2>3, Answering, Settle
<1>6. CASE Context(r)
    <2>1. UNCHANGED <<store, late>> /\ req[r].pc = "context"
        BY <1>6 DEF Context
    <2>2. CASE Answer(r)
        BY <1>1, <1>2, <2>1, <2>2, Answering, SettleLocal
    <2>3. CASE AnswerCookie(r, "issue")
        <3>1. Known(req[r], used) /\ (req[r].kind = "verify" =>
                  req[r].cookie \in used /\ store[req[r].cookie] = NoSession)
            BY <1>1, <2>1 DEF Sound, Retired
        <3>. QED
            BY <1>1, <1>2, <2>1, <2>3, <3>1, AnsweringCookie, SettleLocal
    <2>. QED
        BY <1>6, <2>2, <2>3 DEF Context
<1>7. CASE Close(r) \/ CloseFails(r)
    <2>1. req[r].cookie \in Sids /\ (Del(req[r].cookie) \/ UNCHANGED store)
        BY <1>1, <1>7
        DEF Close, CloseFails, Closes, Runs, Uncertain, Sound, Retired, Handling
    <2>2. /\ Kept(store, store', used, used')
          /\ Capped(store', used', now')
          /\ store' \in [Sids -> Stored]
        BY <1>2, <2>1, Deleting
    <2>3. LateFits
        BY <1>2, <1>7, <2>2, Abandoning DEF Close, CloseFails, Uncertain, LateFits
    <2>4. CASE Answer(r)
        BY <1>1, <1>2, <2>2, <2>4, <2>3, Answering, Settle
    <2>5. CASE AnswerCookie(r, "clear")
        BY <1>1, <1>2, <2>2, <2>5, <2>3, AnsweringCookie, Settle DEF Sound
    <2>. QED
        BY <1>7, <2>4, <2>5 DEF Close, CloseFails
<1>. QED
    BY <1>3, <1>4, <1>5, <1>6, <1>7

\* A request arrives.
LEMMA SendStep ==
    ASSUME IInv, NEW r \in Requests, Send(r)
    PROVE  IInv'
<1>1. TypeOK /\ UNCHANGED <<now, store, used, jar, late>> /\ now \in Nat /\ jar.sid \in used \cup {NoSid}
      /\ jar.sid \in Cookie
    BY DEF IInv, TypeOK, Send
<1>2. CASE Answer(r)
    BY <1>1, <1>2, Answering, SettleLocal
<1>3. CASE ~Answer(r)
    <2>1. PICK k \in Kinds, t \in BOOLEAN :
              /\ jar.sid # NoSid \/ k = "login"
              /\ req' = [req EXCEPT ![r] = [NoReq EXCEPT
                          !.pc = IF jar.sid = NoSid THEN "run" ELSE "load",
                          !.kind = k, !.cookie = jar.sid, !.token = t /\ k # "read", !.at = now,
                          !.gate = IF k \in Unsafe THEN "guard" ELSE "extract"]]
        BY <1>3, Zenon DEF Send
    <2>. DEFINE where == IF jar.sid = NoSid THEN "run" ELSE "load"
                gate == IF k \in Unsafe THEN "guard" ELSE "extract"
                token == t /\ k # "read"
                q == [NoReq EXCEPT !.pc = where, !.kind = k, !.cookie = jar.sid,
                                   !.token = token, !.at = now, !.gate = gate]
    <2>2. token \in BOOLEAN /\ where \in {"run", "load"} /\ gate \in {"guard", "extract"}
          /\ (where = "load" <=> jar.sid # NoSid) /\ (gate = "extract" => k \notin Unsafe)
        OBVIOUS
    <2>3. req' = [req EXCEPT ![r] = q]
        BY <2>1
    <2>. HIDE DEF where, gate, token
    <2>4. /\ q \in Request
          /\ q.pc = where /\ q.kind = k /\ q.cookie = jar.sid /\ q.at = now /\ q.gate = gate
          /\ q.data = NoSession /\ q.fresh = NoSid
        BY <1>1, <2>2 DEF NoReq, Request, Serving, Handling, Cookie, Replies
    <2>. HIDE DEF q
    <2>5. Sound(q, store, used, now)
        BY <1>1, <2>1, <2>2, <2>4, TtlAssumption
        DEF Sound, Known, Timely, Faithful, Looking, Guarded, Retired, Handling
    <2>. QED
        BY <1>1, <2>3, <2>4, <2>5, SettleLocal DEF TypeOK
<1>. QED
    BY <1>2, <1>3

\* A response reaches the browser, or a request is given up.
LEMMA LeavingSteps ==
    ASSUME IInv, NEW r \in Requests, Deliver(r) \/ Drop(r)
    PROVE  IInv'
<1>1. TypeOK /\ req[r] \in Request /\ Known(req[r], used) /\ now \in Nat
      /\ UNCHANGED <<now, store, used>> /\ req' = [req EXCEPT ![r] = NoReq]
    BY DEF IInv, TypeOK, Sound, Deliver, Drop
<1>2. NoReq \in Request /\ NoReq.pc = "idle" /\ NoReq.cookie = NoSid /\ NoReq.fresh = NoSid
      /\ NoReq.data = NoSession /\ NoReq.kind = "read"
    BY DEF NoReq, Request, Kinds, Cookie, Replies
<1>3. \A v \in Requests : Sound(req'[v], store', used', now')
    <2>1. Sound(NoReq, store, used, now)
        BY <1>2, BlankSound
    <2>. QED
        BY <1>1, <2>1 DEF IInv, TypeOK
<1>4. jar'.sid \in used' \cup {NoSid} /\ jar' \in [sid : Cookie, until : Nat]
    <2>1. /\ jar.sid \in used \cup {NoSid} /\ jar \in [sid : Cookie, until : Nat]
          /\ req[r].fresh \in used \cup {NoSid} /\ req[r].fresh \in Cookie
          /\ now + IdleTtl \in Nat
        BY <1>1, TtlAssumption DEF IInv, TypeOK, Known, Request
    <2>2. NoCookie.sid = NoSid /\ NoCookie \in [sid : Cookie, until : Nat]
        BY DEF NoCookie, Cookie
    <2>3. jar' \in {jar, NoCookie, [sid |-> req[r].fresh, until |-> now + IdleTtl]}
        BY DEF Deliver, Drop
    <2>. QED
        BY <1>1, <2>1, <2>2, <2>3
<1>6. late' \subseteq Command /\ \A c \in late' : Granted(c, store', used', now')
    <2>1. Kept(store, store', used, used') /\ now' = now
        BY <1>1, StoreUnchanged
    <2>2. LateFits
        BY <2>1, Abandoning DEF Deliver, Drop, LateFits
    <2>. QED
        BY <2>1, <2>2, LateSettles
<1>5. req' \in [Requests -> Request]
    BY <1>1, <1>2 DEF TypeOK
<1>. QED
    BY <1>1, <1>3, <1>4, <1>5, <1>6 DEF IInv, TypeOK

\* Redis catches up with a command left behind.
LEMMA LateStep ==
    ASSUME IInv, NEW c \in late, RunLate(c)
    PROVE  IInv'
<1>1. /\ TypeOK /\ c \in Command /\ Granted(c, store, used, now) /\ now \in Nat
      /\ used \subseteq Sids /\ UNCHANGED <<now, jar, req>> /\ late' = late \ {c}
    BY DEF IInv, TypeOK, RunLate
<1>2. c.by \in Nat /\ now <= c.by
    BY <1>1 DEF Command, Granted
<1>3. /\ Kept(store, store', used, used')
      /\ Capped(store', used', now')
      /\ store' \in [Sids -> Stored] /\ used' \subseteq Sids
    <2>1. ASSUME NEW s \in Sids \ used, c.op = "save", Save(s, c.data)
          PROVE  /\ Kept(store, store', used, used')
                 /\ Capped(store', used', now')
                 /\ store' \in [Sids -> Stored] /\ used' \subseteq Sids
        <3>1. c.data \in Data /\ c.by + IdleTtl < HardCap(c.data.absolute)
            BY <1>1, <2>1 DEF Command, Granted
        <3>2. now + IdleTtl < HardCap(c.data.absolute)
            BY <1>1, <1>2, <3>1, TtlAssumption DEF HardCap, Data
        <3>. QED
            BY <1>1, <2>1, <3>1, <3>2, Saving
    <2>2. CASE c.op = "touch" /\ Expire(c.sid) /\ UNCHANGED used
        <3>1. /\ c.sid \in used /\ c.sid \in Sids
              /\ store[c.sid] # NoSession => c.by + IdleTtl < HardCap(store[c.sid].absolute)
            BY <1>1, <2>2 DEF Granted
        <3>2. store[c.sid] # NoSession => store[c.sid].absolute \in Nat
            BY <1>1, <3>1 DEF TypeOK, Stored, Entry
        <3>3. store[c.sid] # NoSession => now + IdleTtl < HardCap(store[c.sid].absolute)
            BY <1>1, <1>2, <3>1, <3>2, TtlAssumption DEF HardCap
        <3>. QED
            BY <1>1, <2>2, <3>1, <3>3, Expiring
    <2>3. CASE c.op = "destroy" /\ Del(c.sid) /\ UNCHANGED used
        BY <1>1, <2>3, Deleting DEF Granted
    <2>4. CASE UNCHANGED <<store, used>>
        BY <1>1, <2>4, StoreUnchanged DEF IInv, TypeOK
    <2>. QED
        BY <2>1, <2>2, <2>3, <2>4 DEF RunLate
<1>4. \A v \in Requests : Sound(req'[v], store', used', now')
    BY <1>1, <1>3, Frame DEF IInv, TypeOK
<1>5. late' \subseteq Command /\ \A d \in late' : Granted(d, store', used', now')
    <2>1. LateFits
        BY <1>1 DEF LateFits
    <2>. QED
        BY <1>1, <1>3, <2>1, LateSettles
<1>. QED
    BY <1>1, <1>3, <1>4, <1>5 DEF IInv, TypeOK, Kept

\* Time passes.
LEMMA TickStep ==
    ASSUME IInv, Tick
    PROVE  IInv'
<1>1. TypeOK /\ now \in Nat /\ now' = now + 1 /\ UNCHANGED <<used, req, late>>
    BY DEF IInv, TypeOK, Tick
<1>2. store' \in [Sids -> Stored] /\ Kept(store, store', used, used')
    BY <1>1 DEF TypeOK, Tick, Kept, Stored, Entry
<1>3. Capped(store', used', now')
    <2>1. SUFFICES ASSUME NEW s \in Sids
                   PROVE  /\ s \notin used => store'[s] = NoSession
                          /\ store'[s] # NoSession =>
                                /\ now + 1 < store'[s].idle
                                /\ store'[s].idle < HardCap(store'[s].absolute)
        BY <1>1 DEF Capped
    <2>2. store'[s] = IF store[s] # NoSession /\ store[s].idle <= now + 1
                      THEN NoSession ELSE store[s]
        BY DEF Tick
    <2>3. store[s] # NoSession => store[s].idle \in Nat
        BY <1>1 DEF TypeOK, Stored, Entry
    <2>. QED
        BY <1>1, <2>2, <2>3 DEF IInv, Capped
<1>4. \A v \in Requests : Sound(req'[v], store', used', now')
    <2>1. SUFFICES ASSUME NEW v \in Requests PROVE Sound(req[v], store', used', now')
        BY <1>1
    <2>2. req[v] \in Request /\ Sound(req[v], store, used, now)
          /\ (req[v].pc \in Serving => now < req[v].at + RequestTimeout)
        BY DEF IInv, TypeOK, Tick
    <2>. QED
        BY <1>1, <1>2, <2>2, Frame
<1>5. jar' \in [sid : Cookie, until : Nat] /\ jar'.sid \in used' \cup {NoSid}
    <2>1. jar' \in {jar, NoCookie}
        BY DEF Tick
    <2>2. NoCookie.sid = NoSid /\ NoCookie \in [sid : Cookie, until : Nat]
        BY DEF NoCookie, Cookie
    <2>. QED
        BY <1>1, <2>1, <2>2 DEF IInv, TypeOK
<1>6. \A c \in late' : Granted(c, store', used', now')
    BY <1>1, <1>2, LateFrame DEF IInv, TypeOK, Tick
<1>. QED
    BY <1>1, <1>2, <1>3, <1>4, <1>5, <1>6 DEF IInv, TypeOK

\* Every step of every request, a failed or a dropped one included, and the
\* passing of time preserve the invariant.
LEMMA NextIInv == IInv /\ [Next]_vars => IInv'
<1>. SUFFICES ASSUME IInv, [Next]_vars PROVE IInv'
    OBVIOUS
<1>1. CASE UNCHANGED vars
    BY <1>1 DEF vars, IInv, TypeOK, Capped
<1>2. CASE Next
    <2>1. CASE Tick
        BY <2>1, TickStep
    <2>2. CASE \E c \in late : RunLate(c)
        BY <2>2, LateStep
    <2>3. CASE ~Tick /\ ~\E c \in late : RunLate(c)
        <3>1. PICK r \in Requests :
                  \/ Send(r)
                  \/ LoadLive(r) \/ LoadExpired(r) \/ LoadNothing(r) \/ LoadFails(r)
                  \/ Evict(r) \/ Touch(r) \/ TouchFails(r)
                  \/ Serve(r) \/ Reject(r)
                  \/ Create(r) \/ CreateFails(r)
                  \/ Retire(r) \/ RetireFails(r) \/ Undo(r)
                  \/ Context(r)
                  \/ Close(r) \/ CloseFails(r)
                  \/ Deliver(r) \/ Drop(r)
            BY <1>2, <2>3 DEF Next
        <3>. QED
            BY <3>1, SendStep, LookupSteps, RefusingSteps, CreatingSteps, HandlerSteps, LeavingSteps
    <2>. QED
        BY <2>1, <2>2, <2>3
<1>. QED
    BY <1>1, <1>2

-----------------------------------------------------------------------------
\* The variables keep their types.
THEOREM TypeCorrect == Spec => []TypeOK
<1>1. IInv => TypeOK
    BY DEF IInv
<1>. QED
    BY InitIInv, NextIInv, <1>1, PTL DEF Spec

\* A state-changing handler runs on a session only with that session's token,
\* whatever Redis answers to the guard's lookup and to the extractor's.
THEOREM WritesCarryToken == Spec => []NoForgedWrite
<1>1. IInv => NoForgedWrite
    BY DEF IInv, NoForgedWrite, Sound, Guarded, Serving
<1>. QED
    BY InitIInv, NextIInv, <1>1, PTL DEF Spec

\* A step-up that answers has ended the session it came from.
THEOREM StepUpRetires == Spec => []RotationRetiresOld
<1>1. IInv => RotationRetiresOld
    BY DEF IInv, RotationRetiresOld, Sound, Retired
<1>. QED
    BY InitIInv, NextIInv, <1>1, PTL DEF Spec

\* No handler acts for a session more than a request after its cut-off.
THEOREM HandlersHardCapped == Spec => []ServedWithinHardCap
<1>1. IInv => ServedWithinHardCap
    <2>1. SUFFICES ASSUME IInv, NEW r \in Requests, req[r].pc \in Handling,
                          req[r].data # NoSession
                   PROVE  now < req[r].data.absolute + RequestTimeout
        BY DEF ServedWithinHardCap
    <2>2. req[r] \in Request /\ now \in Nat /\ Sound(req[r], store, used, now)
        BY <2>1 DEF IInv, TypeOK
    <2>3. req[r].at \in Nat /\ req[r].data.absolute \in Nat
        BY <2>1, <2>2 DEF Request, Data
    <2>. QED
        BY <2>1, <2>2, <2>3, TtlAssumption DEF Sound, Timely, Faithful, Serving
<1>. QED
    BY InitIInv, NextIInv, <1>1, PTL DEF Spec

\* No key survives its absolute cut-off by more than a request, the lag of Redis
\* and an idle TTL, whatever the lag is.
THEOREM KeysHardCapped == Spec => []GoneAfterHardCap
<1>1. IInv => GoneAfterHardCap
    BY DEF IInv, GoneAfterHardCap, Capped, HardCap
<1>. QED
    BY InitIInv, NextIInv, <1>1, PTL DEF Spec

-----------------------------------------------------------------------------
\* Every step ends some sessions or issues one, or does nothing to any.
LEMMA StoreStep ==
    ASSUME IInv, [Next]_vars
    PROVE  \/ used' = used /\ Kept(store, store', used, used')
           \/ \E s \in Sids \ used, data \in Data : Save(s, data)
<1>1. /\ TypeOK /\ used \subseteq Sids
      /\ \A r \in Requests : req[r] \in Request /\ Sound(req[r], store, used, now)
    BY DEF IInv, TypeOK
<1>2. CASE UNCHANGED vars
    BY <1>1, <1>2, StoreUnchanged DEF vars
<1>3. CASE Tick
    BY <1>1, <1>3 DEF Tick, Kept, TypeOK
<1>4. ASSUME NEW r \in Requests,
             \/ Send(r) \/ LoadLive(r) \/ LoadExpired(r) \/ LoadNothing(r) \/ LoadFails(r)
             \/ Serve(r) \/ Reject(r) \/ Context(r) \/ Deliver(r) \/ Drop(r)
      PROVE  used' = used /\ Kept(store, store', used, used')
    <2>1. UNCHANGED <<store, used>>
        BY <1>4 DEF Send, LoadLive, LoadExpired, LoadNothing, LoadFails, Serve, Reject, Context,
                    Deliver, Drop
    <2>. QED
        BY <1>1, <2>1, StoreUnchanged
<1>5. ASSUME NEW r \in Requests,
             \/ Evict(r) \/ Retire(r) \/ RetireFails(r) \/ Undo(r) \/ Close(r) \/ CloseFails(r)
      PROVE  used' = used /\ Kept(store, store', used, used')
    <2>1. used' = used /\ \E s \in Sids \cup {NoSid} : Del(s) \/ UNCHANGED store
        <3>1. req[r].cookie \in Sids \cup {NoSid} /\ req[r].fresh \in Sids \cup {NoSid}
            BY <1>1 DEF Request, Cookie
        <3>. QED
            BY <1>5, <3>1 DEF Evict, Retire, RetireFails, Undo, Close, CloseFails, Uncertain
    <2>. QED
        BY <1>1, <2>1 DEF Del, Kept, TypeOK
<1>6. ASSUME NEW r \in Requests, Touch(r) \/ TouchFails(r)
      PROVE  used' = used /\ Kept(store, store', used, used')
    <2>1. /\ req[r].pc = "touch" /\ used' = used /\ now' = now
          /\ Expire(req[r].cookie) \/ UNCHANGED store
        BY <1>6 DEF Touch, TouchFails, Uncertain
    <2>. QED
        BY <2>1, TouchExpires
<1>7. ASSUME NEW r \in Requests, Create(r) \/ CreateFails(r)
      PROVE  \/ used' = used /\ Kept(store, store', used, used')
             \/ \E s \in Sids \ used, data \in Data : Save(s, data)
    <2>1. /\ req[r].pc = "run"
          /\ \/ UNCHANGED <<store, used>>
             \/ \E s \in Sids \ used, data \in Opened(r) : Save(s, data)
        BY <1>7 DEF Create, CreateFails, Runs
    <2>2. CASE UNCHANGED <<store, used>>
        BY <1>1, <2>2, StoreUnchanged
    <2>3. ASSUME NEW s \in Sids \ used, NEW data \in Opened(r), Save(s, data)
          PROVE  data \in Data
        BY <2>1, <2>3, OpenedGranted
    <2>. QED
        BY <2>1, <2>2, <2>3
<1>8. ASSUME NEW c \in late, RunLate(c)
      PROVE  \/ used' = used /\ Kept(store, store', used, used')
             \/ \E s \in Sids \ used, data \in Data : Save(s, data)
    <2>1. c \in Command /\ Granted(c, store, used, now)
        BY DEF IInv, TypeOK
    <2>2. CASE c.op = "save" /\ \E s \in Sids \ used : Save(s, c.data)
        <3>1. c.data \in Data
            BY <2>1, <2>2 DEF Command, Granted
        <3>. QED
            BY <2>2, <3>1
    <2>3. CASE c.op # "save" \/ UNCHANGED <<store, used>>
        <3>1. /\ used' = used
              /\ UNCHANGED store \/ \E s \in used : Expire(s) \/ Del(s)
            BY <1>8, <2>1, <2>3 DEF RunLate, Granted
        <3>. QED
            BY <1>1, <3>1 DEF Expire, Del, Kept, TypeOK, Stored, Entry
    <2>. QED
        BY <1>8, <2>2, <2>3 DEF RunLate
<1>. QED
    BY <1>2, <1>3, <1>4, <1>5, <1>6, <1>7, <1>8 DEF Next

\* Identifiers are issued once, keep their second factor and end for good:
\* a step is an Issue or an End of SessionLife, or changes no life.
THEOREM Refinement == Spec => ImplementsSessionLife
<1>. DEFINE life == [s \in Sids |-> LifeOf(s)]
<1>1. Init => Life!LifeInit
    BY DEF Init, Life!LifeInit, LifeOf
<1>2. IInv /\ [Next]_vars => [Life!LifeNext]_life
    <2>1. SUFFICES ASSUME IInv, [Next]_vars PROVE Life!LifeNext
        OBVIOUS
    <2>2. /\ TypeOK /\ used \subseteq Sids
          /\ \A s \in Sids : s \notin used => store[s] = NoSession
        BY <2>1 DEF IInv, TypeOK, Capped
    <2>3. CASE used' = used /\ Kept(store, store', used, used')
        <3>. DEFINE S == {s \in used : store[s] # NoSession /\ store'[s] = NoSession}
        <3>1. \A s \in S : life[s] \in {"plain", "elevated"}
            BY <2>2 DEF LifeOf
        <3>2. \A s \in Sids : LifeOf(s)' = IF s \in S THEN "ended" ELSE life[s]
            BY <2>2, <2>3 DEF LifeOf, Kept
        <3>3. life' = [s \in Sids |-> IF s \in S THEN "ended" ELSE life[s]]
            BY <3>2
        <3>4. S \in SUBSET Sids
            BY <2>2
        <3>5. Life!End(S)
            BY <3>1, <3>3 DEF Life!End
        <3>. QED
            BY <3>4, <3>5 DEF Life!LifeNext
    <2>4. CASE \E s \in Sids \ used, data \in Data : Save(s, data)
        <3>1. PICK s \in Sids \ used, data \in Data : Save(s, data)
            BY <2>4
        <3>. DEFINE as == IF data.mfa THEN "elevated" ELSE "plain"
        <3>2. store'[s].mfa = data.mfa /\ data.mfa \in BOOLEAN /\ store'[s] # NoSession
            <4>1. [mfa |-> data.mfa, absolute |-> data.absolute, idle |-> now + IdleTtl] \in Entry
                BY <2>2, TtlAssumption DEF TypeOK, Entry, Data
            <4>. QED
                BY <2>2, <3>1, <4>1, NullAssumption DEF Save, TypeOK, Data
        <3>3. life' = [life EXCEPT ![s] = as]
            BY <2>2, <3>1, <3>2 DEF LifeOf, Save, TypeOK
        <3>4. life[s] = "unborn"
            BY <3>1 DEF LifeOf
        <3>. QED
            BY <3>3, <3>4 DEF Life!LifeNext, Life!Issue
    <2>. QED
        BY <2>1, <2>3, <2>4, StoreStep
<1>. QED
    BY InitIInv, NextIInv, <1>1, <1>2, PTL DEF Spec, ImplementsSessionLife, Life!LifeSpec
=============================================================================
