# Verification of Le Concierge

TLA+ models of the API (`apps/api`, Rust on Postgres and Redis), from its start to
its end, and of the web application's session handling and property page
(`apps/web`, Vue), checked with TLC, and theorems about them proved with TLAPS.
Paths are relative to the root of the repository. `PROJECT.json` says, definition
by definition, which lines each module models.

    cd tla
    tlc -workers 2 -config Sessions.cfg MCSessions     # every MC module has its .cfg
    tlapm Sessions_proofs.tla                          # every *_proofs module

## 1. The system

A request goes through axum's layers (timeout, rate limit, CSRF guard), an
extractor (`AuthenticatedUser`, `Membership`), a handler, a service and a
repository. State lives in Postgres (users, organisations, members, invitations,
properties, second factors, audit events), in Redis (sessions) and in the browser
(a cookie and a store). Handlers share nothing in memory but the pools. Every
`await` lets other requests run; at every `await` the request may be its
last: `TimeoutLayer` drops the future, the client leaves, the process stops, or
the backend answers an error. Most operations are several statements, each a
transaction of its own.

| component | state | operations | interacts through |
| --- | --- | --- | --- |
| Audit trail (`audit/`) | `audit_events`, its id sequence, the advisory lock | `record`, `record_in_tx` | called after a handler's own commit; takes a pool connection |
| Sessions, cookie, CSRF, step-up (`session/`) | `session:<sid>` in Redis; the browser's `lc_sid` | `create`, `lookup`, `destroy`, `verify_mfa`; the guard and the extractor | every request; login, sign-up, logout, 2FA handlers drive it |
| Password login and lockout (`auth/`) | `failed_login_attempts`, `locked_until` | `login_with_password`, `record_failed_login`, `reset_failed_logins` | then a session is created |
| Second factor (`auth/totp/`) | `user_totp`, `user_totp_recovery_codes` | start and confirm enrolment, verify, disable | a success rotates the session |
| Sign-up, organisations, invitations (`invites/`, `auth/`) | users, organisations, members, `organization_invites` | sign up, create, cancel, preview, accept, sign up and accept | mail out; memberships are what tenancy reads |
| Tenancy and properties (`tenancy/`, `properties/`) | `organization_members`, `properties` | the extractor; list, get, create, update, soft delete | an audit event after each change |
| Web session store and router (`apps/web`) | Pinia's session store, the route, calls under way | `hydrate`, `setFromAuth`, `clear`, `authGuard`, the views that log in, step up, accept | the API's `/auth`, `/auth/2fa` and `/invites` routes |
| Web property page (`PropertyFormView.vue`, `useProperties.ts`) | query cache, form fields, two mutations | fetch, type, save, delete, refetch | `GET`, `PATCH` and `DELETE` of a property; others write the same row |
| The process (`config.rs`, `main.rs`, `state.rs`, `app.rs`, `middleware.rs`, `telemetry.rs`, `health/`) | the loaded configuration, the pool, the handlers in flight | load, check, bind, serve, cut handlers short, drain, stop | signals, Postgres, Redis; every handler runs inside its layers |
| Other web views, forms, translations | query cache | show, validate, send | the calls above |
| Hashing, TOTP arithmetic; mail transport; token bucket; error wording and DTOs | none of their own | - | - |

What is hard, and what makes each part correct:

* **Audit trail.** Writers append to one chain at once; a rollback leaves a gap
  in the ids; a writer waits for a lock with a connection in hand. Correct when
  verification of an untampered table always succeeds, no event is written twice
  or before its operation, and no writer waits for ever.
* **Sessions.** A lookup is three Redis commands between which a logout, a
  rotation or an eviction may run; each may fail alone. Correct when an ended
  session never returns, no state-changing handler runs without the session's
  token, a step-up leaves one session, and the hard cut-off holds.
* **Lockout.** Counting and locking are two statements of concurrent logins that
  decide on a row read earlier. Correct when no failure is lost, five lock, a lock
  stops whoever comes later, and a lock is no longer than the failures earned and
  never gets shorter.
* **Second factor.** Enrolment takes two requests and several statements, one of
  which locks nothing when there is no row. Correct when a recovery code works
  once, active enrolments have their own codes, only a removal ends one, and an
  active secret was proven.
* **Invitations.** Look-up, hashing and consumption are apart; an invitation may
  be cancelled, accepted or expire in between. Correct when it is settled once, in
  time, and gives nobody a second or a higher role.
* **Properties.** Role and organisation are resolved before the statement runs.
  Correct when nothing crosses organisations, a deletion happens once and a slug
  names one property.
* **Web.** Bootstrap and guard both hydrate, answers arrive in any order, the
  guard redirects on flags calls change. Correct when the store's token is the
  cookie's, nobody with a live session lands on `/login` without a cause, and
  navigations end.
* **Property page.** The form sends every field it was seeded with, and is reset
  whenever a refetch brings another row; a save, a delete and a fetch run at once,
  and each may be lost, late or repeated. Correct when a save only writes what its
  user typed in or somebody else changed since, a save is not taken back by
  a fetch that was on its way, and an API answer that tells the user the property is
  gone came from one that was.
* **The process.** A setting may come from three layers and is parsed at different
  steps of the boot; a handler may be cut short while Postgres executes its
  statement; a signal arrives at any time. Correct when nothing is served with a setting
  missing, unknown or unusable, an answer says the truth about the row, and a
  process that is told to stop does so.

`PROJECT.json` lists the 40 places where these go wrong if they do ("hazards"),
with the properties that would show it.

## 2. The modules

| module | models | abstract specification |
| --- | --- | --- |
| `AuditChain` | `audit/record.rs` statement by statement, with the pool | `AuditLog` |
| `Sessions` | `session/*.rs` and the handlers that create, rotate or end sessions | `SessionLife` |
| `Lockout` | `login_with_password` and the two statements of a failure | - |
| `Totp` | `auth/totp/` | `SecondFactor` |
| `Invites` | `invites/` and `signup_organization` | `Team`; `Memberships` for the table it shares |
| `Properties` | `tenancy/mod.rs`, `properties/` | `Catalog`; relies on `Memberships` |
| `WebSession` | `stores/session.ts`, `router/index.ts`, `lib/api-client.ts` and the calls of the views, against an API abstracted from `Sessions` and `Invites` | - |
| `PropertyForm` | `PropertyFormView.vue`, `useProperties.ts`, against the row `Properties` models | - |
| `Server` | `config.rs`, `main.rs`, `state.rs`, the layers of `app.rs`, `health/`, and every handler at the grain of its awaits | - |

Each `MC*` module extends one of these with the symmetry sets or bounds of its
runs; each `*_proofs` module extends one with theorems, and `Web_proofs` both modules of
the web application, which is why the names of `WebSession` that `PropertyForm` has too
carry a `Tab` (`TabTypeOK`, `TabInit`, `TabNext`).

**How actions correspond to code.** An action is the code between two awaits at
which something else can change the outcome. A record per request (`req`,
`login`, `handler`, `call`) holds its program counter and its locals: what it read
and still uses. A transaction that holds a row lock from its first statement on is
one action; one that does not is split where it may be overtaken. A request that
stops is an action of its own (`Abort`, `Drop`, `GiveUp`, `Refuse`, and a `...Fails`
where the state it leaves matters), enabled at every await, and it undoes only what
Postgres rolls back.

*AuditChain.* `CommitOperation` is a handler's own commit; `Begin`, `TakeLock`,
`ReadLast`, `Insert`, `Commit` are the statements of `record_in_tx`, `Abort` a
rollback anywhere, after which the id drawn stays drawn. A hash is the sequence
of events it was computed from: SHA-256 without collisions.

*Sessions.* `LoadLive`/`LoadExpired`/`LoadNothing`/`LoadFails`, `Evict`, `Touch` are
the commands of `lookup`, run once by the guard (unsafe methods) and once by the
extractor; `Create`, `Retire`, `Undo`, `Close` those of the handlers. A failed write may or may
not have been carried out. Nor does a write die with the request that waits for it: the
`ConnectionManager` has it by then, so `Abandon` leaves it in `late` and `RunLate` carries it
out after the 408, or loses it. A response without `Set-Cookie` is one `Answer`, whatever its
status. The clock ticks; Redis drops keys and the browser drops its cookie when their
time is over.

*Lockout.* `check`, `count`, `lock`, `reset` are the four awaits. The timeout ends the
comparison (`InServer`), and no statement: one that was sent may be carried out at any time
later, but nobody then takes up its result (`CountFails`). The schedule is
the function `progressive_lockout_window`, not the table in the comment (finding).

*Totp.* `insert` is apart from the `SELECT ... FOR UPDATE` that found nothing;
`promote` from the check of a code; `mark` from the list of codes; `delete` of
the codes from that of the row. A TOTP code is right or wrong.

*Invites.* `signup_and_accept` is a user's INSERT, then a transaction. Tokens are
guessed by nobody: a look-up needs a mailed one. `CreateRefused` is the 409 of the
unique index, with the row it met; `Listed` is what `list_pending` shows.

*Properties.* `Resolve` is the extractor, the other actions one scoped statement
each. `notes` stands for every nullable column.

*WebSession.* One tab. A call is `sent`, then answered by the API at once (`ok` or
`refused`, or lost), and its answer taken up later; a GET is retried as `ky` does.
`Offers` is what the views let the user send, each an operator of its own; a
button's spinner is left out, so that the same form may be sent twice.

*PropertyForm.* One input stands for each field of the form: blank or a text, seeded,
sent and reset like the others. `Deliver` is the watcher over the query's data,
which runs only when the row is another one; `GetMissing` and `GetFails` are a fetch
answered 404 and one that failed otherwise, after which the view shows the same words in
place of the form (`shown`, and a finding); `Updated` is the API's
`COALESCE`; `SaveLost` and `ServeLate` are a `PATCH` whose client gave up, which is
not repeated but may still be carried out; `AttemptFails` and `Retry` are a `DELETE`,
which `ky` repeats; `Invalidated` is `invalidateQueries`, which begins a fetch again
when the query has data and joins it when it has none. `SaveElsewhere` and
`DeleteElsewhere` are the other members.

*Server.* `Load`, `InitTelemetry`, `NewState` and `Bind` are `main` up to
`axum::serve`, each with the settings it checks: a setting is kept by what its
parser makes of it (`"hex32"`, `"mailbox"`, garbage). A request is at the guard, the
extractor, its statement, its audit event or, at a sign-up, its session; one that carries no
cookie (`"open"`) passes the guard without a look-up, so also with Redis down; `Send` and `StatementEnds` are apart, and
a statement that was sent keeps its connection though its handler was dropped
(`Timeout`, `Leave`, `Panic`). Postgres and Redis go down and come back at will.

**How they compose.** `Sessions` takes "the password was right" from `Lockout`
and "the code was right" from `Totp` as free choices, and any order of them;
`WebSession` takes the API's answers from `Sessions`' and `Invites`' actions at
the grain of a whole call, and its sessions are proved to live as `SessionLife` says, which
`Sessions` is proved to implement. `organization_members` is the one table two components
share, one writing what the other reads: `Memberships` is the contract between them.
`Invites` is proved to keep it, and `Properties!Join`, the only step `Properties`' environment
takes, is a step of it.
`PropertyForm` takes `Properties!Get`, `Update` and `SoftDelete` on one row.
`Server` says what the layers around every handler do to it; that a handler may
stop at any await with its statement carried out or not is what the other modules
take from it, and its timeout is the `RequestTimeout` of `Lockout` and `Sessions`.

Some modules keep variants of an action that `Next` does not use (`TakeLockUnserialised`,
`Update`'s `UpdateWhole`, `CountFromSnapshot`, ...). They are the code with a plausible
mistake in it: substituted for the action beside them they make TLC refute the
property `PROJECT.json` names under "mutants", so each property is known to
depend on that detail of the code.

## 3. What the runs check

Runs that pass. No constraint cuts the state space: the bounds below are guards or
the sizes of sets, and each run is exhaustive within them.

| run | bounds | states | properties |
| --- | --- | --- | --- |
| `AuditChain.cfg` | 3 writers, 3 events, 2 connections | 2,261 | `ChainIntact`, `HashCommitsToHistory`, `ImplementsAuditLog`, `WriterFinishes` |
| `Sessions.cfg` | 2 requests, 2 session ids, both TTLs 2, request timeout 1, Redis lag 1, at most 2 requests and abandoned commands at a time, clock to 4 | 1,503,537 | `NoForgedWrite`, `RotationRetiresOld`, `ServedWithinHardCap`, `GoneAfterHardCap`, `ImplementsSessionLife` |
| `Lockout.cfg` | 3 logins, 4 or 8 failures before, at most 10 tried, lengths 2 < 3 < 4 < 5, clock to 3 | 3,819,573 | `GuessesCounted`, `LockHoldsForNewcomers`, `FiveFailuresLock`, `LockIsEarned` |
| `Totp.cfg` | 3 requests, 3 secrets, 2 batches of 2 codes | 51,712 | `CodeUsedOnce`, `ActiveHasItsCodes`, `ImplementsSecondFactor` |
| `Invites.cfg` | 2 requests, 2 organisations, 2 addresses, 2 invitations, lifetime 1, clock to 2 | 103,667 | `AcceptedInTime`, `LoneAccountsWereInvited`, `ImplementsTeam` |
| `Properties.cfg` | 2 requests, users, organisations, slugs and ids, 1 text | 163,526 | `TenantIsolation`, `DeletedOnce`, `ImplementsCatalog` |
| `WebSession.cfg` | 2 calls, 2 sessions, 1 retry, 2 clicks | 192,410 | `BounceIsRight`, `TokenFollowsCookie`, `NavigationSettles` |
| `PropertyForm.cfg` | 1 editor, 2 texts, 2 saves, 1 retry | 4,036,931 | `GoneToldTruly`, `SavesOnlyEdits`, `OwnSaveShown` |
| `Server.cfg` | 2 requests, 1 connection, 11 environments, 2 files | 88,448 | `FailsClosed`, `AnswersTruly`, `StopsWhenTold` |

Each of them also checks the module's `TypeOK` (`TabTypeOK` in `WebSession`).

Why the bounds are enough:

* *AuditChain:* one writer holds the lock, one waits for it with the last connection, the
  third waits for a connection: every kind of waiting there is.
* *Sessions:* a request that overtakes a lookup, and one identifier to rotate to. The
  clock goes two ticks beyond the absolute TTL, so that eviction by the code, expiry by Redis and
  a touch past the cut-off, late ones included, all happen. An abandoned command takes the place
  of a request (`MaxBusy`). Nothing in the code bounds how long Redis may sit on a
  command; every finite behaviour has such a bound, and `RedisLag` stands for it:
  `GoneAfterHardCap` says what it adds. The proofs (section 5) lift all of these.
* *Lockout:* with 4 and 8 failures behind it and 3 logins under way the account
  crosses 5 and 10, the first boundaries of the schedule, with a failure between
  both statements of another and a success beside them. The lengths keep the
  order of ten minutes, an hour, a day and a week, not their proportion.
* *Totp:* enrol, disable, enrol again needs two batches; the race beside it a third
  secret and a third request.
* *Invites:* two invitations to one address (of two organisations, or one after
  the other), and a second person to steal or to own.
* *Properties:* a slug of the own and of the other organisation, and an id that is
  deleted while its slug is given away.
* *WebSession:* two calls overtake each other; a second session replaces the first.
  A reload is a new run of `Init` with the cookie the browser has by then, which
  `Init` leaves free.
* *PropertyForm:* one tab's save and one elsewhere, before, between or after each
  other, and one repetition of a delete (`ky` makes two): the other editors reach the tab
  through the row alone, and the proofs lift every one of these bounds.
* *Server:* two requests and one connection are the smallest in which a handler waits
  for a connection that another, dropped or not, holds. A request is a read, a write
  with a cookie, a write without one or a health check. The environments hold one that
  boots, one that boots with SMTP, one that names a file and one for each
  way a setting can be missing, unknown or unusable.

`CHECK_DEADLOCK FALSE` is set where the system may come to rest: identifiers,
events and the clock run out. `Properties` never does. Symmetry is used
in runs of safety properties alone.

Runs that show a disagreement. Each finds its property violated; the property
quotes what a comment promises.

| run | property | what happens |
| --- | --- | --- |
| `LockoutProgressive.cfg` | `LockoutIsProgressive` | the ninth failure's second statement runs after the tenth's and shortens its hour to ten minutes |
| `TotpRestart.cfg` | `ActiveUntilDisabled` | an enrolment start that saw no row resets the row another request created and confirmed |
| `InvitesStuck.cfg` | `RefusedForAPending` | an expired invitation, which no list shows any more, keeps its address from being invited again |

Further disagreements between comments and code are under "findings" in
`PROJECT.json`, with both lines. Of sign-in: the lockout table in a comment, the
cookie's `Max-Age`, the 403 of a login sent with an ended session's cookie, the
best-effort rollback of a rotation, the recovery code burnt outside a transaction, a
secret activated on the code of another one, the description of `disable`. Of the
rest: the audit event in the "same commit", the account a failed
`signup_and_accept` leaves, `AcceptInviteView`, which posts before the store has a
token, the variable `APP_CONFIG_FILE`, which is itself an unknown setting, the
guard's 403 when Redis fails, a "statement timeout" that bounds the wait for a
connection, answers without the headers "every response" has, an error variant
nothing constructs, the shortest slug, and the property page, which says "Property not
found." after any fetch that failed.

## 4. Fairness

* *AuditChain* (`WriterFinishes`): weak fairness of the statements of a transaction
  that has what it needs; strong fairness of `Begin` and `TakeLock`, since sqlx's
  pool and Postgres' lock queue serve waiters in order. Nothing obliges a handler to
  start or to abort.
* *WebSession* (`NavigationSettles`): weak fairness of the page's microtasks
  (`Boot`, `GuardHydrates`, `Decide`) and of a call's end, which the client's
  timeout of 15 s forces. None of the user or of the expiry of sessions.
* *Server* (`StopsWhenTold`): weak fairness of `TimeoutLayer`'s timer for each
  handler, of the two steps of `/healthz`, which wait for nothing, and of the return of
  `axum::serve` once no handler is left. Nothing is assumed of Postgres, of Redis, of
  the length of a statement or of further signals: the property says that the timeout
  alone makes the drain end. A client is taken to send its request whole and to read its
  answer or leave; a connection kept half open is outside the model.

The other modules state safety only.

## 5. What is proved

For every value of the constants that satisfies the module's named assumptions: TTLs and
lengths positive and in order, null values outside the sets they extend, a pool of at
least one connection, and no batch of codes that is also a secret (`Totp!KindsAssumption`,
so that what is drawn from one is not drawn from the other).

| module | theorems |
| --- | --- |
| `AuditChain_proofs` | `TypeCorrect`, `ChainAlwaysIntact`, `HistoryCommitted`, `Refinement` (implements `AuditLog`), `WritersNeverStuck` |
| `Sessions_proofs` | `TypeCorrect`, `WritesCarryToken`, `StepUpRetires`, `HandlersHardCapped`, `KeysHardCapped`, `Refinement` (implements `SessionLife`) |
| `Lockout_proofs` | `TypeCorrect`, `NoGuessIsFree`, `LockStopsNewcomers`, `FiveFailuresAlwaysLock`, `LocksFollowSchedule` |
| `Totp_proofs` | `TypeCorrect`, `CodesServeOnce`, `EnrolmentHasItsCodes`, `EnrolmentIsStable`, `Refinement` (implements `SecondFactor`) |
| `Invites_proofs` | `TypeCorrect`, `NobodyJoinsLate`, `OnlyInvitationsLeaveAccounts`, `TablesAreATeam` (implements `Team`), `MembershipsAreKept` (implements `Memberships`) |
| `Properties_proofs` | `TypeCorrect`, `TenantsAreIsolated`, `DeletionsHappenOnce`, `Refinement` (implements `Catalog`) |
| `Web_proofs`, of `PropertyForm` | `TypeCorrect`, `DeletionsAreTrue`, `OwnSavesStay`, `SavesAreEdits` |
| `Web_proofs`, of `WebSession` | `TabTypeCorrect`, `BouncesAreRight`, `TokensFollowCookies`, `GuardSettles`, `ApiKeepsSessionLife` |
| `Server_proofs` | `Typed`, `ServesOnlyChecked`, `TellsTheTruth`, `NobodyEverHangs`, `DrainShrinks` |

Each module rests on an inductive invariant (`IInv`; `TabInv` for `WebSession`), with `Init => IInv`,
`IInv /\ [Next]_vars => IInv'` and one lemma per group of actions.

* *AuditChain.* `ChainIntact` says nothing of a writer about to insert. `IInv` adds
  that the lock has one holder and every writer past it is that holder
  (`LockExclusive`), that what it read is still the last hash (`ReadStillCurrent`), that ids
  grow in commit order below the sequence (`IdsIncrease`) and that an event under way is
  not yet in the log (`EventsOnce`).
* *Sessions.* `IInv` is the type invariant, `jar.sid \in used \cup {NoSid}`, `Capped` (a
  key's TTL and cut-off, and that an unused identifier stores nothing) and, for each
  request, `Sound`: what it may assume of the store at its program counter (a loaded
  session's flag and cut-off are those of the key if it still exists; a handler of an
  unsafe request carries the token; after `Retire` the old key is gone). `Sound`
  survives the others' steps, and the abandoned commands', because they only end sessions or
  move their TTL (`Kept`). A touch still to come was granted before the cut-off by a
  request that had at most `RequestTimeout` to hand it over, so it runs within
  `RequestTimeout + RedisLag` of it: that is the bound of `GoneAfterHardCap`. No other
  property of the module depends on when a command runs.
* *Properties.* `IInv` adds that a request's role is still the caller's and its rows
  still the organisation's (`Sound`), that at most one request has deleted a row
  (`OneDeletion`), and the unique index (`UniqueSlugs`), which makes the `CHOOSE` of the
  refinement mapping the only candidate.

* *Lockout.* `LockHoldsForNewcomers` speaks of logins past the comparison, and what
  they may assume was settled when they read the row. `Sound` says it: until the
  comparison a login saw the deadline in force, or arrived before that was written, or
  there is none; afterwards it arrived before it, or there is none. It survives the
  writes of others because a deadline is stamped with the time it is written
  (`Timed`) and is never "none" (`Deadlines`). `GuessesCounted` is kept by counting the
  logins at `count`: one that leaves or joins moves that number by one (`Moves`,
  `Leaves`). `LockoutIsProgressive` fails: a lock may be cut short, and by how much has no
  bound, since the second statement of a dropped login may run at any time.
  `LockIsEarned` is the other side: nothing lengthens one. It needs `Planned`: a deadline not
  yet written is the schedule's for a count already reached, and a count is never above
  the number of passwords tried (`GuessesCounted`).
* *Totp.* `UsedOrNot` (live and used codes are disjoint, a code that granted something
  is used) and `Drawn` (every code there is comes from a batch that was drawn): a
  fresh batch then meets no used code, so the codes of a new enrolment are all its own.
  The refinement maps a pending row to "off": starting, and starting again, is a stutter,
  but for the insert over a row it did not see, which switches the factor off
  (`ActiveUntilDisabled` fails, and this is what it costs: off, never another factor). A
  confirmation switches on from off with a batch it draws; a code is spent at `Mark`.
* *Invites.* `Holds` says what a request keeps between its statements: its invitation
  exists, was mailed if it was found by its token, and is addressed to whom it accepts
  for. `TeamBook` is the refinement mapping; every action is a step of `Team` or changes
  neither the book nor the members (`StepsOfTeam`). A step of `Team` lets in one newcomer or
  nobody (`TeamLetsIn`), so that `Memberships` follows from `Team` alone.
* *PropertyForm.* `Seeded` (an input nobody typed in holds the cached row) makes a save
  `Honest` when it is sent, and it stays so however late it is carried out; `Fresh` (the
  fetch under way is as recent as the last save told) and `Truthful` (an answer that says
  "gone", to a fetch, a save or a delete, came from a row that was) are carried over every step by `RowGrows`: versions
  only grow and a deleted row stays deleted.
* *WebSession.* What may the answers under way still do to the store? `Drawn`: a session
  that an answer or the store names was opened. `OneMe`: one `/auth/me` is under way at
  most, for the store joins a second caller to the first. `MeIsCurrent`: until something
  fills the store, the cookie is the one that call went out with. `RefusalIsRight`,
  `AnonymousIsRight`: a refusal under way, and a store that says nobody is signed in,
  mean that the cookie names no live session, or one of the causes `BounceIsRight` names
  occurred. They are proved once for the end of any call (`CallEnds`), for
  its answer (`Replying`) and for its sending (`Sends`), and then for each handler.
* *Server.* `BootInv` says which checks lie behind the process at each step of the
  boot, `RequestOK` what an answer, a stage and a statement under way say of the row.

TLAPS does not handle fairness and `ENABLED` here, so the three liveness properties stay
with TLC. What they need of the states and the steps, apart from fairness, is proved for
every size of the system:

| liveness property (TLC) | its core (TLAPS) |
| --- | --- |
| `WriterFinishes` | `WritersNeverStuck`: while anybody records an event, somebody has all it waits for; waiting for the lock with a connection in hand makes no circle |
| `StopsWhenTold` | `NobodyEverHangs`: every handler under way is one that its timer or its own next step may end; `DrainShrinks`: none is added while the process drains |
| `NavigationSettles` | `GuardSettles`: the guard redirects a navigation twice at most, whatever the store holds |

Only model-checked: that the fair steps then happen, that is, these three properties; and
the three violations, which TLC's counterexamples show. `EnrolmentIsStable`, the core of
`ImplementsSecondFactor`, has no run of its own.

## 6. What is not modelled

* Rendering and translations. The other views: the list and the team page refetch after
  each of their calls and keep no input, and those that change the session are in
  `WebSession`. In `PropertyForm` a tab is open on one property from its `Init` on. A
  change of route within the same component instance (from the new property to its own
  page, or from one id to another), where the watcher resets the form, is left out, and with
  it the creation.
* Argon2, SHA-256, AES-GCM and TOTP arithmetic: a password, code or ciphertext is right
  or wrong; hashes do not collide; identifiers and tokens are drawn once and not guessed.
* The transport and the text of e-mails: that one went out or failed is in `Invites`,
  that the sender can be built in `Server`.
* The token bucket of the rate limiter, which belongs to a crate, and the headers, CORS
  and compression, which decorate an answer and decide nothing.
* DTOs and error wording (which error an operation ends with is in its module). In
  `Server` the settings that are only durations or sizes are left out, and what a
  handler writes is one statement.
* Several browsers: their sessions share nothing the session layer reads, so one cookie
  jar is modelled. Several users' second factors or lockouts: the statements touch
  one user's rows, so one user is modelled.
* The web's calls are answered by the API in one step; what a call that overlaps another
  meets inside the API is in `Sessions`. Several tabs: each has its own store, and
  what one does to the cookie another sees only at its next call.

## 7. Plan

Order: the most consequential shared state first. Done: sections 2 to 5; every safety
property of a passing run is a theorem. What would add most from here:

1. *Prove:* that the free choices `Sessions` makes ("the password was right", "the code was
   right") are the ones `Lockout` and `Totp` allow, as `Memberships` does for `Invites` and
   `Properties`; and a bound on how long a burst of failures keeps an account locked.
2. *Model:* a web call in `WebSession` that meets `Sessions`' guard step by step, where
   it is answered at once now, and two tabs over one cookie.
3. *Abstract:* a lockout promise (`n` failures cost at least the schedule's wait) that
   `Lockout` implements once its second statement is conditional.
