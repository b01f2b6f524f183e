# Verification of AiNoCraft_back

TLA+ models of the backend under `src/`, the TLC configurations that check them,
and TLAPS proofs. The server is a FastAPI application: one asyncio process, so
Python code between two `await`s is atomic and everything else interleaves.
State is in Redis (sessions, temporary tokens, lookup caches), PostgreSQL
(users, game sessions, audit log), MinIO (avatars) and in the process itself
(the pool of SMTP clients).

## 1. Inventory

| Component | State | Operations | Depends on | What makes it correct |
|---|---|---|---|---|
| Session cache, `redis/cache/session_cache_service.py` with `login.py`, `refresh.py`, `logout.py`, `change_password.py`, `reset_password.py`, `AuthRefreshTokenDependency` | two kinds of Redis keys of a user: `token:{hash}` and `family:{id}` | store, verify, rotate, revoke family, delete one / of a device / all | Redis commands, several of them concurrent in a `gather` | a token that was ended is never accepted again; a session has one accepted token; a revocation stays within its family |
| SMTP pool, `smtp/provider.py` | queue of clients, their connections, the keep-alive task | `init`, `send_email`, keep-alive round, `close` | mail server | no client lost or shared; every call ends, and truthfully |
| User repository, `database/repositories/user.py`, with `database/provider.py` and `AuthAccessTokenDependency` | `users` rows, two cached lookups of 15 minutes, `password_change_date` | lookups, create, change password, change avatar | PostgreSQL commits after the handler, Redis is invalidated inside it | a password or token from before a change is refused after it |
| Pending e-mail actions, `redis/cache/pending_email_cache_service.py` with `register.py`, `reset_password.py` | one `pending:{email}` and one `cooldown:{email}` for an address, reset tokens | register init / verify / resend, reset init / verify / finalize | SMTP pool, users, session cache | one code gives one account or one reset, only with its own code |
| Audit log, `database/repositories/user_session.py` | rows of `user_sessions` | background tasks of login, refresh, logout, password change and reset | run after the answer, unordered, each with a transaction of its own | rows of different sessions stay apart; agrees with Redis, up to expired tokens, as long as requests and tasks do not overlap or fail |
| Game sessions, `database/repositories/game_session.py` with `minecraft_auth.py`, `minecraft_session.py` | rows of `game_sessions`, two cached lookups of 5 minutes | authenticate, refresh, validate, invalidate, signout, join, hasJoined | as users | a revoked session is not accepted; new tokens that are answered work |
| Avatars, `avatar.py` | `avatar_name` of the user, objects in MinIO | upload url, complete, get | users, MinIO | only former avatars, and what is under the name of a rejected upload, are removed |
| Application start and stop, `entrypoint.sh`, `api/app.py`, the providers of Redis, PostgreSQL, MinIO, HTTP, mail | open clients, the tables, buckets and their policies | migrate, `lifespan`, providers' `init` and `close`, restart by docker | the services | who serves has passed every check; a start that was cut off does not block later ones |
| Small functions, `config/auth.py`, `utils/request_meta.py` | - | `parse_duration`, client address | - | agree with their docs |
| Balance, health, check-user, mail templates, hashing, HTTP client, rate limiter, schemas, exceptions, migrations | none that the code changes | | | not modelled, see section 7 |

The components meet in a few places. Login stores its token in Redis, answers,
and inserts an audit row in the background. A password change deletes the
sessions in Redis while it updates the user, whose transaction commits after the
answer. A password reset deletes the sessions when the code is accepted, before
the new password is chosen. Registration and reset send mail inside the same
`gather` that changes their state. Access tokens are compared with the
`password_change_date` of a cached user. `close` of the mail pool runs after the
last request.

Hard to test: Redis commands of concurrent requests in every order (a family is
read, changed in memory and written back; scan-then-delete against new keys), a
restart between any two commands, expiring keys; lookups that fill a cache
between the invalidation of a writer and its commit, rollbacks after the
invalidation; two reads of one pending entry, entries of registration and reset
under one key; row locks and UPDATEs that test their rows again; background
tasks in any order; the keep-alive task taking clients from waiting calls, mail
accepted by the server whose answer is lost; starts that were cut off.
`PROJECT.json` lists each hazard at its line.

## 2. Modules

| Module | What it is |
|---|---|
| `TokenLifecycle` | abstract specification: the life of a token, *pending*, *active*, *dead* |
| `SessionCache` | the two kinds of keys and all requests on them, one action per Redis command |
| `SessionHistory` | `SessionCache` with history: the parent and the session of each token, the device of its login, which stores another request crossed, the sessions that an answered password change was to end |
| `SessionCacheProofs` | types, the safety invariants, the action properties and the refinement of `SessionCache` and `SessionHistory`, proved |
| `SmtpPool` | the queue, senders, the keep-alive task, `close`, failing connections |
| `ReadThrough` | abstract specification: what a lookup cache in front of PostgreSQL promises |
| `UserLookup` | one row of `users`, its two cached lookups, the requests that read and write it, access tokens and `password_change_date` |
| `UserHistory` | `UserLookup` with history: lookups that a commit overtook, entries filled in a race, requests that read one |
| `GameSession` | the rows of `game_sessions` of one account, their cached lookups, the requests of the game API |
| `PendingEmail` | pending entries, cooldowns, reset tokens and the six requests of registration and password reset |
| `AuditLog` | the rows of `user_sessions`, the requests that change sessions and the background tasks that write the rows |
| `Avatar` | `avatar_name`, its cached copy, the objects in MinIO |
| `Lifespan` | start and stop of the process, the providers, buckets, migration |
| `SmtpPoolProofs` | types and safety of `SmtpPool`, proved |
| `UserLookupProofs` | types and safety of `UserLookup` and `UserHistory`, and the refinement of `ReadThrough`, proved |
| `GameSessionProofs` | the same of `GameSession` |
| `PendingEmailProofs` | types and safety of `PendingEmail`, proved |
| `AuditLogProofs` | types of `AuditLog`, that its rows stay apart and closed and that calm it agrees with Redis, proved |
| `AvatarProofs` | types and the action property of `Avatar`, proved |
| `LifespanProofs` | types and safety of `Lifespan`, proved |
| `MC_*` | TLC instances (symmetry) |

`UserLookup` and `GameSession` both implement `ReadThrough`. Each of the other
modules keeps of its neighbours what it needs: `AuditLog` has the tokens
that Redis accepts as one variable, `PendingEmail` the lookup cache as the set of
names it denies and the sessions as a set, `Avatar` the cached user as one name.

### SessionCache and the code

`tokenKey` and `family` are the Redis keys of **one** user; keys of different
users never meet (the user id is part of every key and pattern). A token stands
for its SHA-256 hash; a minted token is new because `iat` is a float time stamp.
A `Device` is a pair (user agent, address); `generate_session_family_id` hashes
it, so a device is also the family id a login from it uses. Hashes are taken as
injective, and so is what they are taken of: the code joins `user_agent or
'unknown'` and the address by `:` (line 183), while `delete_user_device_sessions`
compares the raw values (line 389), so a missing agent and one that calls itself
`unknown`, or a part that moves across a `:`, are two devices of one family. This
corner is left out. `req[p]` holds the local variables of the coroutine in slot `p`: `pc`
is the await it is at, `todo` the commands of its running `gather`.

| Code | Actions |
|---|---|
| `login` | `LoginStart` (password accepted, token minted, scan begins), `LoginClean` (`delete_many`), then the store |
| `store_refresh_token` | `StoreGetFamily`, then `StoreSetToken` and `StoreSetFamily` in any order |
| `AuthRefreshTokenDependency.get_token` | `PresentToken` (GET of the token key), `VerifyFamily` or `NotCurrent` (GET of the family), `TtlGone` or the next action (TTL) |
| `refresh`, `rotate_refresh_token` | `TtlRefresh` (mints), `RotateGetToken`, `RotateVerify` or `NotCurrent`, then `DeleteOld` next to the store, `AnswerToken` |
| `revoke_session_family` | `RevokeGetFamily`, then `RevokeDeleteKeys` and `RevokeDeleteFamily` in any order |
| `change_password` | `ChangePassword` or `RefusePassword`; `DeleteOld` and the two scan-and-delete passes in any order |
| `reset_password_verify` | `VerifyReset`, the same passes |
| `delete_all_user_sessions` | `WipeScanTokens`, `WipeUnlinkTokens`, `WipeScanFamilies`, `WipeUnlinkFamilies` |
| `logout` | `Logout`, one DEL |
| 401, answers | `Reject`, `AnswerToken`, `AnswerWipe` |
| TTL of keys, restart of the server | `ExpireToken`, `ExpireFamily`, `Restart` |

A Redis SCAN returns every key that exists from its start to its end and may or
may not return those written meanwhile; `LoginClean` and the unlink actions
delete the keys seen when the scan began and any set of later ones. That is a
little more than Redis can do (a key written between the end of the scan and the
DEL could be deleted), which only adds behaviours. Tokens are presented only
when an answer carried them to a client, by any client, any number of times,
from any device. A restart may happen at any await; Redis keeps its keys. Redis
errors, the rate limiter, audit log and PostgreSQL are not part of this module;
`ChangePassword` is the TTL read of its token, the lookup of the user and the start
of the gather in one step (the commands of the gather may run at any time later);
it lets the three coroutines of its `gather` interleave and leaves
the database one out. A token's TTL may end while its family's does not, and the
reverse; nothing orders expirations.

`ends` and `stale` are history variables: the tokens that a request is to leave
dead, and the requests whose token was dead when they began. They do not guard
anything.

### SmtpPool and the code

`queue` is `_QUEUE`, `up` the clients whose connection is open, `job[s]` a call
of `send_email`, `ka` the keep-alive task, `closer` the call of `close`.
`SendStart` .. `SendRetry` follow the retry loop: get, send, on an exception quit,
one reconnection, put back, then raise on the last attempt or sleep. `KaRound` ..
`KaWake` follow a round: as many clients as were idle, NOOP, on failure quit and
up to `max_retries` connections, put back in `finally`. `CloseStart` .. `CloseEnd`
cancel the task, whose `finally` returns its client, and drain the queue.
`quit` may raise in all three places, which the code logs and swallows: the client
may then stay connected (`CloseNote` remembers these in `closer.failed`).
`SendRaises` has two outcomes, since the server may have accepted a mail whose
answer was lost; `accepted` counts these copies. `asyncio.Queue` wakes a waiting
`get` without keeping the item for it; `SendGet` takes whatever is at the head
when it runs, so the keep-alive task may be faster.

Assumed: `pool_size` and `max_retries` are positive (with 0 retries `send_email`
returns without sending, a configuration nobody documents); `connect` of a client
that a failed `quit` has left connected returns or raises, as on any other; `close` begins when
no call of `send_email` is running, as the server finishes its requests before
the `lifespan` ends; requests are not cancelled.

### UserLookup and the code

`row` is the committed row of one account; a password is named by its version,
`ver`, and a date by the number of instants told apart before it. `req[p]` holds
the local variables of a request: `get`, `select`, `set` are the three commands
of a lookup, `write`, `update`, `drop*` those of `create_user` and
`change_user_password`, `commit` waits for the answer to be sent.

| Code | Actions |
|---|---|
| `get_user_by_login`, `get_user_by_email` | `LookupHit`, or `LookupMiss`, `LookupSelect`, `LookupSet` |
| `login` | `CheckPassword`: the token's `iat` is a new instant |
| `AuthAccessTokenDependency.get_token` | `CheckToken` |
| `change_password`, `reset_password_finalize` | `CheckWrite`, `WriteSelect`, `Update`, `Drop`, `Commit` |
| `register_verify`, `create_user` | `CheckWrite`, `Create`, `CreateDrop`, `Commit` |
| trigger of `password_change_date` | `Update`: the date is that of the transaction's first statement |
| `session_lifecycle` | `Commit`, `Rollback` |
| TTL of 15 minutes, restart | `Expire`, `Restart` |

External, modelled from their use: FastAPI runs the code of a `yield` dependency
after the answer, so `get_session` commits then; PostgreSQL reads committed rows,
an UPDATE holds its row lock until the transaction ends; cashews caches `None`
too, and may let a lookup share the result of a concurrent one, which is a GET
right after the other's SET. Logins and e-mail addresses of other accounts have
rows and keys of their own and never meet this one's.

### GameSession and the code

`rows` are the sessions of one account, `cache` the lookups by access and by
refresh token. The tokens of a session are made and replaced together and are
named by one `Pair`. An UPDATE is two actions: `Update` takes the rows that match
(`Matches`, its WHERE), `Apply` waits for their locks and tests them again.
`mine` holds the written rows until `Commit`.

| Code | Actions |
|---|---|
| `minecraft_authenticate`, `create_session` | `Authenticate`, `Drop`, `Answer`, `Commit` |
| `minecraft_validate` | a lookup |
| `minecraft_refresh`, `rotate_tokens` | a lookup, `Read` (new pair, SELECT), `Update`, `Apply`, `Drop`, `Answer`, `Commit` |
| `minecraft_join`, `mark_join` | the same without a pair |
| `minecraft_invalidate` | by access token `Read` at once, by refresh token after a lookup |
| `minecraft_signout`, `revoke_all_user_sessions` | `Read` .. `Commit`; one DEL per session |
| rollback, restart; TTL of 5 minutes | `Fail`; `Expire` |

`rotate_tokens` and `mark_join` return silently for a session that is gone, and
the handlers answer all the same: `Gone` skips to `Answer`. SQLAlchemy keeps one
object per row in a transaction: `loaded` says that `game_session` is such an
object (it is not when it came from the cache), which decides which hashes
`Stale` drops. hasJoined only reads. Expiry of game tokens is checked before any
lookup and left out, as are the client and profile ids, which name the session.

### PendingEmail and the code

`pending`, `cooldown` and `reset` are the keys of `PendingEmailCacheService`, by
mailbox, since they hold the normalized spelling; `users` holds the address as it
was typed. `todo` is what is left of the `gather` under way.

| Code | Actions |
|---|---|
| `register_init` | `CheckCooldown`, `LookupLogin`, `LookupEmail`, then `SetPending`, `SetCooldown`, `SendCode` in any order |
| `register_resend` | `CheckCooldown`, `ResendRead`, the same |
| `register_verify` | `ValidateCode`, `GetPending`, `CheckTaken`, then `CreateUser`, `DeletePending`, `SendWelcome` in any order, `Answer`, `Commit` |
| `reset_password_init` | `LookupEmail`, as `register_init` |
| `reset_password_verify` | `ValidateCode`, `GetPending`, `WipeSessions`, then `StoreToken`, `DeletePending` in any order, `Answer` |
| `AuthPasswordResetTokenDependency`, `reset_password_finalize` | `CheckToken` twice (GET, TTL), `UpdatePassword`, `DeleteToken`, `SendChanged`, `CommitPassword` |
| a mail that fails | `MailFails`, `SendChanged` |
| TTLs, restart | `ExpirePending`, `ExpireCooldown`, `ExpireToken`, `ExpireDenied`, `Restart` |

Codes are random with a TTL of minutes; two are taken to differ. Clients present
any code that was mailed, for any address, and any reset token they were given.

### AuditLog and the code

A request begins with `Login`, `Refresh` (its token was found by
`rotate_refresh_token`), `Logout` or `ChangePassword`, and goes on with one step for
each call of `SessionCacheService`, whose commands `SessionCache` takes apart:
`DeleteDevice` and `StoreNew`, `Exchange`, `DeleteOwn`, `DeleteAll`. The last one adds
the task. `Exchange` does not look for the old token again, so two refreshes may
exchange one token and leave two tasks with one old hash. `RequestFails` is an
exception or a restart before `add_task`: any part of the next call has taken
effect and there is no task. `Expire` is what ends a token without a task: the TTL
that `store_refresh_token` sets, or the revocation of a family on reuse, which is
answered with 401. The task then runs `SelectRow` (`get_by_refresh_token_hash`), `Update` and `Apply`
(row locks as in `GameSession`), and `Commit`; `TaskFails` is an exception or a
restart, after which nobody runs it again. `Matches` is the WHERE of
`revoke_current_sessions`, `update_refresh_token`, `revoke_session` and
`revoke_all_sessions`. A row is named by the token of the login that made it.
`expired` is history: the tokens that `Expire` has ended. `calm` is history: no
request or task has overlapped another one or failed, and no refresh has come
from another device. A login ends the tokens that were handed to its
device; of a session that has moved away from it, `SessionCache` has more.

### Avatar and the code

`GetUploadUrl` and `Put` are the client's upload, `CheckObject` the `stat_object`
of `avatar_complete`, `Reject` the `remove_object` of what was too large or of a wrong
type (or its exception), then a lookup, `Update` and `Drop` of `update_avatar_url`,
`RemoveOld`, `Commit`. Each call of the MinIO client is a step. The call blocks the
event loop, but a client's PUT to its presigned URL goes to MinIO and falls
between two calls; so may steps of other requests here, which is more than one
server process does.

### Lifespan and the code

`pc` is the step of the process: `Migrate` (`entrypoint.sh`), `CachePing` ..
`InitSmtp` (`lifespan` up to `yield`), `serving`, `CloseRedis` .. `CloseSmtp`. `up` are
the services that answer, `policy` the buckets in MinIO. `Off` is the end of the
process, by an exception, a kill or a stop; docker starts it again.

## 3. Properties

Session cache:

- `FamilyOwnsTokens`: a family tracks its current token, and every key it tracks
  names this family. So a revocation never deletes another device's token, though
  refreshes come from changing devices and copies of families are stale.
- `EndedTokensAreDead`: when a request has sent its last command, each token it
  was to end is refused: the rotated one, those of the device of a login, those of
  a revoked family, all that existed when a deletion of all began.
- `StaleTokenBuysNothing`: a request with a dead token never gets past the
  checks, whatever other requests write between the two of them.
- `DeadStaysDead`: a token whose writer has ended and that is not accepted is
  never accepted again.
- `ImplementsLifecycle`: `SessionCache` implements `TokenLifecycle` under the
  mapping `Life` (a token is pending while its writer runs, then active or dead).
- `SessionNeverForks`: of the tokens that descend from one login at most one is
  accepted.
- `SessionsApart`: an accepted token ends by its own logout or TTL, by a request of
  its session, by a login from the device that uses it or on which its session
  began (`Home`), or by a change or reset of the password, and by nothing else:
  neither the lists of keys that requests collected earlier nor the families that
  they write back reach another session.
- `AnsweredTokenAccepted`: the token in an answer works, unless a request that
  concerns it overlapped its store or one of its keys expired (`crossed`).

Mail pool: `PoolConserved` (each client is in exactly one place),
`SentWasAccepted`, `ClosedMeansQuit` (`close` has asked every client to quit, also
the one of the cancelled keep-alive task, and one that is still connected is one
whose `quit` raised), and `EverySendEnds` (liveness).

Users:

- `OnlyCommitted`: no request decides on a row that was never committed and none
  is cached, although handlers look up and invalidate inside transactions that
  may still be rolled back.
- `NewTokenAccepted`: a token of a login with the committed password is newer than
  the date the trigger wrote, so nobody is locked out by a change.
- `StaleOnlyByRace`: the invalidations work. An entry is the committed row unless
  it was filled in one of two races: the SELECT came before a commit and the SET
  after it, or the SET came between a writer's invalidation and its commit.
- `OldPasswordOnlyByRace`: nobody logs in, or goes on to change the password, with
  one that had been replaced when he arrived, unless he has read such an entry.
  So these two races are the whole of what is behind the counterexample to
  `OldCredentialsRefused` (section 5), as far as passwords go. Access tokens are not
  part of it: one signed between the beginning of a change and its commit is newer
  than its date and outlives it.
- `ReadThroughRefined`: the cache implements `ReadThrough`: a cached answer was
  once the committed one. `EventuallyFresh`: when writes end it is the present one
  or empty.

Pending e-mail actions:

- `OnlyMailboxOwner`: who made an account or may reset it has read its mailbox,
  whatever entries overwrite each other between the two reads.
- `SpentCodeIsDead`: the code of a verification that was answered is valid nowhere.
- `UsedTokenIsDead`: the reset token that has set a password is refused, also when
  two requests hold it at once: the gather that stores it ends before the answer
  that gives it away, and it is deleted before the commit.

Game sessions:

- `OnlyOwnSession`: a pair stands for one session, and no request is let in for a
  session that its token was never of.
- `RevokedForever`: no step writes to a revoked row, though rotations, joins and
  other revocations may have looked it up before. `EndedAreRevoked`: once a signout
  or an invalidation by refresh token is committed its sessions are revoked.
- `ReadThroughRefined`, as for users.

Audit log: `RowsKeepApart` (tasks of different sessions on one device never write
to each other's rows, and a token is in one row), `AuditAgrees` (as long as `calm`
holds, between requests, every token in Redis has an open row with its device,
and an open row is of a token that is in Redis or has expired there),
`ClosedStaysClosed` (no
row is lost, moved to another device or opened again, whether a rotation and a
revocation that overlap write it in one order or the other).

Avatars: `RemovalsAreOwed`: no good object disappears that never was the avatar,
though the name of the old one comes from a cache. The exception is the name of
an upload that `stat_object` has refused: a good object that the client has PUT
there since goes too (`OnlyBadRejected`, section 5).

Start: `ReadyBeforeServing` (who serves has every client, every answer but that of
the ping, and every bucket), `EventuallyServes` (once the services stay up, the
server serves, whatever earlier starts left behind).

## 4. Runs

| Run | Instance | States | Checks |
|---|---|---|---|
| `session_rotation` | 3 tokens, 2 devices, 2 requests; login, refresh, logout, expiry, restart, history | 1 156 019 | `TypeOK`, `FamilyOwnsTokens`, `StaleTokenBuysNothing`, `EndedTokensAreDead`, `DeadStaysDead`, `SessionNeverForks`, `SessionsApart`, `AnsweredTokenAccepted` |
| `session_wipe` | 3 tokens, 1 device, 2 requests; all operations | 1 126 972 | `EndedTokensAreDead`, `ImplementsLifecycle` |
| `session_password` | 2 tokens, 1 device, no expiry | - | counterexample to `PasswordChangeEndsSessions` |
| `smtp_pool` | 2 clients, 2 calls, 2 retries, no symmetry | 49 322 | `TypeOK`, `PoolConserved`, `SentWasAccepted`, `ClosedMeansQuit`, `EverySendEnds` |
| `user_lookup` | 2 requests at a time, 5 in all, all operations, no symmetry | 815 002 | `TypeOK`, `OnlyCommitted`, `NewTokenAccepted`, `StaleOnlyByRace`, `OldPasswordOnlyByRace`, `ReadThroughRefined`, `EventuallyFresh` |
| `user_password` | as above, create, login, access, reset | - | counterexample to `OldCredentialsRefused` |
| `pending_email` | 2 mailboxes, 2 logins, 2 codes, 1 reset token, 2 requests | 2 835 858 | `TypeOK`, `SpentCodeIsDead`, `OnlyMailboxOwner`, `UsedTokenIsDead` |
| `game_session` | 2 sessions, 3 pairs, 2 requests; authenticate, refresh, invalidation by refresh token, signout | 5 854 280 | `TypeOK`, `OnlyOwnSession`, `EndedAreRevoked` |
| `game_cache` | 1 session, 2 pairs, 2 requests; all operations, failures, expiry | 3 181 391 | `RevokedForever`, `ReadThroughRefined` |
| `audit_log` | 4 tokens, 2 devices, 2 requests or tasks at a time, failures, expiry | 1 954 764 | `TypeOK`, `RowsKeepApart`, `AuditAgrees`, `ClosedStaysClosed` |
| `avatar` | 3 names, 2 requests, failures | 134 965 | `TypeOK`, `RemovalsAreOwed` |
| `lifespan` | 2 buckets, 4 faults, no symmetry | 8 833 | `TypeOK`, `ReadyBeforeServing`, `EventuallyServes` |

**Bounds.** Tokens, pairs, codes and names of avatars are never made twice, so
their number bounds the logins, rotations, registrations and uploads of a
behaviour. In the session runs three tokens are a login and two rotations of it,
two overlapping rotations of one token, or a login, a rotation and a second login
of the same or another device; two devices let a session move to another
device's hands, which is all that the family id and the device of a key can
disagree about. Two requests are every pair of operations in every interleaving,
and a third one after either has ended. `session_wipe` needs no second device: a
deletion of everything does not look at devices. In `smtp_pool` two calls and the
keep-alive task compete for two clients, so a call waits while the task holds
one; two retries are one that sleeps and one that raises. `MaxReq` (5) bounds the
requests of `user_lookup`, of which two overlap: a creation, two changes that
overlap, and lookups before and after. In `pending_email` two codes are two
entries that overwrite each other; `game_session` has a signout of two sessions
against the rotation of either, `game_cache` every other pair of requests on one
session. Four tokens in `audit_log` are two sessions with a rotation each.
`MaxFaults` bounds outages, kills and stops together: an outage and a kill in
each of two starts.

**Symmetry** is used where things of a kind are interchangeable and no liveness
property is checked; `CHOOSE` in `GameSession` picks the only session of a pair.

**Deadlock** is checked for the session, audit and avatar runs, where a request
is always possible. The mail pool stops after `close`, the user run at `MaxReq`,
the game and pending runs when their pairs or codes are used up, and `lifespan`
rests when it serves and has no faults left: these say `CHECK_DEADLOCK FALSE`.

**Fairness.** Three runs assume it.

- `smtp_pool`: every SMTP command has a timeout, so a call that holds a client
  goes on: weak fairness of its next step, and of the keep-alive task. A call that
  waits in `get` is woken by each put and competes with at most the other calls
  (each makes at most `max_retries` attempts) and the keep-alive task, which
  sleeps for 120 s between rounds and leaves every client in the queue meanwhile;
  so a call that could take a client again and again takes one: strong fairness of
  `SendGet`. `close` and disconnections have no fairness.
- `user_lookup`: a coroutine goes on (weak fairness of `Step`), and Redis removes
  what has reached its TTL (of `Expire`; the keys are set with `ttl="15m"`). Nobody
  has to make a request, fail or restart.
- `lifespan`: docker restarts the process (`restart: unless-stopped`) and the
  process runs (weak fairness of `Run`). Nothing is promised of the services:
  `EventuallyServes` assumes in its premise that they come back for good.

Every property of a passing run has a mutant in `PROJECT.json`: a definition
with `_Bug` in its name stands just before the one it mutates, and TLC finds the
property violated when it takes its place.

## 5. Where the code and its documentation disagree

Two are runs that TLC ends with a counterexample.

1. *A refresh survives a password change* (or reset) when it passed its checks
   before the keys were deleted. (`session_password`)
2. *The old password, and access tokens from before, are accepted after a change*:
   a lookup between the invalidation of the cache and the commit caches the old
   row for 15 minutes. (`user_password`)

The others are definitions at the end of their modules, under "TLC refutes what
follows": add one to the named configuration as an INVARIANT to see it fail.

| Definition | Configuration | What happens |
|---|---|---|
| `ReuseRevokesSession` | `MC_SessionRotation` | `rotate_refresh_token` deletes the key of the token it exchanges, so a later use ends at "token not found" and nothing is revoked; `refresh.py` says that the session is |
| `TokenExchangedOnce` | `MC_SessionRotation` | two refreshes in flight both exchange a token; one of the new tokens is dead on arrival, and revokes the family when used |
| `FamilyTracksTokens` | `MC_SessionRotation` | two logins of a device at the same time: the later copy of the list lacks the other's token, whose key stays until its TTL (it is not accepted) |
| `OneSessionPerDevice` | `MC_SessionRotation` with 4 tokens | a rotation keeps the family of the login and takes the device of the refresh, so a session begun elsewhere is a second one of this device |
| `CreatedUserFound` | `MC_UserLookup` | a lookup before the commit of `create_user` caches that there is no such user |
| `DateOfLastChange` | `MC_UserLookup` | of two overlapping changes the later commit may carry the earlier date |
| `NeverWithoutPassword` | `MC_PendingEmail` | `register_verify` with the code of a password reset reaches "This should never happen" |
| `AnsweredAccountCreated` | `MC_PendingEmail` | two verifications are answered, the INSERT of one is refused |
| `DeletedAfterWrite` | `MC_PendingEmail` | the entry is deleted before the account is written, and stays deleted after a rollback |
| `CodeOfThisRegistration` | `MC_PendingEmail` | the entry is replaced between `validate_code` and `get_pending_user`: the account takes the other registration's password |
| `ResetEndsSessions` | `MC_PendingEmail` | who logs in with the old password between the verification of a reset and its end keeps the session |
| `CompletedAvatarStored` | `MC_Avatar` | a second completion of one upload removes the avatar it has recorded |
| `OnlyBadRejected` | `MC_Avatar` | the client PUTs a good object between the `stat_object` that refuses a bad one and the `remove_object`: the good one is removed |
| `BucketsHavePolicies` | `MC_Lifespan` | a start that ends between `make_bucket` and `set_bucket_policy` leaves the bucket without a policy for good |
| `PingedBeforeServing` | `MC_Lifespan` | `init_redis` swallows the exception of a failing ping |
| `MigratedBeforeServing` | `MC_Lifespan` | the server starts after a failed migration |

Two more were met while modelling and have no definition. `rotate_tokens` reads
the hashes to invalidate after its UPDATE has written the new ones to the object,
so the entries of the replaced pair stay cached and are accepted for up to five
minutes (`Stale` in `GameSession`; `ReadThroughRefined` promises no more). And
requests and tasks that overlap leave the audit log apart from Redis: the task of
a logout may run before that of its login, two logins of one device do not see
each other's row, two refreshes of one token both look for its row; a rotation
from another device updates no row; and what fails or is restarted between the
deletion in Redis and `add_task` leaves open rows behind (`calm` in `AuditAgrees`
excludes these). Without any of it the row of an expired token stays open for
good, with `expires_at` as the only sign.

## 6. Proofs

`SessionCacheProofs` proves, for all values of the constants that satisfy
`OpsAssumption` and `NullAssumption`:

- `TypeCorrect`: `Spec => [](TypeOK /\ Locals)`. `TypeOK` alone is not inductive:
  a request writes `req[p].new` to the family, and that `new` is a token and `fam`
  a family there depends on where the request is. `Locals` says which local
  variables are set at each await and which commands can be pending there.
- `DeadForever`: `Spec => DeadStaysDead`. The inductive invariant `IInv` adds
  `Ownership`: a token has at most one writer, which minted it, and no client has
  a token that is still being written. `StoreEffect` then says what any step does
  to a settled token: delete its key, delete its family, or make another token
  current in it. `ValidBackwards` follows: accepted after a step, accepted before
  with the same key.
- `LifecycleRefinement`: `Spec => ImplementsLifecycle`. A step either leaves the
  store alone, and settles tokens, or changes no writer, and ends tokens
  (`StoreOrOwners`); each is a step of `TokenLifecycle` or a stutter.

The safety invariants build on `IInv`:

- `StaleTokens`: `Spec => []StaleTokenBuysNothing`, and `EndedTokens`:
  `Spec => []EndedTokensAreDead`. Both speak of a moment (the end of a request),
  so the inductive invariant says what holds at every await before it. `Sound`
  has three parts: the token of a request was given to a client (`Presented`);
  a request whose token was dead on arrival waits at a check that the token
  fails (`StaleFails`); each token that a request is to end is dead already or
  in reach of a command still to be sent (`Ending`, with `Remaining` naming that
  command for each await). `SoundStep` shows it for the request that takes a
  step, one step of the proof per action; `SoundStays` for all others, whose
  part is that an accepted token never comes back (`GivenTokens`).
- `FamilyOwnership`: `Spec => []FamilyOwnsTokens`. `Placed` adds the copies of a
  family that requests hold: each token in a copy, or in a family, has no key for
  another family and no writer that would write one (`Belongs`).
- `NoFork`: `HSpec => []SessionNeverForks`, of `SessionHistory`. Two accepted
  tokens of one session would be current in two families. That a family has one
  current token is `FamilyOwnsTokens`; what is missing is that a session keeps to
  one family, also while none of its tokens has a key: the one of the device on
  which it began. So `AtHome` speaks of every place that pairs a token with a
  family, a key or the local variables of a request (`Trace`), and says that it
  names the token's `Home`. A rotation takes the family from the key it has
  verified, so a step makes a pair only from one that is there (`TraceStep`), or
  begins a session (`LoginStart`).
- `Apart`: `HSpec => SessionsApart`. A request deletes what it collected some
  awaits ago, and keys may have been written since. `Aims` says that whatever keys
  a login has collected are of its device, and those a revocation has collected of
  its family, also when they are written again; `Known` says of the device of a
  key what `AtHome` says of its family. `TokenReach` and `FamilyReach` then bound
  what one step of a request can delete or overwrite.
- `AnswersWork`: `HSpec => []AnsweredTokenAccepted`. `Stored` says for each await
  of a store that what it has written is still there unless it was crossed; the
  steps of others leave it alone because of `TokenReach` and `FamilyReach`.

`SmtpPoolProofs` (from `PoolAssumption`): `TypeCorrect`, `Conserved`
(`PoolConserved`), `SentAccepted`, `ClosedQuit` (`ClosedMeansQuit`). `PoolConserved` is not inductive:
whether a put fits, and what a task holds at an await, are needed too. `IInv` says
it over the queue's set of elements (`Placed`), that a task holds a client exactly
where it uses one and the attempts bound the accepted copies (`Calls`), and that
nothing runs beside `close` (`Closing`). Lemmas about the queue (`TakeHead`,
`PutLast`) and about a client that changes places (`CallTakes` .. `CloseEnds`)
carry the steps. Initially the queue is some surjection of the right length,
hence each client is in it once.

`UserLookupProofs` (from `LookupAssumption` and `MissAssumption`): `TypeCorrect`, `Committed`
(`OnlyCommitted`), `TokensAccepted` (`NewTokenAccepted`), `LookupRefinement`. `IInv`
says which local variables are set at each await (`Local`), that every answer in
the cache was once committed and a version is one row (`Sourced`), that no two
requests write one version (`Apart`), and that a token is of a committed password
and newer than its date (`Signed`).

Of `UserHistory` it proves `RacesOnly` (`StaleOnlyByRace`) and `OldPasswords`
(`OldPasswordOnlyByRace`). `RaceInv` says at each await of a lookup and of a writer
what makes the next one safe: a lookup that no commit has overtaken still holds
the committed row (`Prompt`), and what a writer has dropped is missing or raced
until it commits (`Cleared`). `PasswordInv` adds that versions grow with commits
(`RowGrows`), because the row lock lets one writer in (`Exclusive`) and because
`create_user` commits on an empty table only (`Stage`).

`GameSessionProofs` (from `GameAssumption`): `TypeCorrect`,
`OwnSessions` (`OnlyOwnSession`), `EndedRevoked`, `Revocations` (`RevokedForever`),
`LookupRefinement`. What a request knows of the rows between two awaits (`Knows`):
the rows it has written keep their revocation (`Writes`), and each session it is
to end is matched, written or revoked already (`Ends`). `Unique` and `Apart` keep
pairs and written rows of different requests apart.

`PendingEmailProofs` (from `PendingAssumption`): `TypeCorrect`, `MailboxOwners`
(`OnlyMailboxOwner`), `SpentCodes`. The two reads of a verification may see two
entries; what joins them is the mailbox, so `IInv` says that entries, mails and
requests of one code agree on it (`Entries`, `Knows`), and that a request that has
yet to store its code is the only one that knows it (`Storing`, `Apart`). That
makes the late SET of a resend harmless. `UsedTokens` (`UsedTokenIsDead`): a token
that a gather has yet to store is in no answer, a request that is to commit a
password has deleted the token of an answer (`TokenOf`), and no two requests have
signed one token, so that what is dead stays so (`Tokens`).

`AuditLogProofs`: `TypeCorrect`, `RowsApart` (`RowsKeepApart`): with
`origin`, the login that each token descends from, the row of a token is that of
its origin, in the table and in every task under way (`Sound`). `LogAgrees`
(`AuditAgrees`): the log and Redis differ from the first call of a request to the
commit of its task, so `CalmInv` says what the one request or task under way still
owes the log (`OwesLogin`, `OwesRotation`, `OwesLogout`, `OwesAll`), that the rows
its UPDATE has matched are those of its WHERE, and that the log agrees after its
commit (`After`). A token may expire at any point of this: `Faded` says that what
is owed stays the same, the token being `Open` still. `ClosedForGood` (`ClosedStaysClosed`) needs what the row locks
are for: no row is written by two tasks that have yet to commit (`Disjoint`), and
what a task has written fits the row that is there when it commits (`Fits`); a
login inserts a row under a token that no task and no row has had (`Rooted`).

`AvatarProofs`: `TypeCorrect`, `OwedRemovals` (`RemovalsAreOwed`): every copy
of the recorded name, cached or read before, was recorded once (`Known`), and what
`Reject` removes is under the name that its request was made for.

`LifespanProofs` (from `LifespanAssumption`): `TypeCorrect`, `Ready`
(`ReadyBeforeServing`). `Progress` says for every label what the start has opened
and asked when it is there, `BucketsSoFar` which buckets the loop has left
behind; MinIO keeps them when the process ends.

Each property, and the inductive invariant under it, was checked by TLC before it
was proved. The theorems need no bound
on tokens, devices, clients, rows or requests, and hold for every set of
operations, with or without expiry and failures. Every
invariant and every action property of the passing runs is proved. Out of the
prover's reach is liveness under fairness (`EverySendEnds`, `EventuallyFresh`,
`EventuallyServes`), which TLC checks.

## 7. Not modelled

- *Balance and transactions*: one read; no code writes them, their rules are
  CHECK constraints of the database.
- *Health, check-user and Yggdrasil root routers*: stateless answers (the lookup
  of check-user is the request `find` of `UserLookup`).
- *Small functions* (`parse_duration`, client address), *hashing and codes*,
  *schemas, exceptions, settings*: no state; hashes are taken as injective.
- *Mail composition*: wording. *Rate limiter*: a library, whose opening is in
  `Lifespan`.
- *Migrations*: schema creation; that they run first, and may fail, is in `Lifespan`.
- An outage of Redis during a request of the session cache or a lookup, and the
  cancellation of a request while it holds a client of the mail pool: uvicorn
  does not cancel a handler on disconnect, and `close` starts after the requests.

## 8. Plan

Done in this order: `TokenLifecycle`, `SessionCache`, `SessionHistory`, `SmtpPool`,
`ReadThrough`, `UserLookup`, `PendingEmail`, `GameSession`, `AuditLog`, `Avatar`,
`Lifespan`, and the proofs of section 6.
