# MQTTCTL in TLA+

Specifications, model-checking configurations and machine-checked proofs for
mqttctl: a web application (API server and front-end server, TypeScript) that
administers a Mosquitto broker through an agent (Rust), with an MQTT Explorer in
the browser and an MCP server (JavaScript) that gives agents the same tools.

Every definition is translated from the source. `PROJECT.json` maps each one to
the lines it stands for, lists the runs, the mutated forms of definitions that
show each property can fail, the hazards of the code and the theorems.

## The system

| Part | State it keeps | Operations | Interacts with |
|---|---|---|---|
| MQTT Explorer service (`mqtt/service.ts`) | per session key: client, status, subscriptions with counts, latest message per topic, listeners, two timers | connect, disconnect, subscribe, unsubscribe, publish, clear, set limit, watch; events of the MQTT client | browsers over event streams, the broker over MQTT.js |
| Event stream (`routes/api/mqtt/events`) | open or closed | open, abort, cancel | Explorer service, by callback |
| MCP proof authentication (`auth/mcp.ts`) | replay cache, last heartbeat, capabilities in the database | authenticate, set access, heartbeat | every API request of the MCP server |
| MCP message buffer (`mcp/src/mqttBuffer.js`) | queue with counters, SSE consumer, deadlines | connect, subscribe, poll, clear, disconnect, expire, close | Explorer service, over HTTP and SSE |
| MCP protocol sessions (`mcp/src/index.js`, `heartbeat.js`, `rateLimit.js`) | sessions, last activity, rate windows | initialise, call, close, maintenance, heartbeat | message buffer, API |
| Broker configuration (`config/service.ts`, `jobs/queue.ts`) | the file on disk, status of the last reload and restart | pull, push with expected content, reload, restart | broker agent, job queue |
| Broker agent (`agent.rs`, `http_api.rs`) | the config file | read, compare and write, dynsec commands | supervisor |
| Broker supervisor (`mosquitto.rs`) | the child process behind a mutex | start, health, reload, restart, shutdown | Mosquitto, by signals |
| Audit log (`audit/service.ts`, `db/index.ts`) | rows with sequence number and hash of the previous | append, verify, rebuild at start | every route that changes something |
| Accounts and sessions (`auth/service.ts`) | users with session version, sessions, OIDC requests | login, logout, update, reset, disable, delete, OIDC login, maintenance | database |
| Dynamic security (`dynsec/service.ts`, `context.ts`) | broker's clients, groups, roles; defaults | create with default role and rollback, bootstrap at start, effective permissions | broker, by commands; state file |
| Snapshots (`snapshots/service.ts`) | exported documents | export, import | configuration, dynsec, users |
| Dashboard (`realtime-node.ts`, `live-state.ts`) | sockets, one subscription, latest snapshot | open, close, refresh, broadcast | diagnostics, MCP runtime |

Both TypeScript servers and the MCP server run one callback at a time: what can
interleave is what lies between two awaits. The agent is multithreaded. Timers,
HTTP time-outs and restarts of any process add the rest.

What makes each part correct, and what is hard about it:

- *Explorer*: at most one broker connection per session key, no connection left
  behind, no browser stranded on a record nobody else reaches, no update lost by
  the coalesced sends. Every operation has awaits inside; a session record may be
  deleted and re-created while calls, timers and callbacks still hold the old one.
- *MCP proofs*: a proof is accepted at most once while its window is open.
- *MCP buffer*: received = delivered + queued + dropped + discarded, in order;
  one SSE consumer; an abandoned buffer expires; a closed one stays closed.
- *MCP sessions*: the configured bounds; a session is closed once.
- *Broker configuration*: a push that names the content it replaces never
  overwrites anything else; the stored status tells what really happened.
- *Supervisor*: at most one supervised broker; after an operation the supervisor
  knows whether one is running.
- *Audit log*: append order is kept, the chain verifies, rows never change.
- *Sessions*: none survives a password reset or a disable.
- *Dynsec*: a failed creation leaves nothing behind; the effective permission is
  the documented one.
- *Dashboard*: every socket is served by a subscription, and none leaks.

## Modules

| Module | Models |
|---|---|
| `ExplorerChannel` | abstract: what the Explorer promises the browsers that watch a session |
| `MqttExplorer` | the Explorer service and its event streams, one session key |
| `MCMqttExplorer` | the matching relation of two filters and two topics, and symmetry sets |
| `MqttExplorerProofs` | invariance and refinement proofs about `MqttExplorer` |
| `McpMqttBuffer` | the message buffer of one MCP protocol session, with the tool calls and timers that drive it |
| `MCMcpMqttBuffer` | its symmetry set |
| `McpMqttBufferProofs` | invariance proofs about `McpMqttBuffer` |
| `McpAuth` | proofs, replay cache, the access of the MCP principal and the checks of open streams |
| `MCMcpAuth` | its symmetry set |
| `McpAuthProofs` | invariance proofs about `McpAuth` |
| `AppSessions` | one account, its login sessions and the calls that change either |
| `AppSessionsProofs` | invariance proofs about `AppSessions` |
| `BrokerControl` | the broker's configuration file and process, from the API's requests to the agent's handlers |
| `BrokerControlProofs` | invariance proofs about `BrokerControl` |
| `AuditChain` | the chain of audit entries: appending, rebuilding at start-up, verification |
| `AuditChainProofs` | invariance proofs about `AuditChain` |
| `Dynsec` | roles, clients and groups of the broker, creation with rollback, the bootstrap at start-up |
| `DynsecProofs` | invariance proofs about `Dynsec` |
| `EffectiveAcls` | pure: memberships and effective permissions made of the broker's state file |
| `LiveDashboard` | snapshot, subscription and sockets of the dashboard, and the page that shows them |
| `LiveDashboardProofs` | invariance proofs about `LiveDashboard` |
| `RequestAccess` | pure: who may ask for what, what each route checks, does and records, what pages show |
| `HttpApiPaths` | pure: where a call of the API goes, direct or through the proxy |
| `MCAppSessions`, `MCBrokerControl` | symmetry sets |
| `MCAuditChain` | symmetry set of `AuditChain`; `RequestAccess` against what the documents say of roles and changes |
| `MCDynsec` | what is asked of a creation; `EffectiveAcls` against reference definitions |
| `MCLiveDashboard` | symmetry set; `HttpApiPaths` against a direct statement of where calls go |

### MqttExplorer

Session keys share nothing, so one key is the system. `current` is
`sessions.get(sessionKey)`; `session` holds the fields of *every* record ever
created for the key, since calls, timers and client events keep the record they
started with. `clientState` is what MQTT.js does with each client, `call` where
each API call awaits and on which record and client, `watcher` the life of each
event stream.

An action is the code from one resumption to the next await that really yields:
`Connect` is everything up to the end of the old client (or, without one, to the
first connect of the new), `ConnectResumes`, `ConnectSucceeds`, `ResubscribeEnds`,
`ConnectFails` and `ConnectFailed` are its later parts. `scheduleEmit` is part of
every action that calls it (`ChangeAndEmit`, `ChangeAndSchedule`). It looks the
record up by key, which may be another one than the caller has changed.

Two history variables serve the properties: `stale`, the open streams that have
not been sent the latest state, and `overlapped`, whether two connection changes
have ever overlapped.

Abstracted: payloads, topic trees, QoS and retain (a message is its client and
its number), the parameters of a connection, log lines, publish (changes no
state of the session), and the revision counter. The library's behaviour is
modelled from how the code uses it: `end(true)` always calls back; a client that
has been bound drops, retries and reconnects at any time; a subscribe or
unsubscribe is acknowledged while its client is up, or fails. The state of the
broker is outside.

`ExplorerChannel` says: while a browser is attached the session exists, whatever
changes in it leaves every attached browser either sent or behind, and whoever is
behind is eventually sent. `MqttExplorer` implements it under the mapping
`present <- current # NoRecord`, `attached <-` open streams, `behind <- stale`.

### McpMqttBuffer

One MCP protocol session owns one `MqttMessageBuffer`; sessions share nothing of
it. `queue`, `queuedBytes`, `dropped`, `deadline` (`expiresAt`), `desiredSse`,
`sseAbort`, `closed` and `cleanup` (`cleanupInFlight`) are its fields; `consumer`
says where each invocation of `consumeSse` awaits, since `ensureSse` can start
another before the last has ended; `aborted` are the invocations whose
`AbortController` was aborted, which need not be the one `sseAbort` holds.
`call` are the tool calls in flight: each is one request to mqttctl
(`CallBegins`, `CallAnswered`) and the code after its await (`PollReturns`,
`SubscribeReturns`, ...). `Cleanup` takes two forms, with and without a request
upstream, and whoever calls it while one is in flight joins that one.

mqttctl and the principal's access (`enabled`) are external: an answer is a
success only if the principal is enabled when it is given. The histories
`arrived`, `delivered` and `call[k].entitled` serve the properties. Left out:
fields that `poll` and `status` only report (`sseConnected`, `lastDeletedReason`,
`subscriptions`, error texts), the split of a stream into chunks, and the length
of a deadline or a backoff.

Behaviour that the model shows and no property forbids, since no document does:

- a subscribe answered while a cleanup is awaiting mqttctl starts a stream whose
  deadline the cleanup then clears: it is not idle-expired until the next poll;
- `close` that joins a cleanup already in flight joins its arguments too, so the
  buffer is not marked closed;
- a loop that is denied while another cleanup is in flight ends, and a
  `desiredSse` set again in the meantime stays set without a loop.

### McpAuth

`replayCache` is the map of `McpAuthService`; `now`, `signed` and `iat` are its
clock and the proofs the MCP server has signed by its own, `MaxDrift` apart at
most; `disabled` and `allowed` are the two rows of the database that hold the
principal's access. A request may be delivered late, again and altered (`bound`
is false when method, target, body, subject or category do not fit). `Accept`,
`RefuseClaims` and `RefuseCached` are the outcomes of `validateClaims`, which runs
without an await once the body has arrived; `UserRead` and `CapabilitiesRead` are
the two reads that follow; `RecheckBegins`, `RecheckUser` and
`RecheckCapabilities` are the interval of the event stream. `setAccess` is
`UpdateBegins`, two writes in any order, each of which can fail, and
`UpdateReturns`. `Restart` loses the cache and what is in progress.

The histories are `accepted`, `access` and `settled` (what the last `setAccess`
that nothing disturbed has set, and that none has begun since). Left out: the
signature and the parsing of a proof (a request refused there changes nothing),
the sessions of the principal (it has none), and the heartbeat record, which
only the dashboard shows.

What the model shows beside the properties: a restart forgets the cache, so a
proof is accepted once *per process*; the clock is assumed not to step back, or
a purged proof could be accepted again; a request can combine an `enabled` read
before an overlapping `setAccess` with capabilities read after it, and two
overlapping `setAccess` can leave the flag of one and the capabilities of the
other (PostgreSQL only: SQLite runs both writes in one callback). No document
promises otherwise.

`McpMqttBuffer` assumes that mqttctl ends the stream of a disabled principal;
`RevokedStreamsEnd` is the reason why it may.

### AppSessions

One username is the system: accounts share no row. `account` is its row of
`app_users`, `session` the rows of `sessions`, `authRequests` the OIDC logins that
have begun. `call` says which statement each call executes next and what it has
read: `updateUser`, `syncExternalAccount` and the logins read the row, await
(hashing, the identity provider), and write *all* its columns back. Between two
statements anything else runs, even another reset or login.

`NextVersion` is the rule that raises `session_version`; `Purges` the deletion of
sessions that follows. `CreateSession` gives a session the version its call has
read, not the one the account has by then. `CheckBegins`, `CheckAccepts` and
`CheckRefuses` are `getUserFromCookie`. `Restart` includes `bootstrapInitialAdmin`.

The history `proved`, in a session, is what its login has proved (a password, an
OIDC subject); `raced` is set when a write overwrites a row that had changed since
it was read. Both invariants hold as long as it is not: lost updates of a row are
possible in this code, and one of them restores the old password *and* the old
version, so that sessions of the old password count again. No document speaks of
concurrent administration of one account.

Left out: role and e-mail, audit entries, the cookie's signature, the MCP principal,
the OIDC protocol itself.

### BrokerControl

`call` is what the API awaits, `handler` each request inside the agent, `file` and
`temp` the configuration and its temporary file (one name, shared by all writes),
`child` the process the supervisor knows, `broker` all processes. The API's job
queue admits one push, reload or restart at a time; an import of a snapshot goes
past it and expects no particular content. `TimesOut` is the HTTP time-out of the
API: the handler is then without a client, and, if it stands at an await of the
supervisor, dropped there (`Dropped`); one that writes files goes on.

`Compare` begins a write. `write_text_atomically` is then one step for each operation
on a file, because handlers run on many threads: `OpenTemp` and `WriteTemp` (`fs::write`
opens with truncation, then writes), `Rename`, and, when one of these fails
(`AtomicFails`, which removes the temporary file or fails at that too), `WriteInPlace`
(open as it is, `write_all`) and `Truncate` (`set_len`). Each can fail, before it has
done anything or half-way (`FallbackFails`, `WriteFails`); a `write` that fails half-way
is `WriteTemp` with a mixed outcome, or none, followed by `AtomicFails`. A configuration
that is mounted cannot be renamed over: there `AtomicFails` at every rename.

A handler has a *file* open, not a name: `held` follows it when another handler renames,
replaces or removes it. So a write can go on in a temporary file that has become the
configuration meanwhile (`WriteRenamed`), or in one that nobody sees (`WriteIsMoot`).
`mixed` marks a handler whose open file another has emptied or written: what its write
leaves (`Outcomes`) is then its text, a mixture, or what was there, depending on lengths.
`Torn` stands for all that is not a whole text, the empty file among it; a text that
was read torn equals any other that is.

`LockFree` is the supervisor's mutex. `AgentRestarts` may happen anywhere, and takes the
container's broker along.

Histories: `alone` (no other write overlaps), `dirty` (the file has changed during
an operation), `torn` (the file is what a failed, cut-off or overlapped write left) and
`abandoned` (a process left the supervisor unawaited). The last two are the ways in
which the code itself gives up on a whole file or on a single broker.

What the model shows beside the properties:

- the API waits for the agent ten seconds, exactly as long as the agent waits for
  the old broker's end. A restart that takes all of it may be dropped after the
  process was taken from the supervisor: the broker ends, and nothing starts it
  again until the next restart is asked for;
- writes that overlap share the temporary file. One of them can report as written
  what another wrote; and if the second has just emptied the temporary file when the
  first renames it, an empty or partial configuration is installed without any write
  in place;
- a fallback that fails in `write_all` or `set_len` (a full disk) leaves a part of the
  new text, or the new text with the rest of a longer old one;
- a failed SIGTERM leaves the broker running, but unknown to the supervisor.

Left out: a deployment without an agent, key files, the stored status of the last
operation.

### AuditChain

`row` is `audit_log`. A hash is modelled by what it depends on, the sequence of the
entries up to it with the content each had: equal hashes are equal histories.
`Record` is the head of the write queue, which reads the latest row; `Inserts`
the insertion. `Restarts` may happen anywhere. `Rebuilds` is one turn of
`backfillAuditLogChain`, which numbers and hashes all rows anew in the order of
time and id. `Alters` is somebody else changing or removing a row.

`VerificationTells` is relative to the last start: the rebuilding hashes altered
rows like all others, so what was changed *before* a start verifies after it. And
rows with equal timestamps, or written while the clock was set back, come out of a
restart in another order (`disordered`). Two processes on one database are left
out; they are not serialised by the queue, and can fork the chain.

### Dynsec and EffectiveAcls

`role`, `client` and `group` are the broker's state, `file` the state file, which is
all the service ever reads and which the broker writes some time later (`Saves`).
`call` is each `createClient` with its steps one by one: the file is read, judged
(`CheckPasses`, `CheckRefuses`), then create, password, role (whose failure deletes the
client again), disable. It is also a page that reads and judges the file, and a deletion
of the default role whose answer is awaited. `boot` is
`ensureBootstrapDefaultRole`: it reads, decides by what the file says
(`BootKeeps`, `BootLeaves`, `BootManages`), runs its commands (`todo`) and stores
the default. Every command can be refused, get lost, or be carried out without an
answer (`Unanswered`). `grace` is the time during which a missing `read-all` is
excused; what ends it (`Clears`) is a file that shows the role, found by a creation or
the page, a failed assignment, the answer to the deletion, and the clock. That the broker
has written its file within those ten seconds is assumed. `OperatorChanges` are all other
requests, which are one command each.

The history `own` follows what became of the client a call has created; `unsaved`
and `meddled` say that requests changed roles that the file, and so the migration,
did not know; `vouched` that the bootstrap has provided the role, which is there; `late`
that the grace period has ended since a creation has read a file without its role;
`doubted` that a request has ended it before the file showed the role; `chosen` that an
operator has set the default since.

`ProvidedRoleIsFound` is what the grace period is for: a creation is not refused because
the file lags. Reading and judging are two steps, with an await between them, so two
kinds of call are left out by name, and the model shows both refused with a role that is
there. One has read the file before it was written and judges it when another call, which
has read the new one, has ended the grace period (`late`). The other comes after a failed
assignment, an answer or a finding out of date has ended it over a file that does not show
the role yet (`doubted`); the next file ends that.

What the model shows beside the properties:

- a password or disable command that fails leaves the client behind, without a
  password or enabled; only a failing role assignment is rolled back;
- a creation that assigns the legacy role while the migration runs loses it;
- `read-all` is created again at the next start as long as it is the default,
  although `docs/spec.md:247` says of a configured default role that is deleted
  that its error be surfaced "instead of recreating it automatically";
- the grace covers `read-all` only, not a default of the operator's own;
- a refused command ends the bootstrap; only an unreachable agent is tried again.

Left out: the creation of groups, priorities and client lists as state, client ids
and texts, the status shown.

`EffectiveAcls` is what is computed from the file: `NormalizeState` completes
memberships that only one side holds, `ResolveEffectiveAcls` picks for each type and
topic the entry that decides, `GetEffectivePermissions` puts both together.

### LiveDashboard

`latest` is `latestSnapshot`; `refresh` each refresh in progress, with what it has
read of the diagnostics and of the MCP server; `clients`, `unsubscribe` and
`listeners` the state of `realtime-node.ts` and its emitter; `socket` each websocket
from its upgrade on, with what is on its way to the page; `page` the script of
`dashboard/+page.svelte`. The MCP server's state is the time until which it counts
as connected, since the page itself compares it with its clock.

Each await is a step: two connections can both find no subscription, and a snapshot
read earlier can be sent after a newer broadcast. `Restart` is one of the API's.
The sender of heartbeats is a timer (`RecordHeartbeat` at any time).

What the model shows beside the properties: two concurrent first connections leave
a listener that is never removed (it sends everything twice); a refresh of the MCP
state writes back diagnostics read before its await, over newer ones. `ConnectedIsFresh`
assumes that the clocks of page and API agree.

Left out: counts and entries that are not pushed, the framing of messages, and
`backendConnectionState`: the statements that compute two of the badges name only
that variable as a dependency, which the model has no notion of.

### RequestAccess and HttpApiPaths

`RequestAccess` has one record per route: method, capability, the checks of its
handler in order, the calls it then awaits in order, and what it changes. `Answer`
is the status, what was changed and whether that was recorded, for a request with
given identities, origin and body, of which at most one call fails.
`CurrentUser` is the order in which `hooks.server.ts` believes proof, cookie and
header. The pages' `load` functions and the navigation follow.

What it shows: when the audit entry cannot be written, the change is done, the answer
is an error and the log is silent; the dashboard's refresh comes after the entry,
but before it in the route of the MCP access; an import that is applied pushes the
broker's configuration with the capability `manage_snapshots` alone.

`HttpApiPaths` is the arithmetic of prefixes: base path, browser or proxy base
path, upstream path.

## Runs

| Run | Question | Bounds |
|---|---|---|
| `explorer` | Is every record's client alive and its own; are old messages gone; is the latest topic tracked; is the session exact without overlap? | 2 records, 3 clients, 1 stream, 2 calls, 1 filter, 2 topics of which 1 is tracked, 2 messages |
| `explorer_channel` | Are browsers served, updates kept, abandoned sessions ended; is the channel implemented? | 2 records, 2 clients, 2 streams, 2 calls, 1 topic, 1 message |
| `explorer_one_connection` | One connection per session, as documented? Violated. | 2 calls, 3 clients |
| `buffer_queue` | Is every message accounted for, in order, within both bounds; is every poll authorised? | 1 loop, 2 calls, sizes 1 and 2, 2 messages or 3 bytes, 3 arrivals |
| `buffer_streams` | Do the stream loops of a closed buffer, or of a disabled principal, all end? | 2 loops, 1 call, 1 message |
| `auth_replay` | Is a proof accepted once; does the cache refuse only what it must? | 3 proofs of 2 s, skew 1, drift 2, time to 6, cache of 2, 2 requests |
| `auth_access` | Do requests get the settled access; do revoked streams end? | 2 proofs, 1 request, 2 `setAccess`, 1 capability, no time |
| `sessions` | Does an accepted session stand for the present credential; does a revoked one stay revoked? | 2 creations of the account, 1 session, 2 calls, 2 passwords, 1 subject, 1 OIDC request, version to 2 |
| `broker` | Does a push replace only what its author saw; is the file whole; is one broker running, and does it run what an operation was to apply? | 1 call, 2 handlers, 2 texts, 2 processes |
| `audit` | Does verification tell exactly what was altered; does the log keep its order? Also `RequestAccess`. | 3 entries, 2 calls, time to 2 |
| `dynsec` | Does a creation do what it answers; is a role that was provided found; do migration and bootstrap respect what they find? Also `EffectiveAcls`. | 1 client, 1 group, the bootstrap's roles, 1 ACL, 2 requests: creations, pages and at most 1 other change |
| `dashboard` | Is what is published sent; does the page keep trying, and show only fresh connections? Also `HttpApiPaths`. | 1 page, 2 sockets, 1 request, 2 openings, stale after 1, time to 1, 1 message under way |

Runs of the Explorer and of the broker, of `sessions`, `audit`, `dynsec` and `dashboard` say
`CHECK_DEADLOCK FALSE`: records, clients, streams, ids, processes, entries, requests and
openings are each used once or counted, so that every behaviour of an instance ends;
so do the buffer's, since a closed session ends.

The pure modules have no behaviour. TLC evaluates named assumptions about them, over
all the inputs an MC module lists, at the beginning of the run that extends it:

- `EffectiveAclsDecide`, `MembershipsAgree`, `PermissionsAreOfAllRoles` (run `dynsec`):
  up to three ACLs over two keys, two priorities and both effects have one decisive
  entry per key, the same in any order of the roles; memberships agree on both sides;
  permissions are those of direct and inherited roles alike;
- `AnswersTellWhatWasDone`, `OtherOriginsChangeNothing`, `RolesChangeTheirOwn`,
  `ProofsStayWithin`, `PagesAgreeWithTheApi` (run `audit`): every route, role,
  identity, origin, body and failing call;
- `CallsReachTheApi`, `NeighboursStay` (run `dashboard`): both modes, base paths with
  and without slashes at either end, upstreams with a path of their own.

Why the bounds are enough: every race of the service is between two calls, or
a call and a timer, on one record and its successor; two records give the
successor, three clients let a replacement be replaced again, and two streams let
one close while the other is open. Two messages on two topics, of which one can be
tracked, evict the first. An operator's limit below the absolute one would double the
states of each record; that it is kept, whenever it is set or lowered, is proved
(`LatestStayTracked`). Arrivals within one millisecond, among which the code evicts by
name, are told apart.

For the buffer: the two sizes make both bounds bind, each without the other, and
let one large message push out two small ones; three arrivals overfill the queue.
Two calls give every overlap of a call with another or with a cleanup; two loops
give a loop in its backoff and its successor, the only way two of them meet.

For the proofs: the time lets a proof be signed, used, purged by another request
and delivered again on either side of each boundary; the drift exceeds the skew;
three proofs overfill a cache of two. Requests meet only in the cache, and
`validateClaims` is one step, so `auth_access` needs one request; two `setAccess`
overlap in every way, and a second proof gives a request after a refused one.

For the sessions: two calls give every overlap of a login or check with an
administration, two ids a deletion and a new account of the same name, a third
version a reset after a reset. Sessions do not look at each other, so one shows what
can become of any.

For the broker: two handlers give each overlap of a write, a reload and a restart
with a late one; a second process is what a restart starts. One call is enough for two
handlers, because a call that has timed out leaves its handler behind and the next one
meets it there: so writes overlap, and a pull is outdated by the time of its push. Two
texts tell old from new; a third would only tell apart pushes that both are refused.

For the log: three entries are needed for one that is removed between two others,
two points in time after the first for a clock that goes back and on.

For dynamic security: commands are about one name each, so a second client or group
would only repeat the first; two requests give two creations of one client, or a
creation and a page, a deletion or another change, next to the bootstrap. The creation
asks for a password and a disabled client, so that all its commands are run. Three
requests at once, such as a page whose finding is out of date when a creation reads, stay
with the proof of `ProvidedRoleIsFound`, which has no bound. The run has no role of the
operators' own: `HasCustomRoles` only adds a reason to leave the defaults alone, and the
five properties are proved for any roles.

For the dashboard: two sockets give the race of two subscriptions and, since a page
reconnects on the second, a socket that closes late; the requests that refresh are
alike, and a socket's own first load is another one to race with. One second more or
less decides whether a heartbeat is stale.

Fairness of `explorer_channel` is weak, on the emit timer, the close timer and
the end of a teardown: Node runs expired timers, and `end(true)` calls back. No
fairness is assumed of users, calls, streams or the broker.

Fairness of `buffer_streams`, for each loop: a request for the stream ends, one
way or the other; an aborted request rejects; pings of an open stream wake the
loop (mqttctl sends them periodically), and mqttctl closes the stream of a
principal it finds disabled at a ping; the backoff timer fires; a cleanup's
request is answered or times out, and its continuations run. Strong only on
`StreamDenied`: a loop that asks mqttctl again and again while the principal is
disabled does not fail for another reason for ever. Nothing is assumed of the
agent's calls, of messages or of the deadline.

Fairness of `auth_access` is weak, on the interval of an open stream and the two
reads it starts: Node fires the interval, and the database answers.

The other runs assume no fairness and check safety only: `PublishedIsSent` and
`PageKeepsTrying` say what holds at every step on the way, not that networks deliver.

### What the violation shows

Two connects of one session key overlap. The second finds no client while the
first awaits its old client's end (or its first connect), both create one, and
one overwrites the other in `session.client`, or the failing one clears the
survivor. A live client remains that no operation can reach, although
`src/mcp/docs/MQTT_LIFECYCLE.md:44` says that only one connection exists.

Two more disagreements can be seen in the models, and no run is about them (the refusals
of a role that is there, under *Dynsec*, contradict no document):

- The grace-period teardown forgets the client and awaits its end. A connect that
  begins in that window puts a new client on the record; the teardown then deletes
  the record since nobody listens. The client lives on without a session, which
  `docs/spec.md:70` has closed after the grace period.
- `stopSse` ends what `sseAbort` holds, but a loop in its backoff holds nothing
  and sleeps on. If the agent unsubscribes and subscribes again meanwhile,
  `ensureSse` starts a second loop, and the first finds `desiredSse` set when it
  wakes: both read, and every message is queued twice, although
  `MQTT_LIFECYCLE.md:56` has one consumer.

## Proofs

`MqttExplorerProofs` proves, for every value of the constants allowed by
`ConstantsAssumption`:

- `TypeCorrect`: the type invariant is inductive. One lemma per shared helper
  (`EmitFrame` says what a change with its emit leaves alone), one step per action.
- `WatchersServed` and `UpdatesKept`: `ListenersOnCurrent` and `NoLostUpdate` are
  inductive only together (`WatchInv`): that an emit reaches all who are behind
  needs that listeners are on the current record only, and conversely that nobody
  is behind when the record is deleted needs that those behind listen. Most
  operations are `Quiet`: they leave listeners alone and send at once.
- `RefinesChannel`: from `WatchInv`, every step maps to a step of
  `ExplorerChannel` or a stutter. Its liveness part stays with TLC.
- `MessagesAreOfTheirClient` and `CountsStayInStep`, from a predicate on a single
  record (`RecordSound`) that every update of a record preserves. The second
  states `CountsAgree`, on counters alone, and is proved without a run of its own.
- `LatestStayTracked`, from `TrackedInv`: the tracked topics have different numbers, all of
  messages the record has counted, and the latest is among them. Then no more than the
  limit have fewer than that above them (`TopMost`), which is what `Trim` keeps.
- `ClientsAreServed`: `CurrentClientAlive` needs `ClientInv`, which adds that no
  call's client is unused and that a client which is still connecting can only be
  in its own call's record. Without the latter, `ConnectFails` could end a client
  another record uses.
- `SerialChangesExact`, from `SerialInv`: until two changes overlap, each begins where the
  one before has ended (`OneChange`). `Between` says what the record has and which clients
  are alive at each stage of a connect or a disconnect, and a record in its teardown is
  `Parted` from its client, with none alive. A record that was never allocated is as new,
  so that a key which gets a record gets no client with it. All other steps, whatever they
  interleave with, leave the connection of every record alone (`ConnectionsKept`), or
  follow an event of the client that is the record's own.

`McpMqttBufferProofs` proves, for every value allowed by `BufferAssumption`:

- `NoSilentLoss` and `ReceiveOrder`: conservation and order, inductive together
  with the shape of the queue. The lemmas say what taking a prefix off a sequence
  and appending to it do to its length and its numbering; the number of messages
  an append drops may be any that `DropsOldest` allows.
- `ClosedStaysEmpty`: inductive by itself once every action is known either to
  leave `queue` alone, to reset it, or to require an open buffer (`append`).
- `PollsAreAuthorised`: the action property, from the invariant that a poll whose
  answer is a success was entitled at some time during the call.
- `BytesStayInStep`, from `BytesInv`. What it needs of `Bytes`, the sum over the queue,
  is `BytesOfOneMore` (a message at the end adds its size) and `BytesOfParts` (what is
  taken off the front and what is left weigh what there was). These are by induction on
  the length of the queue: `SetInduction` draws it from the minimum of a well-founded
  order, for a property that is given as the set of numbers that have it, and `Totals`
  says of a function that it adds up the sizes, of which there is one (`TotalsExist`)
  and no other (`TotalsAgree`).
- `TypeCorrect`: the control state is typed by itself (`ControlInv`), the calls by the
  invariant of the polls; that `queuedBytes` never falls below zero is `BytesInv`.

`McpAuthProofs` proves, for every value allowed by `AuthAssumption`:

- `TypeCorrect`: the type invariant, with the range of every history.
- `AcceptedOnce`, `UnusedProofsAreFree` and `CacheStaysBounded`, from `CacheInv`:
  the cache holds only accepted proofs, each with its `exp` and the skew, and an
  accepted proof it no longer holds is past both. `KeptIsLive` draws from it that
  after a purge the cache is *exactly* the accepted proofs whose window is open,
  which the three theorems share. That needs purge and window to agree to the second.
- `SettledAccessIsGranted`, from `AccessInv`: the writes a lone `setAccess` has done
  are stored, a settled access has no write pending, and a request that has read
  `enabled` since then still finds it so.

`BrokerControlProofs` proves, for every value allowed by `BrokerAssumption` (any number of
calls, handlers, contents and processes), from one invariant `IInv` of five parts, which
are inductive only together:

- `Typed`: the types, and what a handler holds at each stage (`Sane`): one that writes has
  a text, only who writes has a file open, one that signals or waits has a process.
- `FileStaysWhole`: `FileWhole` itself, inductive with `AloneInv`: a write that no other
  has overlapped mixes with none, has the temporary file open under its own name while it
  writes, and finds its own text in it when it renames (`AloneWritesText`). What earlier
  writes or a crash have left in either file does not matter, since one is emptied first
  and the other cut last.
- `PushesReplaceWhatWasPulled`, from `AloneInv` again: such a write is the only one
  between its first and last file operation, and past `Compare` the file still is what it
  expected. Overlapping is noted in both writes when the second begins,
  which is why the first of the two can be relied on later.
- `OneBrokerRuns`, from `SupervisorInv`: at most one handler waits for the end of a
  process, then the supervisor has none; every process that runs is the supervisor's or
  the one that handler waits for, unless one was abandoned. The bound of `OneBroker` is
  the cardinality of a set that lies within one of the two.
- `OperationsApply`, from `ReloadInv`: a reload about to signal a process that a restart
  has replaced meanwhile finds a successor that has read the file since.

`AppSessionsProofs` proves, for every value allowed by `SessionsAssumption` and
`RowsAssumption` (`None` is no row):

- `TypeCorrect`, with what each call knows at each of its statements (`Rows`), and which
  columns a row of each source has (`Shaped`).
- `AcceptedSessionsProve`, from `SessionsBehind` and `CallsBehind`: whatever was read or
  opened some time ago has no newer version than the account, and the account's
  credential if it has its version. Calls have to be included, since a session takes the
  version its login has read. They hold until a write overwrites a row it has not seen;
  `LoginsRead` says that an OIDC login has read the row of the subject it has proved.
- `RevocationIsFinal`: that a version, once passed, does not return; ids of accounts and
  of sessions are used once.

`LiveDashboardProofs` proves, for every value allowed by `LiveDashboardAssumption` and
`SnapshotAssumption`:

- `TypeCorrect`: that the listeners stay below the number of websockets opened needs
  `ListenersBounded`, which counts those that have yet to subscribe.
- `EverySnapshotIsSent`, from `Subscribed`: a client past its subscription has one, and
  a subscription is a listener, even when two clients subscribe at once and only one of
  the two functions that end it is remembered.
- `NothingStaleIsShown`, from `AllFresh`: no copy of the MCP server's state, in the
  latest snapshot, in a refresh, in what a socket carries, on its way or in a page, lasts
  longer than the latest heartbeat allows. The page's clock shows no later time.
- `PagesKeepTrying`: `PageKeepsTrying` is inductive by itself.

`DynsecProofs` proves, for every value allowed by `DynsecAssumption` (any clients, groups,
roles, ACLs, and number of calls), from one invariant `IInv`:

- `TypeCorrect`, with `Jobs`: what the bootstrap has left to do is a sequence of jobs,
  each of the repairs, moves and the deletion that the code knows, and empty unless it
  runs. The lemmas say what taking the next command off that sequence leaves.
- `CallsKeepTheirContract`, from `Created`: at each of its commands, the client of a
  creation is what its commands so far have made of it, unless another request has
  touched it, which the history `own` then says. So `GoodCall` is preserved by the
  commands of all *other* calls, of the operators and of the bootstrap.
- `ProvidedRoleIsAccepted`, from `Provided`: the role is there, and in the file as soon
  as that has been written since; and from `Trusted`: a creation that has read a file
  without the role, and is not late, judges it while the grace period lasts, so that
  whatever ends the period must either have marked it late or find that there is none.
- `ChoicesStay`, from `Settled`: an operator's choice leaves a default that is not the
  legacy role and no such role, in the broker or in the file, so that the next start has
  nothing to decide.
- `MigrationIsSafe`, from `Synced` and `Planned`: the file knows of all holders of the
  legacy role and of no right to write they do not have; who is about to lose the legacy
  role has its successor; and the deletion comes last, behind a job for every holder that
  still needs one. `Planned` relates the whole remaining sequence to the holders, so the
  lemmas about sequences of jobs carry most of the proof.

`AuditChainProofs` proves, for every value allowed by `AuditAssumption` and
`RecordsAssumption` (any finite set of entries, any number of calls), from one invariant
`IInv`:

- `TypeCorrect`, with `UpTo`: the rebuilding never numbers more rows than there are.
- `VerificationIsExact`. While the process starts, the rows of the first ranks by time are
  in place, each linked to the row of the rank before it (`UpTo`); once all are, the order
  by number is that by time and every row fits (`RebuiltServes`). While it serves, the
  write in progress continues the latest row (`Continues`), which is why the queue must
  run one at a time. The direction that a change is *found* needs `Headed`: a changed row
  keeps a hash that no longer fits, and a removed one leaves the latest row with a number
  that is too high for the rows before it, which every later entry continues.
- `OrderIsKept`, from `Ordered`: as long as every entry came last by its time, the order
  of the appending is that of the times, which the rebuilding restores after each start.

The lemmas speak of a table `R`, so that they hold of the table before a step and of the
one after it; `Terms` says that they are the operators of `AuditChain` when `R` is `row`.

`ClosedStaysEmpty` and `CacheStaysBounded` are about `ClosedIsEmpty` and `CacheBounded`,
which are proved but checked by no run: both would hold in a run whenever the other
invariants do.

The assumptions on the constants say that sets of names are finite where a number of them
is counted, that bounds are numbers, and that `None` and the model's other marks (`Torn`)
are none of the values they stand beside. `DynsecAssumption` also has at least one client,
which mosquitto's administrator is, so that an idle call of the model can name one. TLC evaluates all of them.

Only model-checked:

- all liveness (`RevokedStreamsEnd`, `StreamsGoQuiet`, `AbandonedSessionEnds`, the liveness
  of the channel): fairness is out of the proof system's reach;
- the pure operators of `RequestAccess`, `EffectiveAcls` and `HttpApiPaths`: they are
  tables, of which TLC covers every input that matters.

## Not modelled

- The MCP tools, their configuration and keys, configuration loading, logging and the
  command runner: parsing, output and pure I/O, without state that a step could find
  changed.
- The table of MCP protocol sessions, its rate limit and the sender of heartbeats: each
  is a map, a counter or a timer that nothing shares.
- The pages' own scripts but the dashboard's: forms and lists of one browser.
- The OIDC protocol's cryptography, TLS, certificates, signatures and hashes: a proof or
  a hash is what it depends on.
- A second API process on one database, and a deployment without an agent.
- Build, container and test files.

`PROJECT.json` lists every component with what is left out of it.

## Plan

Every safety property of a passing run is a theorem. What would say more about the system
next: the composition of `McpMqttBuffer` with `MqttExplorer` (who ends what, and when),
`BrokerControl` against an atomic compare-and-swap register for pushes that do not
overlap, and the matching of topics and filters as pure operators.
