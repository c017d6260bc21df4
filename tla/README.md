# A TLA+ model of comms-gatekeeper

comms-gatekeeper is the service that lets Decentraland clients into LiveKit rooms: it signs
access tokens for scenes, private calls, community voice chats and streams, records in
Postgres who is in a voice chat, and follows LiveKit through webhooks. These modules model
the parts of it whose correctness depends on the order of events, check them with TLC on
small instances, and prove part of what was checked with TLAPS for every value of the
constants.

What the service knows about a voice chat comes from webhooks, so its tables lag behind
LiveKit; what LiveKit's clients know about a scene comes from room metadata, which lags
behind the tables. Handlers are asynchronous and hold what they read in local variables
while they await; jobs delete rows and ingresses next to them; calls of LiveKit and of other
services fail, and most failures are swallowed. Most of what can go wrong lives between two
awaits.

Paths below are relative to the repository.

## Contents of this directory

| file | what it is |
| --- | --- |
| `CommunityVoice.tla` | community voice chats: rows, LiveKit sessions, webhooks, handlers, expiration job |
| `PrivateVoice.tla`, `Calls.tla` | private voice chats, and what a private call promises with no handler, row or webhook in it; the former implements the latter |
| `SceneModeration.tla`, `SharedMetadata.tla` | scene bans, admins and presenters, and the room metadata that shows them: the writers behind their lock, the refresh and its cooldown; and what the lock promises the writers, a document they edit one at a time |
| `StreamAccess.tla` | stream keys, LiveKit's ingresses, stream links, ingress events and the three jobs that revoke accesses |
| `ScenePermissions.tla` | who may manage a scene, computed for one address and as a list, and the cached leases |
| `UserModeration.tla` | platform bans by address and device, the two endpoints that hand out tokens, and the sweep of the rooms |
| `...Proofs.tla` | theorems about the module of that name |
| `CommunitySessionsProofs.tla`, `PrivateSessionsProofs.tla` | theorems about the two voice chats where webhooks come in order: does the table follow LiveKit |
| `MCCommunityVoice.tla`, `MCPrivateVoice.tla`, `MCScenePermissions.tla` | symmetry; the other modules are checked as they are |
| `*.cfg` | the instances TLC checks, one per run |
| `PROJECT.json` | components, runs, variants, source map, findings, hazards, theorems |

## Inventory

For every component: its state, its operations, whom it talks to, what is hard, what makes
it correct.

**Community voice chat** (`src/logic/voice/voice.ts`, `src/adapters/db/voice-db.ts`).
State: a row per user and room in `community_voice_chat_users` (moderator flag, status,
joined_at, status_updated_at, LiveKit session id). Operations: credentials (upserts a
pending row and signs a token), kick, end, the joined and left webhooks with a branch per
disconnect reason, the expiration job, and five status queries. Talks to LiveKit
(deleteRoom, removeParticipant), the event publisher and analytics. Hard: leaves of an old
session arriving after a rejoin, which two guards (session id, event time) recognise;
decisions over a snapshot read before an await; two handlers tearing the same room down; a
job racing returning moderators; activity computed once in TypeScript and twice in SQL.
Correct if a stale leave never disconnects a newer session, a genuine one is not dropped, a
room is not taken from an active moderator, the queries agree, and a room without
moderators ends.

**Community speaker operations** (request, reject, promote, demote, mute; same file).
State: participant metadata inside LiveKit. Hard: read, merge and replace without a lock.
Correct if no concurrent update is lost.

**Private voice chat** (same files). State: `voice_chat_users`, one row per user and call.
Operations: create a call for two users, end it, joined and left webhooks, expiration job,
"is this user in a call". Hard: `joinUserToRoom` is a transaction that reads where the user
is and then writes two rows, under read committed; a voluntary leave deletes the LiveKit
room first and writes the row afterwards; the same two time limits are tested by three
statements. Correct if a call is always whole or over, does not come back, agrees with
LiveKit, and nobody stays in a call that is over.

**LiveKit webhook reception** (`src/controllers/handlers/livekit-webhook-handler.ts`,
`src/logic/livekit-webhook`). State: none; a handler that throws answers 400 and LiveKit
delivers the event again. Hard: handlers run concurrently, half-run handlers are repeated.

**LiveKit adapter** (`src/adapters/livekit.ts`). State: rooms, participants, ingresses and
metadata, all in LiveKit. deleteRoom swallows errors, removeParticipant throws them, and
removeParticipantFromAllRooms logs them room by room; tokens are signed locally and live on
after the row they came with is gone; room metadata is merged under a per-room lock in
process.

**Room metadata synchronisation** (`src/logic/room-metadata-sync`). State: room metadata
(banned addresses, admins, presenters) and a 60 s cooldown per room. Operations: add and
remove one address, refresh both lists from the tables when a webhook of the room arrives.
Hard: LiveKit replaces metadata as a whole, so every writer reads, changes and writes back;
a refresh reads the tables outside the lock. Correct if writers spare each other's fields
and, when things settle, the metadata shows the tables.

**Scene bans** and **scene admins** (`src/logic/scene-bans`, `src/adapters/scene-ban-manager.ts`,
`src/adapters/scene-admin-manager.ts` and their handlers). State: two tables; an operation
checks the other table and the permissions, writes its own, then tells the room. Weekly
jobs clear both for places that were disabled. Hard: the checks and the write are not one
step; telling the room may fail.

**Scene permissions** (`src/adapters/scene-manager.ts`, `src/adapters/scene-admins.ts`, land
leases in `src/adapters/lands`). State: a cached lease document with a time to live. Who
may manage a scene is computed by two pieces of code, for one address and as a list.
Correct if the two agree, and what is cached is recent.

**Scene stream access** (`src/adapters/scene-stream-access-manager.ts`, its handlers, the two
TTL checkers, the places checker). State: access rows with key, ingress, expiration and
streaming flag. Hard: three jobs and five handlers on the same rows and ingresses, each with
several LiveKit calls in between; started and ended events in any order. Correct if the
tests of expiry agree, nothing that works is revoked for something older, and everything
ends.

**Cast** (`src/logic/cast`). State: stream links on stream accesses, presenters in room
metadata. Correct if a link that is given out lets the streamer in.

**User moderation** and **player connection info** (`src/logic/user-moderation`,
`src/adapters/user-moderation-db.ts`, `src/adapters/db/player-connection-db.ts`). State: bans
by address and device, with expiry; the last device of a player; warnings. Hard: check,
device and insert are three steps; a ban meets tokens that were signed already. Correct if
a banned player gets no token, nobody else is refused, and the sweep leaves nobody behind.

**Token issuance** (`comms-scene-handler.ts`, `private-messages/get-token-handler.ts`).
State: none; several checks at once, some of which fail open. **Scene participants**: a
listing. **Clients of other services** (places, worlds, names, content, social,
notifications, denylist): stateless, or caches with a time to live. **Scheduling and
wiring** (`src/logic/cron-job`, `src/components.ts`): never two runs of one job at a time,
exceptions logged.

## How the models correspond to the code

All modules follow the same rule: **one step is what one handler does between two
awaits**, i.e. one SQL statement or one LiveKit call with the synchronous code around it.
What a handler keeps in local variables across an await is a field of its record, so a
stale snapshot is stale in the model as well.

### CommunityVoice

| variable | code |
| --- | --- |
| `rows[r][u]` | the row of `community_voice_chat_users`; `AbsentRow` where there is none |
| `live`, `opened` | LiveKit: the session a user has in a room, and how many he has had |
| `granted` | when the user last got a token; tokens are valid for `TokenTTL` whatever happens to the row |
| `webhooks` | events LiveKit has yet to deliver; a set, so they arrive in any order unless `Ordered` |
| `leaves` | handlers of a voluntary leave between the two awaits of voice.ts:209-217, with the rows they read |
| `teardowns` | handlers in deleteRoom and deleteCommunityVoiceChat (voice.ts:227-237), the end endpoint included, with the participant count they took |
| `cron` | the expiration job between its statements: the active list, the counts, the rooms still to close |
| `now` | `Date.now()` in ticks |

Actions carry the names of the functions: `getCommunityVoiceChatCredentials`,
`kickPlayerFromCommunity`, `endCommunityVoiceChat`, `handleCommunityParticipantJoined`, one
`Left...` action per branch of `handleCommunityParticipantLeft`, `WriteDisconnected` and
`DecideTeardown` for its two awaits, `Teardown...` for the Promise.all and the publication,
`Cron...` for the five stages of the job. The first step of a handler consumes the webhook;
`HandlerFails` and `Restart` put it back, `Deliver` may leave it there (an answer that got
lost). The two guards are `isStaleLeave`; event times are rounded down to LiveKit's seconds
by `leaveEventTime` and compared with a tolerance `Skew`.

### PrivateVoice and Calls

The shape is the same. `joins` holds handlers of a joined event past their first read:
`JoinSelects` is the SELECT of the transaction, `JoinWrites` its UPDATEs and COMMIT. The row
locks keep the two UPDATEs together, but the SELECT takes none, so another transaction may
commit in between. `closings` holds the handlers of a voluntary leave and of the end
endpoint: the former calls LiveKit and then writes, the latter commits and then calls
LiveKit. `getRoomUserIsIn` returns the set of rooms that may come first in its ORDER BY.

`Calls` knows two things, who is in a call and which rooms have been used. Its two actions
open a call between two different people and close calls for everybody in them. The mapping
takes the users with a row for the members, and the rooms for which a token was signed for
the used ones. It assumes that the caller of `POST /private-voice-chat` names each call
once: a repeated name would fail on the primary key while the rows are there.

### SceneModeration

| variable | code |
| --- | --- |
| `bans`, `admins` | the rows of `scene_bans`, and the active ones of `scene_admin`, of one place |
| `session`, `opened`, `metadata`, `inRoom` | LiveKit: which of its successive rooms the scene is in, its metadata, its participants |
| `asking` | the token request of each user, between the awaits of `comms-scene-handler.ts` |
| `handlers` | requests to ban, unban, add and remove admins and presenters |
| `pending`, `refreshing`, `cooldown` | webhooks that wait, refreshes between their awaits with the lists they read, the cache entry of `room-metadata-sync/component.ts` |
| `chain` | the promise chain of `withRoomMetadataLock`: the first operation runs, the others wait |

A write of the metadata is two steps, `OpReads` (getRoomInfo) and `OpWrites`
(updateRoomMetadata), of the first element of `chain`. The operation keeps what it read and
from which room. `getRoomInfo` answers null for a missing room and for an error alike, so a
failed read looks like an empty document to the merge. `Delivered` and `MarksCooldown` are
the two sides of the await in the cooldown gate; the two tables are read concurrently, hence
in either order. Permissions are constants here (`Protected`, `Lessees`) plus the admins:
`ScenePermissions` computes them.

`SharedMetadata` knows a document that exists while there is a room, and the edits that wait
for it. `Serve` does the oldest edit in one step; `GiveUp` drops it, which takes a failed call
or a room that is not there. An edit says of each field which users it keeps and which it
adds (`EditOf`). The mapping takes the chain for the queue. `lost` marks the one exception
the code makes: the first operation is about to write what it read from another room, or
from an answer that was an error, and `Overwrite` lets it put its edit on any document. Only
a failure (`Lose`) or a room that closes (`Reopen`) leads there.

### StreamAccess

| variable | code |
| --- | --- |
| `access[p]` | the active row of `scene_stream_access`; a unique index allows one per place, and rows that are not active are read by nobody |
| `ingresses`, `made`, `running`, `given` | LiveKit: ingresses by room, somebody streams through them, their key was given out |
| `webhooks`, `starting` | ingress events to be delivered, and started events between `isStreaming` and `startStreaming` |
| `handlers` | link, add, reset and remove requests past their first read |
| `streamJob`, `keyJob`, `placeJob` | the jobs: what they listed and what they are about to revoke |

A reset and a removal delete the ingress before the row; `getOrCreateIngress` lists and then
creates. A place deployed again has another room (`Deployments`). A reset writes no
`room_id`, so `room` is `NoRoom`. Two columns came by migrations that leave them NULL in
the rows there were, so the table starts empty or with such a row (`StartsMigrated`), whose
key ends by its age instead (`KeyExpired`). The queries of both TTL jobs return `JobLimit`
rows at most, and a run that fails to ask places for what it found does nothing (`Lists`).

### ScenePermissions

The rights are variables that other services change (`land`, `worldOwner`, `allowed`,
`parcels`, `admins`, the versions of the lease document); the operators carry the names of
the functions that combine them. `getUserScenePermissions` is scene-manager.ts, `Listed`
is scene-admins.ts together with the two callers that add the lessees. `cached`,
`cachedAt`, `fetching` are the three variables of `lands/component.ts`, and `calls` those
who wait for the one request they share.

### UserModeration

| variable | code |
| --- | --- |
| `bans` | `user_bans` in the order of insertion, with device, expiry and the time it was lifted |
| `connection` | `player_connection_info.device_id` |
| `visits` | token requests, with the checks of their Promise.all that have not ended |
| `tokens`, `inRoom` | tokens that were signed, sessions in LiveKit |
| `requests` | ban requests between check, look-up of the device and insertion |
| `sweeps` | `removeParticipantFromAllRooms`, which the request does not wait for |
| `seen`, `last`, `covers`, `swept` | history the properties speak about; no step reads them, except to record what was known when a token was asked for |

### LiveKit

LiveKit is external and modelled from how the code uses it. Voice chats: a connection with a
valid token opens a session and ends an earlier one of the same identity
(DUPLICATE_IDENTITY); sessions end by the client (CLIENT_INITIATED), by deleteRoom
(ROOM_DELETED) or otherwise (every reason the code does not name, written "interrupted");
each of these is one webhook, which is retried when the answer is an error. A deleted room
can be entered again with a token that is still valid. Scenes: a room opens for its first
participant or for createRoom, with no metadata, and closes when it stays empty; both the
room and every participant are announced. Ingresses: deleting one ends the stream that runs
through it.

## The runs

Bounds, all named in the modules: `MaxTime` (the clock stops), `ActiveUntil` (users act until
then), `MaxSessions`, `MaxEnds`, `MaxStreams`, `MaxRequests`, `MaxChanges`, `MaxVersions`,
`MaxRooms`, `MaxPending`, `MaxRefreshes`, `MaxQueue` (how often something happens, or how much
of it at a time), `MaxFaults` (calls that fail, restarts, repeated deliveries), `JobTimes`
(when the expiration job may start; the properties need only the instants at which a limit
is just reached or just passed).

| run | instance | question and answer |
| --- | --- | --- |
| `voice_guards` | one user in both roles, two sessions, any order, a fault (a failure, a restart or a repeated delivery), event times rounded to 2 ticks, no end; 0.4 M states | `RowsConsistent`: no sid survives a rejoin. `StaleLeaveDisconnectsNobody`: the guards protect a newer session. `OnlyDisorderStrandsRows`: a row stays connected to a session that is over, with nothing on its way to correct it, only by an event delivered out of its turn (which happens here). Two sessions suffice: a guard compares one event with one row |
| `voice_teardown` | two moderators, a fault, the job at 3 where the limits of 2 are met or missed by a tick; 1.5 M | a leaving moderator takes the room down only if nobody else was active, up to the staleness of the snapshot; the three implementations of activity agree, and the job respects them and those who asked to come back |
| `voice_sessions` | one user in both roles, two sessions, an end, a fault, ordered webhooks that are retried, the job when every limit is reached; 0.6 M | a connected row has a session, or a webhook that corrects it is under way; the guards drop no leave that counts, in spite of the rounding; a room without moderators ends |
| `private_calls` | two calls, two sessions, a fault, a batch of one; 0.3 M | the table implements `Calls` and follows LiveKit, the tests of the limits agree, and a call somebody is missing from is removed |
| `scene_moderation` | an owner, and a user who is moderated; a request, a refresh at a time, a failed call, a room that closes and opens again; 0.7 M | the chain of promises implements `SharedMetadata`, so writers spare each other's fields; and the lists end up as the tables say if people keep joining |
| `stream_access` | one place, two deployments, two requests (or one, and a row from before the migrations), a stream, a fault, the jobs at any time around both limits; 0.4 M | the five tests of expiry agree, the streaming job revokes only what is off, every access ends |
| `permissions` | two people, two parcels and one elsewhere, two changes of any rights, two callers, two versions of the leases; 0.8 M up to symmetry | the list is the set of those the check lets through; leases are recent |
| `user_moderation` | two players, a device, a scene and the private messages, three requests (bans and tokens in any mixture), a fault; 2.5 M | who is banned gets no token, nobody else is refused, a lift is complete, a sweep leaves nobody with a newer token behind |
| `voice_listed`, `voice_snapshot`, `private_orphan`, `scene_refresh` | | disagreements, see below |

Deadlock is not checked: users need not do anything, and the bounds stop every instance in
the end.

`Ordered` is FALSE where the property must hold for any order of webhooks, and TRUE for the
properties that do not hold otherwise: a joined webhook that overtakes the leave of its own
session leaves a connected row behind (see below). Nothing in the service
enforces that order, and a retried event may come late, which is why nothing else relies on
it. For events in any order there is `OnlyDisorderStrandsRows`: it grants the code that one
excuse, the event that is out of turn at the very step that strands the row, and lets no
guard, rejoin, kick, failure, restart or job do the same. It does not promise that such a
row ends; while it stays, its room may stay as well. In `stream_access` the events come in
any order and more than once.

With one place the `LIMIT` of the jobs' queries never leaves anything out. TLC did not get
through two places in the five minutes a run is given here; the theorems about the module
hold for any number of places and any limit.

`voice_sessions` has one room, so there the job of the community chats never leaves an expired
room to its next batch, and never has a second room to delete. For the private chats,
`private_calls` has two calls and batches of one. The two safety properties of
`voice_sessions` are also proved, for any number of rooms and any size of batch.

`scene_moderation` has one refresh at a time: with two, TLC does not get through in
reasonable time. What two refreshes may do to each other's lists is therefore not covered by
`MetadataConverges`; what they do to other fields is, by proof.

Three properties make exceptions that matter. `SweptPlayersAreOut` says nothing of a player
who enters after the ban with a token signed before it, nor of a ban whose sweep had a call
that failed: both do stay in a room. `TokensRespectBans` speaks of the device a ban *read*:
a token request records its device and looks up the bans at the same time, so a ban that
reads before the one and is written after the other covers an older device, or none.
`LeavingModeratorSparesOthers` speaks of rows that are as the handler read them;
`NoTeardownUnderModerator` is the same without that excuse, and fails.

Each property of a passing run is paired, in `PROJECT.json`, with a variant of one
definition of the model (they are marked "Variant" in the modules) under which TLC refutes
it: a guard by time only, `>=` for `>`, a column that the upsert forgets, operations that do
not wait for the lock, a comparison with NULL, and so on.

### Fairness

`FairSpec` of each module assumes weak fairness of what the environment of the handlers
really guarantees, and nothing of users:

* voice chats: delivery of webhooks (LiveKit retries, `KeepsRetrying`), the steps of handlers
  (the runtime resumes them), the expiration job (every minute, with waitForCompletion), and
  time. Past `ActiveUntil` the clock waits for events and handlers in flight; the limits are
  at least as long as `ActiveUntil` and the last job time lies behind them, so that a job
  that runs finds every limit reached.
* `SceneModeration`: the chain of writes (every promise settles, `then(fn, fn)` goes on after a
  failure), delivery, the steps of a refresh, and that the cache forgets the cooldown.
  Handlers of requests need no fairness: one that never goes on has written its table or
  not. `MetadataConverges` supposes in its statement that people keep joining: the repair
  comes with their webhooks, and nothing else calls for it.
* `StreamAccess`: time, delivery, requests, and the two TTL jobs, which the scheduler starts
  again and again. The weekly places checker is not assumed to run.

Weak fairness suffices because each of these stays enabled until it is taken. A fault may
happen or not; there are finitely many, so that a job that failed gets its next run.

## What is proved

`tlapm` checks every theorem to the last leaf. They hold for all values of the constants
that satisfy the assumption of the module (`ConstantsAssumption`, `PrivateAssumption`,
`ModerationAssumption`, `StreamAssumption`, `PermissionsAssumption`: bounds and limits are
natural numbers, a few sets are subsets of others, first and base parcel belong to the
scene): any number of users, rooms, requests, sessions and faults, any order of webhooks.

`CommunityVoiceProofs`:

* `TypeCorrect`: `TypeOK` is inductive as it stands.
* `RowsAreConsistent`: not inductive alone: a connected row gets its session from a webhook,
  so `RowsInv` adds that a joined event in flight names a session its user opened
  (`JoinedEventsOpened`), and that handlers that are repeated are never those of a joined
  event, because that handler has a single step.
* `StaleLeavesAreHarmless`: the action property about the guards. It needs what a handler
  knew when it passed them: `WritesPassedGuards` says that the row in the snapshot of a
  handler about to write was not stale for its event; and that rounding moves an event only
  backwards (`LeaveEventTimeIsEarly`).
* `JobSparesActive`: from `ActivityTestsAgree`: `joinedAt + TTL > now` in TypeScript and
  `joined_at > now - TTL` in SQL decide alike, so a room the job finds without an active
  moderator is one the status endpoint calls inactive. `QueriesAgree` and
  `LeavingSparesOthers` rest on the same lemma.
* `JobSparesReturning`: the job looks at rows and the property at tokens. `GrantsInv` relates
  them: a row that is there is no older than the last token its user got, because every
  write of the row dates it, the upsert that keeps `joined_at` included.
* `DisorderStrandsRows`: for any order of delivery. A step strands a row if it takes the
  session, the row's agreement with it, or the last thing that could correct the row. A
  session that goes sends the news of it, and a handler that gives up puts its event back,
  so (`StrandsNobody`) only the webhook of that very user in that room can do it; then
  branch by branch (`OwnWebhookStrands`). The branch of a replaced session does nothing, so
  it must not be the last hope of the row: `StrandInv` adds that a replaced session is never
  its user's last (`Replaced`).

`CommunitySessionsProofs`, for webhooks that come in order:

* `ConnectedRowsTracked`, where they are also retried. A row is corrected by an event, so the
  invariant has to say which events are still to come for every row. `JoinsInOrder`: a joined
  event that waits holds back the joined events of all later sessions, and an end of each
  session but the one that is still open. `LaterJoinsComing`: a row that tracks a session has
  not heard of any later one. `EndsAreComing` is the property made inductive: the news is the
  end of the *last* session, and it is in a webhook, in a leave about to be written or in a
  teardown that has yet to delete the rows; a handler that fails or a restart puts it back.
  Two kinds of step touch this picture, one that opens a session (`ConnectStep`) and one that
  delivers a joined event (`JoinedStep`); all others are shown to be a `QuietStep`, once per
  action, and the invariants are shown to survive a `QuietStep` once.
* `GenuineLeaves`, where the tolerance is at least a tick less than the precision of event
  times (`Skew >= Precision - 1`; `STALE_LEAVE_SKEW_MS` is 1000, LiveKit's seconds are 1000 ms).
  The session guard lets the leave of a tracked session through by `LaterJoinsComing`. The
  time guard compares two clocks: a row that tracks nothing was written at credentials, before
  the session was opened (`PendingRows`), or by an interruption, and then no leave that still
  counts is on its way (`UnclaimedRows`, from `InterruptionsInOrder`). The property first read
  "unless the user came back": the proof failed on a leave whose handler had failed and that
  is delivered again after the joined event of a newer session, and TLC confirmed it with
  two sessions and a fault. To drop that leave is right, so the property now excepts it
  (`LaterSessionKnown`).

`PrivateVoiceProofs`:

* `Census`: every step opens one call in a room that never had one (`OpensCall`), or closes
  calls and leaves everybody else where he is (`KeepsOrCloses`). It is proved together with
  `TypeOK`, one step per action.
* `ImplementsCalls`: `Spec => CallsAreWhole`. Initial states map to initial states
  and the two kinds of step map to the two actions of `Calls`. `Started` (time is positive)
  is needed because a grant at time 0 could not be told from "never".
* `LimitsAgree`: from `CallsOfTwo` (a call has no rows or those of two users), which follows
  from the census, and from the arithmetic of the three tests.

`PrivateSessionsProofs`: `ConnectedRowsTracked`, for webhooks that come in order and are
retried. The argument is the same, with two differences: a joined event has a transaction of
two steps, which is in flight in between and may be superseded (`JoinsComeFirst` speaks of
`InFlight`), and rows of private calls keep no session, so that the news is any end of the
user's in that room (`EndsAreComing`; `LastIsNotDuplicate` makes sure that the end of his
last session is one that counts).

`SceneModerationProofs`:

* `LockHolds`: `LockInv` says that only the first operation of the chain has started
  (`OthersWait`), that what it read is what LiveKit has unless the read failed or the room was
  replaced (`ReadIsCurrent`), and, which makes the latter inductive, that nobody has read a
  room that is yet to be opened (`SessionsSeen`).
* `OtherFieldsSafe`: from `ReadIsCurrent` and the operations, which keep the fields they are
  not about.
* `ImplementsSharedMetadata`: `Spec => WritesAreAtomic`. An operation does to the metadata what
  its edit says (`EffectIsApplied`); a read is no step of `SharedMetadata`, unless it fails or
  finds that there is nothing to do; a write is `Serve` if the operation read the room there
  is (`ReadIsCurrent`), else `Overwrite`; the next operation starts by reading (`OthersWait`),
  so the exception never outlives the operation it happened to (`EndedOver`).

`ScenePermissionsProofs`:

* `LandListRight`, `WorldListRight`: the two computations are compared case by case
  (`CheckOnLand`, `CheckInWorld`). On land this follows from the types; in a world it needs an
  invariant about the worlds content server (`LimitsOfPermissions`: only those who have a
  permission have it limited to parcels).
* `LeasesRecent`: `LeasesInv` adds that the cached version was not replaced before it was
  fetched, and that nobody asked in the future.

`StreamAccessProofs`:

* `TypeCorrect`, `KilledOff`: not inductive: a request or a job that is under way might name
  an ingress LiveKit has yet to make, and then find it back. `StreamInv` adds that it
  does not (`IngressesKnown`) and that what the job is about to revoke lost its ingress
  (`RevokedAreOff`), for LiveKit never uses the number of an ingress again.
* `ExpiryTestsRight`: arithmetic over the types, and, for a row without an expiration time,
  that it has no room either (`RoomsAreDated`): the tests of a key let it in for good while
  the job ends it by age, and they agree only because the column `room_id` is younger.

`UserModerationProofs`: one invariant, `ModerationInv`, for all five theorems: every ban came
from a request of its own (`Counted`), the device recorded for a player is the last one he
sent, and bans have a device of their player (`DevicesKnown`); a request for a token that
passed the check knows only bans that are over (`VisitsKnown`), hence so do tokens and
sessions (`TokensOver`, `SessionsOver`); and a sweep leaves behind it only rooms where the
player has no session from before the ban (`SweepsClear`). Bans that are over stay over
(`BansGrow`), because a lift and an expiration are never undone.

Every safety property of a passing run is a theorem. Only model-checked is liveness
(`RoomsWithoutModeratorsEnd`, `CallsEnd`, `MetadataConverges`, `AccessesEnd`), which is out of
this prover's reach under fairness, as are ENABLED, and induction over data, which the
models avoid.

## Where the code and its comments disagree

Shown by a run each:

* `voice_listed`: a room where only a listener is pending or interrupted is listed as active
  (voice-db.ts:496: the OR chain of `getIsConnectedQuery` is appended without parentheses).
* `voice_snapshot`: a moderator who connects while another one's leave is being written loses
  the room (voice.ts:217 looks at rows read before the await).
* `private_orphan`: L leaves; the handler deletes the LiveKit room; P connects with a token
  that is still valid and passes `isPrivateRoomActive`, because L's row is not yet
  disconnected; then it is. The job removes the rows and, because of the disconnected row
  alone, leaves LiveKit alone. P stays in a room nothing will ever close.
* `scene_refresh`: a refresh reads the bans, a ban or an unban goes through, table and
  metadata, and the refresh writes the list it read (room-metadata-sync/component.ts:43);
  the shortest trace overwrites a ban. The lock covers
  the writes, not the reads of the tables. The next refresh, a cooldown and a webhook later,
  repairs it: `MetadataConverges` holds all the same.

Met while modelling, with no run:

Voice chats

* voice.ts:459: a room that expires under connected listeners is removed without an
  announcement, because counts were taken only for rooms of the active list.
* voice-db.ts:529: `isUserInAnyCommunityVoiceChat` appends the same OR chain to its address
  condition, so somebody else's recent interruption answers for the user.
* voice-db.ts:298: the upsert keeps `joined_at`, from which the activity of a pending
  moderator is measured; one who asks again is pending from the first time on.
* voice.ts:240: an interruption of an earlier session marks the row of a newer one
  interrupted; the guards cover voluntary leaves only.
* voice.ts:175: a late ROOM_DELETED leave deletes the rows of a room that was created again.
* voice.ts:119: two handlers that count before either deletes both announce the end.
* voice.ts:110: a joined webhook delivered after the leave of its session keeps the row
  connected for ever. This is why `voice_sessions` orders the webhooks.
* voice-db.ts:170: two joins of one user to two rooms read before either writes, and he is
  connected in both.

Scenes

* livekit.ts:521: `getRoomInfo` answers null for an error too; a refresh then merges over
  nothing and writes the presenters away.
* room-metadata-sync/component.ts:58: a refresh that fails catches its error before the code
  that would release the cooldown; a room recreated within the cooldown is not refreshed
  either; and the gate awaits the cache before it marks it, so two webhooks pass.
* add-scene-admin-handler.ts:88: adding an admin and banning the same user pass each other's
  check, and the user is both. A lessee can be banned.
* comms-scene-handler.ts decides by the rights in the world by name who presents, where the
  other handlers look at the parcels of the scene.
* scene-admins.ts asks about the base parcel, scene-manager.ts about the first of the list;
  `LandListMatchesCheck` is said of scenes where the two parcels have the same rights.
* docs/schemas.yaml:61 says `canBeRemoved` is false for lessees; scene-manager.ts looks for
  a lease only where no other right was found, so an admin who rents can be removed.

Streams

* cast.ts:99: a new access row starts with the flag off although the ingress it reuses may
  be streaming; docs/database-schemas.md:138 says the flag tracks the stream. In the other
  direction, a started event that comes after the ended one of its stream leaves the flag on
  until the four-hour job.
* A reset writes no `room_id`, so its key is refused by every way in (cast.ts:105 writes it
  "for full compatibility"). The add handler gives out any active row, that of another
  deployment or an expired one included.
* streaming-key-ttl-checker.ts:52 revokes by place, a newer access included.
* A removal and a link meet: the link takes the ingress the removal is about to delete. A
  scene deployed again leaves the ingress of its former room behind.

Players

* Two moderators who ban one player at a time both pass the check: two active rows.
* A token request records its device and looks up the bans at the same time
  (comms-scene-handler.ts:48): a ban written in between covers the device recorded before.
* The ban check of voice chats and cast is absent: their tokens do not look at platform bans.
* A player who was swept out may enter again with a token signed before the ban, for five
  minutes (docs/ai-agent-context.md:8 says such a player cannot).

## Not modelled

* Community speaker operations: participant metadata is read, merged and replaced without a
  lock (livekit.ts:430), and nothing in the repository says what two concurrent operations
  should leave behind.
* Of the places checker: that it looks only at places that have an admin, and removes the
  admins. Of cast: the preview path, and the presenter entry a streamer gets. Of user
  moderation: warnings and published events.
* Resets of the cache by its size, HTTP caches in front of the land permissions, the scene
  participants' listing, clients of other services beyond what they answer, analytics,
  logging, parsing of requests and the wiring of components: they keep no state the
  properties tell apart.
* A joined event without a session id (voice.ts:103; LiveKit "normally always sends it").
  The row would be connected with no sid, where only the weaker time guard is left:
  `RowsConsistent`, `ConnectedRowsHaveSessions` and the session guard rest on its absence.
* In the refresh, a look-up of the leases that fails (it is swallowed, and the lessees are
  missing from the list until the next refresh, component.ts:38): `MetadataConverges` is
  checked for a scene without lessees. And that a presenter needs an active stream
  access (cast.ts:450): presenters are added here with no such guard, which adds behaviours
  and takes none away.
* Of the permissions: places without positions, and land the permissions service does not
  know (an error instead of an answer).
* Statements of one SQL query are atomic; connection pools and the database's own failures
  appear as a failed handler. Names of rooms, addresses and metadata are model values. The
  job of expired keys is taken not to overlap itself.

## Plan

1. An abstract specification of a community room (open, moderated, over) that
   `CommunityVoice` implements.
2. `SpeakerMetadata`: participant metadata and its lost updates.
3. The rest of cast and of the places checker.
