--------------------------- MODULE CommunityVoice ---------------------------
(***************************************************************************)
(* Community voice chats of comms-gatekeeper: the rows of                  *)
(* community_voice_chat_users, the LiveKit rooms they describe, and the    *)
(* asynchronous handlers that keep one in step with the other.             *)
(*                                                                         *)
(* Everything the service learns about a room comes from webhooks, so the  *)
(* table lags behind LiveKit.  One step of this module is what one handler *)
(* does between two awaits: a single SQL statement, one LiveKit call, or   *)
(* one publication, with the synchronous code around it.  What a handler   *)
(* keeps in its local variables across an await is in its record in        *)
(* `leaves', `teardowns' or `cron'.                                        *)
(*                                                                         *)
(* LiveKit itself (sessions, webhooks, tokens) is external: it is modelled *)
(* from how src/src uses it.                                               *)
(***************************************************************************)
EXTENDS Integers, FiniteSets

CONSTANTS
    Rooms,            \* community voice chat rooms
    Moderators,       \* users who may ask for credentials as owner/moderator
    Listeners,        \* users who may ask for credentials as anything else
    InterruptedTTL,   \* VOICE_CHAT_CONNECTION_INTERRUPTED_TTL, in ticks
    InitialTTL,       \* VOICE_CHAT_INITIAL_CONNECTION_TTL
    NoModeratorTTL,   \* COMMUNITY_VOICE_CHAT_NO_MODERATOR_TTL
    TokenTTL,         \* lifetime of a LiveKit access token
    Skew,             \* STALE_LEAVE_SKEW_MS
    Precision,        \* ticks in the unit of LiveKit's event times (a second)
    BatchSize,        \* VOICE_CHAT_EXPIRED_BATCH_SIZE
    Ordered,          \* TRUE: the webhooks of one participant arrive in order
    KeepsRetrying,    \* TRUE: LiveKit never gives up an event that was not answered
    JobTimes,         \* times at which the expiration job may start
    ActiveUntil,      \* bound: users act only until this time
    MaxTime,          \* bound: the clock stops here
    MaxSessions,      \* bound: LiveKit sessions per user and room
    MaxEnds,          \* bound: calls of the end endpoint
    MaxFaults         \* bound: failed calls, restarts, repeated deliveries

ASSUME ConstantsAssumption ==
    /\ IsFiniteSet(Moderators) /\ IsFiniteSet(Listeners) /\ IsFiniteSet(Rooms)
    /\ {InterruptedTTL, InitialTTL, NoModeratorTTL, TokenTTL, Skew} \subseteq Nat
    /\ {ActiveUntil, MaxTime, MaxSessions, MaxEnds, MaxFaults} \subseteq Nat
    /\ Precision \in Nat \ {0} /\ BatchSize \in Nat \ {0}
    /\ Ordered \in BOOLEAN /\ KeepsRetrying \in BOOLEAN /\ JobTimes \subseteq Nat

Users == Moderators \cup Listeners

\* A community_voice_chat_users row; a user without one has AbsentRow.
Statuses == {"connected", "connection_interrupted", "disconnected", "not_connected"}
NoSid == 0      \* SQL NULL
Row == [isModerator : BOOLEAN, status : Statuses \cup {"absent"},
        joinedAt : Nat, statusUpdatedAt : Nat, sid : Nat]
AbsentRow == [isModerator |-> FALSE, status |-> "absent",
              joinedAt |-> 0, statusUpdatedAt |-> 0, sid |-> NoSid]

\* What LiveKit reports.  "interrupted" stands for every disconnect reason the
\* code does not name.  The end endpoint's call has the same shape.
Reasons == {"CLIENT_INITIATED", "DUPLICATE_IDENTITY", "ROOM_DELETED", "interrupted"}
Event == [kind : {"joined", "left", "end"}, user : Users, room : Rooms,
          reason : Reasons \cup {"none"}, sid : Nat, at : Nat]

VARIABLES
    now,        \* Date.now(), in ticks; starts at 1 so that 0 is "never"
    rows,       \* rows[r][u]: the row with primary key <<u, r>>
    live,       \* live[r][u]: sid of u's session in LiveKit room r, or NoSid
    opened,     \* opened[r][u]: number of sessions u has opened in r
    granted,    \* granted[r][u]: time of u's last access token for r, 0 if none
    webhooks,   \* events LiveKit has yet to deliver
    leaves,     \* handlers of a CLIENT_INITIATED leave past their first read
    teardowns,  \* handlers that have counted a room and are removing it
    cron,       \* the community expiration job
    ends,       \* calls of the end endpoint so far
    faults      \* faults so far

vars == <<now, rows, live, opened, granted, webhooks, leaves, teardowns, cron, ends, faults>>
livekitVars == <<live, opened, granted>>
handlerVars == <<leaves, teardowns, cron, ends>>

Leave == [ev : Event, snap : [Users -> Row], pc : {"write", "decide"}]
Teardown == [ev : Event, count : Nat, todo : SUBSET {"livekit", "db"}]
Cron == [pc : {"idle", "count", "delete", "sweep"}, active : SUBSET Rooms,
         counts : [Rooms -> Nat], expired : SUBSET Rooms, closing : SUBSET Rooms]
IdleCron == [pc |-> "idle", active |-> {},
             counts |-> [r \in Rooms |-> 0], expired |-> {}, closing |-> {}]

Init ==
    /\ now = 1
    /\ rows = [r \in Rooms |-> [u \in Users |-> AbsentRow]]
    /\ live = [r \in Rooms |-> [u \in Users |-> NoSid]]
    /\ opened = [r \in Rooms |-> [u \in Users |-> 0]]
    /\ granted = [r \in Rooms |-> [u \in Users |-> 0]]
    /\ webhooks = {} /\ leaves = {} /\ teardowns = {}
    /\ cron = IdleCron
    /\ ends = 0 /\ faults = 0

-----------------------------------------------------------------------------
(* Statements of voice-db.ts on community_voice_chat_users                 *)

Present(row) == row.status # "absent"
UsersIn(r) == {u \in Users : Present(rows[r][u])}
getCommunityVoiceChatParticipantCount(r) == Cardinality(UsersIn(r))

\* Variants: the status is dated at its deadline; the old session id survives a
\* rejoin; a rejoin does not touch status_updated_at.
joinBackdated(row, asModerator) ==
    [isModerator |-> asModerator, status |-> "not_connected",
     joinedAt |-> now, statusUpdatedAt |-> now - InitialTTL, sid |-> NoSid]
joinKeepsSid(row, asModerator) ==
    [isModerator |-> asModerator, status |-> "not_connected",
     joinedAt |-> IF Present(row) THEN row.joinedAt ELSE now,
     statusUpdatedAt |-> now, sid |-> row.sid]
joinKeepsStatusTime(row, asModerator) ==
    [isModerator |-> asModerator, status |-> "not_connected",
     joinedAt |-> IF Present(row) THEN row.joinedAt ELSE now,
     statusUpdatedAt |-> IF Present(row) THEN row.statusUpdatedAt ELSE now, sid |-> NoSid]

\* INSERT ... ON CONFLICT DO UPDATE, with the set list of the statement.
joinUserToCommunityRoom(row, asModerator) ==
    [isModerator |-> asModerator, status |-> "not_connected",
     joinedAt |-> IF Present(row) THEN row.joinedAt ELSE now,
     statusUpdatedAt |-> now, sid |-> NoSid]

\* UPDATE ... WHERE address AND room_name: no row, no effect.
updateCommunityUserStatus(row, status) ==
    IF Present(row) THEN [row EXCEPT !.status = status, !.statusUpdatedAt = now] ELSE row
\* Variant: the first session id stays.
updateCommunityUserStatusAndFirstSid(row, status, sid) ==
    IF Present(row)
      THEN [row EXCEPT !.status = status, !.statusUpdatedAt = now,
                       !.sid = IF @ = NoSid THEN sid ELSE @]
      ELSE row
updateCommunityUserStatusAndSid(row, status, sid) ==
    IF Present(row)
      THEN [row EXCEPT !.status = status, !.statusUpdatedAt = now, !.sid = sid]
      ELSE row

EmptyRoom == [u \in Users |-> AbsentRow]

\* Variant: the grace periods include their last instant.
isActiveInclusive(row, t) ==
    \/ row.status = "connected"
    \/ row.status = "connection_interrupted" /\ row.statusUpdatedAt + InterruptedTTL >= t
    \/ row.status = "not_connected" /\ row.joinedAt + InitialTTL >= t

\* The in-process test ...
isActiveCommunityUser(row, t) ==
    \/ row.status = "connected"
    \/ row.status = "connection_interrupted" /\ row.statusUpdatedAt + InterruptedTTL > t
    \/ row.status = "not_connected" /\ row.joinedAt + InitialTTL > t

\* ... and its SQL twin, a chain of ORs that some queries do not parenthesise.
InterruptedRecently(row, t) ==
    row.status = "connection_interrupted" /\ row.statusUpdatedAt > t - InterruptedTTL
PendingRecently(row, t) ==
    row.status = "not_connected" /\ row.joinedAt > t - InitialTTL
IsConnectedQuery(row, t) ==
    \/ row.status = "connected"
    \/ InterruptedRecently(row, t)
    \/ PendingRecently(row, t)

ModeratorsIn(r) == {u \in UsersIn(r) : rows[r][u].isModerator}
SqlActiveModerators(r, t) == {u \in ModeratorsIn(r) : IsConnectedQuery(rows[r][u], t)}

\* Variants: a room without moderators is not expired; activity is not looked at.
RoomExpiredWithModerators(r, t) ==
    /\ ModeratorsIn(r) # {} /\ SqlActiveModerators(r, t) = {}
    /\ \A u \in ModeratorsIn(r) : rows[r][u].statusUpdatedAt <= t - NoModeratorTTL
RoomExpiredByAge(r, t) ==
    /\ UsersIn(r) # {}
    /\ \A u \in ModeratorsIn(r) : rows[r][u].statusUpdatedAt <= t - NoModeratorTTL

\* The CTE expired_rooms.  MAX over the moderators' status_updated_at is at
\* most x exactly when each of them is.
RoomExpired(r, t) ==
    /\ UsersIn(r) # {}
    /\ \/ ModeratorsIn(r) = {}
       \/ /\ SqlActiveModerators(r, t) = {}
          /\ \A u \in ModeratorsIn(r) : rows[r][u].statusUpdatedAt <= t - NoModeratorTTL

-----------------------------------------------------------------------------
(* Read-only endpoints                                                     *)

\* isCommunityRoomActive / getCommunityVoiceChatStatus, which filter in process;
\* the two reads of the latter are taken at one instant.
CommunityVoiceChatStatus(r, t) ==
    LET mods == {u \in ModeratorsIn(r) : isActiveCommunityUser(rows[r][u], t)}
        all  == {u \in UsersIn(r) : isActiveCommunityUser(rows[r][u], t)}
    IN  IF mods = {}
          THEN [active |-> FALSE, participants |-> 0, moderators |-> 0]
          ELSE [active |-> TRUE, participants |-> Cardinality(all),
                moderators |-> Cardinality(mods)]

BulkStatus(r, t) ==
    [active |-> SqlActiveModerators(r, t) # {},
     participants |-> Cardinality({u \in UsersIn(r) : IsConnectedQuery(rows[r][u], t)}),
     moderators |-> Cardinality(SqlActiveModerators(r, t))]

\* HAVING COUNT(CASE WHEN is_moderator = true AND <chain of ORs>): AND binds
\* tighter than OR, so is_moderator qualifies only the first disjunct.
getAllActiveCommunityVoiceChats(t) ==
    {r \in Rooms : \E u \in UsersIn(r) :
        \/ rows[r][u].isModerator /\ rows[r][u].status = "connected"
        \/ InterruptedRecently(rows[r][u], t)
        \/ PendingRecently(rows[r][u], t)}

-----------------------------------------------------------------------------
(* LiveKit and its clients (external)                                      *)

EventOf(kind, u, r, reason, sid, at) ==
    [kind |-> kind, user |-> u, room |-> r, reason |-> reason, sid |-> sid, at |-> at]
\* The time of a leave is read only where the client left by itself.
LeftEvent(u, r, reason) ==
    EventOf("left", u, r, reason, live[r][u], IF reason = "CLIENT_INITIATED" THEN now ELSE 0)

UserActs == now <= ActiveUntil
Spend == faults < MaxFaults /\ faults' = faults + 1

TokenValid(u, r) == granted[r][u] > 0 /\ granted[r][u] + TokenTTL > now

\* Connecting with a valid token opens a session; LiveKit creates the room when
\* it does not exist and drops an earlier session of the same identity.
ClientConnects(u, r) ==
    /\ UserActs /\ TokenValid(u, r)
    /\ opened[r][u] < MaxSessions
    /\ opened' = [opened EXCEPT ![r][u] = @ + 1]
    /\ live' = [live EXCEPT ![r][u] = opened[r][u] + 1]
    /\ webhooks' = webhooks
         \cup {EventOf("joined", u, r, "none", opened[r][u] + 1, 0)}
         \cup IF live[r][u] = NoSid THEN {} ELSE {LeftEvent(u, r, "DUPLICATE_IDENTITY")}
    /\ UNCHANGED <<now, rows, granted, handlerVars, faults>>

LosesSession(u, r, reason) ==
    /\ UserActs /\ live[r][u] # NoSid
    /\ live' = [live EXCEPT ![r][u] = NoSid]
    /\ webhooks' = webhooks \cup {LeftEvent(u, r, reason)}
    /\ UNCHANGED <<now, rows, opened, granted, handlerVars, faults>>

ClientLeaves(u, r) == LosesSession(u, r, "CLIENT_INITIATED")
ConnectionDrops(u, r) == LosesSession(u, r, "interrupted")

\* livekit.deleteRoom ends every session of the room; the adapter swallows a
\* failure, and the caller goes on.
deleteRoom(r) ==
    \/ /\ live' = [live EXCEPT ![r] = [u \in Users |-> NoSid]]
       /\ webhooks' = webhooks
            \cup {LeftEvent(u, r, "ROOM_DELETED") : u \in {v \in Users : live[r][v] # NoSid}}
       /\ UNCHANGED faults
    \/ Spend /\ UNCHANGED <<live, webhooks>>

\* kickPlayerFromCommunity only removes the participant: LiveKit reports the
\* removal as a leave whose reason the code does not name.
kickPlayerFromCommunity(u, r) == LosesSession(u, r, "interrupted")

-----------------------------------------------------------------------------
(* POST /community-voice-chat                                              *)

\* The token is signed locally; the row is written before it is returned.
getCommunityVoiceChatCredentials(u, r, asModerator) ==
    /\ UserActs
    /\ asModerator => u \in Moderators
    /\ ~asModerator => u \in Listeners
    /\ rows' = [rows EXCEPT ![r][u] = joinUserToCommunityRoom(@, asModerator)]
    /\ granted' = [granted EXCEPT ![r][u] = now]
    /\ UNCHANGED <<now, live, opened, webhooks, handlerVars, faults>>

-----------------------------------------------------------------------------
(* Webhook handlers: the first step of each consumes the event             *)

Precedes(d, e) ==
    /\ d.user = e.user /\ d.room = e.room
    /\ \/ d.sid < e.sid
       \/ d.sid = e.sid /\ d.kind = "joined" /\ e.kind = "left"

InHandling == {l.ev : l \in leaves} \cup {d.ev : d \in teardowns}

\* LiveKit delivers again what was not answered: the answer may be lost.
Deliver(e) ==
    /\ e \in webhooks \ InHandling
    /\ Ordered => \A d \in webhooks : ~Precedes(d, e)
    /\ \/ webhooks' = webhooks \ {e} /\ UNCHANGED faults
       \/ Spend /\ UNCHANGED webhooks
    /\ UNCHANGED <<now, livekitVars, cron, ends>>

handleCommunityParticipantJoined(e) ==
    /\ e.kind = "joined" /\ Deliver(e)
    /\ rows' = [rows EXCEPT ![e.room][e.user] =
                  updateCommunityUserStatusAndSid(@, "connected", e.sid)]
    /\ UNCHANGED <<leaves, teardowns>>

LeftBecause(e, reason) == e.kind = "left" /\ e.reason = reason /\ Deliver(e)

LeftDuplicateIdentity(e) ==
    /\ LeftBecause(e, "DUPLICATE_IDENTITY")
    /\ UNCHANGED <<rows, leaves, teardowns>>

LeftInterrupted(e) ==
    /\ LeftBecause(e, "interrupted")
    /\ rows' = [rows EXCEPT ![e.room][e.user] =
                  updateCommunityUserStatus(@, "connection_interrupted")]
    /\ UNCHANGED <<leaves, teardowns>>

\* Handlers that remove a room count its rows first.
StartTeardown(e, todo) ==
    teardowns' = teardowns \cup
        {[ev |-> e, count |-> getCommunityVoiceChatParticipantCount(e.room),
          todo |-> todo]}

LeftRoomDeleted(e) ==
    /\ LeftBecause(e, "ROOM_DELETED")
    /\ StartTeardown(e, {"db"})
    /\ UNCHANGED <<rows, leaves>>

\* createdAt has second precision: the handler sees the leave early, never late.
leaveEventTime(e) == (e.at \div Precision) * Precision

\* Variants: no session guard; no tolerance for the precision of the event
\* time; the sessions compared the wrong way round.
isStaleByTimeOnly(row, e) ==
    /\ Present(row)
    /\ row.sid = NoSid /\ row.statusUpdatedAt > leaveEventTime(e) + Skew
isStaleWithoutTolerance(row, e) ==
    /\ Present(row)
    /\ \/ row.sid # NoSid /\ row.sid # e.sid
       \/ row.sid = NoSid /\ row.statusUpdatedAt > leaveEventTime(e)
isStaleInverted(row, e) ==
    /\ Present(row)
    /\ \/ row.sid # NoSid /\ row.sid = e.sid
       \/ row.sid = NoSid /\ row.statusUpdatedAt > leaveEventTime(e) + Skew

\* The two stale-event guards of the handler.
isStaleLeave(row, e) ==
    /\ Present(row)
    /\ \/ row.sid # NoSid /\ row.sid # e.sid
       \/ row.sid = NoSid /\ row.statusUpdatedAt > leaveEventTime(e) + Skew

\* getCommunityUsersInRoom, the guards, and the decision to go on.
LeftClientInitiated(e) ==
    /\ LeftBecause(e, "CLIENT_INITIATED")
    /\ leaves' = IF isStaleLeave(rows[e.room][e.user], e) THEN leaves
                 ELSE leaves \cup {[ev |-> e, snap |-> rows[e.room], pc |-> "write"]}
    /\ UNCHANGED <<rows, teardowns>>

\* After its first await the handler looks only at the snapshot.
WriteDisconnected(l) ==
    /\ l \in leaves /\ l.pc = "write"
    /\ rows' = [rows EXCEPT ![l.ev.room][l.ev.user] =
                  updateCommunityUserStatus(@, "disconnected")]
    /\ leaves' = (leaves \ {l}) \cup
         IF l.snap[l.ev.user].isModerator THEN {[l EXCEPT !.pc = "decide"]} ELSE {}
    /\ UNCHANGED <<now, livekitVars, webhooks, teardowns, cron, ends, faults>>

\* Variant: only connected moderators count as remaining.
remainingConnectedModerators(l) ==
    {u \in Users \ {l.ev.user} : l.snap[u].isModerator /\ l.snap[u].status = "connected"}

remainingActiveModerators(l) ==
    {u \in Users \ {l.ev.user} :
        l.snap[u].isModerator /\ isActiveCommunityUser(l.snap[u], now)}

DecideTeardown(l) ==
    /\ l \in leaves /\ l.pc = "decide"
    /\ leaves' = leaves \ {l}
    /\ IF remainingActiveModerators(l) = {}
         THEN StartTeardown(l.ev, {"livekit", "db"})
         ELSE UNCHANGED teardowns
    /\ UNCHANGED <<now, rows, livekitVars, webhooks, cron, ends, faults>>

-----------------------------------------------------------------------------
(* Removing a room: the end endpoint, and the tail of the leave handlers   *)

endCommunityVoiceChat(u, r) ==
    /\ UserActs /\ ends < MaxEnds
    /\ ends' = ends + 1
    /\ StartTeardown(EventOf("end", u, r, "none", NoSid, ends), {"livekit", "db"})
    /\ UNCHANGED <<now, rows, livekitVars, webhooks, leaves, cron, faults>>

TeardownLivekit(d) ==
    /\ d \in teardowns /\ "livekit" \in d.todo
    /\ deleteRoom(d.ev.room)
    /\ teardowns' = (teardowns \ {d}) \cup {[d EXCEPT !.todo = @ \ {"livekit"}]}
    /\ UNCHANGED <<now, rows, opened, granted, leaves, cron, ends>>

\* The end endpoint waits for LiveKit before it deletes the rows; the leave
\* handler runs the two under Promise.all.
TeardownRows(d) ==
    /\ d \in teardowns /\ "db" \in d.todo
    /\ d.ev.kind = "end" => "livekit" \notin d.todo
    /\ rows' = [rows EXCEPT ![d.ev.room] = EmptyRoom]
    /\ teardowns' = (teardowns \ {d}) \cup
         {[d EXCEPT !.todo = @ \ {"db"}]}
    /\ UNCHANGED <<now, livekitVars, webhooks, leaves, cron, ends, faults>>

publishCommunityStreamingEndedEvent(count) == count # 0

\* The handler's last step, with the event published or skipped.
TeardownPublish(d, published) ==
    /\ d \in teardowns /\ d.todo = {}
    /\ published = publishCommunityStreamingEndedEvent(d.count)
    /\ teardowns' = teardowns \ {d}
    /\ UNCHANGED <<now, rows, livekitVars, webhooks, leaves, cron, ends, faults>>

-----------------------------------------------------------------------------
(* expireCommunityVoiceChats: every minute, never two runs at a time       *)

CronKeeps == UNCHANGED <<now, leaves, teardowns, ends>>

CronListActive ==
    /\ cron.pc = "idle" /\ now \in JobTimes
    /\ cron' = [cron EXCEPT !.pc = "count", !.active = getAllActiveCommunityVoiceChats(now)]
    /\ UNCHANGED <<rows, livekitVars, webhooks, faults>> /\ CronKeeps

CronCount ==
    /\ cron.pc = "count"
    /\ cron' = [cron EXCEPT !.pc = "delete", !.active = {},
         !.counts = [r \in Rooms |-> IF r \in cron.active
                       THEN getCommunityVoiceChatParticipantCount(r) ELSE 0]]
    /\ UNCHANGED <<rows, livekitVars, webhooks, faults>> /\ CronKeeps

\* A batch of the expired rooms, in no particular order.
ExpiredBatch(t) ==
    LET all == {r \in Rooms : RoomExpired(r, t)}
    IN  {b \in SUBSET all : \/ b = all /\ Cardinality(all) <= BatchSize
                            \/ Cardinality(b) = BatchSize}

CronDeleteRows ==
    /\ cron.pc = "delete"
    /\ \E batch \in ExpiredBatch(now) :
         /\ rows' = [r \in Rooms |-> IF r \in batch THEN EmptyRoom ELSE rows[r]]
         /\ cron' = IF batch = {} THEN IdleCron ELSE
              [cron EXCEPT !.pc = "sweep", !.expired = batch]
    /\ UNCHANGED <<livekitVars, webhooks, faults>> /\ CronKeeps

CronCloseRoom(r) ==
    /\ cron.pc = "sweep" /\ cron.closing = {} /\ r \in cron.expired
    /\ deleteRoom(r)
    /\ cron' = [cron EXCEPT !.expired = @ \ {r}, !.closing = {r}]
    /\ UNCHANGED <<rows, opened, granted>> /\ CronKeeps

CronPublish(r, published) ==
    /\ cron.pc = "sweep" /\ r \in cron.closing
    /\ published = publishCommunityStreamingEndedEvent(cron.counts[r])
    /\ cron' = IF cron.expired = {} THEN IdleCron ELSE [cron EXCEPT !.closing = {}]
    /\ UNCHANGED <<rows, livekitVars, webhooks, faults>> /\ CronKeeps

-----------------------------------------------------------------------------
(* Faults, time and the specification                                      *)

\* The events of lost handlers are delivered again, or given up.
Redelivered(lost) ==
    LET events == {e \in lost : e.kind = "left"}
    IN  IF KeepsRetrying THEN {events} ELSE SUBSET events

\* A statement throws: the webhook is answered with 400, the call with an error.
\* LiveKit calls and publications do not throw.
HandlerFails ==
    /\ Spend
    /\ \E e \in InHandling : \E again \in Redelivered({e}) :
         /\ \A d \in teardowns : d.ev = e => d.todo = {"db"}
         /\ webhooks' = webhooks \cup again
         /\ leaves' = {l \in leaves : l.ev # e}
         /\ teardowns' = {d \in teardowns : d.ev # e}
    /\ UNCHANGED <<now, rows, livekitVars, cron, ends>>

\* A statement of the job throws; onTick catches it and the next run starts over.
CronFails ==
    /\ Spend /\ cron.pc \in {"count", "delete"}
    /\ cron' = IdleCron
    /\ UNCHANGED <<rows, livekitVars, webhooks>> /\ CronKeeps

Restart ==
    /\ Spend
    /\ \E again \in Redelivered(InHandling) : webhooks' = webhooks \cup again
    /\ leaves' = {} /\ teardowns' = {} /\ cron' = IdleCron
    /\ UNCHANGED <<now, rows, livekitVars, ends>>

\* Past ActiveUntil the clock waits for what is in flight, so that every TTL
\* can elapse before MaxTime.
Tick ==
    /\ now < MaxTime
    /\ now >= ActiveUntil => webhooks = {} /\ InHandling = {}
    /\ now' = now + 1
    /\ UNCHANGED <<rows, livekitVars, webhooks, handlerVars, faults>>

ClientStep == \E r \in Rooms : \E u \in Users :
    \/ ClientConnects(u, r)
    \/ ClientLeaves(u, r)
    \/ ConnectionDrops(u, r)

RequestStep == \E r \in Rooms : \E u \in Users :
    \/ \E asModerator \in BOOLEAN : getCommunityVoiceChatCredentials(u, r, asModerator)
    \/ kickPlayerFromCommunity(u, r)
    \/ endCommunityVoiceChat(u, r)

WebhookStep == \E e \in webhooks :
    \/ handleCommunityParticipantJoined(e)
    \/ LeftDuplicateIdentity(e)
    \/ LeftInterrupted(e)
    \/ LeftRoomDeleted(e)
    \/ LeftClientInitiated(e)

HandlerStep ==
    \/ \E l \in leaves : WriteDisconnected(l) \/ DecideTeardown(l)
    \/ \E d \in teardowns :
         \/ TeardownLivekit(d)
         \/ TeardownRows(d)
         \/ \E published \in BOOLEAN : TeardownPublish(d, published)

CronJob ==
    \/ CronListActive
    \/ CronCount
    \/ CronDeleteRows
    \/ \E r \in Rooms :
         \/ CronCloseRoom(r)
         \/ \E published \in BOOLEAN : CronPublish(r, published)

Fault == HandlerFails \/ CronFails \/ Restart

Next == ClientStep \/ RequestStep \/ WebhookStep \/ HandlerStep \/ CronJob \/ Fault \/ Tick

Spec == Init /\ [][Next]_vars
-----------------------------------------------------------------------------
(* Properties                                                              *)

\* Every variable stays within its type: the table holds rows, webhook and handler
\* records are well formed, and no clock reading stored in a row is negative.
TypeOK ==
    /\ now \in Nat
    /\ rows \in [Rooms -> [Users -> Row]]
    /\ live \in [Rooms -> [Users -> Nat]]
    /\ opened \in [Rooms -> [Users -> Nat]]
    /\ granted \in [Rooms -> [Users -> Nat]]
    /\ webhooks \subseteq Event
    /\ leaves \subseteq Leave
    /\ teardowns \subseteq Teardown
    /\ cron \in Cron
    /\ ends \in Nat /\ faults \in Nat

\* The session recorded in a row is one the user really opened, a connected row
\* always has one and a pending row never does, and a row was inserted before its
\* status last changed.  The session guard of the leave handler rests on it: were a
\* sid left over from before a rejoin, a stale leave would match it.
RowsConsistent ==
    \A r \in Rooms : \A u \in Users :
        LET row == rows[r][u] IN
        /\ row.status = "connected" => row.sid # NoSid
        /\ row.status \in {"not_connected", "absent"} => row.sid = NoSid
        /\ row.sid <= opened[r][u]
        /\ row.joinedAt <= row.statusUpdatedAt /\ row.statusUpdatedAt <= now

\* The in-process computation behind the single-room status endpoint and the SQL
\* behind the bulk one give the same answer for an active room, and an active room
\* is in the list of all active ones.
StatusQueriesAgree ==
    \A r \in Rooms :
        LET single == CommunityVoiceChatStatus(r, now)
        IN  /\ single.active = BulkStatus(r, now).active
            /\ single.active => /\ single = BulkStatus(r, now)
                                /\ r \in getAllActiveCommunityVoiceChats(now)

\* A leave only disconnects the session it is about: when a handler writes
\* "disconnected" over a row that nobody changed since the handler read it, the row
\* tracks that very session, or tracks none and was not renewed well after the
\* client really left (not after the rounded time LiveKit reports).
StaleLeaveDisconnectsNobody ==
    [][\A l \in leaves :
         LET row == rows[l.ev.room][l.ev.user] IN
         WriteDisconnected(l) /\ Present(row) /\ row = l.snap[l.ev.user]
           => \/ row.sid = l.ev.sid
              \/ row.sid = NoSid /\ row.statusUpdatedAt <= l.ev.at + Skew]_vars

\* LiveKit's news of a session of the same user after the event's has been dealt with.
LaterSessionKnown(e) ==
    \E s \in (e.sid + 1) .. opened[e.room][e.user] :
        ~\E d \in webhooks :
            d.kind = "joined" /\ d.room = e.room /\ d.user = e.user /\ d.sid = s

\* With a participant's webhooks in order, the guards drop a voluntary leave only
\* if the user came back (new credentials after the leave, or a newer session the
\* service has heard of, tracked by the row or not) or the row says disconnected
\* already.  A leave whose handler failed comes again, out of order with what was
\* delivered meanwhile.
\* The tolerance must cover the precision of LiveKit's event time.
GenuineLeaveIsProcessed ==
    [][\A e \in webhooks :
         LET row == rows[e.room][e.user] IN
         LeftClientInitiated(e) /\ leaves' = leaves /\ Present(row)
           => \/ granted[e.room][e.user] > e.at
              \/ row.sid > e.sid \/ LaterSessionKnown(e)
              \/ row.status = "disconnected"]_vars

\* With webhooks in order, a connected row describes a session LiveKit still has,
\* unless the news of its end is on its way.  Otherwise the row would stay
\* connected, and the room open, for ever.
ConnectedRowsHaveSessions ==
    \A r \in Rooms : \A u \in Users :
        rows[r][u].status = "connected" /\ live[r][u] = NoSid
          => \E e \in webhooks \cup InHandling :
                e.kind = "left" /\ e.room = r
                /\ (e.user = u \/ e.reason = "ROOM_DELETED")

\* The end of the session a row tracks, and what may still correct the row: the news of
\* that end, waiting or being handled, or the news of another session.
EndsTracked(e, u, r) ==
    e.kind = "left" /\ e.user = u /\ e.room = r /\ e.sid = rows[r][u].sid
Correctable(u, r) ==
    \/ \E e \in webhooks : EndsTracked(e, u, r)
    \/ \E e \in webhooks : e.kind = "joined" /\ e.user = u /\ e.room = r
    \/ \E l \in leaves : EndsTracked(l.ev, u, r) /\ l.pc = "write"
    \/ \E d \in teardowns : EndsTracked(d.ev, u, r) /\ "db" \in d.todo

\* A row that says connected because of a session LiveKit no longer has.
Stranded(u, r) ==
    /\ rows[r][u].status = "connected" /\ live[r][u] # rows[r][u].sid
    /\ ~Correctable(u, r)

\* An event delivered out of its turn: a "joined" after its session was over, or the end
\* of a replaced session after the news of the one that replaced it.
OutOfTurn(u, r) ==
    \E e \in webhooks :
       /\ e.user = u /\ e.room = r
       /\ \/ handleCommunityParticipantJoined(e) /\ e.sid # live[r][u]
          \/ LeftDuplicateIdentity(e) /\ LaterSessionKnown(e)

\* In whatever order webhooks arrive, and as long as LiveKit repeats those that were not
\* answered, a row is stranded only by an event delivered out of its turn.  No request,
\* guard, failure, restart, removal or expiration does it.
OnlyDisorderStrandsRows ==
    [][KeepsRetrying => \A r \in Rooms : \A u \in Users :
         ~Stranded(u, r) /\ Stranded(u, r)' => OutOfTurn(u, r)]_vars

\* A moderator who leaves takes the room down only if no other moderator was
\* active: one whose row has not changed since the handler read it, and who is
\* active by the SQL test at the moment of the decision, keeps the room.
LeavingModeratorSparesOthers ==
    [][\A l \in leaves :
         DecideTeardown(l) /\ teardowns' # teardowns
           => \A u \in SqlActiveModerators(l.ev.room, now) \ {l.ev.user} :
                rows[l.ev.room][u] # l.snap[u]]_vars

RemovedByJob(r) == CronDeleteRows /\ UsersIn(r) # {} /\ rows'[r] = EmptyRoom

\* The expiration job never removes a room that the status endpoint would report
\* active at that moment: the SQL of the one agrees with the code of the other.
JobSparesActiveRooms ==
    [][\A r \in Rooms : RemovedByJob(r) => ~CommunityVoiceChatStatus(r, now).active]_vars

\* The job never removes a room from under a moderator who asked for credentials
\* within the TTL, although a rejoin leaves joined_at in the past.
JobSparesReturningModerators ==
    [][\A r \in Rooms : RemovedByJob(r) =>
         \A u \in ModeratorsIn(r) : granted[r][u] + NoModeratorTTL <= now]_vars

-----------------------------------------------------------------------------
(* Liveness                                                                *)

\* LiveKit retries webhooks, the runtime resumes handlers, the job runs every
\* minute and time passes.  Nothing obliges a user to act or a call to fail.
FairSpec ==
    Spec /\ WF_vars(WebhookStep) /\ WF_vars(HandlerStep) /\ WF_vars(CronJob) /\ WF_vars(Tick)

\* A room no moderator is in does not stay in the table: once users stop, its rows
\* go, or a moderator among them has a session.
RoomsWithoutModeratorsEnd ==
    \A r \in Rooms :
        <>[](UsersIn(r) = {} \/ \E u \in ModeratorsIn(r) : live[r][u] # NoSid)

-----------------------------------------------------------------------------
(* What comments of the repository say and the code does not do            *)

\* "A community room is active if there are active moderators": only such rooms
\* are listed as active.
ListedRoomsAreActive ==
    \A r \in getAllActiveCommunityVoiceChats(now) : CommunityVoiceChatStatus(r, now).active

\* "Check immediately if there are any other active moderators remaining": no room
\* is torn down while another moderator is connected.
NoTeardownUnderModerator ==
    [][\A l \in leaves : DecideTeardown(l) /\ teardowns' # teardowns =>
         \A u \in ModeratorsIn(l.ev.room) \ {l.ev.user} :
            rows[l.ev.room][u].status # "connected"]_vars
=============================================================================
