---------------------------- MODULE PrivateVoice ----------------------------
(***************************************************************************)
(* Private voice chats of comms-gatekeeper: calls between two users, the   *)
(* rows of voice_chat_users, and the handlers that follow LiveKit.         *)
(*                                                                         *)
(* As in CommunityVoice, one step is what a handler does between two       *)
(* awaits.  A transaction whose statements can be told apart from outside  *)
(* (joinUserToRoom: read committed, no lock taken by its SELECT) has a     *)
(* step for what it reads and one for what it commits.                     *)
(***************************************************************************)
EXTENDS Integers, FiniteSets

CONSTANTS
    Users,            \* users of private voice chats
    Rooms,            \* call rooms; the caller names each call once
    InterruptedTTL,   \* VOICE_CHAT_CONNECTION_INTERRUPTED_TTL, in ticks
    InitialTTL,       \* VOICE_CHAT_INITIAL_CONNECTION_TTL
    TokenTTL,         \* lifetime of a LiveKit access token
    BatchSize,        \* VOICE_CHAT_EXPIRED_BATCH_SIZE
    Ordered,          \* TRUE: the webhooks of one participant arrive in order
    KeepsRetrying,    \* TRUE: LiveKit never gives up an event that was not answered
    JobTimes,         \* times at which the expiration job may start
    ActiveUntil,      \* bound: users act only until this time
    MaxTime,          \* bound: the clock stops here
    MaxSessions,      \* bound: LiveKit sessions, of all users and rooms
    MaxFaults         \* bound: failed calls, restarts, repeated deliveries

ASSUME PrivateAssumption ==
    /\ {InterruptedTTL, InitialTTL, TokenTTL} \subseteq Nat
    /\ {ActiveUntil, MaxTime, MaxSessions, MaxFaults} \subseteq Nat
    /\ BatchSize \in Nat \ {0}
    /\ Ordered \in BOOLEAN /\ KeepsRetrying \in BOOLEAN /\ JobTimes \subseteq Nat

\* A voice_chat_users row; a user without one has AbsentRow.
Statuses == {"connected", "connection_interrupted", "disconnected", "not_connected"}
Row == [status : Statuses \cup {"absent"}, joinedAt : Nat, statusUpdatedAt : Nat]
AbsentRow == [status |-> "absent", joinedAt |-> 0, statusUpdatedAt |-> 0]
EmptyRoom == [u \in Users |-> AbsentRow]

NoSid == 0
Reasons == {"CLIENT_INITIATED", "DUPLICATE_IDENTITY", "ROOM_DELETED", "interrupted"}
\* LiveKit's events, and the calls of the end endpoint.
Event == [kind : {"joined", "left", "end"}, user : Users, room : Rooms,
          reason : Reasons \cup {"none"}, sid : Nat]

VARIABLES
    now,        \* Date.now(), in ticks; starts at 1 so that 0 is "never"
    rows,       \* rows[r][u]: the row with primary key <<u, r>>
    live,       \* live[r][u]: sid of u's session in LiveKit room r, or NoSid
    opened,     \* opened[r][u]: number of sessions u has opened in r
    granted,    \* granted[r][u]: when u got a token for call r, 0 if it never did
    webhooks,   \* events LiveKit has yet to deliver
    joins,      \* handlers of a joined event past their first read
    closings,   \* handlers of a voluntary leave, and of the end endpoint
    cron,       \* the private expiration job
    faults      \* faults so far

vars == <<now, rows, live, opened, granted, webhooks, joins, closings, cron, faults>>
livekitVars == <<live, opened, granted>>

Join == [ev : Event, pc : {"refuse", "select", "write", "leaveOld"}, old : Rooms]
Closing == [ev : Event, pc : {"livekit", "write"}]
Cron == [pc : {"idle", "sweep"}, expired : SUBSET Rooms]
IdleCron == [pc |-> "idle", expired |-> {}]

Init ==
    /\ now = 1
    /\ rows = [r \in Rooms |-> EmptyRoom]
    /\ live = [r \in Rooms |-> [u \in Users |-> NoSid]]
    /\ opened = [r \in Rooms |-> [u \in Users |-> 0]]
    /\ granted = [r \in Rooms |-> [u \in Users |-> 0]]
    /\ webhooks = {} /\ joins = {} /\ closings = {}
    /\ cron = IdleCron /\ faults = 0

-----------------------------------------------------------------------------
(* Statements of voice-db.ts on voice_chat_users                           *)

Present(row) == row.status # "absent"
UsersIn(r) == {u \in Users : Present(rows[r][u])}

\* Variant: an interruption is stored under the name LiveKit's reason has.
updateWithReason(row, status) ==
    IF ~Present(row) THEN row
    ELSE [row EXCEPT !.status = IF status = "connection_interrupted" THEN "interrupted" ELSE status,
                     !.statusUpdatedAt = now]

\* _updateUserStatus: UPDATE ... WHERE address AND room_name.
updateUserStatus(row, status) ==
    IF Present(row) THEN [row EXCEPT !.status = status, !.statusUpdatedAt = now] ELSE row

\* Variant: rows of users that are still connected are kept.
deleteUnlessConnected(r) ==
    [u \in Users |-> IF rows[r][u].status = "connected" THEN rows[r][u] ELSE AbsentRow]

\* DELETE ... WHERE room_name.
deletePrivateVoiceChat(r) == EmptyRoom

\* isPrivateRoomActive, on the two users of the room.
TimedOut(row, t) ==
    \/ row.status = "connection_interrupted" /\ row.statusUpdatedAt + InterruptedTTL < t
    \/ row.status = "not_connected" /\ row.joinedAt + InitialTTL < t
isPrivateRoomActive(r, t) ==
    /\ Cardinality(UsersIn(r)) >= 2
    /\ \A u \in UsersIn(r) : ~TimedOut(rows[r][u], t) /\ rows[r][u].status # "disconnected"

\* Variant: the last instant of the grace period is outside.
countsAsInShort(row, t) ==
    \/ row.status = "connected"
    \/ row.status = "connection_interrupted" /\ row.statusUpdatedAt > t - InterruptedTTL + 1
    \/ row.status = "not_connected" /\ row.joinedAt > t - InitialTTL + 1

\* The WHERE clause of _getRoomUserIsIn ...
countsAsIn(row, t) ==
    \/ row.status = "connected"
    \/ row.status = "connection_interrupted" /\ row.statusUpdatedAt > t - InterruptedTTL
    \/ row.status = "not_connected" /\ row.joinedAt > t - InitialTTL

\* ... and its ORDER BY: status first, then the latest change.  Any of the first
\* may come out on top.
Rank == [connected |-> 1, connection_interrupted |-> 2, not_connected |-> 3]
getRoomUserIsIn(u, t) ==
    LET in == {r \in Rooms : countsAsIn(rows[r][u], t)}
    IN  {r \in in : \A q \in in :
           \/ Rank[rows[r][u].status] < Rank[rows[q][u].status]
           \/ /\ rows[r][u].status = rows[q][u].status
              /\ rows[r][u].statusUpdatedAt >= rows[q][u].statusUpdatedAt}

\* Variant: interrupted connections do not expire.
ExpiredUnlessInterrupted(row, t) ==
    \/ row.status = "not_connected" /\ row.joinedAt <= t - InitialTTL
    \/ row.status = "disconnected"

\* The WHERE clause of deleteExpiredPrivateVoiceChats.
Expired(row, t) ==
    \/ row.status = "not_connected" /\ row.joinedAt <= t - InitialTTL
    \/ row.status = "connection_interrupted" /\ row.statusUpdatedAt <= t - InterruptedTTL
    \/ row.status = "disconnected"

ExpiredRooms(t) == {r \in Rooms : \E u \in Users : Expired(rows[r][u], t)}
\* should_destroy_room: MAX over the rows that matched.
ShouldDestroyRoom(r, t) ==
    \E u \in Users : Expired(rows[r][u], t) /\ rows[r][u].status # "disconnected"

-----------------------------------------------------------------------------
(* LiveKit and its clients (external)                                      *)

EventOf(kind, u, r, reason, sid) ==
    [kind |-> kind, user |-> u, room |-> r, reason |-> reason, sid |-> sid]
LeftEvent(u, r, reason) == EventOf("left", u, r, reason, live[r][u])

UserActs == now <= ActiveUntil
Spend == faults < MaxFaults /\ faults' = faults + 1

TokenValid(u, r) == granted[r][u] > 0 /\ granted[r][u] + TokenTTL > now

SessionsOpened ==
    Cardinality({s \in Rooms \X Users \X (1 .. MaxSessions) : s[3] <= opened[s[1]][s[2]]})

ClientConnects(u, r) ==
    /\ UserActs /\ TokenValid(u, r)
    /\ SessionsOpened < MaxSessions
    /\ opened' = [opened EXCEPT ![r][u] = @ + 1]
    /\ live' = [live EXCEPT ![r][u] = opened[r][u] + 1]
    /\ webhooks' = webhooks
         \cup {EventOf("joined", u, r, "none", opened[r][u] + 1)}
         \cup IF live[r][u] = NoSid THEN {} ELSE {LeftEvent(u, r, "DUPLICATE_IDENTITY")}
    /\ UNCHANGED <<now, rows, granted, joins, closings, cron, faults>>

LosesSession(u, r, reason) ==
    /\ UserActs /\ live[r][u] # NoSid
    /\ live' = [live EXCEPT ![r][u] = NoSid]
    /\ webhooks' = webhooks \cup {LeftEvent(u, r, reason)}
    /\ UNCHANGED <<now, rows, opened, granted, joins, closings, cron, faults>>

ClientLeaves(u, r) == LosesSession(u, r, "CLIENT_INITIATED")
ConnectionDrops(u, r) == LosesSession(u, r, "interrupted")

\* livekit.deleteRoom ends every session of the room; the adapter swallows a
\* failure, and the caller goes on.
deleteRoom(r) ==
    \/ /\ live' = [live EXCEPT ![r] = [u \in Users |-> NoSid]]
       /\ webhooks' = webhooks
            \cup {LeftEvent(u, r, "ROOM_DELETED") : u \in {v \in Users : live[r][v] # NoSid}}
       /\ UNCHANGED faults
    \/ Spend /\ UNCHANGED <<live, webhooks>>

-----------------------------------------------------------------------------
(* The two endpoints                                                       *)

\* POST /private-voice-chat: two tokens, signed locally, and one INSERT.
getPrivateVoiceChatRoomCredentials(r, callers) ==
    /\ UserActs
    /\ \A u \in Users : granted[r][u] = 0
    /\ rows' = [rows EXCEPT ![r] = [u \in Users |-> IF u \in callers
                  THEN [status |-> "not_connected", joinedAt |-> now, statusUpdatedAt |-> now]
                  ELSE AbsentRow]]
    /\ granted' = [granted EXCEPT ![r] = [u \in Users |-> IF u \in callers THEN now ELSE 0]]
    /\ UNCHANGED <<now, live, opened, webhooks, joins, closings, cron, faults>>

\* DELETE /private-voice-chat/:id, for a user that is or was in the call; the
\* transaction commits before LiveKit is called.
endPrivateVoiceChat(r, u) ==
    /\ UserActs
    /\ Present(rows[r][u])
    /\ rows' = [rows EXCEPT ![r] = deletePrivateVoiceChat(r)]
    /\ closings' = closings \cup {[ev |-> EventOf("end", u, r, "none", NoSid), pc |-> "livekit"]}
    /\ UNCHANGED <<now, livekitVars, webhooks, joins, cron, faults>>

-----------------------------------------------------------------------------
(* Webhook handlers: the first step of each consumes the event             *)

InHandling == {h.ev : h \in joins \cup closings}

Precedes(d, e) ==
    /\ d.user = e.user /\ d.room = e.room /\ d.kind # "end"
    /\ \/ d.sid < e.sid
       \/ d.sid = e.sid /\ d.kind = "joined" /\ e.kind = "left"

\* LiveKit delivers again what was not answered: the answer may be lost.
Deliver(e) ==
    /\ e \in webhooks \ InHandling
    /\ Ordered => \A d \in webhooks \cup InHandling : ~Precedes(d, e)
    /\ \/ webhooks' = webhooks \ {e} /\ UNCHANGED faults
       \/ Spend /\ UNCHANGED webhooks
    /\ UNCHANGED <<now, livekitVars, cron>>

\* isPrivateRoomActive decides which way the handler goes on.
handlePrivateParticipantJoined(e) ==
    /\ e.kind = "joined" /\ Deliver(e)
    /\ joins' = joins \cup
         {[ev |-> e, old |-> e.room,
           pc |-> IF isPrivateRoomActive(e.room, now) THEN "select" ELSE "refuse"]}
    /\ UNCHANGED <<rows, closings>>

LeftBecause(e, reason) == e.kind = "left" /\ e.reason = reason /\ Deliver(e)

LeftDuplicateIdentity(e) ==
    /\ LeftBecause(e, "DUPLICATE_IDENTITY")
    /\ UNCHANGED <<rows, joins, closings>>

LeftRoomDeleted(e) ==
    /\ LeftBecause(e, "ROOM_DELETED")
    /\ rows' = [rows EXCEPT ![e.room] = deletePrivateVoiceChat(e.room)]
    /\ UNCHANGED <<joins, closings>>

LeftInterrupted(e) ==
    /\ LeftBecause(e, "interrupted")
    /\ rows' = [rows EXCEPT ![e.room][e.user] = updateUserStatus(@, "connection_interrupted")]
    /\ UNCHANGED <<joins, closings>>

LeftClientInitiated(e) ==
    /\ LeftBecause(e, "CLIENT_INITIATED")
    /\ closings' = closings \cup {[ev |-> e, pc |-> "livekit"]}
    /\ UNCHANGED <<rows, joins>>

-----------------------------------------------------------------------------
(* The handlers after their first await                                    *)

\* The events of lost handlers are delivered again, or given up.
Redelivered(lost) ==
    LET events == {e \in lost : e.kind # "end"}
    IN  IF KeepsRetrying THEN {events} ELSE SUBSET events

JoinRefused(j) ==
    /\ j \in joins /\ j.pc = "refuse"
    /\ deleteRoom(j.ev.room)
    /\ joins' = joins \ {j}
    /\ UNCHANGED <<now, rows, opened, granted, closings, cron>>

\* The SELECT of joinUserToRoom.
JoinSelects(j) ==
    /\ j \in joins /\ j.pc = "select"
    /\ \E old \in getRoomUserIsIn(j.ev.user, now) :
         joins' = (joins \ {j}) \cup {[j EXCEPT !.pc = "write", !.old = old]}
    /\ UNCHANGED <<now, rows, livekitVars, webhooks, closings, cron, faults>>

\* It finds nothing: the handler throws.
JoinThrows(j) ==
    /\ j \in joins /\ j.pc = "select"
    /\ getRoomUserIsIn(j.ev.user, now) = {}
    /\ joins' = joins \ {j}
    /\ \E again \in Redelivered({j.ev}) : webhooks' = webhooks \cup again
    /\ UNCHANGED <<now, rows, livekitVars, closings, cron, faults>>

\* Its UPDATEs and COMMIT; the row locks keep the two together.
JoinWrites(j) ==
    /\ j \in joins /\ j.pc = "write"
    /\ rows' = [r \in Rooms |-> [rows[r] EXCEPT ![j.ev.user] =
                  IF r = j.ev.room THEN updateUserStatus(@, "connected")
                  ELSE IF r = j.old THEN updateUserStatus(@, "disconnected") ELSE @]]
    /\ joins' = (joins \ {j}) \cup
         IF j.old = j.ev.room THEN {} ELSE {[j EXCEPT !.pc = "leaveOld"]}
    /\ UNCHANGED <<now, livekitVars, webhooks, closings, cron, faults>>

JoinLeavesOld(j) ==
    /\ j \in joins /\ j.pc = "leaveOld"
    /\ deleteRoom(j.old)
    /\ joins' = joins \ {j}
    /\ UNCHANGED <<now, rows, opened, granted, closings, cron>>

ClosingLivekit(c) ==
    /\ c \in closings /\ c.pc = "livekit"
    /\ deleteRoom(c.ev.room)
    /\ closings' = (closings \ {c}) \cup
         IF c.ev.kind = "end" THEN {} ELSE {[c EXCEPT !.pc = "write"]}
    /\ UNCHANGED <<now, rows, opened, granted, joins, cron>>

ClosingWrites(c) ==
    /\ c \in closings /\ c.pc = "write"
    /\ rows' = [rows EXCEPT ![c.ev.room][c.ev.user] = updateUserStatus(@, "disconnected")]
    /\ closings' = closings \ {c}
    /\ UNCHANGED <<now, livekitVars, webhooks, joins, cron, faults>>

-----------------------------------------------------------------------------
(* expirePrivateVoiceChats: every minute, never two runs at a time         *)

ExpiredBatch(t) ==
    {b \in SUBSET ExpiredRooms(t) : \/ b = ExpiredRooms(t) /\ Cardinality(b) <= BatchSize
                                    \/ Cardinality(b) = BatchSize}

CronDeletesRows ==
    /\ cron.pc = "idle" /\ now \in JobTimes
    /\ \E batch \in ExpiredBatch(now) :
         LET destroy == {r \in batch : ShouldDestroyRoom(r, now)} IN
         /\ rows' = [r \in Rooms |-> IF r \in batch THEN deletePrivateVoiceChat(r) ELSE rows[r]]
         /\ cron' = IF destroy = {} THEN IdleCron ELSE [pc |-> "sweep", expired |-> destroy]
    /\ UNCHANGED <<now, livekitVars, webhooks, joins, closings, faults>>

CronClosesRoom(r) ==
    /\ cron.pc = "sweep" /\ r \in cron.expired
    /\ deleteRoom(r)
    /\ cron' = IF cron.expired = {r} THEN IdleCron ELSE [cron EXCEPT !.expired = @ \ {r}]
    /\ UNCHANGED <<now, rows, opened, granted, joins, closings>>

-----------------------------------------------------------------------------
(* Faults, time and the specification                                      *)

\* A statement throws, or the transaction is rolled back: the webhook is answered
\* with 400.  LiveKit calls do not throw.
HandlerFails ==
    /\ Spend
    /\ \/ \E j \in joins : /\ j.pc \in {"select", "write"}
                           /\ joins' = joins \ {j} /\ UNCHANGED closings
                           /\ \E again \in Redelivered({j.ev}) : webhooks' = webhooks \cup again
       \/ \E c \in closings : /\ c.pc = "write"
                              /\ closings' = closings \ {c} /\ UNCHANGED joins
                              /\ \E again \in Redelivered({c.ev}) : webhooks' = webhooks \cup again
    /\ UNCHANGED <<now, rows, livekitVars, cron>>

Restart ==
    /\ Spend
    /\ \E again \in Redelivered(InHandling) : webhooks' = webhooks \cup again
    /\ joins' = {} /\ closings' = {} /\ cron' = IdleCron
    /\ UNCHANGED <<now, rows, livekitVars>>

\* Past ActiveUntil the clock waits for what is in flight, so that every TTL
\* can elapse before MaxTime.
Tick ==
    /\ now < MaxTime
    /\ now >= ActiveUntil => webhooks = {} /\ InHandling = {}
    /\ now' = now + 1
    /\ UNCHANGED <<rows, livekitVars, webhooks, joins, closings, cron, faults>>

ClientStep == \E r \in Rooms : \E u \in Users :
    ClientConnects(u, r) \/ ClientLeaves(u, r) \/ ConnectionDrops(u, r)

Pairs == {{p[1], p[2]} : p \in {q \in Users \X Users : q[1] # q[2]}}

RequestStep == \E r \in Rooms :
    \/ \E callers \in Pairs : getPrivateVoiceChatRoomCredentials(r, callers)
    \/ \E u \in Users : endPrivateVoiceChat(r, u)

WebhookStep == \E e \in webhooks :
    \/ handlePrivateParticipantJoined(e)
    \/ LeftDuplicateIdentity(e)
    \/ LeftRoomDeleted(e)
    \/ LeftInterrupted(e)
    \/ LeftClientInitiated(e)

HandlerStep ==
    \/ \E j \in joins : \/ JoinRefused(j) \/ JoinSelects(j) \/ JoinThrows(j)
                        \/ JoinWrites(j) \/ JoinLeavesOld(j)
    \/ \E c \in closings : ClosingLivekit(c) \/ ClosingWrites(c)

CronJob == CronDeletesRows \/ \E r \in Rooms : CronClosesRoom(r)

Fault == HandlerFails \/ Restart

Next == ClientStep \/ RequestStep \/ WebhookStep \/ HandlerStep \/ CronJob \/ Fault \/ Tick

Spec == Init /\ [][Next]_vars

-----------------------------------------------------------------------------
(* Properties                                                              *)

\* Every variable stays within its type; no clock reading in a row is negative.
TypeOK ==
    /\ now \in Nat
    /\ rows \in [Rooms -> [Users -> Row]]
    /\ live \in [Rooms -> [Users -> Nat]]
    /\ opened \in [Rooms -> [Users -> Nat]]
    /\ granted \in [Rooms -> [Users -> Nat]]
    /\ webhooks \subseteq Event
    /\ joins \subseteq Join
    /\ closings \subseteq Closing
    /\ cron \in Cron
    /\ faults \in Nat

\* The rows of a call appear and go together and never come back: no late webhook,
\* failed handler or overlapping end leaves half a call or revives one.
Registry == INSTANCE Calls WITH
    members <- [r \in Rooms |-> UsersIn(r)],
    used <- {r \in Rooms : \E u \in Users : granted[r][u] > 0}
CallsAreWhole == Registry!Spec

\* The three tests of the same time limits agree on which side of a limit a row is:
\* the job removes a call exactly if some user in it no longer counts as in it for
\* joinUserToRoom, and isPrivateRoomActive admits no fewer joins than those two.
TestsAgree ==
    \A r \in Rooms :
        LET allIn == \A u \in UsersIn(r) : countsAsIn(rows[r][u], now)
        IN  /\ r \in ExpiredRooms(now) <=> ~allIn
            /\ UsersIn(r) # {} /\ allIn => isPrivateRoomActive(r, now)

\* With webhooks in order, a connected row describes a session LiveKit still has,
\* unless the news of its end is on its way.
ConnectedRowsHaveSessions ==
    \A r \in Rooms : \A u \in Users :
        rows[r][u].status = "connected" /\ live[r][u] = NoSid
          => \E e \in webhooks \cup InHandling :
                e.kind = "left" /\ e.room = r
                /\ (e.user = u \/ e.reason = "ROOM_DELETED")

\* LiveKit retries webhooks, the runtime resumes handlers, the job runs every
\* minute and time passes.  Nothing obliges a user to act or a call to fail.
FairSpec ==
    Spec /\ WF_vars(WebhookStep) /\ WF_vars(HandlerStep) /\ WF_vars(CronJob) /\ WF_vars(Tick)

\* A call somebody is missing from does not stay in the table: once users stop, its
\* rows go, or both of them have a session.
CallsEnd ==
    \A r \in Rooms : <>[](\A u \in UsersIn(r) : live[r][u] # NoSid)

-----------------------------------------------------------------------------
(* What comments of the repository say and the code does not do            *)

\* "We need to destroy the room to disconnect all users": when a call is over,
\* nobody is left in its LiveKit room.
NobodyStaysBehind ==
    \A r \in Rooms : <>[](\A u \in Users : live[r][u] # NoSid => UsersIn(r) # {})

\* "If the user is already in a room, disconnects them from the other room."
ConnectedInOneRoom ==
    \A u \in Users : \A q, r \in Rooms :
        rows[q][u].status = "connected" /\ rows[r][u].status = "connected" => q = r
=============================================================================
