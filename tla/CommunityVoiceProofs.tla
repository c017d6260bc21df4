------------------------ MODULE CommunityVoiceProofs ------------------------
(***************************************************************************)
(* Theorems about CommunityVoice, for every value of its constants.        *)
(*                                                                         *)
(* TypeOK is inductive.  RowsConsistent needs one more fact: a "joined"    *)
(* event in flight names a session its user really opened.  The guarantee  *)
(* about stale leaves needs what a leave handler learnt before its first   *)
(* await: the snapshot in its record passed the guards.                    *)
(* The queries about activity, the leaving moderator and the job agree     *)
(* because one test of activity is written twice to the same effect; that  *)
(* the job spares returning moderators needs that a row is never older     *)
(* than the token that came with it.                                       *)
(* That only disorder strands a row is the longest argument: whatever a    *)
(* step takes away of what may correct a row, it corrects the row with.    *)
(***************************************************************************)
EXTENDS CommunityVoice, FiniteSetTheorems, TLAPS

LEMMA AbsentRowType == AbsentRow \in Row
  BY DEF AbsentRow, Row, Statuses, NoSid

\* The statements of voice-db.ts produce rows.
LEMMA JoinType ==
  ASSUME NEW row \in Row, NEW b \in BOOLEAN, now \in Nat
  PROVE  joinUserToCommunityRoom(row, b) \in Row
  BY DEF joinUserToCommunityRoom, Row, Statuses, NoSid, Present

LEMMA UpdateType ==
  ASSUME NEW row \in Row, NEW st \in Statuses, NEW sid \in Nat, now \in Nat
  PROVE  /\ updateCommunityUserStatus(row, st) \in Row
         /\ updateCommunityUserStatusAndSid(row, st, sid) \in Row
  BY DEF updateCommunityUserStatus, updateCommunityUserStatusAndSid, Row, Statuses, Present

\* Room counts are numbers: there are finitely many users.
LEMMA CountType ==
  ASSUME NEW r \in Rooms
  PROVE  getCommunityVoiceChatParticipantCount(r) \in Nat
<1>1. IsFiniteSet(Users)
  BY ConstantsAssumption, FS_Union DEF Users
<1>2. IsFiniteSet(UsersIn(r))
  BY <1>1, FS_Subset DEF UsersIn
<1> QED BY <1>2, FS_CardinalityType DEF getCommunityVoiceChatParticipantCount

LEMMA EventType ==
  ASSUME NEW k \in {"joined", "left", "end"}, NEW u \in Users, NEW r \in Rooms,
         NEW why \in Reasons \cup {"none"}, NEW sid \in Nat, NEW at \in Nat
  PROVE  EventOf(k, u, r, why, sid, at) \in Event
  BY DEF EventOf, Event

LEMMA LeftEventType ==
  ASSUME TypeOK, NEW u \in Users, NEW r \in Rooms, NEW why \in Reasons
  PROVE  LeftEvent(u, r, why) \in Event
  BY DEF LeftEvent, EventOf, Event, TypeOK

LEMMA TeardownType ==
  ASSUME NEW e \in Event, NEW todo \in SUBSET {"livekit", "db"}
  PROVE  [ev |-> e, count |-> getCommunityVoiceChatParticipantCount(e.room),
          todo |-> todo] \in Teardown
  BY CountType DEF Event, Teardown

LEMMA IdleCronType == IdleCron \in Cron
  BY DEF IdleCron, Cron

LEMMA InHandlingType == TypeOK => InHandling \subseteq Event
  BY DEF TypeOK, InHandling, Leave, Teardown

LEMMA RedeliveredType ==
  ASSUME NEW lost, lost \subseteq Event, NEW again \in Redelivered(lost)
  PROVE  again \subseteq {e \in Event : e.kind = "left"}
  BY DEF Redelivered

\* What deleteRoom does to the variables it changes.
LEMMA DeleteRoomType ==
  ASSUME TypeOK, NEW r \in Rooms, deleteRoom(r)
  PROVE  /\ live' \in [Rooms -> [Users -> Nat]]
         /\ webhooks' \subseteq Event
         /\ faults' \in Nat
<1>1. CASE /\ live' = [live EXCEPT ![r] = [u \in Users |-> NoSid]]
           /\ webhooks' = webhooks
                \cup {LeftEvent(u, r, "ROOM_DELETED") : u \in {v \in Users : live[r][v] # NoSid}}
           /\ UNCHANGED faults
  <2>1. \A u \in Users : LeftEvent(u, r, "ROOM_DELETED") \in Event
    BY LeftEventType DEF Reasons
  <2> QED BY <1>1, <2>1 DEF TypeOK, NoSid
<1>2. CASE Spend /\ UNCHANGED <<live, webhooks>>
  BY <1>2 DEF TypeOK, Spend
<1> QED BY <1>1, <1>2 DEF deleteRoom

LEMMA DeliverType ==
  ASSUME TypeOK, NEW e \in webhooks, Deliver(e)
  PROVE  /\ e \in Event
         /\ webhooks' \subseteq webhooks /\ webhooks' \subseteq Event
         /\ faults' \in Nat
         /\ UNCHANGED <<now, live, opened, granted, cron, ends>>
  BY DEF TypeOK, Deliver, Spend, livekitVars

\* TypeOK is preserved by every step.
LEMMA TypeOKStep == TypeOK /\ [Next]_vars => TypeOK'
<1> SUFFICES ASSUME TypeOK, [Next]_vars PROVE TypeOK'
  OBVIOUS
<1> USE DEF livekitVars, handlerVars
<1>1. ASSUME ClientStep PROVE TypeOK'
  <2> PICK r \in Rooms, u \in Users :
        ClientConnects(u, r) \/ ClientLeaves(u, r) \/ ConnectionDrops(u, r)
    BY <1>1 DEF ClientStep
  <2>1. CASE ClientConnects(u, r)
    <3>1. opened[r][u] + 1 \in Nat
      BY DEF TypeOK
    <3>2. EventOf("joined", u, r, "none", opened[r][u] + 1, 0) \in Event
      BY <3>1, EventType
    <3>3. LeftEvent(u, r, "DUPLICATE_IDENTITY") \in Event
      BY LeftEventType DEF Reasons
    <3>4. webhooks' \subseteq Event
      BY <2>1, <3>2, <3>3 DEF TypeOK, ClientConnects
    <3> QED BY <2>1, <3>1, <3>4 DEF TypeOK, ClientConnects
  <2>2. ASSUME NEW why \in Reasons, LosesSession(u, r, why) PROVE TypeOK'
    <3>1. LeftEvent(u, r, why) \in Event
      BY LeftEventType
    <3> QED BY <2>2, <3>1 DEF TypeOK, LosesSession, NoSid
  <2> QED BY <2>1, <2>2 DEF ClientLeaves, ConnectionDrops, Reasons
<1>2. ASSUME RequestStep PROVE TypeOK'
  <2> PICK r \in Rooms, u \in Users :
        \/ \E b \in BOOLEAN : getCommunityVoiceChatCredentials(u, r, b)
        \/ kickPlayerFromCommunity(u, r)
        \/ endCommunityVoiceChat(u, r)
    BY <1>2 DEF RequestStep
  <2>1. ASSUME NEW b \in BOOLEAN, getCommunityVoiceChatCredentials(u, r, b) PROVE TypeOK'
    <3>1. joinUserToCommunityRoom(rows[r][u], b) \in Row
      BY JoinType DEF TypeOK
    <3> QED BY <2>1, <3>1 DEF TypeOK, getCommunityVoiceChatCredentials
  <2>2. CASE kickPlayerFromCommunity(u, r)
    <3>1. LeftEvent(u, r, "interrupted") \in Event
      BY LeftEventType DEF Reasons
    <3> QED BY <2>2, <3>1 DEF TypeOK, kickPlayerFromCommunity, LosesSession, NoSid
  <2>3. CASE endCommunityVoiceChat(u, r)
    <3> DEFINE e == EventOf("end", u, r, "none", NoSid, ends)
    <3>1. e \in Event
      BY EventType DEF TypeOK, NoSid
    <3> HIDE DEF e
    <3>2. [ev |-> e, count |-> getCommunityVoiceChatParticipantCount(e.room),
           todo |-> {"livekit", "db"}] \in Teardown
      BY <3>1, TeardownType
    <3>3. teardowns' \subseteq Teardown
      BY <2>3, <3>2 DEF TypeOK, endCommunityVoiceChat, StartTeardown, e
    <3> QED BY <2>3, <3>3 DEF TypeOK, endCommunityVoiceChat
  <2> QED BY <2>1, <2>2, <2>3
<1>3. ASSUME WebhookStep PROVE TypeOK'
  <2> PICK e \in webhooks :
        \/ handleCommunityParticipantJoined(e)
        \/ LeftDuplicateIdentity(e)
        \/ LeftInterrupted(e)
        \/ LeftRoomDeleted(e)
        \/ LeftClientInitiated(e)
    BY <1>3 DEF WebhookStep
  <2>1. Deliver(e)
    BY DEF handleCommunityParticipantJoined, LeftDuplicateIdentity, LeftInterrupted,
           LeftRoomDeleted, LeftClientInitiated, LeftBecause
  <2>2. /\ e \in Event
        /\ webhooks' \subseteq Event
        /\ faults' \in Nat
        /\ UNCHANGED <<now, live, opened, granted, cron, ends>>
    BY <2>1, DeliverType
  <2>3. e.room \in Rooms /\ e.user \in Users /\ e.sid \in Nat /\ rows[e.room][e.user] \in Row
    BY <2>2 DEF TypeOK, Event
  <2>4. CASE handleCommunityParticipantJoined(e)
    <3>1. updateCommunityUserStatusAndSid(rows[e.room][e.user], "connected", e.sid) \in Row
      BY <2>3, UpdateType DEF TypeOK, Statuses
    <3> QED BY <2>2, <2>3, <2>4, <3>1 DEF TypeOK, handleCommunityParticipantJoined
  <2>5. CASE LeftDuplicateIdentity(e)
    BY <2>2, <2>5 DEF TypeOK, LeftDuplicateIdentity
  <2>6. CASE LeftInterrupted(e)
    <3>1. updateCommunityUserStatus(rows[e.room][e.user], "connection_interrupted") \in Row
      BY <2>3, UpdateType DEF TypeOK, Statuses
    <3> QED BY <2>2, <2>3, <2>6, <3>1 DEF TypeOK, LeftInterrupted
  <2>7. CASE LeftRoomDeleted(e)
    <3>1. [ev |-> e, count |-> getCommunityVoiceChatParticipantCount(e.room),
           todo |-> {"db"}] \in Teardown
      BY <2>2, TeardownType
    <3> QED BY <2>2, <2>7, <3>1 DEF TypeOK, LeftRoomDeleted, StartTeardown
  <2>8. CASE LeftClientInitiated(e)
    <3>1. [ev |-> e, snap |-> rows[e.room], pc |-> "write"] \in Leave
      BY <2>2, <2>3 DEF TypeOK, Leave
    <3> QED BY <2>2, <2>8, <3>1 DEF TypeOK, LeftClientInitiated
  <2> QED BY <2>4, <2>5, <2>6, <2>7, <2>8
<1>4. ASSUME HandlerStep PROVE TypeOK'
  <2>1. ASSUME NEW l \in leaves, WriteDisconnected(l) PROVE TypeOK'
    <3>1. l \in Leave /\ l.ev.room \in Rooms /\ l.ev.user \in Users
      BY DEF TypeOK, Leave, Event
    <3>2. updateCommunityUserStatus(rows[l.ev.room][l.ev.user], "disconnected") \in Row
      BY <3>1, UpdateType DEF TypeOK, Statuses
    <3>3. rows' \in [Rooms -> [Users -> Row]]
      BY <2>1, <3>1, <3>2 DEF TypeOK, WriteDisconnected
    <3>4. [l EXCEPT !.pc = "decide"] \in Leave
      BY <3>1 DEF Leave
    <3>5. leaves' \subseteq Leave
      BY <2>1, <3>4 DEF TypeOK, WriteDisconnected
    <3> QED BY <2>1, <3>3, <3>5 DEF TypeOK, WriteDisconnected
  <2>2. ASSUME NEW l \in leaves, DecideTeardown(l) PROVE TypeOK'
    <3>1. l.ev \in Event
      BY DEF TypeOK, Leave
    <3>2. [ev |-> l.ev, count |-> getCommunityVoiceChatParticipantCount(l.ev.room),
           todo |-> {"livekit", "db"}] \in Teardown
      BY <3>1, TeardownType
    <3>3. teardowns' \subseteq Teardown
      BY <2>2, <3>2 DEF TypeOK, DecideTeardown, StartTeardown
    <3> QED BY <2>2, <3>3 DEF TypeOK, DecideTeardown
  <2>3. ASSUME NEW d \in teardowns, TeardownLivekit(d) PROVE TypeOK'
    <3>1. d \in Teardown /\ d.ev.room \in Rooms
      BY DEF TypeOK, Teardown, Event
    <3>2. [d EXCEPT !.todo = @ \ {"livekit"}] \in Teardown
      BY <3>1 DEF Teardown
    <3>3. teardowns' \subseteq Teardown
      BY <2>3, <3>2 DEF TypeOK, TeardownLivekit
    <3>4. /\ live' \in [Rooms -> [Users -> Nat]]
          /\ webhooks' \subseteq Event
          /\ faults' \in Nat
      BY <2>3, <3>1, DeleteRoomType DEF TeardownLivekit
    <3> QED BY <2>3, <3>3, <3>4 DEF TypeOK, TeardownLivekit
  <2>4. ASSUME NEW d \in teardowns, TeardownRows(d) PROVE TypeOK'
    <3>1. d \in Teardown /\ d.ev.room \in Rooms
      BY DEF TypeOK, Teardown, Event
    <3>2. [d EXCEPT !.todo = @ \ {"db"}] \in Teardown
      BY <3>1 DEF Teardown
    <3>3. teardowns' \subseteq Teardown
      BY <2>4, <3>2 DEF TypeOK, TeardownRows
    <3>4. EmptyRoom \in [Users -> Row]
      BY AbsentRowType DEF EmptyRoom
    <3> QED BY <2>4, <3>1, <3>3, <3>4 DEF TypeOK, TeardownRows
  <2>5. ASSUME NEW d \in teardowns, NEW b \in BOOLEAN, TeardownPublish(d, b) PROVE TypeOK'
    BY <2>5 DEF TypeOK, TeardownPublish
  <2> QED BY <1>4, <2>1, <2>2, <2>3, <2>4, <2>5 DEF HandlerStep
<1>5. ASSUME CronJob PROVE TypeOK'
  <2> USE DEF CronKeeps
  <2>1. CASE CronListActive
    <3>1. cron' \in Cron
      BY <2>1 DEF TypeOK, CronListActive, Cron, getAllActiveCommunityVoiceChats
    <3> QED BY <2>1, <3>1 DEF TypeOK, CronListActive
  <2>2. CASE CronCount
    <3> DEFINE counts == [r \in Rooms |-> IF r \in cron.active
                            THEN getCommunityVoiceChatParticipantCount(r) ELSE 0]
    <3>1. counts \in [Rooms -> Nat]
      BY CountType
    <3> HIDE DEF counts
    <3>2. cron' = [cron EXCEPT !.pc = "delete", !.active = {}, !.counts = counts]
      BY <2>2 DEF CronCount, counts
    <3>3. cron' \in Cron
      BY <3>1, <3>2 DEF TypeOK, Cron
    <3> QED BY <2>2, <3>3 DEF TypeOK, CronCount
  <2>3. CASE CronDeleteRows
    <3> PICK batch \in ExpiredBatch(now) :
          /\ rows' = [r \in Rooms |-> IF r \in batch THEN EmptyRoom ELSE rows[r]]
          /\ cron' = IF batch = {} THEN IdleCron ELSE
               [cron EXCEPT !.pc = "sweep", !.expired = batch]
      BY <2>3 DEF CronDeleteRows
    <3>1. batch \in SUBSET Rooms
      BY DEF ExpiredBatch
    <3>2. cron' \in Cron
      BY <3>1, IdleCronType DEF TypeOK, Cron
    <3>3. EmptyRoom \in [Users -> Row]
      BY AbsentRowType DEF EmptyRoom
    <3>4. rows' \in [Rooms -> [Users -> Row]]
      BY <3>3 DEF TypeOK
    <3> QED BY <2>3, <3>2, <3>4 DEF TypeOK, CronDeleteRows
  <2>4. ASSUME NEW r \in Rooms, CronCloseRoom(r) PROVE TypeOK'
    <3>1. cron' \in Cron
      BY <2>4 DEF TypeOK, CronCloseRoom, Cron
    <3>2. /\ live' \in [Rooms -> [Users -> Nat]]
          /\ webhooks' \subseteq Event
          /\ faults' \in Nat
      BY <2>4, DeleteRoomType DEF CronCloseRoom
    <3> QED BY <2>4, <3>1, <3>2 DEF TypeOK, CronCloseRoom
  <2>5. ASSUME NEW r \in Rooms, NEW b \in BOOLEAN, CronPublish(r, b) PROVE TypeOK'
    <3>1. cron' \in Cron
      BY <2>5, IdleCronType DEF TypeOK, CronPublish, Cron
    <3> QED BY <2>5, <3>1 DEF TypeOK, CronPublish
  <2> QED BY <1>5, <2>1, <2>2, <2>3, <2>4, <2>5 DEF CronJob
<1>6. ASSUME Fault PROVE TypeOK'
  <2> USE DEF CronKeeps
  <2>1. CASE HandlerFails
    <3> PICK e \in InHandling :
          /\ \E again \in Redelivered({e}) : webhooks' = webhooks \cup again
          /\ leaves' = {l \in leaves : l.ev # e}
          /\ teardowns' = {d \in teardowns : d.ev # e}
      BY <2>1 DEF HandlerFails
    <3> PICK again \in Redelivered({e}) : webhooks' = webhooks \cup again
      OBVIOUS
    <3>1. again \subseteq Event
      BY InHandlingType, RedeliveredType
    <3> QED BY <2>1, <3>1 DEF TypeOK, HandlerFails, Spend
  <2>2. CASE CronFails
    BY <2>2, IdleCronType DEF TypeOK, CronFails, Spend
  <2>3. CASE Restart
    <3> PICK again \in Redelivered(InHandling) : webhooks' = webhooks \cup again
      BY <2>3 DEF Restart
    <3>1. again \subseteq Event
      BY InHandlingType, RedeliveredType
    <3> QED BY <2>3, <3>1, IdleCronType DEF TypeOK, Restart, Spend
  <2> QED BY <1>6, <2>1, <2>2, <2>3 DEF Fault
<1>7. CASE Tick
  BY <1>7 DEF TypeOK, Tick
<1>8. CASE UNCHANGED vars
  BY <1>8 DEF TypeOK, vars
<1> QED BY <1>1, <1>2, <1>3, <1>4, <1>5, <1>6, <1>7, <1>8 DEF Next

\* Every reachable state of a community voice deployment of any size is well typed.
THEOREM TypeCorrect == Spec => []TypeOK
<1>1. Init => TypeOK
  BY AbsentRowType, IdleCronType DEF Init, TypeOK, NoSid
<1> QED BY <1>1, TypeOKStep, PTL DEF Spec

-----------------------------------------------------------------------------
(* RowsConsistent                                                          *)

RowOK(row, sessions, t) ==
    /\ row.status = "connected" => row.sid # NoSid
    /\ row.status \in {"not_connected", "absent"} => row.sid = NoSid
    /\ row.sid <= sessions
    /\ row.joinedAt <= row.statusUpdatedAt /\ row.statusUpdatedAt <= t

\* A "joined" event in flight names a session that was opened.
JoinedEventsOpened ==
    \A e \in webhooks : e.kind = "joined" =>
        e.sid # NoSid /\ e.sid <= opened[e.room][e.user]

LEMMA RowsConsistentIsRowOK ==
  RowsConsistent <=> \A r \in Rooms : \A u \in Users : RowOK(rows[r][u], opened[r][u], now)
  BY DEF RowsConsistent, RowOK

LEMMA AbsentRowOK == \A n, t \in Nat : RowOK(AbsentRow, n, t)
  BY DEF RowOK, AbsentRow, NoSid

LEMMA RowOKMonotone ==
  ASSUME NEW row \in Row, NEW n \in Nat, NEW m \in Nat, NEW t \in Nat, NEW s \in Nat,
         RowOK(row, n, t), n <= m, t <= s
  PROVE  RowOK(row, m, s)
  BY DEF RowOK, Row

LEMMA JoinOK ==
  ASSUME NEW row \in Row, NEW n \in Nat, NEW b \in BOOLEAN, now \in Nat, RowOK(row, n, now)
  PROVE  RowOK(joinUserToCommunityRoom(row, b), n, now)
  BY DEF RowOK, Row, joinUserToCommunityRoom, NoSid, Present

LEMMA UpdateOK ==
  ASSUME NEW row \in Row, NEW n \in Nat, now \in Nat, RowOK(row, n, now),
         NEW st \in {"disconnected", "connection_interrupted"}
  PROVE  RowOK(updateCommunityUserStatus(row, st), n, now)
  BY DEF RowOK, Row, updateCommunityUserStatus, NoSid, Present

LEMMA ConnectOK ==
  ASSUME NEW row \in Row, NEW n \in Nat, now \in Nat, RowOK(row, n, now),
         NEW sid \in Nat, sid # NoSid, sid <= n
  PROVE  RowOK(updateCommunityUserStatusAndSid(row, "connected", sid), n, now)
  BY DEF RowOK, Row, updateCommunityUserStatusAndSid, NoSid, Present

RowsInv == TypeOK /\ RowsConsistent /\ JoinedEventsOpened

\* Adding events other than "joined" keeps JoinedEventsOpened.
LEMMA EventsOpened ==
  ASSUME JoinedEventsOpened, UNCHANGED opened,
         NEW more, webhooks' \subseteq webhooks \cup more, \A e \in more : e.kind = "left"
  PROVE  JoinedEventsOpened'
  BY DEF JoinedEventsOpened

LEMMA DeleteRoomOpened ==
  ASSUME JoinedEventsOpened, UNCHANGED opened, NEW r \in Rooms, deleteRoom(r)
  PROVE  JoinedEventsOpened'
<1> DEFINE more == {LeftEvent(u, r, "ROOM_DELETED") : u \in Users}
<1>1. \A e \in more : e.kind = "left"
  BY DEF LeftEvent, EventOf
<1>2. webhooks' \subseteq webhooks \cup more
  BY DEF deleteRoom
<1> HIDE DEF more
<1> QED BY <1>1, <1>2, EventsOpened

\* Rows that stay, next to sessions and a clock that stay, stay consistent.
LEMMA RowsStay ==
  ASSUME TypeOK, RowsConsistent, UNCHANGED <<rows, opened, now>>
  PROVE  RowsConsistent'
  BY DEF RowsConsistent

\* Replacing one row by a good one.
LEMMA RowReplaced ==
  ASSUME TypeOK, RowsConsistent, UNCHANGED <<opened, now>>,
         NEW r \in Rooms, NEW u \in Users, NEW row,
         rows' = [rows EXCEPT ![r][u] = row], RowOK(row, opened[r][u], now)
  PROVE  RowsConsistent'
<1>1. \A q \in Rooms : \A v \in Users :
        rows'[q][v] = IF q = r /\ v = u THEN row ELSE rows[q][v]
  BY DEF TypeOK
<1> QED BY <1>1, RowsConsistentIsRowOK DEF RowsConsistent, RowOK

LEMMA RowsInvStep == RowsInv /\ [Next]_vars => RowsInv'
<1> SUFFICES ASSUME RowsInv, [Next]_vars PROVE RowsInv'
  OBVIOUS
<1>0. TypeOK /\ TypeOK'
  BY TypeOKStep DEF RowsInv
<1> SUFFICES RowsConsistent' /\ JoinedEventsOpened'
  BY <1>0 DEF RowsInv
<1> USE <1>0 DEF RowsInv, livekitVars, handlerVars
<1>1. ASSUME NEW r \in Rooms, NEW u \in Users, ClientConnects(u, r)
      PROVE  RowsConsistent' /\ JoinedEventsOpened'
  <2>1. \A q \in Rooms : \A v \in Users : opened[q][v] <= opened'[q][v]
    BY <1>1 DEF ClientConnects, TypeOK
  <2>2. RowsConsistent'
    <3>1. ASSUME NEW q \in Rooms, NEW v \in Users PROVE RowOK(rows[q][v], opened'[q][v], now)
      <4>1. /\ rows[q][v] \in Row /\ opened[q][v] \in Nat /\ opened'[q][v] \in Nat
            /\ now \in Nat /\ RowOK(rows[q][v], opened[q][v], now)
        BY RowsConsistentIsRowOK DEF TypeOK
      <4> QED BY <2>1, <4>1, RowOKMonotone
    <3> QED BY <1>1, <3>1 DEF ClientConnects, RowsConsistent, RowOK
  <2>3. opened'[r][u] = opened[r][u] + 1 /\ opened[r][u] \in Nat
    BY <1>1 DEF ClientConnects, TypeOK
  <2>4. ASSUME NEW e \in webhooks', e.kind = "joined"
        PROVE  e.sid # NoSid /\ e.sid <= opened'[e.room][e.user]
    <3>1. CASE e \in webhooks
      <4>1. e.room \in Rooms /\ e.user \in Users /\ e.sid \in Nat
        BY <3>1 DEF TypeOK, Event
      <4>2. opened[e.room][e.user] \in Nat /\ opened'[e.room][e.user] \in Nat
        BY <4>1 DEF TypeOK
      <4> QED BY <2>1, <2>4, <3>1, <4>1, <4>2 DEF JoinedEventsOpened
    <3>2. CASE e = EventOf("joined", u, r, "none", opened[r][u] + 1, 0)
      BY <2>3, <3>2 DEF EventOf, NoSid
    <3>3. e # LeftEvent(u, r, "DUPLICATE_IDENTITY")
      BY <2>4 DEF LeftEvent, EventOf
    <3> QED BY <1>1, <3>1, <3>2, <3>3 DEF ClientConnects
  <2> QED BY <2>2, <2>4 DEF JoinedEventsOpened
<1>2. ASSUME NEW r \in Rooms, NEW u \in Users, NEW why, LosesSession(u, r, why)
      PROVE  RowsConsistent' /\ JoinedEventsOpened'
  <2>1. LeftEvent(u, r, why).kind = "left"
    BY DEF LeftEvent, EventOf
  <2>2. webhooks' = webhooks \cup {LeftEvent(u, r, why)} /\ UNCHANGED <<rows, opened, now>>
    BY <1>2 DEF LosesSession
  <2>3. JoinedEventsOpened'
    BY <2>1, <2>2 DEF JoinedEventsOpened
  <2> QED BY <2>2, <2>3, RowsStay
<1>3. ASSUME NEW r \in Rooms, NEW u \in Users, NEW b \in BOOLEAN,
             getCommunityVoiceChatCredentials(u, r, b)
      PROVE  RowsConsistent' /\ JoinedEventsOpened'
  <2>1. rows[r][u] \in Row /\ opened[r][u] \in Nat /\ now \in Nat
        /\ RowOK(rows[r][u], opened[r][u], now)
    BY RowsConsistentIsRowOK DEF TypeOK
  <2>2. RowOK(joinUserToCommunityRoom(rows[r][u], b), opened[r][u], now)
    BY <2>1, JoinOK
  <2>3. RowsConsistent'
    BY <1>3, <2>2, RowReplaced DEF getCommunityVoiceChatCredentials
  <2> QED BY <1>3, <2>3 DEF getCommunityVoiceChatCredentials, JoinedEventsOpened
<1>4. ASSUME NEW r \in Rooms, NEW u \in Users, endCommunityVoiceChat(u, r)
      PROVE  RowsConsistent' /\ JoinedEventsOpened'
  BY <1>4, RowsStay DEF endCommunityVoiceChat, JoinedEventsOpened
<1>5. ASSUME NEW e \in webhooks,
             \/ handleCommunityParticipantJoined(e)
             \/ LeftDuplicateIdentity(e)
             \/ LeftInterrupted(e)
             \/ LeftRoomDeleted(e)
             \/ LeftClientInitiated(e)
      PROVE  RowsConsistent' /\ JoinedEventsOpened'
  <2>1. Deliver(e)
    BY <1>5 DEF handleCommunityParticipantJoined, LeftDuplicateIdentity, LeftInterrupted,
           LeftRoomDeleted, LeftClientInitiated, LeftBecause
  <2>2. /\ e \in Event /\ webhooks' \subseteq webhooks
        /\ UNCHANGED <<now, live, opened, granted, cron, ends>>
    BY <2>1, DeliverType
  <2>3. JoinedEventsOpened'
    BY <2>2 DEF JoinedEventsOpened
  <2>4. /\ e.room \in Rooms /\ e.user \in Users /\ e.sid \in Nat
        /\ rows[e.room][e.user] \in Row /\ opened[e.room][e.user] \in Nat /\ now \in Nat
        /\ RowOK(rows[e.room][e.user], opened[e.room][e.user], now)
    <3>1. e.room \in Rooms /\ e.user \in Users /\ e.sid \in Nat
      BY <2>2 DEF Event
    <3> QED BY <3>1, RowsConsistentIsRowOK DEF TypeOK
  <2>5. CASE handleCommunityParticipantJoined(e)
    <3>1. e.sid # NoSid /\ e.sid <= opened[e.room][e.user]
      BY <2>5 DEF handleCommunityParticipantJoined, JoinedEventsOpened
    <3>2. RowOK(updateCommunityUserStatusAndSid(rows[e.room][e.user], "connected", e.sid),
                opened[e.room][e.user], now)
      BY <2>4, <3>1, ConnectOK
    <3>3. RowsConsistent'
      BY <2>2, <2>4, <2>5, <3>2, RowReplaced DEF handleCommunityParticipantJoined
    <3> QED BY <2>3, <3>3
  <2>6. CASE LeftInterrupted(e)
    <3>1. RowOK(updateCommunityUserStatus(rows[e.room][e.user], "connection_interrupted"),
                opened[e.room][e.user], now)
      BY <2>4, UpdateOK
    <3>2. RowsConsistent'
      BY <2>2, <2>4, <2>6, <3>1, RowReplaced DEF LeftInterrupted
    <3> QED BY <2>3, <3>2
  <2>7. CASE LeftDuplicateIdentity(e) \/ LeftRoomDeleted(e) \/ LeftClientInitiated(e)
    BY <2>2, <2>3, <2>7, RowsStay
    DEF LeftDuplicateIdentity, LeftRoomDeleted, LeftClientInitiated
  <2> QED BY <1>5, <2>5, <2>6, <2>7
<1>6. ASSUME NEW l \in leaves, WriteDisconnected(l)
      PROVE  RowsConsistent' /\ JoinedEventsOpened'
  <2>1. /\ l.ev.room \in Rooms /\ l.ev.user \in Users
        /\ rows[l.ev.room][l.ev.user] \in Row /\ opened[l.ev.room][l.ev.user] \in Nat
        /\ now \in Nat
        /\ RowOK(rows[l.ev.room][l.ev.user], opened[l.ev.room][l.ev.user], now)
    <3>1. l.ev.room \in Rooms /\ l.ev.user \in Users
      BY DEF TypeOK, Leave, Event
    <3> QED BY <3>1, RowsConsistentIsRowOK DEF TypeOK
  <2>2. RowOK(updateCommunityUserStatus(rows[l.ev.room][l.ev.user], "disconnected"),
              opened[l.ev.room][l.ev.user], now)
    BY <2>1, UpdateOK
  <2>3. RowsConsistent'
    BY <1>6, <2>1, <2>2, RowReplaced DEF WriteDisconnected
  <2> QED BY <1>6, <2>3 DEF WriteDisconnected, JoinedEventsOpened
<1>7. ASSUME NEW l \in leaves, DecideTeardown(l)
      PROVE  RowsConsistent' /\ JoinedEventsOpened'
  BY <1>7, RowsStay DEF DecideTeardown, JoinedEventsOpened
<1>8. ASSUME NEW d \in teardowns,
             TeardownLivekit(d) \/ \E b \in BOOLEAN : TeardownPublish(d, b)
      PROVE  RowsConsistent' /\ JoinedEventsOpened'
  <2>1. CASE TeardownLivekit(d)
    <3>1. d.ev.room \in Rooms
      BY DEF TypeOK, Teardown, Event
    <3> QED BY <2>1, <3>1, RowsStay, DeleteRoomOpened DEF TeardownLivekit
  <2>2. CASE \E b \in BOOLEAN : TeardownPublish(d, b)
    BY <2>2, RowsStay DEF TeardownPublish, JoinedEventsOpened
  <2> QED BY <1>8, <2>1, <2>2
<1>9. ASSUME NEW gone \in SUBSET Rooms,
             rows' = [r \in Rooms |-> IF r \in gone THEN EmptyRoom ELSE rows[r]],
             UNCHANGED <<opened, now, webhooks>>
      PROVE  RowsConsistent' /\ JoinedEventsOpened'
  <2>1. ASSUME NEW r \in Rooms, NEW u \in Users PROVE RowOK(rows'[r][u], opened[r][u], now)
    <3>1. opened[r][u] \in Nat /\ now \in Nat /\ RowOK(rows[r][u], opened[r][u], now)
      BY RowsConsistentIsRowOK DEF TypeOK
    <3>2. rows'[r][u] \in {AbsentRow, rows[r][u]}
      BY <1>9 DEF EmptyRoom
    <3> QED BY <3>1, <3>2, AbsentRowOK
  <2> QED BY <1>9, <2>1 DEF RowsConsistent, RowOK, JoinedEventsOpened
<1>10. ASSUME NEW d \in teardowns, TeardownRows(d)
       PROVE  RowsConsistent' /\ JoinedEventsOpened'
  <2>1. rows' = [r \in Rooms |-> IF r \in {d.ev.room} THEN EmptyRoom ELSE rows[r]]
    BY <1>10 DEF TeardownRows, TypeOK
  <2>2. {d.ev.room} \in SUBSET Rooms
    BY DEF TypeOK, Teardown, Event
  <2> QED BY <1>10, <2>1, <2>2, <1>9 DEF TeardownRows
<1>11. ASSUME CronJob PROVE RowsConsistent' /\ JoinedEventsOpened'
  <2> USE DEF CronKeeps
  <2>1. CASE CronListActive \/ CronCount
    BY <2>1, RowsStay DEF CronListActive, CronCount, JoinedEventsOpened
  <2>2. CASE CronDeleteRows
    <3> PICK batch \in ExpiredBatch(now) :
          rows' = [r \in Rooms |-> IF r \in batch THEN EmptyRoom ELSE rows[r]]
      BY <2>2 DEF CronDeleteRows
    <3>1. batch \in SUBSET Rooms
      BY DEF ExpiredBatch
    <3> QED BY <2>2, <3>1, <1>9 DEF CronDeleteRows
  <2>3. ASSUME NEW r \in Rooms, CronCloseRoom(r) PROVE RowsConsistent' /\ JoinedEventsOpened'
    BY <2>3, RowsStay, DeleteRoomOpened DEF CronCloseRoom
  <2>4. ASSUME NEW r \in Rooms, NEW b \in BOOLEAN, CronPublish(r, b)
        PROVE  RowsConsistent' /\ JoinedEventsOpened'
    BY <2>4, RowsStay DEF CronPublish, JoinedEventsOpened
  <2> QED BY <1>11, <2>1, <2>2, <2>3, <2>4 DEF CronJob
<1>12. ASSUME Fault PROVE RowsConsistent' /\ JoinedEventsOpened'
  <2> USE DEF CronKeeps
  <2>1. CASE HandlerFails
    <3> PICK e \in InHandling :
          \E again \in Redelivered({e}) : webhooks' = webhooks \cup again
      BY <2>1 DEF HandlerFails
    <3> PICK again \in Redelivered({e}) : webhooks' = webhooks \cup again
      OBVIOUS
    <3>1. \A f \in again : f.kind = "left"
      BY InHandlingType, RedeliveredType
    <3> QED BY <2>1, <3>1, RowsStay, EventsOpened DEF HandlerFails
  <2>2. CASE CronFails
    BY <2>2, RowsStay DEF CronFails, JoinedEventsOpened
  <2>3. CASE Restart
    <3> PICK again \in Redelivered(InHandling) : webhooks' = webhooks \cup again
      BY <2>3 DEF Restart
    <3>1. \A f \in again : f.kind = "left"
      BY InHandlingType, RedeliveredType
    <3> QED BY <2>3, <3>1, RowsStay, EventsOpened DEF Restart
  <2> QED BY <1>12, <2>1, <2>2, <2>3 DEF Fault
<1>13. CASE Tick
  <2>1. ASSUME NEW r \in Rooms, NEW u \in Users PROVE RowOK(rows[r][u], opened[r][u], now')
    <3>1. /\ rows[r][u] \in Row /\ opened[r][u] \in Nat /\ now \in Nat
          /\ now' \in Nat /\ now <= now' /\ RowOK(rows[r][u], opened[r][u], now)
      BY <1>13, RowsConsistentIsRowOK DEF TypeOK, Tick
    <3> QED BY <3>1, RowOKMonotone
  <2> QED BY <1>13, <2>1 DEF Tick, RowsConsistent, RowOK, JoinedEventsOpened
<1>14. CASE UNCHANGED vars
  BY <1>14, RowsStay DEF vars, JoinedEventsOpened
<1>15. ClientStep => RowsConsistent' /\ JoinedEventsOpened'
  BY <1>1, <1>2 DEF ClientStep, ClientLeaves, ConnectionDrops
<1>16. RequestStep => RowsConsistent' /\ JoinedEventsOpened'
  BY <1>2, <1>3, <1>4 DEF RequestStep, kickPlayerFromCommunity
<1>17. WebhookStep => RowsConsistent' /\ JoinedEventsOpened'
  BY <1>5 DEF WebhookStep
<1>18. HandlerStep => RowsConsistent' /\ JoinedEventsOpened'
  BY <1>6, <1>7, <1>8, <1>10 DEF HandlerStep
<1> QED BY <1>11, <1>12, <1>13, <1>14, <1>15, <1>16, <1>17, <1>18 DEF Next

LEMMA RowsInvInit == Init => RowsInv
<1> SUFFICES ASSUME Init PROVE RowsInv
  OBVIOUS
<1>1. TypeOK
  BY AbsentRowType, IdleCronType DEF Init, TypeOK, NoSid
<1> QED BY <1>1, AbsentRowOK DEF Init, RowsInv, RowsConsistent, RowOK, JoinedEventsOpened

\* A recorded session is one its user opened, a connected row has one, a pending
\* row has none, and the times in a row have passed and are in order, in every
\* reachable state of a deployment of any size.
THEOREM RowsAreConsistent == Spec => []RowsConsistent
<1>1. Init => RowsInv
  BY RowsInvInit
<1>2. RowsInv => RowsConsistent
  BY DEF RowsInv
<1> QED BY <1>1, <1>2, RowsInvStep, PTL DEF Spec

-----------------------------------------------------------------------------
(* Stale leaves                                                            *)

\* What a leave handler knows when it is about to write: the row it read passed
\* both guards.
WritesPassedGuards ==
    \A l \in leaves : l.pc = "write" => ~isStaleLeave(l.snap[l.ev.user], l.ev)

\* Rounding to LiveKit's precision never moves a leave into the future.
LEMMA LeaveEventTimeIsEarly ==
  ASSUME NEW e \in Event
  PROVE  leaveEventTime(e) \in Nat /\ leaveEventTime(e) <= e.at
<1>1. e.at \in Nat /\ Precision \in Nat /\ Precision > 0
  BY ConstantsAssumption DEF Event
<1>2. \A a, p \in Nat : p > 0 => (a \div p) * p \in Nat /\ (a \div p) * p <= a
  OBVIOUS
<1> QED BY <1>1, <1>2 DEF leaveEventTime

LEMMA WritesPassedGuardsStep ==
  TypeOK /\ WritesPassedGuards /\ [Next]_vars => WritesPassedGuards'
<1> SUFFICES ASSUME TypeOK, WritesPassedGuards, [Next]_vars PROVE WritesPassedGuards'
  OBVIOUS
<1> USE DEF livekitVars, handlerVars
<1>1. ASSUME leaves' \subseteq leaves PROVE WritesPassedGuards'
  BY <1>1 DEF WritesPassedGuards, isStaleLeave, leaveEventTime, Present
<1>2. ClientStep \/ RequestStep => UNCHANGED leaves
  BY DEF ClientStep, RequestStep, ClientConnects, ClientLeaves, ConnectionDrops, LosesSession,
         getCommunityVoiceChatCredentials, kickPlayerFromCommunity, endCommunityVoiceChat
<1>3. ASSUME WebhookStep PROVE WritesPassedGuards'
  <2> PICK e \in webhooks :
        \/ handleCommunityParticipantJoined(e)
        \/ LeftDuplicateIdentity(e)
        \/ LeftInterrupted(e)
        \/ LeftRoomDeleted(e)
        \/ LeftClientInitiated(e)
    BY <1>3 DEF WebhookStep
  <2>1. CASE LeftClientInitiated(e) /\ ~isStaleLeave(rows[e.room][e.user], e)
    <3> DEFINE l == [ev |-> e, snap |-> rows[e.room], pc |-> "write"]
    <3>1. leaves' = leaves \cup {l}
      BY <2>1 DEF LeftClientInitiated
    <3>2. ~isStaleLeave(l.snap[l.ev.user], l.ev)
      BY <2>1
    <3> HIDE DEF l
    <3> QED BY <3>1, <3>2 DEF WritesPassedGuards, isStaleLeave, leaveEventTime, Present
  <2>2. CASE ~(LeftClientInitiated(e) /\ ~isStaleLeave(rows[e.room][e.user], e))
    <3>1. UNCHANGED leaves
      BY <2>2 DEF handleCommunityParticipantJoined, LeftDuplicateIdentity, LeftInterrupted,
                  LeftRoomDeleted, LeftClientInitiated
    <3> QED BY <3>1, <1>1
  <2> QED BY <2>1, <2>2
<1>4. ASSUME HandlerStep PROVE WritesPassedGuards'
  <2>1. ASSUME NEW l \in leaves, WriteDisconnected(l) PROVE WritesPassedGuards'
    <3> DEFINE next == [l EXCEPT !.pc = "decide"]
    <3>1. next.pc # "write"
      BY DEF TypeOK, Leave
    <3>2. leaves' \subseteq leaves \cup {next}
      BY <2>1 DEF WriteDisconnected
    <3> HIDE DEF next
    <3> QED BY <3>1, <3>2 DEF WritesPassedGuards, isStaleLeave, leaveEventTime, Present
  <2>2. ASSUME NEW l \in leaves, DecideTeardown(l) PROVE WritesPassedGuards'
    BY <2>2, <1>1 DEF DecideTeardown
  <2>3. ASSUME NEW d \in teardowns,
               TeardownLivekit(d) \/ TeardownRows(d) \/ \E b \in BOOLEAN : TeardownPublish(d, b)
        PROVE  WritesPassedGuards'
    BY <2>3, <1>1 DEF TeardownLivekit, TeardownRows, TeardownPublish
  <2> QED BY <1>4, <2>1, <2>2, <2>3 DEF HandlerStep
<1>5. CronJob => UNCHANGED leaves
  BY DEF CronJob, CronKeeps, CronListActive, CronCount, CronDeleteRows, CronCloseRoom, CronPublish
<1>6. Fault => leaves' \subseteq leaves
  BY DEF Fault, HandlerFails, CronFails, Restart, CronKeeps
<1>7. Tick \/ UNCHANGED vars => UNCHANGED leaves
  BY DEF Tick, vars
<1> QED BY <1>1, <1>2, <1>3, <1>4, <1>5, <1>6, <1>7 DEF Next

\* A voluntary leave disconnects only the session it is about: over a row nobody
\* changed since the handler read it, "disconnected" is written only for the
\* recorded session, or where none is recorded and the row is not renewed well after
\* the client left.  Holds for any number of users, rooms, sessions and faults, any
\* delivery order, any tolerance and any precision of the event time.
THEOREM StaleLeavesAreHarmless == Spec => StaleLeaveDisconnectsNobody
<1> DEFINE Guarded ==
      \A l \in leaves :
         LET row == rows[l.ev.room][l.ev.user] IN
         WriteDisconnected(l) /\ Present(row) /\ row = l.snap[l.ev.user]
           => \/ row.sid = l.ev.sid
              \/ row.sid = NoSid /\ row.statusUpdatedAt <= l.ev.at + Skew
<1>1. Init => WritesPassedGuards
  BY DEF Init, WritesPassedGuards
<1>2. TypeOK /\ WritesPassedGuards /\ [Next]_vars => [Guarded]_vars
  <2> SUFFICES ASSUME TypeOK, WritesPassedGuards, NEW l \in leaves,
                      WriteDisconnected(l), Present(rows[l.ev.room][l.ev.user]),
                      rows[l.ev.room][l.ev.user] = l.snap[l.ev.user]
               PROVE  LET row == rows[l.ev.room][l.ev.user] IN
                      \/ row.sid = l.ev.sid
                      \/ row.sid = NoSid /\ row.statusUpdatedAt <= l.ev.at + Skew
    OBVIOUS
  <2> DEFINE row == rows[l.ev.room][l.ev.user]
  <2>1. l.ev \in Event /\ l.ev.room \in Rooms /\ l.ev.user \in Users /\ l.pc = "write"
    BY DEF TypeOK, Leave, Event, WriteDisconnected
  <2>2. row \in Row
    BY <2>1 DEF TypeOK
  <2>3. ~isStaleLeave(row, l.ev) /\ Present(row)
    BY <2>1 DEF WritesPassedGuards
  <2> HIDE DEF row
  <2>4. \/ row.sid = l.ev.sid
        \/ row.sid = NoSid /\ ~(row.statusUpdatedAt > leaveEventTime(l.ev) + Skew)
    BY <2>3 DEF isStaleLeave
  <2>5. l.ev.at \in Nat /\ leaveEventTime(l.ev) \in Nat /\ leaveEventTime(l.ev) <= l.ev.at
        /\ Skew \in Nat /\ row.statusUpdatedAt \in Nat
    BY <2>1, <2>2, LeaveEventTimeIsEarly, ConstantsAssumption DEF Event, Row
  <2>6. row.sid = l.ev.sid \/ (row.sid = NoSid /\ row.statusUpdatedAt <= l.ev.at + Skew)
    BY <2>4, <2>5
  <2> QED BY <2>6 DEF row
<1>3. Spec => [][Guarded]_vars
  BY <1>1, <1>2, WritesPassedGuardsStep, TypeCorrect, PTL DEF Spec
<1> QED BY <1>3 DEF StaleLeaveDisconnectsNobody

-----------------------------------------------------------------------------
(* Expiration                                                              *)

\* The in-process test of activity and its SQL twin decide alike.
LEMMA ActivityTestsAgree ==
  ASSUME NEW row \in Row, NEW t \in Nat
  PROVE  isActiveCommunityUser(row, t) <=> IsConnectedQuery(row, t)
<1>1. InterruptedTTL \in Nat /\ InitialTTL \in Nat
  BY ConstantsAssumption
<1> QED BY <1>1 DEF isActiveCommunityUser, IsConnectedQuery, InterruptedRecently,
                    PendingRecently, Row

\* The expiration job never removes a room which the status endpoint, asked at that
\* moment, would report active: one answers from SQL, the other in process.
THEOREM JobSparesActive == Spec => JobSparesActiveRooms
<1> DEFINE Spared ==
      \A r \in Rooms : RemovedByJob(r) => ~CommunityVoiceChatStatus(r, now).active
<1>1. TypeOK => Spared
  <2> SUFFICES ASSUME TypeOK, NEW r \in Rooms, RemovedByJob(r)
               PROVE  ~CommunityVoiceChatStatus(r, now).active
    OBVIOUS
  <2>1. UsersIn(r) # {} /\ rows'[r] = EmptyRoom /\ CronDeleteRows
    BY DEF RemovedByJob
  <2>2. rows[r] # EmptyRoom
    BY <2>1 DEF UsersIn, EmptyRoom, Present, AbsentRow
  <2> PICK batch \in ExpiredBatch(now) :
        rows' = [q \in Rooms |-> IF q \in batch THEN EmptyRoom ELSE rows[q]]
    BY <2>1 DEF CronDeleteRows
  <2>3. RoomExpired(r, now)
    BY <2>1, <2>2 DEF ExpiredBatch
  <2>4. SqlActiveModerators(r, now) = {}
    BY <2>3 DEF RoomExpired, SqlActiveModerators
  <2>5. \A u \in Users : rows[r][u] \in Row /\ now \in Nat
    BY DEF TypeOK
  <2>6. {u \in ModeratorsIn(r) : isActiveCommunityUser(rows[r][u], now)} = {}
    BY <2>4, <2>5, ActivityTestsAgree DEF SqlActiveModerators, ModeratorsIn, UsersIn
  <2> QED BY <2>6 DEF CommunityVoiceChatStatus
<1>2. Spec => [][Spared]_vars
  BY <1>1, TypeCorrect, PTL DEF Spec
<1> QED BY <1>2 DEF JobSparesActiveRooms

\* The status endpoint, the bulk one and the list of active rooms answer alike for a room
\* with an active moderator.
THEOREM QueriesAgree == Spec => []StatusQueriesAgree
<1>1. TypeOK => StatusQueriesAgree
  <2> SUFFICES ASSUME TypeOK, NEW r \in Rooms
               PROVE  LET single == CommunityVoiceChatStatus(r, now)
                      IN  /\ single.active = BulkStatus(r, now).active
                          /\ single.active => /\ single = BulkStatus(r, now)
                                              /\ r \in getAllActiveCommunityVoiceChats(now)
    BY DEF StatusQueriesAgree
  <2> DEFINE mods == {u \in ModeratorsIn(r) : isActiveCommunityUser(rows[r][u], now)}
             all == {u \in UsersIn(r) : isActiveCommunityUser(rows[r][u], now)}
             connected == {u \in UsersIn(r) : IsConnectedQuery(rows[r][u], now)}
  <2>1. \A u \in Users :
          isActiveCommunityUser(rows[r][u], now) <=> IsConnectedQuery(rows[r][u], now)
    BY ActivityTestsAgree DEF TypeOK
  <2>2. mods = SqlActiveModerators(r, now) /\ all = connected
    BY <2>1 DEF SqlActiveModerators, ModeratorsIn, UsersIn
  <2>3. mods # {} => r \in getAllActiveCommunityVoiceChats(now)
    <3> SUFFICES ASSUME NEW u \in mods PROVE r \in getAllActiveCommunityVoiceChats(now)
      OBVIOUS
    <3>1. u \in UsersIn(r) /\ rows[r][u].isModerator /\ IsConnectedQuery(rows[r][u], now)
      BY <2>2 DEF SqlActiveModerators, ModeratorsIn
    <3> QED BY <3>1 DEF getAllActiveCommunityVoiceChats, IsConnectedQuery
  <2>4. BulkStatus(r, now) = [active |-> mods # {}, participants |-> Cardinality(all),
                              moderators |-> Cardinality(mods)]
    BY <2>2 DEF BulkStatus
  <2>5. CommunityVoiceChatStatus(r, now) =
          IF mods = {} THEN [active |-> FALSE, participants |-> 0, moderators |-> 0]
          ELSE [active |-> TRUE, participants |-> Cardinality(all),
                moderators |-> Cardinality(mods)]
    BY DEF CommunityVoiceChatStatus
  <2> HIDE DEF mods, all
  <2>6. CASE mods = {}
    <3>1. BulkStatus(r, now).active = (mods # {})
      BY <2>4
    <3>2. CommunityVoiceChatStatus(r, now).active = FALSE
      BY <2>5, <2>6
    <3>3. BulkStatus(r, now).active = FALSE
      BY <2>6, <3>1, Zenon
    <3> QED BY <3>2, <3>3, Zenon
  <2>7. CASE mods # {}
    <3>1. CommunityVoiceChatStatus(r, now) = BulkStatus(r, now)
      BY <2>4, <2>5, <2>7
    <3> QED BY <2>3, <2>7, <3>1
  <2> QED BY <2>6, <2>7
<1> QED BY <1>1, TypeCorrect, PTL DEF Spec

\* A leaving moderator does not take the room from another active one whose row is still
\* what the handler read.
THEOREM LeavingSparesOthers == Spec => LeavingModeratorSparesOthers
<1> DEFINE Spared ==
      \A l \in leaves :
         DecideTeardown(l) /\ teardowns' # teardowns
           => \A u \in SqlActiveModerators(l.ev.room, now) \ {l.ev.user} :
                rows[l.ev.room][u] # l.snap[u]
<1>1. TypeOK => Spared
  <2> SUFFICES ASSUME TypeOK, NEW l \in leaves, DecideTeardown(l),
                      NEW u \in SqlActiveModerators(l.ev.room, now) \ {l.ev.user},
                      rows[l.ev.room][u] = l.snap[u]
               PROVE  teardowns' = teardowns
    OBVIOUS
  <2>1. l.ev.room \in Rooms /\ now \in Nat
    BY DEF TypeOK, Leave, Event
  <2>2. /\ u \in Users \ {l.ev.user} /\ rows[l.ev.room][u].isModerator
        /\ IsConnectedQuery(rows[l.ev.room][u], now)
    BY DEF SqlActiveModerators, ModeratorsIn, UsersIn
  <2>3. rows[l.ev.room][u] \in Row
    BY <2>1, <2>2 DEF TypeOK
  <2>4. l.snap[u].isModerator /\ isActiveCommunityUser(l.snap[u], now)
    BY <2>1, <2>2, <2>3, ActivityTestsAgree
  <2>5. u \in remainingActiveModerators(l)
    BY <2>2, <2>4 DEF remainingActiveModerators
  <2> QED BY <2>5 DEF DecideTeardown
<1>2. Spec => [][Spared]_vars
  BY <1>1, TypeCorrect, PTL DEF Spec
<1> QED BY <1>2 DEF LeavingModeratorSparesOthers

-----------------------------------------------------------------------------
(* Returning moderators                                                    *)

\* Whoever asked for credentials has a row that is no older than the request: the upsert
\* keeps joined_at, and dates the status.
GrantsRecorded ==
    \A r \in Rooms : \A u \in Users :
        Present(rows[r][u]) => granted[r][u] <= rows[r][u].statusUpdatedAt

\* A row that was written now.
WrittenNow(row) == Present(row) => row.statusUpdatedAt = now

LEMMA WritesAreDated ==
  ASSUME NEW row \in Row
  PROVE  /\ \A b \in BOOLEAN : WrittenNow(joinUserToCommunityRoom(row, b))
         /\ \A st \in Statuses :
              /\ WrittenNow(updateCommunityUserStatus(row, st))
              /\ \A sid \in Nat : WrittenNow(updateCommunityUserStatusAndSid(row, st, sid))
  BY DEF WrittenNow, Row, Present, joinUserToCommunityRoom, updateCommunityUserStatus,
         updateCommunityUserStatusAndSid, Statuses

\* Grants of the past: of those who have a row, RowsConsistent knows it.
GrantsPast == \A r \in Rooms : \A u \in Users : granted[r][u] <= now

GrantsInv == GrantsRecorded /\ GrantsPast

\* A step that writes one row now, or removes rows, keeps the grants recorded.
LEMMA WriteRecords ==
  ASSUME TypeOK, GrantsInv, UNCHANGED now,
         NEW r \in Rooms, NEW u \in Users, NEW row \in Row, WrittenNow(row),
         rows' = [rows EXCEPT ![r][u] = row],
         granted' = granted \/ granted' = [granted EXCEPT ![r][u] = now]
  PROVE  GrantsInv'
<1>1. now \in Nat /\ \A q \in Rooms : \A v \in Users : granted[q][v] \in Nat
  BY DEF TypeOK
<1>2. \A q \in Rooms : \A v \in Users :
        rows'[q][v] = IF q = r /\ v = u THEN row ELSE rows[q][v]
  BY DEF TypeOK
<1>3. \A q \in Rooms : \A v \in Users :
        /\ granted'[q][v] \in {granted[q][v], now}
        /\ ~(q = r /\ v = u) => granted'[q][v] = granted[q][v]
  BY DEF TypeOK
<1>4. \A q \in Rooms : \A v \in Users : granted'[q][v] <= now
  BY <1>1, <1>3 DEF GrantsInv, GrantsPast
<1> QED BY <1>2, <1>3, <1>4 DEF GrantsInv, GrantsPast, GrantsRecorded, WrittenNow

LEMMA RemovalRecords ==
  ASSUME GrantsInv, UNCHANGED <<now, granted>>, NEW gone \in SUBSET Rooms,
         rows' = [r \in Rooms |-> IF r \in gone THEN EmptyRoom ELSE rows[r]]
  PROVE  GrantsInv'
<1>1. \A r \in Rooms : \A u \in Users : Present(rows'[r][u]) => rows'[r][u] = rows[r][u]
  BY DEF EmptyRoom, AbsentRow, Present
<1> QED BY <1>1 DEF GrantsInv, GrantsRecorded, GrantsPast

LEMMA OthersRecord ==
  ASSUME GrantsInv, UNCHANGED <<now, granted, rows>> PROVE GrantsInv'
  BY DEF GrantsInv, GrantsRecorded, GrantsPast

LEMMA GrantsInvStep == TypeOK /\ GrantsInv /\ [Next]_vars => GrantsInv'
<1> SUFFICES ASSUME TypeOK, GrantsInv, [Next]_vars PROVE GrantsInv'
  OBVIOUS
<1> USE DEF livekitVars, handlerVars
<1>1. ASSUME NEW r \in Rooms, NEW u \in Users,
             \/ ClientConnects(u, r)
             \/ \E why \in Reasons : LosesSession(u, r, why)
             \/ endCommunityVoiceChat(u, r)
      PROVE  GrantsInv'
  BY <1>1, OthersRecord DEF ClientConnects, LosesSession, endCommunityVoiceChat
<1>2. ASSUME NEW r \in Rooms, NEW u \in Users, NEW b \in BOOLEAN,
             getCommunityVoiceChatCredentials(u, r, b)
      PROVE  GrantsInv'
  <2>1. rows[r][u] \in Row
    BY DEF TypeOK
  <2>2. joinUserToCommunityRoom(rows[r][u], b) \in Row
    BY <2>1, JoinType DEF TypeOK
  <2> QED BY <1>2, <2>1, <2>2, WritesAreDated, WriteRecords DEF getCommunityVoiceChatCredentials
<1>3. ASSUME NEW e \in webhooks,
             \/ handleCommunityParticipantJoined(e)
             \/ LeftDuplicateIdentity(e)
             \/ LeftInterrupted(e)
             \/ LeftRoomDeleted(e)
             \/ LeftClientInitiated(e)
      PROVE  GrantsInv'
  <2>1. Deliver(e)
    BY <1>3 DEF handleCommunityParticipantJoined, LeftDuplicateIdentity, LeftInterrupted,
           LeftRoomDeleted, LeftClientInitiated, LeftBecause
  <2>2. UNCHANGED <<now, granted>> /\ e \in Event
    BY <2>1, DeliverType
  <2>3. /\ e.room \in Rooms /\ e.user \in Users /\ e.sid \in Nat
        /\ rows[e.room][e.user] \in Row
    <3>1. e.room \in Rooms /\ e.user \in Users /\ e.sid \in Nat
      BY <2>2 DEF Event
    <3> QED BY <3>1 DEF TypeOK
  <2> DEFINE row == rows[e.room][e.user]
  <2>4. /\ WrittenNow(updateCommunityUserStatusAndSid(row, "connected", e.sid))
        /\ WrittenNow(updateCommunityUserStatus(row, "connection_interrupted"))
    BY <2>3, WritesAreDated DEF Statuses
  <2>5. /\ updateCommunityUserStatusAndSid(row, "connected", e.sid) \in Row
        /\ updateCommunityUserStatus(row, "connection_interrupted") \in Row
    BY <2>3, UpdateType DEF TypeOK, Statuses
  <2>6. CASE handleCommunityParticipantJoined(e)
    BY <2>2, <2>3, <2>4, <2>5, <2>6, WriteRecords DEF handleCommunityParticipantJoined
  <2>7. CASE LeftInterrupted(e)
    BY <2>2, <2>3, <2>4, <2>5, <2>7, WriteRecords DEF LeftInterrupted
  <2>8. CASE LeftDuplicateIdentity(e) \/ LeftRoomDeleted(e) \/ LeftClientInitiated(e)
    BY <2>2, <2>8, OthersRecord
    DEF LeftDuplicateIdentity, LeftRoomDeleted, LeftClientInitiated
  <2> QED BY <1>3, <2>6, <2>7, <2>8
<1>4. ASSUME NEW l \in leaves, WriteDisconnected(l) PROVE GrantsInv'
  <2>1. l.ev.room \in Rooms /\ l.ev.user \in Users
    BY DEF TypeOK, Leave, Event
  <2> DEFINE row == updateCommunityUserStatus(rows[l.ev.room][l.ev.user], "disconnected")
  <2>2. rows[l.ev.room][l.ev.user] \in Row
    BY <2>1 DEF TypeOK
  <2>3. WrittenNow(row) /\ row \in Row
    BY <2>2, WritesAreDated, UpdateType DEF Statuses, TypeOK
  <2> QED BY <1>4, <2>1, <2>3, WriteRecords DEF WriteDisconnected
<1>5. ASSUME NEW l \in leaves, DecideTeardown(l) PROVE GrantsInv'
  BY <1>5, OthersRecord DEF DecideTeardown
<1>6. ASSUME NEW d \in teardowns,
             TeardownLivekit(d) \/ \E b \in BOOLEAN : TeardownPublish(d, b)
      PROVE  GrantsInv'
  BY <1>6, OthersRecord DEF TeardownLivekit, TeardownPublish
<1>7. ASSUME NEW d \in teardowns, TeardownRows(d) PROVE GrantsInv'
  <2>1. rows' = [r \in Rooms |-> IF r \in {d.ev.room} THEN EmptyRoom ELSE rows[r]]
    BY <1>7 DEF TeardownRows, TypeOK
  <2>2. {d.ev.room} \in SUBSET Rooms
    BY DEF TypeOK, Teardown, Event
  <2> QED BY <1>7, <2>1, <2>2, RemovalRecords DEF TeardownRows
<1>8. ASSUME CronJob PROVE GrantsInv'
  <2> USE DEF CronKeeps
  <2>1. CASE CronDeleteRows
    <3> PICK batch \in ExpiredBatch(now) :
          rows' = [r \in Rooms |-> IF r \in batch THEN EmptyRoom ELSE rows[r]]
      BY <2>1 DEF CronDeleteRows
    <3>1. batch \in SUBSET Rooms
      BY DEF ExpiredBatch
    <3> QED BY <2>1, <3>1, RemovalRecords DEF CronDeleteRows
  <2>2. CASE CronListActive \/ CronCount
    BY <2>2, OthersRecord DEF CronListActive, CronCount
  <2>3. ASSUME NEW r \in Rooms, CronCloseRoom(r) \/ \E b \in BOOLEAN : CronPublish(r, b)
        PROVE  GrantsInv'
    BY <2>3, OthersRecord DEF CronCloseRoom, CronPublish
  <2> QED BY <1>8, <2>1, <2>2, <2>3 DEF CronJob
<1>9. CASE Fault
  BY <1>9, OthersRecord DEF Fault, HandlerFails, CronFails, CronKeeps, Restart
<1>10. CASE Tick
  <2>1. now \in Nat /\ now' = now + 1 /\ UNCHANGED <<rows, granted>>
        /\ \A r \in Rooms : \A u \in Users : granted[r][u] \in Nat
    BY <1>10 DEF Tick, TypeOK
  <2> QED BY <2>1 DEF GrantsInv, GrantsRecorded, GrantsPast
<1>11. CASE UNCHANGED vars
  BY <1>11, OthersRecord DEF vars
<1>12. ClientStep => GrantsInv'
  BY <1>1 DEF ClientStep, ClientLeaves, ConnectionDrops, Reasons
<1>13. RequestStep => GrantsInv'
  BY <1>1, <1>2 DEF RequestStep, kickPlayerFromCommunity, Reasons
<1>14. WebhookStep => GrantsInv'
  BY <1>3 DEF WebhookStep
<1>15. HandlerStep => GrantsInv'
  BY <1>4, <1>5, <1>6, <1>7 DEF HandlerStep
<1> QED BY <1>8, <1>9, <1>10, <1>11, <1>12, <1>13, <1>14, <1>15 DEF Next

\* The job never removes a room from under a moderator who asked for credentials within
\* the time a room may be without one.
THEOREM JobSparesReturning == Spec => JobSparesReturningModerators
<1> DEFINE Spared ==
      \A r \in Rooms : RemovedByJob(r) =>
         \A u \in ModeratorsIn(r) : granted[r][u] + NoModeratorTTL <= now
<1>1. TypeOK /\ GrantsInv => Spared
  <2> SUFFICES ASSUME TypeOK, GrantsInv, NEW r \in Rooms, RemovedByJob(r),
                      NEW u \in ModeratorsIn(r)
               PROVE  granted[r][u] + NoModeratorTTL <= now
    OBVIOUS
  <2>1. UsersIn(r) # {} /\ rows'[r] = EmptyRoom /\ CronDeleteRows
    BY DEF RemovedByJob
  <2>2. rows[r] # EmptyRoom
    BY <2>1 DEF UsersIn, EmptyRoom, Present, AbsentRow
  <2> PICK batch \in ExpiredBatch(now) :
        rows' = [q \in Rooms |-> IF q \in batch THEN EmptyRoom ELSE rows[q]]
    BY <2>1 DEF CronDeleteRows
  <2>3. RoomExpired(r, now)
    BY <2>1, <2>2 DEF ExpiredBatch
  <2>4. rows[r][u].statusUpdatedAt <= now - NoModeratorTTL
    BY <2>3 DEF RoomExpired
  <2>5. u \in Users /\ Present(rows[r][u])
    BY DEF ModeratorsIn, UsersIn
  <2>6. granted[r][u] <= rows[r][u].statusUpdatedAt
    BY <2>5 DEF GrantsInv, GrantsRecorded
  <2>7. /\ granted[r][u] \in Nat /\ now \in Nat /\ NoModeratorTTL \in Nat
        /\ rows[r][u].statusUpdatedAt \in Nat
    BY <2>5, ConstantsAssumption DEF TypeOK, Row
  <2> QED BY <2>4, <2>6, <2>7
<1>2. Init => GrantsInv
  BY DEF Init, GrantsInv, GrantsRecorded, GrantsPast, AbsentRow, Present
<1>3. Spec => [][Spared]_vars
  BY <1>1, <1>2, GrantsInvStep, TypeCorrect, PTL DEF Spec
<1> QED BY <1>3 DEF JobSparesReturningModerators
-----------------------------------------------------------------------------
(* Stranded rows                                                           *)

\* Handlers that outlive their first await are about no replaced session, and those with
\* a snapshot are about a leave.
HandledEnds ==
    /\ \A l \in leaves : l.ev.kind = "left" /\ l.ev.reason # "DUPLICATE_IDENTITY"
    /\ \A d \in teardowns : d.ev.reason # "DUPLICATE_IDENTITY"

\* The session a user has was opened; one that was replaced is not his last.
SessionsOpened == \A r \in Rooms : \A u \in Users : live[r][u] <= opened[r][u]
Replaced(e) ==
    e.kind = "left" /\ e.reason = "DUPLICATE_IDENTITY" => e.sid < opened[e.room][e.user]

StrandInv ==
    RowsInv /\ HandledEnds /\ SessionsOpened /\ \A e \in webhooks : Replaced(e)

\* A step that opens no session, starts handlers of other leaves only, and adds none of a
\* replaced session.
LEMMA StrandInvKept ==
  ASSUME StrandInv, UNCHANGED opened,
         \A r \in Rooms : \A u \in Users : live'[r][u] \in {live[r][u], NoSid},
         \A e \in webhooks' : e \in webhooks \/ e.reason # "DUPLICATE_IDENTITY",
         \A l \in leaves' : \/ \E k \in leaves : l.ev = k.ev
                            \/ l.ev.kind = "left" /\ l.ev.reason # "DUPLICATE_IDENTITY",
         \A d \in teardowns' : \/ \E t \in teardowns : d.ev = t.ev
                               \/ d.ev.reason # "DUPLICATE_IDENTITY"
  PROVE  HandledEnds' /\ SessionsOpened' /\ \A e \in webhooks' : Replaced(e)'
<1>1. HandledEnds'
  BY DEF StrandInv, HandledEnds
<1>2. SessionsOpened'
  <2> SUFFICES ASSUME NEW r \in Rooms, NEW u \in Users PROVE live'[r][u] <= opened[r][u]
    BY DEF SessionsOpened
  <2>1. opened[r][u] \in Nat /\ live[r][u] <= opened[r][u]
    BY DEF StrandInv, SessionsOpened, RowsInv, TypeOK
  <2>2. live'[r][u] = live[r][u] \/ live'[r][u] = 0
    BY DEF NoSid
  <2> QED BY <2>1, <2>2
<1>3. \A e \in webhooks' : Replaced(e)'
  BY DEF StrandInv, Replaced
<1> QED BY <1>1, <1>2, <1>3

LEMMA DeleteRoomEvents ==
  ASSUME NEW r \in Rooms, TypeOK, deleteRoom(r)
  PROVE  /\ webhooks \subseteq webhooks'
         /\ \A e \in webhooks' : e \in webhooks \/ e.reason # "DUPLICATE_IDENTITY"
         /\ \A q \in Rooms : \A u \in Users :
              \/ live'[q][u] = live[q][u]
              \/ /\ live'[q][u] = NoSid
                 /\ \E e \in webhooks' : /\ e.kind = "left" /\ e.user = u /\ e.room = q
                                         /\ e.sid = live[q][u]
<1>1. CASE Spend /\ UNCHANGED <<live, webhooks>>
  BY <1>1
<1>2. CASE /\ live' = [live EXCEPT ![r] = [u \in Users |-> NoSid]]
           /\ webhooks' = webhooks
                \cup {LeftEvent(u, r, "ROOM_DELETED") : u \in {v \in Users : live[r][v] # NoSid}}
  <2>1. ASSUME NEW u \in Users
        PROVE  LET e == LeftEvent(u, r, "ROOM_DELETED")
               IN  /\ e.kind = "left" /\ e.user = u /\ e.room = r /\ e.sid = live[r][u]
                   /\ e.reason = "ROOM_DELETED"
    BY DEF LeftEvent, EventOf
  <2>2. \A e \in webhooks' : e \in webhooks \/ e.reason # "DUPLICATE_IDENTITY"
    BY <1>2, <2>1
  <2>3. ASSUME NEW q \in Rooms, NEW u \in Users, live'[q][u] # live[q][u]
        PROVE  /\ live'[q][u] = NoSid
               /\ \E e \in webhooks' : /\ e.kind = "left" /\ e.user = u /\ e.room = q
                                       /\ e.sid = live[q][u]
    <3>1. q = r /\ live'[q][u] = NoSid /\ live[r][u] # NoSid
      BY <1>2, <2>3 DEF TypeOK
    <3>2. LeftEvent(u, r, "ROOM_DELETED") \in webhooks'
      BY <1>2, <3>1
    <3> QED BY <2>1, <3>1, <3>2
  <2> QED BY <1>2, <2>2, <2>3
<1> QED BY <1>1, <1>2 DEF deleteRoom

LEMMA StrandInvStep == StrandInv /\ [Next]_vars => StrandInv'
<1> SUFFICES ASSUME StrandInv, [Next]_vars PROVE StrandInv'
  OBVIOUS
<1> DEFINE Goal == HandledEnds' /\ SessionsOpened' /\ \A e \in webhooks' : Replaced(e)'
<1>0. RowsInv' /\ TypeOK /\ TypeOK'
  BY RowsInvStep DEF StrandInv, RowsInv
<1> SUFFICES Goal
  BY <1>0 DEF StrandInv
<1> USE <1>0 DEF livekitVars, handlerVars
<1>1. ASSUME NEW r \in Rooms, NEW u \in Users, ClientConnects(u, r) PROVE Goal
  <2>0. \A q \in Rooms : \A v \in Users :
          opened[q][v] \in Nat /\ live[q][v] \in Nat /\ live[q][v] <= opened[q][v]
    BY DEF TypeOK, StrandInv, SessionsOpened
  <2>1. /\ opened'[r][u] = opened[r][u] + 1 /\ live'[r][u] = opened[r][u] + 1
        /\ opened[r][u] \in Nat /\ live[r][u] \in Nat /\ live[r][u] <= opened[r][u]
        /\ \A q \in Rooms : \A v \in Users :
             /\ opened[q][v] <= opened'[q][v] /\ live[q][v] <= opened[q][v]
             /\ live'[q][v] = live[q][v] \/ (q = r /\ v = u)
    BY <1>1, <2>0 DEF ClientConnects, TypeOK
  <2>2. SessionsOpened'
    <3> SUFFICES ASSUME NEW q \in Rooms, NEW v \in Users PROVE live'[q][v] <= opened'[q][v]
      BY DEF SessionsOpened
    <3>1. /\ opened'[q][v] \in Nat /\ opened[q][v] \in Nat /\ live[q][v] \in Nat
          /\ opened[q][v] <= opened'[q][v] /\ live[q][v] <= opened[q][v]
      BY <2>0, <2>1 DEF TypeOK
    <3> QED BY <2>1, <3>1
  <2>3. ASSUME NEW e \in webhooks', e.kind = "left", e.reason = "DUPLICATE_IDENTITY"
        PROVE  e.sid < opened'[e.room][e.user]
    <3>1. CASE e \in webhooks
      <4>1. e.room \in Rooms /\ e.user \in Users /\ e.sid \in Nat
        BY <3>1 DEF TypeOK, Event
      <4>2. e.sid < opened[e.room][e.user]
        BY <2>3, <3>1 DEF StrandInv, Replaced
      <4>3. opened[e.room][e.user] \in Nat /\ opened'[e.room][e.user] \in Nat
        BY <4>1 DEF TypeOK
      <4> QED BY <2>1, <4>1, <4>2, <4>3
    <3>2. CASE e = LeftEvent(u, r, "DUPLICATE_IDENTITY")
      BY <2>1, <3>2 DEF LeftEvent, EventOf
    <3>3. e # EventOf("joined", u, r, "none", opened[r][u] + 1, 0)
      BY <2>3 DEF EventOf
    <3> QED BY <1>1, <3>1, <3>2, <3>3 DEF ClientConnects
  <2> QED BY <1>1, <2>2, <2>3 DEF ClientConnects, StrandInv, HandledEnds, Replaced
<1>2. ASSUME NEW r \in Rooms, NEW u \in Users, NEW why, why # "DUPLICATE_IDENTITY",
             LosesSession(u, r, why)
      PROVE  Goal
  <2>1. LeftEvent(u, r, why).reason # "DUPLICATE_IDENTITY"
    BY <1>2 DEF LeftEvent, EventOf
  <2>2. \A q \in Rooms : \A v \in Users : live'[q][v] \in {live[q][v], NoSid}
    BY <1>2 DEF LosesSession, TypeOK
  <2> QED BY <1>2, <2>1, <2>2, StrandInvKept DEF LosesSession
<1>3. ASSUME NEW r \in Rooms, NEW u \in Users,
             \/ \E b \in BOOLEAN : getCommunityVoiceChatCredentials(u, r, b)
             \/ endCommunityVoiceChat(u, r)
      PROVE  Goal
  <2>1. UNCHANGED <<live, opened, webhooks, leaves>>
    BY <1>3 DEF getCommunityVoiceChatCredentials, endCommunityVoiceChat
  <2>2. \A d \in teardowns' : d \in teardowns \/ d.ev.reason # "DUPLICATE_IDENTITY"
    BY <1>3 DEF getCommunityVoiceChatCredentials, endCommunityVoiceChat, StartTeardown, EventOf
  <2> QED BY <2>1, <2>2, StrandInvKept
<1>4. ASSUME NEW e \in webhooks,
             \/ handleCommunityParticipantJoined(e)
             \/ LeftDuplicateIdentity(e)
             \/ LeftInterrupted(e)
             \/ LeftRoomDeleted(e)
             \/ LeftClientInitiated(e)
      PROVE  Goal
  <2>1. Deliver(e)
    BY <1>4 DEF handleCommunityParticipantJoined, LeftDuplicateIdentity, LeftInterrupted,
           LeftRoomDeleted, LeftClientInitiated, LeftBecause
  <2>2. webhooks' \subseteq webhooks /\ UNCHANGED <<live, opened>>
    BY <2>1, DeliverType
  <2>3. \A l \in leaves' : \/ l \in leaves
                           \/ l.ev.kind = "left" /\ l.ev.reason # "DUPLICATE_IDENTITY"
    BY <1>4 DEF handleCommunityParticipantJoined, LeftDuplicateIdentity, LeftInterrupted,
           LeftRoomDeleted, LeftClientInitiated, LeftBecause
  <2>4. \A d \in teardowns' : d \in teardowns \/ d.ev.reason # "DUPLICATE_IDENTITY"
    BY <1>4 DEF handleCommunityParticipantJoined, LeftDuplicateIdentity, LeftInterrupted,
           LeftRoomDeleted, LeftClientInitiated, LeftBecause, StartTeardown
  <2> QED BY <2>2, <2>3, <2>4, StrandInvKept
<1>5. ASSUME NEW l \in leaves, WriteDisconnected(l) \/ DecideTeardown(l) PROVE Goal
  <2>1. UNCHANGED <<live, opened, webhooks>>
    BY <1>5 DEF WriteDisconnected, DecideTeardown
  <2>2. \A m \in leaves' : \E k \in leaves : m.ev = k.ev
    BY <1>5 DEF WriteDisconnected, DecideTeardown, TypeOK, Leave
  <2>3. \A d \in teardowns' : d \in teardowns \/ d.ev = l.ev
    BY <1>5 DEF WriteDisconnected, DecideTeardown, StartTeardown
  <2>4. l.ev.reason # "DUPLICATE_IDENTITY"
    BY DEF StrandInv, HandledEnds
  <2> QED BY <2>1, <2>2, <2>3, <2>4, StrandInvKept
<1>6. ASSUME NEW d \in teardowns,
             \/ TeardownLivekit(d) \/ TeardownRows(d)
             \/ \E b \in BOOLEAN : TeardownPublish(d, b)
      PROVE  Goal
  <2>1. d.ev.room \in Rooms
    BY DEF TypeOK, Teardown, Event
  <2>2. UNCHANGED <<opened, leaves>> /\ \A t \in teardowns' : \E k \in teardowns : t.ev = k.ev
    BY <1>6 DEF TeardownLivekit, TeardownRows, TeardownPublish, TypeOK, Teardown
  <2>3. UNCHANGED <<live, webhooks>> \/ deleteRoom(d.ev.room)
    BY <1>6 DEF TeardownLivekit, TeardownRows, TeardownPublish
  <2>4. /\ \A e \in webhooks' : e \in webhooks \/ e.reason # "DUPLICATE_IDENTITY"
        /\ \A r \in Rooms : \A u \in Users : live'[r][u] \in {live[r][u], NoSid}
    BY <2>1, <2>3, DeleteRoomEvents
  <2> QED BY <2>2, <2>4, StrandInvKept
<1>7. ASSUME CronJob PROVE Goal
  <2>1. UNCHANGED <<opened, leaves, teardowns>>
    BY <1>7 DEF CronJob, CronListActive, CronCount, CronDeleteRows, CronCloseRoom, CronPublish,
       CronKeeps
  <2>2. UNCHANGED <<live, webhooks>> \/ \E r \in Rooms : deleteRoom(r)
    BY <1>7 DEF CronJob, CronListActive, CronCount, CronDeleteRows, CronCloseRoom, CronPublish
  <2>3. /\ \A e \in webhooks' : e \in webhooks \/ e.reason # "DUPLICATE_IDENTITY"
        /\ \A r \in Rooms : \A u \in Users : live'[r][u] \in {live[r][u], NoSid}
    BY <2>2, DeleteRoomEvents
  <2> QED BY <2>1, <2>3, StrandInvKept
<1>8. ASSUME Fault PROVE Goal
  <2>1. UNCHANGED <<live, opened>> /\ leaves' \subseteq leaves /\ teardowns' \subseteq teardowns
    BY <1>8 DEF Fault, HandlerFails, CronFails, CronKeeps, Restart
  <2>2. \A e \in webhooks' : e \in webhooks \/ e \in InHandling
    BY <1>8 DEF Fault, HandlerFails, CronFails, CronKeeps, Restart, Redelivered
  <2>3. \A e \in InHandling : e.reason # "DUPLICATE_IDENTITY"
    BY DEF InHandling, StrandInv, HandledEnds
  <2> QED BY <2>1, <2>2, <2>3, StrandInvKept
<1>9. ASSUME Tick \/ UNCHANGED vars PROVE Goal
  <2>1. UNCHANGED <<live, opened, webhooks, leaves, teardowns>>
    BY <1>9 DEF Tick, vars
  <2> QED BY <2>1, StrandInvKept
<1>10. ClientStep => Goal
  BY <1>1, <1>2 DEF ClientStep, ClientLeaves, ConnectionDrops
<1>11. RequestStep => Goal
  BY <1>2, <1>3 DEF RequestStep, kickPlayerFromCommunity
<1>12. WebhookStep => Goal
  BY <1>4 DEF WebhookStep
<1>13. HandlerStep => Goal
  BY <1>5, <1>6 DEF HandlerStep
<1> QED BY <1>7, <1>8, <1>9, <1>10, <1>11, <1>12, <1>13 DEF Next

\* A step that leaves the row of a user alone, or no longer connected, and everything that
\* may correct it in place, and that brings the news of a session that goes, strands
\* nobody.
LEMMA StrandsNobody ==
  ASSUME NEW r \in Rooms, NEW u \in Users,
         rows'[r][u].status = "connected" => rows'[r][u] = rows[r][u],
         \/ live'[r][u] = live[r][u]
         \/ \E e \in webhooks' :
              /\ e.user = u /\ e.room = r
              /\ e.kind = "joined" \/ (e.kind = "left" /\ e.sid = live[r][u]),
         \A e \in webhooks : e.user = u /\ e.room = r => e \in webhooks',
         \A l \in leaves : EndsTracked(l.ev, u, r) /\ l.pc = "write" =>
            \/ l \in leaves' \/ l.ev \in webhooks' \/ rows'[r][u].status # "connected",
         \A d \in teardowns : EndsTracked(d.ev, u, r) /\ "db" \in d.todo =>
            \/ \E t \in teardowns' : t.ev = d.ev /\ "db" \in t.todo
            \/ d.ev \in webhooks' \/ rows'[r][u].status # "connected"
  PROVE  Stranded(u, r)' => Stranded(u, r)
<1> SUFFICES ASSUME Stranded(u, r)' PROVE Stranded(u, r)
  OBVIOUS
<1>1. /\ rows'[r][u] = rows[r][u] /\ rows'[r][u].status = "connected"
      /\ live'[r][u] # rows[r][u].sid /\ ~Correctable(u, r)'
  BY DEF Stranded
<1>2. \A e : EndsTracked(e, u, r) => EndsTracked(e, u, r)'
  BY <1>1 DEF EndsTracked
<1>3. ASSUME Correctable(u, r) PROVE FALSE
  <2>1. CASE \E e \in webhooks : EndsTracked(e, u, r)
    BY <1>1, <1>2, <2>1 DEF Correctable, EndsTracked
  <2>2. CASE \E e \in webhooks : e.kind = "joined" /\ e.user = u /\ e.room = r
    BY <1>1, <2>2 DEF Correctable
  <2>3. ASSUME NEW l \in leaves, EndsTracked(l.ev, u, r), l.pc = "write" PROVE FALSE
    <3>1. EndsTracked(l.ev, u, r)'
      BY <1>2, <2>3
    <3>2. l \in leaves' \/ l.ev \in webhooks'
      BY <1>1, <2>3
    <3> QED BY <1>1, <2>3, <3>1, <3>2 DEF Correctable
  <2>4. ASSUME NEW d \in teardowns, EndsTracked(d.ev, u, r), "db" \in d.todo PROVE FALSE
    <3>1. EndsTracked(d.ev, u, r)'
      BY <1>2, <2>4
    <3>2. (\E t \in teardowns' : t.ev = d.ev /\ "db" \in t.todo) \/ d.ev \in webhooks'
      BY <1>1, <2>4
    <3> QED BY <1>1, <2>4, <3>1, <3>2 DEF Correctable
  <2> QED BY <1>3, <2>1, <2>2, <2>3, <2>4 DEF Correctable
<1>4. live[r][u] # rows[r][u].sid
  <2> SUFFICES ASSUME live[r][u] = rows[r][u].sid PROVE FALSE
    OBVIOUS
  <2>1. PICK e \in webhooks' :
          /\ e.user = u /\ e.room = r
          /\ e.kind = "joined" \/ (e.kind = "left" /\ e.sid = rows'[r][u].sid)
    BY <1>1
  <2> QED BY <1>1, <2>1 DEF Correctable, EndsTracked
<1> QED BY <1>1, <1>3, <1>4 DEF Stranded

\* What a webhook does to the row of its own user.
LEMMA OwnWebhookStrands ==
  ASSUME StrandInv, NEW e \in webhooks,
         \/ handleCommunityParticipantJoined(e)
         \/ LeftDuplicateIdentity(e)
         \/ LeftInterrupted(e)
         \/ LeftRoomDeleted(e)
         \/ LeftClientInitiated(e),
         ~Stranded(e.user, e.room), Stranded(e.user, e.room)'
  PROVE  OutOfTurn(e.user, e.room)
<1> DEFINE r == e.room
           u == e.user
<1>1. Deliver(e)
  BY DEF handleCommunityParticipantJoined, LeftDuplicateIdentity, LeftInterrupted,
         LeftRoomDeleted, LeftClientInitiated, LeftBecause
<1>2. /\ TypeOK /\ e \in Event /\ r \in Rooms /\ u \in Users /\ e.sid \in Nat
      /\ webhooks' \in {webhooks, webhooks \ {e}} /\ UNCHANGED <<live, opened>>
  BY <1>1, DeliverType DEF StrandInv, RowsInv, Event, Deliver
<1>3. rows'[r][u].status = "connected" /\ live[r][u] # rows'[r][u].sid /\ ~Correctable(u, r)'
  BY <1>2 DEF Stranded
<1>4. CASE handleCommunityParticipantJoined(e)
  <2>1. rows'[r][u] = updateCommunityUserStatusAndSid(rows[r][u], "connected", e.sid)
        /\ rows[r][u] \in Row
    BY <1>2, <1>4 DEF handleCommunityParticipantJoined, TypeOK
  <2>2. rows'[r][u].sid = e.sid
    BY <1>3, <2>1 DEF updateCommunityUserStatusAndSid, Row, Present
  <2> QED BY <1>2, <1>3, <1>4, <2>2 DEF OutOfTurn
<1>5. CASE LeftInterrupted(e)
  <2>1. rows'[r][u] = updateCommunityUserStatus(rows[r][u], "connection_interrupted")
        /\ rows[r][u] \in Row
    BY <1>2, <1>5 DEF LeftInterrupted, TypeOK
  <2> QED BY <1>3, <2>1 DEF updateCommunityUserStatus, Row, Present
<1>6. CASE LeftDuplicateIdentity(e) \/ LeftRoomDeleted(e) \/ LeftClientInitiated(e)
  <2>1. UNCHANGED rows /\ leaves \subseteq leaves' /\ teardowns \subseteq teardowns'
        /\ e.kind = "left"
    BY <1>6 DEF LeftDuplicateIdentity, LeftRoomDeleted, LeftClientInitiated, LeftBecause,
       StartTeardown
  \* Nothing else could correct the row, so the event is the one of its session.
  <2>2. Correctable(u, r)
    BY <1>2, <1>3, <2>1 DEF Stranded
  <2>3. EndsTracked(e, u, r)
    <3> SUFFICES ASSUME ~EndsTracked(e, u, r) PROVE Correctable(u, r)'
      BY <1>3
    <3>1. \A f : EndsTracked(f, u, r) <=> EndsTracked(f, u, r)'
      BY <2>1 DEF EndsTracked
    <3>2. \A f \in webhooks : f = e \/ f \in webhooks'
      BY <1>2
    <3>3. e.kind # "joined"
      BY <2>1
    <3> QED BY <2>1, <2>2, <3>1, <3>2, <3>3 DEF Correctable
  <2>4. e.sid = rows[r][u].sid /\ EndsTracked(e, u, r)'
    BY <2>1, <2>3 DEF EndsTracked
  <2>5. ~LeftRoomDeleted(e)
    <3> SUFFICES ASSUME LeftRoomDeleted(e) PROVE Correctable(u, r)'
      BY <1>3
    <3> DEFINE d == [ev |-> e, count |-> getCommunityVoiceChatParticipantCount(e.room),
                     todo |-> {"db"}]
    <3>1. d \in teardowns' /\ d.ev = e /\ "db" \in d.todo
      BY DEF LeftRoomDeleted, StartTeardown
    <3> HIDE DEF d
    <3> QED BY <2>4, <3>1 DEF Correctable
  <2>6. ~LeftClientInitiated(e)
    <3> SUFFICES ASSUME LeftClientInitiated(e) PROVE Correctable(u, r)'
      BY <1>3
    <3>1. rows[r][u].sid # NoSid
      BY <1>2, <1>3, <2>1 DEF StrandInv, RowsInv, RowsConsistent
    <3>2. ~isStaleLeave(rows[r][u], e)
      BY <2>4, <3>1 DEF isStaleLeave
    <3> DEFINE l == [ev |-> e, snap |-> rows[e.room], pc |-> "write"]
    <3>3. l \in leaves' /\ l.ev = e /\ l.pc = "write"
      BY <3>2 DEF LeftClientInitiated
    <3> HIDE DEF l
    <3> QED BY <2>4, <3>3 DEF Correctable
  <2>7. LaterSessionKnown(e)
    <3>1. e.sid < opened[r][u] /\ opened[r][u] \in Nat
      BY <1>2, <1>6, <2>5, <2>6
      DEF LeftDuplicateIdentity, LeftBecause, StrandInv, Replaced, TypeOK
    <3>2. e.sid + 1 \in (e.sid + 1) .. opened[r][u]
      BY <1>2, <3>1
    <3>3. ~\E d \in webhooks : d.kind = "joined" /\ d.room = r /\ d.user = u
      BY <1>2, <1>3, <2>1 DEF Correctable
    <3> QED BY <3>2, <3>3 DEF LaterSessionKnown
  <2> QED BY <1>6, <2>5, <2>6, <2>7 DEF OutOfTurn
<1> QED BY <1>4, <1>5, <1>6

LEMMA StrandedOutOfTurn ==
  ASSUME StrandInv, KeepsRetrying, [Next]_vars, NEW r \in Rooms, NEW u \in Users,
         ~Stranded(u, r), Stranded(u, r)'
  PROVE  OutOfTurn(u, r)
<1>0. TypeOK
  BY DEF StrandInv, RowsInv
<1> USE <1>0 DEF livekitVars, handlerVars
\* What a step keeps, if StrandsNobody is to apply to it.
<1> DEFINE RowStays == rows'[r][u].status = "connected" => rows'[r][u] = rows[r][u]
           LiveTold == \/ live'[r][u] = live[r][u]
                       \/ \E e \in webhooks' :
                            /\ e.user = u /\ e.room = r
                            /\ e.kind = "joined" \/ (e.kind = "left" /\ e.sid = live[r][u])
           EventsStay == webhooks \subseteq webhooks'
           LeavesStay == leaves \subseteq leaves'
           TeardownsStay == \A d \in teardowns : EndsTracked(d.ev, u, r) /\ "db" \in d.todo =>
                              \E t \in teardowns' : t.ev = d.ev /\ "db" \in t.todo
<1>1. ASSUME RowStays, LiveTold, EventsStay, LeavesStay, TeardownsStay PROVE FALSE
  BY <1>1, StrandsNobody
<1>2. ASSUME NEW q \in Rooms, deleteRoom(q) PROVE LiveTold /\ EventsStay
  BY <1>2, DeleteRoomEvents
<1>3. ASSUME NEW q \in Rooms, NEW v \in Users, ClientConnects(v, q) PROVE FALSE
  <2> DEFINE e == EventOf("joined", v, q, "none", opened[q][v] + 1, 0)
  <2>1. e.kind = "joined" /\ e.user = v /\ e.room = q /\ e \in webhooks'
    BY <1>3 DEF ClientConnects, EventOf
  <2>2. LiveTold
    <3> HIDE DEF e
    <3>1. live'[r][u] = live[r][u] \/ (q = r /\ v = u)
      BY <1>3 DEF ClientConnects, TypeOK
    <3> QED BY <2>1, <3>1
  <2> QED BY <1>1, <1>3, <2>2 DEF ClientConnects
<1>4. ASSUME NEW q \in Rooms, NEW v \in Users, NEW why, LosesSession(v, q, why) PROVE FALSE
  <2> DEFINE e == LeftEvent(v, q, why)
  <2>1. e.kind = "left" /\ e.user = v /\ e.room = q /\ e.sid = live[q][v] /\ e \in webhooks'
    BY <1>4 DEF LosesSession, LeftEvent, EventOf
  <2>2. LiveTold
    <3> HIDE DEF e
    <3>1. live'[r][u] = live[r][u] \/ (q = r /\ v = u)
      BY <1>4 DEF LosesSession, TypeOK
    <3> QED BY <2>1, <3>1
  <2> QED BY <1>1, <1>4, <2>2 DEF LosesSession
<1>5. ASSUME NEW q \in Rooms, NEW v \in Users, NEW b \in BOOLEAN,
             getCommunityVoiceChatCredentials(v, q, b)
      PROVE  FALSE
  <2>1. RowStays
    BY <1>5 DEF getCommunityVoiceChatCredentials, joinUserToCommunityRoom, TypeOK
  <2> QED BY <1>1, <1>5, <2>1 DEF getCommunityVoiceChatCredentials
<1>6. ASSUME NEW q \in Rooms, NEW v \in Users, endCommunityVoiceChat(v, q) PROVE FALSE
  BY <1>1, <1>6 DEF endCommunityVoiceChat, StartTeardown
<1>7. ASSUME NEW e \in webhooks,
             \/ handleCommunityParticipantJoined(e)
             \/ LeftDuplicateIdentity(e)
             \/ LeftInterrupted(e)
             \/ LeftRoomDeleted(e)
             \/ LeftClientInitiated(e)
      PROVE  OutOfTurn(u, r)
  <2>1. CASE e.user = u /\ e.room = r
    BY <1>7, <2>1, OwnWebhookStrands
  <2>2. CASE ~(e.user = u /\ e.room = r)
    <3>1. Deliver(e)
      BY <1>7 DEF handleCommunityParticipantJoined, LeftDuplicateIdentity, LeftInterrupted,
         LeftRoomDeleted, LeftClientInitiated, LeftBecause
    <3>2. /\ UNCHANGED live /\ webhooks \ {e} \subseteq webhooks'
      BY <3>1 DEF Deliver
    <3>3. e.room \in Rooms /\ e.user \in Users
      BY DEF TypeOK, Event
    <3>4. rows'[r][u] = rows[r][u]
      BY <1>7, <2>2, <3>3 DEF handleCommunityParticipantJoined, LeftDuplicateIdentity,
         LeftInterrupted, LeftRoomDeleted, LeftClientInitiated, TypeOK
    <3>5. leaves \subseteq leaves' /\ teardowns \subseteq teardowns'
      BY <1>7 DEF handleCommunityParticipantJoined, LeftDuplicateIdentity, LeftInterrupted,
         LeftRoomDeleted, LeftClientInitiated, StartTeardown
    <3> QED BY <2>2, <3>2, <3>4, <3>5, StrandsNobody
  <2> QED BY <2>1, <2>2
<1>8. ASSUME NEW l \in leaves, WriteDisconnected(l) PROVE FALSE
  <2>1. l.ev.room \in Rooms /\ l.ev.user \in Users
    BY DEF TypeOK, Leave, Event
  <2>2. \/ rows'[r][u] = rows[r][u] /\ ~(l.ev.user = u /\ l.ev.room = r)
        \/ rows'[r][u] = updateCommunityUserStatus(rows[r][u], "disconnected")
    BY <1>8, <2>1 DEF WriteDisconnected, TypeOK
  <2>3. \/ rows'[r][u] = rows[r][u] /\ ~(l.ev.user = u /\ l.ev.room = r)
        \/ rows'[r][u].status # "connected"
    <3>1. rows[r][u] \in Row
      BY DEF TypeOK
    <3>2. updateCommunityUserStatus(rows[r][u], "disconnected").status # "connected"
      BY <3>1 DEF updateCommunityUserStatus, Row, Present
    <3> QED BY <2>2, <3>2
  <2>4. UNCHANGED <<live, webhooks, teardowns>> /\ leaves \ {l} \subseteq leaves'
    BY <1>8 DEF WriteDisconnected
  <2>5. EndsTracked(l.ev, u, r) => l.ev.user = u /\ l.ev.room = r
    BY DEF EndsTracked
  <2> QED BY <2>3, <2>4, <2>5, StrandsNobody
<1>9. ASSUME NEW l \in leaves, DecideTeardown(l) PROVE FALSE
  <2>1. /\ UNCHANGED <<rows, live, webhooks>> /\ leaves \ {l} \subseteq leaves'
        /\ l.pc = "decide" /\ teardowns \subseteq teardowns'
    BY <1>9 DEF DecideTeardown, StartTeardown
  <2> QED BY <2>1, StrandsNobody
<1>10. ASSUME NEW d \in teardowns, TeardownLivekit(d) PROVE FALSE
  <2>1. d.ev.room \in Rooms /\ [d EXCEPT !.todo = @ \ {"livekit"}].ev = d.ev
        /\ [d EXCEPT !.todo = @ \ {"livekit"}].todo = d.todo \ {"livekit"}
    BY DEF TypeOK, Teardown, Event
  <2> DEFINE next == [d EXCEPT !.todo = @ \ {"livekit"}]
  <2>2. teardowns' = (teardowns \ {d}) \cup {next} /\ next.ev = d.ev
        /\ ("db" \in d.todo => "db" \in next.todo)
    BY <1>10, <2>1 DEF TeardownLivekit
  <2> HIDE DEF next
  <2>3. TeardownsStay
    BY <2>2
  <2> QED BY <1>1, <1>2, <1>10, <2>1, <2>3 DEF TeardownLivekit
<1>11. ASSUME NEW d \in teardowns, TeardownRows(d) PROVE FALSE
  <2>1. d.ev.room \in Rooms
    BY DEF TypeOK, Teardown, Event
  <2>2. \/ rows'[r][u] = rows[r][u] /\ d.ev.room # r
        \/ rows'[r][u].status # "connected"
    BY <1>11, <2>1 DEF TeardownRows, TypeOK, EmptyRoom, AbsentRow
  <2>3. UNCHANGED <<live, webhooks, leaves>> /\ teardowns \ {d} \subseteq teardowns'
    BY <1>11 DEF TeardownRows
  <2>4. EndsTracked(d.ev, u, r) => d.ev.room = r
    BY DEF EndsTracked
  <2> QED BY <2>2, <2>3, <2>4, StrandsNobody
<1>12. ASSUME NEW d \in teardowns, NEW b \in BOOLEAN, TeardownPublish(d, b) PROVE FALSE
  BY <1>1, <1>12 DEF TeardownPublish
<1>13. ASSUME CronJob PROVE FALSE
  <2>1. UNCHANGED <<leaves, teardowns>>
    BY <1>13 DEF CronJob, CronListActive, CronCount, CronDeleteRows, CronCloseRoom, CronPublish,
       CronKeeps
  <2>2. UNCHANGED <<live, webhooks>> \/ \E q \in Rooms : deleteRoom(q)
    BY <1>13 DEF CronJob, CronListActive, CronCount, CronDeleteRows, CronCloseRoom, CronPublish
  <2>3. RowStays
    <3>1. CASE CronDeleteRows
      <4> PICK batch \in ExpiredBatch(now) :
            rows' = [q \in Rooms |-> IF q \in batch THEN EmptyRoom ELSE rows[q]]
        BY <3>1 DEF CronDeleteRows
      <4> QED BY DEF EmptyRoom, AbsentRow
    <3>2. CASE UNCHANGED rows
      BY <3>2
    <3> QED BY <1>13, <3>1, <3>2 DEF CronJob, CronListActive, CronCount, CronCloseRoom, CronPublish
  <2> QED BY <1>1, <1>2, <2>1, <2>2, <2>3
<1>14. ASSUME Fault PROVE FALSE
  <2>1. UNCHANGED <<rows, live>> /\ webhooks \subseteq webhooks'
    BY <1>14 DEF Fault, HandlerFails, CronFails, CronKeeps, Restart
  \* The events of the handlers that are lost come again.
  <2>2. /\ \A l \in leaves : l.ev.kind = "left" => l \in leaves' \/ l.ev \in webhooks'
        /\ \A d \in teardowns : d.ev.kind = "left" => d \in teardowns' \/ d.ev \in webhooks'
    <3>1. CASE HandlerFails
      <4> PICK e \in InHandling : \E again \in Redelivered({e}) :
            /\ webhooks' = webhooks \cup again
            /\ leaves' = {l \in leaves : l.ev # e}
            /\ teardowns' = {d \in teardowns : d.ev # e}
        BY <3>1 DEF HandlerFails
      <4>1. e.kind = "left" => e \in webhooks'
        BY DEF Redelivered
      <4> QED BY <4>1
    <3>2. CASE Restart
      <4>1. PICK again \in Redelivered(InHandling) : webhooks' = webhooks \cup again
        BY <3>2 DEF Restart
      <4>2. \A e \in InHandling : e.kind = "left" => e \in webhooks'
        BY <4>1 DEF Redelivered
      <4> QED BY <4>2 DEF InHandling
    <3>3. CASE CronFails
      BY <3>3 DEF CronFails, CronKeeps
    <3> QED BY <1>14, <3>1, <3>2, <3>3 DEF Fault
  <2>3. \A e : EndsTracked(e, u, r) => e.kind = "left"
    BY DEF EndsTracked
  <2> QED BY <2>1, <2>2, <2>3, StrandsNobody
<1>15. ASSUME Tick \/ UNCHANGED vars PROVE FALSE
  BY <1>1, <1>15 DEF Tick, vars
<1>16. ~ClientStep
  BY <1>3, <1>4 DEF ClientStep, ClientLeaves, ConnectionDrops
<1>17. ~RequestStep
  BY <1>4, <1>5, <1>6 DEF RequestStep, kickPlayerFromCommunity
<1>18. WebhookStep => OutOfTurn(u, r)
  BY <1>7 DEF WebhookStep
<1>19. ~HandlerStep
  BY <1>8, <1>9, <1>10, <1>11, <1>12 DEF HandlerStep
<1> QED BY <1>13, <1>14, <1>15, <1>16, <1>17, <1>18, <1>19 DEF Next

\* Where LiveKit repeats what was not answered, no request, guard, failure, restart, removal
\* or expiration leaves a row connected to a session that is over, with nothing on its way
\* to correct it: that takes an event delivered out of its turn, whatever the order of the
\* others.
THEOREM DisorderStrandsRows == Spec => OnlyDisorderStrandsRows
<1> DEFINE Turned == KeepsRetrying => \A r \in Rooms : \A u \in Users :
                       ~Stranded(u, r) /\ Stranded(u, r)' => OutOfTurn(u, r)
<1>1. StrandInv /\ [Next]_vars => Turned
  BY StrandedOutOfTurn
<1>2. Init => StrandInv
  BY RowsInvInit DEF Init, StrandInv, HandledEnds, SessionsOpened, NoSid
<1>3. Spec => [][Turned]_vars
  BY <1>1, <1>2, StrandInvStep, PTL DEF Spec
<1> QED BY <1>3 DEF OnlyDisorderStrandsRows
=============================================================================
