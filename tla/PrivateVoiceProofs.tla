------------------------- MODULE PrivateVoiceProofs -------------------------
(***************************************************************************)
(* Theorems about PrivateVoice, for every value of its constants: it is    *)
(* well typed, it implements Calls, and its tests of the time limits       *)
(* agree.                                                                  *)
(*                                                                         *)
(* The argument is a census of what a step may do to the table: open one   *)
(* call that never was, or close calls, or leave everybody where he is.    *)
(***************************************************************************)
EXTENDS PrivateVoice, FiniteSetTheorems, TLAPS

LEMMA AbsentRowType == AbsentRow \in Row /\ ~Present(AbsentRow)
  BY DEF AbsentRow, Row, Present

LEMMA EmptyRoomType == EmptyRoom \in [Users -> Row]
  BY AbsentRowType DEF EmptyRoom

\* An UPDATE changes the status of a row and never makes or removes one.
LEMMA UpdateType ==
  ASSUME NEW row \in Row, NEW st \in Statuses, now \in Nat
  PROVE  /\ updateUserStatus(row, st) \in Row
         /\ Present(updateUserStatus(row, st)) <=> Present(row)
  BY DEF updateUserStatus, Row, Statuses, Present

LEMMA EventType ==
  ASSUME NEW k \in {"joined", "left", "end"}, NEW u \in Users, NEW r \in Rooms,
         NEW why \in Reasons \cup {"none"}, NEW sid \in Nat
  PROVE  EventOf(k, u, r, why, sid) \in Event
  BY DEF EventOf, Event

LEMMA LeftEventType ==
  ASSUME TypeOK, NEW u \in Users, NEW r \in Rooms, NEW why \in Reasons
  PROVE  LeftEvent(u, r, why) \in Event
  BY DEF LeftEvent, EventOf, Event, TypeOK

LEMMA IdleCronType == IdleCron \in Cron
  BY DEF IdleCron, Cron

LEMMA InHandlingType == TypeOK => InHandling \subseteq Event
  BY DEF TypeOK, InHandling, Join, Closing

LEMMA RedeliveredType ==
  ASSUME NEW lost, lost \subseteq Event, NEW again \in Redelivered(lost)
  PROVE  again \subseteq Event
  BY DEF Redelivered

\* What deleteRoom does to the variables it changes.
LEMMA DeleteRoomType ==
  ASSUME TypeOK, NEW r \in Rooms, deleteRoom(r)
  PROVE  /\ live' \in [Rooms -> [Users -> Nat]]
         /\ webhooks' \subseteq Event
         /\ faults' \in Nat
<1>1. CASE /\ live' = [live EXCEPT ![r] = [u \in Users |-> NoSid]]
           /\ webhooks' = webhooks
                \cup {LeftEvent(u, r, "ROOM_DELETED") : u \in {v \in Users : live[r][v] # NoSid}}
           /\ UNCHANGED faults
  <2>1. \A u \in Users : LeftEvent(u, r, "ROOM_DELETED") \in Event
    BY LeftEventType DEF Reasons
  <2> QED BY <1>1, <2>1 DEF TypeOK, NoSid
<1>2. CASE Spend /\ UNCHANGED <<live, webhooks>>
  BY <1>2 DEF TypeOK, Spend
<1> QED BY <1>1, <1>2 DEF deleteRoom

LEMMA DeliverType ==
  ASSUME TypeOK, NEW e \in webhooks, Deliver(e)
  PROVE  /\ e \in Event
         /\ webhooks' \subseteq Event
         /\ faults' \in Nat
         /\ UNCHANGED <<now, live, opened, granted, cron>>
  BY DEF TypeOK, Deliver, Spend, livekitVars

-----------------------------------------------------------------------------
(* The census                                                              *)

\* A call between two people is inserted in a room that never had one.
OpensCall(r, u, v) ==
    /\ \A w \in Users : granted[r][w] = 0
    /\ rows' = [rows EXCEPT ![r] = [w \in Users |-> IF w \in {u, v}
                 THEN [status |-> "not_connected", joinedAt |-> now, statusUpdatedAt |-> now]
                 ELSE AbsentRow]]
    /\ granted' = [granted EXCEPT ![r] = [w \in Users |-> IF w \in {u, v} THEN now ELSE 0]]

\* The rows of some calls go; nobody joins or leaves the others.
KeepsOrCloses ==
    /\ UNCHANGED granted
    /\ \A r \in Rooms :
         \/ rows'[r] = EmptyRoom
         \/ \A u \in Users : Present(rows'[r][u]) <=> Present(rows[r][u])

\* One row replaced by one that is as present as it was.
LEMMA RowReplaced ==
  ASSUME TypeOK, UNCHANGED granted,
         NEW r \in Rooms, NEW u \in Users, NEW row \in Row,
         rows' = [rows EXCEPT ![r][u] = row], Present(row) <=> Present(rows[r][u])
  PROVE  rows' \in [Rooms -> [Users -> Row]] /\ KeepsOrCloses
<1>1. \A q \in Rooms : \A v \in Users :
        rows'[q][v] = IF q = r /\ v = u THEN row ELSE rows[q][v]
  BY DEF TypeOK
<1>2. rows' \in [Rooms -> [Users -> Row]]
  BY DEF TypeOK
<1>3. KeepsOrCloses
  BY <1>1 DEF KeepsOrCloses
<1> QED BY <1>2, <1>3

\* Whole rooms emptied.
LEMMA RoomsEmptied ==
  ASSUME TypeOK, UNCHANGED granted, NEW gone \in SUBSET Rooms,
         rows' = [r \in Rooms |-> IF r \in gone THEN EmptyRoom ELSE rows[r]]
  PROVE  rows' \in [Rooms -> [Users -> Row]] /\ KeepsOrCloses
  BY EmptyRoomType DEF TypeOK, KeepsOrCloses

LEMMA RowsStay ==
  ASSUME UNCHANGED <<rows, granted>>
  PROVE  KeepsOrCloses
  BY DEF KeepsOrCloses

Opening == \E r \in Rooms : \E u, v \in Users : u # v /\ OpensCall(r, u, v)

\* Every step keeps the types, and is of one of the kinds above.
LEMMA Census == TypeOK /\ [Next]_vars => TypeOK' /\ (Opening \/ KeepsOrCloses)
<1> SUFFICES ASSUME TypeOK, [Next]_vars PROVE TypeOK' /\ (Opening \/ KeepsOrCloses)
  OBVIOUS
<1> DEFINE Goal == TypeOK' /\ (Opening \/ KeepsOrCloses)
<1> USE DEF livekitVars
<1>1. ASSUME ClientStep PROVE Goal
  <2> PICK r \in Rooms, u \in Users :
        ClientConnects(u, r) \/ ClientLeaves(u, r) \/ ConnectionDrops(u, r)
    BY <1>1 DEF ClientStep
  <2>1. CASE ClientConnects(u, r)
    <3>1. opened[r][u] + 1 \in Nat
      BY DEF TypeOK
    <3>2. EventOf("joined", u, r, "none", opened[r][u] + 1) \in Event
      BY <3>1, EventType
    <3>3. LeftEvent(u, r, "DUPLICATE_IDENTITY") \in Event
      BY LeftEventType DEF Reasons
    <3>4. webhooks' \subseteq Event
      BY <2>1, <3>2, <3>3 DEF TypeOK, ClientConnects
    <3>5. TypeOK'
      BY <2>1, <3>1, <3>4 DEF TypeOK, ClientConnects
    <3> QED BY <2>1, <3>5, RowsStay DEF ClientConnects
  <2>2. ASSUME NEW why \in Reasons, LosesSession(u, r, why) PROVE Goal
    <3>1. LeftEvent(u, r, why) \in Event
      BY LeftEventType
    <3>2. TypeOK'
      BY <2>2, <3>1 DEF TypeOK, LosesSession, NoSid
    <3> QED BY <2>2, <3>2, RowsStay DEF LosesSession
  <2> QED BY <2>1, <2>2 DEF ClientLeaves, ConnectionDrops, Reasons
<1>2. ASSUME RequestStep PROVE Goal
  <2>1. ASSUME NEW r \in Rooms, NEW callers \in Pairs, getPrivateVoiceChatRoomCredentials(r, callers)
        PROVE  Goal
    <3> PICK u \in Users, v \in Users : u # v /\ callers = {u, v}
      BY DEF Pairs
    <3> DEFINE row == [status |-> "not_connected", joinedAt |-> now, statusUpdatedAt |-> now]
    <3>1. row \in Row /\ now \in Nat
      BY DEF TypeOK, Row, Statuses
    <3>2. [w \in Users |-> IF w \in callers THEN row ELSE AbsentRow] \in [Users -> Row]
      BY <3>1, AbsentRowType
    <3>3. [w \in Users |-> IF w \in callers THEN now ELSE 0] \in [Users -> Nat]
      BY <3>1
    <3>4. TypeOK'
      BY <2>1, <3>2, <3>3 DEF TypeOK, getPrivateVoiceChatRoomCredentials
    <3>5. OpensCall(r, u, v)
      BY <2>1 DEF OpensCall, getPrivateVoiceChatRoomCredentials
    <3> QED BY <3>4, <3>5 DEF Opening
  <2>2. ASSUME NEW r \in Rooms, NEW u \in Users, endPrivateVoiceChat(r, u) PROVE Goal
    <3> DEFINE e == EventOf("end", u, r, "none", NoSid)
    <3>1. e \in Event
      BY EventType DEF NoSid
    <3> HIDE DEF e
    <3>2. closings' \subseteq Closing
      BY <2>2, <3>1 DEF TypeOK, endPrivateVoiceChat, Closing, e
    <3>3. rows' = [q \in Rooms |-> IF q \in {r} THEN EmptyRoom ELSE rows[q]]
      BY <2>2 DEF endPrivateVoiceChat, deletePrivateVoiceChat, TypeOK
    <3>4. rows' \in [Rooms -> [Users -> Row]] /\ KeepsOrCloses
      BY <2>2, <3>3, RoomsEmptied DEF endPrivateVoiceChat
    <3> QED BY <2>2, <3>2, <3>4 DEF TypeOK, endPrivateVoiceChat
  <2> QED BY <1>2, <2>1, <2>2 DEF RequestStep
<1>3. ASSUME WebhookStep PROVE Goal
  <2> PICK e \in webhooks :
        \/ handlePrivateParticipantJoined(e)
        \/ LeftDuplicateIdentity(e)
        \/ LeftRoomDeleted(e)
        \/ LeftInterrupted(e)
        \/ LeftClientInitiated(e)
    BY <1>3 DEF WebhookStep
  <2>1. Deliver(e)
    BY DEF handlePrivateParticipantJoined, LeftDuplicateIdentity, LeftInterrupted,
           LeftRoomDeleted, LeftClientInitiated, LeftBecause
  <2>2. /\ e \in Event
        /\ webhooks' \subseteq Event
        /\ faults' \in Nat
        /\ UNCHANGED <<now, live, opened, granted, cron>>
    BY <2>1, DeliverType
  <2>3. e.room \in Rooms /\ e.user \in Users /\ rows[e.room][e.user] \in Row
    BY <2>2 DEF TypeOK, Event
  <2>4. CASE handlePrivateParticipantJoined(e)
    <3>1. joins' \subseteq Join /\ UNCHANGED <<rows, closings>>
      BY <2>2, <2>3, <2>4 DEF TypeOK, handlePrivateParticipantJoined, Join
    <3>2. TypeOK'
      BY <2>2, <3>1 DEF TypeOK
    <3> QED BY <2>2, <3>1, <3>2, RowsStay
  <2>5. CASE LeftDuplicateIdentity(e)
    <3>1. TypeOK'
      BY <2>2, <2>5 DEF TypeOK, LeftDuplicateIdentity
    <3> QED BY <2>2, <2>5, <3>1, RowsStay DEF LeftDuplicateIdentity
  <2>6. CASE LeftRoomDeleted(e)
    <3>1. rows' = [q \in Rooms |-> IF q \in {e.room} THEN EmptyRoom ELSE rows[q]]
      BY <2>3, <2>6 DEF LeftRoomDeleted, deletePrivateVoiceChat, TypeOK
    <3>2. rows' \in [Rooms -> [Users -> Row]] /\ KeepsOrCloses
      BY <2>2, <2>3, <3>1, RoomsEmptied
    <3> QED BY <2>2, <2>6, <3>2 DEF TypeOK, LeftRoomDeleted
  <2>7. CASE LeftInterrupted(e)
    <3> DEFINE row == updateUserStatus(rows[e.room][e.user], "connection_interrupted")
    <3>1. row \in Row /\ (Present(row) <=> Present(rows[e.room][e.user]))
      BY <2>3, UpdateType DEF TypeOK, Statuses
    <3>2. rows' = [rows EXCEPT ![e.room][e.user] = row]
      BY <2>3, <2>7 DEF LeftInterrupted, TypeOK
    <3> HIDE DEF row
    <3>3. rows' \in [Rooms -> [Users -> Row]] /\ KeepsOrCloses
      BY <2>2, <2>3, <3>1, <3>2, RowReplaced
    <3> QED BY <2>2, <2>7, <3>3 DEF TypeOK, LeftInterrupted
  <2>8. CASE LeftClientInitiated(e)
    <3>1. closings' \subseteq Closing /\ UNCHANGED <<rows, joins>>
      BY <2>2, <2>8 DEF TypeOK, LeftClientInitiated, Closing
    <3>2. TypeOK'
      BY <2>2, <3>1 DEF TypeOK
    <3> QED BY <2>2, <3>1, <3>2, RowsStay
  <2> QED BY <2>4, <2>5, <2>6, <2>7, <2>8
<1>4. ASSUME NEW j \in joins,
             JoinRefused(j) \/ JoinSelects(j) \/ JoinThrows(j) \/ JoinWrites(j) \/ JoinLeavesOld(j)
      PROVE  Goal
  <2>1. j \in Join /\ j.ev \in Event /\ j.ev.room \in Rooms /\ j.ev.user \in Users /\ j.old \in Rooms
    BY DEF TypeOK, Join, Event
  <2>2. CASE JoinRefused(j) \/ JoinLeavesOld(j)
    <3>1. /\ live' \in [Rooms -> [Users -> Nat]]
          /\ webhooks' \subseteq Event
          /\ faults' \in Nat
      BY <2>1, <2>2, DeleteRoomType DEF JoinRefused, JoinLeavesOld
    <3>2. TypeOK'
      BY <2>2, <3>1 DEF TypeOK, JoinRefused, JoinLeavesOld
    <3> QED BY <2>2, <3>2, RowsStay DEF JoinRefused, JoinLeavesOld
  <2>3. CASE JoinSelects(j)
    <3> PICK old \in getRoomUserIsIn(j.ev.user, now) :
          joins' = (joins \ {j}) \cup {[j EXCEPT !.pc = "write", !.old = old]}
      BY <2>3 DEF JoinSelects
    <3>1. old \in Rooms
      BY DEF getRoomUserIsIn
    <3>2. [j EXCEPT !.pc = "write", !.old = old] \in Join
      BY <2>1, <3>1 DEF Join
    <3>3. joins' \subseteq Join
      BY <3>2 DEF TypeOK
    <3>4. TypeOK'
      BY <2>3, <3>3 DEF TypeOK, JoinSelects
    <3> QED BY <2>3, <3>4, RowsStay DEF JoinSelects
  <2>4. CASE JoinThrows(j)
    <3> PICK again \in Redelivered({j.ev}) : webhooks' = webhooks \cup again
      BY <2>4 DEF JoinThrows
    <3>1. again \subseteq Event
      BY <2>1, RedeliveredType
    <3>2. TypeOK'
      BY <2>4, <3>1 DEF TypeOK, JoinThrows
    <3> QED BY <2>4, <3>2, RowsStay DEF JoinThrows
  <2>5. CASE JoinWrites(j)
    <3> DEFINE u == j.ev.user
               next(r) == IF r = j.ev.room THEN updateUserStatus(rows[r][u], "connected")
                          ELSE IF r = j.old THEN updateUserStatus(rows[r][u], "disconnected")
                          ELSE rows[r][u]
    <3>1. ASSUME NEW r \in Rooms
          PROVE  next(r) \in Row /\ (Present(next(r)) <=> Present(rows[r][u]))
      <4>1. rows[r][u] \in Row /\ now \in Nat
        BY <2>1 DEF TypeOK
      <4> QED BY <4>1, UpdateType DEF Statuses
    <3>2. rows' = [r \in Rooms |-> [rows[r] EXCEPT ![u] = next(r)]]
      BY <2>5 DEF JoinWrites
    <3> HIDE DEF next
    <3>3. ASSUME NEW r \in Rooms
          PROVE  /\ rows'[r] \in [Users -> Row]
                 /\ \A v \in Users : rows'[r][v] = IF v = u THEN next(r) ELSE rows[r][v]
      <4>1. rows[r] \in [Users -> Row]
        BY DEF TypeOK
      <4> QED BY <3>1, <3>2, <4>1
    <3>4. rows' \in [Rooms -> [Users -> Row]]
      BY <3>2, <3>3
    <3>5. KeepsOrCloses
      BY <2>5, <3>1, <3>3 DEF KeepsOrCloses, JoinWrites
    <3>6. [j EXCEPT !.pc = "leaveOld"] \in Join
      BY <2>1 DEF Join
    <3>7. joins' \subseteq Join
      BY <2>5, <3>6 DEF TypeOK, JoinWrites
    <3> QED BY <2>5, <3>4, <3>5, <3>7 DEF TypeOK, JoinWrites
  <2> QED BY <1>4, <2>2, <2>3, <2>4, <2>5
<1>5. ASSUME NEW c \in closings, ClosingLivekit(c) \/ ClosingWrites(c) PROVE Goal
  <2>1. c \in Closing /\ c.ev.room \in Rooms /\ c.ev.user \in Users
    BY DEF TypeOK, Closing, Event
  <2>2. CASE ClosingLivekit(c)
    <3>1. /\ live' \in [Rooms -> [Users -> Nat]]
          /\ webhooks' \subseteq Event
          /\ faults' \in Nat
      BY <2>1, <2>2, DeleteRoomType DEF ClosingLivekit
    <3>2. [c EXCEPT !.pc = "write"] \in Closing
      BY <2>1 DEF Closing
    <3>3. closings' \subseteq Closing
      BY <2>2, <3>2 DEF TypeOK, ClosingLivekit
    <3>4. TypeOK'
      BY <2>2, <3>1, <3>3 DEF TypeOK, ClosingLivekit
    <3> QED BY <2>2, <3>4, RowsStay DEF ClosingLivekit
  <2>3. CASE ClosingWrites(c)
    <3> DEFINE row == updateUserStatus(rows[c.ev.room][c.ev.user], "disconnected")
    <3>1. row \in Row /\ (Present(row) <=> Present(rows[c.ev.room][c.ev.user]))
      BY <2>1, UpdateType DEF TypeOK, Statuses
    <3>2. rows' = [rows EXCEPT ![c.ev.room][c.ev.user] = row]
      BY <2>1, <2>3 DEF ClosingWrites, TypeOK
    <3> HIDE DEF row
    <3>3. rows' \in [Rooms -> [Users -> Row]] /\ KeepsOrCloses
      BY <2>1, <2>3, <3>1, <3>2, RowReplaced DEF ClosingWrites
    <3> QED BY <2>3, <3>3 DEF TypeOK, ClosingWrites
  <2> QED BY <1>5, <2>2, <2>3
<1>6. CASE CronDeletesRows
  <2> PICK batch \in ExpiredBatch(now) :
        LET destroy == {r \in batch : ShouldDestroyRoom(r, now)} IN
        /\ rows' = [r \in Rooms |-> IF r \in batch THEN deletePrivateVoiceChat(r) ELSE rows[r]]
        /\ cron' = IF destroy = {} THEN IdleCron ELSE [pc |-> "sweep", expired |-> destroy]
    BY <1>6 DEF CronDeletesRows
  <2>1. batch \in SUBSET Rooms
    BY DEF ExpiredBatch, ExpiredRooms
  <2>2. rows' \in [Rooms -> [Users -> Row]] /\ KeepsOrCloses
    BY <1>6, <2>1, RoomsEmptied DEF CronDeletesRows, deletePrivateVoiceChat
  <2>3. cron' \in Cron
    BY <2>1, IdleCronType DEF Cron
  <2> QED BY <1>6, <2>2, <2>3 DEF TypeOK, CronDeletesRows
<1>7. ASSUME NEW r \in Rooms, CronClosesRoom(r) PROVE Goal
  <2>1. /\ live' \in [Rooms -> [Users -> Nat]]
        /\ webhooks' \subseteq Event
        /\ faults' \in Nat
    BY <1>7, DeleteRoomType DEF CronClosesRoom
  <2>2. cron' \in Cron
    BY <1>7, IdleCronType DEF TypeOK, CronClosesRoom, Cron
  <2>3. TypeOK'
    BY <1>7, <2>1, <2>2 DEF TypeOK, CronClosesRoom
  <2> QED BY <1>7, <2>3, RowsStay DEF CronClosesRoom
<1>8. ASSUME Fault PROVE Goal
  <2>1. CASE HandlerFails
    <3>1. joins' \subseteq joins /\ closings' \subseteq closings
      BY <2>1 DEF HandlerFails
    <3>2. webhooks' \subseteq Event
      <4> PICK e \in InHandling : \E again \in Redelivered({e}) : webhooks' = webhooks \cup again
        BY <2>1 DEF HandlerFails, InHandling
      <4> PICK again \in Redelivered({e}) : webhooks' = webhooks \cup again
        OBVIOUS
      <4>1. again \subseteq Event
        BY InHandlingType, RedeliveredType
      <4> QED BY <4>1 DEF TypeOK
    <3>3. TypeOK'
      BY <2>1, <3>1, <3>2 DEF TypeOK, HandlerFails, Spend
    <3> QED BY <2>1, <3>3, RowsStay DEF HandlerFails
  <2>2. CASE Restart
    <3> PICK again \in Redelivered(InHandling) : webhooks' = webhooks \cup again
      BY <2>2 DEF Restart
    <3>1. again \subseteq Event
      BY InHandlingType, RedeliveredType
    <3>2. TypeOK'
      BY <2>2, <3>1, IdleCronType DEF TypeOK, Restart, Spend
    <3> QED BY <2>2, <3>2, RowsStay DEF Restart
  <2> QED BY <1>8, <2>1, <2>2 DEF Fault
<1>9. CASE Tick
  <2>1. TypeOK'
    BY <1>9 DEF TypeOK, Tick
  <2> QED BY <1>9, <2>1, RowsStay DEF Tick
<1>10. CASE UNCHANGED vars
  <2>1. TypeOK'
    BY <1>10 DEF TypeOK, vars
  <2> QED BY <1>10, <2>1, RowsStay DEF vars
<1>11. HandlerStep => Goal
  BY <1>4, <1>5 DEF HandlerStep
<1>12. CronJob => Goal
  BY <1>6, <1>7 DEF CronJob
<1> QED BY <1>1, <1>2, <1>3, <1>8, <1>9, <1>10, <1>11, <1>12 DEF Next

LEMMA InitType == Init => TypeOK
  BY EmptyRoomType, IdleCronType DEF Init, TypeOK, NoSid

\* Every reachable state is well typed, for any number of users, calls and faults.
THEOREM TypeCorrect == Spec => []TypeOK
<1>1. TypeOK /\ [Next]_vars => TypeOK'
  BY Census
<1> QED BY <1>1, InitType, PTL DEF Spec

-----------------------------------------------------------------------------
(* PrivateVoice implements Calls                                           *)

\* Time starts at 1, so the time of a grant is not the 0 of "never".
Started == now \in Nat /\ now > 0

LEMMA StartedStep == Started /\ [Next]_vars => Started'
<1> SUFFICES ASSUME Started, [Next]_vars PROVE Started'
  OBVIOUS
<1>1. now' = now \/ now' = now + 1
  BY DEF Next, vars, livekitVars, ClientStep, ClientConnects, ClientLeaves, ConnectionDrops,
         LosesSession, RequestStep, getPrivateVoiceChatRoomCredentials, endPrivateVoiceChat,
         WebhookStep, handlePrivateParticipantJoined, LeftDuplicateIdentity, LeftRoomDeleted,
         LeftInterrupted, LeftClientInitiated, LeftBecause, Deliver, HandlerStep, JoinRefused,
         JoinSelects, JoinThrows, JoinWrites, JoinLeavesOld, ClosingLivekit, ClosingWrites,
         CronJob, CronDeletesRows, CronClosesRoom, Fault, HandlerFails, Restart, Tick
<1> QED BY <1>1 DEF Started

\* The row of nobody is in an empty room.
LEMMA EmptyRoomHasNobody == \A u \in Users : ~Present(EmptyRoom[u])
  BY AbsentRowType DEF EmptyRoom

\* A call that opens in the table opens in the registry.
LEMMA OpeningMaps ==
  ASSUME TypeOK, Started, Opening
  PROVE  Registry!Next
<1> PICK r \in Rooms, u \in Users, v \in Users : u # v /\ OpensCall(r, u, v)
  BY DEF Opening
<1> DEFINE members == [q \in Rooms |-> UsersIn(q)]
           used == {q \in Rooms : \E w \in Users : granted[q][w] > 0}
<1>1. r \notin used
  BY DEF OpensCall
<1>2. \A q \in Rooms : q # r => rows'[q] = rows[q]
  BY DEF OpensCall, TypeOK
<1>3. \A w \in Users : Present(rows'[r][w]) <=> w \in {u, v}
  BY AbsentRowType DEF OpensCall, TypeOK, Present
<1>4. members' = [members EXCEPT ![r] = {u, v}]
  <2>1. \A q \in Rooms : q # r => UsersIn(q)' = UsersIn(q)
    BY <1>2 DEF UsersIn
  <2>2. UsersIn(r)' = {u, v}
    BY <1>3 DEF UsersIn
  <2> QED BY <2>1, <2>2
<1>5. used' = used \cup {r}
  <2>1. \A q \in Rooms : q # r => granted'[q] = granted[q]
    BY DEF OpensCall, TypeOK
  <2>2. granted'[r][u] > 0
    BY DEF OpensCall, TypeOK, Started
  <2> QED BY <2>1, <2>2
<1> QED BY <1>1, <1>4, <1>5 DEF Registry!Next, Registry!Open

\* A step that keeps or closes calls in the table does so in the registry.
LEMMA ClosingMaps ==
  ASSUME KeepsOrCloses
  PROVE  Registry!Next
<1> DEFINE members == [q \in Rooms |-> UsersIn(q)]
           used == {q \in Rooms : \E w \in Users : granted[q][w] > 0}
           over == {q \in Rooms : rows'[q] = EmptyRoom}
<1>1. members' = [q \in Rooms |-> IF q \in over THEN {} ELSE members[q]]
  <2> SUFFICES ASSUME NEW q \in Rooms
               PROVE  UsersIn(q)' = IF q \in over THEN {} ELSE UsersIn(q)
    OBVIOUS
  <2>1. CASE q \in over
    BY <2>1, EmptyRoomHasNobody DEF UsersIn
  <2>2. CASE q \notin over
    <3>1. \A u \in Users : Present(rows'[q][u]) <=> Present(rows[q][u])
      BY <2>2 DEF KeepsOrCloses
    <3> QED BY <2>2, <3>1 DEF UsersIn
  <2> QED BY <2>1, <2>2
<1>2. used' = used
  BY DEF KeepsOrCloses
<1>3. over \in SUBSET Rooms
  OBVIOUS
<1> QED BY <1>1, <1>2, <1>3 DEF Registry!Next, Registry!Close

\* A private voice chat is between two users, ends for both at once and is never
\* revived, whatever is lost, repeated, delayed or fails: the table implements the
\* registry of Calls.
THEOREM ImplementsCalls == Spec => CallsAreWhole
<1>1. Init => Registry!Init
  <2> SUFFICES ASSUME Init PROVE Registry!Init
    OBVIOUS
  <2>1. \A r \in Rooms : UsersIn(r) = {}
    BY EmptyRoomHasNobody DEF Init, UsersIn
  <2>2. \A r \in Rooms : \A u \in Users : ~(granted[r][u] > 0)
    BY DEF Init
  <2> QED BY <2>1, <2>2 DEF Registry!Init
<1>2. TypeOK /\ Started /\ [Next]_vars => [Registry!Next]_(Registry!callsVars)
  BY Census, OpeningMaps, ClosingMaps
<1>3. Init => Started
  BY DEF Init, Started
<1> QED BY <1>1, <1>2, <1>3, StartedStep, TypeCorrect, PTL
    DEF Spec, CallsAreWhole, Registry!Spec

-----------------------------------------------------------------------------
(* The tests of the time limits                                            *)

\* A call has no rows or exactly those of two users.
CallsOfTwo ==
    \A r \in Rooms :
        \/ UsersIn(r) = {}
        \/ \E u, v \in Users : u # v /\ UsersIn(r) = {u, v}

LEMMA CallsOfTwoStep == TypeOK /\ CallsOfTwo /\ [Next]_vars => CallsOfTwo'
<1> SUFFICES ASSUME TypeOK, CallsOfTwo, Opening \/ KeepsOrCloses PROVE CallsOfTwo'
  BY Census
<1> SUFFICES ASSUME NEW r \in Rooms
             PROVE  \/ UsersIn(r)' = {}
                    \/ \E u, v \in Users : u # v /\ UsersIn(r)' = {u, v}
  BY DEF CallsOfTwo
<1>1. CASE Opening
  <2> PICK q \in Rooms, u \in Users, v \in Users : u # v /\ OpensCall(q, u, v)
    BY <1>1 DEF Opening
  <2>1. CASE q = r
    <3>1. \A w \in Users : Present(rows'[r][w]) <=> w \in {u, v}
      BY <2>1, AbsentRowType DEF OpensCall, TypeOK, Present
    <3> QED BY <3>1 DEF UsersIn
  <2>2. CASE q # r
    <3>1. rows'[r] = rows[r]
      BY <2>2 DEF OpensCall, TypeOK
    <3>2. UsersIn(r)' = UsersIn(r)
      BY <3>1 DEF UsersIn
    <3> QED BY <3>2 DEF CallsOfTwo
  <2> QED BY <2>1, <2>2
<1>2. CASE KeepsOrCloses
  <2>1. CASE rows'[r] = EmptyRoom
    BY <2>1, EmptyRoomHasNobody DEF UsersIn
  <2>2. CASE \A u \in Users : Present(rows'[r][u]) <=> Present(rows[r][u])
    <3>1. UsersIn(r)' = UsersIn(r)
      BY <2>2 DEF UsersIn
    <3> QED BY <3>1 DEF CallsOfTwo
  <2> QED BY <1>2, <2>1, <2>2 DEF KeepsOrCloses
<1> QED BY <1>1, <1>2

\* A row is expired for the job exactly if it no longer counts for a join.
LEMMA ExpiredMeansNotCounted ==
  ASSUME NEW row \in Row, NEW t \in Nat, Present(row)
  PROVE  Expired(row, t) <=> ~countsAsIn(row, t)
<1>1. InterruptedTTL \in Nat /\ InitialTTL \in Nat
  BY PrivateAssumption
<1> QED BY <1>1 DEF Expired, countsAsIn, Row, Statuses, Present

\* A row that counts for a join is no reason to refuse one.
LEMMA CountedMeansAdmitted ==
  ASSUME NEW row \in Row, NEW t \in Nat, countsAsIn(row, t)
  PROVE  ~TimedOut(row, t) /\ row.status # "disconnected"
<1>1. InterruptedTTL \in Nat /\ InitialTTL \in Nat
  BY PrivateAssumption
<1> QED BY <1>1 DEF TimedOut, countsAsIn, Row

LEMMA AbsentIsNotExpired ==
  ASSUME NEW row \in Row, NEW t \in Nat, Expired(row, t)
  PROVE  Present(row)
  BY DEF Expired, Present

\* The three statements that read the time limits of a call agree, at the limit too:
\* one compares sums with <, one differences with > and one differences with <=.
THEOREM LimitsAgree == Spec => []TestsAgree
<1>1. Init => CallsOfTwo
  <2> SUFFICES ASSUME Init, NEW r \in Rooms PROVE UsersIn(r) = {}
    BY DEF CallsOfTwo
  <2> QED BY EmptyRoomHasNobody DEF Init, UsersIn
<1>2. TypeOK /\ CallsOfTwo => TestsAgree
  <2> SUFFICES ASSUME TypeOK, CallsOfTwo, NEW r \in Rooms
               PROVE  LET allIn == \A u \in UsersIn(r) : countsAsIn(rows[r][u], now)
                      IN  /\ r \in ExpiredRooms(now) <=> ~allIn
                          /\ UsersIn(r) # {} /\ allIn => isPrivateRoomActive(r, now)
    BY DEF TestsAgree
  <2> DEFINE allIn == \A u \in UsersIn(r) : countsAsIn(rows[r][u], now)
  <2>1. \A u \in Users : rows[r][u] \in Row /\ now \in Nat
    BY DEF TypeOK
  <2>2. r \in ExpiredRooms(now) <=> ~allIn
    <3>1. \A u \in UsersIn(r) : Expired(rows[r][u], now) <=> ~countsAsIn(rows[r][u], now)
      BY <2>1, ExpiredMeansNotCounted DEF UsersIn
    <3>2. \A u \in Users : Expired(rows[r][u], now) => u \in UsersIn(r)
      BY <2>1, AbsentIsNotExpired DEF UsersIn
    <3>3. UsersIn(r) \subseteq Users
      BY DEF UsersIn
    <3> QED BY <3>1, <3>2, <3>3 DEF ExpiredRooms
  <2>3. ASSUME UsersIn(r) # {}, allIn PROVE isPrivateRoomActive(r, now)
    <3> PICK u \in Users, v \in Users : u # v /\ UsersIn(r) = {u, v}
      BY <2>3 DEF CallsOfTwo
    <3>1. Cardinality(UsersIn(r)) = 2
      <4>1. IsFiniteSet({u}) /\ Cardinality({u}) = 1
        BY FS_Singleton
      <4>2. v \notin {u} /\ {u} \cup {v} = {u, v}
        OBVIOUS
      <4>3. Cardinality({u} \cup {v}) = Cardinality({u}) + 1
        BY <4>1, <4>2, FS_AddElement
      <4> QED BY <4>1, <4>2, <4>3
    <3>2. \A w \in UsersIn(r) : ~TimedOut(rows[r][w], now) /\ rows[r][w].status # "disconnected"
      BY <2>1, <2>3, CountedMeansAdmitted DEF UsersIn
    <3> QED BY <3>1, <3>2 DEF isPrivateRoomActive
  <2> QED BY <2>2, <2>3
<1> QED BY <1>1, <1>2, CallsOfTwoStep, TypeCorrect, PTL DEF Spec
=============================================================================
