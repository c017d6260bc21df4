----------------------- MODULE PrivateSessionsProofs -----------------------
(***************************************************************************)
(* A connected row of a private call describes a session LiveKit still     *)
(* has, or the news of its end is on its way: ConnectedRowsHaveSessions,   *)
(* for any users, calls, sessions and faults, where the webhooks of a      *)
(* participant arrive in order and LiveKit keeps retrying.                 *)
(*                                                                         *)
(* A row becomes connected by the handler of a joined event.  The argument *)
(* is that this event holds back the ends of its session and of all later  *)
(* ones (JoinsComeFirst), so that whatever ended meanwhile is still to be  *)
(* told when the row is written.                                           *)
(***************************************************************************)
EXTENDS PrivateVoiceProofs

InFlight == webhooks \cup InHandling
SamePlace(d, e) == d.room = e.room /\ d.user = e.user

\* Which events the handlers are about.
KindsOfHandlers ==
    /\ \A j \in joins : j.ev.kind = "joined"
    /\ \A c \in closings : c.ev.kind \in {"left", "end"}
    /\ \A c \in closings : c.pc = "write" => c.ev.kind = "left"

\* Sessions count up, and the one a user has is his last.
SessionsNumbered ==
    /\ \A r \in Rooms : \A u \in Users : live[r][u] \in {NoSid, opened[r][u]}
    /\ \A e \in InFlight : e.kind # "end" => e.sid \in 1 .. opened[e.room][e.user]

\* A session ended by a newer one is not the last of its user.
LastIsNotDuplicate ==
    \A e \in InFlight :
        e.kind = "left" /\ e.reason = "DUPLICATE_IDENTITY" => e.sid # opened[e.room][e.user]

EndTold(r, u, s) == \E e \in webhooks :
    e.kind = "left" /\ e.room = r /\ e.user = u /\ e.sid = s

\* A joined event that is not dealt with holds back the end of its session and of
\* every later one.
JoinsComeFirst ==
    \A d \in InFlight : d.kind = "joined" =>
        \A s \in d.sid .. opened[d.room][d.user] :
            live[d.room][d.user] = s \/ EndTold(d.room, d.user, s)

\* The ends of sessions that are news to the row, and whose handlers have yet to write it.
IsEnd(e) == e.kind = "left" /\ e.reason # "DUPLICATE_IDENTITY"
News == {e \in webhooks \cup {c.ev : c \in closings} : IsEnd(e)}

EndsAreComing ==
    \A r \in Rooms : \A u \in Users :
        rows[r][u].status = "connected" /\ live[r][u] = NoSid
          => \E e \in News : e.room = r /\ e.user = u

SessionsInv ==
    /\ KindsOfHandlers /\ SessionsNumbered /\ LastIsNotDuplicate
    /\ JoinsComeFirst /\ EndsAreComing

\* The end of a session that was opened.
IsNewEnd(e) == IsEnd(e) /\ e.sid \in 1 .. opened[e.room][e.user]

-----------------------------------------------------------------------------
(* What keeps the invariant                                                *)

\* A step that opens no session keeps the invariant if: the events it adds are ends;
\* it takes no end that a joined event holds back; a row becomes connected only on a
\* joined event; a row that loses its news is not connected; and a session that ends
\* is told.
LEMMA KeepsSessions ==
  ASSUME TypeOK, TypeOK', SessionsInv, KindsOfHandlers', UNCHANGED opened,
         \A e \in InFlight' : e \in InFlight \/ e.kind = "end" \/ IsNewEnd(e),
         \A d \in InFlight : \A e \in webhooks :
            d.kind = "joined" /\ e.kind = "left" /\ SamePlace(d, e) /\ d.sid <= e.sid
              => e \in webhooks',
         \A r \in Rooms : \A u \in Users : rows'[r][u].status = "connected" =>
            \/ rows[r][u].status = "connected"
            \/ \E d \in InFlight : d.kind = "joined" /\ d.room = r /\ d.user = u,
         \A e \in News : e \in News' \/ rows'[e.room][e.user].status # "connected",
         \A r \in Rooms : \A u \in Users :
            \/ live'[r][u] = live[r][u]
            \/ /\ live'[r][u] = NoSid
               /\ \E e \in webhooks' : IsEnd(e) /\ e.room = r /\ e.user = u /\ e.sid = live[r][u]
  PROVE  SessionsInv'
<1>1. \A e \in InFlight : e \in Event
  BY InHandlingType DEF TypeOK, InFlight
<1>2. \A d \in InFlight' : d.kind = "joined" => d \in InFlight
  BY DEF IsNewEnd, IsEnd
<1>3. SessionsNumbered'
  BY DEF SessionsInv, SessionsNumbered, IsNewEnd
<1>4. LastIsNotDuplicate'
  BY DEF SessionsInv, LastIsNotDuplicate, IsNewEnd, IsEnd
<1>5. JoinsComeFirst'
  <2> SUFFICES ASSUME NEW d \in InFlight', d.kind = "joined",
                      NEW s \in d.sid .. opened[d.room][d.user]
               PROVE  live'[d.room][d.user] = s \/ EndTold(d.room, d.user, s)'
    BY DEF JoinsComeFirst
  <2>1. d \in InFlight /\ d.room \in Rooms /\ d.user \in Users /\ d.sid \in Nat /\ s \in Int
        /\ d.sid <= s
    BY <1>1, <1>2 DEF Event, TypeOK
  <2>2. CASE live[d.room][d.user] = s
    BY <2>1, <2>2 DEF EndTold, IsEnd
  <2>3. CASE EndTold(d.room, d.user, s)
    <3> PICK e \in webhooks : e.kind = "left" /\ e.room = d.room /\ e.user = d.user /\ e.sid = s
      BY <2>3 DEF EndTold
    <3>1. e \in webhooks'
      BY <2>1 DEF SamePlace
    <3> QED BY <3>1 DEF EndTold
  <2> QED BY <2>1, <2>2, <2>3 DEF SessionsInv, JoinsComeFirst
<1>6. EndsAreComing'
  <2> SUFFICES ASSUME NEW r \in Rooms, NEW u \in Users,
                      rows'[r][u].status = "connected", live'[r][u] = NoSid
               PROVE  \E e \in News' : e.room = r /\ e.user = u
    BY DEF EndsAreComing
  <2>0. \A e \in webhooks' : IsEnd(e) => e \in News'
    BY DEF News, IsEnd
  <2>1. CASE live'[r][u] # live[r][u]
    BY <2>0, <2>1
  <2>2. CASE live[r][u] = NoSid /\ rows[r][u].status = "connected"
    <3> PICK e \in News : e.room = r /\ e.user = u
      BY <2>2 DEF SessionsInv, EndsAreComing
    <3> QED OBVIOUS
  <2>3. ASSUME live[r][u] = NoSid,
               NEW d \in InFlight, d.kind = "joined", d.room = r, d.user = u
        PROVE  \E e \in News' : e.room = r /\ e.user = u
    <3>1. d.sid \in Nat /\ opened[r][u] \in Nat /\ 1 <= d.sid /\ d.sid <= opened[r][u]
      BY <1>1, <2>3 DEF SessionsInv, SessionsNumbered, TypeOK, Event
    <3>2. opened[r][u] \in d.sid .. opened[r][u] /\ live[r][u] # opened[r][u]
      BY <2>3, <3>1 DEF NoSid
    <3>3. EndTold(r, u, opened[r][u])
      BY <2>3, <3>2 DEF SessionsInv, JoinsComeFirst
    <3> PICK e \in webhooks :
          e.kind = "left" /\ e.room = r /\ e.user = u /\ e.sid = opened[r][u]
      BY <3>3 DEF EndTold
    <3>4. e \in webhooks'
      BY <2>3, <3>1 DEF SamePlace
    <3>5. e \in InFlight
      BY DEF InFlight
    <3>6. IsEnd(e)
      BY <3>5 DEF SessionsInv, LastIsNotDuplicate, IsEnd
    <3> QED BY <2>0, <3>4, <3>6
  <2> QED BY <2>1, <2>2, <2>3
<1> QED BY <1>3, <1>4, <1>5, <1>6 DEF SessionsInv

\* In particular, a step that leaves LiveKit and the events alone and connects no row.
LEMMA TableChanges ==
  ASSUME TypeOK, TypeOK', SessionsInv, UNCHANGED <<live, opened, webhooks, joins, closings>>,
         \A r \in Rooms : \A u \in Users :
            rows'[r][u].status = "connected" => rows[r][u].status = "connected"
  PROVE  SessionsInv'
<1>1. InFlight' = InFlight /\ News' = News /\ KindsOfHandlers'
  BY DEF InFlight, InHandling, News, SessionsInv, KindsOfHandlers
<1> QED BY <1>1, KeepsSessions

\* The end of the session a user has.
LEMMA LiveEnds ==
  ASSUME TypeOK, SessionsNumbered, NEW r \in Rooms, NEW u \in Users, live[r][u] # NoSid,
         NEW why \in Reasons \ {"DUPLICATE_IDENTITY"}
  PROVE  IsNewEnd(LeftEvent(u, r, why))
<1>1. live[r][u] = opened[r][u] /\ opened[r][u] \in Nat /\ opened[r][u] # 0
  BY DEF SessionsNumbered, TypeOK, NoSid
<1> QED BY <1>1 DEF IsNewEnd, IsEnd, LeftEvent, EventOf

\* deleteRoom tells the end of every session it ends.
LEMMA DeleteRoomTells ==
  ASSUME TypeOK, SessionsNumbered, NEW q \in Rooms, deleteRoom(q)
  PROVE  /\ webhooks \subseteq webhooks'
         /\ \A e \in webhooks' : e \in webhooks \/ IsNewEnd(e)
         /\ \A r \in Rooms : \A u \in Users :
              \/ live'[r][u] = live[r][u]
              \/ /\ live'[r][u] = NoSid
                 /\ \E e \in webhooks' :
                      IsEnd(e) /\ e.room = r /\ e.user = u /\ e.sid = live[r][u]
<1>1. CASE /\ live' = [live EXCEPT ![q] = [u \in Users |-> NoSid]]
           /\ webhooks' = webhooks
                \cup {LeftEvent(u, q, "ROOM_DELETED") : u \in {v \in Users : live[q][v] # NoSid}}
  <2>1. \A u \in Users : live[q][u] # NoSid => IsNewEnd(LeftEvent(u, q, "ROOM_DELETED"))
    BY LiveEnds DEF Reasons
  <2>2. ASSUME NEW r \in Rooms, NEW u \in Users, live'[r][u] # live[r][u]
        PROVE  /\ live'[r][u] = NoSid
               /\ \E e \in webhooks' :
                    IsEnd(e) /\ e.room = r /\ e.user = u /\ e.sid = live[r][u]
    <3>1. r = q /\ live'[r][u] = NoSid
      BY <1>1, <2>2 DEF TypeOK
    <3>2. LeftEvent(u, q, "ROOM_DELETED") \in webhooks'
      BY <1>1, <2>2, <3>1
    <3>3. LET e == LeftEvent(u, q, "ROOM_DELETED")
          IN  e.room = r /\ e.user = u /\ e.sid = live[r][u]
      BY <3>1 DEF LeftEvent, EventOf
    <3> QED BY <2>1, <2>2, <3>1, <3>2, <3>3 DEF IsNewEnd
  <2> QED BY <1>1, <2>1, <2>2
<1> QED BY <1>1 DEF deleteRoom

\* A handler that deletes the LiveKit room and goes on, about the same event or none.
LEMMA DeletionKeeps ==
  ASSUME TypeOK, TypeOK', SessionsInv, KindsOfHandlers', UNCHANGED <<rows, opened>>,
         NEW q \in Rooms, deleteRoom(q),
         InHandling' \subseteq InHandling,
         \A e \in News : e \in webhooks \/ e \in {c.ev : c \in closings'}
  PROVE  SessionsInv'
<1>1. /\ webhooks \subseteq webhooks'
      /\ \A e \in webhooks' : e \in webhooks \/ IsNewEnd(e)
      /\ \A r \in Rooms : \A u \in Users :
           \/ live'[r][u] = live[r][u]
           \/ /\ live'[r][u] = NoSid
              /\ \E e \in webhooks' :
                   IsEnd(e) /\ e.room = r /\ e.user = u /\ e.sid = live[r][u]
  BY DeleteRoomTells DEF SessionsInv
<1>2. /\ \A e \in InFlight' : e \in InFlight \/ IsNewEnd(e)
      /\ \A e \in News : e \in News'
  BY <1>1 DEF InFlight, News
<1> QED BY <1>1, <1>2, KeepsSessions

\* A row set to anything but connected is not connected.
LEMMA UpdateDisconnects ==
  ASSUME NEW row \in Row, NEW st \in Statuses, st # "connected"
  PROVE  updateUserStatus(row, st).status # "connected"
  BY DEF updateUserStatus, Row, Present

-----------------------------------------------------------------------------
(* The steps                                                               *)

\* A session is opened; what it replaces was not the last.
LEMMA ConnectStep ==
  ASSUME TypeOK, TypeOK', SessionsInv, NEW r \in Rooms, NEW u \in Users, ClientConnects(u, r)
  PROVE  SessionsInv'
<1> DEFINE n == opened[r][u] + 1
           joined == EventOf("joined", u, r, "none", n)
           dup == LeftEvent(u, r, "DUPLICATE_IDENTITY")
<1>1. /\ opened[r][u] \in Nat /\ n \in Nat /\ live'[r][u] = n /\ opened'[r][u] = n
      /\ \A q \in Rooms : \A v \in Users : q # r \/ v # u =>
           live'[q][v] = live[q][v] /\ opened'[q][v] = opened[q][v]
  BY DEF ClientConnects, TypeOK
<1>2. /\ webhooks \subseteq webhooks' /\ joined \in webhooks'
      /\ \A e \in webhooks' : e \in webhooks \/ e = joined \/ (e = dup /\ live[r][u] # NoSid)
      /\ live[r][u] # NoSid => dup \in webhooks'
      /\ UNCHANGED <<rows, joins, closings>>
  BY DEF ClientConnects
<1>3. /\ joined.kind = "joined" /\ joined.room = r /\ joined.user = u /\ joined.sid = n
      /\ dup.kind = "left" /\ dup.room = r /\ dup.user = u /\ dup.sid = live[r][u]
  BY DEF EventOf, LeftEvent
<1> HIDE DEF n, joined, dup
<1>4. n = opened[r][u] + 1
  BY DEF n
<1>5. \A e \in InFlight' : e \in InFlight \/ e = joined \/ (e = dup /\ live[r][u] # NoSid)
  BY <1>2 DEF InFlight, InHandling
<1>6. \A e \in InFlight : e \in Event /\ e.room \in Rooms /\ e.user \in Users /\ e.sid \in Nat
  BY InHandlingType DEF TypeOK, InFlight, Event
<1>7. \A q \in Rooms : \A v \in Users : opened[q][v] \in Nat
  BY DEF TypeOK
<1>8. KindsOfHandlers'
  BY <1>2 DEF SessionsInv, KindsOfHandlers
<1>9. \A e \in InFlight : e.kind # "end" => e.sid \in Nat /\ e.sid <= opened[e.room][e.user]
  BY <1>6, <1>7 DEF SessionsInv, SessionsNumbered
<1>10. SessionsNumbered'
  <2>1. \A q \in Rooms : \A v \in Users : live'[q][v] \in {NoSid, opened'[q][v]}
    BY <1>1 DEF SessionsInv, SessionsNumbered
  <2>2. ASSUME NEW d \in InFlight', d.kind # "end"
        PROVE  d.sid \in 1 .. opened'[d.room][d.user]
    <3>1. CASE d = joined
      BY <1>1, <1>3, <1>4, <3>1
    <3>2. CASE d = dup /\ live[r][u] # NoSid
      <4>1. live[r][u] = opened[r][u] /\ opened[r][u] # 0
        BY <3>2 DEF SessionsInv, SessionsNumbered, NoSid
      <4> QED BY <1>1, <1>3, <1>4, <3>2, <4>1
    <3>3. CASE d \in InFlight
      <4>1. d.sid \in 1 .. opened[d.room][d.user]
        BY <2>2, <3>3 DEF SessionsInv, SessionsNumbered
      <4>2. opened[d.room][d.user] <= opened'[d.room][d.user]
            /\ opened'[d.room][d.user] \in Nat
        BY <1>1, <1>4, <1>6, <1>7, <3>3
      <4> QED BY <1>6, <1>7, <3>3, <4>1, <4>2
    <3> QED BY <1>5, <3>1, <3>2, <3>3
  <2> QED BY <2>1, <2>2 DEF SessionsNumbered
<1>11. LastIsNotDuplicate'
  <2> SUFFICES ASSUME NEW e \in InFlight', e.kind = "left", e.reason = "DUPLICATE_IDENTITY"
               PROVE  e.sid # opened'[e.room][e.user]
    BY DEF LastIsNotDuplicate
  <2>1. CASE e \in InFlight /\ e.room = r /\ e.user = u
    BY <1>1, <1>4, <1>9, <2>1
  <2>2. CASE e \in InFlight /\ ~(e.room = r /\ e.user = u)
    BY <1>1, <1>6, <2>2 DEF SessionsInv, LastIsNotDuplicate
  <2>3. CASE e = dup /\ live[r][u] # NoSid
    BY <1>1, <1>3, <1>4, <2>3 DEF SessionsInv, SessionsNumbered
  <2> QED BY <1>3, <1>5, <2>1, <2>2, <2>3
<1>12. JoinsComeFirst'
  <2> SUFFICES ASSUME NEW d \in InFlight', d.kind = "joined",
                      NEW s \in d.sid .. opened'[d.room][d.user]
               PROVE  live'[d.room][d.user] = s \/ EndTold(d.room, d.user, s)'
    BY DEF JoinsComeFirst
  <2>1. ASSUME EndTold(d.room, d.user, s) PROVE EndTold(d.room, d.user, s)'
    BY <1>2, <2>1 DEF EndTold
  <2>2. CASE d = joined
    BY <1>1, <1>3, <1>4, <2>2
  <2>3. CASE d \in InFlight /\ ~(d.room = r /\ d.user = u)
    BY <1>1, <1>6, <2>1, <2>3 DEF SessionsInv, JoinsComeFirst
  <2>4. CASE d \in InFlight /\ d.room = r /\ d.user = u
    <3>1. CASE s = n
      BY <1>1, <2>4, <3>1
    <3>2. CASE s # n
      <4>1. s \in d.sid .. opened[r][u]
        BY <1>1, <1>4, <1>6, <2>4, <3>2
      <4>2. CASE live[r][u] = s
        <5>1. s # NoSid
          BY <1>9, <2>4, <4>1, <1>6 DEF NoSid, SessionsInv, SessionsNumbered
        <5> QED BY <1>2, <1>3, <2>4, <4>2, <5>1 DEF EndTold
      <4> QED BY <2>1, <2>4, <4>1, <4>2 DEF SessionsInv, JoinsComeFirst
    <3> QED BY <3>1, <3>2
  <2> QED BY <1>3, <1>5, <2>2, <2>3, <2>4
<1>13. EndsAreComing'
  <2> SUFFICES ASSUME NEW q \in Rooms, NEW v \in Users,
                      rows[q][v].status = "connected", live'[q][v] = NoSid
               PROVE  \E e \in News' : e.room = q /\ e.user = v
    BY <1>2 DEF EndsAreComing
  <2>1. live[q][v] = NoSid
    BY <1>1, <1>4 DEF NoSid
  <2>2. News \subseteq News'
    BY <1>2 DEF News
  <2> QED BY <2>1, <2>2 DEF SessionsInv, EndsAreComing
<1> QED BY <1>8, <1>10, <1>11, <1>12, <1>13 DEF SessionsInv

LEMMA LosesStep ==
  ASSUME TypeOK, TypeOK', SessionsInv, NEW r \in Rooms, NEW u \in Users,
         NEW why \in Reasons \ {"DUPLICATE_IDENTITY"}, LosesSession(u, r, why)
  PROVE  SessionsInv'
<1> DEFINE end == LeftEvent(u, r, why)
<1>1. end.room = r /\ end.user = u /\ end.sid = live[r][u]
  BY DEF LeftEvent, EventOf
<1>2. IsNewEnd(end) /\ IsEnd(end)
  BY LiveEnds DEF LosesSession, SessionsInv, IsNewEnd
<1>3. /\ webhooks' = webhooks \cup {end}
      /\ UNCHANGED <<rows, opened, joins, closings>>
      /\ live' = [live EXCEPT ![r][u] = NoSid]
  BY DEF LosesSession
<1> HIDE DEF end
<1>4. /\ \A e \in InFlight' : e \in InFlight \/ IsNewEnd(e)
      /\ \A e \in News : e \in News'
      /\ KindsOfHandlers'
  BY <1>2, <1>3 DEF InFlight, InHandling, News, SessionsInv, KindsOfHandlers
<1>5. \A q \in Rooms : \A v \in Users :
         \/ live'[q][v] = live[q][v]
         \/ /\ live'[q][v] = NoSid
            /\ \E e \in webhooks' : IsEnd(e) /\ e.room = q /\ e.user = v /\ e.sid = live[q][v]
  BY <1>1, <1>2, <1>3 DEF TypeOK
<1> QED BY <1>3, <1>4, <1>5, KeepsSessions

LEMMA RequestStepKeeps ==
  ASSUME TypeOK, TypeOK', SessionsInv, RequestStep
  PROVE  SessionsInv'
<1>1. ASSUME NEW r \in Rooms, NEW callers \in Pairs,
             getPrivateVoiceChatRoomCredentials(r, callers)
      PROVE  SessionsInv'
  <2>1. \A q \in Rooms : \A u \in Users :
          rows'[q][u].status = "connected" => rows[q][u].status = "connected"
    BY <1>1 DEF getPrivateVoiceChatRoomCredentials, AbsentRow, TypeOK
  <2> QED BY <1>1, <2>1, TableChanges DEF getPrivateVoiceChatRoomCredentials
<1>2. ASSUME NEW r \in Rooms, NEW u \in Users, endPrivateVoiceChat(r, u)
      PROVE  SessionsInv'
  <2> DEFINE c == [ev |-> EventOf("end", u, r, "none", NoSid), pc |-> "livekit"]
  <2>1. c.ev.kind = "end" /\ c.pc = "livekit"
    BY DEF EventOf
  <2>2. closings' = closings \cup {c} /\ UNCHANGED <<live, opened, webhooks, joins>>
    BY <1>2 DEF endPrivateVoiceChat, livekitVars
  <2> HIDE DEF c
  <2>3. /\ \A e \in InFlight' : e \in InFlight \/ e.kind = "end"
        /\ \A e \in News : e \in News'
        /\ KindsOfHandlers'
    BY <2>1, <2>2 DEF InFlight, InHandling, News, SessionsInv, KindsOfHandlers
  <2>4. \A q \in Rooms : \A v \in Users :
          rows'[q][v].status = "connected" => rows[q][v].status = "connected"
    BY <1>2 DEF endPrivateVoiceChat, deletePrivateVoiceChat, EmptyRoom, AbsentRow, TypeOK
  <2> QED BY <2>2, <2>3, <2>4, KeepsSessions
<1> QED BY <1>1, <1>2 DEF RequestStep

\* What LiveKit delivers next comes after everything of the same participant.
LEMMA DeliverInOrder ==
  ASSUME TypeOK, Ordered = TRUE, NEW e \in webhooks, Deliver(e)
  PROVE  /\ webhooks' \in {webhooks, webhooks \ {e}}
         /\ UNCHANGED <<live, opened>>
         /\ \A d \in InFlight : SamePlace(d, e) /\ d.kind = "joined" /\ e.kind = "left"
              => ~(d.sid <= e.sid)
<1>1. webhooks' \in {webhooks, webhooks \ {e}} /\ UNCHANGED <<live, opened>>
  BY DEF Deliver, livekitVars
<1>2. \A d \in InFlight : d.sid \in Nat /\ e.sid \in Nat
  BY InHandlingType DEF TypeOK, InFlight, Event
<1>3. \A d \in InFlight : ~Precedes(d, e)
  BY DEF Deliver, InFlight
<1> QED BY <1>1, <1>2, <1>3 DEF Precedes, SamePlace

LEMMA WebhookStepKeeps ==
  ASSUME TypeOK, TypeOK', SessionsInv, Ordered = TRUE, WebhookStep
  PROVE  SessionsInv'
<1> PICK e \in webhooks :
      \/ handlePrivateParticipantJoined(e)
      \/ LeftDuplicateIdentity(e)
      \/ LeftRoomDeleted(e)
      \/ LeftInterrupted(e)
      \/ LeftClientInitiated(e)
  BY DEF WebhookStep
<1>1. Deliver(e)
  BY DEF handlePrivateParticipantJoined, LeftDuplicateIdentity, LeftRoomDeleted,
         LeftInterrupted, LeftClientInitiated, LeftBecause
<1>2. /\ webhooks' \in {webhooks, webhooks \ {e}}
      /\ UNCHANGED <<live, opened>>
      /\ \A d \in InFlight : SamePlace(d, e) /\ d.kind = "joined" /\ e.kind = "left"
           => ~(d.sid <= e.sid)
  BY <1>1, DeliverInOrder
<1>3. \A d \in InFlight : \A f \in webhooks :
        d.kind = "joined" /\ f.kind = "left" /\ SamePlace(d, f) /\ d.sid <= f.sid
          => f \in webhooks'
  BY <1>2
<1>4. e.room \in Rooms /\ e.user \in Users /\ rows[e.room][e.user] \in Row
  BY DEF TypeOK, Event
\* The handlers that write no row, or wait before they do.
<1>5. ASSUME UNCHANGED rows, KindsOfHandlers', InFlight' \subseteq InFlight, News \subseteq News'
      PROVE  SessionsInv'
  BY <1>2, <1>3, <1>5, KeepsSessions
<1>6. CASE handlePrivateParticipantJoined(e)
  <2> DEFINE j == [ev |-> e, old |-> e.room,
                   pc |-> IF isPrivateRoomActive(e.room, now) THEN "select" ELSE "refuse"]
  <2>1. j.ev = e
    OBVIOUS
  <2>2. e.kind = "joined" /\ joins' = joins \cup {j} /\ UNCHANGED <<rows, closings>>
    BY <1>6 DEF handlePrivateParticipantJoined
  <2> HIDE DEF j
  <2>3. KindsOfHandlers'
    BY <2>1, <2>2 DEF SessionsInv, KindsOfHandlers
  <2>4. InFlight' \subseteq InFlight
    BY <1>2, <2>1, <2>2 DEF InFlight, InHandling
  <2>5. News \subseteq News'
    BY <1>2, <2>2 DEF News, IsEnd
  <2> QED BY <1>5, <2>2, <2>3, <2>4, <2>5
<1>7. CASE LeftDuplicateIdentity(e)
  <2>1. e.reason = "DUPLICATE_IDENTITY" /\ UNCHANGED <<rows, joins, closings>>
    BY <1>7 DEF LeftDuplicateIdentity, LeftBecause
  <2>2. KindsOfHandlers' /\ InFlight' \subseteq InFlight /\ News \subseteq News'
    BY <1>2, <2>1 DEF SessionsInv, KindsOfHandlers, InFlight, InHandling, News, IsEnd
  <2> QED BY <1>5, <2>1, <2>2
<1>8. CASE LeftClientInitiated(e)
  <2>1. /\ closings' = closings \cup {[ev |-> e, pc |-> "livekit"]}
        /\ e.kind = "left" /\ UNCHANGED <<rows, joins>>
    BY <1>8 DEF LeftClientInitiated, LeftBecause
  <2>2. KindsOfHandlers' /\ InFlight' \subseteq InFlight
    BY <1>2, <2>1 DEF SessionsInv, KindsOfHandlers, InFlight, InHandling
  <2>3. \E c \in closings' : c.ev = e
    <3>1. [ev |-> e, pc |-> "livekit"].ev = e
      OBVIOUS
    <3>2. [ev |-> e, pc |-> "livekit"] \in closings'
      BY <2>1
    <3> QED BY <3>1, <3>2, Zenon
  <2>4. \A c \in closings : c \in closings'
    BY <2>1
  <2>5. KindsOfHandlers' /\ InFlight' \subseteq InFlight /\ News \subseteq News'
    BY <1>2, <2>2, <2>3, <2>4 DEF News
  <2> QED BY <1>5, <2>1, <2>5
<1>9. CASE LeftRoomDeleted(e) \/ LeftInterrupted(e)
  <2>1. UNCHANGED <<joins, closings>>
    BY <1>9 DEF LeftRoomDeleted, LeftInterrupted
  <2>2. /\ rows'[e.room][e.user].status # "connected"
        /\ \A q \in Rooms : \A v \in Users :
             rows'[q][v].status = "connected" => rows[q][v].status = "connected"
    <3>1. CASE LeftRoomDeleted(e)
      <4>1. rows' = [rows EXCEPT ![e.room] = EmptyRoom]
        BY <3>1 DEF LeftRoomDeleted, deletePrivateVoiceChat
      <4> QED BY <1>4, <4>1 DEF EmptyRoom, AbsentRow, TypeOK
    <3>2. CASE LeftInterrupted(e)
      <4>1. PICK row : /\ row = updateUserStatus(rows[e.room][e.user], "connection_interrupted")
                       /\ rows' = [rows EXCEPT ![e.room][e.user] = row]
        BY <3>2 DEF LeftInterrupted
      <4>2. row.status # "connected"
        BY <1>4, <4>1, UpdateDisconnects DEF Statuses
      <4> QED BY <1>4, <4>1, <4>2 DEF TypeOK
    <3> QED BY <1>9, <3>1, <3>2
  <2>3. KindsOfHandlers' /\ InFlight' \subseteq InFlight /\ \A f \in News : f \in News' \/ f = e
    BY <1>2, <2>1 DEF SessionsInv, KindsOfHandlers, InFlight, InHandling, News
  <2> QED BY <1>2, <1>3, <2>2, <2>3, KeepsSessions
<1> QED BY <1>6, <1>7, <1>8, <1>9

-----------------------------------------------------------------------------
(* Handlers after their first await, the job and faults                    *)

LEMMA RefusedStep ==
  ASSUME TypeOK, TypeOK', SessionsInv, NEW j \in joins,
         JoinRefused(j) \/ JoinLeavesOld(j)
  PROVE  SessionsInv'
<1>1. PICK q \in Rooms : deleteRoom(q)
  BY DEF JoinRefused, JoinLeavesOld, TypeOK, Join, Event
<1>2. joins' \subseteq joins /\ UNCHANGED <<rows, opened, closings>>
  BY DEF JoinRefused, JoinLeavesOld
<1>3. /\ KindsOfHandlers' /\ InHandling' \subseteq InHandling
      /\ \A e \in News : e \in webhooks \/ e \in {c.ev : c \in closings'}
  BY <1>2 DEF SessionsInv, KindsOfHandlers, InHandling, News
<1> QED BY <1>1, <1>2, <1>3, DeletionKeeps

LEMMA JoinStepKeeps ==
  ASSUME TypeOK, TypeOK', SessionsInv, KeepsRetrying = TRUE, NEW j \in joins,
         JoinSelects(j) \/ JoinThrows(j) \/ JoinWrites(j)
  PROVE  SessionsInv'
<1>0. j \in Join /\ j.ev \in InHandling /\ j.ev \in InFlight /\ j.ev.kind = "joined"
      /\ j.ev.room \in Rooms /\ j.ev.user \in Users /\ j.old \in Rooms
  BY DEF TypeOK, InHandling, InFlight, SessionsInv, KindsOfHandlers, Join, Event
<1>1. CASE JoinSelects(j)
  <2>1. PICK old : joins' = (joins \ {j}) \cup {[j EXCEPT !.pc = "write", !.old = old]}
    BY <1>1 DEF JoinSelects
  <2>2. [j EXCEPT !.pc = "write", !.old = old].ev = j.ev
    BY <1>0 DEF Join
  <2>3. UNCHANGED <<rows, live, opened, webhooks, closings>>
    BY <1>1 DEF JoinSelects, livekitVars
  <2>4. KindsOfHandlers' /\ InFlight' \subseteq InFlight /\ News' = News
    BY <1>0, <2>1, <2>2, <2>3 DEF SessionsInv, KindsOfHandlers, InFlight, InHandling, News
  <2> QED BY <2>3, <2>4, KeepsSessions
<1>2. CASE JoinThrows(j)
  <2>1. PICK again \in Redelivered({j.ev}) : webhooks' = webhooks \cup again
    BY <1>2 DEF JoinThrows
  <2>2. again \subseteq {j.ev}
    BY DEF Redelivered
  <2>3. joins' = joins \ {j} /\ UNCHANGED <<rows, live, opened, closings>>
    BY <1>2 DEF JoinThrows, livekitVars
  <2>4. KindsOfHandlers' /\ InFlight' \subseteq InFlight /\ News \subseteq News'
    BY <1>0, <2>1, <2>2, <2>3 DEF SessionsInv, KindsOfHandlers, InFlight, InHandling, News
  <2> QED BY <2>1, <2>3, <2>4, KeepsSessions
<1>3. CASE JoinWrites(j)
  <2>1. /\ joins' = (joins \ {j}) \cup
              IF j.old = j.ev.room THEN {} ELSE {[j EXCEPT !.pc = "leaveOld"]}
        /\ UNCHANGED <<live, opened, webhooks, closings>>
    BY <1>3 DEF JoinWrites, livekitVars
  <2>2. [j EXCEPT !.pc = "leaveOld"].ev = j.ev
    BY <1>0 DEF Join
  <2>3. KindsOfHandlers' /\ InFlight' \subseteq InFlight /\ News' = News
    BY <1>0, <2>1, <2>2 DEF SessionsInv, KindsOfHandlers, InFlight, InHandling, News
  <2>4. ASSUME NEW q \in Rooms, NEW v \in Users, rows'[q][v].status = "connected",
               rows[q][v].status # "connected"
        PROVE  q = j.ev.room /\ v = j.ev.user
    <3>1. rows[q] \in [Users -> Row] /\ rows[q][v] \in Row
      BY DEF TypeOK
    <3>2. rows'[q] = [rows[q] EXCEPT ![j.ev.user] =
                  IF q = j.ev.room THEN updateUserStatus(@, "connected")
                  ELSE IF q = j.old THEN updateUserStatus(@, "disconnected") ELSE @]
      BY <1>3 DEF JoinWrites
    <3>3. v = j.ev.user
      BY <1>0, <2>4, <3>1, <3>2
    <3>4. updateUserStatus(rows[q][v], "disconnected").status # "connected"
      BY <3>1, UpdateDisconnects DEF Statuses
    <3> QED BY <1>0, <2>4, <3>1, <3>2, <3>3, <3>4
  <2> QED BY <1>0, <2>1, <2>3, <2>4, KeepsSessions
<1> QED BY <1>1, <1>2, <1>3

LEMMA ClosingStepKeeps ==
  ASSUME TypeOK, TypeOK', SessionsInv, NEW c \in closings,
         ClosingLivekit(c) \/ ClosingWrites(c)
  PROVE  SessionsInv'
<1>0. c \in Closing /\ c.ev.room \in Rooms /\ c.ev.user \in Users
      /\ rows[c.ev.room][c.ev.user] \in Row /\ c.ev \in InHandling
  BY DEF TypeOK, Closing, Event, InHandling
<1>1. CASE ClosingLivekit(c)
  <2>1. /\ deleteRoom(c.ev.room)
        /\ closings' = (closings \ {c}) \cup
             IF c.ev.kind = "end" THEN {} ELSE {[c EXCEPT !.pc = "write"]}
        /\ UNCHANGED <<rows, opened, joins>>
    BY <1>1 DEF ClosingLivekit
  <2>2. [c EXCEPT !.pc = "write"].ev = c.ev
    BY <1>0 DEF Closing
  <2>3. c.ev.kind # "end" => c.ev.kind = "left"
    BY DEF SessionsInv, KindsOfHandlers
  <2>4. KindsOfHandlers' /\ InHandling' \subseteq InHandling
    BY <2>1, <2>2, <2>3 DEF SessionsInv, KindsOfHandlers, InHandling
  <2>5. \A e \in News : e \in webhooks \/ e \in {k.ev : k \in closings'}
    BY <2>1, <2>2 DEF News, IsEnd
  <2> QED BY <1>0, <2>1, <2>4, <2>5, DeletionKeeps
<1>2. CASE ClosingWrites(c)
  <2>1. PICK row : /\ row = updateUserStatus(rows[c.ev.room][c.ev.user], "disconnected")
                   /\ rows' = [rows EXCEPT ![c.ev.room][c.ev.user] = row]
    BY <1>2 DEF ClosingWrites
  <2>2. row.status # "connected"
    BY <1>0, <2>1, UpdateDisconnects DEF Statuses
  <2>3. /\ rows'[c.ev.room][c.ev.user].status # "connected"
        /\ \A q \in Rooms : \A v \in Users :
             rows'[q][v].status = "connected" => rows[q][v].status = "connected"
    BY <1>0, <2>1, <2>2 DEF TypeOK
  <2>4. closings' = closings \ {c} /\ UNCHANGED <<live, opened, webhooks, joins>>
    BY <1>2 DEF ClosingWrites, livekitVars
  <2>5. /\ KindsOfHandlers' /\ InFlight' \subseteq InFlight
        /\ \A f \in News : f \in News' \/ f = c.ev
    BY <2>4 DEF SessionsInv, KindsOfHandlers, InFlight, InHandling, News
  <2> QED BY <2>3, <2>4, <2>5, KeepsSessions
<1> QED BY <1>1, <1>2

LEMMA CronJobKeeps ==
  ASSUME TypeOK, TypeOK', SessionsInv, CronJob
  PROVE  SessionsInv'
<1>1. CASE CronDeletesRows
  <2>1. \A q \in Rooms : \A v \in Users :
          rows'[q][v].status = "connected" => rows[q][v].status = "connected"
    BY <1>1 DEF CronDeletesRows, deletePrivateVoiceChat, EmptyRoom, AbsentRow
  <2> QED BY <1>1, <2>1, TableChanges DEF CronDeletesRows, livekitVars
<1>2. ASSUME NEW r \in Rooms, CronClosesRoom(r) PROVE SessionsInv'
  <2>1. deleteRoom(r) /\ UNCHANGED <<rows, opened, joins, closings>>
    BY <1>2 DEF CronClosesRoom
  <2>2. /\ KindsOfHandlers' /\ InHandling' \subseteq InHandling
        /\ \A e \in News : e \in webhooks \/ e \in {c.ev : c \in closings'}
    BY <2>1 DEF SessionsInv, KindsOfHandlers, InHandling, News
  <2> QED BY <2>1, <2>2, DeletionKeeps
<1> QED BY <1>1, <1>2 DEF CronJob

\* LiveKit is told again about every event whose handler is lost.
LEMMA FaultKeeps ==
  ASSUME TypeOK, TypeOK', SessionsInv, KeepsRetrying = TRUE, Fault
  PROVE  SessionsInv'
<1>1. PICK lost, again :
        /\ lost \subseteq InHandling /\ again \in Redelivered(lost)
        /\ webhooks' = webhooks \cup again
        /\ joins' \subseteq joins /\ closings' \subseteq closings
        /\ \A c \in closings : c \in closings' \/ c.ev \in lost
        /\ UNCHANGED <<rows, live, opened>>
  <2>1. CASE HandlerFails
    <3>1. ASSUME NEW j \in joins, joins' = joins \ {j}, UNCHANGED closings,
                 NEW again \in Redelivered({j.ev}), webhooks' = webhooks \cup again
          PROVE  /\ {j.ev} \subseteq InHandling /\ joins' \subseteq joins
                 /\ \A c \in closings : c \in closings' \/ c.ev \in {j.ev}
      BY <3>1 DEF InHandling
    <3>2. ASSUME NEW c \in closings, closings' = closings \ {c}, UNCHANGED joins,
                 NEW again \in Redelivered({c.ev}), webhooks' = webhooks \cup again
          PROVE  /\ {c.ev} \subseteq InHandling /\ closings' \subseteq closings
                 /\ \A k \in closings : k \in closings' \/ k.ev \in {c.ev}
      BY <3>2 DEF InHandling
    <3>3. UNCHANGED <<rows, live, opened>>
      BY <2>1 DEF HandlerFails, livekitVars
    <3>4. CASE \E j \in joins : /\ joins' = joins \ {j} /\ UNCHANGED closings
                                /\ \E again \in Redelivered({j.ev}) :
                                     webhooks' = webhooks \cup again
      <4> PICK j \in joins : /\ joins' = joins \ {j} /\ UNCHANGED closings
                             /\ \E again \in Redelivered({j.ev}) :
                                  webhooks' = webhooks \cup again
        BY <3>4
      <4> PICK again \in Redelivered({j.ev}) : webhooks' = webhooks \cup again
        OBVIOUS
      <4> WITNESS {j.ev}, again
      <4> QED BY <3>1, <3>3
    <3>5. CASE \E c \in closings : /\ closings' = closings \ {c} /\ UNCHANGED joins
                                   /\ \E again \in Redelivered({c.ev}) :
                                        webhooks' = webhooks \cup again
      <4> PICK c \in closings : /\ closings' = closings \ {c} /\ UNCHANGED joins
                                /\ \E again \in Redelivered({c.ev}) :
                                     webhooks' = webhooks \cup again
        BY <3>5
      <4> PICK again \in Redelivered({c.ev}) : webhooks' = webhooks \cup again
        OBVIOUS
      <4> WITNESS {c.ev}, again
      <4> QED BY <3>2, <3>3
    <3> QED BY <2>1, <3>4, <3>5 DEF HandlerFails
  <2>2. CASE Restart
    <3> PICK again \in Redelivered(InHandling) : webhooks' = webhooks \cup again
      BY <2>2 DEF Restart
    <3>1. /\ joins' = {} /\ closings' = {} /\ UNCHANGED <<rows, live, opened>>
          /\ \A c \in closings : c.ev \in InHandling
      BY <2>2 DEF Restart, livekitVars, InHandling
    <3> WITNESS InHandling, again
    <3> QED BY <3>1
  <2> QED BY <2>1, <2>2 DEF Fault
<1>2. again = {e \in lost : e.kind # "end"}
  BY <1>1 DEF Redelivered
<1>3. /\ KindsOfHandlers' /\ InFlight' \subseteq InFlight
      /\ \A e \in News : e \in News'
  BY <1>1, <1>2 DEF SessionsInv, KindsOfHandlers, InFlight, InHandling, News, IsEnd
<1> QED BY <1>1, <1>3, KeepsSessions

\* Every step of an orderly and persistent LiveKit keeps the invariant.
LEMMA SessionsInvStep ==
  ASSUME TypeOK, TypeOK', SessionsInv, Ordered = TRUE, KeepsRetrying = TRUE, [Next]_vars
  PROVE  SessionsInv'
<1>1. CASE ClientStep
  <2> PICK r \in Rooms, u \in Users :
        ClientConnects(u, r) \/ ClientLeaves(u, r) \/ ConnectionDrops(u, r)
    BY <1>1 DEF ClientStep
  <2>1. {"CLIENT_INITIATED", "interrupted"} \subseteq Reasons \ {"DUPLICATE_IDENTITY"}
    BY DEF Reasons
  <2> QED BY <2>1, ConnectStep, LosesStep DEF ClientLeaves, ConnectionDrops
<1>2. CASE HandlerStep
  BY <1>2, RefusedStep, JoinStepKeeps, ClosingStepKeeps DEF HandlerStep
<1>3. CASE Tick
  BY <1>3, TableChanges DEF Tick, livekitVars
<1>4. CASE UNCHANGED vars
  BY <1>4, TableChanges DEF vars
<1> QED
  BY <1>1, <1>2, <1>3, <1>4, RequestStepKeeps, WebhookStepKeeps, CronJobKeeps, FaultKeeps
  DEF Next

LEMMA SessionsInvInit == Init => SessionsInv
<1> SUFFICES ASSUME Init PROVE SessionsInv
  OBVIOUS
<1>1. \A r \in Rooms : \A u \in Users : rows[r][u].status # "connected"
  BY DEF Init, EmptyRoom, AbsentRow
<1> QED
  BY <1>1 DEF Init, SessionsInv, KindsOfHandlers, SessionsNumbered, LastIsNotDuplicate,
     JoinsComeFirst, EndsAreComing, InFlight, InHandling, NoSid

\* Where webhooks come in order and are retried, a row never stays connected without a
\* session and without news to come: through any number of sessions, calls, transactions
\* that overlap, handlers that fail and restarts.
THEOREM ConnectedRowsTracked ==
  ASSUME Ordered = TRUE, KeepsRetrying = TRUE
  PROVE  Spec => []ConnectedRowsHaveSessions
<1>1. TypeOK /\ SessionsInv /\ [Next]_vars => TypeOK' /\ SessionsInv'
  BY Census, SessionsInvStep
<1>2. SessionsInv => ConnectedRowsHaveSessions
  BY DEF SessionsInv, EndsAreComing, ConnectedRowsHaveSessions, News, IsEnd, InHandling
<1>3. Init => TypeOK
  BY InitType
<1> QED BY <1>1, <1>2, <1>3, SessionsInvInit, PTL DEF Spec
=============================================================================
