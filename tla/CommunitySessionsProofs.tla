---------------------- MODULE CommunitySessionsProofs ----------------------
(***************************************************************************)
(* What the webhooks of a community voice chat tell in order, for any      *)
(* rooms, users, sessions and faults: a connected row describes a session  *)
(* LiveKit still has, or the news of its end is on its way                 *)
(* (ConnectedRowsHaveSessions), and the guards of the leave handler drop   *)
(* no leave they should act on (GenuineLeaveIsProcessed).                  *)
(*                                                                         *)
(* Order has three consequences.  A joined event holds back the ends of    *)
(* its session and of all later ones (JoinsInOrder); a row that tracks a   *)
(* session has not heard of later ones (LaterJoinsComing), so the session  *)
(* guard never drops the leave of the last session; an interruption holds  *)
(* back the later sessions (InterruptionsInOrder), so a row that was       *)
(* interrupted before it tracked a session is dated before the leaves that *)
(* are still to come (UnclaimedRows).  Two of the steps matter by what     *)
(* they do to the events: one opens a session, one delivers a joined       *)
(* event.  All others are QuietSteps, and are dealt with together.         *)
(***************************************************************************)
EXTENDS CommunityVoiceProofs

InFlight == webhooks \cup InHandling
SamePlace(d, e) == d.room = e.room /\ d.user = e.user

Joins == {d \in webhooks : d.kind = "joined"}
JoinedComing(r, u, s) == \E d \in Joins : d.room = r /\ d.user = u /\ d.sid = s
EndComing(r, u, s) == \E e \in webhooks :
    e.kind = "left" /\ e.room = r /\ e.user = u /\ e.sid = s

\* The handlers that outlive their first await are about these events.
KindsOfHandlers ==
    \A e \in InHandling : \/ e.kind = "end"
                          \/ e.kind = "left" /\ e.reason \in {"CLIENT_INITIATED", "ROOM_DELETED"}

\* Sessions count up, and the one a user has is his last.
SessionsNumbered == \A r \in Rooms : \A u \in Users : live[r][u] \in {NoSid, opened[r][u]}

\* A leave is about a session that was opened and has ended; one ended by a newer
\* session is not the last.
LeavesOfEnded ==
    \A e \in InFlight : e.kind = "left" =>
        /\ e.sid \in 1 .. opened[e.room][e.user]
        /\ e.sid # live[e.room][e.user]
        /\ e.reason = "DUPLICATE_IDENTITY" => e.sid # opened[e.room][e.user]

\* A joined event holds back those of later sessions, and the ends of all of them.
JoinsInOrder ==
    \A d \in Joins : \A s \in d.sid .. opened[d.room][d.user] :
        /\ JoinedComing(d.room, d.user, s)
        /\ live[d.room][d.user] = s \/ EndComing(d.room, d.user, s)

\* A row that tracks a session has not heard of later ones.
LaterJoinsComing ==
    \A r \in Rooms : \A u \in Users :
        rows[r][u].sid # NoSid =>
            \A s \in (rows[r][u].sid + 1) .. opened[r][u] : JoinedComing(r, u, s)

SessionsInv ==
    /\ RowsInv
    /\ KindsOfHandlers /\ SessionsNumbered /\ LeavesOfEnded
    /\ JoinsInOrder /\ LaterJoinsComing

\* The ends of sessions that a handler has yet to write to the table.
Unwritten == {l.ev : l \in {k \in leaves : k.pc = "write"}}
                \cup {d.ev : d \in {t \in teardowns : "db" \in t.todo}}
IsEnd(e) == e.kind = "left" /\ e.reason # "DUPLICATE_IDENTITY"
News == {e \in webhooks \cup Unwritten : IsEnd(e)}

EndsAreComing ==
    \A r \in Rooms : \A u \in Users :
        rows[r][u].status = "connected" /\ live[r][u] = NoSid
          => \E e \in News : e.room = r /\ e.user = u /\ e.sid = opened[r][u]

\* An interruption holds back later sessions; it is the only end of its session, and
\* no leave of that or a later session has been delivered.
InterruptionsInOrder ==
    \A e \in webhooks : e.kind = "left" /\ e.reason = "interrupted" =>
        /\ \A s \in (e.sid + 1) .. opened[e.room][e.user] : JoinedComing(e.room, e.user, s)
        /\ \A f \in InHandling : f.kind = "left" /\ SamePlace(e, f) => f.sid < e.sid
        /\ \A f \in webhooks :
             f.kind = "left" /\ SamePlace(e, f) /\ f.sid = e.sid => f = e

\* The sessions of a user whose voluntary leaves are still to come have not been heard
\* of, or are superseded; so is the one he has.
LeavesAhead(r, u) ==
    /\ live[r][u] = NoSid \/ JoinedComing(r, u, live[r][u])
    /\ \A e \in InFlight :
         e.kind = "left" /\ e.reason = "CLIENT_INITIATED" /\ e.room = r /\ e.user = u
           => JoinedComing(r, u, e.sid) \/ LaterSessionKnown(e)

\* So it is where a row was interrupted before it tracked a session.
Unclaimed(row) == row.status = "connection_interrupted" /\ row.sid = NoSid
UnclaimedRows ==
    \A r \in Rooms : \A u \in Users : Unclaimed(rows[r][u]) => LeavesAhead(r, u)

\* A pending row is as old as the user's last credentials.
PendingRows ==
    \A r \in Rooms : \A u \in Users :
        rows[r][u].status = "not_connected" => rows[r][u].statusUpdatedAt <= granted[r][u]

InterruptionsInv == InterruptionsInOrder /\ UnclaimedRows

-----------------------------------------------------------------------------
(* Quiet steps                                                             *)

\* The end that the step brings to a user's session.
NewEnd(e, why) ==
    /\ e.room \in Rooms /\ e.user \in Users /\ e = LeftEvent(e.user, e.room, why)
    /\ live[e.room][e.user] # NoSid /\ live'[e.room][e.user] = NoSid

\* What LiveKit delivers next comes after everything of the same participant.
InOrder(e) == e \in webhooks /\ \A d \in webhooks : ~Precedes(d, e)

\* A step that opens no session and delivers no joined event: leaves in flight were
\* so before or tell what the step ends; the handlers it starts are about a leave
\* that came in order; no leave that a joined event holds back is taken.
QuietStep(why) ==
    /\ UNCHANGED opened /\ Joins' = Joins
    /\ \A e \in webhooks' : e.kind = "left" => e \in InFlight \/ NewEnd(e, why)
    /\ \A e \in InHandling' : \/ e.kind = "end"
                              \/ e \in InHandling
                              \/ /\ e.kind = "left" /\ InOrder(e)
                                 /\ e.reason \in {"CLIENT_INITIATED", "ROOM_DELETED"}
    /\ \A d \in Joins : \A e \in webhooks :
         e.kind = "left" /\ SamePlace(d, e) /\ d.sid <= e.sid => e \in webhooks'
    /\ \A r \in Rooms : \A u \in Users :
         \/ live'[r][u] = live[r][u]
         \/ /\ live'[r][u] = NoSid
            /\ \E e \in webhooks' : NewEnd(e, why) /\ e.room = r /\ e.user = u

\* Where such a step changes a row, it tracks no session or the one it did, and is
\* connected only if it was.
RowsFollow ==
    \A r \in Rooms : \A u \in Users :
        /\ rows'[r][u].sid \in {NoSid, rows[r][u].sid}
        /\ rows'[r][u].status = "connected" => rows[r][u].status = "connected"

Ending == Reasons \ {"DUPLICATE_IDENTITY"}

LEMMA FlightType ==
  ASSUME TypeOK
  PROVE  /\ \A e \in InFlight : e \in Event /\ e.room \in Rooms /\ e.user \in Users /\ e.sid \in Nat
         /\ \A r \in Rooms : \A u \in Users : opened[r][u] \in Nat /\ live[r][u] \in Nat
  BY InHandlingType DEF TypeOK, InFlight, Event

LEMMA NewEndFacts ==
  ASSUME SessionsInv, NEW why \in Ending, NEW e, NewEnd(e, why)
  PROVE  /\ IsEnd(e) /\ e.kind = "left" /\ e.reason = why
         /\ e.sid = live[e.room][e.user] /\ e.sid = opened[e.room][e.user] /\ e.sid # NoSid
<1>1. e.kind = "left" /\ e.reason = why /\ e.sid = live[e.room][e.user]
  BY DEF NewEnd, LeftEvent, EventOf
<1> QED BY <1>1 DEF IsEnd, Ending, NewEnd, SessionsInv, SessionsNumbered

LEMMA QuietSessions ==
  ASSUME SessionsInv, RowsInv', NEW why \in Ending, QuietStep(why), RowsFollow
  PROVE  SessionsInv'
<1>0. TypeOK /\ TypeOK'
  BY DEF SessionsInv, RowsInv
<1>1. \A e \in InFlight' : e.kind = "left" => e \in InFlight \/ NewEnd(e, why)
  BY DEF QuietStep, InFlight, InOrder
<1>2. KindsOfHandlers'
  BY DEF QuietStep, SessionsInv, KindsOfHandlers
<1>3. SessionsNumbered'
  BY DEF QuietStep, SessionsInv, SessionsNumbered
<1>4. LeavesOfEnded'
  <2> SUFFICES ASSUME NEW e \in InFlight', e.kind = "left"
               PROVE  /\ e.sid \in 1 .. opened[e.room][e.user]
                      /\ e.sid # live'[e.room][e.user]
                      /\ e.reason = "DUPLICATE_IDENTITY" => e.sid # opened[e.room][e.user]
    BY DEF LeavesOfEnded, QuietStep
  <2>1. e.room \in Rooms /\ e.user \in Users /\ opened[e.room][e.user] \in Nat
    <3>1. e.room \in Rooms /\ e.user \in Users
      BY <1>0, <1>1, FlightType DEF NewEnd
    <3> QED BY <1>0, <3>1, FlightType
  <2>2. CASE e \in InFlight
    <3>1. e.sid \in 1 .. opened[e.room][e.user] /\ e.sid # NoSid
      BY <1>0, <2>2, FlightType DEF SessionsInv, LeavesOfEnded, NoSid
    <3> QED BY <2>1, <2>2, <3>1 DEF SessionsInv, LeavesOfEnded, QuietStep
  <2>3. CASE NewEnd(e, why)
    BY <2>1, <2>3, NewEndFacts DEF NewEnd, Ending, NoSid
  <2> QED BY <1>1, <2>2, <2>3
<1>5. ASSUME NEW r, NEW u, NEW s PROVE JoinedComing(r, u, s)' = JoinedComing(r, u, s)
  BY DEF JoinedComing, QuietStep
<1>6. JoinsInOrder'
  <2> SUFFICES ASSUME NEW d \in Joins, NEW s \in d.sid .. opened[d.room][d.user]
               PROVE  /\ JoinedComing(d.room, d.user, s)
                      /\ live'[d.room][d.user] = s \/ EndComing(d.room, d.user, s)'
    BY <1>5 DEF JoinsInOrder, QuietStep
  <2>1. d.room \in Rooms /\ d.user \in Users /\ d.sid \in Nat /\ s \in Int /\ d.sid <= s
    BY <1>0, FlightType DEF Joins, InFlight
  <2>2. JoinedComing(d.room, d.user, s)
    BY DEF SessionsInv, JoinsInOrder
  <2>3. CASE live[d.room][d.user] = s /\ live'[d.room][d.user] # s
    <3>1. PICK e \in webhooks' : NewEnd(e, why) /\ e.room = d.room /\ e.user = d.user
      BY <2>1, <2>3 DEF QuietStep
    <3>2. e.kind = "left" /\ e.sid = s
      BY <2>3, <3>1, NewEndFacts
    <3> QED BY <2>2, <3>1, <3>2 DEF EndComing
  <2>4. CASE EndComing(d.room, d.user, s)
    <3> PICK e \in webhooks :
          e.kind = "left" /\ e.room = d.room /\ e.user = d.user /\ e.sid = s
      BY <2>4 DEF EndComing
    <3>1. e \in webhooks'
      BY <2>1 DEF QuietStep, SamePlace
    <3> QED BY <2>2, <3>1 DEF EndComing
  <2> QED BY <2>2, <2>3, <2>4 DEF SessionsInv, JoinsInOrder
<1>7. LaterJoinsComing'
  BY <1>5 DEF SessionsInv, LaterJoinsComing, RowsFollow, QuietStep
<1> QED BY <1>2, <1>3, <1>4, <1>6, <1>7 DEF SessionsInv
\* The news of an end is kept until its row is no longer connected.
NewsKept ==
    \A e \in News :
        e.sid = opened[e.room][e.user] =>
            e \in News' \/ rows'[e.room][e.user].status # "connected"

LEMMA QuietEnds ==
  ASSUME SessionsInv, EndsAreComing, NEW why \in Ending, QuietStep(why), RowsFollow, NewsKept
  PROVE  EndsAreComing'
<1> SUFFICES ASSUME NEW r \in Rooms, NEW u \in Users,
                    rows'[r][u].status = "connected", live'[r][u] = NoSid
             PROVE  \E e \in News' : e.room = r /\ e.user = u /\ e.sid = opened[r][u]
  BY DEF EndsAreComing, QuietStep
<1>1. CASE live'[r][u] # live[r][u]
  <2>1. PICK e \in webhooks' : NewEnd(e, why) /\ e.room = r /\ e.user = u
    BY <1>1 DEF QuietStep
  <2>2. IsEnd(e) /\ e.sid = opened[r][u]
    BY <2>1, NewEndFacts
  <2> QED BY <2>1, <2>2 DEF News, IsEnd
<1>2. CASE live[r][u] = NoSid
  <2>1. rows[r][u].status = "connected"
    BY DEF RowsFollow
  <2>2. PICK e \in News : e.room = r /\ e.user = u /\ e.sid = opened[r][u]
    BY <1>2, <2>1 DEF EndsAreComing
  <2> QED BY <2>2 DEF NewsKept
<1> QED BY <1>1, <1>2

LEMMA QuietInterruptions ==
  ASSUME SessionsInv, InterruptionsInOrder, NEW why \in Ending, QuietStep(why)
  PROVE  InterruptionsInOrder'
<1>0. TypeOK
  BY DEF SessionsInv, RowsInv
<1>1. ASSUME NEW r, NEW u, NEW s PROVE JoinedComing(r, u, s)' = JoinedComing(r, u, s)
  BY DEF JoinedComing, QuietStep
<1> SUFFICES ASSUME NEW e \in webhooks', e.kind = "left", e.reason = "interrupted"
             PROVE  /\ \A s \in (e.sid + 1) .. opened[e.room][e.user] :
                          JoinedComing(e.room, e.user, s)
                    /\ \A f \in InHandling' : f.kind = "left" /\ SamePlace(e, f) => f.sid < e.sid
                    /\ \A f \in webhooks' :
                         f.kind = "left" /\ SamePlace(e, f) /\ f.sid = e.sid => f = e
  BY <1>1 DEF InterruptionsInOrder, QuietStep
<1>2. e \in webhooks \/ NewEnd(e, why)
  <2>1. e \notin InHandling
    BY DEF SessionsInv, KindsOfHandlers
  <2> QED BY <2>1 DEF QuietStep, InFlight
<1>3. \A f \in InFlight : f.kind = "left" => f.sid \in 1 .. opened[f.room][f.user]
                                            /\ f.sid # live[f.room][f.user]
  BY DEF SessionsInv, LeavesOfEnded
\* The new ends of one user are the same event.
<1>4. ASSUME NEW f, NewEnd(f, why), NewEnd(e, why), SamePlace(e, f) PROVE f = e
  BY <1>4 DEF NewEnd, SamePlace
<1>5. CASE e \in webhooks
  <2>1. \A s \in (e.sid + 1) .. opened[e.room][e.user] : JoinedComing(e.room, e.user, s)
    BY <1>5 DEF InterruptionsInOrder
  <2>2. ASSUME NEW f \in InHandling', f.kind = "left", SamePlace(e, f) PROVE f.sid < e.sid
    <3>1. CASE f \in InHandling
      BY <1>5, <2>2, <3>1 DEF InterruptionsInOrder
    <3>2. CASE InOrder(f) /\ f.reason \in {"CLIENT_INITIATED", "ROOM_DELETED"}
      <4>1. e.sid \in Nat /\ f.sid \in Nat
        BY <1>0, <1>5, <3>2, FlightType DEF InFlight, InOrder
      <4>2. ~(e.sid < f.sid)
        BY <1>5, <2>2, <3>2 DEF InOrder, Precedes, SamePlace
      <4>3. f.sid # e.sid
        BY <1>5, <2>2, <3>2 DEF InOrder, InterruptionsInOrder
      <4> QED BY <4>1, <4>2, <4>3
    <3> QED BY <2>2, <3>1, <3>2 DEF QuietStep
  <2>3. ASSUME NEW f \in webhooks', f.kind = "left", SamePlace(e, f), f.sid = e.sid PROVE f = e
    <3>1. CASE f \in webhooks
      BY <1>5, <2>3, <3>1 DEF InterruptionsInOrder
    <3>2. CASE f \in InHandling
      BY <1>5, <2>3, <3>2, <1>0, FlightType DEF InterruptionsInOrder, InFlight
    <3>3. CASE NewEnd(f, why)
      <4>1. f.sid = live[e.room][e.user]
        BY <2>3, <3>3, NewEndFacts DEF SamePlace
      <4> QED BY <1>3, <1>5, <2>3, <4>1 DEF InFlight
    <3> QED BY <2>3, <3>1, <3>2, <3>3 DEF QuietStep, InFlight
  <2> QED BY <2>1, <2>2, <2>3
<1>6. CASE NewEnd(e, why)
  <2>1. /\ e.sid = opened[e.room][e.user] /\ e.sid = live[e.room][e.user]
        /\ opened[e.room][e.user] \in Nat
    BY <1>0, <1>6, NewEndFacts, FlightType DEF NewEnd
  <2>2. ASSUME NEW f \in InFlight, f.kind = "left", SamePlace(e, f) PROVE f.sid < e.sid
    <3>1. f.room = e.room /\ f.user = e.user
      BY <2>2 DEF SamePlace
    <3>2. f.sid \in 1 .. opened[e.room][e.user] /\ f.sid # live[e.room][e.user]
      BY <1>3, <2>2, <3>1
    <3> QED BY <2>1, <3>2
  <2>3. \A f \in InHandling' : f.kind = "left" /\ SamePlace(e, f) => f \in InFlight
    BY DEF QuietStep, InFlight, InOrder
  <2>4. ASSUME NEW f \in webhooks', f.kind = "left", SamePlace(e, f), f.sid = e.sid PROVE f = e
    <3>1. f \notin InFlight
      BY <2>1, <2>2, <2>4
    <3> QED BY <1>4, <1>6, <2>4, <3>1 DEF QuietStep
  <2> QED BY <2>1, <2>2, <2>3, <2>4
<1> QED BY <1>2, <1>5, <1>6
LEMMA LaterSessionKnownMeans ==
  ASSUME NEW e
  PROVE  LaterSessionKnown(e) <=> \E s \in (e.sid + 1) .. opened[e.room][e.user] :
                                     ~JoinedComing(e.room, e.user, s)
  BY DEF LaterSessionKnown, JoinedComing, Joins

LEMMA QuietLeaves ==
  ASSUME SessionsInv, NEW why \in Ending, QuietStep(why),
         NEW r \in Rooms, NEW u \in Users, LeavesAhead(r, u)
  PROVE  LeavesAhead(r, u)'
<1>1. \A s : JoinedComing(r, u, s)' = JoinedComing(r, u, s)
  BY DEF JoinedComing, QuietStep
<1>2. live'[r][u] = NoSid \/ JoinedComing(r, u, live'[r][u])
  BY DEF QuietStep, LeavesAhead
<1>3. ASSUME NEW e \in InFlight', e.kind = "left", e.reason = "CLIENT_INITIATED",
             e.room = r, e.user = u
      PROVE  JoinedComing(r, u, e.sid) \/ LaterSessionKnown(e)'
  <2>1. CASE e \in InFlight
    <3>1. LaterSessionKnown(e) => LaterSessionKnown(e)'
      BY DEF LaterSessionKnown, QuietStep, Joins
    <3> QED BY <1>3, <2>1, <3>1 DEF LeavesAhead
  <2>2. CASE NewEnd(e, why)
    <3>1. e.sid = live[r][u] /\ e.sid # NoSid
      BY <1>3, <2>2, NewEndFacts
    <3> QED BY <3>1 DEF LeavesAhead
  <2> QED BY <1>3, <2>1, <2>2 DEF QuietStep, InFlight, InOrder
<1> QED BY <1>1, <1>2, <1>3 DEF LeavesAhead

\* A quiet step by which no row becomes unclaimed.
LEMMA QuietClaims ==
  ASSUME SessionsInv, UnclaimedRows, NEW why \in Ending, QuietStep(why),
         \A r \in Rooms : \A u \in Users : Unclaimed(rows'[r][u]) => Unclaimed(rows[r][u])
  PROVE  UnclaimedRows'
  BY QuietLeaves DEF UnclaimedRows

-----------------------------------------------------------------------------
(* A session is opened                                                     *)

LEMMA ConnectStep ==
  ASSUME SessionsInv, RowsInv', NEW r \in Rooms, NEW u \in Users, ClientConnects(u, r)
  PROVE  /\ SessionsInv'
         /\ EndsAreComing => EndsAreComing'
         /\ InterruptionsInv => InterruptionsInv'
<1>0. TypeOK
  BY DEF SessionsInv, RowsInv
<1>4. PICK n \in Nat : n = opened[r][u] + 1
  BY <1>0, FlightType
<1> DEFINE joined == EventOf("joined", u, r, "none", n, 0)
           dup == LeftEvent(u, r, "DUPLICATE_IDENTITY")
<1>1. /\ opened[r][u] \in Nat /\ n \in Nat /\ live'[r][u] = n /\ opened'[r][u] = n
      /\ \A q \in Rooms : \A v \in Users : q # r \/ v # u =>
           live'[q][v] = live[q][v] /\ opened'[q][v] = opened[q][v]
  BY <1>0, <1>4 DEF ClientConnects, TypeOK
<1>2. /\ webhooks \subseteq webhooks' /\ joined \in webhooks'
      /\ \A e \in webhooks' : e \in webhooks \/ e = joined \/ (e = dup /\ live[r][u] # NoSid)
      /\ live[r][u] # NoSid => dup \in webhooks'
      /\ UNCHANGED <<rows, leaves, teardowns>>
  BY <1>4 DEF ClientConnects, handlerVars
<1>3. /\ joined.kind = "joined" /\ joined.room = r /\ joined.user = u /\ joined.sid = n
      /\ dup.kind = "left" /\ dup.reason = "DUPLICATE_IDENTITY"
      /\ dup.room = r /\ dup.user = u /\ dup.sid = live[r][u]
  BY DEF EventOf, LeftEvent
<1> HIDE DEF joined, dup
<1>5. /\ InHandling' = InHandling
      /\ \A e \in InFlight' : e \in InFlight \/ e = joined \/ (e = dup /\ live[r][u] # NoSid)
  BY <1>2 DEF InFlight, InHandling
<1>6. \A d \in Joins' : d \in Joins \/ d = joined
  BY <1>2, <1>3 DEF Joins
<1>7. ASSUME NEW q, NEW v, NEW s PROVE /\ JoinedComing(q, v, s) => JoinedComing(q, v, s)'
                                       /\ EndComing(q, v, s) => EndComing(q, v, s)'
  BY <1>2 DEF JoinedComing, EndComing, Joins
<1>8. JoinedComing(r, u, n)'
  BY <1>2, <1>3 DEF JoinedComing, Joins
\* Of the sessions up to the new one, the new one is told and the others were open before.
<1>9. ASSUME NEW q \in Rooms, NEW v \in Users, NEW m \in Nat, NEW s \in m .. opened'[q][v]
      PROVE  s \in m .. opened[q][v] \/ (q = r /\ v = u /\ s = n)
  BY <1>0, <1>1, <1>4, FlightType
<1>10. live[r][u] \in {NoSid, opened[r][u]}
  BY DEF SessionsInv, SessionsNumbered
<1>11. KindsOfHandlers'
  BY <1>5 DEF SessionsInv, KindsOfHandlers
<1>12. SessionsNumbered'
  BY <1>1 DEF SessionsInv, SessionsNumbered
<1>13. LeavesOfEnded'
  <2> SUFFICES ASSUME NEW e \in InFlight', e.kind = "left"
               PROVE  /\ e.sid \in 1 .. opened'[e.room][e.user]
                      /\ e.sid # live'[e.room][e.user]
                      /\ e.reason = "DUPLICATE_IDENTITY" => e.sid # opened'[e.room][e.user]
    BY DEF LeavesOfEnded
  <2>1. CASE e \in InFlight
    <3>1. /\ e.sid \in 1 .. opened[e.room][e.user] /\ e.sid # live[e.room][e.user]
          /\ e.reason = "DUPLICATE_IDENTITY" => e.sid # opened[e.room][e.user]
      BY <2>1 DEF SessionsInv, LeavesOfEnded
    <3>2. e.room \in Rooms /\ e.user \in Users
      BY <1>0, <2>1, FlightType
    <3>3. CASE e.room = r /\ e.user = u
      BY <1>1, <1>4, <3>1, <3>3
    <3>4. CASE ~(e.room = r /\ e.user = u)
      BY <1>1, <3>1, <3>2, <3>4
    <3> QED BY <3>3, <3>4
  <2>2. CASE e = dup /\ live[r][u] # NoSid
    BY <1>1, <1>3, <1>4, <1>10, <2>2 DEF NoSid
  <2> QED BY <1>3, <1>5, <2>1, <2>2
<1>14. JoinsInOrder'
  <2> SUFFICES ASSUME NEW d \in Joins', NEW s \in d.sid .. opened'[d.room][d.user]
               PROVE  /\ JoinedComing(d.room, d.user, s)'
                      /\ live'[d.room][d.user] = s \/ EndComing(d.room, d.user, s)'
    BY DEF JoinsInOrder
  <2>1. CASE d = joined
    <3>1. s = n
      BY <1>1, <1>3, <2>1
    <3> QED BY <1>1, <1>3, <1>8, <2>1, <3>1
  <2>2. CASE d \in Joins
    <3>1. d.room \in Rooms /\ d.user \in Users /\ d.sid \in Nat
      BY <1>0, <2>2, FlightType DEF Joins, InFlight
    <3>2. d.sid # NoSid
      BY <2>2 DEF SessionsInv, RowsInv, JoinedEventsOpened, Joins
    <3>3. CASE d.room = r /\ d.user = u /\ s = n
      BY <1>1, <1>8, <3>3
    <3>4. CASE s \in d.sid .. opened[d.room][d.user]
      <4>1. /\ JoinedComing(d.room, d.user, s)
            /\ live[d.room][d.user] = s \/ EndComing(d.room, d.user, s)
        BY <2>2, <3>4 DEF SessionsInv, JoinsInOrder
      <4>2. CASE live[d.room][d.user] = s /\ d.room = r /\ d.user = u
        <5>1. s # NoSid
          BY <3>1, <3>2, <3>4 DEF NoSid
        <5> QED BY <1>2, <1>3, <1>7, <4>1, <4>2, <5>1 DEF EndComing
      <4>3. CASE live[d.room][d.user] = s /\ ~(d.room = r /\ d.user = u)
        BY <1>1, <1>7, <3>1, <4>1, <4>3
      <4> QED BY <1>7, <4>1, <4>2, <4>3
    <3> QED BY <1>9, <3>1, <3>3, <3>4
  <2> QED BY <1>6, <2>1, <2>2
<1>15. LaterJoinsComing'
  <2> SUFFICES ASSUME NEW q \in Rooms, NEW v \in Users, rows[q][v].sid # NoSid,
                      NEW s \in (rows[q][v].sid + 1) .. opened'[q][v]
               PROVE  JoinedComing(q, v, s)'
    BY <1>2 DEF LaterJoinsComing
  <2>1. rows[q][v].sid + 1 \in Nat
    BY <1>0 DEF TypeOK, Row
  <2> QED BY <1>7, <1>8, <1>9, <2>1 DEF SessionsInv, LaterJoinsComing
<1>16. EndsAreComing => EndsAreComing'
  <2> SUFFICES ASSUME EndsAreComing, NEW q \in Rooms, NEW v \in Users,
                      rows[q][v].status = "connected", live'[q][v] = NoSid
               PROVE  \E e \in News' : e.room = q /\ e.user = v /\ e.sid = opened'[q][v]
    BY <1>2 DEF EndsAreComing
  <2>1. ~(q = r /\ v = u)
    BY <1>1, <1>4 DEF NoSid
  <2>2. News \subseteq News'
    BY <1>2 DEF News, Unwritten
  <2> QED BY <1>1, <2>1, <2>2 DEF EndsAreComing
<1>17. InterruptionsInOrder => InterruptionsInOrder'
  <2> SUFFICES ASSUME InterruptionsInOrder,
                      NEW e \in webhooks', e.kind = "left", e.reason = "interrupted"
               PROVE  /\ \A s \in (e.sid + 1) .. opened'[e.room][e.user] :
                            JoinedComing(e.room, e.user, s)'
                      /\ \A f \in InHandling : f.kind = "left" /\ SamePlace(e, f) => f.sid < e.sid
                      /\ \A f \in webhooks' :
                           f.kind = "left" /\ SamePlace(e, f) /\ f.sid = e.sid => f = e
    BY <1>5 DEF InterruptionsInOrder
  <2>1. e \in webhooks
    BY <1>2, <1>3
  <2>2. e \in InFlight /\ e.room \in Rooms /\ e.user \in Users /\ e.sid + 1 \in Nat
    BY <1>0, <2>1, FlightType DEF InFlight
  <2>3. \A s \in (e.sid + 1) .. opened'[e.room][e.user] : JoinedComing(e.room, e.user, s)'
    BY <1>7, <1>8, <1>9, <2>1, <2>2 DEF InterruptionsInOrder
  <2>4. e.sid # live[e.room][e.user]
    BY <2>2 DEF SessionsInv, LeavesOfEnded
  <2>5. ASSUME NEW f \in webhooks', f.kind = "left", SamePlace(e, f), f.sid = e.sid PROVE f = e
    BY <1>2, <1>3, <2>1, <2>4, <2>5 DEF InterruptionsInOrder, SamePlace
  <2> QED BY <2>1, <2>3, <2>5 DEF InterruptionsInOrder
<1>18. UnclaimedRows => UnclaimedRows'
  <2> SUFFICES ASSUME NEW q \in Rooms, NEW v \in Users, LeavesAhead(q, v)
               PROVE  LeavesAhead(q, v)'
    BY <1>2 DEF UnclaimedRows
  <2>1. live'[q][v] = NoSid \/ (JoinedComing(q, v, live[q][v]))'
    BY <1>1, <1>7, <1>8 DEF LeavesAhead
  <2>2. ASSUME NEW e \in InFlight', e.kind = "left", e.reason = "CLIENT_INITIATED",
               e.room = q, e.user = v
        PROVE  JoinedComing(q, v, e.sid)' \/ LaterSessionKnown(e)'
    <3>1. e \in InFlight
      BY <1>3, <1>5, <2>2
    <3>2. CASE JoinedComing(q, v, e.sid)
      BY <1>7, <3>2
    <3>3. CASE LaterSessionKnown(e)
      <4> PICK s \in (e.sid + 1) .. opened[q][v] : ~JoinedComing(q, v, s)
        BY <2>2, <3>3, LaterSessionKnownMeans
      <4>1. e.sid \in Nat /\ opened[q][v] \in Nat
        BY <1>0, <3>1, FlightType
      <4>2. s \in (e.sid + 1) .. opened'[q][v] /\ ~(q = r /\ v = u /\ s = n)
        BY <1>1, <1>4, <4>1
      <4>3. ~JoinedComing(q, v, s)'
        BY <1>3, <1>6, <4>2 DEF JoinedComing
      <4> QED BY <2>2, <4>2, <4>3 DEF LaterSessionKnown, JoinedComing, Joins
    <3> QED BY <2>2, <3>1, <3>2, <3>3 DEF LeavesAhead
  <2> QED BY <2>1, <2>2 DEF LeavesAhead
<1> QED BY <1>11, <1>12, <1>13, <1>14, <1>15, <1>16, <1>17, <1>18 DEF SessionsInv, InterruptionsInv
-----------------------------------------------------------------------------
(* A joined event is delivered                                             *)

LEMMA DeliverInOrder ==
  ASSUME Ordered = TRUE, NEW e \in webhooks, Deliver(e)
  PROVE  /\ InOrder(e) /\ webhooks' \in {webhooks, webhooks \ {e}}
         /\ UNCHANGED <<live, opened, granted>>
  BY DEF Deliver, InOrder, livekitVars

\* The row is told to track the session, unless there is none.
LEMMA JoinedRow ==
  ASSUME TypeOK, NEW row \in Row, NEW sid \in Nat
  PROVE  LET new == updateCommunityUserStatusAndSid(row, "connected", sid)
         IN  \/ new.status = "connected" /\ new.sid = sid
             \/ new.status = "absent" /\ new = row
  BY DEF updateCommunityUserStatusAndSid, Row, Present

LEMMA JoinedStep ==
  ASSUME SessionsInv, RowsInv', Ordered = TRUE,
         NEW e \in webhooks, handleCommunityParticipantJoined(e)
  PROVE  /\ SessionsInv'
         /\ EndsAreComing => EndsAreComing'
         /\ InterruptionsInv => InterruptionsInv'
<1>0. TypeOK /\ RowsConsistent
  BY DEF SessionsInv, RowsInv
<1>1. e.kind = "joined" /\ InOrder(e) /\ webhooks' \in {webhooks, webhooks \ {e}}
      /\ UNCHANGED <<live, opened, leaves, teardowns>>
  BY DeliverInOrder DEF handleCommunityParticipantJoined
<1>2. /\ e.room \in Rooms /\ e.user \in Users /\ e.sid \in Nat /\ e.sid # NoSid
      /\ opened[e.room][e.user] \in Nat /\ e.sid <= opened[e.room][e.user]
  BY <1>0, <1>1, FlightType DEF InFlight, SessionsInv, RowsInv, JoinedEventsOpened
<1>3. InHandling' = InHandling /\ InFlight' \subseteq InFlight
  BY <1>1 DEF InHandling, InFlight
<1>4. \A f \in webhooks : f.kind = "left" => f \in webhooks'
  BY <1>1
<1>5. \A q, v, s : EndComing(q, v, s) => EndComing(q, v, s)'
  BY <1>4 DEF EndComing
<1>6. \A q, v, s : ~(q = e.room /\ v = e.user /\ s = e.sid) =>
                     (JoinedComing(q, v, s)' <=> JoinedComing(q, v, s))
  BY <1>1 DEF JoinedComing, Joins
<1>7. e \in Joins /\ Joins' \subseteq Joins
  BY <1>1 DEF Joins
\* The row of the event's user, and all other rows.
<1>8. /\ \/ rows'[e.room][e.user].status = "connected" /\ rows'[e.room][e.user].sid = e.sid
         \/ rows'[e.room][e.user].status = "absent" /\ rows'[e.room][e.user].sid = NoSid
      /\ \A q \in Rooms : \A v \in Users :
           ~(q = e.room /\ v = e.user) => rows'[q][v] = rows[q][v]
  <2> DEFINE new == updateCommunityUserStatusAndSid(rows[e.room][e.user], "connected", e.sid)
  <2>1. rows' = [rows EXCEPT ![e.room][e.user] = new]
    BY DEF handleCommunityParticipantJoined
  <2>2. rows[e.room][e.user] \in Row
    BY <1>0, <1>2 DEF TypeOK
  <2>3. \/ new.status = "connected" /\ new.sid = e.sid
        \/ new.status = "absent" /\ new = rows[e.room][e.user]
    BY <1>0, <1>2, <2>2, JoinedRow
  <2>4. rows[e.room][e.user].status = "absent" => rows[e.room][e.user].sid = NoSid
    BY <1>0, <1>2 DEF RowsConsistent
  <2> HIDE DEF new
  <2>5. rows'[e.room][e.user] = new
        /\ \A q \in Rooms : \A v \in Users :
             ~(q = e.room /\ v = e.user) => rows'[q][v] = rows[q][v]
    BY <1>0, <1>2, <2>1 DEF TypeOK
  <2> QED BY <2>3, <2>4, <2>5
<1>9. KindsOfHandlers' /\ SessionsNumbered' /\ LeavesOfEnded'
  BY <1>1, <1>3 DEF SessionsInv, KindsOfHandlers, SessionsNumbered, LeavesOfEnded
<1>10. JoinsInOrder'
  <2> SUFFICES ASSUME NEW d \in Joins', NEW s \in d.sid .. opened[d.room][d.user]
               PROVE  /\ JoinedComing(d.room, d.user, s)'
                      /\ live[d.room][d.user] = s \/ EndComing(d.room, d.user, s)'
    BY <1>1 DEF JoinsInOrder
  <2>1. /\ JoinedComing(d.room, d.user, s)
        /\ live[d.room][d.user] = s \/ EndComing(d.room, d.user, s)
    BY <1>7 DEF SessionsInv, JoinsInOrder
  <2>2. CASE d.room = e.room /\ d.user = e.user /\ s = e.sid
    <3>1. d \in webhooks /\ d.sid \in Nat
      BY <1>0, <1>7, FlightType DEF Joins, InFlight
    <3>2. ~(d.sid < e.sid)
      BY <1>1, <2>2, <3>1 DEF InOrder, Precedes
    <3>3. d.sid = s
      BY <1>2, <2>2, <3>1, <3>2
    <3>4. JoinedComing(d.room, d.user, s)'
      BY <3>3 DEF JoinedComing
    <3> QED BY <1>5, <2>1, <3>4
  <2> QED BY <1>5, <1>6, <2>1, <2>2
<1>11. LaterJoinsComing'
  <2> SUFFICES ASSUME NEW q \in Rooms, NEW v \in Users, rows'[q][v].sid # NoSid,
                      NEW s \in (rows'[q][v].sid + 1) .. opened[q][v]
               PROVE  JoinedComing(q, v, s)'
    BY <1>1 DEF LaterJoinsComing
  <2>1. CASE q = e.room /\ v = e.user
    <3>1. s \in (e.sid + 1) .. opened[e.room][e.user]
      BY <1>8, <2>1
    <3>2. s # e.sid /\ s \in e.sid .. opened[e.room][e.user]
      BY <1>2, <3>1
    <3>3. JoinedComing(e.room, e.user, s)
      BY <1>7, <3>2 DEF SessionsInv, JoinsInOrder
    <3> QED BY <1>6, <2>1, <3>2, <3>3
  <2>2. CASE ~(q = e.room /\ v = e.user)
    BY <1>6, <1>8, <2>2 DEF SessionsInv, LaterJoinsComing
  <2> QED BY <2>1, <2>2
<1>12. EndsAreComing => EndsAreComing'
  <2> SUFFICES ASSUME EndsAreComing, NEW q \in Rooms, NEW v \in Users,
                      rows'[q][v].status = "connected", live[q][v] = NoSid
               PROVE  \E f \in News' : f.room = q /\ f.user = v /\ f.sid = opened[q][v]
    BY <1>1 DEF EndsAreComing
  <2>1. News \subseteq News' /\ \A f \in webhooks : IsEnd(f) => f \in News'
    BY <1>1, <1>4 DEF News, Unwritten, IsEnd
  <2>2. CASE q = e.room /\ v = e.user
    <3>1. opened[q][v] \in e.sid .. opened[e.room][e.user] /\ live[q][v] # opened[q][v]
      BY <1>2, <2>2 DEF NoSid
    <3>2. EndComing(q, v, opened[q][v])
      BY <1>7, <2>2, <3>1 DEF SessionsInv, JoinsInOrder
    <3> PICK f \in webhooks :
          f.kind = "left" /\ f.room = q /\ f.user = v /\ f.sid = opened[q][v]
      BY <3>2 DEF EndComing
    <3>3. IsEnd(f)
      BY DEF SessionsInv, LeavesOfEnded, InFlight, IsEnd
    <3> QED BY <2>1, <3>3
  <2>3. CASE ~(q = e.room /\ v = e.user)
    BY <1>8, <2>1, <2>3 DEF EndsAreComing
  <2> QED BY <2>2, <2>3
<1>13. InterruptionsInOrder => InterruptionsInOrder'
  <2> SUFFICES ASSUME InterruptionsInOrder,
                      NEW f \in webhooks', f.kind = "left", f.reason = "interrupted",
                      NEW s \in (f.sid + 1) .. opened[f.room][f.user]
               PROVE  JoinedComing(f.room, f.user, s)'
    BY <1>1, <1>3 DEF InterruptionsInOrder
  <2>1. f \in webhooks /\ f.sid \in Nat
    BY <1>0, <1>1, FlightType DEF InFlight
  <2>2. ~(f.room = e.room /\ f.user = e.user /\ s = e.sid)
    BY <1>1, <2>1 DEF InOrder, Precedes
  <2> QED BY <1>6, <2>1, <2>2 DEF InterruptionsInOrder
<1>14. UnclaimedRows => UnclaimedRows'
  <2> SUFFICES ASSUME NEW q \in Rooms, NEW v \in Users, LeavesAhead(q, v),
                      ~(q = e.room /\ v = e.user)
               PROVE  LeavesAhead(q, v)'
    BY <1>8 DEF UnclaimedRows, Unclaimed
  <2>1. \A s : JoinedComing(q, v, s)' <=> JoinedComing(q, v, s)
    BY <1>6
  <2>2. \A f : LaterSessionKnown(f) => LaterSessionKnown(f)'
    BY <1>1 DEF LaterSessionKnown
  <2> QED BY <1>1, <1>3, <2>1, <2>2 DEF LeavesAhead
<1> QED BY <1>9, <1>10, <1>11, <1>12, <1>13, <1>14 DEF SessionsInv, InterruptionsInv
-----------------------------------------------------------------------------
(* The other steps are quiet                                               *)

LEMMA LeavesQuiet ==
  ASSUME SessionsInv, NEW r \in Rooms, NEW u \in Users, NEW why \in Ending,
         LosesSession(u, r, why)
  PROVE  QuietStep(why)
<1>0. TypeOK
  BY DEF SessionsInv, RowsInv
<1> DEFINE end == LeftEvent(u, r, why)
<1>1. end.kind = "left" /\ end.room = r /\ end.user = u
  BY DEF LeftEvent, EventOf
<1>2. /\ webhooks' = webhooks \cup {end} /\ live[r][u] # NoSid
      /\ UNCHANGED <<opened, leaves, teardowns>>
      /\ live' = [live EXCEPT ![r][u] = NoSid]
  BY DEF LosesSession, handlerVars
<1>3. NewEnd(end, why)
  BY <1>0, <1>1, <1>2 DEF NewEnd, TypeOK
<1> HIDE DEF end
<1>4. Joins' = Joins /\ InHandling' = InHandling
  BY <1>1, <1>2 DEF Joins, InHandling
<1>5. \A q \in Rooms : \A v \in Users :
        \/ live'[q][v] = live[q][v]
        \/ live'[q][v] = NoSid /\ q = r /\ v = u
  BY <1>0, <1>2 DEF TypeOK
<1> QED BY <1>1, <1>2, <1>3, <1>4, <1>5 DEF QuietStep, InFlight

\* The LiveKit room is deleted, or the call fails.
LEMMA DeletionQuiet ==
  ASSUME SessionsInv, NEW r \in Rooms, deleteRoom(r), UNCHANGED opened,
         InHandling' \subseteq InHandling
  PROVE  QuietStep("ROOM_DELETED")
<1>0. TypeOK
  BY DEF SessionsInv, RowsInv
<1> DEFINE why == "ROOM_DELETED"
           ended == {v \in Users : live[r][v] # NoSid}
<1>1. CASE /\ live' = [live EXCEPT ![r] = [u \in Users |-> NoSid]]
           /\ webhooks' = webhooks \cup {LeftEvent(u, r, why) : u \in ended}
  <2>1. \A u \in Users : LET e == LeftEvent(u, r, why)
                         IN  e.kind = "left" /\ e.room = r /\ e.user = u
    BY DEF LeftEvent, EventOf
  <2>2. \A u \in ended : NewEnd(LeftEvent(u, r, why), why)
    BY <1>0, <1>1, <2>1 DEF NewEnd, TypeOK
  <2>3. /\ \A e \in webhooks' : e \in webhooks \/ (e.kind = "left" /\ NewEnd(e, why))
        /\ webhooks \subseteq webhooks'
    BY <1>1, <2>1, <2>2
  <2>4. Joins' = Joins
    BY <2>3 DEF Joins
  <2>5. ASSUME NEW q \in Rooms, NEW v \in Users, live'[q][v] # live[q][v]
        PROVE  /\ live'[q][v] = NoSid
               /\ \E e \in webhooks' : NewEnd(e, why) /\ e.room = q /\ e.user = v
    <3>1. q = r /\ live'[q][v] = NoSid /\ v \in ended
      BY <1>0, <1>1, <2>5 DEF TypeOK
    <3>2. LeftEvent(v, r, why) \in webhooks'
      BY <1>1, <3>1
    <3> QED BY <2>1, <2>2, <3>1, <3>2
  <2> QED BY <2>3, <2>4, <2>5 DEF QuietStep, InFlight
<1>2. CASE UNCHANGED <<live, webhooks>>
  BY <1>2 DEF QuietStep, InFlight, Joins
<1> QED BY <1>1, <1>2 DEF deleteRoom

\* A leave is delivered; its handler ends at once, or goes on with what is not an interruption.
LEMMA DeliveryQuiet ==
  ASSUME SessionsInv, Ordered = TRUE, NEW e \in webhooks, Deliver(e), e.kind = "left",
         \A f \in InHandling' : \/ f \in InHandling
                                \/ f = e /\ e.reason \in {"CLIENT_INITIATED", "ROOM_DELETED"},
         NEW why
  PROVE  QuietStep(why)
<1>0. TypeOK
  BY DEF SessionsInv, RowsInv
<1>1. InOrder(e) /\ webhooks' \in {webhooks, webhooks \ {e}} /\ UNCHANGED <<live, opened>>
  BY DeliverInOrder
<1>2. Joins' = Joins
  BY <1>1 DEF Joins
<1>3. ASSUME NEW d \in Joins, NEW f \in webhooks, f.kind = "left", SamePlace(d, f),
             d.sid <= f.sid
      PROVE  f # e
  <2>1. d \in webhooks /\ d.kind = "joined" /\ d.sid \in Nat /\ f.sid \in Nat
    BY <1>0, FlightType DEF Joins, InFlight
  <2> QED BY <1>1, <1>3, <2>1 DEF InOrder, Precedes, SamePlace
<1> QED BY <1>1, <1>2, <1>3 DEF QuietStep, InFlight

\* LiveKit is not involved.
LEMMA IdleQuiet ==
  ASSUME UNCHANGED <<live, opened, webhooks>>,
         \A f \in InHandling' : f \in InHandling \/ f.kind = "end", NEW why
  PROVE  QuietStep(why)
  BY DEF QuietStep, InFlight, Joins

\* Handlers are lost, and some of their events are told again.
LEMMA LossQuiet ==
  ASSUME SessionsInv, UNCHANGED <<live, opened>>, InHandling' \subseteq InHandling,
         NEW lost \in SUBSET InHandling, NEW again \in Redelivered(lost),
         webhooks' = webhooks \cup again, NEW why
  PROVE  QuietStep(why)
<1>1. \A e \in again : e.kind = "left" /\ e \in InHandling
  BY DEF Redelivered
<1>2. Joins' = Joins
  BY <1>1 DEF Joins
<1> QED BY <1>1, <1>2 DEF QuietStep, InFlight

-----------------------------------------------------------------------------
(* What quiet steps do to the table                                        *)

\* A row that is not connected afterwards, and tracks nothing new.
LEMMA UpdatedRow ==
  ASSUME NEW row \in Row, NEW st \in Statuses \ {"connected"}
  PROVE  LET new == updateCommunityUserStatus(row, st)
         IN  /\ new.sid = row.sid /\ new.status # "connected"
             /\ new.status \in {st, "absent"}
  BY DEF updateCommunityUserStatus, Row, Present

\* Rooms are emptied.
LEMMA RoomsEmptied ==
  ASSUME NEW gone \in SUBSET Rooms,
         rows' = [r \in Rooms |-> IF r \in gone THEN EmptyRoom ELSE rows[r]]
  PROVE  /\ RowsFollow
         /\ \A r \in gone : \A u \in Users : rows'[r][u].status # "connected"
         /\ \A r \in Rooms : \A u \in Users : Unclaimed(rows'[r][u]) => Unclaimed(rows[r][u])
<1>1. AbsentRow.status = "absent" /\ AbsentRow.sid = NoSid
  BY DEF AbsentRow
<1>2. \A r \in Rooms : \A u \in Users :
        rows'[r][u] = IF r \in gone THEN AbsentRow ELSE rows[r][u]
  BY DEF EmptyRoom
<1> QED BY <1>1, <1>2 DEF RowsFollow, Unclaimed
ClaimsKept ==
    \A r \in Rooms : \A u \in Users : Unclaimed(rows'[r][u]) => Unclaimed(rows[r][u])

Quiet ==
    /\ \E why \in Ending : QuietStep(why)
    /\ RowsFollow
    /\ KeepsRetrying = TRUE => NewsKept

\* What every step keeps.
Advances ==
    /\ SessionsInv'
    /\ KeepsRetrying = TRUE /\ EndsAreComing => EndsAreComing'
    /\ InterruptionsInv => InterruptionsInv'

LEMMA QuietAdvances ==
  ASSUME SessionsInv, RowsInv', Quiet, ClaimsKept
  PROVE  Advances
<1> PICK why \in Ending : QuietStep(why)
  BY DEF Quiet
<1>1. SessionsInv'
  BY QuietSessions DEF Quiet
<1>2. KeepsRetrying = TRUE /\ EndsAreComing => EndsAreComing'
  BY QuietEnds DEF Quiet
<1>3. InterruptionsInv => InterruptionsInv'
  BY QuietInterruptions, QuietClaims DEF InterruptionsInv, ClaimsKept
<1> QED BY <1>1, <1>2, <1>3 DEF Advances

\* In particular where the table stays as it is.
LEMMA TableStays ==
  ASSUME UNCHANGED rows
  PROVE  RowsFollow /\ ClaimsKept
  BY DEF RowsFollow, ClaimsKept

LEMMA ClientStepAdvances ==
  ASSUME SessionsInv, RowsInv', ClientStep
  PROVE  Advances
<1> PICK r \in Rooms, u \in Users :
      ClientConnects(u, r) \/ ClientLeaves(u, r) \/ ConnectionDrops(u, r)
  BY DEF ClientStep
<1>1. CASE ClientConnects(u, r)
  BY <1>1, ConnectStep DEF Advances
<1>2. ASSUME NEW why \in Ending, LosesSession(u, r, why) PROVE Advances
  <2>1. QuietStep(why)
    BY <1>2, LeavesQuiet
  <2>2. UNCHANGED <<rows, leaves, teardowns>> /\ webhooks \subseteq webhooks'
    BY <1>2 DEF LosesSession, handlerVars
  <2>3. NewsKept
    BY <2>2 DEF NewsKept, News, Unwritten
  <2> QED BY <2>1, <2>2, <2>3, TableStays, QuietAdvances DEF Quiet
<1> QED BY <1>1, <1>2 DEF ClientLeaves, ConnectionDrops, Ending, Reasons

LEMMA RequestStepAdvances ==
  ASSUME SessionsInv, RowsInv', RequestStep
  PROVE  Advances
<1>0. TypeOK
  BY DEF SessionsInv, RowsInv
<1> PICK r \in Rooms, u \in Users :
      \/ \E b \in BOOLEAN : getCommunityVoiceChatCredentials(u, r, b)
      \/ kickPlayerFromCommunity(u, r)
      \/ endCommunityVoiceChat(u, r)
  BY DEF RequestStep
<1>1. ASSUME NEW b \in BOOLEAN, getCommunityVoiceChatCredentials(u, r, b) PROVE Advances
  <2>1. UNCHANGED <<live, opened, webhooks, leaves, teardowns>>
    BY <1>1 DEF getCommunityVoiceChatCredentials, handlerVars
  <2>2. InHandling' = InHandling /\ News' = News
    BY <2>1 DEF InHandling, News, Unwritten
  <2> DEFINE row == joinUserToCommunityRoom(rows[r][u], b)
  <2>3. row.sid = NoSid /\ row.status = "not_connected"
    BY DEF joinUserToCommunityRoom
  <2>4. rows' = [rows EXCEPT ![r][u] = row]
    BY <1>1 DEF getCommunityVoiceChatCredentials
  <2> HIDE DEF row
  <2>5. /\ rows'[r][u] = row
        /\ \A q \in Rooms : \A v \in Users :
             ~(q = r /\ v = u) => rows'[q][v] = rows[q][v]
    BY <1>0, <2>4 DEF TypeOK
  <2>6. RowsFollow /\ ClaimsKept
    BY <2>3, <2>5 DEF RowsFollow, ClaimsKept, Unclaimed
  <2>7. \E why \in Ending : QuietStep(why)
    BY <2>1, <2>2, IdleQuiet DEF Ending, Reasons
  <2> QED BY <2>2, <2>6, <2>7, QuietAdvances DEF Quiet, NewsKept
<1>2. CASE kickPlayerFromCommunity(u, r)
  <2>1. "interrupted" \in Ending /\ LosesSession(u, r, "interrupted")
    BY <1>2 DEF kickPlayerFromCommunity, Ending, Reasons
  <2>2. QuietStep("interrupted")
    BY <2>1, LeavesQuiet
  <2>3. UNCHANGED <<rows, leaves, teardowns>> /\ webhooks \subseteq webhooks'
    BY <2>1 DEF LosesSession, handlerVars
  <2>4. NewsKept
    BY <2>3 DEF NewsKept, News, Unwritten
  <2> QED BY <2>1, <2>2, <2>3, <2>4, TableStays, QuietAdvances DEF Quiet
<1>3. CASE endCommunityVoiceChat(u, r)
  <2> DEFINE e == EventOf("end", u, r, "none", NoSid, ends)
             d == [ev |-> e, count |-> getCommunityVoiceChatParticipantCount(e.room),
                   todo |-> {"livekit", "db"}]
  <2>1. d.ev.kind = "end"
    BY DEF EventOf
  <2>2. /\ teardowns' = teardowns \cup {d}
        /\ UNCHANGED <<rows, live, opened, webhooks, leaves>>
    BY <1>3 DEF endCommunityVoiceChat, StartTeardown, livekitVars
  <2> HIDE DEF d
  <2>3. /\ \A f \in InHandling' : f \in InHandling \/ f.kind = "end"
        /\ News \subseteq News'
    BY <2>1, <2>2 DEF InHandling, News, Unwritten
  <2>4. \E why \in Ending : QuietStep(why)
    BY <2>2, <2>3, IdleQuiet DEF Ending, Reasons
  <2> QED BY <2>2, <2>3, <2>4, TableStays, QuietAdvances DEF Quiet, NewsKept
<1> QED BY <1>1, <1>2, <1>3
\* A row whose interruption is written before it tracks a session has the user's
\* other sessions ahead of it.
LEMMA InterruptedLeaves ==
  ASSUME SessionsInv, InterruptionsInOrder,
         NEW e \in webhooks, e.kind = "left", e.reason = "interrupted", InOrder(e)
  PROVE  LeavesAhead(e.room, e.user)
<1>0. TypeOK
  BY DEF SessionsInv, RowsInv
<1>1. /\ e \in InFlight /\ e.room \in Rooms /\ e.user \in Users /\ e.sid \in Nat
      /\ opened[e.room][e.user] \in Nat
  <2>1. e \in InFlight /\ e.room \in Rooms /\ e.user \in Users /\ e.sid \in Nat
    BY <1>0, FlightType DEF InFlight
  <2> QED BY <1>0, <2>1, FlightType
<1>2. e.sid <= opened[e.room][e.user] /\ e.sid # live[e.room][e.user] /\ 1 <= e.sid
  BY <1>1 DEF SessionsInv, LeavesOfEnded
<1>3. \A s \in (e.sid + 1) .. opened[e.room][e.user] : JoinedComing(e.room, e.user, s)
  BY DEF InterruptionsInOrder
<1>4. live[e.room][e.user] = NoSid \/ JoinedComing(e.room, e.user, live[e.room][e.user])
  BY <1>1, <1>2, <1>3 DEF SessionsInv, SessionsNumbered
\* The session's own joined event was delivered before.
<1>5. ~JoinedComing(e.room, e.user, e.sid)
  BY DEF JoinedComing, Joins, InOrder, Precedes
<1>6. ASSUME NEW f \in InFlight, f.kind = "left", f.reason = "CLIENT_INITIATED",
             f.room = e.room, f.user = e.user
      PROVE  JoinedComing(e.room, e.user, f.sid) \/ LaterSessionKnown(f)
  <2>1. f.sid \in Nat /\ f.sid <= opened[e.room][e.user]
    BY <1>0, <1>1, <1>6, FlightType DEF SessionsInv, LeavesOfEnded
  <2>2. f.sid # e.sid
    <3>1. CASE f \in webhooks
      BY <1>6, <3>1 DEF InterruptionsInOrder, SamePlace
    <3>2. CASE f \in InHandling
      BY <1>1, <1>6, <2>1, <3>2 DEF InterruptionsInOrder, SamePlace
    <3> QED BY <3>1, <3>2 DEF InFlight
  <2>3. CASE e.sid < f.sid
    BY <1>1, <1>3, <2>1, <2>3
  <2>4. CASE f.sid < e.sid
    <3>1. e.sid \in (f.sid + 1) .. opened[f.room][f.user]
      BY <1>1, <1>2, <1>6, <2>1, <2>4
    <3> QED BY <1>5, <1>6, <3>1, LaterSessionKnownMeans
  <2> QED BY <1>1, <2>1, <2>2, <2>3, <2>4
<1> QED BY <1>4, <1>6 DEF LeavesAhead

\* The leave of the last session of a connected row passes the guards.
LEMMA LastLeavePasses ==
  ASSUME SessionsInv, NEW e \in webhooks, e.kind = "left", InOrder(e),
         e.sid = opened[e.room][e.user], rows[e.room][e.user].status = "connected"
  PROVE  ~isStaleLeave(rows[e.room][e.user], e)
<1> DEFINE row == rows[e.room][e.user]
<1>0. TypeOK /\ RowsConsistent
  BY DEF SessionsInv, RowsInv
<1>1. e.room \in Rooms /\ e.user \in Users /\ e.sid \in Nat
  BY <1>0, FlightType DEF InFlight
<1>2. row.sid # NoSid /\ row.sid \in Nat /\ row.sid <= e.sid
  BY <1>0, <1>1 DEF RowsConsistent, TypeOK, Row
<1>3. row.sid = e.sid
  <2> SUFFICES ASSUME row.sid < e.sid PROVE FALSE
    BY <1>1, <1>2
  <2>1. JoinedComing(e.room, e.user, e.sid)
    BY <1>1, <1>2 DEF SessionsInv, LaterJoinsComing
  <2> QED BY <2>1 DEF JoinedComing, Joins, InOrder, Precedes
<1> QED BY <1>2, <1>3 DEF isStaleLeave

LEMMA WebhookStepAdvances ==
  ASSUME SessionsInv, RowsInv', Ordered = TRUE, WebhookStep
  PROVE  Advances
<1>0. TypeOK
  BY DEF SessionsInv, RowsInv
<1> PICK e \in webhooks :
      \/ handleCommunityParticipantJoined(e)
      \/ LeftDuplicateIdentity(e)
      \/ LeftInterrupted(e)
      \/ LeftRoomDeleted(e)
      \/ LeftClientInitiated(e)
  BY DEF WebhookStep
<1>1. CASE handleCommunityParticipantJoined(e)
  BY <1>1, JoinedStep DEF Advances
<1>2. Deliver(e) /\ InOrder(e)
  BY DeliverInOrder
  DEF handleCommunityParticipantJoined, LeftDuplicateIdentity, LeftInterrupted,
      LeftRoomDeleted, LeftClientInitiated, LeftBecause
<1>3. /\ e.room \in Rooms /\ e.user \in Users /\ rows[e.room][e.user] \in Row
      /\ webhooks' \in {webhooks, webhooks \ {e}}
  <2>1. e.room \in Rooms /\ e.user \in Users
    BY <1>0, FlightType DEF InFlight
  <2> QED BY <1>0, <1>2, <2>1, DeliverInOrder DEF TypeOK
<1>4. \E why : why \in Ending
  BY DEF Ending, Reasons
<1>5. CASE LeftDuplicateIdentity(e)
  <2>1. e.kind = "left" /\ e.reason = "DUPLICATE_IDENTITY" /\ UNCHANGED <<rows, leaves, teardowns>>
    BY <1>5 DEF LeftDuplicateIdentity, LeftBecause
  <2>2. InHandling' = InHandling /\ NewsKept
    BY <1>3, <2>1 DEF InHandling, NewsKept, News, Unwritten, IsEnd
  <2> QED BY <1>2, <1>4, <2>1, <2>2, DeliveryQuiet, TableStays, QuietAdvances DEF Quiet
<1>6. CASE LeftRoomDeleted(e)
  <2> DEFINE d == [ev |-> e, count |-> getCommunityVoiceChatParticipantCount(e.room),
                   todo |-> {"db"}]
  <2>1. d.ev = e /\ d.todo = {"db"}
    OBVIOUS
  <2>2. /\ e.kind = "left" /\ e.reason = "ROOM_DELETED"
        /\ teardowns' = teardowns \cup {d} /\ UNCHANGED <<rows, leaves>>
    BY <1>6 DEF LeftRoomDeleted, LeftBecause, StartTeardown
  <2> HIDE DEF d
  <2>3. /\ \A f \in InHandling' : f \in InHandling \/ f = e
        /\ NewsKept
    BY <1>3, <2>1, <2>2 DEF InHandling, NewsKept, News, Unwritten
  <2> QED BY <1>2, <1>4, <2>2, <2>3, DeliveryQuiet, TableStays, QuietAdvances DEF Quiet
<1>7. CASE LeftClientInitiated(e)
  <2> DEFINE l == [ev |-> e, snap |-> rows[e.room], pc |-> "write"]
  <2>1. l.ev = e /\ l.pc = "write"
    OBVIOUS
  <2>2. /\ e.kind = "left" /\ e.reason = "CLIENT_INITIATED"
        /\ UNCHANGED <<rows, teardowns>>
        /\ \/ leaves' = leaves /\ isStaleLeave(rows[e.room][e.user], e)
           \/ leaves' = leaves \cup {l}
    BY <1>7 DEF LeftClientInitiated, LeftBecause
  <2> HIDE DEF l
  <2>3. \A f \in InHandling' : f \in InHandling \/ f = e
    BY <2>1, <2>2 DEF InHandling
  <2>4. CASE leaves' = leaves /\ isStaleLeave(rows[e.room][e.user], e)
    <3>1. e.sid = opened[e.room][e.user] => rows'[e.room][e.user].status # "connected"
      BY <1>2, <2>2, <2>4, LastLeavePasses
    <3> QED BY <1>3, <2>2, <2>4, <3>1, <1>2, <1>4, <2>3, DeliveryQuiet, TableStays, QuietAdvances
        DEF Quiet, NewsKept, News, Unwritten
  <2>5. CASE leaves' = leaves \cup {l}
    <3>1. NewsKept
      BY <1>3, <2>1, <2>2, <2>5 DEF NewsKept, News, Unwritten
    <3> QED BY <1>2, <1>4, <2>2, <2>3, <3>1, DeliveryQuiet, TableStays, QuietAdvances DEF Quiet
  <2> QED BY <2>2, <2>4, <2>5
<1>8. CASE LeftInterrupted(e)
  <2>1. PICK row :
          /\ row = updateCommunityUserStatus(rows[e.room][e.user], "connection_interrupted")
          /\ e.kind = "left" /\ e.reason = "interrupted" /\ UNCHANGED <<leaves, teardowns>>
          /\ rows' = [rows EXCEPT ![e.room][e.user] = row]
    BY <1>8 DEF LeftInterrupted, LeftBecause
  <2>2. row.sid \in {NoSid, rows[e.room][e.user].sid} /\ row.status # "connected"
    BY <1>3, <2>1, UpdatedRow DEF Statuses
  <2>3. /\ rows'[e.room][e.user] = row
        /\ \A q \in Rooms : \A v \in Users :
             ~(q = e.room /\ v = e.user) => rows'[q][v] = rows[q][v]
    BY <1>0, <1>3, <2>1 DEF TypeOK
  <2>4. InHandling' = InHandling /\ NewsKept
    BY <1>3, <2>1, <2>2, <2>3 DEF InHandling, NewsKept, News, Unwritten
  <2> PICK why \in Ending : QuietStep(why)
    BY <1>2, <1>4, <2>1, <2>4, DeliveryQuiet
  <2>5. SessionsInv' /\ (EndsAreComing => EndsAreComing')
    <3>1. RowsFollow
      BY <2>2, <2>3 DEF RowsFollow
    <3> QED BY <2>4, <3>1, QuietSessions, QuietEnds
  <2>6. InterruptionsInOrder => InterruptionsInOrder'
    BY QuietInterruptions
  <2>7. InterruptionsInv => UnclaimedRows'
    <3> SUFFICES ASSUME InterruptionsInv, NEW q \in Rooms, NEW v \in Users,
                        Unclaimed(rows'[q][v])
                 PROVE  LeavesAhead(q, v)'
      BY DEF UnclaimedRows
    <3>1. LeavesAhead(q, v)
      BY <1>2, <2>1, <2>3, InterruptedLeaves
        DEF InterruptionsInv, UnclaimedRows
    <3> QED BY <3>1, QuietLeaves
  <2> QED BY <2>5, <2>6, <2>7 DEF Advances, InterruptionsInv
<1> QED BY <1>1, <1>5, <1>6, <1>7, <1>8
-----------------------------------------------------------------------------
(* Handlers after their first await, the job and faults                    *)

LEMMA HandlerStepAdvances ==
  ASSUME SessionsInv, RowsInv', HandlerStep
  PROVE  Advances
<1>0. TypeOK /\ \E why : why \in Ending
  BY DEF SessionsInv, RowsInv, Ending, Reasons
<1>1. ASSUME NEW l \in leaves, WriteDisconnected(l) PROVE Advances
  <2>1. /\ l \in Leave /\ l.ev.room \in Rooms /\ l.ev.user \in Users
        /\ rows[l.ev.room][l.ev.user] \in Row
    BY <1>0 DEF TypeOK, Leave, Event
  <2>2. PICK row :
          /\ row = updateCommunityUserStatus(rows[l.ev.room][l.ev.user], "disconnected")
          /\ rows' = [rows EXCEPT ![l.ev.room][l.ev.user] = row]
    BY <1>1 DEF WriteDisconnected
  <2>3. /\ row.sid \in {NoSid, rows[l.ev.room][l.ev.user].sid} /\ row.status # "connected"
        /\ row.status \in {"disconnected", "absent"}
    BY <2>1, <2>2, UpdatedRow DEF Statuses
  <2>4. /\ rows'[l.ev.room][l.ev.user] = row
        /\ \A q \in Rooms : \A v \in Users :
             ~(q = l.ev.room /\ v = l.ev.user) => rows'[q][v] = rows[q][v]
    BY <1>0, <2>1, <2>2 DEF TypeOK
  <2>5. RowsFollow /\ ClaimsKept
    BY <2>3, <2>4 DEF RowsFollow, ClaimsKept, Unclaimed
  <2>6. /\ [l EXCEPT !.pc = "decide"].ev = l.ev
        /\ leaves' \subseteq (leaves \ {l}) \cup {[l EXCEPT !.pc = "decide"]}
        /\ \A k \in leaves : k = l \/ k \in leaves'
        /\ UNCHANGED <<live, opened, webhooks, teardowns>>
    BY <1>1, <2>1 DEF WriteDisconnected, Leave, livekitVars
  <2>7. InHandling' \subseteq InHandling
    BY <2>6 DEF InHandling
  <2>8. NewsKept
    <3>1. \A e \in News : e \in News' \/ e = l.ev
      BY <2>6 DEF News, Unwritten
    <3> QED BY <2>3, <2>4, <3>1 DEF NewsKept
  <2> QED BY <1>0, <2>5, <2>6, <2>7, <2>8, IdleQuiet, QuietAdvances DEF Quiet
<1>2. ASSUME NEW l \in leaves, DecideTeardown(l) PROVE Advances
  <2>1. /\ l.pc = "decide" /\ leaves' = leaves \ {l} /\ teardowns \subseteq teardowns'
        /\ \A d \in teardowns' : d \in teardowns \/ d.ev = l.ev
        /\ UNCHANGED <<rows, live, opened, webhooks>>
    BY <1>2 DEF DecideTeardown, StartTeardown, livekitVars
  <2>2. InHandling' \subseteq InHandling
    BY <2>1 DEF InHandling
  <2>3. NewsKept
    BY <2>1 DEF NewsKept, News, Unwritten
  <2> QED BY <1>0, <2>1, <2>2, <2>3, IdleQuiet, TableStays, QuietAdvances DEF Quiet
<1>3. ASSUME NEW d \in teardowns, TeardownLivekit(d) PROVE Advances
  <2>1. d \in Teardown /\ d.ev.room \in Rooms
    BY <1>0 DEF TypeOK, Teardown, Event
  <2> DEFINE k == [d EXCEPT !.todo = @ \ {"livekit"}]
  <2>2. k.ev = d.ev /\ ("db" \in k.todo <=> "db" \in d.todo)
    BY <2>1 DEF Teardown
  <2>3. /\ deleteRoom(d.ev.room) /\ teardowns' = (teardowns \ {d}) \cup {k}
        /\ UNCHANGED <<rows, opened, leaves>>
    BY <1>3 DEF TeardownLivekit
  <2> HIDE DEF k
  <2>4. InHandling' \subseteq InHandling /\ webhooks \subseteq webhooks'
    BY <2>2, <2>3 DEF InHandling, deleteRoom
  <2>5. NewsKept
    BY <2>2, <2>3, <2>4 DEF NewsKept, News, Unwritten
  <2>6. "ROOM_DELETED" \in Ending /\ QuietStep("ROOM_DELETED")
    BY <2>1, <2>3, <2>4, DeletionQuiet DEF Ending, Reasons
  <2> QED BY <2>3, <2>5, <2>6, TableStays, QuietAdvances DEF Quiet
<1>4. ASSUME NEW d \in teardowns, TeardownRows(d) PROVE Advances
  <2>1. d \in Teardown /\ d.ev.room \in Rooms /\ d.ev.user \in Users
    BY <1>0 DEF TypeOK, Teardown, Event
  <2> DEFINE k == [d EXCEPT !.todo = @ \ {"db"}]
  <2>2. k.ev = d.ev
    BY <2>1 DEF Teardown
  <2>3. /\ rows' = [r \in Rooms |-> IF r \in {d.ev.room} THEN EmptyRoom ELSE rows[r]]
        /\ teardowns' = (teardowns \ {d}) \cup {k}
        /\ UNCHANGED <<live, opened, webhooks, leaves>>
    BY <1>0, <1>4 DEF TeardownRows, TypeOK, livekitVars
  <2> HIDE DEF k
  <2>4. InHandling' \subseteq InHandling
    BY <2>2, <2>3 DEF InHandling
  <2>5. RowsFollow /\ ClaimsKept /\ rows'[d.ev.room][d.ev.user].status # "connected"
    BY <2>1, <2>3, RoomsEmptied DEF ClaimsKept
  <2>6. NewsKept
    <3>1. \A e \in News : e \in News' \/ e = d.ev
      BY <2>3 DEF News, Unwritten
    <3> QED BY <2>5, <3>1 DEF NewsKept
  <2> QED BY <1>0, <2>3, <2>4, <2>5, <2>6, IdleQuiet, QuietAdvances DEF Quiet
<1>5. ASSUME NEW d \in teardowns, NEW b \in BOOLEAN, TeardownPublish(d, b) PROVE Advances
  <2>1. /\ d.todo = {} /\ teardowns' = teardowns \ {d}
        /\ UNCHANGED <<rows, live, opened, webhooks, leaves>>
    BY <1>5 DEF TeardownPublish, livekitVars
  <2>2. InHandling' \subseteq InHandling /\ NewsKept
    BY <2>1 DEF InHandling, NewsKept, News, Unwritten
  <2> QED BY <1>0, <2>1, <2>2, IdleQuiet, TableStays, QuietAdvances DEF Quiet
<1> QED BY <1>1, <1>2, <1>3, <1>4, <1>5 DEF HandlerStep

LEMMA CronJobAdvances ==
  ASSUME SessionsInv, RowsInv', CronJob
  PROVE  Advances
<1>0. \E why : why \in Ending
  BY DEF Ending, Reasons
<1>1. UNCHANGED <<leaves, teardowns, opened>>
  BY DEF CronJob, CronListActive, CronCount, CronDeleteRows, CronCloseRoom, CronPublish,
         CronKeeps, livekitVars
<1>2. InHandling' = InHandling
  BY <1>1 DEF InHandling
<1>3. ASSUME webhooks \subseteq webhooks' PROVE NewsKept
  BY <1>1, <1>3 DEF NewsKept, News, Unwritten
<1>4. CASE CronListActive \/ CronCount \/ \E r \in Rooms, b \in BOOLEAN : CronPublish(r, b)
  <2>1. UNCHANGED <<rows, live, webhooks>>
    BY <1>4 DEF CronListActive, CronCount, CronPublish, livekitVars
  <2> QED BY <1>0, <1>1, <1>2, <1>3, <2>1, IdleQuiet, TableStays, QuietAdvances DEF Quiet
<1>5. CASE CronDeleteRows
  <2> PICK batch \in ExpiredBatch(now) :
        rows' = [r \in Rooms |-> IF r \in batch THEN EmptyRoom ELSE rows[r]]
    BY <1>5 DEF CronDeleteRows
  <2>1. batch \in SUBSET Rooms /\ UNCHANGED <<live, webhooks>>
    BY <1>5 DEF ExpiredBatch, CronDeleteRows, livekitVars
  <2>2. RowsFollow /\ ClaimsKept
    BY <2>1, RoomsEmptied DEF ClaimsKept
  <2> QED BY <1>0, <1>1, <1>2, <1>3, <2>1, <2>2, IdleQuiet, QuietAdvances DEF Quiet
<1>6. ASSUME NEW r \in Rooms, CronCloseRoom(r) PROVE Advances
  <2>1. deleteRoom(r) /\ UNCHANGED rows /\ webhooks \subseteq webhooks'
    BY <1>6 DEF CronCloseRoom, deleteRoom
  <2>2. "ROOM_DELETED" \in Ending /\ QuietStep("ROOM_DELETED")
    BY <1>1, <1>2, <2>1, DeletionQuiet DEF Ending, Reasons
  <2> QED BY <1>3, <2>1, <2>2, TableStays, QuietAdvances DEF Quiet
<1> QED BY <1>4, <1>5, <1>6 DEF CronJob

\* LiveKit tells again what was not answered: all of it, where it keeps retrying.
LEMMA FaultAdvances ==
  ASSUME SessionsInv, RowsInv', Fault
  PROVE  Advances
<1>0. \E why : why \in Ending
  BY DEF Ending, Reasons
<1>1. ASSUME NEW lost \in SUBSET InHandling, NEW again \in Redelivered(lost),
             webhooks' = webhooks \cup again,
             leaves' = {l \in leaves : l.ev \notin lost},
             teardowns' = {d \in teardowns : d.ev \notin lost},
             UNCHANGED <<rows, live, opened>>
      PROVE  Advances
  <2>1. InHandling' \subseteq InHandling
    BY <1>1 DEF InHandling
  <2>2. ASSUME KeepsRetrying = TRUE PROVE NewsKept
    <3>1. again = {e \in lost : e.kind = "left"}
      BY <2>2 DEF Redelivered
    <3> QED BY <1>1, <3>1 DEF NewsKept, News, Unwritten, IsEnd
  <2> QED BY <1>0, <1>1, <2>1, <2>2, LossQuiet, TableStays, QuietAdvances DEF Quiet
<1>2. CASE HandlerFails
  <2> PICK e \in InHandling : \E again \in Redelivered({e}) :
         /\ webhooks' = webhooks \cup again
         /\ leaves' = {l \in leaves : l.ev # e}
         /\ teardowns' = {d \in teardowns : d.ev # e}
    BY <1>2 DEF HandlerFails
  <2>1. UNCHANGED <<rows, live, opened>> /\ {e} \in SUBSET InHandling
    BY <1>2 DEF HandlerFails, livekitVars
  <2> QED BY <1>1, <2>1
<1>3. CASE Restart
  <2> PICK again \in Redelivered(InHandling) : webhooks' = webhooks \cup again
    BY <1>3 DEF Restart
  <2>1. UNCHANGED <<rows, live, opened>> /\ leaves' = {} /\ teardowns' = {}
    BY <1>3 DEF Restart, livekitVars
  <2>2. /\ {} = {l \in leaves : l.ev \notin InHandling}
        /\ {} = {d \in teardowns : d.ev \notin InHandling}
    BY DEF InHandling
  <2> QED BY <1>1, <2>1, <2>2
<1>4. CASE CronFails
  <2>1. UNCHANGED <<rows, live, opened, webhooks, leaves, teardowns>>
    BY <1>4 DEF CronFails, CronKeeps, livekitVars
  <2>2. InHandling' = InHandling /\ NewsKept
    BY <2>1 DEF InHandling, NewsKept, News, Unwritten
  <2> QED BY <1>0, <2>1, <2>2, IdleQuiet, TableStays, QuietAdvances DEF Quiet
<1> QED BY <1>2, <1>3, <1>4 DEF Fault
LEMMA NextAdvances ==
  ASSUME SessionsInv, Ordered = TRUE, [Next]_vars
  PROVE  Advances
<1>1. RowsInv'
  BY RowsInvStep DEF SessionsInv
<1>2. CASE UNCHANGED <<rows, live, opened, webhooks, leaves, teardowns>>
  <2>1. InHandling' = InHandling /\ NewsKept
    BY <1>2 DEF InHandling, NewsKept, News, Unwritten
  <2>2. \E why : why \in Ending
    BY DEF Ending, Reasons
  <2> QED BY <1>1, <1>2, <2>1, <2>2, IdleQuiet, TableStays, QuietAdvances DEF Quiet
<1>3. Tick \/ UNCHANGED vars => Advances
  BY <1>2 DEF Tick, vars, livekitVars, handlerVars
<1> QED
  BY <1>1, <1>3, ClientStepAdvances, RequestStepAdvances, WebhookStepAdvances,
     HandlerStepAdvances, CronJobAdvances, FaultAdvances
  DEF Next

LEMMA SessionsInit == Init => SessionsInv /\ EndsAreComing /\ InterruptionsInv
<1> SUFFICES ASSUME Init PROVE SessionsInv /\ EndsAreComing /\ InterruptionsInv
  OBVIOUS
<1>1. RowsInv
  BY RowsInvInit
<1>2. webhooks = {} /\ InHandling = {} /\ InFlight = {} /\ Joins = {}
  BY DEF Init, InHandling, InFlight, Joins
<1>3. \A r \in Rooms : \A u \in Users :
        /\ rows[r][u].status = "absent" /\ rows[r][u].sid = NoSid
        /\ live[r][u] = NoSid
  BY DEF Init, AbsentRow
<1>4. KindsOfHandlers /\ SessionsNumbered /\ LeavesOfEnded /\ JoinsInOrder
  BY <1>2, <1>3 DEF KindsOfHandlers, SessionsNumbered, LeavesOfEnded, JoinsInOrder
<1>5. LaterJoinsComing /\ EndsAreComing /\ UnclaimedRows
  BY <1>3 DEF LaterJoinsComing, EndsAreComing, UnclaimedRows, Unclaimed
<1>6. InterruptionsInOrder
  BY <1>2 DEF InterruptionsInOrder
<1> QED BY <1>1, <1>4, <1>5, <1>6 DEF SessionsInv, InterruptionsInv

\* Where webhooks come in order and are retried, no row stays connected without a session
\* and without news to come: however many sessions its user opened, whichever handlers
\* overlap, fail or are lost in a restart.
THEOREM ConnectedRowsTracked ==
  ASSUME Ordered = TRUE, KeepsRetrying = TRUE
  PROVE  Spec => []ConnectedRowsHaveSessions
<1>1. SessionsInv /\ EndsAreComing /\ [Next]_vars => SessionsInv' /\ EndsAreComing'
  BY NextAdvances DEF Advances
<1>2. EndsAreComing => ConnectedRowsHaveSessions
  BY DEF EndsAreComing, ConnectedRowsHaveSessions, News, Unwritten, IsEnd, InHandling
<1> QED BY <1>1, <1>2, SessionsInit, PTL DEF Spec

-----------------------------------------------------------------------------
(* Leaves the guards drop                                                  *)

LEMMA PendingRowsStep ==
  ASSUME TypeOK, PendingRows, [Next]_vars
  PROVE  PendingRows'
<1> USE DEF livekitVars, handlerVars
\* A pending row is as it was, with the grant it had, or both are of this moment.
<1>1. SUFFICES ASSUME NEW r \in Rooms, NEW u \in Users,
                      rows'[r][u].status = "not_connected"
               PROVE  \/ rows'[r][u] = rows[r][u] /\ granted'[r][u] = granted[r][u]
                      \/ rows'[r][u].statusUpdatedAt = now /\ granted'[r][u] = now
  BY DEF PendingRows, TypeOK
<1>2. CASE UNCHANGED <<rows, granted>>
  BY <1>2
<1>3. ASSUME NEW q \in Rooms, NEW v \in Users, NEW st \in Statuses \ {"not_connected"},
             NEW row,
             \/ row = updateCommunityUserStatus(rows[q][v], st)
             \/ \E sid \in Nat : row = updateCommunityUserStatusAndSid(rows[q][v], st, sid),
             rows' = [rows EXCEPT ![q][v] = row], UNCHANGED granted
      PROVE  rows'[r][u] = rows[r][u] /\ granted'[r][u] = granted[r][u]
  <2>1. rows[q][v] \in Row
    BY DEF TypeOK
  <2>2. row.status # "not_connected"
    BY <1>3, <2>1 DEF updateCommunityUserStatus, updateCommunityUserStatusAndSid, Row, Present
  <2>3. rows'[r][u] = IF r = q /\ u = v THEN row ELSE rows[r][u]
    BY <1>3 DEF TypeOK
  <2> QED BY <1>1, <1>3, <2>2, <2>3
<1>4. ASSUME NEW gone \in SUBSET Rooms, UNCHANGED granted,
             rows' = [q \in Rooms |-> IF q \in gone THEN EmptyRoom ELSE rows[q]]
      PROVE  rows'[r][u] = rows[r][u] /\ granted'[r][u] = granted[r][u]
  BY <1>1, <1>4 DEF EmptyRoom, AbsentRow
<1>5. ASSUME NEW q \in Rooms, NEW v \in Users, NEW b \in BOOLEAN,
             getCommunityVoiceChatCredentials(v, q, b)
      PROVE  \/ rows'[r][u] = rows[r][u] /\ granted'[r][u] = granted[r][u]
             \/ rows'[r][u].statusUpdatedAt = now /\ granted'[r][u] = now
  <2> DEFINE row == joinUserToCommunityRoom(rows[q][v], b)
  <2>1. row.statusUpdatedAt = now
    BY DEF joinUserToCommunityRoom
  <2>2. /\ rows' = [rows EXCEPT ![q][v] = row]
        /\ granted' = [granted EXCEPT ![q][v] = now]
    BY <1>5 DEF getCommunityVoiceChatCredentials
  <2> HIDE DEF row
  <2> QED BY <2>1, <2>2 DEF TypeOK
<1>6. ASSUME NEW e \in webhooks,
             handleCommunityParticipantJoined(e) \/ LeftInterrupted(e)
      PROVE  rows'[r][u] = rows[r][u] /\ granted'[r][u] = granted[r][u]
  <2>1. e.room \in Rooms /\ e.user \in Users /\ e.sid \in Nat /\ UNCHANGED granted
    BY <1>6, DeliverType DEF handleCommunityParticipantJoined, LeftInterrupted, LeftBecause, Event
  <2>2. CASE handleCommunityParticipantJoined(e)
    BY <1>3, <2>1, <2>2 DEF handleCommunityParticipantJoined, Statuses
  <2>3. CASE LeftInterrupted(e)
    BY <1>3, <2>1, <2>3 DEF LeftInterrupted, Statuses
  <2> QED BY <1>6, <2>2, <2>3
<1>7. ASSUME NEW l \in leaves, WriteDisconnected(l)
      PROVE  rows'[r][u] = rows[r][u] /\ granted'[r][u] = granted[r][u]
  <2>1. l.ev.room \in Rooms /\ l.ev.user \in Users
    BY DEF TypeOK, Leave, Event
  <2> QED BY <1>3, <1>7, <2>1 DEF WriteDisconnected, Statuses
<1>8. ASSUME NEW d \in teardowns, TeardownRows(d)
      PROVE  rows'[r][u] = rows[r][u] /\ granted'[r][u] = granted[r][u]
  <2>1. rows' = [q \in Rooms |-> IF q \in {d.ev.room} THEN EmptyRoom ELSE rows[q]]
    BY <1>8 DEF TeardownRows, TypeOK
  <2>2. {d.ev.room} \in SUBSET Rooms
    BY DEF TypeOK, Teardown, Event
  <2> QED BY <1>4, <1>8, <2>1, <2>2 DEF TeardownRows
<1>9. ASSUME CronDeleteRows
      PROVE  rows'[r][u] = rows[r][u] /\ granted'[r][u] = granted[r][u]
  <2> PICK batch \in ExpiredBatch(now) :
        rows' = [q \in Rooms |-> IF q \in batch THEN EmptyRoom ELSE rows[q]]
    BY <1>9 DEF CronDeleteRows
  <2> QED BY <1>4, <1>9 DEF CronDeleteRows, ExpiredBatch
<1>10. ClientStep \/ Fault \/ Tick \/ UNCHANGED vars => UNCHANGED <<rows, granted>>
  BY DEF ClientStep, ClientConnects, ClientLeaves, ConnectionDrops, LosesSession, Fault,
         HandlerFails, CronFails, Restart, Tick, vars
<1>11. CASE RequestStep
  BY <1>2, <1>5, <1>11 DEF RequestStep, kickPlayerFromCommunity, LosesSession, endCommunityVoiceChat
<1>12. CASE WebhookStep
  <2>1. \A e \in webhooks :
          LeftDuplicateIdentity(e) \/ LeftRoomDeleted(e) \/ LeftClientInitiated(e)
            => UNCHANGED <<rows, granted>>
    BY DeliverType DEF LeftDuplicateIdentity, LeftRoomDeleted, LeftClientInitiated, LeftBecause
  <2> QED BY <1>2, <1>6, <1>12, <2>1 DEF WebhookStep
<1>13. CASE HandlerStep
  BY <1>2, <1>7, <1>8, <1>13 DEF HandlerStep, DecideTeardown, TeardownLivekit, TeardownPublish
<1>14. CASE CronJob
  BY <1>2, <1>9, <1>14
  DEF CronJob, CronListActive, CronCount, CronCloseRoom, CronPublish
<1> QED BY <1>2, <1>10, <1>11, <1>12, <1>13, <1>14 DEF Next

\* Rounding moves a leave back by less than the precision.
LEMMA LeaveEventTimeIsClose ==
  ASSUME NEW e \in Event
  PROVE  leaveEventTime(e) \in Nat /\ e.at < leaveEventTime(e) + Precision
<1>1. e.at \in Nat /\ Precision \in Nat /\ Precision > 0
  BY ConstantsAssumption DEF Event
<1>2. \A a, p \in Nat : p > 0 => (a \div p) * p \in Nat /\ a < (a \div p) * p + p
  OBVIOUS
<1> QED BY <1>1, <1>2 DEF leaveEventTime

\* Where webhooks come in order and the tolerance covers the second to which LiveKit dates
\* its events, the guards drop a voluntary leave only if the user came back or the row says
\* disconnected already.  The leave may come again any number of times: LiveKit need not
\* keep retrying, handlers may fail, and the process may restart.
THEOREM GenuineLeaves ==
  ASSUME Ordered = TRUE, Skew >= Precision - 1
  PROVE  Spec => GenuineLeaveIsProcessed
<1> DEFINE Processed ==
      \A e \in webhooks :
         LET row == rows[e.room][e.user] IN
         LeftClientInitiated(e) /\ leaves' = leaves /\ Present(row)
           => \/ granted[e.room][e.user] > e.at
              \/ row.sid > e.sid \/ LaterSessionKnown(e)
              \/ row.status = "disconnected"
<1>1. SessionsInv /\ InterruptionsInv /\ PendingRows => Processed
  <2> SUFFICES ASSUME SessionsInv, InterruptionsInv, PendingRows,
                      NEW e \in webhooks, LeftClientInitiated(e), leaves' = leaves
               PROVE  LET row == rows[e.room][e.user] IN
                      Present(row) => \/ granted[e.room][e.user] > e.at
                                      \/ row.sid > e.sid \/ LaterSessionKnown(e)
                                      \/ row.status = "disconnected"
    OBVIOUS
  <2> DEFINE row == rows[e.room][e.user]
  <2>0. TypeOK /\ RowsConsistent
    BY DEF SessionsInv, RowsInv
  <2>1. /\ e.kind = "left" /\ e.reason = "CLIENT_INITIATED" /\ InOrder(e)
        /\ e \notin InHandling
    BY DeliverInOrder DEF LeftClientInitiated, LeftBecause, Deliver
  <2>2. isStaleLeave(row, e)
    <3> SUFFICES ASSUME ~isStaleLeave(row, e) PROVE FALSE
      OBVIOUS
    <3>1. [ev |-> e, snap |-> rows[e.room], pc |-> "write"] \in leaves
      BY DEF LeftClientInitiated
    <3>2. [ev |-> e, snap |-> rows[e.room], pc |-> "write"].ev = e
      OBVIOUS
    <3> QED BY <2>1, <3>1, <3>2 DEF InHandling
  <2>3. /\ e \in InFlight /\ e.room \in Rooms /\ e.user \in Users /\ e.sid \in Nat /\ e.at \in Nat
    BY <2>0, FlightType DEF InFlight, Event
  <2>4. row \in Row /\ granted[e.room][e.user] \in Nat /\ opened[e.room][e.user] \in Nat
    BY <2>0, <2>3 DEF TypeOK
  \* Its own joined event was delivered before it.
  <2>5. ~JoinedComing(e.room, e.user, e.sid)
    BY <2>1 DEF JoinedComing, Joins, InOrder, Precedes
  <2>6. CASE row.sid # NoSid /\ row.sid # e.sid
    <3>1. e.sid <= opened[e.room][e.user]
      BY <2>1, <2>3, <2>4 DEF SessionsInv, LeavesOfEnded
    <3>2. \A s \in (row.sid + 1) .. opened[e.room][e.user] : JoinedComing(e.room, e.user, s)
      BY <2>3, <2>6 DEF SessionsInv, LaterJoinsComing
    <3>3. ~(row.sid < e.sid)
      BY <2>3, <2>4, <2>5, <3>1, <3>2 DEF Row
    <3> QED BY <2>3, <2>4, <2>6, <3>3 DEF Row
  <2>7. CASE row.sid = NoSid /\ row.statusUpdatedAt > leaveEventTime(e) + Skew
    <3>1. row.statusUpdatedAt > e.at
      <4>1. leaveEventTime(e) \in Nat /\ e.at < leaveEventTime(e) + Precision
        BY <2>0, LeaveEventTimeIsClose DEF TypeOK
      <4>2. Precision \in Nat /\ Skew \in Nat /\ Skew >= Precision - 1
        BY ConstantsAssumption
      <4> QED BY <2>3, <2>4, <2>7, <4>1, <4>2 DEF Row
    <3>2. CASE row.status = "not_connected"
      BY <2>3, <2>4, <3>1, <3>2 DEF PendingRows, Row
    <3>3. CASE row.status = "connection_interrupted"
      <4>1. LeavesAhead(e.room, e.user)
        BY <2>3, <2>7, <3>3 DEF InterruptionsInv, UnclaimedRows, Unclaimed
      <4> QED BY <2>1, <2>3, <2>5, <4>1 DEF LeavesAhead
    <3>4. row.status # "connected"
      BY <2>0, <2>3, <2>7 DEF RowsConsistent
    <3> QED BY <2>4, <3>2, <3>3, <3>4 DEF Row, Statuses, Present
  <2> QED BY <2>2, <2>6, <2>7 DEF isStaleLeave
<1>2. SessionsInv /\ InterruptionsInv /\ [Next]_vars => SessionsInv' /\ InterruptionsInv'
  BY NextAdvances DEF Advances
<1>3. SessionsInv /\ PendingRows /\ [Next]_vars => PendingRows'
  BY PendingRowsStep DEF SessionsInv, RowsInv
<1>4. Init => PendingRows
  BY DEF Init, PendingRows, AbsentRow
<1>5. Spec => [][Processed]_vars
  BY <1>1, <1>2, <1>3, <1>4, SessionsInit, PTL DEF Spec
<1> QED BY <1>5 DEF GenuineLeaveIsProcessed

=============================================================================
