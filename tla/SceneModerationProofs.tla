------------------------ MODULE SceneModerationProofs ------------------------
(***************************************************************************)
(* Proofs about SceneModeration, for any users, rights and bounds:         *)
(*   - the variables keep their types (TypeCorrect);                       *)
(*   - the chain of promises is a lock: what a writer of the metadata read *)
(*     is what it replaces (LockHolds), so no field is lost to another     *)
(*     writer (OtherFieldsSafe), and the module implements SharedMetadata, *)
(*     where each change is one step (ImplementsSharedMetadata).           *)
(***************************************************************************)
EXTENDS SceneModeration, SequenceTheorems, TLAPS

-----------------------------------------------------------------------------
(* Operations of the chain                                                 *)

LEMMA ArrayOpIsOp ==
  ASSUME NEW kind \in {"append", "remove"}, NEW f \in Fields, NEW u \in Users,
         NEW signs \in SUBSET Users
  PROVE  ArrayOp(kind, f, u, signs) \in Op
  BY DEF ArrayOp, Op, Metadata, NoMetadata, NoRoom

LEMMA MergeOpIsOp == ASSUME NEW r \in Refresh PROVE MergeOp(r) \in Op
  <1>1. Listed(r.admins) \in SUBSET Users /\ r.bans \in SUBSET Users
    BY ModerationAssumption DEF Refresh, Listed
  <1>2. NoMetadata \in Metadata /\ NoRoom \in Nat /\ "bannedAddresses" \in Fields
    BY DEF Metadata, NoMetadata, NoRoom, Fields
  <1> QED
    BY <1>1, <1>2 DEF MergeOp, Op

LEMMA AppliedIsMetadata ==
  ASSUME NEW op \in Op, NEW m \in Metadata PROVE Applied(op, m) \in Metadata
  <1>1. CASE op.kind = "merge"
    <2>1. Applied(op, m) = [m EXCEPT !["bannedAddresses"] = op.value, !["sceneAdmins"] = op.admins]
      BY <1>1 DEF Applied
    <2> QED  BY <2>1 DEF Op, Metadata
  <1>2. CASE op.kind = "append"
    <2>1. Applied(op, m) = [m EXCEPT ![op.field] = @ \cup op.value]
      BY <1>2 DEF Applied
    <2> QED  BY <2>1 DEF Op, Metadata
  <1>3. CASE op.kind = "remove"
    <2>1. Applied(op, m) = [m EXCEPT ![op.field] = @ \ op.value]
      BY <1>3 DEF Applied
    <2> QED  BY <2>1 DEF Op, Metadata
  <1> QED  BY <1>1, <1>2, <1>3 DEF Op

\* An operation leaves alone what it is not about.
LEMMA AppliedElsewhere ==
  ASSUME NEW op \in Op, NEW m \in Metadata, NEW f \in Fields \ FieldsOf(op)
  PROVE  Applied(op, m)[f] = m[f]
  <1>1. CASE op.kind = "merge"
    <2>1. Applied(op, m) = [m EXCEPT !["bannedAddresses"] = op.value, !["sceneAdmins"] = op.admins]
      BY <1>1 DEF Applied
    <2> QED  BY <1>1, <2>1 DEF FieldsOf, Metadata
  <1>2. CASE op.kind = "append"
    <2>1. Applied(op, m) = [m EXCEPT ![op.field] = @ \cup op.value]
      BY <1>2 DEF Applied
    <2> QED  BY <1>2, <2>1 DEF FieldsOf, Metadata
  <1>3. CASE op.kind = "remove"
    <2>1. Applied(op, m) = [m EXCEPT ![op.field] = @ \ op.value]
      BY <1>3 DEF Applied
    <2> QED  BY <1>3, <2>1 DEF FieldsOf, Metadata
  <1> QED  BY <1>1, <1>2, <1>3 DEF Op

\* What the end of the first operation makes of the chain.
LEMMA EndedChain ==
  ASSUME NEW s \in Seq(Op), s # <<>>,
         NEW t, t = SubSeq(s, 1, 1 - 1) \o SubSeq(s, 1 + 1, Len(s))
  PROVE  /\ t \in Seq(Op) /\ Len(t) = Len(s) - 1
         /\ \A i \in 1 .. Len(t) : t[i] = s[i + 1]
  <1>1. Len(s) \in Nat \ {0} /\ SubSeq(s, 1, 0) = <<>>
    BY EmptySeq, SubSeqEmpty
  <1>2. /\ SubSeq(s, 2, Len(s)) \in Seq(Op) /\ Len(SubSeq(s, 2, Len(s))) = Len(s) - 1
        /\ \A i \in 1 .. Len(s) - 1 : SubSeq(s, 2, Len(s))[i] = s[i + 1]
    BY HeadTailProperties, TailIsSubSeq
  <1>3. t = SubSeq(s, 2, Len(s))
    BY <1>1, <1>2, ConcatEmptySeq
  <1> QED  BY <1>2, <1>3

-----------------------------------------------------------------------------
(* Types                                                                   *)

LEMMA TypeInit == Init => TypeOK
  <1> SUFFICES ASSUME Init PROVE TypeOK  OBVIOUS
  <1>1. NoRefresh \in Refresh /\ NoMetadata \in Metadata
    BY DEF NoRefresh, Refresh, NoMetadata, Metadata
  <1>2. 0 \in 0 .. MaxRooms /\ 0 \in 0 .. MaxRequests /\ 0 \in 0 .. MaxPending /\ 0 \in 0 .. MaxFaults
    BY ModerationAssumption
  <1>3. chain \in Seq(Op)
    BY EmptySeq DEF Init
  <1> QED
    BY <1>1, <1>2, <1>3 DEF Init, TypeOK, Asking, NoRoom

\* What every step but those of the room leaves to the room.
RoomTyped == session \in 0 .. MaxRooms /\ opened \in 0 .. MaxRooms /\ inRoom \subseteq Users

LEMMA EnterTypes ==
  ASSUME TypeOK, NEW joining \in SUBSET Users, Enter(joining)
  PROVE  RoomTyped' /\ metadata' \in Metadata /\ pending' \in 0 .. MaxPending
  <1>1. inRoom' \subseteq Users
    BY DEF Enter, TypeOK
  <1>2. /\ session' \in 0 .. MaxRooms /\ opened' \in 0 .. MaxRooms /\ metadata' \in Metadata
    BY ModerationAssumption DEF Enter, TypeOK, NoMetadata, Metadata
  <1>3. pending' \in 0 .. MaxPending
    BY ModerationAssumption DEF Enter, TypeOK
  <1> QED  BY <1>1, <1>2, <1>3 DEF RoomTyped

LEMMA SpendTypes == ASSUME TypeOK, Spend PROVE faults' \in 0 .. MaxFaults
  BY ModerationAssumption DEF TypeOK, Spend

LEMMA EndedTypes ==
  ASSUME TypeOK, chain # <<>>, Ended(1)
  PROVE  chain' \in Seq(Op) /\ asking' \in [Users -> Asking]
  <1>1. chain' \in Seq(Op)
    BY EndedChain DEF Ended, TypeOK
  <1>2. asking' \in [Users -> Asking]
    BY DEF Ended, TypeOK, Asking
  <1> QED  BY <1>1, <1>2

\* The first operation of a chain that has one.
LEMMA FirstOp ==
  ASSUME TypeOK, NEW i \in Running PROVE i = 1 /\ chain # <<>> /\ chain[1] \in Op /\ 1 \in 1 .. Len(chain)
  <1>1. i = 1 /\ chain # <<>> /\ chain \in Seq(Op)
    BY DEF Running, TypeOK
  <1>2. 1 \in 1 .. Len(chain)
    BY <1>1, EmptySeq
  <1> QED  BY <1>1, <1>2, ElementOfSeq

LEMMA ChainStepTypes == ASSUME TypeOK, ChainStep PROVE TypeOK'
  <1>1. ASSUME NEW i \in Running, NEW found \in BOOLEAN, OpReads(i, found) PROVE TypeOK'
    <2>1. i = 1 /\ chain # <<>> /\ chain[1] \in Op /\ 1 \in 1 .. Len(chain)
      BY FirstOp
    <2>2. faults' \in 0 .. MaxFaults
      BY <1>1, SpendTypes DEF OpReads, TypeOK
    <2> DEFINE read == IF found THEN metadata ELSE NoMetadata
               next == [chain[1] EXCEPT !.pc = "write", !.read = read,
                                        !.session = IF found THEN session ELSE NoRoom]
    <2>3. next \in Op
      <3>1. read \in Metadata /\ (IF found THEN session ELSE NoRoom) \in Nat
        BY ModerationAssumption DEF TypeOK, NoMetadata, Metadata, NoRoom
      <3> HIDE DEF read
      <3> QED  BY <2>1, <3>1 DEF Op
    <2>4. chain' \in Seq(Op) /\ asking' \in [Users -> Asking]
      <3>1. CASE Ended(1)
        BY <2>1, <3>1, EndedTypes
      <3>2. CASE chain' = [chain EXCEPT ![1] = next] /\ UNCHANGED asking
        <4>1. chain' \in Seq(Op)
          BY <2>1, <2>3, <3>2, ExceptSeq DEF TypeOK
        <4> QED  BY <3>2, <4>1 DEF TypeOK
      <3>3. chain' = [chain EXCEPT ![1].pc = "write", ![1].read = read,
                        ![1].session = IF found THEN session ELSE NoRoom]
            => chain' = [chain EXCEPT ![1] = next]
        BY <2>1 DEF TypeOK, Op
      <3> QED  BY <1>1, <2>1, <3>1, <3>2, <3>3 DEF OpReads
    <2> QED
      BY <1>1, <2>2, <2>4 DEF OpReads, TypeOK, tableVars, roomVars, requestVars, refreshVars
  <1>2. ASSUME NEW i \in Running, NEW done \in BOOLEAN, OpWrites(i, done) PROVE TypeOK'
    <2>1. i = 1 /\ chain # <<>> /\ chain[1] \in Op /\ Ended(1)
      BY <1>2, FirstOp DEF OpWrites
    <2>2. faults' \in 0 .. MaxFaults
      BY <1>2, SpendTypes DEF OpWrites, TypeOK
    <2>3. metadata' \in Metadata
      <3>1. Applied(chain[1], chain[1].read) \in Metadata
        BY <2>1, AppliedIsMetadata DEF Op
      <3> QED  BY <1>2, <2>1, <3>1 DEF OpWrites, TypeOK
    <2>4. chain' \in Seq(Op) /\ asking' \in [Users -> Asking]
      BY <2>1, EndedTypes
    <2> QED
      BY <1>2, <2>2, <2>3, <2>4 DEF OpWrites, TypeOK, tableVars, requestVars, refreshVars
  <1> QED  BY <1>1, <1>2 DEF ChainStep

\* A change that goes to the end of the chain.
LEMMA QueuedTypes == ASSUME TypeOK, NEW op \in Op, Queued(op) PROVE chain' \in Seq(Op)
  BY AppendProperties DEF TypeOK, Queued

LEMMA RoomStepTypes ==
  ASSUME TypeOK,
         \/ RoomCloses \/ CooldownElapses \/ removeBansFromDisabledPlaces
         \/ \E u \in Visitors : ParticipantJoins(u) \/ ParticipantLeaves(u) \/ TokenExpires(u)
  PROVE  TypeOK'
  <1>1. CASE RoomCloses
    <2>1. NoRoom \in 0 .. MaxRooms /\ NoMetadata \in Metadata
      BY ModerationAssumption DEF NoRoom, NoMetadata, Metadata
    <2> QED
      BY <1>1, <2>1 DEF RoomCloses, TypeOK, tableVars, requestVars, refreshVars
  <1>2. CASE CooldownElapses \/ removeBansFromDisabledPlaces
    BY <1>2 DEF CooldownElapses, removeBansFromDisabledPlaces, TypeOK, tableVars, roomVars,
       requestVars, refreshVars
  <1>3. ASSUME NEW u \in Visitors, ParticipantJoins(u) PROVE TypeOK'
    <2>1. {u} \in SUBSET Users
      BY ModerationAssumption
    <2>2. RoomTyped' /\ metadata' \in Metadata /\ pending' \in 0 .. MaxPending
      BY <1>3, <2>1, EnterTypes DEF ParticipantJoins
    <2> QED
      BY <1>3, <2>2 DEF ParticipantJoins, RoomTyped, TypeOK, tableVars, requestVars
  <1>4. ASSUME NEW u \in Visitors, ParticipantLeaves(u) \/ TokenExpires(u) PROVE TypeOK'
    BY <1>4 DEF ParticipantLeaves, TokenExpires, TypeOK, Asking, tableVars, roomVars,
       requestVars, refreshVars
  <1> QED  BY <1>1, <1>2, <1>3, <1>4

LEMMA TokenStepTypes == ASSUME TypeOK, NEW u \in Visitors, TokenStep(u) PROVE TypeOK'
  <1>0. u \in Users
    BY ModerationAssumption
  <1>1. CASE ChecksBan(u) \/ ChecksPresenter(u)
    <2>1. faults' \in 0 .. MaxFaults
      BY <1>1, SpendTypes DEF ChecksBan, ChecksPresenter, TypeOK
    <2>2. asking' \in [Users -> Asking]
      BY <1>1 DEF ChecksBan, ChecksPresenter, TypeOK, Asking
    <2> QED
      BY <1>1, <2>1, <2>2 DEF ChecksBan, ChecksPresenter, TypeOK, tableVars, roomVars,
         requestVars, refreshVars
  <1>2. CASE EnsuresRoom(u)
    <2>1. faults' \in 0 .. MaxFaults
      BY <1>2, SpendTypes DEF EnsuresRoom, TypeOK
    <2>2. asking' \in [Users -> Asking]
      BY <1>2 DEF EnsuresRoom, TypeOK, Asking
    <2>3. RoomTyped' /\ metadata' \in Metadata /\ pending' \in 0 .. MaxPending
      BY <1>2, EnterTypes DEF EnsuresRoom, RoomTyped, TypeOK, roomVars
    <2> QED
      BY <1>2, <2>1, <2>2, <2>3 DEF EnsuresRoom, RoomTyped, TypeOK, tableVars, requestVars
  <1>3. CASE AppendsPresenter(u)
    <2>1. ArrayOp("append", "presenters", u, {u}) \in Op
      BY <1>0, ArrayOpIsOp DEF Fields
    <2>2. chain' \in Seq(Op)
      BY <1>3, <2>1, QueuedTypes DEF AppendsPresenter
    <2> QED
      BY <1>3, <2>2 DEF AppendsPresenter, TypeOK, tableVars, roomVars, requestVars, refreshVars
  <1> QED  BY <1>1, <1>2, <1>3 DEF TokenStep

LEMMA RequestTypes ==
  ASSUME TypeOK, NEW caller \in Users, NEW u \in Visitors, Request(caller, u) PROVE TypeOK'
  <1>0. u \in Users
    BY ModerationAssumption
  <1>1. ASSUME NEW request \in Requests, NEW pc \in {"target", "table", "room", "queue"},
               Requested(request, pc, caller, u)
        PROVE  TypeOK'
    <2>1. requests' \in 0 .. MaxRequests /\ requests \in Nat
      BY <1>1, ModerationAssumption DEF Requested, TypeOK
    <2>2. [id |-> requests, request |-> request, user |-> u, pc |-> pc] \in Handler
      BY <1>0, <2>1 DEF Handler
    <2> QED
      BY <1>1, <2>1, <2>2 DEF Requested, TypeOK, tableVars, roomVars, refreshVars
  <1> QED
    BY <1>1 DEF Request, Requests, AddSceneBanRequested, RemoveSceneBanRequested,
       AddAdminRequested, RemoveAdminRequested, PromotePresenterRequested,
       DemotePresenterRequested

LEMMA HandlerStepTypes ==
  ASSUME TypeOK, NEW h \in handlers, HandlerStep(h) PROVE TypeOK'
  <1>0. h \in Handler /\ h.user \in Users
    BY DEF TypeOK, Handler
  <1>1. ASSUME NEW pc \in {"banned", "table", "queue", "kick"}, Ends(h) \/ Moves(h, pc)
        PROVE  handlers' \subseteq Handler
    BY <1>0, <1>1 DEF Ends, Moves, TypeOK, Handler
  <1>2. CASE ChecksTarget(h)
    <2>1. handlers' \subseteq Handler
      BY <1>1, <1>2 DEF ChecksTarget, BanChecksTarget, AddAdminChecksTarget,
         RemoveAdminChecksTarget, AddAdminChecksBanned
    <2> QED
      BY <1>2, <2>1 DEF ChecksTarget, TypeOK, tableVars, roomVars, refreshVars
  <1>3. CASE WritesTable(h)
    <2>1. handlers' \subseteq Handler
      BY <1>1, <1>3 DEF WritesTable
    <2>2. bans' \subseteq Users /\ admins' \subseteq Users
      BY <1>0, <1>3 DEF WritesTable, addBan, removeBan, addAdmin, removeAdmin, TypeOK
    <2> QED
      BY <1>3, <2>1, <2>2 DEF WritesTable, TypeOK, roomVars, refreshVars
  <1>4. CASE EnsuresRoomFor(h)
    <2>1. handlers' \subseteq Handler
      BY <1>1, <1>4 DEF EnsuresRoomFor
    <2>2. RoomTyped' /\ metadata' \in Metadata /\ pending' \in 0 .. MaxPending
      BY <1>4, EnterTypes DEF EnsuresRoomFor
    <2> QED
      BY <1>4, <2>1, <2>2 DEF EnsuresRoomFor, RoomTyped, TypeOK, tableVars
  <1>5. CASE QueuesChange(h)
    <2>1. handlers' \subseteq Handler
      BY <1>1, <1>5 DEF QueuesChange
    <2>2. \A kind \in {"append", "remove"}, f \in Fields : ArrayOp(kind, f, h.user, {}) \in Op
      BY <1>0, ArrayOpIsOp
    <2>3. chain' \in Seq(Op)
      <3>1. \E kind \in {"append", "remove"}, f \in Fields : Queued(ArrayOp(kind, f, h.user, {}))
        BY <1>5 DEF QueuesChange, ChangesBans, ChangesAdmins, addPresenter, removePresenter, Fields
      <3> QED  BY <2>2, <3>1, QueuedTypes
    <2> QED
      BY <1>5, <2>1, <2>3 DEF QueuesChange, TypeOK, tableVars, roomVars, refreshVars
  <1>6. CASE Kicks(h) \/ HandlerFails(h)
    <2>1. handlers' \subseteq Handler
      BY <1>1, <1>6 DEF Kicks, HandlerFails
    <2>2. faults' \in 0 .. MaxFaults
      BY <1>6, SpendTypes DEF Kicks, HandlerFails, TypeOK
    <2>3. inRoom' \subseteq Users
      BY <1>6 DEF Kicks, HandlerFails, TypeOK, roomVars
    <2> QED
      BY <1>6, <2>1, <2>2, <2>3 DEF Kicks, HandlerFails, TypeOK, tableVars, roomVars, refreshVars
  <1> QED  BY <1>2, <1>3, <1>4, <1>5, <1>6 DEF HandlerStep

LEMMA RefreshTypes ==
  ASSUME TypeOK, NEW i \in Slots, Delivered(i) \/ RefreshStep(i) PROVE TypeOK'
  <1>0. refreshing[i] \in Refresh /\ NoRefresh \in Refresh
    BY DEF TypeOK, NoRefresh, Refresh
  <1>1. CASE Delivered(i)
    <2>1. [refreshing[i] EXCEPT !.pc = "mark"] \in Refresh
      BY <1>0 DEF Refresh
    <2>2. refreshing' \in [Slots -> Refresh]
      BY <1>1, <2>1 DEF Delivered, TypeOK
    <2>3. pending' \in 0 .. MaxPending
      BY <1>1, ModerationAssumption DEF Delivered, TypeOK
    <2> QED
      BY <1>1, <2>2, <2>3 DEF Delivered, TypeOK, tableVars, roomVars, requestVars
  <1>2. CASE MarksCooldown(i)
    <2>1. [refreshing[i] EXCEPT !.pc = "tables", !.todo = {"bans", "admins"}] \in Refresh
      BY <1>0 DEF Refresh
    <2>2. refreshing' \in [Slots -> Refresh]
      BY <1>2, <2>1 DEF MarksCooldown, TypeOK
    <2> QED
      BY <1>2, <2>2 DEF MarksCooldown, TypeOK, tableVars, roomVars, requestVars
  <1>3. CASE PlaceNotFound(i)
    BY <1>0, <1>3, SpendTypes DEF PlaceNotFound, TypeOK, tableVars, roomVars, requestVars
  <1>4. ASSUME NEW table \in {"bans", "admins"}, ReadsTable(i, table) PROVE TypeOK'
    <2>1. [refreshing[i] EXCEPT !.todo = @ \ {table},
             !.bans = IF table = "bans" THEN bans ELSE @,
             !.admins = IF table = "admins" THEN admins ELSE @] \in Refresh
      BY <1>0 DEF Refresh, TypeOK
    <2>2. refreshing' \in [Slots -> Refresh]
      BY <1>0, <1>4, <2>1 DEF ReadsTable, TypeOK
    <2>3. faults' \in 0 .. MaxFaults
      BY <1>4, SpendTypes DEF ReadsTable, TypeOK
    <2> QED
      BY <1>4, <2>2, <2>3 DEF ReadsTable, TypeOK, tableVars, roomVars, requestVars
  <1>5. CASE QueuesMerge(i)
    <2>1. chain' \in Seq(Op)
      BY <1>0, <1>5, MergeOpIsOp, QueuedTypes DEF QueuesMerge
    <2> QED
      BY <1>0, <1>5, <2>1 DEF QueuesMerge, TypeOK, tableVars, roomVars, requestVars
  <1> QED  BY <1>1, <1>2, <1>3, <1>4, <1>5 DEF RefreshStep

\* The variables keep their types, within the bounds of the model.
THEOREM TypeCorrect == Spec => []TypeOK
  <1>1. TypeOK /\ [Next]_vars => TypeOK'
    <2>1. ASSUME TypeOK, UNCHANGED vars PROVE TypeOK'
      BY <2>1 DEF TypeOK, vars, tableVars, roomVars, requestVars, refreshVars
    <2> QED
      BY <2>1, ChainStepTypes, RoomStepTypes, TokenStepTypes, RequestTypes, HandlerStepTypes,
         RefreshTypes DEF Next, UserStep
  <1> QED
    BY <1>1, TypeInit, PTL DEF Spec

-----------------------------------------------------------------------------
(* The lock                                                                *)

\* No operation has seen a room that is yet to be opened.
SessionsSeen == session <= opened /\ \A i \in 1 .. Len(chain) : chain[i].session <= opened

\* Only the first operation of the chain has started.
OthersWait == \A i \in 1 .. Len(chain) : i # 1 => chain[i].pc = "read"

\* What the operation that writes next has read is what LiveKit has, unless the read
\* failed or the room was replaced.
ReadIsCurrent ==
    chain # <<>> /\ chain[1].pc = "write" /\ chain[1].session = session /\ session # NoRoom
      => chain[1].read = metadata

LockInv == SessionsSeen /\ OthersWait /\ ReadIsCurrent

LEMMA LockInit == Init => LockInv
  BY DEF Init, LockInv, SessionsSeen, OthersWait, ReadIsCurrent, NoRoom

\* The sessions of the chain are numbers.
LEMMA Numbers ==
  ASSUME TypeOK
  PROVE  /\ session \in Nat /\ opened \in Nat /\ Len(chain) \in Nat
         /\ \A i \in 1 .. Len(chain) : chain[i] \in Op /\ chain[i].session \in Nat
  <1>1. Len(chain) \in Nat /\ \A i \in 1 .. Len(chain) : chain[i] \in Op
    BY ElementOfSeq, LenProperties DEF TypeOK
  <1> QED
    BY <1>1, ModerationAssumption DEF TypeOK, Op

\* A new operation has read nothing yet.
LEMMA QueuedKeepsLock ==
  ASSUME TypeOK, LockInv, UNCHANGED <<session, opened, metadata>>,
         NEW op \in Op, op.pc = "read", op.session = NoRoom, Queued(op)
  PROVE  LockInv'
  <1>1. /\ Len(chain') = Len(chain) + 1 /\ chain'[Len(chain) + 1] = op
        /\ \A i \in 1 .. Len(chain) : chain'[i] = chain[i]
    BY AppendProperties DEF TypeOK, Queued
  <1>2. \A i \in 1 .. Len(chain') : i \in 1 .. Len(chain) \/ i = Len(chain) + 1
    BY <1>1, Numbers
  <1>3. SessionsSeen'
    BY <1>1, <1>2, Numbers DEF LockInv, SessionsSeen, NoRoom
  <1>4. OthersWait'
    BY <1>1, <1>2 DEF LockInv, OthersWait
  <1>5. ReadIsCurrent'
    <2>1. CASE chain = <<>>
      <3>1. chain'[1] = op
        BY <1>1, <2>1
      <3> QED  BY <3>1 DEF ReadIsCurrent
    <2>2. CASE chain # <<>>
      <3>1. 1 \in 1 .. Len(chain)
        BY <2>2, EmptySeq DEF TypeOK
      <3> QED  BY <1>1, <2>2, <3>1 DEF LockInv, ReadIsCurrent
    <2> QED  BY <2>1, <2>2
  <1> QED  BY <1>3, <1>4, <1>5 DEF LockInv

\* When the first operation ends, the next one starts by reading.
LEMMA EndedKeepsLock ==
  ASSUME TypeOK, LockInv, UNCHANGED <<session, opened>>, chain # <<>>, Ended(1)
  PROVE  LockInv'
  <1>1. /\ chain' \in Seq(Op) /\ Len(chain') = Len(chain) - 1
        /\ \A i \in 1 .. Len(chain') : chain'[i] = chain[i + 1]
    BY EndedChain DEF Ended, TypeOK
  <1>2. \A i \in 1 .. Len(chain') : i + 1 \in 1 .. Len(chain) /\ i + 1 # 1
    BY <1>1, Numbers
  <1>3. \A i \in 1 .. Len(chain') : chain'[i].pc = "read" /\ chain'[i].session <= opened
    BY <1>1, <1>2 DEF LockInv, SessionsSeen, OthersWait
  <1>4. chain' # <<>> => 1 \in 1 .. Len(chain')
    BY <1>1, EmptySeq
  <1> QED
    BY <1>3, <1>4 DEF LockInv, SessionsSeen, OthersWait, ReadIsCurrent

LEMMA ChainKeepsLock == ASSUME TypeOK, LockInv, ChainStep PROVE LockInv'
  <1>1. ASSUME NEW i \in Running, NEW found \in BOOLEAN, OpReads(i, found) PROVE LockInv'
    <2>1. i = 1 /\ chain # <<>> /\ chain[1] \in Op /\ 1 \in 1 .. Len(chain)
      BY FirstOp
    <2>2. UNCHANGED <<session, opened, metadata>>
      BY <1>1 DEF OpReads, roomVars
    <2>3. CASE Ended(1)
      BY <2>1, <2>2, <2>3, EndedKeepsLock
    <2>4. CASE chain' = [chain EXCEPT ![1].pc = "write",
                           ![1].read = IF found THEN metadata ELSE NoMetadata,
                           ![1].session = IF found THEN session ELSE NoRoom]
      <3>1. Len(chain') = Len(chain) /\ \A j \in 1 .. Len(chain) : j # 1 => chain'[j] = chain[j]
        BY <2>1, <2>4, LenProperties DEF TypeOK
      <3>2. /\ chain'[1].read = IF found THEN metadata ELSE NoMetadata
            /\ chain'[1].session = IF found THEN session ELSE NoRoom
        BY <2>1, <2>4, LenProperties DEF TypeOK, Op
      <3>3. SessionsSeen'
        BY <2>2, <3>1, <3>2, Numbers DEF LockInv, SessionsSeen, NoRoom
      <3>4. OthersWait'
        BY <3>1 DEF LockInv, OthersWait
      <3>5. ReadIsCurrent'
        BY <2>2, <3>2 DEF ReadIsCurrent
      <3> QED  BY <3>3, <3>4, <3>5 DEF LockInv
    <2> QED  BY <1>1, <2>1, <2>3, <2>4 DEF OpReads
  <1>2. ASSUME NEW i \in Running, NEW done \in BOOLEAN, OpWrites(i, done) PROVE LockInv'
    <2>1. i = 1 /\ chain # <<>>
      BY <1>2, FirstOp
    <2> QED
      BY <1>2, <2>1, EndedKeepsLock DEF OpWrites
  <1> QED  BY <1>1, <1>2 DEF ChainStep

\* A room that is opened is one nobody has read.
LEMMA EnterKeepsLock ==
  ASSUME TypeOK, LockInv, NEW joining, Enter(joining), UNCHANGED chain PROVE LockInv'
  <1>1. CASE UNCHANGED <<session, opened, metadata>>
    BY <1>1 DEF LockInv, SessionsSeen, OthersWait, ReadIsCurrent
  <1>2. CASE opened' = opened + 1 /\ session' = opened + 1
    <2>1. \A i \in 1 .. Len(chain) : chain[i].session < session'
      BY <1>2, Numbers DEF LockInv, SessionsSeen
    <2>2. ReadIsCurrent'
      <3>1. chain # <<>> => 1 \in 1 .. Len(chain)
        BY EmptySeq DEF TypeOK
      <3>2. chain # <<>> => chain[1].session # session'
        BY <2>1, <3>1, <1>2, Numbers
      <3> QED  BY <3>2 DEF ReadIsCurrent
    <2> QED
      BY <1>2, <2>1, <2>2, Numbers DEF LockInv, SessionsSeen, OthersWait
  <1> QED  BY <1>1, <1>2 DEF Enter

\* Everything else leaves the room and the chain alone, or closes the room.
LEMMA OthersKeepLock ==
  ASSUME TypeOK, LockInv, [Next]_vars, ~ChainStep PROVE LockInv'
  <1>1. ASSUME UNCHANGED <<session, opened, metadata, chain>> PROVE LockInv'
    BY <1>1 DEF LockInv, SessionsSeen, OthersWait, ReadIsCurrent
  <1>2. CASE RoomCloses
    BY <1>2, Numbers DEF RoomCloses, LockInv, SessionsSeen, OthersWait, ReadIsCurrent, NoRoom
  <1>3. CASE CooldownElapses \/ removeBansFromDisabledPlaces \/ UNCHANGED vars
    BY <1>1, <1>3 DEF CooldownElapses, removeBansFromDisabledPlaces, vars, roomVars
  <1>4. ASSUME NEW u \in Visitors, UserStep(u) PROVE LockInv'
    <2>0. u \in Users
      BY ModerationAssumption
    <2>1. CASE ParticipantJoins(u) \/ EnsuresRoom(u)
      BY <1>1, <2>1, EnterKeepsLock DEF ParticipantJoins, EnsuresRoom, roomVars
    <2>2. CASE AppendsPresenter(u)
      <3>1. ArrayOp("append", "presenters", u, {u}) \in Op
        BY <2>0, ArrayOpIsOp DEF Fields
      <3> QED
        BY <2>2, <3>1, QueuedKeepsLock DEF AppendsPresenter, ArrayOp, roomVars
    <2>3. CASE ParticipantLeaves(u) \/ TokenExpires(u) \/ ChecksBan(u) \/ ChecksPresenter(u)
      BY <1>1, <2>3 DEF ParticipantLeaves, TokenExpires, ChecksBan, ChecksPresenter, roomVars
    <2> QED  BY <1>4, <2>1, <2>2, <2>3 DEF UserStep, TokenStep
  <1>5. ASSUME NEW caller \in Users, NEW u \in Visitors, Request(caller, u) PROVE LockInv'
    BY <1>1, <1>5 DEF Request, AddSceneBanRequested, RemoveSceneBanRequested,
       AddAdminRequested, RemoveAdminRequested, PromotePresenterRequested,
       DemotePresenterRequested, Requested, roomVars
  <1>6. ASSUME NEW h \in handlers, HandlerStep(h) PROVE LockInv'
    <2>0. h.user \in Users
      BY DEF TypeOK, Handler
    <2>1. CASE EnsuresRoomFor(h)
      BY <2>1, EnterKeepsLock DEF EnsuresRoomFor
    <2>2. CASE QueuesChange(h)
      <3>1. PICK kind \in {"append", "remove"}, f \in Fields : Queued(ArrayOp(kind, f, h.user, {}))
        BY <2>2 DEF QueuesChange, ChangesBans, ChangesAdmins, addPresenter, removePresenter, Fields
      <3>2. ArrayOp(kind, f, h.user, {}) \in Op
        BY <2>0, ArrayOpIsOp
      <3> QED
        BY <2>2, <3>1, <3>2, QueuedKeepsLock DEF QueuesChange, ArrayOp, roomVars
    <2>3. CASE ChecksTarget(h) \/ WritesTable(h) \/ Kicks(h) \/ HandlerFails(h)
      BY <1>1, <2>3 DEF ChecksTarget, WritesTable, Kicks, HandlerFails, roomVars
    <2> QED  BY <1>6, <2>1, <2>2, <2>3 DEF HandlerStep
  <1>7. ASSUME NEW i \in Slots, Delivered(i) \/ RefreshStep(i) PROVE LockInv'
    <2>1. CASE QueuesMerge(i)
      <3>1. MergeOp(refreshing[i]) \in Op
        BY MergeOpIsOp DEF TypeOK
      <3> QED
        BY <2>1, <3>1, QueuedKeepsLock DEF QueuesMerge, MergeOp, roomVars
    <2>2. CASE Delivered(i) \/ MarksCooldown(i) \/ PlaceNotFound(i)
               \/ \E table \in {"bans", "admins"} : ReadsTable(i, table)
      BY <1>1, <2>2 DEF Delivered, MarksCooldown, PlaceNotFound, ReadsTable, roomVars
    <2> QED  BY <1>7, <2>1, <2>2 DEF RefreshStep
  <1> QED  BY <1>2, <1>3, <1>4, <1>5, <1>6, <1>7 DEF Next

\* Whoever is about to write the metadata has read what LiveKit has.
THEOREM LockHolds == Spec => []LockInv
  <1>1. TypeOK /\ LockInv /\ [Next]_vars => LockInv'
    BY ChainKeepsLock, OthersKeepLock
  <1> QED
    BY <1>1, LockInit, TypeCorrect, PTL DEF Spec

\* A write of the metadata leaves the fields it is not about as they are, however requests,
\* refreshes, rooms and failures interleave.
THEOREM OtherFieldsSafe == Spec => OtherFieldsSurvive
  <1> DEFINE Survive == \A i \in 1 .. Len(chain) :
                          OpWrites(i, TRUE) /\ chain[i].session = session =>
                            \A f \in Fields \ FieldsOf(chain[i]) : metadata'[f] = metadata[f]
  <1>1. TypeOK /\ LockInv => Survive
    <2> SUFFICES ASSUME TypeOK, LockInv, NEW i \in 1 .. Len(chain), OpWrites(i, TRUE),
                        chain[i].session = session, NEW f \in Fields \ FieldsOf(chain[i])
                 PROVE  metadata'[f] = metadata[f]
      OBVIOUS
    <2>1. session # NoRoom /\ chain[i].pc = "write"
      BY DEF OpWrites
    <2>2. i = 1
      BY <2>1 DEF LockInv, OthersWait
    <2>3. chain # <<>> /\ chain[1] \in Op
      BY <2>2, Numbers, EmptySeq
    <2>4. chain[1].read = metadata
      BY <2>1, <2>2, <2>3 DEF LockInv, ReadIsCurrent
    <2>5. metadata' = Applied(chain[1], metadata)
      BY <2>2, <2>4 DEF OpWrites
    <2> QED
      BY <2>2, <2>3, <2>5, AppliedElsewhere DEF TypeOK
  <1>2. TypeOK /\ LockInv => [Survive]_vars
    BY <1>1
  <1> QED
    BY <1>2, LockHolds, TypeCorrect, PTL DEF OtherFieldsSurvive

-----------------------------------------------------------------------------
(* SceneModeration implements SharedMetadata                               *)

\* The edit an operation stands for does to the metadata what the operation does.
LEMMA EditOfIsEdit == ASSUME NEW op \in Op PROVE EditOf(op) \in Shared!Edit
  <1>1. Everyone \in Shared!Document /\ NoMetadata \in Shared!Document
    BY DEF Everyone, NoMetadata, Shared!Document
  <1>2. CASE op.kind = "merge"
    BY <1>1, <1>2 DEF EditOf, Op, Shared!Edit, Shared!Document
  <1>3. CASE op.kind = "append"
    BY <1>1, <1>3 DEF EditOf, Op, Shared!Edit, Shared!Document
  <1>4. CASE op.kind = "remove"
    BY <1>1, <1>4 DEF EditOf, Op, Shared!Edit, Shared!Document
  <1> QED  BY <1>2, <1>3, <1>4 DEF Op

LEMMA EffectIsApplied ==
  ASSUME NEW op \in Op, NEW m \in Metadata
  PROVE  Shared!Effect(EditOf(op), m) = Applied(op, m)
  <1> DEFINE edit == EditOf(op)
  <1>0. \A f \in Fields : m[f] \subseteq Users /\ Everyone[f] = Users /\ NoMetadata[f] = {}
    BY DEF Metadata, Everyone, NoMetadata
  <1>1. \A f \in Fields : Applied(op, m)[f] = (m[f] \cap edit.keep[f]) \cup edit.add[f]
    <2> SUFFICES ASSUME NEW f \in Fields
                 PROVE  Applied(op, m)[f] = (m[f] \cap edit.keep[f]) \cup edit.add[f]
      OBVIOUS
    <2>1. CASE op.kind = "merge"
      <3>1. /\ edit.keep = [Everyone EXCEPT !["bannedAddresses"] = {}, !["sceneAdmins"] = {}]
            /\ edit.add = [NoMetadata EXCEPT !["bannedAddresses"] = op.value,
                                             !["sceneAdmins"] = op.admins]
        BY <2>1 DEF EditOf
      <3>2. Applied(op, m) = [m EXCEPT !["bannedAddresses"] = op.value, !["sceneAdmins"] = op.admins]
        BY <2>1 DEF Applied
      <3> HIDE DEF edit
      <3> QED  BY <1>0, <3>1, <3>2 DEF Metadata, Everyone, NoMetadata
    <2>2. CASE op.kind = "append"
      <3>1. edit.keep = Everyone /\ edit.add = [NoMetadata EXCEPT ![op.field] = op.value]
        BY <2>2 DEF EditOf
      <3>2. Applied(op, m) = [m EXCEPT ![op.field] = @ \cup op.value]
        BY <2>2 DEF Applied
      <3> HIDE DEF edit
      <3> QED  BY <1>0, <3>1, <3>2 DEF Metadata, NoMetadata
    <2>3. CASE op.kind = "remove"
      <3>1. edit.keep = [Everyone EXCEPT ![op.field] = @ \ op.value] /\ edit.add = NoMetadata
        BY <2>3 DEF EditOf
      <3>2. Applied(op, m) = [m EXCEPT ![op.field] = @ \ op.value]
        BY <2>3 DEF Applied
      <3> HIDE DEF edit
      <3> QED  BY <1>0, <3>1, <3>2 DEF Metadata, Everyone
    <2> QED  BY <2>1, <2>2, <2>3 DEF Op
  <1>2. Applied(op, m) = [f \in Fields |-> Applied(op, m)[f]]
    BY AppliedIsMetadata DEF Metadata
  <1>3. Shared!Effect(EditOf(op), m) = [f \in Fields |-> (m[f] \cap edit.keep[f]) \cup edit.add[f]]
    BY DEF Shared!Effect
  <1> QED  BY <1>1, <1>2, <1>3

\* The edits that wait are those of the chain, in its order.
LEMMA Waits ==
  ASSUME TypeOK
  PROVE  /\ EditsWaiting \in Seq(Shared!Edit) /\ Len(EditsWaiting) = Len(chain)
         /\ \A i \in 1 .. Len(chain) : EditsWaiting[i] = EditOf(chain[i])
         /\ EditsWaiting # <<>> <=> chain # <<>>
  <1>1. Len(chain) \in Nat /\ \A i \in 1 .. Len(chain) : EditOf(chain[i]) \in Shared!Edit
    BY Numbers, EditOfIsEdit
  <1>2. EditsWaiting \in Seq(Shared!Edit) /\ Len(EditsWaiting) = Len(chain)
    <2>1. EditsWaiting \in [1 .. Len(chain) -> Shared!Edit]
      BY <1>1 DEF EditsWaiting
    <2>2. EditsWaiting \in Seq(Shared!Edit)
      BY <1>1, <2>1, SeqDef
    <2>3. 1 .. Len(EditsWaiting) = 1 .. Len(chain) /\ Len(EditsWaiting) \in Nat
      BY <2>1, <2>2, LenProperties
    <2> QED  BY <1>1, <2>2, <2>3
  <1>3. EditsWaiting # <<>> <=> chain # <<>>
    BY <1>2, EmptySeq DEF TypeOK
  <1> QED  BY <1>2, <1>3 DEF EditsWaiting

\* A change that goes to the end of the chain is an edit that is asked for.
LEMMA QueuedAsks ==
  ASSUME TypeOK, NEW op \in Op, op.pc = "read", Queued(op), UNCHANGED <<session, metadata, faults>>
  PROVE  Shared!Ask
  <1>1. /\ chain' = Append(chain, op) /\ chain' \in Seq(Op) /\ Len(chain') = Len(chain) + 1
        /\ chain'[Len(chain) + 1] = op
        /\ \A i \in 1 .. Len(chain) : chain'[i] = chain[i]
    BY AppendProperties DEF TypeOK, Queued
  <1>2. /\ EditsWaiting \in Seq(Shared!Edit) /\ Len(EditsWaiting) = Len(chain)
        /\ \A i \in 1 .. Len(chain) : EditsWaiting[i] = EditOf(chain[i])
        /\ EditOf(op) \in Shared!Edit /\ Len(chain) \in Nat
    BY Waits, EditOfIsEdit, Numbers
  <1>3. EditsWaiting' = Append(EditsWaiting, EditOf(op))
    <2>1. EditsWaiting' = [i \in 1 .. Len(chain) + 1 |-> EditOf(chain'[i])]
      BY <1>1 DEF EditsWaiting
    <2>2. \A i \in 1 .. Len(chain) + 1 :
            EditOf(chain'[i]) = IF i = Len(chain) + 1 THEN EditOf(op) ELSE EditOf(chain[i])
      BY <1>1, <1>2
    <2>3. \A i \in 1 .. Len(chain) + 1 : EditsWaiting'[i] = Append(EditsWaiting, EditOf(op))[i]
      BY <1>2, <2>1, <2>2, AppendProperties
    <2>4. EditsWaiting' \in Seq(Shared!Edit) /\ Len(EditsWaiting') = Len(chain) + 1
      <3>1. EditsWaiting' \in [1 .. Len(chain) + 1 -> Shared!Edit]
        BY <1>1, <1>2, <2>1, EditOfIsEdit, ElementOfSeq
      <3>2. EditsWaiting' \in Seq(Shared!Edit)
        BY <1>2, <3>1, SeqDef
      <3> QED  BY <1>2, <3>1, <3>2, LenProperties
    <2>5. /\ Append(EditsWaiting, EditOf(op)) \in Seq(Shared!Edit)
          /\ Len(Append(EditsWaiting, EditOf(op))) = Len(chain) + 1
      BY <1>2, AppendProperties
    <2> QED  BY <2>3, <2>4, <2>5, SeqEqual
  <1>4. EditsWaiting'[Len(EditsWaiting) + 1] = EditOf(op) /\ Len(EditsWaiting') = Len(EditsWaiting) + 1
    BY <1>2, <1>3, AppendProperties
  <1>5. DocumentLost' = DocumentLost
    <2>1. CASE chain = <<>>
      <3>1. chain'[1] = op
        BY <1>1, <2>1
      <3> QED  BY <2>1, <3>1 DEF DocumentLost
    <2>2. CASE chain # <<>>
      <3>1. 1 \in 1 .. Len(chain) /\ chain' # <<>>
        BY <1>1, <2>2, EmptySeq DEF TypeOK
      <3> QED  BY <1>1, <2>2, <3>1 DEF DocumentLost
    <2> QED  BY <2>1, <2>2
  <1> QED
    BY <1>2, <1>3, <1>4, <1>5 DEF Shared!Ask

\* When the first operation ends, its edit is over.
LEMMA EndedOver ==
  ASSUME TypeOK, LockInv, chain # <<>>, Ended(1), UNCHANGED session
  PROVE  Shared!Over
  <1>1. /\ chain' \in Seq(Op) /\ Len(chain') = Len(chain) - 1
        /\ \A i \in 1 .. Len(chain') : chain'[i] = chain[i + 1]
    BY EndedChain DEF Ended, TypeOK
  <1>2. /\ EditsWaiting \in Seq(Shared!Edit) /\ Len(EditsWaiting) = Len(chain)
        /\ \A i \in 1 .. Len(chain) : EditsWaiting[i] = EditOf(chain[i])
        /\ EditsWaiting # <<>> /\ Len(chain) \in Nat \ {0}
    BY Waits, EmptySeq DEF TypeOK
  <1>3. EditsWaiting' = Tail(EditsWaiting)
    <2>1. \A i \in 1 .. Len(chain') : i + 1 \in 1 .. Len(chain)
      BY <1>1, <1>2
    <2>2. EditsWaiting' = [i \in 1 .. Len(chain) - 1 |-> EditOf(chain[i + 1])]
      BY <1>1 DEF EditsWaiting
    <2>3. EditsWaiting' \in Seq(Shared!Edit) /\ Len(EditsWaiting') = Len(chain) - 1
      <3>1. EditsWaiting' \in [1 .. Len(chain) - 1 -> Shared!Edit]
        BY <1>1, <2>1, <2>2, EditOfIsEdit, Numbers
      <3>2. EditsWaiting' \in Seq(Shared!Edit) /\ Len(chain) - 1 \in Nat
        BY <1>2, <3>1, SeqDef
      <3> QED  BY <3>1, <3>2, LenProperties
    <2>4. /\ Tail(EditsWaiting) \in Seq(Shared!Edit)
          /\ Len(Tail(EditsWaiting)) = Len(chain) - 1
          /\ \A i \in 1 .. Len(chain) - 1 : Tail(EditsWaiting)[i] = EditsWaiting[i + 1]
      BY <1>2, HeadTailProperties
    <2>5. \A i \in 1 .. Len(chain) - 1 : EditsWaiting'[i] = Tail(EditsWaiting)[i]
      BY <1>1, <1>2, <2>1, <2>2, <2>4
    <2> QED  BY <2>3, <2>4, <2>5, SeqEqual
  <1>4. ~DocumentLost'
    <2>1. chain' # <<>> => 1 \in 1 .. Len(chain') /\ 1 + 1 \in 1 .. Len(chain)
      BY <1>1, <1>2, EmptySeq
    <2> QED  BY <1>1, <2>1 DEF DocumentLost, LockInv, OthersWait
  <1> QED
    BY <1>2, <1>3, <1>4 DEF Shared!Over

\* A step of the chain is a step of the shared document, or none.
LEMMA ChainMaps ==
  ASSUME TypeOK, LockInv, ChainStep
  PROVE  [Shared!Next]_(Shared!sharedVars)
  <1>1. ASSUME NEW i \in Running, NEW found \in BOOLEAN, OpReads(i, found)
        PROVE  [Shared!Next]_(Shared!sharedVars)
    <2>1. i = 1 /\ chain # <<>> /\ chain[1] \in Op /\ 1 \in 1 .. Len(chain)
      BY FirstOp
    <2>2. UNCHANGED <<session, metadata>> /\ chain[1].pc = "read" /\ ~DocumentLost
      BY <1>1, <2>1 DEF OpReads, roomVars, DocumentLost
    <2>3. CASE Ended(1) /\ ~found
      <3>1. Shared!Over
        BY <2>1, <2>2, <2>3, EndedOver
      <3>2. Shared!Fails \/ (session = NoRoom /\ UNCHANGED faults)
        BY <1>1, <2>3 DEF OpReads, Spend, Shared!Fails
      <3> QED
        BY <2>2, <3>1, <3>2 DEF Shared!GiveUp, Shared!Next
    <2>4. CASE Ended(1) /\ found /\ Applied(chain[1], metadata) = metadata
      <3>1. Shared!Over
        BY <2>1, <2>2, <2>4, EndedOver
      <3>2. session # NoRoom /\ UNCHANGED faults
        BY <1>1, <2>4 DEF OpReads
      <3>3. metadata' = Shared!Effect(EditOf(chain[1]), metadata)
        BY <2>1, <2>2, <2>4, EffectIsApplied DEF TypeOK
      <3>4. Head(EditsWaiting) = EditOf(chain[1])
        BY <2>1, Waits
      <3> QED
        BY <2>2, <3>1, <3>2, <3>3, <3>4 DEF Shared!Serve, Shared!Next
    <2>5. CASE chain' = [chain EXCEPT ![1].pc = "write",
                           ![1].read = IF found THEN metadata ELSE NoMetadata,
                           ![1].session = IF found THEN session ELSE NoRoom]
      <3>1. Len(chain') = Len(chain) /\ \A j \in 1 .. Len(chain) : j # 1 => chain'[j] = chain[j]
        BY <2>1, <2>5, LenProperties DEF TypeOK
      <3>2. /\ chain'[1].pc = "write" /\ chain'[1].kind = chain[1].kind
            /\ chain'[1].field = chain[1].field /\ chain'[1].value = chain[1].value
            /\ chain'[1].admins = chain[1].admins
            /\ chain'[1].session = IF found THEN session ELSE NoRoom
            /\ chain' # <<>>
        BY <2>1, <2>5, LenProperties DEF TypeOK, Op
      <3>3. UNCHANGED EditsWaiting
        <4>1. EditOf(chain'[1]) = EditOf(chain[1])
          BY <3>2 DEF EditOf
        <4>2. \A j \in 1 .. Len(chain) : EditOf(chain'[j]) = EditOf(chain[j])
          BY <3>1, <4>1
        <4> QED  BY <3>1, <4>2 DEF EditsWaiting
      <3>4. EditsWaiting # <<>>
        BY <2>1, Waits
      <3>5. CASE found \/ session = NoRoom
        <4>1. UNCHANGED DocumentLost
          BY <1>1, <2>2, <3>2, <3>5 DEF OpReads, DocumentLost
        <4>2. UNCHANGED <<session # NoRoom, faults>>
          BY <1>1, <2>2, <3>5 DEF OpReads
        <4> QED
          BY <2>2, <3>3, <4>1, <4>2 DEF Shared!sharedVars
      <3>6. CASE ~found /\ session # NoRoom
        <4>1. DocumentLost' /\ faults' = faults + 1
          BY <1>1, <2>2, <3>2, <3>6 DEF OpReads, DocumentLost, Spend
        <4> QED
          BY <2>2, <3>3, <3>4, <3>6, <4>1 DEF Shared!Lose, Shared!Fails, Shared!Next
      <3> QED  BY <3>5, <3>6
    <2> QED  BY <1>1, <2>1, <2>3, <2>4, <2>5 DEF OpReads
  <1>2. ASSUME NEW i \in Running, NEW done \in BOOLEAN, OpWrites(i, done)
        PROVE  [Shared!Next]_(Shared!sharedVars)
    <2>1. i = 1 /\ chain # <<>> /\ chain[1] \in Op /\ chain[1].pc = "write"
      BY <1>2, FirstOp DEF OpWrites
    <2>2. Shared!Over /\ UNCHANGED session
      BY <1>2, <2>1, EndedOver DEF OpWrites
    <2>3. Head(EditsWaiting) = EditOf(chain[1])
      BY <2>1, Waits, FirstOp
    <2>4. CASE ~done
      <3>1. UNCHANGED metadata /\ (Shared!Fails \/ (session = NoRoom /\ UNCHANGED faults))
        BY <1>2, <2>4 DEF OpWrites, Spend, Shared!Fails
      <3> QED  BY <2>2, <3>1 DEF Shared!GiveUp, Shared!Next
    <2>5. CASE done
      <3>1. /\ metadata' = Applied(chain[1], chain[1].read)
            /\ session # NoRoom /\ UNCHANGED faults
        BY <1>2, <2>1, <2>5 DEF OpWrites
      <3>2. chain[1].read \in Metadata /\ Metadata = Shared!Document
        BY <2>1 DEF Op, Metadata, Shared!Document
      <3>3. metadata' = Shared!Effect(Head(EditsWaiting), chain[1].read)
        BY <2>1, <2>3, <3>1, <3>2, EffectIsApplied
      <3>4. CASE DocumentLost
        BY <2>2, <3>1, <3>2, <3>3, <3>4 DEF Shared!Overwrite, Shared!Next
      <3>5. CASE ~DocumentLost
        <4>1. chain[1].read = metadata
          BY <2>1, <3>1, <3>5 DEF DocumentLost, LockInv, ReadIsCurrent
        <4> QED
          BY <2>2, <3>1, <3>3, <3>5, <4>1 DEF Shared!Serve, Shared!Next
      <3> QED  BY <3>4, <3>5
    <2> QED  BY <2>4, <2>5
  <1> QED  BY <1>1, <1>2 DEF ChainStep

\* A room that is opened is the document starting again.
LEMMA EnterMaps ==
  ASSUME TypeOK, LockInv, NEW joining, Enter(joining), UNCHANGED <<chain, faults>>
  PROVE  [Shared!Next]_(Shared!sharedVars)
  <1>1. UNCHANGED EditsWaiting
    BY DEF EditsWaiting
  <1>2. CASE session # NoRoom
    <2>1. UNCHANGED <<session, metadata>>
      BY <1>2 DEF Enter
    <2>2. UNCHANGED DocumentLost
      BY <2>1 DEF DocumentLost
    <2> QED  BY <1>1, <2>1, <2>2 DEF Shared!sharedVars
  <1>3. CASE session = NoRoom
    <2>1. session' # NoRoom /\ metadata' = Shared!Empty
      BY <1>3, Numbers DEF Enter, NoRoom, NoMetadata, Shared!Empty
    <2>2. DocumentLost' \in BOOLEAN /\ (DocumentLost' => EditsWaiting # <<>>)
      BY Waits DEF DocumentLost
    <2> QED
      BY <1>1, <1>3, <2>1, <2>2 DEF Shared!Reopen, Shared!Next
  <1> QED  BY <1>2, <1>3

\* So is one that is closed, except that it is gone.
LEMMA ClosingMaps == ASSUME TypeOK, RoomCloses PROVE [Shared!Next]_(Shared!sharedVars)
  <1>1. UNCHANGED EditsWaiting /\ UNCHANGED faults
    BY DEF RoomCloses, EditsWaiting
  <1>2. session # NoRoom /\ session' = NoRoom /\ metadata' = Shared!Empty
    BY DEF RoomCloses, NoMetadata, Shared!Empty
  <1>3. DocumentLost' \in BOOLEAN /\ (DocumentLost' => EditsWaiting # <<>>)
    BY Waits DEF RoomCloses, DocumentLost
  <1> QED
    BY <1>1, <1>2, <1>3 DEF Shared!Reopen, Shared!Next

\* Everything else leaves the room and the chain alone; a call may fail.
LEMMA ElsewhereMaps ==
  ASSUME UNCHANGED <<session, metadata, chain>>, UNCHANGED faults \/ Spend
  PROVE  [Shared!Next]_(Shared!sharedVars)
  <1>1. UNCHANGED <<session # NoRoom, metadata, EditsWaiting, DocumentLost>>
    BY DEF EditsWaiting, DocumentLost
  <1> QED
    BY <1>1 DEF Spend, Shared!Fails, Shared!FailsElsewhere, Shared!Next, Shared!sharedVars

LEMMA OthersMap ==
  ASSUME TypeOK, LockInv, [Next]_vars, ~ChainStep PROVE [Shared!Next]_(Shared!sharedVars)
  <1> DEFINE Mapped == [Shared!Next]_(Shared!sharedVars)
  <1>0. Shared!Ask => Mapped
    BY DEF Shared!Next
  <1>1. ASSUME UNCHANGED <<session, metadata, chain>>, UNCHANGED faults \/ Spend PROVE Mapped
    BY <1>1, ElsewhereMaps
  <1> HIDE DEF Mapped
  <1>2. CASE RoomCloses
    BY <1>2, ClosingMaps
  <1>3. CASE CooldownElapses \/ removeBansFromDisabledPlaces \/ UNCHANGED vars
    <2>1. UNCHANGED <<session, metadata, chain>> /\ UNCHANGED faults
      BY <1>3 DEF CooldownElapses, removeBansFromDisabledPlaces, vars, roomVars
    <2> QED  BY <2>1, ElsewhereMaps
  <1>4. ASSUME NEW u \in Visitors, UserStep(u) PROVE Mapped
    <2>0. u \in Users
      BY ModerationAssumption
    <2>1. CASE ParticipantJoins(u)
      BY <2>1, EnterMaps DEF ParticipantJoins, Mapped
    <2>2. CASE EnsuresRoom(u)
      <3>1. CASE Enter({}) /\ UNCHANGED faults
        BY <2>2, <3>1, EnterMaps DEF EnsuresRoom, Mapped
      <3>2. CASE Spend /\ UNCHANGED roomVars
        BY <1>1, <2>2, <3>2 DEF EnsuresRoom, roomVars
      <3> QED  BY <2>2, <3>1, <3>2 DEF EnsuresRoom
    <2>3. CASE AppendsPresenter(u)
      <3>1. ArrayOp("append", "presenters", u, {u}) \in Op
        BY <2>0, ArrayOpIsOp DEF Fields
      <3> QED
        BY <1>0, <2>3, <3>1, QueuedAsks DEF AppendsPresenter, ArrayOp, roomVars
    <2>4. CASE ParticipantLeaves(u) \/ TokenExpires(u) \/ ChecksBan(u) \/ ChecksPresenter(u)
      BY <1>1, <2>4 DEF ParticipantLeaves, TokenExpires, ChecksBan, ChecksPresenter, roomVars
    <2> QED  BY <1>4, <2>1, <2>2, <2>3, <2>4 DEF UserStep, TokenStep
  <1>5. ASSUME NEW caller \in Users, NEW u \in Visitors, Request(caller, u) PROVE Mapped
    BY <1>1, <1>5 DEF Request, AddSceneBanRequested, RemoveSceneBanRequested,
       AddAdminRequested, RemoveAdminRequested, PromotePresenterRequested,
       DemotePresenterRequested, Requested, roomVars
  <1>6. ASSUME NEW h \in handlers, HandlerStep(h) PROVE Mapped
    <2>0. h.user \in Users
      BY DEF TypeOK, Handler
    <2>1. CASE EnsuresRoomFor(h)
      BY <2>1, EnterMaps DEF EnsuresRoomFor, Mapped
    <2>2. CASE QueuesChange(h)
      <3>1. PICK kind \in {"append", "remove"}, f \in Fields : Queued(ArrayOp(kind, f, h.user, {}))
        BY <2>2 DEF QueuesChange, ChangesBans, ChangesAdmins, addPresenter, removePresenter, Fields
      <3>2. ArrayOp(kind, f, h.user, {}) \in Op
        BY <2>0, ArrayOpIsOp
      <3> QED
        BY <1>0, <2>2, <3>1, <3>2, QueuedAsks DEF QueuesChange, ArrayOp, roomVars
    <2>3. CASE ChecksTarget(h) \/ WritesTable(h) \/ Kicks(h) \/ HandlerFails(h)
      BY <1>1, <2>3 DEF ChecksTarget, WritesTable, Kicks, HandlerFails, roomVars
    <2> QED  BY <1>6, <2>1, <2>2, <2>3 DEF HandlerStep
  <1>7. ASSUME NEW i \in Slots, Delivered(i) \/ RefreshStep(i) PROVE Mapped
    <2>1. CASE QueuesMerge(i)
      <3>1. MergeOp(refreshing[i]) \in Op
        BY MergeOpIsOp DEF TypeOK
      <3> QED
        BY <1>0, <2>1, <3>1, QueuedAsks DEF QueuesMerge, MergeOp, roomVars
    <2>2. CASE Delivered(i) \/ MarksCooldown(i) \/ PlaceNotFound(i)
               \/ \E table \in {"bans", "admins"} : ReadsTable(i, table)
      BY <1>1, <2>2 DEF Delivered, MarksCooldown, PlaceNotFound, ReadsTable, roomVars
    <2> QED  BY <1>7, <2>1, <2>2 DEF RefreshStep
  <1> QED  BY <1>2, <1>3, <1>4, <1>5, <1>6, <1>7 DEF Next, Mapped

\* Every change of the metadata takes effect as a whole, on the metadata as it is then and
\* in the order of the requests, unless a call failed or the room was closed: the chain of
\* promises, with a service that can only read and replace, implements SharedMetadata.
THEOREM ImplementsSharedMetadata == Spec => WritesAreAtomic
  <1>1. Init => Shared!Init
    <2> SUFFICES ASSUME Init PROVE Shared!Init
      OBVIOUS
    <2>1. EditsWaiting = <<>> /\ ~DocumentLost
      BY Waits, TypeInit DEF Init, DocumentLost
    <2> QED
      BY <2>1 DEF Init, NoMetadata, Shared!Init, Shared!Empty
  <1>2. TypeOK /\ LockInv /\ [Next]_vars => [Shared!Next]_(Shared!sharedVars)
    BY ChainMaps, OthersMap
  <1> QED
    BY <1>1, <1>2, LockHolds, TypeCorrect, PTL DEF Spec, WritesAreAtomic, Shared!Spec
=============================================================================
