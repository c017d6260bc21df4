--------------------------- MODULE SceneModeration ---------------------------
(***************************************************************************)
(* Moderation of one scene: the tables scene_bans and scene_admin, the     *)
(* LiveKit room of the scene and its metadata, which tells the clients in  *)
(* the room who is banned, who is an admin and who presents.               *)
(*                                                                         *)
(* LiveKit replaces the metadata as a whole.  Every writer reads, changes  *)
(* and writes it back under a lock of the process, a chain of promises     *)
(* that is the sequence `chain' here.  The tables are the truth: request   *)
(* handlers write them first and then put the change in the chain, and     *)
(* webhooks of joining participants refresh the metadata from the tables,  *)
(* at most once per cooldown.                                              *)
(*                                                                         *)
(* One step is what a handler does between two awaits.                     *)
(***************************************************************************)
EXTENDS Integers, Sequences, FiniteSets

CONSTANTS
    Users,        \* wallets
    Protected,    \* those with rights of their own on the land or the world
    Lessees,      \* those who rent the land
    Visitors,     \* bound: the users who come to the room, and are moderated
    MaxRequests,  \* bound: requests to ban, unban, add or remove an admin or presenter
    MaxPending,   \* bound: webhooks of the room that wait at a time
    MaxRefreshes, \* bound: the refreshes that may run at a time
    MaxQueue,     \* bound: writes of the metadata that wait at a time
    MaxRooms,     \* bound: how often LiveKit opens the room
    MaxFaults     \* bound: calls that fail

ASSUME ModerationAssumption ==
    /\ Protected \subseteq Users /\ Lessees \subseteq Users /\ Visitors \subseteq Users
    /\ {MaxRequests, MaxPending, MaxRefreshes, MaxQueue, MaxRooms, MaxFaults} \subseteq Nat

Fields == {"bannedAddresses", "sceneAdmins", "presenters"}
Metadata == [Fields -> SUBSET Users]
NoMetadata == [f \in Fields |-> {}]
NoRoom == 0

\* A write of the metadata: the merge of a refresh, with both its lists, or one address
\* in one field.  `read' is what getRoomInfo returned, `session' the room it was read
\* from, `signs' whose token waits for it.
Op == [kind : {"merge", "append", "remove"}, field : Fields, value : SUBSET Users,
       admins : SUBSET Users, signs : SUBSET Users, pc : {"read", "write"},
       read : Metadata, session : Nat]

Requests == {"addSceneBan", "removeSceneBan", "addAdmin", "removeAdmin",
             "promotePresenter", "demotePresenter"}
Handler == [id : Nat, request : Requests, user : Users,
            pc : {"target", "banned", "table", "room", "queue", "kick"}]
Refresh == [pc : {"idle", "mark", "tables"}, todo : SUBSET {"bans", "admins"},
            bans : SUBSET Users, admins : SUBSET Users]
NoRefresh == [pc |-> "idle", todo |-> {}, bans |-> {}, admins |-> {}]
Asking == {"no", "presenter", "room", "queue", "token"}
Slots == 1 .. MaxRefreshes

VARIABLES
    bans,       \* scene_bans: the banned addresses of the place
    admins,     \* scene_admin: the active admins of the place
    session,    \* which of its LiveKit rooms the scene is in, or NoRoom
    opened,     \* how many LiveKit rooms the scene has had
    metadata,   \* the metadata of the room
    inRoom,     \* participants of the room
    asking,     \* asking[u]: where u's request for a token is, ``token'' when u has one
    handlers,   \* requests in flight, past the permission check of their caller
    requests,   \* requests so far
    pending,    \* webhooks (participant_joined, room_started) to be delivered
    refreshing, \* refreshing[i]: a refresh in flight, or NoRefresh
    cooldown,   \* the cache has the room's cooldown entry
    chain,      \* writes of the metadata, the first one running
    faults      \* faults so far

tableVars == <<bans, admins>>
roomVars == <<session, opened, metadata, inRoom>>
refreshVars == <<pending, refreshing, cooldown>>
requestVars == <<handlers, requests>>
vars == <<tableVars, roomVars, asking, requestVars, refreshVars, chain, faults>>

Init ==
    /\ bans = {} /\ admins = {}
    /\ session = NoRoom /\ opened = 0 /\ metadata = NoMetadata /\ inRoom = {}
    /\ asking = [u \in Users |-> "no"]
    /\ handlers = {} /\ requests = 0
    /\ pending = 0 /\ refreshing = [i \in Slots |-> NoRefresh] /\ cooldown = FALSE
    /\ chain = <<>> /\ faults = 0

Spend == faults < MaxFaults /\ faults' = faults + 1

-----------------------------------------------------------------------------
(* Who may do what: scene-manager.ts and scene-admins.ts, in detail in     *)
(* ScenePermissions                                                        *)

isSceneOwnerOrAdmin(u) == u \in Protected \cup Lessees \cup admins
\* Those who can be neither banned nor made an admin; renting does not protect.
isProtected(u) == u \in Protected \cup admins
isUserBanned(u) == u \in bans
\* The list a refresh writes, from the active admins it read.
Listed(active) == active \cup Protected \cup Lessees

-----------------------------------------------------------------------------
(* The chain of metadata writes, livekit.ts                                *)

MergeOp(refresh) ==
    [kind |-> "merge", field |-> "bannedAddresses", value |-> refresh.bans,
     admins |-> Listed(refresh.admins), signs |-> {}, pc |-> "read",
     read |-> NoMetadata, session |-> NoRoom]
ArrayOp(kind, f, u, signs) ==
    [kind |-> kind, field |-> f, value |-> {u}, admins |-> {}, signs |-> signs,
     pc |-> "read", read |-> NoMetadata, session |-> NoRoom]

\* Variant: a refresh adds to the lists and takes nobody off.
AppliedAdding(op, m) ==
    IF op.kind = "remove" THEN [m EXCEPT ![op.field] = @ \ op.value]
    ELSE [m EXCEPT ![op.field] = @ \cup op.value, !["sceneAdmins"] = @ \cup op.admins]

\* Variant: the address is appended as a list of its own.
AppliedNested(op, m) ==
    IF op.kind = "append" THEN [m EXCEPT ![op.field] = @ \cup {op.value}] ELSE m

\* What an operation makes of the metadata it read.
Applied(op, m) ==
    CASE op.kind = "merge" ->
           [m EXCEPT !["bannedAddresses"] = op.value, !["sceneAdmins"] = op.admins]
      [] op.kind = "append" -> [m EXCEPT ![op.field] = @ \cup op.value]
      [] op.kind = "remove" -> [m EXCEPT ![op.field] = @ \ op.value]

\* The fields it is about.
FieldsOf(op) == IF op.kind = "merge" THEN {"bannedAddresses", "sceneAdmins"} ELSE {op.field}

\* Variant: the operations of a room do not wait for each other.
RunningUnlocked == 1 .. Len(chain)

\* withRoomMetadataLock: previous.then(fn, fn), so an operation starts when the one
\* before it has ended, whichever way.
Running == IF chain = <<>> THEN {} ELSE {1}

\* Variant: then(fn) for then(fn, fn), so that an operation that fails takes along those
\* that wait for it.
EndedWithOthers(i) ==
    /\ chain' = IF faults' > faults THEN <<>>
                ELSE SubSeq(chain, 1, i - 1) \o SubSeq(chain, i + 1, Len(chain))
    /\ asking' = [u \in Users |-> IF u \in chain[i].signs THEN "token" ELSE asking[u]]

\* An operation that ended leaves the chain; a token that waited for it is signed.
Ended(i) ==
    /\ chain' = SubSeq(chain, 1, i - 1) \o SubSeq(chain, i + 1, Len(chain))
    /\ asking' = [u \in Users |-> IF u \in chain[i].signs THEN "token" ELSE asking[u]]

\* The next operation of a room goes to the end.
Queued(op) == Len(chain) < MaxQueue /\ chain' = Append(chain, op)

\* getRoomInfo: null when the room is not there, and when the call fails.  The array
\* operations give up on null, and when there is nothing to change.
OpReads(i, found) ==
    LET op == chain[i]
        read == IF found THEN metadata ELSE NoMetadata
    IN  /\ op.pc = "read"
        /\ found => session # NoRoom
        /\ IF found \/ session = NoRoom THEN UNCHANGED faults ELSE Spend
        /\ IF op.kind # "merge" /\ (~found \/ Applied(op, read) = read)
             THEN Ended(i)
             ELSE /\ chain' = [chain EXCEPT ![i].pc = "write", ![i].read = read,
                                            ![i].session = IF found THEN session ELSE NoRoom]
                  /\ UNCHANGED asking
        /\ UNCHANGED <<tableVars, roomVars, requestVars, refreshVars>>

\* LiveKit replaces the metadata, or the call fails: without a room it always does.  The
\* callers swallow the exception.
OpWrites(i, done) ==
    /\ chain[i].pc = "write"
    /\ done => session # NoRoom
    /\ metadata' = IF done THEN Applied(chain[i], chain[i].read) ELSE metadata
    /\ IF done \/ session = NoRoom THEN UNCHANGED faults ELSE Spend
    /\ Ended(i)
    /\ UNCHANGED <<tableVars, session, opened, inRoom, requestVars, refreshVars>>

ChainStep == \E i \in Running, ok \in BOOLEAN : OpReads(i, ok) \/ OpWrites(i, ok)

-----------------------------------------------------------------------------
(* LiveKit's room and the people in it (external)                          *)

\* LiveKit opens a room for its first participant, or for createRoom, with no metadata.
\* It announces the room and whoever joins; news of both counts as one webhook.
Enter(joining) ==
    /\ inRoom' = inRoom \cup joining
    /\ IF session # NoRoom THEN UNCHANGED <<session, opened, metadata>>
       ELSE /\ opened < MaxRooms
            /\ opened' = opened + 1 /\ session' = opened + 1 /\ metadata' = NoMetadata
    /\ IF session # NoRoom /\ joining = {} THEN UNCHANGED pending
       ELSE pending < MaxPending /\ pending' = pending + 1

ParticipantJoins(u) ==
    /\ asking[u] = "token"
    /\ Enter({u})
    /\ UNCHANGED <<tableVars, asking, requestVars, refreshing, cooldown, chain, faults>>

ParticipantLeaves(u) ==
    /\ u \in inRoom /\ inRoom' = inRoom \ {u}
    /\ UNCHANGED <<tableVars, session, opened, metadata, asking, requestVars,
                   refreshVars, chain, faults>>

\* LiveKit closes a room that stays empty; the last one of the bound stays.
RoomCloses ==
    /\ session # NoRoom /\ inRoom = {} /\ opened < MaxRooms
    /\ session' = NoRoom /\ metadata' = NoMetadata
    /\ UNCHANGED <<tableVars, opened, inRoom, asking, requestVars, refreshVars, chain, faults>>

\* Five minutes after it was signed.
TokenExpires(u) ==
    /\ asking[u] = "token" /\ asking' = [asking EXCEPT ![u] = "no"]
    /\ UNCHANGED <<tableVars, roomVars, requestVars, refreshVars, chain, faults>>

-----------------------------------------------------------------------------
(* comms-scene-handler.ts: a user asks for a token                         *)

\* isUserBanned; a failure of the check lets the user through.
ChecksBan(u) ==
    /\ asking[u] = "no" /\ asking' = [asking EXCEPT ![u] = "presenter"]
    /\ IF isUserBanned(u) THEN Spend ELSE UNCHANGED faults
    /\ UNCHANGED <<tableVars, roomVars, requestVars, refreshVars, chain>>

\* Owners and admins present; a failure up to here costs them that, not the token.
ChecksPresenter(u) ==
    /\ asking[u] = "presenter"
    /\ \/ isSceneOwnerOrAdmin(u) /\ asking' = [asking EXCEPT ![u] = "room"] /\ UNCHANGED faults
       \/ ~isSceneOwnerOrAdmin(u) /\ asking' = [asking EXCEPT ![u] = "token"] /\ UNCHANGED faults
       \/ isSceneOwnerOrAdmin(u) /\ asking' = [asking EXCEPT ![u] = "token"] /\ Spend
    /\ UNCHANGED <<tableVars, roomVars, requestVars, refreshVars, chain>>

\* cast.addPresenter: getRoom creates a room that is not there ...
EnsuresRoom(u) ==
    /\ asking[u] = "room"
    /\ \/ Enter({}) /\ asking' = [asking EXCEPT ![u] = "queue"] /\ UNCHANGED faults
       \/ Spend /\ asking' = [asking EXCEPT ![u] = "token"] /\ UNCHANGED <<roomVars, pending>>
    /\ UNCHANGED <<tableVars, requestVars, refreshing, cooldown, chain>>

\* ... and the append goes into the chain; the handler waits for it.
AppendsPresenter(u) ==
    /\ asking[u] = "queue"
    /\ \A i \in 1 .. Len(chain) : u \notin chain[i].signs
    /\ Queued(ArrayOp("append", "presenters", u, {u}))
    /\ UNCHANGED <<tableVars, roomVars, asking, requestVars, refreshVars, faults>>

TokenStep(u) ==
    \/ ChecksBan(u) \/ ChecksPresenter(u) \/ EnsuresRoom(u) \/ AppendsPresenter(u)

-----------------------------------------------------------------------------
(* Requests of owners and admins: scene-bans.ts, the scene-admin handlers, *)
(* promote and demote of cast.ts                                           *)

Moves(h, pc) == handlers' = (handlers \ {h}) \cup {[h EXCEPT !.pc = pc]}
Ends(h) == handlers' = handlers \ {h}

\* A request whose caller was found to be an owner or an admin, and its next step.
Requested(request, pc, caller, u) ==
    /\ requests < MaxRequests /\ isSceneOwnerOrAdmin(caller)
    /\ requests' = requests + 1
    /\ handlers' = handlers \cup {[id |-> requests, request |-> request, user |-> u, pc |-> pc]}
    /\ UNCHANGED <<tableVars, roomVars, asking, refreshVars, chain, faults>>

AddSceneBanRequested(caller, u) == Requested("addSceneBan", "target", caller, u)
RemoveSceneBanRequested(caller, u) == Requested("removeSceneBan", "table", caller, u)
AddAdminRequested(caller, u) == Requested("addAdmin", "target", caller, u)
RemoveAdminRequested(caller, u) == Requested("removeAdmin", "target", caller, u)
PromotePresenterRequested(caller, u) == Requested("promotePresenter", "room", caller, u)
DemotePresenterRequested(caller, u) == Requested("demotePresenter", "queue", caller, u)

\* getUserScenePermissions of the user the request is about; a refused request ends.
BanChecksTarget(h) ==
    /\ h.request = "addSceneBan" /\ h.pc = "target"
    /\ IF isProtected(h.user) THEN Ends(h) ELSE Moves(h, "table")
AddAdminChecksTarget(h) ==
    /\ h.request = "addAdmin" /\ h.pc = "target"
    /\ IF isProtected(h.user) THEN Ends(h) ELSE Moves(h, "banned")
RemoveAdminChecksTarget(h) ==
    /\ h.request = "removeAdmin" /\ h.pc = "target"
    /\ IF h.user \in Protected \/ h.user \notin admins THEN Ends(h) ELSE Moves(h, "table")

\* A banned user does not become an admin.
AddAdminChecksBanned(h) ==
    /\ h.pc = "banned"
    /\ IF isUserBanned(h.user) THEN Ends(h) ELSE Moves(h, "table")

ChecksTarget(h) ==
    /\ \/ BanChecksTarget(h) \/ AddAdminChecksTarget(h) \/ RemoveAdminChecksTarget(h)
       \/ AddAdminChecksBanned(h)
    /\ UNCHANGED <<tableVars, roomVars, asking, requests, refreshVars, chain, faults>>

\* scene-ban-manager.ts and scene-admin-manager.ts: none of these fails on a row that is
\* there, or gone, already.
addBan(h) == h.request = "addSceneBan" /\ bans' = bans \cup {h.user} /\ UNCHANGED admins
removeBan(h) == h.request = "removeSceneBan" /\ bans' = bans \ {h.user} /\ UNCHANGED admins
addAdmin(h) == h.request = "addAdmin" /\ admins' = admins \cup {h.user} /\ UNCHANGED bans
removeAdmin(h) == h.request = "removeAdmin" /\ admins' = admins \ {h.user} /\ UNCHANGED bans

\* The table is written before LiveKit; what fails here changes nothing.
WritesTable(h) ==
    /\ h.pc = "table" /\ Moves(h, "queue")
    /\ addBan(h) \/ removeBan(h) \/ addAdmin(h) \/ removeAdmin(h)
    /\ UNCHANGED <<roomVars, asking, requests, refreshVars, chain, faults>>

\* promotePresenter: getRoom.
EnsuresRoomFor(h) ==
    /\ h.pc = "room"
    /\ Enter({})
    /\ Moves(h, "queue")
    /\ UNCHANGED <<tableVars, asking, requests, refreshing, cooldown, chain, faults>>

\* roomMetadataSync.addBan and the others, addPresenter and removePresenter.
ChangesBans(h) ==
    \/ h.request = "addSceneBan" /\ Queued(ArrayOp("append", "bannedAddresses", h.user, {}))
    \/ h.request = "removeSceneBan" /\ Queued(ArrayOp("remove", "bannedAddresses", h.user, {}))
ChangesAdmins(h) ==
    \/ h.request = "addAdmin" /\ Queued(ArrayOp("append", "sceneAdmins", h.user, {}))
    \/ h.request = "removeAdmin" /\ Queued(ArrayOp("remove", "sceneAdmins", h.user, {}))
addPresenter(h) ==
    h.request = "promotePresenter" /\ Queued(ArrayOp("append", "presenters", h.user, {}))
removePresenter(h) ==
    h.request = "demotePresenter" /\ Queued(ArrayOp("remove", "presenters", h.user, {}))

QueuesChange(h) ==
    /\ h.pc = "queue"
    /\ ChangesBans(h) \/ ChangesAdmins(h) \/ addPresenter(h) \/ removePresenter(h)
    /\ IF h.request = "addSceneBan" THEN Moves(h, "kick") ELSE Ends(h)
    /\ UNCHANGED <<tableVars, roomVars, asking, requests, refreshVars, faults>>

\* A ban also removes the participant, in parallel; a failure is only logged.
Kicks(h) ==
    /\ h.pc = "kick" /\ Ends(h)
    /\ \/ inRoom' = inRoom \ {h.user} /\ UNCHANGED faults
       \/ h.user \in inRoom /\ Spend /\ UNCHANGED inRoom
    /\ UNCHANGED <<tableVars, session, opened, metadata, asking, requests, refreshVars,
                   chain>>

HandlerFails(h) ==
    /\ h.pc # "kick" /\ Spend /\ Ends(h)
    /\ UNCHANGED <<tableVars, roomVars, asking, requests, refreshVars, chain>>

HandlerStep(h) ==
    \/ ChecksTarget(h) \/ WritesTable(h) \/ EnsuresRoomFor(h)
    \/ QueuesChange(h) \/ Kicks(h) \/ HandlerFails(h)

-----------------------------------------------------------------------------
(* room-metadata-sync/component.ts: a webhook refreshes the metadata       *)

\* A webhook of the room is delivered and finds the cooldown entry, or no entry ...
Delivered(i) ==
    /\ pending > 0 /\ refreshing[i] = NoRefresh
    /\ pending' = pending - 1
    /\ refreshing' = IF cooldown THEN refreshing ELSE [refreshing EXCEPT ![i].pc = "mark"]
    /\ UNCHANGED <<tableVars, roomVars, asking, requestVars, cooldown, chain, faults>>

\* ... and sets it, after an await.
MarksCooldown(i) ==
    /\ refreshing[i].pc = "mark"
    /\ cooldown' = TRUE
    /\ refreshing' = [refreshing EXCEPT ![i].pc = "tables", ![i].todo = {"bans", "admins"}]
    /\ UNCHANGED <<tableVars, roomVars, asking, requestVars, pending, chain, faults>>

\* The place has to be found first; if it is not, the slot is released.
PlaceNotFound(i) ==
    /\ refreshing[i].pc = "tables" /\ refreshing[i].todo = {"bans", "admins"} /\ Spend
    /\ cooldown' = FALSE /\ refreshing' = [refreshing EXCEPT ![i] = NoRefresh]
    /\ UNCHANGED <<tableVars, roomVars, asking, requestVars, pending, chain>>

\* refreshRoomMetadata reads the two tables, in parallel.  A failure is caught before
\* it reaches the code that would release the slot.
ReadsTable(i, table) ==
    /\ refreshing[i].pc = "tables" /\ table \in refreshing[i].todo
    /\ \/ /\ refreshing' = [refreshing EXCEPT ![i].todo = @ \ {table},
                 ![i].bans = IF table = "bans" THEN bans ELSE @,
                 ![i].admins = IF table = "admins" THEN admins ELSE @]
          /\ UNCHANGED faults
       \/ Spend /\ refreshing' = [refreshing EXCEPT ![i] = NoRefresh]
    /\ UNCHANGED <<tableVars, roomVars, asking, requestVars, pending, cooldown, chain>>

\* updateRoomMetadata with both lists goes into the chain.
QueuesMerge(i) ==
    /\ refreshing[i].pc = "tables" /\ refreshing[i].todo = {}
    /\ Queued(MergeOp(refreshing[i]))
    /\ refreshing' = [refreshing EXCEPT ![i] = NoRefresh]
    /\ UNCHANGED <<tableVars, roomVars, asking, requestVars, pending, cooldown, faults>>

RefreshStep(i) ==
    \/ MarksCooldown(i) \/ PlaceNotFound(i) \/ QueuesMerge(i)
    \/ \E table \in {"bans", "admins"} : ReadsTable(i, table)

\* The cache drops the entry after WEBHOOK_REFRESH_COOLDOWN_SECONDS.
CooldownElapses ==
    /\ cooldown /\ cooldown' = FALSE
    /\ UNCHANGED <<tableVars, roomVars, asking, requestVars, pending, refreshing, chain, faults>>

-----------------------------------------------------------------------------
(* The weekly job that clears the bans of places that were disabled,       *)
(* without a word to the room.  It lists the places first; as it deletes   *)
(* by place, what counts is what the table has in the end.                 *)

removeBansFromDisabledPlaces ==
    /\ bans # {} /\ bans' = {}
    /\ UNCHANGED <<admins, roomVars, asking, requestVars, refreshVars, chain, faults>>

-----------------------------------------------------------------------------
Request(caller, u) ==
    \/ AddSceneBanRequested(caller, u) \/ RemoveSceneBanRequested(caller, u)
    \/ AddAdminRequested(caller, u) \/ RemoveAdminRequested(caller, u)
    \/ PromotePresenterRequested(caller, u) \/ DemotePresenterRequested(caller, u)
UserStep(u) == ParticipantJoins(u) \/ ParticipantLeaves(u) \/ TokenExpires(u) \/ TokenStep(u)

Next ==
    \/ ChainStep \/ RoomCloses \/ CooldownElapses \/ removeBansFromDisabledPlaces
    \/ \E u \in Visitors : UserStep(u)
    \/ \E caller \in Users, u \in Visitors : Request(caller, u)
    \/ \E h \in handlers : HandlerStep(h)
    \/ \E i \in Slots : Delivered(i) \/ RefreshStep(i)

Spec == Init /\ [][Next]_vars

\* The process runs its promises, LiveKit delivers, and the cache forgets.
Fairness ==
    /\ WF_vars(ChainStep) /\ WF_vars(CooldownElapses)
    /\ WF_vars(\E i \in Slots : Delivered(i))
    /\ \A i \in Slots : WF_vars(RefreshStep(i))

FairSpec == Spec /\ Fairness

-----------------------------------------------------------------------------
(* Properties                                                              *)

TypeOK ==
    /\ bans \subseteq Users /\ admins \subseteq Users
    /\ session \in 0 .. MaxRooms /\ opened \in 0 .. MaxRooms
    /\ metadata \in Metadata /\ inRoom \subseteq Users
    /\ asking \in [Users -> Asking]
    /\ handlers \subseteq Handler /\ requests \in 0 .. MaxRequests
    /\ pending \in 0 .. MaxPending /\ refreshing \in [Slots -> Refresh] /\ cooldown \in BOOLEAN
    /\ chain \in Seq(Op)
    /\ faults \in 0 .. MaxFaults

\* A write of the metadata leaves the fields it is not about as they are in LiveKit at
\* that moment, whatever else was writing: that is what the lock is for.  Nothing is said
\* of a write whose read failed, or whose room was replaced in between.
OtherFieldsSurvive ==
    [][\A i \in 1 .. Len(chain) :
         OpWrites(i, TRUE) /\ chain[i].session = session =>
           \A f \in Fields \ FieldsOf(chain[i]) : metadata'[f] = metadata[f]]_vars

InSync ==
    metadata["bannedAddresses"] = bans /\ metadata["sceneAdmins"] = Listed(admins)

\* As long as people keep joining, the lists in the room end up being what the tables
\* say, after any race between refreshes and requests, any failed call and any room that
\* was opened again: ``webhooks will reconcile'' (scene-bans.ts, line 156).
MetadataConverges ==
    ([]<><<\E u \in Users : ParticipantJoins(u)>>_vars) => <>[](session # NoRoom => InSync)

-----------------------------------------------------------------------------
(* What the lock promises: SceneModeration implements SharedMetadata       *)

\* The edit an operation stands for: the users of each field that it keeps, and adds.
Everyone == [f \in Fields |-> Users]
EditOf(op) ==
    CASE op.kind = "merge" ->
           [keep |-> [Everyone EXCEPT !["bannedAddresses"] = {}, !["sceneAdmins"] = {}],
            add |-> [NoMetadata EXCEPT !["bannedAddresses"] = op.value,
                                       !["sceneAdmins"] = op.admins]]
      [] op.kind = "append" ->
           [keep |-> Everyone, add |-> [NoMetadata EXCEPT ![op.field] = op.value]]
      [] op.kind = "remove" ->
           [keep |-> [Everyone EXCEPT ![op.field] = @ \ op.value], add |-> NoMetadata]

\* The operation that writes next has not read the room there is now.
DocumentLost ==
    chain # <<>> /\ chain[1].pc = "write" /\ chain[1].session # session

EditsWaiting == [i \in 1 .. Len(chain) |-> EditOf(chain[i])]

Shared == INSTANCE SharedMetadata WITH
    open <- session # NoRoom, document <- metadata, lost <- DocumentLost,
    waiting <- EditsWaiting, failures <- faults

\* Every change of the metadata takes effect as a whole, on the metadata as it is then, in
\* the order in which the changes were asked for, whatever requests, refreshes and token
\* handlers do meanwhile; none is dropped, or put on metadata of another time, unless a
\* call failed or the room was closed.
WritesAreAtomic == Shared!Spec

-----------------------------------------------------------------------------
(* What comments of the repository say and the code does not do            *)

\* The writes that are under way for a list.
Corrected(f, u) ==
    \/ \E i \in 1 .. Len(chain) :
         f \in FieldsOf(chain[i]) /\ (chain[i].kind = "merge" \/ u \in chain[i].value)
    \/ \E h \in handlers : h.user = u
    \/ \E i \in Slots : refreshing[i] # NoRefresh

\* livekit.ts, line 513: updateRoomMetadata is ``Serialized per-room via
\* withRoomMetadataLock to prevent concurrent overwrites'', with the refresh of the bans
\* as the example of what would be overwritten.  No refresh then puts a banned user back
\* to not banned, or the reverse, with nothing under way that would correct it.
RefreshKeepsNewerBans ==
    [][\A i \in 1 .. Len(chain) :
         chain[i].kind = "merge" /\ OpWrites(i, TRUE) =>
           \A u \in Users : (u \in metadata'["bannedAddresses"]) = (u \in bans)
                            \/ Corrected("bannedAddresses", u)']_vars
=============================================================================
