--------------------------- MODULE UserModeration ---------------------------
(***************************************************************************)
(* Bans of players from the whole platform: the table user_bans, the       *)
(* devices players were last seen with (player_connection_info), the two   *)
(* endpoints that hand out LiveKit tokens after looking both up, and the   *)
(* sweep that takes a player who was banned out of every LiveKit room.     *)
(*                                                                         *)
(* One step is what a handler does between two awaits.  What the scene     *)
(* endpoint checks after the ban is in SceneModeration.                    *)
(***************************************************************************)
EXTENDS Integers, Sequences

CONSTANTS
    Players,      \* wallets
    Devices,      \* device identifiers clients send
    Scenes,       \* LiveKit rooms of scenes
    MessagesRoom, \* PRIVATE_MESSAGES_ROOM_ID
    Durations,    \* how long bans last, in ticks; 0 is for ever
    Offenders,    \* bound: the players moderators ban, and whose past and rooms are looked at
    MaxTime,      \* bound: the clock stops here
    MaxRequests,  \* bound: requests for a token or to ban a player
    MaxFaults     \* bound: calls that fail

NoDevice == "null"

ASSUME ModerationAssumption ==
    /\ Durations \subseteq Nat /\ MessagesRoom \notin Scenes
    /\ Offenders \subseteq Players /\ NoDevice \notin Devices
    /\ {MaxRequests, MaxFaults} \subseteq Nat /\ MaxTime \in Nat \ {0}

Rooms == Scenes \cup {MessagesRoom}
BanIds == 1 .. MaxRequests

\* A row of user_bans; its id is its place in the table.
Ban == [address : Players, device : Devices \cup {NoDevice}, expires : Nat, lifted : Nat]
\* A request for a token, with the concurrent checks that have not ended.
Visit == [id : Nat, player : Players, device : Devices \cup {NoDevice},
          room : Rooms, todo : SUBSET {"connection", "ban"},
          result : {"admitted", "unchecked", "banned", "failed"}, known : SUBSET BanIds]
Token == [player : Players, room : Rooms, known : SUBSET BanIds]
BanRequest == [id : Nat, player : Players, pc : {"check", "device", "insert"},
               duration : Durations, expires : Nat, device : Devices \cup {NoDevice},
               seen : Devices \cup {NoDevice}]
Sweep == [ban : BanIds, pc : {"list", "rooms"}, todo : SUBSET Rooms, found : SUBSET Rooms,
          failed : BOOLEAN]
\* A session in a room: how many bans there were when it began, and the bans its token
\* was asked for in spite of.
Session == [bans : Nat, known : SUBSET BanIds]

VARIABLES
    now,        \* Date.now(), in ticks
    bans,       \* user_bans, in the order of insertion
    connection, \* player_connection_info: device_id by address
    visits,     \* requests for a token in flight
    tokens,     \* tokens that were signed
    inRoom,     \* inRoom[p][r]: the session p has in room r, at most one
    requests,   \* ban requests in flight
    requested,  \* how many of the two there were
    sweeps,     \* removeParticipantFromAllRooms in flight
    faults,     \* faults so far
    \* What happened, for the properties; no step depends on these.
    seen,       \* seen[p]: the devices p was recorded with
    last,       \* last[p]: the one p was last recorded with
    covers,     \* covers[i]: the device ban i must cover: last, when the request read it
    swept       \* bans whose sweep ended with no failure

banVars == <<bans, covers>>
connectionVars == <<connection, seen, last>>
roomVars == <<tokens, inRoom>>
requestVars == <<visits, requests, requested>>
sweepVars == <<sweeps, swept>>
vars == <<now, banVars, connectionVars, roomVars, requestVars, sweepVars, faults>>

Init ==
    /\ now = 1 /\ bans = <<>> /\ covers = <<>>
    /\ connection \in [Players -> Devices \cup {NoDevice}]
    /\ \A p \in Players \ Offenders : connection[p] = NoDevice
    /\ seen = [p \in Players |-> {connection[p]} \ {NoDevice}] /\ last = connection
    /\ visits = {} /\ requests = {} /\ requested = 0
    /\ tokens = {} /\ inRoom = [p \in Players |-> [r \in Rooms |-> {}]]
    /\ sweeps = {} /\ swept = {}
    /\ faults = 0

Spend == faults < MaxFaults /\ faults' = faults + 1

-----------------------------------------------------------------------------
(* Statements of user-moderation-db.ts and player-connection-db.ts         *)

\* activeBanFilter
InForce(i) == bans[i].lifted = 0 /\ (bans[i].expires = 0 \/ bans[i].expires > now)
ActiveBans == {i \in 1 .. Len(bans) : InForce(i)}
isPlayerBanned(p) == \E i \in ActiveBans : bans[i].address = p

\* Variant: a missing device matches bans that have none.
getActiveBanMatchingNull(v) ==
    \E i \in ActiveBans : bans[i].address = v.player \/ bans[i].device = v.device
getActiveBanForConnection(v) ==
    \E i \in ActiveBans :
        bans[i].address = v.player \/ (v.device # NoDevice /\ bans[i].device = v.device)

createBan(q) ==
    Append(bans, [address |-> q.player, device |-> q.device, expires |-> q.expires, lifted |-> 0])

\* Variants: one of the rows is lifted; the two columns of a lift are swapped.
liftOneBan(p) ==
    LET of == {i \in ActiveBans : bans[i].address = p}
    IN  [bans EXCEPT ![CHOOSE i \in of : TRUE].lifted = now]
liftBanSwapped(p) ==
    [i \in 1 .. Len(bans) |-> IF i \in ActiveBans /\ bans[i].address = p
                                THEN [bans[i] EXCEPT !.lifted = p] ELSE bans[i]]
liftBan(p) ==
    [i \in 1 .. Len(bans) |-> IF i \in ActiveBans /\ bans[i].address = p
                                THEN [bans[i] EXCEPT !.lifted = now] ELSE bans[i]]

\* Variant: what is stored is what came.
upsertOverwriting(old, device) == device
\* COALESCE(EXCLUDED.device_id, device_id)
upsertPlayerConnection(old, device) == IF device = NoDevice THEN old ELSE device

-----------------------------------------------------------------------------
(* comms-scene-handler.ts and private-messages/get-token-handler.ts        *)

Moves(v, w) == visits' = (visits \ {v}) \cup {w}
Done(v, check) == [v EXCEPT !.todo = @ \ {check}]

\* The bans in force that are about the player, or about the device.
About(p, device) ==
    {i \in ActiveBans : bans[i].address = p \/ (device # NoDevice /\ covers[i] = device)}

VisitRequested(p, device, room) ==
    /\ requested < MaxRequests /\ requested' = requested + 1
    /\ visits' = visits \cup
         {[id |-> requested, player |-> p, device |-> device, room |-> room,
           todo |-> {"connection", "ban"}, result |-> "admitted",
           known |-> About(p, device)]}
    /\ UNCHANGED <<now, banVars, connectionVars, requests, roomVars, sweepVars, faults>>

\* The two run concurrently.  Recording the connection is best effort.
StoresConnection(v) ==
    /\ "connection" \in v.todo /\ Moves(v, Done(v, "connection"))
    /\ \/ /\ connection' =
               [connection EXCEPT ![v.player] = upsertPlayerConnection(@, v.device)]
          /\ IF v.device = NoDevice THEN UNCHANGED <<seen, last>>
             ELSE /\ seen' = [seen EXCEPT ![v.player] = @ \cup {v.device}]
                  /\ last' = [last EXCEPT ![v.player] = v.device]
          /\ UNCHANGED faults
       \/ Spend /\ UNCHANGED connectionVars
    /\ UNCHANGED <<now, banVars, roomVars, requests, requested, sweepVars>>

\* The check of the ban: when it fails, a scene admits the player and the private
\* messages do not.
ChecksBan(v) ==
    /\ "ban" \in v.todo
    /\ LET w == Done(v, "ban") IN
       \/ /\ getActiveBanForConnection(v)
          /\ Moves(v, [w EXCEPT !.result = "banned"])
          /\ UNCHANGED faults
       \/ ~getActiveBanForConnection(v) /\ Moves(v, w) /\ UNCHANGED faults
       \/ /\ Spend
          /\ Moves(v, [w EXCEPT !.result = IF v.room \in Scenes THEN "unchecked" ELSE "failed"])
    /\ UNCHANGED <<now, banVars, connectionVars, roomVars, requests, requested, sweepVars>>

\* generateCredentials, which calls nobody.
SignsToken(v) ==
    /\ v.todo = {} /\ v.result \in {"admitted", "unchecked"}
    /\ visits' = visits \ {v}
    /\ tokens' = tokens \cup
         {[player |-> v.player, room |-> v.room,
           known |-> IF v.result = "unchecked" THEN {} ELSE v.known]}
    /\ UNCHANGED <<now, banVars, connectionVars, inRoom, requests, requested, sweepVars, faults>>

\* The deny list is fetched at the same time, and leaves no trace but the refusal: any
\* wallet may be on it, and without the list nobody is served.
Refuses(v, denylisted) ==
    /\ v.todo = {} /\ (v.result \in {"banned", "failed"} \/ denylisted)
    /\ visits' = visits \ {v}
    /\ UNCHANGED <<now, banVars, connectionVars, roomVars, requests, requested, sweepVars, faults>>

VisitStep(v) ==
    \/ StoresConnection(v) \/ ChecksBan(v) \/ SignsToken(v)
    \/ \E denylisted \in BOOLEAN : Refuses(v, denylisted)

-----------------------------------------------------------------------------
(* LiveKit and its clients (external)                                      *)

\* A token may be used more than once, as long as it is good: five minutes, which the
\* model leaves open.
Enters(t) ==
    /\ inRoom' = [inRoom EXCEPT ![t.player][t.room] = {[bans |-> Len(bans), known |-> t.known]}]
    /\ UNCHANGED <<now, banVars, connectionVars, tokens, requestVars, sweepVars, faults>>

Leaves(p, r) ==
    /\ inRoom[p][r] # {} /\ inRoom' = [inRoom EXCEPT ![p][r] = {}]
    /\ UNCHANGED <<now, banVars, connectionVars, tokens, requestVars, sweepVars, faults>>

-----------------------------------------------------------------------------
(* user-moderation/component.ts: bans                                      *)

Advances(q, s) == requests' = (requests \ {q}) \cup {s}

BanRequested(p, duration) ==
    /\ requested < MaxRequests /\ requested' = requested + 1
    /\ requests' = requests \cup
         {[id |-> requested, player |-> p, pc |-> "check", duration |-> duration,
           expires |-> 0, device |-> NoDevice, seen |-> NoDevice]}
    /\ UNCHANGED <<now, banVars, connectionVars, visits, roomVars, sweepVars, faults>>

\* A player who is banned already is not banned again.
ChecksBanned(q) ==
    /\ q.pc = "check"
    /\ IF isPlayerBanned(q.player) THEN requests' = requests \ {q}
       ELSE Advances(q, [q EXCEPT !.pc = "device",
                                  !.expires = IF q.duration = 0 THEN 0 ELSE now + q.duration])
    /\ UNCHANGED <<now, banVars, connectionVars, visits, requested, roomVars, sweepVars, faults>>

\* getByAddress; without an answer, the ban is about the address only.
ReadsDevice(q) ==
    /\ q.pc = "device"
    /\ \/ /\ Advances(q, [q EXCEPT !.pc = "insert", !.device = connection[q.player],
                                   !.seen = last[q.player]])
          /\ UNCHANGED faults
       \/ Spend /\ Advances(q, [q EXCEPT !.pc = "insert"])
    /\ UNCHANGED <<now, banVars, connectionVars, visits, requested, roomVars, sweepVars>>

\* The row is there before the sweep begins, and the request does not wait for it.
InsertsBan(q) ==
    /\ q.pc = "insert" /\ requests' = requests \ {q}
    /\ bans' = createBan(q) /\ covers' = Append(covers, q.seen)
    /\ sweeps' = sweeps \cup
         {[ban |-> Len(bans) + 1, pc |-> "list", todo |-> {}, found |-> {}, failed |-> FALSE]}
    /\ UNCHANGED <<now, connectionVars, visits, requested, roomVars, swept, faults>>

BanFails(q) ==
    /\ q.pc \in {"check", "insert"} /\ Spend /\ requests' = requests \ {q}
    /\ UNCHANGED <<now, banVars, connectionVars, visits, requested, roomVars, sweepVars>>

BanStep(q) == ChecksBanned(q) \/ ReadsDevice(q) \/ InsertsBan(q) \/ BanFails(q)

\* One statement; without an active ban the request is refused and changes nothing.
LiftsBan(p) ==
    /\ isPlayerBanned(p) /\ bans' = liftBan(p)
    /\ UNCHANGED <<now, covers, connectionVars, roomVars, requestVars, sweepVars, faults>>

-----------------------------------------------------------------------------
(* removeParticipantFromAllRooms of livekit.ts                             *)

Swept(s) == bans[s.ban].address
Continues(s, t) ==
    IF t.pc = "rooms" /\ t.todo = {} /\ t.found = {}
      THEN /\ sweeps' = sweeps \ {s}
           /\ swept' = IF t.failed THEN swept ELSE swept \cup {t.ban}
      ELSE sweeps' = (sweeps \ {s}) \cup {t} /\ UNCHANGED swept

Occupied == {r \in Rooms : \E p \in Players : inRoom[p][r] # {}}

\* listRooms: rooms nobody is in make no difference.  A failure is logged.
SweepLists(s) ==
    /\ s.pc = "list"
    /\ \/ Continues(s, [s EXCEPT !.pc = "rooms", !.todo = Occupied]) /\ UNCHANGED faults
       \/ Spend /\ Continues(s, [s EXCEPT !.pc = "rooms", !.failed = TRUE])
    /\ UNCHANGED <<now, banVars, connectionVars, roomVars, requestVars>>

\* Variant: the player is in one room at most.
LooksOnce(s, r) == [s EXCEPT !.todo = {}, !.found = @ \cup {r}]
\* A room where the player is.
Found(s, r) == [s EXCEPT !.todo = @ \ {r}, !.found = @ \cup {r}]

\* The rooms are looked into concurrently: listParticipants ...
SweepLooks(s, r) ==
    /\ r \in s.todo
    /\ \/ inRoom[Swept(s)][r] # {} /\ Continues(s, Found(s, r)) /\ UNCHANGED faults
       \/ inRoom[Swept(s)][r] = {} /\ Continues(s, [s EXCEPT !.todo = @ \ {r}]) /\ UNCHANGED faults
       \/ Spend /\ Continues(s, [s EXCEPT !.todo = @ \ {r}, !.failed = TRUE])
    /\ UNCHANGED <<now, banVars, connectionVars, roomVars, requestVars>>

\* ... and removeParticipant, for whom it is no error that the player has left.
SweepRemoves(s, r) ==
    /\ r \in s.found
    /\ \/ /\ inRoom' = [inRoom EXCEPT ![Swept(s)][r] = {}]
          /\ Continues(s, [s EXCEPT !.found = @ \ {r}]) /\ UNCHANGED faults
       \/ /\ Spend /\ Continues(s, [s EXCEPT !.found = @ \ {r}, !.failed = TRUE])
          /\ UNCHANGED inRoom
    /\ UNCHANGED <<now, banVars, connectionVars, tokens, requestVars>>

SweepStep(s) == SweepLists(s) \/ \E r \in Rooms : SweepLooks(s, r) \/ SweepRemoves(s, r)

-----------------------------------------------------------------------------
Tick ==
    /\ now < MaxTime /\ now' = now + 1
    /\ UNCHANGED <<banVars, connectionVars, roomVars, requestVars, sweepVars, faults>>

Next ==
    \/ Tick
    \/ \E p \in Offenders : \/ LiftsBan(p)
                            \/ \E d \in Durations : BanRequested(p, d)
                            \/ \E r \in Rooms : Leaves(p, r)
    \/ \E p \in Players, d \in Devices \cup {NoDevice}, r \in Rooms : VisitRequested(p, d, r)
    \/ \E v \in visits : VisitStep(v)
    \/ \E t \in tokens : t.player \in Offenders /\ Enters(t)
    \/ \E q \in requests : BanStep(q)
    \/ \E s \in sweeps : SweepStep(s)

Spec == Init /\ [][Next]_vars

-----------------------------------------------------------------------------
(* Properties                                                              *)

TypeOK ==
    /\ now \in 1 .. MaxTime
    /\ bans \in Seq(Ban) /\ Len(bans) <= requested
    /\ covers \in Seq(Devices \cup {NoDevice}) /\ Len(covers) = Len(bans)
    /\ connection \in [Players -> Devices \cup {NoDevice}]
    /\ seen \in [Players -> SUBSET Devices] /\ last \in [Players -> Devices \cup {NoDevice}]
    /\ visits \subseteq Visit
    /\ tokens \subseteq Token /\ inRoom \in [Players -> [Rooms -> SUBSET Session]]
    /\ requests \subseteq BanRequest /\ requested \in 0 .. MaxRequests
    /\ sweeps \subseteq Sweep /\ swept \subseteq BanIds
    /\ faults \in 0 .. MaxFaults

\* A ban that was there when a player asked for a token, and still is, keeps the player
\* out, and keeps anybody out who comes with the device the banned player was last
\* recorded with, though requests without a device came since.  A check that fails lets
\* a player into a scene, never into the private messages.
TokensRespectBans ==
    [][\A v \in visits : SignsToken(v) =>
         \A i \in v.known : InForce(i) => v.result = "unchecked" /\ v.room # MessagesRoom]_vars

\* Nobody is refused as banned but a banned player, and whoever comes with a device that
\* a banned player was seen with.
OnlyBannedAreRefused ==
    [][\A v \in visits : ChecksBan(v) =>
         \A w \in visits' : w.id = v.id /\ w.result = "banned" =>
            \E i \in ActiveBans :
               bans[i].address = v.player \/ v.device \in seen[bans[i].address]]_vars

\* When a ban is lifted, no ban of the player stays in force, not even that of a second
\* moderator who banned the player at the same time.
LiftsAreComplete ==
    [][\A p \in Players : LiftsBan(p) => ~isPlayerBanned(p)']_vars

\* After a ban and its sweep, the player is in no room, unless he came in later and with a
\* token he asked for before the ban, or that was handed out unchecked.
SweptPlayersAreOut ==
    \A i \in swept : InForce(i) =>
        \A r \in Rooms : \A session \in inRoom[bans[i].address][r] :
            session.bans >= i /\ i \notin session.known
=============================================================================
