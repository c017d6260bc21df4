---------------------------- MODULE StreamAccess ----------------------------
(***************************************************************************)
(* Streaming to a scene: the table scene_stream_access, the RTMP ingresses *)
(* LiveKit keeps for the scenes' rooms, the requests that create, reset    *)
(* and remove an access, the webhooks that say when a stream starts and    *)
(* ends, and the three jobs that revoke accesses.                          *)
(*                                                                         *)
(* A unique index allows a place one active row, so the table is a         *)
(* function from places; rows that are not active are read by nobody.  A   *)
(* scene that is deployed again has another room, and LiveKit keeps an     *)
(* ingress per room.  One step is what a handler or a job does between two *)
(* awaits.                                                                 *)
(***************************************************************************)
EXTENDS Integers, FiniteSets

CONSTANTS
    Places,        \* places that stream
    Deployments,   \* deployments of their scenes; each has a LiveKit room
    KeyTTL,        \* FOUR_DAYS, in ticks
    StreamTTL,     \* FOUR_HOURS
    JobLimit,      \* LIMIT of the two queries of expired rows (100)
    ActiveUntil,   \* bound: users act, and LiveKit delivers late, only until this time
    MaxTime,       \* bound: the clock stops here
    MaxRequests,   \* bound: requests to create, reset or remove an access
    MaxStreams,    \* bound: how often a streamer connects
    MaxFaults      \* bound: calls that fail, events delivered twice

ASSUME StreamAssumption ==
    /\ {KeyTTL, StreamTTL, ActiveUntil, MaxStreams, MaxFaults} \subseteq Nat
    /\ {JobLimit, MaxTime, MaxRequests} \subseteq Nat \ {0}

Rooms == Places \X Deployments
NoRoom == <<>>     \* SQL NULL
NoExpiry == 0      \* SQL NULL

\* An active row; streaming_key and ingress_id come from the same ingress.
Row == [id : Nat, ingress : Nat, room : Rooms \cup {NoRoom}, created : Nat, expires : Nat,
        streaming : BOOLEAN, start : Nat]
NoAccess == [id |-> 0, ingress |-> 0, room |-> NoRoom, created |-> 0, expires |-> NoExpiry,
             streaming |-> FALSE, start |-> 0]
\* A row older than the columns expiration_time and, added after it, room_id.
LegacyAccess == [NoAccess EXCEPT !.id = 1, !.ingress = 1]

Request == [id : Nat, kind : {"link", "add", "reset", "remove"}, place : Places, room : Rooms,
            pc : {"removeIngress", "removeAccess", "listIngress", "createIngress", "addAccess"},
            ingress : Nat]
Event == [kind : {"started", "ended"}, ingress : Nat]
\* What a job has on its list, and where in its loop it is.
Listed == [place : Places, ingress : Nat]
Job == [todo : SUBSET Listed, revoking : SUBSET Listed]
IdleJob == [todo |-> {}, revoking |-> {}]

VARIABLES
    now,        \* Date.now(), in ticks
    access,     \* access[p]: the active row of place p, or NoAccess
    ingresses,  \* the ingresses LiveKit has: <<id, room>>
    made,       \* ingresses LiveKit ever made
    given,      \* ingresses whose key was given out
    running,    \* ids of the ingresses somebody streams to
    streams,    \* how often a streamer connected
    webhooks,   \* ingress events LiveKit has yet to deliver
    starting,   \* ingresses whose started event found no stream and will set it
    handlers,   \* requests in flight, past their first read
    requests,   \* requests so far
    streamJob,  \* streaming-ttl-checker, every minute
    keyJob,     \* streaming-key-ttl-checker, every ten minutes
    placeJob,   \* places-checker, every week
    faults      \* faults so far

livekitVars == <<ingresses, made, given, running, streams>>
eventVars == <<webhooks, starting>>
requestVars == <<handlers, requests>>
jobVars == <<streamJob, keyJob, placeJob>>
vars == <<now, access, livekitVars, eventVars, requestVars, jobVars, faults>>

\* The table is empty, or still has a row from before its migrations.
StartsEmpty ==
    /\ access = [p \in Places |-> NoAccess]
    /\ ingresses = {} /\ made = 0 /\ given = {} /\ requests = 0
StartsMigrated(p, d) ==
    /\ access = [q \in Places |-> IF q = p THEN LegacyAccess ELSE NoAccess]
    /\ ingresses = {<<1, <<p, d>>>>} /\ made = 1 /\ given = {1} /\ requests = 1

Init ==
    /\ now = 1
    /\ StartsEmpty \/ \E p \in Places, d \in Deployments : StartsMigrated(p, d)
    /\ running = {} /\ streams = 0
    /\ webhooks = {} /\ starting = {}
    /\ handlers = {}
    /\ streamJob = IdleJob /\ keyJob = IdleJob /\ placeJob = IdleJob
    /\ faults = 0

Spend == faults < MaxFaults /\ faults' = faults + 1

-----------------------------------------------------------------------------
(* Statements of scene-stream-access-manager.ts                            *)

IsActive(p) == access[p].id # 0

\* addAccess: one transaction that deactivates the place's row and inserts another.
addAccess(h) ==
    access' = [access EXCEPT ![h.place] =
        [id |-> h.id, ingress |-> h.ingress,
         room |-> IF h.kind = "reset" THEN NoRoom ELSE h.room,
         created |-> now, expires |-> now + KeyTTL, streaming |-> FALSE, start |-> 0]]

\* removeAccess and removeAccessByPlaceIds.
removeAccess(places) == access' = [p \in Places |-> IF p \in places THEN NoAccess ELSE access[p]]

\* The active rows with an ingress.
With(i) == {p \in Places : IsActive(p) /\ access[p].ingress = i}

\* Variant: the time of the start is not kept.
startStreamingUntimed(i) ==
    access' = [p \in Places |->
        IF p \in With(i) THEN [access[p] EXCEPT !.streaming = TRUE] ELSE access[p]]
startStreaming(i) ==
    access' = [p \in Places |->
        IF p \in With(i) THEN [access[p] EXCEPT !.streaming = TRUE, !.start = now] ELSE access[p]]
stopStreaming(i) ==
    access' = [p \in Places |->
        IF p \in With(i) THEN [access[p] EXCEPT !.streaming = FALSE] ELSE access[p]]
isStreaming(i) == \E p \in With(i) : access[p].streaming

\* Variant: the row of the place, whatever its ingress.
killStreamingOfPlace(l) == removeAccess({l.place})
\* The row with the ingress, whatever its place.
killStreaming(l) == removeAccess(With(l.ingress))

Entries(places) == {[place |-> p, ingress |-> access[p].ingress] : p \in places}

\* What LIMIT leaves of a result.
Limited(rows) == {b \in SUBSET rows : \/ b = rows /\ Cardinality(b) <= JobLimit
                                      \/ Cardinality(b) = JobLimit}

getExpiredStreamAccesses ==
    Entries({p \in Places : IsActive(p) /\ access[p].streaming /\ now - access[p].start > StreamTTL})
\* ORDER BY streaming_start_time DESC: the latest streams come first.
LatestExpiredStreams ==
    {b \in Limited(getExpiredStreamAccesses) :
        \A l \in b : \A m \in getExpiredStreamAccesses \ b :
            access[m.place].start <= access[l.place].start}

KeyExpired(row) ==
    \/ row.expires # NoExpiry /\ row.expires < now
    \/ row.expires = NoExpiry /\ row.created < now - KeyTTL

\* Variant: only keys that were never used.
getExpiredUnusedKeys ==
    Entries({p \in Places : IsActive(p) /\ access[p].start = 0 /\ KeyExpired(access[p])})
\* Variant: the last instant is outside.
getExpiringStreamingKeys ==
    Entries({p \in Places : IsActive(p) /\ ~access[p].streaming /\ access[p].expires <= now})
getExpiredStreamingKeys ==
    Entries({p \in Places : IsActive(p) /\ ~access[p].streaming /\ KeyExpired(access[p])})

-----------------------------------------------------------------------------
(* Who gets in with an access: cast.ts and get-stream-info-handler.ts      *)

Expired(row) == row.expires # NoExpiry /\ now > row.expires
\* validateStreamerToken, on the row of the key.
StreamerEnters(row) == ~Expired(row) /\ row.room # NoRoom
\* generateWatcherCredentialsByLocation, on the latest row of the place.
WatcherEnters(row) == ~Expired(row) /\ row.room # NoRoom
\* generatePresentationBotToken, on the row of the key.
BotEnters(row) == ~Expired(row) /\ row.room # NoRoom
\* getStreamInfoHandler, on the row of the key.
InfoIsGiven(row) == ~(row.expires # NoExpiry /\ row.expires < now) /\ row.room # NoRoom
\* createStreamAccess gives out the key again.
canReuse(row, room) == row.room = room /\ (row.expires = NoExpiry \/ row.expires > now)

-----------------------------------------------------------------------------
(* LiveKit's ingresses (external)                                          *)

IngressesOf(room) == {i \in 1 .. made : <<i, room>> \in ingresses}
Exists(i) == \E room \in Rooms : <<i, room>> \in ingresses

\* deleteIngress: a stream that runs through it ends.
Deleted(i) ==
    /\ ingresses' = {x \in ingresses : x[1] # i}
    /\ running' = running \ {i}
    /\ webhooks' = IF i \in running
                     THEN webhooks \cup {[kind |-> "ended", ingress |-> i]} ELSE webhooks

\* A streamer connects with the key of an ingress, or stops.
StreamStarts(i) ==
    /\ now <= ActiveUntil /\ streams < MaxStreams /\ i \in given /\ Exists(i)
    /\ i \notin running
    /\ running' = running \cup {i} /\ streams' = streams + 1
    /\ webhooks' = webhooks \cup {[kind |-> "started", ingress |-> i]}
    /\ UNCHANGED <<now, access, ingresses, made, given, starting, requestVars, jobVars, faults>>

StreamEnds(i) ==
    /\ i \in running /\ running' = running \ {i}
    /\ webhooks' = webhooks \cup {[kind |-> "ended", ingress |-> i]}
    /\ UNCHANGED <<now, access, ingresses, made, given, streams, starting, requestVars, jobVars, faults>>

-----------------------------------------------------------------------------
(* Webhooks, in any order: ingress-started-handler and ingress-ended       *)

\* An event that was answered late is delivered again.
Answered(e) ==
    \/ webhooks' = webhooks \ {e} /\ UNCHANGED faults
    \/ Spend /\ UNCHANGED webhooks

IngressStarted(i) ==
    /\ [kind |-> "started", ingress |-> i] \in webhooks
    /\ Answered([kind |-> "started", ingress |-> i])
    /\ starting' = IF isStreaming(i) THEN starting ELSE starting \cup {i}
    /\ UNCHANGED <<now, access, livekitVars, requestVars, jobVars>>

SetsStreaming(i) ==
    /\ i \in starting /\ starting' = starting \ {i}
    /\ startStreaming(i)
    /\ UNCHANGED <<now, livekitVars, webhooks, requestVars, jobVars, faults>>

IngressEnded(i) ==
    /\ [kind |-> "ended", ingress |-> i] \in webhooks
    /\ Answered([kind |-> "ended", ingress |-> i])
    /\ stopStreaming(i)
    /\ UNCHANGED <<now, livekitVars, starting, requestVars, jobVars>>

-----------------------------------------------------------------------------
(* Requests of owners and admins                                           *)

Starts(kind, p, room, pc) ==
    /\ now <= ActiveUntil /\ requests < MaxRequests /\ requests' = requests + 1
    /\ handlers' = handlers \cup {[id |-> requests + 1, kind |-> kind, place |-> p,
                                   room |-> room, pc |-> pc, ingress |-> access[p].ingress]}
    /\ UNCHANGED <<now, access, livekitVars, eventVars, jobVars, faults>>

\* createStreamAccess: a key that cannot be given out again is replaced.
LinkRequested(p, room) == ~canReuse(access[p], room) /\ Starts("link", p, room, "listIngress")
\* The add handler: any active row is given out, and changes nothing.
AddRequested(p, room) == ~IsActive(p) /\ Starts("add", p, room, "listIngress")
\* Reset and remove need an active row.
ResetRequested(p, room) == IsActive(p) /\ Starts("reset", p, room, "removeIngress")
RemoveRequested(p, room) == IsActive(p) /\ Starts("remove", p, room, "removeIngress")

Moves(h, pc) == handlers' = (handlers \ {h}) \cup {[h EXCEPT !.pc = pc]}
Ends(h) == handlers' = handlers \ {h}

\* removeIngress tolerates an ingress that is gone.
RemovesIngress(h) ==
    /\ h.pc = "removeIngress" /\ Moves(h, "removeAccess")
    /\ Deleted(h.ingress)
    /\ UNCHANGED <<now, access, made, given, streams, starting, requests, jobVars, faults>>

RemovesAccess(h) ==
    /\ h.pc = "removeAccess"
    /\ removeAccess({h.place})
    /\ IF h.kind = "reset" THEN Moves(h, "listIngress") ELSE Ends(h)
    /\ UNCHANGED <<now, livekitVars, eventVars, requests, jobVars, faults>>

\* getOrCreateIngress: one of the ingresses of the room ...
ListsIngress(h) ==
    /\ h.pc = "listIngress"
    /\ IF IngressesOf(h.room) = {} THEN Moves(h, "createIngress")
       ELSE \E i \in IngressesOf(h.room) :
              handlers' = (handlers \ {h}) \cup {[h EXCEPT !.pc = "addAccess", !.ingress = i]}
    /\ UNCHANGED <<now, access, livekitVars, eventVars, requests, jobVars, faults>>

\* ... or a new one.
CreatesIngress(h) ==
    /\ h.pc = "createIngress"
    /\ made' = made + 1 /\ ingresses' = ingresses \cup {<<made + 1, h.room>>}
    /\ handlers' = (handlers \ {h}) \cup {[h EXCEPT !.pc = "addAccess", !.ingress = made + 1]}
    /\ UNCHANGED <<now, access, given, running, streams, eventVars, requests, jobVars, faults>>

AddsAccess(h) ==
    /\ h.pc = "addAccess" /\ Ends(h)
    /\ addAccess(h)
    /\ given' = given \cup {h.ingress}
    /\ UNCHANGED <<now, ingresses, made, running, streams, eventVars, requests, jobVars, faults>>

RequestFails(h) ==
    /\ Spend /\ Ends(h)
    /\ UNCHANGED <<now, access, livekitVars, eventVars, requests, jobVars>>

RequestStep(h) ==
    \/ RemovesIngress(h) \/ RemovesAccess(h) \/ ListsIngress(h) \/ CreatesIngress(h)
    \/ AddsAccess(h) \/ RequestFails(h)

-----------------------------------------------------------------------------
(* The jobs                                                                *)

\* An element is taken from the list: its ingress is removed, and its access is then to
\* be revoked; when LiveKit fails, nothing is done about it until the job runs again.
Takes(job, l) == /\ Deleted(l.ingress) /\ UNCHANGED faults
                 /\ job' = [todo |-> job.todo \ {l}, revoking |-> job.revoking \cup {l}]
Skips(job, l) == /\ Spend /\ UNCHANGED <<ingresses, running, webhooks>>
                 /\ job' = [job EXCEPT !.todo = @ \ {l}]

\* A run starts from its query and the places of what it found, or ends there if one fails.
Lists(job, results) ==
    \/ UNCHANGED faults /\ \E batch \in results : job' = [todo |-> batch, revoking |-> {}]
    \/ Spend /\ UNCHANGED job

\* streaming-ttl-checker: isProcessing keeps it from overlapping itself.
StreamJobLists ==
    /\ streamJob = IdleJob /\ getExpiredStreamAccesses # {}
    /\ Lists(streamJob, LatestExpiredStreams)
    /\ UNCHANGED <<now, access, livekitVars, eventVars, requestVars, keyJob, placeJob>>

StreamJobRemoves(l) ==
    /\ l \in streamJob.todo /\ streamJob.revoking = {}
    /\ Takes(streamJob, l) \/ Skips(streamJob, l)
    /\ UNCHANGED <<now, access, made, given, streams, starting, requestVars, keyJob, placeJob>>

StreamJobKills(l) ==
    /\ l \in streamJob.revoking
    /\ \/ killStreaming(l) /\ UNCHANGED faults
       \/ Spend /\ UNCHANGED access
    /\ streamJob' = [streamJob EXCEPT !.revoking = {}]
    /\ UNCHANGED <<now, livekitVars, eventVars, requestVars, keyJob, placeJob>>

\* streaming-key-ttl-checker: it revokes what the place has by then.
KeyJobLists ==
    /\ keyJob = IdleJob /\ getExpiredStreamingKeys # {}
    /\ Lists(keyJob, Limited(getExpiredStreamingKeys))
    /\ UNCHANGED <<now, access, livekitVars, eventVars, requestVars, streamJob, placeJob>>

KeyJobRemoves(l) ==
    /\ l \in keyJob.todo /\ keyJob.revoking = {}
    /\ Takes(keyJob, l) \/ Skips(keyJob, l)
    /\ UNCHANGED <<now, access, made, given, streams, starting, requestVars, streamJob, placeJob>>

KeyJobRevokes(l) ==
    /\ l \in keyJob.revoking
    /\ \/ removeAccess({l.place}) /\ UNCHANGED faults
       \/ Spend /\ UNCHANGED access
    /\ keyJob' = [keyJob EXCEPT !.revoking = {}]
    /\ UNCHANGED <<now, livekitVars, eventVars, requestVars, streamJob, placeJob>>

\* places-checker: of disabled places, first all ingresses, then the accesses of those
\* where no removal failed.  Any place may be disabled.
PlaceJobLists(disabled) ==
    /\ placeJob = IdleJob /\ now <= ActiveUntil
    /\ \E p \in disabled : IsActive(p)
    /\ placeJob' = [todo |-> {[place |-> p, ingress |-> 0] : p \in disabled}, revoking |-> {}]
    /\ UNCHANGED <<now, access, livekitVars, eventVars, requestVars, streamJob, keyJob, faults>>

\* getActiveIngressIds; a place without an access has no ingress to remove.
PlaceJobReads(l) ==
    /\ l \in placeJob.todo /\ l.ingress = 0
    /\ LET read == {[l EXCEPT !.ingress = access[l.place].ingress]}
           rest == placeJob.todo \ {l}
       IN  placeJob' = IF IsActive(l.place) THEN [placeJob EXCEPT !.todo = rest \cup read]
                       ELSE [todo |-> rest, revoking |-> placeJob.revoking \cup {l}]
    /\ UNCHANGED <<now, access, livekitVars, eventVars, requestVars, streamJob, keyJob, faults>>

PlaceJobRemoves(l) ==
    /\ l \in placeJob.todo /\ l.ingress # 0
    /\ Takes(placeJob, l) \/ Skips(placeJob, l)
    /\ UNCHANGED <<now, access, made, given, streams, starting, requestVars, streamJob, keyJob>>

PlaceJobRevokes ==
    /\ placeJob.todo = {} /\ placeJob.revoking # {} /\ placeJob' = IdleJob
    /\ \/ removeAccess({l.place : l \in placeJob.revoking}) /\ UNCHANGED faults
       \/ Spend /\ UNCHANGED access
    /\ UNCHANGED <<now, livekitVars, eventVars, requestVars, streamJob, keyJob>>

StreamJobStep ==
    \/ StreamJobLists
    \/ \E l \in streamJob.todo \cup streamJob.revoking : StreamJobRemoves(l) \/ StreamJobKills(l)
KeyJobStep ==
    \/ KeyJobLists
    \/ \E l \in keyJob.todo \cup keyJob.revoking : KeyJobRemoves(l) \/ KeyJobRevokes(l)
PlaceJobStep ==
    \/ PlaceJobRevokes
    \/ \E disabled \in SUBSET Places : PlaceJobLists(disabled)
    \/ \E l \in placeJob.todo : PlaceJobReads(l) \/ PlaceJobRemoves(l)

-----------------------------------------------------------------------------
\* After ActiveUntil, time waits for what is under way.
Tick ==
    /\ now < MaxTime /\ now' = now + 1
    /\ now >= ActiveUntil => webhooks = {} /\ starting = {} /\ handlers = {}
    /\ UNCHANGED <<access, livekitVars, eventVars, requestVars, jobVars, faults>>

Deliver == \E i \in 1 .. made : IngressStarted(i) \/ SetsStreaming(i) \/ IngressEnded(i)

Next ==
    \/ Tick \/ Deliver
    \/ StreamJobStep \/ KeyJobStep \/ PlaceJobStep
    \/ \E i \in 1 .. made : StreamStarts(i) \/ StreamEnds(i)
    \/ \E p \in Places, d \in Deployments :
         \/ LinkRequested(p, <<p, d>>) \/ AddRequested(p, <<p, d>>)
         \/ ResetRequested(p, <<p, d>>) \/ RemoveRequested(p, <<p, d>>)
    \/ \E h \in handlers : RequestStep(h)

Spec == Init /\ [][Next]_vars

\* Time passes, LiveKit delivers, the process runs its requests, and the jobs run again
\* and again.
Fairness ==
    /\ WF_vars(Tick) /\ WF_vars(Deliver) /\ WF_vars(\E h \in handlers : RequestStep(h))
    /\ WF_vars(StreamJobStep) /\ WF_vars(KeyJobStep)

FairSpec == Spec /\ Fairness

-----------------------------------------------------------------------------
(* Properties                                                              *)

\* Whatever streams has a time it started at: the limit is counted from it.
TypeOK ==
    /\ now \in 1 .. MaxTime
    /\ access \in [Places -> Row] /\ \A p \in Places : access[p].streaming => access[p].start # 0
    /\ ingresses \subseteq (1 .. made) \X Rooms /\ made \in Nat
    /\ given \subseteq 1 .. made /\ running \subseteq 1 .. made
    /\ streams \in 0 .. MaxStreams
    /\ webhooks \subseteq Event /\ starting \subseteq 1 .. made
    /\ handlers \subseteq Request /\ requests \in 0 .. MaxRequests
    /\ {streamJob, keyJob, placeJob} \subseteq Job
    /\ faults \in 0 .. MaxFaults

\* The four ways in agree on whether an access is good, at its last instant included; a
\* link gives out no key they refuse, and the job of expired keys lists none they accept.
ExpiryTestsAgree ==
    \A p \in Places : IsActive(p) =>
        LET row == access[p] IN
        /\ StreamerEnters(row) = WatcherEnters(row)
        /\ StreamerEnters(row) = BotEnters(row)
        /\ StreamerEnters(row) = InfoIsGiven(row)
        /\ \A d \in Deployments : canReuse(row, <<p, d>>) => StreamerEnters(row)
        /\ (\E l \in getExpiredStreamingKeys : l.place = p) => ~StreamerEnters(row)

\* The job that ends long streams revokes only rows whose ingress LiveKit no longer has,
\* however the access was replaced since the job listed it: a new key still works.
KilledStreamsAreOff ==
    [][(\E l \in streamJob.revoking : StreamJobKills(l)) => \A p \in Places :
         IsActive(p) /\ ~IsActive(p)' => ~Exists(access[p].ingress)]_vars

\* Every access ends: it is replaced or removed, its stream exceeds the limit, or its key
\* expires, whatever fails or arrives late.
AccessesEnd ==
    \A p \in Places : \A n \in 1 .. MaxRequests : access[p].id = n ~> access[p].id # n
=============================================================================
