-------------------------- MODULE StreamAccessProofs --------------------------
(***************************************************************************)
(* Proofs about StreamAccess, for any places, deployments, limits and      *)
(* bounds:                                                                 *)
(*   - the variables keep their types, and what streams has a time it      *)
(*     started at (TypeCorrect);                                           *)
(*   - the tests of the expiration time agree (ExpiryTestsRight);          *)
(*   - the job that ends long streams revokes only rows whose ingress is   *)
(*     gone (KilledOff).                                                   *)
(* Neither the types nor the last one are inductive: both need to know     *)
(* that no row, request or job names an ingress yet to be made.  The       *)
(* second needs that a row without an expiration time, left from before    *)
(* the column, has no room either.                                         *)
(***************************************************************************)
EXTENDS StreamAccess, TLAPS

\* Only ingresses that were made are named, and a request is about to store one.
IngressesKnown ==
    /\ \A p \in Places : access[p].ingress <= made
    /\ \A h \in handlers : h.ingress <= made /\ (h.pc = "addAccess" => h.ingress >= 1)
    /\ \A l \in streamJob.todo \cup streamJob.revoking : l.ingress <= made

\* What the job of long streams is about to revoke lost its ingress.
RevokedAreOff == \A l \in streamJob.revoking : ~Exists(l.ingress)

\* A row without an expiration time has no room, and so lets nobody in.
RoomsAreDated == \A p \in Places : access[p].expires = NoExpiry => access[p].room = NoRoom

StreamInv == TypeOK /\ IngressesKnown /\ RevokedAreOff /\ RoomsAreDated

-----------------------------------------------------------------------------
(* Types of the parts                                                      *)

LEMMA NumbersKnown ==
  ASSUME TypeOK
  PROVE  /\ now \in Nat /\ now >= 1 /\ made \in Nat /\ KeyTTL \in Nat /\ StreamTTL \in Nat
         /\ \A p \in Places : access[p] \in Row /\ access[p].ingress \in Nat
         /\ \A h \in handlers : h \in Request /\ h.ingress \in Nat
         /\ streamJob \in Job /\ keyJob \in Job /\ placeJob \in Job
  BY StreamAssumption DEF TypeOK, Row, Request

LEMMA NoAccessIsRow ==
  NoAccess \in Row /\ ~NoAccess.streaming /\ NoAccess.ingress = 0 /\ NoAccess.room = NoRoom
  BY DEF NoAccess, NoExpiry, Row

LEMMA LegacyAccessIsRow ==
  /\ LegacyAccess \in Row /\ ~LegacyAccess.streaming
  /\ LegacyAccess.ingress = 1 /\ LegacyAccess.room = NoRoom
  BY DEF LegacyAccess, NoAccess, NoExpiry, Row

LEMMA SpendTypes == ASSUME TypeOK, Spend PROVE faults' \in 0 .. MaxFaults
  BY StreamAssumption DEF TypeOK, Spend

\* What a change of the table has to keep.
RowsTyped ==
    /\ access \in [Places -> Row]
    /\ \A p \in Places : (access[p].streaming => access[p].start # 0) /\ access[p].ingress <= made
    /\ RoomsAreDated

LEMMA RowsKept == ASSUME StreamInv, UNCHANGED <<access, made>> PROVE RowsTyped'
  BY DEF StreamInv, TypeOK, IngressesKnown, RowsTyped, RoomsAreDated

LEMMA RemoveAccessTypes ==
  ASSUME StreamInv, NEW places, removeAccess(places), UNCHANGED made PROVE RowsTyped'
  <1>1. \A p \in Places : access'[p] = NoAccess \/ access'[p] = access[p]
    BY DEF removeAccess
  <1>2. access' \in [Places -> Row]
    BY NoAccessIsRow DEF removeAccess, StreamInv, TypeOK
  <1> QED
    BY <1>1, <1>2, NoAccessIsRow, NumbersKnown
    DEF RowsTyped, StreamInv, TypeOK, IngressesKnown, RoomsAreDated

LEMMA StreamingTypes ==
  ASSUME StreamInv, NEW i, startStreaming(i) \/ stopStreaming(i), UNCHANGED made
  PROVE  RowsTyped'
  <1>1. ASSUME NEW p \in Places
        PROVE  /\ [access[p] EXCEPT !.streaming = TRUE, !.start = now] \in Row
               /\ [access[p] EXCEPT !.streaming = FALSE] \in Row
    BY NumbersKnown DEF StreamInv, Row
  <1>2. CASE startStreaming(i)
    <2>1. access' \in [Places -> Row]
      BY <1>1, <1>2 DEF startStreaming, StreamInv, TypeOK
    <2>2. ASSUME NEW p \in Places
          PROVE  /\ access'[p].ingress = access[p].ingress
                 /\ access'[p].room = access[p].room /\ access'[p].expires = access[p].expires
                 /\ access'[p].streaming => access'[p].start # 0
      <3>1. now # 0 /\ access[p] \in Row /\ (access[p].streaming => access[p].start # 0)
        BY NumbersKnown DEF StreamInv, TypeOK
      <3>2. \/ access'[p] = [access[p] EXCEPT !.streaming = TRUE, !.start = now]
            \/ access'[p] = access[p]
        BY <1>2 DEF startStreaming
      <3> QED  BY <3>1, <3>2 DEF Row
    <2> QED
      BY <2>1, <2>2 DEF RowsTyped, StreamInv, IngressesKnown, RoomsAreDated
  <1>3. CASE stopStreaming(i)
    <2>1. access' \in [Places -> Row]
      BY <1>1, <1>3 DEF stopStreaming, StreamInv, TypeOK
    <2>2. ASSUME NEW p \in Places
          PROVE  /\ access'[p].ingress = access[p].ingress
                 /\ access'[p].room = access[p].room /\ access'[p].expires = access[p].expires
                 /\ access'[p].streaming => access'[p].start # 0
      BY <1>3, NumbersKnown DEF stopStreaming, StreamInv, TypeOK, Row
    <2> QED
      BY <2>1, <2>2 DEF RowsTyped, StreamInv, IngressesKnown, RoomsAreDated
  <1> QED  BY <1>2, <1>3

LEMMA DeletedTypes ==
  ASSUME TypeOK, NEW i \in Nat, Deleted(i), UNCHANGED made
  PROVE  /\ ingresses' \subseteq (1 .. made') \X Rooms /\ running' \subseteq 1 .. made'
         /\ webhooks' \subseteq Event
  BY DEF TypeOK, Deleted, Event

\* No ingress comes back, and a deleted one is gone.
LEMMA DeletedIsOff ==
  ASSUME NEW i, Deleted(i)
  PROVE  ~Exists(i)' /\ \A j : ~Exists(j) => ~Exists(j)'
  BY DEF Deleted, Exists

-----------------------------------------------------------------------------
(* One lemma per kind of step                                              *)

LEMMA InvInit == Init => StreamInv
  <1> SUFFICES ASSUME Init PROVE StreamInv  OBVIOUS
  <1>1. IdleJob \in Job /\ IdleJob.todo = {} /\ IdleJob.revoking = {}
    BY DEF IdleJob, Job
  <1>2. {streamJob, keyJob, placeJob} \subseteq Job
    BY <1>1 DEF Init
  <1> DEFINE TableTyped ==
               /\ access \in [Places -> Row] /\ made \in Nat
               /\ \A p \in Places : /\ ~access[p].streaming /\ access[p].ingress <= made
                                    /\ access[p].room = NoRoom
               /\ ingresses \subseteq (1 .. made) \X Rooms /\ given \subseteq 1 .. made
               /\ requests \in 0 .. MaxRequests
  <1>3. TableTyped
    <2>1. CASE StartsEmpty
      BY <2>1, NoAccessIsRow, StreamAssumption DEF StartsEmpty
    <2>2. ASSUME NEW p \in Places, NEW d \in Deployments, StartsMigrated(p, d)
          PROVE  TableTyped
      <3>1. /\ \A q \in Places : access[q] \in {LegacyAccess, NoAccess}
            /\ access \in [Places -> Row] /\ made = 1
        BY <2>2, NoAccessIsRow, LegacyAccessIsRow DEF StartsMigrated
      <3>2. \A q \in Places : /\ ~access[q].streaming /\ access[q].ingress <= made
                              /\ access[q].room = NoRoom
        BY <3>1, NoAccessIsRow, LegacyAccessIsRow
      <3>3. /\ ingresses = {<<1, <<p, d>>>>} /\ given = {1} /\ requests = 1
            /\ <<p, d>> \in Rooms
        BY <2>2 DEF StartsMigrated, Rooms
      <3> QED  BY <3>1, <3>2, <3>3, StreamAssumption
    <2> QED  BY <2>1, <2>2 DEF Init
  <1>4. now \in 1 .. MaxTime
    BY StreamAssumption DEF Init
  <1>5. /\ streams \in 0 .. MaxStreams /\ faults \in 0 .. MaxFaults
        /\ handlers \subseteq Request /\ webhooks \subseteq Event
        /\ running \subseteq 1 .. made /\ starting \subseteq 1 .. made
    BY StreamAssumption DEF Init
  <1>6. TypeOK
    BY <1>2, <1>3, <1>4, <1>5 DEF TypeOK
  <1>7. IngressesKnown /\ RevokedAreOff /\ RoomsAreDated
    BY <1>1, <1>3 DEF Init, IngressesKnown, RevokedAreOff, RoomsAreDated
  <1> QED
    BY <1>6, <1>7 DEF StreamInv

\* Steps that leave rows, requests, and the jobs alone, and LiveKit's ingresses too.
LEMMA QuietSteps ==
  ASSUME StreamInv,
         \/ Tick \/ \E i \in 1 .. made : StreamStarts(i) \/ StreamEnds(i) \/ IngressStarted(i)
         \/ UNCHANGED vars
  PROVE  StreamInv'
  <1>1. UNCHANGED <<access, ingresses, made, requestVars, jobVars>>
    BY DEF Tick, StreamStarts, StreamEnds, IngressStarted, livekitVars, vars
  <1>2. IngressesKnown' /\ RevokedAreOff' /\ RoomsAreDated'
    BY <1>1 DEF StreamInv, IngressesKnown, RevokedAreOff, RoomsAreDated, Exists, requestVars,
       jobVars
  <1>3. TypeOK'
    <2>1. CASE Tick
      BY <2>1, StreamAssumption DEF Tick, StreamInv, TypeOK, livekitVars, eventVars,
         requestVars, jobVars
    <2>2. ASSUME NEW i \in 1 .. made, StreamStarts(i) \/ StreamEnds(i) PROVE TypeOK'
      <3>0. \A kind \in {"started", "ended"} : [kind |-> kind, ingress |-> i] \in Event
        BY NumbersKnown DEF StreamInv, Event
      <3>1. running' \subseteq 1 .. made /\ webhooks' \subseteq Event
        BY <2>2, <3>0 DEF StreamStarts, StreamEnds, StreamInv, TypeOK
      <3>2. streams' \in 0 .. MaxStreams
        BY <2>2, StreamAssumption DEF StreamStarts, StreamEnds, StreamInv, TypeOK
      <3> QED
        BY <2>2, <3>1, <3>2 DEF StreamStarts, StreamEnds, StreamInv, TypeOK, requestVars, jobVars
    <2>3. ASSUME NEW i \in 1 .. made, IngressStarted(i) PROVE TypeOK'
      <3>1. webhooks' \subseteq Event /\ starting' \subseteq 1 .. made /\ faults' \in 0 .. MaxFaults
        BY <2>3, SpendTypes DEF IngressStarted, Answered, StreamInv, TypeOK
      <3> QED
        BY <2>3, <3>1 DEF IngressStarted, StreamInv, TypeOK, livekitVars, requestVars, jobVars
    <2>4. CASE UNCHANGED vars
      BY <2>4 DEF vars, StreamInv, TypeOK, livekitVars, eventVars, requestVars, jobVars
    <2> QED  BY <2>1, <2>2, <2>3, <2>4
  <1> QED  BY <1>2, <1>3 DEF StreamInv

LEMMA StreamingSteps ==
  ASSUME StreamInv, NEW i \in 1 .. made, SetsStreaming(i) \/ IngressEnded(i) PROVE StreamInv'
  <1>1. UNCHANGED <<now, livekitVars, requestVars, jobVars>> /\ (startStreaming(i) \/ stopStreaming(i))
    BY DEF SetsStreaming, IngressEnded
  <1>2. RowsTyped'
    BY <1>1, StreamingTypes DEF livekitVars
  <1>3. webhooks' \subseteq Event /\ starting' \subseteq 1 .. made /\ faults' \in 0 .. MaxFaults
    BY SpendTypes DEF SetsStreaming, IngressEnded, Answered, StreamInv, TypeOK
  <1> QED
    BY <1>1, <1>2, <1>3 DEF RowsTyped, StreamInv, TypeOK, IngressesKnown, RevokedAreOff, RoomsAreDated,
       Exists, livekitVars, requestVars, jobVars

LEMMA NewRequests ==
  ASSUME StreamInv, NEW p \in Places, NEW d \in Deployments,
         \/ LinkRequested(p, <<p, d>>) \/ AddRequested(p, <<p, d>>)
         \/ ResetRequested(p, <<p, d>>) \/ RemoveRequested(p, <<p, d>>)
  PROVE  StreamInv'
  <1>1. PICK kind \in {"link", "add", "reset", "remove"}, pc \in {"listIngress", "removeIngress"} :
          Starts(kind, p, <<p, d>>, pc)
    BY DEF LinkRequested, AddRequested, ResetRequested, RemoveRequested
  <1> DEFINE h == [id |-> requests + 1, kind |-> kind, place |-> p, room |-> <<p, d>>, pc |-> pc,
                   ingress |-> access[p].ingress]
  <1>2. h \in Request /\ h.ingress <= made /\ h.pc # "addAccess"
    BY NumbersKnown, StreamAssumption DEF StreamInv, TypeOK, Request, Rooms, IngressesKnown
  <1>3. handlers' = handlers \cup {h} /\ requests' \in 0 .. MaxRequests
    BY <1>1, StreamAssumption DEF Starts, StreamInv, TypeOK
  <1>4. UNCHANGED <<now, access, livekitVars, eventVars, jobVars, faults>>
    BY <1>1 DEF Starts
  <1> HIDE DEF h
  <1> QED
    BY <1>2, <1>3, <1>4 DEF StreamInv, TypeOK, IngressesKnown, RevokedAreOff, RoomsAreDated, Exists,
       livekitVars, eventVars, jobVars

\* A request that goes on keeps the invariant if what it becomes does.
LEMMA HandlersKept ==
  ASSUME StreamInv, NEW h \in handlers, NEW next \in Request,
         next.ingress <= made', next.pc = "addAccess" => next.ingress >= 1, made <= made',
         made' \in Nat,
         handlers' = (handlers \ {h}) \cup {next} \/ handlers' = handlers \ {h}
  PROVE  /\ handlers' \subseteq Request
         /\ \A g \in handlers' : g.ingress <= made' /\ (g.pc = "addAccess" => g.ingress >= 1)
  <1>1. \A g \in handlers' : g = next \/ g \in handlers
    OBVIOUS
  <1> QED
    BY <1>1, NumbersKnown DEF StreamInv, TypeOK, IngressesKnown

LEMMA RequestSteps == ASSUME StreamInv, NEW h \in handlers, RequestStep(h) PROVE StreamInv'
  <1>0. h \in Request /\ h.ingress \in Nat /\ h.ingress <= made /\ made \in Nat /\ h.room \in Rooms
    BY NumbersKnown DEF StreamInv, IngressesKnown, Request
  <1>1. CASE RemovesIngress(h)
    <2>1. [h EXCEPT !.pc = "removeAccess"] \in Request
      BY <1>0 DEF Request
    <2>2. /\ handlers' \subseteq Request
          /\ \A g \in handlers' : g.ingress <= made' /\ (g.pc = "addAccess" => g.ingress >= 1)
      BY <1>0, <1>1, <2>1, HandlersKept DEF RemovesIngress, Moves, Request
    <2>3. /\ ingresses' \subseteq (1 .. made') \X Rooms /\ running' \subseteq 1 .. made'
          /\ webhooks' \subseteq Event
      BY <1>0, <1>1, DeletedTypes DEF RemovesIngress, StreamInv
    <2>4. RevokedAreOff'
      BY <1>1, DeletedIsOff DEF RemovesIngress, StreamInv, RevokedAreOff, jobVars
    <2> QED
      BY <1>1, <2>2, <2>3, <2>4 DEF RemovesIngress, StreamInv, TypeOK, IngressesKnown,
         RoomsAreDated, jobVars
  <1>2. CASE RemovesAccess(h)
    <2>1. RowsTyped'
      BY <1>2, RemoveAccessTypes DEF RemovesAccess, livekitVars
    <2>2. [h EXCEPT !.pc = "listIngress"] \in Request
      BY <1>0 DEF Request
    <2>3. /\ handlers' \subseteq Request
          /\ \A g \in handlers' : g.ingress <= made' /\ (g.pc = "addAccess" => g.ingress >= 1)
      BY <1>0, <1>2, <2>2, HandlersKept DEF RemovesAccess, Moves, Ends, Request, livekitVars
    <2> QED
      BY <1>2, <2>1, <2>3 DEF RemovesAccess, RowsTyped, StreamInv, TypeOK, IngressesKnown,
         RevokedAreOff, RoomsAreDated, Exists, livekitVars, eventVars, jobVars
  <1>3. CASE ListsIngress(h)
    <2>1. PICK next \in Request : /\ handlers' = (handlers \ {h}) \cup {next}
                                  /\ next.ingress <= made
                                  /\ next.pc = "addAccess" => next.ingress >= 1
      <3>1. CASE IngressesOf(h.room) = {}
        <4>1. [h EXCEPT !.pc = "createIngress"] \in Request
          BY <1>0 DEF Request
        <4> QED
          BY <1>0, <1>3, <3>1, <4>1 DEF ListsIngress, Moves, Request
      <3>2. CASE IngressesOf(h.room) # {}
        <4>1. PICK i \in IngressesOf(h.room) :
                handlers' = (handlers \ {h}) \cup {[h EXCEPT !.pc = "addAccess", !.ingress = i]}
          BY <1>3, <3>2 DEF ListsIngress
        <4>2. i \in Nat /\ i <= made /\ i >= 1
          BY <1>0 DEF IngressesOf
        <4>3. [h EXCEPT !.pc = "addAccess", !.ingress = i] \in Request
          BY <1>0, <4>2 DEF Request
        <4> QED
          BY <1>0, <4>1, <4>2, <4>3 DEF Request
      <3> QED  BY <3>1, <3>2
    <2>2. /\ handlers' \subseteq Request
          /\ \A g \in handlers' : g.ingress <= made' /\ (g.pc = "addAccess" => g.ingress >= 1)
      <3>1. made' = made
        BY <1>3 DEF ListsIngress, livekitVars
      <3> QED  BY <1>0, <2>1, <3>1, HandlersKept
    <2> QED
      BY <1>3, <2>2 DEF ListsIngress, StreamInv, TypeOK, IngressesKnown, RevokedAreOff, RoomsAreDated, Exists,
         livekitVars, eventVars, jobVars
  <1>4. CASE CreatesIngress(h)
    <2>1. made' = made + 1 /\ ingresses' = ingresses \cup {<<made + 1, h.room>>}
      BY <1>4 DEF CreatesIngress
    <2> DEFINE next == [h EXCEPT !.pc = "addAccess", !.ingress = made + 1]
    <2>2. next \in Request /\ next.ingress = made + 1 /\ handlers' = (handlers \ {h}) \cup {next}
      <3>1. made + 1 \in Nat
        BY <1>0
      <3>2. next \in Request /\ next.ingress = made + 1
        BY <1>0, <3>1 DEF Request
      <3>3. handlers' = (handlers \ {h}) \cup {next}
        BY <1>4 DEF CreatesIngress
      <3> QED  BY <3>2, <3>3
    <2>3. /\ handlers' \subseteq Request
          /\ \A g \in handlers' : g.ingress <= made' /\ (g.pc = "addAccess" => g.ingress >= 1)
      <3> HIDE DEF next
      <3> QED  BY <1>0, <2>1, <2>2, HandlersKept
    <2>4. UNCHANGED <<now, access, given, running, streams, eventVars, requests, jobVars, faults>>
      BY <1>4 DEF CreatesIngress
    <2>5. /\ ingresses' \subseteq (1 .. made') \X Rooms /\ given' \subseteq 1 .. made'
          /\ running' \subseteq 1 .. made' /\ starting' \subseteq 1 .. made'
      BY <1>0, <2>1, <2>4 DEF StreamInv, TypeOK, eventVars
    <2>6. TypeOK'
      BY <1>0, <2>1, <2>3, <2>4, <2>5 DEF StreamInv, TypeOK, eventVars, jobVars
    <2>7. IngressesKnown'
      <3>1. /\ \A p \in Places : access[p].ingress <= made + 1
            /\ \A l \in streamJob.todo \cup streamJob.revoking : l.ingress <= made + 1
        BY <1>0, NumbersKnown DEF StreamInv, IngressesKnown, Job, Listed
      <3> QED
        BY <2>1, <2>3, <2>4, <3>1 DEF IngressesKnown, jobVars
    <2>8. RevokedAreOff'
      <3>1. \A l \in streamJob.revoking : l.ingress # made + 1
        BY <1>0, NumbersKnown DEF StreamInv, IngressesKnown, Job, Listed
      <3> QED
        BY <2>1, <2>4, <3>1 DEF StreamInv, RevokedAreOff, Exists, jobVars
    <2> QED  BY <2>4, <2>6, <2>7, <2>8 DEF StreamInv, RoomsAreDated
  <1>5. CASE AddsAccess(h)
    <2>0. h.ingress \in 1 .. made
      BY <1>0, <1>5 DEF AddsAccess, StreamInv, IngressesKnown
    <2> DEFINE row == [id |-> h.id, ingress |-> h.ingress,
                       room |-> IF h.kind = "reset" THEN NoRoom ELSE h.room,
                       created |-> now, expires |-> now + KeyTTL, streaming |-> FALSE, start |-> 0]
    <2>1. row \in Row /\ ~row.streaming /\ row.ingress <= made /\ row.expires # NoExpiry
      BY <1>0, NumbersKnown DEF StreamInv, Row, Request, NoExpiry
    <2>2. access' = [access EXCEPT ![h.place] = row]
      BY <1>5 DEF AddsAccess, addAccess
    <2>3. UNCHANGED <<now, ingresses, made, running, streams, eventVars, requests, jobVars, faults>>
      BY <1>5 DEF AddsAccess
    <2>4. RowsTyped'
      <3> HIDE DEF row
      <3> QED
        BY <2>1, <2>2, <2>3 DEF RowsTyped, StreamInv, TypeOK, IngressesKnown, RoomsAreDated
    <2>5. handlers' \subseteq handlers /\ given' \subseteq 1 .. made
      BY <1>5, <2>0 DEF AddsAccess, Ends, StreamInv, TypeOK
    <2> QED
      BY <2>3, <2>4, <2>5 DEF RowsTyped, StreamInv, TypeOK, IngressesKnown, RevokedAreOff, RoomsAreDated,
         Exists, eventVars, jobVars
  <1>6. CASE RequestFails(h)
    <2>1. handlers' \subseteq handlers /\ faults' \in 0 .. MaxFaults
      BY <1>6, SpendTypes DEF RequestFails, Ends, StreamInv
    <2> QED
      BY <1>6, <2>1 DEF RequestFails, StreamInv, TypeOK, IngressesKnown, RevokedAreOff, RoomsAreDated,
         Exists, livekitVars, eventVars, jobVars
  <1> QED  BY <1>1, <1>2, <1>3, <1>4, <1>5, <1>6 DEF RequestStep

\* What the jobs find in the table.
LEMMA ListsTyped ==
  ASSUME StreamInv
  PROVE  /\ getExpiredStreamAccesses \subseteq Listed /\ getExpiredStreamingKeys \subseteq Listed
         /\ \A l \in getExpiredStreamAccesses : l.ingress <= made
  BY NumbersKnown DEF StreamInv, IngressesKnown, getExpiredStreamAccesses,
     getExpiredStreamingKeys, Entries, Listed

\* A run that starts has some of the rows on its list.
LEMMA BatchTyped ==
  ASSUME NEW rows \in SUBSET Listed, NEW batch \in Limited(rows)
  PROVE  batch \subseteq rows /\ [todo |-> batch, revoking |-> {}] \in Job
  BY DEF Limited, Job

\* A job that takes an element of its list, or skips it.
LEMMA TakesTypes ==
  ASSUME StreamInv, NEW job \in Job, NEW next, NEW l \in job.todo, UNCHANGED made,
         \/ Deleted(l.ingress) /\ UNCHANGED faults
            /\ next = [todo |-> job.todo \ {l}, revoking |-> job.revoking \cup {l}]
         \/ Spend /\ UNCHANGED <<ingresses, running, webhooks>>
            /\ next = [job EXCEPT !.todo = @ \ {l}]
  PROVE  /\ ingresses' \subseteq (1 .. made') \X Rooms /\ running' \subseteq 1 .. made'
         /\ webhooks' \subseteq Event /\ faults' \in 0 .. MaxFaults /\ next \in Job
         /\ \A i : ~Exists(i) => ~Exists(i)'
         /\ next.todo \subseteq job.todo
         /\ \/ next.revoking = job.revoking
            \/ next.revoking = job.revoking \cup {l} /\ ~Exists(l.ingress)'
  <1>0. l \in Listed /\ l.ingress \in Nat
    BY DEF Job, Listed
  <1>1. CASE Deleted(l.ingress) /\ UNCHANGED faults
             /\ next = [todo |-> job.todo \ {l}, revoking |-> job.revoking \cup {l}]
    <2>1. /\ ingresses' \subseteq (1 .. made') \X Rooms /\ running' \subseteq 1 .. made'
          /\ webhooks' \subseteq Event
      BY <1>0, <1>1, DeletedTypes DEF StreamInv
    <2>2. next \in Job /\ next.todo \subseteq job.todo /\ next.revoking = job.revoking \cup {l}
      BY <1>0, <1>1 DEF Job
    <2>3. ~Exists(l.ingress)' /\ \A i : ~Exists(i) => ~Exists(i)'
      BY <1>1, DeletedIsOff
    <2> QED
      BY <1>1, <2>1, <2>2, <2>3 DEF StreamInv, TypeOK
  <1>2. CASE Spend /\ UNCHANGED <<ingresses, running, webhooks>>
             /\ next = [job EXCEPT !.todo = @ \ {l}]
    <2>1. next \in Job /\ next.todo \subseteq job.todo /\ next.revoking = job.revoking
      BY <1>2 DEF Job
    <2>2. faults' \in 0 .. MaxFaults
      BY <1>2, SpendTypes DEF StreamInv
    <2> QED
      BY <1>2, <2>1, <2>2 DEF StreamInv, TypeOK, Exists
  <1> QED  BY <1>1, <1>2

LEMMA StreamJobSteps == ASSUME StreamInv, StreamJobStep PROVE StreamInv'
  <1>0. streamJob \in Job
    BY NumbersKnown DEF StreamInv
  <1>1. CASE StreamJobLists
    <2> DEFINE Started ==
                 /\ streamJob' \in Job /\ faults' \in 0 .. MaxFaults
                 /\ \/ /\ streamJob'.todo \subseteq getExpiredStreamAccesses
                       /\ streamJob'.revoking = {}
                    \/ streamJob' = streamJob
    <2>2. Started
      <3>1. ASSUME NEW batch \in LatestExpiredStreams, UNCHANGED faults,
                   streamJob' = [todo |-> batch, revoking |-> {}]
            PROVE  Started
        <4>1. batch \in Limited(getExpiredStreamAccesses)
          BY DEF LatestExpiredStreams
        <4> QED  BY <3>1, <4>1, ListsTyped, BatchTyped DEF StreamInv, TypeOK
      <3>2. CASE Spend /\ UNCHANGED streamJob
        BY <1>0, <3>2, SpendTypes DEF StreamInv
      <3> QED  BY <1>1, <3>1, <3>2 DEF StreamJobLists, Lists
    <2>3. \A l \in streamJob'.todo : l.ingress <= made
      BY <2>2, ListsTyped DEF StreamInv, IngressesKnown
    <2>4. UNCHANGED <<now, access, livekitVars, eventVars, requestVars, keyJob, placeJob>>
      BY <1>1 DEF StreamJobLists
    <2>5. RevokedAreOff' /\ IngressesKnown'
      BY <2>2, <2>3, <2>4 DEF StreamInv, RevokedAreOff, IngressesKnown, Exists, livekitVars,
         requestVars
    <2> QED
      BY <2>2, <2>4, <2>5 DEF StreamInv, TypeOK, RoomsAreDated, livekitVars, eventVars, requestVars
  <1>2. ASSUME NEW l \in streamJob.todo, StreamJobRemoves(l) PROVE StreamInv'
    <2>1. /\ streamJob.revoking = {} /\ (Takes(streamJob, l) \/ Skips(streamJob, l))
          /\ UNCHANGED <<now, access, made, given, streams, starting, requestVars, keyJob, placeJob>>
      BY <1>2 DEF StreamJobRemoves
    <2>2. /\ ingresses' \subseteq (1 .. made') \X Rooms /\ running' \subseteq 1 .. made'
          /\ webhooks' \subseteq Event /\ faults' \in 0 .. MaxFaults /\ streamJob' \in Job
          /\ \A i : ~Exists(i) => ~Exists(i)'
          /\ streamJob'.todo \subseteq streamJob.todo
          /\ \/ streamJob'.revoking = streamJob.revoking
             \/ streamJob'.revoking = streamJob.revoking \cup {l} /\ ~Exists(l.ingress)'
      <3>1. \/ Deleted(l.ingress) /\ UNCHANGED faults
               /\ streamJob' = [todo |-> streamJob.todo \ {l}, revoking |-> streamJob.revoking \cup {l}]
            \/ Spend /\ UNCHANGED <<ingresses, running, webhooks>>
               /\ streamJob' = [streamJob EXCEPT !.todo = @ \ {l}]
        BY <2>1 DEF Takes, Skips
      <3> QED  BY <1>0, <2>1, <3>1, TakesTypes
    <2>3. IngressesKnown' /\ RevokedAreOff' /\ RoomsAreDated'
      BY <2>1, <2>2 DEF StreamInv, IngressesKnown, RevokedAreOff, RoomsAreDated, requestVars
    <2> QED
      BY <2>1, <2>2, <2>3 DEF StreamInv, TypeOK, requestVars
  <1>3. ASSUME NEW l \in streamJob.revoking, StreamJobKills(l) PROVE StreamInv'
    <2>1. streamJob' \in Job /\ streamJob'.todo = streamJob.todo /\ streamJob'.revoking = {}
      BY <1>0, <1>3 DEF StreamJobKills, Job
    <2>2. UNCHANGED made /\ faults' \in 0 .. MaxFaults
      BY <1>3, SpendTypes DEF StreamJobKills, StreamInv, TypeOK, livekitVars
    <2>3. RowsTyped'
      BY <1>3, <2>2, RowsKept, RemoveAccessTypes DEF StreamJobKills, killStreaming
    <2> QED
      BY <1>3, <2>1, <2>2, <2>3 DEF StreamJobKills, RowsTyped, StreamInv, TypeOK,
         IngressesKnown, RevokedAreOff, RoomsAreDated, livekitVars, eventVars, requestVars
  <1>4. ASSUME NEW l \in streamJob.revoking \ streamJob.todo PROVE ~StreamJobRemoves(l)
    BY <1>4 DEF StreamJobRemoves
  <1>5. ASSUME NEW l \in streamJob.todo \ streamJob.revoking PROVE ~StreamJobKills(l)
    BY <1>5 DEF StreamJobKills
  <1> QED  BY <1>1, <1>2, <1>3, <1>4, <1>5 DEF StreamJobStep

\* Everything the steps of the other two jobs leave alone.
LEMMA OtherJobSteps ==
  ASSUME StreamInv, RowsTyped', ingresses' \subseteq (1 .. made) \X Rooms,
         running' \subseteq 1 .. made, webhooks' \subseteq Event, faults' \in 0 .. MaxFaults,
         keyJob' \in Job, placeJob' \in Job, \A i : ~Exists(i) => ~Exists(i)',
         UNCHANGED <<now, made, given, streams, starting, requestVars, streamJob>>
  PROVE  StreamInv'
  BY DEF RowsTyped, StreamInv, TypeOK, IngressesKnown, RevokedAreOff, RoomsAreDated, requestVars

LEMMA KeyJobSteps == ASSUME StreamInv, KeyJobStep PROVE StreamInv'
  <1>0. keyJob \in Job /\ placeJob \in Job
    BY NumbersKnown DEF StreamInv
  <1>1. CASE KeyJobLists
    <2>2. keyJob' \in Job /\ faults' \in 0 .. MaxFaults
      <3>1. ASSUME NEW batch \in Limited(getExpiredStreamingKeys), UNCHANGED faults,
                   keyJob' = [todo |-> batch, revoking |-> {}]
            PROVE  keyJob' \in Job /\ faults' \in 0 .. MaxFaults
        BY <3>1, ListsTyped, BatchTyped DEF StreamInv, TypeOK
      <3>2. CASE Spend /\ UNCHANGED keyJob
        BY <1>0, <3>2, SpendTypes DEF StreamInv
      <3> QED  BY <1>1, <3>1, <3>2 DEF KeyJobLists, Lists
    <2> QED
      BY <1>1, <2>2 DEF KeyJobLists, StreamInv, TypeOK, IngressesKnown, RevokedAreOff, RoomsAreDated, Exists,
         livekitVars, eventVars, requestVars
  <1>2. ASSUME NEW l \in keyJob.todo, KeyJobRemoves(l) PROVE StreamInv'
    <2>1. /\ Takes(keyJob, l) \/ Skips(keyJob, l)
          /\ UNCHANGED <<now, access, made, given, streams, starting, requestVars, streamJob, placeJob>>
      BY <1>2 DEF KeyJobRemoves
    <2>2. /\ ingresses' \subseteq (1 .. made') \X Rooms /\ running' \subseteq 1 .. made'
          /\ webhooks' \subseteq Event /\ faults' \in 0 .. MaxFaults /\ keyJob' \in Job
          /\ \A i : ~Exists(i) => ~Exists(i)'
      <3>1. \/ Deleted(l.ingress) /\ UNCHANGED faults
               /\ keyJob' = [todo |-> keyJob.todo \ {l}, revoking |-> keyJob.revoking \cup {l}]
            \/ Spend /\ UNCHANGED <<ingresses, running, webhooks>>
               /\ keyJob' = [keyJob EXCEPT !.todo = @ \ {l}]
        BY <2>1 DEF Takes, Skips
      <3> QED  BY <1>0, <2>1, <3>1, TakesTypes
    <2> QED  BY <1>0, <2>1, <2>2, RowsKept, OtherJobSteps
  <1>3. ASSUME NEW l \in keyJob.revoking, KeyJobRevokes(l) PROVE StreamInv'
    <2>1. keyJob' \in Job
      BY <1>0, <1>3 DEF KeyJobRevokes, Job
    <2>2. UNCHANGED made /\ faults' \in 0 .. MaxFaults
      BY <1>3, SpendTypes DEF KeyJobRevokes, StreamInv, TypeOK, livekitVars
    <2>3. RowsTyped'
      BY <1>3, <2>2, RowsKept, RemoveAccessTypes DEF KeyJobRevokes
    <2> QED
      BY <1>3, <2>1, <2>2, <2>3 DEF KeyJobRevokes, RowsTyped, StreamInv, TypeOK,
         IngressesKnown, RevokedAreOff, RoomsAreDated, Exists, livekitVars, eventVars, requestVars
  <1>4. \A l \in keyJob.revoking \ keyJob.todo : ~KeyJobRemoves(l)
    BY DEF KeyJobRemoves
  <1>5. \A l \in keyJob.todo \ keyJob.revoking : ~KeyJobRevokes(l)
    BY DEF KeyJobRevokes
  <1> QED  BY <1>1, <1>2, <1>3, <1>4, <1>5 DEF KeyJobStep

LEMMA PlaceJobSteps == ASSUME StreamInv, PlaceJobStep PROVE StreamInv'
  <1>0. keyJob \in Job /\ placeJob \in Job
    BY NumbersKnown DEF StreamInv
  <1>1. ASSUME NEW disabled \in SUBSET Places, PlaceJobLists(disabled) PROVE StreamInv'
    <2>1. placeJob' \in Job
      BY <1>1 DEF PlaceJobLists, Job, Listed
    <2> QED
      BY <1>1, <2>1 DEF PlaceJobLists, StreamInv, TypeOK, IngressesKnown, RevokedAreOff, RoomsAreDated,
         Exists, livekitVars, eventVars, requestVars
  <1>2. ASSUME NEW l \in placeJob.todo, PlaceJobReads(l) PROVE StreamInv'
    <2>0. l \in Listed /\ l.place \in Places
      BY <1>0 DEF Job, Listed
    <2>1. [l EXCEPT !.ingress = access[l.place].ingress] \in Listed
      BY <2>0, NumbersKnown DEF StreamInv, Listed
    <2>2. placeJob' \in Job
      BY <1>0, <1>2, <2>0, <2>1 DEF PlaceJobReads, Job
    <2> QED
      BY <1>2, <2>2 DEF PlaceJobReads, StreamInv, TypeOK, IngressesKnown, RevokedAreOff, RoomsAreDated,
         Exists, livekitVars, eventVars, requestVars
  <1>3. ASSUME NEW l \in placeJob.todo, PlaceJobRemoves(l) PROVE StreamInv'
    <2>1. /\ Takes(placeJob, l) \/ Skips(placeJob, l)
          /\ UNCHANGED <<now, access, made, given, streams, starting, requestVars, streamJob, keyJob>>
      BY <1>3 DEF PlaceJobRemoves
    <2>2. /\ ingresses' \subseteq (1 .. made') \X Rooms /\ running' \subseteq 1 .. made'
          /\ webhooks' \subseteq Event /\ faults' \in 0 .. MaxFaults /\ placeJob' \in Job
          /\ \A i : ~Exists(i) => ~Exists(i)'
      <3>1. \/ Deleted(l.ingress) /\ UNCHANGED faults
               /\ placeJob' = [todo |-> placeJob.todo \ {l}, revoking |-> placeJob.revoking \cup {l}]
            \/ Spend /\ UNCHANGED <<ingresses, running, webhooks>>
               /\ placeJob' = [placeJob EXCEPT !.todo = @ \ {l}]
        BY <2>1 DEF Takes, Skips
      <3> QED  BY <1>0, <2>1, <3>1, TakesTypes
    <2> QED  BY <1>0, <2>1, <2>2, RowsKept, OtherJobSteps
  <1>4. CASE PlaceJobRevokes
    <2>1. placeJob' \in Job
      BY <1>4 DEF PlaceJobRevokes, IdleJob, Job
    <2>2. UNCHANGED made /\ faults' \in 0 .. MaxFaults
      BY <1>4, SpendTypes DEF PlaceJobRevokes, StreamInv, TypeOK, livekitVars
    <2>3. RowsTyped'
      BY <1>4, <2>2, RowsKept, RemoveAccessTypes DEF PlaceJobRevokes
    <2> QED
      BY <1>4, <2>1, <2>2, <2>3 DEF PlaceJobRevokes, RowsTyped, StreamInv, TypeOK,
         IngressesKnown, RevokedAreOff, RoomsAreDated, Exists, livekitVars, eventVars, requestVars
  <1> QED  BY <1>1, <1>2, <1>3, <1>4 DEF PlaceJobStep

-----------------------------------------------------------------------------
(* The theorems                                                            *)

LEMMA InvKept == StreamInv /\ [Next]_vars => StreamInv'
  BY QuietSteps, StreamingSteps, NewRequests, RequestSteps, StreamJobSteps, KeyJobSteps,
     PlaceJobSteps DEF Next, Deliver

\* The variables keep their types, and whatever streams has a time it started at.
THEOREM TypeCorrect == Spec => []TypeOK
  <1>1. StreamInv => TypeOK
    BY DEF StreamInv
  <1> QED
    BY <1>1, InvInit, InvKept, PTL DEF Spec

\* An access is good for the streamer, the watchers, the presentation and the page that
\* asks, or for none of them, and links and the job of expired keys agree with them.
THEOREM ExpiryTestsRight == Spec => []ExpiryTestsAgree
  <1>1. StreamInv => ExpiryTestsAgree
    <2> SUFFICES ASSUME StreamInv, NEW p \in Places, IsActive(p)
                 PROVE  LET row == access[p] IN
                        /\ StreamerEnters(row) = WatcherEnters(row)
                        /\ StreamerEnters(row) = BotEnters(row)
                        /\ StreamerEnters(row) = InfoIsGiven(row)
                        /\ \A d \in Deployments : canReuse(row, <<p, d>>) => StreamerEnters(row)
                        /\ (\E l \in getExpiredStreamingKeys : l.place = p) => ~StreamerEnters(row)
      BY DEF ExpiryTestsAgree
    <2>1. access[p].expires \in Nat /\ now \in Nat
      BY NumbersKnown DEF StreamInv, Row
    <2>2. Expired(access[p]) <=> access[p].expires # NoExpiry /\ access[p].expires < now
      BY <2>1 DEF Expired
    <2>3. \A d \in Deployments : canReuse(access[p], <<p, d>>) => StreamerEnters(access[p])
      BY <2>1 DEF canReuse, StreamerEnters, Expired, NoRoom
    <2>4. (\E l \in getExpiredStreamingKeys : l.place = p) => KeyExpired(access[p])
      BY DEF getExpiredStreamingKeys, Entries
    <2>5. KeyExpired(access[p]) => ~StreamerEnters(access[p])
      BY <2>2 DEF KeyExpired, StreamerEnters, StreamInv, RoomsAreDated
    <2> QED
      BY <2>2, <2>3, <2>4, <2>5 DEF StreamerEnters, WatcherEnters, BotEnters, InfoIsGiven
  <1> QED
    BY <1>1, InvInit, InvKept, PTL DEF Spec

\* The job that ends long streams takes no working key away, however requests replaced the
\* access since it was listed.
THEOREM KilledOff == Spec => KilledStreamsAreOff
  <1> DEFINE Off == (\E l \in streamJob.revoking : StreamJobKills(l)) => \A p \in Places :
                      IsActive(p) /\ ~IsActive(p)' => ~Exists(access[p].ingress)
  <1>1. StreamInv => Off
    <2> SUFFICES ASSUME StreamInv, NEW l \in streamJob.revoking, StreamJobKills(l),
                        NEW p \in Places, IsActive(p), ~IsActive(p)'
                 PROVE  ~Exists(access[p].ingress)
      OBVIOUS
    <2>1. access[p].ingress = l.ingress
      BY DEF StreamJobKills, killStreaming, removeAccess, With, IsActive, StreamInv, TypeOK
    <2> QED
      BY <2>1 DEF StreamInv, RevokedAreOff
  <1>2. StreamInv => [Off]_vars
    BY <1>1
  <1> QED
    BY <1>2, InvInit, InvKept, PTL DEF Spec, KilledStreamsAreOff
=============================================================================
