------------------------- MODULE UserModerationProofs -------------------------
(***************************************************************************)
(* Proofs about UserModeration, for any players, devices, durations of     *)
(* bans and bounds:                                                        *)
(*   - the variables keep their types (TypeCorrect);                       *)
(*   - a lift leaves no ban of the player in force (LiftsComplete);        *)
(*   - a token is not signed past a ban that was there when it was asked   *)
(*     for (TokensRight), nobody else is refused as banned                 *)
(*     (RefusalsRight);                                                    *)
(*   - a sweep leaves the banned player in no room he was in when he was   *)
(*     banned (SweptOut).                                                  *)
(* The argument is one invariant, ModerationInv: what requests, tokens,    *)
(* sessions and sweeps remember of the bans stays true, because a ban      *)
(* keeps its player and its device and never comes back in force.          *)
(***************************************************************************)
EXTENDS UserModeration, FiniteSets, FiniteSetTheorems, SequenceTheorems, TLAPS

\* Every ban in the table came from a request of its own.
Counted == IsFiniteSet(requests) /\ Len(bans) + Cardinality(requests) <= requested

\* A player is recorded with the last device he sent; bans have a device of their player.
DevicesKnown ==
    /\ connection = last
    /\ \A p \in Players : connection[p] # NoDevice => connection[p] \in seen[p]
    /\ \A q \in requests : /\ q.device = q.seen
                           /\ q.device # NoDevice => q.device \in seen[q.player]
    /\ \A i \in 1 .. Len(bans) :
         /\ covers[i] = bans[i].device
         /\ bans[i].device # NoDevice => bans[i].device \in seen[bans[i].address]

\* What a request for a token knows; the ones that passed the check saw its bans end.
VisitKnown(v) ==
    /\ v.id < requested
    /\ "ban" \in v.todo => v.result = "admitted"
    /\ v.result = "unchecked" => v.room \in Scenes
    /\ \A i \in v.known :
         /\ i \in 1 .. Len(bans)
         /\ bans[i].address = v.player \/ (v.device # NoDevice /\ bans[i].device = v.device)
         /\ "ban" \notin v.todo /\ v.result = "admitted" => ~InForce(i)
VisitsKnown ==
    /\ \A v \in visits : VisitKnown(v)
    /\ \A v, w \in visits : v.id = w.id => v = w

\* Bans that a token or a session was handed out in spite of are over.
Over(known) == \A i \in known : i \in 1 .. Len(bans) /\ ~InForce(i)
TokensOver == \A t \in tokens : Over(t.known)
SessionsOver ==
    \A p \in Players, r \in Rooms : \A session \in inRoom[p][r] : Over(session.known)

\* The player of a ban has no session in a room from before the ban.
Clear(i, r) == \A session \in inRoom[bans[i].address][r] : session.bans >= i
SweepsClear ==
    /\ \A s \in sweeps :
         /\ s.ban \in 1 .. Len(bans)
         /\ s.pc = "rooms" /\ ~s.failed => \A r \in Rooms \ (s.todo \cup s.found) : Clear(s.ban, r)
    /\ \A i \in swept : i \in 1 .. Len(bans) /\ \A r \in Rooms : Clear(i, r)

ModerationInv ==
    TypeOK /\ Counted /\ DevicesKnown /\ VisitsKnown /\ TokensOver /\ SessionsOver /\ SweepsClear

-----------------------------------------------------------------------------
(* What stays true of bans                                                 *)

\* The table grows, and a ban keeps its player and its device and ends once.
BansGrow ==
    /\ Len(bans) <= Len(bans')
    /\ \A i \in 1 .. Len(bans) :
         /\ bans'[i].address = bans[i].address /\ bans'[i].device = bans[i].device
         /\ covers'[i] = covers[i]
         /\ ~InForce(i) => ~InForce(i)'

LEMMA NumbersKnown ==
  ASSUME TypeOK
  PROVE  /\ now \in Nat /\ now >= 1 /\ Len(bans) \in Nat /\ Len(bans) <= requested
         /\ requested \in Nat /\ requested <= MaxRequests /\ MaxRequests \in Nat
         /\ Len(covers) = Len(bans)
         /\ \A i \in 1 .. Len(bans) : bans[i] \in Ban /\ covers[i] \in Devices \cup {NoDevice}
  <1>1. /\ Len(bans) \in Nat /\ Len(covers) = Len(bans)
        /\ \A i \in 1 .. Len(bans) : bans[i] \in Ban /\ covers[i] \in Devices \cup {NoDevice}
    BY LenProperties, ElementOfSeq DEF TypeOK
  <1> QED
    BY <1>1, ModerationAssumption DEF TypeOK

LEMMA LiftedBans ==
  ASSUME TypeOK, NEW p \in Players, bans' = liftBan(p), UNCHANGED <<now, covers>>
  PROVE  /\ bans' \in Seq(Ban) /\ Len(bans') = Len(bans) /\ BansGrow
         /\ \A i \in 1 .. Len(bans) : bans[i].address = p => ~InForce(i)'
  <1>1. Len(bans) \in Nat /\ now \in Nat /\ now >= 1 /\ \A i \in 1 .. Len(bans) : bans[i] \in Ban
    BY NumbersKnown
  <1>2. bans' = [i \in 1 .. Len(bans) |-> IF i \in ActiveBans /\ bans[i].address = p
                                            THEN [bans[i] EXCEPT !.lifted = now] ELSE bans[i]]
    BY DEF liftBan
  <1>3. \A i \in 1 .. Len(bans) : [bans[i] EXCEPT !.lifted = now] \in Ban
    BY <1>1 DEF Ban
  <1>4. bans' \in [1 .. Len(bans) -> Ban]
    BY <1>1, <1>2, <1>3
  <1>5. bans' \in Seq(Ban) /\ Len(bans') = Len(bans)
    BY <1>1, <1>4, SeqDef, LenProperties
  <1>6. ASSUME NEW i \in 1 .. Len(bans)
        PROVE  /\ bans'[i].address = bans[i].address /\ bans'[i].device = bans[i].device
               /\ bans'[i].expires = bans[i].expires
               /\ \/ bans'[i].lifted = now
                  \/ ~(i \in ActiveBans /\ bans[i].address = p) /\ bans'[i].lifted = bans[i].lifted
    <2>1. bans[i] \in Ban
      BY <1>1
    <2>2. bans'[i] = IF i \in ActiveBans /\ bans[i].address = p
                       THEN [bans[i] EXCEPT !.lifted = now] ELSE bans[i]
      BY <1>2
    <2> QED  BY <2>1, <2>2 DEF Ban
  <1>7. ASSUME NEW i \in 1 .. Len(bans)
        PROVE  /\ ~InForce(i) => ~InForce(i)'
               /\ bans[i].address = p => ~InForce(i)'
    BY <1>1, <1>6 DEF InForce, ActiveBans
  <1> QED
    BY <1>1, <1>5, <1>6, <1>7 DEF BansGrow

LEMMA InsertedBan ==
  ASSUME TypeOK, NEW q \in requests, InsertsBan(q)
  PROVE  /\ bans' \in Seq(Ban) /\ Len(bans') = Len(bans) + 1 /\ BansGrow
         /\ covers' \in Seq(Devices \cup {NoDevice}) /\ Len(covers') = Len(bans')
         /\ bans'[Len(bans')].address = q.player /\ bans'[Len(bans')].device = q.device
         /\ covers'[Len(bans')] = q.seen
  <1> DEFINE ban == [address |-> q.player, device |-> q.device, expires |-> q.expires, lifted |-> 0]
  <1>1. ban \in Ban /\ q.seen \in Devices \cup {NoDevice}
    BY DEF TypeOK, BanRequest, Ban
  <1>2. ban.address = q.player /\ ban.device = q.device
    OBVIOUS
  <1>3. bans' = Append(bans, ban) /\ covers' = Append(covers, q.seen) /\ UNCHANGED now
    BY DEF InsertsBan, createBan
  <1> HIDE DEF ban
  <1>4. /\ bans' \in Seq(Ban) /\ Len(bans') = Len(bans) + 1
        /\ \A i \in 1 .. Len(bans) : bans'[i] = bans[i]
        /\ bans'[Len(bans) + 1] = ban
    BY <1>1, <1>3, AppendProperties DEF TypeOK
  <1>5. /\ covers' \in Seq(Devices \cup {NoDevice}) /\ Len(covers') = Len(covers) + 1
        /\ \A i \in 1 .. Len(covers) : covers'[i] = covers[i]
        /\ covers'[Len(covers) + 1] = q.seen
    BY <1>1, <1>3, AppendProperties DEF TypeOK
  <1>6. BansGrow
    BY <1>3, <1>4, <1>5, NumbersKnown DEF BansGrow, InForce
  <1> QED
    BY <1>2, <1>4, <1>5, <1>6, NumbersKnown

\* Every other step leaves the table alone, and the clock only moves forward.
LEMMA BansLeftAlone ==
  ASSUME TypeOK, UNCHANGED banVars, now' \in {now, now + 1} PROVE BansGrow
  <1>1. \A i \in 1 .. Len(bans) : ~InForce(i) => ~InForce(i)'
    BY NumbersKnown DEF InForce, banVars, Ban
  <1> QED
    BY <1>1, NumbersKnown DEF BansGrow, banVars

\* What was over stays over.
LEMMA OverKept == ASSUME NEW known, Over(known), BansGrow, TypeOK, TypeOK' PROVE Over(known)'
  BY NumbersKnown, LenProperties DEF Over, BansGrow, TypeOK

-----------------------------------------------------------------------------
(* Types                                                                   *)

LEMMA TypeInit == Init => TypeOK /\ Counted
  <1> SUFFICES ASSUME Init PROVE TypeOK /\ Counted  OBVIOUS
  <1>1. bans \in Seq(Ban) /\ covers \in Seq(Devices \cup {NoDevice}) /\ Len(bans) = 0 /\ Len(covers) = 0
    BY EmptySeq DEF Init
  <1>2. /\ now \in 1 .. MaxTime /\ requested \in 0 .. MaxRequests /\ faults \in 0 .. MaxFaults
        /\ requested = 0
    BY ModerationAssumption DEF Init
  <1>3. /\ connection \in [Players -> Devices \cup {NoDevice}]
        /\ last \in [Players -> Devices \cup {NoDevice}]
    BY DEF Init
  <1>4. seen \in [Players -> SUBSET Devices]
    BY <1>3 DEF Init
  <1>5. inRoom \in [Players -> [Rooms -> SUBSET Session]]
    BY DEF Init
  <1>6. TypeOK
    BY <1>1, <1>2, <1>3, <1>4, <1>5 DEF Init, TypeOK
  <1>7. Counted
    BY <1>1, <1>2, FS_EmptySet DEF Init, Counted
  <1> QED  BY <1>6, <1>7

LEMMA SpendTypes == ASSUME TypeOK, Spend PROVE faults' \in 0 .. MaxFaults
  BY ModerationAssumption DEF TypeOK, Spend

LEMMA AboutKnown ==
  ASSUME TypeOK, NEW p, NEW device
  PROVE  About(p, device) \subseteq 1 .. Len(bans) /\ About(p, device) \subseteq BanIds
  BY NumbersKnown DEF About, ActiveBans, BanIds

LEMMA VisitRequestedTypes ==
  ASSUME TypeOK, NEW p \in Players, NEW d \in Devices \cup {NoDevice}, NEW r \in Rooms,
         VisitRequested(p, d, r)
  PROVE  TypeOK' /\ requested' = requested + 1 /\ UNCHANGED requests
  <1> DEFINE v == [id |-> requested, player |-> p, device |-> d, room |-> r,
                   todo |-> {"connection", "ban"}, result |-> "admitted", known |-> About(p, d)]
  <1>1. v \in Visit
    BY AboutKnown, NumbersKnown DEF Visit
  <1>2. visits' = visits \cup {v} /\ requested' = requested + 1 /\ requested < MaxRequests
    BY DEF VisitRequested
  <1>3. UNCHANGED <<now, banVars, connectionVars, requests, roomVars, sweepVars, faults>>
    BY DEF VisitRequested
  <1> HIDE DEF v
  <1> QED
    BY <1>1, <1>2, <1>3, NumbersKnown DEF TypeOK, banVars, connectionVars, roomVars, sweepVars

LEMMA VisitStepTypes ==
  ASSUME TypeOK, NEW v \in visits, VisitStep(v)
  PROVE  TypeOK' /\ UNCHANGED <<requests, requested>>
  <1>0. v \in Visit
    BY DEF TypeOK
  <1>1. CASE StoresConnection(v)
    <2>1. Done(v, "connection") \in Visit
      BY <1>0 DEF Visit, Done
    <2>2. visits' \subseteq Visit
      BY <1>1, <2>1 DEF StoresConnection, Moves, TypeOK
    <2>3. /\ connection' \in [Players -> Devices \cup {NoDevice}]
          /\ seen' \in [Players -> SUBSET Devices] /\ last' \in [Players -> Devices \cup {NoDevice}]
      <3>1. v.player \in Players /\ v.device \in Devices \cup {NoDevice}
        BY <1>0 DEF Visit
      <3>2. upsertPlayerConnection(connection[v.player], v.device) \in Devices \cup {NoDevice}
        BY <3>1 DEF upsertPlayerConnection, TypeOK
      <3>3. connection' \in [Players -> Devices \cup {NoDevice}]
        BY <1>1, <3>1, <3>2 DEF StoresConnection, connectionVars, TypeOK
      <3>4. /\ seen' \in [Players -> SUBSET Devices]
            /\ last' \in [Players -> Devices \cup {NoDevice}]
        <4>1. CASE UNCHANGED <<seen, last>>
          BY <4>1 DEF TypeOK
        <4>2. CASE /\ v.device # NoDevice
                   /\ seen' = [seen EXCEPT ![v.player] = @ \cup {v.device}]
                   /\ last' = [last EXCEPT ![v.player] = v.device]
          BY <3>1, <4>2 DEF TypeOK
        <4> QED
          BY <1>1, <4>1, <4>2 DEF StoresConnection, connectionVars
      <3> QED  BY <3>3, <3>4
    <2>4. faults' \in 0 .. MaxFaults
      BY <1>1, SpendTypes DEF StoresConnection, TypeOK
    <2> QED
      BY <1>1, <2>2, <2>3, <2>4 DEF StoresConnection, TypeOK, banVars, roomVars, sweepVars
  <1>2. CASE ChecksBan(v)
    <2>1. /\ Done(v, "ban") \in Visit
          /\ \A result \in {"unchecked", "banned", "failed"} :
               [Done(v, "ban") EXCEPT !.result = result] \in Visit
      BY <1>0 DEF Visit, Done
    <2>2. visits' \subseteq Visit
      BY <1>2, <2>1 DEF ChecksBan, Moves, TypeOK
    <2>3. faults' \in 0 .. MaxFaults
      BY <1>2, SpendTypes DEF ChecksBan, TypeOK
    <2> QED
      BY <1>2, <2>2, <2>3 DEF ChecksBan, TypeOK, banVars, connectionVars, roomVars, sweepVars
  <1>3. CASE SignsToken(v)
    <2>1. [player |-> v.player, room |-> v.room,
           known |-> IF v.result = "unchecked" THEN {} ELSE v.known] \in Token
      BY <1>0 DEF Visit, Token
    <2> QED
      BY <1>3, <2>1 DEF SignsToken, TypeOK, banVars, connectionVars, sweepVars
  <1>4. CASE \E denylisted \in BOOLEAN : Refuses(v, denylisted)
    BY <1>4 DEF Refuses, TypeOK, banVars, connectionVars, roomVars, sweepVars
  <1> QED
    BY <1>1, <1>2, <1>3, <1>4
       DEF VisitStep, StoresConnection, ChecksBan, SignsToken, Refuses

LEMMA RoomStepTypes ==
  ASSUME TypeOK,
         \/ \E t \in tokens : Enters(t)
         \/ \E p \in Players, r \in Rooms : Leaves(p, r)
         \/ Tick \/ UNCHANGED vars
  PROVE  TypeOK' /\ UNCHANGED <<requests, requested>>
  <1>1. ASSUME NEW t \in tokens, Enters(t) PROVE TypeOK'
    <2>1. t.player \in Players /\ t.room \in Rooms /\ t.known \in SUBSET BanIds
      BY DEF TypeOK, Token
    <2>2. [bans |-> Len(bans), known |-> t.known] \in Session
      BY <2>1, NumbersKnown DEF Session
    <2>3. inRoom' \in [Players -> [Rooms -> SUBSET Session]]
      BY <1>1, <2>1, <2>2 DEF Enters, TypeOK
    <2> QED
      BY <1>1, <2>3 DEF Enters, TypeOK, banVars, connectionVars, requestVars, sweepVars
  <1>2. ASSUME NEW p \in Players, NEW r \in Rooms, Leaves(p, r) PROVE TypeOK'
    <2>1. inRoom' \in [Players -> [Rooms -> SUBSET Session]]
      BY <1>2 DEF Leaves, TypeOK
    <2> QED
      BY <1>2, <2>1 DEF Leaves, TypeOK, banVars, connectionVars, requestVars, sweepVars
  <1>3. CASE Tick
    BY <1>3, ModerationAssumption DEF Tick, TypeOK, banVars, connectionVars, roomVars,
       requestVars, sweepVars
  <1>4. CASE UNCHANGED vars
    BY <1>4 DEF vars, TypeOK, banVars, connectionVars, roomVars, requestVars, sweepVars
  <1> QED
    BY <1>1, <1>2, <1>3, <1>4 DEF Enters, Leaves, Tick, vars, requestVars

LEMMA BanStepTypes ==
  ASSUME TypeOK, Counted, NEW q \in requests, BanStep(q) PROVE TypeOK' /\ Counted'
  <1>0. /\ q \in BanRequest /\ IsFiniteSet(requests) /\ Len(bans) + Cardinality(requests) <= requested
        /\ Cardinality(requests) \in Nat
    BY FS_CardinalityType DEF TypeOK, Counted
  \* A request that goes on or ends leaves no more requests than there were.
  <1>1. /\ IsFiniteSet(requests \ {q})
        /\ Cardinality(requests \ {q}) = Cardinality(requests) - 1
    BY <1>0, FS_RemoveElement
  <1>2. \A s : /\ IsFiniteSet((requests \ {q}) \cup {s})
               /\ Cardinality((requests \ {q}) \cup {s}) <= Cardinality(requests)
    <2> DEFINE others == requests \ {q}
    <2> HIDE DEF others
    <2>1. \A s : /\ IsFiniteSet(others \cup {s})
                 /\ Cardinality(others \cup {s}) \in {Cardinality(others), Cardinality(others) + 1}
      BY <1>1, FS_AddElement DEF others
    <2>2. Cardinality(others) = Cardinality(requests) - 1
      BY <1>1 DEF others
    <2>3. ASSUME NEW s PROVE Cardinality(others \cup {s}) <= Cardinality(requests)
      <3>1. \/ Cardinality(others \cup {s}) = Cardinality(requests) - 1
            \/ Cardinality(others \cup {s}) = (Cardinality(requests) - 1) + 1
        BY <2>1, <2>2
      <3> QED  BY <1>0, <3>1
    <2> QED
      BY <2>1, <2>3 DEF others
  <1>3. CASE ChecksBanned(q) \/ ReadsDevice(q) \/ BanFails(q)
    <2>1. PICK s \in BanRequest : requests' = requests \ {q} \/ Advances(q, s)
      <3>1. CASE ChecksBanned(q)
        <4> DEFINE expires == IF q.duration = 0 THEN 0 ELSE now + q.duration
        <4>0. expires \in Nat
          <5>1. q.duration \in Nat
            BY <1>0, ModerationAssumption DEF BanRequest
          <5> QED  BY <5>1, NumbersKnown
        <4>1. [q EXCEPT !.pc = "device", !.expires = expires] \in BanRequest
          <5> HIDE DEF expires
          <5> QED  BY <1>0, <4>0 DEF BanRequest
        <4> QED  BY <3>1, <4>1 DEF ChecksBanned
      <3>2. CASE ReadsDevice(q)
        <4>1. connection[q.player] \in Devices \cup {NoDevice} /\ last[q.player] \in Devices \cup {NoDevice}
          BY <1>0 DEF TypeOK, BanRequest
        <4>2. /\ [q EXCEPT !.pc = "insert", !.device = connection[q.player],
                           !.seen = last[q.player]] \in BanRequest
              /\ [q EXCEPT !.pc = "insert"] \in BanRequest
          BY <1>0, <4>1 DEF BanRequest
        <4> QED  BY <3>2, <4>2 DEF ReadsDevice
      <3>3. CASE BanFails(q)
        BY <1>0, <3>3 DEF BanFails
      <3> QED  BY <1>3, <3>1, <3>2, <3>3
    <2>2. requests' \subseteq BanRequest
      BY <2>1 DEF Advances, TypeOK
    <2>3. /\ UNCHANGED <<now, banVars, connectionVars, visits, requested, roomVars, sweepVars>>
          /\ faults' \in 0 .. MaxFaults
      BY <1>3, SpendTypes DEF ChecksBanned, ReadsDevice, BanFails, TypeOK
    <2>4. IsFiniteSet(requests') /\ Cardinality(requests') <= Cardinality(requests)
      <3>1. CASE requests' = requests \ {q}
        BY <1>0, <1>1, <3>1
      <3>2. CASE requests' = (requests \ {q}) \cup {s}
        BY <1>2, <3>2
      <3> QED  BY <2>1, <3>1, <3>2 DEF Advances
    <2>5. Counted'
      BY <1>0, <2>3, <2>4, NumbersKnown, FS_CardinalityType DEF Counted, banVars
    <2> QED
      BY <2>2, <2>3, <2>5 DEF TypeOK, banVars, connectionVars, roomVars, sweepVars
  <1>4. CASE InsertsBan(q)
    <2>1. /\ bans' \in Seq(Ban) /\ Len(bans') = Len(bans) + 1
          /\ covers' \in Seq(Devices \cup {NoDevice}) /\ Len(covers') = Len(bans')
      BY <1>4, InsertedBan
    <2>2. requests' = requests \ {q}
      BY <1>4 DEF InsertsBan
    <2>3. UNCHANGED <<now, connectionVars, visits, requested, roomVars, swept, faults>>
      BY <1>4 DEF InsertsBan
    <2>4. Counted' /\ Len(bans') <= requested
      BY <1>0, <1>1, <2>1, <2>2, <2>3, NumbersKnown, FS_CardinalityType DEF Counted
    <2>5. sweeps' \subseteq Sweep
      <3>1. Len(bans) + 1 \in BanIds
        BY <2>1, <2>4, NumbersKnown DEF BanIds
      <3>2. [ban |-> Len(bans) + 1, pc |-> "list", todo |-> {}, found |-> {}, failed |-> FALSE] \in Sweep
        BY <3>1 DEF Sweep
      <3> QED
        BY <1>4, <3>2 DEF InsertsBan, TypeOK
    <2> QED
      BY <2>1, <2>2, <2>3, <2>4, <2>5 DEF TypeOK, connectionVars, roomVars
  <1> QED  BY <1>3, <1>4 DEF BanStep

LEMMA BanRequestedTypes ==
  ASSUME TypeOK, Counted, NEW p \in Players, NEW d \in Durations, BanRequested(p, d)
  PROVE  TypeOK' /\ Counted'
  <1> DEFINE q == [id |-> requested, player |-> p, pc |-> "check", duration |-> d,
                   expires |-> 0, device |-> NoDevice, seen |-> NoDevice]
  <1>1. q \in BanRequest
    BY NumbersKnown DEF BanRequest
  <1>2. requests' = requests \cup {q} /\ requested' = requested + 1 /\ requested < MaxRequests
    BY DEF BanRequested
  <1>3. UNCHANGED <<now, banVars, connectionVars, visits, roomVars, sweepVars, faults>>
    BY DEF BanRequested
  <1> HIDE DEF q
  <1>4. IsFiniteSet(requests') /\ Cardinality(requests') <= Cardinality(requests) + 1
        /\ Cardinality(requests) \in Nat /\ Cardinality(requests') \in Nat
    <2>1. IsFiniteSet(requests) /\ Cardinality(requests) \in Nat
      BY FS_CardinalityType DEF Counted
    <2>2. /\ IsFiniteSet(requests \cup {q})
          /\ Cardinality(requests \cup {q}) \in {Cardinality(requests), Cardinality(requests) + 1}
      BY <2>1, FS_AddElement
    <2> QED  BY <1>2, <2>1, <2>2
  <1>5. Counted'
    BY <1>2, <1>3, <1>4, NumbersKnown DEF Counted, banVars
  <1> QED
    BY <1>1, <1>2, <1>3, <1>5, NumbersKnown
       DEF TypeOK, banVars, connectionVars, roomVars, sweepVars

\* A sweep goes on as t, or ends.
LEMMA ContinuesTypes ==
  ASSUME TypeOK, NEW s \in sweeps, NEW t \in Sweep, Continues(s, t)
  PROVE  /\ sweeps' \subseteq Sweep /\ swept' \subseteq BanIds
         /\ \A u \in sweeps' : u = t \/ u \in sweeps
         /\ swept' = swept \/ (/\ swept' = swept \cup {t.ban} /\ ~t.failed
                               /\ t.pc = "rooms" /\ t.todo = {} /\ t.found = {})
  <1>1. CASE t.pc = "rooms" /\ t.todo = {} /\ t.found = {}
    BY <1>1 DEF Continues, TypeOK, Sweep
  <1>2. CASE ~(t.pc = "rooms" /\ t.todo = {} /\ t.found = {})
    <2>1. sweeps' = (sweeps \ {s}) \cup {t} /\ swept' = swept
      BY <1>2 DEF Continues
    <2> QED  BY <2>1 DEF TypeOK
  <1> QED  BY <1>1, <1>2

\* What each step of a sweep makes of it, and of the rooms.
LEMMA SweepMoves ==
  ASSUME TypeOK, NEW s \in sweeps, SweepStep(s)
  PROVE  \E t \in Sweep :
           /\ Continues(s, t) /\ t.ban = s.ban
           /\ \/ /\ s.pc = "list" /\ UNCHANGED inRoom
                 /\ t.failed \/ t.todo = Occupied
              \/ /\ t.pc = s.pc /\ UNCHANGED inRoom
                 /\ t.failed \/ (/\ t.failed = s.failed /\ t.found = s.found
                                 /\ \E r \in s.todo : /\ t.todo = s.todo \ {r}
                                                      /\ inRoom[Swept(s)][r] = {})
              \/ /\ t.pc = s.pc /\ UNCHANGED inRoom /\ t.failed = s.failed
                 /\ \E r \in s.todo : t.todo = s.todo \ {r} /\ t.found = s.found \cup {r}
              \/ /\ t.pc = s.pc /\ t.failed = s.failed /\ t.todo = s.todo
                 /\ \E r \in Rooms : /\ t.found = s.found \ {r}
                                     /\ inRoom' = [inRoom EXCEPT ![Swept(s)][r] = {}]
  <1>0. s \in Sweep
    BY DEF TypeOK
  <1>1. CASE SweepLists(s)
    <2>1. /\ [s EXCEPT !.pc = "rooms", !.todo = Occupied] \in Sweep
          /\ [s EXCEPT !.pc = "rooms", !.failed = TRUE] \in Sweep
      BY <1>0 DEF Sweep, Occupied
    <2>2. s.pc = "list" /\ UNCHANGED inRoom
      BY <1>1 DEF SweepLists, roomVars
    <2>3. CASE Continues(s, [s EXCEPT !.pc = "rooms", !.todo = Occupied])
      BY <1>0, <2>1, <2>2, <2>3 DEF Sweep
    <2>4. CASE Continues(s, [s EXCEPT !.pc = "rooms", !.failed = TRUE])
      BY <1>0, <2>1, <2>2, <2>4 DEF Sweep
    <2> QED  BY <1>1, <2>3, <2>4 DEF SweepLists
  <1>2. ASSUME NEW r \in Rooms, SweepLooks(s, r)
        PROVE  \E t \in Sweep :
           /\ Continues(s, t) /\ t.ban = s.ban /\ t.pc = s.pc /\ UNCHANGED inRoom
           /\ \/ t.failed
              \/ (/\ t.failed = s.failed /\ t.found = s.found
                  /\ \E x \in s.todo : t.todo = s.todo \ {x} /\ inRoom[Swept(s)][x] = {})
              \/ (/\ t.failed = s.failed
                  /\ \E x \in s.todo : t.todo = s.todo \ {x} /\ t.found = s.found \cup {x})
    <2>1. /\ Found(s, r) \in Sweep /\ [s EXCEPT !.todo = @ \ {r}] \in Sweep
          /\ [s EXCEPT !.todo = @ \ {r}, !.failed = TRUE] \in Sweep
      BY <1>0 DEF Sweep, Found
    <2>2. r \in s.todo /\ UNCHANGED inRoom
      BY <1>2 DEF SweepLooks, roomVars
    <2>3. CASE Continues(s, Found(s, r))
      BY <1>0, <2>1, <2>2, <2>3 DEF Sweep, Found
    <2>4. CASE inRoom[Swept(s)][r] = {} /\ Continues(s, [s EXCEPT !.todo = @ \ {r}])
      BY <1>0, <2>1, <2>2, <2>4 DEF Sweep
    <2>5. CASE Continues(s, [s EXCEPT !.todo = @ \ {r}, !.failed = TRUE])
      BY <1>0, <2>1, <2>2, <2>5 DEF Sweep
    <2> QED  BY <1>2, <2>3, <2>4, <2>5 DEF SweepLooks
  <1>3. ASSUME NEW r \in Rooms, SweepRemoves(s, r)
        PROVE  \E t \in Sweep :
           /\ Continues(s, t) /\ t.ban = s.ban /\ t.pc = s.pc
           /\ \/ t.failed /\ UNCHANGED inRoom
              \/ (/\ t.failed = s.failed /\ t.todo = s.todo /\ t.found = s.found \ {r}
                  /\ inRoom' = [inRoom EXCEPT ![Swept(s)][r] = {}])
    <2>1. /\ [s EXCEPT !.found = @ \ {r}] \in Sweep
          /\ [s EXCEPT !.found = @ \ {r}, !.failed = TRUE] \in Sweep
      BY <1>0 DEF Sweep
    <2>2. CASE /\ inRoom' = [inRoom EXCEPT ![Swept(s)][r] = {}]
               /\ Continues(s, [s EXCEPT !.found = @ \ {r}])
      BY <1>0, <2>1, <2>2 DEF Sweep
    <2>3. CASE Continues(s, [s EXCEPT !.found = @ \ {r}, !.failed = TRUE]) /\ UNCHANGED inRoom
      BY <1>0, <2>1, <2>3 DEF Sweep
    <2> QED  BY <1>3, <2>2, <2>3 DEF SweepRemoves
  <1> QED
    BY <1>1, <1>2, <1>3 DEF SweepStep

LEMMA SweepRest ==
  ASSUME NEW s \in sweeps, SweepStep(s)
  PROVE  /\ UNCHANGED <<now, banVars, connectionVars, tokens, requestVars>>
         /\ UNCHANGED faults \/ Spend
  BY DEF SweepStep, SweepLists, SweepLooks, SweepRemoves, roomVars

LEMMA SweepStepTypes ==
  ASSUME TypeOK, NEW s \in sweeps, SweepStep(s)
  PROVE  TypeOK' /\ UNCHANGED <<requests, requested>>
  <1>1. sweeps' \subseteq Sweep /\ swept' \subseteq BanIds
    BY SweepMoves, ContinuesTypes
  <1>2. inRoom' \in [Players -> [Rooms -> SUBSET Session]]
    <2>1. \/ UNCHANGED inRoom
          \/ \E r \in Rooms : inRoom' = [inRoom EXCEPT ![Swept(s)][r] = {}]
      BY SweepMoves
    <2>2. inRoom \in [Players -> [Rooms -> SUBSET Session]]
      BY DEF TypeOK
    <2>3. ASSUME NEW r \in Rooms, inRoom' = [inRoom EXCEPT ![Swept(s)][r] = {}]
          PROVE  inRoom' \in [Players -> [Rooms -> SUBSET Session]]
      BY <2>2, <2>3
    <2> QED  BY <2>1, <2>2, <2>3
  <1>3. faults' \in 0 .. MaxFaults
    BY SweepRest, SpendTypes DEF TypeOK
  <1> QED
    BY <1>1, <1>2, <1>3, SweepRest DEF TypeOK, banVars, connectionVars, requestVars

LEMMA LiftTypes ==
  ASSUME TypeOK, NEW p \in Players, LiftsBan(p)
  PROVE  TypeOK' /\ UNCHANGED <<requests, requested>> /\ Len(bans') = Len(bans) /\ BansGrow
  <1>1. bans' = liftBan(p) /\ UNCHANGED <<now, covers, connectionVars, roomVars, requestVars, sweepVars, faults>>
    BY DEF LiftsBan
  <1>2. bans' \in Seq(Ban) /\ Len(bans') = Len(bans) /\ BansGrow
    BY <1>1, LiftedBans
  <1> QED
    BY <1>1, <1>2 DEF TypeOK, connectionVars, roomVars, requestVars, sweepVars

-----------------------------------------------------------------------------
(* Every step                                                              *)

LEMMA TypesKept == TypeOK /\ Counted /\ [Next]_vars => TypeOK' /\ Counted'
  <1> SUFFICES ASSUME TypeOK, Counted, [Next]_vars PROVE TypeOK' /\ Counted'  OBVIOUS
  <1>1. ASSUME UNCHANGED <<requests, requested>>, Len(bans') = Len(bans) PROVE Counted'
    BY <1>1 DEF Counted
  <1>2. CASE Tick \/ UNCHANGED vars \/ (\E t \in tokens : Enters(t))
             \/ (\E p \in Players, r \in Rooms : Leaves(p, r))
    BY <1>1, <1>2, RoomStepTypes DEF Tick, vars, Enters, Leaves, banVars
  <1>3. ASSUME NEW p \in Players, LiftsBan(p) PROVE TypeOK' /\ Counted'
    BY <1>1, <1>3, LiftTypes
  <1>4. ASSUME NEW p \in Players, NEW d \in Durations, BanRequested(p, d) PROVE TypeOK' /\ Counted'
    BY <1>4, BanRequestedTypes
  <1>5. ASSUME NEW p \in Players, NEW d \in Devices \cup {NoDevice}, NEW r \in Rooms,
               VisitRequested(p, d, r)
        PROVE  TypeOK' /\ Counted'
    <2>1. TypeOK' /\ requested' = requested + 1 /\ UNCHANGED <<requests, bans>>
      BY <1>5, VisitRequestedTypes DEF VisitRequested, banVars
    <2>2. Cardinality(requests) \in Nat /\ Len(bans) \in Nat /\ requested \in Nat
      BY NumbersKnown, FS_CardinalityType DEF Counted
    <2> QED  BY <2>1, <2>2 DEF Counted
  <1>6. ASSUME NEW v \in visits, VisitStep(v) PROVE TypeOK' /\ Counted'
    BY <1>1, <1>6, VisitStepTypes DEF VisitStep, StoresConnection, ChecksBan, SignsToken,
       Refuses, banVars
  <1>7. ASSUME NEW q \in requests, BanStep(q) PROVE TypeOK' /\ Counted'
    BY <1>7, BanStepTypes
  <1>8. ASSUME NEW s \in sweeps, SweepStep(s) PROVE TypeOK' /\ Counted'
    BY <1>1, <1>8, SweepStepTypes, SweepRest DEF banVars
  <1> QED
    BY <1>2, <1>3, <1>4, <1>5, <1>6, <1>7, <1>8, ModerationAssumption DEF Next

LEMMA BansGrowAlways == TypeOK /\ [Next]_vars => BansGrow
  <1> SUFFICES ASSUME TypeOK, [Next]_vars PROVE BansGrow  OBVIOUS
  <1>1. ASSUME NEW p \in Players, LiftsBan(p) PROVE BansGrow
    BY <1>1, LiftTypes
  <1>2. ASSUME NEW q \in requests, BanStep(q) PROVE BansGrow
    BY <1>2, InsertedBan, BansLeftAlone DEF BanStep, ChecksBanned, ReadsDevice, BanFails
  <1>3. ASSUME NEW v \in visits, VisitStep(v) PROVE BansGrow
    BY <1>3, BansLeftAlone DEF VisitStep, StoresConnection, ChecksBan, SignsToken, Refuses
  <1>4. ASSUME NEW s \in sweeps, SweepStep(s) PROVE BansGrow
    BY <1>4, BansLeftAlone, SweepRest
  <1>5. CASE Tick \/ UNCHANGED vars \/ (\E t \in tokens : Enters(t))
             \/ (\E p \in Players, r \in Rooms : Leaves(p, r))
             \/ (\E p \in Players, d \in Durations : BanRequested(p, d))
             \/ (\E p \in Players, d \in Devices \cup {NoDevice}, r \in Rooms : VisitRequested(p, d, r))
    BY <1>5, BansLeftAlone DEF Tick, vars, Enters, Leaves, BanRequested, VisitRequested
  <1> QED
    BY <1>1, <1>2, <1>3, <1>4, <1>5, ModerationAssumption DEF Next

-----------------------------------------------------------------------------
(* The parts of the invariant                                              *)

LEMMA InvInit == Init => ModerationInv
  <1> SUFFICES ASSUME Init PROVE ModerationInv  OBVIOUS
  <1>1. TypeOK /\ Counted /\ Len(bans) = 0
    BY TypeInit, EmptySeq DEF Init
  <1>2. DevicesKnown
    <2>1. \A p \in Players : connection[p] \in Devices \cup {NoDevice}
                             /\ seen[p] = {connection[p]} \ {NoDevice}
      BY <1>1 DEF Init
    <2> QED
      BY <1>1, <2>1 DEF Init, DevicesKnown
  <1>3. VisitsKnown /\ TokensOver /\ SessionsOver /\ SweepsClear
    BY <1>1 DEF Init, VisitsKnown, TokensOver, SessionsOver, SweepsClear
  <1> QED  BY <1>1, <1>2, <1>3 DEF ModerationInv

\* Devices: what is recorded only grows.
LEMMA DevicesStay ==
  ASSUME TypeOK, DevicesKnown, BansGrow, Len(bans') = Len(bans), UNCHANGED connectionVars,
         \A q \in requests' : \/ q.device = q.seen /\ q.device = NoDevice
                              \/ q.device = q.seen /\ q.device \in seen[q.player]
  PROVE  DevicesKnown'
  BY DEF DevicesKnown, BansGrow, connectionVars

LEMMA DevicesKept == ASSUME ModerationInv, [Next]_vars PROVE DevicesKnown'
  <1> USE DEF ModerationInv
  <1>0. TypeOK /\ TypeOK' /\ BansGrow /\ Len(bans) \in Nat
    BY TypesKept, BansGrowAlways, NumbersKnown
  <1>1. ASSUME UNCHANGED <<bans, connectionVars, requests>> PROVE DevicesKnown'
    BY <1>0, <1>1, DevicesStay DEF DevicesKnown
  <1>2. ASSUME NEW v \in visits, VisitStep(v) PROVE DevicesKnown'
    <2>1. CASE ChecksBan(v) \/ SignsToken(v) \/ \E denylisted \in BOOLEAN : Refuses(v, denylisted)
      BY <1>1, <2>1 DEF ChecksBan, SignsToken, Refuses, banVars
    <2>2. CASE StoresConnection(v)
      <3>1. v.player \in Players /\ v.device \in Devices \cup {NoDevice}
        BY <1>0 DEF TypeOK, Visit
      <3>2. UNCHANGED <<bans, covers, requests>>
        BY <2>2 DEF StoresConnection, banVars
      <3>3. CASE UNCHANGED connectionVars
        BY <1>1, <3>2, <3>3
      <3>4. CASE v.device = NoDevice /\ UNCHANGED <<seen, last>>
                 /\ connection' = [connection EXCEPT ![v.player] = upsertPlayerConnection(@, v.device)]
        <4>1. connection' = connection
          BY <1>0, <3>4 DEF TypeOK, upsertPlayerConnection
        <4> QED  BY <1>1, <3>2, <3>4, <4>1 DEF connectionVars
      <3>5. CASE /\ v.device # NoDevice
                 /\ connection' = [connection EXCEPT ![v.player] = upsertPlayerConnection(@, v.device)]
                 /\ seen' = [seen EXCEPT ![v.player] = @ \cup {v.device}]
                 /\ last' = [last EXCEPT ![v.player] = v.device]
        <4>1. connection' = last'
          BY <1>0, <3>1, <3>5 DEF DevicesKnown, TypeOK, upsertPlayerConnection
        <4>2. \A p \in Players : seen[p] \subseteq seen'[p]
          BY <1>0, <3>1, <3>5 DEF TypeOK
        <4>3. ASSUME NEW p \in Players, connection'[p] # NoDevice PROVE connection'[p] \in seen'[p]
          <5>1. CASE p = v.player
            BY <1>0, <3>1, <3>5, <5>1, <4>1 DEF TypeOK
          <5>2. CASE p # v.player
            BY <1>0, <3>1, <3>5, <4>3, <5>2 DEF DevicesKnown, TypeOK
          <5> QED  BY <5>1, <5>2
        <4>4. /\ \A q \in requests : q.player \in Players
              /\ \A i \in 1 .. Len(bans) : bans[i].address \in Players
          BY <1>0, NumbersKnown DEF TypeOK, BanRequest, Ban
        <4> QED
          BY <3>2, <4>1, <4>2, <4>3, <4>4 DEF DevicesKnown
      <3> QED  BY <2>2, <3>3, <3>4, <3>5 DEF StoresConnection, connectionVars
    <2> QED  BY <1>2, <2>1, <2>2 DEF VisitStep
  <1>3. ASSUME NEW p \in Players, NEW d \in Durations, BanRequested(p, d) PROVE DevicesKnown'
    <2>1. \A q \in requests' : q \in requests \/ (q.device = NoDevice /\ q.seen = NoDevice)
      BY <1>3 DEF BanRequested
    <2> QED
      BY <1>0, <1>3, <2>1, DevicesStay DEF BanRequested, DevicesKnown, banVars
  <1>4. ASSUME NEW q \in requests, BanStep(q) PROVE DevicesKnown'
    <2>0. q \in BanRequest /\ q.player \in Players
      BY <1>0 DEF TypeOK, BanRequest
    <2>1. CASE ChecksBanned(q) \/ BanFails(q)
      <3>1. \A s \in requests' : s \in requests \/ (s.device = q.device /\ s.seen = q.seen /\ s.player = q.player)
        <4>1. \A e : LET s == [q EXCEPT !.pc = "device", !.expires = e]
                     IN  s.device = q.device /\ s.seen = q.seen /\ s.player = q.player
          BY <2>0 DEF BanRequest
        <4>2. requests' = requests \ {q} \/
              \E e : requests' = (requests \ {q}) \cup {[q EXCEPT !.pc = "device", !.expires = e]}
          BY <2>1 DEF ChecksBanned, BanFails, Advances
        <4> QED  BY <4>1, <4>2
      <3> QED
        BY <1>0, <2>1, <3>1, DevicesStay DEF ChecksBanned, BanFails, DevicesKnown, banVars
    <2>2. CASE ReadsDevice(q)
      <3>1. \A s \in requests' :
              \/ s \in requests
              \/ s.device = q.device /\ s.seen = q.seen /\ s.player = q.player
              \/ s.device = connection[q.player] /\ s.seen = last[q.player] /\ s.player = q.player
        <4>1. /\ \A d, e : LET s == [q EXCEPT !.pc = "insert", !.device = d, !.seen = e]
                           IN  s.device = d /\ s.seen = e /\ s.player = q.player
              /\ LET s == [q EXCEPT !.pc = "insert"]
                 IN  s.device = q.device /\ s.seen = q.seen /\ s.player = q.player
          BY <2>0 DEF BanRequest
        <4>2. \/ requests' = (requests \ {q}) \cup
                   {[q EXCEPT !.pc = "insert", !.device = connection[q.player], !.seen = last[q.player]]}
              \/ requests' = (requests \ {q}) \cup {[q EXCEPT !.pc = "insert"]}
          BY <2>2 DEF ReadsDevice, Advances
        <4> DEFINE read == [q EXCEPT !.pc = "insert", !.device = connection[q.player], !.seen = last[q.player]]
                   unread == [q EXCEPT !.pc = "insert"]
        <4>3. /\ read.device = connection[q.player] /\ read.seen = last[q.player]
              /\ read.player = q.player
              /\ unread.device = q.device /\ unread.seen = q.seen /\ unread.player = q.player
          BY <4>1
        <4>4. \A s \in requests' : s \in requests \/ s = read \/ s = unread
          BY <4>2
        <4> HIDE DEF read, unread
        <4> QED  BY <4>3, <4>4
      <3> QED
        BY <1>0, <2>0, <2>2, <3>1, DevicesStay DEF ReadsDevice, DevicesKnown, banVars
    <2>3. CASE InsertsBan(q)
      <3>1. /\ Len(bans') = Len(bans) + 1
            /\ bans'[Len(bans')].address = q.player /\ bans'[Len(bans')].device = q.device
            /\ covers'[Len(bans')] = q.seen
        BY <1>0, <2>3, InsertedBan
      <3>2. requests' \subseteq requests /\ UNCHANGED <<connection, seen, last>>
        BY <2>3 DEF InsertsBan, connectionVars
      <3>3. \A i \in 1 .. Len(bans') : i \in 1 .. Len(bans) \/ i = Len(bans')
        BY <1>0, <3>1
      <3>4. ASSUME NEW i \in 1 .. Len(bans')
            PROVE  /\ covers'[i] = bans'[i].device
                   /\ bans'[i].device # NoDevice => bans'[i].device \in seen[bans'[i].address]
        BY <1>0, <3>1, <3>3 DEF DevicesKnown, BansGrow
      <3> QED
        BY <3>2, <3>4 DEF DevicesKnown
    <2> QED  BY <1>4, <2>1, <2>2, <2>3 DEF BanStep
  <1>5. ASSUME NEW p \in Players, LiftsBan(p) PROVE DevicesKnown'
    <2>1. UNCHANGED <<connectionVars, requests>> /\ Len(bans') = Len(bans)
      BY <1>0, <1>5, LiftTypes DEF LiftsBan
    <2> QED
      BY <1>0, <2>1, DevicesStay DEF DevicesKnown
  <1>6. ASSUME NEW s \in sweeps, SweepStep(s) PROVE DevicesKnown'
    BY <1>1, <1>6, SweepRest DEF banVars, requestVars
  <1>7. CASE Tick \/ UNCHANGED vars \/ (\E t \in tokens : Enters(t))
             \/ (\E p \in Players, r \in Rooms : Leaves(p, r))
             \/ (\E p \in Players, d \in Devices \cup {NoDevice}, r \in Rooms : VisitRequested(p, d, r))
    BY <1>1, <1>7 DEF Tick, vars, Enters, Leaves, VisitRequested, banVars, requestVars
  <1> QED
    BY <1>2, <1>3, <1>4, <1>5, <1>6, <1>7, ModerationAssumption DEF Next

LEMMA VisitStays ==
  ASSUME NEW v \in Visit, VisitKnown(v), TypeOK, TypeOK', BansGrow, requested <= requested'
  PROVE  VisitKnown(v)'
  <1>1. /\ requested \in Nat /\ requested' \in Nat /\ v.id \in Nat
        /\ Len(bans) \in Nat /\ Len(bans') \in Nat /\ Len(bans) <= Len(bans')
    BY NumbersKnown, LenProperties, ModerationAssumption DEF BansGrow, TypeOK, Visit
  <1>2. v.id < requested'
    BY <1>1 DEF VisitKnown
  <1> QED
    BY <1>1, <1>2 DEF VisitKnown, BansGrow

\* A request that goes on as w, when w remembers what is so.
LEMMA VisitsGoOn ==
  ASSUME ModerationInv, TypeOK', BansGrow, UNCHANGED requested, NEW v \in visits, NEW w \in Visit,
         w.id = v.id, VisitKnown(w)', Moves(v, w)
  PROVE  VisitsKnown'
  <1>1. ASSUME NEW u \in visits \ {v} PROVE VisitKnown(u)' /\ u.id # v.id
    <2>1. u \in Visit /\ VisitKnown(u) /\ u.id # v.id /\ requested <= requested'
      BY NumbersKnown DEF ModerationInv, VisitsKnown, TypeOK
    <2> QED  BY <2>1, VisitStays DEF ModerationInv
  <1>2. visits' = (visits \ {v}) \cup {w}
    BY DEF Moves
  <1>3. \A u \in visits' : VisitKnown(u)'
    BY <1>1, <1>2
  <1>4. \A t, u \in visits' : t.id = u.id => t = u
    BY <1>1, <1>2 DEF ModerationInv, VisitsKnown
  <1> QED  BY <1>3, <1>4 DEF VisitsKnown

LEMMA VisitStepKeepsVisits ==
  ASSUME ModerationInv, TypeOK', BansGrow, NEW v \in visits, VisitStep(v)
  PROVE  VisitsKnown'
  <1> USE DEF ModerationInv
  <1>0. /\ v \in Visit /\ VisitKnown(v) /\ requested' = requested /\ requested \in Nat
        /\ UNCHANGED <<now, bans, covers>>
    BY VisitStepTypes, NumbersKnown DEF VisitsKnown, TypeOK, VisitStep, StoresConnection, ChecksBan,
       SignsToken, Refuses, banVars
  <1>1. VisitKnown(v)'
    BY <1>0, VisitStays
  <1>2. CASE StoresConnection(v)
    <2> DEFINE w == Done(v, "connection")
    <2>1. /\ w \in Visit /\ w.id = v.id /\ w.player = v.player /\ w.device = v.device
          /\ w.room = v.room /\ w.result = v.result /\ w.known = v.known
          /\ "ban" \in w.todo <=> "ban" \in v.todo
      BY <1>0 DEF Done, Visit
    <2>2. Moves(v, w)
      BY <1>2 DEF StoresConnection
    <2> HIDE DEF w
    <2>3. VisitKnown(w)'
      BY <1>1, <2>1 DEF VisitKnown
    <2> QED  BY <1>0, <2>1, <2>2, <2>3, VisitsGoOn
  <1>3. CASE ChecksBan(v)
    <2> DEFINE w == Done(v, "ban")
    <2>1. /\ w \in Visit /\ w.id = v.id /\ w.player = v.player /\ w.device = v.device
          /\ w.room = v.room /\ w.result = v.result /\ w.known = v.known /\ "ban" \notin w.todo
      BY <1>0 DEF Done, Visit
    <2>2. ASSUME NEW result \in {"unchecked", "banned", "failed"}
          PROVE  LET x == [w EXCEPT !.result = result] IN
                 /\ x \in Visit /\ x.id = v.id /\ x.player = v.player /\ x.device = v.device
                 /\ x.room = v.room /\ x.result = result /\ x.known = v.known /\ "ban" \notin x.todo
      <3> HIDE DEF w
      <3> QED  BY <2>1 DEF Visit
    <2>3. v.result = "admitted"
      BY <1>0, <1>3 DEF ChecksBan, VisitKnown
    <2> HIDE DEF w
    \* No ban in force was found.
    <2>4. CASE ~getActiveBanForConnection(v) /\ Moves(v, w)
      <3>1. \A i \in v.known : ~InForce(i)
        BY <1>0, <2>4 DEF VisitKnown, getActiveBanForConnection, ActiveBans
      <3>2. \A i \in v.known : ~InForce(i)'
        BY <1>0, <3>1 DEF VisitKnown, BansGrow
      <3>3. VisitKnown(w)'
        BY <1>1, <2>1, <2>3, <3>2 DEF VisitKnown
      <3> QED  BY <1>0, <2>1, <2>4, <3>3, VisitsGoOn
    <2>5. ASSUME NEW result \in {"unchecked", "banned", "failed"},
                 Moves(v, [w EXCEPT !.result = result]), result = "unchecked" => v.room \in Scenes
          PROVE  VisitsKnown'
      <3> DEFINE x == [w EXCEPT !.result = result]
      <3>1. /\ x \in Visit /\ x.id = v.id /\ x.player = v.player /\ x.device = v.device
            /\ x.room = v.room /\ x.result = result /\ x.known = v.known /\ "ban" \notin x.todo
        BY <2>2
      <3>2. Moves(v, x)
        BY <2>5
      <3> HIDE DEF x
      <3>3. VisitKnown(x)'
        BY <1>1, <2>5, <3>1 DEF VisitKnown
      <3> QED  BY <1>0, <3>1, <3>2, <3>3, VisitsGoOn
    <2>6. \/ ~getActiveBanForConnection(v) /\ Moves(v, w)
          \/ \E result \in {"unchecked", "banned", "failed"} :
               /\ Moves(v, [w EXCEPT !.result = result])
               /\ result = "unchecked" => v.room \in Scenes
      BY <1>3 DEF ChecksBan, w
    <2> QED  BY <2>4, <2>5, <2>6
  <1>4. CASE SignsToken(v) \/ \E denylisted \in BOOLEAN : Refuses(v, denylisted)
    <2>1. visits' \subseteq visits
      BY <1>4 DEF SignsToken, Refuses
    <2>2. ASSUME NEW u \in visits' PROVE VisitKnown(u)'
      <3>1. u \in Visit /\ VisitKnown(u) /\ requested <= requested'
        BY <1>0, <2>1 DEF VisitsKnown, TypeOK
      <3> QED  BY <3>1, VisitStays
    <2> QED  BY <2>1, <2>2 DEF VisitsKnown
  <1> QED  BY <1>2, <1>3, <1>4 DEF VisitStep

LEMMA VisitsKept == ASSUME ModerationInv, [Next]_vars PROVE VisitsKnown'
  <1> USE DEF ModerationInv
  <1>0. TypeOK /\ TypeOK' /\ BansGrow /\ requested \in Nat /\ requested' \in Nat
    BY TypesKept, BansGrowAlways, NumbersKnown, ModerationAssumption DEF TypeOK
  <1>1. ASSUME UNCHANGED visits, requested' \in {requested, requested + 1} PROVE VisitsKnown'
    <2>1. ASSUME NEW v \in visits PROVE VisitKnown(v)'
      <3>1. v \in Visit /\ VisitKnown(v) /\ requested <= requested'
        BY <1>0, <1>1 DEF VisitsKnown, TypeOK
      <3> QED  BY <1>0, <3>1, VisitStays
    <2> QED  BY <1>1, <2>1 DEF VisitsKnown
  <1>2. ASSUME NEW p \in Players, NEW d \in Devices \cup {NoDevice}, NEW r \in Rooms,
               VisitRequested(p, d, r)
        PROVE  VisitsKnown'
    <2>1. requested' = requested + 1 /\ UNCHANGED <<bans, covers>>
      BY <1>2 DEF VisitRequested, banVars
    <2>2. \A i \in About(p, d) :
            /\ i \in 1 .. Len(bans)
            /\ bans[i].address = p \/ (d # NoDevice /\ bans[i].device = d)
      BY AboutKnown DEF About, DevicesKnown
    <2>3. PICK v : /\ visits' = visits \cup {v}
                   /\ v.id = requested /\ v.player = p /\ v.device = d /\ "ban" \in v.todo
                   /\ v.result = "admitted" /\ v.known = About(p, d)
      <3> DEFINE w == [id |-> requested, player |-> p, device |-> d, room |-> r,
                       todo |-> {"connection", "ban"}, result |-> "admitted",
                       known |-> About(p, d)]
      <3>1. visits' = visits \cup {w}
        BY <1>2 DEF VisitRequested
      <3>2. /\ w.id = requested /\ w.player = p /\ w.device = d /\ "ban" \in w.todo
            /\ w.result = "admitted" /\ w.known = About(p, d)
        OBVIOUS
      <3> HIDE DEF w
      <3> QED  BY <3>1, <3>2
    <2>4. requested < requested'
      BY <1>0, <2>1
    <2>5. VisitKnown(v)'
      BY <2>1, <2>2, <2>3, <2>4 DEF VisitKnown
    <2>6. ASSUME NEW u \in visits PROVE VisitKnown(u)' /\ u.id # requested
      <3>1. u \in Visit /\ VisitKnown(u) /\ requested <= requested'
        BY <1>0, <2>1 DEF VisitsKnown, TypeOK
      <3>2. u.id # requested
        BY <1>0, <3>1 DEF VisitKnown, Visit
      <3> QED  BY <1>0, <3>1, <3>2, VisitStays
    <2>7. \A u \in visits' : VisitKnown(u)'
      BY <2>3, <2>5, <2>6
    <2>8. \A t, u \in visits' : t.id = u.id => t = u
      BY <2>3, <2>6 DEF VisitsKnown
    <2> QED  BY <2>7, <2>8 DEF VisitsKnown
  <1>3. ASSUME NEW v \in visits, VisitStep(v) PROVE VisitsKnown'
    BY <1>0, <1>3, VisitStepKeepsVisits
  <1>4. ASSUME NEW q \in requests, BanStep(q) PROVE VisitsKnown'
    BY <1>1, <1>4 DEF BanStep, ChecksBanned, ReadsDevice, InsertsBan, BanFails
  <1>5. ASSUME NEW p \in Players, LiftsBan(p) PROVE VisitsKnown'
    BY <1>1, <1>5 DEF LiftsBan, requestVars
  <1>6. ASSUME NEW s \in sweeps, SweepStep(s) PROVE VisitsKnown'
    BY <1>1, <1>6, SweepRest DEF requestVars
  <1>7. CASE Tick \/ UNCHANGED vars \/ (\E t \in tokens : Enters(t))
             \/ (\E p \in Players, r \in Rooms : Leaves(p, r))
             \/ (\E p \in Players, d \in Durations : BanRequested(p, d))
    BY <1>1, <1>7 DEF Tick, vars, Enters, Leaves, BanRequested, requestVars
  <1> QED
    BY <1>2, <1>3, <1>4, <1>5, <1>6, <1>7, ModerationAssumption DEF Next

\* Who is in a room was there before, or came with a token; few steps know of either.
LEMMA SessionsAfter ==
  ASSUME ModerationInv, [Next]_vars, NEW p \in Players, NEW r \in Rooms
  PROVE  \A session \in inRoom'[p][r] :
           \/ session \in inRoom[p][r]
           \/ session.bans = Len(bans) /\ \E t \in tokens : session.known = t.known
  <1> USE DEF ModerationInv
  <1>0. inRoom \in [Players -> [Rooms -> SUBSET Session]]
    BY DEF TypeOK
  <1>1. ASSUME NEW t \in tokens, Enters(t)
        PROVE  \A session \in inRoom'[p][r] :
                 session \in inRoom[p][r] \/ (session.bans = Len(bans) /\ session.known = t.known)
    <2>1. inRoom' = [inRoom EXCEPT ![t.player][t.room] = {[bans |-> Len(bans), known |-> t.known]}]
      BY <1>1 DEF Enters
    <2>2. \/ inRoom'[p][r] = inRoom[p][r]
          \/ inRoom'[p][r] = {[bans |-> Len(bans), known |-> t.known]}
      BY <1>0, <2>1
    <2> QED  BY <2>2
  <1>2. ASSUME NEW q, NEW x, inRoom' = [inRoom EXCEPT ![q][x] = {}]
        PROVE  inRoom'[p][r] \subseteq inRoom[p][r]
    BY <1>0, <1>2
  <1>3. ASSUME NEW q \in Players, NEW x \in Rooms, Leaves(q, x)
        PROVE  inRoom'[p][r] \subseteq inRoom[p][r]
    BY <1>2, <1>3 DEF Leaves
  <1>4. ASSUME NEW s \in sweeps, SweepStep(s) PROVE inRoom'[p][r] \subseteq inRoom[p][r]
    <2>1. \/ UNCHANGED inRoom
          \/ \E x \in Rooms : inRoom' = [inRoom EXCEPT ![Swept(s)][x] = {}]
      BY <1>4, SweepMoves
    <2>2. CASE UNCHANGED inRoom
      BY <2>2
    <2>3. ASSUME NEW x \in Rooms, inRoom' = [inRoom EXCEPT ![Swept(s)][x] = {}]
          PROVE  inRoom'[p][r] \subseteq inRoom[p][r]
      BY <1>0, <2>3
    <2> QED  BY <2>1, <2>2, <2>3
  <1>5. CASE UNCHANGED inRoom
    BY <1>5
  <1>6. ASSUME NEW v \in visits, VisitStep(v) PROVE UNCHANGED inRoom
    BY <1>6 DEF VisitStep, StoresConnection, ChecksBan, SignsToken, Refuses, roomVars
  <1>7. ASSUME NEW q \in requests, BanStep(q) PROVE UNCHANGED inRoom
    BY <1>7 DEF BanStep, ChecksBanned, ReadsDevice, InsertsBan, BanFails, roomVars
  <1>8. CASE Tick \/ UNCHANGED vars \/ (\E q \in Players : LiftsBan(q))
             \/ (\E q \in Players, d \in Durations : BanRequested(q, d))
             \/ (\E q \in Players, d \in Devices \cup {NoDevice}, x \in Rooms : VisitRequested(q, d, x))
    BY <1>5, <1>8 DEF Tick, vars, LiftsBan, BanRequested, VisitRequested, roomVars
  <1> QED
    BY <1>1, <1>3, <1>4, <1>5, <1>6, <1>7, <1>8, ModerationAssumption DEF Next

LEMMA TokensKept == ASSUME ModerationInv, [Next]_vars PROVE TokensOver' /\ SessionsOver'
  <1> USE DEF ModerationInv
  <1>0. TypeOK /\ TypeOK' /\ BansGrow
    BY TypesKept, BansGrowAlways
  <1>1. ASSUME NEW t \in tokens PROVE Over(t.known)'
    <2>1. Over(t.known)
      BY DEF TokensOver
    <2> QED  BY <1>0, <2>1, OverKept
  <1>2. ASSUME NEW v \in visits, SignsToken(v), NEW t \in tokens' \ tokens PROVE Over(t.known)'
    <2>1. t.known = IF v.result = "unchecked" THEN {} ELSE v.known
      BY <1>2 DEF SignsToken
    <2>2. Over(t.known)
      BY <1>2, <2>1 DEF SignsToken, VisitsKnown, VisitKnown, Over
    <2> QED  BY <1>0, <2>2, OverKept
  <1>3. \/ UNCHANGED tokens
        \/ \E v \in visits : SignsToken(v)
    <2>1. ASSUME NEW v \in visits, VisitStep(v) PROVE UNCHANGED tokens \/ SignsToken(v)
      BY <2>1 DEF VisitStep, StoresConnection, ChecksBan, Refuses, roomVars
    <2>2. ASSUME NEW q \in requests, BanStep(q) PROVE UNCHANGED tokens
      BY <2>2 DEF BanStep, ChecksBanned, ReadsDevice, InsertsBan, BanFails, roomVars
    <2>3. ASSUME NEW s \in sweeps, SweepStep(s) PROVE UNCHANGED tokens
      BY <2>3, SweepRest
    <2>4. CASE Tick \/ UNCHANGED vars \/ (\E t \in tokens : Enters(t))
               \/ (\E p \in Players, r \in Rooms : Leaves(p, r))
               \/ (\E q \in Players : LiftsBan(q))
               \/ (\E q \in Players, d \in Durations : BanRequested(q, d))
               \/ (\E q \in Players, d \in Devices \cup {NoDevice}, x \in Rooms : VisitRequested(q, d, x))
      BY <2>4 DEF Tick, vars, Enters, Leaves, LiftsBan, BanRequested, VisitRequested, roomVars
    <2> QED
      BY <2>1, <2>2, <2>3, <2>4, ModerationAssumption DEF Next
  <1>4. TokensOver'
    <2> SUFFICES ASSUME NEW t \in tokens' PROVE Over(t.known)'
      BY DEF TokensOver
    <2> QED  BY <1>1, <1>2, <1>3
  <1>5. ASSUME NEW p \in Players, NEW r \in Rooms, NEW session \in inRoom'[p][r]
        PROVE  Over(session.known)'
    <2>1. CASE session \in inRoom[p][r]
      BY <1>0, <2>1, OverKept DEF SessionsOver
    <2>2. ASSUME NEW t \in tokens, session.known = t.known PROVE Over(session.known)'
      <3>1. Over(t.known)'
        BY <1>1
      <3> QED  BY <2>2, <3>1 DEF Over
    <2> QED  BY <2>1, <2>2, SessionsAfter
  <1>6. SessionsOver'
    BY <1>5 DEF SessionsOver
  <1> QED  BY <1>4, <1>6

\* Who comes in comes in after the ban.
LEMMA ClearStays ==
  ASSUME ModerationInv, [Next]_vars, NEW i \in 1 .. Len(bans), NEW r \in Rooms, Clear(i, r)
  PROVE  Clear(i, r)' /\ i \in 1 .. Len(bans')
  <1>0. TypeOK /\ TypeOK' /\ BansGrow /\ Len(bans) \in Nat /\ Len(bans') \in Nat
    BY TypesKept, BansGrowAlways, NumbersKnown, LenProperties DEF ModerationInv, TypeOK
  <1>1. bans'[i].address = bans[i].address /\ bans[i].address \in Players
    BY <1>0, NumbersKnown DEF BansGrow, Ban
  <1>2. \A session \in inRoom'[bans[i].address][r] : session.bans >= i
    <2>1. \A session \in inRoom'[bans[i].address][r] :
            session \in inRoom[bans[i].address][r] \/ session.bans = Len(bans)
      BY <1>1, SessionsAfter
    <2> QED  BY <1>0, <2>1 DEF Clear
  <1> QED
    BY <1>0, <1>1, <1>2 DEF Clear, BansGrow

LEMMA SweepStepKeepsSweeps ==
  ASSUME ModerationInv, [Next]_vars, NEW s \in sweeps, SweepStep(s) PROVE SweepsClear'
  <1> USE DEF ModerationInv
  <1>0. /\ TypeOK /\ UNCHANGED bans /\ s \in Sweep /\ s.ban \in 1 .. Len(bans)
        /\ Swept(s) \in Players /\ Swept(s) = bans[s.ban].address
    BY SweepRest, NumbersKnown DEF TypeOK, SweepsClear, Swept, Ban, banVars
  <1>1. ASSUME NEW i \in 1 .. Len(bans), NEW r \in Rooms, Clear(i, r) PROVE Clear(i, r)'
    BY <1>1, ClearStays
  <1>2. PICK t \in Sweep :
           /\ Continues(s, t) /\ t.ban = s.ban
           /\ \/ /\ s.pc = "list" /\ UNCHANGED inRoom
                 /\ t.failed \/ t.todo = Occupied
              \/ /\ t.pc = s.pc /\ UNCHANGED inRoom
                 /\ t.failed \/ (/\ t.failed = s.failed /\ t.found = s.found
                                 /\ \E r \in s.todo : /\ t.todo = s.todo \ {r}
                                                      /\ inRoom[Swept(s)][r] = {})
              \/ /\ t.pc = s.pc /\ UNCHANGED inRoom /\ t.failed = s.failed
                 /\ \E r \in s.todo : t.todo = s.todo \ {r} /\ t.found = s.found \cup {r}
              \/ /\ t.pc = s.pc /\ t.failed = s.failed /\ t.todo = s.todo
                 /\ \E r \in Rooms : /\ t.found = s.found \ {r}
                                     /\ inRoom' = [inRoom EXCEPT ![Swept(s)][r] = {}]
    BY <1>0, SweepMoves
  \* The sweep that goes on leaves behind only rooms without the player.
  <1>3. ASSUME t.pc = "rooms", ~t.failed, NEW r \in Rooms \ (t.todo \cup t.found)
        PROVE  Clear(s.ban, r)'
    <2>0. ASSUME s.pc = "rooms", ~s.failed, NEW x \in Rooms \ (s.todo \cup s.found)
          PROVE  Clear(s.ban, x)'
      BY <1>0, <1>1, <2>0 DEF SweepsClear
    <2>1. ASSUME inRoom[Swept(s)][r] = {}, UNCHANGED inRoom PROVE Clear(s.ban, r)'
      BY <1>0, <2>1 DEF Clear
    <2>2. CASE UNCHANGED inRoom /\ t.todo = Occupied
      <3>1. inRoom[Swept(s)][r] = {}
        BY <1>0, <1>3, <2>2 DEF Occupied
      <3> QED  BY <2>1, <2>2, <3>1
    <2>3. ASSUME t.pc = s.pc, UNCHANGED inRoom, t.failed = s.failed, t.found = s.found,
                 NEW x \in s.todo, t.todo = s.todo \ {x}, inRoom[Swept(s)][x] = {}
          PROVE  Clear(s.ban, r)'
      <3>1. CASE r = x
        BY <2>1, <2>3, <3>1
      <3>2. CASE r # x
        BY <1>3, <2>0, <2>3, <3>2
      <3> QED  BY <3>1, <3>2
    <2>4. ASSUME t.pc = s.pc, t.failed = s.failed, NEW x \in s.todo,
                 t.todo = s.todo \ {x}, t.found = s.found \cup {x}
          PROVE  Clear(s.ban, r)'
      BY <1>3, <2>0, <2>4
    <2>5. ASSUME t.pc = s.pc, t.failed = s.failed, t.todo = s.todo, NEW x \in Rooms,
                 t.found = s.found \ {x}, inRoom' = [inRoom EXCEPT ![Swept(s)][x] = {}]
          PROVE  Clear(s.ban, r)'
      <3>1. CASE r = x
        <4>1. inRoom'[Swept(s)][r] = {}
          BY <1>0, <2>5, <3>1 DEF TypeOK
        <4> QED  BY <1>0, <4>1 DEF Clear
      <3>2. CASE r # x
        BY <1>3, <2>0, <2>5, <3>2
      <3> QED  BY <3>1, <3>2
    <2> QED  BY <1>2, <1>3, <2>2, <2>3, <2>4, <2>5
  <1>4. /\ \A u \in sweeps' : u = t \/ u \in sweeps
        /\ swept' = swept \/ (/\ swept' = swept \cup {t.ban} /\ ~t.failed
                              /\ t.pc = "rooms" /\ t.todo = {} /\ t.found = {})
    BY <1>0, <1>2, ContinuesTypes
  <1>5. ASSUME NEW u \in sweeps'
        PROVE  /\ u.ban \in 1 .. Len(bans')
               /\ u.pc = "rooms" /\ ~u.failed =>
                    \A r \in Rooms \ (u.todo \cup u.found) : Clear(u.ban, r)'
    <2>1. CASE u = t
      BY <1>0, <1>2, <1>3, <2>1
    <2>2. CASE u \in sweeps
      BY <1>0, <1>1, <2>2 DEF SweepsClear
    <2> QED  BY <1>4, <2>1, <2>2
  <1>6. ASSUME NEW i \in swept' PROVE i \in 1 .. Len(bans') /\ \A r \in Rooms : Clear(i, r)'
    <2>1. CASE i \in swept
      BY <1>0, <1>1, <2>1 DEF SweepsClear
    <2>2. CASE i \notin swept
      <3>1. i = s.ban /\ ~t.failed /\ t.pc = "rooms" /\ t.todo = {} /\ t.found = {}
        BY <1>2, <1>4, <2>2
      <3>2. ASSUME NEW r \in Rooms PROVE Clear(s.ban, r)'
        BY <1>3, <3>1
      <3> QED  BY <1>0, <3>1, <3>2
    <2> QED  BY <2>1, <2>2
  <1> QED  BY <1>5, <1>6 DEF SweepsClear

LEMMA SweepsKept == ASSUME ModerationInv, [Next]_vars PROVE SweepsClear'
  <1> USE DEF ModerationInv
  <1>0. TypeOK /\ BansGrow /\ Len(bans) \in Nat
    BY BansGrowAlways, NumbersKnown
  <1>1. ASSUME UNCHANGED swept,
               \A s \in sweeps' : s \in sweeps \/ (s.pc = "list" /\ s.ban \in 1 .. Len(bans'))
        PROVE  SweepsClear'
    <2>1. ASSUME NEW s \in sweeps
          PROVE  /\ s.ban \in 1 .. Len(bans')
                 /\ s.pc = "rooms" /\ ~s.failed =>
                      \A r \in Rooms \ (s.todo \cup s.found) : Clear(s.ban, r)'
      <3>1. s.ban \in 1 .. Len(bans) /\ s.ban \in 1 .. Len(bans')
        BY <1>0, LenProperties, TypesKept DEF SweepsClear, BansGrow, TypeOK
      <3>2. ASSUME s.pc = "rooms", ~s.failed, NEW r \in Rooms \ (s.todo \cup s.found)
            PROVE  Clear(s.ban, r)'
        BY <3>1, <3>2, ClearStays DEF SweepsClear
      <3> QED  BY <3>1, <3>2
    <2>2. ASSUME NEW i \in swept PROVE i \in 1 .. Len(bans') /\ \A r \in Rooms : Clear(i, r)'
      <3>1. i \in 1 .. Len(bans) /\ i \in 1 .. Len(bans')
        BY <1>0, LenProperties, TypesKept DEF SweepsClear, BansGrow, TypeOK
      <3>2. ASSUME NEW r \in Rooms PROVE Clear(i, r)'
        BY <3>1, <3>2, ClearStays DEF SweepsClear
      <3> QED  BY <3>1, <3>2
    <2> QED  BY <1>1, <2>1, <2>2 DEF SweepsClear
  <1>2. ASSUME NEW s \in sweeps, SweepStep(s) PROVE SweepsClear'
    BY <1>2, SweepStepKeepsSweeps
  <1>3. ASSUME NEW q \in requests, InsertsBan(q) PROVE SweepsClear'
    <2>1. Len(bans') = Len(bans) + 1
      BY <1>0, <1>3, InsertedBan
    <2>2. Len(bans) + 1 \in 1 .. Len(bans')
      BY <1>0, <2>1
    <2>3. \A s \in sweeps' : s \in sweeps \/ (s.pc = "list" /\ s.ban = Len(bans) + 1)
      BY <1>3 DEF InsertsBan
    <2> QED  BY <1>1, <1>3, <2>2, <2>3 DEF InsertsBan
  <1>4. ASSUME UNCHANGED sweepVars PROVE SweepsClear'
    BY <1>1, <1>4 DEF sweepVars
  <1>5. ASSUME NEW v \in visits, VisitStep(v) PROVE SweepsClear'
    BY <1>4, <1>5 DEF VisitStep, StoresConnection, ChecksBan, SignsToken, Refuses
  <1>6. ASSUME NEW q \in requests, BanStep(q) PROVE SweepsClear'
    BY <1>3, <1>4, <1>6 DEF BanStep, ChecksBanned, ReadsDevice, BanFails
  <1>7. CASE Tick \/ UNCHANGED vars \/ (\E t \in tokens : Enters(t))
             \/ (\E p \in Players, r \in Rooms : Leaves(p, r))
             \/ (\E q \in Players : LiftsBan(q))
             \/ (\E q \in Players, d \in Durations : BanRequested(q, d))
             \/ (\E q \in Players, d \in Devices \cup {NoDevice}, x \in Rooms : VisitRequested(q, d, x))
    BY <1>4, <1>7 DEF Tick, vars, Enters, Leaves, LiftsBan, BanRequested, VisitRequested
  <1> QED
    BY <1>2, <1>5, <1>6, <1>7, ModerationAssumption DEF Next

-----------------------------------------------------------------------------
(* The theorems                                                            *)

LEMMA InvKept == ModerationInv /\ [Next]_vars => ModerationInv'
  BY TypesKept, DevicesKept, VisitsKept, TokensKept, SweepsKept DEF ModerationInv

\* The variables keep their types, and there are no more bans than requests.
THEOREM TypeCorrect == Spec => []TypeOK
  <1>1. ModerationInv => TypeOK
    BY DEF ModerationInv
  <1> QED
    BY <1>1, InvInit, InvKept, PTL DEF Spec

\* A lift takes every ban of the player out of force, those of racing requests included.
THEOREM LiftsComplete == Spec => LiftsAreComplete
  <1> DEFINE Complete == \A p \in Players : LiftsBan(p) => ~isPlayerBanned(p)'
  <1>1. TypeOK => Complete
    <2> SUFFICES ASSUME TypeOK, NEW p \in Players, LiftsBan(p) PROVE ~isPlayerBanned(p)'
      OBVIOUS
    <2>1. /\ Len(bans') = Len(bans) /\ BansGrow
          /\ \A i \in 1 .. Len(bans) : bans[i].address = p => ~InForce(i)'
      BY LiftedBans DEF LiftsBan
    <2> QED
      BY <2>1 DEF isPlayerBanned, ActiveBans, BansGrow
  <1>2. TypeOK => [Complete]_vars
    BY <1>1
  <1> QED
    BY <1>2, TypeCorrect, PTL DEF LiftsAreComplete

\* No token is signed past a ban that was there when it was asked for, unless a scene
\* could not look the ban up; the private messages give out none then.
THEOREM TokensRight == Spec => TokensRespectBans
  <1> DEFINE Respect == \A v \in visits : SignsToken(v) =>
                \A i \in v.known : InForce(i) => v.result = "unchecked" /\ v.room # MessagesRoom
  <1>1. ModerationInv => Respect
    BY ModerationAssumption DEF ModerationInv, VisitsKnown, VisitKnown, SignsToken
  <1>2. ModerationInv => [Respect]_vars
    BY <1>1
  <1> QED
    BY <1>2, InvInit, InvKept, PTL DEF Spec, TokensRespectBans

\* Only banned players, and whoever uses a device of theirs, are refused as banned.
THEOREM RefusalsRight == Spec => OnlyBannedAreRefused
  <1> DEFINE Banned == \A v \in visits : ChecksBan(v) =>
                \A w \in visits' : w.id = v.id /\ w.result = "banned" =>
                  \E i \in ActiveBans :
                    bans[i].address = v.player \/ v.device \in seen[bans[i].address]
  <1>1. ModerationInv => Banned
    <2> SUFFICES ASSUME ModerationInv, NEW v \in visits, ChecksBan(v),
                        NEW w \in visits', w.id = v.id, w.result = "banned"
                 PROVE  \E i \in ActiveBans :
                          bans[i].address = v.player \/ v.device \in seen[bans[i].address]
      OBVIOUS
    <2>0. v \in Visit /\ v.result = "admitted"
      BY DEF ModerationInv, TypeOK, VisitsKnown, VisitKnown, ChecksBan
    <2>1. w \notin visits \ {v}
      BY DEF ModerationInv, VisitsKnown
    <2>2. getActiveBanForConnection(v)
      <3>1. Done(v, "ban") \in Visit /\ Done(v, "ban").result = "admitted"
        BY <2>0 DEF Done, Visit
      <3>2. \A result \in {"unchecked", "failed"} :
              [Done(v, "ban") EXCEPT !.result = result].result = result
        BY <3>1 DEF Visit
      <3> QED
        BY <2>1, <3>1, <3>2 DEF ChecksBan, Moves
    <2> QED
      BY <2>2 DEF getActiveBanForConnection, ActiveBans, ModerationInv, DevicesKnown
  <1>2. ModerationInv => [Banned]_vars
    BY <1>1
  <1> QED
    BY <1>2, InvInit, InvKept, PTL DEF Spec, OnlyBannedAreRefused

\* After a sweep, the banned player is in a room only if he came in later, and with a token
\* that was not asked for in spite of the ban.
THEOREM SweptOut == Spec => []SweptPlayersAreOut
  <1>1. ModerationInv => SweptPlayersAreOut
    <2> SUFFICES ASSUME ModerationInv, NEW i \in swept, InForce(i), NEW r \in Rooms,
                        NEW session \in inRoom[bans[i].address][r]
                 PROVE  session.bans >= i /\ i \notin session.known
      BY DEF SweptPlayersAreOut
    <2>1. i \in 1 .. Len(bans) /\ Clear(i, r)
      BY DEF ModerationInv, SweepsClear
    <2>2. bans[i].address \in Players
      BY <2>1, NumbersKnown DEF ModerationInv, Ban
    <2>3. Over(session.known)
      BY <2>2 DEF ModerationInv, SessionsOver
    <2> QED
      BY <2>1, <2>3 DEF Clear, Over
  <1> QED
    BY <1>1, InvInit, InvKept, PTL DEF Spec
=============================================================================
