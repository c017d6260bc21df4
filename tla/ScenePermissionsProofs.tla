----------------------- MODULE ScenePermissionsProofs -----------------------
(***************************************************************************)
(* Proofs about ScenePermissions, for any users, parcels, roles and bounds *)
(* of the model:                                                           *)
(*   - the variables keep their types, and whoever waits for the leases    *)
(*     waits for a request that is under way (TypeCorrect);                *)
(*   - the list of those who may manage a scene is the set of those the    *)
(*     check accepts, on land (LandListRight) and in worlds                *)
(*     (WorldListRight);                                                   *)
(*   - nobody is given leases older than the cache allows (LeasesRecent).  *)
(***************************************************************************)
EXTENDS ScenePermissions, TLAPS

-----------------------------------------------------------------------------
(* Types                                                                   *)

LEMMA TypeInit == Init => TypeOK
  <1> SUFFICES ASSUME Init PROVE TypeOK  OBVIOUS
  <1>0. /\ MaxTime \in Nat \ {0} /\ MaxVersions \in Nat \ {0} /\ MaxChanges \in Nat
        /\ 1 \in 1 .. MaxTime /\ 1 \in 1 .. MaxVersions /\ 0 \in 0 .. MaxChanges
    BY PermissionsAssumption
  <1>1. /\ now \in 1 .. MaxTime /\ isWorld \in BOOLEAN /\ admins \in SUBSET Users
        /\ changes \in 0 .. MaxChanges /\ version \in 1 .. MaxVersions
        /\ cachedAt \in Nat /\ fetching \in BOOLEAN
    BY <1>0 DEF Init, Nobody
  <1>6. cached \in 0 .. version
    BY DEF Init, None
  <1>2. land \in [Positions -> [Roles -> SUBSET Users]] /\ worldOwner \in Users
    BY DEF Init, Nobody
  <1>3. /\ allowed \in [Actions -> SUBSET Users]
        /\ parcels \in [Actions -> [Users -> SUBSET (Positions \cup Elsewhere)]]
    BY DEF Init, Nobody
  <1>4. documents \in [1 .. MaxVersions -> Leases] /\ replaced \in [1 .. MaxVersions -> Nat]
    BY DEF Init, Leases
  <1>5. calls \in [Calls -> Call] /\ \A c \in Calls : calls[c].pc = "idle"
    BY DEF Init, Call, None
  <1> QED
    BY <1>1, <1>2, <1>3, <1>4, <1>5, <1>6 DEF TypeOK

LEMMA ChangeKeepsTypes == ASSUME TypeOK, RightsChange PROVE TypeOK'
  <1>1. ASSUME NEW p \in Positions, NEW r \in Roles, NEW users \in SUBSET Users,
               LandChanges(p, r, users)
        PROVE  TypeOK'
    BY <1>1, PermissionsAssumption DEF LandChanges, Changed, TypeOK, upstreamVars, cacheVars
  <1>2. ASSUME NEW u \in Users, WorldIsTransferred(u) PROVE TypeOK'
    BY <1>2, PermissionsAssumption DEF WorldIsTransferred, Changed, TypeOK, upstreamVars, cacheVars
  <1>3. ASSUME NEW a \in Actions, NEW u \in Users, NEW has \in BOOLEAN,
               NEW limit \in SUBSET (Positions \cup Elsewhere), WorldChanges(a, u, has, limit)
        PROVE  TypeOK'
    BY <1>3, PermissionsAssumption DEF WorldChanges, Changed, TypeOK, upstreamVars, cacheVars
  <1>4. ASSUME NEW caller \in Users, NEW u \in Users, AddAdmin(caller, u) \/ RemoveAdmin(caller, u)
        PROVE  TypeOK'
    BY <1>4, PermissionsAssumption
       DEF AddAdmin, RemoveAdmin, Changed, TypeOK, upstreamVars, cacheVars
  <1> QED
    BY <1>1, <1>2, <1>3, <1>4 DEF RightsChange

LEMMA CacheKeepsTypes ==
  ASSUME TypeOK, \/ Tick \/ FetchAnswers \/ FetchFails
                 \/ \E leases \in Leases : LeasesChange(leases)
                 \/ \E c \in Calls : Asks(c)
  PROVE  TypeOK'
  <1>1. CASE Tick
    BY <1>1, PermissionsAssumption DEF Tick, TypeOK, rightVars, upstreamVars, cacheVars
  <1>2. ASSUME NEW v \in Nat, NEW failed \in BOOLEAN
        PROVE  \A c \in Calls : Given(calls[c], v, failed) \in Call
    BY DEF TypeOK, Call, Given
  <1>3. CASE FetchAnswers
    <2>1. version \in Nat /\ version \in 0 .. version /\ now \in Nat
      BY PermissionsAssumption DEF TypeOK
    <2>2. calls' \in [Calls -> Call] /\ \A c \in Calls : calls'[c].pc # "waiting"
      BY <1>2, <1>3, <2>1 DEF FetchAnswers, AllGiven, TypeOK, Call, Given
    <2> QED
      BY <1>3, <2>1, <2>2 DEF FetchAnswers, TypeOK, rightVars, upstreamVars
  <1>4. CASE FetchFails
    <2>0. cached \in Nat
      BY PermissionsAssumption DEF TypeOK
    <2>1. calls' \in [Calls -> Call] /\ \A c \in Calls : calls'[c].pc # "waiting"
      BY <1>2, <1>4, <2>0 DEF FetchFails, AllGiven, TypeOK, Call, Given
    <2> QED
      BY <1>4, <2>1 DEF FetchFails, TypeOK, rightVars, upstreamVars
  <1>5. ASSUME NEW leases \in Leases, LeasesChange(leases) PROVE TypeOK'
    <2>1. version + 1 \in 1 .. MaxVersions /\ now \in Nat /\ cached \in 0 .. version + 1
      BY <1>5, PermissionsAssumption DEF LeasesChange, TypeOK
    <2> QED
      BY <1>5, <2>1, PermissionsAssumption DEF LeasesChange, Changed, TypeOK, cacheVars
  <1>6. ASSUME NEW c \in Calls, Asks(c) PROVE TypeOK'
    <2> DEFINE call == [calls[c] EXCEPT !.asked = now]
    <2>1. call \in Call /\ [call EXCEPT !.pc = "waiting"] \in Call
      <3>1. now \in Nat /\ calls[c] \in Call
        BY PermissionsAssumption DEF TypeOK
      <3>2. call \in Call
        BY <3>1 DEF Call
      <3> QED  BY <3>2 DEF Call
    <2>0. cached \in Nat
      BY PermissionsAssumption DEF TypeOK
    <2>2. Given(call, cached, FALSE) \in Call /\ Given(call, cached, FALSE).pc = "idle"
      BY <2>0, <2>1 DEF Call, Given
    <2>3. CASE Fresh
      BY <1>6, <2>2, <2>3 DEF Asks, TypeOK, rightVars, upstreamVars
    <2>4. CASE ~Fresh
      BY <1>6, <2>1, <2>4 DEF Asks, TypeOK, rightVars, upstreamVars
    <2> QED  BY <2>3, <2>4
  <1> QED
    BY <1>1, <1>3, <1>4, <1>5, <1>6

\* The variables keep their types, and a look-up of the leases that waits has a request
\* under way that will answer it.
THEOREM TypeCorrect == Spec => []TypeOK
  <1>1. TypeOK /\ [Next]_vars => TypeOK'
    <2>1. ASSUME TypeOK, UNCHANGED vars PROVE TypeOK'
      BY <2>1 DEF TypeOK, vars, rightVars, upstreamVars, cacheVars
    <2> QED
      BY <2>1, ChangeKeepsTypes, CacheKeepsTypes DEF Next
  <1> QED
    BY <1>1, TypeInit, PTL DEF Spec

-----------------------------------------------------------------------------
(* The list and the check                                                  *)

\* The check as one condition, without the order in which the code looks.
LEMMA CheckOnLand ==
  ASSUME NEW u \in Users, NEW leases, ~isWorld
  PROVE  isSceneOwnerOrAdmin(u, leases) <=>
           \/ u \in admins
           \/ \E r \in Roles : u \in land[FirstParcel][r]
           \/ \E p \in Positions : <<u, p>> \in leases
  <1>1. isSceneOwner(u) <=> u \in land[FirstParcel]["owner"]
    BY DEF isSceneOwner, getLandPermissions, Roles
  <1>2. hasExtendedPermissions(u) <=>
          u \notin admins /\ \E r \in Operators : u \in land[FirstParcel][r]
    BY DEF hasExtendedPermissions, isAdmin, getLandPermissions, Roles
  <1>3. hasLease(u, leases) <=>
          /\ u \notin admins /\ ~isSceneOwner(u) /\ ~hasExtendedPermissions(u)
          /\ \E p \in Positions : <<u, p>> \in leases
    BY DEF hasLease, isAdmin, hasLandLease
  <1>4. isSceneOwnerOrAdmin(u, leases) <=>
          isSceneOwner(u) \/ u \in admins \/ hasExtendedPermissions(u) \/ hasLease(u, leases)
    BY DEF isSceneOwnerOrAdmin, getUserScenePermissions, isAdmin
  <1> QED
    BY <1>1, <1>2, <1>3, <1>4 DEF Roles

LEMMA CheckInWorld ==
  ASSUME NEW u \in Users, isWorld
  PROVE  isSceneOwnerOrAdmin(u, {}) <=> u = worldOwner \/ u \in admins \/ ExtendedInWorld(u)
  BY DEF isSceneOwnerOrAdmin, getUserScenePermissions, isSceneOwner, hasWorldOwnerPermission,
         isAdmin, hasExtendedPermissions, hasLease

LEMMA LandListAgrees == TypeOK => LandListMatchesCheck
  <1> SUFFICES ASSUME TypeOK, ~isWorld, land[BaseParcel] = land[FirstParcel],
                      NEW v \in 0 .. version, NEW bulk \in BOOLEAN
               PROVE  Listed(bulk, LeasesIn(v))
                        = {u \in Users : isSceneOwnerOrAdmin(u, LeasesIn(v))}
    BY DEF LandListMatchesCheck
  <1>1. extraAddresses(bulk) = UNION {land[FirstParcel][r] : r \in Roles}
    BY DEF extraAddresses, getLandOperators
  <1>2. \A r \in Roles : land[FirstParcel][r] \subseteq Users
    BY PermissionsAssumption DEF TypeOK
  <1>3. Listed(bulk, LeasesIn(v)) =
          (admins \cup UNION {land[FirstParcel][r] : r \in Roles})
            \cup {u \in Users : \E p \in Positions : <<u, p>> \in LeasesIn(v)}
    BY <1>1 DEF Listed, addresses, getLeaseHoldersForParcels
  <1>4. admins \subseteq Users
    BY DEF TypeOK
  <1> QED
    BY <1>2, <1>3, <1>4, CheckOnLand

\* A permission limited to parcels is a permission.
LimitsOfPermissions == \A a \in Actions, u \in Users : parcels[a][u] # {} => u \in allowed[a]

LEMMA LimitsKept == ASSUME TypeOK, LimitsOfPermissions, [Next]_vars PROVE LimitsOfPermissions'
  <1>1. ASSUME NEW a \in Actions, NEW u \in Users, NEW has \in BOOLEAN,
               NEW limit \in SUBSET (Positions \cup Elsewhere), WorldChanges(a, u, has, limit)
        PROVE  LimitsOfPermissions'
    <2> SUFFICES ASSUME NEW b \in Actions, NEW w \in Users, parcels'[b][w] # {}
                 PROVE  w \in allowed'[b]
      BY DEF LimitsOfPermissions
    <2>1. CASE b = a /\ w = u
      BY <1>1, <2>1 DEF WorldChanges, TypeOK
    <2>2. CASE ~(b = a /\ w = u)
      <3>1. parcels'[b][w] = parcels[b][w]
        BY <1>1, <2>2 DEF WorldChanges, TypeOK
      <3>2. w \in allowed[b]
        BY <3>1 DEF LimitsOfPermissions
      <3> QED
        BY <1>1, <2>2, <3>2 DEF WorldChanges, TypeOK
    <2> QED  BY <2>1, <2>2
  <1>2. ASSUME UNCHANGED <<allowed, parcels>> PROVE LimitsOfPermissions'
    BY <1>2 DEF LimitsOfPermissions
  <1> QED
    BY <1>1, <1>2 DEF Next, RightsChange, Tick, FetchAnswers, FetchFails, LeasesChange, Asks,
       LandChanges, WorldIsTransferred, AddAdmin, RemoveAdmin, vars, rightVars, cacheVars,
       upstreamVars

LEMMA WorldListAgrees == TypeOK /\ LimitsOfPermissions => WorldListMatchesCheck
  <1> SUFFICES ASSUME TypeOK, LimitsOfPermissions, isWorld
               PROVE  /\ Listed(TRUE, {}) = {u \in Users : isSceneOwnerOrAdmin(u, {})}
                      /\ {u \in Users : isSceneOwnerOrAdmin(u, {})} \subseteq Listed(FALSE, {})
    BY DEF WorldListMatchesCheck
  <1> DEFINE Bulk(a) == getWorldParcelPermissionAddresses(a)
             WithBulk == Listed(TRUE, {})
             Without == Listed(FALSE, {})
  <1>1. worldOwner \in Users /\ admins \subseteq Users /\ \A a \in Actions : allowed[a] \subseteq Users
    BY DEF TypeOK
  \* What holds of one action and one user, whichever way it is asked.
  <1>2. \A a \in Actions, u \in Users :
          u \in Bulk(a) <=> WorldWide(u, a, u \in allowed[a]) \/ OnParcels(u, a)
    BY DEF getWorldParcelPermissionAddresses, WorldWide, OnParcels, getWorldParcelPermissions,
           LimitsOfPermissions
  <1>3. \A u \in Users : ExtendedInWorld(u) <=> \E a \in Actions : u \in Bulk(a)
    BY <1>2 DEF Actions, ExtendedInWorld, hasWorldStreamingPermission, hasWorldDeployPermission
  <1>4. \A u \in Users : isSceneOwnerOrAdmin(u, {}) <=>
          u = worldOwner \/ u \in admins \/ \E a \in Actions : u \in Bulk(a)
    BY <1>3, CheckInWorld
  <1>5. WithBulk = admins \cup ((UNION {Bulk(a) : a \in Actions}) \cup {worldOwner})
    BY DEF Listed, addresses, extraAddresses, WorldAddresses, Nobody
  <1>6. Without = admins \cup ((UNION {allowed[a] : a \in Actions}) \cup {worldOwner})
    BY DEF Listed, addresses, extraAddresses, WorldAddresses, FallbackAddresses,
           fetchWorldActionPermissions, Nobody
  <1>7. \A a \in Actions : Bulk(a) \subseteq allowed[a] /\ Bulk(a) \subseteq Users
    BY <1>1 DEF getWorldParcelPermissionAddresses
  <1> HIDE DEF WithBulk, Without
  <1>8. ASSUME NEW u \in Users
        PROVE  /\ u \in WithBulk <=> isSceneOwnerOrAdmin(u, {})
               /\ isSceneOwnerOrAdmin(u, {}) => u \in Without
    <2>1. u \in UNION {Bulk(a) : a \in Actions} <=> \E a \in Actions : u \in Bulk(a)
      OBVIOUS
    <2>2. u \in UNION {allowed[a] : a \in Actions} <=> \E a \in Actions : u \in allowed[a]
      OBVIOUS
    <2>3. u \in WithBulk <=>
            u = worldOwner \/ u \in admins \/ \E a \in Actions : u \in Bulk(a)
      <3> HIDE DEF Bulk
      <3> QED  BY <1>5, <2>1
    <2>4. u \in Without <=>
            u = worldOwner \/ u \in admins \/ \E a \in Actions : u \in allowed[a]
      BY <1>6, <2>2
    <2> HIDE DEF Bulk
    <2> QED  BY <1>4, <1>7, <2>3, <2>4
  <1>9. WithBulk \subseteq Users
    <2>1. UNION {Bulk(a) : a \in Actions} \subseteq Users
      BY <1>7
    <2> QED  BY <1>1, <1>5, <2>1
  <1> QED
    BY <1>8, <1>9 DEF WithBulk, Without

\* On land, the admins shown to the clients are those the server lets manage the scene.
THEOREM LandListRight == Spec => []LandListMatchesCheck
  BY TypeCorrect, LandListAgrees, PTL

\* In a world, with the bulk endpoint of the content server and without it.
THEOREM WorldListRight == Spec => []WorldListMatchesCheck
  <1>1. Init => LimitsOfPermissions
    BY DEF Init, LimitsOfPermissions
  <1> QED
    BY <1>1, LimitsKept, WorldListAgrees, TypeCorrect, PTL DEF Spec

-----------------------------------------------------------------------------
(* The leases                                                              *)

\* Only versions before the present one were replaced, the cached one not before it was
\* fetched, and nobody asks in the future.
CacheInv ==
    /\ \A v \in 1 .. MaxVersions : v >= version => replaced[v] = 0
    /\ cached # None =>
         cachedAt <= now /\ (replaced[cached] = 0 \/ replaced[cached] >= cachedAt)
    /\ \A c \in Calls : calls[c].asked <= now

\* What a look-up was given is a version there was.
DocumentsExist == \A c \in Calls : calls[c].document \in 0 .. version

LeasesInv == CacheInv /\ DocumentsExist /\ LeasesAreRecent

LEMMA LeasesInit == Init => LeasesInv
  <1> SUFFICES ASSUME Init PROVE LeasesInv  OBVIOUS
  <1>1. \A c \in Calls : calls[c].asked = 0 /\ calls[c].document = None
    BY DEF Init
  <1> QED
    BY <1>1 DEF Init, LeasesInv, CacheInv, DocumentsExist, LeasesAreRecent, None

\* What TypeOK says, with the constants put in.
LEMMA Numbers ==
  ASSUME TypeOK
  PROVE  /\ now \in Nat /\ TTL \in Nat /\ cachedAt \in Nat /\ version \in 1 .. MaxVersions
         /\ MaxVersions \in Nat /\ cached \in 0 .. version
         /\ replaced \in [1 .. MaxVersions -> Nat] /\ calls \in [Calls -> Call]
  BY PermissionsAssumption DEF TypeOK

LEMMA AsksKeepsLeases ==
  ASSUME TypeOK, LeasesInv, NEW c \in Calls, Asks(c) PROVE LeasesInv'
  <1> USE Numbers
  <1> DEFINE call == [calls[c] EXCEPT !.asked = now]
  <1>1. UNCHANGED <<now, version, replaced, cached, cachedAt>>
    BY DEF Asks, rightVars, upstreamVars
  <1>2. \A d \in Calls \ {c} : calls'[d] = calls[d]
    BY DEF Asks
  <1>3. CASE Fresh
    <2>1. calls'[c] = [calls[c] EXCEPT !.asked = now, !.pc = "idle", !.document = cached,
                                       !.failed = FALSE]
      BY <1>3 DEF Asks, Given, Call
    <2>2. calls'[c].asked = now /\ calls'[c].document = cached
      BY <2>1 DEF Call
    <2>3. cached # None /\ now - cachedAt < TTL
      BY <1>3 DEF Fresh
    <2>4. replaced[cached] = 0 \/ replaced[cached] + TTL >= now
      BY <2>3 DEF LeasesInv, CacheInv, None
    <2> QED
      BY <1>1, <1>2, <2>2, <2>4 DEF LeasesInv, CacheInv, DocumentsExist, LeasesAreRecent
  <1>4. CASE ~Fresh
    <2>1. calls'[c] = [calls[c] EXCEPT !.asked = now, !.pc = "waiting"]
      BY <1>4 DEF Asks, Call
    <2>2. /\ calls'[c].asked = now /\ calls'[c].pc = "waiting"
          /\ calls'[c].document = calls[c].document
      BY <2>1 DEF Call
    <2>3. CacheInv'
      <3>1. \A d \in Calls : calls'[d].asked <= now
        BY <1>2, <2>2 DEF LeasesInv, CacheInv
      <3> QED
        BY <1>1, <3>1 DEF LeasesInv, CacheInv
    <2>4. DocumentsExist'
      BY <1>1, <1>2, <2>2 DEF LeasesInv, DocumentsExist
    <2>5. LeasesAreRecent'
      BY <1>1, <1>2, <2>2 DEF LeasesInv, LeasesAreRecent
    <2> QED
      BY <2>3, <2>4, <2>5 DEF LeasesInv
  <1> QED  BY <1>3, <1>4

LEMMA AnswersKeepLeases ==
  ASSUME TypeOK, LeasesInv, FetchAnswers \/ FetchFails PROVE LeasesInv'
  <1> USE Numbers
  <1>1. UNCHANGED <<now, version, replaced>>
    BY DEF FetchAnswers, FetchFails, rightVars, upstreamVars
  <1>2. ASSUME NEW v \in 0 .. version, NEW failed \in BOOLEAN, AllGiven(v, failed),
               failed \/ (v # None /\ replaced[v] = 0)
        PROVE  DocumentsExist' /\ LeasesAreRecent' /\ \A c \in Calls : calls'[c].asked <= now'
    <2>1. ASSUME NEW c \in Calls
          PROVE  \/ calls'[c] = calls[c]
                 \/ /\ calls'[c].document = v /\ calls'[c].failed = failed
                    /\ calls'[c].asked = calls[c].asked
      BY <1>2 DEF AllGiven, Given, Call
    <2> QED
      BY <1>1, <1>2, <2>1 DEF LeasesInv, CacheInv, DocumentsExist, LeasesAreRecent
  <1>3. CASE FetchAnswers
    <2>1. version # None /\ replaced[version] = 0 /\ version \in 0 .. version
      BY DEF LeasesInv, CacheInv, None
    <2>2. cached' = version /\ cachedAt' = now
      BY <1>3 DEF FetchAnswers
    <2>3. AllGiven(version, FALSE)
      BY <1>3 DEF FetchAnswers
    <2>4. DocumentsExist' /\ LeasesAreRecent' /\ \A c \in Calls : calls'[c].asked <= now'
      BY <1>2, <2>1, <2>3
    <2>5. CacheInv'
      BY <1>1, <2>1, <2>2, <2>4 DEF LeasesInv, CacheInv
    <2> QED
      BY <2>4, <2>5 DEF LeasesInv
  <1>4. CASE FetchFails
    <2>1. UNCHANGED <<cached, cachedAt>> /\ AllGiven(cached, TRUE)
      BY <1>4 DEF FetchFails
    <2> QED
      BY <1>1, <1>2, <2>1 DEF LeasesInv, CacheInv
  <1> QED  BY <1>3, <1>4

LEMMA OthersKeepLeases ==
  ASSUME TypeOK, LeasesInv,
         \/ RightsChange \/ Tick \/ UNCHANGED vars
         \/ \E leases \in Leases : LeasesChange(leases)
  PROVE  LeasesInv'
  <1> USE Numbers
  <1>1. CASE RightsChange \/ UNCHANGED vars
    <2>1. UNCHANGED <<now, version, replaced, cached, cachedAt, calls>>
      BY <1>1 DEF RightsChange, LandChanges, WorldIsTransferred, WorldChanges, AddAdmin,
         RemoveAdmin, vars, upstreamVars, cacheVars
    <2> QED
      BY <2>1 DEF LeasesInv, CacheInv, DocumentsExist, LeasesAreRecent
  <1>2. CASE Tick
    <2>1. now' = now + 1 /\ UNCHANGED <<version, replaced, cached, cachedAt, calls>>
      BY <1>2 DEF Tick, upstreamVars, cacheVars
    <2>2. \A c \in Calls : calls[c].asked \in Nat
      BY DEF Call
    <2>3. CacheInv'
      BY <2>1, <2>2 DEF LeasesInv, CacheInv
    <2>4. DocumentsExist' /\ LeasesAreRecent'
      BY <2>1 DEF LeasesInv, DocumentsExist, LeasesAreRecent
    <2> QED
      BY <2>3, <2>4 DEF LeasesInv
  <1>3. ASSUME NEW leases \in Leases, LeasesChange(leases) PROVE LeasesInv'
    <2>1. /\ version' = version + 1 /\ replaced' = [replaced EXCEPT ![version] = now]
          /\ UNCHANGED <<now, cached, cachedAt, calls>>
      BY <1>3 DEF LeasesChange, cacheVars
    <2>2. ASSUME NEW v \in 1 .. MaxVersions
          PROVE  replaced'[v] = IF v = version THEN now ELSE replaced[v]
      BY <2>1
    <2>3. CacheInv'
      BY <2>1, <2>2 DEF LeasesInv, CacheInv, None
    <2>4. DocumentsExist'
      BY <2>1 DEF LeasesInv, DocumentsExist
    <2>5. LeasesAreRecent'
      <3> SUFFICES ASSUME NEW c \in Calls, calls[c].pc = "idle", calls[c].document # None,
                          ~calls[c].failed
                   PROVE  \/ replaced'[calls[c].document] = 0
                          \/ replaced'[calls[c].document] + TTL >= calls[c].asked
        BY <2>1 DEF LeasesAreRecent
      <3>1. calls[c].document \in 1 .. MaxVersions /\ calls[c].asked \in Nat
        BY DEF LeasesInv, DocumentsExist, None, Call
      <3>2. calls[c].asked <= now
        BY DEF LeasesInv, CacheInv
      <3>3. \/ replaced[calls[c].document] = 0
            \/ replaced[calls[c].document] + TTL >= calls[c].asked
        BY DEF LeasesInv, LeasesAreRecent
      <3> QED
        BY <2>2, <3>1, <3>2, <3>3
    <2> QED  BY <2>3, <2>4, <2>5 DEF LeasesInv
  <1> QED  BY <1>1, <1>2, <1>3

\* Nobody is given leases that had been replaced for longer than the cache may keep them
\* when he asked, however look-ups meet and requests fail.
THEOREM LeasesRecent == Spec => []LeasesAreRecent
  <1>1. TypeOK /\ LeasesInv /\ [Next]_vars => LeasesInv'
    BY AsksKeepsLeases, AnswersKeepLeases, OthersKeepLeases DEF Next
  <1>2. LeasesInv => LeasesAreRecent
    BY DEF LeasesInv
  <1> QED
    BY <1>1, <1>2, LeasesInit, TypeCorrect, PTL DEF Spec
=============================================================================
