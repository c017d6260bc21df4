-------------------------- MODULE ScenePermissions --------------------------
(***************************************************************************)
(* Who may manage a scene.  The answer is computed twice, by code written  *)
(* apart: for one address, before a request of that address is served      *)
(* (scene-manager.ts), and as a list of addresses, for the metadata of the *)
(* scene's room and for the list of its admins (scene-admins.ts).  Both    *)
(* combine the admins in the database with rights that other services      *)
(* know: roles on the land, or permissions over the world, and leases.     *)
(*                                                                         *)
(* The leases are one document, kept in the process for a while; callers   *)
(* that find it too old share one request for it.                          *)
(***************************************************************************)
EXTENDS Integers, FiniteSets

CONSTANTS
    Users,        \* wallets
    Positions,    \* place.positions, the parcels of the scene
    FirstParcel,  \* place.positions[0]
    BaseParcel,   \* place.base_position
    Elsewhere,    \* parcels of the world that other scenes are on
    Operators,    \* the roles on a parcel besides that of its owner
    Calls,        \* bound: concurrent look-ups of the leases
    TTL,          \* LEASE_AUTHORIZATIONS_CACHE_TTL_MS, in ticks
    MaxTime,      \* bound: the clock stops here
    MaxChanges,   \* bound: changes of rights, leases and admins
    MaxVersions   \* bound: versions of the lease document

ASSUME PermissionsAssumption ==
    /\ FirstParcel \in Positions /\ BaseParcel \in Positions
    /\ Elsewhere \cap Positions = {} /\ "owner" \notin Operators
    /\ {TTL, MaxChanges} \subseteq Nat /\ {MaxTime, MaxVersions} \subseteq Nat \ {0}

Actions == {"deployment", "streaming"}    \* what a world permits
Roles == Operators \cup {"owner"}
Leases == SUBSET (Users \X Positions)
Nobody == {}
None == 0
Call == [pc : {"idle", "waiting"}, asked : Nat, failed : BOOLEAN, document : Nat]

VARIABLES
    now,        \* Date.now(), in ticks
    isWorld,    \* place.world
    land,       \* land[p][r]: who has role r on parcel p
    worldOwner, \* who owns the name of the world
    allowed,    \* allowed[a]: the allow list of the world for action a
    parcels,    \* parcels[a][u]: the parcels u's permission is limited to, if any
    admins,     \* scene_admin: the active admins of the place
    changes,    \* changes so far
    documents,  \* documents[v]: the leases in version v of the document
    version,    \* the version the linker server has
    replaced,   \* replaced[v]: when version v gave way to the next one, or 0
    cached,     \* cachedAuthorizations, a version or None
    cachedAt,   \* lastAuthorizationsFetchTime
    fetching,   \* inFlightAuthorizationsFetch is there
    calls       \* calls of getAuthorizations and what they were given last

rightVars == <<isWorld, land, worldOwner, allowed, parcels, admins, changes>>
upstreamVars == <<documents, version, replaced>>
cacheVars == <<cached, cachedAt, fetching, calls>>
vars == <<now, rightVars, upstreamVars, cacheVars>>

Init ==
    /\ now = 1 /\ isWorld \in BOOLEAN
    /\ \E u \in Users :
         /\ land = [p \in Positions |-> [r \in Roles |-> IF r = "owner" THEN {u} ELSE Nobody]]
         /\ worldOwner = u
    /\ allowed = [a \in Actions |-> Nobody]
    /\ parcels = [a \in Actions |-> [u \in Users |-> {}]]
    /\ admins = Nobody /\ changes = 0
    /\ documents = [v \in 1 .. MaxVersions |-> {}] /\ version = 1
    /\ replaced = [v \in 1 .. MaxVersions |-> 0]
    /\ cached = None /\ cachedAt = 0 /\ fetching = FALSE
    /\ calls = [c \in Calls |-> [pc |-> "idle", asked |-> 0, failed |-> FALSE, document |-> None]]

Changed == changes < MaxChanges /\ changes' = changes + 1

-----------------------------------------------------------------------------
(* The other services                                                      *)

\* lands.getLandPermissions: what an address may do on the first parcel.
getLandPermissions(u) == {r \in Roles : u \in land[FirstParcel][r]}
\* lands.getLandOperators: who may do something on a parcel.
getLandOperators(p) == UNION {land[p][r] : r \in Roles}

\* worlds.ts
hasWorldOwnerPermission(u) == u = worldOwner
hasWorldStreamingPermission(u) == u \in allowed["streaming"]
hasWorldDeployPermission(u) == u \in allowed["deployment"]
getWorldParcelPermissions(u, a) == parcels[a][u]
\* The worlds content server answers with those whose permission covers one of the parcels.
getWorldParcelPermissionAddresses(a) ==
    {u \in allowed[a] : parcels[a][u] = {} \/ parcels[a][u] \cap Positions # {}}
\* owner and allow lists of fetchWorldActionPermissions
fetchWorldActionPermissions == [owner |-> worldOwner, permissions |-> allowed]

\* lands.hasLandLease and getLeaseHoldersForParcels, in a version of the document.
hasLandLease(u, leases) == \E p \in Positions : <<u, p>> \in leases
getLeaseHoldersForParcels(leases) == {u \in Users : \E p \in Positions : <<u, p>> \in leases}

LeasesIn(v) == IF v = None THEN {} ELSE documents[v]

-----------------------------------------------------------------------------
(* scene-manager.ts                                                        *)

isSceneOwner(u) ==
    IF isWorld THEN hasWorldOwnerPermission(u) ELSE "owner" \in getLandPermissions(u)

isAdmin(u) == u \in admins

\* A permission over the whole world, or over parcels of this scene.
WorldWide(u, a, has) == has /\ getWorldParcelPermissions(u, a) = {}
OnParcels(u, a) == getWorldParcelPermissions(u, a) \cap Positions # {}
ExtendedInWorld(u) ==
    \/ WorldWide(u, "streaming", hasWorldStreamingPermission(u)) \/ OnParcels(u, "streaming")
    \/ WorldWide(u, "deployment", hasWorldDeployPermission(u)) \/ OnParcels(u, "deployment")

\* Neither is looked for once the address is known to be an admin.
hasExtendedPermissions(u) ==
    /\ ~isAdmin(u)
    /\ IF isWorld THEN ExtendedInWorld(u) ELSE getLandPermissions(u) \cap Operators # {}
hasLease(u, leases) ==
    /\ ~isAdmin(u) /\ ~isWorld /\ ~isSceneOwner(u) /\ ~hasExtendedPermissions(u)
    /\ hasLandLease(u, leases)

getUserScenePermissions(u, leases) ==
    [owner |-> isSceneOwner(u), admin |-> isAdmin(u),
     hasExtendedPermissions |-> hasExtendedPermissions(u), hasLandLease |-> hasLease(u, leases)]

isSceneOwnerOrAdmin(u, leases) ==
    LET p == getUserScenePermissions(u, leases)
    IN  p.owner \/ p.admin \/ p.hasExtendedPermissions \/ p.hasLandLease

-----------------------------------------------------------------------------
(* scene-admins.ts, and the two places that add the leases to its list     *)

\* The bulk endpoint of the worlds content server may not be there.
FallbackAddresses ==
    LET p == fetchWorldActionPermissions
    IN  (UNION {p.permissions[a] : a \in Actions}) \cup {p.owner}
WorldAddresses(bulk) ==
    IF bulk THEN (UNION {getWorldParcelPermissionAddresses(a) : a \in Actions}) \cup {worldOwner}
    ELSE FallbackAddresses

\* Variant: the owner is the only one listed for land.
extraAddressesOfOwner(bulk) == IF isWorld THEN WorldAddresses(bulk) ELSE land[BaseParcel]["owner"]
\* Variant: the fallback forgets who owns the world.
extraAddressesWithoutOwner(bulk) ==
    IF isWorld THEN IF bulk THEN WorldAddresses(bulk) ELSE FallbackAddresses \ {worldOwner}
    ELSE getLandOperators(BaseParcel)
extraAddresses(bulk) == IF isWorld THEN WorldAddresses(bulk) ELSE getLandOperators(BaseParcel)
addresses(bulk) == admins \cup extraAddresses(bulk)

\* refreshRoomMetadata and listSceneAdminsHandler.
Listed(bulk, leases) ==
    addresses(bulk) \cup IF isWorld THEN Nobody ELSE getLeaseHoldersForParcels(leases)

-----------------------------------------------------------------------------
(* The admins of the scene; the steps of these handlers are in             *)
(* SceneModeration                                                         *)

\* removeSceneAdminHandler lets these go.
RemovalAllowed(u) ==
    LET p == getUserScenePermissions(u, LeasesIn(cached))
    IN  ~(p.owner \/ p.hasExtendedPermissions) /\ p.admin

AddAdmin(caller, u) ==
    LET p == getUserScenePermissions(u, LeasesIn(cached))
    IN  /\ Changed
        /\ isSceneOwnerOrAdmin(caller, LeasesIn(cached))
        /\ ~(p.owner \/ p.admin \/ p.hasExtendedPermissions)
        /\ admins' = admins \cup {u}
        /\ UNCHANGED <<now, isWorld, land, worldOwner, allowed, parcels, upstreamVars, cacheVars>>

RemoveAdmin(caller, u) ==
    /\ Changed
    /\ isSceneOwnerOrAdmin(caller, LeasesIn(cached)) /\ RemovalAllowed(u)
    /\ admins' = admins \ {u}
    /\ UNCHANGED <<now, isWorld, land, worldOwner, allowed, parcels, upstreamVars, cacheVars>>

-----------------------------------------------------------------------------
(* Changes elsewhere (external)                                            *)

LandChanges(p, r, users) ==
    /\ Changed /\ ~isWorld
    /\ r = "owner" => \E u \in Users : users = {u}
    /\ land' = [land EXCEPT ![p][r] = users]
    /\ UNCHANGED <<now, isWorld, worldOwner, allowed, parcels, admins, upstreamVars, cacheVars>>

WorldIsTransferred(u) ==
    /\ Changed /\ isWorld /\ worldOwner' = u
    /\ UNCHANGED <<now, isWorld, land, allowed, parcels, admins, upstreamVars, cacheVars>>

\* Parcels limit a permission somebody has.
WorldChanges(a, u, has, limit) ==
    /\ Changed /\ isWorld
    /\ allowed' = [allowed EXCEPT ![a] = IF has THEN @ \cup {u} ELSE @ \ {u}]
    /\ parcels' = [parcels EXCEPT ![a][u] = IF has THEN limit ELSE {}]
    /\ UNCHANGED <<now, isWorld, land, worldOwner, admins, upstreamVars, cacheVars>>

LeasesChange(leases) ==
    /\ Changed /\ version < MaxVersions /\ version' = version + 1
    /\ documents' = [documents EXCEPT ![version + 1] = leases]
    /\ replaced' = [replaced EXCEPT ![version] = now]
    /\ UNCHANGED <<now, isWorld, land, worldOwner, allowed, parcels, admins, cacheVars>>

-----------------------------------------------------------------------------
(* getAuthorizations of lands/component.ts                                 *)

\* Variant: the last answer is always good.
FreshForever == cached # None
Fresh == cached # None /\ now - cachedAt < TTL

Given(c, v, failed) == [c EXCEPT !.pc = "idle", !.document = v, !.failed = failed]

\* A caller is given the document of the process, or waits with the others.
Asks(c) ==
    /\ calls[c].pc = "idle"
    /\ LET call == [calls[c] EXCEPT !.asked = now]
       IN  IF Fresh
             THEN calls' = [calls EXCEPT ![c] = Given(call, cached, FALSE)] /\ UNCHANGED fetching
             ELSE /\ calls' = [calls EXCEPT ![c] = [call EXCEPT !.pc = "waiting"]]
                  /\ fetching' = TRUE
    /\ UNCHANGED <<now, rightVars, upstreamVars, cached, cachedAt>>

\* Variant: a caller that waited gets it, and the others go on waiting.
OneGiven(v, failed) ==
    \E c \in Calls : calls[c].pc = "waiting" /\ calls' = [calls EXCEPT ![c] = Given(@, v, failed)]
AllGiven(v, failed) ==
    calls' = [c \in Calls |-> IF calls[c].pc = "waiting" THEN Given(calls[c], v, failed)
                              ELSE calls[c]]

FetchAnswers ==
    /\ fetching /\ fetching' = FALSE
    /\ cached' = version /\ cachedAt' = now
    /\ AllGiven(version, FALSE)
    /\ UNCHANGED <<now, rightVars, upstreamVars>>

\* A failure costs the callers nothing but the age of what they are given.
FetchFails ==
    /\ fetching /\ fetching' = FALSE
    /\ AllGiven(cached, TRUE)
    /\ UNCHANGED <<now, rightVars, upstreamVars, cached, cachedAt>>

Tick ==
    /\ now < MaxTime /\ now' = now + 1
    /\ UNCHANGED <<rightVars, upstreamVars, cacheVars>>

RightsChange ==
    \/ \E p \in Positions, r \in Roles, users \in SUBSET Users : LandChanges(p, r, users)
    \/ \E u \in Users : WorldIsTransferred(u)
    \/ \E a \in Actions, u \in Users, has \in BOOLEAN, limit \in SUBSET (Positions \cup Elsewhere) :
         WorldChanges(a, u, has, limit)
    \/ \E caller, u \in Users : AddAdmin(caller, u) \/ RemoveAdmin(caller, u)

Next ==
    \/ Tick \/ RightsChange \/ FetchAnswers \/ FetchFails
    \/ \E leases \in Leases : LeasesChange(leases)
    \/ \E c \in Calls : Asks(c)

Spec == Init /\ [][Next]_vars

-----------------------------------------------------------------------------
(* Properties                                                              *)

\* Whoever waits for the leases waits for a request that is under way.
TypeOK ==
    /\ now \in 1 .. MaxTime /\ isWorld \in BOOLEAN
    /\ land \in [Positions -> [Roles -> SUBSET Users]] /\ worldOwner \in Users
    /\ allowed \in [Actions -> SUBSET Users]
    /\ parcels \in [Actions -> [Users -> SUBSET (Positions \cup Elsewhere)]]
    /\ admins \in SUBSET Users /\ changes \in 0 .. MaxChanges
    /\ documents \in [1 .. MaxVersions -> Leases] /\ version \in 1 .. MaxVersions
    /\ replaced \in [1 .. MaxVersions -> Nat]
    /\ cached \in 0 .. version /\ cachedAt \in Nat /\ fetching \in BOOLEAN
    /\ calls \in [Calls -> Call] /\ \A c \in Calls : calls[c].pc = "waiting" => fetching

\* On land, the list and the check are the same set of people, whatever the leases: nobody
\* is shown as an admin to the clients and refused by the server, nor the reverse.  The
\* list asks about the base parcel and the check about the first one, so this is said of
\* scenes where both parcels have the same owner and operators.
LandListMatchesCheck ==
    ~isWorld /\ land[BaseParcel] = land[FirstParcel] =>
        \A v \in 0 .. version, bulk \in BOOLEAN :
            Listed(bulk, LeasesIn(v)) = {u \in Users : isSceneOwnerOrAdmin(u, LeasesIn(v))}

\* In a world, whoever the server lets manage the scene is on the list, with the bulk
\* endpoint and without it, and with it nobody else is.
WorldListMatchesCheck ==
    isWorld =>
        LET may == {u \in Users : isSceneOwnerOrAdmin(u, {})}
        IN  Listed(TRUE, {}) = may /\ may \subseteq Listed(FALSE, {})

\* A caller is given a document that was in force at most TTL before it asked, or later,
\* however its look-up met those of others, unless the linker server failed it.
LeasesAreRecent ==
    \A c \in Calls :
        LET call == calls[c] IN
        call.pc = "idle" /\ call.document # None /\ ~call.failed =>
            replaced[call.document] = 0 \/ replaced[call.document] + TTL >= call.asked
=============================================================================
