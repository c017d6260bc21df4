------------------------------- MODULE Calls --------------------------------
(***************************************************************************)
(* What a private voice chat promises its two users, whatever happens to   *)
(* webhooks, handlers and connections: a call is between two people, it is *)
(* over for both at once, and once over it never comes back.  PrivateVoice *)
(* implements this specification.                                          *)
(***************************************************************************)
CONSTANTS Users, Rooms

VARIABLES
    members,   \* members[r]: the users call r is between, {} when there is no call
    used       \* the rooms that hold or have held a call

callsVars == <<members, used>>

Init == members = [r \in Rooms |-> {}] /\ used = {}

Open(r, u, v) ==
    /\ r \notin used /\ u # v
    /\ members' = [members EXCEPT ![r] = {u, v}]
    /\ used' = used \cup {r}

\* The expiration job may close several calls at once.
Close(over) ==
    /\ members' = [r \in Rooms |-> IF r \in over THEN {} ELSE members[r]]
    /\ UNCHANGED used

Next ==
    \/ \E r \in Rooms : \E u, v \in Users : Open(r, u, v)
    \/ \E over \in SUBSET Rooms : Close(over)

Spec == Init /\ [][Next]_callsVars
=============================================================================
