-------------------------- MODULE MCCommunityVoice --------------------------
(* Model values and symmetry for the runs of CommunityVoice.               *)
EXTENDS CommunityVoice, TLC

\* Sound where no run asks a liveness property: nothing tells users of one
\* role, or rooms, apart.
Symmetry == Permutations(Moderators \ Listeners) \cup Permutations(Listeners \ Moderators)
              \cup Permutations(Rooms)
=============================================================================
