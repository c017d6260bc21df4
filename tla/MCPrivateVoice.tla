--------------------------- MODULE MCPrivateVoice ---------------------------
(* Symmetry for the runs of PrivateVoice that ask no liveness property:    *)
(* nothing tells users, or rooms, apart.                                   *)
EXTENDS PrivateVoice, TLC

Symmetry == Permutations(Users) \cup Permutations(Rooms)
=============================================================================
