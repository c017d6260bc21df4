-------------------------- MODULE MCScenePermissions --------------------------
(* Symmetry for the run of ScenePermissions: nothing tells people, or      *)
(* those who look the leases up, apart.                                    *)
EXTENDS ScenePermissions, TLC

Symmetry == Permutations(Users) \cup Permutations(Calls)
=============================================================================
