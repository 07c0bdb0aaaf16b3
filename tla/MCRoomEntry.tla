----------------------------- MODULE MCRoomEntry -----------------------------
(***************************************************************************)
(* RoomEntry for TLC.                                                      *)
(***************************************************************************)
EXTENDS RoomEntry, TLC

\* Entries other than the first are alike, and so are the reloaders.
Symmetry == Permutations(Ptrs \ {First}) \cup Permutations(Reloaders)
=============================================================================
