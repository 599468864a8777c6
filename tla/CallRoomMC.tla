----------------------------- MODULE CallRoomMC -----------------------------
(* Values for checking CallRoom. *)
EXTENDS CallRoom, TLC

\* The people of a run are interchangeable (used where only invariants are checked).
Anyone == Permutations(Staff)
=============================================================================
