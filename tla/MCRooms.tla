------------------------------ MODULE MCRooms ------------------------------
(* Small instances of Rooms for TLC. *)
EXTENDS RoomsRefinement, TLC

(* Clients differ only by name: sound for the safety runs. *)
Symmetry == Permutations(Fds)

=============================================================================
