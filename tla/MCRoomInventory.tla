--------------------------- MODULE MCRoomInventory ---------------------------
(* RoomInventory on a calendar of two nights. *)
EXTENDS RoomInventory, TLC

\* A one-night stay and a longer one that share a night.
MCRanges == {{1}, {1, 2}}

\* Both one-night stays and the two-night one.
MCAllRanges == {{1}, {2}, {1, 2}}

MCOneNight == {{1}}

\* Bookings and processes are interchangeable; nights are not.
MCSymmetry == Permutations(Bookings) \union Permutations(Procs)
=============================================================================
