----------------------------- MODULE MCLogBuffer ----------------------------
(* LogBuffer.tla for TLC. Records are told apart by their numbers, so there   *)
(* is no symmetry. The lengths make a block that a few records fill: one that *)
(* is cut, one that leaves no room for a terminator, one behind a terminator. *)
EXTENDS LogBuffer

ShortAndLong == {1, 3, 5}
Extremes     == {2, 7}
NearTheEnd   == {5, 7}
=============================================================================
