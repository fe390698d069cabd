----------------------------- MODULE MCErosion -----------------------------
(***************************************************************************)
(* Erosion for TLC: an entity that is written, purged, and written again   *)
(* by a session that does not know of the purge.                           *)
(***************************************************************************)
EXTENDS Erosion

CONSTANTS s1, c1, c2, t1

SetF  == Transaction(0, t1, << <<"f", 0>> >>, 0)
Again == Transaction(1, t1, << <<"f", 0>> >>, 0)
Purge == Transaction(0, t1, << <<PURGE, JTrue>> >>, 0)

MCFlushed == {SetF, Again, Purge}

=============================================================================
