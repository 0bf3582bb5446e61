--------------------------- MODULE MCRoomCardPool ---------------------------
(* Instantiates RoomCardPool for TLC: six card ids, an initial pool of    *)
(* two that grows and shrinks by two, and the default thresholds 0.8 and  *)
(* 0.4.  The ids are interchangeable, so they form a symmetry set.        *)
EXTENDS RoomCardPool, TLC

CONSTANTS r1, r2, r3, r4, r5, r6

MCCards == {r1, r2, r3, r4, r5, r6}
MCSymmetry == Permutations(MCCards)
=============================================================================
