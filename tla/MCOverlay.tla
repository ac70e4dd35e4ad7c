----------------------------- MODULE MCOverlay ------------------------------
(* Overlay for TLC: three curated verses, filters that select all of them,  *)
(* one and none, a verse from elsewhere, and a clock that is set back to    *)
(* the middle of a minute of the first day.                                 *)
EXTENDS Overlay

CONSTANTS v1, v2, v3, other

MCCurated == <<v1, v2, v3>>
MCSelections == {{v1, v2, v3}, {v3}, {}}
MCClockTargets == {1}
MCElsewhere == {other}
=============================================================================
