--------------------------- MODULE MCTimelineSync ---------------------------
(* Finite instances of TimelineSync.                                        *)
EXTENDS TimelineSync, TLC
============================================================================
