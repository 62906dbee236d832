---------------------------- MODULE MCSchedules ----------------------------
(* Finite instances of Schedules: ticks and requests are model values,      *)
(* interchangeable where no liveness property is checked.                  *)
EXTENDS Schedules, TLC

Symmetry == Permutations(Ticks) \cup Permutations(Requests)

(* The history variable is read by MaxRunsRespected, and by its own        *)
(* conjunct of TypeOK, which is proved: states that differ in nothing else *)
(* are the same state to every other property.                             *)
StateView == <<file, claimed, job, daemon, boot, clock>>
============================================================================
