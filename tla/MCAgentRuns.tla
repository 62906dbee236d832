---------------------------- MODULE MCAgentRuns ----------------------------
(* Finite instances of AgentRuns: calls and objects are model values, and  *)
(* interchangeable wherever no liveness property is checked.               *)
EXTENDS AgentRuns, TLC

Symmetry == Permutations(Calls) \cup Permutations(Sessions)

(* What is left in an unreachable object is never read again: Register     *)
(* overwrites it.  States that differ only there are the same state.       *)
Live == [s \in Sessions |-> IF Reachable(s) THEN <<agent[s], session[s]>>
                            ELSE <<None, None>>]

StateView == <<current, Live, pendingRun, emitted, call, waiter, tail,
               handling, owed>>
============================================================================
