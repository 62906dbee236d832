--------------------------- MODULE MCAgentStorage ---------------------------
(* Finite instances of AgentStorage; operations and titles are alike.       *)
EXTENDS AgentStorage, TLC

Symmetry == Permutations(Ops) \cup Permutations(Titles)
============================================================================
