-------------------------- MODULE MCClientSessions --------------------------
(* Instances of ClientSessions for TLC; requests are interchangeable in     *)
(* runs without temporal properties.                                        *)
EXTENDS ClientSessions, TLC
Symmetry == Permutations(Requests)
============================================================================
