------------------------------ MODULE MCRelay ------------------------------
(* Instances of Relay for TLC; connections are interchangeable in runs      *)
(* without temporal properties.                                             *)
EXTENDS Relay, TLC
Symmetry == Permutations(Conns)
============================================================================
