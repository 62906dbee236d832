------------------------------ MODULE MCLoops ------------------------------
(* Finite instances of Loops.                                               *)
EXTENDS Loops
============================================================================
