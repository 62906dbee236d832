--------------------------- MODULE MCWorkspaceGit ---------------------------
(* Finite instances of WorkspaceGit; subscribers are interchangeable where  *)
(* no liveness property is checked.                                         *)
EXTENDS WorkspaceGit, TLC

Symmetry == Permutations(Subs)
=============================================================================
