------------------------------- MODULE MCMount -------------------------------
(***************************************************************************)
(* Symmetry of the threads and of the open files, for the run that checks  *)
(* no liveness.                                                            *)
(***************************************************************************)
EXTENDS Mount, TLC

Symmetric == Permutations(Threads) \cup Permutations(FileIds)
===============================================================================
