--------------------------- MODULE MCCrashRecovery ---------------------------
(***************************************************************************)
(* Instances of CrashRecovery for TLC.                                      *)
(***************************************************************************)
EXTENDS CrashRecovery, TLC

Symmetry == Permutations(Runs \ Blank) \cup Permutations(Procs \ Lockless)
=============================================================================
