---------------------------- MODULE MCBackupSync ----------------------------
(* Two machines that the code does not tell apart. *)
EXTENDS BackupSync, TLC

Symmetric == Permutations(Machine)
=============================================================================
