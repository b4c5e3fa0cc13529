---------------------------- MODULE MCManagedRun ----------------------------
(***************************************************************************)
(* The instances of MCWorkerRun, seen by their Manager.                    *)
(***************************************************************************)
EXTENDS MCWorkerRun, ManagedRun
=============================================================================
