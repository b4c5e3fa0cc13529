---------------------- MODULE MCDependencyIntegration ----------------------
(***************************************************************************)
(* Small instances of DependencyIntegration: a task with two or three      *)
(* dependencies.                                                           *)
(***************************************************************************)
EXTENDS DependencyIntegration

CONSTANTS d1, d2, d3

Two == <<d1, d2>>
Three == <<d1, d2, d3>>
=============================================================================
