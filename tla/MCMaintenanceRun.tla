-------------------------- MODULE MCMaintenanceRun --------------------------
(***************************************************************************)
(* Small instances of MaintenanceRun.                                      *)
(***************************************************************************)
EXTENDS MaintenanceRun

CONSTANTS r1
=============================================================================
