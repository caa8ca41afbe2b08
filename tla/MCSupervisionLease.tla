-------------------------- MODULE MCSupervisionLease ---------------------------
(* Instances of SupervisionLease for TLC.                                  *)
EXTENDS SupervisionLease
================================================================================
