-------------------------- MODULE MCSourceIncubation ---------------------------
(* Instances of SourceIncubation for TLC.                                  *)
EXTENDS SourceIncubation
================================================================================
