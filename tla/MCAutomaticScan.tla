---------------------------- MODULE MCAutomaticScan ----------------------------
(* Instances of AutomaticScan for TLC.                                     *)
EXTENDS AutomaticScan
================================================================================
