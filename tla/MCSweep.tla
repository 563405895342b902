------------------------------- MODULE MCSweep -------------------------------
(* Instances of Sweep for TLC.                                             *)
EXTENDS Sweep
=============================================================================
