-------------------------- MODULE MCRelaySupervisor --------------------------
(* Instances of RelaySupervisor for TLC.                                     *)
EXTENDS RelaySupervisor

CONSTANTS sub, event
=============================================================================
