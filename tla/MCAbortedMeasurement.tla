------------------------ MODULE MCAbortedMeasurement ------------------------
(***************************************************************************)
(* A signal at every point of one run for a local and a remote target with *)
(* two share CPUs.                                                         *)
(***************************************************************************)
EXTENDS AbortedMeasurement
=============================================================================
