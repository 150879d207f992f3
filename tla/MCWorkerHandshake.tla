------------------------- MODULE MCWorkerHandshake -------------------------
(***************************************************************************)
(* Two measured threads (the master and worker 1) and two share CPUs: the  *)
(* smallest instance with a local and a remote target, and with a first    *)
(* and a further share CPU.                                                *)
(***************************************************************************)
EXTENDS WorkerHandshake
============================================================================
