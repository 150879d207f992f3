---------------------------- MODULE MCLifecycle ----------------------------
(***************************************************************************)
(* Signals at any time.  MCLifecycle.cfg: up to three, beside that of the  *)
(* watchdog.  MCSecondSignal.cfg: two.                                     *)
(***************************************************************************)
EXTENDS Lifecycle
============================================================================
