------------------------- MODULE AbortedMeasurement -------------------------
(***************************************************************************)
(* The exchange of master and workers when a signal ends the measurement.  *)
(*                                                                         *)
(* sigint_handler() and sigterm_handler() run on the master's stack, at    *)
(* any point after bi_init(): also in the middle of an exchange, with a    *)
(* worker inside use_memory() and its acknowledgement still to come.  They *)
(* call bi_cleanup() and exit(); the interrupted code never continues.     *)
(***************************************************************************)
EXTENDS WorkerHandshake

VARIABLE aborted   \* whether a signal handler has taken over

abortVars == <<vars, aborted>>

InitA == Init /\ aborted = FALSE

\* The handlers are installed when bi_init() has returned.  A handler that
\* finds bi_cleanup() running is the subject of module Lifecycle.
Interruptible == {"idle", "loop", "step", "local"} \cup CallPCs

\* What precedes bi_cleanup() in the handler touches no word of this module.
Interrupt ==
  /\ mpc \in Interruptible
  /\ aborted' = TRUE
  /\ t' = 1
  /\ MasterGoto("stop")
  /\ UNCHANGED <<shared, params, worker, run, runs, entries, steps, line, setup>>

NextA == \/ Next /\ UNCHANGED aborted
         \/ Interrupt

SpecA == InitA /\ [][NextA]_abortVars
FairSpecA == SpecA /\ Fairness
----------------------------------------------------------------------------
\* bi_cleanup() joins every worker wherever the handler interrupted the
\* exchange, so a signalled program ends.
AbortTerminates == aborted ~> MasterAt("freed")

\* With huge pages a worker that is stopped unmaps its buffer.  No one works on the
\* buffer of a worker that is gone; but the workers are stopped in ascending order,
\* targets first, so after a signal a share CPU may still be working on the
\* buffer of a target that it was lent.
WorksOnMappedBuffer ==
  \A w \in Workers :
    LET b == arg[w].buffer IN
    At(w, "using") /\ b \in Workers /\ At(b, "gone") =>
      aborted /\ IsShareCpu(w) /\ ~IsShareCpu(b)

=============================================================================
