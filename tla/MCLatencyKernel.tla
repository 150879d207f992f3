-------------------------- MODULE MCLatencyKernel --------------------------
(***************************************************************************)
(* Pages of 8 pointers and 2 loads in the loop, so that a chain can be     *)
(* shorter than the number of pages.  The setups have blocks smaller than  *)
(* a page, of a page and of two pages, chains limited by ACCESSES and by   *)
(* the memory, every use mode, one and two targets and share CPUs.         *)
(***************************************************************************)
EXTENDS LatencyKernel

Setup(mode, pt, n, alignment, r, targets, shared) ==
  [USE_MODE |-> mode, FLUSH_PT |-> pt, ACCESSES |-> n, ALIGNMENT |-> alignment,
   RUNS |-> r, NUM_RESULTS |-> targets, NUM_SHARED_CPUS |-> shared]

MCSetups ==
  {Setup("EXCLUSIVE", FALSE, 100, 1, 1, 1, 0), Setup("EXCLUSIVE", FALSE, 100, 2, 1, 1, 0),
   Setup("INVALID", FALSE, 4, 8, 1, 1, 0), Setup("MODIFIED", TRUE, 6, 4, 1, 2, 0),
   Setup("EXCLUSIVE", FALSE, 100, 16, 1, 1, 0), Setup("SHARED", FALSE, 6, 2, 1, 2, 2),
   Setup("OWNED", TRUE, 6, 1, 1, 2, 1), Setup("FORWARD", FALSE, 6, 1, 1, 2, 2),
   Setup("MUW", FALSE, 4, 2, 1, 1, 1)}
============================================================================
