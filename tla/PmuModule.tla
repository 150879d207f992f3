----------------------------- MODULE PmuModule -----------------------------
(***************************************************************************)
(* The kernel module enable_arm_pmu (AArch64 part): it gives programs      *)
(* access to the cycle counter that the kernels read as their time stamp.  *)
(*                                                                         *)
(* Every CPU has registers of its own, so init() and fini() run a function *)
(* on each CPU and wait for all of them.  The registers are in any state   *)
(* before the module is loaded: firmware and perf use them too.            *)
(***************************************************************************)
EXTENDS Naturals, FiniteSets

CONSTANTS
  CPUS,    \* the CPUs that are online
  LOADS    \* bound on how often the module is loaded

ASSUME PmuAssumption == IsFiniteSet(CPUS) /\ CPUS # {} /\ LOADS \in Nat

VARIABLES
  pmcr,        \* per CPU: bits set in the control register
  pmcntenset,  \* per CPU: whether the cycle counter is enabled
  pmuserenr,   \* per CPU: bits set in the user enable register
  module,      \* state of the module
  called,      \* CPUs on which init() or fini() has run its function
  loads        \* how often the module has been loaded

registers == <<pmcr, pmcntenset, pmuserenr>>
pmuvars   == <<registers, module, called, loads>>

Bits       == {"E", "P", "C", "D", "X", "DP"}   \* ARMV8_PMCR_MASK
UserBits   == {"EN", "CR", "ER"}

\* The bits P and C reset the counters and read as zero.
Resets == {"P", "C"}

Write(c, bits) == pmcr' = [pmcr EXCEPT ![c] = bits \ Resets]

\* Mutant: the first write, which clears the other bits, is left out.
EnableKeepsBits(c) ==
  /\ pmuserenr' = [pmuserenr EXCEPT ![c] = {"EN", "ER", "CR"}]
  /\ pmcntenset' = [pmcntenset EXCEPT ![c] = TRUE]
  /\ Write(c, pmcr[c] \cup {"E"})

\* The control register is written twice: {P, C}, and what is then read with E.
EnableCpuCounters(c) ==
  /\ pmuserenr' = [pmuserenr EXCEPT ![c] = {"EN", "ER", "CR"}]
  /\ pmcntenset' = [pmcntenset EXCEPT ![c] = TRUE]
  /\ Write(c, {"E"})

\* Mutant: user-mode access is left on.
DisableKeepsAccess(c) ==
  /\ Write(c, pmcr[c] \cup (Bits \ {"E"}))
  /\ UNCHANGED <<pmcntenset, pmuserenr>>

\* A zero written to a "set" register changes nothing; the control register
\* gets what it had or ~E.
DisableCpuCounters(c) ==
  /\ Write(c, pmcr[c] \cup (Bits \ {"E"}))
  /\ pmuserenr' = [pmuserenr EXCEPT ![c] = {}]
  /\ UNCHANGED pmcntenset
----------------------------------------------------------------------------
(***************************************************************************)
(* init() and fini(): on_each_cpu(..., 1) interrupts the CPUs in any order *)
(* and returns when all are through.                                       *)
(***************************************************************************)
Begin(before, during) ==
  /\ module = before /\ module' = during
  /\ called' = {}
  /\ UNCHANGED registers

Insmod == loads < LOADS /\ loads' = loads + 1 /\ Begin("unloaded", "init")
Rmmod  == Begin("loaded", "fini") /\ UNCHANGED loads

OnCpu(c, during) ==
  /\ module = during /\ c \notin called
  /\ called' = called \cup {c}
  /\ UNCHANGED <<module, loads>>

OnEachReturns(during, after) ==
  /\ module = during /\ called = CPUS
  /\ module' = after
  /\ UNCHANGED <<registers, called, loads>>

InitPmu == /\ pmcr \in [CPUS -> SUBSET {"E", "D"}]
           /\ pmcntenset \in [CPUS -> BOOLEAN]
           /\ pmuserenr = [c \in CPUS |-> {}]
           /\ module = "unloaded" /\ called = {} /\ loads = 0

NextPmu == \/ Insmod \/ Rmmod
           \/ \E c \in CPUS : \/ OnCpu(c, "init") /\ EnableCpuCounters(c)
                              \/ OnCpu(c, "fini") /\ DisableCpuCounters(c)
           \/ OnEachReturns("init", "loaded") \/ OnEachReturns("fini", "unloaded")

SpecPmu == InitPmu /\ [][NextPmu]_pmuvars
----------------------------------------------------------------------------
(***************************************************************************)
(* Correctness properties.                                                 *)
(***************************************************************************)

\* Every variable has its type.
TypeOK ==
  /\ pmcr \in [CPUS -> SUBSET (Bits \ Resets)]
  /\ pmcntenset \in [CPUS -> BOOLEAN]
  /\ pmuserenr \in [CPUS -> SUBSET UserBits]
  /\ module \in {"unloaded", "init", "loaded", "fini"}
  /\ called \subseteq CPUS /\ loads \in 0 .. LOADS

\* A program can read the cycle counter of CPU c, and it counts every cycle.
Readable(c) == {"EN", "CR"} \cap pmuserenr[c] # {}
Counting(c) == "E" \in pmcr[c] /\ pmcntenset[c]
EveryCycle(c) == "D" \notin pmcr[c]
CountersEnabled(c) == Readable(c) /\ Counting(c) /\ EveryCycle(c)

\* While the module is loaded the time stamp works on every CPU, whatever was in
\* the registers before, also when the module is loaded again.
TimestampWorks ==
  module = "loaded" => \A c \in CPUS : CountersEnabled(c)

\* A module that is not loaded leaves no CPU that lets programs read.
AccessWithdrawn ==
  module = "unloaded" => \A c \in CPUS : ~Readable(c)

\* The inductive invariant: on how many CPUs init() or fini() has been.
PmuInv ==
  /\ TypeOK
  /\ module = "init" => \A c \in called : CountersEnabled(c)
  /\ module = "loaded" => \A c \in CPUS : CountersEnabled(c)
  /\ module = "fini" => \A c \in called : ~Readable(c)
  /\ module = "unloaded" => \A c \in CPUS : ~Readable(c)
============================================================================
