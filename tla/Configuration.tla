--------------------------- MODULE Configuration ---------------------------
(***************************************************************************)
(* From the settings to a kernel that is ready, as main() calls it:        *)
(* bi_getinfo() with evaluate_environment(), which finds the sizes         *)
(* (ProblemSizes), the CPUs of the threads (ThreadConfig) and all other    *)
(* settings (KernelSettings); bi_init(); and bi_entry() for one size.      *)
(***************************************************************************)
EXTENDS ThreadConfig, ProblemSizes, KernelSettings

CONSTANT INPUTS   \* settings for sizes, CPUs, and the rest; the machine

ASSUME ConfigurationAssumption ==
  \A i \in INPUTS : i.source \in Sources /\ i.env \in Environments

configVars == <<vars, allSizes, kernelVars>>

Sizes ==
  /\ FindSizes
  /\ UNCHANGED <<vars, kernelVars>>

\* The sizes are found first; an error does not keep the rest from being read.
ThreadLists ==
  /\ ppc = "done"
  /\ \/ CountCpus \/ BindCpus \/ CountShares \/ BindShares \/ BindMemory
  /\ UNCHANGED <<allSizes, kernelVars>>

Settings ==
  /\ pc = "check" /\ ReadSettings
  /\ errors' = (errors \/ error_msg' # <<>> \/ source.STEPS = Missing)
  /\ UNCHANGED <<env, pc, counts, cpu_bind, mem_bind, room, allSizes>>

Errors ==
  /\ values # <<>> /\ Check
  /\ UNCHANGED <<allSizes, kernelVars>>

GetInfo ==
  /\ pc = "init" /\ info = <<>>
  /\ bi_getinfo(cpu_bind, NUM_RESULTS)
  /\ UNCHANGED <<vars, allSizes>>

InitKernel ==
  /\ info # <<>> /\ BiInit /\ SetClock
  /\ UNCHANGED allSizes

\* "CPU-Clockrate could not be estimated"
NoClock ==
  /\ pc = "init" /\ info # <<>> /\ ~ClockKnown
  /\ pc' = "exit"
  /\ UNCHANGED <<env, counts, cpu_bind, mem_bind, room, errors, allSizes, kernelVars>>

Entry ==
  /\ Ready /\ row.size = 0
  /\ \E k \in DOMAIN problemarray1, valid \in SUBSET (0 .. NUM_RESULTS - 1) :
       bi_entry(SizeOf(k), NUM_RESULTS, valid)
  /\ UNCHANGED <<vars, allSizes>>

Ended ==
  /\ Stopped \/ (ppc \in {"exit", "crash", "overrun"} /\ UNCHANGED vars)
  /\ UNCHANGED <<allSizes, kernelVars>>

InitConfig ==
  /\ \E i \in INPUTS : source = i.source /\ env = i.env /\ kernel = i.kernel
  /\ InitThreads /\ InitSizes /\ InitSettings

NextConfig ==
  \/ Sizes \/ ThreadLists \/ Settings \/ Errors \/ GetInfo \/ InitKernel \/ NoClock \/ Entry
  \/ Ended

SpecConfig == InitConfig /\ [][NextConfig]_configVars
----------------------------------------------------------------------------
(***************************************************************************)
(* Correctness properties.                                                 *)
(***************************************************************************)
\* What stands in a column of the result file belongs to its legend: the thread is the
\* one on the CPU that is named, the unit is the one of the axis, the driver
\* keeps the greatest bandwidth and the least latency, and a measurement that
\* is invalid is so in every unit.
LegendMatchesResult ==
  row.size > 0 /\ Distinct =>
    /\ {f + 1 : f \in DOMAIN info} = DOMAIN row.results
    /\ \A f \in DOMAIN info :
         row.results[f + 1] # INVALID =>
           /\ row.results[f + 1].unit = info[f].unit
           /\ cpu_bind[row.results[f + 1].thread] = info[f].to
           /\ info[f].outlier_direction_upwards = IF info[f].unit = "GB/s" THEN 0 ELSE 1
    /\ \A f, g \in DOMAIN info :
         info[f].to = info[g].to => (row.results[f + 1] = INVALID <=> row.results[g + 1] = INVALID)

============================================================================
