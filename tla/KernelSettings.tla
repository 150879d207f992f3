--------------------------- MODULE KernelSettings ---------------------------
(***************************************************************************)
(* The settings of the two kernels and the interface they offer to the     *)
(* driver: evaluate_environment() reads every setting and reports errors   *)
(* at its end; bi_getinfo() describes the functions that bi_entry()        *)
(* measures, one for each thread and unit.                                 *)
(*                                                                         *)
(* The lists of CPUs and of sizes, and the two settings that go with them, *)
(* USE_MODE and ALLOC, are in modules ThreadConfig and ProblemSizes.       *)
(***************************************************************************)
EXTENDS Integers, Sequences, FiniteSets, SequencesExt

CONSTANT
  INVALID      \* INVALID_MEASUREMENT

\* It is none of the results that _work() measures.
ASSUME KernelSettingsAssumption == INVALID \notin [unit : {"GB/s", "cycles", "ns"}, thread : Nat]

VARIABLES
  kernel,      \* which of the kernels, its settings: name -> value, and the clock
               \* rate that the hardware detection finds, or 0
  values,      \* the variables the settings are stored in
  error_msg,   \* the settings with an error; the last one read is reported
  clockrate,   \* cpuinfo->clockrate
  info,        \* what bi_getinfo() says of each function
  row          \* what one call of bi_entry() stored

kernelVars == <<kernel, values, error_msg, clockrate, info, row>>
texts      == kernel.settings
----------------------------------------------------------------------------
(***************************************************************************)
(* Settings with values to choose from, and what they are without one.     *)
(***************************************************************************)
BandwidthChoices ==
  [FLUSH_MODE |-> {"M", "E", "I", "R"}, FLUSH_BUFFER |-> {"G", "T"}, HUGEPAGES |-> {"0", "1"},
   USE_DIRECTION |-> {"LIFO", "FIFO"},
   INSTRUCTION |-> {"ld1", "ldr128", "movdqu", "vmovdqu", "mov"},
   LOOP_OVERHEAD_COMPENSATION |-> {"enabled", "disabled"},
   SERIALIZATION |-> {"mfence", "cpuid", "disabled"}]

LatencyChoices ==
  [FLUSH_MODE |-> {"M", "E", "I", "R"}, FLUSH_BUFFER |-> {"G", "T"}, HUGEPAGES |-> {"0", "1"},
   INSTRUCTION |-> {"ldr"},
   LOOP_OVERHEAD_COMPENSATION |-> {"enabled", "disabled"},
   SERIALIZATION |-> {"mfence", "cpuid", "disabled"}]

\* The settings that can be wrong or missing, in the order in which they are read.
BandwidthOrder ==
  <<"FLUSH_L1", "FLUSH_L2", "FLUSH_L3", "FLUSH_L4", "FLUSH_MODE", "FLUSH_BUFFER", "FLUSH_EXTRA",
    "HUGEPAGES", "OFFSET", "USE_DIRECTION", "INSTRUCTION", "BURST_LENGTH",
    "LOOP_OVERHEAD_COMPENSATION", "SERIALIZATION">>

LatencyOrder ==
  <<"ACCESSES", "TLB_MODE", "FLUSH_PAGE_TABLES", "ALIGNMENT",
    "FLUSH_L1", "FLUSH_L2", "FLUSH_L3", "FLUSH_L4", "FLUSH_MODE", "FLUSH_BUFFER", "FLUSH_EXTRA",
    "HUGEPAGES", "OFFSET", "INSTRUCTION", "LOOP_OVERHEAD_COMPENSATION", "SERIALIZATION">>

Optional == {"FLUSH_MODE", "FLUSH_BUFFER", "FLUSH_EXTRA", "LOOP_OVERHEAD_COMPENSATION", "SERIALIZATION"}

Allowed == IF kernel.name = "bandwidth" THEN BandwidthChoices ELSE LatencyChoices
Order == IF kernel.name = "bandwidth" THEN BandwidthOrder ELSE LatencyOrder

\* Without a setting the variables keep what they are initialised with.
Defaults ==
  [FLUSH_L1 |-> 0, FLUSH_L2 |-> 0, FLUSH_L3 |-> 0, FLUSH_L4 |-> 0,
   FLUSH_MODE |-> "E", FLUSH_BUFFER |-> "T", FLUSH_EXTRA |-> 0, FLUSH_ACCESSES |-> 1,
   FLUSH_PAGE_TABLES |-> 0, FLUSH_SHARED_CPU |-> 0, ALWAYS_FLUSH_CPU0 |-> 0,
   DISABLE_CLFLUSH |-> 1, ENABLE_CODE_PREFETCH |-> 0, USE_ACCESSES |-> 1, RUNS |-> 0,
   HUGEPAGES |-> "", OFFSET |-> 0, ALIGNMENT |-> 64, USE_DIRECTION |-> "", INSTRUCTION |-> "",
   BURST_LENGTH |-> 0, ACCESSES |-> 0, TLB_MODE |-> 0, CPU_FREQUENCY |-> 0,
   LOOP_OVERHEAD_COMPENSATION |-> "disabled", SERIALIZATION |-> ""]

Wrong(name) ==
  IF name \notin DOMAIN texts THEN name \notin Optional
  ELSE IF name \in DOMAIN Allowed THEN texts[name] \notin Allowed[name]
  ELSE name = "FLUSH_EXTRA" /\ texts[name] \notin 0 .. 1000

Stored == [name \in DOMAIN Defaults |-> IF name \in DOMAIN texts THEN texts[name] ELSE Defaults[name]]

\* The instruction decides on alignment and offset.
ByInstruction(v) ==
  CASE v.INSTRUCTION \in {"ld1", "ldr128"} -> [v EXCEPT !.ALIGNMENT = 128, !.OFFSET = 0]
    [] v.INSTRUCTION = "movdqu"  -> [v EXCEPT !.ALIGNMENT = 128, !.OFFSET = @ % 128]
    [] v.INSTRUCTION = "vmovdqu" -> [v EXCEPT !.ALIGNMENT = 256, !.OFFSET = @ % 256]
    [] v.INSTRUCTION = "mov"     -> [v EXCEPT !.ALIGNMENT = 64, !.OFFSET = @ % 64]
    [] v.INSTRUCTION = "ldr"     -> [v EXCEPT !.OFFSET = @ % v.ALIGNMENT]
    [] OTHER                     -> v

\* Only burst lengths above 4 are looked at.
BurstWrong == kernel.name = "bandwidth" /\ Stored.BURST_LENGTH > 4 /\ Stored.BURST_LENGTH # 8

ReadSettings ==
  /\ values = <<>>
  /\ values' = ByInstruction(Stored)
  /\ error_msg' = SelectSeq(Order, Wrong) \o (IF BurstWrong THEN <<"BURST_LENGTH">> ELSE <<>>)
  /\ UNCHANGED <<kernel, clockrate, info, row>>

\* bi_init(): a frequency that is set replaces the one that was found.
ClockKnown == values.CPU_FREQUENCY # 0 \/ clockrate # 0
SetClock ==
  /\ ClockKnown
  /\ clockrate' = IF values.CPU_FREQUENCY # 0 THEN values.CPU_FREQUENCY ELSE clockrate
  /\ UNCHANGED <<kernel, values, error_msg, info, row>>
----------------------------------------------------------------------------
(***************************************************************************)
(* bi_getinfo(): cpu is cpu_bind, n is NUM_RESULTS.                        *)
(***************************************************************************)
n_of_works == IF kernel.name = "bandwidth" THEN 1 ELSE 2

Legend(unit, to, direction) == [unit |-> unit, to |-> to, outlier_direction_upwards |-> direction]

\* Function k + n*j of a kernel is for thread k; of the latency kernel, work 0
\* counts cycles and work 1 time.
BandwidthInfo(cpu, n) == [f \in 0 .. n - 1 |-> Legend("GB/s", cpu[f], 0)]

\* Mutant: time comes first.
LatencyInfoSwapped(cpu, n) ==
  [f \in 0 .. 2 * n - 1 |-> Legend(IF f < n THEN "ns" ELSE "cycles", cpu[f % n], 1)]

LatencyInfo(cpu, n) ==
  [f \in 0 .. 2 * n - 1 |-> Legend(IF f < n THEN "cycles" ELSE "ns", cpu[f % n], 1)]

bi_getinfo(cpu, n) ==
  /\ info' = IF kernel.name = "bandwidth" THEN BandwidthInfo(cpu, n) ELSE LatencyInfo(cpu, n)
  /\ UNCHANGED <<kernel, values, error_msg, clockrate, row>>

(***************************************************************************)
(* bi_entry(): what _work() measured for each thread, and the same as a    *)
(* time; valid is the set of threads whose measurement was valid.          *)
(***************************************************************************)
Result(unit, k) == [unit |-> unit, thread |-> k]

BandwidthRow(n, valid) ==
  [f \in 1 .. n |-> IF f - 1 \in valid THEN Result("GB/s", f - 1) ELSE INVALID]

\* tmp_results[k]/clockrate*1000000000, unless the measurement is invalid.
LatencyRow(n, valid) ==
  [f \in 1 .. 2 * n |->
     LET k == (f - 1) % n
     IN  IF k \notin valid THEN INVALID ELSE Result(IF f <= n THEN "cycles" ELSE "ns", k)]

bi_entry(size, n, valid) ==
  /\ row' = [size |-> size,
             results |-> IF kernel.name = "bandwidth" THEN BandwidthRow(n, valid) ELSE LatencyRow(n, valid)]
  /\ UNCHANGED <<kernel, values, error_msg, clockrate, info>>

InitSettings ==
  /\ clockrate = kernel.clockrate
  /\ values = <<>> /\ error_msg = <<>> /\ info = <<>>
  /\ row = [size |-> 0, results |-> <<>>]
=============================================================================
