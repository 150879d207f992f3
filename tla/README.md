# Verification of wrBench

wrBench (`src/ccBench`, a BenchIT fork) measures cache and memory latencies and
bandwidths on multi-core AArch64 machines.  A *driver* (`benchit.c`) runs a
*kernel*: for every problem size it calls `bi_entry()`, which has worker threads
place data in a coherence state (`BENCHIT_KERNEL_USE_MODE`) in the caches of
chosen CPUs and then measures the access from CPU 0.  A result is only worth
something if the threads did what they were told, in the order they were told
it, one at a time, and with nobody else touching the caches.  That, the order
in which problem sizes are measured, what the settings and the detected caches
make of a measurement, what is written of it, and the way the program ends
(regularly, by a signal, or by its watchdog) is what this directory models.

Abbreviations: `BW/` is `src/ccBench/kernel/AArch64/memory_bandwidth/C/pthread/SIMD/single-reader/`,
`LAT/` is `src/ccBench/kernel/AArch64/memory_latency/C/pthread/0/read/`,
`benchit.c` is `src/ccBench/benchit.c`.

## 1. Inventory

### Parts of the system

| part | source | state | operations | 
|---|---|---|---|
| master and workers of the bandwidth kernel | `BW/work.c` 1296-1692, `BW/kernel_main.c` 190-620 | `thread_comm[]`, `ack`, `done`, `threaddata[]`; per worker `old`; the caches | `bi_init`, `bi_entry`/`_work`, `bi_cleanup`, `thread` |
| placing data | `BW/work.c` 255-379 | coherence state of every line | `use_memory` |
| cache flush | `BW/work.c` 392-536 | flush buffer, parameters of `cpuinfo` | `cacheflush`, `flush_caches` |
| measured loops | `BW/work.c` 538-1294, 1371-1560 | data set, time stamps, best result | `_work`, `asm_work_ld1`, `asm_work_ldr128` |
| permutation random numbers | `LAT/work.c` 52-261 (pages and chains), `BW/work.c` 73-253 (`RANDOM`, in both kernels) | parameters and value of the generator, table of primes | `_random_init`, `_random` |
| configuration | `BW/kernel_main.c` 132-213, 242-249, 618-1157, the same functions in `LAT/kernel_main.c` | problem sizes, CPU lists and bindings, settings, legends, the row of results | `evaluate_environment`, `bi_getinfo`, `bi_init`, `bi_entry` |
| watchdog | `BW/kernel_main.c` 84-130 | sleeping thread | `watchdog_timer`, `sigusr1_handler` |
| latency kernel | `LAT/work.c`, `LAT/kernel_main.c` | as above, and a pointer chain per buffer, page addresses | `_work`, `use_memory`, `asm_work_ldr` |
| measurement loop | `benchit.c` 611-668, 1640-1893 | `todolist`, `donelist`, `allresults`, progress | `get_new_problems`, `main` |
| program end | `benchit.c` 568-588, 1440-1536, 1895-1919 | signal dispositions, result file, freed memory | `main`, `sigint_handler`, `sigterm_handler`, `bi_abort`, `safe_exit` |
| results and file layout | `benchit.c` 735-1438, 2455-2850 | result file | `analyse_results`, `write_results`, axis functions, `bi_fprintf` |
| list parser | `benchit.c` 2940-3237 | linked list of sizes | `bi_parselist`, list elements |
| environment table | `bienvhash.c`, `benchit.c` 375-560 | hash table with chains | `bi_put`, `bi_get`, `bi_readParameterFile`, `checkCommandLine`, `bi_getenv` |
| PMU module | `src/ko/enable_arm_pmu.c` | control registers of each CPU | `init`, `fini` on each CPU |
| hardware detection | `tools/hw_detect/generic.c`, `BW/arch.c` | `cpuinfo` | `init_cpuinfo`, `generic_cache_*` |
| scripts, Java driver, GUI | `*.sh`, `jbi/`, `gui/` | none of interest | |

### How they interact

* `main()` calls `bi_init()`, once `bi_entry()` per problem size and repetition,
  and `bi_cleanup()`.  `bi_init()` creates a worker per CPU of `CPU_LIST` and, for
  `SHARED`, `OWNED`, `FORWARD` and `MUW`, per CPU of `SHARED_CPU_LIST`, and the watchdog.
* The master and its workers share three words, without a lock: the master
  shows worker `i` a command in `thread_comm[i]`; all workers answer in the one
  cell `ack`, and in `done` when `use_memory()` is over.  Parameters are passed
  in `threaddata[i]`.
* A SIGINT or SIGTERM handler runs on top of the main thread, wherever it is,
  and finishes the program itself by the same steps as `main()`.  The watchdog
  sends SIGTERM after `BENCHIT_KERNEL_TIMEOUT` seconds, and gets SIGUSR1 from `bi_cleanup()`.

### What is hard, and what should hold

* **Interleaving in the handshake.**  One cell `ack` for all workers; the same
  command sent twice in a row to the same worker; parameters read after the
  acknowledgement; buffers lent to share CPUs.  Correct means: exclusive access,
  every acknowledgement comes from the partner and is consumed, a command is
  executed exactly once with the parameters posted, buffers are given back, the
  coherence state is the one that `USE_MODE` names, everything terminates.
* **Signals in the middle of anything.**  A handler calls `bi_cleanup()` while a
  worker is inside `use_memory()` and still owes an acknowledgement; a second handler
  starts above the first; SIGUSR1 comes before its handler is installed.  Correct
  means: `main()` and each handler write the results once at most, nothing is used after it is freed but
  by a handler that interrupted a finish, every worker is joined before the shared words are freed, the program ends.
* **Schedule of problem sizes.**  Integer steps, a held back maximum, in-place
  lists terminated by 0 with a counter in element 0, a time limit at any point.
  Correct means: every size is measured exactly `accuracy + 1` times, from coarse
  to fine, rows hold the best result of their own size.
* **Memory order.**  `ack`, `done` and `thread_comm` are written without barriers
  between most of the stores, on an architecture that may reorder them.
* **Lists and arrays.**  Lists of CPUs are read twice, to count and to store, and lists of
  different meaning end up in the same arrays.  Correct means: nothing is stored past
  an array, every thread that is commanded exists, on a CPU of its own.
* **Lists of numbers.**  `bi_parselist()` walks a text with an index that several branches move, with a flag that is kept from piece to
  piece.  Correct means: the sizes are the ones that PARAMETERS promises for the text, in any order but each once.
* **Sysfs as text.**  Detection formats what it reads into a line and finds the values again by counting commas.  Correct means: the
  caches that are known are the ones that are there.
* **Sizes.**  The flush area is computed from cache sizes that settings may replace, in unsigned
  arithmetic, and is walked without a check.  Correct means: a flush stays inside and
  covers what it must evict.
* **What a loop reads.**  Assembler loops read whole passes of 64 or 66 loads, formulas elsewhere say how many bytes that was.  Correct means:
  a measurement reads the data that was placed and nothing else, counts what it read, and the fastest run is reported.
* **The result file.**  Rows, axes and texts are computed apart from each other, from results that a signal or a time limit left incomplete.
  Correct means: a complete file holds what was measured, on axes that show it.
* **The pointer chain.**  The latency is the time of loads that each depend on the one before, along a chain in random
  order.  Correct means: whoever built the chain, in whatever buffer it was lent, the loads visit each block once; otherwise
  caches answer that are not measured.
* **Settings.**  Compiled defaults, several parameter files, options and the environment all write one
  table.  Correct means: the table is a map, and what was said last counts.
* **Registers of each CPU.**  Loading and unloading the PMU module runs on each CPU by itself.

`PROJECT.json` lists each hazard at its line, with the property that covers it
or the reason why none does yet.

## 2. Modules

| module | models |
|---|---|
| `CoherenceStates` | what `use_memory()` does to the MESIF/MOESI state of one line, and the state each `USE_MODE` promises |
| `WorkerHandshake` | `bi_init`, `bi_entry`/`_work`, `bi_cleanup` and `thread` |
| `RemoteCall` | abstract specification: a synchronous call of one worker |
| `AbortedMeasurement` | `WorkerHandshake` with a signal handler that takes over the master |
| `WeakHandshake` | `WorkerHandshake` with the memory order of AArch64 |
| `Lifecycle` | `main`, both signal handlers and the watchdog, from `bi_init()` to `exit()` |
| `ProblemSchedule` | `get_new_problems` and the measurement loop of `main` |
| `ResultAxis` | operators: extents, ticks and ranges of the axes |
| `LineBreak` | operators: `bi_fprintf`, which breaks lines |
| `ResultFile` | `ProblemSchedule` up to the files: `analyse_results`, `write_results`, quick view, signals in between |
| `ProblemSizes` | `bi_parselist`, and the sizes both kernels make of a list, a range or the wish for random order |
| `ThreadConfig` | CPU, share and memory lists: `evaluate_environment`, the cut in `bi_init` |
| `KernelSettings` | all other settings of both kernels, `bi_getinfo`, clock rate, the row of `bi_entry` |
| `Configuration` | `ProblemSizes`, `ThreadConfig` and `KernelSettings` in the order of the code |
| `Detection` | the caches as `generic.c` reads them from sysfs for `init_cpuinfo` |
| `Buffers` | `Detection` and what follows: sizes, buffer and flush area in `bi_init`, `cacheflush`, `flush_caches` |
| `PermutationRandom` | the generator of both kernels: `_random_init`, `_random` |
| `LatencyKernel` | the latency kernel's `_work` and `use_memory`: pages, pointer chain, runs, results |
| `PmuModule` | the kernel module `enable_arm_pmu` |
| `MeasuredLoop` | the bandwidth kernel's loops and results, on CPUs whose registers `PmuModule` sets |
| `EnvTable` | abstract specification: the table of environment variables is a map |
| `EnvHash` | the hash table, the command line and the parameter files |
| `NumberFacts` | lemmas: least numbers, functions that are defined by recursion over `0 .. n`, division, primes, powers modulo a prime |
| `...Proofs` | theorems: `WorkerHandshakeProofs` (with `AbortedMeasurement`), `WeakHandshakeProofs`, `MainProofs` (`Lifecycle`, `EnvHash`), `ScheduleProofs` (`ProblemSchedule`, `ResultFile`), `ConfigurationProofs` (`Configuration`, the parser of `ProblemSizes`), `BuffersProofs` (`Detection`, `Buffers`, `PmuModule`, `MeasuredLoop`), `PermutationProofs` (`PermutationRandom`, `LatencyKernel`, `ProblemSizes`) |
| `MC...` | what the configurations are for; one `.cfg` per run |

`AbortedMeasurement` and `WeakHandshake` extend `WorkerHandshake`; `ThreadConfig` establishes what
`WorkerHandshake` takes as its constants; `ResultFile` composes `ProblemSchedule` with the operators of `ResultAxis` and
`LineBreak`; `ProblemSizes` and `LatencyKernel` extend `PermutationRandom`; `Buffers` extends `Detection`, `MeasuredLoop` extends
`PmuModule`.  `RemoteCall`, `EnvTable` and, for the registers, `PmuModule` are what `WorkerHandshake`, `EnvHash` and `MeasuredLoop` are
shown to implement.

The two kernels share much of their text.  Where a definition stands for both copies, `map` in `PROJECT.json` names one of them; where the
copies differ, the definition has the kernel as an input (`KernelSettings`, `Buffers`).

### WorkerHandshake

Variables have the names of the code.  An action is the code from one access of
a shared word to the next one, so all interleavings of these accesses
are behaviours; every spin loop is a guard.  `mpc` and `wpc[w]` are positions in
the master and in worker `w`.  The nested code of `_work()` for one target (use
mode adaption, flushes, measurement) is a *script*, a sequence of steps
`[who, what, mode]`; executing a step for a worker is the exchange

    PostUse | PostFlush -> AwaitAccepted -> ClearAccepted -> Withdraw
      -> AwaitWaiting -> ClearWaiting [-> AwaitDone -> ClearDone]

that the code spells out each time.  `aligned_addr[w]` is the thread whose
buffer `w` was given; `arg[w]` is what the worker read from `threaddata[w]`.  One
cache line per buffer stands for the whole buffer, because `use_memory()` treats all
lines alike.  A flush may or may not evict a line: what a flush of a given
size evicts is a matter of the hardware.  `_work()` computes the number of runs from
the sizes; the model takes any number up to `RUNS`, 0 included (a measurement
without accesses is invalid but still returns).

Use modes, the flush settings and the two protocols are combined freely: the vendor
checks that would tie them together are commented out in the code
(`BW/kernel_main.c:1140-1155`).  How a cache answers a load is not in the repository;
`ReadLine` is the textbook rule the comments of `work.c` rely on and is marked external.

In this module memory is sequentially consistent.

### AbortedMeasurement, WeakHandshake

`AbortedMeasurement` adds one action, `Interrupt`: at any point after `bi_init()` the
master continues with `bi_cleanup()`.  The handler never returns to the exchange.  With huge pages each worker unmaps its
own buffer when it is stopped, so a buffer that was lent when the signal came may be gone before its borrower is (`WorksOnMappedBuffer`).

`WeakHandshake` runs the same actions on what each thread *sees*: a store to `ack` or
`done` first is late (`late`), is visible to its own thread, and reaches memory in a step of its own
(`Reaches`), in any order.  A `dmb` is a guard that nothing of the thread is late.  Stores to
`thread_comm` reach memory at once: a late command only delays the worker, whereas an
early one, ahead of `ack = 0`, is the order that matters.  A worker in `EARLY` may load its parameters before
the load of the command has returned (`LoadEarly`), since the spin loop on `thread_comm` orders nothing.

### Lifecycle

Signal handlers run on the stack of the main thread, so the state is a stack of
frames.  `main()` and both handlers end the program by the same steps (write, cleanup,
kill the watchdog, free, exit), which are one set of actions on the top frame.
`signal()` has its BSD meaning: a signal is blocked while its handler runs and
delivered when the handler returns.  Signals come at any time: each handler ignores
only the signal it was called for and `main()` none, so that a handler may start on top of a
finish, and the other one on top of that.  It then uses what was freed or joins threads again
(`Misused`), and the process goes on as if nothing had happened, crashes, or waits for ever
(`Undefined`, "hung").  The watchdog may be slower than the whole measurement and is then still
"starting" when `bi_cleanup()` sends it SIGUSR1.  A report that begins in the same second as an earlier one opens the same
file and truncates it (`Opened`).  Signals sent to the process arrive
in the main thread.  `bi_abort()` (1521-1536) repeats the steps of `sigterm_handler()`
and is called by neither kernel.

### ProblemSchedule

The two lists are functions with element 0 used as in the code (call counter,
end flag).  `20 * stepsize < max` is the float test `stepsize < 0.05 * max`, checked by
hand for rounding.  A result is a fraction so that the running average can be
exact; a fraction with denominator 0 is IEEE infinity.  The module has no specification of its own: `ResultFile` composes its steps with
what ends them.  `samples` is a history
variable: everything measured for a size.  `max` is at least 1.

### ResultFile, ResultAxis, LineBreak

`step` follows `analyse_results()` and `write_results()` section by section; until it leaves "measure" the loop of `ProblemSchedule` runs, and
a signal may end it between two measurements or while a result is being stored, whose x value the code stores last (`half` is the size
whose first result has none then).  One function stands for all, since they are kept and written alike.  Each section may fail:
the file cannot be created, `BENCHITROOT`, `BENCHIT_NODENAME` or the files to copy from are missing, a logarithmic axis has
nothing positive to show, the quick view cannot be opened (which nobody asks).

An axis is computed in units of 1/400 and exact where the code rounds in floating point; a loop that steps from tick
to tick is the first tick that ends it.  In `LineBreak` a text is a sequence of characters of which four have a meaning;
`LINE` is 79 in the code.  Of the additional information the pairs up to the first text that is no pair are looked at; each that has room
for itself and its newline (`MAX_ADD_INFO_STR`, 256 in the code) goes through `bi_fprintf()`, the others are left out with a warning (`Fits`, `error`).  An empty
sequence stands for no additional information (NULL); an empty string would only give the warning.  The environment and the legends are copied unread, and legends are not NULL.  A kernel that asks for averages is looked at on a linear axis
only (`ReportAssumption`): there its infinite first result makes the loop over the ticks endless.

### ProblemSizes, ThreadConfig, KernelSettings, Configuration

`ProblemSizes` has one action for each thing `bi_parselist()` finds at its index `li`: a character that begins no number, a number alone, a range
without end, with a step, with a sign.  A text is a sequence of numbers and of characters; a number stands for its digits.  Then
the sizes are taken from the list, or from `MIN`, `MAX` and `STEPS` (the powers in between are computed in integers), and drawn
into the random order by the generator of `PermutationRandom`.  "crash" and "overrun" are what the parser does to some texts that PARAMETERS does not allow.

`ThreadConfig`: `env` is what the settings and the machine say; a list is a sequence of entries `a-b/s`.  One action per part of
`evaluate_environment()`: count, allocate and store for `CPU_LIST`, the same for `SHARED_CPU_LIST`
when the use mode needs it, `MEM_BIND` by the allocation mode, the error check, and the cut of `NUM_THREADS` in
`bi_init()`.  `room` is how many elements were allocated; `cpu_bind` and `mem_bind` are functions on the indices
that were stored, so that a store past the end shows in their domain (`StoredInRoom`, a part of `ThreadsExist`).

`KernelSettings` has all other settings of both kernels, with the values they may have, what they are when nothing is set and which of them
are errors when nothing is set; the offsets, which are cut to the alignment of the instruction; the functions `bi_getinfo()` announces, and the row that
`bi_entry()` stores for them.  `Configuration` runs the three in the order of `main()`.

### Detection, Buffers

`generic_cache_info()` formats what sysfs says of a cache, and each of the functions that ask for a value has the line written again and
counts commas in it.  `Detection` keeps of the line what they look for: `cache_info()` is a sequence of tokens, a comma is one, the blank behind it
is one, and `Field` steps over them as the code does, from the NULL of `strstr()` too.  `ReadCache` is one turn of the loop in
`init_cpuinfo()`.  A list of CPUs that is too long for the text is cut off, or leaves its array; what that overwrites is any count or a crash.
`get_proc_cpuinfo_data()` copies 512 bytes into 48; the model assumes that this stays in the stack frame.

`Buffers` goes on with `cpuinfo`: derived sizes, the settings (which are read after detection), allocation and flushes.
`last` describes the last pass over the flush area: what asked for it, the flushed levels, how many
bytes it covers and where its last access ends.  A level of which detection knows nothing is shared by 0 CPUs, and on AArch64 a division by 0
gives 0 (`DetectCaches`).  Sizes are computed modulo `WORD64`, the buffer
mask modulo `WORD32` as in the code.  A pass is one action, since nobody else touches the area.  The latency kernel has another notion of exclusive caches
(`AboveL2`).  In `arch.c` the branch for
the x86 vendor family 21 cannot be reached with an AArch64 vendor and is left out.

### PermutationRandom, LatencyKernel

`random_init` and `random` are actions: the generator's state `rand` and the table `p_list` persist from call
to call, and `drawn` is a history variable.  The search for parameters is a composition of functions, one per C function; which prime is
found depends on the table, and so on earlier calls.  `start` is an `int` in the code that is made unsigned before it is
reduced, so any natural number stands for it.

`LatencyKernel` draws one number per step: `ClearMemory`, `SelectPage` for each page, `StartChain`, `Link` for each
access.  `script` holds the uses of memory that are left before the measurement, as `Placement` in `WorkerHandshake`, here with their
effect on the data instead of on the caches.  An address is a thread (whose buffer) and an offset in pointers of 8 bytes; `memory` has the
words that hold a pointer.  Blocks of fewer than 8 bytes, which would make pointers overlap, are not considered.  `FLUSH_PT` in a setup
includes that there are no huge pages.  The passes over the buffer after the chain is built store what they load, and are left out.
`room` is the number of elements of the array of page addresses (`PagesInRoom`, a part of `ChainVisitsOnce`).
`RESTORE_TLB` is never set: `COMPILE.SH` builds the kernel with `x86.c` and `generic.c` of `tools/hw_detect`, which report no TLB on
AArch64, so `BENCHIT_KERNEL_TLB_MODE` has no effect.

### PmuModule

Registers are sets of the bits that are set.  `init()` and `fini()` start (`Begin`), run their function on each CPU in any order
(`OnCpu` with `EnableCpuCounters` or `DisableCpuCounters`) and return when all CPUs are through.  Before the module is loaded for the first time the registers
hold anything, the divider bit `D` included.

### MeasuredLoop

The loops in assembler are straight-line code for 64 or 66 loads, repeated; `Loops` says of each what one pass loads, what the formulas in C
take it to load, and whether its asm statement lets the compiler put an output into the register of an input (`early`), in which case the loop may read anywhere.
The bandwidth of a run is the pair of bytes and duration.  The registers that hold the time are those of `PmuModule`, whose
actions interleave: a load of the counter without access kills the process, and a counter that does not run shows no time.
Placing and flushing, between two runs, is in `WorkerHandshake`.

### EnvHash

`table` has for each index the chain of its elements; `bi_find()` is `Found` and `Place`.  `lines` are the
lines that are still to be put: those of the compiled table, of an option, or of the parameter
file that is open, so that a `bi_put()` is one action.  A value is an abstract text with the flag
`raw`: the reader does not remove quotes from a value behind which blanks precede the newline.  `FAILURES` bounds how many
allocations fail.  A missing parameter file is a message and not an error, as in the code.

## 3. Runs

| run | question | bounds |
|---|---|---|
| `worker_handshake` | safety, refinement of `RemoteCall` and termination of the handshake | 2 measured threads, 2 share CPUs, up to 2 runs, 1 call of `bi_entry()`, all 56 setups; about 147,000 states |
| `aborted_measurement` | a signal at every point of the handshake; who may then work on an unmapped buffer | same threads, 1 run; about 288,000 states |
| `weak_order` | exclusion and acknowledgements with late stores and early loads | 2 measured threads, 1 share CPU, 1 run, worker 1 loads early; about 249,000 states |
| `weak_init` | expected violation: `bi_init()` waits for ever | the same threads, no measurement |
| `lifecycle` | the end of the program, whatever signals come and whenever | 3 signals at any time, answers y, n and end of input, with and without watchdog and question; about 80,000 states |
| `second_signal` | expected violation: further signals are ignored | 2 signals at any time |
| `schedule` | from the lists of sizes to the files: lists, repetitions, time limit, signals, best result, rows, axes, texts | ranges up to 45 sizes, 2 repetitions, valid and invalid results, axes linear and to bases 2 and 10, every description of up to 6 characters with lines of 3, every additional information of up to 5 characters and 2 or 3 pieces of 7 kinds with room for pairs of 4; about 1,360,000 states |
| `configuration` | from the settings to a kernel that is ready: sizes, threads, bindings, legends | every text of up to 3 characters and lists of up to 3 pieces with blanks anywhere; ranges in order and not; 3 CPUs, all or 2 of them allowed, lists that repeat, run backwards, are empty or name CPUs that are not allowed; each setting missing, wrong or other; about 238,000 states |
| `buffers` | what is known of the caches, overruns and coverage of the flush | 24 machines: inclusive, exclusive and unknown vendors, 0 to 3 levels, each file of sysfs missing for each cache, lists of CPUs at and beyond both limits; a size that is replaced by a smaller or a larger one or by 0, lines of two lengths, both kernels, 3 problem sizes, the default extra amount of 20 percent; about 1,349,000 states |
| `measured_loop` | what a loop reads, counts and reports, while the PMU module comes and goes | 2 CPUs, 2 loads of the module, 6 instructions and burst lengths, 8 data sets around the limits of passes and runs; about 244,000 states |
| `latency_kernel` | permutation and pointer chain | 9 setups with every use mode, blocks from an eighth of a page to two pages, 1 or 2 targets, up to 2 share CPUs, 4 runs and 3 problem sizes in turn; pages of 8 pointers, 2 loads per loop; about 55,000 states |
| `env_hash` | refinement of `EnvTable`, and which setting wins | 3 keys in 2 chains, 2 parameter files, every command line of up to 3 of 8 arguments, 1 failure; about 39,000 states |

The bounds are enough for the interesting cases.  Two measured threads are one
local target (the master itself) and one remote one; two share CPUs
are the first, which the code treats specially, and another.  Two runs let the same
command reach the same worker twice, with the state the first run left.  A second
call of `bi_entry()` begins in the state the first began in (`Quiet` workers, `ack = done = 0`),
which `IInv` states and the proof establishes for any number of calls.
45 sizes go through four coarse lists before the linear one, with every remainder of
the divisions by 2, 4, 8 and 16.  Texts of six characters and lines of three have every order of blanks, breaks and letters around the end of
a line and behind it.  Three characters are each pair of neighbours that `bi_parselist()` looks at, and three pieces a flag that stays from
one to the third.  Three signals are one per handler and one more, which must be
ignored or wait.  Two chains for three keys have a chain with a predecessor and one without.  In `latency_kernel` memory from less than a page to 8 pages gives chains that are limited by `ACCESSES`, by the memory and
by neither, fewer accesses than pages, and ranges from 1 to 63; a second problem size finds the chains and the primes of the first.
Outside of the runs the definitions of the generator were compared with a transcription of the C code for 2000 pairs of ranges up to 100.
A second load of the PMU module starts
from what the first unloading left.  The cache sizes are tiny, but so are lines and huge pages: only how sizes
compare matters, and every cache is larger than a line and three bytes (`MCLinesFit`, the hypothesis of the theorem about overruns); the two limits of a list of CPUs are 5 and 6 names instead of about 70 and 86.

`measured_loop` and `latency_kernel` do not check deadlock because the number of loads and of calls ends the behaviour.  In the other runs the end of
the program is a step that changes nothing, so a deadlock would be an error.

**Fairness.**  `WorkerHandshake`: weak fairness of each thread.  The kernel binds every thread to
a CPU of its own (`cpu_set()`, `BW/kernel_main.c:424`; `OwnCpu` of `ThreadConfig`), so each keeps running, and spin loops
read `volatile` words.  `WeakHandshake`: in addition every store reaches memory at some time, as store buffers
drain.  `Lifecycle`: both threads run, and a user who is asked answers;
signals are not fair, they may never come.  `ResultFile`: the measurement loop goes on (`Measuring`), since the main thread runs and
`bi_entry()` returns, which is `Terminates` of `WorkerHandshake`; signals are not fair.  `LoopEnded` says that the loop then ends.

Every property has a mutant in its module: a variant of one action that a slip in
the code would give (a wait left out, a reset forgotten, an off-by-one), under
which the property fails in the same run.

## 4. Proofs

| module | for every | theorems | properties |
|---|---|---|---|
| `WorkerHandshakeProofs` | `NUM_RESULTS`, `NUM_SHARED_CPUS`, `RUNS`, `ENTRIES` allowed by `ConstantsAssumption`, all setups | `Invariant`; `TypeCorrect`, `Exclusion`, `AckIsFromPartner`, `DoneIsBeforeWaiting`, `BufferIsGivenBack`, `FreeIsSafe`, `NoAckIsLost` | `IInv`; `TypeOK`, `ExclusiveAccess`, `AckFromPartner`, `DoneBeforeWaiting`, `BufferGivenBack`, `FreedWhenGone`, `NoAckLost` |
| | the same | `RefInvariant`, `HandshakeIsCall` | `IsRemoteCall` |
| | the same | `PlacementInvariant`, `LineIsPlaced` | `PlacedForMeasurement` |
| | the same, a signal anywhere | `AInvariant`, `FreeIsSafeAfterSignal`, `MappedUnlessLent` | `FreedWhenGone`, `WorksOnMappedBuffer` |
| `WeakHandshakeProofs` | the same constants, stores that are late in any order, any set `EARLY` | `InvariantW`, `SeenIsFromPartner`, `ExclusionW`, `PostedIsUsed`, `BufferIsGivenBackW` | `SeenFromPartner`, `ExclusiveAccess`, `UsesWhatWasPosted`, `BufferGivenBack` |
| | no worker that loads early | `InOrder` | the specification of `WorkerHandshake` |
| `MainProofs` | number of signals and answers | `EndInvariant`, `FinishesOnce`, `Orderly` | `FinishedOnce`, `OrderlyEnd` |
| | keys, hash function, files and command lines | `TypeCorrect`, `Refinement`; `OrderInvariant`, `SettingsAsSaid` | `IsTable`, `SettingsInOrder` |
| `ScheduleProofs` | range, accuracy, results, time limit, signals | `InvariantS`, `AllSizesMeasured`, `RangeIsCovered`, `FileAsMeasured` | `EachSizeMeasured`, `CoarseToFine`, `RowsAsMeasured` |
| | texts of any length, length of a line | `TextsAreKept` | `TextsKept` |
| `ConfigurationProofs` | machines, lists, settings, kernels | `InvariantC`, `ThreadsExistC`, `OwnCpuC`, `MemoryAsNamedT`, `MemoryAsNamedC`, `LegendC`; `ConfigImplementsSizes` | `ThreadsExist`, `OwnCpu`, `MemoryAsNamed`, `LegendMatchesResult`; `SpecSizes` |
| | lists of any length, with numbers and steps of any size | `ListIsRead` | `ListAsWritten` |
| `BuffersProofs` | machines, cache and problem sizes, settings | `BufferInvariant`, `CachesAreFound`, `BufferAlwaysHolds`, `SmallCachesAreFlushed`; with `LinesFit(n)` for some `n`: `OverrunsAreKnown` | `CachesAsFound`, `BufferHolds`, `SmallCachesFlushed`, `OverrunsKnown` |
| | data sets, setups, times, CPUs and threads | `LoopInvariant`, `ReadsPlaced`, `CountsRead`, `Fastest`, `LoopImplementsPmu`, `TimestampsForLoops`, `WithdrawalFromLoops` | `ReadsWhatWasPlaced`, `CountsWhatWasRead`, `FastestReported`, `TimestampWorks`, `AccessWithdrawn` |
| | finite set of CPUs, number of loads | `PmuInvariant`, `Timestamps`, `Withdrawal` | `TimestampWorks`, `AccessWithdrawn` |
| `PermutationProofs` | prime `m`, primitive root `a`, `b`, fixpoint | `FullPeriod` | |
| | seeds, numbers of accesses, buffers, pages, blocks of at most `UNROLL` pages, use modes, if the searches end | `NumbersOnce`, `BlocksVisitedOnce` | `EachNumberOnce`, `ChainVisitsOnce` |
| | lists, ranges, seeds, if the searches end | `SizesAreKept` | `SizesKept` |

The assumptions are the named `ASSUME`s of the modules, which say what the settings and the machine may be; TLC evaluates them in every run.

**The handshake.**  None of the safety properties is inductive: that only one worker is in `use_memory()` depends
on what every other worker is shown and remembers.  `IInv` makes this explicit.  For
each position of the master it says what each worker is doing: before the
partner, workers are already released (or stopped, or created), after it not
yet; the partner is `Engaged` in the stage of the exchange the position names; every
other worker is `Quiet`: polling, shown WAIT, remembering WAIT.  `Engaged` ties
`ack`, `done`, the command, `old` and the worker's position together.  `MasterInv` bounds the loop variables and
says that a script consists of steps for existing threads; `AddrInv` says whose
buffer each worker has.  The proof has one lemma per group of actions of the master and of a
worker; the worker lemmas use that only the partner can move other than by spinning.

**It is a remote call.**  `RefInv` adds to `IInv` that a worker which executes a command has the parameters that were posted with it (`ArgInv`).
Then posting a command is the call, the last store of the worker its execution and the last wait of the master the return; every other step
is a stutter of `RemoteCall`, because the words it changes are in none of the mapped variables.

**The line is where it should be.**  `PlacementInv` counts: the number of steps that are gone from the script says what the line of the target
looks like in the caches (`PlacedAfter`), and a call of a worker counts from when it sets `done`, not from when it is posted or waited for.  One lemma per use
mode (`PlacedNext`) goes through its script.  That a worker uses the buffer and the mode that its parameters still name is `UseArgInv`.

**After a signal.**  Until the signal `IInv` holds and nothing new is to be shown.  Afterwards the master only stops and joins, and `IInv` no longer
holds: the worker that was interrupted may acknowledge while the master clears another's answer.  `AInv` keeps what
is left: workers below `t` are stopped or gone in the order of `bi_cleanup()`, and a lent buffer is in the hands of a share CPU.

**Late stores.**  `IInvW` is `IInv` of what the threads have *given*: if for `ack` and `done` one takes the latest store, whether it has arrived
or not (`GivenAck`, `GivenDone`), the weak handshake goes through the states of the ordered one, and the lemmas about that one are cited.
`LateInv` adds which stores can be late at all: those the master has not yet waited for.  A value it sees is then the one that was given.  The proof cites
none of the `dmb`s: for these properties it is enough that a thread sees its own stores and that each word has one order.  Without early loads the mapping is a refinement (`InOrder`).

**The end of the program.**  `EndInv` describes the stack: `main()` at the bottom, at most one frame of each handler, and each frame that has
begun to finish (`Finishers`) is at its own position in the same steps.  Files and calls of `bi_cleanup()` are counted by the frames that have passed the
place (`Counted`), and what is freed was freed by a frame that has passed the place (`Owned`).  A step changes the top frame only (`TopFrame`), so that
each of these facts is disturbed in one place; none of the theorems assumes anything of when signals come.

**The loops.**  `LoopInv` says that a loop is entered only if it exists and has at least a pass, and that `tmax` is the fastest sample so far.  The
arithmetic is in lemmas of their own: what the passes of any loop read is at most the data set and lacks less than a pass (`PassesRead`).
`LoopImplementsPmu` carries the theorems about the PMU module over to the composition.

**The registers.**  `PmuInv` adds to the two properties what holds half way: on the CPUs in `called` the
registers already are as the function leaves them.

**The table.**  That the map read off the chains changes in one key only needs that a chain holds a key once and
in the place `HASH` names, which is `Chains`, a part of `TypeOK`.  Lemma `FirstPlace` says that then the first match that `bi_find()`
meets is the only one.

**What was said last.**  `OrderInv` compares the table not with what all arguments say but with what the arguments read so far say, up to the lines that
are still to be put (`IsRest`, `Applied`): putting a line moves it from one side to the other.

**The schedule.**  The lists do not use disjoint grids (steps 7 and 3 share 21), so that no size is measured twice rests on `done[]` alone: a
size is in a list only if it was not done.  `FineInv` says that the first `n` lists have nothing below `max/2^n`, so that the step itself is new, no list
with steps is empty, and clearing its end never clears the counter in element 0; powers of 2 are numbers of subsets there, since the provers know no powers.  The
rows of the file are described by number, `RowSeq` being the sizes in ascending order, and `RowsAsMeasured` compares them one by one.

**The texts.**  `Broken` and `KeysAndValues` are recursive from the end: the lines, or pairs, from a place on are the first of them and those from the
next place on.  Lemma `FromTheEnd` says that there is such a function, `Downwards` is the induction.  A line drops a letter only where a word fills it
(`EachLine`), and what is lost at the end is nothing if the text ends with a newline.  A place is the begin of a piece between two commas again
(`PiecesAre`), and `KeysOfEach` compares what `strstr()` finds there with `IsPair`.  Where the pairs end without an error they are all
pieces there are, and otherwise a `NoPair` follows them, which never fits; so the pairs that fit are the promised ones (`FittingIsPromised`).  `TextInv` says which of the texts are in the file at each `step`.

**Threads and columns.**  A list of CPUs is what `Selected` makes of it, and both passes over the list, the one that counts and the one that stores, are
recursive functions of the same list; lemma `Recursion` gives their values at each position.  `ThreadInv` then says by position what is stored in `cpu_bind` and
`mem_bind`, and `BoundAt` where a list of memory bindings is followed.  `Reason` keeps for each error what caused it.  `MemoryAsNamed` for the whole
configuration holds only where no other setting is wrong, since these errors also lead to "exit"; hence the condition of `MemoryAsNamedC`.

**The caches.**  The text of a cache is followed word by word: with all files there, the commas are where the functions look; if one
is missing, the fourth comma is not found (`FullInfo`, `PartialInfo`).  `FoundInv` says that what was read of the data caches is theirs and nothing else is known.

**The flush.**  `BufferInv` ties the last pass to the sizes and settings it was computed from.  That a level of the flush is large enough follows from
sums over four levels, in each of the three notions of inclusion.  For `OverrunsKnown` `FitInv` adds that every size is 0 or at least `n + 3`, where
lines have at most `n` bytes: then an area that is larger than a pass by anything is larger by a whole cache, which is more than a stride and an int.  Lines of 8 bytes or more
and caches that are larger than a line are what is built; were they smaller, an area could be larger than a pass by less than its last stride.

**The permutation.**  `FullPeriod` is the mathematics behind `_random()`: if `m` is prime, `a` a primitive root of `m` and `fix` the fixpoint of
`r -> (a*r + b) % m`, then `r_k - fix = a^k * (r_0 - fix)` modulo `m`, so the sequence is back after `m - 1` steps and not before.  The rest is to show that
`_random_init()` finds such numbers.  `TableInv` says that `p_list` holds the primes up to its last element without a gap, whatever calls have extended it; then
`isprime()` decides, the prime factors of `m - 1` are all found, and `isprimitiveroot()` decides, since the order of `a` divides `m - 1`.
`RandomInv` ties what was drawn to the residues the sequence has passed: `_random()` skips those that are too large and closes the gap that the fixpoint
leaves, which is one to one on the rest.

**The chain.**  `LatencyInv` has five parts: `WorkInv` says what is known of the sizes at each position, `ScriptInv` which of the uses of memory
that are left lays the chain in the buffer of the target, `LinkInv` how far it is laid and that its nodes stand in blocks of their own, `GeneratorInv` is that of
the generator, and `NothingDrawn` says what `_random()` returns if there is nothing to draw from.  That a block is used once comes from the numbers that are drawn once, by way of division: the
number of a block gives page and place in the page, and back.

**The sizes.**  Of the parser only that it leaves a list of numbers is needed.  The sizes are bounded by `MAX`, which is the largest of the list or the end of the
range (of a geometric range each size has a power that is not larger than that of the end), and a random order takes the size at each number that is
drawn; each number once means each size as often as before (`Rearranged`).  `ConfigImplementsSizes` says that the whole configuration finds the sizes as
`SpecSizes` does, so the theorem holds of it.

**The list.**  The parser looks at single characters, `Pieces` at what is between two commas.  `Stands` ties the two together: at each place of the text it says
which piece the place is in and which characters of it are in front.  From there on the next character of the piece is the next one that is not blank
(`ReadOn`), and so what the parser sees behind a number, a dash or a slash is what the form of the piece says (`FirstNumber`,
`SecondNumber`, `ThirdNumber`; here `BlankInWay` is needed).  `ReadInv` says that the parser is in front of a piece or behind one, that the list is what the pieces
before mean, and that a sign that is left comes from a piece that ran downwards.

Two conditions stand in the theorems about random numbers, chain and sizes:

* `CallsReturn` and `SearchesEnd` say of the calls that are made that the search for `m`, `a` and the fixpoint ends.  This is number theory that is not
  in reach: that there is a prime above any number, a primitive root of it, and one for which the fixpoint is where the code wants it.  TLC evaluates each search of
  the runs, which have an end.
* `BlocksFit` says that a block is not larger than `UNROLL` (24) pages.  With larger blocks and few accesses the space that is used is less than
  a block, and `usable_memory/alignment-1` (`LAT/work.c:378`) is -1.

TLC found each of the invariants to hold in these instances before it was proved; since they are proved, the runs
check only the properties they imply.  Two attempts at a proof showed a property too narrow: the last int of a pass can
leave the flush area in the modes that only write, too, and with one cache per level (`DetectionAssumption`) the number of caches need not be bounded.

Only model-checked:

* liveness (`Terminates`, `AbortTerminates`, `Ends`, `LoopEnded`), because the prover has no fairness;
* `QuickviewShowsRows`, which rests on bounded tables of powers and products of two unknowns.

Induction over data cannot be used with the theorems of the library, whose parameter is an operator.  Where the recursion is over `0 .. n`, `NumberFacts`
replaces it by a set of numbers without a least element.
## 5. Where code and comments disagree

With a run that shows it:

* **A handler starts inside the other handler** (`second_signal`).  The comments at `benchit.c:1448` and
  `1500` say that further signals are ignored while one is handled; the code ignores only the signal it was
  called for.  A SIGTERM (also the watchdog's) during the finish after SIGINT writes, joins and frees a second time.
* **`bi_init()` may wait for ever** (`weak_init`).  It stores `ack = 0` and then `thread_comm[t] = THREAD_WAIT`
  (`BW/kernel_main.c:505`) with no `dmb` between them; on AArch64 the worker may answer the second before the first reaches memory, which then
  overwrites the answer.

In the passing runs the following shows as a condition or a disjunct of a property, or as an action that ends the program.

Threads and signals:

* SIGUSR1 before the watchdog has called `signal()` (`BW/kernel_main.c:115`) ends the process, after the results are written but before memory
  is freed (`OrderlyEnd`).
* A signal that comes while the results are freed or later starts a report on freed results (`UsedBeforeFreed`, `OrderlyEnd`), and one that comes
  while the workers are joined joins them again.  Two reports in one second share the name of the file.
* A worker whose loads are early may use the parameters of the previous command (`EARLY`).
* With huge pages a share CPU may, after a signal, work on the buffer of a target that has already unmapped it (`WorksOnMappedBuffer`).
* A CPU named twice, in one list or in both, gives threads that starve each other or that do not exist (`Distinct`); an
  empty `SHARED_CPU_LIST` leaves `OWNED` and `MUW` without a thread (`ThreadsExist`).
* `MEM_BIND` must cover the share CPUs too, not only `CPU_LIST` as PARAMETERS says (`MemoryAsNamed`).

Detection and sizes:

* `generic.c:1015` and its likes add 1 to the NULL of `strstr()` before they compare it, so a cache for which Linux shows no size, ways or line length ends
  the program with a segmentation fault, before the sizes in PARAMETERS could replace it (`CachesAsFound`).
* `cpu_map_to_list()` (`generic.c:805`) writes the names of all CPUs that share a cache into 512 bytes without looking: more than about 86 overflow, and
  already more than about 70 are cut off in the text, so that `Cache_shared` is too small (`CachesAsFound`).
* Without cache directories and without `CACHELINE_SIZE` the stride in `use_memory()` is 0 and its loop endless; with `CACHELINE_SIZE` nothing
  is known to be flushed and the loop over the flush area wraps around (`OverrunsKnown`).
* The store at the end of a pass over the flush area (`BW/work.c:465`) is one stride behind the last element; with exclusive caches, or if there is a single level, the
  area ends exactly there, although the comment at `BW/work.c:389` asks for more than twice the caches (`OverrunsKnown`).
* In the same cases, and in every mode, the last `int` of the pass may stick out by up to three bytes if the stride does not divide the area, as it
  does not with the 20 percent that PARAMETERS gives for `FLUSH_EXTRA` (`OverrunsKnown`).
* A replaced cache size that is smaller than the detected one lets the flush inside `use_memory()` leave the area, because derived
  sizes are not updated (`OverrunsKnown`); for an unknown vendor nothing is flushed and the size of the area wraps around.
* The latency kernel treats caches of vendor 0x43 as exclusive from level 2 on, the bandwidth kernel all of them (`SmallCachesFlushed`).
* Rounding the buffer to huge pages masks with 32 bits (`BW/kernel_main.c:237`): from 4 GiB on the buffer is too small (`BufferHolds`).

Measurements:

* The default instruction `ldr128` reads one half of the data set: `_work()` takes it for 32 bytes, the loop loads 16 (`ReadsWhatWasPlaced`).
* Code prefetch asks for 48 accesses, less than a pass, so the loop is left before it is entered (`PrefetchCode`).
* The loops of burst length 1 to 4 have no early clobber: the time stamp may overwrite the address (`StartOverwritten`).
* Burst lengths 1 to 4 with `ldr128`, and the instructions `mov`, `movdqu` and `vmovdqu`, measure nothing and report invalid results (`NoLoop`).
* A run shorter than the overhead wraps around and counts as the slowest (`FastestReported`).
* `PARAMETERS` of the latency kernel promises "only one access per block per measurement" for any power of 2 as
  `BENCHIT_KERNEL_ALIGNMENT`.  With blocks larger than a page (8192 with pages of 4 KiB) there are never more accesses than pages, and
  `usable_memory=num_pages*usable_page_size` (`LAT/work.c:355`) then has only `PAGE/ALIGNMENT` blocks per access: the loads go around in them, and with
  one block every load is of the same word (`ChainVisitsOnce`).
* `pmcr | ~E` (`src/ko/enable_arm_pmu.c:91`) keeps the enable bit, and sets the divider and the other bits: counters go on after unloading, unread.

Settings:

* Lists of numbers (`ListAsWritten`): a number 0 crashes in `log10()`; `a-` loses `a`; `/` without a number steps over the next character, and
  over the end of the text; the sign of `10-2/-2` is still there for a following `5-9`; two blanks behind a `-`, or one behind a sign, are not passed over.
* `MIN` greater than `MAX` is not refused (`SizesKept`); neither is a burst length below 1.
* PARAMETERS names other defaults than the code has (`Defaults`): `RUNS` 6 (1 run), `USE_ACCESSES` 4 (1), `FLUSH_ACCESSES` 2 (1), `FLUSH_BUFFER` G
  (T), `FLUSH_EXTRA` 20 (0), `ALWAYS_FLUSH_CPU0` 1 (0), `DISABLE_CLFLUSH` 0 (1), `LOOP_OVERHEAD_COMPENSATION` enabled (disabled); and gives defaults
  for `ALLOC`, `HUGEPAGES`, `USE_DIRECTION`, `INSTRUCTION`, `BURST_LENGTH` and `FLUSH_L1` to `4`, which are errors when they are not set.
* Of the instructions PARAMETERS names, `movdqa` and `vmovdqa` are refused and the others measure nothing; the two that work are not named.
* The setting `OFFSET` is without effect for `ld1` and `ldr128`, and cut to the alignment for the other instructions (`ByInstruction`).
* `bi_put()` of a known key without memory returns 1 and loses the old value (`Lose` in `EnvTable`).
* Blanks before a newline are not trimmed, and the quotes in front of them stay (`raw`).
* `-S` replaces an output directory given before it, because `isOption()` looks at the argument `-S` itself (`Said`).

Results:

* `benchit.c:1844` divides by `w + 1` with `w` = -1 for the first result of a kernel that asks for the average; no kernel does.  A linear axis for
  the infinite result is searched for ever (`Stopped` in `ResultFile`).
* `numabscissae` is the position in the last list of sizes; the maximum of y is tested at the x value (`WriteAxes`, `WithInfinity`).
* A word without a blank that is as long as a line loses a character in `bi_fprintf()`, and of a text longer than a line what follows the
  last break is not written; this happens to the pairs of the additional information too (`TextsKept`).
* A key=value pair of 255 characters or more is left out, and those after it are written (`TextsKept`).
* If the first function is a time, the command of the quick view does not begin with "plot"; whether its file could be opened is not looked at
  (`QuickviewShowsRows`, `QuickviewCrashes`).

Seen on the way, outside of the models: `HUGEPAGES=1` without `HUGEPAGE_DIR` is a `strlen()` of NULL in `bi_init()`; the `pnext` of the last list element is
not initialised; the latency kernel does not free `tmp_results`.

## 6. Not modelled

* The rest of hardware detection: what is only printed (packages, cores, names, page sizes, features).  The clock rate is an input of
  `KernelSettings`, the number of cores a constant.  TLB functions return -1 on AArch64.  `arm.c` is never compiled, and `x86.c` is
  compiled but empty, so that the generic functions are used.
* PAPI counters and MPI are compiled out.  Timers, `bi_int_getenv()` and the random numbers of `benchit.c` are used by neither kernel.
* Failing allocations in `bi_init()`, which end the program at once.
* Locks and buffers of the C library: handlers call functions that are not safe in a signal handler (`malloc()`, stdio), and what an interrupted report
  had still buffered is written to its file at the exit.
* `escapeChar()` of the environment table (`bienvhash.c:537-539`), which only matters for values with a backslash or a quote.
* What an eviction leaves behind: with `disable_clflush` the data is taken to be invalid in all caches, as the comment in `use_memory()` does.
* Of the result file, the text of sections that are copied or printed unread; rounding in floating point; a linear axis for values that differ in their
  last digits only, whose loop takes long.
* `bi_dumpTableToFile()`, which only reads the table, and the programs that generate `bi_fillTable()`.
* Build scripts and string helpers have no state of interest.  The Java driver is a second program without a kernel in the
  repository; the GUI is binary.

## 7. What is left

1. The rest of detection, if something but the caches comes to depend on it, and `bi_dumpTableToFile()` with the escaping the reader has to undo.
2. The Java driver, once there is a kernel for it.
3. Theorems: `QuickviewShowsRows` with the powers of 2 and 10 as an assumed table instead of computed ones.
