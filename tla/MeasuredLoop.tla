---------------------------- MODULE MeasuredLoop ----------------------------
(***************************************************************************)
(* The measured part of the bandwidth kernel: how _work() sizes a          *)
(* measurement, what the assembler loops asm_work_ld1() and                *)
(* asm_work_ldr128() read between their two time stamps, and what is       *)
(* reported.  The time stamp is the cycle counter, which a program may     *)
(* read while the kernel module of PmuModule lets it.                      *)
(*                                                                         *)
(* A loop reads addresses in ascending order, so what it read is the end   *)
(* of the last load, relative to the start of the buffer.                  *)
(***************************************************************************)
EXTENDS PmuModule, Integers

CONSTANTS
  MASTER,      \* the CPU that measures, cpu_bind[0]
  SETUPS,      \* settings and data set sizes
  TIMES,       \* numbers of cycles a loop may take
  OVERHEAD,    \* loop_overhead
  CACHE_SIZE,  \* Total_D_Cache_Size
  NUM_RESULTS, \* number of measured threads
  WRAP         \* 2^64: a duration is an unsigned long

ASSUME MeasuredLoopAssumption ==
  /\ MASTER \in CPUS /\ NUM_RESULTS \in Nat /\ CACHE_SIZE \in Nat
  /\ WRAP \in Nat \ {0} /\ OVERHEAD \in 0 .. WRAP - 1 /\ TIMES \subseteq Nat
  /\ SETUPS # {}
  /\ SETUPS \subseteq [function : 0 .. 4, burst : Int, runs : Nat, prefetch : BOOLEAN, memsize : Nat]

VARIABLES
  setup,     \* function, burst length, runs, code prefetch, and memsize
  lpc,       \* position: idle, target, prefetch, start, loop, report, or killed
  target,    \* t
  run,       \* i
  read,      \* what the last call of a loop read: start, end, and bytes it reports
  tmax,      \* the best result so far: 0, or bytes per duration
  results,   \* what _work() reports
  samples    \* history: the results of the runs for this target

loopvars == <<setup, lpc, target, run, read, tmax, results, samples>>
allvars  == <<pmuvars, loopvars>>

Invalid == [bytes |-> -1, duration |-> 0]   \* INVALID_MEASUREMENT
Zero    == [bytes |-> 0, duration |-> 0]    \* a measurement that returned 0
Nothing == [from |-> 0, to |-> 0, bytes |-> 0]
----------------------------------------------------------------------------
(***************************************************************************)
(* The loops.  One pass is straight-line code without a check; size is the *)
(* bytes a load reads, early says that the output operand may share the    *)
(* register of an input: only "=&r" keeps the compiler from that.          *)
(***************************************************************************)
Straight(n, early) ==
  [loads |-> n, size |-> 16, divisor |-> n, counted |-> n, early |-> early]

\* Mutant: the loop of 66 loads is entered for every 64 accesses.
Loop_ld1_3Divides64 == [Straight(66, TRUE) EXCEPT !.divisor = 64]

\* Mutant: the formula counts the loads of the other loops.
Loop_ld1_3Counts64 == [Straight(66, TRUE) EXCEPT !.counted = 64]

Loop_ld1_1    == Straight(64, TRUE)
Loop_ld1_2    == Straight(64, TRUE)
Loop_ld1_3    == Straight(66, TRUE)
Loop_ld1_4    == Straight(64, TRUE)
Loop_ld1_8    == Straight(64, FALSE)
Loop_ldr128_8 == Straight(64, FALSE)

Loops ==
  [f \in {0, 1} |-> IF f = 0
     THEN [b \in {1, 2, 3, 4, 8} |->
             CASE b = 1 -> Loop_ld1_1 [] b = 2 -> Loop_ld1_2 [] b = 3 -> Loop_ld1_3
               [] b = 4 -> Loop_ld1_4 [] b = 8 -> Loop_ld1_8]
     ELSE [b \in {8} |-> Loop_ldr128_8]]

\* Whether the switch statements have a loop for the function and burst length.
HasLoop(s) == s.function \in DOMAIN Loops /\ s.burst \in DOMAIN Loops[s.function]
TheLoop    == Loops[setup.function][setup.burst]

\* How many bytes an instruction is taken to load.
DtSize(function) ==
  CASE function \in {1, 3} -> 32 [] function = 4 -> 8 [] OTHER -> 16

Accesses == setup.memsize \div DtSize(setup.function)
Passes   == Accesses \div TheLoop.divisor

\* Small data sets are measured more often, ones beyond the caches less.
RunsFor ==
  LET more == IF Accesses < 512 THEN 5 ELSE IF Accesses < 1024 THEN 3
              ELSE IF Accesses < 4096 THEN 2 ELSE 1
      runs == setup.runs * more
      less == IF setup.memsize > CACHE_SIZE THEN runs \div 3 ELSE runs
  IN  IF less = 0 THEN 1 ELSE less

----------------------------------------------------------------------------
(***************************************************************************)
(* _work()                                                                 *)
(***************************************************************************)
BeginWork(s) ==
  /\ lpc = "idle" /\ target = 0
  /\ setup' = s
  /\ lpc' = "target"
  /\ UNCHANGED <<target, run, read, tmax, results, samples>>

BeginTarget ==
  /\ lpc = "target" /\ target < NUM_RESULTS
  /\ tmax' = Zero /\ run' = 0 /\ samples' = {}
  /\ lpc' = IF Accesses = 0 THEN "report" ELSE "prefetch"
  /\ UNCHANGED <<setup, target, read, results>>

NextRun ==
  /\ run' = run + 1
  /\ lpc' = IF run + 1 < RunsFor THEN "prefetch" ELSE "report"

\* Data is placed and flushed (WorkerHandshake); then the loop is called for 48
\* accesses if the code is to be prefetched, and for the measurement.
PrefetchCode ==
  /\ lpc = "prefetch" /\ HasLoop(setup)
  /\ read' = IF setup.prefetch
               THEN [from |-> 0, to |-> (48 \div TheLoop.divisor) * TheLoop.loads * TheLoop.size,
                     bytes |-> 0]
               ELSE Nothing
  /\ lpc' = "start"
  /\ UNCHANGED <<setup, target, run, tmax, results, samples>>

\* The functions without a loop leave tmp as it is, and burst lengths without
\* one return 0: nothing is measured.
NoLoop ==
  /\ lpc = "prefetch" /\ ~HasLoop(setup)
  /\ samples' = samples \cup {Zero}
  /\ NextRun
  /\ UNCHANGED <<setup, target, read, tmax, results>>

\* Less than a pass: return 0 before the first time stamp.
TooSmall ==
  /\ lpc = "start" /\ Passes = 0
  /\ samples' = samples \cup {Zero}
  /\ read' = Nothing
  /\ NextRun
  /\ UNCHANGED <<setup, target, tmax, results>>

\* The first time stamp is an illegal instruction without access to the counter.
Start ==
  /\ lpc = "start" /\ Passes > 0
  /\ lpc' = IF Readable(MASTER) THEN "loop" ELSE "killed"
  /\ read' = Nothing
  /\ UNCHANGED <<setup, target, run, tmax, results, samples>>

\* The time stamp is written to the register that holds the address: the loop
\* reads wherever that is.
StartOverwritten ==
  /\ lpc = "start" /\ Passes > 0 /\ TheLoop.early
  /\ lpc' = "killed"
  /\ UNCHANGED <<setup, target, run, read, tmax, results, samples>>

\* Mutant: the slowest run is kept.
FasterIsSlower(new, old) ==
  new # Zero /\ (old = Zero \/ new.duration > old.duration)

\* Bytes per time, compared as numbers: the bytes of one target are the same.
Faster(new, old) ==
  new # Zero /\ (old = Zero \/ new.duration < old.duration)

\* All passes, the second time stamp, and the bandwidth.  The time without
\* the overhead is an unsigned difference.
ReadLoop(time) ==
  /\ lpc = "loop"
  /\ IF ~Readable(MASTER)
       THEN /\ lpc' = "killed"
            /\ UNCHANGED <<run, read, tmax, samples>>
       ELSE LET took   == IF Counting(MASTER) THEN time ELSE 0
                bytes  == Passes * TheLoop.counted * 16
                result == [bytes |-> bytes, duration |-> (took - OVERHEAD) % WRAP]
            IN  /\ read' = [from |-> 0, to |-> Passes * TheLoop.loads * TheLoop.size,
                            bytes |-> bytes]
                /\ tmax' = IF Faster(result, tmax) THEN result ELSE tmax
                /\ samples' = samples \cup {result}
                /\ NextRun
  /\ UNCHANGED <<setup, target, results>>

EndTarget ==
  /\ lpc = "report"
  /\ results' = [results EXCEPT ![target] = IF tmax = Zero THEN Invalid ELSE tmax]
  /\ target' = target + 1
  /\ lpc' = IF target + 1 < NUM_RESULTS THEN "target" ELSE "idle"
  /\ UNCHANGED <<setup, run, read, tmax, samples>>

Work ==
  \/ \E s \in SETUPS : BeginWork(s)
  \/ BeginTarget \/ PrefetchCode \/ NoLoop \/ TooSmall
  \/ Start \/ StartOverwritten
  \/ \E time \in TIMES : ReadLoop(time)
  \/ EndTarget

InitLoop ==
  /\ InitPmu
  /\ setup = CHOOSE s \in SETUPS : TRUE
  /\ lpc = "idle" /\ target = 0 /\ run = 0 /\ read = Nothing /\ tmax = Zero
  /\ results = [t \in 0 .. NUM_RESULTS - 1 |-> Invalid]
  /\ samples = {}

\* The kernel module may be loaded and unloaded while the kernel runs.
NextLoop ==
  \/ NextPmu /\ UNCHANGED loopvars
  \/ Work /\ UNCHANGED pmuvars

SpecLoop == InitLoop /\ [][NextLoop]_allvars
----------------------------------------------------------------------------
(***************************************************************************)
(* Correctness properties.                                                 *)
(***************************************************************************)
Measured == lpc \in {"prefetch", "report"} /\ read.to > 0

\* What a measurement reads is the data that was placed for it: nothing behind
\* the data set, and all of it up to less than one pass.  asm_work_ldr128() reads
\* one half: _work() takes its instruction for one that loads 32 bytes.
ReadsWhatWasPlaced ==
  Measured =>
    LET used == IF setup.function = 1 THEN setup.memsize \div 2 ELSE setup.memsize
    IN  /\ read.to <= used
        /\ used - read.to < TheLoop.loads * TheLoop.size

\* The bandwidth is computed from the number of bytes that were read.
CountsWhatWasRead == Measured => read.bytes = read.to - read.from

\* A thread's result is the fastest of its runs.  A run that seems to be shorter
\* than the overhead wraps around and counts as slowest; a run that read nothing
\* does not count, and a target without any other is reported as invalid.
FastestReported ==
  [][lpc = "report" /\ lpc' # "report" =>
       LET valid == samples \ {Zero}
       IN  IF valid = {} THEN results'[target] = Invalid
           ELSE /\ results'[target] \in valid
                /\ \A v \in valid : results'[target].duration <= v.duration]_allvars
=============================================================================
