--------------------------- MODULE LatencyKernel ---------------------------
(***************************************************************************)
(* _work() and use_memory() of the latency kernel: for every target        *)
(* thread a chain of pointers in random order is laid through its buffer   *)
(* and then followed, one load per access.  The time says something only   *)
(* if the loads go to different blocks: a block that is loaded again comes *)
(* from the cache.                                                         *)
(*                                                                         *)
(* The unit of size is a pointer (8 bytes).  An address is a thread, whose *)
(* buffer it is in, and an offset.  A call of a worker is synchronous here *)
(* (see WorkerHandshake), so that use_memory() is the same for everyone.   *)
(* Only the modes that rewrite the buffer change what is modelled.         *)
(*                                                                         *)
(* RESTORE_TLB is never set: on AArch64 the kernel is built with x86.c and *)
(* generic.c of hw_detect, which know of no TLB there (num_tlbs() = -1).   *)
(***************************************************************************)
EXTENDS PermutationRandom, CoherenceStates

CONSTANTS
  SETUPS,     \* parameters of the kernel (FLUSH_PT: and no huge pages)
  MEMSIZES,   \* problem sizes
  SEEDS,      \* start values made from time, thread and iteration
  TIMES,      \* what a measurement may return
  CALLS,      \* bound on the calls of bi_entry()
  PAGE,       \* pagesizes[0]
  UNROLL,     \* loads in the loop of asm_work_ldr() (24)
  TOTAL       \* Total_D_Cache_Size

Invalid == -1           \* INVALID_MEASUREMENT
INT_MAX == 2147483647

ASSUME LatencyKernelAssumption ==
  /\ SETUPS \subseteq [USE_MODE : UseModes, FLUSH_PT : BOOLEAN, ACCESSES : Nat,
                       ALIGNMENT : Nat \ {0}, RUNS : Nat, NUM_RESULTS : Nat \ {0},
                       NUM_SHARED_CPUS : Nat]
  /\ \A s \in SETUPS : /\ s.ALIGNMENT % PAGE = 0 \/ PAGE % s.ALIGNMENT = 0
                       /\ s.USE_MODE \in SharedModes <=> s.NUM_SHARED_CPUS > 0
  /\ MEMSIZES \subseteq Nat \ {0} /\ SEEDS \subseteq Nat /\ TIMES \subseteq Nat
  /\ CALLS \in Nat /\ {PAGE, UNROLL} \subseteq Nat \ {0, 1} /\ TOTAL \in Nat

VARIABLES
  pc,            \* "idle", "thread", "run", "pages", "link", "measure"
  setup,         \* the parameters
  calls,         \* calls of bi_entry() so far
  memsize,       \* problem size of the call
  accesses,      \* global: length of the chain
  runs,          \* how often each target is measured
  room,          \* elements allocated for page_address
  t, iteration,  \* target thread and number of the run
  script,        \* uses of memory still ahead of the measurement
  buffer,        \* thread whose buffer use_memory() works on
  j,             \* loop counter of use_memory()
  page_address,  \* the selected pages, in order
  tmp_addr,      \* end of the chain so far
  memory,        \* the pointers in the buffers
  tmin,          \* shortest time so far
  results        \* result of each target measured

workVars == <<memsize, accesses, runs, room>>
placeVars == <<buffer, j, page_address, tmp_addr, memory>>
timeVars == <<tmin, results>>
vars == <<pc, setup, calls, workVars, t, iteration, script, placeVars, timeVars, randVars>>

\* A word of memory is written, whether it held something before or not.
Put(f, x, y) == [z \in DOMAIN f \cup {x} |-> IF z = x THEN y ELSE f[z]]

Alignment == setup.ALIGNMENT
Measured  == 0 .. setup.NUM_RESULTS - 1
----------------------------------------------------------------------------
\* How much of the memory is used, and by how many accesses.
Masked(m)    == IF m < PAGE THEN m ELSE (m \div PAGE) * PAGE
Pages(m)     == IF m < PAGE THEN 1 ELSE m \div PAGE
Chain(m, n)  == (Min({n, Masked(m) \div Alignment}) \div UNROLL) * UNROLL

\* With few accesses each has a page of its own.
Layout(m, n) ==
  LET few == Chain(m, n) <= Pages(m)
  IN  [accesses  |-> Chain(m, n),
       num_pages |-> IF few THEN Chain(m, n) ELSE Pages(m),
       usable    |-> IF few THEN Chain(m, n) * PAGE ELSE Masked(m)]

\* More runs when they are short, fewer when the data are in main memory.
RunsFor(m, n) ==
  LET twice(r, few) == IF n <= few * UNROLL /\ m < TOTAL THEN 2 * r ELSE r
      r == twice(twice(setup.RUNS, 2), 5)
  IN  Max({1, IF m > TOTAL THEN r \div 3 ELSE r})
----------------------------------------------------------------------------
(***************************************************************************)
(* What is done to the buffer of the target in one run, by whichever CPU.  *)
(***************************************************************************)
Use(b, mode) == [buffer |-> b, mode |-> mode]

\* Page tables leave the caches of the master as if it measured its own memory.
FlushPageTables(i) == IF i > 0 /\ setup.FLUSH_PT THEN <<Use(0, "EXCLUSIVE")>> ELSE <<>>

OwnMode ==
  CASE setup.USE_MODE = "SHARED" -> "EXCLUSIVE"
    [] setup.USE_MODE = "MUW"    -> "SHARED"
    [] setup.USE_MODE = "OWNED"  -> "MODIFIED"
    [] OTHER -> setup.USE_MODE

SharersFirst(i) ==
  CASE setup.USE_MODE = "FORWARD" ->
         [k \in 1 .. setup.NUM_SHARED_CPUS |-> Use(i, IF k = 1 THEN "EXCLUSIVE" ELSE "FORWARD")]
    [] setup.USE_MODE = "MUW" -> <<Use(i, "MODIFIED")>>
    [] OTHER -> <<>>

SharersThen(i) ==
  CASE setup.USE_MODE = "SHARED" -> [k \in 1 .. setup.NUM_SHARED_CPUS |-> Use(i, "SHARED")]
    [] setup.USE_MODE = "OWNED"  -> <<Use(i, "OWNED")>>
    [] OTHER -> <<>>

\* Mutant: the share CPUs get their own buffer when the target is not the master.
ScriptNotLent(i) ==
  FlushPageTables(i) \o (SharersFirst(0) \o <<Use(i, OwnMode)>> \o SharersThen(0))

Script(i) == FlushPageTables(i) \o (SharersFirst(i) \o <<Use(i, OwnMode)>> \o SharersThen(i))
----------------------------------------------------------------------------
Init ==
  /\ pc = "idle" /\ setup \in SETUPS /\ calls = 0
  /\ memsize = 0 /\ accesses = 0 /\ runs = 0 /\ room = 0
  /\ t = 0 /\ iteration = 0 /\ script = <<>>
  /\ buffer = 0 /\ j = 0 /\ page_address = <<>> /\ tmp_addr = <<0, 0>> /\ memory = <<>>
  /\ tmin = INT_MAX /\ results = <<>>
  /\ RandomStart

\* Elements allocated for page_address, before few accesses make do with less.
Room(m) == Pages(m)

\* _work() up to the loop over the targets.
Entry ==
  /\ pc = "idle" /\ calls < CALLS
  /\ \E m \in MEMSIZES :
       LET n == Chain(m, setup.ACCESSES)
       IN  /\ memsize' = m /\ accesses' = n /\ room' = Room(m)
           /\ runs' = RunsFor(m, n)
           /\ page_address' = Restrict(page_address, DOMAIN page_address \cap 0 .. Room(m) - 1)
  /\ calls' = calls + 1 /\ t' = 0 /\ results' = <<>>
  /\ pc' = "thread"
  /\ UNCHANGED <<setup, iteration, script, buffer, j, tmp_addr, memory, tmin, randVars>>

\* The next target; without accesses its result is invalid at once.
Target ==
  /\ pc = "thread" /\ t \in Measured
  /\ iteration' = 0
  /\ IF accesses >= UNROLL
     THEN /\ pc' = "run" /\ script' = Script(t) /\ tmin' = INT_MAX /\ UNCHANGED <<t, results>>
     ELSE /\ t' = t + 1 /\ tmin' = 0 /\ results' = Append(results, Invalid)
          /\ UNCHANGED <<pc, script>>
  /\ UNCHANGED <<setup, calls, workVars, placeVars, randVars>>

Return ==
  /\ pc = "thread" /\ t \notin Measured
  /\ pc' = "idle"
  /\ UNCHANGED <<setup, calls, workVars, t, iteration, script, placeVars, timeVars, randVars>>
----------------------------------------------------------------------------
\* use_memory() in a mode that only reads.
ReadMemory ==
  /\ pc = "run" /\ script # <<>> /\ Head(script).mode \in ReadModes
  /\ script' = Tail(script)
  /\ UNCHANGED <<pc, setup, calls, workVars, t, iteration, placeVars, timeVars, randVars>>

Layouts == Layout(memsize, accesses)

\* use_memory() in a mode that first builds a new chain: the buffer is cleared, and
\* the generator prepared for the choice of pages.
ClearMemory ==
  /\ pc = "run" /\ script # <<>> /\ Head(script).mode \in WriteModes
  /\ buffer' = Head(script).buffer /\ script' = Tail(script)
  /\ memory' = Restrict(memory, {a \in DOMAIN memory : a[1] # buffer' \/ a[2] >= memsize})
  /\ accesses' = Layouts.accesses
  /\ IF Layouts.usable >= PAGE THEN \E s \in SEEDS : random_init(s, (memsize \div PAGE) - 1)
     ELSE UNCHANGED randVars
  /\ page_address' = Put(page_address, 0, <<buffer', 0>>)
  /\ j' = 1 /\ pc' = "pages"
  /\ UNCHANGED <<setup, calls, memsize, runs, room, t, iteration, tmp_addr, timeVars>>

SelectPage ==
  /\ pc = "pages" /\ j < Layouts.num_pages
  /\ random
  /\ page_address' = Put(page_address, j, <<buffer, (Number + 1) * PAGE>>)
  /\ j' = j + 1
  /\ UNCHANGED <<pc, setup, calls, workVars, t, iteration, script, buffer, tmp_addr, memory, timeVars>>

BlocksBehindFirst == (Layouts.usable \div Alignment) - 1

StartChain ==
  /\ pc = "pages" /\ j >= Layouts.num_pages
  /\ \E s \in SEEDS : random_init(s, BlocksBehindFirst)
  /\ tmp_addr' = <<buffer, 0>> /\ j' = 0 /\ pc' = "link"
  /\ UNCHANGED <<setup, calls, workVars, t, iteration, script, buffer, page_address, memory, timeVars>>

\* Mutant: the first block is not passed over.
OffsetFromZero == Number * Alignment

\* The blocks behind the first one, which the chain begins with.
Offset == (Number * Alignment) + Alignment

Link ==
  LET page == page_address[Offset \div PAGE]
      next == <<page[1], page[2] + (Offset % PAGE)>>
  IN  /\ pc = "link" /\ j < accesses
      /\ random
      /\ memory' = Put(memory, tmp_addr, next)
      /\ tmp_addr' = next /\ j' = j + 1
      /\ UNCHANGED <<pc, setup, calls, workVars, t, iteration, script, buffer, page_address, timeVars>>

Used ==
  /\ pc = "link" /\ j >= accesses
  /\ pc' = "run"
  /\ UNCHANGED <<setup, calls, workVars, t, iteration, script, placeVars, timeVars, randVars>>

\* The target's caches are flushed; the chain is followed next.
Flush ==
  /\ pc = "run" /\ script = <<>>
  /\ pc' = "measure"
  /\ UNCHANGED <<setup, calls, workVars, t, iteration, script, placeVars, timeVars, randVars>>
----------------------------------------------------------------------------
\* "discard first iteration if more than 1 runs are performed"
Shortest(time) ==
  IF iteration = 0 /\ runs # 1 THEN tmin ELSE Min({tmin, time})

Measure ==
  /\ pc = "measure"
  /\ \E time \in TIMES :
       /\ tmin' = Shortest(time)
       /\ IF iteration + 1 < runs
          THEN /\ iteration' = iteration + 1 /\ script' = Script(t) /\ pc' = "run"
               /\ UNCHANGED <<t, results>>
          ELSE /\ t' = t + 1 /\ pc' = "thread"
               /\ results' = Append(results, IF Shortest(time) = 0 THEN Invalid ELSE Shortest(time))
               /\ UNCHANGED <<iteration, script>>
  /\ UNCHANGED <<setup, calls, workVars, placeVars, randVars>>

Next ==
  \/ Entry \/ Target \/ Return
  \/ ReadMemory \/ ClearMemory \/ SelectPage \/ StartChain \/ Link \/ Used \/ Flush
  \/ Measure

Spec == Init /\ [][Next]_vars
----------------------------------------------------------------------------
(***************************************************************************)
(* Correctness properties.                                                 *)
(***************************************************************************)
Addresses == (0 .. setup.NUM_RESULTS - 1) \X Nat

\* use_memory() fills no more of page_address than _work() has allocated.
PagesInRoom == DOMAIN page_address \subseteq 0 .. room - 1 /\ Range(page_address) \subseteq Addresses

\* The addresses that asm_work_ldr() loads from, one after the other; nothing is behind
\* a word without pointer.
Loads ==
  LET load[k \in 0 .. accesses - 1] ==
        IF k = 0 THEN <<t, 0>>
        ELSE LET a == load[k - 1] IN IF a \in DOMAIN memory THEN memory[a] ELSE a
  IN  load

\* "there will be only one access per block per measurement" (PARAMETERS): whatever
\* was done to the target's buffer before, the loads follow a chain inside of it, and
\* no two are in one block.  Blocks larger than a page are the exception: there is
\* room for accesses*PAGE only, and the loads go around in it.  At any time the pages
\* that were chosen are where _work() has made room for them.
ChainVisitsOnce ==
  /\ PagesInRoom
  /\ pc = "measure" =>
       LET loads == Loads
       IN  /\ \A a \in Range(loads) : /\ a \in DOMAIN memory /\ a[1] = t
                                     /\ a[2] \in 0 .. memsize - 1
                                     /\ a[2] % Min({Alignment, PAGE}) = 0
           /\ Alignment <= PAGE => IsInjective(loads)
============================================================================
