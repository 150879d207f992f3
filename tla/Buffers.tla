------------------------------ MODULE Buffers ------------------------------
(***************************************************************************)
(* How large the memory areas of the kernel are and what is done in them:  *)
(* the buffer with the data, and the flush area that is read and written   *)
(* to evict the data from the caches.                                      *)
(*                                                                         *)
(* init_cpuinfo() detects the caches (Detection), bi_init() takes over the *)
(* settings that replace what was detected and allocates; afterwards       *)
(* flush_caches() and use_memory() run over the flush area.  No access is  *)
(* checked.                                                                *)
(*                                                                         *)
(* A level has one cache that holds data, unified or not; its size here is *)
(* U_Cache_Size + D_Cache_Size.  The caches of an AArch64 vendor are       *)
(* treated as exclusive (0x43), inclusive (0x70, 0x48) or not at all.      *)
(***************************************************************************)
EXTENDS Detection

CONSTANTS
  CORES,       \* num_cores
  SETTINGS,    \* what BENCHIT_KERNEL_L<i>_SIZE may say: 1..4 -> size or NotSet
  EXTRAS,      \* values of BENCHIT_KERNEL_FLUSH_EXTRA
  CACHELINES,  \* values of BENCHIT_KERNEL_CACHELINE_SIZE
  ACCESSES,    \* values of BENCHIT_KERNEL_FLUSH_ACCESSES
  MODES,       \* values of BENCHIT_KERNEL_FLUSH_MODE
  MEMSIZES,    \* problem sizes
  OFFSETS,     \* values of BENCHIT_KERNEL_OFFSET
  LINE,        \* 64: the alignment, and what use_memory() takes for a line at most
  HUGEPAGE,    \* 2 MiB
  WORD32,      \* 2^32
  WORD64,      \* 2^64
  MEMORY       \* the largest allocation that succeeds

NotSet == -1

ASSUME BuffersAssumption ==
  /\ \A m \in MACHINES : \A i, j \in Levels : i < j /\ DataCaches(m, j) # {} => DataCaches(m, i) # {}
  /\ CORES \in Nat \ {0}
  /\ SETTINGS \subseteq [Levels -> Nat \cup {NotSet}]
  /\ CACHELINES \subseteq (Nat \ {0}) \cup {NotSet}
  /\ MODES \subseteq {"M", "E", "I", "R"}
  /\ EXTRAS \subseteq 0 .. 1000 /\ ACCESSES \subseteq Nat \ {0}
  /\ LINE \in Nat \ {0}
  /\ MEMSIZES \subseteq {m \in Nat : m >= LINE} /\ OFFSETS \subseteq Nat
  /\ {HUGEPAGE, WORD32, WORD64, MEMORY} \subseteq Nat \ {0} /\ MEMORY < WORD64

\* pc goes on from "detect" with "settings", "allocate" and "ready"; "exit" is an error,
\* "endless" a loop without end.
VARIABLES
  env,       \* the settings, when they are read
  last       \* the last pass over the flush area

vars == <<pc, machine, cpuinfo, index, env, last>>

SumOver(size, levels) ==
  LET sum[i \in 0 .. 4] == IF i = 0 THEN 0 ELSE sum[i - 1] + (IF i \in levels THEN size[i] ELSE 0)
  IN sum[4]

SumTo(size, n) == SumOver(size, 1 .. n)

\* The passes so far: flushed levels, bytes covered, end of the last access.
NoPass == [what |-> "none", memsize |-> 0, levels |-> {}, covered |-> 0, end |-> 0]

EXTRA_FLUSH_SIZE == 100 + env.extra
----------------------------------------------------------------------------
(***************************************************************************)
(* bi_init(): sizes and allocation.                                        *)
(***************************************************************************)
Exclusive == cpuinfo.vendor = "0x43"
Inclusive == cpuinfo.vendor \in {"0x70", "0x48"}
ByVendor(excl, incl) == IF Exclusive THEN excl ELSE IF Inclusive THEN incl ELSE 0

\* A level without a cache that holds data is shared by 0, and dividing by that gives 0.
DetectCaches ==
  /\ pc = "detect"
  /\ LET n == cpuinfo.Cachelevels
         all == [i \in Levels |-> IF cpuinfo.Cache_shared[i] = 0 THEN 0
                                  ELSE (CORES \div cpuinfo.Cache_shared[i]) * cpuinfo.size[i]]
     IN cpuinfo' = [cpuinfo EXCEPT
          !.Cacheflushsize        = ByVendor(SumTo(cpuinfo.size, n), SumTo(cpuinfo.size, n)),
          !.Total_D_Cache_Size    = ByVendor(SumTo(all, n), IF n = 0 THEN 0 ELSE all[n]),
          !.D_Cache_Size_per_Core = ByVendor(SumTo(cpuinfo.size, n), IF n = 0 THEN 0 ELSE cpuinfo.size[n])]
  /\ pc' = "settings"
  /\ UNCHANGED <<machine, index, env, last>>

Environments ==
  [kernel : {"bandwidth", "latency"}, L_SIZE : SETTINGS, CACHELINE : CACHELINES, extra : EXTRAS,
   accesses : ACCESSES, MAX : MEMSIZES, OFFSET : OFFSETS, flush : SUBSET Levels,
   FLUSH_MODE : MODES, disable_clflush : BOOLEAN, hugepages : BOOLEAN]

ReadSettings ==
  /\ pc = "settings"
  /\ env' \in Environments
  /\ pc' = "replace"
  /\ UNCHANGED <<machine, cpuinfo, index, last>>

\* A size that is set replaces the detected one, also in the unsigned sum.  A level
\* that is to be flushed must have lines of a known length.
Settings ==
  /\ pc = "replace"
  /\ LET set  == {i \in Levels : env.L_SIZE[i] # NotSet}
         new  == [i \in Levels |-> IF i \in set THEN env.L_SIZE[i] ELSE cpuinfo.size[i]]
         more == SumTo(new, 4) - SumTo(cpuinfo.size, 4)
         line == IF env.CACHELINE = NotSet THEN cpuinfo.Cacheline_size ELSE [i \in Levels |-> env.CACHELINE]
     IN /\ cpuinfo' = [cpuinfo EXCEPT
             !.size = new,
             !.Cacheline_size = line,
             !.Cacheflushsize = (@ + more) % WORD64,
             !.Cachelevels = Max({@} \cup set)]
        /\ pc' = IF \E i \in env.flush : new[i] # 0 /\ line[i] = 0 THEN "exit" ELSE "allocate"
  /\ UNCHANGED <<machine, index, env, last>>

\* Mutant: the flush area has the size of the caches.
CACHEFLUSHSIZE_Single == (SumTo(cpuinfo.size, 4) * EXTRA_FLUSH_SIZE) \div 100

\* "double buffer size for implicit increase for LLC flushes"
CACHEFLUSHSIZE == (SumTo(cpuinfo.size, 4) * EXTRA_FLUSH_SIZE) \div 50

Allocate ==
  /\ pc = "allocate"
  /\ cpuinfo' = [cpuinfo EXCEPT !.Cacheflushsize = Max({@, CACHEFLUSHSIZE})]
  /\ pc' = IF cpuinfo'.Cacheflushsize <= MEMORY THEN "ready" ELSE "exit"
  /\ UNCHANGED <<machine, index, env, last>>

\* Mutant: the size is rounded down to huge pages.
BUFFERSIZE_RoundedDown(max, offset) ==
  LET size == max + LINE + offset + 16
  IN IF env.hugepages THEN (size \div HUGEPAGE) * HUGEPAGE ELSE size

\* The mask for huge pages has 32 bits.  ALIGNMENT is a line here.
BUFFERSIZE(max, offset) ==
  LET size == max + LINE + offset + 16
  IN IF env.hugepages THEN (((size + HUGEPAGE) \div HUGEPAGE) * HUGEPAGE) % WORD32
                      ELSE size
----------------------------------------------------------------------------
(***************************************************************************)
(* cacheflush() and flush_caches().                                        *)
(***************************************************************************)
\* The latency kernel has another flush for the first vendor: it takes only what is
\* behind level 2 for exclusive.
AboveL2  == env.kernel = "latency" /\ Exclusive

Held(level) ==
  IF ~AboveL2 THEN ByVendor(SumTo(cpuinfo.size, level), cpuinfo.size[level])
  ELSE IF level < 3 THEN cpuinfo.size[level]
  ELSE SumTo(cpuinfo.size, level) - cpuinfo.size[1]

FlushBytes(level) ==
  LET size == Held(level) * EXTRA_FLUSH_SIZE
  IN (IF level = cpuinfo.Cachelevels THEN 2 * size ELSE size) \div 100

\* One int is accessed every stride bytes; the passes that read store one int
\* behind the last that was read.
FlushEnd(level) ==
  LET stride == Max({4, cpuinfo.Cacheline_size[level] \div env.accesses})
      steps  == (FlushBytes(level) + stride - 1) \div stride
  IN IF env.FLUSH_MODE \in {"E", "R"} THEN steps * stride + 4
     ELSE IF steps = 0 THEN 0 ELSE (steps - 1) * stride + 4

Enabled(i) == i \in env.flush /\ cpuinfo.size[i] # 0

\* Data beyond this many bytes is flushed from level i.  In exclusive caches the
\* levels below hold part of it, unless they are flushed themselves.
UsableExclusive(i) ==
  SumOver(cpuinfo.size, {j \in 1 .. i : j = i \/ ~Enabled(j)})

\* The latency kernel subtracts level 2, or else level 1, from level 3 alone.
UsableAboveL2(i) ==
  IF i < 3 THEN cpuinfo.size[i]
  ELSE SumTo(cpuinfo.size, i) - cpuinfo.size[1]
       - (IF i # 3 THEN 0 ELSE IF Enabled(2) THEN cpuinfo.size[2]
          ELSE IF Enabled(1) THEN cpuinfo.size[1] ELSE 0)

Usable(i) ==
  IF AboveL2 THEN UsableAboveL2(i)
  ELSE IF Exclusive THEN UsableExclusive(i) ELSE cpuinfo.size[i]

Highest(levels) == IF levels = {} THEN {} ELSE {Max(levels)}

\* Mutant: the lowest level that is too small is flushed.
FlushedLevelsLowest(memsize) ==
  LET small == {i \in 1 .. cpuinfo.Cachelevels : Enabled(i) /\ memsize > Usable(i)}
  IN IF small = {} THEN {} ELSE {Min(small)}

\* The highest level that is too small, or one from each side of level 2.
FlushedLevels(memsize) ==
  LET small == {i \in 1 .. cpuinfo.Cachelevels : Enabled(i) /\ memsize > Usable(i)}
  IN IF AboveL2 THEN Highest(small \ {1, 2}) \cup Highest(small \cap {1, 2}) ELSE Highest(small)

FlushCaches(what, memsize) ==
  /\ pc = "ready"
  /\ LET levels == FlushedLevels(memsize)
     IN last' = [what |-> what, memsize |-> memsize, levels |-> levels,
                 covered |-> Max({0} \cup {FlushBytes(i) : i \in levels}),
                 end     |-> Max({0} \cup {FlushEnd(i) : i \in levels})]
  /\ UNCHANGED <<pc, machine, cpuinfo, index, env>>

\* FLUSH, and FLUSH_ALL, which takes twice the size of all caches.
Flush    == FlushCaches("FLUSH", env.MAX)
FlushAll == FlushCaches("FLUSH_ALL", 2 * cpuinfo.Total_D_Cache_Size)

\* use_memory() without clflush: the loop counts down to 0 after the first store, so
\* no passes are 2^64 passes.  If a level has lines of unknown length the stride is 0,
\* and dividing by it gives 0: already the loop over the data itself does not end.
Stride == Min({LINE} \cup {cpuinfo.Cacheline_size[i] : i \in 1 .. cpuinfo.Cachelevels})

FlushInUseMemory ==
  /\ pc = "ready" /\ env.disable_clflush /\ Stride # 0
  /\ LET bytes  == (cpuinfo.D_Cache_Size_per_Core * EXTRA_FLUSH_SIZE) \div 50
         passes == bytes \div Stride
     IN last' = [what |-> "USE_MEMORY", memsize |-> env.MAX, levels |-> {}, covered |-> bytes,
                 end |-> IF passes = 0 THEN WORD64 ELSE (passes - 1) * Stride + 8]
  /\ UNCHANGED <<pc, machine, cpuinfo, index, env>>

InvalidateEndlessly ==
  /\ pc = "ready" /\ Stride = 0
  /\ pc' = "endless"
  /\ UNCHANGED <<machine, cpuinfo, index, env, last>>

Stopped == pc \in {"crash", "exit", "endless"} /\ UNCHANGED vars

Detect == DetectionSteps /\ UNCHANGED <<env, last>>

Init == InitDetection /\ env = <<>> /\ last = NoPass

Next == \/ Detect \/ DetectCaches \/ ReadSettings \/ Settings \/ Allocate
        \/ Flush \/ FlushAll \/ FlushInUseMemory \/ InvalidateEndlessly
        \/ Stopped

Spec == Init /\ [][Next]_vars
----------------------------------------------------------------------------
(***************************************************************************)
(* Correctness properties.                                                 *)
(***************************************************************************)

\* A size in PARAMETERS is smaller than what was detected.
Smaller == \E l \in Levels : \E c \in DataCaches(machine, l) : env.L_SIZE[l] \in 0 .. SizeOf(c) - 1
Named   == Exclusive \/ Inclusive
Growing == \A i \in 1 .. cpuinfo.Cachelevels - 1 : cpuinfo.size[i] < cpuinfo.size[i + 1]

\* The pass over a level covers the whole flush area.
WholeArea(i) == i = cpuinfo.Cachelevels /\ Held(i) = SumTo(cpuinfo.size, 4)

\* "always allocate enough for LLC flush as this can be required by coherence state
\* control": a pass over the flush area leaves it only where it covers all of it, by
\* the last int or by the store behind the last line, or in use_memory() when
\* PARAMETERS makes a cache smaller or no size was detected.
OverrunsKnown ==
  \/ last.end <= cpuinfo.Cacheflushsize
  \/ /\ last.what # "USE_MEMORY"
     /\ \E i \in last.levels :
          WholeArea(i) /\ last.end < cpuinfo.Cacheflushsize + 4
                            + (IF env.FLUSH_MODE \in {"E", "R"} THEN cpuinfo.Cacheline_size[i] ELSE 0)
  \/ last.what = "USE_MEMORY" /\ (Smaller \/ cpuinfo.D_Cache_Size_per_Core = 0)

\* Caches as they are built: lines have 8 to n bytes, and every cache is larger than a
\* line of n bytes and what an int may stick out of it.
LinesFit(n) ==
  /\ LINE \in 8 .. n /\ CACHELINES \subseteq (8 .. n) \cup {NotSet} /\ L2_FT2000 >= n + 3
  /\ \A m \in MACHINES : \A c \in Range(m.caches) :
       HoldsData(c) => c.line \in 8 .. n /\ c.size >= n + 3
  /\ \A s \in SETTINGS : \A l \in Levels : s[l] \in {NotSet, 0} \/ s[l] >= n + 3

\* "flush all caches that are smaller than the specified memory size": for the
\* named vendors, if every level is larger than the one below, what is accessed
\* fills, with the extra amount, each selected cache that the data exceeds, and
\* with exclusive caches the levels below it too, which the latency kernel takes
\* to begin at level 2.
Capacity(i) ==
  LET below == IF env.kernel = "latency" THEN 2 .. i - 1 ELSE 1 .. i - 1
  IN  SumOver(cpuinfo.size, {i} \cup (IF Exclusive THEN below ELSE {}))

SmallCachesFlushed ==
  Named /\ Growing /\ last.what \in {"FLUSH", "FLUSH_ALL"} =>
    \A i \in Levels :
      Enabled(i) /\ last.memsize > Capacity(i) =>
        last.covered >= (Capacity(i) * EXTRA_FLUSH_SIZE) \div 100

\* "increase buffersize to the smallest multiple of 2 MIB greater than buffersize":
\* below 4 GiB the buffer holds the largest problem behind its offset.
BufferHolds ==
  pc = "ready" /\ env.MAX + LINE + env.OFFSET + 16 + HUGEPAGE < WORD32 =>
    env.OFFSET + env.MAX <= BUFFERSIZE(env.MAX, env.OFFSET)
============================================================================
