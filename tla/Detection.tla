----------------------------- MODULE Detection -----------------------------
(***************************************************************************)
(* What init_cpuinfo() learns about the caches of CPU 0.                   *)
(*                                                                         *)
(* On AArch64 the hardware detection has no implementation of its own and  *)
(* takes the generic one: generic_cache_info() puts what sysfs says about  *)
(* a cache into one line of text, and every other function has that line   *)
(* written again and finds its value by counting commas, two characters    *)
(* at a time.  A file that is missing in sysfs leaves its part of the line *)
(* out.  Linux shows level, type and shared_cpu_map of every cache, but    *)
(* size, ways_of_associativity and coherency_line_size only if it knows    *)
(* them.                                                                   *)
(*                                                                         *)
(* Of the line only what the functions look for is kept: commas, the       *)
(* blank behind a comma, and which value stands where.                     *)
(***************************************************************************)
EXTENDS Integers, Sequences, FiniteSets, FiniteSetsExt, SequencesExt, Functions

CONSTANTS
  MACHINES,    \* machines: vendor and the caches of CPU 0 in the order of sysfs
  L2_FT2000,   \* 2 MiB, the size of the cache index2 for vendor 0x70
  TEXTROOM,    \* names of CPUs that fit into the line
  LISTROOM     \* names of CPUs that fit into the list it is made from

Levels  == 1 .. 4
Files   == {"size", "ways", "line"}
Caches  == [level : Levels, type : {"Data", "Instruction", "Unified"}, files : SUBSET Files,
            size : Nat \ {0}, line : Nat \ {0}, cpus : Nat \ {0}]
Vendors == {"0x43", "0x48", "0x70", "other"}

HoldsData(cache) == cache.type # "Instruction"
DataCaches(m, level) == {c \in Range(m.caches) : c.level = level /\ HoldsData(c)}

ASSUME DetectionAssumption ==
  /\ \A m \in MACHINES : m.vendor \in Vendors /\ m.caches \in Seq(Caches)
  /\ \A m \in MACHINES : \A j, k \in DOMAIN m.caches :
       (/\ HoldsData(m.caches[j]) /\ HoldsData(m.caches[k])
        /\ m.caches[j].level = m.caches[k].level) => j = k
  /\ {L2_FT2000, TEXTROOM, LISTROOM} \subseteq Nat \ {0} /\ TEXTROOM <= LISTROOM

VARIABLES
  pc,        \* "caches" while they are read, then "detect", or "crash"
  machine,   \* vendor and caches as they are
  cpuinfo,   \* what is known of them
  index      \* the cache that is read next, by its number in sysfs

NoInfo(vendor) ==
  LET zero == [l \in Levels |-> 0]
  IN [vendor |-> vendor, Cachelevels |-> 0, size |-> zero, Cache_shared |-> zero, Cacheline_size |-> zero,
      Cacheflushsize |-> 0, Total_D_Cache_Size |-> 0, D_Cache_Size_per_Core |-> 0]
----------------------------------------------------------------------------
Part(cache, file) == IF file \in cache.files THEN <<"comma", "blank", file>> ELSE <<>>

\* The comma in front of the size belongs to the head and is always there.
cache_info(cache) ==
  <<"head", "comma">> \o (IF "size" \in cache.files THEN <<"blank", "size">> ELSE <<>>)
    \o Part(cache, "ways") \o Part(cache, "line") \o <<"comma", "blank", "cpus">>

\* Behind the next comma and the character that follows it, or 0.
AfterComma(text, beg) ==
  LET commas == {p \in beg .. Len(text) : text[p] = "comma"}
  IN  IF beg = 0 \/ commas = {} THEN 0 ELSE Min(commas) + 2

\* Where the text is behind n commas, or 0: the functions add 1 to the NULL of
\* strstr() before they compare, and read from address 2.
Field(text, n) ==
  LET beg[k \in 0 .. n] == IF k = 0 THEN 1 ELSE AfterComma(text, beg[k - 1])
  IN beg[n]

Reads(text, n, what) == Field(text, n) \in DOMAIN text /\ text[Field(text, n)] = what

\* cache_assoc() passes two commas, cache_shared() four; it is asked for caches that
\* hold data only.
Crashes(cache) == Field(cache_info(cache), IF HoldsData(cache) THEN 4 ELSE 2) = 0

\* -1 as an unsigned number stands for a size that is not found.
NotFound == -1
cache_size(k) ==
  LET cache == machine.caches[k + 1]
  IN IF machine.vendor = "0x70" /\ k = 2 THEN L2_FT2000
     ELSE IF Reads(cache_info(cache), 1, "size") THEN cache.size ELSE NotFound

\* atoi() of anything else is 0.
cacheline_length(cache) == IF Reads(cache_info(cache), 3, "line") THEN cache.line ELSE 0

\* What cache_shared() may count: the names in the line.  A list that is longer than
\* its own buffer overwrites what lies behind.
cache_shared(cache) ==
  IF ~Reads(cache_info(cache), 4, "cpus") THEN {NotFound}
  ELSE IF cache.cpus <= LISTROOM THEN {Min({cache.cpus, TEXTROOM})} ELSE 1 .. TEXTROOM

\* Mutant: an instruction cache is taken for a data cache.
ReadCacheAnyType ==
  /\ pc = "caches" /\ index < Len(machine.caches)
  /\ LET cache == machine.caches[index + 1]
         l     == cache.level
     IN /\ ~Crashes(cache)
        /\ \E shared \in cache_shared(cache) :
             cpuinfo' = [cpuinfo EXCEPT !.Cachelevels = Max({@, l}), !.size[l] = cache_size(index),
                           !.Cache_shared[l] = shared, !.Cacheline_size[l] = cacheline_length(cache)]
  /\ index' = index + 1
  /\ UNCHANGED <<pc, machine>>

\* One cache; sharing and line are those of the cache that holds data.
ReadCache ==
  /\ pc = "caches" /\ index < Len(machine.caches)
  /\ LET cache == machine.caches[index + 1]
         l     == cache.level
     IN /\ ~Crashes(cache)
        /\ IF HoldsData(cache)
             THEN \E shared \in cache_shared(cache) :
                    cpuinfo' = [cpuinfo EXCEPT !.Cachelevels = Max({@, l}), !.size[l] = cache_size(index),
                                  !.Cache_shared[l] = shared, !.Cacheline_size[l] = cacheline_length(cache)]
             ELSE cpuinfo' = [cpuinfo EXCEPT !.Cachelevels = Max({@, l})]
  /\ index' = index + 1
  /\ UNCHANGED <<pc, machine>>

\* The program ends with a segmentation fault.
CrashAtCache ==
  /\ pc = "caches" /\ index < Len(machine.caches)
  /\ Crashes(machine.caches[index + 1]) \/ machine.caches[index + 1].cpus > LISTROOM
  /\ pc' = "crash"
  /\ UNCHANGED <<machine, cpuinfo, index>>

\* Also when there is no directory with caches at all: num_caches() is then -1.
CachesRead ==
  /\ pc = "caches" /\ index = Len(machine.caches)
  /\ pc' = "detect"
  /\ UNCHANGED <<machine, cpuinfo, index>>

InitDetection ==
  /\ pc = "caches" /\ machine \in MACHINES
  /\ cpuinfo = NoInfo(machine.vendor) /\ index = 0

DetectionSteps == ReadCache \/ CrashAtCache \/ CachesRead
----------------------------------------------------------------------------
\* "determine cache details" (arch.c): the sizes, lines and sharing that the buffers
\* are computed from are those of the caches that hold data, whatever other caches
\* there are and in whatever order, but for the size that is fixed for one vendor
\* and for a list of CPUs that is too long for the text.  Detection does not get so
\* far if a file is missing in sysfs.
Described(cache) == cache.files = Files
FixedSize(l) ==
  /\ machine.vendor = "0x70" /\ Len(machine.caches) > 2
  /\ HoldsData(machine.caches[3]) /\ machine.caches[3].level = l

SizeOf(cache) == IF FixedSize(cache.level) THEN L2_FT2000 ELSE cache.size

CachesAsFound ==
  /\ pc = "detect" => \A l \in Levels :
       /\ DataCaches(machine, l) = {} => cpuinfo.size[l] = 0 /\ cpuinfo.Cacheline_size[l] = 0
       /\ \A c \in DataCaches(machine, l) :
            /\ cpuinfo.Cachelevels >= l
            /\ cpuinfo.size[l] = SizeOf(c)
            /\ cpuinfo.Cacheline_size[l] = c.line
            /\ cpuinfo.Cache_shared[l] = c.cpus \/ c.cpus > TEXTROOM
  /\ pc = "crash" => \E c \in Range(machine.caches) : ~Described(c) \/ c.cpus > LISTROOM
============================================================================
