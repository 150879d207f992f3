----------------------------- MODULE MCBuffers -----------------------------
(***************************************************************************)
(* Small caches, lines of 16 bytes and huge pages of 256: what matters is  *)
(* how sizes compare.  Each cache holds at least two lines, and a level    *)
(* more than the one below.  Sysfs lists the data cache of level 1, its    *)
(* instruction cache, and then what is above.                              *)
(***************************************************************************)
EXTENDS Buffers

Cache(level, type, size, line, cpus) ==
  [level |-> level, type |-> type, files |-> Files, size |-> size, line |-> line, cpus |-> cpus]

Three(l1, l2, l3) ==
  <<Cache(1, "Data", l1, 16, 1), Cache(1, "Instruction", 24, 8, 1), Cache(2, "Unified", l2, 16, 2), Cache(3, "Unified", l3, 16, 4)>>
Two(l1, l2) == SubSeq(Three(l1, l2, 1), 1, 3)

Machine(vendor, caches) == [vendor |-> vendor, caches |-> caches]
Without(file, k) == [Three(32, 64, 256) EXCEPT ![k].files = @ \ {file}]

\* The third has longer lines in the last level, the fourth small instruction caches first.
MCInclusive ==
  {Machine("0x48", Three(32, 64, 256)), Machine("0x48", Two(32, 128)),
   Machine("0x48", [Three(48, 112, 320) EXCEPT ![4].line = 24]),
   Machine("0x70", <<Cache(1, "Instruction", 16, 16, 1), Cache(1, "Data", 32, 16, 1), Cache(2, "Unified", 48, 16, 4)>>)}
MCExclusive == {Machine("0x43", Two(32, 256)), Machine("0x43", Three(32, 64, 144))}
MCUnknown   == {Machine("other", Three(32, 64, 256)), Machine("0x48", <<>>)}

\* Sysfs lacks a file, for each of the caches, or the last level is shared by many CPUs.
MCPartial == {Machine("0x48", Without(f, k)) : f \in Files, k \in 1 .. 4}
               \cup {Machine("0x48", [Three(32, 64, 256) EXCEPT ![2].files = {}])}
MCShared  == {Machine("0x43", [Three(32, 64, 144) EXCEPT ![4].cpus = n]) : n \in {5, 6, 7}}
MCMachines == MCInclusive \cup MCExclusive \cup MCUnknown \cup MCPartial \cup MCShared

OnlyLevel(l, size) == [i \in Levels |-> IF i = l THEN size ELSE NotSet]
MCDetected  == {[i \in Levels |-> NotSet]}
MCSettings  == MCDetected \cup {OnlyLevel(3, 120), OnlyLevel(3, 1024), OnlyLevel(1, 28), OnlyLevel(1, 0)}
MCLines     == {NotSet, 8}

\* No line is longer than 24 bytes and no cache, as found or as set, smaller than 27.
ASSUME MCLinesFit == LinesFit(24)
============================================================================
