-------------------------- MODULE CoherenceStates --------------------------
(***************************************************************************)
(* What use_memory() does to one cache line of a buffer: the coherence     *)
(* state the line has in the cache of every thread's CPU.                  *)
(*                                                                         *)
(* The kernels place data in a coherence state by the order in which       *)
(* threads touch it.  How the hardware answers a read is not in the        *)
(* repository: ReadLine is the textbook MESIF / MOESI transition the       *)
(* comments of work.c rely on ("Note: only works if coherency protocol is  *)
(* MOESI", "only usefull if coherency protocol is MESIF").                 *)
(***************************************************************************)
EXTENDS Naturals

LineStates == {"I", "S", "E", "M", "O", "F"}
Protocols  == {"MESIF", "MOESI"}

\* The arguments use_memory() is called with, and the modes of the
\* configuration parameter BENCHIT_KERNEL_USE_MODE.
ReadModes   == {"SHARED", "OWNED", "FORWARD"}
WriteModes  == {"EXCLUSIVE", "MODIFIED", "INVALID"}
SharedModes == ReadModes \cup {"MUW"}
UseModes    == WriteModes \cup SharedModes

\* No cache holds the line: the stores and clflush at the top of use_memory().
Nowhere(line) == [c \in DOMAIN line |-> "I"]

\* CPU c reads the line.  A dirty copy elsewhere is kept as Owned by MOESI and
\* written back by MESIF; under MESIF the last reader is the forwarder.
ReadLine(line, c, protocol) ==
  IF line[c] # "I" THEN line
  ELSE IF \A d \in DOMAIN line : line[d] = "I" THEN [line EXCEPT ![c] = "E"]
  ELSE [d \in DOMAIN line |->
          IF d = c THEN IF protocol = "MESIF" THEN "F" ELSE "S"
          ELSE IF line[d] = "M" /\ protocol = "MOESI" THEN "O"
          ELSE IF line[d] \in {"M", "E", "F"} THEN "S"
          ELSE line[d]]

\* use_memory(): the three writing modes first invalidate the line in every
\* cache; MODIFIED then stores to it, EXCLUSIVE and the read-only modes load it.
UseMemory(line, c, mode, protocol) ==
  CASE mode = "INVALID"   -> Nowhere(line)
    [] mode = "MODIFIED"  -> [Nowhere(line) EXCEPT ![c] = "M"]
    [] mode = "EXCLUSIVE" -> ReadLine(Nowhere(line), c, protocol)
    [] mode \in ReadModes -> ReadLine(line, c, protocol)
    [] OTHER              -> line

\* The states USE_MODE promises for the buffer of thread t, when shareCpu is
\* the first thread of SHARED_CPU_LIST (comment "USE MODE ADAPTION").
Placed(line, t, shareCpu, mode, protocol) ==
  CASE mode = "EXCLUSIVE" -> line = [Nowhere(line) EXCEPT ![t] = "E"]
    [] mode = "MODIFIED"  -> line = [Nowhere(line) EXCEPT ![t] = "M"]
    [] mode = "INVALID"   -> line = Nowhere(line)
    [] mode = "SHARED"    -> line[t] = "S" /\ line[shareCpu] \in {"S", "F"}
    [] mode = "OWNED"     -> /\ line[t] = IF protocol = "MOESI" THEN "O" ELSE "S"
                             /\ line[shareCpu] \in {"S", "F"}
    [] mode = "FORWARD"   -> /\ line[t] = IF protocol = "MESIF" THEN "F" ELSE "S"
                             /\ line[shareCpu] = "S"
    [] mode = "MUW"       -> /\ line[t] \in {"S", "F"}
                             /\ line[shareCpu] = IF protocol = "MOESI" THEN "O" ELSE "S"
============================================================================
