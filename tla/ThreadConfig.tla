---------------------------- MODULE ThreadConfig ----------------------------
(***************************************************************************)
(* From the lists of the PARAMETERS file to threads on CPUs:               *)
(* evaluate_environment() counts the CPUs a list selects, allocates, and   *)
(* goes through the list again to store them; bi_init() cuts the number of *)
(* threads to the number of cores.  Module WorkerHandshake takes what      *)
(* comes out as its constants; ThreadsExist and OwnCpu are what it assumes.*)
(***************************************************************************)
EXTENDS Integers, Sequences, FiniteSets, SequencesExt

CONSTANTS
  CORES,        \* CPUs of the machine: 0 .. CORES-1
  ALLOWED,      \* sets of CPUs the affinity of the process may allow
  CPU_LISTS,    \* settings of BENCHIT_KERNEL_CPU_LIST, Unset among them
  SHARE_LISTS,  \* settings of BENCHIT_KERNEL_SHARED_CPU_LIST
  BIND_LISTS    \* settings of BENCHIT_KERNEL_MEM_BIND

Entries == [from : Nat, to : Nat, step : Nat \ {0}]
Unset   == <<>>   \* a list that is set has at least one entry

ASSUME ThreadConfigAssumption ==
  /\ CORES \in Nat \ {0}
  /\ ALLOWED \subseteq (SUBSET (0 .. CORES - 1)) \ {{}}
  /\ CPU_LISTS \cup SHARE_LISTS \cup BIND_LISTS \subseteq Seq(Entries)

VARIABLES
  env,              \* what the environment and the machine say
  pc,               \* position in evaluate_environment() and bi_init()
  NUM_THREADS, NUM_RESULTS,
  FRST_SHARE_CPU, NUM_SHARED_CPUS,
  cpu_bind,         \* the elements of cpu_bind stored so far
  mem_bind,         \* the elements of mem_bind stored so far
  room,             \* how many elements each of the two arrays has
  errors            \* whether an error was counted

counts == <<NUM_THREADS, NUM_RESULTS, FRST_SHARE_CPU, NUM_SHARED_CPUS>>
vars   == <<env, pc, counts, cpu_bind, mem_bind, room, errors>>

UsesShareCpus == env.USE_MODE # "EXCLUSIVE"
----------------------------------------------------------------------------
\* The CPUs an entry a, a-b or a-b/s names, and those that are allowed: of a sequence
\* of CPUs, and of a list, entry by entry.
Numbers(e) == [k \in 1 .. (IF e.to < e.from THEN 0 ELSE (e.to - e.from) \div e.step + 1)
                |-> e.from + (k - 1) * e.step]
cpu_allowed(i) == i \in env.allowed
OnlyAllowed(cpus) ==
  LET only[k \in 0 .. Len(cpus)] ==
        IF k = 0 THEN <<>>
        ELSE IF cpu_allowed(cpus[k]) THEN Append(only[k - 1], cpus[k]) ELSE only[k - 1]
  IN  only[Len(cpus)]
Selected(list) ==
  LET selected[k \in 0 .. Len(list)] ==
        IF k = 0 THEN <<>> ELSE selected[k - 1] \o OnlyAllowed(Numbers(list[k]))
  IN  selected[Len(list)]

\* Mutant: the CPUs are taken from the set, where they have no order.
CpuSeqAscending ==
  SelectSeq([k \in 1 .. CORES |-> k - 1],
            LAMBDA i : cpu_allowed(i) /\ (env.CPU_LIST # Unset => i \in Range(Selected(env.CPU_LIST))))

\* Without a list every allowed CPU is used, in ascending order.
CpuSeq == IF env.CPU_LIST = Unset THEN OnlyAllowed([k \in 1 .. CORES |-> k - 1])
                                  ELSE Selected(env.CPU_LIST)

\* Store the elements of seq from index j on.
StoreFrom(array, j, seq) ==
  [i \in DOMAIN array \cup j .. j + Len(seq) - 1 |->
     IF i \in j .. j + Len(seq) - 1 THEN seq[i - j + 1] ELSE array[i]]

CountCpus ==
  /\ pc = "count"
  /\ NUM_THREADS' = Len(CpuSeq)
  /\ errors' = (NUM_THREADS' = 0)
  /\ room' = [room EXCEPT !.cpu = IF NUM_THREADS' = 0 THEN 0 ELSE NUM_THREADS' + 1]
  /\ pc' = "bind"
  /\ UNCHANGED <<env, NUM_RESULTS, FRST_SHARE_CPU, NUM_SHARED_CPUS, cpu_bind, mem_bind>>

BindCpus ==
  /\ pc = "bind"
  /\ cpu_bind' = StoreFrom(cpu_bind, 0, CpuSeq)
  /\ NUM_RESULTS' = NUM_THREADS
  /\ pc' = IF UsesShareCpus THEN "shareCount" ELSE "mem"
  /\ UNCHANGED <<env, NUM_THREADS, FRST_SHARE_CPU, NUM_SHARED_CPUS, mem_bind, room, errors>>

\* Mutant: the share CPUs are counted in NUM_SHARED_CPUS alone.
CountSharesApart ==
  /\ pc = "shareCount"
  /\ IF env.SHARED_CPU_LIST = Unset
     THEN errors' = TRUE /\ pc' = "mem" /\ UNCHANGED <<counts, room>>
     ELSE /\ FRST_SHARE_CPU' = NUM_RESULTS
          /\ NUM_SHARED_CPUS' = Len(Selected(env.SHARED_CPU_LIST))
          /\ room' = [room EXCEPT !.cpu = NUM_THREADS]
          /\ pc' = "shareBind"
          /\ UNCHANGED <<NUM_THREADS, NUM_RESULTS, errors>>
  /\ UNCHANGED <<env, cpu_bind, mem_bind>>

CountShares ==
  /\ pc = "shareCount"
  /\ IF env.SHARED_CPU_LIST = Unset
     THEN errors' = TRUE /\ pc' = "mem" /\ UNCHANGED <<counts, room>>
     ELSE /\ NUM_THREADS' = NUM_THREADS + Len(Selected(env.SHARED_CPU_LIST))
          /\ FRST_SHARE_CPU' = NUM_RESULTS
          /\ NUM_SHARED_CPUS' = NUM_THREADS' - NUM_RESULTS
          /\ room' = [room EXCEPT !.cpu = NUM_THREADS']   \* realloc
          /\ pc' = "shareBind"
          /\ UNCHANGED <<NUM_RESULTS, errors>>
  /\ UNCHANGED <<env, cpu_bind, mem_bind>>

BindShares ==
  /\ pc = "shareBind"
  /\ cpu_bind' = StoreFrom(cpu_bind, NUM_RESULTS, Selected(env.SHARED_CPU_LIST))
  /\ pc' = "mem"
  /\ UNCHANGED <<env, counts, mem_bind, room, errors>>
----------------------------------------------------------------------------
(***************************************************************************)
(* Memory bindings.  With ALLOC=B an entry of MEM_BIND is processed as a   *)
(* whole: index j runs on past the array, only the store is guarded, and a *)
(* CPU that is not allowed is an error.                                    *)
(***************************************************************************)
\* if (j<=NUM_THREADS) mem_bind[j]=i; j++;
StoreGuarded(array, j, cpus) ==
  Restrict(StoreFrom(array, j, cpus),
           DOMAIN array \cup {i \in j .. j + Len(cpus) - 1 : i <= NUM_THREADS})

\* Mutant: every entry starts at index 0 again.
BindEntryAgain(acc, e) ==
  LET cpus == OnlyAllowed(Numbers(e))
  IN [j     |-> Len(cpus),
      bind  |-> StoreGuarded(acc.bind, 0, cpus),
      error |-> acc.error \/ Len(cpus) # Len(Numbers(e)),
      more  |-> Len(cpus) < NUM_THREADS]

BindEntry(acc, e) ==
  IF ~acc.more THEN acc ELSE
    LET cpus == OnlyAllowed(Numbers(e))
    IN [j     |-> acc.j + Len(cpus),
        bind  |-> StoreGuarded(acc.bind, acc.j, cpus),
        error |-> acc.error \/ Len(cpus) # Len(Numbers(e)),
        more  |-> acc.j + Len(cpus) < NUM_THREADS]

Bound ==
  LET bound[k \in 0 .. Len(env.MEM_BIND)] ==
        IF k = 0 THEN [j |-> 0, bind |-> mem_bind, error |-> FALSE, more |-> TRUE]
        ELSE BindEntry(bound[k - 1], env.MEM_BIND[k])
  IN  bound[Len(env.MEM_BIND)]

BindMemory ==
  /\ pc = "mem"
  /\ room' = [room EXCEPT !.mem = NUM_THREADS + 1]
  /\ mem_bind' = CASE env.ALLOC = "G" -> [i \in 0 .. NUM_THREADS - 1 |-> cpu_bind[0]]
                   [] env.ALLOC = "L" -> [i \in 0 .. NUM_THREADS - 1 |-> cpu_bind[i]]
                   [] env.ALLOC = "B" -> Bound.bind
  /\ errors' = (errors \/ (env.ALLOC = "B" /\ (Bound.error \/ Bound.j < NUM_THREADS)))
  /\ pc' = "check"
  /\ UNCHANGED <<env, counts, cpu_bind>>

\* All settings are read before errors are reported.
Check ==
  /\ pc = "check"
  /\ pc' = IF errors THEN "exit" ELSE "init"
  /\ UNCHANGED <<env, counts, cpu_bind, mem_bind, room, errors>>

BiInit ==
  /\ pc = "init"
  /\ NUM_THREADS' = IF NUM_THREADS > CORES \/ NUM_THREADS = 0 THEN CORES ELSE NUM_THREADS
  /\ pc' = "ready"
  /\ UNCHANGED <<env, NUM_RESULTS, FRST_SHARE_CPU, NUM_SHARED_CPUS, cpu_bind, mem_bind, room, errors>>

Ready == pc = "ready"
Stopped == pc \in {"ready", "exit"} /\ UNCHANGED vars

Environments ==
  [allowed : ALLOWED, CPU_LIST : CPU_LISTS, SHARED_CPU_LIST : SHARE_LISTS, MEM_BIND : BIND_LISTS,
   ALLOC : {"G", "L", "B"}, USE_MODE : {"EXCLUSIVE", "SHARED", "OWNED"}]

InitThreads ==
  /\ pc = "count"
  /\ NUM_THREADS = 0 /\ NUM_RESULTS = 0 /\ FRST_SHARE_CPU = 0 /\ NUM_SHARED_CPUS = 0
  /\ cpu_bind = [i \in {} |-> 0] /\ mem_bind = [i \in {} |-> 0]
  /\ room = [cpu |-> 0, mem |-> 0]
  /\ errors = FALSE

Init == env \in Environments /\ InitThreads

Next == \/ CountCpus \/ BindCpus \/ CountShares \/ BindShares
        \/ BindMemory \/ Check \/ BiInit \/ Stopped

Spec == Init /\ [][Next]_vars
----------------------------------------------------------------------------
(***************************************************************************)
(* Correctness properties.                                                 *)
(***************************************************************************)
\* What PARAMETERS asks for: no CPU twice in the lists, share CPUs not among the
\* measured ones.
Distinct ==
  IsInjective(CpuSeq \o (IF UsesShareCpus THEN Selected(env.SHARED_CPU_LIST) ELSE <<>>))

\* The threads that _work() commands: the measured ones, and the share CPUs, of
\* which OWNED always takes the first.
Addressed ==
  0 .. NUM_RESULTS - 1 \cup
  (IF ~UsesShareCpus THEN {} ELSE FRST_SHARE_CPU .. FRST_SHARE_CPU + NUM_SHARED_CPUS - 1)
  \cup (IF env.USE_MODE = "OWNED" THEN {FRST_SHARE_CPU} ELSE {})

\* The second pass over a list stores within what the first pass led to allocate.
StoredInRoom ==
  DOMAIN cpu_bind \subseteq 0 .. room.cpu - 1 /\ DOMAIN mem_bind \subseteq 0 .. room.mem - 1

\* With distinct CPUs, one of them to share with when that is needed, every thread
\* that _work() commands is created, and there are no more threads than cores.
ThreadsExist ==
  /\ StoredInRoom
  /\ Ready /\ Distinct /\ (UsesShareCpus => NUM_SHARED_CPUS > 0) =>
       /\ NUM_THREADS <= CORES
       /\ Addressed = 0 .. NUM_THREADS - 1
       /\ Addressed \subseteq DOMAIN cpu_bind \cap DOMAIN mem_bind

\* Every thread is bound to a CPU of its own, the k-th measured thread to the k-th CPU
\* of CPU_LIST (whose curve is labelled so); no spinning thread can keep another
\* one from running.
OwnCpu ==
  Ready /\ Distinct =>
    /\ \A i, j \in 0 .. NUM_THREADS - 1 : cpu_bind[i] = cpu_bind[j] => i = j
    /\ env.CPU_LIST # Unset =>
         \A k \in 0 .. NUM_RESULTS - 1 : cpu_bind[k] = Selected(env.CPU_LIST)[k + 1]

\* MEM_BIND "needs to be at least as long as BENCHIT_KERNEL_CPU_LIST", and as the
\* share CPUs, which are threads too: when it is, and the lists name allowed
\* CPUs, it is accepted, and every thread gets the memory named for it.
Named(list) == UNION {Range(Numbers(list[k])) : k \in DOMAIN list}

MemoryAsNamed ==
  env.ALLOC = "B" =>
    /\ Ready => \A i \in 0 .. NUM_THREADS - 1 : mem_bind[i] = Selected(env.MEM_BIND)[i + 1]
    /\ (/\ pc = "exit" /\ NUM_RESULTS > 0 /\ Named(env.MEM_BIND) \subseteq env.allowed
        /\ UsesShareCpus => env.SHARED_CPU_LIST # Unset)
         => Len(Selected(env.MEM_BIND)) < NUM_THREADS
============================================================================
