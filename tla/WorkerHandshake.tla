-------------------------- MODULE WorkerHandshake --------------------------
(***************************************************************************)
(* The master thread of the memory bandwidth kernel and its worker         *)
(* threads: bi_init(), bi_entry()/_work() and bi_cleanup() on one side,    *)
(* thread() on the other.                                                  *)
(*                                                                         *)
(* They communicate through three shared words and nothing else:           *)
(* thread_comm[i], the command the master shows to worker i, and the       *)
(* single cells ack and done, which every worker writes and the master     *)
(* clears.  use_memory(), flush_caches() and the measurement take no lock; *)
(* that at most one of them runs is a consequence of the protocol.         *)
(*                                                                         *)
(* Memory is sequentially consistent here.  An action is the code from one *)
(* access of a shared word to the next, so that every interleaving of the  *)
(* accesses is a behaviour.                                                *)
(***************************************************************************)
EXTENDS CoherenceStates, Integers, Sequences, FiniteSets

CONSTANTS
  NUM_RESULTS,      \* threads whose caches are measured: 0 .. NUM_RESULTS-1
  NUM_SHARED_CPUS,  \* threads that only help to reach a shared state
  RUNS,             \* bound on the repetitions of one measurement
  ENTRIES           \* bound on the calls of bi_entry()

ASSUME ConstantsAssumption ==
  /\ NUM_RESULTS \in Nat \ {0}
  /\ NUM_SHARED_CPUS \in Nat \ {0}
  /\ RUNS \in Nat
  /\ ENTRIES \in Nat

\* Thread 0 is the master; the share CPUs follow the measured threads.
Threads        == 0 .. NUM_RESULTS + NUM_SHARED_CPUS - 1
Workers        == Threads \ {0}
FRST_SHARE_CPU == NUM_RESULTS
IsShareCpu(w)  == w >= FRST_SHARE_CPU

VARIABLES
  thread_comm,   \* the command word of each worker
  ack,           \* id of the worker that last acknowledged a command, or 0
  done,          \* id of the worker that last finished using memory, or 0
  aligned_addr,  \* threaddata[i].aligned_addr: the thread whose buffer it is
  use_mode,      \* threaddata[i].USE_MODE
  old,           \* per worker: the last command it acted on
  arg,           \* per worker: the arguments of its use_memory() call
  wpc,           \* per worker: where it is in thread()
  mpc,           \* where the master is
  t,             \* the master's loop variable over threads
  run,           \* the master's loop variable over runs
  runs,          \* how often _work() repeats a measurement
  todo,          \* what is left of the current run
  cur,           \* the step of the run the master is executing
  tmp,           \* the aligned_addr it will give back
  entries,       \* calls of bi_entry() so far
  line,          \* line[b][c]: state of buffer b's line in the cache of CPU c
  setup          \* configuration, never changed after evaluate_environment()

shared == <<thread_comm, ack, done>>
params == <<aligned_addr, use_mode>>
worker == <<old, arg, wpc>>
loops  == <<t, run, runs, entries>>
steps  == <<todo, cur, tmp>>
vars   == <<shared, params, worker, mpc, loops, steps, line, setup>>

Flushes  == {"FLUSH", "FLUSH_ALL"}
Commands == {"INIT", "STOP", "USE_MEMORY", "WAIT"} \cup Flushes
Unset    == "UNSET"   \* memory of thread_comm before the first store to it

\* bi_init() creates the threads of SHARED_CPU_LIST only if USE_MODE needs them.
UsesShareCpus == setup.USE_MODE \in SharedModes
NumThreads    == IF UsesShareCpus THEN NUM_RESULTS + NUM_SHARED_CPUS
                                  ELSE NUM_RESULTS
NoAddr == -1
NoArg  == [buffer |-> NoAddr, mode |-> "none"]
----------------------------------------------------------------------------
(***************************************************************************)
(* One run of _work() for target thread tgt, as the sequence of things the *)
(* master does itself (who = 0) or has a worker do.                        *)
(***************************************************************************)
Step(who, what, mode) == [who |-> who, what |-> what, mode |-> mode]
Idle == Step(0, "NONE", "none")

\* Mutant: the target of an OWNED measurement only reads its buffer.
TargetModeReadsOwned(mode) ==
  CASE mode = "SHARED" -> "EXCLUSIVE"
    [] mode = "MUW"    -> "SHARED"
    [] OTHER           -> mode

\* The mode in which the target touches its own buffer.
TargetMode(mode) ==
  CASE mode = "SHARED" -> "EXCLUSIVE"
    [] mode = "MUW"    -> "SHARED"
    [] mode = "OWNED"  -> "MODIFIED"
    [] OTHER           -> mode

\* Steps of all share CPUs, in the order of SHARED_CPU_LIST.
EachShareCpu(what, firstMode, otherMode) ==
  [k \in 1 .. NUM_SHARED_CPUS |->
     Step(FRST_SHARE_CPU + k - 1, what, IF k = 1 THEN firstMode ELSE otherMode)]

\* What share CPUs do before the target touches the buffer ...
SharersBefore(mode) ==
  CASE mode = "FORWARD" -> EachShareCpu("USE_MEMORY", "EXCLUSIVE", "FORWARD")
    [] mode = "MUW"     -> <<Step(FRST_SHARE_CPU, "USE_MEMORY", "MODIFIED")>>
    [] OTHER            -> <<>>

\* ... and after it.
SharersAfter(mode) ==
  CASE mode = "SHARED" -> EachShareCpu("USE_MEMORY", "SHARED", "SHARED")
    [] mode = "OWNED"  -> <<Step(FRST_SHARE_CPU, "USE_MEMORY", "OWNED")>>
    [] OTHER           -> <<>>

Placement(tgt, mode) ==
  SharersBefore(mode) \o <<Step(tgt, "USE_MEMORY", TargetMode(mode))>>
                      \o SharersAfter(mode)

\* All share CPUs flush, then the target; the master when it is the target or
\* when BENCHIT_KERNEL_ALWAYS_FLUSH_CPU0 is set.
FlushStep(who, what) == Step(who, what, "none")
ShareFlush == IF setup.flush_share_cpu THEN "FLUSH_ALL" ELSE "FLUSH"

Flushing(tgt) ==
  (IF UsesShareCpus THEN EachShareCpu(ShareFlush, "none", "none") ELSE <<>>)
  \o <<FlushStep(tgt, "FLUSH")>>
  \o (IF tgt # 0 /\ setup.OPT_FLUSH_CPU0 THEN <<FlushStep(0, "FLUSH")>> ELSE <<>>)

Measure == <<Step(0, "MEASURE", "none")>>

Script(tgt) == Placement(tgt, setup.USE_MODE) \o (Flushing(tgt) \o Measure)
----------------------------------------------------------------------------
(***************************************************************************)
(* thread(): a worker.  It spins until its command is INIT, fills its      *)
(* buffer while the other threads fill theirs, and then polls its command. *)
(***************************************************************************)
At(w, pc)   == wpc[w] = pc
Goto(w, pc) == wpc' = [wpc EXCEPT ![w] = pc]
SetAck(w)   == ack' = w /\ UNCHANGED <<thread_comm, done>>

masterVars == <<mpc, loops, steps>>

SeeInit(w) ==
  /\ At(w, "boot") /\ thread_comm[w] = "INIT"
  /\ old' = [old EXCEPT ![w] = "INIT"]
  /\ Goto(w, "bootAck")
  /\ UNCHANGED <<shared, params, arg, line>>

AckInit(w) ==
  /\ At(w, "bootAck")
  /\ SetAck(w) /\ Goto(w, "init")
  /\ UNCHANGED <<params, old, arg, line>>

\* Allocate and fill the own buffer, clflush it, publish its address.
InitBuffer(w) ==
  /\ At(w, "init")
  /\ aligned_addr' = [aligned_addr EXCEPT ![w] = w]
  /\ line' = [line EXCEPT ![w] = Nowhere(line[w])]
  /\ Goto(w, "poll")
  /\ UNCHANGED <<shared, use_mode, old, arg>>

\* Mutant: old is not consulted, so a command still shown is taken again.
AcceptAgain(w, what, pc) ==
  /\ At(w, "poll") /\ thread_comm[w] = what
  /\ old' = [old EXCEPT ![w] = what]
  /\ Goto(w, pc)
  /\ UNCHANGED <<shared, params, arg, line>>

\* A command is acted on once: a repeated read of it finds old equal to it.
Accept(w, what, pc) ==
  /\ At(w, "poll") /\ thread_comm[w] = what /\ old[w] # what
  /\ old' = [old EXCEPT ![w] = what]
  /\ Goto(w, pc)
  /\ UNCHANGED <<shared, params, arg, line>>

AcceptUse(w)   == Accept(w, "USE_MEMORY", "useAck")
AcceptFlush(w) == \E what \in Flushes : Accept(w, what, "flushAck")

AckUse(w) ==
  /\ At(w, "useAck")
  /\ SetAck(w) /\ Goto(w, "useCall")
  /\ UNCHANGED <<params, old, arg, line>>

\* The arguments are read from threaddata[w] after the command was acknowledged.
CallUseMemory(w) ==
  /\ At(w, "useCall")
  /\ arg' = [arg EXCEPT ![w] = [buffer |-> aligned_addr[w], mode |-> use_mode[w]]]
  /\ Goto(w, "using")
  /\ UNCHANGED <<shared, params, old, line>>

FinishUseMemory(w) ==
  /\ At(w, "using")
  /\ line' = [line EXCEPT ![arg[w].buffer] =
                UseMemory(@, w, arg[w].mode, setup.protocol)]
  /\ done' = w
  /\ arg' = [arg EXCEPT ![w] = NoArg]
  /\ Goto(w, "poll")
  /\ UNCHANGED <<thread_comm, ack, params, old>>

AckFlush(w) ==
  /\ At(w, "flushAck")
  /\ SetAck(w) /\ Goto(w, "flushing")
  /\ UNCHANGED <<params, old, arg, line>>

\* Whether a flush evicts the data depends on the problem size.
Evict(c) == \/ UNCHANGED line
            \/ line' = [b \in Threads |-> [line[b] EXCEPT ![c] = "I"]]

FinishFlush(w) ==
  /\ At(w, "flushing")
  /\ Evict(w) /\ Goto(w, "poll")
  /\ UNCHANGED <<shared, params, old, arg>>

\* WAIT is acknowledged before old is set; both precede the next poll.
SeeWait(w) ==
  /\ At(w, "poll") /\ thread_comm[w] = "WAIT" /\ old[w] # "WAIT"
  /\ Goto(w, "waitAck")
  /\ UNCHANGED <<shared, params, old, arg, line>>

\* Mutant: old keeps the last command, so that one is never taken twice.
AckWaitKeepsOld(w) ==
  /\ At(w, "waitAck")
  /\ SetAck(w)
  /\ Goto(w, "poll")
  /\ UNCHANGED <<params, old, arg, line>>

AckWait(w) ==
  /\ At(w, "waitAck")
  /\ SetAck(w)
  /\ old' = [old EXCEPT ![w] = "WAIT"]
  /\ Goto(w, "poll")
  /\ UNCHANGED <<params, arg, line>>

\* STOP, and whatever is none of the other commands, ends the thread.
Exit(w) ==
  /\ At(w, "poll")
  /\ thread_comm[w] \notin {"USE_MEMORY", "WAIT", "INIT"} \cup Flushes
  /\ Goto(w, "gone")
  /\ UNCHANGED <<shared, params, old, arg, line>>

\* for (tmp = 100; tmp > 0; tmp--): nothing new in the command word.
Spin(w) ==
  /\ At(w, "poll") /\ thread_comm[w] \in {old[w], "INIT"}
  /\ UNCHANGED <<shared, params, worker, line>>

Worker(w) ==
  /\ \/ SeeInit(w) \/ AckInit(w) \/ InitBuffer(w)
     \/ AcceptUse(w) \/ AckUse(w) \/ CallUseMemory(w) \/ FinishUseMemory(w)
     \/ AcceptFlush(w) \/ AckFlush(w) \/ FinishFlush(w)
     \/ SeeWait(w) \/ AckWait(w) \/ Exit(w) \/ Spin(w)
  /\ UNCHANGED masterVars
----------------------------------------------------------------------------
(***************************************************************************)
(* bi_init(): create the workers one after the other, then fill the own    *)
(* buffer while they fill theirs, then collect them one after the other.   *)
(***************************************************************************)
MasterAt(pc)    == mpc = pc
MasterGoto(pc)  == mpc' = pc
SetComm(w, cmd) == thread_comm' = [thread_comm EXCEPT ![w] = cmd]

CreateWorker ==
  /\ MasterAt("create") /\ t < NumThreads
  /\ ack' = 0
  /\ use_mode' = [use_mode EXCEPT ![t] = setup.USE_MODE]
  /\ SetComm(t, "INIT")
  /\ Goto(t, "boot")
  /\ MasterGoto("created")
  /\ UNCHANGED <<done, aligned_addr, old, arg, loops, steps, line>>

AwaitCreated ==
  /\ MasterAt("created") /\ ack # 0
  /\ t' = t + 1
  /\ MasterGoto("create")
  /\ UNCHANGED <<shared, params, worker, run, runs, entries, steps, line>>

InitOwnBuffer ==
  /\ MasterAt("create") /\ t = NumThreads
  /\ ack' = 0 /\ done' = 0
  /\ line' = [line EXCEPT ![0] = Nowhere(line[0])]
  /\ t' = 1
  /\ MasterGoto("release")
  /\ UNCHANGED <<thread_comm, params, worker, run, runs, entries, steps>>

ClearBeforeRelease ==
  /\ MasterAt("release") /\ t < NumThreads
  /\ ack' = 0
  /\ MasterGoto("releasePost")
  /\ UNCHANGED <<thread_comm, done, params, worker, loops, steps, line>>

ReleaseWorker ==
  /\ MasterAt("releasePost")
  /\ SetComm(t, "WAIT")
  /\ MasterGoto("released")
  /\ UNCHANGED <<ack, done, params, worker, loops, steps, line>>

AwaitReleased ==
  /\ MasterAt("released") /\ ack # 0
  /\ t' = t + 1
  /\ MasterGoto("release")
  /\ UNCHANGED <<shared, params, worker, run, runs, entries, steps, line>>

\* Mutant: the last acknowledgement is left behind.
InitReturnsWithAck ==
  /\ MasterAt("release") /\ t = NumThreads
  /\ MasterGoto("idle")
  /\ UNCHANGED <<shared, params, worker, loops, steps, line>>

InitReturns ==
  /\ MasterAt("release") /\ t = NumThreads
  /\ ack' = 0
  /\ MasterGoto("idle")
  /\ UNCHANGED <<thread_comm, done, params, worker, loops, steps, line>>
----------------------------------------------------------------------------
(***************************************************************************)
(* bi_entry() and _work(): for every target thread, runs times the script. *)
(***************************************************************************)

\* _work() derives runs from the problem size: 0 stands for a problem without
\* a single access, every other number up to the bound may result.
BeginEntry ==
  /\ MasterAt("idle") /\ entries < ENTRIES
  /\ entries' = entries + 1
  /\ runs' \in 0 .. RUNS
  /\ t' = 0 /\ run' = 0
  /\ MasterGoto("loop")
  /\ UNCHANGED <<shared, params, worker, steps, line>>

BeginRun ==
  /\ MasterAt("loop") /\ t < NUM_RESULTS /\ run < runs
  /\ run' = run + 1
  /\ todo' = Script(t)
  /\ MasterGoto("step")
  /\ UNCHANGED <<shared, params, worker, t, runs, entries, cur, tmp, line>>

EndRun ==
  /\ MasterAt("step") /\ todo = <<>>
  /\ MasterGoto("loop")
  /\ UNCHANGED <<shared, params, worker, loops, steps, line>>

NextTarget ==
  /\ MasterAt("loop") /\ t < NUM_RESULTS /\ run = runs
  /\ t' = t + 1 /\ run' = 0
  /\ UNCHANGED <<shared, params, worker, mpc, runs, entries, steps, line>>

EndEntry ==
  /\ MasterAt("loop") /\ t = NUM_RESULTS
  /\ MasterGoto("idle")
  /\ UNCHANGED <<shared, params, worker, loops, steps, line>>

\* The master itself uses memory, flushes its caches or measures.
BeginLocal ==
  /\ MasterAt("step") /\ todo # <<>> /\ Head(todo).who = 0
  /\ cur' = Head(todo) /\ todo' = Tail(todo)
  /\ MasterGoto("local")
  /\ UNCHANGED <<shared, params, worker, loops, tmp, line>>

EndLocal ==
  /\ MasterAt("local")
  /\ CASE cur.what = "USE_MEMORY" ->
            line' = [line EXCEPT ![0] = UseMemory(@, 0, cur.mode, setup.protocol)]
       [] cur.what = "FLUSH" -> Evict(0)
       [] cur.what = "MEASURE" ->
            line' = [line EXCEPT ![t] = ReadLine(@, 0, setup.protocol)]
  /\ cur' = Idle
  /\ MasterGoto("step")
  /\ UNCHANGED <<shared, params, worker, loops, todo, tmp>>

\* Mutant: a share CPU is lent the buffer of the thread before it.
PostUseNeighbour ==
  /\ MasterAt("step") /\ todo # <<>>
  /\ LET s == Head(todo) IN
     /\ s.who # 0 /\ s.what = "USE_MEMORY"
     /\ tmp' = aligned_addr[s.who]
     /\ aligned_addr' = IF IsShareCpu(s.who)
                        THEN [aligned_addr EXCEPT ![s.who] = aligned_addr[s.who - 1]]
                        ELSE aligned_addr
     /\ use_mode' = [use_mode EXCEPT ![s.who] = s.mode]
     /\ SetComm(s.who, s.what)
     /\ cur' = s /\ todo' = Tail(todo)
  /\ MasterGoto("await1")
  /\ UNCHANGED <<ack, done, worker, loops, line>>

\* A worker has to do it.  A share CPU works on the target's buffer for the
\* time of a USE_MEMORY; dmb orders the parameters before the command.
PostUse ==
  /\ MasterAt("step") /\ todo # <<>>
  /\ LET s == Head(todo) IN
     /\ s.who # 0 /\ s.what = "USE_MEMORY"
     /\ tmp' = aligned_addr[s.who]
     /\ aligned_addr' = IF IsShareCpu(s.who)
                        THEN [aligned_addr EXCEPT ![s.who] = aligned_addr[t]]
                        ELSE aligned_addr
     /\ use_mode' = [use_mode EXCEPT ![s.who] = s.mode]
     /\ SetComm(s.who, s.what)
     /\ cur' = s /\ todo' = Tail(todo)
  /\ MasterGoto("await1")
  /\ UNCHANGED <<ack, done, worker, loops, line>>

PostFlush ==
  /\ MasterAt("step") /\ todo # <<>>
  /\ LET s == Head(todo) IN
     /\ s.who # 0 /\ s.what \in Flushes
     /\ SetComm(s.who, s.what)
     /\ cur' = s /\ todo' = Tail(todo)
  /\ MasterGoto("await1")
  /\ UNCHANGED <<ack, done, params, worker, loops, tmp, line>>

\* while (!ack);
AwaitAccepted ==
  /\ MasterAt("await1") /\ ack # 0
  /\ MasterGoto("clear1")
  /\ UNCHANGED <<shared, params, worker, loops, steps, line>>

\* Mutant: the first acknowledgement is not cleared.
ClearAcceptedForgotten ==
  /\ MasterAt("clear1")
  /\ MasterGoto("withdraw")
  /\ UNCHANGED <<shared, params, worker, loops, steps, line>>

ClearAccepted ==
  /\ MasterAt("clear1")
  /\ ack' = 0
  /\ MasterGoto("withdraw")
  /\ UNCHANGED <<thread_comm, done, params, worker, loops, steps, line>>

\* Mutant: the master goes on when the command has been accepted.
WithdrawGoesOn ==
  /\ MasterAt("withdraw")
  /\ SetComm(cur.who, "WAIT")
  /\ MasterGoto("step")
  /\ UNCHANGED <<ack, done, params, worker, loops, steps, line>>

Withdraw ==
  /\ MasterAt("withdraw")
  /\ SetComm(cur.who, "WAIT")
  /\ MasterGoto("await2")
  /\ UNCHANGED <<ack, done, params, worker, loops, steps, line>>

\* Mutant: the master does not wait for the second acknowledgement.
AwaitWaitingSkipped ==
  /\ MasterAt("await2")
  /\ MasterGoto("clear2")
  /\ UNCHANGED <<shared, params, worker, loops, steps, line>>

\* "wait for other thread using the memory"
AwaitWaiting ==
  /\ MasterAt("await2") /\ ack # 0
  /\ MasterGoto("clear2")
  /\ UNCHANGED <<shared, params, worker, loops, steps, line>>

\* A flush is over with the second acknowledgement, a use with done.
ClearWaiting ==
  /\ MasterAt("clear2")
  /\ ack' = 0
  /\ MasterGoto(IF cur.what = "USE_MEMORY" THEN "awaitDone" ELSE "step")
  /\ UNCHANGED <<thread_comm, done, params, worker, loops, steps, line>>

\* Mutant: the second acknowledgement is taken for the end of the work.
AwaitDoneSkipped ==
  /\ MasterAt("awaitDone")
  /\ MasterGoto("clearDone")
  /\ UNCHANGED <<shared, params, worker, loops, steps, line>>

AwaitDone ==
  /\ MasterAt("awaitDone") /\ done # 0
  /\ MasterGoto("clearDone")
  /\ UNCHANGED <<shared, params, worker, loops, steps, line>>

\* Mutant: a share CPU keeps the target's buffer.
ClearDoneKeepsBuffer ==
  /\ MasterAt("clearDone")
  /\ done' = 0
  /\ MasterGoto("step")
  /\ UNCHANGED <<thread_comm, ack, params, worker, loops, steps, line>>

ClearDone ==
  /\ MasterAt("clearDone")
  /\ done' = 0
  /\ aligned_addr' = IF IsShareCpu(cur.who)
                     THEN [aligned_addr EXCEPT ![cur.who] = tmp]
                     ELSE aligned_addr
  /\ MasterGoto("step")
  /\ UNCHANGED <<thread_comm, ack, use_mode, worker, loops, steps, line>>
----------------------------------------------------------------------------
(***************************************************************************)
(* bi_cleanup(): stop and join the workers one after the other, then free. *)
(***************************************************************************)
BeginCleanup ==
  /\ MasterAt("idle")
  /\ t' = 1
  /\ MasterGoto("stop")
  /\ UNCHANGED <<shared, params, worker, run, runs, entries, steps, line>>

ClearBeforeStop ==
  /\ MasterAt("stop") /\ t < NumThreads
  /\ ack' = 0
  /\ MasterGoto("stopPost")
  /\ UNCHANGED <<thread_comm, done, params, worker, loops, steps, line>>

\* Mutant: the workers are sent to wait.
PostStopWaits ==
  /\ MasterAt("stopPost")
  /\ SetComm(t, "WAIT")
  /\ MasterGoto("join")
  /\ UNCHANGED <<ack, done, params, worker, loops, steps, line>>

PostStop ==
  /\ MasterAt("stopPost")
  /\ SetComm(t, "STOP")
  /\ MasterGoto("join")
  /\ UNCHANGED <<ack, done, params, worker, loops, steps, line>>

\* Mutant: the thread is told to stop but not joined.
JoinTooEarly ==
  /\ MasterAt("join")
  /\ t' = t + 1
  /\ MasterGoto("stop")
  /\ UNCHANGED <<shared, params, worker, run, runs, entries, steps, line>>

Join ==
  /\ MasterAt("join") /\ At(t, "gone")
  /\ t' = t + 1
  /\ MasterGoto("stop")
  /\ UNCHANGED <<shared, params, worker, run, runs, entries, steps, line>>

FreeAll ==
  /\ MasterAt("stop") /\ t = NumThreads
  /\ MasterGoto("freed")
  /\ UNCHANGED <<shared, params, worker, loops, steps, line>>

Freed == MasterAt("freed") /\ UNCHANGED vars

Master ==
  \/ CreateWorker \/ AwaitCreated \/ InitOwnBuffer
  \/ ClearBeforeRelease \/ ReleaseWorker \/ AwaitReleased \/ InitReturns
  \/ BeginEntry \/ BeginRun \/ EndRun \/ NextTarget \/ EndEntry
  \/ BeginLocal \/ EndLocal \/ PostUse \/ PostFlush
  \/ AwaitAccepted \/ ClearAccepted \/ Withdraw \/ AwaitWaiting
  \/ ClearWaiting \/ AwaitDone \/ ClearDone
  \/ BeginCleanup \/ ClearBeforeStop \/ PostStop \/ Join \/ FreeAll
----------------------------------------------------------------------------
\* evaluate_environment() accepts these settings; the protocol is the hardware's.
Setups == [USE_MODE : UseModes, flush_share_cpu : BOOLEAN,
           OPT_FLUSH_CPU0 : BOOLEAN, protocol : Protocols]

\* _mm_malloc() and memset() at the top of bi_init(): no worker exists.
Init ==
  /\ setup \in Setups
  /\ thread_comm = [w \in Workers |-> Unset]
  /\ ack = 0 /\ done = 0
  /\ aligned_addr = [i \in Threads |-> IF i = 0 THEN 0 ELSE NoAddr]
  /\ use_mode = [w \in Workers |-> "none"]
  /\ old = [w \in Workers |-> "STOP"]
  /\ arg = [w \in Workers |-> NoArg]
  /\ wpc = [w \in Workers |-> "none"]
  /\ mpc = "create" /\ t = 1
  /\ run = 0 /\ runs = 0 /\ entries = 0
  /\ todo = <<>> /\ cur = Idle /\ tmp = NoAddr
  /\ line = [b \in Threads |-> [c \in Threads |-> "I"]]

Next == /\ \/ Master
           \/ \E w \in Workers : Worker(w)
           \/ Freed
        /\ UNCHANGED setup

\* Every thread runs on a CPU of its own (cpu_set()), and leaves a spin loop
\* whose condition stays false: weak fairness of each thread.
Fairness == /\ WF_vars(Master /\ UNCHANGED setup)
            /\ \A w \in Workers : WF_vars(Worker(w) /\ UNCHANGED setup)

Spec     == Init /\ [][Next]_vars
FairSpec == Spec /\ Fairness
----------------------------------------------------------------------------
(***************************************************************************)
(* Correctness properties.                                                 *)
(***************************************************************************)
WorkerPCs == {"none", "boot", "bootAck", "init", "poll", "useAck", "useCall",
              "using", "flushAck", "flushing", "waitAck", "gone"}
MasterPCs == {"create", "created", "release", "releasePost", "released",
              "idle", "loop", "step", "local", "await1", "clear1", "withdraw",
              "await2", "clear2", "awaitDone", "clearDone",
              "stop", "stopPost", "join", "freed"}
CallPCs   == {"await1", "clear1", "withdraw", "await2", "clear2",
              "awaitDone", "clearDone"}
Modes     == UseModes \cup {"none"}
Whats     == {"USE_MEMORY", "MEASURE", "NONE"} \cup Flushes
StepType  == [who : Threads, what : Whats, mode : Modes]

\* Every variable has its type.
TypeOK ==
  /\ setup \in Setups
  /\ thread_comm \in [Workers -> Commands \cup {Unset}]
  /\ ack \in Threads /\ done \in Threads
  /\ aligned_addr \in [Threads -> Threads \cup {NoAddr}]
  /\ use_mode \in [Workers -> Modes]
  /\ old \in [Workers -> Commands]
  /\ arg \in [Workers -> [buffer : Threads \cup {NoAddr}, mode : Modes]]
  /\ wpc \in [Workers -> WorkerPCs]
  /\ mpc \in MasterPCs
  /\ t \in 0 .. NumThreads
  /\ run \in 0 .. RUNS /\ runs \in 0 .. RUNS /\ entries \in 0 .. ENTRIES
  /\ todo \in Seq(StepType) /\ cur \in StepType
  /\ tmp \in Threads \cup {NoAddr}
  /\ line \in [Threads -> [Threads -> LineStates]]

\* The threads inside use_memory(), flush_caches() or the measurement.
Active == {w \in Workers : wpc[w] \in {"useCall", "using", "flushing"}}
          \cup (IF MasterAt("local") THEN {0} ELSE {})

\* At most one thread at a time touches the measured memory, the caches or the
\* globals use_memory() and _random() share: a second one would disturb the
\* measurement, and nothing but the order of ack and thread_comm prevents it.
ExclusiveAccess == \A c, d \in Active : c = d

\* The one worker the master is talking to.
Partner == IF mpc \in CallPCs THEN cur.who ELSE t

\* The single cell ack is shared by all workers: what the master reads in it
\* is always the acknowledgement of the worker it is waiting for, and outside
\* of an exchange it finds the cell empty.
AckFromPartner ==
  /\ ack # 0 /\ mpc \in CallPCs \cup {"created", "released"} => ack = Partner
  /\ mpc \in {"idle", "loop", "step", "local"} => ack = 0 /\ done = 0

\* When the second acknowledgement of a USE_MEMORY arrives, the worker has
\* left use_memory() and set done: while (!done) never has to wait.
DoneBeforeWaiting ==
  MasterAt("clear2") /\ cur.what = "USE_MEMORY" => done = cur.who

\* A share CPU works on the target's buffer only for the time of one command;
\* whenever no command is in progress every worker has its own buffer back.
BufferGivenBack ==
  mpc \in {"idle", "loop", "step", "local", "stop"} =>
    \A w \in 1 .. NumThreads - 1 : aligned_addr[w] = w

\* When the caches are about to be flushed for the measurement, the line of
\* the target's buffer is in the state USE_MODE names, in the target's cache
\* and in that of the first share CPU ("USE MODE ADAPTION").
PlacedForMeasurement ==
  MasterAt("step") /\ todo = Flushing(t) \o Measure =>
    Placed(line[t], t, FRST_SHARE_CPU, setup.USE_MODE, setup.protocol)

\* bi_cleanup() frees thread_comm and threaddata when no thread reads them.
FreedWhenGone ==
  MasterAt("freed") => \A w \in Workers : wpc[w] \in {"none", "gone"}

\* No acknowledgement is lost: a worker never overwrites one the master has
\* not cleared, and the master clears none that it has not waited for.
NoAckLost ==
  [][ack # 0 /\ ack' # ack =>
       ack' = 0 /\ mpc \in {"create", "release", "clear1", "clear2"}]_vars

\* bi_init(), every bi_entry() and bi_cleanup() return.
Terminates == <>MasterAt("freed")
----------------------------------------------------------------------------
(***************************************************************************)
(* Refinement: an exchange is a remote procedure call.                     *)
(***************************************************************************)
CallStage ==
  IF mpc \notin CallPCs THEN "none"
  ELSE IF wpc[cur.who] \in {"using", "flushing"} THEN "running"
  ELSE IF \/ wpc[cur.who] \in {"useAck", "useCall", "flushAck"}
          \/ thread_comm[cur.who] = cur.what /\ old[cur.who] # cur.what
       THEN "posted"
  ELSE "finished"

CallOrder ==
  IF mpc \notin CallPCs THEN [what |-> "NONE", buffer |-> NoAddr, mode |-> "none"]
  ELSE IF cur.what # "USE_MEMORY"
  THEN [what |-> cur.what, buffer |-> NoAddr, mode |-> "none"]
  ELSE [what |-> cur.what, buffer |-> aligned_addr[cur.who],
        mode |-> use_mode[cur.who]]

CallWork ==
  IF CallStage # "running" THEN NoArg ELSE arg[cur.who]

Calls == INSTANCE RemoteCall WITH
  stage  <- CallStage,
  callee <- IF mpc \in CallPCs THEN cur.who ELSE 0,
  order  <- CallOrder,
  work   <- CallWork,
  local  <- MasterAt("local")

\* Posting a command and collecting its acknowledgements is a call of the
\* worker: exactly the worker that was asked runs, exactly once, with exactly
\* the buffer and the mode that were posted, and the call returns afterwards.
IsRemoteCall == Calls!Spec
----------------------------------------------------------------------------
(***************************************************************************)
(* The inductive invariant: what the master's position says of the state   *)
(* of each worker, of the command it is shown, and of ack and done.        *)
(***************************************************************************)
Team == 1 .. NumThreads - 1

\* The steps a script consists of: the master's own, and the calls.
LocalSteps == [who : {0}, what : {"USE_MEMORY", "FLUSH", "MEASURE"}, mode : Modes]
CallSteps  == [who : Team, what : {"USE_MEMORY"} \cup Flushes, mode : Modes]

Shows(w, cmd)   == thread_comm[w] = cmd
Quiet(w)        == At(w, "poll") /\ Shows(w, "WAIT") /\ old[w] = "WAIT"
Initialising(w) == wpc[w] \in {"init", "poll"} /\ Shows(w, "INIT") /\ old[w] = "INIT"

Booting(w) ==
  /\ Shows(w, "INIT")
  /\ \/ At(w, "boot") /\ ack = 0
     \/ At(w, "bootAck") /\ old[w] = "INIT" /\ ack = 0
     \/ Initialising(w) /\ ack = w

Waking(w) ==
  /\ Shows(w, "WAIT")
  /\ \/ wpc[w] \in {"init", "poll", "waitAck"} /\ old[w] = "INIT" /\ ack = 0
     \/ Quiet(w) /\ ack = w

Stopping(w) == Shows(w, "STOP") /\ wpc[w] \in {"poll", "gone"}

\* A worker between taking the command and its next look at thread_comm.
AckPC    == IF cur.what = "USE_MEMORY" THEN "useAck" ELSE "flushAck"
WorkPCs  == IF cur.what = "USE_MEMORY" THEN {"useCall", "using"} ELSE {"flushing"}
DoneMark == IF cur.what = "USE_MEMORY" THEN cur.who ELSE 0
Busy(w)  == /\ old[w] = cur.what
            /\ \/ wpc[w] \in WorkPCs /\ done = 0
               \/ At(w, "poll") /\ done = DoneMark

Engaged(w) ==
  CASE mpc = "await1" ->
         /\ Shows(w, cur.what)
         /\ \/ At(w, "poll") /\ old[w] = "WAIT" /\ ack = 0 /\ done = 0
            \/ At(w, AckPC) /\ old[w] = cur.what /\ ack = 0 /\ done = 0
            \/ Busy(w) /\ ack = w
    [] mpc = "clear1"   -> Shows(w, cur.what) /\ Busy(w) /\ ack = w
    [] mpc = "withdraw" -> Shows(w, cur.what) /\ Busy(w) /\ ack = 0
    [] mpc = "await2" ->
         /\ Shows(w, "WAIT")
         /\ \/ Busy(w) /\ ack = 0
            \/ At(w, "waitAck") /\ old[w] = cur.what /\ done = DoneMark /\ ack = 0
            \/ Quiet(w) /\ done = DoneMark /\ ack = w
    [] mpc = "clear2" -> Quiet(w) /\ done = DoneMark /\ ack = w
    [] OTHER          -> Quiet(w) /\ done = w /\ ack = 0 /\ cur.what = "USE_MEMORY"

\* The worker the master is dealing with, and those before and after it.
Around(w, Before, Now, After) ==
  IF w < t THEN Before ELSE IF w = t THEN Now ELSE After

WorkerInv(w) ==
  CASE mpc = "create"   -> Around(w, Initialising(w), At(w, "none"), At(w, "none"))
    [] mpc = "created"  -> Around(w, Initialising(w), Booting(w), At(w, "none"))
    [] mpc \in {"release", "releasePost"} ->
         Around(w, Quiet(w), Initialising(w), Initialising(w))
    [] mpc = "released" -> Around(w, Quiet(w), Waking(w), Initialising(w))
    [] mpc \in {"idle", "loop", "step", "local"} -> Quiet(w)
    [] mpc \in {"stop", "stopPost"} -> Around(w, At(w, "gone"), Quiet(w), Quiet(w))
    [] mpc = "join"     -> Around(w, At(w, "gone"), Stopping(w), Quiet(w))
    [] mpc = "freed"    -> At(w, "gone")
    [] OTHER            -> IF w = cur.who THEN Engaged(w) ELSE Quiet(w)

MasterInv ==
  /\ todo \in Seq(LocalSteps \cup CallSteps)
  /\ mpc \in CallPCs => cur \in CallSteps
  /\ mpc = "local" => cur \in LocalSteps
  /\ mpc \in {"created", "releasePost", "released", "stopPost", "join"} => t \in Team
  /\ mpc \in {"create", "release", "stop"} => t \in 1 .. NumThreads
  /\ mpc \in {"loop", "step", "local"} \cup CallPCs => t \in 0 .. NUM_RESULTS
  /\ mpc \in {"step", "local"} \cup CallPCs => t < NUM_RESULTS
  /\ mpc \in {"releasePost", "idle", "loop", "step", "local",
              "stop", "stopPost", "join"} => ack = 0
  /\ mpc \notin CallPCs => done = 0

\* Whose buffer every worker uses.
Lent(w) == /\ mpc \in CallPCs /\ cur.what = "USE_MEMORY"
           /\ w = cur.who /\ IsShareCpu(w)

AddrInv ==
  /\ aligned_addr[0] = 0
  /\ \A w \in Team :
       wpc[w] \notin {"none", "boot", "bootAck", "init"} =>
         aligned_addr[w] = IF Lent(w) THEN t ELSE w
  /\ mpc \in CallPCs /\ cur.what = "USE_MEMORY" => tmp = cur.who

IInv ==
  /\ TypeOK
  /\ MasterInv
  /\ \A w \in Team : WorkerInv(w)
  /\ \A w \in Workers \ Team : At(w, "none")
  /\ AddrInv
============================================================================
