----------------------- MODULE WorkerHandshakeProofs -----------------------
(***************************************************************************)
(* The safety properties of WorkerHandshake, proved for every number of    *)
(* measured threads, share CPUs, runs and calls of bi_entry().             *)
(*                                                                         *)
(* The argument is the inductive invariant IInv: where the master stands   *)
(* determines, for every worker, the command it is shown, the command it   *)
(* remembers in old, where it is in thread(), and what ack and done hold.  *)
(* A worker's step can only change the clause of that worker (StepWorker,  *)
(* StepOthers), because a worker that writes ack or done is the one the    *)
(* master deals with (PartnerOf).  A step of the master moves one worker   *)
(* from one clause to the next (MasterKeepsWorkerInv).                     *)
(*                                                                         *)
(* That an exchange is a remote call (RemoteCall) follows: the clause of   *)
(* the called worker says which stage of the call it is in, and what it    *)
(* was given to do is in arg while it does it, and nowhere else (ArgInv).  *)
(*                                                                         *)
(* That the line is placed (PlacedForMeasurement) follows from the same    *)
(* clauses: the number of steps taken from the script says what the line   *)
(* of the target's buffer looks like (PlaceInv), a call counts from the    *)
(* moment done is set, and what use_memory() works with is what the call   *)
(* was posted with (UseArgInv).                                            *)
(*                                                                         *)
(* The last part is about a measurement that a signal ends, wherever the   *)
(* signal comes: the shared words are freed when the workers have left,    *)
(* and only a share CPU can be left with the buffer of a measured thread   *)
(* that is gone (StopInv, LentInv).                                        *)
(***************************************************************************)
EXTENDS AbortedMeasurement, SequenceTheorems, TLAPS

\* The arithmetic of thread numbers: the workers that are created are workers,
\* workers are threads, and the steps of a script are steps.
LEMMA TeamFacts ==
  ASSUME setup \in Setups
  PROVE  /\ NumThreads \in Nat /\ NumThreads >= NUM_RESULTS /\ NumThreads >= 1
         /\ NUM_RESULTS \in Nat
         /\ NumThreads <= NUM_RESULTS + NUM_SHARED_CPUS
         /\ Team \subseteq Workers /\ Workers \subseteq Threads
         /\ 0 \in Threads /\ 0 \notin Workers
         /\ \A w \in Workers : w \in Nat /\ w # 0
         /\ \A i \in Team : i \in Nat /\ i >= 1 /\ i < NumThreads
         /\ \A i \in Nat : i >= 1 /\ i < NumThreads => i \in Team
         /\ \A i \in Nat : i < NumThreads => i \in Threads
         /\ LocalSteps \cup CallSteps \subseteq StepType
  <1>1. /\ NUM_RESULTS \in Nat /\ NUM_RESULTS >= 1
        /\ NUM_SHARED_CPUS \in Nat /\ NUM_SHARED_CPUS >= 1
    BY ConstantsAssumption
  <1>2. /\ NumThreads \in Nat /\ NumThreads >= NUM_RESULTS
        /\ NumThreads <= NUM_RESULTS + NUM_SHARED_CPUS
    BY <1>1 DEF NumThreads
  <1>3. Team \subseteq Workers /\ Workers \subseteq Threads
    BY <1>1, <1>2 DEF Team, Workers, Threads
  <1>4. 0 \in Threads /\ 0 \notin Workers /\ \A w \in Workers : w \in Nat /\ w # 0
    BY <1>1 DEF Workers, Threads
  <1>5. /\ \A i \in Team : i \in Nat /\ i >= 1 /\ i < NumThreads
        /\ \A i \in Nat : i >= 1 /\ i < NumThreads => i \in Team
        /\ \A i \in Nat : i < NumThreads => i \in Threads
    BY <1>1, <1>2 DEF Team, Threads
  <1>6. LocalSteps \cup CallSteps \subseteq StepType
    BY <1>3, <1>4 DEF LocalSteps, CallSteps, StepType, Whats, Flushes
  <1> QED BY <1>1, <1>2, <1>3, <1>4, <1>5, <1>6

\* A read leaves a line in one coherence state per CPU.
LEMMA ReadLineType ==
  ASSUME NEW l \in [Threads -> LineStates], NEW c \in Threads, NEW p
  PROVE  ReadLine(l, c, p) \in [Threads -> LineStates]
  BY DEF ReadLine, LineStates

\* So does use_memory() in each of its modes.
LEMMA UseMemoryType ==
  ASSUME NEW l \in [Threads -> LineStates], NEW c \in Threads, NEW m, NEW p
  PROVE  UseMemory(l, c, m, p) \in [Threads -> LineStates]
  <1>1. Nowhere(l) \in [Threads -> LineStates]
    BY DEF Nowhere, LineStates
  <1>2. ReadLine(Nowhere(l), c, p) \in [Threads -> LineStates]
    BY <1>1, ReadLineType
  <1>3. ReadLine(l, c, p) \in [Threads -> LineStates]
    BY ReadLineType
  <1>4. [Nowhere(l) EXCEPT ![c] = "M"] \in [Threads -> LineStates]
    BY <1>1 DEF LineStates
  <1> QED BY <1>1, <1>2, <1>3, <1>4 DEF UseMemory

\* A script only asks created workers, and the master, to do something.
LEMMA ScriptSteps ==
  ASSUME setup \in Setups, NEW tgt \in 0 .. NUM_RESULTS - 1
  PROVE  /\ Script(tgt) \in Seq(LocalSteps \cup CallSteps)
         /\ Flushing(tgt) \o Measure \in Seq(LocalSteps \cup CallSteps)
  <1> DEFINE S == LocalSteps \cup CallSteps
  <1>1. ASSUME NEW what \in {"USE_MEMORY"} \cup Flushes, NEW m1 \in Modes, NEW m2 \in Modes,
               UsesShareCpus
        PROVE  EachShareCpu(what, m1, m2) \in Seq(S)
    <2>1. NUM_SHARED_CPUS \in Nat /\ NUM_RESULTS \in Nat /\ NUM_RESULTS >= 1
      BY ConstantsAssumption
    <2>2. ASSUME NEW k \in 1 .. NUM_SHARED_CPUS
          PROVE  Step(FRST_SHARE_CPU + k - 1, what, IF k = 1 THEN m1 ELSE m2) \in S
      <3>1. FRST_SHARE_CPU + k - 1 \in Team
        BY <2>1, <1>1 DEF FRST_SHARE_CPU, Team, NumThreads
      <3> QED BY <3>1 DEF CallSteps, Step
    <2> QED BY <2>1, <2>2 DEF EachShareCpu
  <1>2. ASSUME NEW what \in {"USE_MEMORY", "FLUSH"}, NEW m \in Modes
        PROVE  <<Step(tgt, what, m)>> \in Seq(S)
    <2>1. Step(tgt, what, m) \in S
      <3>1. CASE tgt = 0
        BY <3>1 DEF LocalSteps, Step
      <3>2. CASE tgt # 0
        <4>1. tgt \in Team
          BY <3>2, TeamFacts, ConstantsAssumption
        <4> QED BY <4>1 DEF CallSteps, Step, Flushes
      <3> QED BY <3>1, <3>2
    <2> QED BY <2>1
  <1>3. ASSUME NEW m \in Modes, UsesShareCpus
        PROVE  <<Step(FRST_SHARE_CPU, "USE_MEMORY", m)>> \in Seq(S)
    <2>1. FRST_SHARE_CPU \in Team
      BY ConstantsAssumption, <1>3 DEF FRST_SHARE_CPU, Team, NumThreads
    <2>2. Step(FRST_SHARE_CPU, "USE_MEMORY", m) \in S
      BY <2>1 DEF CallSteps, Step
    <2> QED BY <2>2
  <1>4. ASSUME NEW a \in Seq(S), NEW b \in Seq(S)
        PROVE  a \o b \in Seq(S)
    BY ConcatProperties
  <1>5. <<>> \in Seq(S)
    OBVIOUS
  <1> DEFINE m == setup.USE_MODE
  <1>6. m \in UseModes /\ UseModes \subseteq Modes
    BY DEF Setups, Modes
  <1>7. SharersBefore(m) \in Seq(S)
    BY <1>1, <1>3, <1>5, <1>6
       DEF SharersBefore, UsesShareCpus, SharedModes, ReadModes, WriteModes, UseModes, Modes
  <1>8. SharersAfter(m) \in Seq(S)
    BY <1>1, <1>3, <1>5, <1>6
       DEF SharersAfter, UsesShareCpus, SharedModes, ReadModes, WriteModes, UseModes, Modes
  <1>9. TargetMode(m) \in Modes
    BY <1>6 DEF TargetMode, SharedModes, ReadModes, WriteModes, UseModes, Modes
  <1>10. <<Step(tgt, "USE_MEMORY", TargetMode(m))>> \in Seq(S)
    BY <1>2, <1>9
  <1>11. Placement(tgt, m) \in Seq(S)
    BY <1>4, <1>7, <1>8, <1>10 DEF Placement
  <1>12. (IF UsesShareCpus THEN EachShareCpu(ShareFlush, "none", "none") ELSE <<>>) \in Seq(S)
    BY <1>1, <1>5 DEF ShareFlush, Flushes, Modes
  <1>13. <<FlushStep(tgt, "FLUSH")>> \in Seq(S)
    BY <1>2 DEF FlushStep, Modes
  <1>14. (IF tgt # 0 /\ setup.OPT_FLUSH_CPU0 THEN <<FlushStep(0, "FLUSH")>> ELSE <<>>) \in Seq(S)
    <2>1. FlushStep(0, "FLUSH") \in S
      BY DEF FlushStep, Step, LocalSteps, Modes
    <2>2. <<FlushStep(0, "FLUSH")>> \in Seq(S)
      BY <2>1
    <2> QED BY <2>2, <1>5
  <1>15. Flushing(tgt) \in Seq(S)
    BY <1>4, <1>12, <1>13, <1>14 DEF Flushing
  <1>16. Measure \in Seq(S)
    <2>1. Step(0, "MEASURE", "none") \in S
      BY DEF Step, LocalSteps, Modes
    <2> QED BY <2>1 DEF Measure
  <1>17. Flushing(tgt) \o Measure \in Seq(S)
    BY <1>4, <1>15, <1>16
  <1>18. Script(tgt) \in Seq(S)
    BY <1>4, <1>11, <1>17 DEF Script
  <1> QED BY <1>17, <1>18

\* A flush leaves lines in coherence states.
LEMMA EvictType ==
  ASSUME line \in [Threads -> [Threads -> LineStates]], NEW c \in Threads, Evict(c)
  PROVE  line' \in [Threads -> [Threads -> LineStates]]
  <1>1. \A b \in Threads : [line[b] EXCEPT ![c] = "I"] \in [Threads -> LineStates]
    BY DEF LineStates
  <1> QED BY <1>1 DEF Evict

\* A worker's step keeps every variable in its type.
LEMMA TypeWorker ==
  ASSUME TypeOK, NEW w \in Workers, Worker(w), UNCHANGED setup
  PROVE  TypeOK'
  <1>0. w \in Threads /\ 0 \in Threads
    BY TeamFacts DEF TypeOK
  <1>1. NumThreads' = NumThreads
    BY DEF NumThreads, UsesShareCpus
  <1> USE <1>0, <1>1 DEF TypeOK, masterVars, shared, params, worker, loops, steps,
         Goto, SetAck, Flushes, Commands, WorkerPCs
  <1>2. CASE SeeInit(w) \/ AckInit(w) \/ AcceptUse(w) \/ AckUse(w)
    BY <1>2 DEF SeeInit, AckInit, AcceptUse, AckUse, Accept, Worker
  <1>3. CASE AcceptFlush(w) \/ AckFlush(w) \/ SeeWait(w) \/ AckWait(w) \/ Exit(w) \/ Spin(w)
    BY <1>3 DEF AcceptFlush, AckFlush, SeeWait, AckWait, Exit, Spin, Accept, Worker
  <1>4. CASE InitBuffer(w)
    <2>1. Nowhere(line[w]) \in [Threads -> LineStates]
      BY DEF Nowhere, LineStates
    <2> QED BY <1>4, <2>1 DEF InitBuffer, Worker
  <1>5. CASE CallUseMemory(w)
    BY <1>5 DEF CallUseMemory, Worker
  <1>6. CASE FinishUseMemory(w)
    <2>1. \A b \in Threads : UseMemory(line[b], w, arg[w].mode, setup.protocol)
                               \in [Threads -> LineStates]
      BY UseMemoryType
    <2>2. line' \in [Threads -> [Threads -> LineStates]]
      BY <1>6, <2>1 DEF FinishUseMemory
    <2>3. NoArg \in [buffer : Threads \cup {NoAddr}, mode : Modes]
      BY DEF NoArg, Modes
    <2> QED BY <1>6, <2>2, <2>3 DEF FinishUseMemory, Worker
  <1>7. CASE FinishFlush(w)
    BY <1>7, EvictType DEF FinishFlush, Worker
  <1> QED BY <1>2, <1>3, <1>4, <1>5, <1>6, <1>7 DEF Worker

\* A step of the master keeps every variable in its type; MasterInv bounds t.
LEMMA TypeMaster ==
  ASSUME TypeOK, MasterInv, Master, UNCHANGED setup
  PROVE  TypeOK'
  <1>0. TypeOK /\ setup \in Setups
    BY DEF TypeOK
  <1>1. NumThreads' = NumThreads
    BY DEF NumThreads, UsesShareCpus
  <1> USE <1>0, <1>1, TeamFacts DEF shared, params, worker, loops, steps,
         MasterAt, MasterGoto, SetComm, Commands, MasterPCs, MasterInv
  <1>2. CASE CreateWorker
    BY <1>2 DEF CreateWorker, Goto, TypeOK, WorkerPCs, Setups, Modes
  <1>3. CASE AwaitCreated \/ AwaitReleased \/ Join
    <2>1. t \in Team
      BY <1>3 DEF AwaitCreated, AwaitReleased, Join
    <2>2. t + 1 \in 0 .. NumThreads
      BY <2>1
    <2> QED BY <1>3, <2>2 DEF AwaitCreated, AwaitReleased, Join, TypeOK
  <1>4. CASE InitOwnBuffer
    <2>1. Nowhere(line[0]) \in [Threads -> LineStates]
      BY DEF Nowhere, LineStates, TypeOK
    <2>2. 1 \in 0 .. NumThreads
      OBVIOUS
    <2> QED BY <1>4, <2>1, <2>2 DEF InitOwnBuffer, TypeOK
  <1>5. CASE ClearBeforeRelease \/ ReleaseWorker \/ InitReturns
    BY <1>5 DEF ClearBeforeRelease, ReleaseWorker, InitReturns, TypeOK
  <1>6. CASE BeginEntry
    BY <1>6, ConstantsAssumption DEF BeginEntry, TypeOK
  <1>7. CASE BeginRun
    <2>1. Script(t) \in Seq(LocalSteps \cup CallSteps)
      BY <1>7, ScriptSteps DEF BeginRun, TypeOK
    <2>2. Script(t) \in Seq(StepType)
      BY <2>1
    <2>3. run + 1 \in 0 .. RUNS
      BY <1>7, ConstantsAssumption DEF BeginRun, TypeOK
    <2> QED BY <1>7, <2>2, <2>3 DEF BeginRun, TypeOK
  <1>8. CASE EndRun \/ NextTarget \/ EndEntry
    BY SMTT(30), <1>8, ConstantsAssumption DEF EndRun, NextTarget, EndEntry, TypeOK
  <1>9. CASE BeginLocal
    BY <1>9 DEF BeginLocal, TypeOK
  <1>10. CASE EndLocal
    <2>1. Idle \in StepType
      BY DEF Idle, Step, StepType, Whats, Modes
    <2>2. t \in Threads
      BY <1>10 DEF EndLocal
    <2>3. line' \in [Threads -> [Threads -> LineStates]]
      <3>1. UseMemory(line[0], 0, cur.mode, setup.protocol) \in [Threads -> LineStates]
        BY UseMemoryType DEF TypeOK
      <3>2. ReadLine(line[t], 0, setup.protocol) \in [Threads -> LineStates]
        BY <2>2, ReadLineType DEF TypeOK
      <3>3. Evict(0) => line' \in [Threads -> [Threads -> LineStates]]
        BY EvictType DEF TypeOK
      <3>4. cur.what \in {"USE_MEMORY", "FLUSH", "MEASURE"}
        BY <1>10 DEF EndLocal, LocalSteps
      <3> QED BY ZenonT(30), <1>10, <3>1, <3>2, <3>3, <3>4 DEF EndLocal, TypeOK
    <2> QED BY <1>10, <2>1, <2>3 DEF EndLocal, TypeOK
  <1>11. CASE PostUse
    <2>1. /\ Head(todo) \in StepType /\ Tail(todo) \in Seq(StepType)
          /\ Head(todo).who \in Workers /\ Head(todo).mode \in Modes
      BY <1>11 DEF PostUse, TypeOK, StepType, Workers
    <2>2. t \in Threads
      BY <1>11 DEF PostUse, TypeOK
    <2> QED BY <1>11, <2>1, <2>2 DEF PostUse, TypeOK
  <1>12. CASE PostFlush
    <2>1. /\ Head(todo) \in StepType /\ Tail(todo) \in Seq(StepType)
          /\ Head(todo).who \in Workers
      BY <1>12 DEF PostFlush, TypeOK, StepType, Workers
    <2> QED BY <1>12, <2>1 DEF PostFlush, TypeOK
  <1>13. CASE AwaitAccepted \/ ClearAccepted \/ Withdraw \/ AwaitWaiting
    BY <1>13 DEF AwaitAccepted, ClearAccepted, Withdraw, AwaitWaiting, TypeOK
  <1>14. CASE ClearWaiting \/ AwaitDone
    BY <1>14 DEF ClearWaiting, AwaitDone, TypeOK
  <1>17. CASE ClearDone
    <2>1. [aligned_addr EXCEPT ![cur.who] = tmp] \in [Threads -> Threads \cup {NoAddr}]
      BY DEF TypeOK
    <2> QED BY <1>17, <2>1 DEF ClearDone, TypeOK
  <1>15. CASE BeginCleanup
    <2>1. 1 \in 0 .. NumThreads
      OBVIOUS
    <2> QED BY <1>15, <2>1 DEF BeginCleanup, TypeOK
  <1>16. CASE ClearBeforeStop \/ PostStop \/ FreeAll
    BY <1>16 DEF ClearBeforeStop, PostStop, FreeAll, TypeOK
  <1> QED
    BY <1>2, <1>3, <1>4, <1>5, <1>6, <1>7, <1>8, <1>9, <1>10, <1>11, <1>12,
       <1>13, <1>14, <1>15, <1>16, <1>17 DEF Master

\* A worker that neither waits nor fills its buffer is the one the master deals with.
LEMMA PartnerOf ==
  ASSUME TypeOK, MasterInv, NEW w \in Team, WorkerInv(w),
         ~Quiet(w), ~Initialising(w), ~At(w, "none"), ~At(w, "gone")
  PROVE  \/ mpc = "created" /\ w = t /\ Booting(w)
         \/ mpc = "released" /\ w = t /\ Waking(w)
         \/ mpc = "join" /\ w = t /\ Stopping(w)
         \/ mpc \in CallPCs /\ w = cur.who /\ Engaged(w)
  BY DEF WorkerInv, Around, MasterPCs, CallPCs, TypeOK

\* A worker's step keeps what the invariant says of the worker itself.
LEMMA StepWorker ==
  ASSUME IInv, NEW w \in Team, Worker(w), UNCHANGED setup
  PROVE  WorkerInv(w)'
  <1>0. TypeOK /\ MasterInv /\ WorkerInv(w) /\ w \in Workers
    BY TeamFacts DEF IInv, TypeOK
  <1>1. t \in Nat /\ w \in Nat /\ w # 0
    BY <1>0, TeamFacts DEF TypeOK
  <1>2. UNCHANGED <<mpc, t, cur>>
    BY DEF Worker, masterVars, loops, steps
  <1> USE <1>0, <1>1, <1>2 DEF shared, params, worker, Goto, At, SetAck
  <1>3. CASE SeeInit(w)
    <2>1. mpc = "created" /\ w = t /\ Booting(w)
      BY <1>3, PartnerOf DEF SeeInit, Quiet, Initialising, Booting, Waking, Stopping, Engaged,
                             Busy, Shows, AckPC, WorkPCs, DoneMark, CallPCs
    <2>2. Booting(w)'
      BY <1>3, <2>1 DEF SeeInit, TypeOK, Booting, Initialising, Shows
    <2> QED BY <2>1, <2>2 DEF WorkerInv, Around, CallPCs
  <1>4. CASE AckInit(w)
    <2>1. mpc = "created" /\ w = t /\ Booting(w)
      BY <1>4, PartnerOf DEF AckInit, Quiet, Initialising, Booting, Waking, Stopping, Engaged,
                             Busy, Shows, AckPC, WorkPCs, DoneMark, CallPCs
    <2>2. Booting(w)'
      BY <1>4, <2>1 DEF AckInit, TypeOK, Booting, Initialising, Shows
    <2> QED BY <2>1, <2>2 DEF WorkerInv, Around, CallPCs
  <1>5. CASE InitBuffer(w)
    <2>1. \/ mpc = "created" /\ w = t /\ Booting(w)
          \/ mpc = "released" /\ w = t /\ Waking(w)
          \/ Initialising(w)
      BY <1>5, PartnerOf DEF InitBuffer, Quiet, Initialising, Booting, Waking, Stopping,
                             Engaged, Busy, Shows, AckPC, WorkPCs, DoneMark, CallPCs
    <2>2. CASE mpc = "created" /\ w = t /\ Booting(w)
      <3>1. Booting(w)'
        BY <1>5, <2>2 DEF InitBuffer, TypeOK, Booting, Initialising, Shows
      <3> QED BY <3>1, <2>2 DEF WorkerInv, Around, CallPCs
    <2>3. CASE mpc = "released" /\ w = t /\ Waking(w)
      <3>1. Waking(w)'
        BY <1>5, <2>3 DEF InitBuffer, TypeOK, Waking, Quiet, Initialising, Shows
      <3> QED BY <3>1, <2>3 DEF WorkerInv, Around, CallPCs
    <2>4. CASE Initialising(w)
      BY <1>5, <2>4 DEF InitBuffer, WorkerInv, Around, Initialising, Shows, Booting, Waking,
                        Quiet, Engaged, Stopping, Busy, AckPC, WorkPCs, DoneMark
    <2> QED BY <2>1, <2>2, <2>3, <2>4
  <1>6. CASE AcceptUse(w)
    <2>1. mpc \in CallPCs /\ w = cur.who /\ Engaged(w)
      BY <1>6, PartnerOf DEF AcceptUse, Quiet, Initialising, Booting, Waking, Stopping,
                             Engaged, Busy, Shows, AckPC, WorkPCs, DoneMark, CallPCs, Accept
    <2>2. Engaged(w)'
      BY <1>6, <2>1 DEF AcceptUse, TypeOK, MasterInv, CallSteps, CallPCs, Engaged, Busy,
                        Quiet, Shows, AckPC, WorkPCs, DoneMark, Accept
    <2> QED BY <2>1, <2>2 DEF WorkerInv, Around, CallPCs
  <1>7. CASE AckUse(w)
    <2>1. mpc \in CallPCs /\ w = cur.who /\ Engaged(w)
      BY <1>7, PartnerOf DEF AckUse, Quiet, Initialising, Booting, Waking, Stopping, Engaged,
                             Busy, Shows, AckPC, WorkPCs, DoneMark, CallPCs
    <2>2. Engaged(w)'
      BY <1>7, <2>1 DEF AckUse, TypeOK, MasterInv, CallSteps, CallPCs, Engaged, Busy, Quiet,
                        Shows, AckPC, WorkPCs, DoneMark
    <2> QED BY <2>1, <2>2 DEF WorkerInv, Around, CallPCs
  <1>8. CASE CallUseMemory(w)
    <2>1. mpc \in CallPCs /\ w = cur.who /\ Engaged(w)
      BY <1>8, PartnerOf DEF CallUseMemory, Quiet, Initialising, Booting, Waking, Stopping,
                             Engaged, Busy, Shows, AckPC, WorkPCs, DoneMark, CallPCs
    <2>2. Engaged(w)'
      BY <1>8, <2>1 DEF CallUseMemory, TypeOK, MasterInv, CallSteps, CallPCs, Engaged, Busy,
                        Quiet, Shows, AckPC, WorkPCs, DoneMark
    <2> QED BY <2>1, <2>2 DEF WorkerInv, Around, CallPCs
  <1>9. CASE FinishUseMemory(w)
    <2>1. mpc \in CallPCs /\ w = cur.who /\ Engaged(w)
      BY <1>9, PartnerOf DEF FinishUseMemory, Quiet, Initialising, Booting, Waking, Stopping,
                             Engaged, Busy, Shows, AckPC, WorkPCs, DoneMark, CallPCs
    <2>2. Engaged(w)'
      BY <1>9, <2>1 DEF FinishUseMemory, TypeOK, MasterInv, CallSteps, CallPCs, Engaged, Busy,
                        Quiet, Shows, AckPC, WorkPCs, DoneMark
    <2> QED BY <2>1, <2>2 DEF WorkerInv, Around, CallPCs
  <1>10. CASE AcceptFlush(w)
    <2>1. mpc \in CallPCs /\ w = cur.who /\ Engaged(w)
      BY <1>10, PartnerOf DEF AcceptFlush, Quiet, Initialising, Booting, Waking, Stopping,
                              Engaged, Busy, Shows, AckPC, WorkPCs, DoneMark, CallPCs, Accept,
                              Flushes
    <2>2. Engaged(w)'
      BY <1>10, <2>1 DEF AcceptFlush, TypeOK, MasterInv, CallSteps, CallPCs, Engaged, Busy,
                         Quiet, Shows, AckPC, WorkPCs, DoneMark, Accept, Flushes
    <2> QED BY <2>1, <2>2 DEF WorkerInv, Around, CallPCs
  <1>11. CASE AckFlush(w)
    <2>1. mpc \in CallPCs /\ w = cur.who /\ Engaged(w)
      BY <1>11, PartnerOf DEF AckFlush, Quiet, Initialising, Booting, Waking, Stopping,
                              Engaged, Busy, Shows, AckPC, WorkPCs, DoneMark, CallPCs
    <2>2. Engaged(w)'
      BY <1>11, <2>1 DEF AckFlush, TypeOK, MasterInv, CallSteps, CallPCs, Engaged, Busy,
                         Quiet, Shows, AckPC, WorkPCs, DoneMark
    <2> QED BY <2>1, <2>2 DEF WorkerInv, Around, CallPCs
  <1>12. CASE FinishFlush(w)
    <2>1. mpc \in CallPCs /\ w = cur.who /\ Engaged(w)
      BY <1>12, PartnerOf DEF FinishFlush, Quiet, Initialising, Booting, Waking, Stopping,
                              Engaged, Busy, Shows, AckPC, WorkPCs, DoneMark, CallPCs
    <2>2. Engaged(w)'
      BY <1>12, <2>1 DEF FinishFlush, TypeOK, MasterInv, CallSteps, CallPCs, Engaged, Busy,
                         Quiet, Shows, AckPC, WorkPCs, DoneMark
    <2> QED BY <2>1, <2>2 DEF WorkerInv, Around, CallPCs
  <1>13. CASE SeeWait(w)
    <2>1. \/ mpc = "released" /\ w = t /\ Waking(w)
          \/ mpc \in CallPCs /\ w = cur.who /\ Engaged(w)
      BY <1>13, PartnerOf DEF SeeWait, Quiet, Initialising, Booting, Waking, Stopping,
                              Engaged, Busy, Shows, AckPC, WorkPCs, DoneMark, CallPCs
    <2>2. CASE mpc = "released" /\ w = t /\ Waking(w)
      <3>1. Waking(w)'
        BY <1>13, <2>2 DEF SeeWait, TypeOK, Waking, Quiet, Initialising, Shows
      <3> QED BY <3>1, <2>2 DEF WorkerInv, Around, CallPCs
    <2>3. CASE mpc \in CallPCs /\ w = cur.who /\ Engaged(w)
      <3>1. Engaged(w)'
        BY <1>13, <2>3 DEF SeeWait, TypeOK, MasterInv, CallSteps, CallPCs, Engaged, Busy,
                           Quiet, Shows, AckPC, WorkPCs, DoneMark
      <3> QED BY <3>1, <2>3 DEF WorkerInv, Around, CallPCs
    <2> QED BY <2>1, <2>2, <2>3
  <1>14. CASE AckWait(w)
    <2>1. \/ mpc = "released" /\ w = t /\ Waking(w)
          \/ mpc \in CallPCs /\ w = cur.who /\ Engaged(w)
      BY <1>14, PartnerOf DEF AckWait, Quiet, Initialising, Booting, Waking, Stopping,
                              Engaged, Busy, Shows, AckPC, WorkPCs, DoneMark, CallPCs
    <2>2. CASE mpc = "released" /\ w = t /\ Waking(w)
      <3>1. Waking(w)'
        BY <1>14, <2>2 DEF AckWait, TypeOK, Waking, Quiet, Initialising, Shows
      <3> QED BY <3>1, <2>2 DEF WorkerInv, Around, CallPCs
    <2>3. CASE mpc \in CallPCs /\ w = cur.who /\ Engaged(w)
      <3>1. Engaged(w)'
        BY <1>14, <2>3 DEF AckWait, TypeOK, MasterInv, CallSteps, CallPCs, Engaged, Busy,
                           Quiet, Shows, AckPC, WorkPCs, DoneMark
      <3> QED BY <3>1, <2>3 DEF WorkerInv, Around, CallPCs
    <2> QED BY <2>1, <2>2, <2>3
  <1>15. CASE Exit(w)
    <2>1. mpc = "join" /\ w = t /\ Stopping(w)
      BY <1>15, PartnerOf DEF Exit, Quiet, Initialising, Booting, Waking, Stopping, Engaged,
                              Busy, Shows, AckPC, WorkPCs, DoneMark, CallPCs, Flushes,
                              MasterInv, CallSteps
    <2>2. Stopping(w)'
      BY <1>15, <2>1 DEF Exit, TypeOK, Stopping, Shows, Flushes
    <2> QED BY <2>1, <2>2 DEF WorkerInv, Around, CallPCs
  <1>16. CASE Spin(w)
    BY <1>16 DEF Spin, WorkerInv, Around, Booting, Waking, Stopping, Engaged,
       Busy, Quiet, Initialising, Shows, AckPC, WorkPCs, DoneMark
  <1> QED BY <1>3, <1>4, <1>5, <1>6, <1>7, <1>8, <1>9, <1>10, <1>11, <1>12, <1>13, <1>14,
             <1>15, <1>16 DEF Worker

\* A worker's step keeps what the invariant says of the other workers: it may
\* write ack or done only when the master deals with it and they are waiting.
LEMMA StepOthers ==
  ASSUME IInv, NEW w \in Team, Worker(w), UNCHANGED setup, NEW v \in Team, v # w
  PROVE  WorkerInv(v)'
  <1>0. /\ TypeOK /\ MasterInv /\ WorkerInv(w) /\ WorkerInv(v)
        /\ w \in Workers /\ v \in Workers
    BY TeamFacts DEF IInv, TypeOK
  <1>1. t \in Nat /\ w \in Nat /\ v \in Nat
    BY <1>0, TeamFacts DEF TypeOK
  <1>2. UNCHANGED <<mpc, t, cur>>
    BY DEF Worker, masterVars, loops, steps
  <1> USE <1>0, <1>1, <1>2 DEF shared, params, worker, Goto, At, SetAck
  <1>3. UNCHANGED <<thread_comm[v], old[v], wpc[v]>>
    BY DEF Worker, SeeInit, AckInit, InitBuffer, AcceptUse, AckUse, CallUseMemory,
           FinishUseMemory, AcceptFlush, AckFlush, FinishFlush, SeeWait, AckWait,
           Exit, Spin, Accept, TypeOK
  <1>4. CASE UNCHANGED <<ack, done>>
    BY <1>3, <1>4 DEF WorkerInv, Around, Booting, Waking, Stopping, Engaged, Busy,
           Quiet, Initialising, Shows, AckPC, WorkPCs, DoneMark
  <1>5. CASE ~UNCHANGED <<ack, done>>
    <2>1. wpc[w] \in {"bootAck", "useAck", "using", "flushAck", "waitAck"}
      BY <1>5 DEF Worker, SeeInit, AckInit, InitBuffer, AcceptUse, AckUse,
           CallUseMemory, FinishUseMemory, AcceptFlush, AckFlush, FinishFlush,
           SeeWait, AckWait, Exit, Spin, Accept
    <2>2. \/ mpc \in {"created", "released"} /\ w = t
          \/ mpc \in CallPCs /\ w = cur.who
      BY <2>1, PartnerOf DEF Quiet, Initialising, Stopping
    <2> QED BY <1>3, <2>2 DEF WorkerInv, Around, Quiet, Initialising, Shows, CallPCs
  <1> QED BY <1>4, <1>5

\* A worker's step keeps what the invariant says of the master: it writes ack
\* and done only while the master is in an exchange.
LEMMA StepMasterInv ==
  ASSUME IInv, NEW w \in Team, Worker(w), UNCHANGED setup
  PROVE  MasterInv'
  <1>0. TypeOK /\ MasterInv /\ WorkerInv(w) /\ w \in Workers
    BY TeamFacts DEF IInv, TypeOK
  <1>1. NumThreads' = NumThreads /\ Team' = Team /\ CallSteps' = CallSteps
    BY DEF NumThreads, UsesShareCpus, Team, CallSteps
  <1>2. UNCHANGED <<mpc, t, todo, cur>>
    BY DEF Worker, masterVars, loops, steps
  <1> USE <1>0, <1>1, <1>2 DEF shared, params, worker, Goto, At, SetAck
  <1>3. CASE UNCHANGED <<ack, done>>
    BY <1>3 DEF MasterInv
  <1>4. CASE ~UNCHANGED <<ack, done>>
    <2>1. wpc[w] \in {"bootAck", "useAck", "using", "flushAck", "waitAck"}
      BY <1>4 DEF Worker, SeeInit, AckInit, InitBuffer, AcceptUse, AckUse,
           CallUseMemory, FinishUseMemory, AcceptFlush, AckFlush, FinishFlush,
           SeeWait, AckWait, Exit, Spin, Accept
    <2>2. mpc \in {"created", "released"} \cup CallPCs
      BY <2>1, PartnerOf DEF Quiet, Initialising, Stopping
    <2>3. wpc[w] = "using" => mpc \in CallPCs
      BY PartnerOf DEF Quiet, Initialising, Booting, Waking, Stopping
    <2>4. wpc[w] # "using" => UNCHANGED done
      BY DEF Worker, SeeInit, AckInit, InitBuffer, AcceptUse, AckUse,
           CallUseMemory, FinishUseMemory, AcceptFlush, AckFlush, FinishFlush,
           SeeWait, AckWait, Exit, Spin, Accept
    <2> QED BY <2>2, <2>3, <2>4 DEF MasterInv, CallPCs
  <1> QED BY <1>3, <1>4

\* A worker changes no address but its own, which it publishes when its buffer
\* is filled.
LEMMA StepAddrInv ==
  ASSUME IInv, NEW w \in Team, Worker(w), UNCHANGED setup
  PROVE  AddrInv'
  <1>0. /\ TypeOK /\ MasterInv /\ WorkerInv(w) /\ AddrInv
        /\ w \in Workers /\ w \in Threads /\ w # 0 /\ 0 \in Threads
        /\ Team \subseteq Workers /\ Workers \subseteq Threads
    BY TeamFacts DEF IInv, TypeOK
  <1>1. NumThreads' = NumThreads /\ Team' = Team
    BY DEF NumThreads, UsesShareCpus, Team
  <1>2. UNCHANGED <<mpc, t, cur, tmp>>
    BY DEF Worker, masterVars, loops, steps
  <1>3. \A v \in Team : Lent(v)' = Lent(v)
    BY <1>2 DEF Lent, IsShareCpu
  <1> USE <1>0, <1>1, <1>2, <1>3 DEF shared, params, worker, Goto, At, SetAck
  <1>4. CASE InitBuffer(w)
    <2>1. ~Lent(w)
      <3>1. mpc \notin CallPCs \/ w # cur.who
        BY <1>4 DEF InitBuffer, WorkerInv, Engaged, Busy, Quiet, WorkPCs, AckPC, CallPCs
      <3> QED BY <3>1 DEF Lent
    <2> QED BY <1>4, <2>1 DEF InitBuffer, AddrInv, TypeOK
  <1>5. CASE ~InitBuffer(w)
    <2>1. UNCHANGED aligned_addr
      BY <1>5 DEF Worker, SeeInit, AckInit, AcceptUse, AckUse, CallUseMemory,
           FinishUseMemory, AcceptFlush, AckFlush, FinishFlush, SeeWait, AckWait,
           Exit, Spin, Accept
    <2>2. \A v \in Team : wpc[v] \in {"none", "boot", "bootAck", "init"} =>
                            wpc'[v] \in {"none", "boot", "bootAck", "init"}
      BY <1>5 DEF Worker, SeeInit, AckInit, AcceptUse, AckUse, CallUseMemory,
           FinishUseMemory, AcceptFlush, AckFlush, FinishFlush, SeeWait, AckWait,
           Exit, Spin, Accept, TypeOK
    <2> QED BY <2>1, <2>2 DEF AddrInv
  <1> QED BY <1>4, <1>5

\* Every step of a worker preserves the invariant.
LEMMA WorkerPreserves ==
  ASSUME IInv, NEW w \in Workers, Worker(w), UNCHANGED setup
  PROVE  IInv'
  <1>1. w \in Team
    BY DEF IInv, Worker, SeeInit, AckInit, InitBuffer, AcceptUse, AckUse,
           CallUseMemory, FinishUseMemory, AcceptFlush, AckFlush, FinishFlush,
           SeeWait, AckWait, Exit, Spin, Accept, At
  <1>2. TypeOK'
    BY TypeWorker DEF IInv
  <1>3. MasterInv' /\ AddrInv'
    BY <1>1, StepMasterInv, StepAddrInv
  <1>4. Team' = Team
    BY DEF NumThreads, UsesShareCpus, Team
  <1>5. ASSUME NEW v \in Team PROVE WorkerInv(v)'
    BY <1>1, StepWorker, StepOthers
  <1>6. ASSUME NEW v \in Workers \ Team PROVE At(v, "none")'
    <2>1. At(v, "none") /\ v # w
      BY <1>1 DEF IInv
    <2> QED
      BY <2>1 DEF IInv, TypeOK, At, Goto, Worker, SeeInit, AckInit, InitBuffer,
           AcceptUse, AckUse, CallUseMemory, FinishUseMemory, AcceptFlush, AckFlush,
           FinishFlush, SeeWait, AckWait, Exit, Spin, Accept, worker
  <1> QED BY <1>2, <1>3, <1>4, <1>5, <1>6 DEF IInv


\* A step of the master keeps what the invariant says of the master.
LEMMA MasterKeepsMasterInv ==
  ASSUME IInv, Master, UNCHANGED setup
  PROVE  MasterInv'
  <1>0. TypeOK /\ MasterInv /\ setup \in Setups /\ t \in Nat
    BY TeamFacts DEF IInv, TypeOK
  <1>1. NumThreads' = NumThreads /\ Team' = Team /\ CallSteps' = CallSteps
    BY DEF NumThreads, UsesShareCpus, Team, CallSteps
  <1> USE <1>0, <1>1, TeamFacts DEF shared, params, worker, loops, steps, MasterAt,
                                    MasterGoto, SetComm
  <1>2. CASE CreateWorker
    BY <1>2, SMTT(30) DEF CreateWorker, MasterInv, CallPCs, TypeOK
  <1>3. CASE AwaitCreated
    BY <1>3, SMTT(30) DEF AwaitCreated, MasterInv, CallPCs, TypeOK
  <1>4. CASE InitOwnBuffer
    BY <1>4, SMTT(30) DEF InitOwnBuffer, MasterInv, CallPCs, TypeOK
  <1>5. CASE ClearBeforeRelease
    BY <1>5, SMTT(30) DEF ClearBeforeRelease, MasterInv, CallPCs, TypeOK
  <1>6. CASE ReleaseWorker
    BY <1>6, SMTT(30) DEF ReleaseWorker, MasterInv, CallPCs, TypeOK
  <1>7. CASE AwaitReleased
    BY <1>7, SMTT(30) DEF AwaitReleased, MasterInv, CallPCs, TypeOK
  <1>8. CASE InitReturns
    BY <1>8, SMTT(30) DEF InitReturns, MasterInv, CallPCs, TypeOK
  <1>9. CASE BeginEntry
    BY <1>9, SMTT(30) DEF BeginEntry, MasterInv, CallPCs, TypeOK
  <1>10. CASE BeginRun
    <2>1. Script(t) \in Seq(LocalSteps \cup CallSteps)
      BY <1>10, ScriptSteps DEF BeginRun
    <2> QED BY <1>10, <2>1 DEF BeginRun, MasterInv, CallPCs
  <1>11. CASE EndRun
    BY <1>11, SMTT(30) DEF EndRun, MasterInv, CallPCs, TypeOK
  <1>12. CASE NextTarget
    BY <1>12, SMTT(30) DEF NextTarget, MasterInv, CallPCs, TypeOK
  <1>13. CASE EndEntry
    BY <1>13, SMTT(30) DEF EndEntry, MasterInv, CallPCs, TypeOK
  <1>14. CASE BeginLocal
    <2>1. Head(todo) \in LocalSteps /\ Tail(todo) \in Seq(LocalSteps \cup CallSteps)
      BY <1>14 DEF BeginLocal, MasterInv, CallSteps
    <2> QED BY <1>14, <2>1 DEF BeginLocal, MasterInv, CallPCs
  <1>15. CASE EndLocal
    BY <1>15, SMTT(30) DEF EndLocal, MasterInv, CallPCs, TypeOK
  <1>16. CASE PostUse
    <2>1. Head(todo) \in CallSteps /\ Tail(todo) \in Seq(LocalSteps \cup CallSteps)
      BY <1>16 DEF PostUse, MasterInv, LocalSteps
    <2> QED BY <1>16, <2>1 DEF PostUse, MasterInv, CallPCs
  <1>17. CASE PostFlush
    <2>1. Head(todo) \in CallSteps /\ Tail(todo) \in Seq(LocalSteps \cup CallSteps)
      BY <1>17 DEF PostFlush, MasterInv, LocalSteps
    <2> QED BY <1>17, <2>1 DEF PostFlush, MasterInv, CallPCs
  <1>18. CASE AwaitAccepted
    BY <1>18, SMTT(30) DEF AwaitAccepted, MasterInv, CallPCs, TypeOK
  <1>19. CASE ClearAccepted
    BY <1>19, SMTT(30) DEF ClearAccepted, MasterInv, CallPCs, TypeOK
  <1>20. CASE Withdraw
    BY <1>20, SMTT(30) DEF Withdraw, MasterInv, CallPCs, TypeOK
  <1>21. CASE AwaitWaiting
    BY <1>21, SMTT(30) DEF AwaitWaiting, MasterInv, CallPCs, TypeOK
  <1>22. CASE ClearWaiting
    <2>1. cur \in CallSteps /\ Engaged(cur.who)
      BY <1>22 DEF ClearWaiting, MasterInv, IInv, WorkerInv, CallSteps, CallPCs
    <2> QED BY <1>22, <2>1 DEF ClearWaiting, MasterInv, CallPCs, Engaged, DoneMark
  <1>23. CASE AwaitDone
    BY <1>23, SMTT(30) DEF AwaitDone, MasterInv, CallPCs, TypeOK
  <1>24. CASE ClearDone
    <2>1. cur \in CallSteps /\ Engaged(cur.who)
      BY <1>24 DEF ClearDone, MasterInv, IInv, WorkerInv, CallSteps, CallPCs
    <2> QED BY <1>24, <2>1 DEF ClearDone, MasterInv, CallPCs, Engaged, DoneMark
  <1>25. CASE BeginCleanup
    BY <1>25, SMTT(30) DEF BeginCleanup, MasterInv, CallPCs, TypeOK
  <1>26. CASE ClearBeforeStop
    BY <1>26, SMTT(30) DEF ClearBeforeStop, MasterInv, CallPCs, TypeOK
  <1>27. CASE PostStop
    BY <1>27, SMTT(30) DEF PostStop, MasterInv, CallPCs, TypeOK
  <1>28. CASE Join
    BY <1>28, SMTT(30) DEF Join, MasterInv, CallPCs, TypeOK
  <1>29. CASE FreeAll
    BY <1>29, SMTT(30) DEF FreeAll, MasterInv, CallPCs, TypeOK
  <1> QED BY <1>2, <1>3, <1>4, <1>5, <1>6, <1>7, <1>8, <1>9, <1>10, <1>11, <1>12, <1>13,
             <1>14, <1>15, <1>16, <1>17, <1>18, <1>19, <1>20, <1>21, <1>22, <1>23, <1>24,
                   <1>25, <1>26, <1>27, <1>28, <1>29 DEF Master

\* A step of the master keeps what the invariant says of every worker.
LEMMA MasterKeepsWorkerInv ==
  ASSUME IInv, Master, UNCHANGED setup, NEW v \in Team
  PROVE  WorkerInv(v)'
  <1>0. TypeOK /\ MasterInv /\ WorkerInv(v) /\ v \in Workers /\ setup \in Setups
    BY TeamFacts DEF IInv, TypeOK
  <1>1. t \in Nat /\ v \in Nat /\ v >= 1 /\ v < NumThreads /\ NumThreads \in Nat /\ NUM_RESULTS <= NumThreads
    BY <1>0, TeamFacts DEF TypeOK
  <1> USE <1>0, <1>1 DEF shared, params, worker, loops, steps, MasterAt, MasterGoto, SetComm, At
  <1>2. CASE CreateWorker
    BY <1>2, SMTT(30) DEF CreateWorker, Goto, MasterInv, TypeOK, WorkerInv, Around, Quiet,
                          Initialising, Booting, Waking, Stopping, Engaged, Busy, Shows,
                          AckPC, WorkPCs, DoneMark, CallPCs
  <1>3. CASE AwaitCreated
    BY <1>3, SMTT(30) DEF AwaitCreated, MasterInv, TypeOK, WorkerInv, Around, Quiet,
                          Initialising, Booting, Waking, Stopping, Engaged, Busy, Shows,
                          AckPC, WorkPCs, DoneMark, CallPCs
  <1>4. CASE InitOwnBuffer
    BY <1>4, SMTT(30) DEF InitOwnBuffer, MasterInv, TypeOK, WorkerInv, Around, Quiet,
                          Initialising, Booting, Waking, Stopping, Engaged, Busy, Shows,
                          AckPC, WorkPCs, DoneMark, CallPCs
  <1>5. CASE ClearBeforeRelease
    BY <1>5, SMTT(30) DEF ClearBeforeRelease, MasterInv, TypeOK, WorkerInv, Around, Quiet,
                          Initialising, Booting, Waking, Stopping, Engaged, Busy, Shows,
                          AckPC, WorkPCs, DoneMark, CallPCs
  <1>6. CASE ReleaseWorker
    BY <1>6, SMTT(30) DEF ReleaseWorker, MasterInv, TypeOK, WorkerInv, Around, Quiet,
                          Initialising, Booting, Waking, Stopping, Engaged, Busy, Shows,
                          AckPC, WorkPCs, DoneMark, CallPCs
  <1>7. CASE AwaitReleased
    BY <1>7, SMTT(30) DEF AwaitReleased, MasterInv, TypeOK, WorkerInv, Around, Quiet,
                          Initialising, Booting, Waking, Stopping, Engaged, Busy, Shows,
                          AckPC, WorkPCs, DoneMark, CallPCs
  <1>8. CASE InitReturns
    BY <1>8, SMTT(30) DEF InitReturns, MasterInv, TypeOK, WorkerInv, Around, Quiet,
                          Initialising, Booting, Waking, Stopping, Engaged, Busy, Shows,
                          AckPC, WorkPCs, DoneMark, CallPCs
  <1>9. CASE BeginEntry
    BY <1>9, SMTT(30) DEF BeginEntry, MasterInv, TypeOK, WorkerInv, Around, Quiet,
                          Initialising, Booting, Waking, Stopping, Engaged, Busy, Shows,
                          AckPC, WorkPCs, DoneMark, CallPCs
  <1>10. CASE BeginRun
    BY <1>10, SMTT(30) DEF BeginRun, MasterInv, TypeOK, WorkerInv, Around, Quiet,
                           Initialising, Booting, Waking, Stopping, Engaged, Busy, Shows,
                           AckPC, WorkPCs, DoneMark, CallPCs
  <1>11. CASE EndRun
    BY <1>11, SMTT(30) DEF EndRun, MasterInv, TypeOK, WorkerInv, Around, Quiet, Initialising,
                           Booting, Waking, Stopping, Engaged, Busy, Shows, AckPC, WorkPCs,
                           DoneMark, CallPCs
  <1>12. CASE NextTarget
    BY <1>12, SMTT(30) DEF NextTarget, MasterInv, TypeOK, WorkerInv, Around, Quiet,
                           Initialising, Booting, Waking, Stopping, Engaged, Busy, Shows,
                           AckPC, WorkPCs, DoneMark, CallPCs
  <1>13. CASE EndEntry
    BY <1>13, SMTT(30) DEF EndEntry, MasterInv, TypeOK, WorkerInv, Around, Quiet,
                           Initialising, Booting, Waking, Stopping, Engaged, Busy, Shows,
                           AckPC, WorkPCs, DoneMark, CallPCs
  <1>14. CASE BeginLocal
    BY <1>14, SMTT(30) DEF BeginLocal, MasterInv, TypeOK, WorkerInv, Around, Quiet,
                           Initialising, Booting, Waking, Stopping, Engaged, Busy, Shows,
                           AckPC, WorkPCs, DoneMark, CallPCs
  <1>15. CASE EndLocal
    BY <1>15, SMTT(30) DEF EndLocal, MasterInv, TypeOK, WorkerInv, Around, Quiet,
                           Initialising, Booting, Waking, Stopping, Engaged, Busy, Shows,
                           AckPC, WorkPCs, DoneMark, CallPCs
  <1>16. CASE PostUse
    BY <1>16, SMTT(30) DEF PostUse, MasterInv, TypeOK, WorkerInv, Around, Quiet, Initialising,
                           Booting, Waking, Stopping, Engaged, Busy, Shows, AckPC, WorkPCs,
                           DoneMark, CallPCs
  <1>17. CASE PostFlush
    BY <1>17, SMTT(30) DEF PostFlush, MasterInv, TypeOK, WorkerInv, Around, Quiet,
                           Initialising, Booting, Waking, Stopping, Engaged, Busy, Shows,
                           AckPC, WorkPCs, DoneMark, CallPCs
  <1>18. CASE AwaitAccepted
    BY <1>18, SMTT(30) DEF AwaitAccepted, MasterInv, TypeOK, WorkerInv, Around, Quiet,
                           Initialising, Booting, Waking, Stopping, Engaged, Busy, Shows,
                           AckPC, WorkPCs, DoneMark, CallPCs
  <1>19. CASE ClearAccepted
    BY <1>19, SMTT(30) DEF ClearAccepted, MasterInv, TypeOK, WorkerInv, Around, Quiet,
                           Initialising, Booting, Waking, Stopping, Engaged, Busy, Shows,
                           AckPC, WorkPCs, DoneMark, CallPCs
  <1>20. CASE Withdraw
    BY <1>20, SMTT(30) DEF Withdraw, MasterInv, TypeOK, WorkerInv, Around, Quiet,
                           Initialising, Booting, Waking, Stopping, Engaged, Busy, Shows,
                           AckPC, WorkPCs, DoneMark, CallPCs
  <1>21. CASE AwaitWaiting
    BY <1>21, SMTT(30) DEF AwaitWaiting, MasterInv, TypeOK, WorkerInv, Around, Quiet,
                           Initialising, Booting, Waking, Stopping, Engaged, Busy, Shows,
                           AckPC, WorkPCs, DoneMark, CallPCs
  <1>22. CASE ClearWaiting
    BY <1>22, SMTT(30) DEF ClearWaiting, MasterInv, TypeOK, WorkerInv, Around, Quiet,
                           Initialising, Booting, Waking, Stopping, Engaged, Busy, Shows,
                           AckPC, WorkPCs, DoneMark, CallPCs
  <1>23. CASE AwaitDone
    BY <1>23, SMTT(30) DEF AwaitDone, MasterInv, TypeOK, WorkerInv, Around, Quiet,
                           Initialising, Booting, Waking, Stopping, Engaged, Busy, Shows,
                           AckPC, WorkPCs, DoneMark, CallPCs
  <1>24. CASE ClearDone
    BY <1>24, SMTT(30) DEF ClearDone, MasterInv, TypeOK, WorkerInv, Around, Quiet,
                           Initialising, Booting, Waking, Stopping, Engaged, Busy, Shows,
                           AckPC, WorkPCs, DoneMark, CallPCs
  <1>25. CASE BeginCleanup
    BY <1>25, SMTT(30) DEF BeginCleanup, MasterInv, TypeOK, WorkerInv, Around, Quiet,
                           Initialising, Booting, Waking, Stopping, Engaged, Busy, Shows,
                           AckPC, WorkPCs, DoneMark, CallPCs
  <1>26. CASE ClearBeforeStop
    BY <1>26, SMTT(30) DEF ClearBeforeStop, MasterInv, TypeOK, WorkerInv, Around, Quiet,
                           Initialising, Booting, Waking, Stopping, Engaged, Busy, Shows,
                           AckPC, WorkPCs, DoneMark, CallPCs
  <1>27. CASE PostStop
    BY <1>27, SMTT(30) DEF PostStop, MasterInv, TypeOK, WorkerInv, Around, Quiet,
                           Initialising, Booting, Waking, Stopping, Engaged, Busy, Shows,
                           AckPC, WorkPCs, DoneMark, CallPCs
  <1>28. CASE Join
    BY <1>28, SMTT(30) DEF Join, MasterInv, TypeOK, WorkerInv, Around, Quiet, Initialising,
                           Booting, Waking, Stopping, Engaged, Busy, Shows, AckPC, WorkPCs,
                           DoneMark, CallPCs
  <1>29. CASE FreeAll
    BY <1>29, SMTT(30) DEF FreeAll, MasterInv, TypeOK, WorkerInv, Around, Quiet, Initialising,
                           Booting, Waking, Stopping, Engaged, Busy, Shows, AckPC, WorkPCs,
                           DoneMark, CallPCs
  <1> QED BY <1>2, <1>3, <1>4, <1>5, <1>6, <1>7, <1>8, <1>9, <1>10, <1>11, <1>12, <1>13,
             <1>14, <1>15, <1>16, <1>17, <1>18, <1>19, <1>20, <1>21, <1>22, <1>23, <1>24,
                   <1>25, <1>26, <1>27, <1>28, <1>29 DEF Master

\* A step of the master keeps what the invariant says of the addresses.
LEMMA MasterKeepsAddrInv ==
  ASSUME IInv, Master, UNCHANGED setup
  PROVE  AddrInv'
  <1>0. TypeOK /\ MasterInv /\ AddrInv /\ setup \in Setups
    BY TeamFacts DEF IInv, TypeOK
  <1>1. NumThreads' = NumThreads /\ Team' = Team
    BY DEF NumThreads, UsesShareCpus, Team
  <1> USE <1>0, <1>1, TeamFacts DEF shared, params, worker, loops, steps, MasterAt,
                                    MasterGoto, SetComm, At
  <1>2. CASE CreateWorker
    BY <1>2, SMTT(30) DEF CreateWorker, Goto, AddrInv, Lent, CallPCs, TypeOK, MasterInv
  <1>3. CASE AwaitCreated
    BY <1>3, SMTT(30) DEF AwaitCreated, AddrInv, Lent, CallPCs, TypeOK, MasterInv
  <1>4. CASE InitOwnBuffer
    BY <1>4, SMTT(30) DEF InitOwnBuffer, AddrInv, Lent, CallPCs, TypeOK, MasterInv
  <1>5. CASE ClearBeforeRelease
    BY <1>5, SMTT(30) DEF ClearBeforeRelease, AddrInv, Lent, CallPCs, TypeOK, MasterInv
  <1>6. CASE ReleaseWorker
    BY <1>6, SMTT(30) DEF ReleaseWorker, AddrInv, Lent, CallPCs, TypeOK, MasterInv
  <1>7. CASE AwaitReleased
    BY <1>7, SMTT(30) DEF AwaitReleased, AddrInv, Lent, CallPCs, TypeOK, MasterInv
  <1>8. CASE InitReturns
    BY <1>8, SMTT(30) DEF InitReturns, AddrInv, Lent, CallPCs, TypeOK, MasterInv
  <1>9. CASE BeginEntry
    BY <1>9, SMTT(30) DEF BeginEntry, AddrInv, Lent, CallPCs, TypeOK, MasterInv
  <1>10. CASE BeginRun
    BY <1>10, SMTT(30) DEF BeginRun, AddrInv, Lent, CallPCs, TypeOK, MasterInv
  <1>11. CASE EndRun
    BY <1>11, SMTT(30) DEF EndRun, AddrInv, Lent, CallPCs, TypeOK, MasterInv
  <1>12. CASE NextTarget
    BY <1>12, SMTT(30) DEF NextTarget, AddrInv, Lent, CallPCs, TypeOK, MasterInv
  <1>13. CASE EndEntry
    BY <1>13, SMTT(30) DEF EndEntry, AddrInv, Lent, CallPCs, TypeOK, MasterInv
  <1>14. CASE BeginLocal
    BY <1>14, SMTT(30) DEF BeginLocal, AddrInv, Lent, CallPCs, TypeOK, MasterInv
  <1>15. CASE EndLocal
    BY <1>15, SMTT(30) DEF EndLocal, AddrInv, Lent, CallPCs, TypeOK, MasterInv
  <1>16. CASE PostUse
    <2> DEFINE s == Head(todo)
    <2>1. s \in CallSteps
      BY <1>16 DEF PostUse, MasterInv, LocalSteps
    <2>2. aligned_addr[s.who] = s.who
      <3>1. WorkerInv(s.who)
        BY <2>1 DEF IInv, CallSteps
      <3> QED BY <1>16, <2>1, <3>1 DEF PostUse, WorkerInv, Quiet, At, AddrInv, Lent, CallPCs,
                                       CallSteps
    <2>3. \A v \in Team : v # s.who => aligned_addr'[v] = aligned_addr[v]
      BY <1>16, <2>1 DEF PostUse, TypeOK, CallSteps
    <2>4. aligned_addr'[0] = 0
      BY <1>16, <2>1 DEF PostUse, TypeOK, AddrInv, CallSteps, Workers
    <2>5. aligned_addr'[s.who] = IF IsShareCpu(s.who) THEN t ELSE s.who
      <3>1. t \in Threads /\ t < NUM_RESULTS
        BY <1>16 DEF PostUse, MasterInv
      <3>2. aligned_addr[t] = t
        <4>1. CASE t = 0
          BY <4>1 DEF AddrInv
        <4>2. CASE t # 0
          <5>1. t \in Team
            BY <3>1, <4>2 DEF TypeOK
          <5>2. WorkerInv(t)
            BY <5>1 DEF IInv
          <5> QED BY <1>16, <5>1, <5>2 DEF PostUse, WorkerInv, Quiet, AddrInv, Lent, CallPCs
        <4> QED BY <4>1, <4>2
      <3> QED BY <1>16, <2>1, <2>2, <3>1, <3>2 DEF PostUse, TypeOK, CallSteps
    <2> QED BY <1>16, <2>1, <2>2, <2>3, <2>4, <2>5 DEF PostUse, AddrInv, Lent, CallPCs
  <1>17. CASE PostFlush
    BY <1>17, SMTT(30) DEF PostFlush, Flushes, AddrInv, Lent, CallPCs, TypeOK, MasterInv
  <1>18. CASE AwaitAccepted
    BY <1>18, SMTT(30) DEF AwaitAccepted, AddrInv, Lent, CallPCs, TypeOK, MasterInv
  <1>19. CASE ClearAccepted
    BY <1>19, SMTT(30) DEF ClearAccepted, AddrInv, Lent, CallPCs, TypeOK, MasterInv
  <1>20. CASE Withdraw
    BY <1>20, SMTT(30) DEF Withdraw, AddrInv, Lent, CallPCs, TypeOK, MasterInv
  <1>21. CASE AwaitWaiting
    BY <1>21, SMTT(30) DEF AwaitWaiting, AddrInv, Lent, CallPCs, TypeOK, MasterInv
  <1>22. CASE ClearWaiting
    BY <1>22, SMTT(30) DEF ClearWaiting, AddrInv, Lent, CallPCs, TypeOK, MasterInv
  <1>23. CASE AwaitDone
    BY <1>23, SMTT(30) DEF AwaitDone, AddrInv, Lent, CallPCs, TypeOK, MasterInv
  <1>24. CASE ClearDone
    <2>1. cur \in CallSteps /\ Engaged(cur.who) /\ tmp = cur.who
      BY <1>24 DEF ClearDone, MasterInv, IInv, WorkerInv, CallSteps, CallPCs, AddrInv, Engaged
    <2>2. aligned_addr'[0] = 0
      BY <1>24, <2>1 DEF ClearDone, TypeOK, AddrInv, CallSteps
    <2>3. \A v \in Team : v # cur.who => aligned_addr'[v] = aligned_addr[v]
      BY <1>24, <2>1 DEF ClearDone, TypeOK, CallSteps
    <2>4. aligned_addr'[cur.who] = IF IsShareCpu(cur.who) THEN cur.who ELSE aligned_addr[cur.who]
      BY <1>24, <2>1 DEF ClearDone, TypeOK, CallSteps
    <2> QED BY <1>24, <2>1, <2>2, <2>3, <2>4 DEF ClearDone, AddrInv, Lent, CallPCs, Engaged,
                                                 Quiet
  <1>25. CASE BeginCleanup
    BY <1>25, SMTT(30) DEF BeginCleanup, AddrInv, Lent, CallPCs, TypeOK, MasterInv
  <1>26. CASE ClearBeforeStop
    BY <1>26, SMTT(30) DEF ClearBeforeStop, AddrInv, Lent, CallPCs, TypeOK, MasterInv
  <1>27. CASE PostStop
    BY <1>27, SMTT(30) DEF PostStop, AddrInv, Lent, CallPCs, TypeOK, MasterInv
  <1>28. CASE Join
    BY <1>28, SMTT(30) DEF Join, AddrInv, Lent, CallPCs, TypeOK, MasterInv
  <1>29. CASE FreeAll
    BY <1>29, SMTT(30) DEF FreeAll, AddrInv, Lent, CallPCs, TypeOK, MasterInv
  <1> QED BY <1>2, <1>3, <1>4, <1>5, <1>6, <1>7, <1>8, <1>9, <1>10, <1>11, <1>12, <1>13,
             <1>14, <1>15, <1>16, <1>17, <1>18, <1>19, <1>20, <1>21, <1>22, <1>23, <1>24,
                   <1>25, <1>26, <1>27, <1>28, <1>29 DEF Master

\* Every step of the master preserves the invariant.
LEMMA MasterPreserves ==
  ASSUME IInv, Master, UNCHANGED setup
  PROVE  IInv'
  <1>1. TypeOK'
    BY TypeMaster DEF IInv
  <1>2. MasterInv' /\ AddrInv'
    BY MasterKeepsMasterInv, MasterKeepsAddrInv
  <1>3. Team' = Team
    BY DEF NumThreads, UsesShareCpus, Team
  <1>4. ASSUME NEW v \in Team PROVE WorkerInv(v)'
    BY MasterKeepsWorkerInv
  <1>5. ASSUME NEW v \in Workers \ Team PROVE At(v, "none")'
    <2>1. CASE CreateWorker
      <3>1. t \in Team
        BY <2>1, TeamFacts DEF CreateWorker, MasterAt, IInv, MasterInv, TypeOK
      <3>2. At(v, "none") /\ v # t
        BY <3>1 DEF IInv
      <3> QED BY <2>1, <3>2 DEF CreateWorker, Goto, At, IInv, TypeOK
    <2>2. CASE ~CreateWorker
      <3>1. UNCHANGED wpc
        BY <2>2 DEF Master, AwaitCreated, InitOwnBuffer, ClearBeforeRelease,
             ReleaseWorker, AwaitReleased, InitReturns, BeginEntry, BeginRun, EndRun,
             NextTarget, EndEntry, BeginLocal, EndLocal, PostUse, PostFlush,
             AwaitAccepted, ClearAccepted, Withdraw, AwaitWaiting, ClearWaiting,
             AwaitDone, ClearDone, BeginCleanup, ClearBeforeStop, PostStop, Join,
             FreeAll, worker
      <3> QED BY <3>1 DEF IInv, At
    <2> QED BY <2>1, <2>2
  <1> QED BY <1>1, <1>2, <1>3, <1>4, <1>5 DEF IInv

\* A step that changes nothing preserves the invariant.
LEMMA StutterPreserves ==
  ASSUME IInv, UNCHANGED vars
  PROVE  IInv'
  <1> USE DEF vars, shared, params, worker, loops, steps
  <1>1. NumThreads' = NumThreads /\ Team' = Team /\ CallSteps' = CallSteps
    BY DEF NumThreads, UsesShareCpus, Team, CallSteps
  <1>2. TypeOK' /\ MasterInv'
    BY <1>1 DEF IInv, TypeOK, MasterInv
  <1>3. AddrInv'
    BY <1>1 DEF IInv, AddrInv, Lent
  <1>4. ASSUME NEW v \in Team PROVE WorkerInv(v)'
    BY DEF IInv, WorkerInv, Around, Booting, Waking, Stopping, Engaged, Busy, Quiet,
       Initialising, At, Shows, AckPC, WorkPCs, DoneMark
  <1>5. \A v \in Workers \ Team : At(v, "none")'
    BY DEF IInv, At
  <1> QED BY <1>1, <1>2, <1>3, <1>4, <1>5 DEF IInv

\* Every step of the program, and every stutter, preserves the invariant.
LEMMA StepPreserves == IInv /\ [Next]_vars => IInv'
  <1> SUFFICES ASSUME IInv, [Next]_vars PROVE IInv'
    OBVIOUS
  <1> QED BY WorkerPreserves, MasterPreserves, StutterPreserves DEF Next, Freed

\* The invariant holds before a worker exists.
LEMMA InitEstablishes == Init => IInv
  <1> SUFFICES ASSUME Init PROVE IInv
    OBVIOUS
  <1>0. setup \in Setups
    BY DEF Init
  <1>1. TypeOK
    <2>1. /\ NUM_RESULTS \in Nat /\ NUM_SHARED_CPUS \in Nat
          /\ RUNS \in Nat /\ ENTRIES \in Nat
      BY ConstantsAssumption
    <2>2. Idle \in StepType /\ <<>> \in Seq(StepType)
      BY <1>0, TeamFacts DEF Idle, Step, StepType, Whats, Modes
    <2>3. NoArg \in [buffer : Threads \cup {NoAddr}, mode : Modes]
      BY DEF NoArg, Modes
    <2>4. 1 \in 0 .. NumThreads /\ 0 \in Threads
      BY <1>0, TeamFacts
    <2> QED
      BY <2>1, <2>2, <2>3, <2>4 DEF Init, TypeOK, Commands, Flushes, Modes,
         WorkerPCs, MasterPCs, LineStates
  <1>2. MasterInv
    BY <1>0, TeamFacts DEF Init, MasterInv, CallPCs
  <1>3. ASSUME NEW v \in Team PROVE WorkerInv(v)
    BY <1>0, <1>3, TeamFacts DEF Init, WorkerInv, Around, At
  <1>4. \A v \in Workers \ Team : At(v, "none")
    BY DEF Init, At
  <1>5. AddrInv
    BY <1>0, TeamFacts DEF Init, AddrInv, CallPCs
  <1> QED BY <1>1, <1>2, <1>3, <1>4, <1>5 DEF IInv

\* The master's position determines the state of every worker, in every
\* reachable state of bi_init(), bi_entry(), bi_cleanup() and thread().
THEOREM Invariant == Spec => []IInv
  BY InitEstablishes, StepPreserves, PTL DEF Spec

\* Every variable of the kernel's model keeps its type; in particular the
\* master only talks to threads that exist.
THEOREM TypeCorrect == Spec => []TypeOK
  <1>1. IInv => TypeOK
    BY DEF IInv
  <1> QED BY <1>1, Invariant, PTL

\* A worker inside use_memory() or flush_caches() is the one the master waits for.
LEMMA InvExclusion == IInv => ExclusiveAccess
  <1> SUFFICES ASSUME IInv PROVE ExclusiveAccess
    OBVIOUS
  <1>0. TypeOK /\ MasterInv /\ setup \in Setups
    BY DEF IInv, TypeOK
  <1>1. ASSUME NEW w \in Workers, wpc[w] \in {"useCall", "using", "flushing"}
        PROVE  mpc \in CallPCs /\ w = cur.who
    <2>1. w \in Team /\ WorkerInv(w)
      BY <1>1 DEF IInv, At
    <2> QED BY <1>0, <1>1, <2>1, PartnerOf DEF Quiet, Initialising, Booting, Waking, Stopping,
                                               At
  <1>2. MasterAt("local") => mpc \notin CallPCs
    BY DEF MasterAt, CallPCs
  <1>3. ASSUME NEW c \in Active, NEW d \in Active PROVE c = d
    BY <1>1, <1>2 DEF Active
  <1> QED BY <1>3 DEF ExclusiveAccess

\* One thread at a time is inside use_memory(), flush_caches() or the
\* measurement, whatever the number of threads.
THEOREM Exclusion == Spec => []ExclusiveAccess
  BY InvExclusion, Invariant, PTL

\* The clause of the worker the master deals with says what ack holds.
LEMMA InvAckFromPartner == IInv => AckFromPartner
  <1> SUFFICES ASSUME IInv PROVE AckFromPartner
    OBVIOUS
  <1>0. TypeOK /\ MasterInv /\ setup \in Setups
    BY DEF IInv, TypeOK
  <1>1. CASE mpc \in CallPCs
    <2>1. cur.who \in Team /\ Engaged(cur.who)
      BY <1>0, <1>1 DEF IInv, MasterInv, CallSteps, WorkerInv, CallPCs
    <2> QED BY <1>1, <2>1 DEF AckFromPartner, Partner, CallPCs, Engaged, Busy, Quiet
  <1>2. CASE mpc \in {"created", "released"}
    <2>1. t \in Team /\ t \in Nat /\ WorkerInv(t)
      BY <1>0, <1>2, TeamFacts DEF IInv, MasterInv
    <2> QED BY <1>2, <2>1 DEF AckFromPartner, Partner, CallPCs, WorkerInv, Around, Booting,
                              Waking
  <1>3. CASE mpc \notin CallPCs \cup {"created", "released"}
    BY <1>0, <1>3 DEF AckFromPartner, MasterInv, CallPCs
  <1> QED BY <1>1, <1>2, <1>3

\* What the master finds in ack comes from the worker it is waiting for.
THEOREM AckIsFromPartner == Spec => []AckFromPartner
  BY InvAckFromPartner, Invariant, PTL

\* The second acknowledgement of a use of memory comes after done is set.
THEOREM DoneIsBeforeWaiting == Spec => []DoneBeforeWaiting
  <1>1. ASSUME IInv PROVE DoneBeforeWaiting
    <2>1. ASSUME MasterAt("clear2"), cur.what = "USE_MEMORY" PROVE done = cur.who
      <3>1. cur.who \in Team /\ Engaged(cur.who)
        BY <1>1, <2>1 DEF IInv, MasterInv, CallSteps, WorkerInv, CallPCs, MasterAt
      <3> QED BY <2>1, <3>1 DEF Engaged, DoneMark, MasterAt
    <2> QED BY <2>1 DEF DoneBeforeWaiting
  <1> QED BY <1>1, Invariant, PTL

\* Outside of an exchange no buffer is lent.
LEMMA InvBufferGivenBack == IInv => BufferGivenBack
  <1> SUFFICES ASSUME IInv PROVE BufferGivenBack
    OBVIOUS
  <1>0. TypeOK /\ MasterInv /\ AddrInv /\ setup \in Setups
    BY DEF IInv, TypeOK
  <1>1. ASSUME mpc \in {"idle", "loop", "step", "local", "stop"}, NEW w \in Team
        PROVE  aligned_addr[w] = w
    <2>1. WorkerInv(w) /\ t \in Nat /\ w \in Nat
      BY <1>0, TeamFacts DEF IInv, TypeOK
    <2>2. wpc[w] \in {"poll", "gone"}
      BY <1>1, <2>1 DEF WorkerInv, Around, Quiet, At
    <2> QED BY <1>0, <1>1, <2>2 DEF AddrInv, Lent, CallPCs
  <1> QED BY <1>1 DEF BufferGivenBack, Team

\* Between two commands every worker has its own buffer.
THEOREM BufferIsGivenBack == Spec => []BufferGivenBack
  BY InvBufferGivenBack, Invariant, PTL

\* The shared words are freed when every worker has left its loop.
THEOREM FreeIsSafe == Spec => []FreedWhenGone
  <1>1. ASSUME IInv PROVE FreedWhenGone
    BY <1>1 DEF IInv, WorkerInv, At, MasterAt, FreedWhenGone
  <1> QED BY <1>1, Invariant, PTL

\* No acknowledgement is overwritten, and none is cleared unseen.
THEOREM NoAckIsLost == Spec => NoAckLost
  <1> DEFINE A == ack # 0 /\ ack' # ack =>
                    ack' = 0 /\ mpc \in {"create", "release", "clear1", "clear2"}
  <1>1. ASSUME IInv, [Next]_vars PROVE [A]_vars
    <2>0. TypeOK /\ MasterInv /\ setup \in Setups
      BY <1>1 DEF IInv, TypeOK
    <2>1. ASSUME NEW w \in Workers, Worker(w), UNCHANGED setup PROVE A
      <3>1. w \in Team /\ WorkerInv(w)
        BY <1>1, <2>1 DEF IInv, Worker, SeeInit, AckInit, InitBuffer, AcceptUse, AckUse,
             CallUseMemory, FinishUseMemory, AcceptFlush, AckFlush, FinishFlush,
             SeeWait, AckWait, Exit, Spin, Accept, At
      <3>2. wpc[w] \in {"bootAck", "useAck", "flushAck", "waitAck"} => ack = 0
        BY <2>0, <3>1, PartnerOf DEF Quiet, Initialising, Booting, Waking, Stopping,
             Engaged, Busy, WorkPCs, CallPCs, At
      <3>3. wpc[w] \notin {"bootAck", "useAck", "flushAck", "waitAck"} => UNCHANGED ack
        BY <2>1 DEF Worker, SeeInit, AckInit, InitBuffer, AcceptUse, AckUse,
             CallUseMemory, FinishUseMemory, AcceptFlush, AckFlush, FinishFlush,
             SeeWait, AckWait, Exit, Spin, Accept, At, shared
      <3> QED BY <3>2, <3>3
    <2>2. ASSUME Master, UNCHANGED setup PROVE A
      BY <2>0, <2>2 DEF Master, CreateWorker, AwaitCreated, InitOwnBuffer,
         ClearBeforeRelease, ReleaseWorker, AwaitReleased, InitReturns, BeginEntry,
         BeginRun, EndRun, NextTarget, EndEntry, BeginLocal, EndLocal, PostUse,
         PostFlush, AwaitAccepted, ClearAccepted, Withdraw, AwaitWaiting,
         ClearWaiting, AwaitDone, ClearDone, BeginCleanup, ClearBeforeStop,
         PostStop, Join, FreeAll, MasterAt, shared, MasterInv
    <2>3. CASE UNCHANGED vars
      BY <2>3
    <2> QED BY <1>1, <2>1, <2>2, <2>3 DEF Next, Freed
  <1> QED BY <1>1, Invariant, PTL DEF NoAckLost, Spec
----------------------------------------------------------------------------
\* Arguments are kept for the time of use_memory() only.
ArgInv == \A w \in Workers : wpc[w] # "using" => arg[w] = NoArg

RefInv == IInv /\ ArgInv

LEMMA ArgInitially == Init => ArgInv
BY DEF Init, ArgInv

LEMMA ArgKept ==
  ASSUME RefInv, [Next]_vars
  PROVE  ArgInv'
<1>0. TypeOK /\ MasterInv /\ setup \in Setups
  BY DEF RefInv, IInv, TypeOK
<1>1. ASSUME NEW w \in Workers, Worker(w) PROVE ArgInv'
  BY <1>0, <1>1 DEF Worker, RefInv, ArgInv, TypeOK, SeeInit, AckInit, InitBuffer, AcceptUse,
                    AckUse,
     CallUseMemory, FinishUseMemory, AcceptFlush, AckFlush, FinishFlush,
     SeeWait, AckWait, Exit, Spin, Accept, At, Goto, worker
<1>2. CASE Master
  <2>1. CASE CreateWorker
    <3>1. t \in Team /\ t \in Workers /\ t \in Nat
      BY <1>0, <2>1, TeamFacts DEF CreateWorker, MasterAt, MasterInv
    <3>2. At(t, "none")
      BY <2>1, <3>1 DEF RefInv, IInv, WorkerInv, Around, CreateWorker, MasterAt
    <3> QED BY <1>0, <2>1, <3>1, <3>2 DEF CreateWorker, RefInv, ArgInv, TypeOK, At, Goto
  <2>2. CASE ~CreateWorker
    <3>1. UNCHANGED worker
      BY <1>2, <2>2 DEF Master, AwaitCreated, InitOwnBuffer, ClearBeforeRelease, ReleaseWorker,
         AwaitReleased, InitReturns, BeginEntry, BeginRun, EndRun, NextTarget, EndEntry,
         BeginLocal, EndLocal, PostUse, PostFlush, AwaitAccepted, ClearAccepted, Withdraw,
         AwaitWaiting, ClearWaiting, AwaitDone, ClearDone, BeginCleanup, ClearBeforeStop,
         PostStop, Join, FreeAll
    <3> QED BY <3>1 DEF worker, RefInv, ArgInv
  <2> QED BY <2>1, <2>2
<1>3. CASE UNCHANGED vars
  BY <1>3 DEF vars, worker, RefInv, ArgInv
<1> QED BY <1>1, <1>2, <1>3 DEF Next, Freed

\* In every reachable state the arguments a worker works with are those of the call.
THEOREM RefInvariant == Spec => []RefInv
<1>1. Init => RefInv
  BY InitEstablishes, ArgInitially DEF RefInv
<1>2. RefInv /\ [Next]_vars => RefInv'
  BY StepPreserves, ArgKept DEF RefInv
<1> QED BY <1>1, <1>2, PTL DEF Spec
----------------------------------------------------------------------------
\* During a call the worker is engaged in it.
LEMMA Called ==
  ASSUME IInv, mpc \in CallPCs
  PROVE  /\ cur \in CallSteps /\ cur.who \in Team /\ cur.who \in Workers /\ cur.who # 0
         /\ Engaged(cur.who)
<1>1. cur \in CallSteps /\ cur.who \in Team
  BY DEF IInv, MasterInv, CallSteps
<1>2. cur.who \in Workers /\ cur.who # 0
  BY <1>1, TeamFacts DEF IInv, TypeOK
<1>3. Engaged(cur.who)
  BY <1>1 DEF IInv, WorkerInv, CallPCs
<1> QED BY <1>1, <1>2, <1>3

\* What the abstract variables are outside of a call.
LEMMA NoCall ==
  ASSUME mpc \notin CallPCs
  PROVE  CallStage = "none" /\ CallOrder = Calls!NoOrder /\ CallWork = NoArg
BY DEF CallStage, CallOrder, CallWork, Calls!NoOrder

\* A worker's step is a step of the call, or none.
LEMMA WorkerRefines ==
  ASSUME RefInv, NEW w \in Workers, Worker(w), UNCHANGED setup
  PROVE  [Calls!Next]_(Calls!vars)
<1>0. IInv /\ ArgInv /\ TypeOK /\ UNCHANGED <<mpc, cur>>
  BY DEF RefInv, IInv, Worker, masterVars, steps
<1>1. CASE mpc \notin CallPCs
  BY <1>0, <1>1, NoCall DEF Calls!vars, MasterAt, CallStage, CallOrder, CallWork
<1>2. CASE mpc \in CallPCs /\ w # cur.who
  <2>1. cur.who \in Workers
    BY <1>0, <1>2, Called
  <2>2. /\ UNCHANGED <<thread_comm, use_mode>>
        /\ wpc'[cur.who] = wpc[cur.who] /\ old'[cur.who] = old[cur.who]
        /\ arg'[cur.who] = arg[cur.who] /\ aligned_addr'[cur.who] = aligned_addr[cur.who]
    BY <1>0, <1>2, <2>1, TeamFacts DEF TypeOK, Worker, SeeInit, AckInit, InitBuffer,
                                       AcceptUse, AckUse,
       CallUseMemory, FinishUseMemory, AcceptFlush, AckFlush, FinishFlush,
       SeeWait, AckWait, Exit, Spin, Accept, Goto, worker, SetAck, shared, params
  <2> QED BY <1>0, <2>2 DEF Calls!vars, MasterAt, CallStage, CallOrder, CallWork
<1>3. CASE mpc \in CallPCs /\ w = cur.who
  <2>0. cur \in CallSteps /\ Engaged(w) /\ ~MasterAt("local")
    BY <1>0, <1>3, Called DEF MasterAt, CallPCs
  <2> USE <1>0, <1>3, <2>0 DEF TypeOK, Goto, SetAck, shared, params, worker, MasterAt
  <2>1. CASE AcceptUse(w) \/ AcceptFlush(w) \/ SeeWait(w) \/ AckWait(w) \/ Spin(w) \/ AckUse(w)
    <3>1. UNCHANGED <<use_mode, aligned_addr, arg>>
      BY <2>1 DEF AcceptUse, AcceptFlush, Accept, SeeWait, AckWait, Spin, AckUse
    <3>2. CallStage' = CallStage
      BY <2>1 DEF AcceptUse, AcceptFlush, Accept, SeeWait, AckWait, Spin, AckUse, At, CallStage,
                  Engaged, Busy, Quiet, Shows, AckPC, WorkPCs, DoneMark, CallSteps, CallPCs,
                  Flushes
    <3> QED BY <3>1, <3>2 DEF CallOrder, CallWork, Calls!vars
  <2>2. CASE CallUseMemory(w)
    <3>1. cur.what = "USE_MEMORY"
      BY <2>2 DEF CallUseMemory, At, Engaged, Busy, Quiet, AckPC, WorkPCs, CallPCs
    <3>2. CallStage = "posted" /\ CallStage' = "running"
      BY <2>2 DEF CallUseMemory, At, CallStage
    <3>3. CallWork' = [buffer |-> CallOrder.buffer, mode |-> CallOrder.mode]
      BY <2>2, <3>1, <3>2 DEF CallUseMemory, CallWork, CallOrder
    <3>4. CallOrder' = CallOrder
      BY <2>2 DEF CallUseMemory, CallOrder
    <3> QED BY <3>2, <3>3, <3>4 DEF Calls!Next, Calls!Start
  <2>3. CASE AckFlush(w)
    <3>1. cur.what # "USE_MEMORY"
      BY <2>3 DEF AckFlush, At, Engaged, Busy, Quiet, AckPC, WorkPCs, CallPCs
    <3>2. CallStage = "posted" /\ CallStage' = "running"
      BY <2>3 DEF AckFlush, At, CallStage
    <3>3. arg[w] = NoArg
      BY <2>3 DEF AckFlush, At, ArgInv
    <3>4. CallWork' = [buffer |-> CallOrder.buffer, mode |-> CallOrder.mode]
      BY <2>3, <3>1, <3>2, <3>3 DEF AckFlush, CallWork, CallOrder, NoArg
    <3>5. CallOrder' = CallOrder
      BY <2>3 DEF AckFlush, CallOrder
    <3> QED BY <3>2, <3>4, <3>5 DEF Calls!Next, Calls!Start
  <2>4. CASE FinishUseMemory(w) \/ FinishFlush(w)
    <3>1. CallStage = "running" /\ CallStage' = "finished"
      BY <2>4 DEF FinishUseMemory, FinishFlush, At, CallStage, Engaged, Busy, Quiet, AckPC,
                  WorkPCs, Shows, CallPCs
    <3>2. CallOrder' = CallOrder /\ CallWork' = NoArg
      BY <2>4, <3>1 DEF FinishUseMemory, FinishFlush, CallOrder, CallWork
    <3> QED BY <3>1, <3>2 DEF Calls!Next, Calls!Finish, Calls!NoWork, NoArg
  <2>5. ~SeeInit(w) /\ ~AckInit(w) /\ ~InitBuffer(w) /\ ~Exit(w)
    BY DEF SeeInit, AckInit, InitBuffer, Exit, At, Engaged, Busy, Quiet, AckPC, WorkPCs, Shows,
           CallPCs, CallSteps
  <2> QED BY <2>1, <2>2, <2>3, <2>4, <2>5 DEF Worker
<1> QED BY <1>1, <1>2, <1>3

\* The master's step calls, returns, begins or ends work of its own, or is none of these.
LEMMA MasterRefines ==
  ASSUME RefInv, Master, UNCHANGED setup, RefInv'
  PROVE  [Calls!Next]_(Calls!vars)
<1>0. /\ IInv /\ ArgInv /\ TypeOK /\ MasterInv /\ setup \in Setups
      /\ IInv' /\ TypeOK'
  BY DEF RefInv, IInv, TypeOK
<1> USE <1>0
<1>1. ASSUME mpc \notin CallPCs, mpc' \notin CallPCs, MasterAt("local")' = MasterAt("local")
      PROVE  UNCHANGED Calls!vars
  BY <1>1, NoCall DEF Calls!vars, CallStage, CallOrder, CallWork
<1>2. CASE \/ CreateWorker \/ AwaitCreated \/ InitOwnBuffer \/ ClearBeforeRelease
           \/ ReleaseWorker \/ AwaitReleased \/ InitReturns \/ BeginEntry \/ BeginRun \/ EndRun
           \/ NextTarget \/ EndEntry \/ BeginCleanup \/ ClearBeforeStop \/ PostStop \/ Join
           \/ FreeAll
  <2>1. mpc \notin CallPCs /\ mpc' \notin CallPCs /\ mpc # "local" /\ mpc' # "local"
    BY <1>2 DEF CreateWorker, AwaitCreated, InitOwnBuffer, ClearBeforeRelease, ReleaseWorker,
       AwaitReleased, InitReturns, BeginEntry, BeginRun, EndRun, NextTarget, EndEntry,
       BeginCleanup, ClearBeforeStop, PostStop, Join, FreeAll, MasterAt, MasterGoto, CallPCs
  <2> QED BY <1>1, <2>1 DEF MasterAt
<1>3. CASE BeginLocal
  <2>1. mpc = "step" /\ mpc' = "local" /\ mpc \notin CallPCs /\ mpc' \notin CallPCs
    BY <1>3 DEF BeginLocal, MasterAt, MasterGoto, CallPCs
  <2> QED BY <2>1, NoCall DEF Calls!Next, Calls!BeginLocal, MasterAt, CallStage, CallOrder,
                              CallWork
<1>4. CASE EndLocal
  <2>1. mpc = "local" /\ mpc' = "step" /\ mpc \notin CallPCs /\ mpc' \notin CallPCs
    BY <1>4 DEF EndLocal, MasterAt, MasterGoto, CallPCs
  <2> QED BY <2>1, NoCall DEF Calls!Next, Calls!EndLocal, MasterAt, CallStage, CallOrder,
                              CallWork
<1>5. CASE PostUse \/ PostFlush
  <2>1. mpc = "step" /\ mpc' = "await1" /\ mpc \notin CallPCs /\ mpc' \in CallPCs
    BY <1>5 DEF PostUse, PostFlush, MasterAt, MasterGoto, CallPCs
  <2>2. cur' \in CallSteps /\ cur'.who \in Team /\ cur'.who \in Workers /\ cur'.who # 0
    <3>1. Team' = Team /\ CallSteps' = CallSteps
      BY DEF Team, CallSteps, NumThreads, UsesShareCpus
    <3> QED BY <2>1, <3>1, TeamFacts DEF IInv, MasterInv, CallSteps
  <2>3. At(cur'.who, "poll") /\ old[cur'.who] = "WAIT" /\ UNCHANGED worker
    <3>1. Quiet(cur'.who)
      BY <2>1, <2>2 DEF IInv, WorkerInv
    <3> QED BY <1>5, <3>1 DEF Quiet, PostUse, PostFlush
  <2>4. thread_comm'[cur'.who] = cur'.what
    BY <1>5, <2>2 DEF PostUse, PostFlush, SetComm, TypeOK
  <2>5. CallStage' = "posted"
    BY <2>1, <2>2, <2>3, <2>4 DEF CallStage, At, worker, CallSteps, Flushes
  <2>6. CallOrder' \in Calls!Orders
    <3>1. CASE cur'.what # "USE_MEMORY"
      BY <2>1, <2>2, <3>1 DEF CallOrder, Calls!Orders, CallSteps
    <3>2. CASE cur'.what = "USE_MEMORY"
      <4>1. aligned_addr'[cur'.who] \in Threads
        <5>1. aligned_addr'[cur'.who] \in {t', cur'.who}
          BY <2>2, <2>3 DEF IInv, AddrInv, worker, At
        <5>2. t' \in 0 .. NUM_RESULTS /\ t' < NUM_RESULTS
          BY <2>1 DEF IInv, MasterInv
        <5>3. t' \in Threads /\ cur'.who \in Threads
          BY <2>2, <5>2, ConstantsAssumption, TeamFacts DEF Threads
        <5> QED BY <5>1, <5>3
      <4>2. use_mode'[cur'.who] \in Modes
        BY <2>2 DEF TypeOK
      <4> QED BY <2>1, <3>2, <4>1, <4>2 DEF CallOrder, Calls!Orders
    <3> QED BY <3>1, <3>2
  <2>7. CallStage = "none" /\ ~MasterAt("local") /\ ~MasterAt("local")' /\ CallWork = NoArg
    BY <2>1, NoCall DEF MasterAt
  <2>8. CallWork' = NoArg
    BY <2>5 DEF CallWork
  <2>9. Calls!Call(cur'.who, CallOrder')
    <3>1. MasterAt("local")' = MasterAt("local")
      BY <2>1 DEF MasterAt
    <3> QED BY <2>1, <2>5, <2>7, <2>8, <3>1 DEF Calls!Call
  <2> QED BY <2>2, <2>6, <2>9 DEF Calls!Next
<1>6. CASE AwaitAccepted \/ ClearAccepted \/ Withdraw \/ AwaitWaiting \/ AwaitDone
           \/ (ClearWaiting /\ cur.what = "USE_MEMORY")
  <2>1. /\ mpc \in CallPCs /\ mpc' \in CallPCs /\ ~MasterAt("local") /\ ~MasterAt("local")'
        /\ UNCHANGED <<cur, params, worker>>
    BY <1>6 DEF AwaitAccepted, ClearAccepted, Withdraw, AwaitWaiting, AwaitDone, ClearWaiting,
       MasterAt, MasterGoto, CallPCs, steps
  <2>2. Engaged(cur.who) /\ cur \in CallSteps /\ cur.who \in Workers
    BY <2>1, Called
  <2>3. CallStage' = CallStage
    <3>1. CASE ~Withdraw
      BY <1>6, <2>1, <3>1 DEF AwaitAccepted, ClearAccepted, AwaitWaiting, AwaitDone,
                              ClearWaiting,
         shared, worker, CallStage
    <3>2. CASE Withdraw
      BY <2>1, <2>2, <3>2 DEF Withdraw, MasterAt, SetComm, TypeOK, worker, CallStage, Engaged,
                              Busy, At, CallSteps,
         Flushes
    <3> QED BY <3>1, <3>2
  <2>4. CallOrder' = CallOrder /\ CallWork' = CallWork
    BY <2>1, <2>3 DEF CallOrder, CallWork, params, worker
  <2>5. MasterAt("local")' = MasterAt("local")
    BY <2>1 DEF MasterAt, CallPCs
  <2> QED BY <2>1, <2>3, <2>4, <2>5 DEF Calls!vars
<1>7. CASE ClearDone \/ (ClearWaiting /\ cur.what # "USE_MEMORY")
  <2>1. /\ mpc \in {"clear2", "clearDone"} /\ mpc' = "step"
        /\ mpc \in CallPCs /\ mpc' \notin CallPCs
    BY <1>7 DEF ClearDone, ClearWaiting, MasterAt, MasterGoto, CallPCs
  <2>2. Engaged(cur.who) /\ cur \in CallSteps
    BY <2>1, Called
  <2>3. Quiet(cur.who)
    BY <2>1, <2>2 DEF Engaged
  <2>4. CallStage = "finished"
    BY <2>1, <2>2, <2>3 DEF Quiet, At, Shows, CallStage, CallSteps, Flushes
  <2>5. CallWork = NoArg
    BY <2>4 DEF CallWork
  <2> QED BY <2>1, <2>4, <2>5, NoCall DEF Calls!Next, Calls!Return, MasterAt, CallStage,
                                          CallOrder, CallWork, Calls!NoOrder
<1> QED BY <1>2, <1>3, <1>4, <1>5, <1>6, <1>7 DEF Master

\* For every number of threads the exchange of thread_comm, ack and done is a
\* synchronous call: the worker that was asked works, once, on the buffer and in the
\* mode that were posted, and the master goes on afterwards.
THEOREM HandshakeIsCall == Spec => IsRemoteCall
<1>1. Init => Calls!Init
  <2> SUFFICES ASSUME Init PROVE Calls!Init
    OBVIOUS
  <2>1. mpc \notin CallPCs /\ mpc # "local"
    BY DEF Init, CallPCs
  <2> QED BY <2>1, NoCall DEF Calls!Init, Calls!NoWork, NoArg, MasterAt
<1>2. RefInv /\ RefInv' /\ [Next]_vars => [Calls!Next]_(Calls!vars)
  <2> SUFFICES ASSUME RefInv, RefInv', [Next]_vars PROVE [Calls!Next]_(Calls!vars)
    OBVIOUS
  <2>1. CASE Master /\ UNCHANGED setup
    BY <2>1, MasterRefines
  <2>2. ASSUME NEW w \in Workers, Worker(w), UNCHANGED setup PROVE [Calls!Next]_(Calls!vars)
    BY <2>2, WorkerRefines
  <2>3. CASE UNCHANGED vars
    BY <2>3 DEF vars, shared, params, worker, steps, Calls!vars, CallStage, CallOrder,
                CallWork, MasterAt
  <2> QED BY <2>1, <2>2, <2>3 DEF Next, Freed
<1> QED BY <1>1, <1>2, RefInvariant, PTL DEF Spec, IsRemoteCall, Calls!Spec
----------------------------------------------------------------------------
(***************************************************************************)
(* The coherence state of the line that is measured.  The script of a run  *)
(* begins with the placement, so how far the master is in the script says  *)
(* what the line of the target's buffer must look like.                    *)
(***************************************************************************)
Mode   == setup.USE_MODE
Places == Len(Placement(t, Mode))
Taken  == Len(Script(t)) - Len(todo)
InScript == mpc \in {"step", "local"} \cup CallPCs

\* The line of the target's buffer after p steps of the placement: what the thread
\* that made it valid left behind, and then what the readers made of it.
Only(l, c, state) == l = [Nowhere(l) EXCEPT ![c] = state]

PlacedAfter(l, p) ==
  /\ p = Places => Placed(l, t, FRST_SHARE_CPU, Mode, setup.protocol)
  /\ p = 1 /\ Mode = "SHARED" => Only(l, t, "E")
  /\ p = 1 /\ Mode = "OWNED"  => Only(l, t, "M")
  /\ p = 1 /\ Mode = "MUW"    => Only(l, FRST_SHARE_CPU, "M")
  /\ p > 1 /\ Mode = "SHARED" => Placed(l, t, FRST_SHARE_CPU, Mode, setup.protocol)
  /\ 0 < p /\ p < Places /\ Mode = "FORWARD" => l[t] = "I" /\ l[FRST_SHARE_CPU] \in {"E", "S"}

\* Which step of the script the master is at, and how far the line is placed: a step
\* that a worker has been asked for has its effect when done is set.
PlaceInv ==
  InScript =>
    /\ Taken \in 0 .. Len(Script(t))
    /\ \A i \in 1 .. Len(todo) : todo[i] = Script(t)[Taken + i]
    /\ mpc # "step" => Taken >= 1 /\ cur = Script(t)[Taken]
    /\ mpc \in CallPCs /\ cur.what = "USE_MEMORY" => use_mode[cur.who] = cur.mode
    /\ Taken <= Places =>
         PlacedAfter(line[t], IF mpc = "step" \/ done # 0 THEN Taken ELSE Taken - 1)

\* use_memory() works with what threaddata holds for as long as it runs.
UseArgInv ==
  \A w \in Team : At(w, "using") => arg[w] = [buffer |-> aligned_addr[w], mode |-> use_mode[w]]

\* The number of steps of a placement, and each of them.
PlacesOf(mode) ==
  CASE mode \in WriteModes            -> 1
    [] mode \in {"OWNED", "MUW"}      -> 2
    [] mode \in {"SHARED", "FORWARD"} -> NUM_SHARED_CPUS + 1

PlaceStep(tgt, mode, i) ==
  CASE mode \in WriteModes -> Step(tgt, "USE_MEMORY", mode)
    [] mode = "SHARED"  -> IF i = 1 THEN Step(tgt, "USE_MEMORY", "EXCLUSIVE")
                                    ELSE Step(FRST_SHARE_CPU + i - 2, "USE_MEMORY", "SHARED")
    [] mode = "OWNED"   -> IF i = 1 THEN Step(tgt, "USE_MEMORY", "MODIFIED")
                                    ELSE Step(FRST_SHARE_CPU, "USE_MEMORY", "OWNED")
    [] mode = "FORWARD" -> IF i = 1 THEN Step(FRST_SHARE_CPU, "USE_MEMORY", "EXCLUSIVE")
                           ELSE IF i <= NUM_SHARED_CPUS
                                THEN Step(FRST_SHARE_CPU + i - 1, "USE_MEMORY", "FORWARD")
                                ELSE Step(tgt, "USE_MEMORY", "FORWARD")
    [] mode = "MUW"     -> IF i = 1 THEN Step(FRST_SHARE_CPU, "USE_MEMORY", "MODIFIED")
                                    ELSE Step(tgt, "USE_MEMORY", "SHARED")

\* evaluate_environment() accepts no other mode.
LEMMA ModeCases ==
  ASSUME setup \in Setups
  PROVE  /\ Mode \in WriteModes \/ Mode \in {"SHARED", "OWNED", "FORWARD", "MUW"}
         /\ Mode \in UseModes
BY DEF Mode, Setups, UseModes, SharedModes, ReadModes, WriteModes

\* A sequence with one element more in front of it, or behind it.
LEMMA InFront ==
  ASSUME NEW T, NEW a \in Seq(T), NEW s \in T
  PROVE  /\ <<>> \o <<s>> \o a \in Seq(T)
         /\ Len(<<>> \o <<s>> \o a) = Len(a) + 1
         /\ (<<>> \o <<s>> \o a)[1] = s
         /\ \A i \in 2 .. Len(a) + 1 : (<<>> \o <<s>> \o a)[i] = a[i - 1]
<1>1. PICK b : b = <<s>>
  OBVIOUS
<1>2. b \in Seq(T) /\ Len(b) = 1 /\ b[1] = s
  BY <1>1
<1>3. <<>> \o <<s>> = b
  BY <1>1, <1>2, ConcatEmptySeq
<1>4. Len(a) \in Nat
  OBVIOUS
<1>5. /\ b \o a \in Seq(T) /\ Len(b \o a) = 1 + Len(a)
      /\ \A i \in 1 .. 1 + Len(a) : (b \o a)[i] = IF i <= 1 THEN b[i] ELSE a[i - 1]
  <2>1. /\ b \o a \in Seq(T) /\ Len(b \o a) = Len(b) + Len(a)
        /\ \A i \in 1 .. Len(b) + Len(a) :
             (b \o a)[i] = IF i <= Len(b) THEN b[i] ELSE a[i - Len(b)]
    BY <1>2, ConcatProperties
  <2> QED BY <1>2, <2>1
<1>6. /\ (b \o a)[1] = s
      /\ \A i \in 2 .. Len(a) + 1 : (b \o a)[i] = a[i - 1]
  BY <1>2, <1>4, <1>5
<1>7. Len(b \o a) = Len(a) + 1
  BY <1>4, <1>5
<1> QED BY <1>3, <1>5, <1>6, <1>7, Zenon

LEMMA Behind ==
  ASSUME NEW T, NEW a \in Seq(T), NEW s \in T
  PROVE  /\ a \o <<s>> \o <<>> \in Seq(T)
         /\ Len(a \o <<s>> \o <<>>) = Len(a) + 1
         /\ (a \o <<s>> \o <<>>)[Len(a) + 1] = s
         /\ \A i \in 1 .. Len(a) : (a \o <<s>> \o <<>>)[i] = a[i]
<1>1. PICK b : b = <<s>>
  OBVIOUS
<1>2. b \in Seq(T) /\ Len(b) = 1 /\ b[1] = s
  BY <1>1
<1>3. Len(a) \in Nat
  OBVIOUS
<1>4. /\ a \o b \in Seq(T) /\ Len(a \o b) = Len(a) + 1
      /\ \A i \in 1 .. Len(a) + 1 : (a \o b)[i] = IF i <= Len(a) THEN a[i] ELSE b[i - Len(a)]
  BY <1>2, ConcatProperties
<1>5. /\ (a \o b)[Len(a) + 1] = s
      /\ \A i \in 1 .. Len(a) : (a \o b)[i] = a[i]
  BY <1>2, <1>3, <1>4
<1>6. a \o <<s>> \o <<>> = a \o b
  BY <1>1, <1>4, ConcatEmptySeq
<1> QED BY <1>4, <1>5, <1>6, Zenon

\* The placement of every mode, step by step.
LEMMA PlacementSteps ==
  ASSUME setup \in Setups, NEW tgt \in 0 .. NUM_RESULTS - 1
  PROVE  /\ Placement(tgt, Mode) \in Seq(StepType)
         /\ Len(Placement(tgt, Mode)) = PlacesOf(Mode)
         /\ \A i \in 1 .. PlacesOf(Mode) : Placement(tgt, Mode)[i] = PlaceStep(tgt, Mode, i)
<1>1. /\ NUM_SHARED_CPUS \in Nat /\ NUM_SHARED_CPUS >= 1
      /\ NUM_RESULTS \in Nat /\ NUM_RESULTS >= 1
  BY ConstantsAssumption
<1>2. ASSUME NEW w \in 0 .. NUM_RESULTS + NUM_SHARED_CPUS - 1, NEW m \in Modes
      PROVE  Step(w, "USE_MEMORY", m) \in StepType
  BY <1>1, <1>2 DEF Step, StepType, Threads, Whats
<1>3. PICK M : M = Mode
  OBVIOUS
<1>4. /\ M \in WriteModes \/ M \in {"SHARED", "OWNED", "FORWARD", "MUW"}
      /\ M \in Modes
  BY <1>3, ModeCases DEF Modes
<1>5. {"SHARED", "OWNED", "FORWARD", "MUW", "EXCLUSIVE", "MODIFIED"} \subseteq Modes
  BY DEF Modes, UseModes, SharedModes, ReadModes, WriteModes
<1>6. ASSUME NEW m1 \in Modes, NEW m2 \in Modes
      PROVE  /\ EachShareCpu("USE_MEMORY", m1, m2) \in Seq(StepType)
             /\ Len(EachShareCpu("USE_MEMORY", m1, m2)) = NUM_SHARED_CPUS
             /\ \A i \in 1 .. NUM_SHARED_CPUS :
                  EachShareCpu("USE_MEMORY", m1, m2)[i] =
                    Step(FRST_SHARE_CPU + i - 1, "USE_MEMORY", IF i = 1 THEN m1 ELSE m2)
  <2>1. ASSUME NEW k \in 1 .. NUM_SHARED_CPUS
        PROVE  Step(FRST_SHARE_CPU + k - 1, "USE_MEMORY", IF k = 1 THEN m1 ELSE m2) \in StepType
    <3>1. FRST_SHARE_CPU + k - 1 \in 0 .. NUM_RESULTS + NUM_SHARED_CPUS - 1
      BY <1>1 DEF FRST_SHARE_CPU
    <3>2. PICK m \in Modes : m = IF k = 1 THEN m1 ELSE m2
      OBVIOUS
    <3> QED BY <1>2, <3>1, <3>2
  <2> QED BY <1>1, <2>1, SMTT(30) DEF EachShareCpu
<1>8. FRST_SHARE_CPU \in 0 .. NUM_RESULTS + NUM_SHARED_CPUS - 1
      /\ tgt \in 0 .. NUM_RESULTS + NUM_SHARED_CPUS - 1
  BY <1>1 DEF FRST_SHARE_CPU
<1>9. CASE M \in WriteModes
  <2>1. Placement(tgt, Mode) = <<>> \o <<Step(tgt, "USE_MEMORY", M)>> \o <<>>
    BY <1>3, <1>9 DEF Placement, SharersBefore, SharersAfter, TargetMode, WriteModes
  <2>2. Step(tgt, "USE_MEMORY", M) \in StepType
    BY <1>2, <1>4, <1>8
  <2>3. <<>> \in Seq(StepType) /\ Len(<<>>) = 0
    OBVIOUS
  <2>4. PlacesOf(M) = 1 /\ \A i \in 1 .. 1 : PlaceStep(tgt, M, i) = Step(tgt, "USE_MEMORY", M)
    BY <1>9 DEF PlacesOf, PlaceStep, WriteModes
  <2>5. PICK s \in StepType : s = Step(tgt, "USE_MEMORY", M)
    BY <2>2
  <2>6. Placement(tgt, Mode) = <<>> \o <<s>> \o <<>>
    BY <2>1, <2>5
  <2>7. /\ Placement(tgt, Mode) \in Seq(StepType) /\ Len(Placement(tgt, Mode)) = 1
        /\ Placement(tgt, Mode)[1] = s
    BY <2>3, <2>5, <2>6, InFront
  <2> QED BY <1>3, <2>4, <2>5, <2>7
<1>10. CASE M = "SHARED"
  <2>1. PICK e : e = EachShareCpu("USE_MEMORY", "SHARED", "SHARED")
    OBVIOUS
  <2>2. /\ e \in Seq(StepType) /\ Len(e) = NUM_SHARED_CPUS
        /\ \A i \in 1 .. NUM_SHARED_CPUS :
             e[i] = Step(FRST_SHARE_CPU + i - 1, "USE_MEMORY", "SHARED")
    BY <1>5, <1>6, <2>1
  <2>3. PICK s : s = Step(tgt, "USE_MEMORY", "EXCLUSIVE")
    OBVIOUS
  <2>4. s \in StepType
    BY <1>2, <1>5, <1>8, <2>3
  <2>5. Placement(tgt, Mode) = <<>> \o <<s>> \o e
    BY <1>3, <1>10, <2>1, <2>3 DEF Placement, SharersBefore, SharersAfter, TargetMode
  <2>6. PlacesOf(M) = NUM_SHARED_CPUS + 1
    BY <1>10 DEF PlacesOf, WriteModes
  <2>7. PlaceStep(tgt, M, 1) = s
    BY <1>10, <2>3 DEF PlaceStep, WriteModes
  <2>8. ASSUME NEW i \in 2 .. NUM_SHARED_CPUS + 1
        PROVE  PlaceStep(tgt, M, i) = e[i - 1]
    <3>1. i - 1 \in 1 .. NUM_SHARED_CPUS
      BY <1>1
    <3>2. FRST_SHARE_CPU + (i - 1) - 1 = FRST_SHARE_CPU + i - 2
      BY <1>1 DEF FRST_SHARE_CPU
    <3> QED BY <1>10, <2>2, <3>1, <3>2 DEF PlaceStep, WriteModes
  <2> HIDE DEF Placement, PlaceStep
  <2> QED BY <1>1, <1>3, InFront, <2>2, <2>4, <2>5, <2>6, <2>7, <2>8
<1>11. CASE M = "FORWARD"
  <2>1. PICK e : e = EachShareCpu("USE_MEMORY", "EXCLUSIVE", "FORWARD")
    OBVIOUS
  <2>2. /\ e \in Seq(StepType) /\ Len(e) = NUM_SHARED_CPUS
        /\ \A i \in 1 .. NUM_SHARED_CPUS :
             e[i] = Step(FRST_SHARE_CPU + i - 1, "USE_MEMORY",
                         IF i = 1 THEN "EXCLUSIVE" ELSE "FORWARD")
    BY <1>5, <1>6, <2>1
  <2>3. PICK s : s = Step(tgt, "USE_MEMORY", "FORWARD")
    OBVIOUS
  <2>4. s \in StepType
    BY <1>2, <1>5, <1>8, <2>3
  <2>5. Placement(tgt, Mode) = e \o <<s>> \o <<>>
    BY <1>3, <1>11, <2>1, <2>3 DEF Placement, SharersBefore, SharersAfter, TargetMode
  <2>6. PlacesOf(M) = NUM_SHARED_CPUS + 1
    BY <1>11 DEF PlacesOf, WriteModes
  <2>7. PlaceStep(tgt, M, NUM_SHARED_CPUS + 1) = s
    BY <1>1, <1>11, <2>3 DEF PlaceStep, WriteModes
  <2>8. ASSUME NEW i \in 1 .. NUM_SHARED_CPUS
        PROVE  PlaceStep(tgt, M, i) = e[i]
    <3>1. CASE i = 1
      <4>1. FRST_SHARE_CPU + 1 - 1 = FRST_SHARE_CPU
        BY <1>1 DEF FRST_SHARE_CPU
      <4> QED BY <1>11, <2>2, <3>1, <4>1 DEF PlaceStep, WriteModes
    <3>2. CASE i # 1
      BY <1>11, <2>2, <3>2 DEF PlaceStep, WriteModes
    <3> QED BY <3>1, <3>2
  <2>9. \A i \in 1 .. NUM_SHARED_CPUS + 1 : i \in 1 .. NUM_SHARED_CPUS \/ i = NUM_SHARED_CPUS + 1
    BY <1>1
  <2> QED BY <1>1, <1>3, Behind, <2>2, <2>4, <2>5, <2>6, <2>7, <2>8, <2>9
<1>12. CASE M \in {"OWNED", "MUW"}
  <2>1. PICK m1 \in Modes : m1 = "MODIFIED"
    BY <1>5
  <2>2. PICK m2 \in Modes : m2 = IF M = "OWNED" THEN "OWNED" ELSE "SHARED"
    BY <1>5
  <2>3. PICK a : a = IF M = "OWNED" THEN Step(tgt, "USE_MEMORY", m1)
                                    ELSE Step(FRST_SHARE_CPU, "USE_MEMORY", m1)
    OBVIOUS
  <2>4. PICK b : b = IF M = "OWNED" THEN Step(FRST_SHARE_CPU, "USE_MEMORY", m2)
                                    ELSE Step(tgt, "USE_MEMORY", m2)
    OBVIOUS
  <2>5. a \in StepType /\ b \in StepType
    BY <1>2, <1>8, <2>1, <2>2, <2>3, <2>4
  <2>6. CASE M = "OWNED"
    <3>1. Placement(tgt, Mode) = <<>> \o <<a>> \o <<b>>
      BY <1>3, <2>1, <2>2, <2>3, <2>4, <2>6 DEF Placement, SharersBefore, SharersAfter,
                                                TargetMode
    <3>2. PlacesOf(M) = 2 /\ PlaceStep(tgt, M, 1) = a /\ PlaceStep(tgt, M, 2) = b
      BY <2>1, <2>2, <2>3, <2>4, <2>6 DEF PlacesOf, PlaceStep, WriteModes
    <3> QED BY <1>3, <2>5, <3>1, <3>2
  <2>7. CASE M = "MUW"
    <3>1. Placement(tgt, Mode) = <<a>> \o <<b>> \o <<>>
      BY <1>3, <2>1, <2>2, <2>3, <2>4, <2>7 DEF Placement, SharersBefore, SharersAfter,
                                                TargetMode
    <3>2. PlacesOf(M) = 2 /\ PlaceStep(tgt, M, 1) = a /\ PlaceStep(tgt, M, 2) = b
      BY <2>1, <2>2, <2>3, <2>4, <2>7 DEF PlacesOf, PlaceStep, WriteModes
    <3> QED BY <1>3, <2>5, <3>1, <3>2
  <2> QED BY <1>12, <2>6, <2>7
<1> QED BY <1>4, <1>9, <1>10, <1>11, <1>12

\* A script begins with the placement.
LEMMA ScriptStart ==
  ASSUME setup \in Setups, NEW tgt \in 0 .. NUM_RESULTS - 1
  PROVE  /\ Script(tgt) \in Seq(StepType) /\ Len(Script(tgt)) \in Nat
         /\ PlacesOf(Mode) \in Nat /\ PlacesOf(Mode) >= 1
         /\ Len(Placement(tgt, Mode)) = PlacesOf(Mode)
         /\ Len(Flushing(tgt) \o Measure) \in Nat
         /\ Len(Script(tgt)) = PlacesOf(Mode) + Len(Flushing(tgt) \o Measure)
         /\ \A i \in 1 .. PlacesOf(Mode) : Script(tgt)[i] = PlaceStep(tgt, Mode, i)
<1>1. /\ Placement(tgt, Mode) \in Seq(StepType)
      /\ Len(Placement(tgt, Mode)) = PlacesOf(Mode)
      /\ \A i \in 1 .. PlacesOf(Mode) : Placement(tgt, Mode)[i] = PlaceStep(tgt, Mode, i)
  BY PlacementSteps
<1>2. Flushing(tgt) \o Measure \in Seq(StepType)
  <2>1. Flushing(tgt) \o Measure \in Seq(LocalSteps \cup CallSteps)
    BY ScriptSteps
  <2>2. LocalSteps \cup CallSteps \subseteq StepType
    BY TeamFacts
  <2> QED BY <2>1, <2>2
<1>3. PICK a \in Seq(StepType) : a = Placement(tgt, Mode)
  BY <1>1
<1>4. PICK b \in Seq(StepType) : b = Flushing(tgt) \o Measure
  BY <1>2
<1>5. /\ a \o b \in Seq(StepType) /\ Len(a \o b) = Len(a) + Len(b)
      /\ \A i \in 1 .. Len(a) + Len(b) :
           (a \o b)[i] = IF i <= Len(a) THEN a[i] ELSE b[i - Len(a)]
  BY <1>3, <1>4, ConcatProperties
<1>6. Script(tgt) = a \o b
  BY <1>3, <1>4 DEF Script, Mode
<1>7. Len(a) = PlacesOf(Mode) /\ Len(a) \in Nat /\ Len(b) \in Nat
  BY <1>1, <1>3, <1>4
<1>8. PlacesOf(Mode) >= 1
  BY ModeCases, ConstantsAssumption DEF PlacesOf, WriteModes
<1>9. \A i \in 1 .. Len(a) : (a \o b)[i] = a[i]
  BY <1>5, <1>7
<1>10. Len(a \o b) = PlacesOf(Mode) + Len(b) /\ Len(a \o b) \in Nat
  BY <1>5, <1>7
<1> QED BY <1>1, <1>3, <1>4, <1>5, <1>6, <1>7, <1>8, <1>9, <1>10

\* The target and the first share CPU are different threads, like every other share CPU.
LEMMA Sharers ==
  ASSUME setup \in Setups, t \in 0 .. NUM_RESULTS - 1
  PROVE  /\ t \in Threads /\ FRST_SHARE_CPU \in Threads /\ FRST_SHARE_CPU # t
         /\ ~IsShareCpu(t)
         /\ \A k \in 0 .. NUM_SHARED_CPUS - 1 :
              /\ FRST_SHARE_CPU + k \in Threads /\ FRST_SHARE_CPU + k # t
              /\ IsShareCpu(FRST_SHARE_CPU + k)
              /\ FRST_SHARE_CPU + k = FRST_SHARE_CPU => k = 0
BY ConstantsAssumption DEF FRST_SHARE_CPU, Threads, IsShareCpu

\* One step of the placement brings the line from where the steps before it left it
\* to where it has to be after it.
LEMMA PlacedNext ==
  ASSUME setup \in Setups, t \in 0 .. NUM_RESULTS - 1,
         NEW l \in [Threads -> LineStates], NEW i \in 1 .. PlacesOf(Mode),
         PlacedAfter(l, i - 1)
  PROVE  PlacedAfter(UseMemory(l, PlaceStep(t, Mode, i).who, PlaceStep(t, Mode, i).mode,
                               setup.protocol), i)
<1>1. /\ NUM_SHARED_CPUS \in Nat /\ NUM_SHARED_CPUS >= 1
      /\ NUM_RESULTS \in Nat /\ NUM_RESULTS >= 1
  BY ConstantsAssumption
<1>2. Places = PlacesOf(Mode)
  BY PlacementSteps DEF Places
<1>3. PICK p : p = setup.protocol
  OBVIOUS
<1>4. p \in {"MESIF", "MOESI"}
  BY <1>3 DEF Setups, Protocols
<1>5. PICK F \in Threads : F = FRST_SHARE_CPU
  BY Sharers
<1>6. PICK T \in Threads : T = t
  BY Sharers
<1>7. T # F
  BY <1>5, <1>6, Sharers
<1>8. PICK n : n = UseMemory(l, PlaceStep(t, Mode, i).who, PlaceStep(t, Mode, i).mode, p)
  OBVIOUS
<1>9. CASE Mode \in WriteModes
  <2>1. i = 1 /\ PlacesOf(Mode) = 1
    BY <1>9 DEF PlacesOf, WriteModes
  <2>2. n = UseMemory(l, T, Mode, p)
    BY <1>6, <1>8, <1>9 DEF PlaceStep, WriteModes, Step
  <2>3. Placed(n, T, F, Mode, p)
    BY <1>6, <1>9, <2>2 DEF UseMemory, Placed, Nowhere, ReadLine, WriteModes, ReadModes
  <2> QED BY <1>2, <1>3, <1>5, <1>6, <1>8, <1>9, <2>1, <2>3 DEF PlacedAfter, WriteModes
<1>10. CASE Mode = "SHARED"
  <2>0. PlacesOf(Mode) = NUM_SHARED_CPUS + 1 /\ i \in Nat
    BY <1>1, <1>10 DEF PlacesOf, WriteModes
  <2>1. CASE i = 1
    <3>1. n = UseMemory(l, T, "EXCLUSIVE", p)
      BY <1>6, <1>8, <1>10, <2>1 DEF PlaceStep, WriteModes, Step
    <3>2. Only(n, T, "E")
      BY <3>1 DEF UseMemory, Only, Nowhere, ReadLine, ReadModes
    <3> QED BY <1>1, <1>2, <1>3, <1>6, <1>8, <1>10, <2>0, <2>1, <3>2 DEF PlacedAfter
  <2>2. CASE i # 1
    <3>1. PICK c \in Threads : c = FRST_SHARE_CPU + i - 2
      BY <1>1, <2>0, Sharers DEF Threads, FRST_SHARE_CPU
    <3>2. c # T /\ (c = F <=> i = 2)
      <4>1. T < FRST_SHARE_CPU /\ T \in Nat /\ FRST_SHARE_CPU \in Nat
        BY <1>1, <1>6 DEF FRST_SHARE_CPU
      <4>2. i - 2 >= 0
        BY <2>0, <2>2
      <4> QED BY <1>5, <2>0, <3>1, <4>1, <4>2
    <3>3. n = ReadLine(l, c, p)
      BY <1>8, <1>10, <2>2, <3>1 DEF PlaceStep, WriteModes, Step, UseMemory, ReadModes
    <3>4. n[T] = "S" /\ n[F] \in {"S", "F"}
      <4>1. CASE i = 2
        <5>1. l = [Nowhere(l) EXCEPT ![T] = "E"]
          BY <1>6, <1>10, <4>1 DEF PlacedAfter, Only
        <5>2. l[T] = "E" /\ \A d \in Threads : d # T => l[d] = "I"
          BY <5>1 DEF Nowhere
        <5> QED BY <1>4, <1>7, <3>2, <3>3, <4>1, <5>2 DEF ReadLine
      <4>2. CASE i # 2
        <5>1. i - 1 > 1
          BY <2>0, <2>2, <4>2
        <5>2. l[T] = "S" /\ l[F] \in {"S", "F"}
          BY <1>5, <1>6, <1>10, <5>1 DEF PlacedAfter, Placed
        <5> QED BY <1>4, <1>7, <3>2, <3>3, <4>2, <5>2 DEF ReadLine
      <4> QED BY <4>1, <4>2
    <3>5. Placed(n, t, FRST_SHARE_CPU, Mode, p)
      BY <1>5, <1>6, <1>10, <3>4 DEF Placed
    <3> QED BY <1>3, <1>8, <1>10, <2>2, <3>5 DEF PlacedAfter
  <2> QED BY <2>1, <2>2
<1>11. CASE Mode = "FORWARD"
  <2>0. PlacesOf(Mode) = NUM_SHARED_CPUS + 1 /\ i \in Nat
    BY <1>1, <1>11 DEF PlacesOf, WriteModes
  <2>1. CASE i = 1
    <3>1. n = UseMemory(l, F, "EXCLUSIVE", p)
      BY <1>5, <1>8, <1>11, <2>1 DEF PlaceStep, WriteModes, Step
    <3>2. n[T] = "I" /\ n[F] = "E"
      BY <1>7, <3>1 DEF UseMemory, Only, Nowhere, ReadLine, ReadModes
    <3> QED BY <1>1, <1>2, <1>3, <1>5, <1>6, <1>8, <1>11, <2>0, <2>1, <3>2 DEF PlacedAfter
  <2>2. CASE i # 1
    <3>1. l[T] = "I" /\ l[F] \in {"E", "S"}
      <4>1. 0 < i - 1 /\ i - 1 < Places
        BY <1>1, <1>2, <2>0, <2>2
      <4> QED BY <1>5, <1>6, <1>11, <4>1 DEF PlacedAfter
    <3>2. CASE i = NUM_SHARED_CPUS + 1
      <4>1. n = ReadLine(l, T, p)
        BY <1>1, <1>6, <1>8, <1>11, <2>2, <3>2
           DEF PlaceStep, WriteModes, Step, UseMemory, ReadModes
      <4>2. n[T] = (IF p = "MESIF" THEN "F" ELSE "S") /\ n[F] = "S"
        BY <1>4, <1>7, <3>1, <4>1 DEF ReadLine
      <4>3. Placed(n, t, FRST_SHARE_CPU, Mode, p)
        BY <1>5, <1>6, <1>11, <4>2 DEF Placed
      <4>4. ~(i < Places)
        BY <1>1, <1>2, <2>0, <3>2
      <4> QED BY <1>3, <1>8, <1>11, <4>3, <4>4 DEF PlacedAfter
    <3>3. CASE i # NUM_SHARED_CPUS + 1
      <4>0. i <= NUM_SHARED_CPUS /\ i - 1 \in 0 .. NUM_SHARED_CPUS - 1 /\ i # Places
        BY <1>1, <1>2, <2>0, <3>3
      <4>1. PICK c \in Threads : c = FRST_SHARE_CPU + i - 1
        BY <1>1, <2>0, <4>0, Sharers DEF Threads, FRST_SHARE_CPU
      <4>2. c # T
        BY <1>1, <1>6, <2>0, <4>0, <4>1, Sharers DEF FRST_SHARE_CPU
      <4>3. n = ReadLine(l, c, p)
        BY <1>8, <1>11, <2>2, <4>0, <4>1 DEF PlaceStep, WriteModes, Step, UseMemory, ReadModes
      <4>4. c # F
        BY <1>1, <1>5, <2>0, <2>2, <4>1 DEF FRST_SHARE_CPU
      <4>5. n[T] = "I" /\ n[F] \in {"E", "S"}
        BY <1>4, <1>7, <3>1, <4>2, <4>3, <4>4 DEF ReadLine
      <4> QED BY <1>3, <1>5, <1>6, <1>8, <1>11, <2>2, <4>0, <4>5 DEF PlacedAfter
    <3> QED BY <3>2, <3>3
  <2> QED BY <2>1, <2>2
<1>12. CASE Mode = "OWNED"
  <2>0. PlacesOf(Mode) = 2 /\ i \in {1, 2}
    BY <1>12 DEF PlacesOf, WriteModes
  <2>1. CASE i = 1
    <3>1. n = UseMemory(l, T, "MODIFIED", p)
      BY <1>6, <1>8, <1>12, <2>1 DEF PlaceStep, WriteModes, Step
    <3>2. Only(n, T, "M")
      BY <3>1 DEF UseMemory, Only, Nowhere, ReadModes
    <3> QED BY <1>2, <1>3, <1>6, <1>8, <1>12, <2>0, <2>1, <3>2 DEF PlacedAfter
  <2>2. CASE i = 2
    <3>1. n = ReadLine(l, F, p)
      BY <1>5, <1>8, <1>12, <2>2 DEF PlaceStep, WriteModes, Step, UseMemory, ReadModes
    <3>2. l = [Nowhere(l) EXCEPT ![T] = "M"]
      BY <1>6, <1>12, <2>2 DEF PlacedAfter, Only
    <3>3. l[T] = "M" /\ l[F] = "I"
      BY <1>7, <3>2 DEF Nowhere
    <3>4. n[T] = (IF p = "MOESI" THEN "O" ELSE "S") /\ n[F] \in {"S", "F"}
      BY <1>4, <1>7, <3>1, <3>3 DEF ReadLine
    <3>5. Placed(n, t, FRST_SHARE_CPU, Mode, p)
      BY <1>5, <1>6, <1>12, <3>4 DEF Placed
    <3> QED BY <1>3, <1>8, <1>12, <2>2, <3>5 DEF PlacedAfter
  <2> QED BY <2>0, <2>1, <2>2
<1>13. CASE Mode = "MUW"
  <2>0. PlacesOf(Mode) = 2 /\ i \in {1, 2}
    BY <1>13 DEF PlacesOf, WriteModes
  <2>1. CASE i = 1
    <3>1. n = UseMemory(l, F, "MODIFIED", p)
      BY <1>5, <1>8, <1>13, <2>1 DEF PlaceStep, WriteModes, Step
    <3>2. Only(n, F, "M")
      BY <3>1 DEF UseMemory, Only, Nowhere, ReadModes
    <3> QED BY <1>2, <1>3, <1>5, <1>8, <1>13, <2>0, <2>1, <3>2 DEF PlacedAfter
  <2>2. CASE i = 2
    <3>1. n = ReadLine(l, T, p)
      BY <1>6, <1>8, <1>13, <2>2 DEF PlaceStep, WriteModes, Step, UseMemory, ReadModes
    <3>2. l = [Nowhere(l) EXCEPT ![F] = "M"]
      BY <1>5, <1>13, <2>2 DEF PlacedAfter, Only
    <3>3. l[F] = "M" /\ l[T] = "I"
      BY <1>7, <3>2 DEF Nowhere
    <3>4. n[F] = (IF p = "MOESI" THEN "O" ELSE "S") /\ n[T] \in {"S", "F"}
      BY <1>4, <1>7, <3>1, <3>3 DEF ReadLine
    <3>5. Placed(n, t, FRST_SHARE_CPU, Mode, p)
      BY <1>5, <1>6, <1>13, <3>4 DEF Placed
    <3> QED BY <1>3, <1>8, <1>13, <2>2, <3>5 DEF PlacedAfter
  <2> QED BY <2>0, <2>1, <2>2
<1> QED BY ModeCases, <1>9, <1>10, <1>11, <1>12, <1>13

\* What a worker of a call of the placement works on, and in which mode.
LEMMA PlacementCall ==
  ASSUME IInv, PlaceInv, UseArgInv, mpc \in CallPCs, Taken <= Places,
         At(cur.who, "using")
  PROVE  /\ cur = PlaceStep(t, Mode, Taken) /\ Taken \in 1 .. Places
         /\ arg[cur.who].buffer = t /\ arg[cur.who].mode = cur.mode
<1>1. /\ TypeOK /\ setup \in Setups /\ t \in 0 .. NUM_RESULTS - 1
      /\ cur.who \in Team
  BY Called, TeamFacts DEF IInv, MasterInv, TypeOK
<1>2. /\ Taken \in 0 .. Len(Script(t)) /\ Taken >= 1 /\ cur = Script(t)[Taken]
      /\ cur.what = "USE_MEMORY" => use_mode[cur.who] = cur.mode
  BY DEF PlaceInv, InScript, CallPCs
<1>3. /\ Places = PlacesOf(Mode) /\ Places \in Nat
      /\ cur = PlaceStep(t, Mode, Taken) /\ Taken \in 1 .. Places
  BY <1>1, <1>2, ScriptStart DEF Places
<1>4. cur.what = "USE_MEMORY" /\ (cur.who = t \/ IsShareCpu(cur.who))
  <2>1. /\ NUM_SHARED_CPUS \in Nat /\ NUM_SHARED_CPUS >= 1
        /\ NUM_RESULTS \in Nat /\ NUM_RESULTS >= 1
    BY ConstantsAssumption
  <2>2. PICK i : i = Taken
    OBVIOUS
  <2>3. i \in 1 .. PlacesOf(Mode)
    BY <1>3, <2>2
  <2> QED BY <1>1, <1>3, <2>1, <2>2, <2>3, ModeCases
         DEF PlaceStep, PlacesOf, Step, IsShareCpu, FRST_SHARE_CPU, WriteModes
<1>5. arg[cur.who] = [buffer |-> aligned_addr[cur.who], mode |-> use_mode[cur.who]]
  BY <1>1 DEF UseArgInv
<1>6. aligned_addr[cur.who] = IF Lent(cur.who) THEN t ELSE cur.who
  BY <1>1 DEF IInv, AddrInv, At
<1>7. aligned_addr[cur.who] = t
  BY <1>1, <1>4, <1>6, Sharers DEF Lent
<1> QED BY <1>2, <1>3, <1>4, <1>5, <1>7

\* A step that keeps the target and the rest of the script keeps the position in it.
LEMMA ScriptKept ==
  ASSUME UNCHANGED <<t, todo, setup>>
  PROVE  /\ Taken' = Taken /\ Places' = Places /\ Mode' = Mode
         /\ Script(t)' = Script(t)
         /\ \A l, p : PlacedAfter(l, p)' <=> PlacedAfter(l, p)
<1>1. \A tgt : Script(tgt)' = Script(tgt)
  BY DEF Script, Placement, Flushing, ShareFlush, UsesShareCpus
<1>2. Places' = Places /\ Mode' = Mode
  BY DEF Places, Mode
<1>3. Taken' = Taken
  BY <1>1 DEF Taken
<1> QED BY <1>1, <1>2, <1>3 DEF PlacedAfter

\* What a worker works with is not changed while it works.
LEMMA UseArgWorker ==
  ASSUME IInv, UseArgInv, NEW w \in Workers, Worker(w), UNCHANGED setup
  PROVE  UseArgInv'
<1>1. /\ TypeOK /\ setup \in Setups
      /\ Team' = Team /\ Team \subseteq Workers /\ Workers \subseteq Threads
  BY TeamFacts DEF IInv, TypeOK, Team, NumThreads, UsesShareCpus
<1> QED BY ZenonT(30), <1>1 DEF UseArgInv, TypeOK, Worker, SeeInit, AckInit, InitBuffer,
     AcceptUse, AckUse, CallUseMemory, FinishUseMemory, AcceptFlush, AckFlush, FinishFlush,
     SeeWait, AckWait, Exit, Spin, Accept, Goto, At, worker, SetAck, shared, params

LEMMA UseArgMaster ==
  ASSUME IInv, UseArgInv, Master, UNCHANGED setup
  PROVE  UseArgInv'
<1>1. /\ TypeOK /\ setup \in Setups
      /\ Team' = Team /\ Team \subseteq Workers /\ Workers \subseteq Threads
  BY TeamFacts DEF IInv, TypeOK, Team, NumThreads, UsesShareCpus
<1>2. CASE CreateWorker
  BY <1>1, <1>2 DEF CreateWorker, UseArgInv, TypeOK, At, Goto
<1>3. CASE PostUse
  <2>1. \A w \in Team : At(w, "poll")
    BY <1>3 DEF IInv, WorkerInv, PostUse, MasterAt, Quiet
  <2> QED BY <1>1, <1>3, <2>1 DEF PostUse, UseArgInv, worker, At
<1>4. CASE ClearDone
  <2>1. mpc \in CallPCs /\ mpc = "clearDone"
    BY <1>4 DEF ClearDone, MasterAt, CallPCs
  <2>2. \A w \in Team : At(w, "poll")
    BY <2>1 DEF IInv, WorkerInv, Engaged, CallPCs, Quiet
  <2> QED BY <1>1, <1>4, <2>2 DEF ClearDone, UseArgInv, worker, At
<1>5. CASE ~CreateWorker /\ ~PostUse /\ ~ClearDone
  <2>1. UNCHANGED <<worker, params>>
    BY <1>5 DEF Master, AwaitCreated, InitOwnBuffer, ClearBeforeRelease, ReleaseWorker,
       AwaitReleased, InitReturns, BeginEntry, BeginRun, EndRun, NextTarget, EndEntry,
       BeginLocal, EndLocal, PostFlush, AwaitAccepted, ClearAccepted, Withdraw,
       AwaitWaiting, ClearWaiting, AwaitDone, BeginCleanup, ClearBeforeStop,
       PostStop, Join, FreeAll
  <2> QED BY <1>1, <2>1 DEF UseArgInv, worker, params, At
<1> QED BY <1>2, <1>3, <1>4, <1>5

\* A worker's step keeps the line where the script says it is: only the end of
\* use_memory() changes it while the placement lasts, and sets done with it.
LEMMA PlaceWorker ==
  ASSUME IInv, IInv', PlaceInv, UseArgInv, NEW w \in Workers, Worker(w), UNCHANGED setup
  PROVE  PlaceInv'
<1>1. /\ UNCHANGED <<t, todo, setup, mpc, cur>>
  BY DEF Worker, masterVars, loops, steps
<1>2. /\ Taken' = Taken /\ Places' = Places /\ Script(t)' = Script(t)
      /\ \A l, p : PlacedAfter(l, p)' <=> PlacedAfter(l, p)
  BY <1>1, ScriptKept
<1>3. UNCHANGED use_mode
  BY DEF Worker, SeeInit, AckInit, InitBuffer, AcceptUse, AckUse, CallUseMemory,
     FinishUseMemory, AcceptFlush, AckFlush, FinishFlush, SeeWait, AckWait, Exit, Spin,
     Accept, params
<1>4. SUFFICES ASSUME InScript, Taken <= Places
               PROVE  PlacedAfter(line'[t],
               IF mpc = "step" \/ done' # 0 THEN Taken ELSE Taken - 1)
  <2>1. InScript' <=> InScript
    BY <1>1 DEF InScript
  <2>2. SUFFICES ASSUME InScript PROVE PlaceInv'
    BY <2>1 DEF PlaceInv
  <2>3. /\ (Taken \in 0 .. Len(Script(t)))'
        /\ (\A i \in 1 .. Len(todo) : todo[i] = Script(t)[Taken + i])'
        /\ (mpc # "step" => Taken >= 1 /\ cur = Script(t)[Taken])'
    BY <1>1, <1>2, <2>2 DEF PlaceInv
  <2>4. (mpc \in CallPCs /\ cur.what = "USE_MEMORY" => use_mode[cur.who] = cur.mode)'
    BY <1>1, <1>3, <2>2 DEF PlaceInv
  <2>5. (Taken <= Places =>
            PlacedAfter(line[t], IF mpc = "step" \/ done # 0 THEN Taken ELSE Taken - 1))'
    BY <1>1, <1>2, <2>2
  <2> QED BY <2>3, <2>4, <2>5 DEF PlaceInv
<1>5. /\ TypeOK /\ MasterInv /\ setup \in Setups /\ t \in 0 .. NUM_RESULTS - 1 /\ t \in Threads
  BY <1>4, Sharers, ConstantsAssumption DEF IInv, MasterInv, TypeOK, InScript
<1>6. PlacedAfter(line[t], IF mpc = "step" \/ done # 0 THEN Taken ELSE Taken - 1)
  BY <1>4 DEF PlaceInv
<1>7. w \in Team /\ WorkerInv(w)
  BY <1>5 DEF IInv, Worker, SeeInit, AckInit, InitBuffer, AcceptUse, AckUse,
       CallUseMemory, FinishUseMemory, AcceptFlush, AckFlush, FinishFlush,
       SeeWait, AckWait, Exit, Spin, Accept, At
<1>8. ~InitBuffer(w)
  BY <1>4, <1>7 DEF InitBuffer, WorkerInv, InScript, Quiet, Engaged, Busy, WorkPCs, AckPC, At,
                    CallPCs
<1>9. CASE FinishUseMemory(w)
  <2>1. mpc \in CallPCs /\ w = cur.who /\ Engaged(w)
    BY <1>5, <1>7, <1>9, PartnerOf DEF FinishUseMemory, Quiet, Initialising, Booting, Waking,
                                       Stopping, At
  <2>2. done = 0
    BY <1>9, <2>1 DEF Engaged, Busy, Quiet, AckPC, FinishUseMemory, At, CallPCs
  <2>3. /\ cur = PlaceStep(t, Mode, Taken) /\ Taken \in 1 .. Places
        /\ arg[w].buffer = t /\ arg[w].mode = cur.mode
    BY <1>4, <1>9, <2>1, PlacementCall DEF FinishUseMemory
  <2>4. mpc # "step"
    BY <2>1 DEF CallPCs
  <2>5. PlacedAfter(line[t], Taken - 1)
    BY <1>6, <2>2, <2>4
  <2>6. Places = PlacesOf(Mode)
    BY <1>5, ScriptStart DEF Places
  <2>7. PlacedAfter(UseMemory(line[t], w, cur.mode, setup.protocol), Taken)
    <3>1. line[t] \in [Threads -> LineStates]
      BY <1>5 DEF TypeOK
    <3> QED BY <1>5, <2>1, <2>3, <2>5, <2>6, <3>1, PlacedNext
  <2>8. line'[t] = UseMemory(line[t], w, cur.mode, setup.protocol) /\ done' # 0
    BY <1>5, <1>9, <2>3, TeamFacts DEF FinishUseMemory, TypeOK
  <2> QED BY <2>7, <2>8
<1>10. CASE ~FinishUseMemory(w)
  <2>1. UNCHANGED <<line, done>>
    <3>1. ~FinishFlush(w)
      <4>1. SUFFICES ASSUME FinishFlush(w) PROVE FALSE
        OBVIOUS
      <4>2. mpc \in CallPCs /\ w = cur.who /\ Engaged(w)
        BY <1>5, <1>7, <4>1, PartnerOf DEF FinishFlush, Quiet, Initialising, Booting, Waking,
                                           Stopping, At
      <4>3. cur.what # "USE_MEMORY"
        BY <4>1, <4>2 DEF Engaged, Busy, Quiet, AckPC, WorkPCs, FinishFlush, At, CallPCs
      <4>4. mpc # "step"
        BY <4>2 DEF CallPCs
      <4>5. Taken \in 1 .. PlacesOf(Mode) /\ cur = PlaceStep(t, Mode, Taken)
        BY <1>4, <1>5, <4>4, ScriptStart DEF PlaceInv, Places
      <4> QED BY <1>5, <4>3, <4>5, ModeCases DEF PlaceStep, Step, WriteModes
    <3> QED BY <1>8, <1>10, <3>1 DEF Worker, SeeInit, AckInit, AcceptUse, AckUse,
         CallUseMemory, AcceptFlush, AckFlush, SeeWait, AckWait, Exit, Spin,
         Accept, shared, SetAck
  <2> QED BY <1>6, <2>1
<1> QED BY <1>9, <1>10

\* The step the master takes from todo is the next one of the script.
LEMMA TakeNext ==
  ASSUME IInv, PlaceInv, mpc = "step", todo # <<>>,
         todo' = Tail(todo), cur' = Head(todo), UNCHANGED <<t, setup>>
  PROVE  /\ Taken' = Taken + 1 /\ Taken' \in 1 .. Len(Script(t)) /\ Taken \in Nat
         /\ cur' = Script(t)[Taken'] /\ Script(t)' = Script(t) /\ Places' = Places
         /\ \A i \in 1 .. Len(todo') : todo'[i] = Script(t)[Taken' + i]
         /\ \A l, p : PlacedAfter(l, p)' <=> PlacedAfter(l, p)
<1>1. /\ Taken \in 0 .. Len(Script(t))
      /\ \A i \in 1 .. Len(todo) : todo[i] = Script(t)[Taken + i]
  BY DEF PlaceInv, InScript
<1>2. PICK S : S = StepType
  OBVIOUS
<1>3. todo \in Seq(S) /\ setup \in Setups /\ t \in 0 .. NUM_RESULTS - 1
  BY <1>2, ConstantsAssumption DEF IInv, TypeOK, MasterInv
<1>4. Len(todo) \in Nat /\ Len(todo) >= 1 /\ Len(Tail(todo)) = Len(todo) - 1
  BY <1>3
<1>5. Head(todo) = todo[1] /\ \A i \in 1 .. Len(todo) - 1 : Tail(todo)[i] = todo[i + 1]
  BY <1>3
<1>6. Script(t)' = Script(t) /\ Places' = Places
  BY DEF Script, Placement, Flushing, ShareFlush, UsesShareCpus, Places, Mode
<1>7. PICK n \in Nat : n = Len(Script(t))
  BY <1>3, ScriptStart
<1>8. PICK k \in 0 .. n : k = Taken
  BY <1>1, <1>7
<1>9. k = n - Len(todo)
  BY <1>7, <1>8 DEF Taken
<1>10. Taken' = n - (Len(todo) - 1)
  BY <1>4, <1>6, <1>7 DEF Taken
<1>11. Taken' = k + 1 /\ k + 1 <= n
  BY <1>4, <1>9, <1>10
<1>12. todo[1] = Script(t)[k + 1]
  BY <1>1, <1>4, <1>8
<1>13. ASSUME NEW i \in 1 .. Len(todo')
       PROVE  todo'[i] = Script(t)[Taken' + i]
  <2>1. i \in 1 .. Len(todo) - 1 /\ i + 1 \in 1 .. Len(todo)
    BY <1>4, <1>13
  <2>2. todo[i + 1] = Script(t)[k + (i + 1)]
    BY <1>1, <1>8, <2>1
  <2>3. k + (i + 1) = Taken' + i
    BY <1>11, <2>1
  <2> QED BY <1>5, <2>1, <2>2, <2>3
<1>14. \A l, p : PlacedAfter(l, p)' <=> PlacedAfter(l, p)
  BY <1>6 DEF PlacedAfter, Mode
<1> QED BY <1>5, <1>6, <1>7, <1>8, <1>11, <1>12, <1>13, <1>14

\* A step of the master keeps the line where the script says it is.
LEMMA PlaceMaster ==
  ASSUME IInv, IInv', PlaceInv, Master, UNCHANGED setup
  PROVE  PlaceInv'
<1>1. CASE mpc' \notin {"step", "local"} \cup CallPCs
  BY <1>1 DEF PlaceInv, InScript
<1>2. CASE BeginRun
  <2>1. UNCHANGED <<t, setup, line>> /\ todo' = Script(t) /\ mpc' = "step" /\ mpc = "loop"
    BY <1>2 DEF BeginRun, MasterAt, MasterGoto
  <2>2. setup \in Setups /\ t \in 0 .. NUM_RESULTS - 1
    BY <1>2, <2>1, ConstantsAssumption DEF BeginRun, IInv, MasterInv, TypeOK
  <2>3. Script(t)' = Script(t) /\ Places' = Places
    BY <2>1 DEF Script, Placement, Flushing, ShareFlush, UsesShareCpus, Places, Mode
  <2>4. Len(Script(t)) \in Nat /\ Taken' = 0
    BY <2>1, <2>2, <2>3, ScriptStart DEF Taken
  <2>5. PlacedAfter(line[t], 0)
    BY <2>2, ScriptStart DEF PlacedAfter, Places
  <2>6. PlacedAfter(line[t], 0)'
    BY <2>1, <2>3, <2>5 DEF PlacedAfter, Mode
  <2>7. \A i \in 1 .. Len(todo') : todo'[i] = Script(t)[0 + i]
    BY <2>1, <2>2, <2>4
  <2>8. ~(mpc' \in CallPCs)
    BY <2>1 DEF CallPCs
  <2>9. /\ (Taken \in 0 .. Len(Script(t)))'
        /\ (\A i \in 1 .. Len(todo) : todo[i] = Script(t)[Taken + i])'
    BY <2>1, <2>3, <2>4, <2>7
  <2>10. (Taken <= Places =>
            PlacedAfter(line[t], IF mpc = "step" \/ done # 0 THEN Taken ELSE Taken - 1))'
    BY <2>1, <2>4, <2>6
  <2> QED BY <2>1, <2>8, <2>9, <2>10 DEF PlaceInv
<1>3. CASE BeginLocal
  <2>1. /\ UNCHANGED <<t, setup, line, done>> /\ mpc = "step" /\ mpc' = "local"
        /\ todo # <<>> /\ todo' = Tail(todo) /\ cur' = Head(todo)
    BY <1>3 DEF BeginLocal, MasterAt, MasterGoto, shared, loops
  <2>2. done' = 0 /\ ~(mpc' \in CallPCs)
    BY <2>1 DEF IInv, MasterInv, CallPCs
  <2>3. Taken <= Places => PlacedAfter(line[t], Taken)
    BY <2>1 DEF PlaceInv, InScript
  <2>4. /\ Taken' = Taken + 1 /\ Taken' \in 1 .. Len(Script(t)) /\ Taken \in Nat
        /\ cur' = Script(t)[Taken'] /\ Script(t)' = Script(t) /\ Places' = Places
        /\ \A i \in 1 .. Len(todo') : todo'[i] = Script(t)[Taken' + i]
        /\ \A l, p : PlacedAfter(l, p)' <=> PlacedAfter(l, p)
    BY <2>1, TakeNext
  <2>5. /\ (Taken \in 0 .. Len(Script(t)))'
        /\ (\A i \in 1 .. Len(todo) : todo[i] = Script(t)[Taken + i])'
        /\ (mpc # "step" => Taken >= 1 /\ cur = Script(t)[Taken])'
    BY <2>4
  <2>6. (Taken <= Places =>
           PlacedAfter(line[t], IF mpc = "step" \/ done # 0 THEN Taken ELSE Taken - 1))'
    <3>1. SUFFICES ASSUME Taken' <= Places' PROVE PlacedAfter(line[t], Taken)
      BY <2>1, <2>2, <2>4
    <3>2. Places \in Nat
      BY <2>1, ScriptStart, ConstantsAssumption DEF Places, IInv, TypeOK, MasterInv
    <3> QED BY <2>3, <2>4, <3>1, <3>2
  <2>7. (mpc \in CallPCs /\ cur.what = "USE_MEMORY" => use_mode[cur.who] = cur.mode)'
    BY <2>2
  <2> QED BY <2>5, <2>6, <2>7, Zenon DEF PlaceInv
<1>4. CASE PostUse \/ PostFlush
  <2>1. /\ UNCHANGED <<t, setup, line, done>> /\ mpc = "step" /\ mpc' = "await1"
        /\ todo # <<>> /\ todo' = Tail(todo) /\ cur' = Head(todo)
    BY <1>4 DEF PostUse, PostFlush, MasterAt, MasterGoto, shared, loops
  <2>2. done' = 0
    BY <2>1 DEF IInv, MasterInv, CallPCs
  <2>3. Taken <= Places => PlacedAfter(line[t], Taken)
    BY <2>1 DEF PlaceInv, InScript
  <2>4. /\ Taken' = Taken + 1 /\ Taken' \in 1 .. Len(Script(t)) /\ Taken \in Nat
        /\ cur' = Script(t)[Taken'] /\ Script(t)' = Script(t) /\ Places' = Places
        /\ \A i \in 1 .. Len(todo') : todo'[i] = Script(t)[Taken' + i]
        /\ \A l, p : PlacedAfter(l, p)' <=> PlacedAfter(l, p)
    BY <2>1, TakeNext
  <2>5. /\ (Taken \in 0 .. Len(Script(t)))'
        /\ (\A i \in 1 .. Len(todo) : todo[i] = Script(t)[Taken + i])'
        /\ (mpc # "step" => Taken >= 1 /\ cur = Script(t)[Taken])'
    BY <2>4
  <2>6. (Taken <= Places =>
           PlacedAfter(line[t], IF mpc = "step" \/ done # 0 THEN Taken ELSE Taken - 1))'
    <3>1. SUFFICES ASSUME Taken' <= Places' PROVE PlacedAfter(line[t], Taken)
      BY <2>1, <2>2, <2>4
    <3>2. Places \in Nat
      BY <2>1, ScriptStart, ConstantsAssumption DEF Places, IInv, TypeOK, MasterInv
    <3> QED BY <2>3, <2>4, <3>1, <3>2
  <2>7. (cur.what = "USE_MEMORY" => use_mode[cur.who] = cur.mode)'
    <3>1. cur'.who \in Workers
      <4>1. /\ Head(todo) \in StepType /\ Head(todo).who # 0
        BY <1>4 DEF PostUse, PostFlush, IInv, TypeOK
      <4> QED BY <2>1, <4>1 DEF StepType, Threads, Workers
    <3>2. CASE PostUse
      BY <2>1, <3>1, <3>2 DEF PostUse, IInv, TypeOK
    <3>3. CASE PostFlush
      BY <2>1, <3>3 DEF PostFlush, Flushes
    <3> QED BY <1>4, <3>2, <3>3
  <2> QED BY <2>5, <2>6, <2>7 DEF PlaceInv
<1>5. CASE EndLocal
  <2>1. /\ UNCHANGED <<t, todo, setup, done>> /\ mpc = "local" /\ mpc' = "step"
    BY <1>5 DEF EndLocal, MasterAt, MasterGoto, shared, loops
  <2>2. /\ setup \in Setups /\ t \in 0 .. NUM_RESULTS - 1 /\ t \in Threads
        /\ cur.who = 0 /\ done = 0 /\ TypeOK
    <3>1. setup \in Setups /\ t \in 0 .. NUM_RESULTS - 1
      BY <2>1, ConstantsAssumption DEF IInv, MasterInv, TypeOK
    <3>2. cur.who = 0 /\ done = 0 /\ TypeOK
      BY <2>1 DEF IInv, MasterInv, LocalSteps, CallPCs
    <3> QED BY <3>1, <3>2, Sharers
  <2>3. /\ Taken \in 1 .. Len(Script(t)) /\ cur = Script(t)[Taken]
        /\ \A i \in 1 .. Len(todo) : todo[i] = Script(t)[Taken + i]
        /\ Taken <= Places => PlacedAfter(line[t], Taken - 1)
    BY <2>1, <2>2 DEF PlaceInv, InScript
  <2>4. /\ Taken' = Taken /\ Places' = Places /\ Script(t)' = Script(t)
        /\ \A l, p : PlacedAfter(l, p)' <=> PlacedAfter(l, p)
    BY <2>1, ScriptKept
  <2>5. ASSUME Taken <= Places PROVE PlacedAfter(line'[t], Taken)
    <3>1. Places = PlacesOf(Mode) /\ Taken \in 1 .. PlacesOf(Mode) /\ cur = PlaceStep(t, Mode,
          Taken)
      BY <2>2, <2>3, <2>5, ScriptStart DEF Places
    <3>2. cur.what = "USE_MEMORY" /\ t = 0
      <4>1. /\ NUM_SHARED_CPUS \in Nat /\ NUM_SHARED_CPUS >= 1
            /\ NUM_RESULTS \in Nat /\ NUM_RESULTS >= 1
        BY ConstantsAssumption
      <4>2. PICK i : i = Taken
        OBVIOUS
      <4> QED BY <2>2, <3>1, <4>1, <4>2, ModeCases
          DEF PlaceStep, PlacesOf, Step, FRST_SHARE_CPU, WriteModes
    <3>3. line'[t] = UseMemory(line[t], cur.who, cur.mode, setup.protocol)
      BY <1>5, <2>2, <3>2 DEF EndLocal, TypeOK
    <3>4. line[t] \in [Threads -> LineStates]
      BY <2>2 DEF TypeOK
    <3> QED BY <2>2, <2>3, <2>5, <3>1, <3>3, <3>4, PlacedNext
  <2>6. /\ (Taken \in 0 .. Len(Script(t)))'
        /\ (\A i \in 1 .. Len(todo) : todo[i] = Script(t)[Taken + i])'
    BY <2>1, <2>3, <2>4
  <2>7. (Taken <= Places => PlacedAfter(line[t], Taken))'
    BY <2>1, <2>4, <2>5
  <2>8. ~(mpc' \in CallPCs)
    BY <2>1 DEF CallPCs
  <2> QED BY <2>1, <2>6, <2>7, <2>8 DEF PlaceInv
<1>6. CASE /\ \/ AwaitAccepted \/ ClearAccepted \/ Withdraw \/ AwaitWaiting \/ AwaitDone
              \/ ClearWaiting
           /\ mpc' \in CallPCs
  <2>1. UNCHANGED <<t, todo, cur, setup, done, line, use_mode>> /\ mpc \in CallPCs
    BY <1>6 DEF AwaitAccepted, ClearAccepted, Withdraw, AwaitWaiting, AwaitDone, ClearWaiting,
       MasterAt, shared, params, loops, steps, CallPCs
  <2>2. /\ Taken' = Taken /\ Places' = Places /\ Script(t)' = Script(t)
        /\ \A l, p : PlacedAfter(l, p)' <=> PlacedAfter(l, p)
    BY <2>1, ScriptKept
  <2>3. mpc # "step" /\ mpc' # "step"
    BY <1>6, <2>1 DEF CallPCs
  <2>4. /\ Taken \in 0 .. Len(Script(t)) /\ Taken >= 1 /\ cur = Script(t)[Taken]
        /\ \A i \in 1 .. Len(todo) : todo[i] = Script(t)[Taken + i]
        /\ cur.what = "USE_MEMORY" => use_mode[cur.who] = cur.mode
        /\ Taken <= Places => PlacedAfter(line[t], IF done # 0 THEN Taken ELSE Taken - 1)
    BY <2>1, <2>3 DEF PlaceInv, InScript
  <2>5. /\ (Taken \in 0 .. Len(Script(t)))'
        /\ (\A i \in 1 .. Len(todo) : todo[i] = Script(t)[Taken + i])'
        /\ (mpc # "step" => Taken >= 1 /\ cur = Script(t)[Taken])'
    BY <2>1, <2>2, <2>4
  <2>6. (Taken <= Places =>
           PlacedAfter(line[t], IF mpc = "step" \/ done # 0 THEN Taken ELSE Taken - 1))'
    BY <2>1, <2>2, <2>3, <2>4
  <2>7. (cur.what = "USE_MEMORY" => use_mode[cur.who] = cur.mode)'
    BY <2>1, <2>4
  <2> QED BY <2>5, <2>6, <2>7 DEF PlaceInv
<1>7. CASE ClearDone \/ (ClearWaiting /\ mpc' \notin CallPCs)
  <2>1. /\ UNCHANGED <<t, todo, cur, setup, line>>
        /\ mpc \in {"clear2", "clearDone"} /\ mpc' = "step" /\ mpc \in CallPCs
    BY <1>7 DEF ClearDone, ClearWaiting, MasterAt, MasterGoto, shared, params, loops, steps,
                CallPCs
  <2>2. /\ Taken' = Taken /\ Places' = Places /\ Script(t)' = Script(t)
        /\ \A l, p : PlacedAfter(l, p)' <=> PlacedAfter(l, p)
    BY <2>1, ScriptKept
  <2>3. /\ Taken \in 1 .. Len(Script(t)) /\ cur = Script(t)[Taken]
        /\ \A i \in 1 .. Len(todo) : todo[i] = Script(t)[Taken + i]
        /\ Taken <= Places => PlacedAfter(line[t], IF done # 0 THEN Taken ELSE Taken - 1)
    BY <2>1 DEF PlaceInv, InScript
  <2>4. setup \in Setups /\ t \in 0 .. NUM_RESULTS - 1
    BY <2>1, ConstantsAssumption DEF IInv, MasterInv, TypeOK
  <2>5. Taken <= Places => done # 0
    <3>1. CASE ClearDone
      BY <2>1, <3>1, Called DEF ClearDone, MasterAt, Engaged
    <3>2. CASE ClearWaiting /\ mpc' \notin CallPCs
      <4>1. cur.what # "USE_MEMORY"
        BY <3>2 DEF ClearWaiting, MasterGoto, CallPCs
      <4>2. SUFFICES ASSUME Taken <= Places PROVE FALSE
        OBVIOUS
      <4>3. Taken \in 1 .. PlacesOf(Mode) /\ cur = PlaceStep(t, Mode, Taken)
        BY <2>3, <2>4, <4>2, ScriptStart DEF Places
      <4> QED BY <2>4, <4>1, <4>3, ModeCases DEF PlaceStep, Step, WriteModes
    <3> QED BY <1>7, <3>1, <3>2
  <2>6. /\ (Taken \in 0 .. Len(Script(t)))'
        /\ (\A i \in 1 .. Len(todo) : todo[i] = Script(t)[Taken + i])'
    BY <2>1, <2>2, <2>3
  <2>7. (Taken <= Places => PlacedAfter(line[t], Taken))'
    BY <2>1, <2>2, <2>3, <2>5
  <2>8. ~(mpc' \in CallPCs)
    BY <2>1 DEF CallPCs
  <2> QED BY <2>1, <2>6, <2>7, <2>8 DEF PlaceInv
<1>8. CASE NextTarget \/ EndRun \/ EndEntry
  BY <1>1, <1>8 DEF NextTarget, EndRun, EndEntry, MasterAt, MasterGoto, CallPCs
<1>9. CASE \/ CreateWorker \/ AwaitCreated \/ InitOwnBuffer \/ ClearBeforeRelease
           \/ ReleaseWorker \/ AwaitReleased \/ InitReturns \/ BeginEntry \/ BeginCleanup
           \/ ClearBeforeStop \/ PostStop \/ Join \/ FreeAll
  BY <1>1, <1>9 DEF CreateWorker, AwaitCreated, InitOwnBuffer, ClearBeforeRelease,
     ReleaseWorker, AwaitReleased, InitReturns, BeginEntry, BeginCleanup, ClearBeforeStop,
     PostStop, Join, FreeAll, MasterAt, MasterGoto, CallPCs
<1>10. CASE (AwaitAccepted \/ ClearAccepted \/ Withdraw \/ AwaitWaiting \/ AwaitDone)
            /\ mpc' \notin CallPCs
  BY <1>10 DEF AwaitAccepted, ClearAccepted, Withdraw, AwaitWaiting, AwaitDone, MasterGoto,
               CallPCs
<1> QED BY <1>2, <1>3, <1>4, <1>5, <1>6, <1>7, <1>8, <1>9, <1>10 DEF Master

\* What use_memory() is given, and where it has brought the line.
PlacementInv == IInv /\ PlaceInv /\ UseArgInv

\* In every reachable state the line is as far as the script is.
THEOREM PlacementInvariant == Spec => []PlacementInv
<1>1. Init => PlacementInv
  BY InitEstablishes, TeamFacts DEF Init, PlacementInv, PlaceInv, InScript, UseArgInv, CallPCs,
     At
<1>2. PlacementInv /\ [Next]_vars => PlacementInv'
  <2> SUFFICES ASSUME PlacementInv, [Next]_vars PROVE PlacementInv'
    OBVIOUS
  <2>1. IInv /\ IInv'
    BY StepPreserves DEF PlacementInv
  <2>2. CASE Master /\ UNCHANGED setup
    BY <2>1, <2>2, PlaceMaster, UseArgMaster DEF PlacementInv
  <2>3. ASSUME NEW w \in Workers, Worker(w), UNCHANGED setup PROVE PlacementInv'
    BY <2>1, <2>3, PlaceWorker, UseArgWorker DEF PlacementInv
  <2>4. CASE UNCHANGED vars
    <3>1. UNCHANGED <<t, todo, setup, mpc, cur, done, use_mode, line, wpc, arg, aligned_addr>>
      BY <2>4 DEF vars, shared, params, worker, loops, steps
    <3>2. /\ Taken' = Taken /\ Places' = Places /\ Script(t)' = Script(t)
          /\ \A l, p : PlacedAfter(l, p)' <=> PlacedAfter(l, p)
      BY <3>1, ScriptKept
    <3>3. PlaceInv'
      BY <3>1, <3>2 DEF PlacementInv, PlaceInv, InScript
    <3>4. UseArgInv'
      BY <3>1 DEF PlacementInv, UseArgInv, At, Team, NumThreads, UsesShareCpus
    <3> QED BY <2>1, <3>3, <3>4 DEF PlacementInv
  <2> QED BY <2>2, <2>3, <2>4 DEF Next, Freed
<1> QED BY <1>1, <1>2, PTL DEF Spec

\* When the flushing is all that is left, the placement is complete.
LEMMA PlacementDone ==
  PlacementInv => PlacedForMeasurement
<1> SUFFICES ASSUME PlacementInv, mpc = "step", todo = Flushing(t) \o Measure
             PROVE  Placed(line[t], t, FRST_SHARE_CPU, setup.USE_MODE, setup.protocol)
  BY DEF PlacedForMeasurement, MasterAt
<1>1. setup \in Setups /\ t \in 0 .. NUM_RESULTS - 1
  BY ConstantsAssumption DEF PlacementInv, IInv, MasterInv, TypeOK
<1>2. Taken = Places /\ Places \in Nat
  BY <1>1, ScriptStart DEF Taken, Places
<1>3. PlacedAfter(line[t], Places)
  BY <1>2 DEF PlacementInv, PlaceInv, InScript
<1> QED BY <1>3 DEF PlacedAfter, Mode

\* For every number of threads and in every USE_MODE, the target's line is in the
\* coherence state the mode names when the caches are about to be flushed.
THEOREM LineIsPlaced == Spec => []PlacedForMeasurement
BY PlacementInvariant, PlacementDone, PTL
----------------------------------------------------------------------------
(***************************************************************************)
(* A measurement that a signal ends.  Until the signal IInv holds.  After  *)
(* it nothing is known of a worker that has not been joined, but the       *)
(* workers before t are gone and the master only stops, joins and frees.   *)
(* Whose buffer a worker may work on depends on which threads are lent     *)
(* buffers at all.                                                         *)
(***************************************************************************)
\* After the signal.
StopInv ==
  /\ TypeOK
  /\ mpc \in {"stop", "stopPost", "join", "freed"}
  /\ t \in 1 .. NumThreads
  /\ mpc \in {"stopPost", "join"} => t < NumThreads
  /\ mpc = "freed" => t = NumThreads
  /\ \A w \in Team : w < t => At(w, "gone")
  /\ \A w \in Workers \ Team : At(w, "none")

\* Only share CPUs are lent buffers, and only those of measured threads.
OwnOrLent(w, b) == b \in {w, NoAddr} \/ (IsShareCpu(w) /\ b \in 0 .. NUM_RESULTS - 1)

LentInv ==
  \A w \in Workers : OwnOrLent(w, aligned_addr[w]) /\ OwnOrLent(w, arg[w].buffer)

AInv == /\ aborted \in BOOLEAN
        /\ IF aborted THEN StopInv ELSE IInv
        /\ LentInv
----------------------------------------------------------------------------
LEMMA AInitially == InitA => AInv
<1> SUFFICES ASSUME InitA PROVE AInv
  OBVIOUS
<1>1. IInv /\ aborted = FALSE
  BY InitEstablishes DEF InitA
<1>2. LentInv
  BY <1>1, TeamFacts DEF InitA, Init, LentInv, OwnOrLent, NoArg, IInv, TypeOK
<1> QED BY <1>1, <1>2 DEF AInv

\* A worker takes its buffer from threaddata, where only its own is stored by itself.
LEMMA WorkerKeepsLent ==
  ASSUME TypeOK, LentInv, NEW w \in Workers, Worker(w)
  PROVE  LentInv'
<1>1. w \in Threads
  BY TeamFacts DEF TypeOK
<1>2. CASE InitBuffer(w)
  BY <1>1, <1>2 DEF InitBuffer, TypeOK, LentInv, OwnOrLent
<1>3. CASE CallUseMemory(w)
  BY <1>3 DEF CallUseMemory, TypeOK, LentInv, OwnOrLent, params
<1>4. CASE FinishUseMemory(w)
  BY <1>4 DEF FinishUseMemory, TypeOK, LentInv, OwnOrLent, params, NoArg
<1>5. CASE ~InitBuffer(w) /\ ~CallUseMemory(w) /\ ~FinishUseMemory(w)
  <2>1. UNCHANGED <<aligned_addr, arg>>
    BY <1>5 DEF Worker, SeeInit, AckInit, AcceptUse, AckUse, AcceptFlush, AckFlush, FinishFlush,
                SeeWait, AckWait, Exit, Spin, Accept, params, worker
  <2> QED BY <2>1 DEF LentInv
<1> QED BY <1>2, <1>3, <1>4, <1>5

\* Before the signal the master lends a share CPU the buffer of the target, and gives
\* its own back.
LEMMA MasterKeepsLent ==
  ASSUME IInv, IInv', LentInv, Master, UNCHANGED setup
  PROVE  LentInv'
<1>0. TypeOK /\ MasterInv /\ setup \in Setups /\ TypeOK' /\ UNCHANGED arg
  BY DEF IInv, TypeOK, Master, CreateWorker, AwaitCreated, InitOwnBuffer, ClearBeforeRelease,
     ReleaseWorker, AwaitReleased, InitReturns, BeginEntry, BeginRun, EndRun, NextTarget,
     EndEntry,
     BeginLocal, EndLocal, PostUse, PostFlush, AwaitAccepted, ClearAccepted, Withdraw,
     AwaitWaiting, ClearWaiting, AwaitDone, ClearDone, BeginCleanup, ClearBeforeStop,
     PostStop, Join, FreeAll, worker
<1>1. CASE PostUse
  <2>1. mpc = "step" /\ t \in 0 .. NUM_RESULTS /\ t < NUM_RESULTS
    BY <1>0, <1>1 DEF PostUse, MasterAt, MasterInv
  <2>2. aligned_addr[t] = t
    <3>1. CASE t = 0
      BY <3>1 DEF IInv, AddrInv
    <3>2. CASE t # 0
      <4>1. t \in Team /\ WorkerInv(t)
        BY <1>0, <2>1, <3>2, TeamFacts DEF IInv
      <4> QED BY <2>1, <4>1 DEF WorkerInv, Quiet, At, IInv, AddrInv, Lent, CallPCs
    <3> QED BY <3>1, <3>2
  <2>3. \A w \in Workers : aligned_addr'[w] = aligned_addr[w] \/ (IsShareCpu(w) /\ aligned_addr'[w] = t)
    BY <1>0, <1>1, <2>2, TeamFacts DEF PostUse, TypeOK
  <2>4. t \in 0 .. NUM_RESULTS - 1
    BY <2>1, ConstantsAssumption
  <2>5. \A w \in Workers : OwnOrLent(w, aligned_addr'[w]) /\ OwnOrLent(w, arg'[w].buffer)
    BY <1>0, <2>3, <2>4 DEF LentInv, OwnOrLent
  <2> QED BY <2>5 DEF LentInv, OwnOrLent
<1>2. CASE ClearDone
  <2>1. mpc \in CallPCs /\ mpc = "clearDone"
    BY <1>2 DEF ClearDone, MasterAt, CallPCs
  <2>2. cur.what = "USE_MEMORY"
    <3>1. cur.who \in Team /\ Engaged(cur.who)
      BY <2>1 DEF IInv, MasterInv, CallSteps, WorkerInv, CallPCs
    <3> QED BY <2>1, <3>1 DEF Engaged
  <2>3. tmp = cur.who
    BY <2>1, <2>2 DEF IInv, AddrInv
  <2>4. \A w \in Workers : aligned_addr'[w] \in {aligned_addr[w], w}
    BY <1>0, <1>2, <2>3, TeamFacts DEF ClearDone, TypeOK
  <2> QED BY <1>0, <2>4 DEF LentInv, OwnOrLent
<1>3. CASE ~PostUse /\ ~ClearDone
  <2>1. UNCHANGED aligned_addr
    BY <1>3 DEF Master, CreateWorker, AwaitCreated, InitOwnBuffer, ClearBeforeRelease,
       ReleaseWorker, AwaitReleased, InitReturns, BeginEntry, BeginRun, EndRun, NextTarget,
       EndEntry,
       BeginLocal, EndLocal, PostFlush, AwaitAccepted, ClearAccepted, Withdraw,
       AwaitWaiting, ClearWaiting, AwaitDone, BeginCleanup, ClearBeforeStop,
       PostStop, Join, FreeAll, params
  <2> QED BY <1>0, <2>1 DEF LentInv
<1> QED BY <1>1, <1>2, <1>3

\* After the signal the master goes through the workers once.
LEMMA MasterStops ==
  ASSUME StopInv, LentInv, Master, UNCHANGED setup
  PROVE  StopInv' /\ LentInv'
<1>0. setup \in Setups /\ NumThreads' = NumThreads /\ Team' = Team
  BY DEF StopInv, TypeOK, Team, NumThreads, UsesShareCpus
<1>1. ClearBeforeStop \/ PostStop \/ Join \/ FreeAll
  BY DEF StopInv, Master, CreateWorker, AwaitCreated, InitOwnBuffer, ClearBeforeRelease,
     ReleaseWorker, AwaitReleased, InitReturns, BeginEntry, BeginRun, EndRun, NextTarget,
     EndEntry,
     BeginLocal, EndLocal, PostUse, PostFlush, AwaitAccepted, ClearAccepted, Withdraw,
     AwaitWaiting, ClearWaiting, AwaitDone, ClearDone, BeginCleanup, MasterAt
<1>2. UNCHANGED <<params, worker, steps, line, done, run, runs, entries>>
  BY <1>1 DEF ClearBeforeStop, PostStop, Join, FreeAll, loops, shared
<1>3. TypeOK'
  <2>1. 0 \in Threads /\ t \in Nat /\ NumThreads \in Nat
    BY <1>0, TeamFacts DEF StopInv, TypeOK
  <2>2. mpc' \in MasterPCs /\ t' \in 0 .. NumThreads
    BY <1>1, <2>1 DEF StopInv, ClearBeforeStop, PostStop, Join, FreeAll, MasterGoto, MasterAt,
                      loops, MasterPCs
  <2>3. ack' \in Threads /\ thread_comm' \in [Workers -> Commands \cup {Unset}]
    BY <1>1, <2>1 DEF StopInv, TypeOK, ClearBeforeStop, PostStop, Join, FreeAll, SetComm,
                      shared, Commands
  <2> QED BY <1>0, <1>2, <2>2, <2>3 DEF StopInv, TypeOK, params, worker, steps
<1>4. LentInv'
  BY <1>2 DEF LentInv, params, worker
<1>5. CASE Join
  <2>1. /\ mpc = "join" /\ mpc' = "stop" /\ t' = t + 1 /\ At(t, "gone")
        /\ t \in Nat /\ t < NumThreads
    BY <1>5 DEF Join, MasterAt, MasterGoto, StopInv
  <2>2. \A w \in Team : w < t' => At(w, "gone")
    BY <1>0, <2>1, TeamFacts DEF StopInv
  <2>3. t' \in 1 .. NumThreads
    BY <1>0, <2>1, TeamFacts
  <2> QED BY <1>0, <1>2, <1>3, <1>4, <2>1, <2>2, <2>3 DEF StopInv, At, worker
<1>6. CASE ClearBeforeStop \/ PostStop \/ FreeAll
  <2>1. /\ t' = t
        /\ mpc' \in {"stopPost", "join", "freed"}
        /\ mpc' \in {"stopPost", "join"} => t < NumThreads
        /\ mpc' = "freed" => t = NumThreads
    BY <1>6 DEF ClearBeforeStop, PostStop, FreeAll, MasterAt, MasterGoto, loops, StopInv
  <2> QED BY <1>0, <1>2, <1>3, <1>4, <2>1 DEF StopInv, At, worker
<1> QED BY <1>1, <1>5, <1>6

LEMMA WorkerStops ==
  ASSUME StopInv, NEW w \in Workers, Worker(w), UNCHANGED setup
  PROVE  StopInv'
<1>1. TypeOK'
  BY TypeWorker DEF StopInv
<1>2. UNCHANGED <<mpc, t>> /\ NumThreads' = NumThreads /\ Team' = Team
  BY DEF Worker, masterVars, loops, NumThreads, UsesShareCpus, Team
<1>3. wpc[w] \notin {"none", "gone"} /\ \A v \in Workers \ {w} : wpc'[v] = wpc[v]
  BY DEF StopInv, TypeOK, Worker, SeeInit, AckInit, InitBuffer, AcceptUse, AckUse,
     CallUseMemory, FinishUseMemory, AcceptFlush, AckFlush, FinishFlush,
     SeeWait, AckWait, Exit, Spin, Accept, At, Goto, worker
<1>4. Team \subseteq Workers
  BY TeamFacts DEF StopInv, TypeOK
<1> QED BY <1>1, <1>2, <1>3, <1>4 DEF StopInv, At

LEMMA StopStutters ==
  ASSUME StopInv, LentInv, UNCHANGED vars
  PROVE  StopInv' /\ LentInv'
<1>1. /\ NumThreads' = NumThreads /\ Team' = Team /\ TypeOK'
      /\ UNCHANGED <<mpc, t, wpc, aligned_addr, arg>>
  BY DEF StopInv, TypeOK, vars, shared, params, worker, loops, steps, NumThreads,
         UsesShareCpus, Team
<1> QED BY <1>1 DEF StopInv, LentInv, At

LEMMA AStep ==
  ASSUME AInv, [NextA]_abortVars
  PROVE  AInv'
<1>1. CASE Next /\ UNCHANGED aborted /\ ~aborted
  <2>1. IInv /\ IInv' /\ LentInv
    BY <1>1, StepPreserves DEF AInv
  <2>2. LentInv'
    <3>1. ASSUME NEW w \in Workers, Worker(w) PROVE LentInv'
      BY <2>1, <3>1, WorkerKeepsLent DEF IInv
    <3>2. CASE Master
      BY <1>1, <2>1, <3>2, MasterKeepsLent DEF Next
    <3>3. CASE Freed
      BY <2>1, <3>3 DEF Freed, vars, params, worker, LentInv
    <3> QED BY <1>1, <3>1, <3>2, <3>3 DEF Next
  <2> QED BY <1>1, <2>1, <2>2 DEF AInv
<1>2. CASE Next /\ UNCHANGED aborted /\ aborted
  <2>1. StopInv /\ LentInv /\ UNCHANGED setup
    BY <1>2 DEF AInv, Next
  <2>2. StopInv' /\ LentInv'
    <3>1. ASSUME NEW w \in Workers, Worker(w) PROVE StopInv' /\ LentInv'
      BY <2>1, <3>1, WorkerKeepsLent, WorkerStops DEF StopInv
    <3>2. CASE Master
      BY <2>1, <3>2, MasterStops
    <3>3. CASE Freed
      BY <2>1, <3>3, StopStutters DEF Freed
    <3> QED BY <1>2, <3>1, <3>2, <3>3 DEF Next
  <2> QED BY <1>2, <2>2 DEF AInv
<1>3. CASE Interrupt
  <2>1. ~aborted
    BY <1>3 DEF Interrupt, Interruptible, CallPCs, AInv, StopInv
  <2>2. IInv /\ LentInv /\ TypeOK /\ setup \in Setups
    BY <2>1 DEF AInv, IInv, TypeOK
  <2>3. NumThreads' = NumThreads /\ Team' = Team
    BY <1>3 DEF Interrupt, NumThreads, UsesShareCpus, Team
  <2>4. 1 \in 1 .. NumThreads /\ 1 \in 0 .. NumThreads
    BY <2>2, TeamFacts
  <2>5. TypeOK'
    BY <1>3, <2>2, <2>3, <2>4 DEF Interrupt, TypeOK, shared, params, worker, steps,
                                  MasterGoto, MasterPCs
  <2>6. StopInv'
    BY <1>3, <2>2, <2>3, <2>4, <2>5, TeamFacts DEF Interrupt, StopInv, MasterGoto, IInv, At,
    worker
  <2>7. LentInv'
    BY <1>3, <2>2 DEF Interrupt, LentInv, params, worker
  <2> QED BY <1>3, <2>6, <2>7 DEF Interrupt, AInv
<1>4. CASE UNCHANGED abortVars
  <2>1. UNCHANGED vars /\ aborted' = aborted
    BY <1>4 DEF abortVars
  <2>2. LentInv'
    BY <2>1 DEF AInv, LentInv, vars, params, worker
  <2> QED BY <2>1, <2>2, StutterPreserves, StopStutters DEF AInv
<1> QED BY <1>1, <1>2, <1>3, <1>4 DEF NextA, AInv

\* Until a signal IInv holds, and from then on the workers are stopped in order.
THEOREM AInvariant == SpecA => []AInv
<1>1. AInv /\ [NextA]_abortVars => AInv'
  BY AStep
<1> QED BY <1>1, AInitially, PTL DEF SpecA

\* Wherever a signal comes, the shared words are freed when every worker has left.
THEOREM FreeIsSafeAfterSignal == SpecA => []FreedWhenGone
<1>1. ASSUME AInv PROVE FreedWhenGone
  <2>1. CASE ~aborted
    BY <1>1, <2>1 DEF AInv, IInv, WorkerInv, At, MasterAt, FreedWhenGone
  <2>2. CASE aborted
    <3>1. StopInv /\ setup \in Setups
      BY <1>1, <2>2 DEF AInv, StopInv, TypeOK
    <3>2. MasterAt("freed") => \A w \in Team : At(w, "gone")
      BY <3>1, TeamFacts DEF StopInv, MasterAt
    <3> QED BY <3>1, <3>2 DEF StopInv, FreedWhenGone, At
  <2> QED BY <2>1, <2>2
<1> QED BY <1>1, AInvariant, PTL

\* For every number of threads: no one works on an unmapped buffer but, after a signal,
\* a share CPU on the buffer of a measured thread.
THEOREM MappedUnlessLent == SpecA => []WorksOnMappedBuffer
<1>1. ASSUME AInv, NEW w \in Workers, At(w, "using"),
             arg[w].buffer \in Workers, At(arg[w].buffer, "gone")
      PROVE  aborted /\ IsShareCpu(w) /\ ~IsShareCpu(arg[w].buffer)
  <2> DEFINE b == arg[w].buffer
  <2>1. b # w /\ b # NoAddr
    BY <1>1 DEF At, Workers, Threads, NoAddr
  <2>2. IsShareCpu(w) /\ b \in 0 .. NUM_RESULTS - 1
    BY <1>1, <2>1 DEF AInv, LentInv, OwnOrLent
  <2>3. ~IsShareCpu(b)
    BY <2>2, ConstantsAssumption DEF IsShareCpu, FRST_SHARE_CPU
  <2>4. aborted
    <3> SUFFICES ASSUME ~aborted PROVE FALSE
      BY <1>1 DEF AInv
    <3>0. IInv /\ TypeOK /\ MasterInv
      BY <1>1 DEF AInv, IInv
    <3>1. w \in Team /\ b \in Team /\ WorkerInv(w) /\ WorkerInv(b)
      BY <1>1, <3>0 DEF IInv, At
    <3>2. mpc \in CallPCs /\ w = cur.who
      BY <1>1, <3>0, <3>1, PartnerOf DEF Quiet, Initialising, Booting, Waking, Stopping, At
    <3>3. Quiet(b)
      BY <2>1, <3>1, <3>2 DEF WorkerInv, CallPCs
    <3> QED BY <1>1, <3>3 DEF Quiet, At
  <2> QED BY <2>2, <2>3, <2>4
<1>2. AInv => WorksOnMappedBuffer
  BY <1>1 DEF WorksOnMappedBuffer
<1> QED BY <1>2, AInvariant, PTL
============================================================================
