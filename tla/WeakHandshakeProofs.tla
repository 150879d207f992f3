------------------------ MODULE WeakHandshakeProofs ------------------------
(***************************************************************************)
(* The exchange of master and workers under the memory order of AArch64,   *)
(* proved from the ordered exchange (WorkerHandshakeProofs).               *)
(*                                                                         *)
(* GivenAck and GivenDone are what ack and done would hold if no store     *)
(* were late.  With them every step here is a step of WorkerHandshake      *)
(* (MasterIsOrdered, WorkerIsOrdered), so that its invariant holds of      *)
(* them.  LateInv relates them to what the master sees: it may see an      *)
(* acknowledgement late or, when its own zero overwrites it, never, but    *)
(* never one that was not given.  The one step that is none of the ordered *)
(* exchange is a use_memory() with parameters loaded early, and the        *)
(* invariant does not depend on the parameters.                            *)
(***************************************************************************)
EXTENDS WeakHandshake, TLAPS

Ordered == INSTANCE WorkerHandshakeProofs
             WITH ack <- GivenAck, done <- GivenDone, aborted <- FALSE

\* The inductive invariant.
IInvW == Ordered!IInv /\ LateInv /\ EarlyInv /\ UsesWhatWasPosted

\* What the invariant of the ordered exchange says of the worker the master
\* deals with, at the steps where GivenAck and GivenDone depend on it.
LEMMA PartnerState ==
  ASSUME Ordered!IInv
  PROVE  /\ t \in Nat /\ mpc \in MasterPCs
         /\ wpc \in [Workers -> WorkerPCs] /\ old \in [Workers -> Commands]
         /\ mpc \in {"created", "released"} => t \in Workers
         /\ mpc = "create" /\ t < NumThreads => t \in Workers
         /\ mpc = "releasePost" => old[t] = "INIT"
         /\ mpc = "step" /\ todo # <<>> /\ Head(todo).who # 0 =>
              /\ Head(todo).who \in Workers /\ Head(todo).what \in {"USE_MEMORY"} \cup Flushes
              /\ old[Head(todo).who] = "WAIT" /\ At(Head(todo).who, "poll")
         /\ mpc \in CallPCs =>
              cur.who \in Workers /\ cur.what \in {"USE_MEMORY"} \cup Flushes
         /\ mpc \in {"clear1", "withdraw"} => old[cur.who] = cur.what
         /\ mpc \in {"clear2", "awaitDone", "clearDone"} => At(cur.who, "poll")
  <1>0. /\ Ordered!TypeOK /\ Ordered!MasterInv /\ setup \in Ordered!Setups
        /\ \A w \in Ordered!Team : Ordered!WorkerInv(w)
    BY DEF Ordered!IInv, Ordered!TypeOK
  <1>1. /\ t \in Nat /\ mpc \in MasterPCs
        /\ wpc \in [Workers -> WorkerPCs] /\ old \in [Workers -> Commands]
    BY <1>0 DEF Ordered!TypeOK, Ordered!MasterPCs, MasterPCs, Ordered!WorkerPCs, WorkerPCs,
                Ordered!Workers, Workers, Ordered!Threads, Threads, Ordered!Commands, Commands,
                Ordered!Flushes, Flushes
  <1>2. /\ Ordered!Team \subseteq Workers /\ Ordered!NumThreads = NumThreads
        /\ \A i \in Nat : i >= 1 /\ i < NumThreads => i \in Ordered!Team
    <2>1. Ordered!NumThreads = NumThreads
      BY DEF Ordered!NumThreads, NumThreads, Ordered!UsesShareCpus, UsesShareCpus,
             Ordered!SharedModes, SharedModes, Ordered!ReadModes, ReadModes
    <2>2. Ordered!Workers = Workers
      BY DEF Ordered!Workers, Workers, Ordered!Threads, Threads
    <2> QED BY <1>0, <2>1, <2>2, Ordered!TeamFacts, ConstantsAssumption
  <1>3. mpc \in {"created", "released"} => t \in Workers
    BY <1>0, <1>2 DEF Ordered!MasterInv
  <1>4. mpc = "create" /\ t < NumThreads => t \in Workers
    BY <1>0, <1>1, <1>2 DEF Ordered!MasterInv
  <1>5. mpc = "releasePost" => old[t] = "INIT"
    BY <1>0, <1>1 DEF Ordered!MasterInv, Ordered!WorkerInv, Ordered!Around, Ordered!Initialising
  <1>6. ASSUME mpc = "step", todo # <<>>, Head(todo).who # 0
        PROVE  /\ Head(todo).who \in Workers /\ Head(todo).what \in {"USE_MEMORY"} \cup Flushes
               /\ old[Head(todo).who] = "WAIT" /\ At(Head(todo).who, "poll")
    <2>1. Head(todo) \in Ordered!CallSteps
      BY <1>0, <1>6 DEF Ordered!MasterInv, Ordered!LocalSteps
    <2>2. Head(todo).who \in Ordered!Team /\ Head(todo).what \in {"USE_MEMORY"} \cup Flushes
      BY <2>1 DEF Ordered!CallSteps, Ordered!Flushes, Flushes
    <2> QED BY <1>0, <1>2, <1>6, <2>2 DEF Ordered!WorkerInv, Ordered!Quiet, Ordered!At, At
  <1>7. mpc \in CallPCs => /\ cur.who \in Ordered!Team
                           /\ cur.what \in {"USE_MEMORY"} \cup Flushes
    BY <1>0 DEF Ordered!MasterInv, Ordered!CallSteps, Ordered!Flushes, Flushes,
                Ordered!CallPCs, CallPCs
  <1>8. mpc \in CallPCs => Ordered!Engaged(cur.who)
    BY <1>0, <1>7 DEF Ordered!WorkerInv, CallPCs
  <1>9. mpc \in {"clear1", "withdraw"} => old[cur.who] = cur.what
    BY <1>8 DEF Ordered!Engaged, Ordered!Busy, CallPCs
  <1>10. mpc \in {"clear2", "awaitDone", "clearDone"} => At(cur.who, "poll")
    BY <1>8 DEF Ordered!Engaged, Ordered!Quiet, CallPCs, At, Ordered!At
  <1> QED BY <1>1, <1>2, <1>3, <1>4, <1>5, <1>6, <1>7, <1>9, <1>10

\* A step of the master is a step of the master of the ordered exchange.
LEMMA MasterIsOrdered ==
  ASSUME Ordered!IInv, LateInv, WeakMaster
  PROVE  Ordered!Master
  <1>0. Late(0, MasterStores) /\ View(0)!Master /\ UNCHANGED setup
    BY DEF WeakMaster
  <1>1. UNCHANGED <<ack, done>> /\ late' = late \cup ({0} \X MasterStores)
    BY <1>0 DEF Late
  <1> USE PartnerState, <1>1 DEF MasterStores, Cells, At, AckPC, MasterAt, NumThreads,
                                 UsesShareCpus, SharedModes, ReadModes, CallPCs, GivenAck,
                                 GivenDone, SeenAck, SeenDone, LateInv,
      View!shared, Ordered!shared, View!params, Ordered!params, View!worker, Ordered!worker,
      View!loops, Ordered!loops, View!steps, Ordered!steps, View!MasterAt, Ordered!MasterAt,
      View!MasterGoto, Ordered!MasterGoto, View!SetComm, Ordered!SetComm, View!At, Ordered!At,
      View!Goto, Ordered!Goto, View!NumThreads, Ordered!NumThreads, View!UsesShareCpus,
      Ordered!UsesShareCpus, View!SharedModes, Ordered!SharedModes, View!ReadModes,
      Ordered!ReadModes
  <1>2. CASE View(0)!CreateWorker
    <2>1. Ordered!CreateWorker
      BY <1>2 DEF View!CreateWorker, Ordered!CreateWorker
    <2> QED BY <2>1 DEF Ordered!Master
  <1>3. CASE View(0)!AwaitCreated
    <2>1. Ordered!AwaitCreated
      BY <1>3 DEF View!AwaitCreated, Ordered!AwaitCreated
    <2> QED BY <2>1 DEF Ordered!Master
  <1>4. CASE View(0)!InitOwnBuffer
    <2>1. Ordered!InitOwnBuffer
      BY <1>4 DEF View!InitOwnBuffer, Ordered!InitOwnBuffer, View!Nowhere, Ordered!Nowhere
    <2> QED BY <2>1 DEF Ordered!Master
  <1>5. CASE View(0)!ClearBeforeRelease
    <2>1. Ordered!ClearBeforeRelease
      BY <1>5 DEF View!ClearBeforeRelease, Ordered!ClearBeforeRelease
    <2> QED BY <2>1 DEF Ordered!Master
  <1>6. CASE View(0)!ReleaseWorker
    <2>1. Ordered!ReleaseWorker
      BY <1>6 DEF View!ReleaseWorker, Ordered!ReleaseWorker
    <2> QED BY <2>1 DEF Ordered!Master
  <1>7. CASE View(0)!AwaitReleased
    <2>1. Ordered!AwaitReleased
      BY <1>7 DEF View!AwaitReleased, Ordered!AwaitReleased
    <2> QED BY <2>1 DEF Ordered!Master
  <1>8. CASE View(0)!InitReturns
    <2>1. Ordered!InitReturns
      BY <1>8 DEF View!InitReturns, Ordered!InitReturns
    <2> QED BY <2>1 DEF Ordered!Master
  <1>9. CASE View(0)!BeginEntry
    <2>1. Ordered!BeginEntry
      BY <1>9 DEF View!BeginEntry, Ordered!BeginEntry
    <2> QED BY <2>1 DEF Ordered!Master
  <1>10. CASE View(0)!BeginRun
    <2>1. Ordered!BeginRun
      BY <1>10 DEF View!BeginRun, Ordered!BeginRun, View!Script, Ordered!Script,
                   View!Placement, Ordered!Placement, View!SharersBefore,
                   Ordered!SharersBefore, View!SharersAfter, Ordered!SharersAfter,
                   View!EachShareCpu, Ordered!EachShareCpu, View!TargetMode,
                   Ordered!TargetMode, View!Flushing, Ordered!Flushing, View!FlushStep,
                   Ordered!FlushStep, View!ShareFlush, Ordered!ShareFlush, View!Measure,
                   Ordered!Measure, View!Step, Ordered!Step, View!FRST_SHARE_CPU,
                   Ordered!FRST_SHARE_CPU
    <2> QED BY <2>1 DEF Ordered!Master
  <1>11. CASE View(0)!EndRun
    <2>1. Ordered!EndRun
      BY <1>11 DEF View!EndRun, Ordered!EndRun
    <2> QED BY <2>1 DEF Ordered!Master
  <1>12. CASE View(0)!NextTarget
    <2>1. Ordered!NextTarget
      BY <1>12 DEF View!NextTarget, Ordered!NextTarget
    <2> QED BY <2>1 DEF Ordered!Master
  <1>13. CASE View(0)!EndEntry
    <2>1. Ordered!EndEntry
      BY <1>13 DEF View!EndEntry, Ordered!EndEntry
    <2> QED BY <2>1 DEF Ordered!Master
  <1>14. CASE View(0)!BeginLocal
    <2>1. Ordered!BeginLocal
      BY <1>14 DEF View!BeginLocal, Ordered!BeginLocal
    <2> QED BY <2>1 DEF Ordered!Master
  <1>15. CASE View(0)!EndLocal
    <2>1. Ordered!EndLocal
      BY <1>15 DEF View!EndLocal, Ordered!EndLocal, View!Evict, Ordered!Evict, View!Idle,
                   Ordered!Idle, View!Step, Ordered!Step, View!UseMemory, Ordered!UseMemory,
                   View!ReadLine, Ordered!ReadLine, View!Nowhere, Ordered!Nowhere,
                   View!Threads, Ordered!Threads, View!ReadModes, Ordered!ReadModes
    <2> QED BY <2>1 DEF Ordered!Master
  <1>16. CASE View(0)!PostUse
    <2>1. Ordered!PostUse
      BY <1>16 DEF View!PostUse, Ordered!PostUse, View!IsShareCpu, Ordered!IsShareCpu,
                   View!FRST_SHARE_CPU, Ordered!FRST_SHARE_CPU, Flushes
    <2> QED BY <2>1 DEF Ordered!Master
  <1>17. CASE View(0)!PostFlush
    <2>1. Ordered!PostFlush
      BY <1>17 DEF View!PostFlush, Ordered!PostFlush, View!Flushes, Ordered!Flushes, Flushes
    <2> QED BY <2>1 DEF Ordered!Master
  <1>18. CASE View(0)!AwaitAccepted
    <2>1. Ordered!AwaitAccepted
      BY <1>18 DEF View!AwaitAccepted, Ordered!AwaitAccepted
    <2> QED BY <2>1 DEF Ordered!Master
  <1>19. CASE View(0)!ClearAccepted
    <2>1. Ordered!ClearAccepted
      BY <1>19 DEF View!ClearAccepted, Ordered!ClearAccepted
    <2> QED BY <2>1 DEF Ordered!Master
  <1>20. CASE View(0)!Withdraw
    <2>1. Ordered!Withdraw
      BY <1>20 DEF View!Withdraw, Ordered!Withdraw, Flushes
    <2> QED BY <2>1 DEF Ordered!Master
  <1>21. CASE View(0)!AwaitWaiting
    <2>1. Ordered!AwaitWaiting
      BY <1>21 DEF View!AwaitWaiting, Ordered!AwaitWaiting
    <2> QED BY <2>1 DEF Ordered!Master
  <1>22. CASE View(0)!ClearWaiting
    <2>1. Ordered!ClearWaiting
      BY <1>22 DEF View!ClearWaiting, Ordered!ClearWaiting
    <2> QED BY <2>1 DEF Ordered!Master
  <1>23. CASE View(0)!AwaitDone
    <2>1. Ordered!AwaitDone
      BY <1>23 DEF View!AwaitDone, Ordered!AwaitDone
    <2> QED BY <2>1 DEF Ordered!Master
  <1>24. CASE View(0)!ClearDone
    <2>1. Ordered!ClearDone
      BY <1>24 DEF View!ClearDone, Ordered!ClearDone, View!IsShareCpu, Ordered!IsShareCpu,
                   View!FRST_SHARE_CPU, Ordered!FRST_SHARE_CPU
    <2> QED BY <2>1 DEF Ordered!Master
  <1>25. CASE View(0)!BeginCleanup
    <2>1. Ordered!BeginCleanup
      BY <1>25 DEF View!BeginCleanup, Ordered!BeginCleanup
    <2> QED BY <2>1 DEF Ordered!Master
  <1>26. CASE View(0)!ClearBeforeStop
    <2>1. Ordered!ClearBeforeStop
      BY <1>26 DEF View!ClearBeforeStop, Ordered!ClearBeforeStop
    <2> QED BY <2>1 DEF Ordered!Master
  <1>27. CASE View(0)!PostStop
    <2>1. Ordered!PostStop
      BY <1>27 DEF View!PostStop, Ordered!PostStop
    <2> QED BY <2>1 DEF Ordered!Master
  <1>28. CASE View(0)!Join
    <2>1. Ordered!Join
      BY <1>28 DEF View!Join, Ordered!Join
    <2> QED BY <2>1 DEF Ordered!Master
  <1>29. CASE View(0)!FreeAll
    <2>1. Ordered!FreeAll
      BY <1>29 DEF View!FreeAll, Ordered!FreeAll
    <2> QED BY <2>1 DEF Ordered!Master
  <1> QED BY <1>0, <1>2, <1>3, <1>4, <1>5, <1>6, <1>7, <1>8, <1>9, <1>10, <1>11, <1>12, <1>13,
             <1>14, <1>15, <1>16, <1>17, <1>18, <1>19, <1>20, <1>21, <1>22, <1>23, <1>24,
                   <1>25, <1>26, <1>27, <1>28, <1>29 DEF View!Master

\* Where a worker stands and what it remembers says what the master is doing
\* with it (PartnerOf of the ordered exchange, in the words of this module).
LEMMA WorkerState ==
  ASSUME Ordered!IInv, NEW w \in Workers
  PROVE  /\ wpc[w] \in {"boot", "bootAck"} => mpc = "created" /\ w = t
         /\ At(w, "init") /\ old[w] = "WAIT" => FALSE
         /\ wpc[w] \in {"useAck", "useCall", "using"} =>
              /\ mpc \in {"await1", "clear1", "withdraw", "await2"} /\ w = cur.who
              /\ cur.what = "USE_MEMORY" /\ old[w] = cur.what
         /\ wpc[w] \in {"flushAck", "flushing"} =>
              /\ mpc \in {"await1", "clear1", "withdraw", "await2"} /\ w = cur.who
              /\ cur.what \in Flushes /\ old[w] = cur.what
         /\ wpc[w] \in {"useAck", "flushAck"} => mpc = "await1"
         /\ wpc[w] = "waitAck" =>
              \/ mpc = "released" /\ w = t /\ old[w] = "INIT"
              \/ mpc = "await2" /\ w = cur.who /\ old[w] = cur.what
         /\ At(w, "poll") /\ thread_comm[w] \in {"USE_MEMORY"} \cup Flushes /\ old[w] # thread_comm[w] =>
              mpc = "await1" /\ w = cur.who /\ cur.what = thread_comm[w] /\ old[w] = "WAIT"
         /\ At(w, "poll") /\ thread_comm[w] = "WAIT" /\ old[w] # "WAIT" =>
              \/ mpc = "released" /\ w = t /\ old[w] = "INIT"
              \/ mpc = "await2" /\ w = cur.who /\ old[w] = cur.what
         /\ At(w, "poll") /\ thread_comm[w] \notin {"USE_MEMORY", "WAIT", "INIT"} \cup Flushes =>
              mpc = "join"
  <1>0. /\ Ordered!TypeOK /\ Ordered!MasterInv /\ setup \in Ordered!Setups
        /\ t \in Nat /\ mpc \in MasterPCs
    BY PartnerState DEF Ordered!IInv, Ordered!TypeOK
  <1> USE DEF At, Ordered!At, Ordered!Shows, CallPCs, Ordered!CallPCs, Flushes, Ordered!Flushes
  <1>1. CASE w \notin Ordered!Team
    <2>1. At(w, "none")
      BY <1>1 DEF Ordered!IInv, Ordered!Workers, Workers, Ordered!Threads, Threads
    <2> QED BY <2>1
  <1>2. CASE w \in Ordered!Team
    <2>1. Ordered!WorkerInv(w)
      BY <1>2 DEF Ordered!IInv
    <2>2. CASE \/ Ordered!Quiet(w) \/ Ordered!Initialising(w) \/ At(w, "none") \/ At(w, "gone")
      BY <2>2 DEF Ordered!Quiet, Ordered!Initialising
    <2>3. CASE mpc = "created" /\ w = t /\ Ordered!Booting(w)
      BY <2>3 DEF Ordered!Booting, Ordered!Initialising
    <2>4. CASE mpc = "released" /\ w = t /\ Ordered!Waking(w)
      BY <2>4 DEF Ordered!Waking, Ordered!Quiet
    <2>5. CASE mpc = "join" /\ w = t /\ Ordered!Stopping(w)
      BY <2>5 DEF Ordered!Stopping
    <2>6. CASE mpc \in CallPCs /\ w = cur.who /\ Ordered!Engaged(w)
      <3>1. cur.what \in {"USE_MEMORY"} \cup Flushes
        BY <2>6, PartnerState
      <3> QED BY <2>6, <3>1 DEF Ordered!Engaged, Ordered!Busy, Ordered!Quiet, Ordered!AckPC,
                                Ordered!WorkPCs
    <2> QED BY <1>0, <1>2, <2>1, <2>2, <2>3, <2>4, <2>5, <2>6, Ordered!PartnerOf,
               ConstantsAssumption
  <1> QED BY <1>1, <1>2

\* A step of a worker is a step of that worker in the ordered exchange.
LEMMA WorkerIsOrdered ==
  ASSUME Ordered!IInv, LateInv, NEW w \in Workers, WeakWorker(w)
  PROVE  Ordered!Worker(w)
  <1>0. /\ Late(w, WorkerStores(w)) /\ View(w)!Worker(w) /\ UNCHANGED setup
        /\ w # 0 /\ w \in Nat
    BY ConstantsAssumption DEF WeakWorker, Workers, Threads
  <1>1. UNCHANGED <<ack, done>> /\ late' = late \cup ({w} \X WorkerStores(w))
    BY <1>0 DEF Late
  <1>2. UNCHANGED <<mpc, t, run, runs, entries, todo, cur, tmp>>
    BY <1>0 DEF View!Worker, View!masterVars, View!loops, View!steps
  <1> USE PartnerState, WorkerState, <1>0, <1>1, <1>2
      DEF WorkerStores, Cells, At, AckPC, CallPCs, GivenAck, GivenDone, LateInv, WorkerPCs,
          Flushes,
      View!shared, Ordered!shared, View!params, Ordered!params, View!worker, Ordered!worker,
      View!loops, Ordered!loops, View!steps, Ordered!steps, View!At, Ordered!At, View!Goto,
      Ordered!Goto, View!SetAck, Ordered!SetAck, View!masterVars, Ordered!masterVars,
      View!Flushes, Ordered!Flushes, View!Accept, Ordered!Accept
  <1>3. CASE View(w)!SeeInit(w)
    <2>1. Ordered!SeeInit(w)
      BY <1>3 DEF View!SeeInit, Ordered!SeeInit
    <2> QED BY <2>1 DEF Ordered!Worker
  <1>4. CASE View(w)!AckInit(w)
    <2>1. Ordered!AckInit(w)
      BY <1>4 DEF View!AckInit, Ordered!AckInit
    <2> QED BY <2>1 DEF Ordered!Worker
  <1>5. CASE View(w)!InitBuffer(w)
    <2>1. Ordered!InitBuffer(w)
      BY <1>5 DEF View!InitBuffer, Ordered!InitBuffer, View!Nowhere, Ordered!Nowhere
    <2> QED BY <2>1 DEF Ordered!Worker
  <1>6. CASE View(w)!AcceptUse(w)
    <2>1. Ordered!AcceptUse(w)
      BY <1>6 DEF View!AcceptUse, Ordered!AcceptUse
    <2> QED BY <2>1 DEF Ordered!Worker
  <1>7. CASE View(w)!AckUse(w)
    <2>1. Ordered!AckUse(w)
      BY <1>7 DEF View!AckUse, Ordered!AckUse
    <2> QED BY <2>1 DEF Ordered!Worker
  <1>8. CASE View(w)!CallUseMemory(w)
    <2>1. Ordered!CallUseMemory(w)
      BY <1>8 DEF View!CallUseMemory, Ordered!CallUseMemory
    <2> QED BY <2>1 DEF Ordered!Worker
  <1>9. CASE View(w)!FinishUseMemory(w)
    <2>1. Ordered!FinishUseMemory(w)
      BY ZenonT(60), <1>9 DEF View!FinishUseMemory, Ordered!FinishUseMemory, View!UseMemory,
                  Ordered!UseMemory, View!ReadLine, Ordered!ReadLine, View!Nowhere,
                  Ordered!Nowhere, View!ReadModes, Ordered!ReadModes, View!NoArg,
                  Ordered!NoArg, View!NoAddr, Ordered!NoAddr
    <2> QED BY <2>1 DEF Ordered!Worker
  <1>10. CASE View(w)!AcceptFlush(w)
    <2>1. PICK what \in Flushes : View(w)!Accept(w, what, "flushAck")
      BY <1>10 DEF View!AcceptFlush
    <2>2. Ordered!Accept(w, what, "flushAck")
      BY <2>1
    <2>3. Ordered!AcceptFlush(w)
      BY <2>2 DEF Ordered!AcceptFlush
    <2> QED BY <2>3 DEF Ordered!Worker
  <1>11. CASE View(w)!AckFlush(w)
    <2>1. Ordered!AckFlush(w)
      BY <1>11 DEF View!AckFlush, Ordered!AckFlush
    <2> QED BY <2>1 DEF Ordered!Worker
  <1>12. CASE View(w)!FinishFlush(w)
    <2>1. Ordered!FinishFlush(w)
      BY <1>12 DEF View!FinishFlush, Ordered!FinishFlush, View!Evict, Ordered!Evict,
                   View!Threads, Ordered!Threads
    <2> QED BY <2>1 DEF Ordered!Worker
  <1>13. CASE View(w)!SeeWait(w)
    <2>1. Ordered!SeeWait(w)
      BY <1>13 DEF View!SeeWait, Ordered!SeeWait
    <2> QED BY <2>1 DEF Ordered!Worker
  <1>14. CASE View(w)!AckWait(w)
    <2>1. Ordered!AckWait(w)
      BY <1>14 DEF View!AckWait, Ordered!AckWait
    <2> QED BY <2>1 DEF Ordered!Worker
  <1>15. CASE View(w)!Exit(w)
    <2>1. Ordered!Exit(w)
      BY <1>15 DEF View!Exit, Ordered!Exit
    <2> QED BY <2>1 DEF Ordered!Worker
  <1>16. CASE View(w)!Spin(w)
    <2>1. Ordered!Spin(w)
      BY <1>16 DEF View!Spin, Ordered!Spin
    <2> QED BY <2>1 DEF Ordered!Worker
  <1> QED BY <1>3, <1>4, <1>5, <1>6, <1>7, <1>8, <1>9, <1>10, <1>11, <1>12, <1>13, <1>14,
             <1>15, <1>16 DEF View!Worker

\* A step of the master keeps what is known of the late stores: a store of its
\* own hides what it clears, and it leaves a spin loop only when it has seen
\* the worker's store, which then is not late any more.
LEMMA MasterKeepsLateInv ==
  ASSUME Ordered!IInv, LateInv, WeakMaster
  PROVE  LateInv'
  <1>0. Late(0, MasterStores) /\ View(0)!Master
    BY DEF WeakMaster
  <1>1. UNCHANGED <<ack, done>> /\ late' = late \cup ({0} \X MasterStores)
    BY <1>0 DEF Late
  <1>2. \A w \in Workers, c \in Cells : <<w, c>> \in late' => <<w, c>> \in late
    BY <1>1, ConstantsAssumption DEF Workers, Threads
  <1> USE PartnerState, <1>1, <1>2
      DEF MasterStores, Cells, At, AckPC, MasterAt, NumThreads, UsesShareCpus, SharedModes,
          ReadModes,
      CallPCs, GivenAck, GivenDone, SeenAck, SeenDone, LateInv, Flushes,
      View!shared, View!params, View!worker, View!loops, View!steps, View!MasterAt,
      View!MasterGoto, View!SetComm, View!At, View!Goto, View!NumThreads, View!UsesShareCpus,
      View!SharedModes, View!ReadModes, View!Flushes
  <1>3. CASE View(0)!CreateWorker
    BY <1>3 DEF View!CreateWorker
  <1>4. CASE View(0)!AwaitCreated
    BY <1>4 DEF View!AwaitCreated
  <1>5. CASE View(0)!InitOwnBuffer
    BY <1>5 DEF View!InitOwnBuffer
  <1>6. CASE View(0)!ClearBeforeRelease
    BY <1>6 DEF View!ClearBeforeRelease
  <1>7. CASE View(0)!ReleaseWorker
    BY <1>7 DEF View!ReleaseWorker
  <1>8. CASE View(0)!AwaitReleased
    BY <1>8 DEF View!AwaitReleased
  <1>9. CASE View(0)!InitReturns
    BY <1>9 DEF View!InitReturns
  <1>10. CASE View(0)!BeginEntry
    BY <1>10 DEF View!BeginEntry
  <1>11. CASE View(0)!BeginRun
    BY <1>11 DEF View!BeginRun
  <1>12. CASE View(0)!EndRun
    BY <1>12 DEF View!EndRun
  <1>13. CASE View(0)!NextTarget
    BY <1>13 DEF View!NextTarget
  <1>14. CASE View(0)!EndEntry
    BY <1>14 DEF View!EndEntry
  <1>15. CASE View(0)!BeginLocal
    BY <1>15 DEF View!BeginLocal
  <1>16. CASE View(0)!EndLocal
    BY <1>16 DEF View!EndLocal
  <1>17. CASE View(0)!PostUse
    BY <1>17 DEF View!PostUse
  <1>18. CASE View(0)!PostFlush
    BY <1>18 DEF View!PostFlush
  <1>19. CASE View(0)!AwaitAccepted
    BY <1>19 DEF View!AwaitAccepted
  <1>20. CASE View(0)!ClearAccepted
    BY <1>20 DEF View!ClearAccepted
  <1>21. CASE View(0)!Withdraw
    BY <1>21 DEF View!Withdraw
  <1>22. CASE View(0)!AwaitWaiting
    BY <1>22 DEF View!AwaitWaiting
  <1>23. CASE View(0)!ClearWaiting
    BY <1>23 DEF View!ClearWaiting
  <1>24. CASE View(0)!AwaitDone
    BY <1>24 DEF View!AwaitDone
  <1>25. CASE View(0)!ClearDone
    BY <1>25 DEF View!ClearDone
  <1>26. CASE View(0)!BeginCleanup
    BY <1>26 DEF View!BeginCleanup
  <1>27. CASE View(0)!ClearBeforeStop
    BY <1>27 DEF View!ClearBeforeStop
  <1>28. CASE View(0)!PostStop
    BY <1>28 DEF View!PostStop
  <1>29. CASE View(0)!Join
    BY <1>29 DEF View!Join
  <1>30. CASE View(0)!FreeAll
    BY <1>30 DEF View!FreeAll
  <1> QED BY <1>0, <1>3, <1>4, <1>5, <1>6, <1>7, <1>8, <1>9, <1>10, <1>11, <1>12, <1>13,
             <1>14, <1>15, <1>16, <1>17, <1>18, <1>19, <1>20, <1>21, <1>22, <1>23, <1>24,
                   <1>25, <1>26, <1>27, <1>28, <1>29, <1>30 DEF View!Master

\* An acknowledgement that is given and late is the only late one.
LEMMA AckGiven ==
  ASSUME LateInv, NEW w \in Workers, GivenAck = 0, GivenAck' = w,
         UNCHANGED <<GivenDone, SeenAck, SeenDone, mpc>>,
         late' = late \cup {<<w, "ack">>},
         mpc \in {"created", "released", "await1", "await2"}
  PROVE  LateInv'
  <1>1. SeenAck' = 0 /\ 0 \notin Workers
    BY DEF LateInv, Workers
  <1>2. \A v \in Workers : <<v, "ack">> \notin late
    BY <1>1 DEF LateInv
  <1>3. \A v \in Workers : /\ <<v, "ack">> \in late' => v = w
                           /\ <<v, "done">> \in late' => <<v, "done">> \in late
    BY <1>2
  <1> QED BY <1>1, <1>3 DEF LateInv

\* So is the end of the use of memory.
LEMMA DoneGiven ==
  ASSUME LateInv, NEW w \in Workers, GivenDone = 0, GivenDone' = w,
         UNCHANGED <<GivenAck, SeenAck, SeenDone, mpc>>,
         late' = late \cup {<<w, "done">>}, mpc # "clearDone"
  PROVE  LateInv'
  <1>1. SeenDone' = 0 /\ 0 \notin Workers
    BY DEF LateInv, Workers
  <1>2. \A v \in Workers : <<v, "done">> \notin late
    BY <1>1 DEF LateInv
  <1>3. \A v \in Workers : /\ <<v, "done">> \in late' => v = w
                           /\ <<v, "ack">> \in late' => <<v, "ack">> \in late
    BY <1>2
  <1> QED BY <1>1, <1>3 DEF LateInv

\* A step of a worker too: it stores to ack and done when the master has
\* cleared them, in its own view at least, and waits for it.
LEMMA WorkerKeepsLateInv ==
  ASSUME Ordered!IInv, LateInv, NEW w \in Workers, WeakWorker(w)
  PROVE  LateInv'
  <1>0. /\ Late(w, WorkerStores(w)) /\ View(w)!Worker(w)
        /\ w # 0 /\ w \in Nat
    BY ConstantsAssumption DEF WeakWorker, Workers, Threads
  <1>1. UNCHANGED <<ack, done>> /\ late' = late \cup ({w} \X WorkerStores(w))
    BY <1>0 DEF Late
  <1>2. UNCHANGED <<mpc, t, run, runs, entries, todo, cur, tmp>>
    BY <1>0 DEF View!Worker, View!masterVars, View!loops, View!steps
  <1>3. UNCHANGED <<SeenAck, SeenDone>>
    BY <1>0, <1>1 DEF SeenAck, SeenDone
  <1> USE PartnerState, WorkerState, <1>0, <1>1, <1>2, <1>3
      DEF WorkerStores, Cells, At, AckPC, CallPCs, WorkerPCs, Flushes,
      View!shared, View!params, View!worker, View!loops, View!steps, View!At, View!Goto,
      View!SetAck, View!masterVars, View!Flushes, View!Accept
  <1>4. CASE View(w)!SeeInit(w)
    <2>1. UNCHANGED <<GivenAck, GivenDone, late>>
      BY <1>4 DEF View!SeeInit, GivenAck, GivenDone
    <2> QED BY <2>1 DEF LateInv
  <1>5. CASE View(w)!AckInit(w)
    <2>1. GivenAck = 0 /\ GivenAck' = w /\ UNCHANGED GivenDone
      BY <1>5 DEF View!AckInit, GivenAck, GivenDone
    <2>2. /\ late' = late \cup {<<w, "ack">>}
          /\ mpc \in {"created", "released", "await1", "await2"}
      BY <1>5 DEF View!AckInit
    <2> QED BY <2>1, <2>2, AckGiven
  <1>6. CASE View(w)!InitBuffer(w)
    <2>1. UNCHANGED <<GivenAck, GivenDone, late>>
      BY <1>6 DEF View!InitBuffer, GivenAck, GivenDone
    <2> QED BY <2>1 DEF LateInv
  <1>7. CASE View(w)!AcceptUse(w)
    <2>1. UNCHANGED <<GivenAck, GivenDone, late>>
      BY <1>7 DEF View!AcceptUse, GivenAck, GivenDone
    <2> QED BY <2>1 DEF LateInv
  <1>8. CASE View(w)!AckUse(w)
    <2>1. GivenAck = 0 /\ GivenAck' = w /\ UNCHANGED GivenDone
      BY <1>8 DEF View!AckUse, GivenAck, GivenDone
    <2>2. /\ late' = late \cup {<<w, "ack">>}
          /\ mpc \in {"created", "released", "await1", "await2"}
      BY <1>8 DEF View!AckUse
    <2> QED BY <2>1, <2>2, AckGiven
  <1>9. CASE View(w)!CallUseMemory(w)
    <2>1. UNCHANGED <<GivenAck, GivenDone, late>>
      BY <1>9 DEF View!CallUseMemory, GivenAck, GivenDone
    <2> QED BY <2>1 DEF LateInv
  <1>10. CASE View(w)!FinishUseMemory(w)
    <2>1. GivenDone = 0 /\ GivenDone' = w /\ UNCHANGED GivenAck
      BY <1>10 DEF View!FinishUseMemory, GivenAck, GivenDone
    <2>2. late' = late \cup {<<w, "done">>} /\ mpc # "clearDone"
      BY <1>10 DEF View!FinishUseMemory
    <2> QED BY <2>1, <2>2, DoneGiven
  <1>11. CASE View(w)!AcceptFlush(w)
    <2>1. UNCHANGED <<GivenAck, GivenDone, late>>
      BY <1>11 DEF View!AcceptFlush, GivenAck, GivenDone
    <2> QED BY <2>1 DEF LateInv
  <1>12. CASE View(w)!AckFlush(w)
    <2>1. GivenAck = 0 /\ GivenAck' = w /\ UNCHANGED GivenDone
      BY <1>12 DEF View!AckFlush, GivenAck, GivenDone
    <2>2. /\ late' = late \cup {<<w, "ack">>}
          /\ mpc \in {"created", "released", "await1", "await2"}
      BY <1>12 DEF View!AckFlush
    <2> QED BY <2>1, <2>2, AckGiven
  <1>13. CASE View(w)!FinishFlush(w)
    <2>1. UNCHANGED <<GivenAck, GivenDone, late>>
      BY <1>13 DEF View!FinishFlush, GivenAck, GivenDone
    <2> QED BY <2>1 DEF LateInv
  <1>14. CASE View(w)!SeeWait(w)
    <2>1. UNCHANGED <<GivenAck, GivenDone, late>>
      BY <1>14 DEF View!SeeWait, GivenAck, GivenDone
    <2> QED BY <2>1 DEF LateInv
  <1>15. CASE View(w)!AckWait(w)
    <2>1. GivenAck = 0 /\ GivenAck' = w /\ UNCHANGED GivenDone
      BY <1>15 DEF View!AckWait, GivenAck, GivenDone
    <2>2. /\ late' = late \cup {<<w, "ack">>}
          /\ mpc \in {"created", "released", "await1", "await2"}
      BY <1>15 DEF View!AckWait
    <2> QED BY <2>1, <2>2, AckGiven
  <1>16. CASE View(w)!Exit(w)
    <2>1. UNCHANGED <<GivenAck, GivenDone, late>>
      BY <1>16 DEF View!Exit, GivenAck, GivenDone
    <2> QED BY <2>1 DEF LateInv
  <1>17. CASE View(w)!Spin(w)
    <2>1. UNCHANGED <<GivenAck, GivenDone, late>>
      BY <1>17 DEF View!Spin, GivenAck, GivenDone
    <2> QED BY <2>1 DEF LateInv
  <1> QED BY <1>4, <1>5, <1>6, <1>7, <1>8, <1>9, <1>10, <1>11, <1>12, <1>13, <1>14, <1>15,
             <1>16, <1>17 DEF View!Worker

\* A store that reaches memory shows the master what was given, or hides it.
LEMMA ReachesKeepsLateInv ==
  ASSUME LateInv, NEW i \in Threads, NEW c \in Cells, Reaches(i, c)
  PROVE  LateInv'
  <1>1. UNCHANGED <<mpc, t, cur, wpc, old>>
    BY DEF Reaches, worker, masterVars, loops, steps
  <1>2. UNCHANGED <<GivenAck, GivenDone>>
    BY <1>1 DEF GivenAck, GivenDone, At, AckPC
  <1>3. i # 0 => i \in Workers
    BY DEF Workers
  <1> QED BY <1>1, <1>2, <1>3 DEF Reaches, LateInv, SeenAck, SeenDone, Cells

\* A use_memory() called with parameters that were loaded early is, for the
\* exchange, like any other: the invariant does not depend on arg.
LEMMA CallEarlyPreserves ==
  ASSUME Ordered!IInv, LateInv, EarlyInv, NEW w \in Workers, CallEarly(w)
  PROVE  Ordered!IInv' /\ LateInv'
  <1>0. /\ Ordered!TypeOK /\ Ordered!MasterInv /\ Ordered!AddrInv /\ wpc[w] = "useCall"
        /\ mpc \in {"await1", "clear1", "withdraw", "await2"} /\ w = cur.who
        /\ cur.what = "USE_MEMORY" /\ Ordered!WorkerInv(w)
    <2>1. /\ wpc[w] = "useCall" /\ mpc \in {"await1", "clear1", "withdraw", "await2"}
          /\ w = cur.who /\ cur.what = "USE_MEMORY"
      BY WorkerState DEF CallEarly, At
    <2>2. w \in Ordered!Team
      BY <2>1 DEF Ordered!IInv, Ordered!At, Ordered!Workers, Workers, Ordered!Threads, Threads
    <2> QED BY <2>1, <2>2 DEF Ordered!IInv
  <1>1. /\ UNCHANGED <<shared, params, old, line, masterVars, late, setup>>
        /\ wpc' = [wpc EXCEPT ![w] = "using"] /\ arg' = [arg EXCEPT ![w] = early[w]]
    BY DEF CallEarly, Goto, weak
  <1> USE DEF shared, params, masterVars, loops, steps
  <1>2. UNCHANGED <<GivenAck, GivenDone>>
    BY <1>0, <1>1, PartnerState DEF GivenAck, GivenDone, At, AckPC, CallPCs
  <1>3. Ordered!NumThreads' = Ordered!NumThreads /\ Ordered!Team' = Ordered!Team
    BY <1>1 DEF Ordered!NumThreads, Ordered!UsesShareCpus, Ordered!Team
  <1>4. Ordered!TypeOK'
    <2>1. early[w] \in [buffer : Ordered!Threads \cup {Ordered!NoAddr}, mode : Ordered!Modes]
      BY DEF EarlyInv, Ordered!Threads, Threads, Ordered!NoAddr, NoAddr, Ordered!Modes, Modes,
             Ordered!UseModes, UseModes, Ordered!WriteModes, WriteModes,
             Ordered!SharedModes, SharedModes, Ordered!ReadModes, ReadModes
    <2> QED BY <1>0, <1>1, <1>2, <1>3, <2>1 DEF Ordered!TypeOK, Ordered!WorkerPCs
  <1>5. Ordered!MasterInv'
    <2>1. Ordered!CallSteps' = Ordered!CallSteps
      BY <1>3 DEF Ordered!CallSteps
    <2> QED BY <1>0, <1>1, <1>2, <1>3, <2>1 DEF Ordered!MasterInv
  <1>6. \A v \in Ordered!Team : Ordered!WorkerInv(v)'
    <2>1. ASSUME NEW v \in Ordered!Team, v # w PROVE Ordered!WorkerInv(v)'
      <3>1. Ordered!WorkerInv(v) /\ wpc'[v] = wpc[v]
        BY <1>1, <2>1, PartnerState DEF Ordered!IInv
      <3> QED BY <1>0, <1>1, <1>2, <2>1, <3>1 DEF Ordered!WorkerInv, Ordered!Quiet,
            Ordered!At, Ordered!Shows
    <2>2. Ordered!WorkerInv(w)'
      <3>1. Ordered!Engaged(w)
        BY <1>0 DEF Ordered!WorkerInv
      <3>2. Ordered!Engaged(w)'
        BY <1>0, <1>1, <1>2, <3>1, PartnerState
           DEF Ordered!Engaged, Ordered!Busy, Ordered!WorkPCs, Ordered!AckPC, Ordered!DoneMark,
               Ordered!Quiet, Ordered!At, Ordered!Shows, WorkerPCs
      <3> QED BY <1>0, <1>1, <3>2 DEF Ordered!WorkerInv
    <2> QED BY <2>1, <2>2
  <1>7. \A v \in Ordered!Workers \ Ordered!Team : Ordered!At(v, "none")'
    BY <1>0, <1>1, PartnerState DEF Ordered!IInv, Ordered!At, Ordered!Workers, Workers,
                                    Ordered!Threads, Threads
  <1>8. Ordered!AddrInv'
    BY <1>0, <1>1, <1>3, PartnerState DEF Ordered!AddrInv, Ordered!Lent
  <1>9. LateInv'
    BY <1>1, <1>2 DEF LateInv, SeenAck, SeenDone
  <1> QED BY <1>3, <1>4, <1>5, <1>6, <1>7, <1>8, <1>9 DEF Ordered!IInv

\* Every step is a step of the ordered exchange or none of it, or a call of
\* use_memory() with parameters that were loaded early.
LEMMA StepIsOrdered ==
  ASSUME Ordered!IInv, LateInv, [NextW]_weakVars, ~\E w \in Workers : CallEarly(w)
  PROVE  [Ordered!Next]_(Ordered!vars) /\ LateInv'
  <1>1. CASE WeakMaster
    BY <1>1, MasterIsOrdered, MasterKeepsLateInv DEF Ordered!Next, WeakMaster
  <1>2. CASE \E w \in Workers : WeakWorker(w)
    <2>1. PICK w \in Workers : WeakWorker(w)
      BY <1>2
    <2>2. Ordered!Worker(w) /\ LateInv' /\ UNCHANGED setup /\ w \in Ordered!Workers
      BY <2>1, WorkerIsOrdered, WorkerKeepsLateInv
         DEF WeakWorker, Ordered!Workers, Workers, Ordered!Threads, Threads
    <2> QED BY <2>2 DEF Ordered!Next
  <1>3. ASSUME UNCHANGED <<thread_comm, params, worker, masterVars, line, setup>>
        PROVE  UNCHANGED Ordered!vars /\ UNCHANGED <<GivenAck, GivenDone>>
    <2> USE <1>3 DEF params, worker, masterVars, loops, steps
    <2>1. UNCHANGED <<GivenAck, GivenDone>>
      BY DEF GivenAck, GivenDone, At, AckPC
    <2> QED BY <2>1 DEF Ordered!vars, Ordered!shared, Ordered!params, Ordered!worker,
                        Ordered!loops, Ordered!steps
  <1>4. CASE \E i \in Threads, c \in Cells : Reaches(i, c)
    BY <1>3, <1>4, ReachesKeepsLateInv DEF Reaches
  <1>5. CASE UNCHANGED <<vars, late>>
    BY <1>3, <1>5 DEF vars, shared, masterVars, LateInv, SeenAck, SeenDone
  <1>6. CASE \E w \in Workers : LoadEarly(w) \/ DropEarly(w)
    BY <1>5, <1>6 DEF LoadEarly, DropEarly
  <1>7. CASE (Freed /\ UNCHANGED weak) \/ UNCHANGED weakVars
    BY <1>5, <1>7 DEF Freed, weak, weakVars
  <1> QED BY <1>1, <1>2, <1>4, <1>6, <1>7 DEF NextW

\* A step of the master disturbs no worker inside use_memory(): the parameters
\* change when the worker is created, posted to, or given its buffer back.
LEMMA MasterKeepsUses ==
  ASSUME Ordered!IInv, UsesWhatWasPosted, WeakMaster
  PROVE  UsesWhatWasPosted'
  <1>1. ASSUME NEW w \in Workers \ EARLY, At(w, "using")'
        PROVE  At(w, "using") /\ UNCHANGED <<arg, aligned_addr, use_mode>>
    <2>1. View(0)!Master
      BY DEF WeakMaster
    <2>2. At(w, "using")
      BY <1>1, <2>1, PartnerState
         DEF At, View!Master, View!worker, View!Goto,
         View!CreateWorker, View!AwaitCreated, View!InitOwnBuffer, View!ClearBeforeRelease,
         View!ReleaseWorker, View!AwaitReleased, View!InitReturns, View!BeginEntry,
         View!BeginRun, View!EndRun, View!NextTarget, View!EndEntry, View!BeginLocal,
         View!EndLocal, View!PostUse, View!PostFlush, View!AwaitAccepted,
         View!ClearAccepted, View!Withdraw, View!AwaitWaiting, View!ClearWaiting,
         View!AwaitDone, View!ClearDone, View!BeginCleanup, View!ClearBeforeStop,
         View!PostStop, View!Join, View!FreeAll
    <2>3. mpc \in {"await1", "clear1", "withdraw", "await2"}
      BY <2>2, WorkerState DEF At
    <2> QED BY <2>1, <2>2, <2>3
        DEF View!Master, View!worker, View!params, View!MasterAt,
         View!CreateWorker, View!AwaitCreated, View!InitOwnBuffer, View!ClearBeforeRelease,
         View!ReleaseWorker, View!AwaitReleased, View!InitReturns, View!BeginEntry,
         View!BeginRun, View!EndRun, View!NextTarget, View!EndEntry, View!BeginLocal,
         View!EndLocal, View!PostUse, View!PostFlush, View!AwaitAccepted,
         View!ClearAccepted, View!Withdraw, View!AwaitWaiting, View!ClearWaiting,
         View!AwaitDone, View!ClearDone, View!BeginCleanup, View!ClearBeforeStop,
         View!PostStop, View!Join, View!FreeAll
  <1> QED BY <1>1 DEF UsesWhatWasPosted

\* A worker reads its parameters after it has acknowledged the command, and
\* keeps what it has read; no other worker touches them.
LEMMA WorkerKeepsUses ==
  ASSUME Ordered!IInv, EarlyInv, UsesWhatWasPosted, NEW w \in Workers, WeakWorker(w)
  PROVE  UsesWhatWasPosted'
  <1>0. View(w)!Worker(w) /\ Ordered!TypeOK
    BY DEF WeakWorker, Ordered!IInv
  <1>1. ASSUME NEW v \in Workers \ EARLY, At(v, "using")'
        PROVE  arg'[v] = [buffer |-> aligned_addr'[v], mode |-> use_mode'[v]]
    <2>1. CASE View(w)!CallUseMemory(w)
      BY <2>1, <1>1, <1>0, PartnerState
         DEF View!CallUseMemory, View!Goto, View!params, At, UsesWhatWasPosted,
             Ordered!TypeOK, Ordered!Workers, Workers, Ordered!Threads, Threads
    <2>2. CASE View(w)!InitBuffer(w)
      BY <2>2, <1>1, <1>0, PartnerState
         DEF View!InitBuffer, View!Goto, View!At, At, UsesWhatWasPosted,
             Ordered!TypeOK, Ordered!Workers, Workers, Ordered!Threads, Threads
    <2>3. CASE View(w)!FinishUseMemory(w)
      BY <2>3, <1>1, <1>0, PartnerState
         DEF View!FinishUseMemory, View!Goto, View!params, At, UsesWhatWasPosted,
             Ordered!TypeOK, Ordered!Workers, Workers, Ordered!Threads, Threads
    <2>4. CASE ~View(w)!CallUseMemory(w) /\ ~View(w)!InitBuffer(w) /\ ~View(w)!FinishUseMemory(w)
      <3>1. UNCHANGED <<arg, aligned_addr, use_mode>> /\ At(v, "using")
        BY <2>4, <1>1, <1>0, PartnerState
           DEF View!Worker, View!params, View!worker, View!Goto, View!Accept, At,
           View!SeeInit, View!AckInit, View!InitBuffer, View!AcceptUse, View!AckUse,
           View!CallUseMemory, View!FinishUseMemory, View!AcceptFlush, View!AckFlush,
           View!FinishFlush, View!SeeWait, View!AckWait, View!Exit, View!Spin
      <3> QED BY <1>1, <3>1 DEF UsesWhatWasPosted
    <2> QED BY <2>1, <2>2, <2>3, <2>4
  <1> QED BY <1>1 DEF UsesWhatWasPosted

\* A worker whose loads are in order never calls with early parameters, and no
\* early load touches what another worker uses.
LEMMA EarlyKeepsUses ==
  ASSUME EarlyInv, UsesWhatWasPosted, NEW w \in Workers, CallEarly(w)
  PROVE  UsesWhatWasPosted'
  <1>1. w \in EARLY
    BY DEF EarlyInv, CallEarly
  <1> QED BY <1>1 DEF CallEarly, Goto, params, UsesWhatWasPosted, At

\* Early loads are of parameters, and of the workers that load early.
LEMMA EarlyKept ==
  ASSUME Ordered!IInv, EarlyInv, [NextW]_weakVars
  PROVE  EarlyInv'
  <1>1. CASE UNCHANGED early
    BY <1>1 DEF EarlyInv
  <1>2. NoArg \in [buffer : Threads \cup {NoAddr}, mode : Modes]
    BY DEF NoArg, Modes
  <1>3. ASSUME NEW w \in Workers, early' = [early EXCEPT ![w] = NoArg]
        PROVE  EarlyInv'
    BY <1>2, <1>3 DEF EarlyInv
  <1>4. ASSUME NEW w \in Workers, LoadEarly(w) PROVE EarlyInv'
    <2>1. aligned_addr[w] \in Threads \cup {NoAddr} /\ use_mode[w] \in Modes
      BY DEF Ordered!IInv, Ordered!TypeOK, Ordered!Threads, Threads, Ordered!Workers, Workers,
             Ordered!NoAddr, NoAddr, Ordered!Modes, Modes, Ordered!UseModes, UseModes,
             Ordered!WriteModes, WriteModes, Ordered!SharedModes, SharedModes,
             Ordered!ReadModes, ReadModes
    <2>2. [buffer |-> aligned_addr[w], mode |-> use_mode[w]]
            \in [buffer : Threads \cup {NoAddr}, mode : Modes]
      BY <2>1
    <2> QED BY <1>4, <2>2 DEF LoadEarly, EarlyInv
  <1> QED BY <1>1, <1>3, <1>4
      DEF NextW, WeakMaster, WeakWorker, DropEarly, CallEarly, Reaches, weak, weakVars
----------------------------------------------------------------------------
\* Every step preserves the invariant.
LEMMA StepPreservesW == IInvW /\ [NextW]_weakVars => IInvW'
  <1> SUFFICES ASSUME IInvW, [NextW]_weakVars PROVE IInvW'
    OBVIOUS
  <1> USE DEF IInvW
  <1>1. EarlyInv'
    BY EarlyKept
  <1>2. CASE \E w \in Workers : CallEarly(w)
    BY <1>1, <1>2, CallEarlyPreserves, EarlyKeepsUses
  <1>3. CASE ~\E w \in Workers : CallEarly(w)
    <2>1. Ordered!IInv' /\ LateInv'
      BY <1>3, StepIsOrdered, Ordered!StepPreserves, ConstantsAssumption
    <2>2. UsesWhatWasPosted'
      <3>1. CASE UNCHANGED <<arg, aligned_addr, use_mode, wpc>>
        BY <3>1 DEF UsesWhatWasPosted, At
      <3> QED BY <1>3, <3>1, MasterKeepsUses, WorkerKeepsUses
              DEF NextW, LoadEarly, DropEarly, Reaches, Freed, vars, params, worker, weakVars
    <2> QED BY <1>1, <2>1, <2>2
  <1> QED BY <1>2, <1>3

\* Nothing is late before there is a worker.
LEMMA InitEstablishesW == InitW => IInvW /\ Ordered!Init
  <1> SUFFICES ASSUME InitW PROVE IInvW /\ Ordered!Init
    OBVIOUS
  <1>1. GivenAck = 0 /\ GivenDone = 0
    BY DEF InitW, Init, GivenAck, GivenDone, CallPCs
  <1>2. Ordered!Init
    BY <1>1 DEF InitW, Init, Ordered!Init, Setups, Ordered!Setups, UseModes, Ordered!UseModes,
       WriteModes, Ordered!WriteModes, SharedModes, Ordered!SharedModes, ReadModes,
       Ordered!ReadModes, Protocols, Ordered!Protocols, Workers, Ordered!Workers, Threads,
       Ordered!Threads, Unset, Ordered!Unset, NoAddr, Ordered!NoAddr, NoArg, Ordered!NoArg,
       Idle, Ordered!Idle, Step, Ordered!Step
  <1>3. Ordered!IInv
    BY <1>2, Ordered!InitEstablishes, ConstantsAssumption
  <1>4. LateInv
    BY <1>1 DEF InitW, Init, LateInv, SeenAck, SeenDone
  <1>5. EarlyInv /\ UsesWhatWasPosted
    <2>1. NoArg \in [buffer : Threads \cup {NoAddr}, mode : Modes]
      BY DEF NoArg, Modes
    <2> QED BY <2>1 DEF InitW, Init, EarlyInv, UsesWhatWasPosted, At
  <1> QED BY <1>2, <1>3, <1>4, <1>5 DEF IInvW

\* The invariant of the exchange under the memory order of AArch64: as if no
\* store were late, for what the threads have given; and the late stores are
\* those the master has not seen.
THEOREM InvariantW == SpecW => []IInvW
  <1>1. InitW => IInvW
    BY InitEstablishesW
  <1> QED BY <1>1, StepPreservesW, PTL DEF SpecW

\* The one cell ack serves all workers on AArch64 too: what the master loads
\* from it comes from the worker it waits for, and when it begins something new
\* no store of a worker is still on its way.
THEOREM SeenIsFromPartner == SpecW => []SeenFromPartner
  <1>1. IInvW => SeenFromPartner
    <2> SUFFICES ASSUME IInvW PROVE SeenFromPartner
      OBVIOUS
    <2>1. Ordered!AckFromPartner /\ LateInv
      BY Ordered!InvAckFromPartner, ConstantsAssumption DEF IInvW
    <2>2. View(0)!AckFromPartner
      BY <2>1 DEF View!AckFromPartner, Ordered!AckFromPartner, LateInv, SeenAck, SeenDone,
                  View!CallPCs, Ordered!CallPCs, View!Partner, Ordered!Partner
    <2>3. ASSUME mpc \in {"idle", "loop", "step", "local"}, NEW w \in Workers, NEW c \in Cells
          PROVE  <<w, c>> \notin late
      BY <2>1, <2>3, ConstantsAssumption DEF LateInv, GivenDone, CallPCs, Cells, Workers,
                                             Threads
    <2> QED BY <2>2, <2>3 DEF SeenFromPartner
  <1> QED BY <1>1, InvariantW, PTL

\* A late store never lets two threads at the memory that is measured, nor does
\* a load that is done early.
THEOREM ExclusionW == SpecW => []ExclusiveAccess
  <1>1. IInvW => ExclusiveAccess
    BY Ordered!InvExclusion, ConstantsAssumption
       DEF IInvW, Ordered!ExclusiveAccess, ExclusiveAccess, Ordered!Active, Active,
           Ordered!Workers, Workers, Ordered!Threads, Threads, Ordered!MasterAt, MasterAt
  <1> QED BY <1>1, InvariantW, PTL

\* A worker whose loads are in order uses the buffer and the mode it was given.
THEOREM PostedIsUsed == SpecW => []UsesWhatWasPosted
  <1>1. IInvW => UsesWhatWasPosted
    BY DEF IInvW
  <1> QED BY <1>1, InvariantW, PTL

\* Between two commands every worker has its own buffer, on AArch64 too.
THEOREM BufferIsGivenBackW == SpecW => []BufferGivenBack
  <1>1. IInvW => BufferGivenBack
    BY Ordered!InvBufferGivenBack, ConstantsAssumption
       DEF IInvW, Ordered!BufferGivenBack, BufferGivenBack, Ordered!NumThreads, NumThreads,
           Ordered!UsesShareCpus, UsesShareCpus, Ordered!SharedModes, SharedModes,
           Ordered!ReadModes, ReadModes
  <1> QED BY <1>1, InvariantW, PTL

\* When no worker loads early, late stores are not to be told from prompt ones:
\* whatever happens on AArch64 happens in the exchange with an ordered memory,
\* in which ack and done hold what has been given.
THEOREM InOrder == EARLY = {} /\ SpecW => Ordered!Spec
  <1> SUFFICES ASSUME EARLY = {} PROVE SpecW => Ordered!Spec
    OBVIOUS
  <1>1. InitW => Ordered!Init
    BY InitEstablishesW
  <1>2. IInvW /\ [NextW]_weakVars => [Ordered!Next]_(Ordered!vars)
    <2> SUFFICES ASSUME IInvW, [NextW]_weakVars PROVE [Ordered!Next]_(Ordered!vars)
      OBVIOUS
    <2>1. ~\E w \in Workers : CallEarly(w)
      BY DEF CallEarly, IInvW, EarlyInv
    <2> QED BY <2>1, StepIsOrdered DEF IInvW
  <1> QED BY <1>1, <1>2, InvariantW, PTL DEF SpecW, Ordered!Spec
============================================================================
