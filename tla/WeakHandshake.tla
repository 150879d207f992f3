--------------------------- MODULE WeakHandshake ---------------------------
(***************************************************************************)
(* The exchange of master and workers with the memory order of AArch64,    *)
(* the architecture the kernels are written for.                           *)
(*                                                                         *)
(* ack, done and thread_comm are plain words.  Two stores of one thread to *)
(* different words may reach memory in either order unless a dmb lies      *)
(* between them, and a load may be done before an earlier load of another  *)
(* word.  What the code relies on is that a store is not done before the   *)
(* spin loop in front of it has ended.                                     *)
(*                                                                         *)
(* The stores to ack and done are the ones that can be late here: a thread *)
(* sees its own store at once, the others when it reaches memory.  Every   *)
(* thread stores its own number in them, the master 0.  The parameters of  *)
(* a USE_MEMORY are the loads that can be early.                           *)
(***************************************************************************)
EXTENDS WorkerHandshake

CONSTANT EARLY   \* bound: the workers whose loads may be early

ASSUME WeakAssumption == EARLY \subseteq Workers

VARIABLES
  late,    \* stores not yet in memory: thread and word
  early    \* per worker: parameters loaded before the command, or NoArg

weak     == <<late, early>>
weakVars == <<vars, weak>>

Cells   == {"ack", "done"}
NoneLate(i) == \A c \in Cells : <<i, c>> \notin late

\* The program as thread i sees it.
View(i) == INSTANCE WorkerHandshake WITH
  ack  <- IF <<i, "ack">> \in late THEN i ELSE ack,
  done <- IF <<i, "done">> \in late THEN i ELSE done
----------------------------------------------------------------------------
\* The words the next step of the master or a worker stores to.
MasterStores ==
  CASE mpc = "create"    -> IF t < NumThreads THEN {"ack"} ELSE Cells
    [] mpc = "stop"      -> IF t < NumThreads THEN {"ack"} ELSE {}
    [] mpc \in {"release", "clear1", "clear2"} -> {"ack"}
    [] mpc = "clearDone" -> {"done"}
    [] OTHER             -> {}

WorkerStores(w) ==
  CASE wpc[w] \in {"bootAck", "useAck", "flushAck", "waitAck"} -> {"ack"}
    [] wpc[w] = "using" -> {"done"}
    [] OTHER            -> {}

\* Nothing of a step reaches memory at once.
Late(i, cells) == late' = late \cup ({i} \X cells) /\ UNCHANGED <<ack, done>>

\* dmb, before a USE_MEMORY is posted and in use_memory().
Dmb(i, here) == here => NoneLate(i)

Posting(what) == MasterAt("step") /\ todo # <<>> /\ Head(todo).who # 0
                 /\ Head(todo).what = what

WeakMaster ==
  /\ Dmb(0, Posting("USE_MEMORY") \/ (MasterAt("local") /\ cur.what = "USE_MEMORY"))
  /\ Late(0, MasterStores)
  /\ View(0)!Master
  /\ UNCHANGED <<early, setup>>

\* pthread_create(): a new thread finds the creator's stores in memory.
WeakWorker(w) ==
  /\ Dmb(0, At(w, "boot"))
  /\ Dmb(w, At(w, "using"))
  /\ Late(w, WorkerStores(w))
  /\ View(w)!Worker(w)
  /\ early' = IF At(w, "using") THEN [early EXCEPT ![w] = NoArg] ELSE early
  /\ UNCHANGED setup

Reaches(i, c) ==
  /\ <<i, c>> \in late
  /\ late' = late \ {<<i, c>>}
  /\ IF c = "ack" THEN ack' = i /\ UNCHANGED done ELSE done' = i /\ UNCHANGED ack
  /\ UNCHANGED <<thread_comm, params, worker, masterVars, line, setup, early>>

\* The parameters are loaded while the load of the command is outstanding.
LoadEarly(w) ==
  /\ At(w, "poll") /\ w \in EARLY /\ early[w] = NoArg
  /\ early' = [early EXCEPT ![w] = [buffer |-> aligned_addr[w], mode |-> use_mode[w]]]
  /\ UNCHANGED <<vars, late>>

\* The load comes to nothing: the command is not USE_MEMORY.
DropEarly(w) ==
  /\ At(w, "poll") /\ early[w] # NoArg
  /\ early' = [early EXCEPT ![w] = NoArg]
  /\ UNCHANGED <<vars, late>>

CallEarly(w) ==
  /\ At(w, "useCall") /\ early[w] # NoArg
  /\ arg' = [arg EXCEPT ![w] = early[w]]
  /\ Goto(w, "using")
  /\ UNCHANGED <<shared, params, old, line, masterVars, weak, setup>>
----------------------------------------------------------------------------
InitW == Init /\ late = {} /\ early = [w \in Workers |-> NoArg]

NextW == \/ WeakMaster
         \/ \E w \in Workers : \/ WeakWorker(w)
                               \/ LoadEarly(w) \/ DropEarly(w) \/ CallEarly(w)
         \/ \E i \in Threads, c \in Cells : Reaches(i, c)
         \/ Freed /\ UNCHANGED weak

\* As in WorkerHandshake; and every store reaches memory.
FairnessW == /\ WF_weakVars(WeakMaster)
             /\ \A w \in Workers : WF_weakVars(WeakWorker(w))
             /\ \A i \in Threads, c \in Cells : WF_weakVars(Reaches(i, c))

SpecW     == InitW /\ [][NextW]_weakVars
FairSpecW == SpecW /\ FairnessW
----------------------------------------------------------------------------
(***************************************************************************)
(* Correctness properties.                                                 *)
(***************************************************************************)

\* Late stores are the master's zeros and the partner's acknowledgements: what
\* the master sees in ack still is an acknowledgement of its partner, and
\* it begins no new exchange and no work of its own before it has seen the
\* end of the last one.
SeenFromPartner ==
  /\ View(0)!AckFromPartner
  /\ mpc \in {"idle", "loop", "step", "local"} =>
       \A w \in Workers, c \in Cells : <<w, c>> \notin late

\* "wait for threads to finish their initialization": when they have, the
\* master goes on.
WaitsForInitialization == MasterAt("released") ~> ~MasterAt("released")

\* "Thread on SHARE_CPU accesses data with use mode EXCLUSIVE", on the buffer
\* of the selected CPU: a worker whose loads are in order uses the buffer and
\* the mode it was given, until it is done.
UsesWhatWasPosted ==
  \A w \in Workers \ EARLY : At(w, "using") =>
    arg[w] = [buffer |-> aligned_addr[w], mode |-> use_mode[w]]
----------------------------------------------------------------------------
(***************************************************************************)
(* The exchange as it looks when no store is ever late: what ack and done  *)
(* would hold then, which is what the threads have stored and not cleared. *)
(***************************************************************************)
GivenAck ==
  CASE mpc \in {"create", "release"} -> t - 1
    [] mpc = "created"  -> IF wpc[t] \in {"init", "poll"} THEN t ELSE 0
    [] mpc = "released" -> IF At(t, "poll") /\ old[t] = "WAIT" THEN t ELSE 0
    [] mpc = "await1"   -> IF old[cur.who] = cur.what /\ ~At(cur.who, AckPC)
                           THEN cur.who ELSE 0
    [] mpc = "await2"   -> IF old[cur.who] = "WAIT" THEN cur.who ELSE 0
    [] mpc \in {"clear1", "clear2"} -> cur.who
    [] OTHER            -> 0

GivenDone ==
  IF /\ mpc \in CallPCs /\ cur.what = "USE_MEMORY"
     /\ wpc[cur.who] \notin {"useAck", "useCall", "using"}
     /\ mpc = "await1" => old[cur.who] = cur.what
  THEN cur.who ELSE 0

\* What the master loads from the two words.
SeenAck  == IF <<0, "ack">> \in late THEN 0 ELSE ack
SeenDone == IF <<0, "done">> \in late THEN 0 ELSE done

\* The master sees what was given, or nothing yet, or nothing any more: its
\* own late zero may overwrite an acknowledgement.  While a store of a worker
\* is late the master sees nothing, so that it does not pass its spin loop.
LateInv ==
  /\ SeenAck \in {0, GivenAck} /\ SeenDone \in {0, GivenDone}
  /\ \A w \in Workers :
       /\ <<w, "ack">> \in late =>
            /\ w = GivenAck /\ SeenAck = 0
            /\ mpc \in {"created", "released", "await1", "await2"}
       /\ <<w, "done">> \in late =>
            w = GivenDone /\ SeenDone = 0 /\ mpc # "clearDone"

EarlyInv ==
  /\ early \in [Workers -> [buffer : Threads \cup {NoAddr}, mode : Modes]]
  /\ \A w \in Workers \ EARLY : early[w] = NoArg
============================================================================
