----------------------------- MODULE RemoteCall -----------------------------
(***************************************************************************)
(* What the master and worker exchange of the kernels promises: a          *)
(* synchronous procedure call.  The caller orders one piece of work from   *)
(* one callee; the callee takes the order, works once, and finishes; then  *)
(* the call returns.  The caller does work of its own between two calls    *)
(* only.                                                                   *)
(***************************************************************************)
EXTENDS Integers

CONSTANTS Workers, Threads, NoAddr, Modes, Flushes

VARIABLES
  stage,    \* progress of the call: "none", "posted", "running", "finished"
  callee,   \* the worker that is called, 0 outside of calls
  order,    \* what it is to do
  work,     \* what it took the order to be
  local     \* whether the caller is doing work of its own

vars == <<stage, callee, order, work, local>>

NoOrder == [what |-> "NONE", buffer |-> NoAddr, mode |-> "none"]
NoWork  == [buffer |-> NoAddr, mode |-> "none"]
Orders  == [what : {"USE_MEMORY"}, buffer : Threads, mode : Modes]
           \cup [what : Flushes, buffer : {NoAddr}, mode : {"none"}]

Init == /\ stage = "none" /\ callee = 0
        /\ order = NoOrder /\ work = NoWork
        /\ local = FALSE

Call(w, o) ==
  /\ stage = "none" /\ ~local
  /\ stage' = "posted" /\ callee' = w /\ order' = o
  /\ UNCHANGED <<work, local>>

Start ==
  /\ stage = "posted"
  /\ stage' = "running"
  /\ work' = [buffer |-> order.buffer, mode |-> order.mode]
  /\ UNCHANGED <<callee, order, local>>

Finish ==
  /\ stage = "running"
  /\ stage' = "finished" /\ work' = NoWork
  /\ UNCHANGED <<callee, order, local>>

Return ==
  /\ stage = "finished"
  /\ stage' = "none" /\ callee' = 0 /\ order' = NoOrder
  /\ UNCHANGED <<work, local>>

BeginLocal == stage = "none" /\ ~local /\ local' = TRUE
              /\ UNCHANGED <<stage, callee, order, work>>

EndLocal == local /\ local' = FALSE /\ UNCHANGED <<stage, callee, order, work>>

Next == \/ \E w \in Workers, o \in Orders : Call(w, o)
        \/ Start \/ Finish \/ Return \/ BeginLocal \/ EndLocal

Spec == Init /\ [][Next]_vars
=============================================================================
