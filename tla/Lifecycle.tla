----------------------------- MODULE Lifecycle -----------------------------
(***************************************************************************)
(* How the program ends: main() of benchit.c after the measurement,        *)
(* sigint_handler(), sigterm_handler() and the watchdog thread of the      *)
(* memory bandwidth kernel.                                                *)
(*                                                                         *)
(* A signal handler runs on the stack of the main thread, on top of        *)
(* whatever it interrupts.  main() and both handlers finish the program in *)
(* the same steps (analyse, write the results, bi_cleanup(), free, exit),  *)
(* so a frame of the stack is a kind and a position in them.  signal() has *)
(* its BSD meaning (glibc): a signal is blocked while its handler runs.    *)
(***************************************************************************)
EXTENDS Integers, Sequences, FiniteSets

CONSTANTS
  SIGNALS,   \* bound on the signals the user sends
  ANSWERS    \* what stdin has for the question of the SIGINT handler

ASSUME LifecycleAssumption ==
  /\ SIGNALS \in Nat
  /\ ANSWERS \subseteq {"y", "n", "eof"}

VARIABLES
  stack,       \* frames of the main thread, the running one last
  disp,        \* disposition of SIGINT and SIGTERM
  pending,     \* blocked signals waiting for delivery
  watchdog,    \* the watchdog thread
  measured,    \* whether allresults holds a valid result
  files,       \* complete result files
  cleaned,     \* calls of bi_cleanup()
  mcbFreed,    \* whether the kernel's data is freed
  resFreed,    \* whether allresults is freed
  exit,        \* how the process ended
  sent,        \* signals sent so far
  setting      \* BENCHIT_INTERACTIVE, and whether TIMEOUT > 0

signals == <<disp, pending, sent>>
memory  == <<measured, files, cleaned, mcbFreed, resFreed>>
endVars == <<stack, signals, watchdog, memory, exit, setting>>

Sigs == {"SIGINT", "SIGTERM"}
Handler(s) == IF s = "SIGINT" THEN "int" ELSE "term"

Frame(kind, pc) == [kind |-> kind, pc |-> pc]
Top        == stack[Len(stack)]
At(pc)     == exit = "running" /\ Top.pc = pc
MainAt(pc) == At(pc) /\ Top.kind = "main"
Goto(pc)   == stack' = [stack EXCEPT ![Len(stack)].pc = pc]

\* The running frame interrupted code at one of these positions.
Beneath(pcs) == \E k \in 1 .. Len(stack) - 1 : stack[k].pc \in pcs
----------------------------------------------------------------------------
(***************************************************************************)
(* A signal that is not blocked and has a handler interrupts the thread.   *)
(***************************************************************************)
Blocked(s) == \E k \in 1 .. Len(stack) : stack[k].kind = Handler(s)
Interrupted == SubSeq(stack, 1, Len(stack) - 1)

\* The first statement of both handlers ignores the signal they handle; what
\* was pending of it is dropped.
EnterHandler(s, frames) ==
  /\ stack' = Append(frames, Frame(Handler(s), IF s = "SIGINT" /\ setting.interactive
                                               THEN "ask" ELSE "write"))
  /\ disp' = [disp EXCEPT ![s] = "ignore"]
  /\ pending' = pending \ {s}
----------------------------------------------------------------------------
(***************************************************************************)
(* main(): bi_init() starts the watchdog, then the handlers are installed. *)
(***************************************************************************)
BiInit ==
  /\ MainAt("init")
  /\ watchdog' = "starting"
  /\ Goto("int")
  /\ UNCHANGED <<signals, memory, exit, setting>>

InstallHandler(s) ==
  /\ MainAt(Handler(s))
  /\ disp' = [disp EXCEPT ![s] = "handler"]
  /\ Goto(IF s = "SIGINT" THEN "term" ELSE "measure")
  /\ UNCHANGED <<pending, sent, watchdog, memory, exit, setting>>

\* The first valid result; further ones change nothing here.
Measured ==
  /\ MainAt("measure") /\ ~measured
  /\ measured' = TRUE
  /\ UNCHANGED <<stack, signals, watchdog, files, cleaned, mcbFreed, resFreed, exit, setting>>

\* bi_entry() reports an error: the results are freed, not written.
KernelError ==
  /\ MainAt("measure")
  /\ resFreed' = TRUE /\ exit' = "error"
  /\ UNCHANGED <<stack, signals, watchdog, measured, files, cleaned, mcbFreed, setting>>

EndMeasure ==
  /\ MainAt("measure")
  /\ Goto("write")
  /\ UNCHANGED <<signals, watchdog, memory, exit, setting>>
----------------------------------------------------------------------------
(***************************************************************************)
(* Finishing, by main() or by a handler.                                   *)
(***************************************************************************)

\* The name of a result file has the time in seconds: a second report in the same second
\* truncates the file of the first.
Opened == IF files > 0 THEN {files, files - 1} ELSE {files}

\* Mutant: only main() writes the results.
BeginWriteByMain ==
  /\ At("write")
  /\ Goto(IF measured /\ Top.kind = "main" THEN "close" ELSE "cleanup")
  /\ UNCHANGED <<signals, watchdog, memory, exit, setting>>

\* analyse_results(), and write_results() up to the open result file: there is
\* none without a valid result.  Freed results may be taken for any.
BeginWrite ==
  /\ At("write")
  /\ \E found \in IF resFreed THEN BOOLEAN ELSE {measured} :
       /\ Goto(IF found THEN "close" ELSE "cleanup")
       /\ files' \in IF found THEN Opened ELSE {files}
  /\ UNCHANGED <<signals, watchdog, measured, cleaned, mcbFreed, resFreed, exit, setting>>

\* No memory, no directory or no file; later, nothing to copy from or to put on an axis.
WriteFails ==
  /\ (At("write") /\ (measured \/ resFreed)) \/ At("close")
  /\ exit' = "error"
  /\ UNCHANGED <<stack, signals, watchdog, memory, setting>>

EndWrite ==
  /\ At("close")
  /\ files' = files + 1
  /\ Goto("cleanup")
  /\ UNCHANGED <<signals, watchdog, measured, cleaned, mcbFreed, resFreed, exit, setting>>

\* bi_cleanup() stops and joins the workers (module AbortedMeasurement) ...
Cleanup ==
  /\ At("cleanup")
  /\ cleaned' = cleaned + 1
  /\ Goto("kill")
  /\ UNCHANGED <<signals, watchdog, measured, files, mcbFreed, resFreed, exit, setting>>

\* ... stops the watchdog, whose signal ends the process as long as the
\* watchdog has not installed sigusr1_handler() ...
KillWatchdog ==
  /\ At("kill")
  /\ IF watchdog = "starting"
     THEN exit' = "SIGUSR1" /\ UNCHANGED <<stack, watchdog>>
     ELSE watchdog' = "gone" /\ Goto("free") /\ UNCHANGED exit
  /\ UNCHANGED <<signals, memory, setting>>

\* ... and frees the kernel's data.
FreeKernel ==
  /\ At("free")
  /\ mcbFreed' = TRUE
  /\ Goto("freeall")
  /\ UNCHANGED <<signals, watchdog, measured, files, cleaned, resFreed, exit, setting>>

\* freeall(allresults) and the file names.
FreeResults ==
  /\ At("freeall")
  /\ resFreed' = TRUE
  /\ Goto("exit")
  /\ UNCHANGED <<signals, watchdog, measured, files, cleaned, mcbFreed, exit, setting>>

\* Mutant: a handler returns to the code it interrupted.
SafeExitReturns ==
  /\ At("exit")
  /\ IF Len(stack) > 1
     THEN stack' = Interrupted /\ UNCHANGED exit
     ELSE exit' = "0" /\ UNCHANGED stack
  /\ UNCHANGED <<signals, watchdog, memory, setting>>

\* safe_exit(): the status is 1 after a signal nobody was asked about.
SafeExit ==
  /\ At("exit")
  /\ exit' = IF Top.kind = "main" \/ (Top.kind = "int" /\ setting.interactive)
             THEN "0" ELSE "1"
  /\ UNCHANGED <<stack, signals, watchdog, memory, setting>>

\* The running frame is about to use what the code it interrupted has freed, or to join
\* threads that are joined or just being joined.
Misused ==
  \/ resFreed /\ (At("write") \/ At("close") \/ At("freeall"))
  \/ mcbFreed /\ (At("cleanup") \/ At("free"))
  \/ At("cleanup") /\ (cleaned > 0 \/ Beneath({"cleanup"}))

\* Then it may crash or wait for ever, instead of going on as if nothing had happened.
Undefined ==
  /\ Misused
  /\ \/ exit' = "crashed" /\ UNCHANGED stack
     \/ Goto("hung") /\ UNCHANGED exit
  /\ UNCHANGED <<signals, watchdog, memory, setting>>
----------------------------------------------------------------------------
(***************************************************************************)
(* sigint_handler() asks before it finishes when BENCHIT_INTERACTIVE is 1. *)
(***************************************************************************)
Answer ==
  /\ At("ask")
  /\ \E c \in ANSWERS :
       Goto(CASE c = "y" -> "write" [] c = "n" -> "rest" [] OTHER -> "drain")
  /\ UNCHANGED <<signals, watchdog, memory, exit, setting>>

\* while (fgetc(stdin) != '\n'); at the end of stdin
Drain == At("drain") /\ UNCHANGED endVars

Hang == At("hung") /\ UNCHANGED endVars

\* Mutant: the rest of the line was already read.
ReinstallBlocks == At("rest") /\ UNCHANGED endVars

Reinstall ==
  /\ At("rest")
  /\ disp' = [disp EXCEPT !["SIGINT"] = "handler"]
  /\ Goto("return")
  /\ UNCHANGED <<pending, sent, watchdog, memory, exit, setting>>

\* A SIGINT that came since the handler was reinstalled arrives now.
Return ==
  /\ At("return")
  /\ IF "SIGINT" \in pending
     THEN EnterHandler("SIGINT", Interrupted)
     ELSE stack' = Interrupted /\ UNCHANGED <<disp, pending>>
  /\ UNCHANGED <<sent, watchdog, memory, exit, setting>>

Main ==
  \/ BiInit \/ (\E s \in Sigs : InstallHandler(s)) \/ Measured \/ KernelError
  \/ EndMeasure
  \/ BeginWrite \/ WriteFails \/ EndWrite \/ Cleanup \/ KillWatchdog
  \/ FreeKernel \/ FreeResults \/ SafeExit \/ Undefined \/ Hang
  \/ Answer \/ Drain \/ Reinstall \/ Return
----------------------------------------------------------------------------
(***************************************************************************)
(* Signals.                                                                *)
(***************************************************************************)
Raise(s) ==
  \/ disp[s] = "ignore" /\ UNCHANGED <<stack, disp, pending, exit>>
  \/ disp[s] = "default" /\ exit' = s /\ UNCHANGED <<stack, disp, pending>>
  \/ /\ disp[s] = "handler" /\ Blocked(s)
     /\ pending' = pending \cup {s} /\ UNCHANGED <<stack, disp, exit>>
  \/ disp[s] = "handler" /\ ~Blocked(s) /\ EnterHandler(s, stack) /\ UNCHANGED exit

\* Ctrl-C, kill(1), or the script that started the program.
UserSends(s) ==
  /\ exit = "running" /\ sent < SIGNALS
  /\ sent' = sent + 1
  /\ Raise(s)
  /\ UNCHANGED <<watchdog, memory, setting>>
----------------------------------------------------------------------------
(***************************************************************************)
(* watchdog_timer(): with a timeout it sleeps, then sends SIGTERM; without *)
(* one it ends at once.                                                    *)
(***************************************************************************)
WatchdogStarts ==
  /\ exit = "running" /\ watchdog = "starting"
  /\ watchdog' = IF setting.timeout THEN "asleep" ELSE "gone"
  /\ UNCHANGED <<stack, signals, memory, exit, setting>>

WatchdogFires ==
  /\ exit = "running" /\ watchdog = "asleep"
  /\ watchdog' = "gone"
  /\ Raise("SIGTERM")
  /\ UNCHANGED <<sent, memory, setting>>

Ended == exit # "running" /\ UNCHANGED endVars

InitEnd ==
  /\ stack = <<Frame("main", "init")>>
  /\ disp = [s \in Sigs |-> "default"] /\ pending = {} /\ sent = 0
  /\ watchdog = "none"
  /\ measured = FALSE /\ files = 0 /\ cleaned = 0
  /\ mcbFreed = FALSE /\ resFreed = FALSE
  /\ exit = "running"
  /\ setting \in [interactive : BOOLEAN, timeout : BOOLEAN]

NextEnd == \/ Main
           \/ \E s \in Sigs : UserSends(s)
           \/ WatchdogStarts \/ WatchdogFires
           \/ Ended

\* Both threads run, and a user who is asked answers.
Fairness == WF_endVars(Main) /\ WF_endVars(WatchdogStarts)

SpecEnd == InitEnd /\ [][NextEnd]_endVars /\ Fairness
----------------------------------------------------------------------------
(***************************************************************************)
(* Correctness properties.                                                 *)
(***************************************************************************)
Finishing == {"write", "close", "cleanup", "kill", "free", "freeall", "exit", "hung"}
PCs       == Finishing \cup {"init", "int", "term", "measure", "ask", "drain", "rest", "return"}

\* The frames that have begun to finish the program.
Finishers == {k \in 1 .. Len(stack) : stack[k].pc \in Finishing}

\* Nobody uses allresults or the kernel's data after they were freed, nor joins the workers
\* again; but for a handler that interrupted main() or the other handler after they had
\* done so, or while they were at it.
UsedBeforeFreed ==
  /\ resFreed /\ (At("measure") \/ At("write") \/ At("close") \/ At("freeall"))
       => Beneath({"exit"})
  /\ mcbFreed /\ (At("measure") \/ At("cleanup") \/ At("kill") \/ At("free"))
       => Beneath({"freeall", "exit"})
  /\ cleaned > 0 /\ (At("measure") \/ At("cleanup"))
       => Beneath({"kill", "free", "freeall", "exit"})

\* Whatever signals come and whenever, main() and the handlers finish the program once each
\* at most: no handler runs inside itself, and there is one result file and one
\* bi_cleanup() (which joins threads and frees) for each frame that has begun to finish. What
\* was freed is used by none but a handler that interrupted the rest of a finish.
FinishedOnce ==
  /\ \A j, k \in 1 .. Len(stack) : stack[j].kind = stack[k].kind => j = k
  /\ files <= Cardinality(Finishers) /\ cleaned <= Cardinality(Finishers)
  /\ UsedBeforeFreed

\* A program that ends, regularly or by a signal, even by the SIGUSR1 that was meant for the
\* watchdog, leaves a complete result file of what it had measured, unless a handler
\* interrupted it after the results were freed; a signal that has no handler yet finds nothing
\* measured.  It ends by SIGUSR1 only if the watchdog has not installed its handler, and
\* otherwise has stopped the watchdog ("if benchmark finishes before timeout").
OrderlyEnd ==
  /\ exit \in {"0", "1", "SIGUSR1"} /\ measured => files > 0 \/ Beneath({"exit"})
  /\ exit \in Sigs => ~measured
  /\ exit \in {"0", "1"} => watchdog = "gone"
  /\ exit = "SIGUSR1" => watchdog = "starting"

\* The program ends, whatever signals it was sent and whatever the answers; but a
\* handler that finds stdin at its end reads there for ever, and one that uses what was
\* freed may hang.
Ends == <>(exit # "running" \/ At("drain") \/ At("hung"))

\* "ignore further signals while handling": no handler starts on top of one
\* that is finishing the program.
FurtherSignalsIgnored ==
  [][Len(stack') > Len(stack) => Top.kind = "main" \/ Top.pc \in {"ask", "rest", "return"}]_endVars
============================================================================
