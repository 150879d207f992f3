--------------------------- MODULE ProblemSchedule ---------------------------
(***************************************************************************)
(* The measurement loop of main() in benchit.c: get_new_problems() hands   *)
(* out the problem sizes in lists that start with a few sizes spread over  *)
(* the whole range and end with all that are left; every list is measured  *)
(* accuracy+1 times; the best of the accuracy+1 results of a size is kept. *)
(* Module ResultFile goes on with what ends the loop.                      *)
(***************************************************************************)
EXTENDS Integers, Sequences, FiniteSets

CONSTANTS
  KERNELS,      \* what bi_getinfo() may say, and what bi_entry() may measure
  ACCURACY,     \* BENCHIT_RUN_ACCURACY
  LIMITED       \* whether BENCHIT_RUN_TIMELIMIT is set

\* max is num_measurements; the direction is outlier_direction_upwards, where 1
\* stands for "least", 0 for "greatest" and -1 for "average".  The rest is for the
\* result file.
Kernels == [max : Nat \ {0}, direction : {"least", "greatest", "average"},
            values : SUBSET Nat, base_xaxis : {0, 2, 10}, base_yaxis : {0, 2, 10},
            legendtexts : Seq({"plain", "time"}), description : Seq(STRING),
            additional : Seq(STRING)]

ASSUME ScheduleAssumption ==
  /\ \A k \in KERNELS : k \in Kernels
  /\ ACCURACY \in Nat
  /\ LIMITED \in BOOLEAN

VARIABLES
  kernel,      \* theinfo, and the values that may be measured
  todo, done,  \* the two lists of get_new_problems()
  w, v,        \* repetition of the list, and position in it
  results,     \* allresults: for every size its x value and its best result
  n, points,   \* measurements and points of the progress scale
  expired,     \* timelimit_reached
  pc,          \* position in the loop
  samples      \* history: what was measured for each size

lists    == <<todo, done>>
progress == <<n, points>>
vars     == <<kernel, lists, w, v, results, progress, expired, pc, samples>>

max       == kernel.max
direction == kernel.direction
Sizes     == 1 .. max
----------------------------------------------------------------------------
(***************************************************************************)
(* get_new_problems(todo, done, max).  todo[0] counts its calls, done[0]   *)
(* is set once every remaining size has been handed out.                   *)
(***************************************************************************)

\* Half, a quarter, an eighth ... of the range; 1 once that is below 5%.
Stepsize(call) ==
  LET s == max \div 2^call IN IF 20 * s < max THEN 1 ELSE s

\* Mutant: every other multiple is left out.
GridSparse(s) == IF s = 1 THEN Sizes ELSE {i \in Sizes : i % (4 * s) = s}

\* The multiples a list takes: the odd ones, or all for stepsize 1.
Grid(s) == IF s = 1 THEN Sizes ELSE {i \in Sizes : i % (2 * s) = s}

\* Mutant: sizes that were measured are handed out again.
OpenAll(s) == Grid(s)

Open(s) == {i \in Grid(s) : done[i] # 1}

\* The k-th least element.
Nth(S, k) == CHOOSE i \in S : Cardinality({j \in S : j <= i}) = k

\* The new list with its terminating 0; what lies behind it stays.
Filled(call, S) ==
  [k \in DOMAIN todo |->
     IF k = 0 THEN call
     ELSE IF k <= Cardinality(S) THEN Nth(S, k)
     ELSE IF k = Cardinality(S) + 1 THEN 0
     ELSE todo[k]]

\* The largest size waits for the last list.  Without a size in the list, the
\* entry that is compared and cleared is the counter todo[0].
WithoutMax(list, S) ==
  IF list[Cardinality(S)] = max THEN [list EXCEPT ![Cardinality(S)] = 0] ELSE list

GetNewProblems(call) ==
  LET s    == Stepsize(call)
      list == Filled(call, Open(s))
  IN  /\ todo' = IF s = 1 THEN list ELSE WithoutMax(list, Open(s))
      /\ done' = IF s = 1 THEN [done EXCEPT ![0] = 1] ELSE done
----------------------------------------------------------------------------
(***************************************************************************)
(* How a new result is combined with those before it.  A number is a       *)
(* fraction; IEEE infinity is a fraction whose denominator is 0.           *)
(***************************************************************************)
Number(k) == [num |-> k, den |-> 1]
INVALID_MEASUREMENT == Number(-1)
NotMeasured == [x |-> 0, y |-> Number(0)]

\* (old / (w + 1.0) + new) / (w + 2.0)
Averaged(old, new) ==
  [num |-> old.num + new.num * old.den * (w + 1),
   den |-> old.den * (w + 1) * (w + 2)]

Better(new, old) ==
  IF direction = "least" THEN new.num < old.num ELSE new.num > old.num

Combined(old, new) ==
  IF direction = "average"
  THEN IF INVALID_MEASUREMENT \in {old, new} THEN INVALID_MEASUREMENT
                                             ELSE Averaged(old, new)
  ELSE IF new # INVALID_MEASUREMENT /\ (Better(new, old) \/ old = INVALID_MEASUREMENT)
       THEN new ELSE old

\* The first result of a size is combined with itself.
Kept(size, new) ==
  Combined(IF w = -1 THEN new ELSE results[size].y, new)
----------------------------------------------------------------------------
(***************************************************************************)
(* main(): while (get_new_problems(...) && !timelimit_reached)             *)
(*           for (w = -1; w < accuracy; w++)                               *)
(*             while (todolist[++v] != 0 && !timelimit_reached)            *)
(***************************************************************************)
NextList ==
  /\ pc = "list" /\ done[0] = 0
  /\ GetNewProblems(todo[0] + 1)
  /\ IF expired THEN pc' = "end" /\ UNCHANGED w ELSE pc' = "round" /\ w' = -1
  /\ UNCHANGED <<kernel, v, results, progress, expired, samples>>

NoMoreLists ==
  /\ pc = "list" /\ done[0] = 1
  /\ todo' = [todo EXCEPT ![0] = @ + 1]
  /\ pc' = "end"
  /\ UNCHANGED <<kernel, done, w, v, results, progress, expired, samples>>

BeginRound ==
  /\ pc = "round" /\ w < ACCURACY
  /\ v' = 1
  /\ pc' = "entry"
  /\ UNCHANGED <<kernel, lists, w, results, progress, expired, samples>>

EndRounds ==
  /\ pc = "round" /\ w = ACCURACY
  /\ pc' = "list"
  /\ UNCHANGED <<kernel, lists, w, v, results, progress, expired, samples>>

\* What part of all the measurements k of them are.
Percent(k) == (100 * k) \div (max * (ACCURACY + 1))

\* The points the k-th measurement adds to the scale: one every 2 percent.
PointsFor(k) ==
  Cardinality({p \in 1 .. 50 : Percent(k) >= 2 * p /\ Percent(k - 1) < 2 * p})

Store(size, y) ==
  results' = [results EXCEPT ![size] = [x |-> size, y |-> y]]

\* bi_entry() succeeds; the time limit is looked at when it returns.
Measure ==
  /\ pc = "entry" /\ todo[v] # 0 /\ ~expired
  /\ \E y \in {Number(k) : k \in kernel.values} \cup {INVALID_MEASUREMENT} :
       LET size == todo[v] IN
         /\ done' = [done EXCEPT ![size] = 1]
         /\ Store(size, Kept(size, y))
         /\ samples' = [samples EXCEPT ![size] = Append(@, y)]
  /\ \/ /\ LIMITED /\ expired' = TRUE
        /\ w' = w + 1 /\ pc' = "round"
        /\ UNCHANGED <<v, progress>>
     \/ /\ n' = n + 1 /\ points' = points + PointsFor(n + 1)
        /\ v' = v + 1
        /\ UNCHANGED <<w, expired, pc>>
  /\ UNCHANGED <<kernel, todo>>

\* Mutant: after the time limit the repetitions are no longer counted.
EndRoundStuck ==
  /\ pc = "entry" /\ (todo[v] = 0 \/ expired)
  /\ w' = IF expired THEN w ELSE w + 1
  /\ pc' = "round"
  /\ UNCHANGED <<kernel, lists, v, results, progress, expired, samples>>

EndRound ==
  /\ pc = "entry" /\ (todo[v] = 0 \/ expired)
  /\ w' = w + 1
  /\ pc' = "round"
  /\ UNCHANGED <<kernel, lists, v, results, progress, expired, samples>>

\* bi_entry() fails: the program exits.
KernelError ==
  /\ pc = "entry" /\ todo[v] # 0 /\ ~expired
  /\ pc' = "failed"
  /\ UNCHANGED <<kernel, lists, w, v, results, progress, expired, samples>>

Init ==
  /\ kernel \in KERNELS
  /\ todo = [k \in 0 .. max + 1 |-> 0]
  /\ done = [k \in 0 .. max |-> 0]
  /\ w = 0 /\ v = 0 /\ n = 0 /\ points = 0
  /\ results = [s \in Sizes |-> NotMeasured]
  /\ expired = FALSE
  /\ pc = "list"
  /\ samples = [s \in Sizes |-> <<>>]

Loop == NextList \/ NoMoreLists \/ BeginRound \/ EndRounds \/ Measure \/ EndRound
----------------------------------------------------------------------------
(***************************************************************************)
(* Correctness properties.                                                 *)
(***************************************************************************)
Measured(s) == samples[s] # <<>>
Complete    == pc = "end" /\ ~expired

\* Within the time limit every problem size is measured accuracy+1 times: no
\* size is in two lists, and none is in no list.
EachSizeMeasured ==
  Complete => \A s \in Sizes : Len(samples[s]) = ACCURACY + 1

\* A run that is stopped early has covered the whole range: when a list is
\* finished, every size is within two steps of one that was measured.
CoarseToFine ==
  pc = "list" /\ ~expired /\ todo[0] > 0 =>
    \A s \in Sizes : \E m \in Sizes :
      Measured(m) /\ s - m <= 2 * Stepsize(todo[0]) /\ m - s <= 2 * Stepsize(todo[0])
=============================================================================
