----------------------------- MODULE ResultAxis -----------------------------
(***************************************************************************)
(* The axes of the result file and of the gnuplot file: analyse_results(), *)
(* get_axis_properties(), get_scaling() and write_gnuplot_axisproperties() *)
(* of benchit.c.  A number is an integer of 1/UNIT; it is exact where the  *)
(* code rounds.  The loops that step from tick to tick are written as the  *)
(* first tick that ends them.                                              *)
(***************************************************************************)
EXTENDS Integers, Sequences, FiniteSets, FiniteSetsExt

UNIT == 400

\* The least and the greatest number of a set.  Without one, min and max stay
\* BI_INFINITY and BI_NEG_INFINITY.
NoExtent == [values |-> "none", min |-> 0, max |-> 0]

Extent(S) ==
  IF S = {} THEN NoExtent ELSE [values |-> "some", min |-> Min(S), max |-> Max(S)]

\* An IEEE infinity is greater than BI_INFINITY.  As a minimum it is left out; as a
\* maximum it is not, for there the code looks at the x value.
WithInfinity(extent) == [extent EXCEPT !.values = "infinite"]

\* A single value is given some room.
Spread(e) ==
  IF e.values # "some" \/ e.min # e.max THEN e
  ELSE IF e.max = 0 THEN [e EXCEPT !.max = UNIT]
  ELSE [e EXCEPT !.min = (@ * 9) \div 10, !.max = (@ * 11) \div 10]
----------------------------------------------------------------------------
(***************************************************************************)
(* get_axis_properties().                                                  *)
(***************************************************************************)
\* memset() of the axis, and a linear axis without a difference to show.
NoAxis(base) == [base |-> base, plotmin |-> 0, plotmax |-> 0, ticks |-> 0, incr |-> 0]

\* 1, 10, 100, ... below a difference above 10, and ... 0.01, 0.1, 1 up to another.
Decade(diff) ==
  LET decades == {UNIT \div 100, UNIT \div 10} \cup {UNIT * 10^k : k \in 0 .. 5} IN
  IF diff > 10 * UNIT THEN Max({d \in decades : d < diff})
                      ELSE Max({d \in decades : d <= diff /\ d <= UNIT})

Spacing(diff) ==
  LET d == Decade(diff) IN
  IF 10 * diff <= 25 * d THEN d \div 4 ELSE IF diff <= 5 * d THEN d \div 2 ELSE d

\* The tick at or below v, and the one at or above.
Floor(v, spacing)   == (v \div spacing) * spacing

\* Mutant: the last tick is not beyond the greatest value.
CeilingBelow(v, spacing) == (v \div spacing) * spacing

Ceiling(v, spacing) == ((v + spacing - 1) \div spacing) * spacing

Linear(e) ==
  IF e.values = "none" \/ e.max = e.min THEN NoAxis(0)
  ELSE LET s == Spacing(e.max - e.min)
           low == Floor(e.min, s)   high == Ceiling(e.max, s)
       IN  [base |-> 0, plotmin |-> low, plotmax |-> high,
            ticks |-> (high - low) \div s, incr |-> s]

\* The powers of the base; the bounds keep them within TLC's integers.
Power(base, k) == IF k < 0 THEN UNIT \div base^(-k) ELSE UNIT * base^k
Exponents(base) == IF base = 2 THEN -4 .. 16 ELSE -2 .. 5

Below(v, base) == Max({k \in Exponents(base) : Power(base, k) <= v})
Above(v, base) == Min({k \in Exponents(base) : Power(base, k) >= v})

\* More than ten ticks: every second one stays, again and again.
Halvings[ticks \in Nat] ==
  IF ticks <= 10 THEN 0 ELSE 1 + Halvings[(ticks + 1) \div 2]
TicksLeft[ticks \in Nat] ==
  IF ticks <= 10 THEN ticks ELSE TicksLeft[(ticks + 1) \div 2]

\* One tick for every power from low to high; incr is squared at every halving.
Logarithmic(e, base) ==
  IF e.values = "none" THEN NoAxis(base)
  ELSE LET low == Below(e.min, base)   high == Above(e.max, base)
       IN  [base |-> base, plotmin |-> Power(base, low), plotmax |-> Power(base, high),
            ticks |-> TicksLeft[high - low], incr |-> base^(2^Halvings[high - low])]

\* A logarithmic axis shows positive values only: the program exits.
Displayable(e, base) == base = 0 \/ e.values = "none" \/ e.min > 0

\* while (diff > 10.0) diff /= 10.0
Endless(e, base) == base = 0 /\ e.values = "infinite"

Axis(e, base) == IF base = 0 THEN Linear(e) ELSE Logarithmic(e, base)
----------------------------------------------------------------------------
(***************************************************************************)
(* get_scaling(): how often 1000 or 1024 divides a value, at most and at   *)
(* least as often as there is a prefix for (which no value here reaches).  *)
(***************************************************************************)
Level(v, thousand) ==
  IF v = 0 THEN 0
  ELSE IF v < UNIT THEN IF thousand = 1000 THEN -1 ELSE 0
  ELSE CHOOSE n \in 0 .. 2 :
         thousand^n * UNIT <= v /\ (n = 2 \/ v < thousand^(n + 1) * UNIT)

(***************************************************************************)
(* write_gnuplot_axisproperties(): where the labels are, and their prefix. *)
(* A linear axis and one of base 2 have the prefix of the first label that *)
(* is not 0; the axes start at 0 or above.                                 *)
(***************************************************************************)
Labels(axis) ==
  IF axis.base = 0
  THEN {axis.plotmin + k * axis.incr : k \in 0 .. axis.ticks}
  ELSE {p \in {axis.plotmin * axis.incr^k : k \in 0 .. axis.ticks} : p <= axis.plotmax}

Prefix(axis, pos) ==
  IF axis.base = 10 \/ pos = 0 THEN Level(pos, 1000)
  ELSE Level(Min(Labels(axis) \ {0}), IF axis.base = 2 THEN 1024 ELSE 1000)

\* An axis without ticks is left to gnuplot.
Written(axis) ==
  IF axis.ticks = 0 THEN [axis |-> axis, labels |-> {}]
  ELSE [axis |-> axis, labels |-> {[pos |-> p, prefix |-> Prefix(axis, p)] : p \in Labels(axis)}]
----------------------------------------------------------------------------
(***************************************************************************)
(* What a reader of the plot may expect.                                   *)
(***************************************************************************)

\* An axis with ticks covers the values, with at most eleven labels between its ends,
\* none further from the next than the axis says, and the first at its beginning.
Shows(written, values) ==
  LET axis == written.axis   at == {l.pos : l \in written.labels} IN
  axis.ticks > 0 =>
    /\ \A x \in values : axis.plotmin <= x /\ x <= axis.plotmax
    /\ axis.ticks <= 11 /\ Cardinality(at) \in 1 .. 12
    /\ axis.plotmin \in at
    /\ \A p \in at : axis.plotmin <= p /\ p <= axis.plotmax
    /\ axis.base = 0 => axis.plotmax \in at

\* Two different values are shown with ticks.
Drawn(written, values) == Cardinality(values) > 1 => written.axis.ticks > 0
============================================================================
