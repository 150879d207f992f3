--------------------------- MODULE MCMeasuredLoop ---------------------------
(***************************************************************************)
(* Every function and burst length the settings accept, with data sets     *)
(* below, at and above the limits of the loops and of the runs.            *)
(***************************************************************************)
EXTENDS MeasuredLoop

\* No access at all, less than a pass, exact passes of 64 and 66 loads, a
\* remainder, and a size beyond the caches.
Sizes == {15, 1008, 1024, 1055, 1056, 2112, 3000, 16400}

\* Loops that exist, a burst length and a function without one.
Instructions == {<<0, 1>>, <<0, 3>>, <<0, 8>>, <<1, 8>>, <<1, 4>>, <<3, 8>>}

AllSetups ==
  { [function |-> i[1], burst |-> i[2], runs |-> 1, prefetch |-> i[2] = 8, memsize |-> m] :
      i \in Instructions, m \in Sizes }
=============================================================================
