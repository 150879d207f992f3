--------------------------- MODULE MCConfiguration ---------------------------
(***************************************************************************)
(* Lists of sizes: every text of up to three characters, and lists of up   *)
(* to three pieces of every form, with blanks at every place.  Ranges with *)
(* their ends in order and not.  CPUs: three of them; lists that repeat a  *)
(* CPU, run backwards, or name CPUs that are not allowed.  The rest: each  *)
(* setting missing, wrong, and with its other values.  What is not varied  *)
(* is as in Plain.                                                         *)
(***************************************************************************)
EXTENDS Configuration

E(a, b, s) == [from |-> a, to |-> b, step |-> s]

MCAllowed    == {{0, 1, 2}, {0, 2}}
MCCpuLists   == {Unset, <<E(0, 0, 1)>>, <<E(1, 1, 1), E(0, 0, 1)>>, <<E(0, 2, 2)>>,
                 <<E(0, 1, 1), E(1, 2, 1)>>, <<E(2, 1, 1)>>}
MCShareLists == {Unset, <<E(1, 1, 1)>>, <<E(2, 2, 1)>>, <<E(1, 2, 1)>>, <<E(2, 2, 1), E(1, 1, 1)>>}
MCBindLists  == {Unset, <<E(0, 0, 1)>>, <<E(0, 2, 1)>>, <<E(0, 0, 1), E(0, 2, 2)>>, <<E(2, 2, 1), E(0, 2, 1)>>}
----------------------------------------------------------------------------
ListOf(t) == [list |-> t, MIN |-> 0, MAX |-> 0, STEPS |-> 0]

Short  == UNION {[1 .. n -> {0, 3, 12, DASH, SLASH, COMMA, BLANK, DOT, LETTER}] : n \in 0 .. 3}
Piece  == {<<5>>, <<5, DASH, 9>>, <<9, DASH, 5>>, <<5, DASH, 10, SLASH, 2>>,
           <<10, DASH, 5, SLASH, DASH, 2>>, <<5, DASH, 6, SLASH, DASH, 3>>, <<2, DASH, 3, SLASH, 4>>}
Pairs  == {p \o <<COMMA>> \o q : p, q \in Piece}
Triple == {p \o <<COMMA>> \o q : p \in Pairs, q \in {<<5>>, <<5, DASH, 9>>, <<10, DASH, 5, SLASH, DASH, 2>>}}
Faulty == {<<5, DASH, 9, SLASH>>, <<5, DASH, 9, SLASH, DASH>>, <<5, DASH, 9, SLASH, COMMA, 7>>,
           <<5, DASH, 9, SLASH, 0>>, <<5, DASH, 9, SLASH, 2, DOT, 3>>, <<5, DASH, 9, DOT, 3>>}

BlankAt(t, k) == [i \in 1 .. Len(t) + 1 |-> IF i < k THEN t[i] ELSE IF i = k THEN BLANK ELSE t[i - 1]]
Spaced(T)     == UNION {{BlankAt(t, k) : k \in 1 .. Len(t) + 1} : t \in T}

Texts == Short \cup Faulty \cup Triple \cup Pairs \cup Spaced(Pairs) \cup Spaced(Spaced(Piece))
Ranges == [list : {<<>>}, MIN : {1, 2, 5}, MAX : {2, 8, 40}, STEPS : {1, 2, 3, 4, Missing}]
----------------------------------------------------------------------------
BandwidthPlain ==
  [FLUSH_L1 |-> 1, FLUSH_L2 |-> 1, FLUSH_L3 |-> 1, FLUSH_L4 |-> 1, HUGEPAGES |-> "0", OFFSET |-> 0,
   USE_DIRECTION |-> "FIFO", INSTRUCTION |-> "ldr128", BURST_LENGTH |-> 8]
LatencyPlain ==
  [ACCESSES |-> 1200, TLB_MODE |-> 0, FLUSH_PAGE_TABLES |-> 1, ALIGNMENT |-> 128,
   FLUSH_L1 |-> 1, FLUSH_L2 |-> 1, FLUSH_L3 |-> 1, FLUSH_L4 |-> 1, HUGEPAGES |-> "1", OFFSET |-> 0,
   INSTRUCTION |-> "ldr"]
Kernel(name, settings) == [name |-> name, settings |-> settings, clockrate |-> 2]
PlainKernels == {Kernel("bandwidth", BandwidthPlain), Kernel("latency", LatencyPlain)}

Without(f, n) == [x \in DOMAIN f \ {n} |-> f[x]]
With(f, g)    == [x \in DOMAIN f \cup DOMAIN g |-> IF x \in DOMAIN g THEN g[x] ELSE f[x]]
Changes ==
  {[OFFSET |-> 200], [OFFSET |-> 300, INSTRUCTION |-> "vmovdqu"], [OFFSET |-> 100, INSTRUCTION |-> "mov"],
   [OFFSET |-> 130, INSTRUCTION |-> "movdqu"], [OFFSET |-> 7, INSTRUCTION |-> "ld1"],
   [INSTRUCTION |-> "movdqa"], [FLUSH_EXTRA |-> 1001], [FLUSH_EXTRA |-> 1000], [FLUSH_MODE |-> "S"],
   [FLUSH_MODE |-> "R", FLUSH_BUFFER |-> "X"], [HUGEPAGES |-> "2"], [USE_DIRECTION |-> "none"],
   [BURST_LENGTH |-> 5], [BURST_LENGTH |-> 0], [BURST_LENGTH |-> 3], [CPU_FREQUENCY |-> 3],
   [LOOP_OVERHEAD_COMPENSATION |-> "yes"], [SERIALIZATION |-> "isb"], [ALIGNMENT |-> 512, OFFSET |-> 520]}
MCKernels ==
  UNION {{[k EXCEPT !.settings = Without(@, n)] : n \in DOMAIN k.settings}
         \cup {[k EXCEPT !.settings = With(@, c)] : c \in Changes} : k \in PlainKernels}
NoClocks == {[k EXCEPT !.clockrate = 0] : k \in MCKernels}
----------------------------------------------------------------------------
Plain == [source |-> ListOf(<<5, DASH, 9>>),
          env |-> [allowed |-> {0, 1, 2}, CPU_LIST |-> <<E(1, 1, 1), E(0, 0, 1)>>, SHARED_CPU_LIST |-> Unset,
                   MEM_BIND |-> Unset, ALLOC |-> "L", USE_MODE |-> "EXCLUSIVE"],
          kernel |-> Kernel("bandwidth", BandwidthPlain)]
Unsized == [Plain EXCEPT !.source = ListOf(<<7>>)]

MCInputs ==
  {[Plain EXCEPT !.source = s] : s \in {ListOf(t) : t \in Texts} \cup Ranges}
  \cup {[Unsized EXCEPT !.env = e, !.kernel = k] : e \in Environments, k \in PlainKernels}
  \cup {[Unsized EXCEPT !.kernel = k] : k \in MCKernels \cup NoClocks}

MCStarts == {0, 99}
============================================================================
