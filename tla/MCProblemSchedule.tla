------------------------- MODULE MCProblemSchedule -------------------------
(***************************************************************************)
(* Ranges of every length up to 45, long enough for four lists of          *)
(* different stepsize before the linear one, with a time limit and a       *)
(* signal that may strike after any measurement; for two sizes three       *)
(* results each, valid and invalid in every order; every text of up to six *)
(* characters for lines of three; and as a list of key=value pairs every   *)
(* text of up to five characters, and all lists of up to three pieces that *)
(* are pairs or none, break into lines or not, and fit or are too long.    *)
(***************************************************************************)
EXTENDS ResultFile

Plain == [max |-> 1, direction |-> "least", values |-> {}, base_xaxis |-> 10, base_yaxis |-> 0,
          legendtexts |-> <<"plain", "time">>, description |-> <<>>,
          additional |-> <<>>]
Kernel(m, r) == [r EXCEPT !.max = m]

MCRanges == {Kernel(m, Plain) : m \in 1 .. 45}
              \cup {Kernel(m, [Plain EXCEPT !.base_xaxis = b]) : m \in 1 .. 12, b \in {0, 2}}
MCResults ==
  {Kernel(2, [Plain EXCEPT !.values = {1, 3000}, !.base_yaxis = b]) : b \in {0, 2, 10}}
    \cup {Kernel(2, [Plain EXCEPT !.direction = "greatest", !.values = {0, 7},
                                  !.base_yaxis = b]) : b \in {0, 10}}
MCAverage == {Kernel(1, [Plain EXCEPT !.direction = "average", !.values = {1}])}
MCLegends == {Kernel(1, [Plain EXCEPT !.legendtexts = l]) : l \in {<<"plain">>, <<"time", "plain">>}}
MCTexts ==
  {Kernel(1, [Plain EXCEPT !.description = t]) :
     t \in UNION {[1 .. k -> {"a", BLANK, BACKSLASH, NEWLINE}] : k \in 0 .. 6}}
MCAdditional ==
  {Kernel(1, [Plain EXCEPT !.additional = t]) :
     t \in UNION {[1 .. k -> {"a", "=", ","}] : k \in 1 .. 5}}
Piece == {<<"a", "=">>, <<"=", "a">>, <<"a", "a">>, <<"a", "=", BLANK, "a">>,
          <<"a", BLANK, "=", "a">>, <<"a", "=", "a", "a">>, <<"a", "=", "a", BLANK, "a">>}
And(a, b) == a \o <<",">> \o b
MCLists ==
  {Kernel(1, [Plain EXCEPT !.additional = t]) :
     t \in {And(a, b) : a, b \in Piece} \cup {And(a, And(b, c)) : a, b, c \in Piece}}
MCKernels == MCRanges \cup MCResults \cup MCAverage \cup MCLegends \cup MCTexts
               \cup MCAdditional \cup MCLists
============================================================================
