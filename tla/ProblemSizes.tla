---------------------------- MODULE ProblemSizes ----------------------------
(***************************************************************************)
(* From the settings to the data set sizes that are measured: the parser   *)
(* of number lists in benchit.c, and what evaluate_environment() of both   *)
(* kernels makes of a list, or of a range and a number of steps, and of    *)
(* the wish for a random order.                                            *)
(*                                                                         *)
(* A text is a sequence of numbers, written without leading zeros, and of  *)
(* single characters, which are negative here.                             *)
(***************************************************************************)
EXTENDS PermutationRandom

CONSTANT STARTS   \* microseconds of the time of day

END    == -1
DASH   == -2
SLASH  == -3
COMMA  == -4
BLANK  == -5
DOT    == -6
LETTER == -7
Characters == {DASH, SLASH, COMMA, BLANK, DOT, LETTER}

\* Settings of PROBLEMLIST, MIN, MAX, STEPS: a list, or the ends of a range and the
\* number of sizes in it, one of which may be missing.
Missing == -1
Sources == [list : Seq(Nat \cup Characters), MIN : {0}, MAX : {0}, STEPS : {0}]
           \cup [list : {<<>>}, MIN : Nat \ {0}, MAX : Nat \ {0}, STEPS : (Nat \ {0}) \cup {Missing}]

ASSUME ProblemSizesAssumption == STARTS \subseteq Nat

VARIABLES
  source,          \* these settings
  order,           \* whether RANDOM is set
  ppc,             \* parse, sizes, random, draw, done; exit, crash, or overrun
  li, negraise,    \* variables of bi_parselist()
  list,            \* theinfo.list
  MAX,             \* the size the buffers are allocated for
  problemarray1, problemarray2

parser  == <<li, negraise, list>>
sizes   == <<MAX, problemarray1, problemarray2>>
allSizes == <<source, order, ppc, parser, sizes, randVars>>
----------------------------------------------------------------------------
(***************************************************************************)
(* bi_parselist()                                                          *)
(***************************************************************************)
text       == source.list
At(i)      == IF i <= Len(text) THEN text[i] ELSE END
isdigit(c) == c >= 0

\* while (isspace(pcstring[i])) i++
SkipBlanks(i) == Min({j \in i .. Max({i, Len(text) + 1}) : At(j) # BLANK})

\* start, start + raise, ... up to end, or down to it; if there is no room for a
\* step, only the start.
Down(from, to, raise) == [k \in 1 .. (from - to) \div raise + 1 |-> from - (k - 1) * raise]
Up(from, to, raise)   == [k \in 1 .. (to - from) \div raise + 1 |-> from + (k - 1) * raise]

Expanded(from, to, raise, neg) ==
  IF (neg /\ from < to + raise) \/ (~neg /\ to < from + raise) THEN <<from>>
  ELSE IF neg THEN Down(from, to, raise) ELSE Up(from, to, raise)

Goto(where) == ppc' = where /\ UNCHANGED parser

\* No number begins here.
SkipCharacter ==
  /\ ppc = "parse" /\ At(li) # END /\ ~isdigit(At(li))
  /\ li' = li + 1
  /\ UNCHANGED <<ppc, negraise, list>>

\* A number, and the character behind it and behind blanks.
Reads(next) ==
  /\ ppc = "parse" /\ isdigit(At(li)) /\ At(li) # 0
  /\ At(SkipBlanks(li + 1)) \in next

\* The length of a number is taken from its logarithm: a pointer astray for 0.
NumberZero == ppc = "parse" /\ At(li) = 0 /\ Goto("crash")

NumberAlone ==
  /\ Reads({COMMA, END})
  /\ list' = Append(list, At(li))
  /\ li' = SkipBlanks(li + 1)
  /\ UNCHANGED <<ppc, negraise>>

\* "floating point numbers in PARAMETERS not supported"
NumberFloat == Reads({DOT}) /\ Goto("exit")

\* A number in front of anything else does not count.
NumberDropped ==
  /\ Reads((Nat \cup Characters) \ {COMMA, DOT, DASH, BLANK})
  /\ li' = SkipBlanks(li + 1)
  /\ UNCHANGED <<ppc, negraise, list>>

\* One blank is passed over behind the dash.
RangeEnd ==
  LET d == SkipBlanks(li + 1) IN IF At(d + 1) = BLANK THEN d + 2 ELSE d + 1

RangeWithoutEnd ==
  /\ Reads({DASH}) /\ ~isdigit(At(RangeEnd))
  /\ li' = RangeEnd
  /\ UNCHANGED <<ppc, negraise, list>>

RangeEndZero == Reads({DASH}) /\ At(RangeEnd) = 0 /\ Goto("crash")

BehindRange == SkipBlanks(RangeEnd + 1)
IsRange     == Reads({DASH}) /\ isdigit(At(RangeEnd)) /\ At(RangeEnd) # 0

RangeFloat == IsRange /\ At(BehindRange) = DOT /\ Goto("exit")

\* Mutant: the last number of a range is left out.
RangeHalfOpen ==
  /\ IsRange /\ At(BehindRange) \notin {DOT, SLASH}
  /\ list' = list \o Expanded(At(li), At(RangeEnd) - 1, 1, negraise)
  /\ negraise' = (negraise /\ At(li) > At(RangeEnd))
  /\ li' = BehindRange
  /\ UNCHANGED ppc

\* The sign is the one of the last step that was written, unless that was too large.
RangeByOne ==
  /\ IsRange /\ At(BehindRange) \notin {DOT, SLASH}
  /\ list' = list \o Expanded(At(li), At(RangeEnd), 1, negraise)
  /\ negraise' = (negraise /\ At(li) > At(RangeEnd))
  /\ li' = BehindRange
  /\ UNCHANGED ppc

\* The step: a sign, and a number directly behind it; without one it is 1.
Sign  == SkipBlanks(BehindRange + 1)
Place == IF At(Sign) = DASH THEN Sign + 1 ELSE Sign
Raise == IF isdigit(At(Place)) THEN Max({1, At(Place)}) ELSE 1

\* One character is passed over for the step, also for one that is not there: the
\* parser leaves the string if that was its end.
RangeByStep ==
  /\ IsRange /\ At(BehindRange) = SLASH
  /\ IF At(Place) = END THEN Goto("overrun")
     ELSE IF At(Place + 1) = DOT THEN Goto("exit")
     ELSE LET neg == At(Sign) = DASH
          IN  /\ list' = list \o Expanded(At(li), At(RangeEnd), Raise, neg)
              /\ negraise' = (neg /\ At(li) >= At(RangeEnd) + Raise)
              /\ li' = Place + 1
              /\ UNCHANGED ppc

Parsed == ppc = "parse" /\ At(li) = END /\ Goto("sizes")

bi_parselist ==
  /\ \/ SkipCharacter \/ NumberZero \/ NumberAlone \/ NumberFloat \/ NumberDropped
     \/ RangeWithoutEnd \/ RangeEndZero \/ RangeFloat \/ RangeByOne \/ RangeByStep
     \/ Parsed
  /\ UNCHANGED <<source, order, sizes, randVars>>

\* The largest element of theinfo.list.
bi_get_list_maxelement == IF list = <<>> THEN 0 ELSE Max(Range(list))
----------------------------------------------------------------------------
(***************************************************************************)
(* evaluate_environment()                                                  *)
(***************************************************************************)
\* Mutant: the buffers are allocated for the last element.
TakeListLast ==
  /\ ppc = "sizes" /\ source.STEPS = 0
  /\ problemarray1' = list
  /\ MAX' = IF list = <<>> THEN 0 ELSE Last(list)
  /\ ppc' = "random"
  /\ UNCHANGED <<source, order, parser, problemarray2, randVars>>

TakeList ==
  /\ ppc = "sizes" /\ source.STEPS = 0
  /\ problemarray1' = list
  /\ MAX' = bi_get_list_maxelement
  /\ ppc' = "random"
  /\ UNCHANGED <<source, order, parser, problemarray2, randVars>>

\* The powers of x.
Power(x) == LET power[n \in Nat] == IF n = 0 THEN 1 ELSE x * power[n - 1] IN power

\* MIN * (MAX/MIN)^(i/(STEPS-1)), of which bi_entry() takes the integer part.
GeometricSize(i) ==
  LET n == source.STEPS - 1
      product == Power(source.MIN)[n - i] * Power(source.MAX)[i]
  IN  CHOOSE x \in 0 .. Max({source.MIN, source.MAX}) :
        Power(x)[n] <= product /\ Power(x + 1)[n] > product

\* The last size is MAX, whatever was computed.
Geometric ==
  [i \in 1 .. source.STEPS |-> IF i = source.STEPS THEN source.MAX ELSE GeometricSize(i - 1)]

TakeRange ==
  /\ ppc = "sizes" /\ source.STEPS > 0
  /\ problemarray1' = Geometric
  /\ MAX' = source.MAX
  /\ ppc' = "random"
  /\ UNCHANGED <<source, order, parser, problemarray2, randVars>>

\* An error, which is reported later.
NoSizes ==
  /\ ppc = "sizes" /\ source.STEPS = Missing
  /\ ppc' = "random"
  /\ UNCHANGED <<source, order, parser, sizes, randVars>>

\* RANDOM: the generator of module PermutationRandom, once for every size.
RandomOrder ==
  /\ ppc = "random"
  /\ \/ order' = FALSE /\ ppc' = "done" /\ UNCHANGED randVars
     \/ /\ order' = TRUE /\ ppc' = "draw"
        /\ \E tv_usec \in STARTS : random_init(tv_usec, Len(problemarray1))
  /\ UNCHANGED <<source, parser, sizes>>

Draw ==
  /\ ppc = "draw"
  /\ IF Len(problemarray2) < Len(problemarray1)
     THEN /\ random
          /\ problemarray2' = Append(problemarray2, problemarray1[Number + 1])
          /\ UNCHANGED ppc
     ELSE ppc' = "done" /\ UNCHANGED <<problemarray2, randVars>>
  /\ UNCHANGED <<source, order, parser, MAX, problemarray1>>

\* The size that bi_entry() measures for problem k.
SizeOf(k) == IF ~order THEN problemarray1[k] ELSE problemarray2[k]

InitSizes ==
  /\ ppc = IF source.STEPS = 0 THEN "parse" ELSE "sizes"
  /\ li = 1 /\ negraise = FALSE /\ list = <<>>
  /\ order = FALSE /\ MAX = 0 /\ problemarray1 = <<>> /\ problemarray2 = <<>>
  /\ RandomStart

FindSizes == bi_parselist \/ TakeList \/ TakeRange \/ NoSizes \/ RandomOrder \/ Draw

SpecSizes == source \in Sources /\ InitSizes /\ [][FindSizes]_allSizes
----------------------------------------------------------------------------
(***************************************************************************)
(* Correctness properties.                                                 *)
(***************************************************************************)
\* The pieces of a text between its commas, without blanks.
Pieces(t) ==
  LET To[k \in 0 .. Len(t)] ==
        IF k = 0 THEN << <<>> >>
        ELSE IF t[k] = BLANK THEN To[k - 1]
        ELSE IF t[k] = COMMA THEN Append(To[k - 1], <<>>)
        ELSE [To[k - 1] EXCEPT ![Len(To[k - 1])] = Append(@, t[k])]
  IN  To[Len(t)]

\* What PARAMETERS names: x, x-y, x-y/step, and by its sign a step downwards.
Shape(p) == [i \in DOMAIN p |-> IF isdigit(p[i]) THEN 0 ELSE p[i]]
Shapes   == {<<0>>, <<0, DASH, 0>>, <<0, DASH, 0, SLASH, 0>>, <<0, DASH, 0, SLASH, DASH, 0>>}
IsPiece(p) == Shape(p) \in Shapes /\ 0 \notin Range(p)

\* The multiples of a step that are not larger than a number.
Multiples(reach, step) ==
  LET To[n \in 0 .. reach] ==
        IF n = 0 THEN <<0>>
        ELSE IF n % step = 0 THEN Append(To[n - 1], n) ELSE To[n - 1]
  IN  To[reach]

\* From one number to another or as far as the steps go, at least the first.
Ascending(from, to, step) ==
  LET m == Multiples(IF from < to THEN to - from ELSE 0, step)
  IN  [k \in 1 .. Len(m) |-> from + m[k]]
Descending(from, to, step) ==
  LET m == Multiples(IF to < from THEN from - to ELSE 0, step)
  IN  [k \in 1 .. Len(m) |-> from - m[k]]

Meaning(p) ==
  CASE Len(p) = 1 -> p
    [] Len(p) = 3 -> Ascending(p[1], p[3], 1)
    [] Len(p) = 5 -> Ascending(p[1], p[3], p[5])
    [] Len(p) = 6 -> Descending(p[1], p[3], p[6])

\* What the pieces mean, one behind the other.
AllMeant(pieces) ==
  LET To[k \in 0 .. Len(pieces)] ==
        IF k = 0 THEN <<>> ELSE To[k - 1] \o Meaning(pieces[k])
  IN  To[Len(pieces)]

\* Blanks where the parser does not pass over them: a second one behind the dash of a
\* range, and one behind a sign.
BlankInWay ==
  \E i \in DOMAIN text :
    /\ text[i] = DASH /\ At(i + 1) = BLANK
    /\ \/ At(i + 2) = BLANK
       \/ \E k \in 1 .. i - 1 : text[k] = SLASH /\ \A m \in k + 1 .. i - 1 : text[m] = BLANK

\* A range without a step behind one with a negative step.
SignLeft(pieces) ==
  \E i, k \in DOMAIN pieces :
    /\ i < k /\ Len(pieces[i]) = 6 /\ Len(pieces[k]) = 3
    /\ \A m \in i + 1 .. k - 1 : Len(pieces[m]) # 5

\* "x,y,z" or "x-y" or "x-y/step" or any combination: such a list is read, and gives the
\* numbers it names in their order, unless a range follows one that runs
\* downwards: it takes over the sign.
ListAsWritten ==
  source.STEPS = 0 /\ ppc \in {"sizes", "exit", "crash", "overrun"} =>
    LET pieces == Pieces(text)
    IN  (\A k \in DOMAIN pieces : IsPiece(pieces[k])) /\ ~BlankInWay =>
          /\ ppc = "sizes"
          /\ SignLeft(pieces) \/ list = AllMeant(pieces)

\* No size is larger than what the buffers are allocated for, if a range has its
\* ends in order; and in random order each size is measured as often as the
\* settings name it.
Times(s, array) == Cardinality({i \in DOMAIN array : array[i] = s})
SizesKept ==
  ppc = "done" /\ source.MIN <= source.MAX =>
    /\ \A k \in DOMAIN problemarray1 : SizeOf(k) <= MAX
    /\ \A s \in Range(problemarray1) :
         Times(s, [k \in DOMAIN problemarray1 |-> SizeOf(k)]) = Times(s, problemarray1)
=============================================================================
