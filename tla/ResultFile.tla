----------------------------- MODULE ResultFile -----------------------------
(***************************************************************************)
(* From the measured results to the result file and its quick view:        *)
(* analyse_results() and write_results() of benchit.c, called by main()    *)
(* after the measurement loop and by a signal handler in the middle of it. *)
(* One function stands for all of them: they are kept and written alike.   *)
(***************************************************************************)
EXTENDS ProblemSchedule, ResultAxis, LineBreak

CONSTANTS
  STANDALONE,         \* bi_standalone: the program runs without BenchIT's files
  MAX_ADD_INFO_STR    \* room for a key=value pair and its newline

\* Bound: averages are infinite, and are looked at on a linear axis only.
ASSUME ReportAssumption ==
  /\ STANDALONE \in BOOLEAN
  /\ MAX_ADD_INFO_STR \in Nat
  /\ \A k \in KERNELS : k.direction = "average" => k.base_yaxis = 0

VARIABLES
  step,       \* position in analyse_results() and write_results()
  half,       \* size whose result was stored without its x value, or 0
  extents,    \* xdata, ydata and ydata_global
  file,       \* the result file
  quickview   \* the gnuplot file

report     == <<step, half, extents, file, quickview>>
reportVars == <<vars, report>>

NoFile == [state |-> "none", sections |-> <<>>, text |-> <<>>, pairs |-> <<>>, error |-> FALSE,
           xaxis |-> NoAxis(0), yaxis |-> NoAxis(0), rows |-> <<>>, numabscissae |-> 0]
NoView == [state |-> "none", xaxis |-> Written(NoAxis(0)), yaxis |-> Written(NoAxis(0)),
           plot |-> <<>>]
----------------------------------------------------------------------------
(***************************************************************************)
(* The measurement loop, and what ends it.                                 *)
(***************************************************************************)
Measuring ==
  /\ step = "measure"
  /\ Loop \/ KernelError
  /\ UNCHANGED report

LoopEnds ==
  /\ step = "measure" /\ pc = "end"
  /\ step' = "analyse"
  /\ UNCHANGED <<vars, half, extents, file, quickview>>

\* A signal that ends the program arrives between two measurements or in one ...
Interrupt ==
  /\ step = "measure" /\ pc = "entry" /\ todo[v] # 0 /\ ~expired
  /\ step' = "analyse"
  /\ UNCHANGED <<vars, half, extents, file, quickview>>

\* ... or while main() stores a result, whose x value is stored last.
InterruptStore ==
  /\ step = "measure" /\ pc = "entry" /\ todo[v] # 0 /\ ~expired
  /\ step' = "analyse"
  /\ \E y \in {Number(k) : k \in kernel.values} \cup {INVALID_MEASUREMENT} :
       /\ results' = [results EXCEPT ![todo[v]].y = Kept(todo[v], y)]
       /\ samples' = [samples EXCEPT ![todo[v]] = Append(@, y)]
  /\ half' = IF results[todo[v]].x = 0 THEN todo[v] ELSE 0
  /\ UNCHANGED <<kernel, lists, w, v, progress, expired, pc, extents, file, quickview>>
----------------------------------------------------------------------------
(***************************************************************************)
(* analyse_results().  Rows without an x value were not measured.          *)
(***************************************************************************)
Rows     == {s \in Sizes : results[s].x > 0}
RowSeq   == [k \in 1 .. Cardinality(Rows) |-> Nth(Rows, k)]
Infinite(y) == y.den = 0
XValues  == {UNIT * s : s \in Rows}

YValues  == {(UNIT * results[s].y.num) \div results[s].y.den :
               s \in {r \in Rows : results[r].y # INVALID_MEASUREMENT
                                     /\ ~Infinite(results[r].y)}}

YExtent ==
  IF \E s \in Rows : Infinite(results[s].y) THEN WithInfinity(Extent(YValues))
                                            ELSE Extent(YValues)

AnalyseResults ==
  /\ step = "analyse"
  /\ extents' = [x |-> Spread(Extent(XValues)), y |-> YExtent, global |-> Spread(YExtent)]
  /\ step' = "create"
  /\ UNCHANGED <<vars, half, file, quickview>>
----------------------------------------------------------------------------
(***************************************************************************)
(* write_results().                                                        *)
(***************************************************************************)

\* "No output data found"
NothingToWrite ==
  /\ step = "create" /\ Rows = {}
  /\ step' = "done"
  /\ UNCHANGED <<vars, half, extents, file, quickview>>

\* No memory; no BENCHIT_RUN_OUTPUT_DIR; no output directory, and not all directories
\* of an absolute path can be made; no file in it.
CannotCreate ==
  /\ step = "create" /\ Rows # {}
  /\ step' = "failed"
  /\ UNCHANGED <<vars, half, extents, file, quickview>>

\* The directory is there or is made, and so is the file.
Create ==
  /\ step = "create" /\ Rows # {}
  /\ file' = [file EXCEPT !.state = "open"]
  /\ step' = "infos"
  /\ UNCHANGED <<vars, half, extents, quickview>>

Section(name) == [file EXCEPT !.sections = Append(@, name)]

\* Texts of the kernel, of the environment and of the build.
WriteInfos ==
  /\ step = "infos"
  /\ file' = [Section("measurementinfos") EXCEPT !.text = bi_fprintf(kernel.description)]
  /\ step' = "additional"
  /\ UNCHANGED <<vars, half, extents, quickview>>

COMMA  == ","
EQUALS == "="

\* strstr(): the first place of a character from position first on, or 0.
Place(text, c, first) ==
  LET found == {i \in first .. Len(text) : text[i] = c} IN
  IF found = {} THEN 0 ELSE Least(found)

NoPair == <<>>

\* "additional information should be a comma separated list of key=value pairs": the
\* pairs, up to the first text between commas that is none.
KeysAndValues(text) ==
  LET From[first \in 1 .. Len(text) + 1] ==
        LET eq == Place(text, EQUALS, first)   comma == Place(text, COMMA, first) IN
        IF eq = 0 \/ eq = first \/ comma \in 1 .. eq THEN <<NoPair>>
        ELSE IF comma = 0 THEN <<SubSeq(text, first, Len(text))>>
        ELSE <<SubSeq(text, first, comma - 1)>> \o From[comma + 1]
  IN  From[1]

\* Mutant: nobody asks how long a pair is.
FitsAny(pair) == pair # NoPair

Fits(pair) == pair # NoPair /\ Len(pair) + 1 < MAX_ADD_INFO_STR

\* What is found in the additional information, if there is any, and what of it is written.
Found   == IF kernel.additional = <<>> THEN <<>> ELSE KeysAndValues(kernel.additional)
Fitting == {k \in DOMAIN Found : Fits(Found[k])}

\* The additional information and the extents of the axes.  A pair that is too long is left
\* out and reported, and the next one is looked at.
WriteAdditional ==
  /\ step = "additional"
  /\ file' = [file EXCEPT
       !.pairs = [k \in 1 .. Cardinality(Fitting) |->
                    bi_fprintf(Append(Found[Nth(Fitting, k)], NEWLINE))],
       !.error = Fitting # DOMAIN Found]
  /\ step' = "architecture"
  /\ UNCHANGED <<vars, half, extents, quickview>>

\* No BENCHITROOT, no BENCHIT_NODENAME, or neither file to copy from: the result
\* file stays behind as it is.
CannotCopy ==
  /\ step \in {"architecture", "display"} /\ ~STANDALONE
  /\ file' = [file EXCEPT !.state = "partial"]
  /\ step' = "failed"
  /\ UNCHANGED <<vars, half, extents, quickview>>

\* The architecture of the node, or the PROTOTYPE; then the table of settings.
WriteArchitecture ==
  /\ step = "architecture"
  /\ file' = [file EXCEPT !.sections = @ \o <<"architecture", "environment">>]
  /\ step' = "axes"
  /\ UNCHANGED <<vars, half, extents, quickview>>

CanDisplay ==
  /\ Displayable(extents.x, kernel.base_xaxis)
  /\ Displayable(extents.y, kernel.base_yaxis)

\* The axes of the functions, x first, and the legends; numabscissae is the position
\* in the last list of sizes.
WriteAxes ==
  /\ step = "axes" /\ CanDisplay /\ ~Endless(extents.y, kernel.base_yaxis)
  /\ file' = [Section("display") EXCEPT !.xaxis = Axis(extents.x, kernel.base_xaxis),
                                        !.yaxis = Axis(extents.y, kernel.base_yaxis),
                                        !.numabscissae = v]
  /\ step' = "display"
  /\ UNCHANGED <<vars, half, extents, quickview>>

\* A logarithmic axis is wanted for a result that is not positive.
CannotDisplay ==
  /\ step = "axes" /\ ~CanDisplay
  /\ file' = [file EXCEPT !.state = "partial"]
  /\ step' = "failed"
  /\ UNCHANGED <<vars, half, extents, quickview>>

\* The display settings of the node, or the PROTOTYPE, are copied.
WriteDisplay ==
  /\ step = "display"
  /\ step' = "data"
  /\ UNCHANGED <<vars, half, extents, file, quickview>>

\* Mutant: the rows end at the first size that was not measured.
PrintedToFirstGap ==
  LET first == {s \in Sizes : results[s].x <= 0}
      n_of_rows == IF first = {} THEN max ELSE Least(first) - 1
  IN  [k \in 1 .. n_of_rows |-> results[k]]

\* A row for every size that was measured; "-" for an invalid result.
Printed == [k \in 1 .. Cardinality(Rows) |-> results[RowSeq[k]]]

WriteData ==
  /\ step = "data"
  /\ file' = [Section("data") EXCEPT !.rows = Printed, !.state = "complete"]
  /\ step' = "quickview"
  /\ UNCHANGED <<vars, half, extents, quickview>>

\* Which columns gnuplot draws: not those of the functions that are times.
PlotCommand ==
  LET texts == kernel.legendtexts
      drawn == SelectSeq([i \in 1 .. Len(texts) |-> i], LAMBDA i : texts[i] # "time")
  IN  [k \in 1 .. Len(drawn) |->
         [word |-> IF drawn[k] = 1 THEN "plot" ELSE ",", column |-> drawn[k] + 1]]

WriteQuickview ==
  /\ step = "quickview"
  /\ quickview' = [state |-> "complete", xaxis |-> Written(file.xaxis),
                   yaxis |-> Written(Axis(extents.global, kernel.base_yaxis)),
                   plot |-> PlotCommand]
  /\ step' = "done"
  /\ UNCHANGED <<vars, half, extents, file>>

\* Nobody asks whether the file could be opened.
QuickviewCrashes ==
  /\ step = "quickview"
  /\ step' = "crashed"
  /\ UNCHANGED <<vars, half, extents, file, quickview>>

Report ==
  \/ AnalyseResults \/ NothingToWrite \/ CannotCreate \/ Create \/ WriteInfos
  \/ WriteAdditional \/ WriteArchitecture \/ CannotCopy \/ WriteAxes \/ CannotDisplay \/ WriteDisplay
  \/ WriteData \/ WriteQuickview \/ QuickviewCrashes

\* Nothing more happens, nor does it while a loop looks for the axis of an infinite
\* result: the first result of a kernel that asks for averages is divided by 0.
Stopped ==
  /\ \/ step \in {"done", "failed", "crashed"}
     \/ step = "measure" /\ pc = "failed"
     \/ step = "axes" /\ direction = "average" /\ Endless(extents.y, kernel.base_yaxis)
  /\ UNCHANGED reportVars

InitReport ==
  /\ Init
  /\ step = "measure" /\ half = 0
  /\ extents = [x |-> NoExtent, y |-> NoExtent, global |-> NoExtent]
  /\ file = NoFile /\ quickview = NoView

NextReport == Measuring \/ LoopEnds \/ Interrupt \/ InterruptStore \/ Report \/ Stopped

\* bi_entry() returns (module WorkerHandshake, Terminates).  Nothing in the report waits
\* or repeats: it goes on as long as the run finds no deadlock.
SpecReport == InitReport /\ [][NextReport]_reportVars /\ WF_reportVars(Measuring)
----------------------------------------------------------------------------
(***************************************************************************)
(* Correctness properties.                                                 *)
(***************************************************************************)

\* The valid results of a size.
Valid(s) == {samples[s][k] : k \in 1 .. Len(samples[s])} \ {INVALID_MEASUREMENT}

\* What the row of a size must say: the best of its valid results, if there is one.
IsRowOf(row, s) ==
  /\ row.x = s
  /\ direction # "average" =>
       IF Valid(s) = {} THEN row.y = INVALID_MEASUREMENT
       ELSE row.y \in Valid(s) /\ \A y \in Valid(s) : ~Better(y, row.y)

\* Whether a signal or the time limit cut the measurement short or not, a complete
\* file has a row for every size that was measured, in ascending order and with its
\* best result, and no other; a size whose first result was being stored when the
\* signal came has none.
RowsAsMeasured ==
  file.state = "complete" =>
    LET expected == {s \in Sizes : Measured(s) /\ s # half} IN
    /\ Len(file.rows) = Cardinality(expected)
    /\ \A k \in 1 .. Len(file.rows) : IsRowOf(file.rows[k], Nth(expected, k))

\* The values a complete file has rows for.
FileX == {UNIT * file.rows[k].x : k \in 1 .. Len(file.rows)}
FileY == {UNIT * file.rows[k].y.num :
            k \in {r \in 1 .. Len(file.rows) : file.rows[r].y # INVALID_MEASUREMENT}}

\* gnuplot can draw the rows: the axes that were computed before the rows were
\* written show every one of them, and the command to draw begins with "plot" unless
\* the first function is a time (which neither kernel's is).
QuickviewShowsRows ==
  quickview.state = "complete" =>
    /\ Shows(quickview.xaxis, FileX) /\ Drawn(quickview.xaxis, FileX)
    /\ Shows(quickview.yaxis, FileY) /\ Drawn(quickview.yaxis, FileY)
    /\ kernel.legendtexts[1] = "plain" =>
         /\ quickview.plot[1].word = "plot"
         /\ \A k \in 2 .. Len(quickview.plot) : quickview.plot[k].word = ","

\* The texts between commas.
PieceEnds(text) == {i \in 1 .. Len(text) + 1 : i = Len(text) + 1 \/ text[i] = COMMA}
PieceBegin(text, k) == IF k = 1 THEN 1 ELSE Nth(PieceEnds(text), k - 1) + 1
Pieces(text) ==
  [k \in 1 .. Cardinality(PieceEnds(text)) |->
     SubSeq(text, PieceBegin(text, k), Nth(PieceEnds(text), k) - 1)]

IsPair(piece) == \E i \in 2 .. Len(piece) : piece[i] = EQUALS /\ piece[1] # EQUALS

\* What the kernel says of itself can be read from the file, in lines that fit: its
\* description, and of its additional information every key=value pair with room for it
\* before the first piece that is no pair.  If anything else is said there, an error is
\* reported.
TextsKept ==
  file.sections # <<>> =>
    /\ Readable(kernel.description, file.text)
    /\ step \in {"architecture", "done"} =>
         LET pieces   == Pieces(kernel.additional)
             promised == {k \in DOMAIN pieces : /\ \A j \in 1 .. k : IsPair(pieces[j])
                                               /\ Len(pieces[k]) + 1 < MAX_ADD_INFO_STR}
         IN  /\ Len(file.pairs) = Cardinality(promised)
             /\ \A k \in 1 .. Len(file.pairs) :
                  Readable(Append(pieces[Nth(promised, k)], NEWLINE), file.pairs[k])
             /\ file.error <=> kernel.additional # <<>> /\ promised # DOMAIN pieces

\* The loop ends, though it asks get_new_problems() whether it may, unless a signal
\* ends it first.
LoopEnded == <>(pc \in {"end", "failed"} \/ step # "measure")
============================================================================
