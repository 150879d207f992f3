------------------------------ MODULE MCEnvHash ------------------------------
(***************************************************************************)
(* Three keys in two chains; two parameter files; every command line of up *)
(* to three arguments; one failure.                                        *)
(***************************************************************************)
EXTENDS EnvHash

MCHash == [k \in {"BENCHIT_RUN_OUTPUT_DIR", "BENCHIT_PARAMETER_FILE", "RUNS"} |-> IF k = "RUNS" THEN 1 ELSE 0]
MCTexts == {"compiled", "first", "second", "missing", "6", "-o", "-p", "-S", "./output"}

MCCompiled == <<Line("BENCHIT_RUN_OUTPUT_DIR", "compiled"), Line("BENCHIT_PARAMETER_FILE", "compiled")>>

\* An entry with blanks behind it, a comment, a key that options set too.
MCFiles == [f \in {"first", "second"} |->
  IF f = "first" THEN <<Line("RUNS", "6"), [Line("RUNS", "first") EXCEPT !.entry = FALSE]>>
  ELSE <<[Line("RUNS", "second") EXCEPT !.blanks = TRUE], Line("BENCHIT_RUN_OUTPUT_DIR", "second")>>]

Arg(opt, short, text) == [opt |-> opt, short |-> short, text |-> text]
MCArguments ==
  {Arg("o", TRUE, "-o"), Arg("o", FALSE, "6"), Arg("p", TRUE, "-p"), Arg("p", FALSE, "second"),
   Arg("p", FALSE, "missing"), Arg("S", TRUE, "-S"), Arg("none", FALSE, "first"),
   Arg("quiet", TRUE, "6")}
MCCommands == UNION {[1 .. n -> MCArguments] : n \in 0 .. 3}
                \cup {<<Arg("S", TRUE, "-S"), Arg("stop", TRUE, "6")>>}

MCEnvirons == {[k \in {} |-> ""], [k \in {"RUNS"} |-> "6"]}
==============================================================================
