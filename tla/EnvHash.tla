-------------------------------- MODULE EnvHash --------------------------------
(***************************************************************************)
(* The settings of a run: the hash table of bienvhash.c, which main()      *)
(* fills with what was compiled in (bi_fillTable()) and then, in           *)
(* checkCommandLine(), from the options and the parameter files they name; *)
(* and bi_getenv(), with which driver and kernel read it.                  *)
(***************************************************************************)
EXTENDS Integers, Sequences, FiniteSets

CONSTANTS
  HASH_PRIME, HASH,     \* bi_hash(): the chain of each key
  TEXTS,                \* values, names of files and directories
  COMPILED,             \* the lines of bi_fillTable()
  FILES,                \* the parameter files that can be opened, and their lines
  COMMANDS,             \* command lines
  ENVIRONS,             \* environments of the process
  OUTPUT,               \* the directory output below the current one
  FAILURES,             \* how many allocations and system calls may fail
  NULL

KEYS == DOMAIN HASH

\* A line of a parameter file.  entry: isEnvEntry(); blanks: blanks stand between
\* the value and the end of the line.  A call of bi_put() is such a line too.
Lines == [key : KEYS, value : TEXTS, entry : BOOLEAN, blanks : BOOLEAN]
Line(k, v) == [key |-> k, value |-> v, entry |-> TRUE, blanks |-> FALSE]

\* A value in the table; raw: with its quotes and blanks.
Values == [text : TEXTS, raw : BOOLEAN]

\* An argument: the option it names ("stop": one that ends the program, "none": it
\* names none), whether in its short form, and its text: what stands behind
\* the "=" of a long option, or all of it as the value of a short one.
Arguments == [opt : {"o", "p", "S", "quiet", "stop", "none"}, short : BOOLEAN, text : TEXTS]
TakesValue(a) == a.opt \in {"o", "p"}

ASSUME EnvAssumption ==
  /\ HASH_PRIME \in Nat \ {0} /\ HASH \in [KEYS -> 0 .. HASH_PRIME - 1]
  /\ {"BENCHIT_RUN_OUTPUT_DIR", "BENCHIT_PARAMETER_FILE"} \subseteq KEYS
  /\ COMPILED \in Seq(Lines) /\ FILES \in [DOMAIN FILES -> Seq(Lines)]
  /\ COMMANDS \subseteq Seq(Arguments) /\ OUTPUT \in TEXTS
  /\ FAILURES \in Nat

VARIABLES
  table,       \* for each index its chain of elements
  ENTRIES,
  ret,         \* what the last bi_put() returned
  lines,       \* the lines that bi_fillTable() or the open parameter file has left
  argv,        \* the arguments that are left
  failures,    \* allocations and calls that failed
  pc,          \* "fill", "options", "ready" or "exit"
  conf         \* command line and environment

hashVars == <<table, ENTRIES, ret>>
vars     == <<hashVars, lines, argv, failures, pc, conf>>
----------------------------------------------------------------------------
(***************************************************************************)
(* bienvhash.c                                                             *)
(***************************************************************************)
Indices == 0 .. HASH_PRIME - 1

Holds(i, p, k) == p \in DOMAIN table[i] /\ table[i][p].key = k

\* bi_find(): whether key k is in its chain, and the first place where it is.
Found(k) == \E p \in DOMAIN table[HASH[k]] : Holds(HASH[k], p, k)
Place(k) == CHOOSE p \in DOMAIN table[HASH[k]] :
              Holds(HASH[k], p, k) /\ \A q \in 1 .. p - 1 : ~Holds(HASH[k], q, k)

\* The value that is put: trim() does not reach the blanks before a newline, and
\* then trimChar() does not find the closing quote: such a value stays raw.
Cleaned(l) == [text |-> l.value, raw |-> l.blanks]

SetValue(k, v) ==
  table' = [table EXCEPT ![HASH[k]] = [@ EXCEPT ![Place(k)] = [key |-> k, value |-> v]]]

\* bi_put() of a known key; the old value is freed before there is a new one.
Overwrite(l) ==
  /\ Found(l.key)
  /\ \E fails \in BOOLEAN :
       /\ SetValue(l.key, IF fails THEN NULL ELSE Cleaned(l))
       /\ failures' = failures + (IF fails THEN 1 ELSE 0)
  /\ ret' = 1
  /\ UNCHANGED ENTRIES

\* Mutant: the chain is not kept.
InsertReplaces(l) ==
  /\ ~Found(l.key)
  /\ table' = [table EXCEPT ![HASH[l.key]] = <<[key |-> l.key, value |-> Cleaned(l)]>>]
  /\ ENTRIES' = ENTRIES + 1 /\ ret' = 0 /\ UNCHANGED failures

AppendElement(k, v) ==
  table' = [table EXCEPT ![HASH[k]] = Append(@, [key |-> k, value |-> v])]

\* bi_put() and bi_insert() of a new key.
Insert(l) ==
  /\ ~Found(l.key)
  /\ AppendElement(l.key, Cleaned(l))
  /\ ENTRIES' = ENTRIES + 1
  /\ ret' = 0
  /\ UNCHANGED failures

\* There is no memory for the strings.
InsertFails(l) ==
  /\ ~Found(l.key)
  /\ failures' = failures + 1
  /\ ret' = -1
  /\ UNCHANGED <<table, ENTRIES>>

\* Nobody looks at the return value; malformed lines are passed over.
PutLine ==
  /\ lines # <<>> /\ pc # "exit"
  /\ LET l == Head(lines)
     IN  IF l.entry THEN Overwrite(l) \/ Insert(l) \/ InsertFails(l)
         ELSE UNCHANGED <<hashVars, failures>>
  /\ lines' = Tail(lines)
  /\ failures' <= FAILURES
  /\ UNCHANGED <<argv, pc, conf>>
----------------------------------------------------------------------------
(***************************************************************************)
(* main(), checkCommandLine()                                              *)
(***************************************************************************)
Exit == pc' = "exit" /\ UNCHANGED <<hashVars, lines, argv, conf>>

\* bi_insert() without memory, freopen() or getcwd() without success.
CallFails ==
  /\ failures < FAILURES /\ failures' = failures + 1
  /\ \/ pc \in {"fill", "options"} /\ lines # <<>> /\ Head(lines).entry /\ ~Found(Head(lines).key)
     \/ pc = "options" /\ lines = <<>> /\ argv # <<>> /\ Head(argv).opt \in {"quiet", "S"}
  /\ Exit

Filled ==
  /\ pc = "fill" /\ lines = <<>>
  /\ pc' = "options"
  /\ UNCHANGED <<hashVars, lines, argv, failures, conf>>

\* isOption(): a short option needs a further argument for its value.
Recognized == ~(TakesValue(Head(argv)) /\ Head(argv).short /\ Len(argv) = 1)
Value      == IF Head(argv).short THEN argv[2].text ELSE Head(argv).text
Rest       == IF TakesValue(Head(argv)) /\ Head(argv).short THEN Tail(Tail(argv)) ELSE Tail(argv)

\* The next option, with the lines it wants to be put.
Option(opt, puts) ==
  /\ pc = "options" /\ lines = <<>> /\ argv # <<>>
  /\ Head(argv).opt = opt /\ Recognized
  /\ lines' = puts
  /\ argv' = Rest
  /\ UNCHANGED <<hashVars, failures, pc, conf>>

OutputDir == Option("o", <<Line("BENCHIT_RUN_OUTPUT_DIR", Value)>>)

\* Mutant: the file is not read.
ParameterFileUnread == Option("p", <<Line("BENCHIT_PARAMETER_FILE", Value)>>)

\* A file that cannot be opened is a message and no error.
ParameterFile ==
  Option("p", <<Line("BENCHIT_PARAMETER_FILE", Value)>>
                \o (IF Value \in DOMAIN FILES THEN FILES[Value] ELSE <<>>))

\* isOption('o') looks at the argument that was found to be "-S".
Standalone == Option("S", <<Line("BENCHIT_RUN_OUTPUT_DIR", OUTPUT)>>)

\* Options without a value that the table has nothing to do with: -q, -v.
Quiet == Option("quiet", <<>>)

\* -h, -d, -V, and what is no option.
Stop ==
  /\ pc = "options" /\ lines = <<>> /\ argv # <<>>
  /\ Head(argv).opt \in {"stop", "none"} \/ ~Recognized
  /\ Exit /\ UNCHANGED failures

CommandLineRead ==
  /\ pc = "options" /\ lines = <<>> /\ argv = <<>>
  /\ pc' = "ready"
  /\ UNCHANGED <<hashVars, lines, argv, failures, conf>>

Done == pc \in {"ready", "exit"} /\ UNCHANGED vars

Init ==
  /\ table = [i \in Indices |-> <<>>] /\ ENTRIES = 0 /\ ret = NULL
  /\ conf \in [command : COMMANDS, environ : ENVIRONS]
  /\ lines = COMPILED /\ argv = conf.command
  /\ failures = 0 /\ pc = "fill"

Next == \/ PutLine \/ CallFails \/ Filled
        \/ OutputDir \/ ParameterFile \/ Standalone \/ Quiet \/ Stop
        \/ CommandLineRead \/ Done

Spec == Init /\ [][Next]_vars
----------------------------------------------------------------------------
(***************************************************************************)
(* Correctness properties.                                                 *)
(***************************************************************************)
Known == {k \in KEYS : Found(k)}

\* bi_get() of a key that is known.
bi_get(k) == table[HASH[k]][Place(k)].value

\* bi_getenv(): the environment of the process comes first.
bi_getenv(k) ==
  IF k \in DOMAIN conf.environ THEN [text |-> conf.environ[k], raw |-> FALSE]
  ELSE IF Found(k) THEN bi_get(k) ELSE NULL

Elements == [key : KEYS, value : Values \cup {NULL}]

\* A key is only in the chain to which bi_hash() leads, and there once.
Chains ==
  /\ DOMAIN table = Indices
  /\ \A i \in Indices :
       /\ table[i] \in Seq(Elements)
       /\ \A p, q \in DOMAIN table[i] :
            /\ HASH[table[i][p].key] = i
            /\ table[i][p].key = table[i][q].key => p = q

\* The table is well formed, bi_size() counts its keys, and what is still to be put
\* fits into it.
TypeOK ==
  /\ Chains
  /\ IsFiniteSet(Known) /\ ENTRIES = Cardinality(Known)
  /\ lines \in Seq(Lines) /\ argv \in Seq(Arguments)
  /\ failures \in 0 .. FAILURES

\* The table is the map of module EnvTable.
Table == INSTANCE EnvTable
           WITH VALUES <- Values, env <- [k \in Known |-> bi_get(k)]
IsTable == Table!Spec

\* An argument behind a short option with a value is that value and no option.
IsOption(args) ==
  LET option[p \in 0 .. Len(args)] ==
        p > 0 /\ (p > 1 /\ args[p - 1].short /\ TakesValue(args[p - 1]) => ~option[p - 1])
  IN  option

\* What argument p says of the settings.
SaidBy(args, p) ==
  LET text == IF args[p].short THEN args[p + 1].text ELSE args[p].text
  IN  IF ~IsOption(args)[p] THEN <<>>
      ELSE CASE args[p].opt = "o" -> <<Line("BENCHIT_RUN_OUTPUT_DIR", text)>>
             [] args[p].opt = "p" -> <<Line("BENCHIT_PARAMETER_FILE", text)>>
                                       \o (IF text \in DOMAIN FILES THEN FILES[text] ELSE <<>>)
             [] args[p].opt = "S" -> <<Line("BENCHIT_RUN_OUTPUT_DIR", OUTPUT)>>
             [] OTHER             -> <<>>

\* What is said of the settings up to each argument, in the order in which it is said.
Said(args) ==
  LET said[p \in 0 .. Len(args)] ==
        IF p = 0 THEN COMPILED ELSE said[p - 1] \o SaidBy(args, p)
  IN  said

\* When the measurement begins every setting is what was said last, by the environment
\* of the process, else on the command line and in the files it names, else
\* when the program was compiled; in a file, unless blanks end the line.
SettingsInOrder ==
  pc = "ready" /\ failures = 0 =>
    \A k \in KEYS \ DOMAIN conf.environ :
      LET said == Said(conf.command)[Len(conf.command)]
          mine == {n \in DOMAIN said : said[n].entry /\ said[n].key = k}
      IN  IF mine = {} THEN bi_getenv(k) = NULL
          ELSE \E n \in mine :
                 /\ \A m \in mine : m <= n
                 /\ said[n].blanks \/ bi_getenv(k) = [text |-> said[n].value, raw |-> FALSE]
================================================================================
