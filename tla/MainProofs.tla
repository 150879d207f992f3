----------------------------- MODULE MainProofs -----------------------------
(***************************************************************************)
(* Proofs about main() of benchit.c: the settings it begins with (EnvHash) *)
(* and how it ends (Lifecycle).                                            *)
(*                                                                         *)
(* For every set of keys, hash function, command line and parameter file   *)
(* the hash table implements the map of module EnvTable, and its settings  *)
(* are what was said last.  OverwriteStep and InsertStep say what bi_put() *)
(* does to the keys of the table; the refinement follows step by step.     *)
(* For the order of the settings the invariant (OrderInv) is that the      *)
(* table holds the lines that the arguments read so far say, up to the     *)
(* ones still to be put.                                                   *)
(*                                                                         *)
(* However many signals come, and also while the program is being          *)
(* finished, main() and both handlers finish it once each at most, and in  *)
(* order.  Any position can be interrupted, so the invariant (EndInv)      *)
(* counts: a result file and a bi_cleanup() for each frame that is past    *)
(* them.  What is freed was freed by a frame that is still on the stack    *)
(* (Owned), so only one above it finds it freed; and a frame past          *)
(* write_results() that may still run brings a file with it (Written).     *)
(***************************************************************************)
EXTENDS EnvHash, Lifecycle, NumberFacts, FiniteSetTheorems, SequenceTheorems, TLAPS

\* No key is twice in a chain.
Once(c) == \A p, q \in DOMAIN c : c[p].key = c[q].key => p = q

\* In a chain that holds every key once, the first place of a key is its place.
LEMMA FirstPlace ==
  ASSUME NEW c \in Seq(Elements), Once(c), NEW k, NEW p \in DOMAIN c, c[p].key = k
  PROVE  (CHOOSE q \in DOMAIN c :
            /\ q \in DOMAIN c /\ c[q].key = k
            /\ \A r \in 1 .. q - 1 : ~(r \in DOMAIN c /\ c[r].key = k)) = p
<1> DEFINE First(q) == /\ q \in DOMAIN c /\ c[q].key = k
                       /\ \A r \in 1 .. q - 1 : ~(r \in DOMAIN c /\ c[r].key = k)
<1>1. \A q \in DOMAIN c : First(q) => q = p
  BY DEF Once
<1>2. p \in 1 .. Len(c) /\ \A r \in 1 .. p - 1 : r # p
  BY LenProperties
<1>3. First(p)
  BY <1>2 DEF Once
<1> HIDE DEF First
<1>4. (CHOOSE q \in DOMAIN c : First(q)) = p
  BY <1>1, <1>3
<1> QED
  BY <1>4 DEF First

\* So bi_find() returns the place of a key that is in its chain, before and after
\* a step.
LEMMA PlaceFound ==
  ASSUME Chains, NEW k \in KEYS, NEW p \in DOMAIN table[HASH[k]], table[HASH[k]][p].key = k
  PROVE  Place(k) = p
<1>1. HASH[k] \in Indices
  BY EnvAssumption DEF Indices
<1>2. table[HASH[k]] \in Seq(Elements) /\ Once(table[HASH[k]])
  BY <1>1 DEF Chains, Once
<1> QED
  BY <1>2, FirstPlace DEF Place, Holds

LEMMA PlaceFoundNext ==
  ASSUME Chains', NEW k \in KEYS, NEW p \in DOMAIN table'[HASH[k]], table'[HASH[k]][p].key = k
  PROVE  Place(k)' = p
<1>1. HASH[k] \in Indices
  BY EnvAssumption DEF Indices
<1>2. table'[HASH[k]] \in Seq(Elements) /\ Once(table'[HASH[k]])
  BY <1>1 DEF Chains, Once
<1> QED
  BY <1>2, FirstPlace DEF Place, Holds

LEMMA FoundIsPlace ==
  ASSUME Chains, NEW k \in KEYS, Found(k)
  PROVE  Place(k) \in DOMAIN table[HASH[k]] /\ table[HASH[k]][Place(k)].key = k
<1>1. PICK p \in DOMAIN table[HASH[k]] : table[HASH[k]][p].key = k
  BY DEF Found, Holds
<1> QED
  BY <1>1, PlaceFound

\* bi_put() of a known key changes the value of that key and nothing else.
LEMMA OverwriteStep ==
  ASSUME Chains, NEW k \in KEYS, NEW v \in Values \cup {NULL}, Found(k),
         SetValue(k, v)
  PROVE  /\ Chains' /\ Known' = Known
         /\ \A x \in Known : bi_get(x)' = IF x = k THEN v ELSE bi_get(x)
<1> DEFINE h == HASH[k]
           p == Place(k)
           e == [key |-> k, value |-> v]
<1>1. h \in Indices /\ table[h] \in Seq(Elements) /\ p \in DOMAIN table[h] /\ table[h][p].key = k
  BY FoundIsPlace, EnvAssumption DEF Indices, Chains
<1>2. e \in Elements /\ e.key = k /\ e.value = v
  BY DEF Elements
<1>3. table' = [table EXCEPT ![h] = [table[h] EXCEPT ![p] = e]]
  BY DEF SetValue
<1> HIDE DEF e, h, p
<1>4. /\ table'[h] = [table[h] EXCEPT ![p] = e] /\ \A i \in Indices \ {h} : table'[i] = table[i]
      /\ DOMAIN table' = Indices
  BY <1>1, <1>3 DEF Chains
<1>5. /\ table'[h] \in Seq(Elements) /\ DOMAIN table'[h] = DOMAIN table[h]
      /\ \A q \in DOMAIN table[h] : table'[h][q] = IF q = p THEN e ELSE table[h][q]
  BY <1>1, <1>2, <1>4, ExceptSeq, LenProperties
<1>6. \A i \in Indices : /\ table'[i] \in Seq(Elements) /\ DOMAIN table'[i] = DOMAIN table[i]
                         /\ \A q \in DOMAIN table[i] : table'[i][q].key = table[i][q].key
  BY <1>1, <1>2, <1>4, <1>5 DEF Chains
<1>7. Chains'
  BY <1>4, <1>6 DEF Chains
<1>8. Known' = Known
  <2>1. \A x \in KEYS : HASH[x] \in Indices
    BY EnvAssumption DEF Indices
  <2> QED
    BY <2>1, <1>6 DEF Known, Found, Holds
<1>9. ASSUME NEW x \in Known PROVE bi_get(x)' = IF x = k THEN v ELSE bi_get(x)
  <2>1. x \in KEYS /\ HASH[x] \in Indices /\ Found(x)
    BY EnvAssumption DEF Indices, Known
  <2>2. Place(x) \in DOMAIN table[HASH[x]] /\ table[HASH[x]][Place(x)].key = x
    BY <2>1, FoundIsPlace
  <2>3. Place(x)' = Place(x)
    BY <2>1, <2>2, <1>6, <1>7, PlaceFoundNext
  <2>4. CASE HASH[x] # h
    BY <2>1, <2>3, <2>4, <1>4 DEF bi_get, h
  <2>5. CASE HASH[x] = h
    <3>1. x = k <=> Place(x) = p
      BY <2>2, <2>5, <1>1 DEF p, h, Chains
    <3> QED
      BY <2>2, <2>3, <2>5, <3>1, <1>2, <1>5 DEF bi_get
  <2> QED
    BY <2>4, <2>5
<1> QED
  BY <1>7, <1>8, <1>9

\* bi_insert() adds the new key and changes no other.
LEMMA InsertStep ==
  ASSUME Chains, NEW k \in KEYS, NEW v \in Values \cup {NULL}, ~Found(k), AppendElement(k, v)
  PROVE  /\ Chains' /\ Known' = Known \cup {k}
         /\ bi_get(k)' = v /\ \A x \in Known : bi_get(x)' = bi_get(x)
<1> DEFINE h == HASH[k]
           e == [key |-> k, value |-> v]
           n == Len(table[h]) + 1
<1>1. h \in Indices /\ table[h] \in Seq(Elements)
  BY EnvAssumption DEF Indices, Chains
<1>2. e \in Elements /\ e.key = k /\ e.value = v
  BY DEF Elements
<1>3. table' = [table EXCEPT ![h] = Append(table[h], e)]
  BY DEF AppendElement
<1>4. \A q \in DOMAIN table[h] : table[h][q].key # k
  BY DEF Found, Holds
<1> HIDE DEF e
<1>5. /\ table'[h] = Append(table[h], e) /\ \A i \in Indices \ {h} : table'[i] = table[i]
      /\ DOMAIN table' = Indices
  BY <1>1, <1>3 DEF Chains
<1>6. /\ table'[h] \in Seq(Elements) /\ n \in DOMAIN table'[h] /\ n \notin DOMAIN table[h]
      /\ DOMAIN table'[h] = DOMAIN table[h] \cup {n}
      /\ \A q \in DOMAIN table[h] : table'[h][q] = table[h][q]
      /\ table'[h][n] = e
  <2>1. Len(table[h]) \in Nat /\ DOMAIN table[h] = 1 .. Len(table[h])
    BY <1>1, LenProperties
  <2>2. Append(table[h], e) \in Seq(Elements) /\ Len(Append(table[h], e)) = n
    BY <1>1, <1>2, AppendProperties
  <2>3. DOMAIN Append(table[h], e) = 1 .. n
    BY <2>2, LenProperties
  <2>4. /\ \A q \in 1 .. Len(table[h]) : Append(table[h], e)[q] = table[h][q]
        /\ Append(table[h], e)[n] = e
    BY <1>1, <1>2, AppendProperties
  <2> QED
    BY <1>5, <2>1, <2>2, <2>3, <2>4
<1> HIDE DEF n, h
<1>7. Chains'
  <2>1. \A i \in Indices : table'[i] \in Seq(Elements)
    BY <1>5, <1>6 DEF Chains
  <2>2. ASSUME NEW i \in Indices, NEW p \in DOMAIN table'[i], NEW q \in DOMAIN table'[i]
        PROVE  /\ HASH[table'[i][p].key] = i
               /\ table'[i][p].key = table'[i][q].key => p = q
    <3>1. CASE i # h
      BY <2>2, <3>1, <1>5 DEF Chains
    <3>2. CASE i = h
      <4>1. \A r \in DOMAIN table[h] : HASH[table[h][r].key] = h
        BY <1>1 DEF Chains
      <4>2. \A r, s \in DOMAIN table[h] : table[h][r].key = table[h][s].key => r = s
        BY <1>1 DEF Chains
      <4>3. HASH[k] = h
        BY DEF h
      <4> QED
        BY <2>2, <3>2, <4>1, <4>2, <4>3, <1>2, <1>4, <1>6
    <3> QED
      BY <3>1, <3>2
  <2> QED
    BY <1>5, <2>1, <2>2 DEF Chains
<1>8. ASSUME NEW x \in Known
      PROVE  Place(x) \in DOMAIN table'[HASH[x]] /\ table'[HASH[x]][Place(x)] = table[HASH[x]][Place(x)]
  <2>1. x \in KEYS /\ HASH[x] \in Indices /\ Found(x)
    BY EnvAssumption DEF Indices, Known
  <2>2. Place(x) \in DOMAIN table[HASH[x]]
    BY <2>1, FoundIsPlace
  <2> QED
    BY <2>1, <2>2, <1>5, <1>6
<1>9. ASSUME NEW x \in Known PROVE Found(x)' /\ bi_get(x)' = bi_get(x)
  <2>1. x \in KEYS /\ Found(x)
    BY DEF Known
  <2>2. table[HASH[x]][Place(x)].key = x
    BY <2>1, FoundIsPlace
  <2>3. Place(x)' = Place(x)
    BY <2>1, <2>2, <1>7, <1>8, PlaceFoundNext
  <2> QED
    BY <2>2, <2>3, <1>8 DEF bi_get, Found, Holds
<1>10. Found(k)' /\ bi_get(k)' = v
  <2>1. n \in DOMAIN table'[HASH[k]] /\ table'[HASH[k]][n] = e
    BY <1>6 DEF h
  <2>2. Place(k)' = n
    BY <2>1, <1>2, <1>7, PlaceFoundNext
  <2> QED
    BY <2>1, <2>2, <1>2 DEF bi_get, Found, Holds
<1>11. ASSUME NEW x \in KEYS, Found(x)', x # k PROVE x \in Known
  <2>1. PICK q \in DOMAIN table'[HASH[x]] : table'[HASH[x]][q].key = x
    BY <1>11 DEF Found, Holds
  <2>2. HASH[x] \in Indices
    BY EnvAssumption DEF Indices
  <2>3. q \in DOMAIN table[HASH[x]] /\ table[HASH[x]][q].key = x
    BY <2>1, <2>2, <1>2, <1>5, <1>6, <1>11
  <2> QED
    BY <2>3 DEF Known, Found, Holds
<1> QED
  BY <1>7, <1>9, <1>10, <1>11 DEF Known

\* What is said of the table in a state is said again if it does not change.
LEMMA SameTable ==
  ASSUME UNCHANGED hashVars
  PROVE  /\ Chains => Chains'
         /\ Known' = Known /\ \A x \in KEYS : bi_get(x)' = bi_get(x)
  BY DEF hashVars, Chains, Known, Found, Holds, bi_get, Place

\* One bi_put() keeps the invariant and is a step of the map.
LEMMA PutStep ==
  ASSUME TypeOK, NEW l \in Lines, Overwrite(l) \/ Insert(l) \/ InsertFails(l)
  PROVE  /\ Chains' /\ IsFiniteSet(Known') /\ ENTRIES' = Cardinality(Known')
         /\ Table!Next
<1> DEFINE k == l.key
           map == [x \in Known |-> bi_get(x)]
<1>1. k \in KEYS /\ Cleaned(l) \in Values
  BY DEF Lines, Cleaned, Values
<1>2. Chains /\ IsFiniteSet(Known) /\ ENTRIES = Cardinality(Known)
  BY DEF TypeOK
<1>3. DOMAIN map = Known /\ (k \in Known <=> Found(k))
  BY <1>1 DEF Known
<1>4. CASE Overwrite(l)
  <2>1. Found(k) /\ ret' = 1 /\ ENTRIES' = ENTRIES
    BY <1>4 DEF Overwrite
  <2>2. PICK v \in {NULL, Cleaned(l)} : SetValue(k, v)
    BY <1>4 DEF Overwrite
  <2>3. /\ Chains' /\ Known' = Known
        /\ \A x \in Known : bi_get(x)' = IF x = k THEN v ELSE bi_get(x)
    BY <1>1, <1>2, <2>1, <2>2, OverwriteStep
  <2>4. Table!Put(k, v)
    <3>1. map' = [x \in Known \cup {k} |-> IF x = k THEN v ELSE map[x]]
      BY <1>3, <2>1, <2>3
    <3> QED
      BY <3>1, <1>2, <1>3, <2>1, <2>3 DEF Table!Put
  <2>5. Table!Next
    <3>1. CASE v = NULL
      BY <3>1, <1>1, <1>3, <2>1, <2>4 DEF Table!Next, Table!Lose
    <3>2. CASE v = Cleaned(l)
      BY <3>2, <1>1, <2>4 DEF Table!Next
    <3> QED
      BY <3>1, <3>2, <2>2
  <2> QED
    BY <1>2, <2>1, <2>3, <2>5
<1>5. CASE Insert(l)
  <2>1. ~Found(k) /\ ret' = 0 /\ ENTRIES' = ENTRIES + 1 /\ AppendElement(k, Cleaned(l))
    BY <1>5 DEF Insert
  <2>2. /\ Chains' /\ Known' = Known \cup {k}
        /\ bi_get(k)' = Cleaned(l) /\ \A x \in Known : bi_get(x)' = bi_get(x)
    BY <1>1, <1>2, <2>1, InsertStep
  <2>3. IsFiniteSet(Known') /\ ENTRIES' = Cardinality(Known')
    BY <1>2, <1>3, <2>1, <2>2, FS_AddElement
  <2>4. Table!Put(k, Cleaned(l))
    <3>1. map' = [x \in Known \cup {k} |-> IF x = k THEN Cleaned(l) ELSE map[x]]
      BY <1>3, <2>1, <2>2
    <3>2. DOMAIN map' = Known'
      OBVIOUS
    <3> QED
      BY <3>1, <3>2, <1>3, <2>1, <2>3 DEF Table!Put
  <2> QED
    BY <1>1, <1>2, <2>1, <2>2, <2>3, <2>4 DEF Table!Next
<1>6. CASE InsertFails(l)
  <2>1. UNCHANGED <<table, ENTRIES>> /\ ~Found(k) /\ ret' = -1
    BY <1>6 DEF InsertFails
  <2>2. Chains' /\ Known' = Known /\ \A x \in KEYS : bi_get(x)' = bi_get(x)
    BY <1>2, <2>1 DEF Chains, Known, Found, Holds, bi_get, Place
  <2>3. map' = map
    BY <2>2 DEF Known
  <2>4. Table!Refuse(k)
    BY <1>3, <2>1, <2>3 DEF Table!Refuse
  <2> QED
    BY <1>1, <1>2, <2>1, <2>2, <2>4 DEF Table!Next
<1> QED
  BY <1>4, <1>5, <1>6

\* Calls of bi_put() have the type of lines.
LEMMA LineType ==
  ASSUME NEW k \in {"BENCHIT_RUN_OUTPUT_DIR", "BENCHIT_PARAMETER_FILE"}, NEW v \in TEXTS
  PROVE  <<Line(k, v)>> \in Seq(Lines)
<1>1. Line(k, v) \in Lines
  BY EnvAssumption DEF Line, Lines
<1> QED
  BY <1>1

\* An option that is recognized leaves arguments, and has the value it needs.
LEMMA OptionType ==
  ASSUME argv \in Seq(Arguments), argv # <<>>, Recognized
  PROVE  Rest \in Seq(Arguments) /\ (TakesValue(Head(argv)) => Value \in TEXTS)
<1>1. /\ Head(argv) \in Arguments /\ Tail(argv) \in Seq(Arguments)
      /\ Len(Tail(argv)) = Len(argv) - 1 /\ Len(argv) \in Nat \ {0}
  BY HeadTailProperties, EmptySeq
<1>2. Head(argv).text \in TEXTS
  BY <1>1 DEF Arguments
<1>3. CASE TakesValue(Head(argv)) /\ Head(argv).short
  <2>1. Len(argv) >= 2
    BY <1>1, <1>3 DEF Recognized
  <2>2. Tail(argv) # <<>>
    <3>1. Len(Tail(argv)) # 0
      BY <1>1, <2>1
    <3> QED
      BY <3>1, EmptySeq
  <2>3. Tail(Tail(argv)) \in Seq(Arguments)
    BY <1>1, <2>2, HeadTailProperties
  <2>4. argv[2] \in Arguments
    BY <2>1, <1>1, ElementOfSeq
  <2> QED
    BY <1>3, <2>3, <2>4 DEF Rest, Value, Arguments
<1> QED
  BY <1>1, <1>2, <1>3 DEF Rest, Value

\* Every step keeps the types, and maps to a step of the map or to a stutter.
LEMMA EveryStep ==
  ASSUME TypeOK, [Next]_vars
  PROVE  TypeOK' /\ [Table!Next]_(Table!vars)
<1> USE DEF Table!vars
<1>1. ASSUME UNCHANGED hashVars
      PROVE  /\ Chains' /\ IsFiniteSet(Known') /\ ENTRIES' = Cardinality(Known')
             /\ UNCHANGED Table!vars
  <2>1. Chains' /\ Known' = Known /\ \A x \in KEYS : bi_get(x)' = bi_get(x)
    BY <1>1, SameTable DEF TypeOK
  <2>2. UNCHANGED <<ENTRIES, ret>>
    BY <1>1 DEF hashVars
  <2>3. [x \in Known |-> bi_get(x)]' = [x \in Known |-> bi_get(x)]
    BY <2>1 DEF Known
  <2> QED
    BY <2>1, <2>2, <2>3 DEF TypeOK
<1>2. CASE PutLine
  <2>1. Head(lines) \in Lines /\ Tail(lines) \in Seq(Lines)
    BY <1>2, HeadTailProperties DEF PutLine, TypeOK
  <2>2. lines' \in Seq(Lines) /\ argv' \in Seq(Arguments)
    BY <1>2, <2>1 DEF PutLine, TypeOK
  <2>3. failures' \in 0 .. FAILURES
    BY <1>2, EnvAssumption DEF PutLine, Overwrite, Insert, InsertFails, TypeOK
  <2>4. CASE Head(lines).entry
    BY <1>2, <2>1, <2>2, <2>3, <2>4, PutStep DEF PutLine, TypeOK
  <2>5. CASE ~Head(lines).entry
    BY <1>1, <1>2, <2>2, <2>3, <2>5 DEF PutLine, TypeOK
  <2> QED
    BY <2>4, <2>5
<1>3. CASE CallFails
  <2>1. failures' \in 0 .. FAILURES
    BY <1>3, EnvAssumption DEF CallFails, TypeOK
  <2> QED
    BY <1>1, <1>3, <2>1 DEF CallFails, Exit, TypeOK
<1>4. ASSUME NEW opt, NEW puts, Option(opt, puts),
             (TakesValue(Head(argv)) /\ Value \in TEXTS) \/ opt \notin {"o", "p"} =>
               puts \in Seq(Lines)
      PROVE  TypeOK' /\ [Table!Next]_(Table!vars)
  <2>1. Rest \in Seq(Arguments) /\ (TakesValue(Head(argv)) => Value \in TEXTS)
    BY <1>4, OptionType DEF Option, TypeOK
  <2>2. opt \in {"o", "p"} => TakesValue(Head(argv))
    BY <1>4 DEF Option, TakesValue
  <2> QED
    BY <1>1, <1>4, <2>1, <2>2 DEF Option, TypeOK
<1>5. CASE OutputDir
  BY <1>4, <1>5, LineType DEF OutputDir
<1>6. CASE ParameterFile
  <2>1. ASSUME Value \in TEXTS
        PROVE  <<Line("BENCHIT_PARAMETER_FILE", Value)>>
                 \o (IF Value \in DOMAIN FILES THEN FILES[Value] ELSE <<>>) \in Seq(Lines)
    <3>1. (IF Value \in DOMAIN FILES THEN FILES[Value] ELSE <<>>) \in Seq(Lines)
      BY EnvAssumption
    <3> QED
      BY <2>1, <3>1, LineType, ConcatProperties
  <2> QED
    BY <1>4, <1>6, <2>1 DEF ParameterFile
<1>7. CASE Standalone
  BY <1>4, <1>7, LineType, EnvAssumption DEF Standalone
<1>8. CASE Quiet
  <2>1. <<>> \in Seq(Lines)
    BY EmptySeq
  <2> QED
    BY <1>4, <1>8, <2>1 DEF Quiet
<1>9. CASE Filled \/ Stop \/ CommandLineRead \/ Done \/ UNCHANGED vars
  BY <1>1, <1>9 DEF Filled, Stop, Exit, CommandLineRead, Done, vars, hashVars, TypeOK
<1> QED
  BY <1>2, <1>3, <1>5, <1>6, <1>7, <1>8, <1>9 DEF Next

\* Before bi_fillTable() the table is empty, and so is the map.
LEMMA Start ==
  ASSUME Init
  PROVE  TypeOK /\ Table!Init
<1>1. Chains
  BY DEF Init, Chains
<1>2. Known = {}
  BY EnvAssumption DEF Init, Known, Found, Indices
<1>3. IsFiniteSet(Known) /\ ENTRIES = Cardinality(Known)
  BY <1>2, FS_EmptySet DEF Init
<1>4. /\ lines \in Seq(Lines) /\ argv \in Seq(Arguments) /\ failures \in 0 .. FAILURES
  BY EnvAssumption DEF Init
<1>5. [x \in Known |-> bi_get(x)] = [x \in {} |-> NULL]
  BY <1>2
<1> QED
  BY <1>1, <1>3, <1>4, <1>5 DEF TypeOK, Table!Init, Init

\* The hash table stays well formed, with every key once in the chain to which
\* bi_hash() leads, and ENTRIES counts the keys.
THEOREM TypeCorrect == Spec => []TypeOK
<1>1. Init => TypeOK
  BY Start
<1>2. TypeOK /\ [Next]_vars => TypeOK'
  BY EveryStep
<1> QED
  BY <1>1, <1>2, PTL DEF Spec

\* The chains of bienvhash.c implement a map, and bi_put() returns what its
\* comment says of it, but when memory is missing.
THEOREM Refinement == Spec => IsTable
<1>1. Init => Table!Init
  BY Start
<1>2. TypeOK /\ [Next]_vars => [Table!Next]_(Table!vars)
  BY EveryStep
<1> QED
  BY <1>1, <1>2, TypeCorrect, PTL DEF Spec, IsTable, Table!Spec
----------------------------------------------------------------------------
(***************************************************************************)
(* The order of the settings.  IsOption() and Said() go through the        *)
(* arguments one by one.                                                   *)
(***************************************************************************)
\* An argument is an option unless it is the value of the one before it.
LEMMA IsOptionSteps ==
  ASSUME NEW args \in Seq(Arguments), NEW p \in 1 .. Len(args)
  PROVE  /\ IsOption(args)[p] \in BOOLEAN
         /\ IsOption(args)[p] <=>
              (p > 1 /\ args[p - 1].short /\ TakesValue(args[p - 1]) => ~IsOption(args)[p - 1])
<1>1. PICK n \in Nat : n = Len(args)
  OBVIOUS
<1> DEFINE Step(k, s) == k > 1 /\ args[k - 1].short /\ TakesValue(args[k - 1]) => ~s
           Body(f) == [k \in 0 .. n |-> k > 0 /\ Step(k, f[k - 1])]
           option == CHOOSE f : f = Body(f)
<1>2. IsOption(args) = option
  BY <1>1 DEF IsOption
<1>3. \A k \in 1 .. n : \A s \in BOOLEAN : Step(k, s) \in BOOLEAN
  OBVIOUS
<1>4. \A k \in 0 .. n : k = 0 \/ (k \in 1 .. n /\ k # 0 /\ k > 0)
  OBVIOUS
<1> HIDE DEF Step
<1>5. PICK G \in [1 .. n -> [BOOLEAN -> BOOLEAN]] :
        \A k \in 1 .. n : \A s \in BOOLEAN : G[k][s] = Step(k, s)
  <2> DEFINE G == [k \in 1 .. n |-> [s \in BOOLEAN |-> Step(k, s)]]
  <2>1. G \in [1 .. n -> [BOOLEAN -> BOOLEAN]] /\ \A k \in 1 .. n : \A s \in BOOLEAN : G[k][s] = Step(k, s)
    BY <1>3
  <2> HIDE DEF G
  <2> QED BY <2>1
<1>6. PICK f : f \in [0 .. n -> BOOLEAN] /\ f[0] = FALSE /\ \A k \in 1 .. n : f[k] = G[k][f[k - 1]]
  <2>1. \E f : Follows(f, n, BOOLEAN, FALSE, G)
    BY <1>1, <1>5, Recursion
  <2> QED BY <2>1 DEF Follows
<1>7. f = Body(f)
  <2>1. \A k \in 1 .. n : k - 1 \in 0 .. n
    OBVIOUS
  <2>2. \A k \in 1 .. n : f[k] = Step(k, f[k - 1])
    BY <1>5, <1>6, <2>1
  <2>3. \A k \in 0 .. n : f[k] = Body(f)[k]
    BY <1>4, <1>6, <2>2
  <2>4. f = [k \in 0 .. n |-> f[k]]
    BY <1>6
  <2> QED BY <2>3, <2>4
<1>8. option = Body(option)
  BY <1>7
<1> HIDE DEF option
<1>9. p \in 0 .. n /\ p > 0
  BY <1>1
<1>10. option[p] = (p > 0 /\ Step(p, option[p - 1]))
  BY <1>8, <1>9
<1>11. option[p] \in BOOLEAN
  BY <1>10 DEF Step
<1>12. option[p] <=> Step(p, option[p - 1])
  BY <1>9, <1>10 DEF Step
<1> QED BY <1>2, <1>11, <1>12 DEF Step

\* What is said is what was said before, and what the argument says.
LEMMA SaidSteps ==
  ASSUME NEW args \in Seq(Arguments)
  PROVE  /\ Said(args)[0] = COMPILED
         /\ \A p \in 1 .. Len(args) : Said(args)[p] = Said(args)[p - 1] \o SaidBy(args, p)
<1>1. PICK n \in Nat : n = Len(args)
  OBVIOUS
<1> DEFINE text(p) == IF args[p].short THEN args[p + 1].text ELSE args[p].text
           L == Lines \cup {Line("BENCHIT_RUN_OUTPUT_DIR", text(p)) : p \in 1 .. n}
                      \cup {Line("BENCHIT_PARAMETER_FILE", text(p)) : p \in 1 .. n}
           A == Seq(L)
           Body(f) == [p \in 0 .. n |-> IF p = 0 THEN COMPILED ELSE f[p - 1] \o SaidBy(args, p)]
           said == CHOOSE f : f = Body(f)
<1>2. Said(args) = said
  BY <1>1 DEF Said
<1>3. COMPILED \in A /\ \A f \in DOMAIN FILES : FILES[f] \in A
  BY EnvAssumption
<1>4. \A p \in 1 .. n : SaidBy(args, p) \in A
  <2> SUFFICES ASSUME NEW p \in 1 .. n PROVE SaidBy(args, p) \in A
    OBVIOUS
  <2>1. Line("BENCHIT_RUN_OUTPUT_DIR", text(p)) \in L /\ Line("BENCHIT_PARAMETER_FILE", text(p)) \in L
    OBVIOUS
  <2>2. Line("BENCHIT_RUN_OUTPUT_DIR", OUTPUT) \in L
    BY EnvAssumption DEF Line, Lines
  <2> HIDE DEF text, L
  <2>3. /\ <<Line("BENCHIT_RUN_OUTPUT_DIR", text(p))>> \in A
        /\ <<Line("BENCHIT_PARAMETER_FILE", text(p))>> \in A
        /\ <<Line("BENCHIT_RUN_OUTPUT_DIR", OUTPUT)>> \in A /\ <<>> \in A
    BY <2>1, <2>2
  <2>4. (IF text(p) \in DOMAIN FILES THEN FILES[text(p)] ELSE <<>>) \in A
    BY <1>3, <2>3
  <2>5. <<Line("BENCHIT_PARAMETER_FILE", text(p))>>
          \o (IF text(p) \in DOMAIN FILES THEN FILES[text(p)] ELSE <<>>) \in A
    BY <2>3, <2>4, ConcatProperties
  <2> QED BY <2>3, <2>5 DEF SaidBy, text
<1> HIDE DEF L, text
<1>5. \A p \in 1 .. n : \A s \in A : s \o SaidBy(args, p) \in A
  BY <1>4, ConcatProperties
<1> HIDE DEF A
<1>6. PICK G \in [1 .. n -> [A -> A]] :
        \A p \in 1 .. n : \A s \in A : G[p][s] = s \o SaidBy(args, p)
  <2> DEFINE G == [p \in 1 .. n |-> [s \in A |-> s \o SaidBy(args, p)]]
  <2>1. G \in [1 .. n -> [A -> A]] /\ \A p \in 1 .. n : \A s \in A : G[p][s] = s \o SaidBy(args, p)
    BY <1>5
  <2> HIDE DEF G
  <2> QED BY <2>1
<1>7. PICK f : f \in [0 .. n -> A] /\ f[0] = COMPILED /\ \A p \in 1 .. n : f[p] = G[p][f[p - 1]]
  <2>1. \E f : Follows(f, n, A, COMPILED, G)
    BY <1>1, <1>3, <1>6, Recursion
  <2> QED BY <2>1 DEF Follows
<1>8. f = Body(f)
  <2>1. \A p \in 1 .. n : p - 1 \in 0 .. n
    OBVIOUS
  <2>2. \A p \in 1 .. n : f[p] = f[p - 1] \o SaidBy(args, p)
    BY <1>6, <1>7, <2>1
  <2>3. \A p \in 0 .. n : p = 0 \/ p \in 1 .. n
    OBVIOUS
  <2>4. \A p \in 0 .. n : f[p] = Body(f)[p]
    BY <1>7, <2>2, <2>3
  <2>5. f = [p \in 0 .. n |-> f[p]]
    BY <1>7
  <2> QED BY <2>4, <2>5
<1>9. said = Body(said)
  BY <1>8
<1> HIDE DEF said
<1>10. said[0] = COMPILED /\ \A p \in 1 .. n : said[p] = said[p - 1] \o SaidBy(args, p)
  <2>1. 0 \in 0 .. n /\ \A p \in 1 .. n : p \in 0 .. n /\ p # 0
    OBVIOUS
  <2>2. \A p \in 0 .. n : said[p] = IF p = 0 THEN COMPILED ELSE said[p - 1] \o SaidBy(args, p)
    BY <1>9
  <2> QED BY <2>1, <2>2
<1> QED BY <1>1, <1>2, <1>10

\* The first u of the lines s name key k; line n is the last that does.
Names(s, u, k, n)  == n \in 1 .. u /\ s[n].entry /\ s[n].key = k
IsLast(s, u, k, n) == Names(s, u, k, n) /\ \A m \in 1 .. u : Names(s, u, k, m) => m <= n

\* The table holds the first u of the lines s.
Applied(s, u) ==
  \A k \in KEYS :
    /\ Found(k) => \E n \in 1 .. u : IsLast(s, u, k, n) /\ bi_get(k) = Cleaned(s[n])
    /\ ~Found(k) => \A n \in 1 .. u : ~Names(s, u, k, n)

\* The arguments, how many of them are read, what they say, and how much of it is put.
Args     == conf.command
ReadArgs == Len(Args) - Len(argv)
Spoken   == Said(Args)[ReadArgs]
PutLines == Len(Spoken) - Len(lines)

\* What is left of a list.
IsRest(rest, list) ==
  /\ Len(rest) <= Len(list)
  /\ \A i \in 1 .. Len(rest) : rest[i] = list[Len(list) - Len(rest) + i]

\* The table holds what was said by the arguments that are read, but for the lines
\* that are still to be put.
OrderInv ==
  /\ Args \in Seq(Arguments) /\ IsRest(argv, Args)
  /\ pc = "fill" => ReadArgs = 0
  /\ pc = "ready" => lines = <<>> /\ argv = <<>>
  /\ pc # "exit" =>
       /\ Spoken \in Seq(Lines) /\ IsRest(lines, Spoken)
       /\ argv # <<>> => IsOption(Args)[ReadArgs + 1]
       /\ failures = 0 => Applied(Spoken, PutLines)

\* The table does not change, and the lines that were put are the same.
LEMMA SameApplied ==
  ASSUME NEW s, NEW r, NEW u \in Nat, \A n \in 1 .. u : r[n] = s[n],
         UNCHANGED hashVars, Applied(s, u)
  PROVE  Applied(r, u)'
<1>1. \A k \in KEYS : (Found(k)' <=> Found(k)) /\ bi_get(k)' = bi_get(k)
  BY SameTable DEF Known
<1>2. \A k \in KEYS, n \in 1 .. u : (Names(r, u, k, n) <=> Names(s, u, k, n))
  BY DEF Names
<1>3. \A k \in KEYS, n \in 1 .. u : (IsLast(r, u, k, n) <=> IsLast(s, u, k, n))
  BY <1>2 DEF IsLast
<1> QED BY <1>1, <1>2, <1>3 DEF Applied

\* A line that is no entry is passed over.
LEMMA SkipApplied ==
  ASSUME NEW s, NEW u \in Nat, ~s[u + 1].entry, UNCHANGED hashVars, Applied(s, u)
  PROVE  Applied(s, u + 1)'
<1>1. \A k \in KEYS : (Found(k)' <=> Found(k)) /\ bi_get(k)' = bi_get(k)
  BY SameTable DEF Known
<1>2. \A n \in 1 .. u + 1 : n = u + 1 \/ n \in 1 .. u
  OBVIOUS
<1>3. \A n \in 1 .. u : n \in 1 .. u + 1
  OBVIOUS
<1>4. \A k \in KEYS, n \in 1 .. u + 1 : (Names(s, u + 1, k, n) <=> Names(s, u, k, n))
  BY <1>2, <1>3 DEF Names
<1>5. \A k \in KEYS, n \in 1 .. u : IsLast(s, u, k, n) => IsLast(s, u + 1, k, n)
  BY <1>2, <1>3, <1>4 DEF IsLast, Names
<1>6. \A k \in KEYS, n \in 1 .. u + 1 : ~Found(k) => ~Names(s, u + 1, k, n)
  BY <1>4 DEF Names, Applied
<1> QED BY <1>1, <1>3, <1>5, <1>6 DEF Applied

\* bi_put() without a failure: the key of the line has its value now.
LEMMA PutApplied ==
  ASSUME TypeOK, NEW s, NEW u \in Nat, s[u + 1] \in Lines, s[u + 1].entry, failures' = failures,
         Overwrite(s[u + 1]) \/ Insert(s[u + 1]) \/ InsertFails(s[u + 1]), Applied(s, u)
  PROVE  Applied(s, u + 1)'
<1> DEFINE l == s[u + 1]
<1>1. l.key \in KEYS /\ Cleaned(l) \in Values /\ l \in Lines
  BY DEF Lines, Cleaned, Values
<1>2. Chains /\ failures \in Nat
  BY EnvAssumption DEF TypeOK
<1>3. /\ Known' = Known \cup {l.key} /\ bi_get(l.key)' = Cleaned(l)
      /\ \A x \in Known : x # l.key => bi_get(x)' = bi_get(x)
  <2>1. CASE Overwrite(l)
    <3>1. PICK fails \in BOOLEAN : /\ SetValue(l.key, IF fails THEN NULL ELSE Cleaned(l))
                                   /\ failures' = failures + (IF fails THEN 1 ELSE 0)
      BY <2>1 DEF Overwrite
    <3>2. ~fails
      BY <3>1, <1>2
    <3>3. SetValue(l.key, Cleaned(l)) /\ Found(l.key) /\ l.key \in Known
      BY <1>1, <2>1, <3>1, <3>2 DEF Overwrite, Known
    <3>4. Known' = Known /\ \A x \in Known : bi_get(x)' = IF x = l.key THEN Cleaned(l) ELSE bi_get(x)
      BY <1>1, <1>2, <3>3, OverwriteStep
    <3> QED BY <3>3, <3>4
  <2>2. CASE Insert(l)
    <3>1. ~Found(l.key) /\ AppendElement(l.key, Cleaned(l))
      BY <2>2 DEF Insert
    <3> QED BY <1>1, <1>2, <3>1, InsertStep
  <2>3. ~InsertFails(l)
    BY <1>2 DEF InsertFails
  <2> QED BY <2>1, <2>2, <2>3
<1>4. \A n \in 1 .. u + 1 : n = u + 1 \/ n \in 1 .. u
  OBVIOUS
<1>5. u + 1 \in 1 .. u + 1 /\ \A n \in 1 .. u : n \in 1 .. u + 1
  OBVIOUS
<1>6. ASSUME NEW k \in KEYS
      PROVE  /\ Found(k)' => \E n \in 1 .. u + 1 : IsLast(s, u + 1, k, n) /\ bi_get(k)' = Cleaned(s[n])
             /\ ~Found(k)' => \A n \in 1 .. u + 1 : ~Names(s, u + 1, k, n)
  <2>1. CASE k = l.key
    <3>1. Names(s, u + 1, k, u + 1)
      BY <1>5, <2>1 DEF Names
    <3>2. IsLast(s, u + 1, k, u + 1)
      BY <3>1 DEF IsLast
    <3>3. Found(k)'
      BY <1>3, <2>1 DEF Known
    <3> QED BY <1>3, <1>5, <2>1, <3>2, <3>3
  <2>2. CASE k # l.key
    <3>1. (Found(k)' <=> Found(k)) /\ (Found(k) => bi_get(k)' = bi_get(k))
      BY <1>3, <2>2 DEF Known
    <3>2. \A n \in 1 .. u + 1 : (Names(s, u + 1, k, n) <=> Names(s, u, k, n))
      BY <1>4, <1>5, <2>2 DEF Names
    <3>3. \A n \in 1 .. u : IsLast(s, u, k, n) => IsLast(s, u + 1, k, n)
      BY <1>4, <1>5, <3>2 DEF IsLast, Names
    <3>4. ~Found(k) => \A n \in 1 .. u + 1 : ~Names(s, u + 1, k, n)
      BY <3>2 DEF Names, Applied
    <3> QED BY <1>5, <3>1, <3>3, <3>4 DEF Applied
  <2> QED BY <2>1, <2>2
<1> QED BY <1>6 DEF Applied

\* The next of what is left.
LEMMA NextOfRest ==
  ASSUME NEW S, NEW list \in Seq(S), NEW rest \in Seq(S), rest # <<>>, IsRest(rest, list)
  PROVE  /\ Len(list) \in Nat /\ Len(rest) \in 1 .. Len(list)
         /\ Len(Tail(rest)) = Len(rest) - 1 /\ Tail(rest) \in Seq(S)
         /\ Head(rest) = list[Len(list) - Len(rest) + 1]
         /\ IsRest(Tail(rest), list)
<1>1. /\ Len(list) \in Nat /\ Len(rest) \in Nat /\ Len(rest) # 0 /\ Len(rest) <= Len(list)
      /\ Tail(rest) \in Seq(S) /\ Len(Tail(rest)) = Len(rest) - 1
      /\ Head(rest) = rest[1]
  BY HeadTailProperties, EmptySeq DEF IsRest
<1>2. Head(rest) = list[Len(list) - Len(rest) + 1]
  BY <1>1 DEF IsRest
<1>3. ASSUME NEW i \in 1 .. Len(Tail(rest))
      PROVE  Tail(rest)[i] = list[Len(list) - Len(Tail(rest)) + i]
  <2>1. i + 1 \in 1 .. Len(rest) /\ Tail(rest)[i] = rest[i + 1]
    BY <1>1, HeadTailProperties
  <2>2. rest[i + 1] = list[Len(list) - Len(rest) + (i + 1)]
    BY <2>1 DEF IsRest
  <2>3. Len(list) - Len(rest) + (i + 1) = Len(list) - Len(Tail(rest)) + i
    BY <1>1
  <2> QED BY <2>1, <2>2, <2>3
<1> QED BY <1>1, <1>2, <1>3 DEF IsRest

\* Types of what the invariant is about.
LEMMA OrderTypes ==
  ASSUME TypeOK, OrderInv
  PROVE  /\ Len(Args) \in Nat /\ Len(argv) \in 0 .. Len(Args) /\ ReadArgs \in 0 .. Len(Args)
         /\ pc # "exit" => Len(Spoken) \in Nat /\ Len(lines) \in 0 .. Len(Spoken) /\ PutLines \in Nat
<1>1. Len(Args) \in Nat /\ Len(argv) \in Nat /\ Len(argv) <= Len(Args)
  BY DEF OrderInv, TypeOK, IsRest
<1>2. pc # "exit" => Len(Spoken) \in Nat /\ Len(lines) \in Nat /\ Len(lines) <= Len(Spoken)
  BY DEF OrderInv, TypeOK, IsRest
<1> QED BY <1>1, <1>2 DEF ReadArgs, PutLines

\* A line is put, or passed over.
LEMMA OrderPut ==
  ASSUME TypeOK, OrderInv, PutLine
  PROVE  OrderInv'
<1>1. /\ lines # <<>> /\ pc # "exit" /\ lines' = Tail(lines)
      /\ UNCHANGED <<argv, pc, conf>> /\ lines \in Seq(Lines) /\ Spoken \in Seq(Lines)
      /\ IsRest(lines, Spoken)
  BY DEF PutLine, OrderInv, TypeOK
<1>2. PICK s : s = Spoken
  OBVIOUS
<1>3. PICK u \in Nat : u = PutLines
  BY <1>1, OrderTypes
<1>4. /\ Args' = Args /\ ReadArgs' = ReadArgs /\ Spoken' = s
  BY <1>1, <1>2 DEF Args, ReadArgs, Spoken
<1>5. /\ Len(s) \in Nat /\ Len(lines) \in 1 .. Len(s) /\ Len(lines') = Len(lines) - 1
      /\ Head(lines) = s[u + 1] /\ IsRest(lines', s)
  BY <1>1, <1>2, <1>3, NextOfRest DEF PutLines
<1>6. PutLines' = u + 1 /\ u = Len(s) - Len(lines)
  BY <1>2, <1>3, <1>4, <1>5 DEF PutLines
<1>7. s[u + 1] \in Lines
  BY <1>1, <1>2, <1>5, <1>6
<1>8. failures' = 0 => Applied(s, u + 1)'
  <2> SUFFICES ASSUME failures' = 0 PROVE Applied(s, u + 1)'
    OBVIOUS
  <2>1. failures \in Nat
    BY EnvAssumption DEF TypeOK
  <2>2. failures = 0
    BY <2>1 DEF PutLine, Overwrite, Insert, InsertFails
  <2>3. Applied(s, u)
    BY <1>1, <1>2, <1>3, <2>2 DEF OrderInv
  <2>4. CASE s[u + 1].entry
    <3>1. Overwrite(s[u + 1]) \/ Insert(s[u + 1]) \/ InsertFails(s[u + 1])
      BY <1>5, <2>4 DEF PutLine
    <3> QED BY <1>7, <2>2, <2>3, <2>4, <3>1, PutApplied
  <2>5. CASE ~s[u + 1].entry
    <3>1. UNCHANGED hashVars
      BY <1>5, <2>5 DEF PutLine
    <3> QED BY <2>3, <2>5, <3>1, SkipApplied
  <2> QED BY <2>4, <2>5
<1>9. failures' = 0 => Applied(Spoken, PutLines)'
  BY <1>4, <1>6, <1>8 DEF Applied
<1> QED BY <1>1, <1>2, <1>4, <1>5, <1>9 DEF OrderInv

\* Steps that only change pc, or that end the program.
LEMMA OrderSame ==
  ASSUME OrderInv, TypeOK, UNCHANGED <<hashVars, lines, argv, conf>>,
         \/ pc' = "exit"
         \/ pc' \in {pc, "options"} /\ failures' = failures /\ pc # "exit"
         \/ pc' = "ready" /\ lines = <<>> /\ argv = <<>> /\ failures' = failures /\ pc # "exit"
  PROVE  OrderInv'
<1>1. /\ Args' = Args /\ ReadArgs' = ReadArgs /\ Spoken' = Spoken /\ PutLines' = PutLines
  BY DEF Args, ReadArgs, Spoken, PutLines
<1>2. CASE pc' = "exit"
  BY <1>1, <1>2 DEF OrderInv
<1>3. CASE pc' # "exit"
  <2>1. pc # "exit" /\ failures' = failures
    BY <1>3
  <2>2. failures' = 0 => Applied(Spoken, PutLines)'
    <3>1. PICK u \in Nat : u = PutLines
      BY <2>1, OrderTypes
    <3>2. PICK s : s = Spoken
      OBVIOUS
    <3>3. failures = 0 => Applied(s, u)'
      BY <2>1, <3>1, <3>2, SameApplied DEF OrderInv
    <3> QED BY <1>1, <2>1, <3>1, <3>2, <3>3 DEF Applied
  <2> QED BY <1>1, <2>1, <2>2 DEF OrderInv
<1> QED BY <1>2, <1>3

\* The argument that is read next is an option, and what stands behind it is either
\* its value, which says nothing itself, or the next option.
LEMMA NextOption ==
  ASSUME TypeOK, OrderInv, pc = "options", lines = <<>>, argv # <<>>, Recognized, argv' = Rest,
         conf' = conf
  PROVE  /\ ReadArgs + 1 \in 1 .. Len(Args) /\ Head(argv) = Args[ReadArgs + 1]
         /\ IsOption(Args)[ReadArgs + 1]
         /\ TakesValue(Head(argv)) =>
              Value = IF Args[ReadArgs + 1].short THEN Args[ReadArgs + 2].text
                                                  ELSE Args[ReadArgs + 1].text
         /\ IsRest(argv', Args)
         /\ argv' # <<>> => IsOption(Args)[ReadArgs' + 1]
         /\ Spoken' = Spoken \o SaidBy(Args, ReadArgs + 1) \/ SaidBy(Args, ReadArgs + 1) \notin Seq(Lines)
<1>1. /\ Args \in Seq(Arguments) /\ argv \in Seq(Arguments) /\ IsRest(argv, Args) /\ Args' = Args
      /\ Spoken \in Seq(Lines)
  BY DEF OrderInv, TypeOK, Args
<1>2. PICK p \in Nat : p = ReadArgs
  BY OrderTypes
<1>3. PICK n \in Nat : n = Len(Args)
  BY <1>1
<1>4. /\ Len(argv) \in 1 .. n /\ Len(Tail(argv)) = Len(argv) - 1 /\ Tail(argv) \in Seq(Arguments)
      /\ Head(argv) = Args[n - Len(argv) + 1] /\ IsRest(Tail(argv), Args)
  BY <1>1, <1>3, NextOfRest
<1>5. Len(argv) = n - p /\ p + 1 \in 1 .. n /\ Head(argv) = Args[p + 1]
  BY <1>2, <1>3, <1>4 DEF ReadArgs
<1>6. IsOption(Args)[p + 1]
  BY <1>2 DEF OrderInv
<1>7. \A k \in 1 .. n : Said(Args)[k] = Said(Args)[k - 1] \o SaidBy(Args, k)
  BY <1>1, <1>3, SaidSteps
<1>8. Said(Args)[p + 1] = Spoken \o SaidBy(Args, p + 1)
  <2>1. (p + 1) - 1 = p
    BY <1>2
  <2> QED BY <1>2, <1>5, <1>7, <2>1 DEF Spoken
<1>9. \A a \in Seq(Arguments) : a # <<>> <=> Len(a) # 0
  BY EmptySeq
<1>10. CASE TakesValue(Head(argv)) /\ Head(argv).short
  <2>1. Len(argv) >= 2
    BY <1>4, <1>10 DEF Recognized
  <2>2. PICK rest \in Seq(Arguments) : rest = Tail(argv)
    BY <1>4
  <2>3. Len(rest) = Len(argv) - 1 /\ IsRest(rest, Args) /\ rest # <<>>
    <3>1. Len(rest) = Len(argv) - 1 /\ IsRest(rest, Args)
      BY <1>4, <2>2
    <3>2. Len(rest) # 0
      BY <1>4, <2>1, <3>1
    <3> QED BY <1>9, <2>2, <3>1, <3>2
  <2>4. /\ Len(argv') = Len(argv) - 2 /\ argv' \in Seq(Arguments)
        /\ IsRest(argv', Args)
    <3>1. argv' = Tail(rest)
      BY <1>10, <2>2 DEF Rest
    <3>2. Len(Tail(rest)) = Len(rest) - 1 /\ Tail(rest) \in Seq(Arguments) /\ IsRest(Tail(rest), Args)
      BY <1>1, <2>2, <2>3, NextOfRest
    <3>3. Len(rest) - 1 = Len(argv) - 2
      BY <1>4, <2>3
    <3> QED BY <3>1, <3>2, <3>3
  <2>5. ReadArgs' = p + 2 /\ p + 2 \in 1 .. n
    <3>1. ReadArgs' = n - (Len(argv) - 2)
      BY <1>1, <1>3, <2>4 DEF ReadArgs
    <3> QED BY <1>2, <1>3, <1>5, <2>1, <3>1
  <2>6. argv[2] = Args[p + 2]
    <3>1. 2 \in 1 .. Len(argv) /\ Len(Args) - Len(argv) + 2 = p + 2
      BY <1>3, <1>5, <2>1, <1>4
    <3> QED BY <1>1, <3>1 DEF IsRest
  <2>7. ~IsOption(Args)[p + 2]
    <3>1. (p + 2) - 1 = p + 1 /\ p + 2 > 1
      BY <1>2
    <3> QED BY <1>1, <1>3, <1>5, <1>6, <1>10, <2>5, <3>1, IsOptionSteps
  <2>8. argv' # <<>> => IsOption(Args)[ReadArgs' + 1]
    <3> SUFFICES ASSUME argv' # <<>> PROVE IsOption(Args)[p + 3]
      BY <2>5
    <3>1. p + 3 \in 1 .. n
      BY <1>5, <1>9, <2>4, <2>5
    <3>2. (p + 3) - 1 = p + 2
      BY <1>2
    <3> QED BY <1>1, <1>3, <2>7, <3>1, <3>2, IsOptionSteps
  <2>9. ASSUME SaidBy(Args, p + 1) \in Seq(Lines)
        PROVE  Spoken' = Spoken \o SaidBy(Args, p + 1)
    <3>1. (p + 2) - 1 = p + 1
      BY <1>2
    <3>2. SaidBy(Args, p + 2) = <<>>
      BY <2>7 DEF SaidBy
    <3>3. Said(Args)[p + 2] = Said(Args)[p + 1] \o <<>>
      BY <1>7, <2>5, <3>1, <3>2
    <3>4. Said(Args)[p + 1] \in Seq(Lines)
      BY <1>1, <1>8, <2>9, ConcatProperties
    <3> QED BY <1>1, <1>8, <2>5, <3>3, <3>4, ConcatEmptySeq DEF Spoken
  <2>10. Value = Args[p + 2].text /\ Args[p + 1].short
    BY <1>5, <1>10, <2>6 DEF Value
  <2> QED BY <1>2, <1>3, <1>5, <1>6, <2>4, <2>8, <2>9, <2>10
<1>11. CASE ~(TakesValue(Head(argv)) /\ Head(argv).short)
  <2>1. argv' = Tail(argv)
    BY <1>11 DEF Rest
  <2>2. ReadArgs' = p + 1
    BY <1>1, <1>2, <1>3, <1>4, <1>5, <2>1 DEF ReadArgs
  <2>3. argv' # <<>> => IsOption(Args)[ReadArgs' + 1]
    <3> SUFFICES ASSUME argv' # <<>> PROVE IsOption(Args)[p + 2]
      BY <2>2
    <3>1. p + 2 \in 1 .. n
      BY <1>4, <1>5, <1>9, <2>1
    <3>2. (p + 2) - 1 = p + 1
      BY <1>2
    <3> QED BY <1>1, <1>3, <1>5, <1>11, <3>1, <3>2, IsOptionSteps
  <2>4. Spoken' = Spoken \o SaidBy(Args, p + 1)
    BY <1>1, <1>8, <2>2 DEF Spoken
  <2>5. TakesValue(Head(argv)) => Value = Args[p + 1].text /\ ~Args[p + 1].short
    BY <1>5, <1>11 DEF Value
  <2> QED BY <1>2, <1>3, <1>4, <1>5, <1>6, <2>1, <2>3, <2>4, <2>5
<1> QED BY <1>10, <1>11

\* An option, if what it wants to be put is what its argument says.
LEMMA OrderOption ==
  ASSUME TypeOK, TypeOK', OrderInv, NEW opt, NEW puts, Option(opt, puts),
         puts = SaidBy(Args, ReadArgs + 1)
  PROVE  OrderInv'
<1>1. /\ pc = "options" /\ pc' = "options" /\ lines = <<>> /\ argv # <<>> /\ Recognized
      /\ lines' = puts /\ argv' = Rest /\ UNCHANGED <<hashVars, failures, conf>>
      /\ lines' \in Seq(Lines) /\ Spoken \in Seq(Lines)
  BY DEF Option, TypeOK, OrderInv
<1>2. /\ IsRest(argv', Args) /\ (argv' # <<>> => IsOption(Args)[ReadArgs' + 1])
      /\ Spoken' = Spoken \o puts
  BY <1>1, NextOption
<1>3. PICK s \in Seq(Lines) : s = Spoken
  BY <1>1
<1>4. PICK q \in Seq(Lines) : q = puts
  BY <1>1
<1>5. PICK r \in Seq(Lines) : r = s \o q
  BY ConcatProperties
<1>6. /\ Len(r) = Len(s) + Len(q) /\ Len(s) \in Nat /\ Len(q) \in Nat
      /\ \A i \in 1 .. Len(s) : r[i] = s[i]
      /\ \A i \in 1 .. Len(q) : r[Len(s) + i] = q[i]
  <2>1. Len(r) = Len(s) + Len(q) /\ Len(s) \in Nat /\ Len(q) \in Nat
    BY <1>5, ConcatProperties
  <2>2. \A i \in 1 .. Len(r) : r[i] = IF i <= Len(s) THEN s[i] ELSE q[i - Len(s)]
    BY <1>5, ConcatProperties
  <2>3. \A i \in 1 .. Len(s) : i \in 1 .. Len(r) /\ i <= Len(s)
    BY <2>1
  <2>4. \A i \in 1 .. Len(q) : Len(s) + i \in 1 .. Len(r) /\ ~(Len(s) + i <= Len(s))
                                 /\ (Len(s) + i) - Len(s) = i
    BY <2>1
  <2> QED BY <2>1, <2>2, <2>3, <2>4
<1>7. IsRest(q, r)
  <2>1. Len(r) - Len(q) = Len(s) /\ Len(q) <= Len(r)
    BY <1>6
  <2> QED BY <1>6, <2>1 DEF IsRest
<1>8. PutLines = Len(s) /\ PutLines' = Len(s)
  <2>1. Len(lines) = 0
    BY <1>1
  <2> QED BY <1>1, <1>2, <1>3, <1>4, <1>5, <1>6, <2>1 DEF PutLines
<1>9. failures' = 0 => Applied(Spoken, PutLines)'
  <2>1. failures = 0 => Applied(s, Len(s))
    BY <1>1, <1>3, <1>8 DEF OrderInv
  <2>2. failures = 0 => Applied(r, Len(s))'
    BY <1>1, <1>6, <2>1, SameApplied
  <2> QED BY <1>1, <1>2, <1>3, <1>4, <1>5, <1>8, <2>2 DEF Applied
<1>10. Args' = Args /\ Spoken' = r /\ lines' = q
  BY <1>1, <1>2, <1>3, <1>4, <1>5 DEF Args
<1> QED BY <1>1, <1>2, <1>7, <1>9, <1>10 DEF OrderInv

\* Every step keeps the order.
LEMMA OrderStep ==
  ASSUME TypeOK, TypeOK', OrderInv, [Next]_vars
  PROVE  OrderInv'
<1> DEFINE a == Args[ReadArgs + 1]
           text == IF a.short THEN Args[ReadArgs + 2].text ELSE a.text
<1>1. ASSUME NEW opt, NEW puts, Option(opt, puts)
      PROVE  /\ IsOption(Args)[ReadArgs + 1] /\ a.opt = opt
             /\ opt \in {"o", "p"} => Value = text
  <2>1. /\ pc = "options" /\ lines = <<>> /\ argv # <<>> /\ Recognized /\ argv' = Rest
        /\ conf' = conf /\ Head(argv).opt = opt
    BY <1>1 DEF Option
  <2>2. Head(argv) = a
    BY <2>1, NextOption
  <2> QED BY <2>1, <2>2, NextOption DEF TakesValue
<1>2. text = IF a.short THEN Args[ReadArgs + 1 + 1].text ELSE a.text
  <2>1. ReadArgs + 1 + 1 = ReadArgs + 2
    BY OrderTypes
  <2> QED BY <2>1
<1> HIDE DEF a, text
<1>3. CASE PutLine
  BY <1>3, OrderPut
<1>4. CASE CallFails \/ Stop
  BY <1>4, OrderSame DEF CallFails, Stop, Exit
<1>5. CASE Filled
  BY <1>5, OrderSame DEF Filled
<1>6. CASE CommandLineRead
  BY <1>6, OrderSame DEF CommandLineRead
<1>7. CASE Done \/ UNCHANGED vars
  <2>1. UNCHANGED <<hashVars, lines, argv, conf, pc, failures>>
    BY <1>7 DEF Done, vars
  <2> QED BY <2>1, OrderSame
<1>8. CASE OutputDir
  <2>1. Option("o", <<Line("BENCHIT_RUN_OUTPUT_DIR", Value)>>)
    BY <1>8 DEF OutputDir
  <2>2. IsOption(Args)[ReadArgs + 1] /\ a.opt = "o" /\ Value = text
    BY <1>1, <2>1
  <2>3. SaidBy(Args, ReadArgs + 1) = <<Line("BENCHIT_RUN_OUTPUT_DIR", text)>>
    BY <1>2, <2>2 DEF SaidBy, a
  <2> QED BY <2>1, <2>2, <2>3, OrderOption
<1>9. CASE ParameterFile
  <2> DEFINE said(v) == <<Line("BENCHIT_PARAMETER_FILE", v)>>
                          \o (IF v \in DOMAIN FILES THEN FILES[v] ELSE <<>>)
  <2>1. Option("p", said(Value))
    BY <1>9 DEF ParameterFile
  <2> HIDE DEF said
  <2>2. IsOption(Args)[ReadArgs + 1] /\ a.opt = "p" /\ Value = text
    BY <1>1, <2>1
  <2>3. SaidBy(Args, ReadArgs + 1) = said(text)
    BY <1>2, <2>2 DEF SaidBy, a, said
  <2> QED BY <2>1, <2>2, <2>3, OrderOption
<1>10. CASE Standalone
  <2>1. Option("S", <<Line("BENCHIT_RUN_OUTPUT_DIR", OUTPUT)>>)
    BY <1>10 DEF Standalone
  <2>2. IsOption(Args)[ReadArgs + 1] /\ a.opt = "S"
    BY <1>1, <2>1
  <2>3. SaidBy(Args, ReadArgs + 1) = <<Line("BENCHIT_RUN_OUTPUT_DIR", OUTPUT)>>
    BY <2>2 DEF SaidBy, a
  <2> QED BY <2>1, <2>3, OrderOption
<1>11. CASE Quiet
  <2>1. Option("quiet", <<>>)
    BY <1>11 DEF Quiet
  <2>2. IsOption(Args)[ReadArgs + 1] /\ a.opt = "quiet"
    BY <1>1, <2>1
  <2>3. SaidBy(Args, ReadArgs + 1) = <<>>
    BY <2>2 DEF SaidBy, a
  <2> QED BY <2>1, <2>3, OrderOption
<1> QED BY <1>3, <1>4, <1>5, <1>6, <1>7, <1>8, <1>9, <1>10, <1>11 DEF Next

\* At first nothing is read and nothing put; the first argument is an option.
LEMMA OrderStart ==
  ASSUME Init
  PROVE  OrderInv
<1>1. TypeOK /\ Known = {} /\ argv = Args /\ lines = COMPILED /\ pc = "fill"
  BY Start, EnvAssumption DEF Init, Known, Found, Indices, Args
<1>2. Args \in Seq(Arguments) /\ Len(Args) \in Nat /\ ReadArgs = 0
  <2>1. Args \in Seq(Arguments) /\ Len(Args) \in Nat
    BY EnvAssumption DEF Init, Args
  <2> QED BY <1>1, <2>1 DEF ReadArgs
<1>3. Spoken = COMPILED /\ COMPILED \in Seq(Lines) /\ PutLines = 0
  <2>1. Spoken = COMPILED
    BY <1>2, SaidSteps DEF Spoken
  <2>2. COMPILED \in Seq(Lines) /\ Len(COMPILED) \in Nat
    BY EnvAssumption
  <2> QED BY <1>1, <2>1, <2>2 DEF PutLines
<1>4. IsRest(argv, Args) /\ IsRest(lines, Spoken)
  <2>1. \A list : Len(list) \in Nat => IsRest(list, list)
    BY DEF IsRest
  <2>2. Len(COMPILED) \in Nat
    BY <1>3
  <2> QED BY <1>1, <1>2, <1>3, <2>1, <2>2
<1>5. argv # <<>> => IsOption(Args)[ReadArgs + 1]
  <2> SUFFICES ASSUME Args # <<>> PROVE IsOption(Args)[1]
    BY <1>1, <1>2
  <2>1. 1 \in 1 .. Len(Args) /\ ~(1 > 1)
    BY <1>2, EmptySeq
  <2> QED BY <1>2, <2>1, IsOptionSteps
<1>6. Applied(Spoken, PutLines)
  <2>1. \A k \in KEYS : ~Found(k)
    BY <1>1 DEF Known
  <2> QED BY <1>3, <2>1 DEF Applied, Names
<1> QED BY <1>1, <1>2, <1>3, <1>4, <1>5, <1>6 DEF OrderInv

\* Until the program ends, the table holds what was said so far, in the order in which
\* it was said.
THEOREM OrderInvariant == Spec => []OrderInv
<1>1. Init => OrderInv
  BY OrderStart
<1>2. TypeOK /\ TypeOK' /\ OrderInv /\ [Next]_vars => OrderInv'
  BY OrderStep
<1> QED BY <1>1, <1>2, TypeCorrect, PTL DEF Spec

\* When all was read, the last that was said of a key is its setting.
LEMMA OrderDone ==
  ASSUME TypeOK, OrderInv
  PROVE  SettingsInOrder
<1> SUFFICES ASSUME pc = "ready", failures = 0, NEW k \in KEYS \ DOMAIN conf.environ
             PROVE  LET said == Said(Args)[Len(Args)]
                        mine == {n \in DOMAIN said : said[n].entry /\ said[n].key = k}
                    IN  IF mine = {} THEN bi_getenv(k) = NULL
                        ELSE \E n \in mine :
                               /\ \A m \in mine : m <= n
                               /\ said[n].blanks \/ bi_getenv(k) = [text |-> said[n].value, raw |-> FALSE]
  BY DEF SettingsInOrder, Args
<1>1. lines = <<>> /\ argv = <<>> /\ Len(Args) \in Nat
  BY OrderTypes DEF OrderInv
<1>2. PICK s \in Seq(Lines) : s = Spoken
  BY DEF OrderInv
<1>3. s = Said(Args)[Len(Args)] /\ PutLines = Len(s)
  <2>1. Len(argv) = 0 /\ Len(lines) = 0 /\ Len(s) \in Nat
    BY <1>1
  <2>2. ReadArgs = Len(Args)
    BY <1>1, <2>1 DEF ReadArgs
  <2> QED BY <1>2, <2>1, <2>2 DEF PutLines, Spoken
<1>4. PICK u \in Nat : u = Len(s) /\ DOMAIN s = 1 .. u
  BY LenProperties
<1>5. Applied(s, u)
  BY <1>2, <1>3, <1>4 DEF OrderInv
<1> DEFINE mine == {n \in 1 .. u : s[n].entry /\ s[n].key = k}
<1>6. \A n \in 1 .. u : (Names(s, u, k, n) <=> n \in mine)
  BY DEF Names
<1>7. CASE Found(k)
  <2>1. PICK n \in 1 .. u : IsLast(s, u, k, n) /\ bi_get(k) = Cleaned(s[n])
    BY <1>5, <1>7 DEF Applied
  <2>2. n \in mine /\ \A m \in mine : m <= n
    BY <1>6, <2>1 DEF IsLast
  <2>3. s[n] \in Lines
    BY <1>4
  <2>4. s[n].blanks \/ bi_get(k) = [text |-> s[n].value, raw |-> FALSE]
    BY <2>1, <2>3 DEF Cleaned, Lines
  <2>5. bi_getenv(k) = bi_get(k)
    BY <1>7 DEF bi_getenv
  <2> QED BY <1>3, <1>4, <2>2, <2>4, <2>5
<1>8. CASE ~Found(k)
  <2>1. mine = {}
    BY <1>5, <1>6, <1>8 DEF Applied
  <2>2. bi_getenv(k) = NULL
    BY <1>8 DEF bi_getenv
  <2> QED BY <1>3, <1>4, <2>1, <2>2
<1> QED BY <1>7, <1>8

\* For every table, command line and parameter file: each setting is what was said
\* last, on the command line, in the files it names, or when the program was compiled.
THEOREM SettingsAsSaid == Spec => []SettingsInOrder
BY TypeCorrect, OrderInvariant, OrderDone, PTL
----------------------------------------------------------------------------
(***************************************************************************)
(* The end of the program.                                                 *)
(***************************************************************************)
\* Positions at which a handler may return, and at which nothing is measured yet.
Asked    == {"ask", "drain", "rest", "return"}
Starting == {"init", "int", "term"}

\* Positions after write_results(), and after bi_cleanup().
Late == {"cleanup", "kill", "free", "freeall", "exit"}
Gone == {"kill", "free", "freeall", "exit"}

Frames == [kind : {"main", "int", "term"}, pc : PCs]

\* One frame of each kind at most, main() at the bottom; SIGTERM is not asked about.
StackOK ==
  /\ stack \in Seq(Frames)
  /\ Len(stack) > 0
  /\ stack[1].kind = "main"
  /\ \A j, k \in 1 .. Len(stack) : stack[j].kind = stack[k].kind => j = k
  /\ \A k \in 1 .. Len(stack) : stack[k].pc \in Asked => stack[k].kind = "int"

\* The frames at given positions, and some frame at one of them.
Count(pcs)  == Cardinality({k \in 1 .. Len(stack) : stack[k].pc \in pcs})
SomeAt(pcs) == \E k \in 1 .. Len(stack) : stack[k].pc \in pcs

\* A result file was completed by a frame that is past write_results(), and a call of
\* bi_cleanup() by one that is past it.
Counted ==
  /\ files \in Nat /\ files <= Count(Late \cup {"hung"})
  /\ cleaned \in Nat /\ cleaned <= Count(Gone \cup {"hung"})

\* What is freed or stopped was freed or stopped by a frame that is still on the stack.
Owned ==
  /\ resFreed => SomeAt({"exit"})
  /\ mcbFreed => SomeAt({"freeall", "exit"})
  /\ cleaned > 0 => SomeAt(Gone)
  /\ SomeAt({"free", "freeall", "exit"}) => watchdog = "gone"

\* A signal without a handler finds main() before the measurement.
Unmeasured ==
  /\ disp \in [Sigs -> {"default", "handler", "ignore"}]
  /\ disp["SIGINT"] = "default" => stack[1].pc \in {"init", "int"}
  /\ disp["SIGTERM"] = "default" => stack[1].pc \in Starting
  /\ stack[1].pc \in Starting => ~measured

\* A frame past write_results() that runs, or that those above it may return to, finds a
\* complete result file, unless it began on top of one that had freed the results.
Written ==
  \A k \in 1 .. Len(stack) :
    measured /\ stack[k].pc \in Late /\ (\A j \in k + 1 .. Len(stack) : stack[j].pc \in Asked)
      => files > 0 \/ \E j \in 1 .. k - 1 : stack[j].pc = "exit"

\* The inductive invariant.
EndInv ==
  /\ measured \in BOOLEAN
  /\ StackOK
  /\ Counted
  /\ exit = "running" => Owned /\ Unmeasured /\ Written
  /\ OrderlyEnd
----------------------------------------------------------------------------
LEMMA EndInitially == InitEnd => EndInv
<1> SUFFICES ASSUME InitEnd PROVE EndInv
  OBVIOUS
<1>1. Frame("main", "init") \in Frames
  BY DEF Frame, Frames, PCs
<1>2. stack \in Seq(Frames) /\ Len(stack) = 1 /\ stack[1].pc = "init" /\ stack[1].kind = "main"
  BY <1>1 DEF InitEnd, Frame
<1>3. StackOK
  BY <1>2 DEF StackOK, Asked
<1>4. Counted
  <2>1. {k \in 1 .. Len(stack) : stack[k].pc \in Late \cup {"hung"}} = {}
    BY <1>2 DEF Late
  <2>2. {k \in 1 .. Len(stack) : stack[k].pc \in Gone \cup {"hung"}} = {}
    BY <1>2 DEF Gone
  <2>3. Count(Late \cup {"hung"}) = 0 /\ Count(Gone \cup {"hung"}) = 0
    BY <2>1, <2>2, FS_EmptySet, Zenon DEF Count
  <2> QED BY <2>3 DEF InitEnd, Counted
<1>5. Owned
  BY <1>2 DEF InitEnd, Owned, SomeAt
<1>6. Unmeasured /\ Written /\ OrderlyEnd
  BY <1>2 DEF InitEnd, Unmeasured, Starting, Written, OrderlyEnd, Sigs
<1> QED BY <1>3, <1>4, <1>5, <1>6 DEF EndInv, InitEnd

\* Finitely many frames of a stack are at given positions.
LEMMA PlacesFinite ==
  ASSUME NEW s \in Seq(Frames), NEW pcs
  PROVE  /\ IsFiniteSet({k \in 1 .. Len(s) : s[k].pc \in pcs})
         /\ Cardinality({k \in 1 .. Len(s) : s[k].pc \in pcs}) \in Nat
<1> DEFINE K == {k \in 1 .. Len(s) : s[k].pc \in pcs}
<1>1. IsFiniteSet(1 .. Len(s)) /\ K \in SUBSET (1 .. Len(s))
  BY FS_Interval
<1>2. IsFiniteSet(K)
  BY <1>1, FS_Subset
<1> QED BY <1>2, FS_CardinalityType

\* If each frame at given positions is at one of them after the step, they are not fewer;
\* with one more such frame they are more.
LEMMA CountKept ==
  ASSUME StackOK, StackOK', NEW pcs,
         \A k \in 1 .. Len(stack) : stack[k].pc \in pcs =>
           k \in 1 .. Len(stack') /\ stack'[k].pc \in pcs
  PROVE  /\ Count(pcs) \in Nat /\ Count(pcs)' \in Nat /\ Count(pcs) <= Count(pcs)'
         /\ \A n \in 1 .. Len(stack) :
              stack[n].pc \notin pcs /\ n \in 1 .. Len(stack') /\ stack'[n].pc \in pcs
                => Count(pcs) + 1 <= Count(pcs)'
<1> DEFINE K == {k \in 1 .. Len(stack) : stack[k].pc \in pcs}
           L == {k \in 1 .. Len(stack') : stack'[k].pc \in pcs}
<1>1. /\ IsFiniteSet(K) /\ IsFiniteSet(L) /\ Cardinality(K) \in Nat /\ Cardinality(L) \in Nat
      /\ Count(pcs) = Cardinality(K) /\ Count(pcs)' = Cardinality(L)
  BY PlacesFinite DEF StackOK, Count
<1>2. K \in SUBSET L
  OBVIOUS
<1>3. Cardinality(K) <= Cardinality(L)
  BY <1>1, <1>2, FS_Subset
<1>4. ASSUME NEW n \in 1 .. Len(stack), stack[n].pc \notin pcs, n \in 1 .. Len(stack'),
             stack'[n].pc \in pcs
      PROVE  Count(pcs) + 1 <= Count(pcs)'
  <2>1. n \notin K /\ K \cup {n} \in SUBSET L
    BY <1>2, <1>4
  <2>2. Cardinality(K \cup {n}) = Cardinality(K) + 1
    BY <1>1, <2>1, FS_AddElement
  <2>3. Cardinality(K \cup {n}) <= Cardinality(L)
    BY <1>1, <2>1, FS_Subset
  <2> QED BY <1>1, <2>2, <2>3
<1> QED BY <1>1, <1>3, <1>4

\* The running frame and those beneath it.
LEMMA TopFrame ==
  ASSUME StackOK
  PROVE  /\ Len(stack) \in Nat \ {0} /\ Len(stack) \in 1 .. Len(stack)
         /\ Top = stack[Len(stack)] /\ Top \in Frames
         /\ Top.kind = "main" => Len(stack) = 1
         /\ \A pcs : SomeAt(pcs) <=> Top.pc \in pcs \/ Beneath(pcs)
         /\ Len(stack) = 1 => \A pcs : ~Beneath(pcs)
<1>1. Len(stack) \in Nat \ {0} /\ Len(stack) \in 1 .. Len(stack) /\ 1 \in 1 .. Len(stack)
  BY DEF StackOK
<1>2. Top = stack[Len(stack)] /\ Top \in Frames
  BY <1>1, ElementOfSeq DEF Top, StackOK
<1>3. Top.kind = "main" => Len(stack) = 1
  BY <1>1, <1>2 DEF StackOK
<1>4. ASSUME NEW pcs PROVE SomeAt(pcs) <=> Top.pc \in pcs \/ Beneath(pcs)
  BY <1>1, <1>2 DEF SomeAt, Beneath
<1>5. Len(stack) = 1 => \A pcs : ~Beneath(pcs)
  BY DEF Beneath
<1> QED BY <1>1, <1>2, <1>3, <1>4, <1>5

\* Going on in the running frame.
LEMMA GotoKeepsStack ==
  ASSUME StackOK, NEW next \in PCs, Goto(next), next \in Asked => Top.pc \in Asked
  PROVE  /\ StackOK'
         /\ Len(stack') = Len(stack)
         /\ \A k \in 1 .. Len(stack) :
              stack'[k].pc = IF k = Len(stack) THEN next ELSE stack[k].pc
         /\ \A pcs : SomeAt(pcs)' <=> next \in pcs \/ Beneath(pcs)
<1> DEFINE n == Len(stack)
           f == [stack[n] EXCEPT !.pc = next]
<1>1. n \in 1 .. n /\ n \in Nat /\ stack[n] \in Frames /\ Top = stack[n]
  BY TopFrame
<1>2. f \in Frames /\ f.pc = next /\ f.kind = stack[n].kind
  BY <1>1 DEF Frames
<1>3. stack' = [stack EXCEPT ![n] = f]
  BY DEF Goto
<1>4. /\ stack' \in Seq(Frames) /\ Len(stack') = n
      /\ \A k \in 1 .. n : stack'[k] = IF k = n THEN f ELSE stack[k]
  BY <1>1, <1>2, <1>3, ExceptSeq DEF StackOK
<1> HIDE DEF f
<1>5. \A k \in 1 .. n : /\ stack'[k].pc = IF k = n THEN next ELSE stack[k].pc
                        /\ stack'[k].kind = stack[k].kind
  BY <1>2, <1>4
<1>6. StackOK'
  BY <1>1, <1>4, <1>5 DEF StackOK
<1>7. ASSUME NEW pcs PROVE SomeAt(pcs)' <=> next \in pcs \/ Beneath(pcs)
  BY <1>1, <1>4, <1>5 DEF SomeAt, Beneath
<1> QED BY <1>4, <1>5, <1>6, <1>7

LEMMA GotoCounts ==
  ASSUME StackOK, NEW next \in PCs, Goto(next), next \in Asked => Top.pc \in Asked,
         NEW pcs, Top.pc \in pcs => next \in pcs
  PROVE  /\ Count(pcs) \in Nat /\ Count(pcs)' \in Nat /\ Count(pcs) <= Count(pcs)'
         /\ Top.pc \notin pcs /\ next \in pcs => Count(pcs) + 1 <= Count(pcs)'
<1>1. /\ StackOK' /\ Len(stack') = Len(stack)
      /\ \A k \in 1 .. Len(stack) : stack'[k].pc = IF k = Len(stack) THEN next ELSE stack[k].pc
  BY GotoKeepsStack
<1>2. Len(stack) \in 1 .. Len(stack) /\ Top = stack[Len(stack)]
  BY TopFrame
<1> QED BY <1>1, <1>2, CountKept

\* A frame that completes its finish brings a result file with it.
LEMMA GotoWritten ==
  ASSUME StackOK, NEW next \in PCs, Goto(next), Written, measured' = measured,
         next \in Asked => Top.pc \in Asked /\ files' = files,
         measured /\ next \in Late =>
           \/ files' > 0
           \/ Beneath({"exit"})
           \/ Top.pc \in Late /\ files' = files
  PROVE  Written'
<1> DEFINE n == Len(stack)
<1>1. /\ n \in Nat /\ n \in 1 .. n /\ Len(stack') = n /\ Top = stack[n]
      /\ \A k \in 1 .. n : stack'[k].pc = IF k = n THEN next ELSE stack[k].pc
  BY GotoKeepsStack, TopFrame
<1>2. SUFFICES ASSUME NEW k \in 1 .. n, measured, stack'[k].pc \in Late,
                      \A j \in k + 1 .. n : stack'[j].pc \in Asked
               PROVE  files' > 0 \/ \E j \in 1 .. k - 1 : stack'[j].pc = "exit"
  BY <1>1 DEF Written
<1>3. CASE k = n
  <2>1. next \in Late /\ \A j \in k + 1 .. n : stack[j].pc \in Asked
    BY <1>1, <1>2, <1>3
  <2>2. Beneath({"exit"}) => \E j \in 1 .. k - 1 : stack'[j].pc = "exit"
    BY <1>1, <1>3 DEF Beneath
  <2>3. Top.pc \in Late => files > 0 \/ Beneath({"exit"})
    BY <1>1, <1>2, <1>3, <2>1 DEF Written, Beneath
  <2> QED BY <1>2, <2>1, <2>2, <2>3
<1>4. CASE k # n
  <2>1. n \in k + 1 .. n /\ next \in Asked
    BY <1>1, <1>2, <1>4
  <2>2. files' = files /\ \A j \in k + 1 .. n : stack[j].pc \in Asked
    BY <1>1, <1>2, <2>1
  <2>3. stack[k].pc \in Late
    BY <1>1, <1>2, <1>4
  <2>4. files > 0 \/ \E j \in 1 .. k - 1 : stack[j].pc = "exit"
    BY <1>2, <2>2, <2>3 DEF Written
  <2> QED BY <1>1, <2>2, <2>4
<1> QED BY <1>3, <1>4

----------------------------------------------------------------------------
\* A step that ends the program leaves the stack as it is.
LEMMA Ending ==
  ASSUME EndInv, UNCHANGED <<stack, measured, files, cleaned>>, exit' # "running", OrderlyEnd'
  PROVE  EndInv'
BY DEF EndInv, StackOK, Counted, Count

\* A step of the watchdog alone, or none.
LEMMA Unchanged ==
  ASSUME EndInv, UNCHANGED <<stack, disp, memory, exit>>,
         watchdog' = watchdog \/ (exit = "running" /\ watchdog # "gone")
  PROVE  EndInv'
<1>1. UNCHANGED <<measured, files, cleaned, mcbFreed, resFreed>>
  BY DEF memory
<1>2. /\ StackOK' /\ Counted' /\ OrderlyEnd'
  BY <1>1 DEF EndInv, StackOK, Counted, Count, OrderlyEnd, Beneath, Sigs
<1>3. exit = "running" => Owned' /\ Unmeasured' /\ Written'
  BY <1>1 DEF EndInv, Owned, SomeAt, Unmeasured, Written
<1> QED BY <1>1, <1>2, <1>3 DEF EndInv

\* A step of the running frame that goes on in it: what is left to show of it.
LEMMA GoingOn ==
  ASSUME EndInv, exit = "running", exit' = "running", measured' = measured,
         NEW next \in PCs, Goto(next), next \in Asked => Top.pc \in Asked,
         Top.pc \in Late => next \in Late \cup {"hung"},
         Top.pc \in Gone => next \in Gone \cup {"hung"},
         Top.pc # "hung",
         /\ files' \in Nat
         /\ files' <= files \/ (files' = files + 1 /\ Top.pc = "close" /\ next = "cleanup"),
         \/ cleaned' = cleaned
         \/ cleaned' = cleaned + 1 /\ Top.pc = "cleanup" /\ next = "kill",
         next \in Asked => files' = files,
         measured /\ next \in Late =>
           \/ files' > 0
           \/ Beneath({"exit"})
           \/ Top.pc \in Late /\ files' = files,
         Owned',
         \/ Unmeasured'
         \/ /\ Top.pc \notin Starting /\ next \notin Starting
            /\ \A s \in Sigs : disp'[s] \in {disp[s], "handler"}
            /\ disp' \in [Sigs -> {"default", "handler", "ignore"}]
  PROVE  EndInv'
<1>1. StackOK /\ Counted /\ Written /\ Unmeasured /\ measured \in BOOLEAN
  BY DEF EndInv
<1>2. StackOK'
  BY <1>1, GotoKeepsStack
<1>3. Counted'
  <2> DEFINE F == Late \cup {"hung"}
             C == Gone \cup {"hung"}
  <2>1. /\ Count(F) \in Nat /\ Count(F)' \in Nat /\ Count(F) <= Count(F)'
        /\ Top.pc \notin F /\ next \in F => Count(F) + 1 <= Count(F)'
    BY <1>1, GotoCounts
  <2>2. /\ Count(C) \in Nat /\ Count(C)' \in Nat /\ Count(C) <= Count(C)'
        /\ Top.pc \notin C /\ next \in C => Count(C) + 1 <= Count(C)'
    BY <1>1, GotoCounts
  <2>3. "close" \notin F /\ "cleanup" \in F /\ "cleanup" \notin C /\ "kill" \in C
    BY DEF Late, Gone
  <2>4. files \in Nat /\ files <= Count(F) /\ cleaned \in Nat /\ cleaned <= Count(C)
    BY <1>1 DEF Counted
  <2> HIDE DEF F, C
  <2>5. files' \in Nat /\ files' <= Count(F)'
    BY <2>1, <2>3, <2>4
  <2>6. cleaned' \in Nat /\ cleaned' <= Count(C)'
    BY <2>2, <2>3, <2>4
  <2> QED BY <2>5, <2>6 DEF Counted, F, C
<1>4. Written'
  BY <1>1, GotoWritten
<1>5. Unmeasured'
  <2>0. CASE Unmeasured'
    BY <2>0
  <2>1. /\ Len(stack) \in Nat \ {0} /\ Top = stack[Len(stack)]
        /\ \A k \in 1 .. Len(stack) : stack'[k].pc = IF k = Len(stack) THEN next ELSE stack[k].pc
    BY <1>1, TopFrame, GotoKeepsStack
  <2>2. 1 \in 1 .. Len(stack)
    BY <2>1
  <2>3. stack'[1].pc = (IF Len(stack) = 1 THEN next ELSE stack[1].pc)
    BY <2>1, <2>2
  <2> QED BY <1>1, <2>0, <2>1, <2>3 DEF Unmeasured, Starting, Sigs
<1> QED BY <1>1, <1>2, <1>3, <1>4, <1>5 DEF EndInv, OrderlyEnd, Sigs

\* A handler returns, or starts on top of the running frame or of the one it returns to.
LEMMA Switching ==
  ASSUME EndInv, exit = "running", exit' = "running", UNCHANGED memory,
         watchdog' = watchdog \/ watchdog # "gone",
         NEW m \in 1 .. Len(stack), m = Len(stack) \/ (m = Len(stack) - 1 /\ Top.pc = "return"),
         stack' \in Seq(Frames), Len(stack') \in {m, m + 1},
         \A k \in 1 .. m : stack'[k] = stack[k],
         Len(stack') = m + 1 =>
           /\ stack'[m + 1].pc \in {"ask", "write"}
           /\ stack'[m + 1].pc = "ask" => stack'[m + 1].kind = "int"
           /\ \A k \in 1 .. m : stack[k].kind # stack'[m + 1].kind,
         disp' \in [Sigs -> {"default", "handler", "ignore"}],
         \A s \in Sigs : disp'[s] = "default" => disp[s] = "default"
  PROVE  EndInv'
<1> DEFINE n == Len(stack)
<1>1. StackOK /\ Counted /\ Owned /\ Unmeasured /\ Written /\ measured \in BOOLEAN
  BY DEF EndInv
<1>2. n \in Nat \ {0} /\ Top = stack[n] /\ m \in Nat /\ m \in {n, n - 1} /\ 1 \in 1 .. m
  BY <1>1, TopFrame
<1>3. \A k \in m + 1 .. n : stack[k].pc = "return"
  BY <1>2
<1>4. StackOK'
  <2>1. CASE Len(stack') = m
    BY <1>1, <1>2, <2>1 DEF StackOK
  <2>2. CASE Len(stack') = m + 1
    <3>1. \A k \in 1 .. Len(stack') : k \in 1 .. m \/ k = m + 1
      BY <1>2, <2>2
    <3>2. \A j, k \in 1 .. m : stack'[j].kind = stack'[k].kind => j = k
      BY <1>1, <1>2 DEF StackOK
    <3>3. ASSUME NEW j \in 1 .. Len(stack'), NEW k \in 1 .. Len(stack'),
                 stack'[j].kind = stack'[k].kind
          PROVE  j = k
      <4>1. (j \in 1 .. m \/ j = m + 1) /\ (k \in 1 .. m \/ k = m + 1)
        BY <3>1
      <4>2. \A i \in 1 .. m : stack'[i].kind # stack'[m + 1].kind
        BY <2>2
      <4> QED BY <3>2, <3>3, <4>1, <4>2
    <3>4. \A k \in 1 .. Len(stack') : stack'[k].pc \in Asked => stack'[k].kind = "int"
      BY <1>1, <1>2, <2>2, <3>1 DEF StackOK, Asked
    <3> QED BY <1>1, <1>2, <2>2, <3>3, <3>4 DEF StackOK
  <2> QED BY <2>1, <2>2
<1>5. ASSUME NEW pcs, "return" \notin pcs
      PROVE  \A k \in 1 .. n : stack[k].pc \in pcs =>
               k \in 1 .. m /\ k \in 1 .. Len(stack') /\ stack'[k].pc \in pcs
  BY <1>2, <1>3, <1>5
<1>6. Counted'
  <2>1. \A pcs : "return" \notin pcs =>
           Count(pcs) \in Nat /\ Count(pcs)' \in Nat /\ Count(pcs) <= Count(pcs)'
    BY <1>1, <1>4, <1>5, CountKept
  <2>2. "return" \notin Late \cup {"hung"} /\ "return" \notin Gone \cup {"hung"}
    BY DEF Late, Gone
  <2>3. /\ Count(Late \cup {"hung"}) <= Count(Late \cup {"hung"})'
        /\ Count(Late \cup {"hung"}) \in Nat /\ Count(Late \cup {"hung"})' \in Nat
        /\ Count(Gone \cup {"hung"}) <= Count(Gone \cup {"hung"})'
        /\ Count(Gone \cup {"hung"}) \in Nat /\ Count(Gone \cup {"hung"})' \in Nat
    BY <2>1, <2>2
  <2> QED BY <1>1, <2>3 DEF Counted, memory
<1>7. Owned'
  <2>1. ASSUME NEW pcs, "return" \notin pcs, SomeAt(pcs) PROVE SomeAt(pcs)'
    BY <1>5, <2>1 DEF SomeAt
  <2>2. SomeAt({"free", "freeall", "exit"})' => SomeAt({"free", "freeall", "exit"})
    BY <1>2 DEF SomeAt
  <2> QED BY <1>1, <2>1, <2>2 DEF Owned, memory, Gone
<1>8. Unmeasured'
  BY <1>1, <1>2 DEF Unmeasured, memory, Starting, Sigs
<1>9. Written'
  <2> SUFFICES ASSUME NEW k \in 1 .. Len(stack'), measured, stack'[k].pc \in Late,
                      \A j \in k + 1 .. Len(stack') : stack'[j].pc \in Asked
               PROVE  files > 0 \/ \E j \in 1 .. k - 1 : stack'[j].pc = "exit"
    BY DEF Written, memory
  <2>1. k \in 1 .. m /\ k \in 1 .. n
    BY <1>2 DEF Late
  <2>2. \A j \in k + 1 .. n : stack[j].pc \in Asked
    <3>1. ASSUME NEW j \in k + 1 .. m PROVE stack[j].pc \in Asked
      BY <1>2, <2>1
    <3> QED BY <1>2, <1>3, <2>1, <3>1 DEF Asked
  <2>3. files > 0 \/ \E j \in 1 .. k - 1 : stack[j].pc = "exit"
    BY <1>1, <2>1, <2>2 DEF Written
  <2>4. \A j \in 1 .. k - 1 : j \in 1 .. m /\ j \in 1 .. k - 1
    BY <1>2, <2>1
  <2> QED BY <2>3, <2>4
<1> QED BY <1>1, <1>4, <1>6, <1>7, <1>8, <1>9 DEF EndInv, OrderlyEnd, Sigs, memory

\* A handler that is not on the stack starts.
LEMMA Entering ==
  ASSUME EndInv, exit = "running", exit' = "running", UNCHANGED memory,
         watchdog' = watchdog \/ watchdog # "gone",
         NEW m \in 1 .. Len(stack), m = Len(stack) \/ (m = Len(stack) - 1 /\ Top.pc = "return"),
         NEW s \in Sigs, \A k \in 1 .. m : stack[k].kind # Handler(s),
         NEW frames \in Seq(Frames), Len(frames) = m, \A k \in 1 .. m : frames[k] = stack[k],
         EnterHandler(s, frames)
  PROVE  EndInv'
<1> DEFINE f == Frame(Handler(s), IF s = "SIGINT" /\ setting.interactive THEN "ask" ELSE "write")
<1>1. /\ f \in Frames /\ f.pc \in {"ask", "write"} /\ f.kind = Handler(s)
      /\ f.pc = "ask" => f.kind = "int"
  BY DEF Frame, Handler, PCs, Finishing, Frames
<1>2. stack' = Append(frames, f)
  BY DEF EnterHandler
<1> HIDE DEF f
<1>3. /\ stack' \in Seq(Frames)
      /\ Len(stack') = m + 1 /\ stack'[m + 1] = f
      /\ \A k \in 1 .. m : stack'[k] = stack[k]
  BY <1>1, <1>2
<1>4. disp' = [disp EXCEPT ![s] = "ignore"] /\ disp \in [Sigs -> {"default", "handler", "ignore"}]
  BY DEF EnterHandler, EndInv, Unmeasured
<1>5. /\ disp' \in [Sigs -> {"default", "handler", "ignore"}]
      /\ \A r \in Sigs : disp'[r] = "default" => disp[r] = "default"
  BY <1>4
<1> QED BY <1>1, <1>3, <1>5, Switching

LEMMA MainKeeps == ASSUME EndInv, Main PROVE EndInv'
<1>0. /\ StackOK /\ Counted /\ Owned /\ Unmeasured /\ Written /\ OrderlyEnd
      /\ measured \in BOOLEAN /\ files \in Nat /\ cleaned \in Nat
      /\ exit = "running" /\ Top \in Frames
  <2>1. exit = "running"
    BY DEF Main, MainAt, At, BiInit, InstallHandler, Measured, KernelError, EndMeasure,
           BeginWrite, WriteFails, EndWrite, Cleanup, KillWatchdog, FreeKernel,
           FreeResults, SafeExit, Misused, Undefined, Hang, Answer, Drain, Reinstall, Return
  <2> QED BY <2>1, TopFrame DEF EndInv, Counted
<1>a. \A pcs : SomeAt(pcs) <=> Top.pc \in pcs \/ Beneath(pcs)
  BY <1>0, TopFrame
<1>b. /\ resFreed => Top.pc = "exit" \/ Beneath({"exit"})
      /\ mcbFreed => Top.pc \in {"freeall", "exit"} \/ Beneath({"freeall", "exit"})
      /\ cleaned > 0 => Top.pc \in Gone \/ Beneath(Gone)
      /\ (Top.pc \in {"free", "freeall", "exit"} \/ Beneath({"free", "freeall", "exit"}))
           => watchdog = "gone"
  BY <1>0, <1>a DEF Owned
<1>c. ASSUME NEW next \in PCs, Goto(next), next \in Asked => Top.pc \in Asked,
             /\ resFreed' => next = "exit" \/ Beneath({"exit"})
             /\ mcbFreed' => next \in {"freeall", "exit"} \/ Beneath({"freeall", "exit"})
             /\ cleaned' > 0 => next \in Gone \/ Beneath(Gone)
             /\ (next \in {"free", "freeall", "exit"} \/ Beneath({"free", "freeall", "exit"}))
                  => watchdog' = "gone"
      PROVE  Owned'
  <2>1. \A pcs : SomeAt(pcs)' <=> next \in pcs \/ Beneath(pcs)
    BY <1>0, <1>c, GotoKeepsStack
  <2> QED BY <1>c, <2>1 DEF Owned
<1> USE <1>0, <1>b
<1>1. CASE BiInit
  <2>1. Goto("int") /\ Top.pc = "init" /\ Len(stack) = 1 /\ \A pcs : ~Beneath(pcs)
    BY <1>1, TopFrame DEF BiInit, MainAt, At
  <2>2. Owned'
    BY <1>1, <1>c, <2>1 DEF BiInit, memory, PCs, Finishing, Asked, Gone
  <2>3. stack'[1].pc = "int" /\ stack[1].pc = "init"
    BY <2>1, GotoKeepsStack, TopFrame DEF PCs, Finishing, Asked
  <2>4. Unmeasured'
    BY <1>1, <2>3 DEF BiInit, signals, memory, Unmeasured, Starting
  <2> QED BY <1>1, <2>1, <2>2, <2>4, GoingOn DEF BiInit, memory, PCs, Finishing, Asked, Late, Gone
<1>2. ASSUME NEW s \in Sigs, InstallHandler(s) PROVE EndInv'
  <2> DEFINE next == IF s = "SIGINT" THEN "term" ELSE "measure"
  <2>1. /\ Goto(next) /\ Len(stack) = 1 /\ \A pcs : ~Beneath(pcs)
        /\ Top.pc = IF s = "SIGINT" THEN "int" ELSE "term"
    BY <1>2, TopFrame DEF InstallHandler, MainAt, At, Handler
  <2>2. Owned'
    BY <1>2, <1>c, <2>1 DEF InstallHandler, memory, PCs, Finishing, Asked, Gone
  <2>3. stack'[1].pc = next /\ stack[1].pc = Top.pc
    BY <2>1, GotoKeepsStack, TopFrame DEF PCs, Finishing, Asked
  <2>4. Unmeasured'
    BY <1>2, <2>1, <2>3 DEF InstallHandler, memory, Unmeasured, Starting, Sigs
  <2> QED BY <1>2, <2>1, <2>2, <2>4, GoingOn DEF InstallHandler, memory, PCs, Finishing, Asked, Late, Gone
<1>3. CASE Measured
  <2>1. Len(stack) = 1 /\ Top.pc = "measure" /\ stack[1] = Top
    BY <1>3, TopFrame DEF Measured, MainAt, At
  <2>2. Written' /\ Unmeasured'
    BY <1>3, <2>1 DEF Measured, signals, Written, Late, Unmeasured, Starting
  <2>3. StackOK' /\ Counted' /\ Owned'
    BY <1>3 DEF Measured, StackOK, Counted, Count, Owned, SomeAt
  <2> QED BY <1>3, <2>2, <2>3 DEF Measured, EndInv, OrderlyEnd, Sigs
<1>4. CASE KernelError
  BY <1>4, Ending DEF KernelError, OrderlyEnd, Sigs
<1>5. CASE EndMeasure
  <2>1. Goto("write") /\ Top.pc = "measure" /\ UNCHANGED <<disp, memory, exit, watchdog>>
    BY <1>5 DEF EndMeasure, MainAt, At, signals
  <2>2. Owned'
    BY <1>c, <2>1 DEF memory, PCs, Finishing, Asked, Gone
  <2> QED BY <2>1, <2>2, GoingOn DEF memory, PCs, Finishing, Asked, Late, Gone, Starting, Unmeasured, Sigs
<1>6. CASE BeginWrite
  <2>1. PICK found \in IF resFreed THEN BOOLEAN ELSE {measured} :
          /\ Goto(IF found THEN "close" ELSE "cleanup")
          /\ files' \in IF found THEN Opened ELSE {files}
    BY <1>6 DEF BeginWrite
  <2>2. /\ Top.pc = "write" /\ files' \in Nat /\ files' <= files
        /\ UNCHANGED <<disp, measured, cleaned, mcbFreed, resFreed, exit, watchdog>>
    BY <1>6, <2>1 DEF BeginWrite, At, signals, Opened
  <2>3. Owned'
    BY <1>c, <2>1, <2>2 DEF PCs, Finishing, Asked, Gone
  <2>4. measured /\ ~found => Beneath({"exit"})
    BY <2>1, <2>2
  <2> QED BY <2>1, <2>2, <2>3, <2>4, GoingOn
          DEF PCs, Finishing, Asked, Late, Gone, Starting, Unmeasured, Sigs
<1>7. CASE WriteFails
  BY <1>7, Ending DEF WriteFails, memory, OrderlyEnd, Sigs
<1>8. CASE EndWrite
  <2>1. /\ Goto("cleanup") /\ Top.pc = "close" /\ files' = files + 1
        /\ UNCHANGED <<disp, measured, cleaned, mcbFreed, resFreed, exit, watchdog>>
    BY <1>8 DEF EndWrite, At, signals
  <2>2. Owned'
    BY <1>c, <2>1 DEF PCs, Finishing, Asked, Gone
  <2> QED BY <2>1, <2>2, GoingOn DEF PCs, Finishing, Asked, Late, Gone, Starting, Unmeasured, Sigs
<1>9. CASE Cleanup
  <2>1. /\ Goto("kill") /\ Top.pc = "cleanup" /\ cleaned' = cleaned + 1
        /\ UNCHANGED <<disp, measured, files, mcbFreed, resFreed, exit, watchdog>>
    BY <1>9 DEF Cleanup, At, signals
  <2>2. Owned'
    BY <1>c, <2>1 DEF PCs, Finishing, Asked, Gone
  <2> QED BY <2>1, <2>2, GoingOn DEF PCs, Finishing, Asked, Late, Gone, Starting, Unmeasured, Sigs
<1>10. CASE KillWatchdog
  <2>1. CASE watchdog = "starting"
    <3>1. Top.pc = "kill" /\ measured => files > 0 \/ Beneath({"exit"})
      BY <1>10, TopFrame DEF KillWatchdog, At, Written, Beneath, Late
    <3> QED BY <1>10, <2>1, <3>1, Ending
            DEF KillWatchdog, At, memory, OrderlyEnd, Beneath, Sigs
  <2>2. CASE watchdog # "starting"
    <3>1. /\ Goto("free") /\ Top.pc = "kill" /\ watchdog' = "gone"
          /\ UNCHANGED <<disp, memory, exit>>
      BY <1>10, <2>2 DEF KillWatchdog, At, signals
    <3>2. Owned'
      BY <1>c, <3>1 DEF memory, PCs, Finishing, Asked, Gone
    <3> QED BY <3>1, <3>2, GoingOn
            DEF memory, PCs, Finishing, Asked, Late, Gone, Starting, Unmeasured, Sigs
  <2> QED BY <2>1, <2>2
<1>11. CASE FreeKernel
  <2>1. /\ Goto("freeall") /\ Top.pc = "free"
        /\ UNCHANGED <<disp, measured, files, cleaned, resFreed, exit, watchdog>>
    BY <1>11 DEF FreeKernel, At, signals
  <2>2. Owned'
    BY <1>c, <2>1 DEF PCs, Finishing, Asked, Gone
  <2> QED BY <2>1, <2>2, GoingOn DEF PCs, Finishing, Asked, Late, Gone, Starting, Unmeasured, Sigs
<1>12. CASE FreeResults
  <2>1. /\ Goto("exit") /\ Top.pc = "freeall"
        /\ UNCHANGED <<disp, measured, files, cleaned, mcbFreed, exit, watchdog>>
    BY <1>12 DEF FreeResults, At, signals
  <2>2. Owned'
    BY <1>c, <2>1 DEF PCs, Finishing, Asked, Gone
  <2> QED BY <2>1, <2>2, GoingOn DEF PCs, Finishing, Asked, Late, Gone, Starting, Unmeasured, Sigs
<1>13. CASE SafeExit
  <2>1. Top.pc = "exit" /\ exit' \in {"0", "1"} /\ UNCHANGED <<stack, memory, watchdog>>
    BY <1>13 DEF SafeExit, At
  <2>2. measured => files > 0 \/ Beneath({"exit"})
    BY <2>1, TopFrame DEF Written, Beneath, Late
  <2> QED BY <2>1, <2>2, Ending DEF memory, OrderlyEnd, Beneath, Sigs
<1>14. CASE Undefined
  <2>1. CASE exit' = "crashed" /\ UNCHANGED stack
    BY <1>14, <2>1, Ending DEF Undefined, memory, OrderlyEnd, Sigs
  <2>2. CASE Goto("hung") /\ UNCHANGED exit
    <3>1. UNCHANGED <<disp, memory, watchdog>> /\ Misused
      BY <1>14 DEF Undefined, signals
    <3>2. /\ Top.pc \in {"write", "close", "freeall", "cleanup", "free"}
          /\ Top.pc = "freeall" => resFreed
          /\ Top.pc = "free" => mcbFreed
      BY <3>1 DEF Misused, At
    <3>3. cleaned > 0 => Beneath(Gone)
      BY <3>2 DEF Beneath, Gone
    <3>4. mcbFreed => Beneath({"freeall", "exit"})
      BY <3>2 DEF Beneath
    <3>5. Owned'
      BY <1>c, <2>2, <3>1, <3>2, <3>3, <3>4 DEF memory, PCs, Finishing, Asked
    <3> QED BY <2>2, <3>1, <3>2, <3>5, GoingOn
            DEF memory, PCs, Finishing, Asked, Late, Gone, Starting, Unmeasured, Sigs
  <2> QED BY <1>14, <2>1, <2>2 DEF Undefined
<1>15. CASE Answer
  <2>1. PICK next \in {"write", "rest", "drain"} : Goto(next) /\ Top.pc = "ask"
    BY <1>15 DEF Answer, At
  <2>2. UNCHANGED <<disp, memory, exit, watchdog>>
    BY <1>15 DEF Answer, signals
  <2>3. Owned'
    BY <1>c, <2>1, <2>2 DEF memory, PCs, Finishing, Asked, Gone
  <2> QED BY <2>1, <2>2, <2>3, GoingOn
          DEF memory, PCs, Finishing, Asked, Late, Gone, Starting, Unmeasured, Sigs
<1>16. CASE Reinstall
  <2>1. /\ Goto("return") /\ Top.pc = "rest"
        /\ disp' = [disp EXCEPT !["SIGINT"] = "handler"]
        /\ UNCHANGED <<memory, exit, watchdog>>
    BY <1>16 DEF Reinstall, At
  <2>2. Owned'
    BY <1>c, <2>1 DEF memory, PCs, Finishing, Asked, Gone
  <2> QED BY <2>1, <2>2, GoingOn
          DEF memory, PCs, Finishing, Asked, Late, Gone, Starting, Unmeasured, Sigs
<1>17. CASE Return
  <2> DEFINE n == Len(stack)
  <2>1. /\ n \in Nat /\ n - 1 \in 1 .. n /\ Top = stack[n]
        /\ Top.pc = "return" /\ Top.kind = "int"
    BY <1>17, TopFrame DEF Return, At, StackOK, Asked
  <2>2. \A k \in 1 .. n - 1 : stack[k] \in Frames /\ stack[k].kind # "int"
    BY <2>1, ElementOfSeq DEF StackOK
  <2>3. /\ Interrupted \in Seq(Frames) /\ Len(Interrupted) = n - 1
        /\ \A k \in 1 .. n - 1 : Interrupted[k] = stack[k]
    BY <2>1, <2>2, SubSeqProperties DEF Interrupted
  <2>4. UNCHANGED <<memory, watchdog, exit>>
    BY <1>17 DEF Return
  <2>5. CASE EnterHandler("SIGINT", Interrupted)
    BY <2>1, <2>2, <2>3, <2>4, <2>5, Entering DEF Sigs, Handler
  <2>6. CASE stack' = Interrupted /\ UNCHANGED disp
    <3>1. disp' \in [Sigs -> {"default", "handler", "ignore"}]
      BY <2>6 DEF Unmeasured
    <3> QED BY <2>1, <2>3, <2>4, <2>6, <3>1, Switching
  <2> QED BY <1>17, <2>5, <2>6 DEF Return
<1>18. CASE Drain \/ Hang
  BY <1>18, Unchanged DEF Drain, Hang, endVars, signals
<1> QED BY <1>1, <1>2, <1>3, <1>4, <1>5, <1>6, <1>7, <1>8, <1>9, <1>10, <1>11, <1>12, <1>13,
           <1>14, <1>15, <1>16, <1>17, <1>18 DEF Main

LEMMA StepKeeps == ASSUME EndInv, [NextEnd]_endVars PROVE EndInv'
<1>1. CASE Main
  BY <1>1, MainKeeps
<1>2. ASSUME NEW s \in Sigs, Raise(s), exit = "running", UNCHANGED <<memory, setting>>,
             watchdog' = watchdog \/ watchdog = "asleep"
      PROVE  EndInv'
  <2>1. StackOK /\ Owned /\ Unmeasured
    BY <1>2 DEF EndInv
  <2>2. CASE UNCHANGED <<stack, disp, exit>>
    BY <1>2, <2>2, Unchanged
  <2>3. CASE disp[s] = "default" /\ exit' = s /\ UNCHANGED stack
    BY <1>2, <2>1, <2>3, Ending DEF Unmeasured, Starting, OrderlyEnd, memory, Sigs
  <2>4. CASE ~Blocked(s) /\ EnterHandler(s, stack) /\ UNCHANGED exit
    <3>1. \A k \in 1 .. Len(stack) : stack[k].kind # Handler(s)
      BY <2>4 DEF Blocked
    <3>2. Len(stack) \in 1 .. Len(stack) /\ stack \in Seq(Frames)
      BY <2>1, TopFrame DEF StackOK
    <3>3. /\ EnterHandler(s, stack) /\ exit' = "running" /\ UNCHANGED memory
          /\ watchdog' = watchdog \/ watchdog # "gone"
      BY <1>2, <2>4
    <3> QED BY <1>2, <3>1, <3>2, <3>3, Entering
  <2> QED BY <1>2, <2>2, <2>3, <2>4 DEF Raise
<1>3. ASSUME NEW s \in Sigs, UserSends(s) PROVE EndInv'
  BY <1>2, <1>3 DEF UserSends
<1>4. CASE WatchdogStarts
  BY <1>4, Unchanged DEF WatchdogStarts, signals
<1>5. CASE WatchdogFires
  <2>1. "SIGTERM" \in Sigs
    BY DEF Sigs
  <2> QED BY <1>2, <1>5, <2>1 DEF WatchdogFires
<1>6. CASE UNCHANGED endVars
  BY <1>6, Unchanged DEF endVars, signals
<1> QED BY <1>1, <1>3, <1>4, <1>5, <1>6 DEF NextEnd, Ended

\* EndInv is an invariant, whatever signals come and whenever.
THEOREM EndInvariant == SpecEnd => []EndInv
<1>1. InitEnd => EndInv
  BY EndInitially
<1>2. EndInv /\ [NextEnd]_endVars => EndInv'
  BY StepKeeps
<1> QED BY <1>1, <1>2, PTL DEF SpecEnd

\* Any number of signals and answers at any time, also while main() or a handler finishes
\* the program: each of them finishes it at most once, and what was freed is used only by a
\* handler that interrupted the rest of a finish.
THEOREM FinishesOnce == SpecEnd => []FinishedOnce
<1>1. ASSUME EndInv PROVE FinishedOnce
  <2>1. StackOK /\ Counted /\ (exit = "running" => Owned)
    BY <1>1 DEF EndInv
  <2>2. files <= Cardinality(Finishers) /\ cleaned <= Cardinality(Finishers)
    <3>1. /\ Count(Finishing) = Cardinality(Finishers)
          /\ Count(Finishing) \in Nat
          /\ IsFiniteSet({k \in 1 .. Len(stack) : stack[k].pc \in Finishing})
      BY <2>1, PlacesFinite DEF Count, Finishers, StackOK
    <3>2. ASSUME NEW pcs \in SUBSET Finishing
          PROVE  Count(pcs) \in Nat /\ Count(pcs) <= Count(Finishing)
      <4>1. {k \in 1 .. Len(stack) : stack[k].pc \in pcs} \in
              SUBSET {k \in 1 .. Len(stack) : stack[k].pc \in Finishing}
        BY <3>2
      <4>2. Cardinality({k \in 1 .. Len(stack) : stack[k].pc \in pcs})
              <= Cardinality({k \in 1 .. Len(stack) : stack[k].pc \in Finishing})
        BY <3>1, <4>1, FS_Subset
      <4> QED BY <2>1, <4>2, PlacesFinite DEF Count, StackOK
    <3>3. Late \cup {"hung"} \in SUBSET Finishing /\ Gone \cup {"hung"} \in SUBSET Finishing
      BY DEF Late, Gone, Finishing
    <3>4. /\ Count(Late \cup {"hung"}) \in Nat /\ Count(Gone \cup {"hung"}) \in Nat
          /\ Count(Late \cup {"hung"}) <= Count(Finishing)
          /\ Count(Gone \cup {"hung"}) <= Count(Finishing)
      BY <3>2, <3>3
    <3> QED BY <2>1, <3>1, <3>4 DEF Counted
  <2>3. UsedBeforeFreed
    <3>1. \A pcs : SomeAt(pcs) <=> Top.pc \in pcs \/ Beneath(pcs)
      BY <2>1, TopFrame
    <3> QED BY <2>1, <3>1 DEF UsedBeforeFreed, Owned, At, Gone
  <2> QED BY <2>1, <2>2, <2>3 DEF FinishedOnce, StackOK
<1> QED BY <1>1, EndInvariant, PTL

\* Any number of signals and answers at any time: a program that ends, also by a signal, has
\* written what it had measured, unless it was interrupted after the results were freed.
THEOREM Orderly == SpecEnd => []OrderlyEnd
<1>1. EndInv => OrderlyEnd
  BY DEF EndInv
<1> QED BY <1>1, EndInvariant, PTL
=============================================================================
