------------------------ MODULE ConfigurationProofs ------------------------
(***************************************************************************)
(* What is proved of module Configuration: for every machine, every list   *)
(* of CPUs and of memory bindings, and all other settings, the threads     *)
(* that are created are those that are named and commanded, each is bound  *)
(* to a CPU of its own and to its memory, and the result file's legend     *)
(* names the thread whose results a column holds.                          *)
(*                                                                         *)
(* The lists are read by recursive functions over 0 .. Len(list).  Lemma   *)
(* Recursion (module NumberFacts) shows that such a function exists,       *)
(* and lemma Induction what it keeps from one entry to the next.           *)
(*                                                                         *)
(* The invariant says, for each position in evaluate_environment() and     *)
(* bi_init(), what was counted, what is stored, how much room there is,    *)
(* and whether an error can have been counted (ThreadInv), why it was      *)
(* counted (Reason), and what the kernel says of itself (LegendInv,        *)
(* SettingsInv).                                                           *)
(*                                                                         *)
(* At the end: the list of sizes is read as it is written (ListIsRead).    *)
(***************************************************************************)
EXTENDS Configuration, NumberFacts, TLAPS, SequenceTheorems, FiniteSetTheorems

\* OnlyAllowed() goes through a sequence.
LEMMA OnlyAllowedSteps ==
  ASSUME NEW cpus \in Seq(Nat)
  PROVE  \E f \in [0 .. Len(cpus) -> Seq(env.allowed)] :
           /\ f[0] = <<>> /\ OnlyAllowed(cpus) = f[Len(cpus)]
           /\ \A k \in 1 .. Len(cpus) :
                f[k] = IF cpu_allowed(cpus[k]) THEN Append(f[k - 1], cpus[k]) ELSE f[k - 1]
<1>1. PICK n \in Nat : n = Len(cpus)
  OBVIOUS
<1>2. PICK A : A = Seq(env.allowed)
  OBVIOUS
<1> DEFINE Step(k, s) == IF cpu_allowed(cpus[k]) THEN Append(s, cpus[k]) ELSE s
           Body(f) == [k \in 0 .. n |-> IF k = 0 THEN <<>> ELSE Step(k, f[k - 1])]
           only == CHOOSE f : f = Body(f)
<1>3. PICK b \in A : b = <<>>
  <2>1. <<>> \in A
    BY <1>2
  <2> QED BY <2>1
<1>4. ASSUME NEW k \in 1 .. n, NEW s \in A PROVE Step(k, s) \in A
  <2>1. cpu_allowed(cpus[k]) => cpus[k] \in env.allowed
    BY DEF cpu_allowed
  <2>2. CASE cpu_allowed(cpus[k])
    BY <1>2, <2>1, <2>2, AppendProperties
  <2>3. CASE ~cpu_allowed(cpus[k])
    BY <2>3
  <2> QED BY <2>2, <2>3
<1>5. OnlyAllowed(cpus) = only[n]
  BY <1>1 DEF OnlyAllowed
<1> HIDE DEF Step
<1>6. PICK G \in [1 .. n -> [A -> A]] : \A k \in 1 .. n : \A s \in A : G[k][s] = Step(k, s)
  <2> DEFINE G == [k \in 1 .. n |-> [s \in A |-> Step(k, s)]]
  <2>1. G \in [1 .. n -> [A -> A]] /\ \A k \in 1 .. n : \A s \in A : G[k][s] = Step(k, s)
    BY <1>4
  <2> HIDE DEF G
  <2> QED BY <2>1
<1>7. PICK f : f \in [0 .. n -> A] /\ f[0] = b /\ \A k \in 1 .. n : f[k] = G[k][f[k - 1]]
  <2>1. \E f : Follows(f, n, A, b, G)
    BY <1>1, <1>3, <1>6, Recursion
  <2> QED BY <2>1 DEF Follows
<1>8. f = Body(f)
  <2>1. \A k \in 1 .. n : k - 1 \in 0 .. n
    OBVIOUS
  <2>2. \A k \in 1 .. n : f[k] = Step(k, f[k - 1])
    BY <1>6, <1>7, <2>1
  <2>3. \A k \in 0 .. n : k = 0 \/ k \in 1 .. n
    OBVIOUS
  <2>4. \A k \in 0 .. n : f[k] = Body(f)[k]
    BY <1>3, <1>7, <2>2, <2>3
  <2>5. f = [k \in 0 .. n |-> f[k]]
    BY <1>7
  <2> QED BY <2>4, <2>5
<1>9. only = Body(only)
  BY <1>8
<1> HIDE DEF only
<1>10. only[0] = <<>> /\ \A k \in 1 .. n : only[k] = Step(k, only[k - 1])
  <2>1. \A k \in 1 .. n : k \in 0 .. n /\ k # 0
    OBVIOUS
  <2> QED BY <1>9, <2>1
<1>11. \A k \in 0 .. n : only[k] \in A
  <2>1. \A k \in 1 .. n : only[k - 1] \in A => only[k] \in A
    BY <1>4, <1>10
  <2> QED BY <1>1, <1>3, <1>10, <2>1, StaysIn
<1>12. only \in [0 .. n -> A]
  BY <1>9, <1>11
<1> QED BY <1>1, <1>2, <1>5, <1>10, <1>12 DEF Step

\* The settings of an environment.
LEMMA EnvType ==
  ASSUME env \in Environments
  PROVE  /\ CORES \in Nat \ {0} /\ env.allowed \subseteq 0 .. CORES - 1
         /\ env.CPU_LIST \in Seq(Entries) /\ env.SHARED_CPU_LIST \in Seq(Entries)
         /\ env.MEM_BIND \in Seq(Entries)
         /\ env.ALLOC \in {"G", "L", "B"} /\ env.USE_MODE \in {"EXCLUSIVE", "SHARED", "OWNED"}
<1>1. /\ env.allowed \in ALLOWED /\ env.CPU_LIST \in CPU_LISTS
      /\ env.SHARED_CPU_LIST \in SHARE_LISTS /\ env.MEM_BIND \in BIND_LISTS
      /\ env.ALLOC \in {"G", "L", "B"} /\ env.USE_MODE \in {"EXCLUSIVE", "SHARED", "OWNED"}
  BY DEF Environments
<1> QED BY <1>1, ThreadConfigAssumption

LEMMA SameLists ==
  ASSUME env' = env
  PROVE  /\ CpuSeq' = CpuSeq /\ UsesShareCpus' = UsesShareCpus
         /\ \A l : Selected(l)' = Selected(l)
BY DEF CpuSeq, Selected, OnlyAllowed, cpu_allowed, UsesShareCpus

LEMMA NumbersType ==
  ASSUME NEW e \in Entries
  PROVE  Numbers(e) \in Seq(Nat)
<1> DEFINE n == IF e.to < e.from THEN 0 ELSE (e.to - e.from) \div e.step + 1
<1>1. e.from \in Nat /\ e.to \in Nat /\ e.step \in Nat \ {0}
  BY DEF Entries
<1>2. n \in Nat
  BY <1>1
<1>3. \A k \in 1 .. n : e.from + (k - 1) * e.step \in Nat
  <2>1. \A a, b \in Nat : a * b \in Nat
    OBVIOUS
  <2> HIDE DEF n
  <2>2. \A k \in 1 .. n : k - 1 \in Nat
    BY <1>2
  <2> QED BY <1>1, <2>1, <2>2
<1>4. Numbers(e) = [k \in 1 .. n |-> e.from + (k - 1) * e.step]
  BY DEF Numbers
<1> HIDE DEF n
<1> QED BY <1>2, <1>3, <1>4

LEMMA OnlyAllowedType ==
  ASSUME NEW cpus \in Seq(Nat)
  PROVE  /\ OnlyAllowed(cpus) \in Seq(env.allowed)
         /\ (\A k \in 1 .. Len(cpus) : cpus[k] \in env.allowed) => Len(OnlyAllowed(cpus)) = Len(cpus)
<1>1. PICK f \in [0 .. Len(cpus) -> Seq(env.allowed)] :
        /\ f[0] = <<>> /\ OnlyAllowed(cpus) = f[Len(cpus)]
        /\ \A k \in 1 .. Len(cpus) :
             f[k] = IF cpu_allowed(cpus[k]) THEN Append(f[k - 1], cpus[k]) ELSE f[k - 1]
  BY OnlyAllowedSteps
<1>2. PICK n \in Nat : n = Len(cpus)
  OBVIOUS
<1>3. ASSUME \A k \in 1 .. n : cpus[k] \in env.allowed PROVE Len(f[n]) = n
  <2> DEFINE T == {k \in 0 .. n : Len(f[k]) = k}
  <2>1. 0 \in T
    BY <1>1
  <2>2. ASSUME NEW k \in 1 .. n, k - 1 \in T PROVE k \in T
    <3>0. k - 1 \in 0 .. Len(cpus) /\ k \in 1 .. Len(cpus)
      BY <1>2
    <3>1. f[k - 1] \in Seq(env.allowed) /\ cpus[k] \in env.allowed
      BY <1>1, <1>2, <1>3, <3>0
    <3>2. f[k] = Append(f[k - 1], cpus[k])
      BY <1>1, <1>2, <1>3 DEF cpu_allowed
    <3>3. Len(f[k]) = Len(f[k - 1]) + 1
      BY <3>1, <3>2, AppendProperties
    <3> QED BY <2>2, <3>3
  <2> HIDE DEF T
  <2>3. \A k \in 0 .. n : k \in T
    BY <1>2, <2>1, <2>2, Induction
  <2> QED BY <1>2, <2>3 DEF T
<1> QED BY <1>1, <1>2, <1>3

\* Selected() goes through a list.
LEMMA SelectedSteps ==
  ASSUME NEW l \in Seq(Entries)
  PROVE  \E f \in [0 .. Len(l) -> Seq(env.allowed)] :
           /\ f[0] = <<>> /\ Selected(l) = f[Len(l)]
           /\ \A k \in 1 .. Len(l) : f[k] = f[k - 1] \o OnlyAllowed(Numbers(l[k]))
<1>1. PICK n \in Nat : n = Len(l)
  OBVIOUS
<1>2. PICK A : A = Seq(env.allowed)
  OBVIOUS
<1> DEFINE Step(k, s) == s \o OnlyAllowed(Numbers(l[k]))
           Body(f) == [k \in 0 .. n |-> IF k = 0 THEN <<>> ELSE Step(k, f[k - 1])]
           sel == CHOOSE f : f = Body(f)
<1>3. PICK b \in A : b = <<>>
  <2>1. <<>> \in A
    BY <1>2
  <2> QED BY <2>1
<1>4. ASSUME NEW k \in 1 .. n, NEW s \in A PROVE Step(k, s) \in A
  <2>1. l[k] \in Entries
    BY <1>1
  <2>2. OnlyAllowed(Numbers(l[k])) \in Seq(env.allowed)
    BY <2>1, NumbersType, OnlyAllowedType
  <2> QED BY <1>2, <2>2, ConcatProperties
<1>5. Selected(l) = sel[n]
  BY <1>1 DEF Selected
<1> HIDE DEF Step
<1>6. PICK G \in [1 .. n -> [A -> A]] : \A k \in 1 .. n : \A s \in A : G[k][s] = Step(k, s)
  <2> DEFINE G == [k \in 1 .. n |-> [s \in A |-> Step(k, s)]]
  <2>1. G \in [1 .. n -> [A -> A]] /\ \A k \in 1 .. n : \A s \in A : G[k][s] = Step(k, s)
    BY <1>4
  <2> HIDE DEF G
  <2> QED BY <2>1
<1>7. PICK f : f \in [0 .. n -> A] /\ f[0] = b /\ \A k \in 1 .. n : f[k] = G[k][f[k - 1]]
  <2>1. \E f : Follows(f, n, A, b, G)
    BY <1>1, <1>3, <1>6, Recursion
  <2> QED BY <2>1 DEF Follows
<1>8. f = Body(f)
  <2>1. \A k \in 1 .. n : k - 1 \in 0 .. n
    OBVIOUS
  <2>2. \A k \in 1 .. n : f[k] = Step(k, f[k - 1])
    BY <1>6, <1>7, <2>1
  <2>3. \A k \in 0 .. n : k = 0 \/ k \in 1 .. n
    OBVIOUS
  <2>4. \A k \in 0 .. n : f[k] = Body(f)[k]
    BY <1>3, <1>7, <2>2, <2>3
  <2>5. f = [k \in 0 .. n |-> f[k]]
    BY <1>7
  <2> QED BY <2>4, <2>5
<1>9. sel = Body(sel)
  BY <1>8
<1> HIDE DEF sel
<1>10. sel[0] = <<>> /\ \A k \in 1 .. n : sel[k] = Step(k, sel[k - 1])
  <2>1. \A k \in 1 .. n : k \in 0 .. n /\ k # 0
    OBVIOUS
  <2> QED BY <1>9, <2>1
<1>11. \A k \in 0 .. n : sel[k] \in A
  <2>1. \A k \in 1 .. n : sel[k - 1] \in A => sel[k] \in A
    BY <1>4, <1>10
  <2> QED BY <1>1, <1>3, <1>10, <2>1, StaysIn
<1>12. sel \in [0 .. n -> A]
  BY <1>9, <1>11
<1> QED BY <1>1, <1>2, <1>5, <1>10, <1>12 DEF Step

LEMMA SelectedType ==
  ASSUME NEW l \in Seq(Entries)
  PROVE  Selected(l) \in Seq(env.allowed)
<1>1. PICK f \in [0 .. Len(l) -> Seq(env.allowed)] : Selected(l) = f[Len(l)]
  BY SelectedSteps
<1> QED BY <1>1

----------------------------------------------------------------------------
(***************************************************************************)
(* The threads, and where their CPUs are stored.                           *)
(***************************************************************************)
Shares      == IF UsesShareCpus THEN Selected(env.SHARED_CPU_LIST) ELSE <<>>
Threads     == CpuSeq \o Shares
Bindings(s) == [i \in 0 .. Len(s) - 1 |-> s[i + 1]]

LEMMA ThreadsType ==
  ASSUME env \in Environments
  PROVE  /\ CpuSeq \in Seq(env.allowed) /\ Shares \in Seq(env.allowed)
         /\ Threads \in Seq(env.allowed) /\ Len(Threads) = Len(CpuSeq) + Len(Shares)
         /\ Selected(env.MEM_BIND) \in Seq(env.allowed)
<1>1. Shares \in Seq(env.allowed) /\ Selected(env.MEM_BIND) \in Seq(env.allowed)
  <2>1. <<>> \in Seq(env.allowed)
    OBVIOUS
  <2> QED BY <2>1, EnvType, SelectedType DEF Shares
<1>2. CpuSeq \in Seq(env.allowed)
  <2>1. [k \in 1 .. CORES |-> k - 1] \in Seq(Nat)
    BY EnvType
  <2> QED BY <2>1, EnvType, SelectedType, OnlyAllowedType DEF CpuSeq
<1> QED BY <1>1, <1>2, ConcatProperties DEF Threads

\* Both passes over the lists store one thread after the other.
LEMMA StoreBehind ==
  ASSUME NEW S, NEW a \in Seq(S), NEW b \in Seq(S)
  PROVE  StoreFrom(Bindings(a), Len(a), b) = Bindings(a \o b)
<1>1. PICK m \in Nat, n \in Nat : m = Len(a) /\ n = Len(b)
  OBVIOUS
<1>2. PICK c : c = a \o b
  OBVIOUS
<1>3. Len(c) = m + n /\ \A i \in 1 .. m + n : c[i] = IF i <= m THEN a[i] ELSE b[i - m]
  BY <1>1, <1>2, ConcatProperties
<1>4. DOMAIN Bindings(a) \cup m .. m + n - 1 = 0 .. m + n - 1
  BY <1>1 DEF Bindings
<1>5. ASSUME NEW i \in 0 .. m + n - 1
      PROVE  Bindings(c)[i] = IF i \in m .. m + n - 1 THEN b[i - m + 1] ELSE Bindings(a)[i]
  <2>1. Bindings(c)[i] = c[i + 1]
    BY <1>3 DEF Bindings
  <2>2. c[i + 1] = IF i + 1 <= m THEN a[i + 1] ELSE b[i + 1 - m]
    <3>1. i + 1 \in 1 .. m + n
      OBVIOUS
    <3> QED BY <1>3, <3>1
  <2>3. i + 1 <= m => Bindings(a)[i] = a[i + 1]
    BY <1>1 DEF Bindings
  <2>4. i - m + 1 = i + 1 - m /\ (i + 1 <= m <=> i \notin m .. m + n - 1)
    BY <1>1
  <2> QED BY <2>1, <2>2, <2>3, <2>4
<1>6. Bindings(c) = [i \in 0 .. m + n - 1 |-> Bindings(c)[i]]
  BY <1>3 DEF Bindings
<1> QED BY <1>1, <1>2, <1>4, <1>5, <1>6 DEF StoreFrom

LEMMA StoreFirst ==
  ASSUME NEW S, NEW a \in Seq(S), NEW array, DOMAIN array = {}
  PROVE  StoreFrom(array, 0, a) = Bindings(a)
<1>1. PICK n \in Nat : n = Len(a)
  OBVIOUS
<1>2. {} \cup 0 .. 0 + n - 1 = 0 .. n - 1
  OBVIOUS
<1>3. \A i \in 0 .. n - 1 : i - 0 + 1 = i + 1 /\ i \in 0 .. 0 + n - 1
  OBVIOUS
<1> QED BY <1>1, <1>2, <1>3 DEF StoreFrom, Bindings

\* There are no more distinct threads than CPUs.
LEMMA DistinctFit ==
  ASSUME env \in Environments, Distinct
  PROVE  Len(Threads) <= CORES
<1>1. PICK n \in Nat : n = Len(Threads)
  BY ThreadsType
<1>2. Threads \in [1 .. n -> 0 .. CORES - 1]
  BY <1>1, ThreadsType, EnvType
<1>3. \A i, j \in 1 .. n : Threads[i] = Threads[j] => i = j
  BY <1>2 DEF Distinct, IsInjective, Threads, Shares
<1>4. Threads \in Injection(1 .. n, 0 .. CORES - 1)
  BY <1>2, <1>3 DEF Injection, IsInjective
<1>5. IsFiniteSet(0 .. CORES - 1) /\ Cardinality(0 .. CORES - 1) = CORES
  <2>1. CORES \in Nat \ {0} /\ CORES - 1 \in Int /\ 0 \in Int
    BY EnvType
  <2>2. IsFiniteSet(0 .. CORES - 1)
    BY <2>1, FS_Interval
  <2>3. Cardinality(0 .. CORES - 1) = IF 0 > CORES - 1 THEN 0 ELSE CORES - 1 - 0 + 1
    BY <2>1, FS_Interval
  <2> QED BY <2>1, <2>2, <2>3
<1>6. Cardinality(1 .. n) = n
  BY FS_Interval
<1>7. Cardinality(1 .. n) <= Cardinality(0 .. CORES - 1)
  BY <1>4, <1>5, FS_Injection
<1> QED BY <1>1, <1>5, <1>6, <1>7

----------------------------------------------------------------------------
(***************************************************************************)
(* MEM_BIND: its entries, until there is memory for every thread.          *)
(***************************************************************************)
Partial == UNION {[D -> Nat] : D \in SUBSET Nat}
Accs    == [j : Nat, bind : Partial, error : BOOLEAN, more : BOOLEAN]

LEMMA StoreType ==
  ASSUME NEW array \in Partial, NEW j \in Nat, NEW s \in Seq(Nat)
  PROVE  StoreGuarded(array, j, s) \in Partial
<1>1. PICK D \in SUBSET Nat : array \in [D -> Nat]
  BY DEF Partial
<1>2. PICK n \in Nat : n = Len(s)
  OBVIOUS
<1>3. PICK E : E = D \cup {i \in j .. j + n - 1 : i <= NUM_THREADS}
  OBVIOUS
<1>4. E \in SUBSET Nat /\ E \subseteq D \cup j .. j + n - 1
  <2>1. j .. j + n - 1 \subseteq Nat
    OBVIOUS
  <2>2. E \subseteq D \cup j .. j + n - 1
    BY <1>3
  <2> QED BY <1>1, <2>1, <2>2
<1>5. \A i \in D \cup j .. j + n - 1 : StoreFrom(array, j, s)[i] \in Nat
  <2>1. \A i \in j .. j + n - 1 : s[i - j + 1] \in Nat
    <3>1. \A i \in j .. j + n - 1 : i - j + 1 \in 1 .. n
      OBVIOUS
    <3> QED BY <1>2, <3>1
  <2>2. DOMAIN array = D /\ \A i \in D : array[i] \in Nat
    BY <1>1
  <2> QED BY <1>2, <2>1, <2>2 DEF StoreFrom
<1>6. StoreGuarded(array, j, s) = [i \in E |-> StoreFrom(array, j, s)[i]]
  BY <1>1, <1>2, <1>3 DEF StoreGuarded, Restrict
<1>7. StoreGuarded(array, j, s) \in [E -> Nat]
  BY <1>4, <1>5, <1>6
<1> QED BY <1>4, <1>7 DEF Partial

LEMMA BindEntryType ==
  ASSUME env \in Environments, NUM_THREADS \in Nat, NEW acc \in Accs, NEW e \in Entries
  PROVE  BindEntry(acc, e) \in Accs
<1>1. PICK cpus : cpus = OnlyAllowed(Numbers(e))
  OBVIOUS
<1>2. cpus \in Seq(Nat)
  <2>1. cpus \in Seq(env.allowed)
    BY <1>1, NumbersType, OnlyAllowedType
  <2> QED BY <2>1, EnvType
<1>3. /\ acc.j \in Nat /\ acc.bind \in Partial /\ acc.error \in BOOLEAN
      /\ Len(cpus) \in Nat /\ acc.j + Len(cpus) \in Nat
  BY <1>2 DEF Accs
<1>4. StoreGuarded(acc.bind, acc.j, cpus) \in Partial
  BY <1>2, <1>3, StoreType
<1>5. CASE acc.more
  <2>1. BindEntry(acc, e) =
          [j     |-> acc.j + Len(cpus),
           bind  |-> StoreGuarded(acc.bind, acc.j, cpus),
           error |-> acc.error \/ Len(cpus) # Len(Numbers(e)),
           more  |-> acc.j + Len(cpus) < NUM_THREADS]
    BY <1>1, <1>5 DEF BindEntry
  <2>2. /\ (acc.error \/ Len(cpus) # Len(Numbers(e))) \in BOOLEAN
        /\ (acc.j + Len(cpus) < NUM_THREADS) \in BOOLEAN
    OBVIOUS
  <2> QED BY <1>3, <1>4, <2>1, <2>2 DEF Accs
<1>6. CASE ~acc.more
  BY <1>6 DEF BindEntry
<1> QED BY <1>5, <1>6

\* Bound goes through the list.
LEMMA BoundSteps ==
  ASSUME env \in Environments, NUM_THREADS \in Nat, mem_bind = [i \in {} |-> 0]
  PROVE  \E f \in [0 .. Len(env.MEM_BIND) -> Accs] :
           /\ f[0] = [j |-> 0, bind |-> mem_bind, error |-> FALSE, more |-> TRUE]
           /\ Bound = f[Len(env.MEM_BIND)]
           /\ \A k \in 1 .. Len(env.MEM_BIND) : f[k] = BindEntry(f[k - 1], env.MEM_BIND[k])
<1>1. PICK n \in Nat : n = Len(env.MEM_BIND)
  BY EnvType
<1>2. PICK A : A = Accs
  OBVIOUS
<1> DEFINE Step(k, s) == BindEntry(s, env.MEM_BIND[k])
           start   == [j |-> 0, bind |-> mem_bind, error |-> FALSE, more |-> TRUE]
           Body(f) == [k \in 0 .. n |-> IF k = 0 THEN start ELSE Step(k, f[k - 1])]
           bound   == CHOOSE f : f = Body(f)
<1>3. PICK b \in A : b = start
  <2>1. mem_bind \in [{} -> Nat]
    OBVIOUS
  <2>2. mem_bind \in Partial
    BY <2>1 DEF Partial
  <2>3. start \in A
    BY <1>2, <2>2 DEF Accs
  <2> QED BY <2>3
<1>4. ASSUME NEW k \in 1 .. n, NEW s \in A PROVE Step(k, s) \in A
  <2>1. env.MEM_BIND[k] \in Entries
    BY <1>1, EnvType
  <2> QED BY <1>2, <2>1, BindEntryType
<1>5. Bound = bound[n]
  BY <1>1 DEF Bound
<1> HIDE DEF Step, start
<1>6. PICK G \in [1 .. n -> [A -> A]] : \A k \in 1 .. n : \A s \in A : G[k][s] = Step(k, s)
  <2> DEFINE G == [k \in 1 .. n |-> [s \in A |-> Step(k, s)]]
  <2>1. G \in [1 .. n -> [A -> A]] /\ \A k \in 1 .. n : \A s \in A : G[k][s] = Step(k, s)
    BY <1>4
  <2> HIDE DEF G
  <2> QED BY <2>1
<1>7. PICK f : f \in [0 .. n -> A] /\ f[0] = b /\ \A k \in 1 .. n : f[k] = G[k][f[k - 1]]
  <2>1. \E f : Follows(f, n, A, b, G)
    BY <1>1, <1>3, <1>6, Recursion
  <2> QED BY <2>1 DEF Follows
<1>8. f = Body(f)
  <2>1. \A k \in 1 .. n : k - 1 \in 0 .. n
    OBVIOUS
  <2>2. \A k \in 1 .. n : f[k] = Step(k, f[k - 1])
    BY <1>6, <1>7, <2>1
  <2>3. \A k \in 0 .. n : k = 0 \/ k \in 1 .. n
    OBVIOUS
  <2>4. \A k \in 0 .. n : f[k] = Body(f)[k]
    BY <1>3, <1>7, <2>2, <2>3
  <2>5. f = [k \in 0 .. n |-> f[k]]
    BY <1>7
  <2> QED BY <2>4, <2>5
<1>9. bound = Body(bound)
  BY <1>8
<1> HIDE DEF bound
<1>10. bound[0] = start /\ \A k \in 1 .. n : bound[k] = Step(k, bound[k - 1])
  <2>1. \A k \in 1 .. n : k \in 0 .. n /\ k # 0
    OBVIOUS
  <2> QED BY <1>9, <2>1
<1>11. \A k \in 0 .. n : bound[k] \in A
  <2>1. \A k \in 1 .. n : bound[k - 1] \in A => bound[k] \in A
    BY <1>4, <1>10
  <2> QED BY <1>1, <1>3, <1>10, <2>1, StaysIn
<1>12. bound \in [0 .. n -> A]
  BY <1>9, <1>11
<1> QED BY <1>1, <1>2, <1>5, <1>10, <1>12 DEF Step, start

\* As much of a list as there is room for.
Fitting(s) == [i \in {n_ \in 0 .. Len(s) - 1 : n_ <= NUM_THREADS} |-> s[i + 1]]

LEMMA StoreNext ==
  ASSUME NEW S, NEW a \in Seq(S), NEW b \in Seq(S)
  PROVE  StoreGuarded(Fitting(a), Len(a), b) = Fitting(a \o b)
<1>1. PICK m \in Nat, n \in Nat : m = Len(a) /\ n = Len(b)
  OBVIOUS
<1>2. PICK c : c = a \o b
  OBVIOUS
<1>3. Len(c) = m + n /\ \A i \in 1 .. m + n : c[i] = IF i <= m THEN a[i] ELSE b[i - m]
  BY <1>1, <1>2, ConcatProperties
<1>4. PICK D : D = {i \in 0 .. m - 1 : i <= NUM_THREADS}
  OBVIOUS
<1>5. PICK E : E = {i \in 0 .. m + n - 1 : i <= NUM_THREADS}
  OBVIOUS
<1>6. Fitting(a) = [i \in D |-> a[i + 1]] /\ Fitting(c) = [i \in E |-> c[i + 1]]
  BY <1>1, <1>3, <1>4, <1>5 DEF Fitting
<1>7. D \cup {i \in m .. m + n - 1 : i <= NUM_THREADS} = E
  BY <1>4, <1>5
<1>8. \A i \in E : i \in D \cup m .. m + n - 1
  BY <1>4, <1>5
<1>9. ASSUME NEW i \in E
      PROVE  (IF i \in m .. m + n - 1 THEN b[i - m + 1] ELSE Fitting(a)[i]) = c[i + 1]
  <2>1. i + 1 \in 1 .. m + n /\ i - m + 1 = i + 1 - m /\ (i + 1 <= m <=> i \notin m .. m + n - 1)
    BY <1>5
  <2>2. i \notin m .. m + n - 1 => Fitting(a)[i] = a[i + 1]
    BY <1>6, <1>8
  <2>3. c[i + 1] = IF i + 1 <= m THEN a[i + 1] ELSE b[i + 1 - m]
    BY <1>3, <2>1
  <2> QED BY <2>1, <2>2, <2>3
<1>10. StoreFrom(Fitting(a), m, b) =
         [i \in D \cup m .. m + n - 1 |->
            IF i \in m .. m + n - 1 THEN b[i - m + 1] ELSE Fitting(a)[i]]
  BY <1>1, <1>6 DEF StoreFrom
<1>11. StoreGuarded(Fitting(a), m, b) = [i \in E |-> StoreFrom(Fitting(a), m, b)[i]]
  BY <1>1, <1>6, <1>7 DEF StoreGuarded, Restrict
<1>12. \A i \in E : StoreFrom(Fitting(a), m, b)[i] = c[i + 1]
  BY <1>8, <1>9, <1>10
<1> QED BY <1>1, <1>2, <1>6, <1>11, <1>12

Prefix(a, b) == Len(a) <= Len(b) /\ \A i \in 1 .. Len(a) : b[i] = a[i]

LEMMA PrefixConcat ==
  ASSUME NEW S, NEW a \in Seq(S), NEW b \in Seq(S), NEW c \in Seq(S), Prefix(a, b)
  PROVE  Prefix(a, b \o c)
<1>1. PICK d : d = b \o c
  OBVIOUS
<1>2. /\ Len(d) = Len(b) + Len(c)
      /\ \A i \in 1 .. Len(b) + Len(c) : d[i] = IF i <= Len(b) THEN b[i] ELSE c[i - Len(b)]
  BY <1>1, ConcatProperties
<1>3. Len(a) \in Nat /\ Len(b) \in Nat /\ Len(c) \in Nat
  OBVIOUS
<1>4. \A i \in 1 .. Len(a) : i \in 1 .. Len(b) + Len(c) /\ i <= Len(b) /\ b[i] = a[i]
  BY <1>3 DEF Prefix
<1>5. Prefix(a, d)
  BY <1>2, <1>3, <1>4 DEF Prefix
<1> QED BY <1>1, <1>5

\* The entries up to one of them select a prefix of what the list selects.
LEMMA EntriesInOrder ==
  ASSUME NEW S, NEW n \in Nat, NEW g \in [0 .. n -> Seq(S)],
         \A k \in 1 .. n : \E s \in Seq(S) : g[k] = g[k - 1] \o s
  PROVE  \A m \in 0 .. n : Prefix(g[m], g[n])
<1> DEFINE T == {k \in 0 .. n : \A m \in 0 .. k : Prefix(g[m], g[k])}
<1>1. \A s \in Seq(S) : Prefix(s, s)
  BY DEF Prefix
<1>2. 0 \in T
  BY <1>1
<1>3. ASSUME NEW k \in 1 .. n, k - 1 \in T PROVE k \in T
  <2>1. PICK s \in Seq(S) : g[k] = g[k - 1] \o s
    OBVIOUS
  <2>2. k \in 0 .. n /\ k - 1 \in 0 .. n
    OBVIOUS
  <2>3. ASSUME NEW m \in 0 .. k - 1 PROVE Prefix(g[m], g[k])
    <3>1. g[m] \in Seq(S) /\ g[k - 1] \in Seq(S) /\ Prefix(g[m], g[k - 1])
      BY <1>3, <2>2
    <3> QED BY <2>1, <3>1, PrefixConcat
  <2>4. Prefix(g[k], g[k])
    BY <1>1, <2>2
  <2>5. \A m \in 0 .. k : m = k \/ m \in 0 .. k - 1
    OBVIOUS
  <2> QED BY <2>2, <2>3, <2>4, <2>5
<1> HIDE DEF T
<1>4. \A k \in 0 .. n : k \in T
  BY <1>2, <1>3, Induction
<1> QED BY <1>4 DEF T

\* An entry that names allowed CPUs only is stored as a whole.
LEMMA NamedAllowed ==
  ASSUME env \in Environments, Named(env.MEM_BIND) \subseteq env.allowed,
         NEW k \in 1 .. Len(env.MEM_BIND)
  PROVE  Len(OnlyAllowed(Numbers(env.MEM_BIND[k]))) = Len(Numbers(env.MEM_BIND[k]))
<1>1. PICK l \in Seq(Entries) : l = env.MEM_BIND
  BY EnvType
<1>2. l[k] \in Entries /\ k \in DOMAIN l
  BY <1>1
<1>3. PICK cpus \in Seq(Nat) : cpus = Numbers(l[k])
  BY <1>2, NumbersType
<1>4. Range(cpus) \subseteq env.allowed
  BY <1>1, <1>2, <1>3 DEF Named
<1>5. \A i \in 1 .. Len(cpus) : cpus[i] \in env.allowed
  BY <1>4 DEF Range
<1> QED BY <1>1, <1>3, <1>5, OnlyAllowedType

\* When the entries up to k were read, of which those up to m are stored.
BoundAt(acc, s, m, k) ==
  /\ acc.j = Len(s) /\ acc.bind = Fitting(s)
  /\ IF acc.more THEN m = k ELSE acc.j >= NUM_THREADS
  /\ Named(env.MEM_BIND) \subseteq env.allowed => ~acc.error

LEMMA BoundStep ==
  ASSUME env \in Environments, NUM_THREADS \in Nat, NEW k \in 1 .. Len(env.MEM_BIND),
         NEW acc \in Accs, NEW m \in 0 .. k - 1, NEW s \in Seq(env.allowed),
         BoundAt(acc, s, m, k - 1)
  PROVE  IF acc.more
         THEN BoundAt(BindEntry(acc, env.MEM_BIND[k]), s \o OnlyAllowed(Numbers(env.MEM_BIND[k])), k, k)
         ELSE BoundAt(BindEntry(acc, env.MEM_BIND[k]), s, m, k)
<1>1. PICK e \in Entries : e = env.MEM_BIND[k]
  BY EnvType
<1>2. PICK cpus \in Seq(env.allowed) : cpus = OnlyAllowed(Numbers(e))
  BY NumbersType, OnlyAllowedType
<1>3. PICK c : c = s \o cpus
  OBVIOUS
<1>4. Len(c) = Len(s) + Len(cpus) /\ Fitting(c) = StoreGuarded(Fitting(s), Len(s), cpus)
  BY <1>3, ConcatProperties, StoreNext
<1>5. Len(s) \in Nat /\ Len(cpus) \in Nat /\ acc.error \in BOOLEAN
  BY DEF Accs
<1>6. CASE acc.more
  <2>1. PICK more \in BOOLEAN : more <=> acc.j + Len(cpus) < NUM_THREADS
    OBVIOUS
  <2>2. PICK error \in BOOLEAN : error <=> acc.error \/ Len(cpus) # Len(Numbers(e))
    OBVIOUS
  <2>3. BindEntry(acc, e) =
          [j |-> acc.j + Len(cpus), bind |-> StoreGuarded(acc.bind, acc.j, cpus),
           error |-> error, more |-> more]
    BY <1>2, <1>6, <2>1, <2>2 DEF BindEntry
  <2>4. acc.j = Len(s) /\ acc.bind = Fitting(s)
    BY DEF BoundAt
  <2>5. /\ BindEntry(acc, e).j = Len(c) /\ BindEntry(acc, e).bind = Fitting(c)
        /\ BindEntry(acc, e).more = more /\ BindEntry(acc, e).error = error
    BY <1>4, <2>3, <2>4
  <2>6. ~more => BindEntry(acc, e).j >= NUM_THREADS
    BY <1>4, <1>5, <2>1, <2>4, <2>5
  <2>7. Named(env.MEM_BIND) \subseteq env.allowed => ~error
    BY <1>1, <1>2, <2>2, NamedAllowed DEF BoundAt
  <2>8. BoundAt(BindEntry(acc, e), c, k, k)
    BY <2>5, <2>6, <2>7 DEF BoundAt
  <2> QED BY <1>1, <1>2, <1>3, <1>6, <2>8
<1>7. CASE ~acc.more
  <2>1. BindEntry(acc, e) = acc
    BY <1>7 DEF BindEntry
  <2> QED BY <1>1, <1>7, <2>1 DEF BoundAt
<1> QED BY <1>6, <1>7

\* What is bound when the list is through.
LEMMA BoundFacts ==
  ASSUME env \in Environments, NUM_THREADS \in Nat, mem_bind = [i \in {} |-> 0]
  PROVE  LET s == Selected(env.MEM_BIND) IN
         /\ Bound.j \in Nat /\ Bound.error \in BOOLEAN
         /\ DOMAIN Bound.bind \subseteq 0 .. NUM_THREADS
         /\ Bound.j >= NUM_THREADS =>
              /\ Len(s) >= NUM_THREADS
              /\ \A i \in 0 .. NUM_THREADS - 1 : i \in DOMAIN Bound.bind /\ Bound.bind[i] = s[i + 1]
         /\ Bound.j < NUM_THREADS => Len(s) < NUM_THREADS
         /\ Named(env.MEM_BIND) \subseteq env.allowed => ~Bound.error
<1>1. PICK n \in Nat : n = Len(env.MEM_BIND)
  BY EnvType
<1>2. PICK l \in Seq(Entries) : l = env.MEM_BIND
  BY EnvType
<1>3. PICK f \in [0 .. n -> Accs] :
        /\ f[0] = [j |-> 0, bind |-> mem_bind, error |-> FALSE, more |-> TRUE]
        /\ Bound = f[n]
        /\ \A k \in 1 .. n : f[k] = BindEntry(f[k - 1], l[k])
  BY <1>1, <1>2, BoundSteps
<1>4. PICK g \in [0 .. n -> Seq(env.allowed)] :
        /\ g[0] = <<>> /\ Selected(l) = g[n]
        /\ \A k \in 1 .. n : g[k] = g[k - 1] \o OnlyAllowed(Numbers(l[k]))
  BY <1>1, <1>2, SelectedSteps
<1> DEFINE T == {k \in 0 .. n : \E m \in 0 .. k : BoundAt(f[k], g[m], m, k)}
<1>5. 0 \in T
  <2>1. Fitting(<<>>) = [i \in {} |-> 0]
    BY DEF Fitting
  <2>2. BoundAt(f[0], g[0], 0, 0)
    BY <1>3, <1>4, <2>1 DEF BoundAt
  <2> QED BY <2>2
<1>6. ASSUME NEW k \in 1 .. n, k - 1 \in T PROVE k \in T
  <2>1. PICK m \in 0 .. k - 1 : BoundAt(f[k - 1], g[m], m, k - 1)
    BY <1>6
  <2>2. k - 1 \in 0 .. n /\ m \in 0 .. n /\ f[k - 1] \in Accs /\ g[m] \in Seq(env.allowed)
    OBVIOUS
  <2>3. IF f[k - 1].more
        THEN BoundAt(BindEntry(f[k - 1], l[k]), g[m] \o OnlyAllowed(Numbers(l[k])), k, k)
        ELSE BoundAt(BindEntry(f[k - 1], l[k]), g[m], m, k)
    BY <1>1, <1>2, <2>1, <2>2, BoundStep
  <2>4. f[k - 1].more => m = k - 1
    BY <2>1 DEF BoundAt
  <2>5. IF f[k - 1].more THEN BoundAt(f[k], g[k], k, k) ELSE BoundAt(f[k], g[m], m, k)
    BY <1>3, <1>4, <2>3, <2>4
  <2>6. k \in 0 .. k /\ m \in 0 .. k /\ k \in 0 .. n
    OBVIOUS
  <2> QED BY <2>5, <2>6
<1> HIDE DEF T
<1>7. \A k \in 0 .. n : k \in T
  BY <1>5, <1>6, Induction
<1>8. PICK m \in 0 .. n : BoundAt(f[n], g[m], m, n)
  BY <1>7 DEF T
<1>9. Prefix(g[m], g[n])
  <2>1. ASSUME NEW k \in 1 .. n PROVE \E s \in Seq(env.allowed) : g[k] = g[k - 1] \o s
    <3>1. l[k] \in Entries
      BY <1>1, <1>2
    <3>2. OnlyAllowed(Numbers(l[k])) \in Seq(env.allowed)
      BY <3>1, NumbersType, OnlyAllowedType
    <3> QED BY <1>4, <3>2
  <2> QED BY <1>4, <2>1, EntriesInOrder
<1>10. g[m] \in Seq(env.allowed) /\ g[n] \in Seq(env.allowed) /\ f[n] \in Accs
  BY <1>3, <1>4
<1>11. Len(g[m]) \in Nat /\ Len(g[n]) \in Nat
  BY <1>10
<1>12. DOMAIN Fitting(g[m]) = {i \in 0 .. Len(g[m]) - 1 : i <= NUM_THREADS}
  BY DEF Fitting
<1>13. ASSUME Bound.j >= NUM_THREADS
       PROVE  /\ Len(g[n]) >= NUM_THREADS
              /\ \A i \in 0 .. NUM_THREADS - 1 : i \in DOMAIN Bound.bind /\ Bound.bind[i] = g[n][i + 1]
  <2>1. Len(g[m]) >= NUM_THREADS /\ Bound.bind = Fitting(g[m])
    BY <1>3, <1>8, <1>13 DEF BoundAt
  <2>2. ASSUME NEW i \in 0 .. NUM_THREADS - 1
        PROVE  i \in DOMAIN Fitting(g[m]) /\ Fitting(g[m])[i] = g[n][i + 1]
    <3>1. i \in {x \in 0 .. Len(g[m]) - 1 : x <= NUM_THREADS} /\ i + 1 \in 1 .. Len(g[m])
      BY <1>11, <2>1
    <3>2. Fitting(g[m])[i] = g[m][i + 1]
      BY <3>1 DEF Fitting
    <3> QED BY <1>9, <1>12, <3>1, <3>2 DEF Prefix
  <2>3. Len(g[n]) >= NUM_THREADS
    BY <1>9, <1>11, <2>1 DEF Prefix
  <2>4. \A i \in 0 .. NUM_THREADS - 1 : i \in DOMAIN Bound.bind /\ Bound.bind[i] = g[n][i + 1]
    BY <2>1, <2>2
  <2> QED BY <2>3, <2>4
<1>14. Bound.j < NUM_THREADS => Len(g[n]) < NUM_THREADS
  BY <1>3, <1>8, <1>11 DEF BoundAt
<1>15. DOMAIN Bound.bind \subseteq 0 .. NUM_THREADS
  BY <1>3, <1>8, <1>12 DEF BoundAt
<1>16. Bound.j \in Nat /\ Bound.error \in BOOLEAN
  BY <1>3, <1>10 DEF Accs
<1>17. Named(env.MEM_BIND) \subseteq env.allowed => ~Bound.error
  BY <1>3, <1>8 DEF BoundAt
<1> QED BY <1>2, <1>4, <1>13, <1>14, <1>15, <1>16, <1>17

----------------------------------------------------------------------------
(***************************************************************************)
(* The invariant of the lists: how far evaluate_environment() has come.    *)
(***************************************************************************)
PcInv ==
  /\ env \in Environments
  /\ pc \in {"count", "bind", "shareCount", "shareBind", "mem", "check", "init", "ready", "exit"}
  /\ pc \in {"shareCount", "shareBind"} => UsesShareCpus
  /\ pc = "shareBind" => env.SHARED_CPU_LIST # Unset

\* What was counted in the first pass over a list is what the second one finds.
CountInv ==
  /\ pc \in {"bind", "shareCount"} => NUM_THREADS = Len(CpuSeq)
  /\ pc \in {"shareBind", "mem", "check", "init", "exit"} => NUM_THREADS = Len(Threads)
  /\ pc = "ready" => NUM_THREADS = IF Len(Threads) > CORES THEN CORES ELSE Len(Threads)
  /\ pc \notin {"count", "bind"} => NUM_RESULTS = Len(CpuSeq)
  /\ pc \in {"shareBind", "mem", "check", "init", "ready", "exit"}
       /\ UsesShareCpus /\ env.SHARED_CPU_LIST # Unset =>
         FRST_SHARE_CPU = Len(CpuSeq) /\ NUM_SHARED_CPUS = Len(Shares)

\* The threads whose CPUs are stored, and the room there is for them.
InArray ==
  CASE pc \in {"count", "bind"} -> <<>>
    [] pc \in {"shareCount", "shareBind"} -> CpuSeq
    [] pc \in {"mem", "check", "init", "ready", "exit"} -> Threads

StoreInv ==
  /\ cpu_bind = Bindings(InArray)
  /\ room.cpu \in Nat /\ room.mem \in Nat /\ room = [cpu |-> room.cpu, mem |-> room.mem]
  /\ pc \in {"bind", "shareCount"} => room.cpu >= Len(CpuSeq)
  /\ pc \in {"shareBind", "mem", "check", "init", "ready", "exit"} => room.cpu >= Len(Threads)

\* Unless an error was counted there is memory for every thread.
MemInv ==
  /\ pc \in {"count", "bind", "shareCount", "shareBind", "mem"} => mem_bind = [i \in {} |-> 0]
  /\ pc \in {"check", "init", "ready", "exit"} =>
       /\ room.mem = Len(Threads) + 1 /\ DOMAIN mem_bind \subseteq 0 .. Len(Threads)
       /\ ~errors => \A i \in 0 .. Len(Threads) - 1 :
            /\ i \in DOMAIN mem_bind
            /\ env.ALLOC = "B" =>
                 i < Len(Selected(env.MEM_BIND)) /\ mem_bind[i] = Selected(env.MEM_BIND)[i + 1]

\* What is wrong with the lists counts as an error, and keeps the kernel from being
\* initialised.
ErrorInv ==
  /\ errors \in BOOLEAN
  /\ pc # "count" /\ CpuSeq = <<>> => errors
  /\ pc \in {"mem", "check", "init", "ready", "exit"} /\ UsesShareCpus
       /\ env.SHARED_CPU_LIST = Unset => errors
  /\ pc \in {"init", "ready"} => ~errors

ThreadInv == PcInv /\ CountInv /\ StoreInv /\ MemInv /\ ErrorInv

\* An error was counted for a reason, which may be another one than the lists.
ListsWrong ==
  \/ CpuSeq = <<>>
  \/ UsesShareCpus /\ env.SHARED_CPU_LIST = Unset
  \/ env.ALLOC = "B" /\ ~(Named(env.MEM_BIND) \subseteq env.allowed)
  \/ env.ALLOC = "B" /\ Len(Selected(env.MEM_BIND)) < Len(Threads)
Reason(other) == errors => other \/ ListsWrong

LEMMA NoShares ==
  ASSUME env \in Environments, ~UsesShareCpus \/ env.SHARED_CPU_LIST = Unset
  PROVE  Shares = <<>> /\ Threads = CpuSeq
<1>1. Selected(<<>>) = <<>>
  <2>1. <<>> \in Seq(Entries) /\ Len(<<>>) = 0
    OBVIOUS
  <2> QED BY <2>1, SelectedSteps
<1>2. Shares = <<>>
  BY <1>1 DEF Shares, Unset
<1> QED BY <1>2, ThreadsType, ConcatEmptySeq DEF Threads

LEMMA SameThreads ==
  ASSUME env' = env
  PROVE  /\ CpuSeq' = CpuSeq /\ Shares' = Shares /\ Threads' = Threads
         /\ UsesShareCpus' = UsesShareCpus /\ ListsWrong' = ListsWrong
         /\ \A l : Selected(l)' = Selected(l)
<1>1. /\ CpuSeq' = CpuSeq /\ UsesShareCpus' = UsesShareCpus
      /\ \A l : Selected(l)' = Selected(l)
  BY SameLists
<1>2. Shares' = Shares
  BY <1>1 DEF Shares
<1>3. Threads' = Threads
  BY <1>1, <1>2 DEF Threads
<1>4. Named(env.MEM_BIND)' = Named(env.MEM_BIND)
  BY DEF Named, Numbers
<1>5. Selected(env.MEM_BIND)' = Selected(env.MEM_BIND)
  BY <1>1
<1>6. ListsWrong' = ListsWrong
  BY <1>1, <1>3, <1>4, <1>5 DEF ListsWrong
<1> QED BY <1>1, <1>2, <1>3, <1>6

LEMMA ThreadStart ==
  ASSUME env \in Environments, InitThreads
  PROVE  ThreadInv /\ ~errors
<1>1. cpu_bind = Bindings(<<>>)
  <2>1. Len(<<>>) = 0 /\ 0 .. 0 - 1 = {}
    OBVIOUS
  <2> QED BY <2>1 DEF InitThreads, Bindings
<1> QED BY <1>1 DEF InitThreads, ThreadInv, PcInv, CountInv, StoreInv, InArray, MemInv, ErrorInv

LEMMA KeptByCountCpus ==
  ASSUME ThreadInv, CountCpus
  PROVE  ThreadInv' /\ (errors' => ListsWrong)
<1>1. PICK n \in Nat : n = Len(CpuSeq)
  BY ThreadsType DEF ThreadInv, PcInv
<1>2. n = 0 <=> CpuSeq = <<>>
  BY <1>1, ThreadsType DEF ThreadInv, PcInv
<1>3. CpuSeq' = CpuSeq /\ UsesShareCpus' = UsesShareCpus
  BY SameThreads DEF CountCpus
<1>4. PcInv'
  BY DEF ThreadInv, PcInv, CountCpus
<1>5. CountInv'
  BY <1>3 DEF CountInv, CountCpus
<1>6. StoreInv'
  <2>1. cpu_bind' = Bindings(<<>>)
    BY DEF CountCpus, ThreadInv, StoreInv, InArray
  <2>2. Bindings(<<>>)' = Bindings(<<>>)
    BY DEF Bindings
  <2>3. cpu_bind' = Bindings(InArray)'
    BY <2>1, <2>2 DEF CountCpus, InArray
  <2>4. room' = [cpu |-> IF n = 0 THEN 0 ELSE n + 1, mem |-> room.mem] /\ room.mem \in Nat
    BY <1>1 DEF CountCpus, ThreadInv, StoreInv
  <2>5. room'.cpu \in Nat /\ room'.cpu >= n /\ room'.mem \in Nat
    BY <1>1, <2>4
  <2> QED BY <1>1, <1>3, <2>3, <2>4, <2>5 DEF StoreInv, CountCpus
<1>7. MemInv'
  BY DEF ThreadInv, MemInv, CountCpus
<1>8. ErrorInv' /\ (errors' => ListsWrong)
  BY <1>1, <1>2, <1>3 DEF ErrorInv, CountCpus, ListsWrong
<1> QED BY <1>4, <1>5, <1>6, <1>7, <1>8 DEF ThreadInv

LEMMA KeptByBindCpus ==
  ASSUME ThreadInv, BindCpus
  PROVE  ThreadInv'
<1>1. env \in Environments /\ env' = env
  BY DEF ThreadInv, PcInv, BindCpus
<1>2. CpuSeq' = CpuSeq /\ Threads' = Threads /\ UsesShareCpus' = UsesShareCpus
  BY <1>1, SameThreads
<1>3. ~UsesShareCpus => Threads = CpuSeq
  BY <1>1, NoShares
<1>4. PcInv'
  BY <1>2 DEF ThreadInv, PcInv, BindCpus
<1>5. CountInv'
  BY <1>2, <1>3 DEF ThreadInv, CountInv, BindCpus
<1>6. StoreInv'
  <2>1. DOMAIN cpu_bind = {}
    <3>1. Len(<<>>) = 0 /\ 0 .. 0 - 1 = {}
      OBVIOUS
    <3> QED BY <3>1 DEF ThreadInv, StoreInv, InArray, Bindings, BindCpus
  <2>2. cpu_bind' = Bindings(CpuSeq)
    BY <1>1, <2>1, StoreFirst, ThreadsType DEF BindCpus
  <2>3. Bindings(CpuSeq)' = Bindings(CpuSeq)
    BY <1>2 DEF Bindings
  <2>4. InArray' = CpuSeq
    BY <1>2, <1>3 DEF InArray, BindCpus
  <2>5. cpu_bind' = Bindings(InArray)'
    BY <2>2, <2>4 DEF Bindings
  <2> QED BY <1>2, <1>3, <2>5 DEF ThreadInv, StoreInv, BindCpus
<1>7. MemInv'
  BY DEF ThreadInv, MemInv, BindCpus
<1>8. ErrorInv'
  BY <1>2 DEF ThreadInv, ErrorInv, BindCpus
<1> QED BY <1>4, <1>5, <1>6, <1>7, <1>8 DEF ThreadInv

LEMMA KeptByCountShares ==
  ASSUME ThreadInv, CountShares
  PROVE  ThreadInv' /\ (errors' => errors \/ ListsWrong)
<1>1. env \in Environments /\ env' = env /\ UsesShareCpus
  BY DEF ThreadInv, PcInv, CountShares
<1>2. /\ CpuSeq' = CpuSeq /\ Threads' = Threads /\ UsesShareCpus' = UsesShareCpus
      /\ Shares' = Shares
  BY <1>1, SameThreads
<1>3. PICK m \in Nat, n \in Nat : m = Len(CpuSeq) /\ n = Len(Shares) /\ Len(Threads) = m + n
  BY <1>1, ThreadsType
<1>4. NUM_THREADS = m /\ NUM_RESULTS = m /\ cpu_bind = Bindings(CpuSeq)
  BY <1>3 DEF ThreadInv, CountInv, StoreInv, InArray, CountShares
<1>5. room = [cpu |-> room.cpu, mem |-> room.mem] /\ room.mem \in Nat /\ room.cpu \in Nat
      /\ room.cpu >= m
  BY <1>3 DEF ThreadInv, StoreInv, CountShares
<1>6. Bindings(CpuSeq)' = Bindings(CpuSeq)
  BY <1>2 DEF Bindings
<1>7. MemInv'
  BY DEF ThreadInv, MemInv, CountShares
<1>8. CASE env.SHARED_CPU_LIST = Unset
  <2>1. Threads = CpuSeq
    BY <1>1, <1>8, NoShares
  <2>2. /\ errors' = TRUE /\ pc' = "mem" /\ UNCHANGED <<counts, room, cpu_bind, mem_bind>>
        /\ pc = "shareCount"
    BY <1>8 DEF CountShares
  <2>3. PcInv'
    BY <1>1, <2>2 DEF ThreadInv, PcInv
  <2>4. CountInv'
    BY <1>1, <1>2, <1>3, <1>4, <1>8, <2>1, <2>2 DEF CountInv, counts
  <2>5. StoreInv'
    <3>1. InArray' = CpuSeq
      BY <1>2, <2>1, <2>2 DEF InArray
    <3>2. cpu_bind' = Bindings(InArray)'
      BY <1>4, <2>2, <3>1 DEF Bindings
    <3> QED BY <1>2, <1>3, <1>5, <2>1, <2>2, <3>2 DEF StoreInv
  <2>6. ErrorInv' /\ ListsWrong
    BY <1>1, <1>8, <2>2 DEF ErrorInv, ListsWrong
  <2> QED BY <1>7, <2>3, <2>4, <2>5, <2>6 DEF ThreadInv
<1>9. CASE env.SHARED_CPU_LIST # Unset
  <2>1. Selected(env.SHARED_CPU_LIST) = Shares
    BY <1>1 DEF Shares
  <2>2. /\ NUM_THREADS' = m + n /\ FRST_SHARE_CPU' = m /\ NUM_SHARED_CPUS' = n
        /\ NUM_RESULTS' = m /\ room' = [cpu |-> m + n, mem |-> room.mem]
        /\ pc' = "shareBind" /\ errors' = errors /\ cpu_bind' = cpu_bind /\ mem_bind' = mem_bind
        /\ pc = "shareCount"
    BY <1>3, <1>4, <1>5, <1>9, <2>1 DEF CountShares
  <2>3. PcInv'
    BY <1>1, <1>2, <1>9, <2>2 DEF ThreadInv, PcInv
  <2>4. CountInv'
    BY <1>1, <1>2, <1>3, <2>2 DEF CountInv
  <2>5. StoreInv'
    <3>1. InArray' = CpuSeq
      BY <1>2, <2>2 DEF InArray
    <3>2. cpu_bind' = Bindings(InArray)'
      BY <1>4, <2>2, <3>1 DEF Bindings
    <3> QED BY <1>2, <1>3, <1>5, <2>2, <3>2 DEF StoreInv
  <2>6. ErrorInv'
    BY <1>1, <1>2, <2>2 DEF ErrorInv, ThreadInv
  <2> QED BY <1>7, <2>2, <2>3, <2>4, <2>5, <2>6 DEF ThreadInv
<1> QED BY <1>8, <1>9

LEMMA KeptByBindShares ==
  ASSUME ThreadInv, BindShares
  PROVE  ThreadInv'
<1>1. env \in Environments /\ env' = env /\ UsesShareCpus
  BY DEF ThreadInv, PcInv, BindShares
<1>2. /\ CpuSeq' = CpuSeq /\ Threads' = Threads /\ UsesShareCpus' = UsesShareCpus
      /\ Shares' = Shares
  BY <1>1, SameThreads
<1>3. NUM_RESULTS = Len(CpuSeq) /\ cpu_bind = Bindings(CpuSeq)
  BY DEF ThreadInv, CountInv, StoreInv, InArray, BindShares
<1>4. cpu_bind' = Bindings(Threads)
  <2>1. Selected(env.SHARED_CPU_LIST) = Shares
    BY <1>1 DEF Shares
  <2>2. PICK S : CpuSeq \in Seq(S) /\ Shares \in Seq(S)
    BY <1>1, ThreadsType
  <2> QED BY <1>3, <2>1, <2>2, StoreBehind DEF BindShares, Threads
<1>5. PcInv'
  BY <1>2 DEF ThreadInv, PcInv, BindShares
<1>6. CountInv'
  BY <1>2 DEF ThreadInv, CountInv, BindShares, counts
<1>7. StoreInv'
  <2>1. InArray' = Threads
    BY <1>2 DEF InArray, BindShares
  <2>2. cpu_bind' = Bindings(InArray)'
    BY <1>4, <2>1 DEF Bindings
  <2> QED BY <1>2, <2>2 DEF ThreadInv, StoreInv, BindShares
<1>8. MemInv'
  BY DEF ThreadInv, MemInv, BindShares
<1>9. ErrorInv'
  <2>1. env.SHARED_CPU_LIST # Unset
    BY DEF ThreadInv, PcInv, BindShares
  <2> QED BY <1>2, <2>1 DEF ThreadInv, ErrorInv, BindShares
<1> QED BY <1>5, <1>6, <1>7, <1>8, <1>9 DEF ThreadInv


LEMMA KeptByBindMemory ==
  ASSUME ThreadInv, BindMemory
  PROVE  ThreadInv' /\ (errors' => errors \/ ListsWrong)
<1>1. env \in Environments /\ env' = env /\ pc = "mem" /\ pc' = "check"
  BY DEF ThreadInv, PcInv, BindMemory
<1>2. /\ CpuSeq' = CpuSeq /\ Threads' = Threads /\ UsesShareCpus' = UsesShareCpus
      /\ Shares' = Shares /\ \A l : Selected(l)' = Selected(l)
  BY <1>1, SameThreads
<1>3. PICK n \in Nat : n = Len(Threads)
  BY <1>1, ThreadsType
<1>4. /\ NUM_THREADS = n /\ cpu_bind = Bindings(Threads) /\ mem_bind = [i \in {} |-> 0]
      /\ errors \in BOOLEAN
  BY <1>1, <1>3 DEF ThreadInv, CountInv, StoreInv, InArray, MemInv, ErrorInv
<1>5. PICK s : s = Selected(env.MEM_BIND)
  OBVIOUS
<1>6. /\ Bound.j \in Nat /\ Bound.error \in BOOLEAN /\ DOMAIN Bound.bind \subseteq 0 .. n
      /\ Bound.j >= n =>
           /\ Len(s) >= n
           /\ \A i \in 0 .. n - 1 : i \in DOMAIN Bound.bind /\ Bound.bind[i] = s[i + 1]
      /\ Bound.j < n => Len(s) < n
      /\ Named(env.MEM_BIND) \subseteq env.allowed => ~Bound.error
  BY <1>1, <1>4, <1>5, BoundFacts
<1>7. PcInv'
  BY <1>1, <1>2 DEF ThreadInv, PcInv
<1>8. CountInv'
  BY <1>1, <1>2 DEF ThreadInv, CountInv, BindMemory, counts
<1>9. StoreInv'
  <2>1. InArray' = Threads
    BY <1>1, <1>2 DEF InArray
  <2>2. cpu_bind' = Bindings(InArray)'
    BY <1>4, <2>1 DEF Bindings, BindMemory
  <2>3. room' = [cpu |-> room.cpu, mem |-> n + 1] /\ room.cpu \in Nat /\ room.cpu >= n
    BY <1>1, <1>3, <1>4 DEF ThreadInv, StoreInv, BindMemory
  <2> QED BY <1>1, <1>2, <1>3, <2>2, <2>3 DEF StoreInv
<1>10. MemInv'
  <2>1. room'.mem = n + 1
    BY <1>4 DEF ThreadInv, StoreInv, BindMemory
  <2>2. env'.MEM_BIND = env.MEM_BIND /\ env'.ALLOC = env.ALLOC /\ Selected(env.MEM_BIND)' = s
    BY <1>1, <1>2, <1>5
  <2>3. CASE env.ALLOC = "B"
    <3>1. mem_bind' = Bound.bind /\ (~errors' => Bound.j >= n)
      <4>1. mem_bind' = Bound.bind
        BY <2>3 DEF BindMemory
      <4>2. ~errors' => ~(Bound.j < n)
        BY <1>4, <2>3 DEF BindMemory
      <4> QED BY <1>6, <4>1, <4>2
    <3>2. ASSUME ~errors', NEW i \in 0 .. n - 1
          PROVE  i \in DOMAIN mem_bind' /\ i < Len(s) /\ mem_bind'[i] = s[i + 1]
      <4>1. Len(s) >= n /\ Len(s) \in Nat
        BY <1>1, <1>5, <1>6, <3>1, <3>2, ThreadsType
      <4> QED BY <1>6, <3>1, <3>2, <4>1
    <3>3. DOMAIN mem_bind' \subseteq 0 .. n
      BY <1>6, <3>1
    <3> QED BY <1>1, <1>2, <1>3, <2>1, <2>2, <3>2, <3>3 DEF MemInv
  <2>4. CASE env.ALLOC # "B"
    <3>1. DOMAIN mem_bind' = 0 .. n - 1
      BY <1>1, <1>4, <2>4, EnvType DEF BindMemory
    <3> QED BY <1>1, <1>2, <1>3, <2>1, <2>2, <2>4, <3>1 DEF MemInv
  <2> QED BY <2>3, <2>4
<1>11. ErrorInv' /\ (errors' => errors \/ ListsWrong)
  <2>1. errors' = (errors \/ (env.ALLOC = "B" /\ (Bound.error \/ Bound.j < n)))
    BY <1>4 DEF BindMemory
  <2>2. errors' => errors \/ ListsWrong
    BY <1>3, <1>5, <1>6, <2>1 DEF ListsWrong
  <2> QED BY <1>1, <1>2, <2>1, <2>2 DEF ThreadInv, ErrorInv
<1> QED BY <1>7, <1>8, <1>9, <1>10, <1>11 DEF ThreadInv

\* When the lists were read, errors may be found in other settings; after that only
\* the position changes, and the number of threads, which bi_init() cuts.
LEMMA KeptAfterwards ==
  ASSUME ThreadInv, UNCHANGED <<env, NUM_RESULTS, FRST_SHARE_CPU, NUM_SHARED_CPUS, cpu_bind,
                                mem_bind, room>>,
         \/ pc = "check" /\ pc' \in {"check", "init", "exit"}
         \/ pc = "init" /\ pc' \in {"init", "exit", "ready"}
         \/ pc' = pc,
         errors' \in BOOLEAN, errors => errors', pc # "check" => errors' = errors,
         pc' = "init" => ~errors',
         IF pc = "init" /\ pc' = "ready"
         THEN NUM_THREADS' = IF NUM_THREADS > CORES \/ NUM_THREADS = 0 THEN CORES ELSE NUM_THREADS
         ELSE NUM_THREADS' = NUM_THREADS
  PROVE  ThreadInv'
<1>1. env \in Environments /\ env' = env
  BY DEF ThreadInv, PcInv
<1>2. /\ CpuSeq' = CpuSeq /\ Threads' = Threads /\ UsesShareCpus' = UsesShareCpus
      /\ Shares' = Shares /\ \A l : Selected(l)' = Selected(l)
  BY <1>1, SameThreads
<1>3. Selected(env.MEM_BIND)' = Selected(env.MEM_BIND)
  BY <1>1, <1>2
<1>4. PcInv'
  BY <1>1, <1>2 DEF ThreadInv, PcInv
<1>5. CountInv'
  <2>1. CASE pc = "init" /\ pc' = "ready"
    <3>1. PICK m \in Nat, n \in Nat : m = Len(CpuSeq) /\ n = Len(Threads) /\ m <= n
      BY <1>1, ThreadsType
    <3>2. m # 0
      BY <1>1, <2>1, <3>1, ThreadsType DEF ThreadInv, ErrorInv
    <3>3. NUM_THREADS = n
      BY <2>1, <3>1 DEF ThreadInv, CountInv
    <3>4. NUM_THREADS' = IF n > CORES THEN CORES ELSE n
      BY <2>1, <3>1, <3>2, <3>3
    <3> QED BY <1>1, <1>2, <2>1, <3>1, <3>4 DEF ThreadInv, CountInv
  <2>2. CASE ~(pc = "init" /\ pc' = "ready")
    BY <1>1, <1>2, <2>2 DEF ThreadInv, CountInv
  <2> QED BY <2>1, <2>2
<1>6. StoreInv'
  <2>1. InArray' = InArray
    BY <1>1, <1>2 DEF InArray
  <2>2. cpu_bind' = Bindings(InArray)'
    BY <2>1 DEF ThreadInv, StoreInv, Bindings
  <2> QED BY <1>2, <2>2 DEF ThreadInv, StoreInv
<1>7. MemInv'
  BY <1>1, <1>2, <1>3 DEF ThreadInv, MemInv
<1>8. ErrorInv'
  BY <1>1, <1>2 DEF ThreadInv, ErrorInv
<1> QED BY <1>4, <1>5, <1>6, <1>7, <1>8 DEF ThreadInv


----------------------------------------------------------------------------
(***************************************************************************)
(* The settings and the interface of the kernel.                           *)
(***************************************************************************)
InfoOfThreads ==
  IF kernel.name = "bandwidth" THEN BandwidthInfo(cpu_bind, NUM_RESULTS)
                               ELSE LatencyInfo(cpu_bind, NUM_RESULTS)
RowOf(valid) ==
  IF kernel.name = "bandwidth" THEN BandwidthRow(NUM_RESULTS, valid) ELSE LatencyRow(NUM_RESULTS, valid)

LegendInv ==
  /\ info # <<>> => pc \in {"init", "ready", "exit"} /\ info = InfoOfThreads
  /\ pc = "ready" => info # <<>>
  /\ row.size > 0 => /\ pc = "ready"
                     /\ \E valid \in SUBSET (0 .. NUM_RESULTS - 1) : row.results = RowOf(valid)

SettingsWrong == error_msg # <<>> \/ source.STEPS = Missing
SettingsInv ==
  /\ values = <<>> => error_msg = <<>>
  /\ pc = "exit" => errors \/ ~ClockKnown
  /\ Reason(SettingsWrong)

ConfigInv == ThreadInv /\ LegendInv /\ SettingsInv

LEMMA ConfigStart ==
  ASSUME InitConfig
  PROVE  ConfigInv
<1>1. env \in Environments
  BY ConfigurationAssumption DEF InitConfig
<1>2. ThreadInv /\ ~errors /\ pc = "count"
  BY <1>1, ThreadStart DEF InitConfig, InitThreads
<1>3. LegendInv
  <2>1. info = <<>> /\ row.size = 0
    BY DEF InitConfig, InitSettings
  <2> QED BY <1>2, <2>1 DEF LegendInv
<1>4. SettingsInv
  BY <1>2 DEF SettingsInv, Reason, InitConfig, InitSettings
<1> QED BY <1>2, <1>3, <1>4 DEF ConfigInv

\* The lists are read while the kernel has no interface.
LEMMA KeptByThreadLists ==
  ASSUME ConfigInv, ThreadLists
  PROVE  ConfigInv'
<1>1. /\ ThreadInv' /\ (errors' => errors \/ ListsWrong) /\ env' = env
      /\ pc \in {"count", "bind", "shareCount", "shareBind", "mem"}
      /\ pc' \in {"bind", "shareCount", "shareBind", "mem", "check"}
  <2>1. CASE CountCpus
    BY <2>1, KeptByCountCpus DEF ConfigInv, CountCpus
  <2>2. CASE BindCpus
    BY <2>2, KeptByBindCpus DEF ConfigInv, BindCpus
  <2>3. CASE CountShares
    BY <2>3, KeptByCountShares DEF ConfigInv, CountShares
  <2>4. CASE BindShares
    BY <2>4, KeptByBindShares DEF ConfigInv, BindShares
  <2>5. CASE BindMemory
    BY <2>5, KeptByBindMemory DEF ConfigInv, BindMemory
  <2> QED BY <2>1, <2>2, <2>3, <2>4, <2>5 DEF ThreadLists
<1>2. UNCHANGED <<source, kernel, values, error_msg, clockrate, info, row>>
  BY DEF ThreadLists, allSizes, kernelVars
<1>3. LegendInv'
  <2>1. info' = <<>> /\ ~(row'.size > 0)
    BY <1>1, <1>2 DEF ConfigInv, LegendInv
  <2> QED BY <1>1, <2>1 DEF LegendInv
<1>4. SettingsInv'
  <2>1. ListsWrong' = ListsWrong
    BY <1>1, SameThreads
  <2> QED BY <1>1, <1>2, <2>1 DEF ConfigInv, SettingsInv, Reason, SettingsWrong
<1> QED BY <1>1, <1>3, <1>4 DEF ConfigInv

LEMMA KeptBySettings ==
  ASSUME ConfigInv, Settings
  PROVE  ConfigInv'
<1>1. /\ pc = "check" /\ pc' = pc /\ env' = env
      /\ UNCHANGED <<NUM_THREADS, NUM_RESULTS, FRST_SHARE_CPU, NUM_SHARED_CPUS, cpu_bind,
                     mem_bind, room, source, kernel, clockrate, info, row>>
      /\ values = <<>>
  BY DEF Settings, ReadSettings, counts, allSizes
<1>2. PICK wrong \in BOOLEAN : wrong <=> error_msg' # <<>> \/ source.STEPS = Missing
  OBVIOUS
<1>3. errors \in BOOLEAN
  BY DEF ConfigInv, ThreadInv, ErrorInv
<1>4. errors' = (errors \/ wrong)
  BY <1>2 DEF Settings
<1>5. ThreadInv'
  <2>1. errors' \in BOOLEAN /\ (errors => errors')
    BY <1>3, <1>4
  <2> QED BY <1>1, <2>1, KeptAfterwards DEF ConfigInv
<1>6. LegendInv'
  BY <1>1 DEF ConfigInv, LegendInv
<1>7. SettingsInv'
  <2>1. values' # <<>>
    <3>1. "FLUSH_L1" \in DOMAIN Stored
      BY DEF Stored, Defaults
    <3>2. "FLUSH_L1" \in DOMAIN ByInstruction(Stored)
      BY <3>1 DEF ByInstruction
    <3>3. values' = ByInstruction(Stored)
      BY DEF Settings, ReadSettings
    <3> QED BY <3>2, <3>3
  <2>2. ListsWrong' = ListsWrong
    BY <1>1, SameThreads
  <2>3. errors' => SettingsWrong' \/ ListsWrong
    <3>1. errors => source.STEPS = Missing \/ ListsWrong
      BY <1>1 DEF ConfigInv, SettingsInv, Reason, SettingsWrong
    <3> QED BY <1>1, <1>2, <1>3, <1>4, <3>1 DEF SettingsWrong
  <2> QED BY <1>1, <2>1, <2>2, <2>3 DEF SettingsInv, Reason
<1> QED BY <1>5, <1>6, <1>7 DEF ConfigInv

LEMMA KeptByErrors ==
  ASSUME ConfigInv, Errors
  PROVE  ConfigInv'
<1>1. /\ pc = "check" /\ pc' = (IF errors THEN "exit" ELSE "init") /\ env' = env
      /\ UNCHANGED <<NUM_THREADS, NUM_RESULTS, FRST_SHARE_CPU, NUM_SHARED_CPUS, cpu_bind,
                     mem_bind, room, errors, source, kernel, values, error_msg, clockrate,
                     info, row>>
  BY DEF Errors, Check, counts, allSizes, kernelVars
<1>2. ThreadInv'
  <2>1. errors \in BOOLEAN
    BY DEF ConfigInv, ThreadInv, ErrorInv
  <2> QED BY <1>1, <2>1, KeptAfterwards DEF ConfigInv
<1>3. LegendInv'
  <2>1. info' = <<>> /\ ~(row'.size > 0)
    BY <1>1 DEF ConfigInv, LegendInv
  <2> QED BY <1>1, <2>1 DEF LegendInv
<1>4. SettingsInv'
  <2>1. ListsWrong' = ListsWrong
    BY <1>1, SameThreads
  <2> QED BY <1>1, <2>1 DEF ConfigInv, SettingsInv, Reason, SettingsWrong
<1> QED BY <1>2, <1>3, <1>4 DEF ConfigInv

LEMMA KeptByGetInfo ==
  ASSUME ConfigInv, GetInfo
  PROVE  ConfigInv'
<1>1. /\ pc = "init" /\ info = <<>> /\ pc' = pc /\ env' = env
      /\ UNCHANGED <<NUM_THREADS, NUM_RESULTS, FRST_SHARE_CPU, NUM_SHARED_CPUS, cpu_bind,
                     mem_bind, room, errors, source, kernel, values, error_msg, clockrate, row>>
  BY DEF GetInfo, bi_getinfo, vars, counts, allSizes
<1>2. ThreadInv'
  BY <1>1, KeptAfterwards DEF ConfigInv, ThreadInv, ErrorInv
<1>3. LegendInv'
  <2>1. info' = InfoOfThreads'
    BY <1>1 DEF GetInfo, bi_getinfo, InfoOfThreads, BandwidthInfo, LatencyInfo
  <2>2. ~(row'.size > 0)
    BY <1>1 DEF ConfigInv, LegendInv
  <2> QED BY <1>1, <2>1, <2>2 DEF LegendInv
<1>4. SettingsInv'
  <2>1. ListsWrong' = ListsWrong
    BY <1>1, SameThreads
  <2> QED BY <1>1, <2>1 DEF ConfigInv, SettingsInv, Reason, SettingsWrong
<1> QED BY <1>2, <1>3, <1>4 DEF ConfigInv

LEMMA KeptByInitKernel ==
  ASSUME ConfigInv, InitKernel
  PROVE  ConfigInv'
<1>1. /\ pc = "init" /\ pc' = "ready" /\ env' = env /\ info # <<>>
      /\ UNCHANGED <<NUM_RESULTS, FRST_SHARE_CPU, NUM_SHARED_CPUS, cpu_bind,
                     mem_bind, room, errors, source, kernel, values, error_msg, info, row>>
      /\ NUM_THREADS' = IF NUM_THREADS > CORES \/ NUM_THREADS = 0 THEN CORES ELSE NUM_THREADS
  BY DEF InitKernel, BiInit, SetClock, allSizes
<1>2. ThreadInv'
  BY <1>1, KeptAfterwards DEF ConfigInv, ThreadInv, ErrorInv
<1>3. LegendInv'
  <2>1. info' = InfoOfThreads'
    BY <1>1 DEF ConfigInv, LegendInv, InfoOfThreads, BandwidthInfo, LatencyInfo
  <2>2. ~(row'.size > 0)
    BY <1>1 DEF ConfigInv, LegendInv
  <2> QED BY <1>1, <2>1, <2>2 DEF LegendInv
<1>4. SettingsInv'
  <2>1. ListsWrong' = ListsWrong
    BY <1>1, SameThreads
  <2> QED BY <1>1, <2>1 DEF ConfigInv, SettingsInv, Reason, SettingsWrong
<1> QED BY <1>2, <1>3, <1>4 DEF ConfigInv

LEMMA KeptByNoClock ==
  ASSUME ConfigInv, NoClock
  PROVE  ConfigInv'
<1>1. /\ pc = "init" /\ pc' = "exit" /\ env' = env /\ ~ClockKnown
      /\ UNCHANGED <<NUM_THREADS, NUM_RESULTS, FRST_SHARE_CPU, NUM_SHARED_CPUS, cpu_bind,
                     mem_bind, room, errors, source, kernel, values, error_msg, clockrate,
                     info, row>>
  BY DEF NoClock, counts, allSizes, kernelVars
<1>2. ThreadInv'
  BY <1>1, KeptAfterwards DEF ConfigInv, ThreadInv, ErrorInv
<1>3. LegendInv'
  <2>1. info' # <<>> => info' = InfoOfThreads'
    BY <1>1 DEF ConfigInv, LegendInv, InfoOfThreads, BandwidthInfo, LatencyInfo
  <2>2. ~(row'.size > 0)
    BY <1>1 DEF ConfigInv, LegendInv
  <2> QED BY <1>1, <2>1, <2>2 DEF LegendInv
<1>4. SettingsInv'
  <2>1. ListsWrong' = ListsWrong
    BY <1>1, SameThreads
  <2>2. ~ClockKnown'
    BY <1>1 DEF ClockKnown
  <2> QED BY <1>1, <2>1, <2>2 DEF ConfigInv, SettingsInv, Reason, SettingsWrong
<1> QED BY <1>2, <1>3, <1>4 DEF ConfigInv

LEMMA KeptByEntry ==
  ASSUME ConfigInv, Entry
  PROVE  ConfigInv'
<1>1. /\ pc = "ready" /\ pc' = pc /\ env' = env
      /\ UNCHANGED <<NUM_THREADS, NUM_RESULTS, FRST_SHARE_CPU, NUM_SHARED_CPUS, cpu_bind,
                     mem_bind, room, errors, source, kernel, values, error_msg, clockrate, info>>
  BY DEF Entry, Ready, bi_entry, vars, counts, allSizes
<1>2. ThreadInv'
  BY <1>1, KeptAfterwards DEF ConfigInv, ThreadInv, ErrorInv
<1>3. LegendInv'
  <2>1. info' # <<>> /\ info' = InfoOfThreads'
    BY <1>1 DEF ConfigInv, LegendInv, InfoOfThreads, BandwidthInfo, LatencyInfo
  <2>2. PICK valid \in SUBSET (0 .. NUM_RESULTS - 1) : row'.results = RowOf(valid)
    BY DEF Entry, bi_entry, RowOf
  <2>3. RowOf(valid)' = RowOf(valid)
    BY <1>1 DEF RowOf, BandwidthRow, LatencyRow, Result
  <2> QED BY <1>1, <2>1, <2>2, <2>3 DEF LegendInv
<1>4. SettingsInv'
  <2>1. ListsWrong' = ListsWrong
    BY <1>1, SameThreads
  <2> QED BY <1>1, <2>1 DEF ConfigInv, SettingsInv, Reason, SettingsWrong
<1> QED BY <1>2, <1>3, <1>4 DEF ConfigInv

\* The sizes are no part of the invariant.
LEMMA KeptBySizes ==
  ASSUME ConfigInv, UNCHANGED <<vars, kernelVars, source>>
  PROVE  ConfigInv'
<1>1. /\ env' = env /\ pc' = pc
      /\ UNCHANGED <<NUM_THREADS, NUM_RESULTS, FRST_SHARE_CPU, NUM_SHARED_CPUS, cpu_bind,
                     mem_bind, room, errors, source, kernel, values, error_msg, clockrate,
                     info, row>>
  BY DEF vars, counts, kernelVars
<1>2. ThreadInv'
  BY <1>1, KeptAfterwards DEF ConfigInv, ThreadInv, ErrorInv
<1>3. LegendInv'
  <2>1. InfoOfThreads' = InfoOfThreads
    BY <1>1 DEF InfoOfThreads, BandwidthInfo, LatencyInfo
  <2>2. \A valid \in SUBSET (0 .. NUM_RESULTS - 1) : RowOf(valid)' = RowOf(valid)
    BY <1>1 DEF RowOf, BandwidthRow, LatencyRow, Result
  <2> QED BY <1>1, <2>1, <2>2 DEF ConfigInv, LegendInv
<1>4. SettingsInv'
  <2>1. ListsWrong' = ListsWrong
    BY <1>1, SameThreads
  <2>2. ClockKnown' = ClockKnown
    BY <1>1 DEF ClockKnown
  <2> QED BY <1>1, <2>1, <2>2 DEF ConfigInv, SettingsInv, Reason, SettingsWrong
<1> QED BY <1>2, <1>3, <1>4 DEF ConfigInv


LEMMA KeptByNext ==
  ASSUME ConfigInv, [NextConfig]_configVars
  PROVE  ConfigInv'
<1>1. CASE Sizes
  <2>1. UNCHANGED source
    BY <1>1 DEF Sizes, FindSizes, bi_parselist, TakeList, TakeRange, NoSizes, RandomOrder, Draw
  <2> QED BY <1>1, <2>1, KeptBySizes DEF Sizes
<1>2. CASE ThreadLists
  BY <1>2, KeptByThreadLists
<1>3. CASE Settings
  BY <1>3, KeptBySettings
<1>4. CASE Errors
  BY <1>4, KeptByErrors
<1>5. CASE GetInfo
  BY <1>5, KeptByGetInfo
<1>6. CASE InitKernel
  BY <1>6, KeptByInitKernel
<1>7. CASE NoClock
  BY <1>7, KeptByNoClock
<1>8. CASE Entry
  BY <1>8, KeptByEntry
<1>9. CASE Ended
  BY <1>9, KeptBySizes DEF Ended, Stopped, allSizes
<1>10. CASE UNCHANGED configVars
  BY <1>10, KeptBySizes DEF configVars, allSizes
<1> QED BY <1>1, <1>2, <1>3, <1>4, <1>5, <1>6, <1>7, <1>8, <1>9, <1>10 DEF NextConfig
----------------------------------------------------------------------------
(***************************************************************************)
(* The results.                                                            *)
(***************************************************************************)
\* Whatever the settings, evaluate_environment() and bi_init() count, allocate, and
\* store the threads that the lists ask for, and every error has its reason.
THEOREM InvariantC == SpecConfig => []ConfigInv
<1>1. InitConfig => ConfigInv
  BY ConfigStart
<1>2. ConfigInv /\ [NextConfig]_configVars => ConfigInv'
  BY KeptByNext
<1> QED BY <1>1, <1>2, PTL DEF SpecConfig

LEMMA ThreadsExistIn ==
  ASSUME ThreadInv
  PROVE  ThreadsExist
<1>1. env \in Environments
  BY DEF ThreadInv, PcInv
<1>2. PICK m \in Nat, n \in Nat : m = Len(CpuSeq) /\ n = Len(Shares) /\ Len(Threads) = m + n
  BY <1>1, ThreadsType
<1>3. StoredInRoom
  <2>1. DOMAIN cpu_bind \subseteq 0 .. room.cpu - 1
    <3>1. PICK k \in Nat : k = Len(InArray)
      <4>1. Len(<<>>) \in Nat
        OBVIOUS
      <4> QED BY <1>2, <4>1 DEF InArray, ThreadInv, PcInv
    <3>2. room.cpu \in Nat /\ k <= room.cpu
      BY <1>2, <3>1 DEF ThreadInv, PcInv, StoreInv, InArray
    <3>3. DOMAIN cpu_bind = 0 .. k - 1
      BY <3>1 DEF ThreadInv, StoreInv, Bindings
    <3> QED BY <3>2, <3>3
  <2>2. DOMAIN mem_bind \subseteq 0 .. room.mem - 1
    <3>1. DOMAIN mem_bind = {} \/ (room.mem = m + n + 1 /\ DOMAIN mem_bind \subseteq 0 .. m + n)
      BY <1>2 DEF ThreadInv, PcInv, MemInv
    <3> QED BY <3>1
  <2> QED BY <2>1, <2>2 DEF StoredInRoom
<1>4. ASSUME Ready, Distinct, UsesShareCpus => NUM_SHARED_CPUS > 0
      PROVE  /\ NUM_THREADS <= CORES
             /\ Addressed = 0 .. NUM_THREADS - 1
             /\ Addressed \subseteq DOMAIN cpu_bind \cap DOMAIN mem_bind
  <2>1. pc = "ready"
    BY <1>4 DEF Ready
  <2>2. m + n <= CORES /\ CORES \in Nat
    BY <1>1, <1>2, <1>4, DistinctFit, EnvType
  <2>3. NUM_THREADS = m + n /\ NUM_RESULTS = m
    BY <1>2, <2>1, <2>2 DEF ThreadInv, CountInv
  <2>4. ~errors /\ (UsesShareCpus => FRST_SHARE_CPU = m /\ NUM_SHARED_CPUS = n)
    BY <1>2, <2>1 DEF ThreadInv, CountInv, ErrorInv
  <2>5. ~UsesShareCpus => n = 0
    <3>1. Len(<<>>) = 0
      OBVIOUS
    <3> QED BY <1>2, <3>1 DEF Shares
  <2>6. env.USE_MODE = "OWNED" => UsesShareCpus
    BY DEF UsesShareCpus
  <2>7. Addressed = 0 .. m + n - 1
    <3>1. CASE UsesShareCpus
      <4>1. n > 0
        BY <1>4, <2>4, <3>1
      <4>2. Addressed = 0 .. m - 1 \cup m .. m + n - 1 \cup (IF env.USE_MODE = "OWNED" THEN {m} ELSE {})
        BY <2>3, <2>4, <3>1 DEF Addressed
      <4> QED BY <4>1, <4>2
    <3>2. CASE ~UsesShareCpus
      BY <2>3, <2>5, <2>6, <3>2 DEF Addressed
    <3> QED BY <3>1, <3>2
  <2>8. DOMAIN cpu_bind = 0 .. m + n - 1
    BY <1>2, <2>1 DEF ThreadInv, StoreInv, InArray, Bindings
  <2>9. \A i \in 0 .. m + n - 1 : i \in DOMAIN mem_bind
    BY <1>2, <2>1, <2>4 DEF ThreadInv, MemInv
  <2> QED BY <2>2, <2>3, <2>7, <2>8, <2>9
<1> QED BY <1>3, <1>4 DEF ThreadsExist

\* The second pass over a list stores within what the first one allocated, and with
\* distinct CPUs the threads that _work() commands are those that bi_init() creates.
THEOREM ThreadsExistC == SpecConfig => []ThreadsExist
<1>1. ConfigInv => ThreadsExist
  BY ThreadsExistIn DEF ConfigInv
<1> QED BY <1>1, InvariantC, PTL

LEMMA OwnCpuIn ==
  ASSUME ThreadInv
  PROVE  OwnCpu
<1> SUFFICES ASSUME Ready, Distinct
             PROVE  /\ \A i, j \in 0 .. NUM_THREADS - 1 : cpu_bind[i] = cpu_bind[j] => i = j
                    /\ env.CPU_LIST # Unset =>
                         \A k \in 0 .. NUM_RESULTS - 1 : cpu_bind[k] = Selected(env.CPU_LIST)[k + 1]
  BY DEF OwnCpu
<1>1. env \in Environments /\ pc = "ready"
  BY DEF ThreadInv, PcInv, Ready
<1>2. PICK m \in Nat, n \in Nat : m = Len(CpuSeq) /\ n = Len(Threads) /\ m <= n
  BY <1>1, ThreadsType
<1>3. n <= CORES /\ CORES \in Nat
  BY <1>1, <1>2, DistinctFit, EnvType
<1>4. NUM_THREADS = n /\ NUM_RESULTS = m
  BY <1>1, <1>2, <1>3 DEF ThreadInv, CountInv
<1>5. \A i \in 0 .. n - 1 : i + 1 \in 1 .. n /\ cpu_bind[i] = Threads[i + 1]
  BY <1>1, <1>2 DEF ThreadInv, StoreInv, InArray, Bindings
<1>6. \A i, j \in 1 .. n : Threads[i] = Threads[j] => i = j
  <2>1. Threads \in Seq(env.allowed)
    BY <1>1, ThreadsType
  <2>2. DOMAIN Threads = 1 .. n
    BY <1>2, <2>1
  <2> QED BY <2>2 DEF Distinct, IsInjective, Threads, Shares
<1>7. \A k \in 0 .. m - 1 : Threads[k + 1] = CpuSeq[k + 1]
  <2>1. \A k \in 0 .. m - 1 : k + 1 \in 1 .. m
    OBVIOUS
  <2>2. PICK S : CpuSeq \in Seq(S) /\ Shares \in Seq(S)
    BY <1>1, ThreadsType
  <2>3. \A k \in 1 .. m : Threads[k] = CpuSeq[k]
    BY <1>2, <2>2, ConcatProperties DEF Threads
  <2> QED BY <2>1, <2>3
<1>8. env.CPU_LIST # Unset => CpuSeq = Selected(env.CPU_LIST)
  BY DEF CpuSeq
<1>9. \A k \in 0 .. m - 1 : k \in 0 .. n - 1
  BY <1>2
<1> QED BY <1>4, <1>5, <1>6, <1>7, <1>8, <1>9

\* With distinct CPUs no two threads are bound to the same one, and the k-th measured
\* thread is bound to the k-th CPU of BENCHIT_KERNEL_CPU_LIST.
THEOREM OwnCpuC == SpecConfig => []OwnCpu
<1>1. ConfigInv => OwnCpu
  BY OwnCpuIn DEF ConfigInv
<1> QED BY <1>1, InvariantC, PTL

LEMMA MemoryAsNamedIn ==
  ASSUME ThreadInv, Reason(FALSE), pc = "exit" => errors
  PROVE  MemoryAsNamed
<1> SUFFICES ASSUME env.ALLOC = "B"
             PROVE  /\ Ready => \A i \in 0 .. NUM_THREADS - 1 : mem_bind[i] = Selected(env.MEM_BIND)[i + 1]
                    /\ (/\ pc = "exit" /\ NUM_RESULTS > 0 /\ Named(env.MEM_BIND) \subseteq env.allowed
                        /\ UsesShareCpus => env.SHARED_CPU_LIST # Unset)
                         => Len(Selected(env.MEM_BIND)) < NUM_THREADS
  BY DEF MemoryAsNamed
<1>1. env \in Environments
  BY DEF ThreadInv, PcInv
<1>2. PICK n \in Nat : n = Len(Threads)
  BY <1>1, ThreadsType
<1>3. ASSUME Ready, NEW i \in 0 .. NUM_THREADS - 1
      PROVE  mem_bind[i] = Selected(env.MEM_BIND)[i + 1]
  <2>1. pc = "ready" /\ ~errors /\ CORES \in Nat
    BY <1>1, <1>3, EnvType DEF Ready, ThreadInv, ErrorInv
  <2>2. NUM_THREADS <= n /\ NUM_THREADS \in Nat
    BY <1>2, <2>1 DEF ThreadInv, CountInv
  <2>3. i \in 0 .. n - 1
    BY <2>2
  <2> QED BY <1>2, <2>1, <2>3 DEF ThreadInv, MemInv
<1>4. ASSUME pc = "exit", NUM_RESULTS > 0, Named(env.MEM_BIND) \subseteq env.allowed,
             UsesShareCpus => env.SHARED_CPU_LIST # Unset
      PROVE  Len(Selected(env.MEM_BIND)) < NUM_THREADS
  <2>1. ListsWrong
    BY <1>4 DEF Reason
  <2>2. NUM_THREADS = n /\ NUM_RESULTS = Len(CpuSeq)
    BY <1>2, <1>4 DEF ThreadInv, CountInv
  <2>3. CpuSeq # <<>>
    <3>1. Len(<<>>) = 0
      OBVIOUS
    <3> QED BY <1>4, <2>2, <3>1
  <2> QED BY <1>2, <1>4, <2>1, <2>2, <2>3 DEF ListsWrong
<1> QED BY <1>3, <1>4

\* evaluate_environment() refuses a list of memory bindings of allowed CPUs only when it is
\* too short, and otherwise every thread has the memory named for it: with the lists alone, ...
THEOREM MemoryAsNamedT == Spec => []MemoryAsNamed
<1> DEFINE Inv == ThreadInv /\ Reason(FALSE) /\ (pc = "exit" => errors)
<1>1. Init => Inv
  BY ThreadStart DEF Init, InitThreads, Reason
<1>2. ASSUME Inv, [Next]_vars PROVE Inv'
  <2>1. ASSUME ThreadInv', env' = env, errors' => errors \/ ListsWrong, pc' = "exit" => errors'
        PROVE  Inv'
    BY <1>2, <2>1, SameThreads DEF Reason
  <2>2. CASE CountCpus
    BY <1>2, <2>1, <2>2, KeptByCountCpus DEF CountCpus
  <2>3. CASE BindCpus
    BY <1>2, <2>1, <2>3, KeptByBindCpus DEF BindCpus
  <2>4. CASE CountShares
    BY <1>2, <2>1, <2>4, KeptByCountShares DEF CountShares
  <2>5. CASE BindShares
    BY <1>2, <2>1, <2>5, KeptByBindShares DEF BindShares
  <2>6. CASE BindMemory
    BY <1>2, <2>1, <2>6, KeptByBindMemory DEF BindMemory
  <2>7. errors \in BOOLEAN
    BY <1>2 DEF ThreadInv, ErrorInv
  <2>8. CASE Check
    BY <1>2, <2>1, <2>7, <2>8, KeptAfterwards DEF Check, counts
  <2>9. CASE BiInit
    BY <1>2, <2>1, <2>7, <2>9, KeptAfterwards DEF BiInit, ThreadInv, ErrorInv
  <2>10. CASE UNCHANGED vars
    BY <1>2, <2>1, <2>7, <2>10, KeptAfterwards DEF vars, counts, ThreadInv, ErrorInv
  <2> QED BY <1>2, <2>2, <2>3, <2>4, <2>5, <2>6, <2>8, <2>9, <2>10 DEF Next, Stopped
<1>3. Inv => MemoryAsNamed
  BY MemoryAsNamedIn
<1> QED BY <1>1, <1>2, <1>3, PTL DEF Spec

\* ... and with the other settings of the kernel, when none of them is wrong and
\* bi_init() knows the clock rate.
THEOREM MemoryAsNamedC ==
  SpecConfig => [](error_msg = <<>> /\ source.STEPS # Missing /\ ClockKnown => MemoryAsNamed)
<1>1. ConfigInv => (error_msg = <<>> /\ source.STEPS # Missing /\ ClockKnown => MemoryAsNamed)
  <2> SUFFICES ASSUME ConfigInv, error_msg = <<>>, source.STEPS # Missing, ClockKnown
               PROVE  MemoryAsNamed
    OBVIOUS
  <2> QED BY MemoryAsNamedIn DEF ConfigInv, SettingsInv, Reason, SettingsWrong
<1> QED BY <1>1, InvariantC, PTL

\* What bi_entry() stores in a column is of the thread, and in the unit, that
\* bi_getinfo() gives for the column.
THEOREM LegendC == SpecConfig => []LegendMatchesResult
<1>1. ASSUME ConfigInv PROVE LegendMatchesResult
  <2> SUFFICES ASSUME row.size > 0, Distinct
               PROVE  LegendMatchesResult
    BY DEF LegendMatchesResult
  <2>1. env \in Environments /\ pc = "ready"
    BY <1>1 DEF ConfigInv, ThreadInv, PcInv, LegendInv
  <2>2. PICK n \in Nat : n = NUM_RESULTS /\ n > 0
    <3>1. NUM_RESULTS = Len(CpuSeq) /\ CpuSeq # <<>> /\ CpuSeq \in Seq(env.allowed)
      BY <1>1, <2>1, ThreadsType DEF ConfigInv, ThreadInv, CountInv, ErrorInv
    <3> QED BY <3>1
  <2>3. \A i, j \in 0 .. n - 1 : cpu_bind[i] = cpu_bind[j] => i = j
    <3>1. n <= NUM_THREADS
      <4>1. PICK k \in Nat : k = Len(Threads) /\ n <= k /\ k <= CORES /\ CORES \in Nat
        BY <1>1, <2>1, <2>2, ThreadsType, DistinctFit, EnvType DEF ConfigInv, ThreadInv, CountInv
      <4> QED BY <1>1, <2>1, <4>1 DEF ConfigInv, ThreadInv, CountInv
    <3>2. \A i, j \in 0 .. NUM_THREADS - 1 : cpu_bind[i] = cpu_bind[j] => i = j
      BY <1>1, <2>1, OwnCpuIn DEF ConfigInv, OwnCpu, Ready
    <3>3. NUM_THREADS \in Nat
      BY <1>1, <2>1, ThreadsType, EnvType DEF ConfigInv, ThreadInv, CountInv
    <3> QED BY <3>1, <3>2, <3>3
  <2>4. PICK valid \in SUBSET (0 .. n - 1) : row.results = RowOf(valid)
    BY <1>1, <2>2 DEF ConfigInv, LegendInv
  <2>5. info = InfoOfThreads
    BY <1>1, <2>1 DEF ConfigInv, LegendInv
  <2>6. \A u \in {"GB/s", "cycles", "ns"} : \A k \in 0 .. n - 1 :
          Result(u, k) # INVALID /\ Result(u, k).unit = u /\ Result(u, k).thread = k
    <3> SUFFICES ASSUME NEW u \in {"GB/s", "cycles", "ns"}, NEW k \in 0 .. n - 1
                 PROVE  Result(u, k) # INVALID /\ Result(u, k).unit = u /\ Result(u, k).thread = k
      OBVIOUS
    <3>1. Result(u, k) \in [unit : {"GB/s", "cycles", "ns"}, thread : Nat]
      BY DEF Result
    <3> QED BY <3>1, KernelSettingsAssumption DEF Result
  <2>7. CASE kernel.name = "bandwidth"
    <3>1. DOMAIN info = 0 .. n - 1 /\ DOMAIN row.results = 1 .. n
      BY <2>2, <2>4, <2>5, <2>7 DEF InfoOfThreads, RowOf, BandwidthInfo, BandwidthRow
    <3>2. \A f \in 0 .. n - 1 :
            /\ info[f].unit = "GB/s" /\ info[f].to = cpu_bind[f] /\ info[f].outlier_direction_upwards = 0
            /\ row.results[f + 1] = IF f \in valid THEN Result("GB/s", f) ELSE INVALID
      <4>1. \A f \in 0 .. n - 1 : f + 1 \in 1 .. n /\ f + 1 - 1 = f
        OBVIOUS
      <4> QED BY <2>2, <2>4, <2>5, <2>7, <4>1
              DEF InfoOfThreads, RowOf, BandwidthInfo, BandwidthRow, Legend
    <3>3. {f + 1 : f \in 0 .. n - 1} = 1 .. n
      <4>1. \A k \in 1 .. n : k - 1 \in 0 .. n - 1 /\ k = (k - 1) + 1
        OBVIOUS
      <4> QED BY <4>1
    <3>4. \A f \in 0 .. n - 1 :
            /\ row.results[f + 1] # INVALID =>
                 row.results[f + 1].unit = "GB/s" /\ row.results[f + 1].thread = f
            /\ row.results[f + 1] = INVALID <=> f \notin valid
      BY <2>6, <3>2
    <3>5. \A f, g \in 0 .. n - 1 : info[f].to = info[g].to => f = g
      BY <2>3, <3>2
    <3>6. {f + 1 : f \in DOMAIN info} = DOMAIN row.results
      BY <3>1, <3>3
    <3> QED BY <3>1, <3>2, <3>4, <3>5, <3>6 DEF LegendMatchesResult
  <2>8. CASE kernel.name # "bandwidth"
    <3>1. DOMAIN info = 0 .. 2 * n - 1 /\ DOMAIN row.results = 1 .. 2 * n
      BY <2>2, <2>4, <2>5, <2>8 DEF InfoOfThreads, RowOf, LatencyInfo, LatencyRow
    <3>2. ASSUME NEW f \in 0 .. 2 * n - 1
          PROVE  /\ f % n \in 0 .. n - 1
                 /\ info[f].unit = (IF f < n THEN "cycles" ELSE "ns")
                 /\ info[f].to = cpu_bind[f % n] /\ info[f].outlier_direction_upwards = 1
                 /\ row.results[f + 1] = IF f % n \in valid
                                         THEN Result(IF f < n THEN "cycles" ELSE "ns", f % n)
                                         ELSE INVALID
      <4>1. f + 1 \in 1 .. 2 * n /\ f + 1 - 1 = f /\ (f + 1 <= n <=> f < n)
        OBVIOUS
      <4>2. f % n \in 0 .. n - 1
        BY <2>2
      <4>3. info[f] = Legend(IF f < n THEN "cycles" ELSE "ns", cpu_bind[f % n], 1)
        BY <2>2, <2>5, <2>8 DEF InfoOfThreads, LatencyInfo
      <4>4. row.results[f + 1] = IF f % n \notin valid THEN INVALID
                                 ELSE Result(IF f < n THEN "cycles" ELSE "ns", f % n)
        BY <2>2, <2>4, <2>8, <4>1 DEF RowOf, LatencyRow
      <4> QED BY <4>2, <4>3, <4>4 DEF Legend
    <3>3. {f + 1 : f \in 0 .. 2 * n - 1} = 1 .. 2 * n
      <4>1. \A k \in 1 .. 2 * n : k - 1 \in 0 .. 2 * n - 1 /\ k = (k - 1) + 1
        OBVIOUS
      <4> QED BY <4>1
    <3>4. ASSUME NEW f \in 0 .. 2 * n - 1
          PROVE  /\ row.results[f + 1] # INVALID =>
                      row.results[f + 1].unit = info[f].unit /\ row.results[f + 1].thread = f % n
                 /\ row.results[f + 1] = INVALID <=> f % n \notin valid
      <4>1. PICK k \in 0 .. n - 1 : k = f % n
        BY <3>2
      <4>2. PICK u \in {"GB/s", "cycles", "ns"} : u = IF f < n THEN "cycles" ELSE "ns"
        OBVIOUS
      <4>3. row.results[f + 1] = (IF k \in valid THEN Result(u, k) ELSE INVALID) /\ info[f].unit = u
        BY <3>2, <4>1, <4>2
      <4> QED BY <2>6, <4>1, <4>3
    <3>5. \A f, g \in 0 .. 2 * n - 1 : info[f].to = info[g].to => f % n = g % n
      BY <2>3, <3>2
    <3>6. {f + 1 : f \in DOMAIN info} = DOMAIN row.results
      BY <3>1, <3>3
    <3>7. \A f \in 0 .. 2 * n - 1 :
            info[f].outlier_direction_upwards = IF info[f].unit = "GB/s" THEN 0 ELSE 1
      BY <3>2
    <3>8. \A f \in 0 .. 2 * n - 1 : row.results[f + 1] # INVALID =>
            cpu_bind[row.results[f + 1].thread] = info[f].to
      BY <3>2, <3>4
    <3>9. \A f, g \in 0 .. 2 * n - 1 : info[f].to = info[g].to =>
            (row.results[f + 1] = INVALID <=> row.results[g + 1] = INVALID)
      BY <3>4, <3>5
    <3> QED BY <3>1, <3>4, <3>6, <3>7, <3>8, <3>9 DEF LegendMatchesResult
  <2> QED BY <2>7, <2>8
<1> QED BY <1>1, InvariantC, PTL

\* The sizes are found as module ProblemSizes says: what bi_getinfo(), bi_init() and
\* bi_entry() do besides leaves them alone.  So what is proved there of SpecSizes (module
\* PermutationProofs) is true of the whole.
THEOREM ConfigImplementsSizes == SpecConfig => SpecSizes
<1>1. InitConfig => source \in Sources /\ InitSizes
  BY ConfigurationAssumption DEF InitConfig
<1>2. [NextConfig]_configVars => [FindSizes]_allSizes
  <2> SUFFICES ASSUME NextConfig \/ UNCHANGED configVars, ~FindSizes PROVE UNCHANGED allSizes
    OBVIOUS
  <2>1. CASE UNCHANGED configVars
    BY Zenon, <2>1 DEF configVars
  <2>2. CASE Sizes
    BY Zenon, <2>2 DEF Sizes
  <2>3. CASE ThreadLists
    BY Zenon, <2>3 DEF ThreadLists
  <2>4. CASE Settings
    BY SMT, <2>4 DEF Settings
  <2>5. CASE Errors
    BY Zenon, <2>5 DEF Errors
  <2>6. CASE GetInfo
    BY Zenon, <2>6 DEF GetInfo
  <2>7. CASE InitKernel
    BY Zenon, <2>7 DEF InitKernel
  <2>8. CASE NoClock
    BY SMT, <2>8 DEF NoClock, allSizes
  <2>9. CASE Entry
    BY Zenon, <2>9 DEF Entry
  <2>10. CASE Ended
    BY Zenon, <2>10 DEF Ended
  <2> QED BY <2>1, <2>2, <2>3, <2>4, <2>5, <2>6, <2>7, <2>8, <2>9, <2>10 DEF NextConfig
<1> QED BY <1>1, <1>2, PTL DEF SpecConfig, SpecSizes
------------------------------------------------------------------------------
(***************************************************************************)
(* The list parser.  The pieces of a text are followed from character to   *)
(* character: Stands says how far the piece is that a place is in.  The    *)
(* parser is in front of a piece or behind one, and what it has read until *)
(* then is what the pieces before mean: ReadInv.                           *)
(***************************************************************************)
\* The text of the settings is a list of numbers.
LEMMA TextType == source \in Sources => text \in Seq(Int)
<1> SUFFICES ASSUME source \in Sources PROVE source.list \in Seq(Int)
  BY DEF text
<1>1. CASE source \in [list : Seq(Nat \cup Characters), MIN : {0}, MAX : {0}, STEPS : {0}]
  <2>1. source.list \in Seq(Nat \cup Characters)
    BY <1>1
  <2>2. Nat \cup Characters \subseteq Int
    BY DEF Characters, DASH, SLASH, COMMA, BLANK, DOT, LETTER
  <2>3. PICK A, l : A = Nat \cup Characters /\ l = source.list
    OBVIOUS
  <2>4. l \in Seq(A) /\ \A x \in A : x \in Int
    BY <2>1, <2>2, <2>3
  <2>5. Len(l) \in Nat /\ l \in [1 .. Len(l) -> Int]
    <3>1. Len(l) \in Nat /\ l \in [1 .. Len(l) -> A]
      BY <2>4
    <3>2. l = [k \in 1 .. Len(l) |-> l[k]] /\ \A k \in 1 .. Len(l) : l[k] \in A
      BY <3>1
    <3>3. \A k \in 1 .. Len(l) : l[k] \in Int
      BY <2>4, <3>2
    <3>4. [k \in 1 .. Len(l) |-> l[k]] \in [1 .. Len(l) -> Int]
      BY <3>3, Zenon
    <3> QED BY <3>1, <3>2, <3>4, Zenon
  <2> QED BY <2>3, <2>5, SequenceOf
<1>2. CASE source \in [list : {<<>>}, MIN : Nat \ {0}, MAX : Nat \ {0}, STEPS : (Nat \ {0}) \cup {Missing}]
  <2>1. source.list = <<>>
    BY <1>2, Zenon
  <2>2. <<>> \in Seq(Int)
    OBVIOUS
  <2> QED BY <2>1, <2>2, Zenon
<1> QED BY <1>1, <1>2 DEF Sources

\* The pieces a text has up to every place.
Texts == Seq(Seq(Int)) \ {<<>>}
NextPieces(q, c) ==
  IF c = BLANK THEN q
  ELSE IF c = COMMA THEN Append(q, <<>>)
  ELSE [q EXCEPT ![Len(q)] = Append(@, c)]
ArePieces(P, s) ==
  /\ P[0] = << <<>> >>
  /\ \A k \in 1 .. Len(s) : P[k] = NextPieces(P[k - 1], s[k])
HasPieces(s) ==
  \E P \in [0 .. Len(s) -> Texts] : ArePieces(P, s) /\ Pieces(s) = P[Len(s)]

LEMMA NextIsText ==
  ASSUME NEW q \in Texts, NEW c \in Int
  PROVE  /\ NextPieces(q, c) \in Texts
         /\ c = BLANK => NextPieces(q, c) = q
         /\ c = COMMA => /\ Len(NextPieces(q, c)) = Len(q) + 1
                         /\ NextPieces(q, c)[Len(q) + 1] = <<>>
                         /\ \A i \in 1 .. Len(q) : NextPieces(q, c)[i] = q[i]
         /\ c \notin {BLANK, COMMA} => /\ Len(NextPieces(q, c)) = Len(q)
                                       /\ NextPieces(q, c)[Len(q)] = Append(q[Len(q)], c)
                                       /\ \A i \in 1 .. Len(q) - 1 : NextPieces(q, c)[i] = q[i]
<1>1. PICK A : A = Seq(Int)
  OBVIOUS
<1>2. q \in Seq(A) /\ q # <<>>
  BY <1>1 DEF Texts
<1>3. PICK l \in Nat \ {0} : l = Len(q)
  BY <1>2
<1>4. PICK r : r = NextPieces(q, c)
  OBVIOUS
<1>5. CASE c = BLANK
  BY <1>5 DEF NextPieces, BLANK, COMMA
<1>6. CASE c = COMMA
  <2>1. PICK e \in A : e = <<>>
    <3>1. <<>> \in A
      BY <1>1
    <3> QED BY <3>1
  <2>2. r = Append(q, e)
    BY <1>4, <1>6, <2>1 DEF NextPieces, BLANK, COMMA
  <2>3. r \in Seq(A) /\ Len(r) = l + 1 /\ r[l + 1] = e /\ \A i \in 1 .. l : r[i] = q[i]
    BY <1>2, <1>3, <2>2, AppendProperties
  <2>4. r # <<>>
    <3>1. Len(<<>>) = 0
      OBVIOUS
    <3> QED BY <1>3, <2>3, <3>1
  <2> QED BY <1>1, <1>3, <1>4, <1>6, <2>1, <2>3, <2>4 DEF Texts, BLANK, COMMA
<1>7. CASE c \notin {BLANK, COMMA}
  <2>1. PICK x \in A : x = q[l]
    BY <1>2, <1>3
  <2>2. PICK y \in A : y = Append(x, c)
    <3>1. Append(x, c) \in A
      BY <1>1, AppendProperties
    <3> QED BY <3>1
  <2>3. r = [q EXCEPT ![l] = y]
    BY <1>3, <1>4, <1>7, <2>1, <2>2 DEF NextPieces
  <2>4. r \in Seq(A) /\ Len(r) = l /\ r[l] = y /\ \A i \in 1 .. l - 1 : r[i] = q[i]
    BY <1>2, <1>3, <2>3
  <2>5. r # <<>>
    <3>1. Len(<<>>) = 0
      OBVIOUS
    <3> QED BY <1>3, <2>4, <3>1
  <2> QED BY <1>1, <1>3, <1>4, <1>7, <2>1, <2>2, <2>4, <2>5 DEF Texts
<1> QED BY <1>5, <1>6, <1>7

LEMMA PiecesOfText ==
  ASSUME NEW s \in Seq(Int)
  PROVE  HasPieces(s)
<1>1. PICK m \in Nat : m = Len(s)
  OBVIOUS
<1> DEFINE Body(f) == [k \in 0 .. m |-> IF k = 0 THEN << <<>> >> ELSE NextPieces(f[k - 1], s[k])]
           all == CHOOSE f : f = Body(f)
<1>2. Pieces(s) = all[m]
  BY <1>1 DEF Pieces, NextPieces
<1>3. PICK b \in Texts : b = << <<>> >>
  <2>1. PICK e \in Seq(Int) : e = <<>>
    <3>1. <<>> \in Seq(Int)
      OBVIOUS
    <3> QED BY <3>1
  <2>2. <<e>> \in Seq(Seq(Int)) /\ <<e>> # <<>>
    OBVIOUS
  <2> QED BY <2>1, <2>2 DEF Texts
<1>4. ASSUME NEW k \in 1 .. m, NEW x \in Texts PROVE NextPieces(x, s[k]) \in Texts
  <2>1. s[k] \in Int
    BY <1>1
  <2> QED BY <2>1, NextIsText
<1>5. PICK G \in [1 .. m -> [Texts -> Texts]] :
        \A k \in 1 .. m : \A x \in Texts : G[k][x] = NextPieces(x, s[k])
  <2> DEFINE G == [k \in 1 .. m |-> [x \in Texts |-> NextPieces(x, s[k])]]
  <2>1. /\ G \in [1 .. m -> [Texts -> Texts]]
        /\ \A k \in 1 .. m : \A x \in Texts : G[k][x] = NextPieces(x, s[k])
    BY <1>4
  <2> HIDE DEF G
  <2> QED BY <2>1
<1>6. PICK f : f \in [0 .. m -> Texts] /\ f[0] = b /\ \A k \in 1 .. m : f[k] = G[k][f[k - 1]]
  <2>1. \E f : Follows(f, m, Texts, b, G)
    BY <1>1, <1>3, <1>5, Recursion
  <2> QED BY <2>1 DEF Follows
<1>7. \A k \in 1 .. m : k - 1 \in 0 .. m /\ k \in 0 .. m /\ k # 0
  OBVIOUS
<1>8. \A k \in 1 .. m : f[k] = NextPieces(f[k - 1], s[k])
  BY <1>5, <1>6, <1>7
<1>9. f = Body(f)
  <2>1. \A k \in 0 .. m : k = 0 \/ k \in 1 .. m
    OBVIOUS
  <2>2. \A k \in 0 .. m : f[k] = Body(f)[k]
    BY <1>3, <1>6, <1>8, <2>1
  <2>3. f = [k \in 0 .. m |-> f[k]]
    BY <1>6
  <2> QED BY <2>2, <2>3
<1>10. all = Body(all)
  BY <1>9
<1> HIDE DEF all
<1>11. all[0] = b /\ \A k \in 1 .. m : all[k] = NextPieces(all[k - 1], s[k])
  BY SMTT(30), <1>3, <1>7, <1>10
<1>12. \A k \in 0 .. m : all[k] \in Texts
  <2>1. \A k \in 1 .. m : all[k - 1] \in Texts => all[k] \in Texts
    BY <1>4, <1>11
  <2> QED BY <1>1, <1>3, <1>11, <2>1, StaysIn
<1>13. all \in [0 .. m -> Texts]
  <2>1. all = [k \in 0 .. m |-> all[k]]
    <3>1. DOMAIN all = 0 .. m
      BY <1>10
    <3> QED BY <1>10, <3>1
  <2> QED BY <1>12, <2>1
<1>14. ArePieces(all, s)
  BY <1>1, <1>3, <1>11 DEF ArePieces
<1> QED BY <1>1, <1>2, <1>13, <1>14 DEF HasPieces

\* The pieces up to a place are begun by those up to a place before.
Begins(q, r) ==
  /\ Len(q) <= Len(r)
  /\ \A i \in 1 .. Len(q) - 1 : r[i] = q[i]
  /\ Len(q[Len(q)]) <= Len(r[Len(q)])
  /\ \A i \in 1 .. Len(q[Len(q)]) : r[Len(q)][i] = q[Len(q)][i]

LEMMA BeginsNext ==
  ASSUME NEW q \in Texts, NEW r \in Texts, NEW c \in Int, Begins(q, r)
  PROVE  Begins(q, NextPieces(r, c))
<1>1. PICK A : A = Seq(Int)
  OBVIOUS
<1>2. PICK l \in Nat \ {0}, m \in Nat \ {0} : l = Len(q) /\ m = Len(r) /\ q \in Seq(A) /\ r \in Seq(A)
  BY <1>1 DEF Texts
<1>3. PICK x \in A, y \in A : x = q[l] /\ y = r[l]
  <2>1. l \in 1 .. Len(q) /\ l \in 1 .. Len(r)
    BY <1>2 DEF Begins
  <2> QED BY <1>2, <2>1
<1>4. PICK u \in Nat, v \in Nat : u = Len(x) /\ v = Len(y)
  BY <1>1
<1>5. /\ l <= m /\ \A i \in 1 .. l - 1 : r[i] = q[i]
      /\ u <= v /\ \A i \in 1 .. u : y[i] = x[i]
  BY <1>2, <1>3, <1>4 DEF Begins
<1>6. PICK n : n = NextPieces(r, c)
  OBVIOUS
<1>7. n[l] = y /\ Len(n) >= m /\ (\A i \in 1 .. l - 1 : n[i] = r[i]) => Begins(q, n)
  BY <1>2, <1>3, <1>4, <1>5 DEF Begins
<1>8. CASE c \in {BLANK, COMMA} \/ l # m
  <2>1. n[l] = y /\ Len(n) >= m /\ \A i \in 1 .. l - 1 : n[i] = r[i]
    <3>1. CASE c = BLANK
      BY <1>2, <1>3, <1>6, <3>1, NextIsText
    <3>2. CASE c = COMMA
      <4>1. Len(n) = m + 1 /\ \A i \in 1 .. m : n[i] = r[i]
        BY <1>2, <1>6, <3>2, NextIsText
      <4>2. l \in 1 .. m /\ \A i \in 1 .. l - 1 : i \in 1 .. m
        BY <1>2, <1>5
      <4>3. n[l] = y /\ \A i \in 1 .. l - 1 : n[i] = r[i]
        BY <1>3, <4>1, <4>2
      <4> QED BY <1>2, <4>1, <4>3
    <3>3. CASE c \notin {BLANK, COMMA}
      <4>1. Len(n) = m /\ \A i \in 1 .. m - 1 : n[i] = r[i]
        BY <1>2, <1>6, <3>3, NextIsText
      <4>2. l # m
        BY <1>8, <3>3
      <4> QED BY <1>2, <1>3, <1>5, <4>1, <4>2
    <3> QED BY <3>1, <3>2, <3>3
  <2>2. Begins(q, n)
    BY <1>7, <2>1
  <2> QED BY <1>6, <2>2
<1>9. CASE c \notin {BLANK, COMMA} /\ l = m
  <2>1. Len(n) = m /\ n[m] = Append(y, c) /\ \A i \in 1 .. m - 1 : n[i] = r[i]
    BY <1>2, <1>3, <1>6, <1>9, NextIsText
  <2>2. PICK z : z = Append(y, c)
    OBVIOUS
  <2>3. Len(z) = v + 1 /\ \A i \in 1 .. v : z[i] = y[i]
    BY <1>1, <1>4, <2>2, AppendProperties
  <2>4. u <= Len(z) /\ \A i \in 1 .. u : z[i] = x[i]
    BY <1>4, <1>5, <2>3
  <2>5. Begins(q, n)
    <3>1. q[Len(q)] = x /\ n[Len(q)] = z /\ Len(q) = l /\ Len(n) = l
      BY <1>2, <1>3, <1>9, <2>1, <2>2
    <3>2. \A i \in 1 .. l - 1 : n[i] = q[i]
      BY <1>5, <1>9, <2>1
    <3>3. Len(q) <= Len(n) /\ Len(x) <= Len(z)
      BY <1>2, <1>4, <2>4, <3>1
    <3> QED BY <1>4, <2>4, <3>1, <3>2, <3>3 DEF Begins
  <2> QED BY <1>6, <2>5
<1> QED BY <1>8, <1>9

LEMMA PiecesBegin ==
  ASSUME NEW s \in Seq(Int), NEW P \in [0 .. Len(s) -> Texts], ArePieces(P, s), NEW h \in 0 .. Len(s)
  PROVE  Begins(P[h], P[Len(s)])
<1>1. PICK m \in Nat : m = Len(s)
  OBVIOUS
<1>2. P \in [0 .. m -> Texts] /\ h \in 0 .. m
  BY <1>1
<1> DEFINE T == {k \in 0 .. m : k >= h => Begins(P[h], P[k])}
<1>3. ASSUME NEW k \in 0 .. m, k = h PROVE k \in T
  <2>1. P[h] \in Texts
    BY <1>2
  <2>2. PICK q \in Texts : q = P[h]
    BY <2>1
  <2>3. Begins(q, q)
    <3>1. q \in Seq(Seq(Int)) /\ Len(q) \in Nat
      BY DEF Texts
    <3>2. q[Len(q)] \in Seq(Int)
      <4>1. Len(q) # 0
        BY <3>1 DEF Texts
      <4> QED BY <3>1, <4>1
    <3> QED BY <3>1, <3>2 DEF Begins
  <2> QED BY <1>3, <2>2, <2>3
<1>4. 0 \in T
  <2>1. 0 \in 0 .. m
    BY <1>1
  <2>2. CASE h = 0
    BY <1>3, <2>1, <2>2
  <2>3. CASE h # 0
    BY <1>2, <2>1, <2>3
  <2> QED BY <2>2, <2>3
<1>5. ASSUME NEW k \in 1 .. m, k - 1 \in T PROVE k \in T
  <2>1. k \in 0 .. m /\ k - 1 \in 0 .. m
    OBVIOUS
  <2>2. CASE k = h
    BY <1>3, <2>1, <2>2
  <2>3. CASE k < h
    BY <1>2, <2>1, <2>3
  <2>4. CASE k > h
    <3>1. Begins(P[h], P[k - 1])
      BY <1>2, <1>5, <2>4
    <3>2. P[h] \in Texts /\ P[k - 1] \in Texts /\ s[k] \in Int
      BY SMTT(30), <1>1, <1>2, <2>1
    <3>3. Begins(P[h], NextPieces(P[k - 1], s[k]))
      BY <3>1, <3>2, BeginsNext
    <3>4. P[k] = NextPieces(P[k - 1], s[k])
      BY <1>1 DEF ArePieces
    <3> QED BY <2>1, <3>3, <3>4
  <2> QED BY <1>2, <2>2, <2>3, <2>4
<1> HIDE DEF T
<1>6. m \in T
  <2>1. \A k \in 0 .. m : k \in T
    BY <1>1, <1>4, <1>5, Induction
  <2>2. m \in 0 .. m
    BY <1>1
  <2> QED BY <2>1, <2>2
<1> QED BY <1>1, <1>2, <1>6 DEF T

\* In front of a place there are l pieces, the last of which begins with p.
Stands(s, i, l, p) ==
  \E P \in [0 .. Len(s) -> Texts] :
    /\ ArePieces(P, s) /\ Pieces(s) = P[Len(s)]
    /\ Len(P[i - 1]) = l /\ P[i - 1][l] = p

LEMMA StandsFirst ==
  ASSUME NEW s \in Seq(Int)
  PROVE  Stands(s, 1, 1, <<>>)
<1>1. PICK P \in [0 .. Len(s) -> Texts] : ArePieces(P, s) /\ Pieces(s) = P[Len(s)]
  BY PiecesOfText DEF HasPieces
<1>2. PICK e : e = <<>>
  OBVIOUS
<1>3. P[0] = <<e>>
  BY <1>1, <1>2 DEF ArePieces
<1>4. Len(P[0]) = 1 /\ P[0][1] = e /\ 1 - 1 = 0
  BY <1>3
<1> QED BY <1>1, <1>2, <1>4 DEF Stands

PieceBegun(s, l, p) ==
  /\ l \in 1 .. Len(Pieces(s)) /\ p \in Seq(Int) /\ Pieces(s)[l] \in Seq(Int)
  /\ Len(p) <= Len(Pieces(s)[l]) /\ \A k \in 1 .. Len(p) : Pieces(s)[l][k] = p[k]
PieceGoesOn(s, i, l, p) ==
  /\ i = Len(s) + 1 => l = Len(Pieces(s)) /\ Pieces(s)[l] = p
  /\ i # Len(s) + 1 /\ s[i] = BLANK => Stands(s, i + 1, l, p)
  /\ i # Len(s) + 1 /\ s[i] = COMMA =>
       Pieces(s)[l] = p /\ l + 1 \in 1 .. Len(Pieces(s)) /\ Stands(s, i + 1, l + 1, <<>>)
  /\ i # Len(s) + 1 /\ s[i] \notin {BLANK, COMMA} =>
       /\ Stands(s, i + 1, l, Append(p, s[i]))
       /\ Len(Pieces(s)[l]) > Len(p) /\ Pieces(s)[l][Len(p) + 1] = s[i]

LEMMA StandsBegun ==
  ASSUME NEW s \in Seq(Int), NEW i \in 1 .. Len(s) + 1, NEW l, NEW p, Stands(s, i, l, p)
  PROVE  PieceBegun(s, l, p)
<1>1. PICK m \in Nat : m = Len(s)
  OBVIOUS
<1>2. PICK P \in [0 .. m -> Texts] :
        /\ ArePieces(P, s) /\ Pieces(s) = P[m]
        /\ Len(P[i - 1]) = l /\ P[i - 1][l] = p
  BY <1>1 DEF Stands
<1>3. i - 1 \in 0 .. m /\ m \in 0 .. m
  BY <1>1
<1>4. PICK q \in Texts, r \in Texts : q = P[i - 1] /\ r = P[m]
  BY <1>2, <1>3
<1>5. Begins(q, r)
  BY <1>1, <1>2, <1>3, <1>4, PiecesBegin
<1>6. PICK A : A = Seq(Int)
  OBVIOUS
<1>7. q \in Seq(A) /\ r \in Seq(A) /\ Len(q) # 0
  BY <1>4, <1>6 DEF Texts
<1>8. PICK k \in Nat \ {0}, n \in Nat : k = Len(q) /\ n = Len(r) /\ k = l
  BY <1>2, <1>4, <1>7
<1>9. k \in 1 .. n
  BY <1>5, <1>8 DEF Begins
<1>10. q[k] \in A /\ r[k] \in A
  <2>1. k \in 1 .. Len(q) /\ k \in 1 .. Len(r)
    BY <1>8, <1>9
  <2> QED BY <1>7, <2>1
<1>11. r = Pieces(s) /\ q[k] = p /\ k = l
  BY <1>2, <1>4, <1>8
<1>12. Len(q[k]) <= Len(r[k]) /\ \A h \in 1 .. Len(q[k]) : r[k][h] = q[k][h]
  BY <1>5, <1>8 DEF Begins
<1> QED BY <1>6, <1>8, <1>9, <1>10, <1>11, <1>12 DEF PieceBegun

LEMMA StandsNext ==
  ASSUME NEW s \in Seq(Int), NEW i \in 1 .. Len(s) + 1, NEW l, NEW p, Stands(s, i, l, p)
  PROVE  PieceGoesOn(s, i, l, p)
<1>1. PICK m \in Nat : m = Len(s)
  OBVIOUS
<1>2. PICK P \in [0 .. m -> Texts] :
        /\ ArePieces(P, s) /\ Pieces(s) = P[m]
        /\ Len(P[i - 1]) = l /\ P[i - 1][l] = p
  BY <1>1 DEF Stands
<1>3. i - 1 \in 0 .. m /\ m \in 0 .. m
  BY <1>1
<1>4. PICK q \in Texts : q = P[i - 1]
  BY <1>2, <1>3
<1>5. PICK k \in Nat \ {0} : k = Len(q) /\ k = l /\ q[k] = p
  <2>1. PICK A : A = Seq(Int) /\ q \in Seq(A) /\ q # <<>>
    BY <1>4 DEF Texts
  <2>2. Len(q) \in Nat \ {0}
    BY <2>1
  <2> QED BY <1>2, <1>4, <2>2
<1>6. i = m + 1 => l = Len(Pieces(s)) /\ Pieces(s)[l] = p
  <2> SUFFICES ASSUME i = m + 1 PROVE l = Len(Pieces(s)) /\ Pieces(s)[l] = p
    OBVIOUS
  <2>1. i - 1 = m
    BY <1>1
  <2> QED BY <1>2, <2>1
<1>7. ASSUME i # m + 1
      PROVE  /\ s[i] = BLANK => Stands(s, i + 1, l, p)
             /\ s[i] = COMMA =>
                  Pieces(s)[l] = p /\ l + 1 \in 1 .. Len(Pieces(s)) /\ Stands(s, i + 1, l + 1, <<>>)
             /\ s[i] \notin {BLANK, COMMA} =>
                  /\ Stands(s, i + 1, l, Append(p, s[i]))
                  /\ Len(Pieces(s)[l]) > Len(p) /\ Pieces(s)[l][Len(p) + 1] = s[i]
  <2>1. i \in 1 .. m /\ i + 1 \in 1 .. m + 1 /\ (i + 1) - 1 = i
    BY <1>1, <1>7
  <2>2. PICK c \in Int : c = s[i]
    BY <1>1, <2>1
  <2>3. PICK n \in Texts : n = P[i] /\ n = NextPieces(q, c)
    <3>1. P[i] = NextPieces(P[i - 1], s[i])
      BY <1>1, <1>2, <2>1 DEF ArePieces
    <3>2. P[i] \in Texts
      BY <1>2, <2>1
    <3> QED BY <1>4, <2>2, <3>1, <3>2
  <2>4. ASSUME NEW a, NEW b, Len(n) = a, n[a] = b PROVE Stands(s, i + 1, a, b)
    BY <1>1, <1>2, <2>1, <2>3, <2>4 DEF Stands
  <2>5. CASE c = BLANK
    <3>1. n = q
      BY <2>3, <2>5, NextIsText
    <3>2. Stands(s, i + 1, l, p)
      BY <1>5, <2>4, <3>1
    <3> QED BY <2>2, <2>5, <3>2 DEF BLANK, COMMA
  <2>6. CASE c = COMMA
    <3>1. Len(n) = k + 1 /\ n[k + 1] = <<>> /\ \A h \in 1 .. k : n[h] = q[h]
      <4>1. Len(n) = Len(q) + 1 /\ n[Len(q) + 1] = <<>> /\ \A h \in 1 .. Len(q) : n[h] = q[h]
        BY <1>4, <2>2, <2>3, <2>6, NextIsText
      <4> QED BY <1>5, <4>1
    <3>2. Stands(s, i + 1, l + 1, <<>>)
      BY <1>5, <2>4, <3>1
    <3>3. PieceBegun(s, l + 1, <<>>)
      BY <1>1, <2>1, <3>2, StandsBegun
    <3>4. l + 1 \in 1 .. Len(Pieces(s))
      BY <3>3 DEF PieceBegun
    <3>5. PICK r : r = P[m] /\ Begins(n, r)
      <4>1. Begins(P[i], P[m])
        <5>1. i \in 0 .. m
          BY <2>1
        <5> QED BY <1>1, <1>2, <5>1, PiecesBegin
      <4> QED BY <2>3, <4>1
    <3>6. r[k] = n[k]
      <4>1. k \in 1 .. Len(n) - 1
        BY <1>5, <3>1
      <4> QED BY <3>5, <4>1 DEF Begins
    <3>7. n[k] = p
      BY <1>5, <3>1
    <3>8. Pieces(s)[l] = p
      BY <1>2, <1>5, <3>5, <3>6, <3>7
    <3> QED BY <2>2, <2>6, <3>2, <3>4, <3>8 DEF BLANK, COMMA
  <2>7. CASE c \notin {BLANK, COMMA}
    <3>1. Len(n) = k /\ n[k] = Append(q[k], c)
      BY ZenonT(30), <1>5, <2>3, <2>7, NextIsText
    <3>2. PICK z : z = Append(p, c)
      OBVIOUS
    <3>3. Stands(s, i + 1, l, z)
      BY <1>5, <2>4, <3>1, <3>2
    <3>4. PieceBegun(s, l, z)
      BY <1>1, <2>1, <3>3, StandsBegun
    <3>5. p \in Seq(Int)
      <4>1. PieceBegun(s, l, p)
        BY StandsBegun
      <4> QED BY <4>1 DEF PieceBegun
    <3>6. PICK u \in Nat : u = Len(p)
      BY <3>5
    <3>7. Len(z) = u + 1 /\ z[u + 1] = c
      BY <3>2, <3>5, <3>6, AppendProperties
    <3>8. PICK f \in Seq(Int) : f = Pieces(s)[l] /\ u + 1 <= Len(f) /\ f[u + 1] = c
      <4>1. u + 1 \in 1 .. Len(z)
        BY <3>7
      <4> QED BY <3>4, <3>7, <4>1 DEF PieceBegun
    <3>9. Len(f) > u
      BY <3>8
    <3> QED BY <2>2, <2>7, <3>2, <3>3, <3>6, <3>8, <3>9
  <2> QED BY <2>2, <2>5, <2>6, <2>7
<1> QED BY <1>1, <1>6, <1>7 DEF PieceGoesOn

\* Blanks are passed over.
LEMMA SkipsBlanks ==
  ASSUME text \in Seq(Int), NEW i \in 1 .. Len(text) + 1, NEW l, NEW p, Stands(text, i, l, p)
  PROVE  /\ SkipBlanks(i) \in i .. Len(text) + 1 /\ At(SkipBlanks(i)) # BLANK
         /\ \A h \in i .. SkipBlanks(i) - 1 : text[h] = BLANK
         /\ Stands(text, SkipBlanks(i), l, p)
<1>1. PICK m \in Nat : m = Len(text)
  OBVIOUS
<1>2. PICK top : top = Max({i, m + 1})
  OBVIOUS
<1>3. top = m + 1
  <2>1. top = IF i >= m + 1 THEN i ELSE m + 1
    BY <1>1, <1>2, MaxOfTwo
  <2> QED BY <1>1, <2>1
<1>4. PICK U \in SUBSET (i .. m + 1) : /\ \A h \in i .. m + 1 : h \in U <=> At(h) # BLANK
                                       /\ SkipBlanks(i) = Min(U)
  <2> DEFINE U == {h \in i .. m + 1 : At(h) # BLANK}
  <2>1. SkipBlanks(i) = Min(U)
    BY <1>1, <1>2, <1>3 DEF SkipBlanks
  <2> QED BY <2>1
<1>5. m + 1 \in U
  <2>1. ~(m + 1 <= m) /\ m + 1 \in i .. m + 1
    BY <1>1
  <2>2. At(m + 1) # BLANK
    BY <1>1, <2>1 DEF At, END, BLANK
  <2> QED BY <1>4, <2>1, <2>2
<1>6. PICK n \in U : n = SkipBlanks(i) /\ \A h \in U : n <= h
  <2>1. U \in SUBSET Nat
    BY <1>1, <1>4
  <2>2. PICK n \in U : \A h \in U : n <= h
    BY <1>5, <2>1, LeastNumber
  <2>3. Min(U) \in U /\ \A h \in U : Min(U) <= h
    BY <2>2, Zenon DEF Min
  <2> QED BY <1>4, <2>3
<1>7. n \in i .. m + 1 /\ At(n) # BLANK
  BY <1>4, <1>6
<1>8. ASSUME NEW h \in i .. n - 1 PROVE text[h] = BLANK
  <2>1. h \in i .. m + 1 /\ h <= m /\ ~(n <= h)
    BY <1>1, <1>7
  <2>2. At(h) = BLANK
    BY <1>4, <1>6, <2>1
  <2> QED BY <1>1, <2>1, <2>2 DEF At
<1>9. Stands(text, n, l, p)
  <2> DEFINE T == {d \in 0 .. n - i : Stands(text, i + d, l, p)}
  <2>1. n - i \in Nat /\ i + 0 = i /\ i + (n - i) = n /\ n - i \in 0 .. n - i /\ 0 \in 0 .. n - i
    BY <1>1, <1>7
  <2>2. 0 \in T
    BY <2>1
  <2>3. ASSUME NEW d \in 1 .. n - i, d - 1 \in T PROVE d \in T
    <3>1. PICK h \in i .. n - 1 : h = i + (d - 1) /\ h + 1 = i + d /\ h \in 1 .. Len(text) + 1 /\ h # Len(text) + 1
      <4>1. i + (d - 1) \in i .. n - 1 /\ (i + (d - 1)) + 1 = i + d
        BY <1>1, <1>7
      <4>2. i + (d - 1) \in 1 .. Len(text) + 1 /\ i + (d - 1) # Len(text) + 1
        BY <1>1, <1>7, <4>1
      <4> QED BY <4>1, <4>2
    <3>2. Stands(text, h, l, p)
      BY <2>3, <3>1
    <3>3. PieceGoesOn(text, h, l, p)
      BY <3>1, <3>2, StandsNext
    <3>4. Stands(text, h + 1, l, p)
      BY <1>8, <3>1, <3>3 DEF PieceGoesOn
    <3>5. d \in 0 .. n - i
      BY <2>1
    <3> QED BY <3>1, <3>4, <3>5
  <2> HIDE DEF T
  <2>4. n - i \in T
    BY <2>1, <2>2, <2>3, Induction
  <2> QED BY <2>1, <2>4 DEF T
<1> QED BY <1>1, <1>6, <1>7, <1>8, <1>9

\* A text does not contain its end.
LEMMA TextGoesOn ==
  ASSUME source \in Sources, NEW i \in 1 .. Len(text)
  PROVE  text[i] # END /\ At(i) = text[i]
<1>1. At(i) = text[i]
  <2>1. i <= Len(text)
    BY TextType
  <2> QED BY <2>1 DEF At
<1>2. CASE source \in [list : Seq(Nat \cup Characters), MIN : {0}, MAX : {0}, STEPS : {0}]
  <2>1. PICK A, x : A = Nat \cup Characters /\ x = source.list
    OBVIOUS
  <2>2. x \in Seq(A) /\ i \in 1 .. Len(x)
    BY <1>2, <2>1 DEF text
  <2>3. x[i] \in A
    BY <2>2
  <2> QED BY <1>1, <2>1, <2>3 DEF text, Characters, END, DASH, SLASH, COMMA, BLANK, DOT, LETTER
<1>3. CASE source \in [list : {<<>>}, MIN : Nat \ {0}, MAX : Nat \ {0}, STEPS : (Nat \ {0}) \cup {Missing}]
  <2>1. source.list = <<>>
    BY <1>3, Zenon
  <2> QED BY <2>1 DEF text
<1> QED BY <1>1, <1>2, <1>3 DEF Sources

\* In front of a place n characters of the piece l have been read.
Within(i, l, n) ==
  /\ i \in 1 .. Len(text) + 1 /\ l \in 1 .. Len(Pieces(text))
  /\ n \in 0 .. Len(Pieces(text)[l]) /\ Len(Pieces(text)[l]) \in Nat
  /\ \E p : Stands(text, i, l, p) /\ Len(p) = n

LEMMA WithinIs ==
  ASSUME text \in Seq(Int), NEW i \in 1 .. Len(text) + 1, NEW l, NEW p, Stands(text, i, l, p)
  PROVE  Within(i, l, Len(p))
<1>1. PieceBegun(text, l, p)
  BY StandsBegun
<1>2. PICK f \in Seq(Int), q \in Seq(Int) : f = Pieces(text)[l] /\ q = p
  BY <1>1 DEF PieceBegun
<1>3. Len(q) \in 0 .. Len(f) /\ Len(f) \in Nat
  BY <1>1, <1>2 DEF PieceBegun
<1> QED BY <1>1, <1>2, <1>3 DEF PieceBegun, Within

\* What is read from there.
ReadsOn(i, l, n, f, d) ==
  /\ d \in i .. Len(text) + 1 /\ Within(d, l, n) /\ \A h \in i .. d - 1 : text[h] = BLANK
  /\ n < Len(f) => d \in 1 .. Len(text) /\ At(d) = f[n + 1] /\ Within(d + 1, l, n + 1)
  /\ n = Len(f) => /\ At(d) \in {COMMA, END}
                   /\ At(d) = COMMA => Within(d + 1, l + 1, 0)
                   /\ At(d) = END => l = Len(Pieces(text))

LEMMA ReadOn ==
  ASSUME source \in Sources, NEW i, NEW l, NEW n, Within(i, l, n)
  PROVE  ReadsOn(i, l, n, Pieces(text)[l], SkipBlanks(i))
<1>1. text \in Seq(Int)
  BY TextType
<1>2. PICK m \in Nat : m = Len(text)
  BY <1>1
<1>3. PICK p : Stands(text, i, l, p) /\ Len(p) = n
  BY DEF Within
<1>4. i \in 1 .. m + 1
  BY <1>2 DEF Within
<1>5. PICK d : d = SkipBlanks(i)
  OBVIOUS
<1>6. /\ d \in i .. m + 1 /\ At(d) # BLANK
      /\ \A h \in i .. d - 1 : text[h] = BLANK
      /\ Stands(text, d, l, p)
  BY <1>1, <1>2, <1>3, <1>4, <1>5, SkipsBlanks
<1>7. d \in 1 .. m + 1
  BY <1>4, <1>6
<1>8. PieceBegun(text, l, p) /\ PieceGoesOn(text, d, l, p)
  BY <1>1, <1>2, <1>6, <1>7, StandsBegun, StandsNext
<1>9. PICK f \in Seq(Int), q \in Seq(Int) : f = Pieces(text)[l] /\ q = p
  BY <1>8 DEF PieceBegun
<1>10. n \in Nat /\ n = Len(q) /\ n <= Len(f)
  BY <1>3, <1>8, <1>9 DEF PieceBegun
<1>11. Within(d, l, n)
  BY <1>1, <1>2, <1>3, <1>6, <1>7, WithinIs
<1>12. CASE d = m + 1
  <2>1. l = Len(Pieces(text)) /\ f = q
    BY <1>2, <1>8, <1>9, <1>12 DEF PieceGoesOn
  <2>2. At(d) = END
    <3>1. ~(d <= m)
      BY <1>2, <1>12
    <3> QED BY <1>2, <3>1 DEF At
  <2>3. ~(n < Len(f))
    BY <1>10, <2>1
  <2> QED BY <1>2, <1>5, <1>6, <1>9, <1>11, <2>1, <2>2, <2>3 DEF ReadsOn, END, COMMA
<1>13. CASE d # m + 1
  <2>1. d \in 1 .. m
    BY <1>7, <1>13
  <2>2. text[d] # END /\ At(d) = text[d] /\ text[d] \in Int /\ text[d] # BLANK
    BY <1>1, <1>2, <1>6, <2>1, TextGoesOn
  <2>3. d + 1 \in 1 .. m + 1
    BY <2>1
  <2>4. CASE text[d] = COMMA
    <3>1. f = q /\ Stands(text, d + 1, l + 1, <<>>)
      BY <1>2, <1>8, <1>9, <1>13, <2>4 DEF PieceGoesOn
    <3>2. Within(d + 1, l + 1, 0)
      <4>1. PICK e : e = <<>> /\ Len(e) = 0
        OBVIOUS
      <4>2. Within(d + 1, l + 1, Len(e))
        BY <1>1, <1>2, <2>3, <3>1, <4>1, WithinIs
      <4> QED BY <4>1, <4>2
    <3>3. ~(n < Len(f))
      BY <1>10, <3>1
    <3> QED BY <1>2, <1>5, <1>6, <1>9, <1>11, <2>2, <2>4, <3>2, <3>3 DEF ReadsOn
  <2>5. CASE text[d] # COMMA
    <3>1. Stands(text, d + 1, l, Append(p, text[d])) /\ Len(f) > Len(p) /\ f[Len(p) + 1] = text[d]
      BY <1>2, <1>8, <1>9, <1>13, <2>2, <2>5 DEF PieceGoesOn
    <3>2. PICK c, z : c \in Int /\ c = text[d] /\ z = Append(q, c)
      BY <2>2
    <3>3. Len(z) = n + 1
      BY <1>10, <3>2, AppendProperties
    <3>4. Within(d + 1, l, n + 1)
      <4>1. Stands(text, d + 1, l, z)
        BY <1>9, <3>1, <3>2
      <4>2. Within(d + 1, l, Len(z))
        BY <1>1, <1>2, <2>3, <4>1, WithinIs
      <4> QED BY <3>3, <4>2
    <3>5. n # Len(f) /\ f[n + 1] = At(d)
      BY <1>3, <1>10, <2>2, <3>1
    <3> QED BY <1>2, <1>5, <1>6, <1>9, <1>11, <2>1, <3>4, <3>5 DEF ReadsOn
  <2> QED BY <2>4, <2>5
<1> QED BY <1>12, <1>13

\* One blank is passed over.
LEMMA PassBlank ==
  ASSUME source \in Sources, NEW i, NEW l, NEW n, Within(i, l, n), At(i) = BLANK
  PROVE  Within(i + 1, l, n)
<1>1. text \in Seq(Int)
  BY TextType
<1>2. PICK m \in Nat : m = Len(text)
  BY <1>1
<1>3. PICK p : Stands(text, i, l, p) /\ Len(p) = n
  BY DEF Within
<1>4. i \in 1 .. m + 1
  BY <1>2 DEF Within
<1>5. i # m + 1
  <2> SUFFICES ASSUME i = m + 1 PROVE FALSE
    OBVIOUS
  <2>1. ~(i <= m)
    OBVIOUS
  <2> QED BY <1>2, <2>1 DEF At, END, BLANK
<1>6. i \in 1 .. m /\ i + 1 \in 1 .. m + 1
  BY <1>4, <1>5
<1>7. text[i] = BLANK
  BY <1>2, <1>6, TextGoesOn
<1>8. PieceGoesOn(text, i, l, p)
  BY <1>1, <1>2, <1>3, <1>4, StandsNext
<1>9. Stands(text, i + 1, l, p)
  BY <1>2, <1>5, <1>7, <1>8 DEF PieceGoesOn
<1> QED BY <1>1, <1>2, <1>3, <1>6, <1>9, WithinIs

\* Where no blank is, none is passed over.
LEMMA NoBlankHere ==
  ASSUME source \in Sources, NEW i \in 1 .. Len(text) + 1, At(i) # BLANK
  PROVE  SkipBlanks(i) = i
<1>1. text \in Seq(Int)
  BY TextType
<1>2. PICK m \in Nat : m = Len(text)
  BY <1>1
<1>3. PICK top : top = Max({i, m + 1})
  OBVIOUS
<1>4. top = m + 1
  <2>1. top = IF i >= m + 1 THEN i ELSE m + 1
    BY <1>2, <1>3, MaxOfTwo
  <2> QED BY <1>2, <2>1
<1>5. PICK U \in SUBSET (i .. m + 1) : i \in U /\ SkipBlanks(i) = Min(U)
  <2> DEFINE U == {w \in i .. m + 1 : At(w) # BLANK}
  <2>1. SkipBlanks(i) = Min(U)
    BY <1>2, <1>3, <1>4 DEF SkipBlanks
  <2>2. i \in i .. m + 1
    BY <1>2
  <2> QED BY <2>1, <2>2
<1>6. \A w \in U : i <= w
  BY <1>2, <1>5
<1>7. PICK x \in U : x = Min(U) /\ \A w \in U : x <= w
  <2>1. Min(U) \in U /\ \A w \in U : Min(U) <= w
    BY <1>5, <1>6, Zenon DEF Min
  <2> QED BY <2>1
<1>8. x \in Int /\ x <= i /\ i <= x /\ i \in Int
  BY <1>2, <1>5, <1>6, <1>7
<1>9. x = i
  BY <1>8
<1> QED BY <1>5, <1>7, <1>9

\* The forms of a piece.
Formed(p) ==
  /\ Len(p) \in {1, 3, 5, 6} /\ p[1] \in Nat \ {0}
  /\ Len(p) # 1 => p[2] = DASH /\ p[3] \in Nat \ {0}
  /\ Len(p) \in {5, 6} => p[4] = SLASH
  /\ Len(p) = 5 => p[5] \in Nat \ {0}
  /\ Len(p) = 6 => p[5] = DASH /\ p[6] \in Nat \ {0}

LEMMA PieceForm ==
  ASSUME NEW p \in Seq(Int), IsPiece(p)
  PROVE  Formed(p)
<1>1. PICK n \in Nat : n = Len(p) /\ DOMAIN p = 1 .. n
  OBVIOUS
<1>2. \A k \in 1 .. n : p[k] \in Int /\ p[k] # 0
  <2>1. \A k \in 1 .. n : p[k] \in Range(p)
    BY <1>1, Zenon DEF Range
  <2>2. 0 \notin Range(p)
    BY DEF IsPiece
  <2>3. \A k \in 1 .. n : p[k] \in Int
    BY <1>1
  <2> QED BY <2>1, <2>2, <2>3, Zenon
<1>3. PICK f : f = Shape(p)
  OBVIOUS
<1>4. f = [k \in 1 .. n |-> IF p[k] >= 0 THEN 0 ELSE p[k]]
  BY <1>1, <1>3 DEF Shape, isdigit
<1>5. ASSUME NEW l \in Nat, NEW q, DOMAIN q = 1 .. l, f = q
      PROVE  n = l /\ \A k \in 1 .. l : q[k] = IF p[k] >= 0 THEN 0 ELSE p[k]
  <2>1. 1 .. n = 1 .. l
    BY <1>4, <1>5
  <2>2. n = l
    <3>1. n <= l
      <4>1. n # 0 => n \in 1 .. l
        BY <2>1
      <4> QED BY <4>1
    <3>2. l <= n
      <4>1. l # 0 => l \in 1 .. n
        BY <2>1
      <4> QED BY <4>1
    <3> QED BY <3>1, <3>2
  <2> QED BY <1>4, <1>5, <2>1, <2>2
<1>6. ASSUME NEW l \in Nat, DOMAIN f = 1 .. l
      PROVE  /\ Len(p) = l
             /\ \A k \in 1 .. l : /\ f[k] = 0 => p[k] \in Nat \ {0}
                                  /\ f[k] # 0 => p[k] = f[k]
  <2>1. n = l /\ \A k \in 1 .. l : f[k] = IF p[k] >= 0 THEN 0 ELSE p[k]
    BY <1>5, <1>6
  <2> QED BY <1>1, <1>2, <2>1
<1>7. f \in {<<0>>, <<0, DASH, 0>>, <<0, DASH, 0, SLASH, 0>>, <<0, DASH, 0, SLASH, DASH, 0>>}
  BY <1>3 DEF IsPiece, Shapes
<1>8. CASE f = <<0>>
  <2>1. PICK l \in Nat : l = 1 /\ DOMAIN f = 1 .. l
    BY <1>8
  <2>2. f[1] = 0
    BY <1>8
  <2>3. 1 \in 1 .. l
    BY <2>1
  <2>4. /\ Len(p) = l
        /\ \A k \in 1 .. l : /\ f[k] = 0 => p[k] \in Nat \ {0}
                             /\ f[k] # 0 => p[k] = f[k]
    BY <1>6, <2>1
  <2>5. p[1] \in Nat \ {0}
    BY <2>2, <2>3, <2>4 DEF DASH, SLASH
  <2> QED BY <2>1, <2>4, <2>5 DEF Formed
<1>9. CASE f = <<0, DASH, 0>>
  <2>1. PICK l \in Nat : l = 3 /\ DOMAIN f = 1 .. l
    BY <1>9
  <2>2. f[1] = 0 /\ f[2] = DASH /\ f[3] = 0
    BY <1>9
  <2>3. 1 \in 1 .. l /\ 2 \in 1 .. l /\ 3 \in 1 .. l
    BY <2>1
  <2>4. /\ Len(p) = l
        /\ \A k \in 1 .. l : /\ f[k] = 0 => p[k] \in Nat \ {0}
                             /\ f[k] # 0 => p[k] = f[k]
    BY <1>6, <2>1
  <2>5. p[1] \in Nat \ {0} /\ p[2] = DASH /\ p[3] \in Nat \ {0}
    BY <2>2, <2>3, <2>4 DEF DASH, SLASH
  <2> QED BY <2>1, <2>4, <2>5 DEF Formed
<1>10. CASE f = <<0, DASH, 0, SLASH, 0>>
  <2>1. PICK l \in Nat : l = 5 /\ DOMAIN f = 1 .. l
    BY <1>10
  <2>2. f[1] = 0 /\ f[2] = DASH /\ f[3] = 0 /\ f[4] = SLASH /\ f[5] = 0
    BY <1>10
  <2>3. 1 \in 1 .. l /\ 2 \in 1 .. l /\ 3 \in 1 .. l /\ 4 \in 1 .. l /\ 5 \in 1 .. l
    BY <2>1
  <2>4. /\ Len(p) = l
        /\ \A k \in 1 .. l : /\ f[k] = 0 => p[k] \in Nat \ {0}
                             /\ f[k] # 0 => p[k] = f[k]
    BY <1>6, <2>1
  <2>5. /\ p[1] \in Nat \ {0} /\ p[2] = DASH /\ p[3] \in Nat \ {0}
        /\ p[4] = SLASH /\ p[5] \in Nat \ {0}
    BY SMTT(30), <2>2, <2>3, <2>4 DEF DASH, SLASH
  <2> QED BY <2>1, <2>4, <2>5 DEF Formed
<1>11. CASE f = <<0, DASH, 0, SLASH, DASH, 0>>
  <2>1. PICK l \in Nat : l = 6 /\ DOMAIN f = 1 .. l
    BY <1>11
  <2>2. f[1] = 0 /\ f[2] = DASH /\ f[3] = 0 /\ f[4] = SLASH /\ f[5] = DASH /\ f[6] = 0
    BY <1>11
  <2>3. 1 \in 1 .. l /\ 2 \in 1 .. l /\ 3 \in 1 .. l /\ 4 \in 1 .. l /\ 5 \in 1 .. l /\ 6 \in 1 .. l
    BY <2>1
  <2>4. /\ Len(p) = l
        /\ \A k \in 1 .. l : /\ f[k] = 0 => p[k] \in Nat \ {0}
                             /\ f[k] # 0 => p[k] = f[k]
    BY <1>6, <2>1
  <2>5. p[1] \in Nat \ {0} /\ p[3] \in Nat \ {0} /\ p[6] \in Nat \ {0}
    BY <2>2, <2>3, <2>4
  <2>6. p[2] = DASH /\ p[4] = SLASH /\ p[5] = DASH
    BY SMTT(30), <2>2, <2>3, <2>4 DEF DASH, SLASH
  <2> QED BY <2>1, <2>4, <2>5, <2>6 DEF Formed
<1> QED BY <1>7, <1>8, <1>9, <1>10, <1>11

\* The multiples of a step up to a number.
AreMultiples(q, n, step) ==
  q \in Seq(Nat) /\ Len(q) = n \div step + 1 /\ \A k \in 1 .. Len(q) : q[k] = (k - 1) * step

OneMore(q, n, step) == IF n % step = 0 THEN Append(q, n) ELSE q

LEMMA NextMultiple ==
  ASSUME NEW step \in Nat \ {0}, NEW n \in Nat \ {0}, NEW q, AreMultiples(q, n - 1, step)
  PROVE  AreMultiples(OneMore(q, n, step), n, step)
<1>1. PICK x \in Nat, y \in Nat, r \in 0 .. step - 1 :
        /\ x = (n - 1) \div step /\ y = n \div step /\ r = n % step
        /\ x * step <= n - 1 /\ n = y * step + r
        /\ \A e \in Nat : e * step <= n - 1 => e <= x
        /\ \A e \in Nat : e * step <= n => e <= y
  <2>1. n - 1 \in Nat
    OBVIOUS
  <2>2. PICK x : x = (n - 1) \div step
    OBVIOUS
  <2>3. x \in Nat /\ x * step <= n - 1 /\ \A e \in Nat : e * step <= n - 1 => e <= x
    BY <2>1, <2>2, QuotientIs
  <2>4. PICK y, r : y = n \div step /\ r = n % step
    OBVIOUS
  <2>5. y \in Nat /\ \A e \in Nat : e * step <= n => e <= y
    BY <2>4, QuotientIs
  <2>6. r \in 0 .. step - 1 /\ n = y * step + r
    <3>1. y \in Int /\ r \in 0 .. step - 1 /\ n = step * y + r
      <4>1. n \in Int
        OBVIOUS
      <4>2. n \div step \in Int /\ n % step \in 0 .. step - 1 /\ n = step * (n \div step) + (n % step)
        BY <4>1, Division
      <4> QED BY <2>4, <4>2
    <3>2. step * y = y * step
      BY <3>1
    <3> QED BY <3>1, <3>2
  <2> QED BY <2>2, <2>3, <2>4, <2>5, <2>6
<1>2. x <= y
  BY <1>1
<1>3. q \in Seq(Nat) /\ Len(q) = x + 1 /\ \A k \in 1 .. x + 1 : q[k] = (k - 1) * step
  BY <1>1 DEF AreMultiples
<1>4. CASE r = 0
  <2>1. x = y - 1
    <3>1. y # 0
      BY <1>1, <1>4
    <3>2. PICK e \in Nat : y = e + 1
      <4>1. y - 1 \in Nat /\ y = (y - 1) + 1
        BY <3>1
      <4> QED BY <4>1
    <3>3. y * step = e * step + step /\ e * step \in Nat /\ x * step \in Nat
      BY <3>2
    <3>4. e <= x
      <4>1. PICK u \in Nat, v \in Nat : u = e * step /\ v = y * step
        BY <3>3
      <4>2. u <= n - 1
        BY <1>1, <1>4, <3>3, <4>1
      <4> QED BY <1>1, <4>1, <4>2, Zenon
    <3>5. x # y
      BY <1>1, <1>4
    <3> QED BY <1>2, <3>2, <3>4, <3>5
  <2>2. PICK z : z = Append(q, n)
    OBVIOUS
  <2>3. z \in Seq(Nat) /\ Len(z) = x + 2 /\ z[x + 2] = n /\ \A k \in 1 .. x + 1 : z[k] = q[k]
    BY <1>3, <2>2, AppendProperties
  <2>4. ASSUME NEW k \in 1 .. x + 2 PROVE z[k] = (k - 1) * step
    <3>1. CASE k \in 1 .. x + 1
      BY <1>3, <2>3, <3>1
    <3>2. CASE k = x + 2
      <4>1. k - 1 = y
        BY <2>1, <3>2
      <4>2. n = y * step
        BY <1>1, <1>4
      <4> QED BY <2>3, <3>2, <4>1, <4>2, Zenon
    <3> QED BY <3>1, <3>2
  <2>5. Len(z) = y + 1
    BY <2>1, <2>3
  <2> QED BY <1>1, <1>4, <2>2, <2>3, <2>4, <2>5 DEF AreMultiples, OneMore
<1>5. CASE r # 0
  <2>1. y * step <= n - 1
    <3>1. y * step \in Nat
      OBVIOUS
    <3> QED BY <1>1, <1>5, <3>1
  <2>2. x = y
    <3>1. y <= x
      BY <1>1, <2>1, Zenon
    <3> QED BY <1>1, <1>2, <3>1
  <2> QED BY <1>1, <1>3, <1>5, <2>2 DEF AreMultiples, OneMore
<1> QED BY <1>4, <1>5

LEMMA MultiplesAre ==
  ASSUME NEW reach \in Nat, NEW step \in Nat \ {0}
  PROVE  AreMultiples(Multiples(reach, step), reach, step)
<1> DEFINE Body(f) == [n \in 0 .. reach |-> IF n = 0 THEN <<0>> ELSE OneMore(f[n - 1], n, step)]
           all == CHOOSE f : f = Body(f)
<1>1. Multiples(reach, step) = all[reach]
  BY DEF Multiples, OneMore
<1>2. PICK S, b : S = Seq(Nat) /\ b = <<0>> /\ b \in S
  <2>1. <<0>> \in Seq(Nat)
    OBVIOUS
  <2> QED BY <2>1
<1>3. PICK G \in [1 .. reach -> [S -> S]] :
        \A n \in 1 .. reach : \A x \in S : G[n][x] = OneMore(x, n, step)
  <2> DEFINE G == [n \in 1 .. reach |-> [x \in S |-> OneMore(x, n, step)]]
  <2>1. ASSUME NEW n \in 1 .. reach, NEW x \in S
        PROVE  OneMore(x, n, step) \in S
    <3>1. Append(x, n) \in S
      BY <1>2, AppendProperties
    <3> QED BY <3>1 DEF OneMore
  <2>2. G \in [1 .. reach -> [S -> S]]
    BY <2>1
  <2>3. \A n \in 1 .. reach : \A x \in S : G[n][x] = OneMore(x, n, step)
    OBVIOUS
  <2> HIDE DEF G
  <2> QED BY <2>2, <2>3
<1>4. PICK f : f \in [0 .. reach -> S] /\ f[0] = b /\ \A k \in 1 .. reach : f[k] = G[k][f[k - 1]]
  <2>1. \E f : Follows(f, reach, S, b, G)
    BY <1>2, <1>3, Recursion
  <2> QED BY <2>1 DEF Follows
<1>5. \A k \in 1 .. reach : k - 1 \in 0 .. reach /\ k \in 0 .. reach /\ k # 0
  OBVIOUS
<1>6. \A k \in 1 .. reach : f[k] = OneMore(f[k - 1], k, step)
  BY <1>3, <1>4, <1>5
<1>7. f = Body(f)
  <2>1. \A k \in 0 .. reach : k = 0 \/ k \in 1 .. reach
    OBVIOUS
  <2>2. \A k \in 0 .. reach : f[k] = Body(f)[k]
    BY <1>2, <1>4, <1>6, <2>1
  <2>3. f = [k \in 0 .. reach |-> f[k]]
    BY <1>4
  <2> QED BY <2>2, <2>3
<1>8. all = Body(all)
  BY <1>7
<1> HIDE DEF all
<1>9. 0 \in 0 .. reach /\ reach \in 0 .. reach
  OBVIOUS
<1>10. /\ all[0] = b
       /\ \A k \in 1 .. reach : all[k] = OneMore(all[k - 1], k, step)
  BY <1>2, <1>5, <1>8, <1>9
<1> DEFINE T == {k \in 0 .. reach : AreMultiples(all[k], k, step)}
<1>11. 0 \in T
  <2>1. 0 \div step = 0
    <3>1. PICK x : x = 0 \div step
      OBVIOUS
    <3>2. x \in Nat /\ x * step <= 0
      BY <3>1, QuotientIs
    <3> QED BY <3>1, <3>2
  <2>2. b \in Seq(Nat) /\ Len(b) = 1 /\ b[1] = 0
    BY <1>2
  <2>3. AreMultiples(b, 0, step)
    BY <2>1, <2>2 DEF AreMultiples
  <2> QED BY <1>9, <1>10, <2>3
<1>12. ASSUME NEW k \in 1 .. reach, k - 1 \in T PROVE k \in T
  <2>1. AreMultiples(all[k - 1], k - 1, step)
    BY <1>12
  <2>2. PICK q : q = all[k - 1]
    OBVIOUS
  <2>3. AreMultiples(OneMore(q, k, step), k, step)
    BY <2>1, <2>2, NextMultiple
  <2> QED BY <1>5, <1>10, <2>2, <2>3
<1> HIDE DEF T
<1>13. \A k \in 0 .. reach : k \in T
  BY <1>11, <1>12, Induction
<1>14. AreMultiples(all[reach], reach, step)
  BY <1>9, <1>13 DEF T
<1> QED BY <1>1, <1>14

\* How many multiples there are.
HasMultiples(reach, step, n) ==
  /\ n \in Nat /\ n = reach \div step
  /\ reach < step => n = 0
  /\ Len(Multiples(reach, step)) = n + 1
  /\ \A k \in 1 .. n + 1 : Multiples(reach, step)[k] = (k - 1) * step

LEMMA CountMultiples ==
  ASSUME NEW reach \in Nat, NEW step \in Nat \ {0}
  PROVE  \E n \in Nat : HasMultiples(reach, step, n)
<1>1. PICK m, n : m = Multiples(reach, step) /\ n = reach \div step
  OBVIOUS
<1>2. AreMultiples(m, reach, step)
  BY <1>1, MultiplesAre
<1>3. n \in Nat /\ n * step <= reach
  BY <1>1, QuotientIs
<1>4. Len(m) = n + 1 /\ \A k \in 1 .. n + 1 : m[k] = (k - 1) * step
  <2>1. Len(m) = n + 1 /\ \A k \in 1 .. Len(m) : m[k] = (k - 1) * step
    BY <1>1, <1>2 DEF AreMultiples
  <2> QED BY <2>1
<1>5. ASSUME reach < step, n >= 1 PROVE FALSE
  <2>1. PICK h \in Nat : n = h + 1
    <3>1. n - 1 \in Nat /\ n = (n - 1) + 1
      BY <1>3, <1>5
    <3> QED BY <3>1
  <2>2. n * step = h * step + step /\ h * step \in Nat
    BY <2>1
  <2> QED BY <1>3, <1>5, <2>2
<1>6. reach < step => n = 0
  BY <1>3, <1>5
<1>7. HasMultiples(reach, step, n)
  BY <1>1, <1>3, <1>4, <1>6, Zenon DEF HasMultiples
<1> QED BY <1>3, <1>7

\* What a range stands for is what the parser adds to the list.
LEMMA GoesUp ==
  ASSUME NEW from \in Int, NEW to \in Int, NEW step \in Nat \ {0}, NEW neg, ~neg
  PROVE  /\ Ascending(from, to, step) \in Seq(Int)
         /\ Expanded(from, to, step, neg) = Ascending(from, to, step)
<1>1. PICK reach \in Nat : /\ reach = IF from < to THEN to - from ELSE 0
                           /\ to < from + step => reach < step
                           /\ ~(to < from + step) => reach = to - from
  <2>1. CASE from < to
    BY <2>1
  <2>2. CASE ~(from < to)
    BY <2>2
  <2> QED BY <2>1, <2>2
<1>2. PICK n \in Nat : HasMultiples(reach, step, n)
  BY CountMultiples
<1>3. PICK q : q = [k \in 1 .. n + 1 |-> from + (k - 1) * step]
  OBVIOUS
<1>4. Ascending(from, to, step) = q
  <2>1. PICK m : /\ m = Multiples(reach, step) /\ Len(m) = n + 1
                 /\ \A k \in 1 .. n + 1 : m[k] = (k - 1) * step
    BY <1>2 DEF HasMultiples
  <2>2. Ascending(from, to, step) = [k \in 1 .. n + 1 |-> from + m[k]]
    BY <1>1, <2>1 DEF Ascending
  <2> QED BY <1>3, <2>1, <2>2
<1>5. q \in Seq(Int)
  <2>1. \A k \in 1 .. n + 1 : from + (k - 1) * step \in Int
    OBVIOUS
  <2>2. q \in [1 .. n + 1 -> Int]
    BY <1>3, <2>1
  <2> QED BY <2>2, SequenceOf
<1>6. CASE to < from + step
  <2>1. n = 0
    BY <1>1, <1>2, <1>6 DEF HasMultiples
  <2>2. q = <<from>>
    <3>1. q = [k \in 1 .. 1 |-> from + (k - 1) * step]
      BY <1>3, <2>1
    <3>2. \A k \in 1 .. 1 : from + (k - 1) * step = from
      OBVIOUS
    <3>3. q = [k \in 1 .. 1 |-> from]
      BY <3>1, <3>2
    <3> QED BY <3>3
  <2> QED BY <1>4, <1>5, <1>6, <2>2 DEF Expanded
<1>7. CASE ~(to < from + step)
  <2>1. Up(from, to, step) = q
    BY <1>1, <1>2, <1>3, <1>7 DEF Up, HasMultiples
  <2> QED BY <1>4, <1>5, <1>7, <2>1 DEF Expanded
<1> QED BY <1>6, <1>7

LEMMA GoesDown ==
  ASSUME NEW from \in Int, NEW to \in Int, NEW step \in Nat \ {0}, NEW neg, neg
  PROVE  /\ Descending(from, to, step) \in Seq(Int)
         /\ Expanded(from, to, step, neg) = Descending(from, to, step)
<1>1. PICK reach \in Nat : /\ reach = IF to < from THEN from - to ELSE 0
                           /\ from < to + step => reach < step
                           /\ ~(from < to + step) => reach = from - to
  <2>1. CASE to < from
    BY <2>1
  <2>2. CASE ~(to < from)
    BY <2>2
  <2> QED BY <2>1, <2>2
<1>2. PICK n \in Nat : HasMultiples(reach, step, n)
  BY CountMultiples
<1>3. PICK q : q = [k \in 1 .. n + 1 |-> from - (k - 1) * step]
  OBVIOUS
<1>4. Descending(from, to, step) = q
  <2>1. PICK m : /\ m = Multiples(reach, step) /\ Len(m) = n + 1
                 /\ \A k \in 1 .. n + 1 : m[k] = (k - 1) * step
    BY <1>2 DEF HasMultiples
  <2>2. Descending(from, to, step) = [k \in 1 .. n + 1 |-> from - m[k]]
    BY <1>1, <2>1 DEF Descending
  <2> QED BY <1>3, <2>1, <2>2
<1>5. q \in Seq(Int)
  <2>1. \A k \in 1 .. n + 1 : from - (k - 1) * step \in Int
    OBVIOUS
  <2>2. q \in [1 .. n + 1 -> Int]
    BY <1>3, <2>1
  <2> QED BY <2>2, SequenceOf
<1>6. CASE from < to + step
  <2>1. n = 0
    BY <1>1, <1>2, <1>6 DEF HasMultiples
  <2>2. q = <<from>>
    <3>1. q = [k \in 1 .. 1 |-> from - (k - 1) * step]
      BY <1>3, <2>1
    <3>2. \A k \in 1 .. 1 : from - (k - 1) * step = from
      OBVIOUS
    <3>3. q = [k \in 1 .. 1 |-> from]
      BY <3>1, <3>2
    <3> QED BY <3>3
  <2> QED BY <1>4, <1>5, <1>6, <2>2 DEF Expanded
<1>7. CASE ~(from < to + step)
  <2>1. Down(from, to, step) = q
    BY <1>1, <1>2, <1>3, <1>7 DEF Down, HasMultiples
  <2> QED BY <1>4, <1>5, <1>7, <2>1 DEF Expanded
<1> QED BY <1>6, <1>7

LEMMA MeaningIs ==
  ASSUME NEW p \in Seq(Int), IsPiece(p)
  PROVE  Meaning(p) \in Seq(Int)
<1>1. Formed(p)
  BY PieceForm
<1>2. CASE Len(p) = 1
  <2>1. Meaning(p) = p
    BY <1>2 DEF Meaning
  <2> QED BY <2>1
<1>3. CASE Len(p) = 3
  <2>1. PICK a \in Int, b \in Int, c \in Nat \ {0} : a = p[1] /\ b = p[3] /\ c = 1
    BY <1>1, <1>3 DEF Formed
  <2>2. Meaning(p) = Ascending(a, b, c)
    BY <1>3, <2>1 DEF Meaning
  <2> QED BY <2>2, GoesUp
<1>4. CASE Len(p) = 5
  <2>1. PICK a \in Int, b \in Int, c \in Nat \ {0} : a = p[1] /\ b = p[3] /\ c = p[5]
    BY <1>1, <1>4 DEF Formed
  <2>2. Meaning(p) = Ascending(a, b, c)
    BY <1>4, <2>1 DEF Meaning
  <2> QED BY <2>2, GoesUp
<1>5. CASE Len(p) = 6
  <2>1. PICK a \in Int, b \in Int, c \in Nat \ {0} : a = p[1] /\ b = p[3] /\ c = p[6]
    BY <1>1, <1>5 DEF Formed
  <2>2. Meaning(p) = Descending(a, b, c)
    BY <1>5, <2>1 DEF Meaning
  <2> QED BY <2>2, GoesDown
<1> QED BY <1>1, <1>2, <1>3, <1>4, <1>5 DEF Formed

\* The lists that the first pieces mean.
AreMeant(F, pieces) ==
  /\ F[0] = <<>>
  /\ \A k \in 1 .. Len(pieces) : F[k] = F[k - 1] \o Meaning(pieces[k])
HasMeant(pieces) ==
  \E F \in [0 .. Len(pieces) -> Seq(Int)] : AreMeant(F, pieces) /\ AllMeant(pieces) = F[Len(pieces)]
Behind(q, r) == q \o r

LEMMA MeantIs ==
  ASSUME NEW pieces, Len(pieces) \in Nat,
         \A k \in 1 .. Len(pieces) : Meaning(pieces[k]) \in Seq(Int)
  PROVE  HasMeant(pieces)
<1>1. PICK m \in Nat : m = Len(pieces)
  OBVIOUS
<1>2. PICK S : S = Seq(Int)
  OBVIOUS
<1>3. PICK M \in [1 .. m -> S] : \A k \in 1 .. m : M[k] = Meaning(pieces[k])
  <2> DEFINE M == [k \in 1 .. m |-> Meaning(pieces[k])]
  <2>1. M \in [1 .. m -> S]
    BY <1>1, <1>2
  <2>2. \A k \in 1 .. m : M[k] = Meaning(pieces[k])
    OBVIOUS
  <2> HIDE DEF M
  <2> QED BY <2>1, <2>2
<1>4. ASSUME NEW x \in S, NEW y \in S PROVE Behind(x, y) \in S
  <2>1. x \in Seq(Int) /\ y \in Seq(Int)
    BY <1>2
  <2>2. x \o y \in Seq(Int)
    BY <2>1
  <2> QED BY <1>2, <2>2 DEF Behind
<1>5. PICK b \in S : b = <<>>
  <2>1. <<>> \in Seq(Int)
    OBVIOUS
  <2> QED BY <1>2, <2>1
<1> DEFINE Body(f) == [k \in 0 .. m |-> IF k = 0 THEN <<>> ELSE Behind(f[k - 1], Meaning(pieces[k]))]
           all == CHOOSE f : f = Body(f)
<1>6. AllMeant(pieces) = all[m]
  BY <1>1 DEF AllMeant, Behind
<1>7. PICK G \in [1 .. m -> [S -> S]] : \A k \in 1 .. m : \A x \in S : G[k][x] = Behind(x, M[k])
  <2> DEFINE G == [k \in 1 .. m |-> [x \in S |-> Behind(x, M[k])]]
  <2>1. \A k \in 1 .. m : \A x \in S : Behind(x, M[k]) \in S
    BY <1>4
  <2>2. G \in [1 .. m -> [S -> S]] /\ \A k \in 1 .. m : \A x \in S : G[k][x] = Behind(x, M[k])
    BY <2>1
  <2> HIDE DEF G
  <2> QED BY <2>2
<1>8. PICK f : f \in [0 .. m -> S] /\ f[0] = b /\ \A k \in 1 .. m : f[k] = G[k][f[k - 1]]
  <2>1. \E f : Follows(f, m, S, b, G)
    BY <1>1, <1>5, <1>7, Recursion
  <2> QED BY <2>1 DEF Follows
<1>9. \A k \in 1 .. m : k - 1 \in 0 .. m /\ k \in 0 .. m /\ k # 0
  OBVIOUS
<1>10. \A k \in 1 .. m : f[k] = Behind(f[k - 1], Meaning(pieces[k]))
  BY <1>3, <1>7, <1>8, <1>9
<1>11. f = Body(f)
  <2>1. \A k \in 0 .. m : k = 0 \/ k \in 1 .. m
    OBVIOUS
  <2>2. \A k \in 0 .. m : f[k] = Body(f)[k]
    BY <1>5, <1>8, <1>10, <2>1
  <2>3. f = [k \in 0 .. m |-> f[k]]
    BY <1>8
  <2> QED BY <2>2, <2>3
<1>12. all = Body(all)
  BY <1>11
<1> HIDE DEF all
<1>13. 0 \in 0 .. m
  OBVIOUS
<1>14. all[0] = <<>> /\ \A k \in 1 .. m : all[k] = Behind(all[k - 1], Meaning(pieces[k]))
  BY <1>9, <1>12, <1>13
<1>15. \A k \in 0 .. m : all[k] \in S
  <2>1. \A k \in 1 .. m : all[k - 1] \in S => all[k] \in S
    BY <1>3, <1>4, <1>14
  <2>2. all[0] \in S
    BY <1>5, <1>14
  <2> QED BY <1>1, <2>1, <2>2, StaysIn
<1>16. all \in [0 .. m -> S]
  <2>1. DOMAIN all = 0 .. m /\ all = [k \in 0 .. m |-> all[k]]
    <3>1. DOMAIN all = 0 .. m
      BY <1>12
    <3> QED BY <1>12, <3>1
  <2> QED BY <1>15, <2>1
<1>17. AreMeant(all, pieces)
  BY <1>1, <1>14 DEF AreMeant, Behind
<1> QED BY <1>1, <1>2, <1>6, <1>16, <1>17 DEF HasMeant

\* A list that is written as the documentation says.
WellWritten ==
  source.STEPS = 0 /\ (\A k \in DOMAIN Pieces(text) : IsPiece(Pieces(text)[k])) /\ ~BlankInWay

LEMMA PiecesFormed ==
  ASSUME source \in Sources, WellWritten
  PROVE  /\ Len(Pieces(text)) \in Nat
         /\ \A l \in 1 .. Len(Pieces(text)) :
              /\ Pieces(text)[l] \in Seq(Int) /\ Formed(Pieces(text)[l])
              /\ Meaning(Pieces(text)[l]) \in Seq(Int)
<1>1. text \in Seq(Int)
  BY TextType
<1>2. PICK ps : ps = Pieces(text)
  OBVIOUS
<1>3. ps \in Texts
  <2>1. PICK P \in [0 .. Len(text) -> Texts] : Pieces(text) = P[Len(text)]
    BY <1>1, PiecesOfText DEF HasPieces
  <2>2. Len(text) \in 0 .. Len(text)
    BY <1>1
  <2> QED BY <1>2, <2>1, <2>2
<1>4. PICK A : A = Seq(Int) /\ ps \in Seq(A)
  BY <1>3 DEF Texts
<1>5. ASSUME NEW l \in 1 .. Len(ps) PROVE ps[l] \in Seq(Int) /\ IsPiece(ps[l])
  <2>1. ps[l] \in A /\ l \in DOMAIN ps
    BY <1>4
  <2> QED BY <1>2, <1>4, <2>1 DEF WellWritten
<1>6. \A l \in 1 .. Len(ps) : ps[l] \in Seq(Int) /\ Formed(ps[l]) /\ Meaning(ps[l]) \in Seq(Int)
  BY <1>5, PieceForm, MeaningIs
<1>7. Len(ps) \in Nat
  BY <1>4
<1> QED BY <1>2, <1>6, <1>7

\* The characters of a piece, from its first on.
FoundAt(i, l, f) ==
  /\ At(i) = f[1] /\ f[1] \in Nat \ {0}
  /\ Len(f) = 1 => At(SkipBlanks(i + 1)) \in {COMMA, END} /\ Within(SkipBlanks(i + 1), l, 1)
  /\ Len(f) # 1 => At(SkipBlanks(i + 1)) = DASH

LEMMA FirstNumber ==
  ASSUME source \in Sources, WellWritten, NEW i, NEW l, Within(i, l, 0), At(i) # BLANK
  PROVE  FoundAt(i, l, Pieces(text)[l]) /\ Within(i + 1, l, 1)
<1>1. PICK f : f = Pieces(text)[l]
  OBVIOUS
<1>2. Formed(f) /\ i \in 1 .. Len(text) + 1
  BY <1>1, PiecesFormed DEF Within
<1>3. SkipBlanks(i) = i
  BY <1>2, NoBlankHere
<1>4. ReadsOn(i, l, 0, f, i)
  BY <1>1, <1>3, ReadOn
<1>5. 0 < Len(f) /\ 0 # Len(f) /\ Len(f) \in {1, 3, 5, 6}
  BY <1>2 DEF Formed
<1>6. At(i) = f[1] /\ Within(i + 1, l, 1)
  BY <1>4, <1>5 DEF ReadsOn
<1>7. ReadsOn(i + 1, l, 1, f, SkipBlanks(i + 1))
  BY <1>1, <1>6, ReadOn
<1>8. Len(f) = 1 => At(SkipBlanks(i + 1)) \in {COMMA, END} /\ Within(SkipBlanks(i + 1), l, 1)
  BY <1>7 DEF ReadsOn
<1>9. Len(f) # 1 => At(SkipBlanks(i + 1)) = DASH
  <2> SUFFICES ASSUME Len(f) # 1 PROVE At(SkipBlanks(i + 1)) = DASH
    OBVIOUS
  <2>1. 1 < Len(f) /\ f[2] = DASH
    BY <1>2, <1>5 DEF Formed
  <2> QED BY <1>7, <2>1 DEF ReadsOn
<1> QED BY <1>1, <1>2, <1>6, <1>8, <1>9 DEF FoundAt, Formed

\* What is behind the dash of a range.
FoundEnd(l, f) ==
  /\ At(RangeEnd) = f[3] /\ f[3] \in Nat \ {0}
  /\ Len(f) = 3 => At(BehindRange) \in {COMMA, END} /\ Within(BehindRange, l, 3)
  /\ Len(f) # 3 => /\ At(BehindRange) = SLASH /\ BehindRange \in 1 .. Len(text)
                   /\ Within(BehindRange + 1, l, 4)

LEMMA SecondNumber ==
  ASSUME source \in Sources, WellWritten, NEW l, Within(li, l, 0), At(li) # BLANK,
         Len(Pieces(text)[l]) # 1
  PROVE  FoundEnd(l, Pieces(text)[l])
<1>0. PICK m \in Nat : m = Len(text)
  <2>1. text \in Seq(Int)
    BY TextType
  <2> QED BY <2>1
<1>1. PICK f : f = Pieces(text)[l]
  OBVIOUS
<1>2. Formed(f) /\ Len(f) \in {3, 5, 6} /\ 1 < Len(f)
  <2>1. Formed(f)
    BY <1>1, PiecesFormed DEF Within
  <2> QED BY <1>1, <2>1 DEF Formed
<1>3. PICK d : d = SkipBlanks(li + 1)
  OBVIOUS
<1>4. Within(li + 1, l, 1)
  BY FirstNumber
<1>5. ReadsOn(li + 1, l, 1, f, d)
  BY <1>1, <1>3, <1>4, ReadOn
<1>6. d \in 1 .. m /\ At(d) = DASH /\ Within(d + 1, l, 2)
  BY <1>0, <1>2, <1>5 DEF ReadsOn, Formed
<1>7. d + 1 \in 1 .. m + 1 /\ d + 2 = (d + 1) + 1
  BY <1>6
<1>8. PICK e : e = RangeEnd
  OBVIOUS
<1>9. At(e) = f[3] /\ Within(e + 1, l, 3)
  <2>1. CASE At(d + 1) = BLANK
    <3>1. e = d + 2
      BY <1>3, <1>8, <2>1 DEF RangeEnd
    <3>2. Within(d + 2, l, 2)
      BY <1>6, <1>7, <2>1, PassBlank
    <3>3. At(d + 2) # BLANK
      <4>1. text[d] = DASH /\ d \in DOMAIN text
        <5>1. text \in Seq(Int)
          BY TextType
        <5>2. d \in DOMAIN text
          BY <1>0, <1>6, <5>1
        <5> QED BY <1>0, <1>6, <5>2, TextGoesOn
      <4> QED BY <2>1, <4>1 DEF WellWritten, BlankInWay
    <3>4. SkipBlanks(d + 2) = d + 2
      <4>1. d + 2 \in 1 .. Len(text) + 1
        BY <3>2 DEF Within
      <4> QED BY <3>3, <4>1, NoBlankHere
    <3>5. ReadsOn(e, l, 2, f, e)
      BY <1>1, <3>1, <3>2, <3>4, ReadOn
    <3> QED BY <1>2, <3>5 DEF ReadsOn
  <2>2. CASE At(d + 1) # BLANK
    <3>1. e = d + 1
      BY <1>3, <1>8, <2>2 DEF RangeEnd
    <3>2. SkipBlanks(d + 1) = d + 1
      BY <1>0, <1>7, <2>2, NoBlankHere
    <3>3. ReadsOn(e, l, 2, f, e)
      BY <1>1, <1>6, <3>1, <3>2, ReadOn
    <3> QED BY <1>2, <3>3 DEF ReadsOn
  <2> QED BY <2>1, <2>2
<1>10. PICK b : b = BehindRange /\ b = SkipBlanks(e + 1)
  BY <1>8 DEF BehindRange
<1>11. ReadsOn(e + 1, l, 3, f, b)
  BY <1>1, <1>9, <1>10, ReadOn
<1>12. Len(f) = 3 => At(b) \in {COMMA, END} /\ Within(b, l, 3)
  BY <1>11 DEF ReadsOn
<1>13. Len(f) # 3 => At(b) = SLASH /\ b \in 1 .. Len(text) /\ Within(b + 1, l, 4)
  <2> SUFFICES ASSUME Len(f) # 3 PROVE At(b) = SLASH /\ b \in 1 .. Len(text) /\ Within(b + 1, l, 4)
    OBVIOUS
  <2>1. 3 < Len(f) /\ f[4] = SLASH
    BY <1>2 DEF Formed
  <2> QED BY <1>11, <2>1 DEF ReadsOn
<1> QED BY <1>1, <1>2, <1>8, <1>9, <1>10, <1>12, <1>13 DEF FoundEnd, Formed

\* What is behind the slash.
FoundStep(l, f) ==
  /\ At(Place) = f[Len(f)] /\ Raise = f[Len(f)] /\ f[Len(f)] \in Nat \ {0}
  /\ At(Sign) = DASH <=> Len(f) = 6
  /\ Within(Place + 1, l, Len(f))

LEMMA ThirdNumber ==
  ASSUME source \in Sources, WellWritten, NEW l, Within(li, l, 0), At(li) # BLANK,
         Len(Pieces(text)[l]) \notin {1, 3}
  PROVE  FoundStep(l, Pieces(text)[l])
<1>0. PICK m \in Nat : m = Len(text)
  <2>1. text \in Seq(Int)
    BY TextType
  <2> QED BY <2>1
<1>1. PICK f : f = Pieces(text)[l]
  OBVIOUS
<1>2. Formed(f) /\ Len(f) \in {5, 6} /\ 4 < Len(f) /\ Len(f) \notin {1, 3}
  <2>1. Formed(f)
    BY <1>1, PiecesFormed DEF Within
  <2> QED BY <1>1, <2>1 DEF Formed
<1>3. FoundEnd(l, f)
  BY <1>1, <1>2, SecondNumber
<1>4. PICK b : b = BehindRange
  OBVIOUS
<1>5. At(b) = SLASH /\ b \in 1 .. m /\ Within(b + 1, l, 4)
  <2>1. Len(f) # 3
    BY <1>2, Zenon
  <2>2. At(b) = SLASH /\ b \in 1 .. Len(text) /\ Within(b + 1, l, 4)
    BY <1>3, <1>4, <2>1, Zenon DEF FoundEnd
  <2> QED BY <1>0, <2>2
<1>6. PICK g : g = Sign /\ g = SkipBlanks(b + 1)
  BY <1>4 DEF Sign
<1>7. ReadsOn(b + 1, l, 4, f, g)
  BY <1>1, <1>5, <1>6, ReadOn
<1>8. /\ g \in b + 1 .. m + 1 /\ \A h \in b + 1 .. g - 1 : text[h] = BLANK
      /\ g \in 1 .. m /\ At(g) = f[5] /\ Within(g + 1, l, 5)
  BY <1>0, <1>2, <1>7 DEF ReadsOn
<1>9. PICK o : o = Place
  OBVIOUS
<1>10. ASSUME At(o) = f[Len(f)], f[Len(f)] \in Nat \ {0}
       PROVE  Raise = f[Len(f)]
  <2>1. PICK r \in Nat \ {0} : r = At(Place)
    BY <1>9, <1>10
  <2>2. Max({1, r}) = IF 1 >= r THEN 1 ELSE r
    BY MaxOfTwo
  <2>3. Raise = Max({1, r})
    BY <2>1 DEF Raise, isdigit
  <2>4. Raise = r
    BY <2>2, <2>3
  <2> QED BY <1>9, <1>10, <2>1, <2>4
<1>11. CASE Len(f) = 5
  <2>1. f[5] \in Nat \ {0}
    BY <1>2, <1>11 DEF Formed
  <2>2. At(g) # DASH
    BY <1>8, <2>1 DEF DASH
  <2>3. o = g
    BY <1>6, <1>9, <2>2 DEF Place
  <2> QED BY <1>1, <1>6, <1>8, <1>9, <1>10, <1>11, <2>1, <2>2, <2>3 DEF FoundStep
<1>12. CASE Len(f) = 6
  <2>1. f[5] = DASH /\ f[6] \in Nat \ {0}
    BY <1>2, <1>12 DEF Formed
  <2>2. At(g) = DASH /\ o = g + 1
    BY <1>6, <1>8, <1>9, <2>1 DEF Place
  <2>3. text \in Seq(Int) /\ g \in DOMAIN text /\ text[g] = DASH /\ text[b] = SLASH
    <3>1. text \in Seq(Int)
      BY TextType
    <3>2. g \in DOMAIN text
      BY <1>0, <1>8, <3>1
    <3> QED BY <1>0, <1>5, <1>8, <2>2, <3>1, <3>2, TextGoesOn
  <2>4. At(g + 1) # BLANK
    <3>1. b \in 1 .. g - 1
      BY <1>5, <1>8
    <3> QED BY <1>8, <2>3, <3>1 DEF WellWritten, BlankInWay
  <2>5. SkipBlanks(g + 1) = g + 1
    <3>1. g + 1 \in 1 .. Len(text) + 1
      BY <1>8 DEF Within
    <3> QED BY <2>4, <3>1, NoBlankHere
  <2>6. ReadsOn(o, l, 5, f, o)
    BY <1>1, <1>8, <2>2, <2>5, ReadOn
  <2>7. At(o) = f[6] /\ Within(o + 1, l, 6)
    BY <1>12, <2>6 DEF ReadsOn
  <2> QED BY <1>1, <1>6, <1>9, <1>10, <1>12, <2>1, <2>2, <2>7 DEF FoundStep
<1> QED BY <1>2, <1>11, <1>12

\* What has been read when the first l pieces have been.
HasRead(q, l) ==
  \/ SignLeft(Pieces(text))
  \/ \E F \in [0 .. Len(Pieces(text)) -> Seq(Int)] :
       /\ AreMeant(F, Pieces(text)) /\ AllMeant(Pieces(text)) = F[Len(Pieces(text))]
       /\ q = F[l]
HasSign(neg, l) ==
  neg => \E i \in 1 .. l - 1 :
           Len(Pieces(text)[i]) = 6 /\ \A m \in i + 1 .. l - 1 : Len(Pieces(text)[m]) # 5

\* The parser is in front of a piece, or behind one.
InFront(i, l, q, neg) == Within(i, l, 0) /\ HasRead(q, l - 1) /\ HasSign(neg, l)
AtEnd(i, l, q, neg) ==
  Within(i, l, Len(Pieces(text)[l])) /\ HasRead(q, l) /\ HasSign(neg, l + 1)

LEMMA ReadMore ==
  ASSUME source \in Sources, WellWritten, NEW l \in 1 .. Len(Pieces(text)),
         NEW q, HasRead(q, l - 1),
         NEW r, SignLeft(Pieces(text)) \/ r = Meaning(Pieces(text)[l])
  PROVE  HasRead(q \o r, l)
<1>1. PICK ps, n : ps = Pieces(text) /\ n = Len(ps) /\ n \in Nat
  BY PiecesFormed
<1>2. CASE SignLeft(ps)
  BY <1>1, <1>2 DEF HasRead
<1>3. CASE ~SignLeft(ps)
  <2>1. PICK F \in [0 .. n -> Seq(Int)] : AreMeant(F, ps) /\ AllMeant(ps) = F[n] /\ q = F[l - 1]
    BY <1>1, <1>3 DEF HasRead
  <2>2. F[l] = F[l - 1] \o Meaning(ps[l])
    BY <1>1, <2>1 DEF AreMeant
  <2>3. r = Meaning(ps[l])
    BY <1>1, <1>3
  <2>4. q \o r = F[l]
    BY <2>1, <2>2, <2>3, Zenon
  <2> QED BY <1>1, <2>1, <2>4 DEF HasRead
<1> QED BY <1>2, <1>3

LEMMA SignStays ==
  ASSUME source \in Sources, WellWritten, NEW l \in 1 .. Len(Pieces(text)),
         NEW neg, HasSign(neg, l),
         Len(Pieces(text)[l]) # 5, NEW new, new => neg
  PROVE  HasSign(new, l + 1)
<1>1. PICK ps, n : ps = Pieces(text) /\ n = Len(ps) /\ n \in Nat
  BY PiecesFormed
<1> SUFFICES ASSUME new PROVE \E i \in 1 .. l : Len(ps[i]) = 6 /\ \A m \in i + 1 .. l : Len(ps[m]) # 5
  BY <1>1 DEF HasSign
<1>2. PICK i \in 1 .. l - 1 : Len(ps[i]) = 6 /\ \A m \in i + 1 .. l - 1 : Len(ps[m]) # 5
  BY <1>1 DEF HasSign
<1>3. i \in 1 .. l /\ \A m \in i + 1 .. l : m = l \/ m \in i + 1 .. l - 1
  BY <1>1, <1>2
<1> QED BY <1>1, <1>2, <1>3

LEMMA NoSignLeft ==
  ASSUME source \in Sources, WellWritten, NEW l \in 1 .. Len(Pieces(text)),
         NEW neg, HasSign(neg, l),
         Len(Pieces(text)[l]) = 3, neg
  PROVE  SignLeft(Pieces(text))
<1>1. PICK ps, n : ps = Pieces(text) /\ n = Len(ps) /\ n \in Nat /\ DOMAIN ps = 1 .. n
  <2>1. text \in Seq(Int)
    BY TextType
  <2>2. PICK P \in [0 .. Len(text) -> Texts] : Pieces(text) = P[Len(text)]
    BY <2>1, PiecesOfText DEF HasPieces
  <2>3. Len(text) \in 0 .. Len(text)
    BY <2>1
  <2>4. PICK ps \in Texts : ps = Pieces(text)
    BY <2>2, <2>3
  <2>5. PICK A : A = Seq(Int) /\ ps \in Seq(A)
    BY DEF Texts
  <2>6. Len(ps) \in Nat /\ DOMAIN ps = 1 .. Len(ps)
    BY <2>5
  <2> QED BY <2>4, <2>6
<1>2. PICK i \in 1 .. l - 1 : Len(ps[i]) = 6 /\ \A m \in i + 1 .. l - 1 : Len(ps[m]) # 5
  BY <1>1 DEF HasSign
<1>3. i \in DOMAIN ps /\ l \in DOMAIN ps /\ i < l
  BY <1>1, <1>2
<1>4. SignLeft(ps)
  BY <1>1, <1>2, <1>3 DEF SignLeft
<1> QED BY <1>1, <1>4

\* Blanks and commas are passed over.
LEMMA CharacterSkipped ==
  ASSUME source \in Sources, WellWritten, ppc = "parse", SkipCharacter,
         NEW l, InFront(li, l, list, negraise) \/ AtEnd(li, l, list, negraise)
  PROVE  \/ InFront(li', l, list', negraise') \/ AtEnd(li', l, list', negraise')
         \/ InFront(li', l + 1, list', negraise')
<1>1. /\ At(li) # END /\ ~isdigit(At(li)) /\ li' = li + 1
      /\ list' = list /\ negraise' = negraise
  BY DEF SkipCharacter
<1>2. CASE At(li) = BLANK
  <2>1. ASSUME NEW n, Within(li, l, n) PROVE Within(li', l, n)
    BY <1>1, <1>2, <2>1, PassBlank
  <2> QED BY <1>1, <2>1 DEF InFront, AtEnd
<1>3. CASE At(li) # BLANK
  <2>1. CASE InFront(li, l, list, negraise)
    <3>1. FoundAt(li, l, Pieces(text)[l])
      BY <1>3, <2>1, FirstNumber DEF InFront
    <3> QED BY <1>1, <3>1 DEF FoundAt, isdigit
  <2>2. CASE AtEnd(li, l, list, negraise)
    <3>1. PICK f : f = Pieces(text)[l]
      OBVIOUS
    <3>2. Within(li, l, Len(f)) /\ SkipBlanks(li) = li
      <4>1. Within(li, l, Len(f))
        BY <2>2, <3>1 DEF AtEnd
      <4>2. li \in 1 .. Len(text) + 1
        BY <4>1 DEF Within
      <4> QED BY <1>3, <4>1, <4>2, NoBlankHere
    <3>3. ReadsOn(li, l, Len(f), f, li)
      BY <3>1, <3>2, ReadOn
    <3>4. Within(li + 1, l + 1, 0)
      BY <1>1, <3>3 DEF ReadsOn
    <3>5. (l + 1) - 1 = l
      BY <2>2 DEF AtEnd, Within
    <3>6. HasRead(list', (l + 1) - 1) /\ HasSign(negraise', l + 1)
      BY <1>1, <2>2, <3>5 DEF AtEnd
    <3> QED BY <1>1, <3>4, <3>6 DEF InFront
  <2> QED BY <2>1, <2>2
<1> QED BY <1>2, <1>3

\* A number is read in front of a piece.
LEMMA NumberInFront ==
  ASSUME source \in Sources, WellWritten, isdigit(At(li)),
         NEW l, InFront(li, l, list, negraise) \/ AtEnd(li, l, list, negraise)
  PROVE  InFront(li, l, list, negraise) /\ At(li) # BLANK
<1>1. At(li) # BLANK
  BY DEF isdigit, BLANK
<1>2. ASSUME AtEnd(li, l, list, negraise) PROVE FALSE
  <2>1. PICK f : f = Pieces(text)[l]
    OBVIOUS
  <2>2. Within(li, l, Len(f)) /\ li \in 1 .. Len(text) + 1
    BY <1>2, <2>1 DEF AtEnd, Within
  <2>3. ReadsOn(li, l, Len(f), f, li)
    BY <1>1, <2>1, <2>2, NoBlankHere, ReadOn
  <2> QED BY <2>3 DEF ReadsOn, isdigit, COMMA, END
<1> QED BY <1>1, <1>2

\* What the parser does with a number: the piece is read to its end.
LEMMA NumberRead ==
  ASSUME source \in Sources, WellWritten, NumberAlone,
         NEW l, InFront(li, l, list, negraise) \/ AtEnd(li, l, list, negraise)
  PROVE  AtEnd(li', l, list', negraise')
<1>1. PICK d : d = SkipBlanks(li + 1)
  OBVIOUS
<1>2. /\ isdigit(At(li)) /\ At(d) \in {COMMA, END}
      /\ list' = Append(list, At(li)) /\ li' = d /\ negraise' = negraise
  BY <1>1 DEF NumberAlone, Reads
<1>3. InFront(li, l, list, negraise) /\ At(li) # BLANK
  BY <1>2, NumberInFront
<1>4. PICK f : f = Pieces(text)[l] /\ l \in 1 .. Len(Pieces(text)) /\ Formed(f) /\ f \in Seq(Int)
  BY <1>3, PiecesFormed DEF InFront, Within
<1>5. FoundAt(li, l, f)
  BY <1>3, <1>4, FirstNumber DEF InFront
<1>6. Len(f) = 1
  BY <1>1, <1>2, <1>5 DEF FoundAt, DASH, COMMA, END
<1>7. Within(li', l, Len(f))
  BY <1>1, <1>2, <1>5, <1>6 DEF FoundAt
<1>8. HasRead(list', l)
  <2>1. Meaning(f) = f
    BY <1>6 DEF Meaning
  <2>2. f = <<At(li)>>
    <3>1. f = <<f[1]>>
      BY <1>4, <1>6
    <3> QED BY <1>5, <3>1, Zenon DEF FoundAt
  <2>3. HasRead(list \o f, l)
    BY <1>3, <1>4, <2>1, ReadMore DEF InFront
  <2>4. CASE SignLeft(Pieces(text))
    BY <2>4 DEF HasRead
  <2>5. CASE ~SignLeft(Pieces(text))
    <3>1. PICK F \in [0 .. Len(Pieces(text)) -> Seq(Int)] : list = F[l - 1]
      BY <1>3, <2>5 DEF InFront, HasRead
    <3>2. l - 1 \in 0 .. Len(Pieces(text))
      BY <1>4, PiecesFormed
    <3>3. PICK q \in Seq(Int), c \in Int : q = list /\ c = At(li) /\ f = <<c>>
      <4>1. At(li) \in Int
        BY <1>5 DEF FoundAt
      <4> QED BY <2>2, <3>1, <3>2, <4>1
    <3>4. Append(q, c) = q \o <<c>>
      OBVIOUS
    <3> QED BY <1>2, <2>3, <3>3, <3>4
  <2> QED BY <2>4, <2>5
<1>9. HasSign(negraise', l + 1)
  <2>1. Len(f) # 5 /\ HasSign(negraise, l)
    BY <1>3, <1>6 DEF InFront
  <2> QED BY <1>2, <1>4, <2>1, SignStays
<1> QED BY <1>4, <1>7, <1>8, <1>9 DEF AtEnd

LEMMA RangeRead ==
  ASSUME source \in Sources, WellWritten, RangeByOne,
         NEW l, InFront(li, l, list, negraise) \/ AtEnd(li, l, list, negraise)
  PROVE  AtEnd(li', l, list', negraise')
<1>1. /\ isdigit(At(li)) /\ At(SkipBlanks(li + 1)) \in {DASH} /\ At(BehindRange) \notin {DOT, SLASH}
      /\ list' = list \o Expanded(At(li), At(RangeEnd), 1, negraise)
      /\ negraise' = (negraise /\ At(li) > At(RangeEnd)) /\ li' = BehindRange
  BY DEF RangeByOne, IsRange, Reads
<1>2. InFront(li, l, list, negraise) /\ At(li) # BLANK
  BY <1>1, NumberInFront
<1>3. PICK f : f = Pieces(text)[l] /\ l \in 1 .. Len(Pieces(text)) /\ Formed(f) /\ f \in Seq(Int)
  BY <1>2, PiecesFormed DEF InFront, Within
<1>4. FoundAt(li, l, f)
  BY <1>2, <1>3, FirstNumber DEF InFront
<1>5. Len(f) # 1
  BY <1>1, <1>4 DEF FoundAt, DASH, COMMA, END
<1>6. FoundEnd(l, f)
  BY <1>2, <1>3, <1>5, SecondNumber DEF InFront
<1>7. Len(f) = 3
  BY <1>1, <1>6 DEF FoundEnd
<1>8. Within(li', l, Len(f))
  BY <1>1, <1>6, <1>7 DEF FoundEnd
<1>9. PICK a \in Int, b \in Int : a = f[1] /\ b = f[3] /\ a = At(li) /\ b = At(RangeEnd)
  BY <1>4, <1>6 DEF FoundAt, FoundEnd
<1>10. PICK r : r = Expanded(a, b, 1, negraise)
  OBVIOUS
<1>11. SignLeft(Pieces(text)) \/ r = Meaning(f)
  <2>1. CASE negraise
    BY <1>2, <1>3, <1>7, <2>1, NoSignLeft DEF InFront
  <2>2. CASE ~negraise
    <3>1. r = Ascending(a, b, 1)
      <4>1. PICK c \in Nat \ {0} : c = 1
        OBVIOUS
      <4>2. Expanded(a, b, c, negraise) = Ascending(a, b, c)
        BY <2>2, GoesUp
      <4> QED BY <1>10, <4>1, <4>2
    <3>2. Meaning(f) = Ascending(a, b, 1)
      BY <1>7, <1>9 DEF Meaning
    <3> QED BY <3>1, <3>2
  <2> QED BY <2>1, <2>2
<1>12. HasRead(list', l)
  <2>1. HasRead(list \o r, l)
    BY <1>2, <1>3, <1>11, ReadMore DEF InFront
  <2> QED BY <1>1, <1>9, <1>10, <2>1
<1>13. HasSign(negraise', l + 1)
  <2>1. Len(f) # 5 /\ HasSign(negraise, l)
    BY <1>2, <1>7 DEF InFront
  <2>2. negraise' => negraise
    BY <1>1
  <2> QED BY <1>3, <2>1, <2>2, SignStays
<1> QED BY <1>3, <1>8, <1>12, <1>13 DEF AtEnd

LEMMA StepRead ==
  ASSUME source \in Sources, WellWritten, ppc = "parse", RangeByStep,
         NEW l, InFront(li, l, list, negraise) \/ AtEnd(li, l, list, negraise)
  PROVE  AtEnd(li', l, list', negraise') /\ ppc' = "parse"
<1>1. /\ isdigit(At(li)) /\ At(SkipBlanks(li + 1)) \in {DASH} /\ At(BehindRange) = SLASH
  BY DEF RangeByStep, IsRange, Reads
<1>2. InFront(li, l, list, negraise) /\ At(li) # BLANK
  BY <1>1, NumberInFront
<1>3. PICK f : f = Pieces(text)[l] /\ l \in 1 .. Len(Pieces(text)) /\ Formed(f) /\ f \in Seq(Int)
  BY <1>2, PiecesFormed DEF InFront, Within
<1>4. FoundAt(li, l, f)
  BY <1>2, <1>3, FirstNumber DEF InFront
<1>5. Len(f) # 1
  BY <1>1, <1>4 DEF FoundAt, DASH, COMMA, END
<1>6. FoundEnd(l, f)
  BY <1>2, <1>3, <1>5, SecondNumber DEF InFront
<1>7. Len(f) \in {5, 6}
  <2>1. Len(f) # 3
    BY <1>1, <1>6 DEF FoundEnd, SLASH, COMMA, END
  <2> QED BY <1>3, <1>5, <2>1 DEF Formed
<1>8. FoundStep(l, f)
  <2>1. Len(f) \notin {1, 3}
    BY <1>7
  <2> QED BY <1>2, <1>3, <2>1, ThirdNumber DEF InFront
<1>9. Within(Place + 1, l, Len(f))
  BY <1>8 DEF FoundStep
<1>10. At(Place) # END /\ At(Place + 1) # DOT
  <2>1. At(Place) # END
    BY <1>8 DEF FoundStep, END
  <2>2. ASSUME At(Place + 1) = DOT PROVE FALSE
    <3>1. Place + 1 \in 1 .. Len(text) + 1
      BY <1>9 DEF Within
    <3>2. SkipBlanks(Place + 1) = Place + 1
      BY <2>2, <3>1, NoBlankHere DEF DOT, BLANK
    <3>3. ReadsOn(Place + 1, l, Len(f), f, Place + 1)
      BY <1>3, <1>9, <3>2, ReadOn
    <3> QED BY <2>2, <3>3 DEF ReadsOn, DOT, COMMA, END
  <2> QED BY <2>1, <2>2
<1>11. PICK neg \in BOOLEAN : neg = (At(Sign) = DASH)
  OBVIOUS
<1>12. PICK a \in Int, b \in Int, c \in Nat \ {0} :
         /\ a = f[1] /\ b = f[3] /\ c = f[Len(f)] /\ a = At(li) /\ b = At(RangeEnd) /\ c = Raise
  BY <1>4, <1>6, <1>8 DEF FoundAt, FoundEnd, FoundStep
<1>13. PICK r : r = Expanded(a, b, c, neg)
  OBVIOUS
<1>14. /\ list' = list \o r /\ li' = Place + 1 /\ ppc' = "parse"
       /\ negraise' = (neg /\ a >= b + c)
  BY <1>10, <1>11, <1>12, <1>13 DEF RangeByStep
<1>15. neg <=> Len(f) = 6
  BY <1>8, <1>11 DEF FoundStep
<1>16. r = Meaning(f)
  <2>1. CASE Len(f) = 5
    <3>1. ~neg
      BY <1>15, <2>1
    <3>2. r = Ascending(a, b, c)
      BY <1>13, <3>1, GoesUp
    <3>3. Meaning(f) = Ascending(a, b, c)
      <4>1. c = f[5]
        BY <1>12, <2>1
      <4> QED BY <1>12, <2>1, <4>1 DEF Meaning
    <3> QED BY <3>2, <3>3
  <2>2. CASE Len(f) = 6
    <3>1. neg
      BY <1>15, <2>2
    <3>2. r = Descending(a, b, c)
      BY <1>13, <3>1, GoesDown
    <3>3. Meaning(f) = Descending(a, b, c)
      <4>1. c = f[6]
        BY <1>12, <2>2
      <4> QED BY <1>12, <2>2, <4>1 DEF Meaning
    <3> QED BY <3>2, <3>3
  <2> QED BY <1>7, <2>1, <2>2
<1>17. HasRead(list', l)
  <2>1. HasRead(list \o r, l)
    BY <1>2, <1>3, <1>16, ReadMore DEF InFront
  <2> QED BY <1>14, <2>1
<1>18. HasSign(negraise', l + 1)
  <2> SUFFICES ASSUME negraise'
               PROVE  \E i \in 1 .. l : Len(Pieces(text)[i]) = 6
                        /\ \A m \in i + 1 .. l : Len(Pieces(text)[m]) # 5
    <3>1. (l + 1) - 1 = l
      BY <1>3
    <3> QED BY <3>1 DEF HasSign
  <2>1. Len(f) = 6
    BY <1>14, <1>15
  <2>2. l \in 1 .. l /\ \A m : m \notin l + 1 .. l
    BY <1>3
  <2> QED BY <1>3, <2>1, <2>2
<1> QED BY <1>3, <1>9, <1>14, <1>17, <1>18 DEF AtEnd

\* Nothing else happens to such a list.
LEMMA NoOtherStep ==
  ASSUME source \in Sources, WellWritten,
         NEW l, InFront(li, l, list, negraise) \/ AtEnd(li, l, list, negraise)
  PROVE  ~(NumberZero \/ NumberFloat \/ NumberDropped \/ RangeWithoutEnd \/ RangeEndZero \/ RangeFloat)
<1> SUFFICES ASSUME \/ NumberZero \/ NumberFloat \/ NumberDropped
                    \/ RangeWithoutEnd \/ RangeEndZero \/ RangeFloat
             PROVE  FALSE
  OBVIOUS
<1>1. isdigit(At(li))
  BY DEF NumberZero, NumberFloat, NumberDropped, RangeWithoutEnd, RangeEndZero, RangeFloat,
         IsRange, Reads, isdigit
<1>2. InFront(li, l, list, negraise) /\ At(li) # BLANK
  BY <1>1, NumberInFront
<1>3. PICK f : f = Pieces(text)[l] /\ Formed(f)
  BY <1>2, PiecesFormed DEF InFront, Within
<1>4. FoundAt(li, l, f)
  BY <1>2, <1>3, FirstNumber DEF InFront
<1>5. PICK c : c = At(SkipBlanks(li + 1)) /\ c \in {COMMA, END, DASH}
  BY <1>4 DEF FoundAt
<1>6. ~NumberZero
  BY <1>4 DEF NumberZero, FoundAt
<1>7. ~NumberFloat
  BY <1>5 DEF NumberFloat, Reads, COMMA, END, DASH, DOT
<1>8. ~NumberDropped
  BY <1>5 DEF NumberDropped, Reads, Characters, COMMA, END, DASH, DOT, BLANK, SLASH, LETTER
<1>9. CASE RangeWithoutEnd \/ RangeEndZero \/ RangeFloat
  <2>1. c = DASH
    BY <1>5, <1>9 DEF RangeWithoutEnd, RangeEndZero, RangeFloat, IsRange, Reads
  <2>2. Len(f) # 1
    BY <1>4, <1>5, <2>1 DEF FoundAt, COMMA, END, DASH
  <2>3. FoundEnd(l, f)
    BY <1>2, <1>3, <2>2, SecondNumber DEF InFront
  <2>4. ~RangeWithoutEnd /\ ~RangeEndZero
    BY <2>3 DEF FoundEnd, RangeWithoutEnd, RangeEndZero, isdigit
  <2>5. At(BehindRange) \in {COMMA, END, SLASH}
    BY <2>3 DEF FoundEnd
  <2> QED BY <1>9, <2>4, <2>5 DEF RangeFloat, COMMA, END, SLASH, DOT
<1> QED BY <1>6, <1>7, <1>8, <1>9

\* The text ends behind the last piece.
LEMMA AllRead ==
  ASSUME source \in Sources, WellWritten, Parsed,
         NEW l, InFront(li, l, list, negraise) \/ AtEnd(li, l, list, negraise)
  PROVE  HasRead(list', Len(Pieces(text)))
<1>1. At(li) = END /\ list' = list
  BY DEF Parsed, Goto, parser
<1>2. At(li) # BLANK
  BY <1>1 DEF END, BLANK
<1>3. CASE InFront(li, l, list, negraise)
  <2>1. FoundAt(li, l, Pieces(text)[l])
    BY <1>2, <1>3, FirstNumber DEF InFront
  <2> QED BY <1>1, <2>1 DEF FoundAt, END
<1>4. CASE AtEnd(li, l, list, negraise)
  <2>1. PICK f : f = Pieces(text)[l]
    OBVIOUS
  <2>2. Within(li, l, Len(f)) /\ li \in 1 .. Len(text) + 1
    BY <1>4, <2>1 DEF AtEnd, Within
  <2>3. ReadsOn(li, l, Len(f), f, li)
    BY <1>2, <2>1, <2>2, NoBlankHere, ReadOn
  <2>4. l = Len(Pieces(text))
    BY <1>1, <2>3 DEF ReadsOn
  <2> QED BY <1>1, <1>4, <2>4 DEF AtEnd
<1> QED BY <1>3, <1>4

\* The list is read up to a piece, and at the end as a whole.
ReadInv ==
  /\ source \in Sources
  /\ WellWritten =>
       /\ ppc \notin {"exit", "crash", "overrun"}
       /\ ppc = "parse" =>
            \E l : InFront(li, l, list, negraise) \/ AtEnd(li, l, list, negraise)
       /\ ppc = "sizes" => HasRead(list, Len(Pieces(text)))

LEMMA ReadStart == source \in Sources /\ InitSizes => ReadInv
<1> SUFFICES ASSUME source \in Sources, InitSizes, WellWritten
             PROVE  /\ ppc = "parse"
                    /\ \E l : InFront(li, l, list, negraise) \/ AtEnd(li, l, list, negraise)
  BY DEF ReadInv
<1>1. ppc = "parse" /\ li = 1 /\ negraise = FALSE /\ list = <<>>
  BY DEF InitSizes, WellWritten
<1>2. text \in Seq(Int) /\ 1 \in 1 .. Len(text) + 1
  BY TextType
<1>3. PICK e : e = <<>> /\ Len(e) = 0
  OBVIOUS
<1>4. Within(1, 1, 0)
  <2>1. Stands(text, 1, 1, e)
    BY <1>2, <1>3, StandsFirst
  <2>2. Within(1, 1, Len(e))
    BY <1>2, <2>1, WithinIs
  <2> QED BY <1>3, <2>2
<1>5. HasRead(list, 1 - 1)
  <2>1. PICK ps : ps = Pieces(text)
    OBVIOUS
  <2>2. Len(ps) \in Nat /\ \A k \in 1 .. Len(ps) : Meaning(ps[k]) \in Seq(Int)
    BY <2>1, PiecesFormed
  <2>3. HasMeant(ps)
    BY <2>2, MeantIs
  <2> QED BY <1>1, <2>1, <2>3 DEF HasMeant, AreMeant, HasRead
<1> QED BY <1>1, <1>4, <1>5 DEF InFront, HasSign

\* The parser goes from piece to piece.
LEMMA ReadParse == ReadInv /\ bi_parselist => ReadInv'
<1> SUFFICES ASSUME ReadInv, bi_parselist PROVE ReadInv'
  OBVIOUS
<1>1. source' = source
  BY DEF bi_parselist
<1>2. text' = text
  BY <1>1 DEF text
<1>3. WellWritten' <=> WellWritten
  BY <1>1 DEF WellWritten, BlankInWay, At, text
<1>4. ASSUME NEW l PROVE /\ InFront(li, l, list, negraise)' <=> InFront(li', l, list', negraise')
                         /\ AtEnd(li, l, list, negraise)' <=> AtEnd(li', l, list', negraise')
  BY <1>2 DEF InFront, AtEnd, Within, HasRead, HasSign
<1>5. HasRead(list, Len(Pieces(text)))' <=> HasRead(list', Len(Pieces(text)))
  BY <1>2 DEF HasRead
<1> SUFFICES ASSUME WellWritten
             PROVE  /\ ppc' \notin {"exit", "crash", "overrun"}
                    /\ ppc' = "parse" =>
                         \E l : InFront(li', l, list', negraise') \/ AtEnd(li', l, list', negraise')
                    /\ ppc' = "sizes" => HasRead(list', Len(Pieces(text)))
  BY <1>1, <1>3, <1>4, <1>5 DEF ReadInv
<1>6. source \in Sources /\ ppc = "parse"
  BY DEF ReadInv, bi_parselist, SkipCharacter, NumberZero, NumberAlone, NumberFloat, NumberDropped,
         RangeWithoutEnd, RangeEndZero, RangeFloat, RangeByOne, RangeByStep, IsRange, Reads, Parsed
<1>7. PICK l : InFront(li, l, list, negraise) \/ AtEnd(li, l, list, negraise)
  BY <1>6 DEF ReadInv
<1>8. CASE SkipCharacter
  <2>1. ppc' = "parse"
    BY <1>6, <1>8 DEF SkipCharacter
  <2> QED BY <1>6, <1>7, <1>8, <2>1, CharacterSkipped
<1>9. CASE NumberAlone
  <2>1. ppc' = "parse"
    BY <1>6, <1>9 DEF NumberAlone
  <2> QED BY <1>6, <1>7, <1>9, <2>1, NumberRead
<1>10. CASE RangeByOne
  <2>1. ppc' = "parse"
    BY <1>6, <1>10 DEF RangeByOne
  <2> QED BY <1>6, <1>7, <1>10, <2>1, RangeRead
<1>11. CASE RangeByStep
  <2>1. AtEnd(li', l, list', negraise') /\ ppc' = "parse"
    BY <1>6, <1>7, <1>11, StepRead
  <2> QED BY <2>1
<1>12. CASE Parsed
  <2>1. ppc' = "sizes"
    BY <1>12 DEF Parsed, Goto
  <2>2. HasRead(list', Len(Pieces(text)))
    BY <1>6, <1>7, <1>12, AllRead
  <2> QED BY <2>1, <2>2
<1>13. ~(NumberZero \/ NumberFloat \/ NumberDropped \/ RangeWithoutEnd \/ RangeEndZero \/ RangeFloat)
  BY <1>6, <1>7, NoOtherStep
<1> QED BY <1>8, <1>9, <1>10, <1>11, <1>12, <1>13 DEF bi_parselist

\* What is made of the list leaves it alone.
LEMMA ReadNext == ReadInv /\ [FindSizes]_allSizes => ReadInv'
<1> SUFFICES ASSUME ReadInv, [FindSizes]_allSizes PROVE ReadInv'
  OBVIOUS
<1>1. CASE bi_parselist
  BY <1>1, ReadParse
<1>2. CASE TakeList \/ TakeRange \/ NoSizes \/ RandomOrder \/ Draw
  <2>1. source' = source /\ ppc' \in {"random", "draw", "done"}
    <3>1. source' = source
      BY <1>2 DEF TakeList, TakeRange, NoSizes, RandomOrder, Draw
    <3>2. ppc' \in {"random", "draw", "done"}
      BY <1>2 DEF TakeList, TakeRange, NoSizes, RandomOrder, Draw
    <3> QED BY <3>1, <3>2
  <2> QED BY <2>1 DEF ReadInv
<1>3. CASE UNCHANGED allSizes
  <2>1. source' = source /\ ppc' = ppc /\ li' = li /\ list' = list /\ negraise' = negraise
    BY <1>3 DEF allSizes, parser
  <2>2. text' = text
    BY <2>1 DEF text
  <2>3. WellWritten' <=> WellWritten
    BY <2>1 DEF WellWritten, BlankInWay, At, text
  <2>4. ASSUME NEW l PROVE /\ InFront(li, l, list, negraise)' <=> InFront(li, l, list, negraise)
                           /\ AtEnd(li, l, list, negraise)' <=> AtEnd(li, l, list, negraise)
    BY <2>1, <2>2 DEF InFront, AtEnd, Within, HasRead, HasSign
  <2>5. HasRead(list, Len(Pieces(text)))' <=> HasRead(list, Len(Pieces(text)))
    BY <2>1, <2>2 DEF HasRead
  <2> QED BY <2>1, <2>3, <2>4, <2>5 DEF ReadInv
<1> QED BY <1>1, <1>2, <1>3 DEF FindSizes

LEMMA ReadAsWritten == ReadInv => ListAsWritten
<1> SUFFICES ASSUME ReadInv, source.STEPS = 0, ppc \in {"sizes", "exit", "crash", "overrun"},
                    \A k \in DOMAIN Pieces(text) : IsPiece(Pieces(text)[k]), ~BlankInWay
             PROVE  ppc = "sizes" /\ (SignLeft(Pieces(text)) \/ list = AllMeant(Pieces(text)))
  BY DEF ListAsWritten
<1>1. WellWritten
  BY DEF WellWritten
<1>2. ppc = "sizes" /\ HasRead(list, Len(Pieces(text)))
  BY <1>1 DEF ReadInv
<1> QED BY <1>2 DEF HasRead

\* Every list that is written as the documentation says is read without an error, and gives
\* the numbers it names in their order, whatever its length and its numbers.
THEOREM ListIsRead == SpecSizes => []ListAsWritten
<1>1. source \in Sources /\ InitSizes => ReadInv
  BY ReadStart
<1>2. ReadInv /\ [FindSizes]_allSizes => ReadInv'
  BY ReadNext
<1>3. ReadInv => ListAsWritten
  BY ReadAsWritten
<1> QED BY <1>1, <1>2, <1>3, PTL DEF SpecSizes
=============================================================================
