--------------------------- MODULE ScheduleProofs ---------------------------
(***************************************************************************)
(* Proofs about ResultFile, which takes the schedule of ProblemSchedule to *)
(* the file: for every range, accuracy and direction every size is         *)
(* measured as often as it has to be, the lists go from coarse to fine,    *)
(* and a row has the best of its results.                                  *)
(*                                                                         *)
(* What makes the lists of get_new_problems() disjoint is done[], not the  *)
(* arithmetic: the steps 7 and 3 of two calls have 21 in common.  So the   *)
(* invariant says that main() has measured what is done (DoneInv) and how  *)
(* often each size was measured (CountInv).  That a list is never empty    *)
(* before the step is 1, when the counter todo[0] would be lost, follows   *)
(* from FineInv: nothing below the last step is measured yet.  CoverInv    *)
(* says how near the measured sizes are, and for step 1 that none is left. *)
(* The texts of the file need an invariant of their own (TextInv), and     *)
(* facts about bi_fprintf() and the pairs that are independent of states.  *)
(***************************************************************************)
EXTENDS ResultFile, NumberFacts, TLAPS, FiniteSetTheorems, SequenceTheorems

\* What a measurement may return; what is stored of it.
Outcomes == {Number(k) : k \in kernel.values} \cup {INVALID_MEASUREMENT}
Numbers  == [num : Int, den : Int]

TypeOK ==
  /\ kernel \in KERNELS
  /\ todo \in [0 .. max + 1 -> Nat] /\ done \in [0 .. max -> {0, 1}]
  /\ w \in -1 .. ACCURACY /\ v \in 0 .. max + 1
  /\ results \in [Sizes -> [x : Nat, y : Numbers]]
  /\ samples \in [Sizes -> Seq(Outcomes)]
  /\ expired \in BOOLEAN
  /\ pc \in {"list", "round", "entry", "end", "failed"}

\* The positions of the list in front of its terminating 0, and what is listed there.
Listed  == {k \in 1 .. max : \A j \in 1 .. k : todo[j] # 0}
Pending == IF pc \in {"round", "entry"} THEN {todo[k] : k \in Listed} ELSE {}

\* A list is ascending and ends with a 0; main() does not read beyond that.
ListInv ==
  /\ todo[max + 1] = 0
  /\ \A k \in 1 .. max : todo[k] \in 0 .. max
  /\ pc \in {"round", "entry"} => \A j, k \in Listed : j < k => todo[j] < todo[k]
  /\ pc = "entry" => v > 0 /\ \A j \in 1 .. v - 1 : todo[j] # 0

\* main() stores what it measures: the flags of get_new_problems().
DoneInv == step = "measure" => \A s \in Sizes : done[s] = 1 <=> Measured(s)

\* Unless the time is up or the kernel failed, a size is measured once in each round
\* of its list, and in accuracy+1 rounds.
CountInv ==
  /\ pc = "entry" => w < ACCURACY
  /\ ~expired /\ pc # "failed" /\ (step = "measure" \/ pc # "entry") =>
       /\ \A s \in Sizes \ Pending : Measured(s) => Len(samples[s]) = ACCURACY + 1
       /\ pc = "round" => \A s \in Pending : Len(samples[s]) = w + 1
       /\ pc = "entry" => \A k \in Listed :
            Len(samples[todo[k]]) = IF k < v THEN w + 2 ELSE w + 1

\* done[0] says that the step was 1.
CallInv ==
  pc # "end" /\ done[0] = 1 => todo[0] > 0 /\ Stepsize(todo[0]) = 1

\* As long as it was not, no size below max/2^n was listed in the first n calls.
FineInv ==
  done[0] = 0 => \A s \in Sizes : Measured(s) \/ s \in Pending => s >= max \div 2^todo[0]

\* Every multiple of the step that a list takes is measured or listed; max may be left
\* to a later list.
CoverInv ==
  /\ pc \in {"list", "round", "entry"} /\ ~expired /\ todo[0] > 0 =>
       \A s \in Grid(Stepsize(todo[0])) :
         Measured(s) \/ s \in Pending \/ (s = max /\ Stepsize(todo[0]) # 1)
  /\ pc = "end" /\ ~expired => \A s \in Sizes : Measured(s)

\* The result of a measured size has that size, and is one of its best; half is the
\* size whose result a signal kept from being stored completely.
ResultInv ==
  /\ step = "measure" => half = 0
  /\ \A s \in Sizes :
       /\ results[s].x = IF Measured(s) /\ s # half THEN s ELSE 0
       /\ Measured(s) /\ s # half => IsRowOf(results[s], s)

\* A file is complete when the report is past it, and then has what print_results made.
FileInv ==
  /\ DOMAIN file = DOMAIN NoFile
  /\ file.state = "complete" => step \in {"quickview", "done", "crashed"} /\ file.rows = Printed

IInv == TypeOK /\ ListInv /\ DoneInv /\ CountInv /\ CallInv /\ FineInv /\ CoverInv
          /\ ResultInv /\ FileInv
----------------------------------------------------------------------------
(***************************************************************************)
(* Numbers: powers of two, division.                                       *)
(***************************************************************************)
\* Each power of two is twice the one before: so many subsets there are.
LEMMA PowerOfTwo ==
  ASSUME NEW c \in Nat
  PROVE  2^c \in Nat \ {0} /\ 2^(c + 1) = 2 * 2^c
<1> DEFINE A == SUBSET (1 .. c)
           B == {T \cup {c + 1} : T \in A}
           f == [T \in A |-> T \cup {c + 1}]
<1>1. IsFiniteSet(A) /\ Cardinality(A) = 2^c
  <2>1. IsFiniteSet(1 .. c) /\ Cardinality(1 .. c) = c
    BY FS_Interval
  <2> QED BY <2>1, FS_SUBSET
<1>2. IsFiniteSet(SUBSET (1 .. c + 1)) /\ Cardinality(SUBSET (1 .. c + 1)) = 2^(c + 1)
  <2>1. IsFiniteSet(1 .. c + 1) /\ Cardinality(1 .. c + 1) = c + 1
    BY FS_Interval
  <2> QED BY <2>1, FS_SUBSET
<1>3. SUBSET (1 .. c + 1) = A \cup B
  <2>1. ASSUME NEW S \in SUBSET (1 .. c + 1), c + 1 \in S PROVE S \in B
    <3>1. S \ {c + 1} \in A /\ S = (S \ {c + 1}) \cup {c + 1}
      BY <2>1
    <3> QED BY <3>1
  <2>2. ASSUME NEW S \in SUBSET (1 .. c + 1), c + 1 \notin S PROVE S \in A
    BY <2>2
  <2>3. \A T \in A : T \in SUBSET (1 .. c + 1) /\ T \cup {c + 1} \in SUBSET (1 .. c + 1)
    OBVIOUS
  <2>4. \A S \in B : S \in SUBSET (1 .. c + 1)
    BY ZenonT(30), <2>3
  <2> HIDE DEF A, B
  <2>5. A \cup B \subseteq SUBSET (1 .. c + 1)
    BY <2>3, <2>4
  <2> QED BY <2>1, <2>2, <2>5
<1>4. A \cap B = {}
  OBVIOUS
<1>5. f \in Bijection(A, B)
  <2>1. f \in [A -> B]
    OBVIOUS
  <2>2. \A S, T \in A : f[S] = f[T] => S = T
    <3> SUFFICES ASSUME NEW S \in A, NEW T \in A, f[S] = f[T] PROVE S = T
      OBVIOUS
    <3>1. S \cup {c + 1} = T \cup {c + 1} /\ c + 1 \notin S /\ c + 1 \notin T
      OBVIOUS
    <3> QED BY <3>1
  <2>3. \A U \in B : \E T \in A : f[T] = U
    OBVIOUS
  <2> QED BY <2>1, <2>2, <2>3 DEF Bijection, Injection, Surjection, IsInjective
<1>6. IsFiniteSet(B) /\ Cardinality(B) = 2^c
  BY <1>1, <1>5, FS_Bijection DEF ExistsBijection
<1>7. 2^c \in Nat \ {0}
  <2>1. {} \in A
    OBVIOUS
  <2> HIDE DEF A
  <2> QED BY <1>1, <2>1, FS_CardinalityType, FS_EmptySet
<1>8. Cardinality(A \cup B) = 2 * 2^c
  <2> HIDE DEF A, B, f
  <2> QED BY <1>1, <1>4, <1>6, <1>7, FS_Union, FS_EmptySet
<1> QED BY <1>2, <1>3, <1>7, <1>8 DEF A, B

\* Halving the range once more at least halves the step.
LEMMA Halving ==
  ASSUME NEW m \in Nat, NEW c \in Nat
  PROVE  m \div 2^c \in Nat /\ 2 * (m \div 2^(c + 1)) <= m \div 2^c
<1> DEFINE p == 2^c
<1>1. p \in Nat \ {0} /\ 2^(c + 1) = 2 * p
  BY PowerOfTwo
<1> HIDE DEF p
<1>2. m \div p \in Nat /\ 2 * (m \div (2 * p)) <= m \div p
  BY <1>1
<1> QED BY <1>1, <1>2 DEF p

\* The remainder, known from the multiple below a number.
LEMMA Remainder ==
  ASSUME NEW d \in Nat \ {0}, NEW q \in Nat, NEW r \in 0 .. d - 1, NEW a \in Nat,
         a = d * q + r
  PROVE  a % d = r
OBVIOUS
----------------------------------------------------------------------------
(***************************************************************************)
(* The elements of a set in ascending order, by the number of those that   *)
(* are not greater.                                                        *)
(***************************************************************************)
UpTo(S, i)  == {j \in S : j <= i}
Count(S, i) == Cardinality(UpTo(S, i))

\* Counts are natural numbers, 0 in front of the set and at most its size.
LEMMA CountType ==
  ASSUME NEW m \in Nat, NEW S, \A e \in S : e \in 1 .. m
  PROVE  /\ IsFiniteSet(S) /\ Cardinality(S) \in 0 .. m
         /\ \A i \in Nat : IsFiniteSet(UpTo(S, i)) /\ Count(S, i) \in 0 .. Cardinality(S)
         /\ Count(S, 0) = 0 /\ Count(S, m) = Cardinality(S)
<1>1. IsFiniteSet(1 .. m) /\ Cardinality(1 .. m) = m
  BY FS_Interval
<1>2. IsFiniteSet(S) /\ Cardinality(S) <= m
  <2>1. S \in SUBSET (1 .. m)
    OBVIOUS
  <2> QED BY <1>1, <2>1, FS_Subset
<1>3. Cardinality(S) \in Nat
  BY <1>2, FS_CardinalityType
<1>4. ASSUME NEW i \in Nat
      PROVE  IsFiniteSet(UpTo(S, i)) /\ Count(S, i) \in 0 .. Cardinality(S)
  <2>1. UpTo(S, i) \in SUBSET S
    BY DEF UpTo
  <2>2. IsFiniteSet(UpTo(S, i)) /\ Cardinality(UpTo(S, i)) <= Cardinality(S)
    BY <1>2, <2>1, FS_Subset
  <2> QED BY <1>3, <2>2, FS_CardinalityType DEF Count
<1>5. UpTo(S, 0) = {} /\ UpTo(S, m) = S
  BY DEF UpTo
<1> QED BY <1>1, <1>2, <1>3, <1>4, <1>5, FS_EmptySet DEF Count

\* A step further counts one more, if there is one.
LEMMA CountStep ==
  ASSUME NEW m \in Nat, NEW S, \A e \in S : e \in 1 .. m, NEW i \in Nat
  PROVE  Count(S, i + 1) = IF i + 1 \in S THEN Count(S, i) + 1 ELSE Count(S, i)
<1>1. CASE i + 1 \in S
  <2>1. UpTo(S, i + 1) = UpTo(S, i) \cup {i + 1} /\ i + 1 \notin UpTo(S, i)
    BY <1>1 DEF UpTo
  <2>2. IsFiniteSet(UpTo(S, i))
    BY CountType
  <2> QED BY <1>1, <2>1, <2>2, FS_AddElement DEF Count
<1>2. CASE i + 1 \notin S
  <2>1. UpTo(S, i + 1) = UpTo(S, i)
    BY <1>2 DEF UpTo
  <2> QED BY <1>2, <2>1 DEF Count
<1> QED BY <1>1, <1>2

\* A greater element of the set has a greater count.
LEMMA CountGrows ==
  ASSUME NEW m \in Nat, NEW S, \A e \in S : e \in 1 .. m, NEW i \in S, NEW j \in S, i < j
  PROVE  Count(S, i) < Count(S, j)
<1>1. UpTo(S, i) \in SUBSET UpTo(S, j) /\ j \in UpTo(S, j) /\ j \notin UpTo(S, i)
  BY DEF UpTo
<1>2. IsFiniteSet(UpTo(S, j)) /\ Count(S, i) \in Nat /\ Count(S, j) \in Nat
  <2>1. i \in Nat /\ j \in Nat
    OBVIOUS
  <2>2. IsFiniteSet(S) /\ Cardinality(S) \in Nat
    BY CountType
  <2>3. \A k \in Nat : IsFiniteSet(UpTo(S, k)) /\ Count(S, k) \in 0 .. Cardinality(S)
    BY CountType
  <2> QED BY <2>1, <2>2, <2>3
<1> QED BY <1>1, <1>2, FS_Subset DEF Count

\* Every place in the order is taken by one element.
LEMMA NthElement ==
  ASSUME NEW m \in Nat, NEW S, \A e \in S : e \in 1 .. m, NEW k \in 1 .. Cardinality(S)
  PROVE  Nth(S, k) \in S /\ Count(S, Nth(S, k)) = k
<1> DEFINE T == {i \in Nat : Count(S, i) >= k}
<1>0. k \in Nat /\ k > 0 /\ k <= Cardinality(S)
  BY CountType
<1>1. m \in T /\ T \in SUBSET Nat
  BY <1>0, CountType
<1>2. PICK i \in T : \A j \in T : i <= j
  BY <1>1, LeastNumber
<1>3. i \in Nat /\ Count(S, i) >= k /\ i # 0
  BY <1>0, CountType
<1>4. Count(S, i - 1) < k
  <2>1. i - 1 \in Nat /\ i - 1 \notin T
    BY <1>2, <1>3
  <2>2. Count(S, i - 1) \in Nat
    BY <2>1, CountType
  <2> QED BY <1>0, <2>1, <2>2
<1>5. i \in S /\ Count(S, i) = k
  <2>1. i - 1 \in Nat /\ (i - 1) + 1 = i
    BY <1>3
  <2>2. Count(S, i) = IF i \in S THEN Count(S, i - 1) + 1 ELSE Count(S, i - 1)
    BY <2>1, CountStep
  <2>3. Count(S, i - 1) \in Nat /\ Count(S, i) \in Nat
    BY <1>3, <2>1, CountType
  <2> QED BY <1>0, <1>3, <1>4, <2>2, <2>3
<1> QED BY <1>5 DEF Nth, Count, UpTo

\* In ascending order.
LEMMA NthAscends ==
  ASSUME NEW m \in Nat, NEW S, \A e \in S : e \in 1 .. m,
         NEW k \in 1 .. Cardinality(S), NEW l \in 1 .. Cardinality(S), k < l
  PROVE  Nth(S, k) < Nth(S, l)
<1>1. Nth(S, k) \in S /\ Nth(S, l) \in S
  BY NthElement
<1>2. Count(S, Nth(S, k)) = k /\ Count(S, Nth(S, l)) = l
  BY NthElement
<1>3. k \in Nat /\ l \in Nat
  BY CountType
<1>4. CASE Nth(S, l) < Nth(S, k)
  BY <1>1, <1>2, <1>3, <1>4, CountGrows
<1>5. CASE Nth(S, l) = Nth(S, k)
  BY <1>2, <1>3, <1>5
<1> QED BY <1>1, <1>4, <1>5

\* Every element has a place in the order.
LEMMA NthCovers ==
  ASSUME NEW m \in Nat, NEW S, \A e \in S : e \in 1 .. m, NEW i \in S
  PROVE  \E k \in 1 .. Cardinality(S) : Nth(S, k) = i
<1>1. i \in Nat /\ Count(S, i) \in 0 .. Cardinality(S)
  <2>1. i \in Nat
    OBVIOUS
  <2> QED BY <2>1, CountType
<1>2. Count(S, i) # 0
  <2>1. i \in UpTo(S, i)
    BY DEF UpTo
  <2>2. IsFiniteSet(UpTo(S, i))
    BY <1>1, CountType
  <2> QED BY <2>1, <2>2, FS_EmptySet DEF Count
<1> DEFINE k == Count(S, i)
<1>3. k \in 1 .. Cardinality(S)
  BY <1>1, <1>2, CountType
<1>4. Nth(S, k) \in S /\ Count(S, Nth(S, k)) = Count(S, i)
  <2> HIDE DEF k
  <2>1. Nth(S, k) \in S /\ Count(S, Nth(S, k)) = k
    BY <1>3, NthElement
  <2> QED BY <2>1 DEF k
<1>5. \A a, b \in S : a < b => Count(S, a) < Count(S, b)
  BY CountGrows
<1>6. \A a \in S : a \in Nat /\ Count(S, a) \in Int
  <2>1. \A a \in S : a \in Nat
    OBVIOUS
  <2>2. Cardinality(S) \in Nat /\ \A a \in Nat : Count(S, a) \in 0 .. Cardinality(S)
    BY CountType
  <2> QED BY <2>1, <2>2
<1>7. Nth(S, k) = i
  <2> HIDE DEF k
  <2> QED BY <1>4, <1>5, <1>6
<1> QED BY <1>3, <1>7
----------------------------------------------------------------------------
(***************************************************************************)
(* The lists of get_new_problems().                                        *)
(***************************************************************************)
\* The range of sizes is not empty.
LEMMA RangeType ==
  ASSUME TypeOK
  PROVE  max \in Nat \ {0} /\ \A s \in Sizes : s \in Nat /\ 0 < s /\ s <= max
BY ScheduleAssumption DEF TypeOK, Kernels, max, Sizes

\* The stepsize is positive; unless it is 1 it is a half of the range or less.
LEMMA StepsizeType ==
  ASSUME max \in Nat \ {0}, NEW c \in Nat
  PROVE  /\ Stepsize(c + 1) \in Nat \ {0}
         /\ Stepsize(c + 1) # 1 =>
              2 * Stepsize(c + 1) <= max /\ Stepsize(c + 1) = max \div 2^(c + 1)
<1> DEFINE a == max \div 2^c  b == max \div 2^(c + 1)
<1>1. a \in Nat /\ b \in Nat /\ 2 * b <= a
  BY Halving
<1>2. a <= max
  <2> DEFINE p == 2^c
  <2>1. p \in Nat \ {0}
    BY PowerOfTwo
  <2> HIDE DEF p
  <2>2. max \div p <= max
    BY <2>1
  <2> QED BY <2>2 DEF p
<1>3. Stepsize(c + 1) = IF 20 * b < max THEN 1 ELSE b
  BY DEF Stepsize
<1> HIDE DEF a, b
<1>4. Stepsize(c + 1) \in Nat \ {0} /\ (Stepsize(c + 1) # 1 => 2 * Stepsize(c + 1) <= max)
  BY <1>1, <1>2, <1>3
<1> QED BY <1>3, <1>4 DEF b

\* The odd multiples of s.
LEMMA OddMultiple ==
  ASSUME NEW s \in Nat \ {0}, NEW q \in Nat
  PROVE  (s + (2 * s) * q) % (2 * s) = s
<1> DEFINE d == 2 * s  a == s + (2 * s) * q
<1>1. d \in Nat \ {0} /\ s \in 0 .. d - 1 /\ a \in Nat /\ a = d * q + s
  OBVIOUS
<1>2. a % d = s
  <2> HIDE DEF d, a
  <2> QED BY <1>1, Remainder
<1> QED BY <1>2

\* Every size is within two steps of a multiple that a list takes; it need not be the
\* largest size, unless the step is 1.
LEMMA GridIsNear ==
  ASSUME max \in Nat \ {0}, NEW s \in Nat \ {0}, s = 1 \/ 2 * s <= max, NEW i \in Sizes
  PROVE  \E g \in Grid(s) : (g = max => s = 1) /\ i - g <= 2 * s /\ g - i <= 2 * s
<1>0. i \in Nat /\ 0 < i /\ i <= max
  BY DEF Sizes
<1>1. CASE s = 1
  <2>1. i \in Grid(s)
    BY <1>1 DEF Grid
  <2> QED BY <1>0, <1>1, <2>1
<1> SUFFICES ASSUME s # 1 PROVE \E g \in Grid(s) : g # max /\ i - g <= 2 * s /\ g - i <= 2 * s
  BY <1>1
<1>2. \A q \in Nat : LET a == s + (2 * s) * q IN a <= max => a \in Grid(s)
  <2> SUFFICES ASSUME NEW q \in Nat, s + (2 * s) * q <= max PROVE s + (2 * s) * q \in Grid(s)
    OBVIOUS
  <2>1. s + (2 * s) * q \in Sizes
    BY DEF Sizes
  <2>2. (s + (2 * s) * q) % (2 * s) = s
    BY OddMultiple
  <2> QED BY <2>1, <2>2 DEF Grid
<1>3. s \in Grid(s) /\ s < max
  <2>1. s + (2 * s) * 0 = s /\ s < max /\ 0 \in Nat
    OBVIOUS
  <2> QED BY <1>2, <2>1
<1>4. CASE i < s
  BY <1>0, <1>3, <1>4
<1>5. CASE i >= s
  <2> DEFINE d == 2 * s  q == (i - s) \div d  a == s + d * q
  <2>1. q \in Nat /\ d * q <= i - s /\ i - s < d * q + d
    <3>1. d \in Nat \ {0} /\ i - s \in Nat
      BY <1>0, <1>5
    <3> HIDE DEF d
    <3>2. q \in Nat /\ d * q <= i - s /\ i - s < d * (q + 1)
      BY <3>1
    <3>3. d * (q + 1) = d * q + d
      BY <3>1, <3>2
    <3> QED BY <3>2, <3>3
  <2>2. a \in Nat /\ a <= i /\ i < a + d /\ a \in Grid(s)
    <3> HIDE DEF q
    <3> QED BY <1>0, <1>2, <2>1
  <2>3. CASE a # max
    <3> HIDE DEF q, a
    <3> QED BY <1>0, <2>2, <2>3
  <2>4. CASE a = max
    <3>1. q # 0
      <4> HIDE DEF q
      <4> QED BY <1>3, <2>1, <2>4
    <3> DEFINE g == s + d * (q - 1)
    <3>2. g = a - d /\ g \in Nat /\ q - 1 \in Nat
      <4> HIDE DEF q
      <4> QED BY <2>1, <3>1
    <3>3. g <= max
      <4> HIDE DEF a, g, q
      <4> QED BY <1>0, <2>2, <3>2
    <3>4. g \in Grid(s)
      <4> HIDE DEF a, q
      <4> QED BY <1>2, <3>2, <3>3
    <3>5. i - g <= 2 * s /\ g - i <= 2 * s /\ g # max
      <4> HIDE DEF a, q, g
      <4> QED BY <1>0, <2>2, <2>4, <3>2
    <3> QED BY <3>4, <3>5
  <2> QED BY <2>3, <2>4
<1> QED BY <1>0, <1>4, <1>5

\* What Filled() stores: the call, the sizes in order, and a 0 behind them.
LEMMA FilledList ==
  ASSUME TypeOK, ListInv, NEW c \in Nat, NEW S, \A e \in S : e \in 1 .. max
  PROVE  LET list == Filled(c, S)
             card == Cardinality(S) IN
         /\ card \in 0 .. max
         /\ list \in [0 .. max + 1 -> Nat] /\ list[0] = c
         /\ \A k \in 1 .. card : list[k] = Nth(S, k) /\ list[k] \in S
         /\ list[card + 1] = 0 /\ list[max + 1] = 0
         /\ \A k \in 1 .. max : list[k] \in 0 .. max
<1> DEFINE list == Filled(c, S)  card == Cardinality(S)
<1>1. max \in Nat \ {0} /\ max + 1 \in Nat
  BY RangeType
<1>2. card \in 0 .. max
  BY <1>1, CountType
<1>3. \A k \in 1 .. card : Nth(S, k) \in S
  BY <1>1, NthElement
<1>4. /\ DOMAIN todo = 0 .. max + 1
      /\ \A k \in 0 .. max + 1 : todo[k] \in Nat
      /\ todo[max + 1] = 0 /\ \A k \in 1 .. max : todo[k] \in 0 .. max
  BY DEF TypeOK, ListInv
<1>5. list = [k \in 0 .. max + 1 |->
                IF k = 0 THEN c ELSE IF k <= card THEN Nth(S, k)
                ELSE IF k = card + 1 THEN 0 ELSE todo[k]]
  BY <1>4 DEF Filled
<1> HIDE DEF list, card
<1>6. \A k \in 1 .. card : k \in 0 .. max + 1 /\ list[k] = Nth(S,
      k) /\ list[k] \in S /\ list[k] \in 1 .. max
  BY <1>1, <1>2, <1>3, <1>5
<1>7. list[0] = c /\ list[card + 1] = 0 /\ list[max + 1] = 0
  BY <1>1, <1>2, <1>4, <1>5
<1>8. ASSUME NEW k \in 1 .. max PROVE list[k] \in 0 .. max
  <2>1. CASE k <= card
    <3>1. k \in 1 .. card
      BY <1>2, <2>1
    <3> QED BY <1>6, <3>1
  <2>2. CASE k > card
    <3>1. list[k] = IF k = card + 1 THEN 0 ELSE todo[k]
      BY <1>1, <1>2, <1>5, <2>2
    <3> QED BY <1>1, <1>4, <3>1
  <2> QED BY <1>2, <2>1, <2>2
<1>9. list \in [0 .. max + 1 -> Nat]
  <2>1. \A k \in 0 .. max + 1 : k = 0 \/ k \in 1 .. max \/ k = max + 1
    BY <1>1
  <2>2. \A k \in 0 .. max + 1 : list[k] \in Nat
    BY <1>1, <1>7, <1>8, <2>1
  <2> QED BY <1>5, <2>2
<1> QED BY <1>2, <1>6, <1>7, <1>8, <1>9 DEF list, card

\* As long as sizes are handed out with steps, the first one is new: all that are
\* measured are at least as large as the step before.
LEMMA ListNotEmpty ==
  ASSUME TypeOK, DoneInv, FineInv, step = "measure", done[0] = 0,
         Stepsize(todo[0] + 1) # 1
  PROVE  Stepsize(todo[0] + 1) \in Open(Stepsize(todo[0] + 1))
<1> DEFINE s == Stepsize(todo[0] + 1)
<1>1. max \in Nat \ {0} /\ todo[0] \in Nat
  BY RangeType DEF TypeOK
<1>2. s \in Nat \ {0} /\ 2 * s <= max /\ s = max \div 2^(todo[0] + 1)
  BY <1>1, StepsizeType
<1>3. max \div 2^todo[0] \in Nat /\ 2 * s <= max \div 2^todo[0]
  BY <1>1, <1>2, Halving
<1> HIDE DEF s
<1>4. s \in Sizes /\ s < max \div 2^todo[0]
  BY <1>1, <1>2, <1>3 DEF Sizes
<1>5. done[s] # 1
  BY <1>2, <1>3, <1>4 DEF DoneInv, FineInv
<1>6. s \in Grid(s)
  <2>1. (s + (2 * s) * 0) % (2 * s) = s
    BY <1>2, OddMultiple
  <2>2. s + (2 * s) * 0 = s
    BY <1>2
  <2> QED BY <1>4, <2>1, <2>2 DEF Grid
<1> QED BY <1>5, <1>6 DEF Open, s

\* The list that get_new_problems() returns, by its length.
IsList(list, len) ==
  /\ list[len + 1] = 0
  /\ \A k \in 1 .. len : list[k] # 0
  /\ \A j, k \in 1 .. len : j < k => list[j] < list[k]

\* A new list: open multiples of the step in ascending order, and every one of them,
\* but for the largest size.
LEMMA NewList ==
  ASSUME TypeOK, ListInv, DoneInv, FineInv, step = "measure", done[0] = 0,
         GetNewProblems(todo[0] + 1)
  PROVE  LET s == Stepsize(todo[0] + 1) IN
         /\ todo' \in [0 .. max + 1 -> Nat]
         /\ todo'[0] = todo[0] + 1 /\ todo'[max + 1] = 0
         /\ \A k \in 1 .. max : todo'[k] \in 0 .. max
         /\ done' = IF s = 1 THEN [done EXCEPT ![0] = 1] ELSE done
         /\ \E len \in 0 .. max :
              /\ IsList(todo', len)
              /\ \A k \in 1 .. len : todo'[k] \in Open(s)
              /\ \A i \in Open(s) : (\E k \in 1 .. len : todo'[k] = i) \/ (i = max /\ s # 1)
<1> DEFINE s    == Stepsize(todo[0] + 1)
           S    == Open(s)
           list == Filled(todo[0] + 1, S)
           card == Cardinality(S)
<1>1. max \in Nat \ {0} /\ todo[0] + 1 \in Nat /\ max + 1 \in Nat
  BY RangeType DEF TypeOK
<1>2. S \subseteq Sizes
  BY DEF Open, Grid
<1>3. \A e \in S : e \in 1 .. max
  BY <1>2 DEF Sizes
<1>4. todo' = (IF s = 1 THEN list ELSE WithoutMax(list, S))
  BY DEF GetNewProblems
<1>5. done' = IF s = 1 THEN [done EXCEPT ![0] = 1] ELSE done
  BY DEF GetNewProblems
<1>6. s # 1 => s \in S /\ s \in Nat \ {0} /\ s < max
  BY <1>1, ListNotEmpty, StepsizeType DEF TypeOK
<1> HIDE DEF s, S
<1>7. /\ card \in 0 .. max
      /\ list \in [0 .. max + 1 -> Nat] /\ list[0] = todo[0] + 1
      /\ \A k \in 1 .. card : list[k] = Nth(S, k) /\ list[k] \in S
      /\ list[card + 1] = 0 /\ list[max + 1] = 0
      /\ \A k \in 1 .. max : list[k] \in 0 .. max
  BY <1>1, <1>3, FilledList
<1>8. \A j, k \in 1 .. card : j < k => list[j] < list[k]
  <2>1. \A j, k \in 1 .. card : j < k => Nth(S, j) < Nth(S, k)
    BY <1>1, <1>3, NthAscends
  <2> QED BY <1>7, <2>1
<1>9. \A i \in S : \E k \in 1 .. card : list[k] = i
  <2>1. \A i \in S : \E k \in 1 .. card : Nth(S, k) = i
    BY <1>1, <1>3, NthCovers
  <2> QED BY <1>7, <2>1
<1> HIDE DEF list, card
<1>10. CASE s = 1 \/ list[card] # max
  <2>1. todo' = list
    BY <1>4, <1>10 DEF WithoutMax, list, card
  <2>2. IsList(todo', card)
    BY <1>3, <1>7, <1>8, <2>1 DEF IsList
  <2>3. card \in 0 .. max
    BY <1>7
  <2>4. \A i \in S : (\E k \in 1 .. card : todo'[k] = i) \/ (i = max /\ s # 1)
    BY <1>9, <2>1
  <2>5. \A k \in 1 .. card : todo'[k] \in S
    BY <1>7, <2>1
  <2>6. \E len \in 0 .. max :
          /\ IsList(todo', len)
          /\ \A k \in 1 .. len : todo'[k] \in S
          /\ \A i \in S : (\E k \in 1 .. len : todo'[k] = i) \/ (i = max /\ s # 1)
    BY <2>2, <2>3, <2>4, <2>5
  <2> QED BY <1>5, <1>7, <2>1, <2>6 DEF s, S
<1>11. CASE s # 1 /\ list[card] = max
  <2>1. todo' = [list EXCEPT ![card] = 0]
    BY <1>4, <1>11 DEF WithoutMax, list, card
  <2>2. card # 0
    <3>1. PICK k \in 1 .. card : list[k] = s
      BY <1>6, <1>9, <1>11
    <3> QED BY <1>7, <3>1
  <2>3. card \in 1 .. max /\ card - 1 \in 0 .. max
    BY <1>1, <1>7, <2>2
  <2>4. \A k \in 1 .. card - 1 : k \in 1 .. card /\ k # card
    BY <2>3
  <2>5. \A k \in 0 .. max + 1 : todo'[k] = IF k = card THEN 0 ELSE list[k]
    BY <1>7, <2>1, <2>3
  <2>6. /\ todo' \in [0 .. max + 1 -> Nat]
        /\ todo'[0] = todo[0] + 1 /\ todo'[max + 1] = 0
        /\ \A k \in 1 .. max : todo'[k] \in 0 .. max
    <3>1. todo' \in [0 .. max + 1 -> Nat]
      BY <1>7, <2>1
    <3>2. todo'[0] = todo[0] + 1 /\ todo'[max + 1] = 0
      BY <1>1, <1>7, <2>3, <2>5
    <3>3. \A k \in 1 .. max : todo'[k] \in 0 .. max
      BY SMTT(30), <1>1, <1>7, <2>5
    <3> QED BY <3>1, <3>2, <3>3
  <2>7. \A k \in 1 .. card - 1 : todo'[k] = list[k] /\ k \in 1 .. card
    BY <1>1, <2>3, <2>4, <2>5
  <2>8. IsList(todo', card - 1)
    <3>1. (card - 1) + 1 = card /\ todo'[card] = 0
      BY <1>1, <2>3, <2>5
    <3>2. \A k \in 1 .. card - 1 : todo'[k] # 0
      <4> SUFFICES ASSUME NEW k \in 1 .. card - 1 PROVE todo'[k] # 0
        OBVIOUS
      <4>1. todo'[k] = list[k] /\ list[k] \in S
        BY <1>7, <2>7
      <4> QED BY <1>3, <4>1
    <3>3. \A j, k \in 1 .. card - 1 : j < k => todo'[j] < todo'[k]
      BY <1>8, <2>7
    <3> QED BY <3>1, <3>2, <3>3 DEF IsList
  <2>9. \A k \in 1 .. card - 1 : todo'[k] \in S
    BY <1>7, <2>7
  <2>10. \A i \in S : (\E k \in 1 .. card - 1 : todo'[k] = i) \/ (i = max /\ s # 1)
    <3> SUFFICES ASSUME NEW i \in S, i # max PROVE \E k \in 1 .. card - 1 : todo'[k] = i
      BY <1>11
    <3>1. PICK k \in 1 .. card : list[k] = i
      BY <1>9
    <3>2. k \in 1 .. card - 1
      BY <1>11, <2>3, <3>1
    <3> QED BY <2>7, <3>1, <3>2
  <2>11. \E len \in 0 .. max :
          /\ IsList(todo', len)
          /\ \A k \in 1 .. len : todo'[k] \in S
          /\ \A i \in S : (\E k \in 1 .. len : todo'[k] = i) \/ (i = max /\ s # 1)
    BY <2>3, <2>8, <2>9, <2>10
  <2> QED BY <1>5, <2>6, <2>11 DEF s, S
<1> QED BY <1>10, <1>11

\* The multiples that a list takes begin with the step itself.
LEMMA GridFromStep ==
  ASSUME max \in Nat \ {0}, NEW s \in Nat \ {0}, NEW i \in Grid(s)
  PROVE  i \in Sizes /\ i >= s
<1>1. i \in Sizes /\ i \in Nat /\ i > 0 /\ (s # 1 => i % (2 * s) = s)
  BY DEF Grid, Sizes
<1>2. ASSUME s # 1, i < s PROVE FALSE
  <2> DEFINE d == 2 * s
  <2>1. d \in Nat \ {0} /\ i \in 0 .. d - 1 /\ 0 \in Nat /\ i = d * 0 + i
    BY <1>1, <1>2
  <2>2. i % d = i
    <3> HIDE DEF d
    <3> QED BY <1>1, <2>1, Remainder
  <2>3. i % d = s
    BY <1>1, <1>2
  <2> HIDE DEF d
  <2> QED BY <1>1, <1>2, <2>2, <2>3
<1> QED BY <1>1, <1>2
----------------------------------------------------------------------------
(***************************************************************************)
(* What a state of the loop says about the sizes.                          *)
(***************************************************************************)
\* A measured size has a sample.
LEMMA MeasuredLength ==
  ASSUME TypeOK
  PROVE  \A s \in Sizes : Len(samples[s]) \in Nat /\ (Measured(s) <=> Len(samples[s]) > 0)
<1> SUFFICES ASSUME NEW s \in Sizes
             PROVE  Len(samples[s]) \in Nat /\ (Measured(s) <=> Len(samples[s]) > 0)
  OBVIOUS
<1>1. samples[s] \in Seq(Outcomes)
  BY DEF TypeOK
<1> HIDE DEF Outcomes
<1>2. Len(samples[s]) \in Nat /\ (samples[s] = <<>> <=> Len(samples[s]) = 0)
  BY <1>1
<1> QED BY <1>2 DEF Measured

\* The listed sizes, each at one position.
LEMMA ListedSizes ==
  ASSUME TypeOK, ListInv, pc \in {"round", "entry"}
  PROVE  /\ Listed \subseteq 1 .. max
         /\ \A k \in Listed : todo[k] \in Sizes /\ todo[k] \in Pending
         /\ \A j, k \in Listed : todo[j] = todo[k] => j = k
         /\ \A s \in Pending : \E k \in Listed : todo[k] = s
<1>1. max \in Nat \ {0}
  BY RangeType
<1>2. \A k \in Listed : k \in 1 .. max /\ todo[k] # 0 /\ todo[k] \in 0 .. max
  <2> SUFFICES ASSUME NEW k \in Listed
               PROVE  k \in 1 .. max /\ todo[k] # 0 /\ todo[k] \in 0 .. max
    OBVIOUS
  <2>1. k \in 1 .. max /\ k \in 1 .. k
    BY <1>1 DEF Listed
  <2> QED BY <2>1 DEF Listed, ListInv
<1>3. \A j, k \in Listed : todo[j] = todo[k] => j = k
  <2> SUFFICES ASSUME NEW j \in Listed, NEW k \in Listed, todo[j] = todo[k] PROVE j = k
    OBVIOUS
  <2>1. ~(j < k) /\ ~(k < j)
    BY <1>2 DEF ListInv
  <2> QED BY <1>2, <2>1
<1>4. \A k \in Listed : todo[k] \in Sizes
  BY <1>1, <1>2 DEF Sizes
<1>5. Pending = {todo[k] : k \in Listed}
  BY DEF Pending
<1> QED BY <1>2, <1>3, <1>4, <1>5

\* Where main() is in its list.
LEMMA EntryPosition ==
  ASSUME TypeOK, ListInv, pc = "entry"
  PROVE  /\ v \in 1 .. max + 1
         /\ todo[v] # 0 => v \in Listed
         /\ todo[v] = 0 => \A k \in Listed : k < v
<1>1. max \in Nat \ {0} /\ v \in 1 .. max + 1
  BY RangeType DEF TypeOK, ListInv
<1>2. \A j \in 1 .. v - 1 : todo[j] # 0
  BY DEF ListInv
<1>3. ASSUME todo[v] # 0 PROVE v \in Listed
  <2>1. v # max + 1
    BY <1>3 DEF ListInv
  <2>2. \A j \in 1 .. v : todo[j] # 0
    BY <1>1, <1>2, <1>3
  <2> QED BY <1>1, <2>1, <2>2 DEF Listed
<1>4. ASSUME todo[v] = 0, NEW k \in Listed PROVE k < v
  <2>1. k \in 1 .. max /\ \A j \in 1 .. k : todo[j] # 0
    BY DEF Listed
  <2> QED BY <1>1, <1>4, <2>1
<1> QED BY <1>1, <1>3, <1>4

\* What depends on the kernel alone, and what the report leaves as it is.
LEMMA SameKernel ==
  ASSUME kernel' = kernel
  PROVE  /\ max' = max /\ Sizes' = Sizes /\ Outcomes' = Outcomes
         /\ \A c : Stepsize(c)' = Stepsize(c)
         /\ \A s : Grid(s)' = Grid(s)
BY DEF max, Sizes, Outcomes, Stepsize, Grid

\* What a step does not touch keeps the results right.
LEMMA SameResults ==
  ASSUME ResultInv, UNCHANGED <<kernel, results, samples, half>>,
  step' = "measure" => step = "measure"
  PROVE  ResultInv'
<1>1. Sizes' = Sizes
  BY SameKernel
<1>2. ASSUME NEW s \in Sizes
      PROVE  /\ (Measured(s) <=> Measured(s)')
             /\ IsRowOf(results[s], s) => IsRowOf(results[s], s)'
  BY DEF Measured, IsRowOf, Valid, Better, direction
<1> QED BY <1>1, <1>2 DEF ResultInv

\* Before the report there is no file.
LEMMA NoFileYet ==
  ASSUME FileInv, step = "measure", file' = file
  PROVE  FileInv'
BY DEF FileInv, NoFile

\* The invariant holds at the start.
LEMMA InitInvariant == InitReport => IInv
<1> SUFFICES ASSUME InitReport PROVE IInv
  OBVIOUS
<1> USE DEF InitReport, Init
<1>0. max \in Nat \ {0} /\ kernel \in KERNELS
  BY ScheduleAssumption DEF Kernels, max
<1>1. TypeOK
  <2>1. NotMeasured \in [x : Nat, y : Numbers]
    BY DEF NotMeasured, Number, Numbers
  <2>2. \A s \in Sizes : samples[s] = <<>> /\ samples[s] \in Seq(Outcomes)
    <3> HIDE DEF Outcomes
    <3> QED OBVIOUS
  <2> QED BY SMTT(30), <1>0, <2>1, <2>2, ScheduleAssumption DEF TypeOK
<1>2. ListInv
  BY <1>0 DEF ListInv
<1>3. \A s \in Sizes : ~Measured(s) /\ done[s] = 0 /\ results[s].x = 0
  BY <1>0 DEF Measured, Sizes, NotMeasured
<1>4. pc = "list" /\ todo[0] = 0 /\ done[0] = 0 /\ Pending = {}
  BY <1>0 DEF Pending
<1>5. DoneInv /\ CountInv /\ CallInv /\ FineInv /\ CoverInv
  <2>1. DoneInv /\ CallInv
    <3>1. DoneInv
      <4> HIDE DEF Init, InitReport
      <4> QED BY <1>3 DEF DoneInv
    <3>2. CallInv
      BY <1>4 DEF CallInv
    <3> QED BY <3>1, <3>2
  <2>2. CountInv
    BY <1>3, <1>4 DEF CountInv
  <2>3. FineInv /\ CoverInv
    BY <1>3, <1>4 DEF FineInv, CoverInv
  <2> QED BY <2>1, <2>2, <2>3
<1>6. ResultInv
  BY <1>3 DEF ResultInv
<1>7. FileInv
  BY DEF FileInv, NoFile
<1> QED BY <1>1, <1>2, <1>5, <1>6, <1>7 DEF IInv

----------------------------------------------------------------------------
(***************************************************************************)
(* The steps of the loop.                                                  *)
(***************************************************************************)
\* get_new_problems() returns a list.
LEMMA NextListKeeps ==
  ASSUME IInv, step = "measure", NextList, UNCHANGED report
  PROVE  IInv'
<1> USE DEF IInv
<1> DEFINE s == Stepsize(todo[0] + 1)
<1>0. /\ pc = "list" /\ done[0] = 0 /\ GetNewProblems(todo[0] + 1)
      /\ kernel' = kernel /\ v' = v /\ expired' = expired /\ results' = results /\ samples' = samples
      /\ step' = step /\ half' = half /\ file' = file
      /\ IF expired THEN pc' = "end" /\ w' = w ELSE pc' = "round" /\ w' = -1
  BY DEF NextList, report
<1>1. max \in Nat \ {0} /\ todo[0] \in Nat /\ done \in [0 .. max -> {0, 1}]
  BY SMTT(30), RangeType DEF TypeOK
<1>2. /\ max' = max /\ Sizes' = Sizes /\ Outcomes' = Outcomes
      /\ \A c : Stepsize(c)' = Stepsize(c)
      /\ \A d : Grid(d)' = Grid(d)
  BY <1>0, SameKernel
<1>3. /\ todo' \in [0 .. max + 1 -> Nat]
      /\ todo'[0] = todo[0] + 1 /\ todo'[max + 1] = 0
      /\ \A k \in 1 .. max : todo'[k] \in 0 .. max
      /\ done' = IF s = 1 THEN [done EXCEPT ![0] = 1] ELSE done
      /\ \E len \in 0 .. max :
           /\ IsList(todo', len)
           /\ \A k \in 1 .. len : todo'[k] \in Open(s)
           /\ \A i \in Open(s) : (\E k \in 1 .. len : todo'[k] = i) \/ (i = max /\ s # 1)
  BY <1>0, NewList
<1>4. PICK len \in 0 .. max :
         /\ IsList(todo', len)
         /\ \A k \in 1 .. len : todo'[k] \in Open(s)
         /\ \A i \in Open(s) : (\E k \in 1 .. len : todo'[k] = i) \/ (i = max /\ s # 1)
  BY <1>3
<1>5. s \in Nat \ {0} /\ (s # 1 => s = max \div 2^(todo[0] + 1))
  BY <1>1, StepsizeType
<1> HIDE DEF s
<1>6. Listed' = 1 .. len
  <2>1. \A k \in 1 .. len : k \in Listed'
    <3> SUFFICES ASSUME NEW k \in 1 .. len PROVE k \in Listed'
      OBVIOUS
    <3>1. k \in 1 .. max /\ \A j \in 1 .. k : j \in 1 .. len
      BY <1>1
    <3>2. \A j \in 1 .. len : todo'[j] # 0
      BY <1>4 DEF IsList
    <3> QED BY <1>2, <3>1, <3>2 DEF Listed
  <2>2. \A k \in Listed' : k \in 1 .. max /\ todo'[len + 1] = 0 /\ \A j \in 1 .. k : todo'[j] # 0
    BY <1>2, <1>4 DEF IsList, Listed
  <2>3. \A k \in Listed' : k \in 1 .. len
    BY <1>1, <2>2
  <2> QED BY <2>1, <2>3
<1>7. Pending' = IF expired THEN {} ELSE {todo'[k] : k \in 1 .. len}
  BY <1>0, <1>6 DEF Pending
<1>8. /\ \A i \in Pending' : i \in Grid(s) /\ i \in Sizes /\ ~Measured(i)
      /\ ~expired => \A i \in Open(s) : i \in Pending' \/ (i = max /\ s # 1)
  <2>1. \A i \in Pending' : i \in Open(s)
    BY <1>4, <1>7
  <2>2. \A i \in Open(s) : i \in Grid(s) /\ i \in Sizes /\ done[i] # 1
    BY DEF Open, Grid
  <2>3. \A i \in Open(s) : ~Measured(i)
    BY <1>0, <2>2 DEF DoneInv
  <2>4. ~expired => \A i \in Open(s) : i \in Pending' \/ (i = max /\ s # 1)
    BY <1>4, <1>7
  <2> QED BY <2>1, <2>2, <2>3, <2>4
<1>9. /\ \A i \in Sizes : done'[i] = done[i] /\ (Measured(i)' <=> Measured(i))
      /\ done'[0] = IF s = 1 THEN 1 ELSE 0
  BY <1>0, <1>1, <1>3 DEF Sizes, Measured
<1>10. TypeOK'
  <2>1. done' \in [0 .. max -> {0, 1}]
    BY <1>1, <1>3
  <2>2. w' \in -1 .. ACCURACY
    BY <1>0, ScheduleAssumption DEF TypeOK
  <2> QED BY <1>0, <1>2, <1>3, <2>1, <2>2 DEF TypeOK
<1>11. ListInv'
  <2>1. \A j, k \in Listed' : j < k => todo'[j] < todo'[k]
    BY <1>4, <1>6 DEF IsList
  <2> QED BY <1>0, <1>2, <1>3, <2>1 DEF ListInv
<1>12. DoneInv'
  BY <1>0, <1>2, <1>9 DEF DoneInv
<1>13. CountInv'
  <2> SUFFICES ASSUME ~expired PROVE CountInv'
    BY <1>0 DEF CountInv
  <2>1. \A i \in Sizes : Measured(i) => Len(samples[i]) = ACCURACY + 1
    BY <1>0 DEF CountInv, Pending
  <2>2. \A i \in Pending' : Len(samples[i]) = 0
    BY <1>8 DEF Measured
  <2>3. w' = -1 /\ pc' = "round" /\ w' + 1 = 0
    BY <1>0
  <2> QED BY <1>0, <1>2, <1>9, <2>1, <2>2, <2>3 DEF CountInv
<1>14. CallInv'
  BY <1>0, <1>1, <1>2, <1>3, <1>9 DEF CallInv, s
<1>15. FineInv'
  <2> SUFFICES ASSUME s # 1, NEW i \in Sizes, Measured(i) \/ i \in Pending'
               PROVE  i >= max \div 2^(todo[0] + 1)
    BY <1>2, <1>3, <1>9 DEF FineInv
  <2>1. CASE i \in Pending'
    BY <1>1, <1>5, <1>8, <2>1, GridFromStep
  <2>2. CASE Measured(i)
    <3>1. i \in Nat /\ i >= max \div 2^todo[0]
      BY <1>0, <2>2 DEF FineInv, Sizes
    <3>2. max \div 2^todo[0] \in Nat /\ 2 * (max \div 2^(todo[0] + 1)) <= max \div 2^todo[0]
      BY <1>1, Halving
    <3>3. max \div 2^(todo[0] + 1) \in Nat
      BY <1>1, Halving
    <3> QED BY <3>1, <3>2, <3>3
  <2> QED BY <2>1, <2>2
<1>16. CoverInv'
  <2> SUFFICES ASSUME ~expired PROVE CoverInv'
    BY <1>0 DEF CoverInv
  <2>1. ASSUME NEW i \in Grid(s) PROVE Measured(i) \/ i \in Pending' \/ (i = max /\ s # 1)
    <3>1. i \in Sizes
      BY DEF Grid
    <3>2. CASE done[i] = 1
      BY <1>0, <3>1, <3>2 DEF DoneInv
    <3>3. CASE done[i] # 1
      BY <1>8, <3>3 DEF Open
    <3> QED BY <3>2, <3>3
  <2>2. \A i \in Grid(s) : Measured(i)' <=> Measured(i)
    BY <1>9 DEF Grid
  <2>3. Stepsize(todo[0])' = s /\ Grid(Stepsize(todo[0]))' = Grid(s)
    BY <1>2, <1>3 DEF s
  <2>4. pc' = "round"
    BY <1>0
  <2> QED BY <1>2, <2>1, <2>2, <2>3, <2>4 DEF CoverInv
<1>17. ResultInv'
  BY <1>0, SameResults
<1>18. FileInv'
  BY <1>0, NoFileYet
<1> QED BY <1>10, <1>11, <1>12, <1>13, <1>14, <1>15, <1>16, <1>17, <1>18

\* get_new_problems() has no size left.
LEMMA NoMoreListsKeeps ==
  ASSUME IInv, step = "measure", NoMoreLists, UNCHANGED report
  PROVE  IInv'
<1> USE DEF IInv
<1>0. /\ pc = "list" /\ done[0] = 1 /\ pc' = "end" /\ todo' = [todo EXCEPT ![0] = @ + 1]
      /\ kernel' = kernel /\ done' = done /\ w' = w /\ v' = v /\ expired' = expired
      /\ results' = results /\ samples' = samples
      /\ step' = step /\ half' = half /\ file' = file
  BY DEF NoMoreLists, report
<1>1. max \in Nat \ {0}
  BY RangeType
<1>2. /\ max' = max /\ Sizes' = Sizes /\ Outcomes' = Outcomes
      /\ \A c : Stepsize(c)' = Stepsize(c)
      /\ \A d : Grid(d)' = Grid(d)
  BY <1>0, SameKernel
<1>3. /\ todo' \in [0 .. max + 1 -> Nat]
      /\ \A k \in 1 .. max + 1 : todo'[k] = todo[k]
  BY <1>0, <1>1 DEF TypeOK
<1>4. \A i \in Sizes : Measured(i)' <=> Measured(i)
  BY <1>0 DEF Measured
<1>5. TypeOK'
  BY <1>0, <1>2, <1>3 DEF TypeOK
<1>6. ListInv'
  BY <1>0, <1>1, <1>2, <1>3 DEF ListInv
<1>7. DoneInv'
  BY <1>0, <1>2, <1>4 DEF DoneInv
<1>8. Pending = {} /\ Pending' = {}
  BY <1>0 DEF Pending
<1>9. CountInv'
  BY <1>0, <1>2, <1>4, <1>8 DEF CountInv
<1>10. CallInv' /\ FineInv'
  BY <1>0 DEF CallInv, FineInv
<1>11. CoverInv'
  <2> SUFFICES ASSUME ~expired, NEW i \in Sizes PROVE Measured(i)
    BY <1>0, <1>2, <1>4 DEF CoverInv
  <2>1. todo[0] > 0 /\ Stepsize(todo[0]) = 1 /\ Grid(1) = Sizes
    BY <1>0 DEF CallInv, Grid
  <2> QED BY <1>0, <1>8, <2>1 DEF CoverInv
<1>12. ResultInv'
  BY <1>0, SameResults
<1>13. FileInv'
  BY <1>0, NoFileYet
<1> QED BY <1>5, <1>6, <1>7, <1>9, <1>10, <1>11, <1>12, <1>13

\* A step that only moves in the loop: what the conjuncts that speak of sizes need.
LEMMA MoveKeeps ==
  ASSUME IInv, step = "measure",
         UNCHANGED <<kernel, lists, results, expired, samples, step, half, file>>
  PROVE  /\ max' = max /\ Sizes' = Sizes /\ Outcomes' = Outcomes /\ Listed' = Listed
         /\ \A i \in Sizes : Measured(i)' <=> Measured(i)
         /\ pc' = pc => Pending' = Pending
         /\ pc \in {"round", "entry"} /\ pc' \in {"round", "entry"} =>
              Pending' = Pending /\ CallInv' /\ FineInv' /\ CoverInv'
         /\ DoneInv' /\ ResultInv' /\ FileInv'
<1> USE DEF IInv
<1>1. /\ max' = max /\ Sizes' = Sizes /\ Outcomes' = Outcomes
      /\ \A c : Stepsize(c)' = Stepsize(c)
      /\ \A d : Grid(d)' = Grid(d)
  BY SameKernel
<1>2. Listed' = Listed
  BY <1>1 DEF Listed, lists
<1>3. \A i \in Sizes : Measured(i)' <=> Measured(i)
  BY DEF Measured
<1>4. DoneInv'
  BY <1>1, <1>3 DEF DoneInv, lists
<1>5. ResultInv' /\ FileInv'
  BY SameResults, NoFileYet
<1>6. pc' = pc => Pending' = Pending
  BY <1>2 DEF Pending, lists
<1>7. ASSUME pc \in {"round", "entry"} /\ pc' \in {"round", "entry"}
      PROVE  Pending' = Pending /\ CallInv' /\ FineInv' /\ CoverInv'
  <2>1. Pending' = Pending
    BY <1>2, <1>7 DEF Pending, lists
  <2>2. todo' = todo /\ done' = done
    BY DEF lists
  <2>3. Stepsize(todo[0])' = Stepsize(todo[0]) /\ Grid(Stepsize(todo[0]))' = Grid(Stepsize(todo[0]))
    BY <1>1, <2>2
  <2>4. CallInv'
    BY <1>7, <2>2, <2>3 DEF CallInv
  <2>5. FineInv'
    BY <1>1, <1>3, <2>1, <2>2 DEF FineInv
  <2>6. \A i \in Grid(Stepsize(todo[0])) : i \in Sizes
    BY DEF Grid
  <2>7. CoverInv'
    BY <1>1, <1>3, <1>7, <2>1, <2>2, <2>3, <2>6 DEF CoverInv
  <2> QED BY <2>1, <2>4, <2>5, <2>7
<1> QED BY <1>1, <1>2, <1>3, <1>4, <1>5, <1>6, <1>7

\* The next round of the list.
LEMMA BeginRoundKeeps ==
  ASSUME IInv, step = "measure", BeginRound, UNCHANGED report
  PROVE  IInv'
<1> USE DEF IInv
<1>0. /\ pc = "round" /\ w < ACCURACY /\ v' = 1 /\ pc' = "entry" /\ w' = w
      /\ UNCHANGED <<kernel, lists, results, expired, samples, step, half, file>>
  BY DEF BeginRound, report
<1>1. todo' = todo /\ done' = done
  BY <1>0 DEF lists
<1>2. max \in Nat \ {0}
  BY RangeType
<1>3. /\ max' = max /\ Sizes' = Sizes /\ Outcomes' = Outcomes /\ Listed' = Listed
      /\ \A i \in Sizes : Measured(i)' <=> Measured(i)
      /\ Pending' = Pending /\ CallInv' /\ FineInv' /\ CoverInv'
      /\ DoneInv' /\ ResultInv' /\ FileInv'
  BY <1>0, MoveKeeps
<1>4. TypeOK'
  BY <1>0, <1>1, <1>2, <1>3 DEF TypeOK
<1>5. ListInv'
  BY <1>0, <1>1, <1>3 DEF ListInv
<1>6. CountInv'
  <2>1. \A k \in Listed : k \in 1 .. max /\ todo[k] \in Pending
    BY <1>0, ListedSizes
  <2>2. \A k \in Listed : ~(k < 1)
    BY <1>2, <2>1
  <2>3. ~expired => \A k \in Listed : Len(samples[todo[k]]) = w + 1
    BY <1>0, <2>1 DEF CountInv
  <2> QED BY <1>0, <1>1, <1>3, <2>2, <2>3 DEF CountInv
<1> QED BY <1>3, <1>4, <1>5, <1>6

\* The list is through in this round.
LEMMA EndRoundKeeps ==
  ASSUME IInv, step = "measure", EndRound, UNCHANGED report
  PROVE  IInv'
<1> USE DEF IInv
<1>0. /\ pc = "entry" /\ (todo[v] = 0 \/ expired) /\ w' = w + 1 /\ pc' = "round" /\ v' = v
      /\ UNCHANGED <<kernel, lists, results, expired, samples, step, half, file>>
  BY DEF EndRound, report
<1>1. todo' = todo /\ done' = done
  BY <1>0 DEF lists
<1>2. max \in Nat \ {0}
  BY RangeType
<1>3. /\ max' = max /\ Sizes' = Sizes /\ Outcomes' = Outcomes /\ Listed' = Listed
      /\ \A i \in Sizes : Measured(i)' <=> Measured(i)
      /\ Pending' = Pending /\ CallInv' /\ FineInv' /\ CoverInv'
      /\ DoneInv' /\ ResultInv' /\ FileInv'
  BY <1>0, MoveKeeps
<1>4. TypeOK'
  <2>1. w + 1 \in -1 .. ACCURACY
    BY <1>0, ScheduleAssumption DEF TypeOK, CountInv
  <2> QED BY <1>0, <1>1, <1>2, <1>3, <2>1 DEF TypeOK
<1>5. ListInv'
  BY <1>0, <1>1, <1>3 DEF ListInv
<1>6. CountInv'
  <2> SUFFICES ASSUME ~expired, NEW s \in Pending PROVE Len(samples[s]) = w + 2
    <3>1. w \in Int /\ w' + 1 = w + 2
      BY <1>0 DEF TypeOK
    <3> QED BY <1>0, <1>1, <1>3, <3>1 DEF CountInv
  <2>1. PICK k \in Listed : todo[k] = s
    BY <1>0, ListedSizes
  <2>2. k < v
    BY <1>0, EntryPosition
  <2> QED BY <1>0, <2>1, <2>2 DEF CountInv
<1> QED BY <1>3, <1>4, <1>5, <1>6

\* The list is through in every round.
LEMMA EndRoundsKeeps ==
  ASSUME IInv, step = "measure", EndRounds, UNCHANGED report
  PROVE  IInv'
<1> USE DEF IInv
<1>0. /\ pc = "round" /\ w = ACCURACY /\ pc' = "list" /\ v' = v /\ w' = w
      /\ UNCHANGED <<kernel, lists, results, expired, samples, step, half, file>>
  BY DEF EndRounds, report
<1>1. todo' = todo /\ done' = done
  BY <1>0 DEF lists
<1>2. max \in Nat \ {0} /\ ACCURACY \in Nat
  BY RangeType, ScheduleAssumption
<1>3. /\ max' = max /\ Sizes' = Sizes /\ Outcomes' = Outcomes /\ Listed' = Listed
      /\ \A i \in Sizes : Measured(i)' <=> Measured(i)
      /\ DoneInv' /\ ResultInv' /\ FileInv'
  BY <1>0, MoveKeeps
<1>4. Pending' = {} /\ \A c : Stepsize(c)' = Stepsize(c) /\ \A d : Grid(d)' = Grid(d)
  BY <1>0, SameKernel DEF Pending
<1>5. TypeOK'
  BY <1>0, <1>1, <1>3 DEF TypeOK
<1>6. ListInv'
  BY <1>0, <1>1, <1>3 DEF ListInv
<1>7. ~expired => \A s \in Pending : s \in Sizes /\ Measured(s) /\ Len(samples[s]) = ACCURACY + 1
  <2> SUFFICES ASSUME ~expired, NEW s \in Pending
               PROVE  s \in Sizes /\ Measured(s) /\ Len(samples[s]) = ACCURACY + 1
    OBVIOUS
  <2>1. s \in Sizes
    BY <1>0, ListedSizes
  <2>2. Len(samples[s]) = ACCURACY + 1
    BY <1>0 DEF CountInv
  <2> QED BY <1>2, <2>1, <2>2, MeasuredLength
<1>8. CountInv'
  <2>1. ~expired => \A s \in Sizes : Measured(s) => Len(samples[s]) = ACCURACY + 1
    BY <1>0, <1>7 DEF CountInv
  <2> QED BY <1>0, <1>3, <1>4, <2>1 DEF CountInv
<1>9. CallInv'
  BY <1>0, <1>1, <1>4 DEF CallInv
<1>10. FineInv'
  BY <1>0, <1>1, <1>3, <1>4 DEF FineInv
<1>11. CoverInv'
  <2>1. Stepsize(todo[0])' = Stepsize(todo[0]) /\ Grid(Stepsize(todo[0]))' = Grid(Stepsize(todo[0]))
    BY <1>1, <1>4
  <2>2. \A i \in Grid(Stepsize(todo[0])) : i \in Sizes
    BY DEF Grid
  <2> QED BY <1>0, <1>1, <1>3, <1>7, <2>1, <2>2 DEF CoverInv
<1> QED BY <1>3, <1>5, <1>6, <1>8, <1>9, <1>10, <1>11

----------------------------------------------------------------------------
(***************************************************************************)
(* A measurement, and its result.                                          *)
(***************************************************************************)
\* What bi_entry() may return, and what a result is combined to.
LEMMA CombinedType ==
  ASSUME TypeOK, NEW size \in Sizes, NEW y \in Outcomes, w + 1 \in Nat
  PROVE  y \in Numbers /\ Kept(size, y) \in Numbers
<1>1. y \in Numbers
  BY ScheduleAssumption DEF Outcomes, Number, Numbers, INVALID_MEASUREMENT, TypeOK, Kernels
<1>2. results[size].y \in Numbers /\ w \in Int
  BY DEF TypeOK
<1>3. \A old \in Numbers : Combined(old, y) \in Numbers
  BY <1>1, <1>2 DEF Combined, Averaged, Numbers, INVALID_MEASUREMENT, Number
<1> QED BY <1>1, <1>2, <1>3 DEF Kept

\* A better result replaces the one that is kept, a worse or invalid one does not.
LEMMA BestIsKept ==
  ASSUME TypeOK, ResultInv, NEW size \in Sizes, NEW y \in Outcomes, half = 0,
  direction # "average",
         w = -1 <=> ~Measured(size)
  PROVE  LET V == Valid(size) \cup ({y} \ {INVALID_MEASUREMENT}) IN
         IF V = {} THEN Kept(size, y) = INVALID_MEASUREMENT
         ELSE Kept(size, y) \in V /\ \A z \in V : ~Better(z, Kept(size, y))
<1> DEFINE V == Valid(size) \cup ({y} \ {INVALID_MEASUREMENT})
           old == IF w = -1 THEN y ELSE results[size].y
           kept == Kept(size, y)
<1>1. kept = IF y # INVALID_MEASUREMENT /\ (Better(y, old) \/ old = INVALID_MEASUREMENT)
             THEN y ELSE old
  BY DEF Kept, Combined
<1>2. \A z \in Outcomes \ {INVALID_MEASUREMENT} : z.num \in Nat
  BY ScheduleAssumption DEF Outcomes, Number, TypeOK, Kernels
<1>3. Valid(size) \subseteq Outcomes \ {INVALID_MEASUREMENT}
  <2>1. samples[size] \in Seq(Outcomes)
    BY DEF TypeOK
  <2> HIDE DEF Outcomes
  <2>2. \A k \in 1 .. Len(samples[size]) : samples[size][k] \in Outcomes
    BY <2>1
  <2> QED BY <2>2 DEF Valid
<1>4. \A a, b \in Outcomes \ {INVALID_MEASUREMENT} :
         (Better(a, b) <=> IF direction = "least" THEN a.num < b.num ELSE a.num > b.num)
  BY DEF Better
<1>5. CASE w = -1
  <2>1. Valid(size) = {}
    <3>1. samples[size] = <<>>
      BY <1>5 DEF Measured
    <3> QED BY <3>1 DEF Valid
  <2>2. kept = y
    BY <1>1, <1>5
  <2>3. CASE y = INVALID_MEASUREMENT
    BY <2>1, <2>2, <2>3
  <2>4. CASE y # INVALID_MEASUREMENT
    <3>1. V = {y} /\ ~Better(y, y)
      BY <1>2, <1>4, <2>1, <2>4
    <3> QED BY <2>2, <3>1
  <2> QED BY <2>3, <2>4
<1>6. CASE w # -1
  <2>1. Measured(size) /\ 0 \notin Sizes
    BY <1>6 DEF Sizes
  <2>2. IsRowOf(results[size], size)
    BY <2>1 DEF ResultInv
  <2>3. IF Valid(size) = {} THEN old = INVALID_MEASUREMENT
        ELSE old \in Valid(size) /\ \A z \in Valid(size) : ~Better(z, old)
    BY <1>6, <2>2 DEF IsRowOf
  <2> HIDE DEF old, kept
  <2>4. CASE y = INVALID_MEASUREMENT
    <3>1. V = Valid(size) /\ kept = old
      BY <1>1, <2>4
    <3> HIDE DEF V
    <3> QED BY <2>3, <3>1 DEF kept, V
  <2>5. CASE y # INVALID_MEASUREMENT /\ Valid(size) = {}
    <3>1. V = {y} /\ kept = y /\ ~Better(y, y)
      BY <1>1, <1>2, <1>4, <2>3, <2>5
    <3> QED BY <3>1 DEF kept
  <2>6. CASE y # INVALID_MEASUREMENT /\ Valid(size) # {}
    <3>1. old \in Outcomes \ {INVALID_MEASUREMENT} /\ y \in Outcomes \ {INVALID_MEASUREMENT}
      BY <1>3, <2>3, <2>6
    <3>2. kept = IF Better(y, old) THEN y ELSE old
      BY <1>1, <2>6, <3>1
    <3>3. kept \in V
      BY <2>3, <2>6, <3>2
    <3>4. \A z \in V : ~Better(z, kept)
      <4> SUFFICES ASSUME NEW z \in V PROVE ~Better(z, kept)
        OBVIOUS
      <4>1. z \in Outcomes \ {INVALID_MEASUREMENT} /\ (z = y \/ ~Better(z, old))
        BY <1>3, <2>3, <2>6
      <4> QED BY <1>2, <1>4, <3>1, <3>2, <4>1
    <3> QED BY <3>3, <3>4 DEF kept
  <2> QED BY <2>4, <2>5, <2>6 DEF kept
<1> QED BY <1>5, <1>6

\* A result that is noted: the size counts as measured, and the result as one of its
\* valid ones unless it is invalid.
LEMMA AppendMeasures ==
  ASSUME TypeOK, NEW size \in Sizes, NEW y \in Outcomes,
         samples' = [samples EXCEPT ![size] = Append(@, y)]
  PROVE  /\ samples' \in [Sizes -> Seq(Outcomes)]
         /\ Len(samples'[size]) = Len(samples[size]) + 1
         /\ \A s \in Sizes \ {size} : samples'[s] = samples[s]
         /\ \A s \in Sizes : Measured(s)' <=> (Measured(s) \/ s = size)
<1>1. samples \in [Sizes -> Seq(Outcomes)] /\ samples[size] \in Seq(Outcomes)
  BY DEF TypeOK
<1> HIDE DEF Outcomes
<1>2. /\ Append(samples[size], y) \in Seq(Outcomes)
      /\ Len(Append(samples[size], y)) = Len(samples[size]) + 1 /\ Len(samples[size]) \in Nat
  BY <1>1
<1>3. samples'[size] = Append(samples[size], y) /\ samples' \in [Sizes -> Seq(Outcomes)]
  BY <1>1, <1>2
<1>4. \A s \in Sizes \ {size} : samples'[s] = samples[s]
  BY <1>1
<1>5. samples'[size] # <<>>
  <2>1. Len(samples'[size]) # Len(<<>>)
    BY <1>2, <1>3
  <2> QED BY <2>1
<1> QED BY <1>2, <1>3, <1>4, <1>5 DEF Measured

\* The valid results are those from before and the one that is noted.
LEMMA AppendAddsResult ==
  ASSUME TypeOK, NEW size \in Sizes, NEW y \in Outcomes,
         samples' = [samples EXCEPT ![size] = Append(@, y)]
  PROVE  Valid(size)' = Valid(size) \cup ({y} \ {INVALID_MEASUREMENT})
<1>1. samples[size] \in Seq(Outcomes) /\ samples'[size] = Append(samples[size], y)
  BY DEF TypeOK
<1> HIDE DEF Outcomes
<1>2. /\ Len(samples'[size]) = Len(samples[size]) + 1 /\ Len(samples[size]) \in Nat
      /\ samples'[size][Len(samples[size]) + 1] = y
      /\ \A k \in 1 .. Len(samples[size]) : samples'[size][k] = samples[size][k]
  BY <1>1
<1>3. {samples'[size][k] : k \in 1 .. Len(samples'[size])}
        = {samples[size][k] : k \in 1 .. Len(samples[size])} \cup {y}
  <2>1. \A k \in 1 .. Len(samples'[size]) :
           k \in 1 .. Len(samples[size]) \/ k = Len(samples[size]) + 1
    BY <1>2
  <2>2. \A k \in 1 .. Len(samples[size]) : k \in 1 .. Len(samples'[size])
    BY <1>2
  <2>3. Len(samples[size]) + 1 \in 1 .. Len(samples'[size])
    BY <1>2
  <2> QED BY <1>2, <2>1, <2>2, <2>3
<1> QED BY <1>3 DEF Valid

\* A measurement whose result is stored.
LEMMA MeasureKeeps ==
  ASSUME IInv, step = "measure", Measure, UNCHANGED report
  PROVE  IInv'
<1> USE DEF IInv
<1>0. /\ pc = "entry" /\ todo[v] # 0 /\ ~expired /\ kernel' = kernel /\ todo' = todo
      /\ step' = step /\ half' = half /\ file' = file
      /\ done' = [done EXCEPT ![todo[v]] = 1]
      /\ \/ expired' = TRUE /\ w' = w + 1 /\ pc' = "round" /\ v' = v
         \/ v' = v + 1 /\ w' = w /\ expired' = expired /\ pc' = pc
  BY DEF Measure, report
<1>1. max \in Nat \ {0} /\ ACCURACY \in Nat /\ w \in -1 .. ACCURACY /\ w < ACCURACY
  BY <1>0, RangeType, ScheduleAssumption DEF TypeOK, CountInv
<1>2. /\ max' = max /\ Sizes' = Sizes /\ Outcomes' = Outcomes
      /\ \A c : Stepsize(c)' = Stepsize(c)
      /\ \A d : Grid(d)' = Grid(d)
  BY <1>0, SameKernel
<1>3. /\ v \in 1 .. max /\ v \in Listed
      /\ Listed \subseteq 1 .. max
      /\ \A k \in Listed : todo[k] \in Sizes /\ todo[k] \in Pending
      /\ \A j, k \in Listed : todo[j] = todo[k] => j = k
      /\ \A s \in Pending : \E k \in Listed : todo[k] = s
  <2>1. v \in Listed
    BY <1>0, EntryPosition
  <2>2. /\ Listed \subseteq 1 .. max
        /\ \A k \in Listed : todo[k] \in Sizes /\ todo[k] \in Pending
        /\ \A j, k \in Listed : todo[j] = todo[k] => j = k
        /\ \A s \in Pending : \E k \in Listed : todo[k] = s
    BY <1>0, ListedSizes
  <2> QED BY <2>1, <2>2
<1>4. PICK size \in Sizes : size = todo[v]
  BY <1>3
<1>5. size \in Pending /\ size \in Nat /\ size # 0 /\ done' = [done EXCEPT ![size] = 1]
  BY <1>0, <1>4, <1>3 DEF Sizes
<1>6. PICK y \in Outcomes :
         /\ results' = [results EXCEPT ![size] = [x |-> size, y |-> Kept(size, y)]]
         /\ samples' = [samples EXCEPT ![size] = Append(@, y)]
  BY <1>4 DEF Measure, Store, Outcomes
<1>7. Listed' = Listed /\ Pending' = Pending
  BY <1>0, <1>2 DEF Listed, Pending
<1>8. Len(samples[size]) = w + 1 /\ (w = -1 <=> ~Measured(size))
  <2>1. Len(samples[size]) = w + 1
    BY <1>0, <1>4, <1>3 DEF CountInv
  <2>2. Measured(size) <=> Len(samples[size]) > 0
    BY <1>5, MeasuredLength
  <2> QED BY <1>1, <2>1, <2>2
<1>9. /\ samples' \in [Sizes -> Seq(Outcomes)] /\ Len(samples'[size]) = w + 2
      /\ \A s \in Sizes \ {size} : samples'[s] = samples[s]
      /\ \A s \in Sizes : Measured(s)' <=> (Measured(s) \/ s = size)
  <2>1. /\ samples' \in [Sizes -> Seq(Outcomes)]
        /\ Len(samples'[size]) = Len(samples[size]) + 1
        /\ \A s \in Sizes \ {size} : samples'[s] = samples[s]
        /\ \A s \in Sizes : Measured(s)' <=> (Measured(s) \/ s = size)
    BY <1>6, AppendMeasures
  <2> QED BY <1>1, <1>8, <2>1
<1>10. TypeOK'
  <2>1. done' \in [0 .. max -> {0, 1}]
    BY <1>0, <1>1, <1>5 DEF TypeOK, Sizes
  <2>2. results' \in [Sizes -> [x : Nat, y : Numbers]]
    <3>1. Kept(size, y) \in Numbers
      BY <1>1, <1>5, CombinedType
    <3>2. [x |-> size, y |-> Kept(size, y)] \in [x : Nat, y : Numbers]
      BY <1>5, <3>1
    <3> QED BY <1>6, <1>5, <3>2 DEF TypeOK
  <2>3. w' \in -1 .. ACCURACY /\ v' \in 0 .. max + 1
    BY <1>0, <1>1, <1>3
  <2>4. pc' \in {"round", "entry"} /\ expired' \in BOOLEAN
    BY <1>0 DEF TypeOK
  <2> QED BY <1>0, <1>2, <1>9, <2>1, <2>2, <2>3, <2>4 DEF TypeOK
<1>11. ListInv'
  <2>1. pc' = "entry" => v' > 0 /\ \A j \in 1 .. v' - 1 : todo[j] # 0
    <3> SUFFICES ASSUME pc' = "entry" PROVE v + 1 > 0 /\ \A j \in 1 .. v : todo[j] # 0
      BY <1>0, <1>1, <1>3
    <3> QED BY <1>3 DEF Listed
  <2>2. \A j, k \in Listed : j < k => todo[j] < todo[k]
    BY <1>0 DEF ListInv
  <2> QED BY <1>0, <1>2, <1>7, <2>1, <2>2 DEF ListInv
<1>12. DoneInv'
  <2>1. \A s \in Sizes : done'[s] = IF s = size THEN 1 ELSE done[s]
    BY <1>1, <1>5 DEF TypeOK, Sizes
  <2> QED BY <1>2, <1>9, <2>1 DEF DoneInv
<1>13. CountInv'
  <2> SUFFICES ASSUME pc' = "entry", v' = v + 1, w' = w, ~expired' PROVE CountInv'
    BY <1>0, <1>1 DEF CountInv
  <2>1. \A s \in Sizes \ Pending : Measured(s)' => Len(samples'[s]) = ACCURACY + 1
    BY <1>0, <1>5, <1>9 DEF CountInv
  <2>2. \A k \in Listed : Len(samples'[todo[k]]) = IF k < v + 1 THEN w + 2 ELSE w + 1
    <3> SUFFICES ASSUME NEW k \in Listed
                 PROVE  Len(samples'[todo[k]]) = IF k < v + 1 THEN w + 2 ELSE w + 1
      OBVIOUS
    <3>1. CASE k = v
      BY <1>4, <1>3, <1>9, <3>1
    <3>2. CASE k # v
      <4>1. todo[k] \in Sizes \ {size}
        BY <1>4, <1>3, <3>2
      <4>2. Len(samples[todo[k]]) = IF k < v THEN w + 2 ELSE w + 1
        BY <1>0 DEF CountInv
      <4>3. k < v <=> k < v + 1
        BY <1>3, <3>2
      <4> QED BY <1>9, <4>1, <4>2, <4>3
    <3> QED BY <3>1, <3>2
  <2> QED BY <1>0, <1>1, <1>2, <1>7, <2>1, <2>2 DEF CountInv
<1>14. CallInv'
  <2>1. done'[0] = done[0]
    BY <1>0, <1>1, <1>5 DEF TypeOK, Sizes
  <2> QED BY <1>0, <1>2, <2>1 DEF CallInv
<1>15. FineInv'
  <2>1. done'[0] = done[0]
    BY <1>0, <1>1, <1>5 DEF TypeOK, Sizes
  <2> QED BY <1>0, <1>2, <1>5, <1>7, <1>9, <2>1 DEF FineInv
<1>16. CoverInv'
  <2>1. Stepsize(todo[0])' = Stepsize(todo[0]) /\ Grid(Stepsize(todo[0]))' = Grid(Stepsize(todo[0]))
    BY <1>0, <1>2
  <2>2. \A i \in Grid(Stepsize(todo[0])) : i \in Sizes
    BY DEF Grid
  <2> QED BY <1>0, <1>2, <1>7, <1>9, <2>1, <2>2 DEF CoverInv
<1>17. ResultInv'
  <2>1. half = 0 /\ 0 \notin Sizes
    BY DEF ResultInv, Sizes
  <2>2. results'[size] = [x |-> size, y |-> Kept(size, y)]
        /\ \A s \in Sizes \ {size} : results'[s] = results[s]
    BY <1>6, <1>5 DEF TypeOK
  <2>3. ASSUME NEW s \in Sizes \ {size}
        PROVE  /\ results'[s].x = IF Measured(s)' THEN s ELSE 0
               /\ Measured(s)' => IsRowOf(results[s], s)'
    <3>1. /\ results[s].x = IF Measured(s) THEN s ELSE 0
          /\ Measured(s) => IsRowOf(results[s], s)
      BY <2>1 DEF ResultInv
    <3>2. Valid(s)' = Valid(s) /\ results'[s] = results[s] /\ direction' = direction
      BY <1>0, <1>9, <2>2 DEF Valid, direction
    <3>3. IsRowOf(results[s], s) => IsRowOf(results[s], s)'
      BY <3>2 DEF IsRowOf, Better
    <3> QED BY <1>9, <2>2, <3>1, <3>3
  <2>4. IsRowOf(results[size], size)'
    <3>1. direction' = direction
      BY <1>0 DEF direction
    <3> SUFFICES ASSUME direction # "average"
                 PROVE  IF Valid(size)' = {} THEN Kept(size, y) = INVALID_MEASUREMENT
                        ELSE /\ Kept(size, y) \in Valid(size)'
                             /\ \A z \in Valid(size)' : ~Better(z, Kept(size, y))
      BY <2>2, <3>1 DEF IsRowOf, Better
    <3>2. Valid(size)' = Valid(size) \cup ({y} \ {INVALID_MEASUREMENT})
      BY <1>6, AppendAddsResult
    <3> QED BY <1>5, <1>8, <2>1, <3>2, BestIsKept
  <2>5. \A s \in Sizes : Measured(s)' /\ s # half' => IsRowOf(results[s], s)'
    BY <2>3, <2>4
  <2>6. \A s \in Sizes : results'[s].x = IF Measured(s)' /\ s # half' THEN s ELSE 0
    BY <1>0, <1>9, <2>1, <2>2, <2>3
  <2> QED BY <1>0, <1>2, <2>1, <2>5, <2>6 DEF ResultInv
<1>18. FileInv'
  BY <1>0, NoFileYet
<1> QED BY <1>10, <1>11, <1>12, <1>13, <1>14, <1>15, <1>16, <1>17, <1>18

----------------------------------------------------------------------------
(***************************************************************************)
(* What ends the loop, and the report.                                     *)
(***************************************************************************)
\* The kernel reports an error, and main() leaves the loop.
LEMMA KernelErrorKeeps ==
  ASSUME IInv, step = "measure", KernelError, UNCHANGED report
  PROVE  IInv'
<1> USE DEF IInv
<1>0. /\ pc' = "failed" /\ w' = w /\ v' = v
      /\ UNCHANGED <<kernel, lists, results, expired, samples, step, half, file>>
  BY DEF KernelError, report
<1>1. todo' = todo /\ done' = done /\ pc = "entry"
  BY <1>0 DEF lists, KernelError
<1>2. /\ max' = max /\ Sizes' = Sizes /\ Outcomes' = Outcomes
      /\ \A i \in Sizes : Measured(i)' <=> Measured(i)
      /\ DoneInv' /\ ResultInv' /\ FileInv'
  BY <1>0, MoveKeeps
<1>3. Pending' = {} /\ Stepsize(todo[0])' = Stepsize(todo[0])
  BY <1>0, <1>1, SameKernel DEF Pending
<1>4. TypeOK'
  BY <1>0, <1>1, <1>2 DEF TypeOK
<1>5. ListInv'
  BY <1>0, <1>1, <1>2 DEF ListInv
<1>6. CountInv'
  BY <1>0 DEF CountInv
<1>7. CallInv'
  BY <1>1, <1>3 DEF CallInv
<1>8. FineInv'
  BY <1>1, <1>2, <1>3 DEF FineInv
<1>9. CoverInv'
  BY <1>0 DEF CoverInv
<1> QED BY <1>2, <1>4, <1>5, <1>6, <1>7, <1>8, <1>9

\* The loop stays where it is, for good once the report has begun.
LEMMA LoopStays ==
  ASSUME IInv, UNCHANGED <<vars, half>>, step' = "measure" => step = "measure", FileInv'
  PROVE  IInv'
<1> USE DEF IInv
<1>0. /\ kernel' = kernel /\ todo' = todo /\ done' = done /\ w' = w /\ v' = v /\ results' = results
      /\ expired' = expired /\ samples' = samples /\ pc' = pc /\ half' = half
  BY DEF vars, lists
<1>1. /\ max' = max /\ Sizes' = Sizes /\ Outcomes' = Outcomes
      /\ \A c : Stepsize(c)' = Stepsize(c)
      /\ \A d : Grid(d)' = Grid(d)
  BY <1>0, SameKernel
<1>2. Listed' = Listed /\ Pending' = Pending
  BY <1>0, <1>1 DEF Listed, Pending
<1>3. \A i \in Sizes : Measured(i)' <=> Measured(i)
  BY <1>0 DEF Measured
<1>4. TypeOK' /\ ListInv'
  <2>1. TypeOK'
    BY <1>0, <1>1 DEF TypeOK
  <2>2. ListInv'
    BY <1>0, <1>1, <1>2 DEF ListInv
  <2> QED BY <2>1, <2>2
<1>5. DoneInv'
  BY <1>0, <1>1, <1>3 DEF DoneInv
<1>6. CountInv'
  BY <1>0, <1>1, <1>2, <1>3 DEF CountInv
<1>7. CallInv'
  BY <1>0, <1>1 DEF CallInv
<1>8. FineInv'
  BY <1>0, <1>1, <1>2, <1>3 DEF FineInv
<1>9. CoverInv'
  <2>1. Stepsize(todo[0])' = Stepsize(todo[0]) /\ Grid(Stepsize(todo[0]))' = Grid(Stepsize(todo[0]))
    BY <1>0, <1>1
  <2>2. \A i \in Grid(Stepsize(todo[0])) : i \in Sizes
    BY DEF Grid
  <2> QED BY <1>0, <1>1, <1>2, <1>3, <2>1, <2>2 DEF CoverInv
<1>10. ResultInv'
  BY <1>0, SameResults
<1> QED BY <1>4, <1>5, <1>6, <1>7, <1>8, <1>9, <1>10

\* A result that a signal kept from being stored completely has no row, or had one.
LEMMA InterruptStoreKeeps ==
  ASSUME IInv, InterruptStore
  PROVE  IInv'
<1> USE DEF IInv
<1>0. /\ step = "measure" /\ pc = "entry" /\ todo[v] # 0 /\ ~expired /\ step' = "analyse"
      /\ kernel' = kernel /\ todo' = todo /\ done' = done /\ w' = w /\ v' = v
      /\ expired' = expired /\ pc' = pc /\ file' = file
  BY DEF InterruptStore, lists
<1>1. max \in Nat \ {0} /\ ACCURACY \in Nat /\ w \in -1 .. ACCURACY /\ w < ACCURACY
  BY <1>0, RangeType, ScheduleAssumption DEF TypeOK, CountInv
<1>2. /\ max' = max /\ Sizes' = Sizes /\ Outcomes' = Outcomes
      /\ \A c : Stepsize(c)' = Stepsize(c)
      /\ \A d : Grid(d)' = Grid(d)
  BY <1>0, SameKernel
<1>3. v \in Listed /\ v \in Nat /\ todo[v] \in Sizes /\ todo[v] \in Pending
  <2>1. v \in Listed
    BY <1>0, EntryPosition
  <2>2. Listed \subseteq 1 .. max /\ \A k \in Listed : todo[k] \in Sizes /\ todo[k] \in Pending
    BY <1>0, ListedSizes
  <2> QED BY <2>1, <2>2
<1>4. PICK size \in Sizes : size = todo[v]
  BY <1>3
<1>5. PICK y \in Outcomes :
         /\ results' = [results EXCEPT ![size].y = Kept(size, y)]
         /\ samples' = [samples EXCEPT ![size] = Append(@, y)]
  BY <1>4 DEF InterruptStore, Outcomes
<1>6. half' = IF results[size].x = 0 THEN size ELSE 0
  BY <1>4 DEF InterruptStore
<1>7. Listed' = Listed /\ Pending' = Pending
  BY <1>0, <1>2 DEF Listed, Pending
<1>8. Len(samples[size]) = w + 1 /\ (w = -1 <=> ~Measured(size))
  <2>1. Len(samples[size]) = w + 1
    BY <1>0, <1>3, <1>4 DEF CountInv
  <2>2. Measured(size) <=> Len(samples[size]) > 0
    BY MeasuredLength
  <2> QED BY <1>1, <2>1, <2>2
<1>9. samples' \in [Sizes -> Seq(Outcomes)]
      /\ \A s \in Sizes : Measured(s)' <=> (Measured(s) \/ s = size)
  BY <1>5, AppendMeasures DEF TypeOK
<1>10. TypeOK'
  <2>1. results' \in [Sizes -> [x : Nat, y : Numbers]]
    <3>1. Kept(size, y) \in Numbers
      BY <1>1, CombinedType
    <3> QED BY <1>5, <3>1 DEF TypeOK
  <2> QED BY <1>0, <1>2, <1>9, <2>1 DEF TypeOK
<1>11. ListInv'
  BY <1>0, <1>2, <1>7 DEF ListInv
<1>12. DoneInv' /\ CountInv' /\ CallInv'
  BY <1>0, <1>2 DEF DoneInv, CountInv, CallInv
<1>13. FineInv'
  BY <1>0, <1>2, <1>3, <1>4, <1>7, <1>9 DEF FineInv
<1>14. CoverInv'
  <2>1. Stepsize(todo[0])' = Stepsize(todo[0]) /\ Grid(Stepsize(todo[0]))' = Grid(Stepsize(todo[0]))
    BY <1>0, <1>2
  <2>2. \A i \in Grid(Stepsize(todo[0])) : i \in Sizes
    BY DEF Grid
  <2> QED BY <1>0, <1>2, <1>7, <1>9, <2>1, <2>2 DEF CoverInv
<1>15. ResultInv'
  <2>1. half = 0 /\ 0 \notin Sizes
    BY <1>0 DEF ResultInv, Sizes
  <2>2. /\ results'[size].x = results[size].x /\ results'[size].y = Kept(size, y)
        /\ \A s \in Sizes \ {size} : results'[s] = results[s]
    BY <1>5 DEF TypeOK
  <2>3. \A s \in Sizes \ {size} : samples'[s] = samples[s]
    BY <1>5 DEF TypeOK
  <2>4. /\ half' \in {0, size}
        /\ half' = 0 => Measured(size)
        /\ half' = size => ~Measured(size)
    BY <1>6, <2>1 DEF ResultInv
  <2>5. \A s \in Sizes : results'[s].x = IF Measured(s)' /\ s # half' THEN s ELSE 0
    BY <1>9, <2>1, <2>2, <2>4 DEF ResultInv
  <2>6. ASSUME NEW s \in Sizes, Measured(s)', s # half' PROVE IsRowOf(results[s], s)'
    <3>1. CASE s # size
      <4>1. IsRowOf(results[s], s)
        BY <1>9, <2>1, <2>6, <3>1 DEF ResultInv
      <4>2. Valid(s)' = Valid(s) /\ results'[s] = results[s] /\ direction' = direction
        BY <1>0, <2>2, <2>3, <3>1 DEF Valid, direction
      <4> QED BY <4>1, <4>2 DEF IsRowOf, Better
    <3>2. CASE s = size
      <4>1. results'[size].x = size /\ direction' = direction
        BY <1>0, <2>5, <2>6, <3>2 DEF direction
      <4> SUFFICES ASSUME direction # "average"
                   PROVE  IF Valid(size)' = {} THEN Kept(size, y) = INVALID_MEASUREMENT
                          ELSE /\ Kept(size, y) \in Valid(size)'
                               /\ \A z \in Valid(size)' : ~Better(z, Kept(size, y))
        BY <2>2, <3>2, <4>1 DEF IsRowOf, Better
      <4>2. Valid(size)' = Valid(size) \cup ({y} \ {INVALID_MEASUREMENT})
        BY <1>5, AppendAddsResult DEF TypeOK
      <4> QED BY <1>8, <2>1, <4>2, BestIsKept
    <3> QED BY <3>1, <3>2
  <2> QED BY <1>0, <1>2, <2>5, <2>6 DEF ResultInv
<1>16. FileInv'
  BY <1>0, NoFileYet
<1> QED BY <1>10, <1>11, <1>12, <1>13, <1>14, <1>15, <1>16

\* What is printed depends on the loop alone.
LEMMA SamePrinted ==
  ASSUME UNCHANGED vars
  PROVE  Printed' = Printed
<1>1. kernel' = kernel /\ results' = results
  BY DEF vars
<1>2. Sizes' = Sizes
  BY <1>1, SameKernel
<1>3. Rows' = Rows
  BY <1>1, <1>2 DEF Rows
<1> QED BY <1>1, <1>3 DEF Printed, RowSeq

\* The rows are written once, from what stays as it is.
LEMMA ReportKeeps ==
  ASSUME IInv, Report
  PROVE  IInv'
<1> USE DEF IInv
<1>1. UNCHANGED <<vars, half>> /\ step # "measure" /\ step' # "measure"
  BY DEF Report, AnalyseResults, NothingToWrite, CannotCreate, Create, WriteInfos,
         WriteAdditional,
         WriteArchitecture, CannotCopy, WriteAxes, CannotDisplay, WriteDisplay, WriteData,
         WriteQuickview, QuickviewCrashes
<1>2. Printed' = Printed
  BY <1>1, SamePrinted
<1>3. CASE step \notin {"quickview", "done", "crashed"} /\ ~WriteData
  <2>1. file.state # "complete"
    BY <1>3 DEF FileInv
  <2>2. DOMAIN file' = DOMAIN NoFile /\ file'.state # "complete"
    BY <1>3, <2>1 DEF FileInv, NoFile, Section, Report, AnalyseResults, NothingToWrite,
                      CannotCreate,
         Create, WriteInfos, WriteAdditional, WriteArchitecture, CannotCopy, WriteAxes,
         CannotDisplay,
         WriteDisplay, WriteQuickview, QuickviewCrashes
  <2> QED BY <1>1, <2>2, LoopStays DEF FileInv, NoFile
<1>4. CASE WriteData
  <2>1. /\ file' = [[file EXCEPT !.sections = Append(@, "data")]
                      EXCEPT !.rows = Printed, !.state = "complete"]
        /\ step' = "quickview"
    BY <1>4 DEF WriteData, Section
  <2>2. DOMAIN file' = DOMAIN NoFile /\ file'.rows = Printed
    BY <2>1 DEF FileInv, NoFile
  <2> QED BY <1>1, <1>2, <2>1, <2>2, LoopStays DEF FileInv, NoFile
<1>5. CASE step \in {"quickview", "done", "crashed"}
  <2>1. file' = file /\ step' \in {"done", "crashed"}
    BY <1>5 DEF Report, AnalyseResults, NothingToWrite, CannotCreate, Create, WriteInfos,
                WriteAdditional,
         WriteArchitecture, CannotCopy, WriteAxes, CannotDisplay, WriteDisplay, WriteData,
         WriteQuickview, QuickviewCrashes
  <2> QED BY <1>1, <1>2, <2>1, LoopStays DEF FileInv, NoFile
<1> QED BY <1>3, <1>4, <1>5

\* Every step keeps the invariant.
LEMMA StepInvariant == IInv /\ [NextReport]_reportVars => IInv'
<1> SUFFICES ASSUME IInv, [NextReport]_reportVars PROVE IInv'
  OBVIOUS
<1>1. CASE Measuring
  <2>1. step = "measure" /\ UNCHANGED report /\ (Loop \/ KernelError)
    BY <1>1 DEF Measuring
  <2>2. CASE NextList
    BY <2>1, <2>2, NextListKeeps
  <2>3. CASE NoMoreLists
    BY <2>1, <2>3, NoMoreListsKeeps
  <2>4. CASE BeginRound
    BY <2>1, <2>4, BeginRoundKeeps
  <2>5. CASE EndRounds
    BY <2>1, <2>5, EndRoundsKeeps
  <2>6. CASE Measure
    BY <2>1, <2>6, MeasureKeeps
  <2>7. CASE EndRound
    BY <2>1, <2>7, EndRoundKeeps
  <2>8. CASE KernelError
    BY <2>1, <2>8, KernelErrorKeeps
  <2> QED BY <2>1, <2>2, <2>3, <2>4, <2>5, <2>6, <2>7, <2>8 DEF Loop
<1>2. CASE LoopEnds \/ Interrupt
  <2>1. UNCHANGED <<vars, half, file>> /\ step = "measure" /\ step' = "analyse"
    BY <1>2 DEF LoopEnds, Interrupt
  <2>2. FileInv'
    BY <2>1, NoFileYet DEF IInv
  <2> QED BY <2>1, <2>2, LoopStays
<1>3. CASE InterruptStore
  BY <1>3, InterruptStoreKeeps
<1>4. CASE Report
  BY <1>4, ReportKeeps
<1>5. CASE Stopped \/ UNCHANGED reportVars
  <2>1. UNCHANGED <<vars, half>> /\ step' = step /\ file' = file
    BY <1>5 DEF Stopped, reportVars, report
  <2>2. FileInv'
    BY <2>1, SamePrinted DEF IInv, FileInv, NoFile
  <2> QED BY <2>1, <2>2, LoopStays
<1> QED BY <1>1, <1>2, <1>3, <1>4, <1>5 DEF NextReport
----------------------------------------------------------------------------
(***************************************************************************)
(* The theorems.                                                           *)
(***************************************************************************)
\* The inductive invariant of the loop and the report.
THEOREM InvariantS == SpecReport => []IInv
<1>1. InitReport => IInv
  BY InitInvariant
<1>2. IInv /\ [NextReport]_reportVars => IInv'
  BY StepInvariant
<1> QED BY <1>1, <1>2, PTL DEF SpecReport

\* The properties follow from the invariant.
LEMMA InvEachSizeMeasured == IInv => EachSizeMeasured
<1> SUFFICES ASSUME IInv, pc = "end", ~expired,
      NEW s \in Sizes PROVE Len(samples[s]) = ACCURACY + 1
  BY DEF EachSizeMeasured, Complete
<1>1. Measured(s) /\ Pending = {}
  BY DEF IInv, CoverInv, Pending
<1> QED BY <1>1 DEF IInv, CountInv

\* Within the time limit every problem size is measured accuracy+1 times, whatever the
\* range, the accuracy and the results: get_new_problems() leaves out none and
\* hands out none twice.
THEOREM AllSizesMeasured == SpecReport => []EachSizeMeasured
BY InvariantS, InvEachSizeMeasured, PTL

LEMMA InvCoarseToFine == IInv => CoarseToFine
<1> SUFFICES ASSUME IInv, pc = "list", ~expired, todo[0] > 0, NEW s \in Sizes
             PROVE  \E m \in Sizes : /\ Measured(m)
                                     /\ s - m <= 2 * Stepsize(todo[0])
                                     /\ m - s <= 2 * Stepsize(todo[0])
  BY DEF CoarseToFine
<1> DEFINE d == Stepsize(todo[0])
<1>1. max \in Nat \ {0} /\ todo[0] \in Nat
  BY RangeType DEF IInv, TypeOK
<1>2. d \in Nat \ {0} /\ (d = 1 \/ 2 * d <= max)
  <2>1. todo[0] - 1 \in Nat /\ (todo[0] - 1) + 1 = todo[0]
    BY <1>1
  <2> QED BY <1>1, <2>1, StepsizeType
<1>3. \A g \in Grid(d) : g \in Sizes /\ (Measured(g) \/ (g = max /\ d # 1))
  BY DEF IInv, CoverInv, Pending, Grid
<1> HIDE DEF d
<1>4. PICK g \in Grid(d) : (g = max => d = 1) /\ s - g <= 2 * d /\ g - s <= 2 * d
  BY <1>1, <1>2, GridIsNear
<1> QED BY <1>3, <1>4 DEF d

\* Whenever a list is finished, no size is further than two steps from a measured one.
THEOREM RangeIsCovered == SpecReport => []CoarseToFine
BY InvariantS, InvCoarseToFine, PTL

LEMMA InvRowsAsMeasured == IInv => RowsAsMeasured
<1> DEFINE expected == {s \in Sizes : Measured(s) /\ s # half}
<1> SUFFICES ASSUME IInv, file.state = "complete"
             PROVE  /\ Len(file.rows) = Cardinality(expected)
                    /\ \A k \in 1 .. Len(file.rows) : IsRowOf(file.rows[k], Nth(expected, k))
  BY DEF RowsAsMeasured
<1>1. Rows = expected
  <2>1. \A s \in Sizes : s \in Nat /\ s > 0
    BY RangeType DEF IInv
  <2>2. \A s \in Sizes : results[s].x > 0 <=> Measured(s) /\ s # half
    BY <2>1 DEF IInv, ResultInv
  <2> QED BY <2>2 DEF Rows
<1>2. file.rows = [k \in 1 .. Cardinality(Rows) |-> results[Nth(Rows, k)]]
  BY DEF IInv, FileInv, Printed, RowSeq
<1>3. max \in Nat /\ \A s \in Rows : s \in 1 .. max
  BY RangeType DEF IInv, Rows, Sizes
<1>4. Cardinality(Rows) \in Nat /\ \A k \in 1 .. Cardinality(Rows) : Nth(Rows, k) \in Rows
  BY <1>3, CountType, NthElement
<1>5. Len(file.rows) = Cardinality(Rows)
  BY <1>2, <1>4
<1>6. \A s \in Rows : IsRowOf(results[s], s)
  BY <1>1 DEF IInv, ResultInv
<1> QED BY <1>1, <1>2, <1>4, <1>5, <1>6

\* A complete result file has the best result of every size that was measured, in
\* ascending order, however the measurement ended.
THEOREM FileAsMeasured == SpecReport => []RowsAsMeasured
BY InvariantS, InvRowsAsMeasured, PTL
----------------------------------------------------------------------------
(***************************************************************************)
(* Text.  bi_fprintf() breaks a text into lines, and what it drops between two *)
(* lines is no letter, unless a word fills a line: the letters of a line and of *)
(* what follows it are those of the text (EachLine), and so on from the end of *)
(* the text to its begin (Downwards), for the text that is put together that way *)
(* is the one LineBreak chooses (BrokenIs).                                *)
(***************************************************************************)
\* The letters of a text, character by character.
AreLetters(f, s) ==
  /\ f[0] = <<>>
  /\ \A k \in 1 .. Len(s) : f[k] = IF IsLetter(s[k]) THEN Append(f[k - 1], s[k]) ELSE f[k - 1]
HasLetters(S, s) ==
  \E f \in [0 .. Len(s) -> Seq(S)] : AreLetters(f, s) /\ Letters(s) = f[Len(s)]

LEMMA LettersAre ==
  ASSUME NEW S, NEW s \in Seq(S)
  PROVE  HasLetters(S, s)
<1>1. PICK m \in Nat : m = Len(s)
  OBVIOUS
<1>2. PICK A : A = Seq(S)
  OBVIOUS
<1> DEFINE Next_(k, x) == IF IsLetter(s[k]) THEN Append(x, s[k]) ELSE x
           Body(f) == [k \in 0 .. m |-> IF k = 0 THEN <<>> ELSE Next_(k, f[k - 1])]
           all == CHOOSE f : f = Body(f)
<1>3. PICK b \in A : b = <<>>
  <2>1. <<>> \in A
    BY <1>2
  <2> QED BY <2>1
<1>4. ASSUME NEW k \in 1 .. m, NEW x \in A PROVE Next_(k, x) \in A
  <2>1. s[k] \in S
    BY <1>1
  <2>2. Append(x, s[k]) \in A
    BY <1>2, <2>1, AppendProperties
  <2> QED BY <2>2
<1>5. Letters(s) = all[m]
  BY <1>1 DEF Letters
<1> HIDE DEF Next_
<1>6. PICK G \in [1 .. m -> [A -> A]] : \A k \in 1 .. m : \A x \in A : G[k][x] = Next_(k, x)
  <2> DEFINE G == [k \in 1 .. m |-> [x \in A |-> Next_(k, x)]]
  <2>1. G \in [1 .. m -> [A -> A]] /\ \A k \in 1 .. m : \A x \in A : G[k][x] = Next_(k, x)
    BY <1>4
  <2> HIDE DEF G
  <2> QED BY <2>1
<1>7. PICK f : f \in [0 .. m -> A] /\ f[0] = b /\ \A k \in 1 .. m : f[k] = G[k][f[k - 1]]
  <2>1. \E f : Follows(f, m, A, b, G)
    BY <1>1, <1>3, <1>6, Recursion
  <2> QED BY <2>1 DEF Follows
<1>8. \A k \in 1 .. m : k - 1 \in 0 .. m /\ k \in 0 .. m /\ k # 0
  OBVIOUS
<1>9. \A k \in 1 .. m : f[k] = Next_(k, f[k - 1])
  BY <1>6, <1>7, <1>8
<1>10. f = Body(f)
  <2>1. \A k \in 0 .. m : k = 0 \/ k \in 1 .. m
    OBVIOUS
  <2>2. \A k \in 0 .. m : f[k] = Body(f)[k]
    BY <1>3, <1>7, <1>9, <2>1
  <2>3. f = [k \in 0 .. m |-> f[k]]
    BY <1>7
  <2> QED BY <2>2, <2>3
<1>11. all = Body(all)
  BY <1>10
<1> HIDE DEF all
<1>12. all[0] = <<>> /\ \A k \in 1 .. m : all[k] = Next_(k, all[k - 1])
  BY <1>8, <1>11
<1>13. \A k \in 0 .. m : all[k] \in A
  <2>1. \A k \in 1 .. m : all[k - 1] \in A => all[k] \in A
    BY <1>4, <1>12
  <2>2. all[0] \in A
    BY <1>3, <1>12
  <2> QED BY <2>1, <2>2, StaysIn
<1>14. all = [k \in 0 .. m |-> all[k]]
  <2>1. DOMAIN all = 0 .. m
    BY <1>11
  <2> QED BY <1>11, <2>1
<1>15. all \in [0 .. Len(s) -> Seq(S)]
  BY <1>1, <1>2, <1>13, <1>14
<1>16. AreLetters(all, s)
  BY <1>1, <1>12 DEF AreLetters, Next_
<1> QED BY <1>1, <1>5, <1>15, <1>16 DEF HasLetters

AppendsToBoth(s, t, c) == Append(s \o t, c) = s \o Append(t, c)

LEMMA AppendToBoth ==
  ASSUME NEW S, NEW s \in Seq(S), NEW t \in Seq(S), NEW c \in S
  PROVE  AppendsToBoth(s, t, c)
<1>1. PICK e \in Seq(S) : e = <<c>>
  <2>1. <<c>> \in Seq(S)
    OBVIOUS
  <2> QED BY <2>1
<1>2. Append(s \o t, c) = (s \o t) \o <<c>> /\ Append(t, c) = t \o <<c>>
  <2>1. s \o t \in Seq(S)
    OBVIOUS
  <2> QED BY <2>1, AppendIsConcat
<1>3. (s \o t) \o e = s \o (t \o e)
  BY SMTT(30), ConcatAssociative
<1> QED BY <1>1, <1>2, <1>3 DEF AppendsToBoth

\* Those of two texts one behind the other.
LEMMA LettersOfBoth ==
  ASSUME NEW S, NEW s \in Seq(S), NEW t \in Seq(S)
  PROVE  Letters(s \o t) = Letters(s) \o Letters(t)
<1>1. PICK u : u = s \o t
  OBVIOUS
<1>2. PICK m \in Nat, l \in Nat : m = Len(s) /\ l = Len(t)
  OBVIOUS
<1>3. /\ u \in Seq(S) /\ Len(u) = m + l
      /\ \A k \in 1 .. m : u[k] = s[k]
      /\ \A k \in 1 .. l : u[m + k] = t[k]
  BY <1>1, <1>2
<1>4. PICK f \in [0 .. m -> Seq(S)] : AreLetters(f, s) /\ Letters(s) = f[m]
  BY <1>2, LettersAre DEF HasLetters
<1>5. PICK g \in [0 .. l -> Seq(S)] : AreLetters(g, t) /\ Letters(t) = g[l]
  BY <1>2, LettersAre DEF HasLetters
<1>6. PICK h \in [0 .. m + l -> Seq(S)] : AreLetters(h, u) /\ Letters(u) = h[m + l]
  <2>1. HasLetters(S, u)
    BY <1>3, LettersAre
  <2> QED BY <1>3, <2>1 DEF HasLetters
<1>7. h[m] = f[m]
  <2> DEFINE T == {k \in 0 .. m : h[k] = f[k]}
  <2>1. 0 \in T
    BY <1>2, <1>4, <1>6 DEF AreLetters
  <2>2. ASSUME NEW k \in 1 .. m, k - 1 \in T PROVE k \in T
    <3>1. h[k] = IF IsLetter(u[k]) THEN Append(h[k - 1], u[k]) ELSE h[k - 1]
      <4>1. k \in 1 .. Len(u)
        BY <1>2, <1>3
      <4> QED BY <1>6, <4>1 DEF AreLetters
    <3>2. f[k] = IF IsLetter(s[k]) THEN Append(f[k - 1], s[k]) ELSE f[k - 1]
      BY <1>2, <1>4 DEF AreLetters
    <3>3. u[k] = s[k] /\ h[k - 1] = f[k - 1]
      BY <1>3, <2>2
    <3> QED BY <3>1, <3>2, <3>3
  <2>3. m \in 0 .. m
    BY <1>2
  <2> HIDE DEF T
  <2>4. \A k \in 0 .. m : k \in T
    BY <1>2, <2>1, <2>2, Induction
  <2> QED BY <2>3, <2>4 DEF T
<1>8. h[m + l] = f[m] \o g[l]
  <2> DEFINE T == {k \in 0 .. l : h[m + k] = f[m] \o g[k]}
  <2>0. f[m] \in Seq(S)
    BY <1>2, <1>4
  <2>1. 0 \in T
    <3>1. g[0] = <<>>
      BY <1>5 DEF AreLetters
    <3>2. f[m] \o <<>> = f[m]
      BY <2>0
    <3>3. 0 \in 0 .. l /\ m + 0 = m
      BY <1>2
    <3> QED BY <1>7, <3>1, <3>2, <3>3
  <2>2. ASSUME NEW k \in 1 .. l, k - 1 \in T PROVE k \in T
    <3>1. h[m + k] = IF IsLetter(u[m + k]) THEN Append(h[m + k - 1], u[m + k]) ELSE h[m + k - 1]
      <4>1. m + k \in 1 .. Len(u)
        BY <1>2, <1>3
      <4> QED BY <1>6, <4>1 DEF AreLetters
    <3>2. g[k] = IF IsLetter(t[k]) THEN Append(g[k - 1], t[k]) ELSE g[k - 1]
      BY <1>2, <1>5 DEF AreLetters
    <3>3. u[m + k] = t[k] /\ h[m + k - 1] = f[m] \o g[k - 1]
      <4>1. h[m + (k - 1)] = f[m] \o g[k - 1] /\ m + (k - 1) = m + k - 1
        BY <1>2, <2>2
      <4> QED BY <1>3, <4>1
    <3>4. g[k - 1] \in Seq(S) /\ t[k] \in S
      <4>1. k - 1 \in 0 .. l
        BY <1>2
      <4>2. g[k - 1] \in Seq(S)
        BY <1>5, <4>1
      <4>3. k \in 1 .. Len(t)
        BY <1>2
      <4> QED BY <4>2, <4>3
    <3>5. Append(f[m] \o g[k - 1], t[k]) = f[m] \o Append(g[k - 1], t[k])
      <4>1. PICK a \in Seq(S), b \in Seq(S), c \in S : a = f[m] /\ b = g[k - 1] /\ c = t[k]
        BY <2>0, <3>4
      <4>5. Append(a \o b, c) = a \o Append(b, c)
        <5>1. AppendsToBoth(a, b, c)
          BY <4>1, AppendToBoth
        <5> QED BY <5>1 DEF AppendsToBoth
      <4> QED BY <4>1, <4>5
    <3>6. h[m + k] = f[m] \o g[k]
      BY <3>1, <3>2, <3>3, <3>5
    <3>7. k \in 0 .. l
      BY <1>2
    <3> QED BY <3>6, <3>7, Zenon
  <2>3. l \in 0 .. l
    BY <1>2
  <2> HIDE DEF T
  <2>4. \A k \in 0 .. l : k \in T
    BY <1>2, <2>1, <2>2, Induction
  <2> QED BY <2>3, <2>4 DEF T
<1> QED BY <1>1, <1>4, <1>5, <1>6, <1>8

LEMMA LettersType ==
  ASSUME NEW S, NEW s \in Seq(S)
  PROVE  Letters(s) \in Seq(S)
<1>1. PICK m \in Nat : m = Len(s)
  OBVIOUS
<1>2. PICK f \in [0 .. m -> Seq(S)] : Letters(s) = f[m]
  BY <1>1, LettersAre DEF HasLetters
<1>3. m \in 0 .. m
  OBVIOUS
<1> QED BY <1>2, <1>3

\* Texts that have their letters at the same places,
LEMMA SameLetters ==
  ASSUME NEW S, NEW s \in Seq(S), NEW t \in Seq(S), Len(t) = Len(s),
         \A k \in 1 .. Len(s) : \/ t[k] = s[k]
                                \/ ~IsLetter(s[k]) /\ ~IsLetter(t[k])
  PROVE  Letters(t) = Letters(s)
<1>1. PICK m \in Nat : m = Len(s) /\ m = Len(t)
  OBVIOUS
<1>2. PICK f \in [0 .. m -> Seq(S)] : AreLetters(f, s) /\ Letters(s) = f[m]
  BY <1>1, LettersAre DEF HasLetters
<1>3. PICK g \in [0 .. m -> Seq(S)] : AreLetters(g, t) /\ Letters(t) = g[m]
  BY <1>1, LettersAre DEF HasLetters
<1> DEFINE T == {k \in 0 .. m : f[k] = g[k]}
<1>4. 0 \in T
  BY <1>1, <1>2, <1>3 DEF AreLetters
<1>5. ASSUME NEW k \in 1 .. m, k - 1 \in T PROVE k \in T
  <2>1. f[k] = IF IsLetter(s[k]) THEN Append(f[k - 1], s[k]) ELSE f[k - 1]
    BY <1>1, <1>2 DEF AreLetters
  <2>2. g[k] = IF IsLetter(t[k]) THEN Append(g[k - 1], t[k]) ELSE g[k - 1]
    BY <1>1, <1>3 DEF AreLetters
  <2>3. f[k - 1] = g[k - 1] /\ k \in 1 .. Len(s)
    BY <1>1, <1>5
  <2>4. t[k] = s[k] \/ (~IsLetter(s[k]) /\ ~IsLetter(t[k]))
    BY <2>3
  <2>5. f[k] = g[k]
    BY <2>1, <2>2, <2>3, <2>4
  <2> QED BY <2>5
<1>6. m \in 0 .. m
  BY <1>1
<1> HIDE DEF T
<1>7. \A k \in 0 .. m : k \in T
  BY <1>1, <1>4, <1>5, Induction
<1> QED BY <1>2, <1>3, <1>6, <1>7 DEF T

\* the text without tabulators,
LEMMA LettersUntabbed ==
  ASSUME NEW S, BLANK \in S, NEW s \in Seq(S)
  PROVE  /\ Untabbed(s) \in Seq(S) /\ Len(Untabbed(s)) = Len(s)
         /\ \A k \in 1 .. Len(s) : Untabbed(s)[k] = IF s[k] = TAB THEN BLANK ELSE s[k]
         /\ Letters(Untabbed(s)) = Letters(s)
<1>1. PICK u : u = Untabbed(s)
  OBVIOUS
<1>0. PICK m \in Nat : m = Len(s)
  OBVIOUS
<1>2. u = [k \in 1 .. m |-> IF s[k] = TAB THEN BLANK ELSE s[k]]
  BY <1>0, <1>1 DEF Untabbed
<1>3. \A k \in 1 .. m : s[k] \in S
  BY <1>0, <1>1
<1>4. u \in [1 .. m -> S]
  <2>1. \A k \in 1 .. m : (IF s[k] = TAB THEN BLANK ELSE s[k]) \in S
    BY <1>3
  <2> QED BY <1>2, <2>1
<1>5. u \in Seq(S) /\ Len(u) = m
  BY <1>4
<1>6. Letters(u) = Letters(s)
  <2>1. \A k \in 1 .. Len(s) : u[k] = s[k] \/ (~IsLetter(s[k]) /\ ~IsLetter(u[k]))
    BY <1>0, <1>1, <1>2 DEF IsLetter
  <2>2. Len(u) = Len(s)
    BY <1>0, <1>1, <1>5
  <2> QED BY <1>5, <2>1, <2>2, SameLetters
<1> QED BY <1>0, <1>1, <1>2, <1>5, <1>6

\* and texts without letters.
LEMMA LettersOfNone ==
  ASSUME NEW S
  PROVE  /\ Letters(<<>>) = <<>>
         /\ \A c \in S : ~IsLetter(c) => <<c>> \in Seq(S) /\ Letters(<<c>>) = <<>>
<1>1. <<>> \in Seq(S) /\ Len(<<>>) = 0
  OBVIOUS
<1>2. Letters(<<>>) = <<>>
  <2>1. PICK f : AreLetters(f, <<>>) /\ Letters(<<>>) = f[0]
    <3>1. HasLetters(S, <<>>)
      BY <1>1, LettersAre
    <3> QED BY <1>1, <3>1 DEF HasLetters
  <2> QED BY <2>1 DEF AreLetters
<1>3. ASSUME NEW c \in S, ~IsLetter(c)
      PROVE  <<c>> \in Seq(S) /\ Letters(<<c>>) = <<>>
  <2>1. PICK s : s = <<c>>
    OBVIOUS
  <2>2. s \in Seq(S) /\ Len(s) = 1 /\ ~IsLetter(s[1])
    BY <1>3, <2>1
  <2>3. PICK f : AreLetters(f, s) /\ Letters(s) = f[1]
    <3>1. HasLetters(S, s)
      BY <2>2, LettersAre
    <3> QED BY <2>2, <3>1 DEF HasLetters
  <2>4. f[1] = f[1 - 1] /\ f[0] = <<>>
    <3>1. 1 \in 1 .. Len(s)
      BY <2>2
    <3> QED BY <2>2, <2>3, <3>1 DEF AreLetters
  <2> QED BY <2>1, <2>2, <2>3, <2>4
<1> QED BY <1>2, <1>3

\* What is true of the numbers behind is true of all.
LEMMA Downwards ==
  ASSUME NEW N \in Nat, NEW T,
         \A k \in 1 .. N : (\A i \in k + 1 .. N : i \in T) => k \in T
  PROVE  \A k \in 1 .. N : k \in T
<1> DEFINE D == {d \in 0 .. N : \A i \in N + 1 - d .. N : i \in T}
<1>1. 0 \in D
  OBVIOUS
<1>2. ASSUME NEW d \in 1 .. N, d - 1 \in D PROVE d \in D
  <2>1. PICK k \in 1 .. N : k = N + 1 - d
    OBVIOUS
  <2>2. \A i \in k + 1 .. N : i \in T
    BY <1>2, <2>1
  <2>3. k \in T
    BY <2>2
  <2>4. \A i \in k .. N : i = k \/ i \in k + 1 .. N
    OBVIOUS
  <2>5. \A i \in N + 1 - d .. N : i \in T
    BY <2>1, <2>2, <2>3, <2>4
  <2>6. d \in 0 .. N
    OBVIOUS
  <2> QED BY <2>5, <2>6
<1> HIDE DEF D
<1>3. \A d \in 0 .. N : d \in D
  BY <1>1, <1>2, Induction
<1>4. N \in D
  <2>1. N \in 0 .. N
    OBVIOUS
  <2> QED BY <1>3, <2>1
<1> QED BY <1>4 DEF D

\* A text that is put together from the end: a piece, and what is made of a place behind.
PutTogether(F, N, piece, next) ==
  \A k \in 1 .. N : F[k] = IF next[k] > N THEN piece[k] ELSE piece[k] \o F[next[k]]
CanBePut(N, A, piece, next) == \E F \in [1 .. N -> A] : PutTogether(F, N, piece, next)

LEMMA FromTheEnd ==
  ASSUME NEW N \in Nat, NEW A, NEW piece \in [1 .. N -> A], NEW next \in [1 .. N -> Nat],
         \A k \in 1 .. N : next[k] > k, \A x \in A : \A y \in A : x \o y \in A
  PROVE  CanBePut(N, A, piece, next)
<1> DEFINE Puts(F, d) == \A k \in N + 1 - d .. N :
                           F[k] = IF next[k] > N THEN piece[k] ELSE piece[k] \o F[next[k]]
           D == {d \in 0 .. N : \E F \in [N + 1 - d .. N -> A] : Puts(F, d)}
<1>1. 0 \in D
  <2> DEFINE F == [k \in N + 1 - 0 .. N |-> piece[k]]
  <2>1. F \in [N + 1 - 0 .. N -> A] /\ Puts(F, 0)
    OBVIOUS
  <2> HIDE DEF F, Puts
  <2> QED BY <2>1
<1>2. ASSUME NEW d \in 1 .. N, d - 1 \in D PROVE d \in D
  <2>1. PICK m \in 1 .. N : m = N + 1 - d /\ N + 1 - (d - 1) = m + 1
    OBVIOUS
  <2>2. PICK F \in [m + 1 .. N -> A] : \A k \in m + 1 .. N :
                           F[k] = IF next[k] > N THEN piece[k] ELSE piece[k] \o F[next[k]]
    BY <1>2, <2>1
  <2> DEFINE x == IF next[m] > N THEN piece[m] ELSE piece[m] \o F[next[m]]
             H == [k \in m .. N |-> IF k = m THEN x ELSE F[k]]
  <2>3. x \in A
    <3>1. next[m] > N \/ next[m] \in m + 1 .. N
      OBVIOUS
    <3>2. piece[m] \in A
      OBVIOUS
    <3>3. CASE next[m] > N
      BY <3>2, <3>3
    <3>4. CASE next[m] \in m + 1 .. N
      <4>1. F[next[m]] \in A
        BY <2>2, <3>4
      <4>2. PICK y \in A, z \in A : y = piece[m] /\ z = F[next[m]]
        BY <3>2, <4>1
      <4>3. y \o z \in A
        BY <4>2
      <4> QED BY <3>2, <4>2, <4>3
    <3> QED BY <3>1, <3>3, <3>4
  <2>4. H \in [m .. N -> A]
    <3>1. \A k \in m .. N : k = m \/ k \in m + 1 .. N
      OBVIOUS
    <3>2. \A k \in m + 1 .. N : F[k] \in A
      BY <2>2
    <3> HIDE DEF x
    <3> QED BY <2>3, <3>1, <3>2
  <2>5. \A k \in m .. N : H[k] = IF next[k] > N THEN piece[k] ELSE piece[k] \o H[next[k]]
    <3>1. \A k \in m + 1 .. N : H[k] = F[k] /\ k # m
      OBVIOUS
    <3>2. \A k \in m .. N : next[k] > N \/ (next[k] \in m + 1 .. N /\ next[k] \in k + 1 .. N)
      OBVIOUS
    <3>3. H[m] = IF next[m] > N THEN piece[m] ELSE piece[m] \o H[next[m]]
      <4>1. H[m] = x
        <5> HIDE DEF x
        <5> QED OBVIOUS
      <4>2. next[m] > N \/ H[next[m]] = F[next[m]]
        <5>1. m \in m .. N
          OBVIOUS
        <5> HIDE DEF H
        <5> QED BY <3>1, <3>2, <5>1
      <4> HIDE DEF H
      <4> QED BY <4>1, <4>2
    <3>4. ASSUME NEW k \in m + 1 .. N
          PROVE  H[k] = IF next[k] > N THEN piece[k] ELSE piece[k] \o H[next[k]]
      <4>1. next[k] > N \/ H[next[k]] = F[next[k]]
        <5>1. k \in m .. N
          OBVIOUS
        <5> HIDE DEF H
        <5> QED BY <3>1, <3>2, <5>1
      <4>2. H[k] = F[k]
        BY <3>1
      <4> HIDE DEF H
      <4> QED BY <2>2, <4>1, <4>2
    <3>5. \A k \in m .. N : k = m \/ k \in m + 1 .. N
      OBVIOUS
    <3> HIDE DEF H
    <3> QED BY <3>3, <3>4, <3>5
  <2> HIDE DEF H
  <2>6. \E G \in [N + 1 - d .. N -> A] : Puts(G, d)
    BY <2>1, <2>4, <2>5
  <2>7. d \in 0 .. N
    OBVIOUS
  <2> HIDE DEF Puts
  <2> QED BY <2>6, <2>7
<1>3. N \in D
  <2>1. N \in 0 .. N
    OBVIOUS
  <2> HIDE DEF D
  <2>2. \A d \in 0 .. N : d \in D
    BY <1>1, <1>2, Induction
  <2> QED BY <2>1, <2>2
<1>4. PICK F \in [1 .. N -> A] : \A k \in 1 .. N :
                           F[k] = IF next[k] > N THEN piece[k] ELSE piece[k] \o F[next[k]]
  <2>1. N + 1 - N = 1
    OBVIOUS
  <2> QED BY <1>3, <2>1
<1> QED BY <1>4 DEF CanBePut, PutTogether

\* Sequences one behind the other.
IsBoth(S, s, t) ==
  /\ s \o t \in Seq(S) /\ Len(s \o t) = Len(s) + Len(t)
  /\ \A i \in 1 .. Len(s) : (s \o t)[i] = s[i]
  /\ \A i \in 1 .. Len(t) : (s \o t)[Len(s) + i] = t[i]

LEMMA BothAre ==
  ASSUME NEW S, NEW s \in Seq(S), NEW t \in Seq(S)
  PROVE  IsBoth(S, s, t)
<1>1. PICK m \in Nat, l \in Nat : m = Len(s) /\ l = Len(t)
  OBVIOUS
<1>0. PICK u : u = s \o t
  OBVIOUS
<1>2. /\ u \in Seq(S) /\ Len(u) = m + l
      /\ \A k \in 1 .. m : u[k] = s[k]
      /\ \A k \in 1 .. l : u[m + k] = t[k]
  BY <1>0, <1>1
<1> QED BY <1>0, <1>1, <1>2 DEF IsBoth

LEMMA TwoAre ==
  ASSUME NEW S, NEW c \in S, NEW d \in S
  PROVE  <<c, d>> \in Seq(S) /\ <<c>> \o <<d>> = <<c, d>> /\ Len(<<c, d>>) = 2
<1>1. <<c, d>> \in Seq(S)
  OBVIOUS
<1>2. Len(<<c, d>>) = 2
  OBVIOUS
<1>3. <<c>> \o <<d>> = <<c, d>>
  <2>1. PICK a \in Seq(S) : a = <<c>> /\ Len(a) = 1 /\ a[1] = c
    <3>1. <<c>> \in Seq(S) /\ Len(<<c>>) = 1
      OBVIOUS
    <3> QED BY <3>1
  <2>2. Append(a, d) = a \o <<d>>
    BY AppendIsConcat
  <2>3. Append(a, d) = <<c, d>>
    <3>1. PICK x \in Seq(S) : x = Append(a, d) /\ Len(x) = 2 /\ x[1] = c /\ x[2] = d
      <4>1. /\ Append(a, d) \in Seq(S) /\ Len(Append(a, d)) = Len(a) + 1
            /\ Append(a, d)[1] = a[1] /\ Append(a, d)[Len(a) + 1] = d
        BY <2>1, AppendProperties
      <4>2. /\ Append(a, d) \in Seq(S) /\ Len(Append(a, d)) = 2
            /\ Append(a, d)[1] = c /\ Append(a, d)[2] = d
        <5>1. 1 + 1 = 2
          OBVIOUS
        <5> QED BY Zenon, <2>1, <4>1, <5>1
      <4> QED BY Zenon, <4>2
    <3>2. PICK y \in Seq(S) : y = <<c, d>> /\ Len(y) = 2 /\ y[1] = c /\ y[2] = d
      <4>1. <<c, d>>[1] = c /\ <<c, d>>[2] = d
        OBVIOUS
      <4> QED BY <1>1, <1>2, <4>1
    <3>3. \A i \in 1 .. Len(x) : x[i] = y[i]
      BY <3>1, <3>2
    <3>4. x = y
      BY <3>1, <3>2, <3>3, SeqEqual
    <3> QED BY <3>1, <3>2, <3>4
  <2> QED BY <2>1, <2>2, <2>3
<1> QED BY <1>1, <1>2, <1>3

\* The least and the greatest of some numbers.
LEMMA LeastIs ==
  ASSUME NEW T \in SUBSET Nat, T # {}
  PROVE  Least(T) \in T /\ \A i \in T : Least(T) <= i
<1>1. PICK m \in T : \A i \in T : m <= i
  BY LeastNumber
<1>2. \E i \in T : \A j \in T : i <= j
  BY <1>1
<1> QED BY <1>2 DEF Least

LEMMA GreatestIs ==
  ASSUME NEW b \in Nat, NEW T \in SUBSET (0 .. b), T # {}
  PROVE  Greatest(T) \in T /\ \A i \in T : i <= Greatest(T)
<1> DEFINE U == {b - i : i \in T}
<1>1. U \in SUBSET Nat /\ U # {}
  OBVIOUS
<1> HIDE DEF U
<1>2. PICK m \in U : \A i \in U : m <= i
  BY <1>1, LeastNumber
<1>3. PICK k \in T : m = b - k
  BY <1>2 DEF U
<1>4. \A i \in T : i <= k
  <2>1. \A i \in T : b - k <= b - i
    BY <1>2, <1>3 DEF U
  <2> QED BY <2>1
<1>5. \E i \in T : \A j \in T : j <= i
  BY <1>3, <1>4
<1> QED BY <1>5 DEF Greatest

\* A line from position k on, and where the next one begins; N + 1 if there is none.
LineFrom(u, k) ==
  LET manual == ManualBreaks(u, k) IN
  IF manual # {}
  THEN SubSeq(u, k, Least(manual)) \o (IF u[Least(manual)] = BACKSLASH THEN <<NEWLINE>> ELSE <<>>)
  ELSE IF Len(u) - k >= LINE THEN SubSeq(u, k, BreakAt(u, k) - 1) \o <<BACKSLASH, NEWLINE>>
  ELSE <<>>
Behind(u, k) ==
  LET manual == ManualBreaks(u, k) IN
  IF manual # {} THEN Least(manual) + 1
  ELSE IF Len(u) - k >= LINE THEN BreakAt(u, k) + 1
  ELSE Len(u) + 2

\* A line ends with a newline, is not too long, and keeps the letters.
IsLine(S, u, k) ==
  /\ LineFrom(u, k) \in Seq(S) /\ Behind(u, k) \in Nat /\ Behind(u, k) > k
  /\ Behind(u, k) <= Len(u) + 1 =>
       /\ Len(LineFrom(u, k)) \in 1 .. LINE + 2
       /\ LineFrom(u, k)[Len(LineFrom(u, k))] = NEWLINE
       /\ ~HasLongWord(u) => Letters(LineFrom(u, k)) = Letters(SubSeq(u, k, Behind(u, k) - 1))
  /\ Behind(u, k) > Len(u) + 1 =>
       /\ LineFrom(u, k) = <<>>
       /\ Terminated(u) => k = Len(u) + 1

IsAlphabet(S) == {BLANK, BACKSLASH, NEWLINE} \subseteq S

LEMMA ManualLine ==
  ASSUME NEW S, IsAlphabet(S), NEW u \in Seq(S), NEW k \in 1 .. Len(u) + 1,
         ManualBreaks(u, k) # {}
  PROVE  IsLine(S, u, k)
<1>1. PICK m \in Nat : m = Len(u)
  OBVIOUS
<1>2. PICK i \in k .. m : i = Least(ManualBreaks(u, k)) /\ u[i] \in {BACKSLASH, NEWLINE} /\ i - k <= LINE
  <2>1. ManualBreaks(u, k) \in SUBSET Nat
    BY <1>1 DEF ManualBreaks
  <2>2. Least(ManualBreaks(u, k)) \in ManualBreaks(u, k)
    BY <2>1, LeastIs
  <2> QED BY <1>1, <2>2 DEF ManualBreaks
<1>3. PICK s : s = SubSeq(u, k, i)
  OBVIOUS
<1>4. /\ s \in Seq(S) /\ Len(s) = i - k + 1 /\ Len(s) \in 1 .. LINE + 1
      /\ s[Len(s)] = u[i]
  <2>1. \A j \in k .. i : u[j] \in S
    BY <1>1
  <2>2. /\ s \in Seq(S) /\ Len(s) = i - k + 1
        /\ \A j \in 1 .. i - k + 1 : s[j] = u[k + j - 1]
    BY <1>3, <2>1, SubSeqProperties
  <2>3. i - k + 1 \in 1 .. LINE + 1 /\ i - k + 1 \in 1 .. i - k + 1 /\ k + (i - k + 1) - 1 = i
    BY <1>2, LineAssumption
  <2> QED BY <2>2, <2>3
<1>5. PICK e \in Seq(S) : /\ e = (IF u[i] = BACKSLASH THEN <<NEWLINE>> ELSE <<>>)
                          /\ Letters(e) = <<>>
  <2>1. NEWLINE \in S
    BY DEF IsAlphabet
  <2>2. <<NEWLINE>> \in Seq(S) /\ <<>> \in Seq(S)
    BY <2>1
  <2>3. ~IsLetter(NEWLINE)
    BY DEF IsLetter
  <2>4. Letters(<<>>) = <<>> /\ Letters(<<NEWLINE>>) = <<>>
    BY <2>1, <2>3, LettersOfNone
  <2> QED BY <2>2, <2>4
<1>6. LineFrom(u, k) = s \o e /\ Behind(u, k) = i + 1
  BY <1>2, <1>3, <1>5 DEF LineFrom, Behind
<1>7. /\ s \o e \in Seq(S) /\ Len(s \o e) \in 1 .. LINE + 2
      /\ (s \o e)[Len(s \o e)] = NEWLINE
  <2>0. IsBoth(S, s, e)
    BY <1>4, <1>5, BothAre
  <2>1. CASE u[i] = BACKSLASH
    <3>1. e = <<NEWLINE>> /\ Len(e) = 1 /\ e[1] = NEWLINE /\ 1 \in 1 .. Len(e)
      BY <1>5, <2>1
    <3>2. Len(s \o e) = Len(s) + 1 /\ (s \o e)[Len(s) + 1] = NEWLINE /\ s \o e \in Seq(S)
      BY Zenon, <2>0, <3>1 DEF IsBoth
    <3>3. Len(s) + 1 \in 1 .. LINE + 2
      BY <1>4, LineAssumption
    <3> QED BY Zenon, <3>2, <3>3
  <2>2. CASE u[i] # BACKSLASH
    <3>1. e = <<>>
      BY <1>5, <2>2
    <3>2. s \o e = s
      BY <1>4, <3>1
    <3>3. Len(s) \in 1 .. LINE + 2 /\ u[i] = NEWLINE
      BY SMTT(30), <1>2, <1>4, <2>2, LineAssumption
    <3> QED BY Zenon, <1>4, <3>2, <3>3
  <2> QED BY <2>1, <2>2
<1>8. Letters(s \o e) = Letters(s)
  <2>1. Letters(s \o e) = Letters(s) \o Letters(e)
    BY <1>4, <1>5, LettersOfBoth
  <2>2. Letters(s) \in Seq(S)
    BY <1>4, LettersType
  <2>3. Letters(s) \o <<>> = Letters(s)
    BY <2>2
  <2> QED BY <1>5, <2>1, <2>3
<1>9. SubSeq(u, k, Behind(u, k) - 1) = s /\ Behind(u, k) <= Len(u) + 1 /\ Behind(u, k) \in Nat /\ Behind(u, k) > k
  <2>1. i + 1 - 1 = i
    OBVIOUS
  <2> QED BY <1>1, <1>3, <1>6, <2>1
<1>10. ~(Behind(u, k) > Len(u) + 1)
  BY <1>1, <1>9
<1> QED BY Zenon, <1>6, <1>7, <1>8, <1>9, <1>10 DEF IsLine

LEMMA FullLine ==
  ASSUME NEW S, IsAlphabet(S), NEW u \in Seq(S), NEW k \in 1 .. Len(u) + 1,
         ManualBreaks(u, k) = {}, Len(u) - k >= LINE, \A j \in 1 .. Len(u) : u[j] # TAB
  PROVE  IsLine(S, u, k)
<1>1. PICK m \in Nat, b \in Nat : m = Len(u) /\ b = k + LINE /\ b <= m
  BY LineAssumption
<1>2. PICK i \in k + 1 .. b : /\ i = BreakAt(u, k)
                              /\ Blanks(u, k) # {} => u[i] = BLANK
  <2>1. CASE Blanks(u, k) = {}
    BY <1>1, <2>1, LineAssumption DEF BreakAt
  <2>2. CASE Blanks(u, k) # {}
    <3>1. Blanks(u, k) \in SUBSET (0 .. b)
      BY <1>1 DEF Blanks
    <3>2. Greatest(Blanks(u, k)) \in Blanks(u, k)
      BY <2>2, <3>1, GreatestIs
    <3> QED BY <1>1, <2>2, <3>2 DEF BreakAt, Blanks
  <2> QED BY <2>1, <2>2
<1>3. PICK s : s = SubSeq(u, k, i - 1)
  OBVIOUS
<1>4. s \in Seq(S) /\ Len(s) = i - k /\ Len(s) \in 1 .. LINE
  <2>1. \A j \in k .. i - 1 : u[j] \in S
    BY <1>1
  <2>2. i - 1 \in Int /\ k <= i - 1 /\ (i - 1) - k + 1 = i - k /\ i - k \in 1 .. LINE
    BY <1>1, LineAssumption
  <2>3. s \in Seq(S) /\ Len(s) = IF k <= i - 1 THEN (i - 1) - k + 1 ELSE 0
    BY <1>3, <2>1, <2>2, SubSeqProperties
  <2> QED BY <2>2, <2>3
<1>5. PICK e \in Seq(S) : e = <<BACKSLASH, NEWLINE>> /\ Letters(e) = <<>>
  <2>1. NEWLINE \in S /\ BACKSLASH \in S /\ ~IsLetter(NEWLINE) /\ ~IsLetter(BACKSLASH)
    BY DEF IsAlphabet, IsLetter
  <2>2. /\ <<NEWLINE>> \in Seq(S) /\ <<BACKSLASH>> \in Seq(S)
        /\ Letters(<<NEWLINE>>) = <<>> /\ Letters(<<BACKSLASH>>) = <<>>
    BY <2>1, LettersOfNone
  <2>3. <<BACKSLASH, NEWLINE>> \in Seq(S) /\ <<BACKSLASH>> \o <<NEWLINE>> = <<BACKSLASH, NEWLINE>>
    BY <2>1, TwoAre
  <2>4. Letters(<<BACKSLASH>> \o <<NEWLINE>>) = Letters(<<BACKSLASH>>) \o Letters(<<NEWLINE>>)
    BY <2>2, LettersOfBoth
  <2>5. <<>> \o <<>> = <<>>
    OBVIOUS
  <2> QED BY <2>2, <2>3, <2>4, <2>5
<1>6. LineFrom(u, k) = s \o e /\ Behind(u, k) = i + 1
  BY <1>2, <1>3, <1>5 DEF LineFrom, Behind
<1>7. /\ s \o e \in Seq(S) /\ Len(s \o e) \in 1 .. LINE + 2
      /\ (s \o e)[Len(s \o e)] = NEWLINE
  <2>1. Len(e) = 2 /\ e[2] = NEWLINE
    BY <1>5
  <2>2. IsBoth(S, s, e)
    BY <1>4, <1>5, BothAre
  <2>5. 2 \in 1 .. Len(e)
    BY <2>1
  <2>3. Len(s \o e) = Len(s) + 2 /\ (s \o e)[Len(s) + 2] = NEWLINE /\ s \o e \in Seq(S)
    BY Zenon, <2>1, <2>2, <2>5 DEF IsBoth
  <2>4. Len(s) + 2 \in 1 .. LINE + 2
    BY <1>4, LineAssumption
  <2> QED BY Zenon, <2>3, <2>4
<1>8. ASSUME ~HasLongWord(u) PROVE Letters(s \o e) = Letters(SubSeq(u, k, i))
  <2>1. Blanks(u, k) # {}
    <3> SUFFICES ASSUME Blanks(u, k) = {} PROVE HasLongWord(u)
      BY <1>8
    <3>1. ASSUME NEW j \in k + 1 .. k + LINE PROVE IsLetter(u[j])
      <4>1. u[j] # BLANK
        BY DEF Blanks
      <4>2. u[j] \notin {BACKSLASH, NEWLINE}
        BY <1>1, LineAssumption DEF ManualBreaks
      <4>3. u[j] # TAB
        BY <1>1, LineAssumption
      <4> QED BY <4>1, <4>2, <4>3 DEF IsLetter
    <3>2. k + 1 \in 1 .. Len(u) - LINE + 1 /\ (k + 1) + LINE - 1 = k + LINE
      BY <1>1, LineAssumption
    <3>3. \A j \in k + 1 .. (k + 1) + LINE - 1 : IsLetter(u[j])
      BY <3>1, <3>2
    <3> QED BY <3>2, <3>3 DEF HasLongWord
  <2>2. u[i] = BLANK
    BY <1>2, <2>1
  <2>3. PICK c \in Seq(S) : c = <<u[i]>> /\ Letters(c) = <<>>
    <3>1. u[i] \in S /\ ~IsLetter(u[i])
      BY <2>2 DEF IsAlphabet, IsLetter
    <3> QED BY <3>1, LettersOfNone
  <2>4. SubSeq(u, k, i) = s \o c
    <3>1. k \in 1 .. Len(u) /\ i \in k .. Len(u)
      BY <1>1
    <3> QED BY <1>3, <2>3, <3>1, SubSeqRecursiveSecond
  <2>5. Letters(s \o c) = Letters(s) \o <<>> /\ Letters(s \o e) = Letters(s) \o <<>>
    BY <1>4, <1>5, <2>3, LettersOfBoth
  <2> QED BY <2>4, <2>5
<1>9. Behind(u, k) - 1 = i /\ Behind(u, k) <= Len(u) + 1 /\ Behind(u, k) \in Nat /\ Behind(u, k) > k
  BY <1>1, <1>6
<1> QED BY <1>6, <1>7, <1>8, <1>9 DEF IsLine

LEMMA LastLine ==
  ASSUME NEW S, NEW u \in Seq(S), NEW k \in 1 .. Len(u) + 1,
         ManualBreaks(u, k) = {}, ~(Len(u) - k >= LINE)
  PROVE  IsLine(S, u, k)
<1>1. PICK m \in Nat : m = Len(u)
  OBVIOUS
<1>2. LineFrom(u, k) = <<>> /\ Behind(u, k) = m + 2 /\ <<>> \in Seq(S)
  BY <1>1 DEF LineFrom, Behind
<1>3. ASSUME Terminated(u), k # m + 1 PROVE FALSE
  <2>1. m \in k .. m /\ m - k <= LINE /\ u[m] = NEWLINE
    BY <1>1, <1>3, LineAssumption DEF Terminated
  <2> QED BY <1>1, <2>1 DEF ManualBreaks
<1> QED BY <1>1, <1>2, <1>3 DEF IsLine

LEMMA EachLine ==
  ASSUME NEW S, IsAlphabet(S), NEW u \in Seq(S), NEW k \in 1 .. Len(u) + 1,
         \A j \in 1 .. Len(u) : u[j] # TAB
  PROVE  IsLine(S, u, k)
BY ManualLine, FullLine, LastLine

\* What bi_fprintf() writes is put together line by line.
FromLines(F, S, u) ==
  /\ F \in [1 .. Len(u) + 1 -> Seq(S)]
  /\ \A k \in 1 .. Len(u) + 1 :
       F[k] = IF Behind(u, k) > Len(u) + 1 THEN LineFrom(u, k) ELSE LineFrom(u, k) \o F[Behind(u, k)]
IsBroken(S, u) == \E F : FromLines(F, S, u) /\ Broken(u) = F[1]

LEMMA BrokenIs ==
  ASSUME NEW S, IsAlphabet(S), NEW u \in Seq(S), \A j \in 1 .. Len(u) : u[j] # TAB
  PROVE  IsBroken(S, u)
<1>1. PICK N \in Nat : N = Len(u) + 1 /\ N > 0
  OBVIOUS
<1> DEFINE Body(f) == [first \in 1 .. Len(u) + 1 |->
             LET manual == ManualBreaks(u, first) IN
             IF manual # {}
             THEN LET i == Least(manual) IN
                  SubSeq(u, first, i)
                    \o (IF u[i] = BACKSLASH THEN <<NEWLINE>> ELSE <<>>) \o f[i + 1]
             ELSE IF Len(u) - first >= LINE
             THEN LET i == BreakAt(u, first) IN
                  SubSeq(u, first, i - 1) \o <<BACKSLASH, NEWLINE>> \o f[i + 1]
             ELSE <<>>]
           from == CHOOSE f : f = Body(f)
           Put(f, k) == IF Behind(u, k) > N THEN LineFrom(u, k) ELSE LineFrom(u, k) \o f[Behind(u, k)]
<1>2. Broken(u) = from[1]
  BY DEF Broken
<1>3. ASSUME NEW k \in 1 .. N PROVE IsLine(S, u, k)
  BY <1>1, EachLine
<1>4. ASSUME NEW f, NEW k \in 1 .. N PROVE Body(f)[k] = Put(f, k)
  <2>1. CASE ManualBreaks(u, k) # {}
    <3>1. Behind(u, k) = Least(ManualBreaks(u, k)) + 1
      BY <2>1 DEF Behind
    <3>2. Least(ManualBreaks(u, k)) \in k .. Len(u)
      <4>1. ManualBreaks(u, k) \in SUBSET Nat
        BY <1>1 DEF ManualBreaks
      <4>2. Least(ManualBreaks(u, k)) \in ManualBreaks(u, k)
        BY <2>1, <4>1, LeastIs
      <4> QED BY <4>2 DEF ManualBreaks
    <3>3. ~(Behind(u, k) > N)
      BY <1>1, <3>1, <3>2
    <3>4. Body(f)[k] = LineFrom(u, k) \o f[Behind(u, k)]
      BY Zenon, <1>1, <2>1, <3>1 DEF LineFrom
    <3> QED BY <3>3, <3>4
  <2>2. CASE ManualBreaks(u, k) = {} /\ Len(u) - k >= LINE
    <3>1. Behind(u, k) = BreakAt(u, k) + 1
      BY <2>2 DEF Behind
    <3>2. BreakAt(u, k) \in 0 .. Len(u)
      <4>1. PICK b \in Nat : b = k + LINE /\ b <= Len(u)
        BY <1>1, <2>2, LineAssumption
      <4>2. CASE Blanks(u, k) = {}
        BY <4>1, <4>2 DEF BreakAt
      <4>3. CASE Blanks(u, k) # {}
        <5>1. Blanks(u, k) \in SUBSET (0 .. b)
          BY <4>1 DEF Blanks
        <5>2. Greatest(Blanks(u, k)) \in Blanks(u, k)
          BY <4>3, <5>1, GreatestIs
        <5>3. Greatest(Blanks(u, k)) \in 0 .. b
          BY <5>1, <5>2
        <5> QED BY <1>1, <4>1, <4>3, <5>3 DEF BreakAt
      <4> QED BY <4>2, <4>3
    <3>3. ~(Behind(u, k) > N)
      <4>1. PICK b \in 0 .. Len(u) : b = BreakAt(u, k)
        BY <3>2
      <4>2. ~(b + 1 > N)
        BY <1>1
      <4> QED BY <3>1, <4>1, <4>2
    <3>4. Body(f)[k] = LineFrom(u, k) \o f[Behind(u, k)]
      BY Zenon, <1>1, <2>2, <3>1 DEF LineFrom
    <3> QED BY <3>3, <3>4
  <2>3. CASE ManualBreaks(u, k) = {} /\ ~(Len(u) - k >= LINE)
    <3>1. Behind(u, k) > N
      BY <1>1, <2>3 DEF Behind
    <3>2. Body(f)[k] = LineFrom(u, k)
      BY Zenon, <1>1, <2>3 DEF LineFrom
    <3> QED BY <3>1, <3>2
  <2> QED BY <2>1, <2>2, <2>3
<1>5. PICK piece \in [1 .. N -> Seq(S)], next \in [1 .. N -> Nat] :
        \A k \in 1 .. N : piece[k] = LineFrom(u, k) /\ next[k] = Behind(u, k) /\ next[k] > k
  <2> DEFINE piece == [k \in 1 .. N |-> LineFrom(u, k)]
             next  == [k \in 1 .. N |-> Behind(u, k)]
  <2>1. piece \in [1 .. N -> Seq(S)] /\ next \in [1 .. N -> Nat]
    BY <1>3 DEF IsLine
  <2>2. \A k \in 1 .. N : piece[k] = LineFrom(u, k) /\ next[k] = Behind(u, k) /\ next[k] > k
    BY <1>3 DEF IsLine
  <2> HIDE DEF piece, next
  <2> QED BY <2>1, <2>2
<1>6. PICK F \in [1 .. N -> Seq(S)] : \A k \in 1 .. N : F[k] = Put(F, k)
  <2>1. \A x \in Seq(S) : \A y \in Seq(S) : x \o y \in Seq(S)
    OBVIOUS
  <2>2. PICK A : A = Seq(S)
    OBVIOUS
  <2>3. CanBePut(N, A, piece, next)
    BY <1>5, <2>1, <2>2, FromTheEnd
  <2>4. PICK F \in [1 .. N -> A] : \A k \in 1 .. N :
              F[k] = IF next[k] > N THEN piece[k] ELSE piece[k] \o F[next[k]]
    BY <2>3 DEF CanBePut, PutTogether
  <2>5. \A k \in 1 .. N : F[k] = Put(F, k)
    BY Zenon, <1>5, <2>4
  <2> HIDE DEF Put
  <2> QED BY <2>2, <2>4, <2>5
<1>7. F = Body(F)
  <2>1. DOMAIN Body(F) = 1 .. N
    BY <1>1
  <2>2. \A k \in 1 .. N : Body(F)[k] = Put(F, k)
    BY <1>4
  <2>3. Body(F) = [k \in 1 .. N |-> Body(F)[k]]
    BY <1>1
  <2> HIDE DEF Body, Put
  <2>4. F = [k \in 1 .. N |-> F[k]]
    BY <1>6
  <2> QED BY <1>6, <2>2, <2>3, <2>4
<1>8. from = Body(from)
  <2> HIDE DEF Body
  <2> QED BY <1>7
<1>9. DOMAIN from = 1 .. N /\ \A k \in 1 .. N : from[k] = Put(from, k)
  <2>1. DOMAIN from = 1 .. N
    <3> HIDE DEF from
    <3> QED BY <1>1, <1>8
  <2>2. \A k \in 1 .. N : from[k] = Put(from, k)
    <3> HIDE DEF from, Body, Put
    <3> QED BY <1>4, <1>8
  <2> QED BY <2>1, <2>2
<1> HIDE DEF from
<1>10. \A k \in 1 .. N : from[k] \in Seq(S)
  <2> DEFINE T == {k \in 1 .. N : from[k] \in Seq(S)}
  <2>1. ASSUME NEW k \in 1 .. N, \A i \in k + 1 .. N : i \in T PROVE k \in T
    <3>1. LineFrom(u, k) \in Seq(S) /\ Behind(u, k) \in Nat /\ Behind(u, k) > k
      BY <1>3 DEF IsLine
    <3>2. Behind(u, k) > N \/ from[Behind(u, k)] \in Seq(S)
      BY SMTT(30), <2>1, <3>1
    <3>3. from[k] = Put(from, k)
      BY <1>9
    <3>4. from[k] \in Seq(S)
      <4>1. CASE Behind(u, k) > N
        BY <3>1, <3>3, <4>1
      <4>2. CASE ~(Behind(u, k) > N)
        <5>1. PICK x \in Seq(S), y \in Seq(S) : x = LineFrom(u, k) /\ y = from[Behind(u, k)]
          BY <3>1, <3>2, <4>2
        <5>2. x \o y \in Seq(S)
          OBVIOUS
        <5> QED BY Zenon, <3>3, <4>2, <5>1, <5>2
      <4> QED BY <4>1, <4>2
    <3> QED BY <3>4
  <2> HIDE DEF T
  <2>2. \A k \in 1 .. N : k \in T
    BY <2>1, Downwards
  <2> QED BY <2>2 DEF T
<1>11. from \in [1 .. N -> Seq(S)]
  <2>1. from = [k \in 1 .. N |-> from[k]]
    BY <1>1, <1>8, <1>9
  <2> QED BY <1>10, <2>1
<1>12. FromLines(from, S, u)
  BY Zenon, <1>1, <1>9, <1>11 DEF FromLines
<1> QED BY <1>2, <1>12 DEF IsBroken

LEMMA LinesFitBoth ==
  ASSUME NEW S, NEW s \in Seq(S), NEW t \in Seq(S), Len(s) \in 1 .. LINE + 2, s[Len(s)] = NEWLINE,
         LinesFit(t)
  PROVE  LinesFit(s \o t)
<1>1. PICK m \in Nat, l \in Nat : m = Len(s) /\ l = Len(t) /\ m \in 1 .. LINE + 2
  OBVIOUS
<1>2. PICK r : r = s \o t
  OBVIOUS
<1>3. /\ Len(r) = m + l /\ r[m] = NEWLINE
      /\ \A i \in 1 .. l : r[m + i] = t[i]
  <2>1. IsBoth(S, s, t)
    BY BothAre
  <2>2. m \in 1 .. Len(s)
    BY <1>1
  <2> QED BY Zenon, <1>1, <1>2, <2>1, <2>2 DEF IsBoth
<1> SUFFICES ASSUME NEW i \in Newlines(r), i + LINE + 2 <= m + l
             PROVE  \E j \in Newlines(r) : i < j /\ j <= i + LINE + 2
  BY <1>2, <1>3 DEF LinesFit
<1>4. i \in 0 .. m + l
  BY <1>1, <1>3 DEF Newlines
<1>5. CASE i < m
  <2>1. m \in Newlines(r) /\ i < m /\ m <= i + LINE + 2
    BY <1>1, <1>3, <1>4, <1>5, LineAssumption DEF Newlines
  <2> QED BY <2>1
<1>6. CASE i >= m
  <2>1. PICK k \in Nat : i = m + k
    <3>1. i - m \in Nat /\ i = m + (i - m)
      BY <1>1, <1>4, <1>6
    <3> QED BY <3>1
  <2>2. k \in Newlines(t)
    BY <1>1, <1>3, <1>4, <2>1 DEF Newlines
  <2>3. k + LINE + 2 <= Len(t)
    BY <1>1, <2>1, LineAssumption
  <2>4. PICK j \in Newlines(t) : k < j /\ j <= k + LINE + 2
    BY <2>2, <2>3 DEF LinesFit
  <2>5. j \in 1 .. l /\ t[j] = NEWLINE
    BY <1>1, <2>1, <2>4 DEF Newlines
  <2>6. m + j \in Newlines(r)
    BY <1>1, <1>3, <2>5 DEF Newlines
  <2>7. i < m + j /\ m + j <= i + LINE + 2
    BY <1>1, <2>1, <2>4, <2>5, LineAssumption
  <2> QED BY <2>6, <2>7
<1> QED BY <1>4, <1>5, <1>6

\* Every line fits; and nothing but blanks is lost where words fit a line.
LEMMA BrokenKeeps ==
  ASSUME NEW S, IsAlphabet(S), NEW u \in Seq(S), \A j \in 1 .. Len(u) : u[j] # TAB
  PROVE  /\ LinesFit(Broken(u))
         /\ ~HasLongWord(u) /\ Terminated(u) => Letters(Broken(u)) = Letters(u)
<1>1. PICK N \in Nat : N = Len(u) + 1 /\ N > 0 /\ 1 \in 1 .. N
  OBVIOUS
<1>2. PICK F : FromLines(F, S, u) /\ Broken(u) = F[1]
  BY BrokenIs DEF IsBroken
<1>3. \A k \in 1 .. N : /\ F[k] \in Seq(S)
                        /\ Behind(u, k) > N => F[k] = LineFrom(u, k)
                        /\ ~(Behind(u, k) > N) => F[k] = LineFrom(u, k) \o F[Behind(u, k)]
  BY <1>1, <1>2 DEF FromLines
<1>4. ASSUME NEW k \in 1 .. N PROVE IsLine(S, u, k)
  BY <1>1, EachLine
<1> DEFINE Fine == ~HasLongWord(u) /\ Terminated(u)
           T == {k \in 1 .. N : /\ LinesFit(F[k])
                                /\ Fine => Letters(F[k]) = Letters(SubSeq(u, k, Len(u)))}
<1>5. ASSUME NEW k \in 1 .. N, \A i \in k + 1 .. N : i \in T PROVE k \in T
  <2>1. CASE Behind(u, k) > N
    <3>1. F[k] = <<>> /\ (Terminated(u) => k = Len(u) + 1)
      BY <1>1, <1>3, <1>4, <2>1 DEF IsLine
    <3>2. LinesFit(<<>>)
      BY LineAssumption DEF LinesFit, Newlines
    <3>3. ASSUME k = Len(u) + 1 PROVE SubSeq(u, k, Len(u)) = <<>>
      <4>1. k \in Int /\ Len(u) \in Int /\ Len(u) < k
        BY <3>3
      <4> QED BY <4>1, SubSeqEmpty
    <3> QED BY <3>1, <3>2, <3>3
  <2>2. CASE ~(Behind(u, k) > N)
    <3>1. PICK b \in k + 1 .. N : b = Behind(u, k)
      BY <1>1, <1>4, <2>2 DEF IsLine
    <3>2. PICK s \in Seq(S), t \in Seq(S) : s = LineFrom(u, k) /\ t = F[b]
      BY <1>3, <1>4, <3>1 DEF IsLine
    <3>3. F[k] = s \o t
      BY Zenon, <1>3, <2>2, <3>1, <3>2
    <3>4. /\ Len(s) \in 1 .. LINE + 2 /\ s[Len(s)] = NEWLINE
          /\ ~HasLongWord(u) => Letters(s) = Letters(SubSeq(u, k, b - 1))
      <4>1. Behind(u, k) <= Len(u) + 1
        BY <1>1, <3>1
      <4> QED BY Zenon, <1>4, <3>1, <3>2, <4>1 DEF IsLine
    <3>5. b \in T
      BY <1>5, <3>1
    <3>6. LinesFit(s \o t)
      <4>1. LinesFit(t)
        BY <3>2, <3>5
      <4> QED BY <3>4, <4>1, LinesFitBoth
    <3>7. ASSUME Fine PROVE Letters(s \o t) = Letters(SubSeq(u, k, Len(u)))
      <4>1. Letters(t) = Letters(SubSeq(u, b, Len(u)))
        BY <3>2, <3>5, <3>7
      <4>2. PICK x : x = SubSeq(u, k, b - 1)
        OBVIOUS
      <4>3. PICK y : y = SubSeq(u, b, Len(u))
        OBVIOUS
      <4>4. x \in Seq(S) /\ y \in Seq(S)
        <5>1. (\A j \in k .. b - 1 : u[j] \in S) /\ (\A j \in b .. Len(u) : u[j] \in S)
          BY <1>1, <3>1
        <5> QED BY SMTT(30), <1>1, <3>1, <4>2, <4>3, <5>1, SubSeqProperties
      <4>5. x \o y = SubSeq(u, k, Len(u))
        <5>1. /\ k \in 1 .. Len(u) + 1 /\ b - 1 \in k - 1 .. Len(u) /\ Len(u) \in b - 1 .. Len(u)
              /\ (b - 1) + 1 = b
          BY <1>1, <3>1
        <5>2. SubSeq(u, k, b - 1) \o SubSeq(u, (b - 1) + 1, Len(u)) = SubSeq(u, k, Len(u))
          BY <5>1, ConcatAdjacentSubSeq
        <5> QED BY Zenon, <4>2, <4>3, <5>1, <5>2
      <4>6. Letters(s \o t) = Letters(s) \o Letters(t)
        BY LettersOfBoth
      <4>7. Letters(x \o y) = Letters(x) \o Letters(y)
        BY <4>4, LettersOfBoth
      <4>8. Letters(s) = Letters(x) /\ Letters(t) = Letters(y)
        BY Zenon, <3>4, <3>7, <4>1, <4>2, <4>3
      <4> QED BY Zenon, <4>5, <4>6, <4>7, <4>8
    <3> QED BY Zenon, <3>3, <3>6, <3>7
  <2> QED BY <2>1, <2>2
<1>6. 1 \in T
  <2> HIDE DEF T
  <2>1. \A k \in 1 .. N : k \in T
    BY <1>5, Downwards
  <2> QED BY <1>1, <2>1
<1>7. SubSeq(u, 1, Len(u)) = u
  BY SubSeqFull
<1> QED BY <1>2, <1>6, <1>7

LEMMA FprintfKeeps ==
  ASSUME NEW S, IsAlphabet(S), NEW s \in Seq(S)
  PROVE  Readable(s, bi_fprintf(s))
<1>1. PICK m \in Nat : m = Len(s)
  OBVIOUS
<1>2. CASE m <= LINE
  <2>1. bi_fprintf(s) = s
    BY <1>1, <1>2 DEF bi_fprintf
  <2>2. LinesFit(s)
    <3>1. \A i \in Newlines(s) : ~(i + LINE + 2 <= Len(s))
      BY <1>1, <1>2, LineAssumption DEF Newlines
    <3> QED BY <3>1 DEF LinesFit
  <2> QED BY <2>1, <2>2 DEF Readable, KeepsLetters
<1>3. CASE m > LINE
  <2>1. PICK u : u = Untabbed(s)
    OBVIOUS
  <2>2. /\ u \in Seq(S) /\ Len(u) = Len(s) /\ Letters(u) = Letters(s)
        /\ \A k \in 1 .. Len(s) : u[k] = IF s[k] = TAB THEN BLANK ELSE s[k]
    <3>1. BLANK \in S
      BY DEF IsAlphabet
    <3> QED BY <2>1, <3>1, LettersUntabbed
  <2>3. bi_fprintf(s) = Broken(u)
    BY <1>1, <1>3, <2>1, LineAssumption DEF bi_fprintf
  <2>4. \A j \in 1 .. Len(u) : u[j] # TAB
    BY <2>2 DEF TAB, BLANK
  <2>5. HasLongWord(u) => HasLongWord(s)
    <3> SUFFICES ASSUME NEW i \in 1 .. Len(u) - LINE + 1, \A j \in i .. i + LINE - 1 : IsLetter(u[j])
                 PROVE  HasLongWord(s)
      BY DEF HasLongWord
    <3>1. i \in 1 .. Len(s) - LINE + 1
      BY <2>2
    <3>2. ASSUME NEW j \in i .. i + LINE - 1 PROVE IsLetter(s[j])
      <4>1. j \in 1 .. Len(s)
        BY <1>1, <3>1, LineAssumption
      <4>2. IsLetter(u[j])
        OBVIOUS
      <4> QED BY <2>2, <4>1, <4>2 DEF IsLetter
    <3> QED BY <3>1, <3>2 DEF HasLongWord
  <2>6. Terminated(s) => Terminated(u)
    <3> SUFFICES ASSUME Terminated(s) PROVE Terminated(u)
      OBVIOUS
    <3>1. m \in 1 .. m /\ s[m] = NEWLINE
      BY <1>1, <1>3, LineAssumption DEF Terminated
    <3>2. u[m] = NEWLINE /\ Len(u) = m /\ m # 0
      BY <1>1, <2>2, <3>1 DEF NEWLINE, TAB
    <3> QED BY <3>2 DEF Terminated
  <2>7. LinesFit(Broken(u)) /\ (~HasLongWord(u) /\ Terminated(u) => Letters(Broken(u)) = Letters(u))
    BY <2>2, <2>4, BrokenKeeps
  <2> QED BY <1>1, <1>3, <2>2, <2>3, <2>5, <2>6, <2>7 DEF Readable, KeepsLetters
<1> QED BY <1>1, <1>2, <1>3, LineAssumption
----------------------------------------------------------------------------
(***************************************************************************)
(* The pieces between commas, and what is written of them.                 *)
(***************************************************************************)
\* The pieces of a text: each ends before the first comma behind its begin, or with
\* the text.
IsPieceOf(s, k) ==
  /\ PieceBegin(s, k) \in 1 .. Len(s) + 1 /\ Nth(PieceEnds(s), k) \in PieceBegin(s, k) .. Len(s) + 1
  /\ \A i \in PieceBegin(s, k) .. Nth(PieceEnds(s), k) - 1 : s[i] # COMMA
  /\ IF k = Cardinality(PieceEnds(s)) THEN Nth(PieceEnds(s), k) = Len(s) + 1
     ELSE /\ Nth(PieceEnds(s), k) <= Len(s) /\ s[Nth(PieceEnds(s), k)] = COMMA
          /\ PieceBegin(s, k + 1) = Nth(PieceEnds(s), k) + 1

LEMMA PiecesAre ==
  ASSUME NEW S, NEW s \in Seq(S)
  PROVE  /\ Cardinality(PieceEnds(s)) \in Nat \ {0}
         /\ \A k \in 1 .. Cardinality(PieceEnds(s)) : IsPieceOf(s, k)
<1>1. PICK m \in Nat : m = Len(s)
  OBVIOUS
<1>2. PICK e : e = PieceEnds(s)
  OBVIOUS
<1>3. PICK q : q = m + 1 /\ q \in Nat /\ q > 0
  OBVIOUS
<1>4. /\ \A i \in e : i \in 1 .. q /\ (i = q \/ s[i] = COMMA)
      /\ \A i \in 1 .. q : (i = q \/ s[i] = COMMA) => i \in e
      /\ (\A i \in e : i \in 1 .. q) /\ q \in e
  <2>1. Len(s) + 1 = q
    BY <1>1, <1>3
  <2>2. e = {i \in 1 .. q : i = q \/ s[i] = COMMA}
    BY <1>2, <2>1 DEF PieceEnds
  <2>3. q \in 1 .. q
    BY <1>3
  <2> QED BY <2>2, <2>3
<1>5. PICK c \in Nat : c = Cardinality(e)
  <2>1. Cardinality(e) \in 0 .. q
    BY <1>3, <1>4, CountType
  <2> QED BY <1>3, <2>1
<1>6. ASSUME NEW k \in 1 .. c PROVE Nth(e, k) \in e
  BY <1>3, <1>4, <1>5, NthElement
<1>7. ASSUME NEW k \in 1 .. c, NEW l \in 1 .. c, k < l PROVE Nth(e, k) < Nth(e, l)
  BY <1>3, <1>4, <1>5, <1>7, NthAscends
<1>8. ASSUME NEW i \in e PROVE \E k \in 1 .. c : Nth(e, k) = i
  BY <1>3, <1>4, <1>5, NthCovers
<1>9. PICK last \in 1 .. c : Nth(e, last) = q
  BY <1>4, <1>8
<1>10. c \in Nat \ {0} /\ last = c
  <2>1. c \in 1 .. c
    BY <1>9
  <2>2. ASSUME last < c PROVE FALSE
    <3>1. q < Nth(e, c) /\ Nth(e, c) \in 1 .. q
      BY <1>4, <1>6, <1>7, <1>9, <2>1, <2>2
    <3> QED BY <1>3, <3>1
  <2> QED BY <2>1, <2>2
<1>11. ASSUME NEW k \in 1 .. c PROVE IsPieceOf(s, k)
  <2>1. PICK x \in 1 .. q : x = Nth(e, k)
    BY <1>4, <1>6
  <2>2. PICK b \in 1 .. q : /\ b = PieceBegin(s, k) /\ b <= x
                            /\ k # 1 => k - 1 \in 1 .. c /\ b = Nth(e, k - 1) + 1
                            /\ k = 1 => b = 1
    <3>1. CASE k = 1
      BY <1>3, <2>1, <3>1 DEF PieceBegin
    <3>2. CASE k # 1
      <4>1. k - 1 \in 1 .. c /\ k - 1 < k
        BY <3>2
      <4>2. PICK y \in 1 .. q : y = Nth(e, k - 1)
        BY <1>4, <1>6, <4>1
      <4>3. y < x
        BY <1>7, <2>1, <4>1, <4>2
      <4>4. y + 1 \in 1 .. q /\ y + 1 <= x
        BY <1>3, <4>3
      <4> QED BY <1>2, <3>2, <4>1, <4>2, <4>4 DEF PieceBegin
    <3> QED BY <3>1, <3>2
  <2>3. ASSUME NEW i \in b .. x - 1 PROVE s[i] # COMMA
    <3> SUFFICES ASSUME s[i] = COMMA PROVE FALSE
      OBVIOUS
    <3>1. i \in e
      <4>1. i \in 1 .. q
        BY <1>3, <2>1, <2>2
      <4> QED BY <1>4, <4>1
    <3>2. PICK l \in 1 .. c : Nth(e, l) = i
      BY <1>8, <3>1
    <3>3. l < k
      <4>1. ~(k < l)
        <5>1. ASSUME k < l PROVE FALSE
          <6>1. x < i
            BY <1>7, <2>1, <3>2, <5>1
          <6> QED BY <1>3, <2>1, <2>2, <6>1
        <5> QED BY <5>1
      <4>2. l # k
        BY <1>3, <2>1, <2>2, <3>2
      <4> QED BY <1>5, <3>2, <4>1, <4>2
    <3>4. k # 1 /\ k - 1 \in 1 .. c /\ i > Nth(e, k - 1)
      <4>1. PICK y \in 1 .. q : k # 1 /\ k - 1 \in 1 .. c /\ y = Nth(e, k - 1) /\ b = y + 1
        <5>1. k # 1
          BY <1>5, <3>2, <3>3
        <5>2. PICK y \in 1 .. q : y = Nth(e, k - 1)
          BY <1>4, <1>6, <2>2, <5>1
        <5>3. b = y + 1
          BY <2>2, <5>1, <5>2
        <5> QED BY <2>2, <5>1, <5>2, <5>3
      <4> QED BY <1>3, <2>2, <4>1
    <3>5. CASE l = k - 1
      BY <1>3, <2>1, <2>2, <3>2, <3>4, <3>5
    <3>6. CASE l # k - 1
      <4>1. l < k - 1
        BY <1>5, <3>2, <3>3, <3>6
      <4>2. PICK y \in 1 .. q : y = Nth(e, k - 1)
        BY <1>4, <1>6, <3>4
      <4>3. i < y /\ y < i
        BY <1>7, <3>2, <3>4, <4>1, <4>2
      <4> QED BY <1>3, <2>1, <2>2, <4>2, <4>3
    <3> QED BY <3>5, <3>6
  <2>4. CASE k = c
    <3>1. x = q /\ q = Len(s) + 1
      BY <1>1, <1>3, <1>9, <1>10, <2>1, <2>4
    <3>2. b \in 1 .. Len(s) + 1 /\ x \in b .. Len(s) + 1
      BY <1>1, <1>3, <2>1, <2>2
    <3> QED BY <1>2, <1>5, <2>1, <2>2, <2>3, <2>4, <3>1, <3>2 DEF IsPieceOf
  <2>5. CASE k # c
    <3>1. x # q
      <4>1. k < last
        BY <1>10, <2>5
      <4>2. x < q
        BY <1>7, <1>9, <2>1, <4>1
      <4> QED BY <1>3, <4>2
    <3>2. x \in e
      BY <1>6, <2>1
    <3>3. x <= m /\ s[x] = COMMA
      BY <1>1, <1>3, <1>4, <2>1, <3>1, <3>2
    <3>4. PieceBegin(s, k + 1) = x + 1
      <4>1. k + 1 # 1 /\ (k + 1) - 1 = k
        OBVIOUS
      <4> QED BY <1>2, <2>1, <4>1 DEF PieceBegin
    <3>5. b \in 1 .. Len(s) + 1 /\ x \in b .. Len(s) + 1 /\ x <= Len(s)
      BY <1>1, <1>3, <2>1, <2>2, <3>3
    <3> QED BY <1>2, <1>5, <2>1, <2>2, <2>3, <2>5, <3>3, <3>4, <3>5 DEF IsPieceOf
  <2> QED BY <2>4, <2>5
<1> QED BY <1>2, <1>5, <1>10, <1>11

\* The first place of a character from a position on.
IsPlace(s, c, k, p) ==
  \/ p = 0 /\ \A i \in k .. Len(s) : s[i] # c
  \/ p \in k .. Len(s) /\ s[p] = c /\ \A i \in k .. p - 1 : s[i] # c

LEMMA PlaceIs ==
  ASSUME NEW S, NEW s \in Seq(S), NEW c, NEW k \in 1 .. Len(s) + 1
  PROVE  IsPlace(s, c, k, Place(s, c, k))
<1>1. PICK m \in Nat : m = Len(s)
  OBVIOUS
<1>2. PICK found : found = {i \in k .. m : s[i] = c}
  OBVIOUS
<1>3. Place(s, c, k) = IF found = {} THEN 0 ELSE Least(found)
  BY <1>1, <1>2 DEF Place
<1>4. CASE found = {}
  <2>1. \A i \in k .. m : s[i] # c
    BY <1>2, <1>4
  <2> QED BY <1>1, <1>3, <1>4, <2>1 DEF IsPlace
<1>5. CASE found # {}
  <2>1. found \in SUBSET Nat
    BY <1>1, <1>2
  <2>2. Least(found) \in found /\ \A i \in found : Least(found) <= i
    BY <1>5, <2>1, LeastIs
  <2>3. PICK p \in k .. m : p = Least(found) /\ s[p] = c /\ \A i \in found : p <= i
    BY <1>2, <2>2
  <2>4. ASSUME NEW i \in k .. p - 1 PROVE s[i] # c
    <3>1. i \in k .. m /\ ~(p <= i)
      BY <1>1, <2>3
    <3> QED BY <1>2, <2>3, <3>1
  <2> QED BY <1>1, <1>3, <1>5, <2>3, <2>4 DEF IsPlace
<1> QED BY <1>4, <1>5

\* No pair begins at a position; the pairs from every position on.
HasNoPair(s, k) ==
  LET eq == Place(s, EQUALS, k)   comma == Place(s, COMMA, k) IN
  eq = 0 \/ eq = k \/ comma \in 1 .. eq
AreKeys(F, s) ==
  \A k \in 1 .. Len(s) + 1 :
    F[k] = IF HasNoPair(s, k) THEN <<NoPair>>
           ELSE IF Place(s, COMMA, k) = 0 THEN <<SubSeq(s, k, Len(s))>>
           ELSE <<SubSeq(s, k, Place(s, COMMA, k) - 1)>> \o F[Place(s, COMMA, k) + 1]
HasKeys(s) == \E F : AreKeys(F, s) /\ KeysAndValues(s) = F[1]

LEMMA KeysAre ==
  ASSUME NEW S, NEW s \in Seq(S)
  PROVE  HasKeys(s)
<1>1. PICK m \in Nat : m = Len(s)
  OBVIOUS
<1>2. PICK N \in Nat : N = m + 1
  OBVIOUS
<1>3. PICK A : A = Seq(Seq(S))
  OBVIOUS
<1> DEFINE Body(F) ==
             [k \in 1 .. N |->
                IF HasNoPair(s, k) THEN <<NoPair>>
                ELSE IF Place(s, COMMA, k) = 0 THEN <<SubSeq(s, k, m)>>
                ELSE <<SubSeq(s, k, Place(s, COMMA, k) - 1)>> \o F[Place(s, COMMA, k) + 1]]
           all == CHOOSE F : F = Body(F)
<1>4. KeysAndValues(s) = all[1]
  BY <1>1, <1>2 DEF KeysAndValues, HasNoPair
<1>5. \A k \in 1 .. N : Place(s, COMMA, k) = 0 \/ Place(s, COMMA, k) \in k .. m
  <2>1. ASSUME NEW k \in 1 .. N PROVE Place(s, COMMA, k) = 0 \/ Place(s, COMMA, k) \in k .. m
    <3>1. k \in 1 .. Len(s) + 1
      BY <1>1, <1>2
    <3>2. IsPlace(s, COMMA, k, Place(s, COMMA, k))
      BY <3>1, PlaceIs
    <3> QED BY <1>1, <3>2 DEF IsPlace
  <2> QED BY <2>1
<1>6. PICK p \in [1 .. N -> 0 .. m] : \A k \in 1 .. N : p[k] = Place(s, COMMA, k) /\ (p[k] = 0 \/ p[k] \in k .. m)
  <2> DEFINE p == [k \in 1 .. N |-> Place(s, COMMA, k)]
  <2>1. \A k \in 1 .. N : p[k] = Place(s, COMMA, k)
    OBVIOUS
  <2>2. \A k \in 1 .. N : Place(s, COMMA, k) \in 0 .. m
    BY <1>1, <1>5
  <2>3. p \in [1 .. N -> 0 .. m]
    BY <2>2
  <2> HIDE DEF p
  <2> QED BY <1>5, <2>1, <2>3
<1>7. \A i \in 1 .. N : \A j \in 0 .. m : <<SubSeq(s, i, j)>> \in A
  <2>1. ASSUME NEW i \in 1 .. N, NEW j \in 0 .. m PROVE <<SubSeq(s, i, j)>> \in A
    <3>1. i \in Int /\ j \in Int /\ \A l \in i .. j : s[l] \in S
      BY <1>1
    <3>2. PICK t \in Seq(S) : t = SubSeq(s, i, j)
      BY <3>1, SubSeqProperties
    <3>3. <<t>> \in Seq(Seq(S))
      OBVIOUS
    <3> QED BY <1>3, <3>2, <3>3
  <2> QED BY <2>1
<1>8. PICK piece \in [1 .. N -> A] : \A k \in 1 .. N :
        piece[k] = IF HasNoPair(s, k) THEN <<NoPair>>
                   ELSE IF p[k] = 0 THEN <<SubSeq(s, k, m)>> ELSE <<SubSeq(s, k, p[k] - 1)>>
  <2> DEFINE x(k) == IF HasNoPair(s, k) THEN <<NoPair>>
                     ELSE IF p[k] = 0 THEN <<SubSeq(s, k, m)>> ELSE <<SubSeq(s, k, p[k] - 1)>>
  <2>1. ASSUME NEW k \in 1 .. N PROVE x(k) \in A
    <3>1. <<NoPair>> \in A
      BY <1>3 DEF NoPair
    <3>2. <<SubSeq(s, k, m)>> \in A
      <4>1. m \in 0 .. m
        BY <1>1
      <4> QED BY <1>7, <4>1
    <3>3. p[k] # 0 => <<SubSeq(s, k, p[k] - 1)>> \in A
      <4>1. p[k] # 0 => p[k] - 1 \in 0 .. m
        BY <1>6
      <4> QED BY <1>7, <4>1
    <3> QED BY <3>1, <3>2, <3>3
  <2> HIDE DEF x
  <2> DEFINE piece == [k \in 1 .. N |-> x(k)]
  <2>2. piece \in [1 .. N -> A] /\ \A k \in 1 .. N : piece[k] = x(k)
    BY <2>1
  <2> HIDE DEF piece
  <2> QED BY <2>2 DEF x
<1>9. PICK next \in [1 .. N -> Nat] : \A k \in 1 .. N :
        next[k] = IF HasNoPair(s, k) \/ p[k] = 0 THEN N + 1 ELSE p[k] + 1
  <2> DEFINE y(k) == IF HasNoPair(s, k) \/ p[k] = 0 THEN N + 1 ELSE p[k] + 1
             next == [k \in 1 .. N |-> y(k)]
  <2>1. \A k \in 1 .. N : y(k) \in Nat
    BY <1>6
  <2> HIDE DEF y
  <2>2. next \in [1 .. N -> Nat] /\ \A k \in 1 .. N : next[k] = y(k)
    BY <2>1
  <2> HIDE DEF next
  <2> QED BY <2>2 DEF y
<1>10. \A k \in 1 .. N : next[k] > k
  BY <1>1, <1>2, <1>6, <1>9
<1>11. \A x \in A : \A y \in A : x \o y \in A
  BY <1>3
<1>12. PICK F \in [1 .. N -> A] : PutTogether(F, N, piece, next)
  <2>1. CanBePut(N, A, piece, next)
    BY <1>10, <1>11, FromTheEnd
  <2> QED BY <2>1 DEF CanBePut
<1>13. F = Body(F)
  <2>1. ASSUME NEW k \in 1 .. N PROVE F[k] = Body(F)[k]
    <3>1. F[k] = IF next[k] > N THEN piece[k] ELSE piece[k] \o F[next[k]]
      BY <1>12 DEF PutTogether
    <3>2. CASE HasNoPair(s, k)
      <4>1. next[k] > N /\ piece[k] = <<NoPair>>
        BY <1>8, <1>9, <3>2
      <4> QED BY <3>1, <3>2, <4>1
    <3>3. CASE ~HasNoPair(s, k) /\ p[k] = 0
      <4>1. next[k] > N /\ piece[k] = <<SubSeq(s, k, m)>>
        BY <1>8, <1>9, <3>3
      <4>2. Place(s, COMMA, k) = 0
        BY <1>6, <3>3
      <4> QED BY <3>1, <3>3, <4>1, <4>2
    <3>4. CASE ~HasNoPair(s, k) /\ p[k] # 0
      <4>1. next[k] = p[k] + 1 /\ piece[k] = <<SubSeq(s, k, p[k] - 1)>>
        BY <1>8, <1>9, <3>4
      <4>2. Place(s, COMMA, k) = p[k] /\ p[k] \in k .. m
        BY <1>6, <3>4
      <4>3. ~(next[k] > N)
        BY <1>2, <4>1, <4>2
      <4> QED BY <3>1, <3>4, <4>1, <4>2, <4>3
    <3> QED BY <3>2, <3>3, <3>4
  <2>2. F = [k \in 1 .. N |-> F[k]]
    OBVIOUS
  <2> QED BY <2>1, <2>2
<1>14. all = Body(all)
  BY <1>13
<1> HIDE DEF all
<1>15. AreKeys(all, s)
  <2>1. \A k \in 1 .. N : all[k] = Body(all)[k]
    BY <1>14
  <2>2. Len(s) + 1 = N
    BY <1>1, <1>2
  <2> QED BY <1>1, <2>1, <2>2 DEF AreKeys
<1> QED BY <1>4, <1>15 DEF HasKeys

\* What comes of the text from the begin of a piece on.
KeysOfPiece(F, s, k) ==
  LET piece == Pieces(s)[k] IN
  F[PieceBegin(s, k)] =
    IF ~IsPair(piece) THEN <<NoPair>>
    ELSE IF k = Cardinality(PieceEnds(s)) THEN <<piece>>
    ELSE <<piece>> \o F[PieceBegin(s, k + 1)]

\* The pieces are texts,
PiecesType(S, s) ==
  /\ Pieces(s) \in Seq(Seq(S)) /\ Len(Pieces(s)) = Cardinality(PieceEnds(s))
  /\ \A k \in 1 .. Len(Pieces(s)) :
       Pieces(s)[k] = SubSeq(s, PieceBegin(s, k), Nth(PieceEnds(s), k) - 1)

LEMMA PiecesAreTexts ==
  ASSUME NEW S, NEW s \in Seq(S)
  PROVE  PiecesType(S, s)
<1>1. PICK c \in Nat : c = Cardinality(PieceEnds(s))
  BY PiecesAre
<1>2. PICK m \in Nat : m = Len(s)
  OBVIOUS
<1>3. PICK A : A = Seq(S)
  OBVIOUS
<1> DEFINE t(k) == SubSeq(s, PieceBegin(s, k), Nth(PieceEnds(s), k) - 1)
<1>4. ASSUME NEW k \in 1 .. c PROVE t(k) \in A
  <2>1. IsPieceOf(s, k)
    BY <1>1, PiecesAre
  <2>2. PICK i \in 1 .. m + 1, j \in 0 .. m : i = PieceBegin(s, k) /\ j = Nth(PieceEnds(s), k) - 1
    <3>1. PICK i \in 1 .. m + 1, x \in 1 .. m + 1 : i = PieceBegin(s, k) /\ x = Nth(PieceEnds(s), k)
      BY <1>2, <2>1 DEF IsPieceOf
    <3>2. x - 1 \in 0 .. m
      BY <1>2
    <3> QED BY <3>1, <3>2
  <2>3. i \in Int /\ j \in Int /\ \A l \in i .. j : s[l] \in S
    BY <1>2
  <2>4. SubSeq(s, i, j) \in Seq(S)
    BY <2>3, SubSeqProperties
  <2> QED BY <1>3, <2>2, <2>4
<1> HIDE DEF t
<1>5. PICK p : p = [k \in 1 .. c |-> t(k)]
  OBVIOUS
<1>6. p \in Seq(A) /\ Len(p) = c /\ \A k \in 1 .. c : p[k] = t(k)
  BY <1>1, <1>4, <1>5
<1>7. p = Pieces(s)
  BY <1>1, <1>5 DEF Pieces, t
<1> QED BY <1>1, <1>3, <1>6, <1>7 DEF PiecesType, t

LEMMA KeysOfEach ==
  ASSUME NEW S, NEW s \in Seq(S), NEW F, AreKeys(F, s),
         NEW k \in 1 .. Cardinality(PieceEnds(s))
  PROVE  KeysOfPiece(F, s, k)
<1>1. PICK c \in Nat : c = Cardinality(PieceEnds(s)) /\ k \in 1 .. c
  BY PiecesAre
<1>2. PICK m \in Nat : m = Len(s)
  OBVIOUS
<1>3. IsPieceOf(s, k)
  BY PiecesAre
<1>4. PICK i \in 1 .. m + 1, x \in 1 .. m + 1 :
        i = PieceBegin(s, k) /\ x = Nth(PieceEnds(s), k) /\ i <= x
  BY <1>2, <1>3 DEF IsPieceOf
<1>5. /\ \A j \in i .. x - 1 : s[j] # COMMA
      /\ IF k = c THEN x = m + 1 ELSE x <= m /\ s[x] = COMMA /\ PieceBegin(s, k + 1) = x + 1
  BY <1>1, <1>2, <1>3, <1>4 DEF IsPieceOf
<1>6. PICK comma \in 0 .. m : /\ comma = Place(s, COMMA, i)
                              /\ IF k = c THEN comma = 0 ELSE comma = x
  <2>1. IsPlace(s, COMMA, i, Place(s, COMMA, i))
    BY <1>2, PlaceIs
  <2>2. PICK p \in 0 .. m : /\ p = Place(s, COMMA, i)
                            /\ \/ p = 0 /\ \A j \in i .. m : s[j] # COMMA
                               \/ p \in i .. m /\ s[p] = COMMA /\ \A j \in i .. p - 1 : s[j] # COMMA
    BY <1>2, <2>1 DEF IsPlace
  <2>3. CASE k = c
    <3>1. ~(p \in i .. m /\ s[p] = COMMA)
      <4>1. p \in i .. m => p \in i .. x - 1
        BY <1>2, <1>4, <1>5, <2>2, <2>3
      <4> QED BY <1>5, <4>1
    <3> QED BY <2>2, <2>3, <3>1
  <2>4. CASE k # c
    <3>1. x \in i .. m /\ s[x] = COMMA
      BY <1>2, <1>4, <1>5, <2>4
    <3>2. p \in i .. m /\ s[p] = COMMA /\ \A j \in i .. p - 1 : s[j] # COMMA
      BY <2>2, <3>1
    <3>3. ~(x \in i .. p - 1) /\ ~(p \in i .. x - 1)
      BY <1>5, <3>1, <3>2
    <3>4. p = x
      BY <1>2, <1>4, <2>2, <3>1, <3>2, <3>3
    <3> QED BY <2>2, <2>4, <3>4
  <2> QED BY <2>3, <2>4
<1>7. PICK eq \in 0 .. m : /\ eq = Place(s, EQUALS, i)
                           /\ \/ eq = 0 /\ \A j \in i .. m : s[j] # EQUALS
                              \/ eq \in i .. m /\ s[eq] = EQUALS /\ \A j \in i .. eq - 1 : s[j] # EQUALS
  <2>1. IsPlace(s, EQUALS, i, Place(s, EQUALS, i))
    BY <1>2, PlaceIs
  <2> QED BY <1>2, <2>1 DEF IsPlace
<1>8. HasNoPair(s, i) <=> eq = 0 \/ eq = i \/ ~(eq < x)
  <2>1. HasNoPair(s, i) <=> eq = 0 \/ eq = i \/ comma \in 1 .. eq
    BY <1>6, <1>7 DEF HasNoPair
  <2>2. comma \in 1 .. eq <=> ~(eq < x)
    BY <1>2, <1>4, <1>5, <1>6, <1>7
  <2> QED BY <2>1, <2>2
<1>9. PICK piece \in Seq(S) :
        /\ piece = Pieces(s)[k] /\ piece = SubSeq(s, i, x - 1) /\ Len(piece) = x - i
        /\ \A j \in 1 .. x - i : piece[j] = s[i + j - 1]
  <2>1. PiecesType(S, s)
    BY PiecesAreTexts
  <2>2. Pieces(s)[k] = SubSeq(s, i, x - 1)
    BY <1>1, <1>4, <2>1 DEF PiecesType
  <2>3. PICK y \in Int : y = x - 1
    BY <1>4
  <2>4. i \in Int /\ \A j \in i .. y : s[j] \in S
    BY <1>2, <1>4, <2>3
  <2>5. PICK t : t = SubSeq(s, i, y)
    OBVIOUS
  <2>6. /\ t \in Seq(S) /\ Len(t) = (IF i <= y THEN y - i + 1 ELSE 0)
        /\ \A j \in 1 .. y - i + 1 : t[j] = s[i + j - 1]
    BY <2>4, <2>5, SubSeqProperties
  <2>7. Len(t) = x - i /\ y - i + 1 = x - i
    BY SMTT(30), <1>4, <2>3, <2>6
  <2> QED BY <2>2, <2>3, <2>5, <2>6, <2>7
<1>10. IsPair(piece) <=> ~HasNoPair(s, i)
  <2>1. ASSUME IsPair(piece) PROVE eq # 0 /\ eq # i /\ eq < x
    <3>1. PICK j \in 2 .. Len(piece) : piece[j] = EQUALS /\ piece[1] # EQUALS
      BY <2>1 DEF IsPair
    <3>2. j \in 1 .. x - i /\ 1 \in 1 .. x - i
      BY <1>4, <1>9
    <3>3. PICK l \in i .. m : l = i + j - 1 /\ l < x
      <4>1. i + j - 1 \in i .. m /\ i + j - 1 < x
        BY SMTT(30), <1>2, <1>4, <3>2
      <4> QED BY <4>1
    <3>4. s[l] = EQUALS
      BY <1>9, <3>1, <3>2, <3>3
    <3>5. s[i] # EQUALS
      <4>1. i + 1 - 1 = i
        BY <1>4
      <4>2. piece[1] = s[i]
        BY <1>9, <3>2, <4>1
      <4> QED BY <3>1, <4>2
    <3>6. eq \in i .. m /\ s[eq] = EQUALS /\ \A y \in i .. eq - 1 : s[y] # EQUALS
      BY <1>7, <3>4
    <3>7. eq # i
      BY <3>5, <3>6
    <3>8. ~(l \in i .. eq - 1)
      BY <3>4, <3>6
    <3>9. eq <= l
      BY <1>2, <1>4, <3>3, <3>6, <3>8
    <3> QED BY <1>2, <1>4, <3>3, <3>6, <3>7, <3>9
  <2>2. ASSUME eq # 0, eq # i, eq < x PROVE IsPair(piece)
    <3>1. eq \in i .. m /\ s[eq] = EQUALS /\ \A y \in i .. eq - 1 : s[y] # EQUALS
      BY <1>7, <2>2
    <3>2. PICK j \in 2 .. x - i : eq = i + j - 1
      <4>1. eq - i + 1 \in 2 .. x - i /\ eq = i + (eq - i + 1) - 1
        BY <1>2, <1>4, <2>2, <3>1
      <4> QED BY <4>1
    <3>3. j \in 1 .. x - i /\ 1 \in 1 .. x - i /\ i + 1 - 1 = i /\ i \in i .. eq - 1
      <4>1. j \in 1 .. x - i /\ 1 \in 1 .. x - i
        BY <1>4, <3>2
      <4>2. i < eq
        BY <1>2, <1>4, <2>2, <3>1
      <4>3. i + 1 - 1 = i /\ i \in i .. eq - 1
        BY <1>2, <1>4, <1>7, <4>2
      <4> QED BY <4>1, <4>3
    <3>4. piece[j] = EQUALS /\ piece[1] # EQUALS
      <4>1. piece[j] = s[eq]
        BY <1>9, <3>2, <3>3
      <4>2. piece[1] = s[i]
        BY <1>9, <3>3
      <4> QED BY <3>1, <3>3, <4>1, <4>2
    <3>5. j \in 2 .. Len(piece)
      BY <1>9, <3>2
    <3> QED BY <3>4, <3>5 DEF IsPair
  <2> QED BY <1>8, <2>1, <2>2
<1>11. F[i] = IF HasNoPair(s, i) THEN <<NoPair>>
              ELSE IF comma = 0 THEN <<SubSeq(s, i, m)>>
              ELSE <<SubSeq(s, i, comma - 1)>> \o F[comma + 1]
  BY <1>2, <1>6 DEF AreKeys
<1>12. CASE ~IsPair(piece)
  BY <1>4, <1>9, <1>10, <1>11, <1>12 DEF KeysOfPiece
<1>13. CASE IsPair(piece) /\ k = c
  <2>1. x - 1 = m /\ comma = 0
    BY <1>2, <1>5, <1>6, <1>13
  <2>2. F[i] = <<piece>>
    BY <1>9, <1>10, <1>11, <1>13, <2>1
  <2> QED BY <1>1, <1>4, <1>9, <1>13, <2>2 DEF KeysOfPiece
<1>14. CASE IsPair(piece) /\ k # c
  <2>1. comma = x /\ comma # 0 /\ PieceBegin(s, k + 1) = x + 1
    BY <1>4, <1>5, <1>6, <1>14
  <2>2. F[i] = <<piece>> \o F[PieceBegin(s, k + 1)]
    BY <1>9, <1>10, <1>11, <1>14, <2>1
  <2> QED BY <1>1, <1>4, <1>9, <1>14, <2>2 DEF KeysOfPiece
<1> QED BY <1>12, <1>13, <1>14

\* The number of pieces before the first that is no pair.
Wrong(s) == {k \in DOMAIN Pieces(s) : ~IsPair(Pieces(s)[k])}
Right(s) == IF Wrong(s) = {} THEN Len(Pieces(s)) ELSE Least(Wrong(s)) - 1
Rest(s)  == IF Right(s) = Len(Pieces(s)) THEN <<>> ELSE <<NoPair>>

\* The pairs that are found are the pieces before the first that is none, which ends them.
LEMMA KeysAreRight ==
  ASSUME NEW S, NEW s \in Seq(S)
  PROVE  /\ Right(s) \in 0 .. Len(Pieces(s))
         /\ \A k \in 1 .. Right(s) : IsPair(Pieces(s)[k])
         /\ Right(s) # Len(Pieces(s)) => ~IsPair(Pieces(s)[Right(s) + 1])
         /\ KeysAndValues(s) = SubSeq(Pieces(s), 1, Right(s)) \o Rest(s)
<1>1. PICK c \in Nat \ {0} : c = Cardinality(PieceEnds(s))
  BY PiecesAre
<1>2. PICK p \in Seq(Seq(S)) : p = Pieces(s) /\ Len(p) = c
  BY <1>1, PiecesAreTexts DEF PiecesType
<1>3. PICK F : AreKeys(F, s) /\ KeysAndValues(s) = F[1]
  BY KeysAre DEF HasKeys
<1>4. PICK bad \in SUBSET (1 .. c) : bad = Wrong(s) /\ \A k \in 1 .. c : k \in bad <=> ~IsPair(p[k])
  <2>1. DOMAIN p = 1 .. c
    BY <1>2
  <2>2. Wrong(s) = {k \in 1 .. c : ~IsPair(p[k])}
    BY <1>2, <2>1 DEF Wrong
  <2> QED BY <2>2
<1>5. PICK g \in 0 .. c : /\ g = Right(s)
                          /\ \A k \in 1 .. g : IsPair(p[k])
                          /\ g # c => ~IsPair(p[g + 1])
  <2>1. CASE bad = {}
    <3>1. Right(s) = c /\ c \in 0 .. c
      BY <1>1, <1>2, <1>4, <2>1 DEF Right
    <3> QED BY <1>4, <2>1, <3>1
  <2>2. CASE bad # {}
    <3>1. Least(bad) \in bad /\ \A k \in bad : Least(bad) <= k
      <4>1. bad \in SUBSET Nat
        BY <1>1, <1>4
      <4> QED BY <2>2, <4>1, LeastIs
    <3>2. PICK l \in 1 .. c : l = Least(bad) /\ l \in bad /\ \A k \in bad : l <= k
      BY <1>4, <3>1
    <3>3. PICK g \in 0 .. c : g = l - 1 /\ g + 1 = l
      <4>1. l - 1 \in 0 .. c /\ (l - 1) + 1 = l
        BY <1>1, <3>2
      <4> QED BY <4>1
    <3>4. g = Right(s)
      BY <1>4, <2>2, <3>2, <3>3 DEF Right
    <3>5. ASSUME NEW k \in 1 .. g PROVE IsPair(p[k])
      <4>1. k \in 1 .. c /\ ~(l <= k)
        BY <1>1, <3>2, <3>3, <3>5
      <4> QED BY <1>4, <3>2, <4>1
    <3>6. ~IsPair(p[g + 1])
      BY <1>4, <3>2, <3>3
    <3> QED BY <3>4, <3>5, <3>6
  <2> QED BY <2>1, <2>2
<1>10. PICK rest \in Seq(Seq(S)) : rest = Rest(s) /\ rest = IF g = c THEN <<>> ELSE <<NoPair>>
  <2>1. NoPair \in Seq(S)
    BY DEF NoPair
  <2>2. <<>> \in Seq(Seq(S)) /\ <<NoPair>> \in Seq(Seq(S))
    BY <2>1
  <2>3. Rest(s) = IF g = c THEN <<>> ELSE <<NoPair>>
    BY <1>2, <1>5 DEF Rest
  <2> QED BY <2>2, <2>3
<1> DEFINE T == {k \in 1 .. c : k <= g + 1 => F[PieceBegin(s, k)] = SubSeq(p, k, g) \o rest}
<1>6. ASSUME NEW k \in 1 .. c PROVE (\A j \in k + 1 .. c : j \in T) => k \in T
  <2>1. F[PieceBegin(s, k)] = IF ~IsPair(p[k]) THEN <<NoPair>>
                              ELSE IF k = c THEN <<p[k]>> ELSE <<p[k]>> \o F[PieceBegin(s, k + 1)]
    <3>1. KeysOfPiece(F, s, k)
      BY <1>1, <1>3, KeysOfEach
    <3> QED BY <1>1, <1>2, <3>1 DEF KeysOfPiece
  <2>2. CASE k > g + 1
    BY <1>5, <2>2
  <2>3. CASE k = g + 1
    <3>1. ~IsPair(p[k])
      <4>1. g # c
        BY <1>1, <1>5, <2>3
      <4> QED BY <1>5, <2>3, <4>1
    <3>2. SubSeq(p, k, g) = <<>>
      <4>1. k \in Int /\ g \in Int /\ g < k
        BY <1>1, <1>5, <2>3
      <4> QED BY <4>1, SubSeqEmpty
    <3>3. rest = <<NoPair>> /\ <<>> \o rest = rest
      BY <1>1, <1>5, <1>10, <2>3, ConcatEmptySeq
    <3> QED BY <2>1, <3>1, <3>2, <3>3
  <2>4. CASE k <= g
    <3>1. k \in 1 .. g /\ k \in 1 .. Len(p) /\ g \in k .. Len(p)
      BY <1>1, <1>2, <1>5, <2>4
    <3>2. IsPair(p[k])
      BY <1>5, <3>1
    <3>3. SubSeq(p, k, g) = <<p[k]>> \o SubSeq(p, k + 1, g)
      BY <3>1, SubSeqRecursiveFirst
    <3>4. CASE k = c
      <4>1. SubSeq(p, k + 1, g) = <<>>
        <5>1. k + 1 \in Int /\ g \in Int /\ g < k + 1
          BY <1>1, <1>5, <3>1, <3>4
        <5> QED BY <5>1, SubSeqEmpty
      <4>2. <<p[k]>> \o <<>> = <<p[k]>>
        <5>1. PICK x \in Seq(S) : x = p[k]
          BY <1>2, <3>1
        <5>2. <<x>> \in Seq(Seq(S))
          OBVIOUS
        <5> QED BY <5>1, <5>2, ConcatEmptySeq
      <4>3. rest = <<>>
        BY <1>1, <1>5, <1>10, <3>1, <3>4
      <4>4. F[PieceBegin(s, k)] = <<p[k]>> /\ SubSeq(p, k, g) = <<p[k]>>
        BY <2>1, <3>2, <3>3, <3>4, <4>1, <4>2
      <4> QED BY <4>2, <4>3, <4>4
    <3>5. CASE k # c
      <4>1. k + 1 \in k + 1 .. c /\ k + 1 \in 1 .. c /\ k + 1 <= g + 1
        BY <1>1, <1>5, <3>1, <3>5
      <4>2. ASSUME \A j \in k + 1 .. c : j \in T PROVE F[PieceBegin(s, k)] = SubSeq(p, k, g) \o rest
        <5>1. F[PieceBegin(s, k + 1)] = SubSeq(p, k + 1, g) \o rest
          BY <4>1, <4>2
        <5>2. F[PieceBegin(s, k)] = <<p[k]>> \o (SubSeq(p, k + 1, g) \o rest)
          BY <2>1, <3>2, <3>5, <5>1
        <5>3. PICK x, q : x = <<p[k]>> /\ q = SubSeq(p, k + 1, g)
          OBVIOUS
        <5>4. x \in Seq(Seq(S)) /\ q \in Seq(Seq(S))
          <6>1. p[k] \in Seq(S)
            BY <1>2, <3>1
          <6>2. \A i \in k + 1 .. g : p[i] \in Seq(S)
            BY <1>1, <1>2, <1>5, <3>1
          <6>3. k + 1 \in Int /\ g \in Int
            BY <1>1, <1>5, <3>1
          <6>4. PICK D : D = Seq(S)
            OBVIOUS
          <6>5. SubSeq(p, k + 1, g) \in Seq(D)
            BY <1>2, <6>2, <6>3, <6>4, SubSeqProperties
          <6> QED BY <5>3, <6>1, <6>4, <6>5
        <5>5. (x \o q) \o rest = x \o (q \o rest)
          <6>1. PICK D : D = Seq(S)
            OBVIOUS
          <6>2. x \in Seq(D) /\ q \in Seq(D) /\ rest \in Seq(D)
            BY <1>10, <5>4, <6>1
          <6> QED BY <6>2, ConcatAssociative
        <5> QED BY Zenon, <3>3, <5>2, <5>3, <5>5
      <4> QED BY <4>2
    <3> QED BY <3>4, <3>5
  <2> QED BY SMTT(30), <1>1, <1>5, <2>2, <2>3, <2>4
<1> HIDE DEF T
<1>7. \A k \in 1 .. c : k \in T
  <2>1. c \in Nat
    BY <1>1
  <2> QED BY <1>6, <2>1, Downwards
<1>8. 1 \in T
  <2>1. 1 \in 1 .. c
    BY <1>1
  <2> QED BY <1>7, <2>1
<1>9. F[PieceBegin(s, 1)] = SubSeq(p, 1, g) \o rest /\ PieceBegin(s, 1) = 1
  BY <1>1, <1>5, <1>8 DEF T, PieceBegin
<1> QED BY <1>2, <1>3, <1>5, <1>9, <1>10

\* The pieces that are promised to be in the file.
Promised(s) == {k \in DOMAIN Pieces(s) : /\ \A j \in 1 .. k : IsPair(Pieces(s)[j])
                                         /\ Len(Pieces(s)[k]) + 1 < MAX_ADD_INFO_STR}

\* What is found of the additional information, and what of it fits.
FoundIn(s)   == IF s = <<>> THEN <<>> ELSE KeysAndValues(s)
FittingIn(s) == {k \in DOMAIN FoundIn(s) : Fits(FoundIn(s)[k])}

\* What fits is what is promised; and if there is anything else, an error is found.
LEMMA FittingIsPromised ==
  ASSUME NEW S, NEW s \in Seq(S)
  PROVE  /\ FittingIn(s) = Promised(s)
         /\ \A k \in Promised(s) : k \in 1 .. Len(Pieces(s)) /\ FoundIn(s)[k] = Pieces(s)[k]
         /\ FittingIn(s) # DOMAIN FoundIn(s) <=> s # <<>> /\ Promised(s) # DOMAIN Pieces(s)
<1>all. PICK all : all = FoundIn(s)
  OBVIOUS
<1>fit. PICK fitting : fitting = FittingIn(s) /\ fitting = {k \in DOMAIN all : Fits(all[k])}
  BY <1>all DEF FittingIn
<1>1. PICK c \in Nat \ {0} : c = Cardinality(PieceEnds(s))
  BY PiecesAre
<1>2. PICK p \in Seq(Seq(S)) : p = Pieces(s) /\ Len(p) = c
  BY <1>1, PiecesAreTexts DEF PiecesType
<1>3. PICK promised : /\ promised = Promised(s)
                      /\ \A k : k \in promised <=>
                           /\ k \in 1 .. c
                           /\ \A j \in 1 .. k : IsPair(p[j])
                           /\ Len(p[k]) + 1 < MAX_ADD_INFO_STR
  <2>1. DOMAIN p = 1 .. c
    BY <1>2
  <2>2. Promised(s) = {k \in 1 .. c : /\ \A j \in 1 .. k : IsPair(p[j])
                                      /\ Len(p[k]) + 1 < MAX_ADD_INFO_STR}
    BY <1>2, <2>1 DEF Promised
  <2> QED BY <2>2
<1>4. CASE s = <<>>
  <2>1. ~IsPair(p[1])
    <3>1. IsPieceOf(s, 1) /\ Len(s) = 0
      <4>1. 1 \in 1 .. c
        BY <1>1
      <4> QED BY <1>1, <1>4, <4>1, PiecesAre
    <3>2. PieceBegin(s, 1) = 1 /\ Nth(PieceEnds(s), 1) = 1
      BY <3>1 DEF IsPieceOf
    <3>3. p[1] = SubSeq(s, 1, 0)
      <4>1. 1 \in 1 .. Len(Pieces(s)) /\ PiecesType(S, s)
        BY <1>1, <1>2, PiecesAreTexts
      <4> QED BY <1>2, <3>2, <4>1 DEF PiecesType
    <3>4. p[1] = <<>>
      BY <3>3, SubSeqEmpty
    <3> QED BY <3>4 DEF IsPair
  <2>2. \A k : k \notin promised
    <3>1. ASSUME NEW k \in promised PROVE FALSE
      <4>1. k \in 1 .. c /\ 1 \in 1 .. k
        BY <1>1, <1>3
      <4> QED BY <1>3, <2>1, <4>1
    <3> QED BY <3>1
  <2>3. all = <<>> /\ DOMAIN all = {}
    BY <1>4, <1>all DEF FoundIn
  <2>4. fitting = {} /\ promised = {}
    BY <1>fit, <2>2, <2>3
  <2> QED BY <1>3, <1>4, <1>all, <1>fit, <2>3, <2>4
<1>5. CASE s # <<>>
  <2>1. PICK g \in 0 .. c : /\ g = Right(s)
                            /\ \A k \in 1 .. g : IsPair(p[k])
                            /\ g # c => ~IsPair(p[g + 1])
    BY <1>2, KeysAreRight
  <2>2. PICK a \in Seq(Seq(S)) : a = SubSeq(p, 1, g) /\ Len(a) = g /\ \A k \in 1 .. g : a[k] = p[k]
    <3>1. \A i \in 1 .. g : p[i] \in Seq(S)
      BY <1>1, <1>2, <2>1
    <3>2. 1 \in Int /\ g \in Int
      BY <1>1, <2>1
    <3>3. PICK D : D = Seq(S)
      OBVIOUS
    <3>4. PICK a : a = SubSeq(p, 1, g)
      OBVIOUS
    <3>5. /\ a \in Seq(D) /\ Len(a) = (IF 1 <= g THEN g - 1 + 1 ELSE 0)
          /\ \A k \in 1 .. g - 1 + 1 : a[k] = p[1 + k - 1]
      BY <1>2, <3>1, <3>2, <3>3, <3>4, SubSeqProperties
    <3>6. Len(a) = g /\ \A k \in 1 .. g : a[k] = p[k]
      BY <1>1, <2>1, <3>5
    <3> QED BY <3>3, <3>4, <3>5, <3>6
  <2>3. all = a \o IF g = c THEN <<>> ELSE <<NoPair>>
    BY <1>2, <1>5, <1>all, <2>1, <2>2, KeysAreRight DEF Rest, FoundIn
  <2>4. /\ DOMAIN all = IF g = c THEN 1 .. g ELSE 1 .. g + 1
        /\ \A k \in 1 .. g : all[k] = p[k]
        /\ g # c => all[g + 1] = NoPair
    <3>1. CASE g = c
      BY <2>2, <2>3, <3>1, ConcatEmptySeq
    <3>2. CASE g # c
      <4>1. PICK r \in Seq(Seq(S)) : r = <<NoPair>> /\ Len(r) = 1 /\ r[1] = NoPair
        <5>1. NoPair \in Seq(S)
          BY DEF NoPair
        <5>2. <<NoPair>> \in Seq(Seq(S)) /\ Len(<<NoPair>>) = 1 /\ <<NoPair>>[1] = NoPair
          BY <5>1
        <5> QED BY <5>2
      <4>2. all = a \o r
        BY <2>3, <3>2, <4>1
      <4>3. PICK x : x = a \o r
        OBVIOUS
      <4>4. /\ x \in Seq(Seq(S)) /\ Len(x) = g + 1 /\ x[g + 1] = r[1]
            /\ \A k \in 1 .. g : x[k] = a[k]
        <5>1. PICK D : D = Seq(S)
          OBVIOUS
        <5>2. a \in Seq(D) /\ r \in Seq(D) /\ g \in Nat
          BY <1>1, <2>1, <2>2, <4>1, <5>1
        <5>3. /\ x \in Seq(D) /\ Len(x) = g + 1
              /\ \A i \in 1 .. g + 1 : x[i] = IF i <= g THEN a[i] ELSE r[i - g]
          BY <2>2, <4>1, <4>3, <5>2, ConcatProperties
        <5>4. g + 1 \in 1 .. g + 1 /\ ~(g + 1 <= g) /\ (g + 1) - g = 1
          BY <5>2
        <5> QED BY <5>1, <5>2, <5>3, <5>4
      <4>5. DOMAIN x = 1 .. g + 1
        BY <4>4
      <4> QED BY <2>2, <3>2, <4>1, <4>2, <4>3, <4>4, <4>5
    <3> QED BY <3>1, <3>2
  <2>5. \A k : k \in promised <=> k \in 1 .. g /\ Len(p[k]) + 1 < MAX_ADD_INFO_STR
    <3>1. ASSUME NEW k \in promised PROVE k \in 1 .. g
      <4>1. k \in 1 .. c /\ (g < k => g # c /\ g + 1 \in 1 .. k)
        BY <1>1, <1>3, <2>1
      <4> QED BY <1>1, <1>3, <2>1, <4>1
    <3>2. ASSUME NEW k \in 1 .. g, Len(p[k]) + 1 < MAX_ADD_INFO_STR PROVE k \in promised
      <4>1. k \in 1 .. c /\ \A j \in 1 .. k : j \in 1 .. g
        BY <1>1, <2>1
      <4> QED BY <1>3, <2>1, <3>2, <4>1
    <3> QED BY <1>3, <3>1, <3>2
  <2>6. ASSUME NEW k \in 1 .. g PROVE p[k] # NoPair
    <3>1. IsPair(p[k])
      BY <2>1
    <3>2. Len(p[k]) # 0
      BY <3>1 DEF IsPair
    <3> QED BY <3>2 DEF NoPair
  <2>7. \A k : k \in fitting <=> k \in promised
    <3>1. ASSUME NEW k \in fitting PROVE k \in promised
      <4>1. k \in DOMAIN all /\ all[k] # NoPair /\ Len(all[k]) + 1 < MAX_ADD_INFO_STR
        BY <1>fit, <3>1 DEF Fits
      <4>2. k \in 1 .. g
        BY <1>1, <2>1, <2>4, <4>1
      <4> QED BY <2>4, <2>5, <4>1, <4>2
    <3>2. ASSUME NEW k \in promised PROVE k \in fitting
      <4>1. k \in 1 .. g /\ Len(p[k]) + 1 < MAX_ADD_INFO_STR
        BY <2>5, <3>2
      <4>2. k \in DOMAIN all /\ all[k] = p[k] /\ p[k] # NoPair
        BY <1>1, <2>1, <2>4, <2>6, <4>1
      <4> QED BY <1>fit, <4>1, <4>2 DEF Fits
    <3> QED BY <3>1, <3>2
  <2>8. fitting # DOMAIN all <=> promised # DOMAIN p
    <3>1. CASE g = c
      <4>1. DOMAIN all = DOMAIN p
        BY <1>2, <2>4, <3>1
      <4>2. fitting = promised
        BY <2>7
      <4> QED BY <4>1, <4>2
    <3>2. CASE g # c
      <4>1. g + 1 \in DOMAIN all /\ c \in DOMAIN p /\ g + 1 \notin promised /\ c \notin promised
        BY <1>1, <1>2, <2>1, <2>4, <2>5, <3>2
      <4> QED BY <2>7, <4>1
    <3> QED BY <3>1, <3>2
  <2>9. \A k \in promised : k \in 1 .. c /\ all[k] = p[k]
    BY <1>1, <2>1, <2>4, <2>5
  <2>10. fitting = promised
    BY <2>7
  <2> QED BY <1>2, <1>3, <1>5, <1>all, <1>fit, <2>8, <2>9, <2>10
<1> QED BY <1>4, <1>5
----------------------------------------------------------------------------
(***************************************************************************)
(* The texts in the file.                                                  *)
(***************************************************************************)
AdditionalWritten ==
  /\ file.pairs = [k \in 1 .. Cardinality(Fitting) |->
                    bi_fprintf(Append(Found[Nth(Fitting, k)], NEWLINE))]
  /\ file.error = (Fitting # DOMAIN Found)

\* The texts are written one after the other, in a file that was not written to before.
TextInv ==
  /\ step \in {"measure", "analyse", "create", "infos"} => file.sections = <<>>
  /\ step \notin {"measure", "analyse", "create", "infos"} =>
       \/ file.text = bi_fprintf(kernel.description)
       \/ step \in {"done", "failed"} /\ file.sections = <<>>
  /\ step \in {"architecture", "axes", "display", "data", "quickview", "done"} =>
       \/ AdditionalWritten
       \/ step = "done" /\ file.sections = <<>>

\* No step of the loop or the report replaces the kernel.
LEMMA KernelStays == NextReport => kernel' = kernel
<1>1. Measuring => kernel' = kernel
  BY DEF Measuring, Loop, NextList, NoMoreLists, BeginRound, EndRounds, Measure, EndRound, KernelError
<1>2. LoopEnds \/ Interrupt \/ InterruptStore => kernel' = kernel
  BY DEF LoopEnds, Interrupt, InterruptStore, vars
<1>3. Report => kernel' = kernel
  BY DEF Report, AnalyseResults, NothingToWrite, CannotCreate, Create, WriteInfos,
         WriteAdditional, WriteArchitecture, CannotCopy, WriteAxes, CannotDisplay,
         WriteDisplay, WriteData, WriteQuickview, QuickviewCrashes, vars
<1>4. Stopped => kernel' = kernel
  BY DEF Stopped, reportVars, vars
<1> QED BY <1>1, <1>2, <1>3, <1>4 DEF NextReport

LEMMA AdditionalStays ==
  ASSUME kernel' = kernel, file'.pairs = file.pairs, file'.error = file.error
  PROVE  AdditionalWritten' <=> AdditionalWritten
<1>1. Found' = Found /\ Fitting' = Fitting
  BY DEF Found, Fitting
<1> QED BY <1>1 DEF AdditionalWritten

LEMMA StepTexts ==
  ASSUME FileInv, TextInv, [NextReport]_reportVars
  PROVE  TextInv'
<1> USE DEF TextInv
<1>1. CASE UNCHANGED reportVars
  BY <1>1, AdditionalStays DEF reportVars, report, vars
<1>2. CASE NextReport
  <2>1. kernel' = kernel
    BY <1>2, KernelStays
  <2>2. CASE Measuring \/ LoopEnds \/ Interrupt \/ InterruptStore
    <3>1. file' = file /\ step = "measure" /\ step' \in {"measure", "analyse"}
      BY <2>2 DEF Measuring, report, LoopEnds, Interrupt, InterruptStore
    <3> QED BY <3>1
  <2>3. CASE Stopped
    BY <2>1, <2>3, AdditionalStays DEF Stopped, reportVars, report
  <2>4. CASE AnalyseResults \/ NothingToWrite \/ CannotCreate
    <3>1. file' = file
      BY <2>4 DEF AnalyseResults, NothingToWrite, CannotCreate
    <3>2. step \in {"analyse", "create"} /\ step' \in {"create", "done", "failed"}
      BY <2>4 DEF AnalyseResults, NothingToWrite, CannotCreate
    <3> QED BY <3>1, <3>2
  <2>5. CASE Create
    <3>1. step = "create" /\ step' = "infos" /\ file' = [file EXCEPT !.state = "open"]
      BY <2>5 DEF Create
    <3>2. file'.sections = file.sections
      BY <3>1
    <3> QED BY <3>1, <3>2
  <2>6. CASE WriteInfos
    <3>1. step' = "additional" /\ file'.text = bi_fprintf(kernel.description)
      BY <2>6 DEF WriteInfos, Section, FileInv, NoFile
    <3> QED BY <2>1, <3>1
  <2>7. CASE WriteAdditional
    <3>1. /\ step = "additional" /\ step' = "architecture"
          /\ file'.pairs = [k \in 1 .. Cardinality(Fitting) |->
                              bi_fprintf(Append(Found[Nth(Fitting, k)], NEWLINE))]
          /\ file'.error = (Fitting # DOMAIN Found) /\ file'.text = file.text
      BY <2>7 DEF WriteAdditional, FileInv, NoFile
    <3>2. Found' = Found /\ Fitting' = Fitting
      BY <2>1 DEF Found, Fitting
    <3>3. AdditionalWritten'
      BY Zenon, <3>1, <3>2 DEF AdditionalWritten
    <3> QED BY <2>1, <3>1, <3>3
  <2>8. CASE WriteArchitecture \/ WriteAxes \/ WriteDisplay \/ WriteData
    <3>1. /\ step \in {"architecture", "axes", "display", "data"}
          /\ step' \in {"axes", "display", "data", "quickview"}
      BY <2>8 DEF WriteArchitecture, WriteAxes, WriteDisplay, WriteData
    <3>2. file'.text = file.text /\ file'.pairs = file.pairs /\ file'.error = file.error
      <4>1. CASE WriteArchitecture
        BY <4>1 DEF WriteArchitecture
      <4>2. CASE WriteAxes
        <5>1. PICK f, a, b : /\ f = [file EXCEPT !.sections = Append(@, "display")]
                             /\ file' = [f EXCEPT !.xaxis = a, !.yaxis = b, !.numabscissae = v]
          BY <4>2 DEF WriteAxes, Section
        <5> QED BY <5>1
      <4>3. CASE WriteDisplay
        BY <4>3 DEF WriteDisplay
      <4>4. CASE WriteData
        <5>1. PICK f : /\ f = [file EXCEPT !.sections = Append(@, "data")]
                       /\ file' = [f EXCEPT !.rows = Printed, !.state = "complete"]
          BY <4>4 DEF WriteData, Section
        <5> QED BY <5>1
      <4> QED BY <2>8, <4>1, <4>2, <4>3, <4>4
    <3>3. AdditionalWritten' <=> AdditionalWritten
      BY <2>1, <3>2, AdditionalStays
    <3> QED BY <2>1, <3>1, <3>2, <3>3
  <2>9. CASE CannotCopy \/ CannotDisplay
    <3>1. /\ step \in {"architecture", "axes", "display"} /\ step' = "failed"
          /\ file' = [file EXCEPT !.state = "partial"]
      BY <2>9 DEF CannotCopy, CannotDisplay
    <3>2. file'.text = file.text
      BY <3>1
    <3> QED BY <2>1, <3>1, <3>2
  <2>10. CASE WriteQuickview \/ QuickviewCrashes
    <3>1. step = "quickview" /\ step' \in {"done", "crashed"} /\ file' = file
      BY <2>10 DEF WriteQuickview, QuickviewCrashes
    <3>2. AdditionalWritten' <=> AdditionalWritten
      BY <2>1, <3>1, AdditionalStays
    <3> QED BY <2>1, <3>1, <3>2
  <2> QED BY <1>2, <2>2, <2>3, <2>4, <2>5, <2>6, <2>7, <2>8, <2>9, <2>10 DEF NextReport, Report
<1> QED BY <1>1, <1>2

\* What TextsKept says of the additional information.
PairsKept(s) ==
  /\ Len(file.pairs) = Cardinality(Promised(s))
  /\ \A k \in 1 .. Len(file.pairs) :
       Readable(Append(Pieces(s)[Nth(Promised(s), k)], NEWLINE), file.pairs[k])
  /\ file.error <=> s # <<>> /\ Promised(s) # DOMAIN Pieces(s)

LEMMA InvTextsKept == IInv /\ TextInv => TextsKept
<1> SUFFICES ASSUME IInv, TextInv, file.sections # <<>>
             PROVE  /\ Readable(kernel.description, file.text)
                    /\ step \in {"architecture", "done"} => PairsKept(kernel.additional)
  BY DEF TextsKept, PairsKept, Promised
<1>1. PICK S : S = STRING \cup {BLANK, BACKSLASH, NEWLINE, TAB}
  OBVIOUS
<1>2. kernel.description \in Seq(S) /\ kernel.additional \in Seq(S)
  <2>1. kernel.description \in Seq(STRING) /\ kernel.additional \in Seq(STRING)
    BY ScheduleAssumption DEF IInv, TypeOK, Kernels
  <2>2. \A t \in Seq(STRING) : t \in Seq(S)
    <3> SUFFICES ASSUME NEW t \in Seq(STRING) PROVE t \in Seq(S)
      OBVIOUS
    <3>1. PICK m \in Nat : m = Len(t)
      OBVIOUS
    <3>2. t \in [1 .. m -> STRING] /\ \A k \in 1 .. m : t[k] \in S
      BY <1>1, <3>1
    <3>3. t \in [1 .. m -> S]
      BY <3>2
    <3> QED BY <3>3
  <2> QED BY <2>1, <2>2
<1>3. IsAlphabet(S)
  BY <1>1 DEF IsAlphabet
<1>4. file.text = bi_fprintf(kernel.description)
  BY DEF TextInv
<1>5. Readable(kernel.description, bi_fprintf(kernel.description))
  BY <1>2, <1>3, FprintfKeeps
<1>6. ASSUME step \in {"architecture", "done"} PROVE PairsKept(kernel.additional)
  <2>1. AdditionalWritten
    BY <1>6 DEF TextInv
  <2>2. PICK s \in Seq(S) : s = kernel.additional
    BY <1>2
  <2>3. PICK p \in Seq(Seq(S)) : p = Pieces(s)
    BY PiecesAreTexts DEF PiecesType
  <2>4. PICK P : P = Promised(s)
    OBVIOUS
  <2>5. /\ Fitting = P
        /\ \A k \in P : k \in 1 .. Len(p) /\ Found[k] = p[k]
        /\ Fitting # DOMAIN Found <=> s # <<>> /\ P # DOMAIN p
    <3>1. Found = FoundIn(s) /\ Fitting = FittingIn(s)
      BY <2>2 DEF Found, FoundIn, Fitting, FittingIn
    <3>2. /\ FittingIn(s) = Promised(s)
          /\ \A k \in Promised(s) : k \in 1 .. Len(Pieces(s)) /\ FoundIn(s)[k] = Pieces(s)[k]
          /\ FittingIn(s) # DOMAIN FoundIn(s) <=> s # <<>> /\ Promised(s) # DOMAIN Pieces(s)
      BY <2>2, FittingIsPromised
    <3> QED BY <2>3, <2>4, <3>1, <3>2
  <2>6. PICK m \in Nat : m = Cardinality(P)
    BY <2>3, <2>5, CountType
  <2>7. /\ file.pairs = [k \in 1 .. m |-> bi_fprintf(Append(Found[Nth(P, k)], NEWLINE))]
        /\ file.error = (Fitting # DOMAIN Found)
    BY Zenon, <2>1, <2>5, <2>6 DEF AdditionalWritten
  <2>8. Len(file.pairs) = m
    BY <2>6, <2>7
  <2>9. ASSUME NEW k \in 1 .. m
        PROVE  Readable(Append(p[Nth(P, k)], NEWLINE), file.pairs[k])
    <3>1. PICK i : i = Nth(P, k) /\ i \in P
      BY <2>3, <2>5, <2>6, NthElement
    <3>2. Found[i] = p[i] /\ p[i] \in Seq(S)
      BY <2>3, <2>5, <3>1
    <3>3. file.pairs[k] = bi_fprintf(Append(p[i], NEWLINE))
      BY <2>7, <3>1, <3>2
    <3>4. Append(p[i], NEWLINE) \in Seq(S)
      BY <1>1, <3>2
    <3> QED BY <1>3, <3>1, <3>3, <3>4, FprintfKeeps
  <2> QED BY <2>2, <2>3, <2>4, <2>5, <2>6, <2>7, <2>8, <2>9 DEF PairsKept
<1> QED BY <1>4, <1>5, <1>6

\* What the kernel says of itself can be read from the file, whatever it says, however long
\* it is and however long lines and pairs may be: bi_fprintf() loses no letter of a text
\* whose words fit a line and that ends with a newline; every key=value pair that is not too
\* long and comes before the first piece that is none goes through it; and an error is
\* reported when there is anything else.
THEOREM TextsAreKept == SpecReport => []TextsKept
<1>1. InitReport => TextInv
  BY DEF InitReport, NoFile, TextInv
<1>2. IInv /\ TextInv /\ [NextReport]_reportVars => TextInv'
  BY StepTexts DEF IInv
<1>3. IInv /\ TextInv => TextsKept
  BY InvTextsKept
<1> QED BY <1>1, <1>2, <1>3, InvariantS, PTL DEF SpecReport
=============================================================================
