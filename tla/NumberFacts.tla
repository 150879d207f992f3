---------------------------- MODULE NumberFacts ----------------------------
(***************************************************************************)
(* Facts that do not speak of the program: induction over the numbers up   *)
(* to n and the functions defined by recursion, as the proofs about lists  *)
(* and loops use them (what is proved by induction is membership in a set, *)
(* and the step of a recursion is a function); and what the random numbers *)
(* of the latency kernel rest on: sequences that return, divisors and      *)
(* primes, powers in a residue ring, and primitive roots.                  *)
(***************************************************************************)
EXTENDS Integers, Sequences, FiniteSetsExt, FiniteSetTheorems, TLAPS

\* A set of natural numbers that is not empty has a least element.
LEMMA LeastNumber ==
  ASSUME NEW T \in SUBSET Nat, T # {}
  PROVE  \E m \in T : \A n_ \in T : m <= n_
<1> DEFINE U == {0 .. i : i \in T}
<1>1. U \in SUBSET FiniteSubsetsOf(Nat)
  <2>1. \A i \in T : IsFiniteSet(0 .. i)
    BY FS_Interval
  <2> QED BY <2>1 DEF FiniteSubsetsOf
<1>2. PICK x \in U : \A y \in U : ~(<<y, x>> \in StrictSubsetOrdering(Nat))
  <2>1. IsWellFoundedOn(StrictSubsetOrdering(Nat), FiniteSubsetsOf(Nat))
    BY FS_StrictSubsetOrderingWellFounded
  <2>2. U # {}
    OBVIOUS
  <2> HIDE DEF U
  <2> QED BY <1>1, <2>1, <2>2, WFMin
<1>3. PICK m \in T : x = 0 .. m
  OBVIOUS
<1>4. ASSUME NEW i \in T, i < m PROVE FALSE
  <2>1. 0 .. i \in U /\ 0 .. i \in SUBSET Nat /\ 0 .. m \in SUBSET Nat
    OBVIOUS
  <2>2. m \in 0 .. m /\ m \notin 0 .. i /\ 0 .. i \subseteq 0 .. m
    BY <1>4
  <2> QED BY <1>2, <1>3, <2>1, <2>2 DEF StrictSubsetOrdering
<1> QED BY <1>4

\* Induction up to n for membership in a set.
LEMMA Induction ==
  ASSUME NEW n \in Nat, NEW T, 0 \in T, \A k \in 1 .. n : k - 1 \in T => k \in T
  PROVE  \A k \in 0 .. n : k \in T
<1> DEFINE bad == {k \in 0 .. n : k \notin T}
<1> SUFFICES ASSUME bad # {} PROVE FALSE
  OBVIOUS
<1>1. PICK m \in bad : \A k \in bad : m <= k
  <2>1. bad \in SUBSET Nat
    OBVIOUS
  <2> HIDE DEF bad
  <2> QED BY <2>1, LeastNumber
<1>2. m \in 1 .. n /\ m - 1 \in 0 .. n /\ m - 1 \notin bad
  BY <1>1
<1> QED BY <1>1, <1>2

\* What holds at first and is kept by each step holds of a function.
LEMMA StaysIn ==
  ASSUME NEW n \in Nat, NEW A, NEW g, g[0] \in A, \A k \in 1 .. n : g[k - 1] \in A => g[k] \in A
  PROVE  \A k \in 0 .. n : g[k] \in A
<1> DEFINE T == {k \in 0 .. n : g[k] \in A}
<1>1. 0 \in T /\ \A k \in 1 .. n : k - 1 \in T => k \in T
  OBVIOUS
<1> HIDE DEF T
<1>2. \A k \in 0 .. n : k \in T
  BY <1>1, Induction
<1> QED BY <1>2 DEF T

\* f begins with b and goes on as G says; there is such a function.
Follows(f, n, A, b, G) ==
  f \in [0 .. n -> A] /\ f[0] = b /\ \A k \in 1 .. n : f[k] = G[k][f[k - 1]]

LEMMA Recursion ==
  ASSUME NEW n \in Nat, NEW A, NEW b \in A, NEW G \in [1 .. n -> [A -> A]]
  PROVE  \E f : Follows(f, n, A, b, G)
<1> DEFINE T == {m \in 0 .. n : \E f \in [0 .. m -> A] :
                     f[0] = b /\ \A k \in 1 .. m : f[k] = G[k][f[k - 1]]}
<1>1. 0 \in T
  <2> DEFINE g == [i \in 0 .. 0 |-> b]
  <2>1. g \in [0 .. 0 -> A] /\ g[0] = b
    OBVIOUS
  <2> HIDE DEF g
  <2> QED BY <2>1
<1>2. ASSUME NEW m \in 1 .. n, m - 1 \in T PROVE m \in T
  <2>1. PICK f \in [0 .. m - 1 -> A] :
          f[0] = b /\ \A k \in 1 .. m - 1 : f[k] = G[k][f[k - 1]]
    BY <1>2
  <2> DEFINE g == [i \in 0 .. m |-> IF i < m THEN f[i] ELSE G[m][f[m - 1]]]
  <2>2. f[m - 1] \in A /\ G[m][f[m - 1]] \in A
    BY <2>1
  <2>3. g \in [0 .. m -> A]
    BY <2>2
  <2>4. g[0] = b /\ \A k \in 1 .. m : g[k] = G[k][g[k - 1]]
    <3>1. g[m] = G[m][g[m - 1]] /\ g[0] = b
      BY <2>1
    <3>2. ASSUME NEW k \in 1 .. m - 1 PROVE g[k] = G[k][g[k - 1]]
      BY <2>1
    <3>3. \A k \in 1 .. m : k = m \/ k \in 1 .. m - 1
      OBVIOUS
    <3> HIDE DEF g
    <3> QED BY <3>1, <3>2, <3>3
  <2> HIDE DEF g
  <2>5. \E h \in [0 .. m -> A] : h[0] = b /\ \A k \in 1 .. m : h[k] = G[k][h[k - 1]]
    BY <2>3, <2>4
  <2>6. m \in 0 .. n
    OBVIOUS
  <2> QED BY <2>5, <2>6, Zenon
<1> HIDE DEF T
<1>3. \A k \in 0 .. n : k \in T
  BY <1>1, <1>2, Induction
<1> QED BY <1>3 DEF T, Follows
----------------------------------------------------------------------------
\* Division with remainder, and that there is but one.
LEMMA DivisionRest ==
  ASSUME NEW a \in Int, NEW d \in Int, d > 0
  PROVE  a % d = a - d * (a \div d)
OBVIOUS

\* a is d times the quotient and the rest, which is smaller than d.
LEMMA Division ==
  ASSUME NEW a \in Int, NEW d \in Nat \ {0}
  PROVE  a \div d \in Int /\ a % d \in 0 .. d - 1 /\ a = d * (a \div d) + (a % d)
<1>1. a \div d \in Int
  OBVIOUS
<1>2. a % d \in 0 .. d - 1
  OBVIOUS
<1>3. a % d = a - d * (a \div d)
  BY DivisionRest
<1>4. PICK q \in Int, r \in 0 .. d - 1 : q = a \div d /\ r = a % d
  BY <1>1, <1>2
<1>5. a = d * q + r
  BY <1>3, <1>4
<1>6. a = d * (a \div d) + (a % d)
  BY <1>4, <1>5, Zenon
<1> QED BY <1>1, <1>2, <1>6, Zenon

\* A quotient is the largest number whose multiple is not larger.
LEMMA QuotientIs ==
  ASSUME NEW x \in Nat, NEW d \in Nat \ {0}
  PROVE  /\ x \div d \in Nat /\ (x \div d) * d <= x
         /\ \A e \in Nat : e * d <= x => e <= x \div d
<1>1. x \in Int
  OBVIOUS
<1>2. x \div d \in Int /\ x % d \in 0 .. d - 1 /\ x = d * (x \div d) + (x % d)
  BY <1>1, Division
<1>3. PICK q \in Int, r \in 0 .. d - 1 : q = x \div d /\ x = d * q + r
  BY <1>2
<1>4. d * q <= x /\ x < d * q + d
  BY <1>3
<1>5. q >= 0
  <2>1. q <= -1 => d * q <= -d
    OBVIOUS
  <2> QED BY <1>3, <2>1
<1>6. ASSUME NEW e \in Nat, e * d <= x PROVE e <= q
  <2>1. ASSUME e >= q + 1 PROVE FALSE
    <3>1. PICK h \in Nat : e = q + 1 + h
      <4>1. e - (q + 1) \in Nat /\ e = q + 1 + (e - (q + 1))
        BY <2>1
      <4> QED BY <4>1
    <3>2. e * d = d * q + d + h * d
      BY <3>1
    <3>3. h * d >= 0
      OBVIOUS
    <3>4. d * q \in Int /\ h * d \in Int /\ e * d \in Int
      OBVIOUS
    <3> QED BY <1>4, <1>6, <3>2, <3>3, <3>4
  <2> QED BY <1>3, <2>1
<1>7. q * d = d * q
  OBVIOUS
<1> QED BY <1>3, <1>4, <1>5, <1>6, <1>7

\* The larger of two numbers.
LEMMA MaxOfTwo ==
  ASSUME NEW a \in Int, NEW b \in Int
  PROVE  Max({a, b}) = IF a >= b THEN a ELSE b
<1>1. PICK c \in {a, b} : \A x \in {a, b} : c >= x
  OBVIOUS
<1>2. Max({a, b}) \in {a, b} /\ \A x \in {a, b} : Max({a, b}) >= x
  BY <1>1, Zenon DEF Max
<1> QED BY <1>2

\* A function on the numbers up to n is a sequence.
LEMMA SequenceOf ==
  ASSUME NEW n \in Nat, NEW S, NEW f \in [1 .. n -> S]
  PROVE  f \in Seq(S) /\ Len(f) = n
OBVIOUS

\* That is the only way to write a number so.
LEMMA RemainderIs ==
  ASSUME NEW d \in Nat \ {0}, NEW q \in Int, NEW r \in 0 .. d - 1
  PROVE  (d * q + r) \div d = q /\ (d * q + r) % d = r
OBVIOUS

\* Recursion without end.
HasIteration(A, b, s) ==
  \E o \in [Nat -> A] : o[0] = b /\ \A k \in Nat : o[k + 1] = s[o[k]]

\* A step from A to A can be repeated for ever.
LEMMA NatRecursion ==
  ASSUME NEW A, NEW b \in A, NEW s \in [A -> A]
  PROVE  HasIteration(A, b, s)
<1> DEFINE G(n)   == [k \in 1 .. n |-> s]
           Run(n) == CHOOSE f : Follows(f, n, A, b, G(n))
           o      == [n \in Nat |-> Run(n)[n]]
<1>1. ASSUME NEW n \in Nat
      PROVE  /\ Run(n) \in [0 .. n -> A] /\ Run(n)[0] = b
             /\ \A k \in 1 .. n : Run(n)[k] = s[Run(n)[k - 1]]
  <2>1. G(n) \in [1 .. n -> [A -> A]] /\ \A k \in 1 .. n : G(n)[k] = s
    OBVIOUS
  <2> HIDE DEF G
  <2>2. \E f : Follows(f, n, A, b, G(n))
    BY <2>1, Recursion
  <2>3. Follows(Run(n), n, A, b, G(n))
    BY <2>2
  <2> QED BY <2>1, <2>3 DEF Follows
<1> HIDE DEF Run
<1>2. ASSUME NEW n \in Nat PROVE Run(n + 1)[n] = Run(n)[n]
  <2> DEFINE T == {k \in 0 .. n : Run(n + 1)[k] = Run(n)[k]}
  <2>1. 0 \in T
    BY <1>1
  <2>2. ASSUME NEW k \in 1 .. n, k - 1 \in T PROVE k \in T
    BY <2>2, <1>1
  <2> HIDE DEF T
  <2>3. n \in T
    BY <2>1, <2>2, Induction
  <2> QED BY <2>3 DEF T
<1>3. ASSUME NEW k \in Nat PROVE o[k] \in A /\ o[k + 1] = s[o[k]]
  <2>1. Run(k + 1)[k + 1] = s[Run(k + 1)[k]] /\ Run(k)[k] \in A
    BY <1>1
  <2> QED BY <1>2, <2>1
<1>4. o[0] = b
  BY <1>1
<1>5. o \in [Nat -> A]
  BY <1>3
<1> HIDE DEF o
<1> QED BY <1>3, <1>4, <1>5 DEF HasIteration

\* A sequence that returns to no value in less than n steps.
Returns(o, n) == \A i, k \in Nat : i < k /\ o[i] = o[k] => k - i >= n

Comes(o, y, from, to) == \E k \in from .. to : o[k] = y

\* If there are n values, any n members of the sequence in a row are all of them.
LEMMA Window ==
  ASSUME NEW n \in Nat, NEW M, IsFiniteSet(M), Cardinality(M) = n, NEW o \in [Nat -> M],
         Returns(o, n), NEW i \in Nat, NEW y \in M
  PROVE  Comes(o, y, i + 1, i + n)
<1> DEFINE g == [k \in 1 .. n |-> o[i + k]]
<1>1. g \in Injection(1 .. n, M)
  <2>1. g \in [1 .. n -> M]
    OBVIOUS
  <2>2. ASSUME NEW j \in 1 .. n, NEW k \in 1 .. n, g[j] = g[k], j < k PROVE FALSE
    BY <2>2 DEF Returns
  <2>3. \A j, k \in 1 .. n : g[j] = g[k] => j = k
    BY <2>2
  <2> HIDE DEF g
  <2> QED BY <2>1, <2>3 DEF Injection, IsInjective
<1>2. Cardinality(1 .. n) = n
  BY FS_Interval
<1> HIDE DEF g
<1>3. g \in Surjection(1 .. n, M)
  BY <1>1, <1>2, FS_Injection
<1>4. PICK k \in 1 .. n : g[k] = y
  BY <1>3 DEF Surjection
<1> QED BY <1>4 DEF g, Comes

\* The members in A, one after the other, from behind position p[0] on.
Visits(o, A, p, l) ==
  /\ p \in [0 .. l -> Nat]
  /\ \A i \in 1 .. l : /\ p[i - 1] < p[i] /\ o[p[i]] \in A
                       /\ \A j \in p[i - 1] + 1 .. p[i] - 1 : o[j] \notin A

\* All of them are among the visits from i to k, and in this order.
InOrder(o, A, p, i, k) ==
  /\ p[i] <= p[k] /\ k - i <= p[k] - p[i]
  /\ \A j \in p[i] + 1 .. p[k] : o[j] \in A => \E q \in i + 1 .. k : j = p[q]

\* The visits come in the order of the sequence.
LEMMA VisitsInOrder ==
  ASSUME NEW o, NEW A, NEW p, NEW l \in Nat, Visits(o, A, p, l), NEW i \in 0 .. l,
         NEW k_ \in i .. l
  PROVE  InOrder(o, A, p, i, k_)
<1> DEFINE T == {k \in 0 .. l - i : /\ p[i] <= p[i + k] /\ k <= p[i + k] - p[i]
                                    /\ \A j \in p[i] + 1 .. p[i + k] :
                                         o[j] \in A => \E q \in i + 1 .. i + k : j = p[q]}
<1>0. p \in [0 .. l -> Nat]
  BY DEF Visits
<1>1. 0 \in T
  BY <1>0
<1>2. ASSUME NEW k \in 1 .. l - i, k - 1 \in T PROVE k \in T
  <2>1. /\ p[i + k - 1] < p[i + k]
        /\ \A j \in p[i + k - 1] + 1 .. p[i + k] - 1 : o[j] \notin A
    BY DEF Visits
  <2>2. /\ p[i] <= p[i + k - 1] /\ k - 1 <= p[i + k - 1] - p[i]
        /\ \A j \in p[i] + 1 .. p[i + k - 1] : o[j] \in A => \E q \in i + 1 .. i + k - 1 : j = p[q]
    BY <1>2
  <2>3. ASSUME NEW j \in p[i] + 1 .. p[i + k], o[j] \in A PROVE \E q \in i + 1 .. i + k : j = p[q]
    <3>1. CASE j \in p[i] + 1 .. p[i + k - 1]
      BY <2>2, <2>3, <3>1
    <3>2. CASE j > p[i + k - 1]
      <4>1. j = p[i + k]
        <5>1. j \in Nat /\ p[i + k] \in Nat /\ p[i + k - 1] \in Nat /\ j <= p[i + k]
          BY <1>0, <2>3
        <5>2. j \notin p[i + k - 1] + 1 .. p[i + k] - 1
          BY <2>1, <2>3
        <5> QED BY <3>2, <5>1, <5>2
      <4> QED BY <4>1
    <3> QED BY <1>0, <3>1, <3>2
  <2>4. p[i] <= p[i + k] /\ k <= p[i + k] - p[i]
    BY <1>0, <2>1, <2>2
  <2> QED BY <2>3, <2>4
<1> HIDE DEF T
<1>3. \A k \in 0 .. l - i : k \in T
  BY <1>1, <1>2, Induction
<1>4. k_ - i \in T /\ i + (k_ - i) = k_
  BY <1>3
<1> QED BY <1>4 DEF T, InOrder

\* A value of A comes again no sooner than after all of A ...
LEMMA NotBeforeAll ==
  ASSUME NEW n \in Nat, NEW M, IsFiniteSet(M), Cardinality(M) = n, NEW o \in [Nat -> M],
         Returns(o, n), NEW A \in SUBSET M, NEW l \in Nat, NEW p, Visits(o, A, p, l),
         NEW i \in 1 .. l, NEW k \in 1 .. l, i < k, o[p[i]] = o[p[k]]
  PROVE  IsFiniteSet(A) /\ Cardinality(A) <= k - i
<1>0. p \in [0 .. l -> Nat] /\ IsFiniteSet(A)
  BY FS_Subset DEF Visits
<1>1. /\ k - i <= p[k] - p[i]
      /\ \A j \in p[i] + 1 .. p[k] : o[j] \in A => \E q \in i + 1 .. k : j = p[q]
  <2>1. i \in 0 .. l /\ k \in i .. l
    OBVIOUS
  <2>2. InOrder(o, A, p, i, k)
    BY <2>1, VisitsInOrder
  <2> QED BY <2>2 DEF InOrder
<1>2. p[i] \in Nat /\ p[k] \in Nat /\ p[i] < p[k] /\ p[k] - p[i] >= n
  BY <1>0, <1>1 DEF Returns
<1>3. ASSUME NEW y \in A PROVE \E q \in 1 .. k - i : o[p[i + q]] = y
  <2>1. PICK j \in p[i] + 1 .. p[i] + n : o[j] = y
    <3>1. y \in M /\ p[i] \in Nat
      BY <1>2
    <3>2. Comes(o, y, p[i] + 1, p[i] + n)
      BY <3>1, Window
    <3> QED BY <3>2 DEF Comes
  <2>2. PICK q \in i + 1 .. k : j = p[q]
    BY <1>1, <1>2, <2>1
  <2>3. q - i \in 1 .. k - i /\ i + (q - i) = q
    OBVIOUS
  <2> QED BY <2>1, <2>2, <2>3
<1>4. ASSUME NEW q \in 1 .. k - i PROVE o[p[i + q]] \in A
  BY DEF Visits
<1> DEFINE g == [q \in 1 .. k - i |-> o[p[i + q]]]
<1>5. g \in Surjection(1 .. k - i, A)
  <2>1. g \in [1 .. k - i -> A] /\ \A y \in A : \E q \in 1 .. k - i : g[q] = y
    BY <1>3, <1>4
  <2> HIDE DEF g
  <2> QED BY <2>1 DEF Surjection
<1> HIDE DEF g
<1>6. k - i \in Nat /\ ExistsSurjection(1 .. k - i, A)
  BY <1>5 DEF ExistsSurjection
<1> QED BY <1>0, <1>6, FS_SurjCardinalityBound

\* ... and does so then.
LEMMA AfterAll ==
  ASSUME NEW n \in Nat, NEW M, IsFiniteSet(M), Cardinality(M) = n, NEW o \in [Nat -> M],
         Returns(o, n), NEW A \in SUBSET M, NEW l \in Nat, NEW p, Visits(o, A, p, l),
         NEW i \in 1 .. l, i + Cardinality(A) \in 1 .. l
  PROVE  o[p[i]] = o[p[i + Cardinality(A)]]
<1> DEFINE c == Cardinality(A)
<1>0. IsFiniteSet(A) /\ c \in Nat
  BY FS_Subset, FS_CardinalityType
<1> HIDE DEF c
<1>1. \A q \in 0 .. c : i + q \in 1 .. l /\ o[p[i + q]] \in A
  BY SMTT(30), <1>0 DEF Visits, c
<1> DEFINE g == [q \in 0 .. c |-> o[p[i + q]]]
<1>2. g \in [0 .. c -> A]
  BY <1>1
<1>3. IsFiniteSet(0 .. c) /\ Cardinality(A) < Cardinality(0 .. c)
  BY SMTT(30), <1>0, FS_Interval DEF c
<1> HIDE DEF g
<1>4. PICK x, y \in 0 .. c : x # y /\ g[x] = g[y]
  BY <1>0, <1>2, <1>3, FS_PigeonHole
<1>5. PICK q, r \in 0 .. c : q < r /\ g[q] = g[r]
  <2>1. CASE x < y
    BY <1>4, <2>1
  <2>2. CASE y < x
    BY <1>4, <2>2
  <2> QED BY <1>4, <2>1, <2>2
<1>6. o[p[i + q]] = o[p[i + r]] /\ i + q \in 1 .. l /\ i + r \in 1 .. l /\ i + q < i + r
  BY <1>0, <1>1, <1>5 DEF g
<1>7. c <= (i + r) - (i + q)
  BY <1>6, NotBeforeAll DEF c
<1>8. q = 0 /\ r = c
  BY <1>0, <1>5, <1>7
<1> QED BY <1>0, <1>6, <1>8 DEF c

\* A full turn of the sequence meets every member of A once.
LEMMA Round ==
  ASSUME NEW c \in Nat \ {0}, NEW d \in Nat
  PROVE  /\ d < c /\ d > 0 => d % c # 0
         /\ c % c = 0
         /\ (d + c) % c = d % c
<1>1. c % c = 0
  <2>1. (c * 1 + 0) % c = 0
    BY RemainderIs
  <2> QED BY <2>1
<1>2. d < c /\ d > 0 => d % c # 0
  <2>1. d < c => (c * 0 + d) % c = d
    BY RemainderIs
  <2>2. c * 0 + d = d
    OBVIOUS
  <2> QED BY <2>1, <2>2
<1>3. (d + c) % c = d % c
  <2>1. PICK q \in Int, r \in 0 .. c - 1 : d = c * q + r /\ r = d % c
    <3>1. d \in Int
      OBVIOUS
    <3>2. d \div c \in Int /\ d % c \in 0 .. c - 1 /\ d = c * (d \div c) + (d % c)
      BY <3>1, Division
    <3> QED BY <3>2, Zenon
  <2>2. (c * (q + 1) + r) % c = r
    BY RemainderIs
  <2>3. d + c = c * (q + 1) + r
    BY <2>1
  <2> QED BY <2>1, <2>2, <2>3
<1> QED BY <1>1, <1>2, <1>3

\* The order in which the members of A come is kept for ever.
Again(o, A, p, i, k) == o[p[k]] = o[p[i]] <=> (i - k) % Cardinality(A) = 0

\* What is met between two visits of the same member is all of A: a visit comes again
\* after as many visits as A has members, and not before.
THEOREM Permutation ==
  ASSUME NEW n \in Nat, NEW M, IsFiniteSet(M), Cardinality(M) = n, NEW o \in [Nat -> M],
         Returns(o, n), NEW A \in SUBSET M, A # {}, NEW l \in Nat, NEW p, Visits(o, A, p, l),
         NEW i \in 1 .. l, NEW k \in 1 .. i - 1
  PROVE  Again(o, A, p, i, k)
<1> DEFINE c == Cardinality(A)
           v(j) == o[p[j]]
           T == {m \in 0 .. l : \A j \in 1 .. m : \A q \in 1 .. j - 1 :
                    v(q) = v(j) <=> (j - q) % c = 0}
<1>0. c \in Nat \ {0}
  BY FS_Subset, FS_CardinalityType, FS_EmptySet
<1>a. \A q, j \in 1 .. l : q < j /\ v(q) = v(j) => c <= j - q
  BY NotBeforeAll
<1>b. \A j \in 1 .. l : j + c \in 1 .. l => v(j) = v(j + c)
  BY AfterAll
<1> HIDE DEF c, v
<1>1. 0 \in T
  OBVIOUS
<1>2. ASSUME NEW m \in 1 .. l, m - 1 \in T PROVE m \in T
  <2>1. ASSUME NEW q \in 1 .. m - 1 PROVE v(q) = v(m) <=> (m - q) % c = 0
    <3>1. CASE m - q < c
      <4>1. (m - q) % c # 0
        <5>1. m - q \in Nat /\ m - q > 0
          OBVIOUS
        <5> QED BY <1>0, <3>1, <5>1, Round
      <4>2. v(q) # v(m)
        BY <1>0, <1>a, <3>1
      <4> QED BY <4>1, <4>2
    <3>2. CASE m - q = c
      <4>1. q + c = m /\ v(q) = v(m)
        BY <1>0, <1>b, <3>2
      <4>2. (m - q) % c = 0
        BY <1>0, <3>2, Round
      <4> QED BY <4>1, <4>2
    <3>3. CASE m - q > c
      <4>1. m - c \in 1 .. m - 1 /\ q \in 1 .. (m - c) - 1 /\ (m - c) + c = m
        BY <1>0, <3>3
      <4>2. v(m - c) = v(m)
        BY <1>0, <1>b, <4>1
      <4>3. v(q) = v(m - c) <=> ((m - c) - q) % c = 0
        BY <1>2, <4>1
      <4>4. (((m - c) - q) + c) % c = ((m - c) - q) % c
        <5>1. (m - c) - q \in Nat
          BY <1>0, <4>1
        <5> QED BY <1>0, <5>1, Round
      <4>5. ((m - c) - q) + c = m - q
        BY <1>0
      <4> QED BY <4>2, <4>3, <4>4, <4>5
    <3> QED BY <1>0, <3>1, <3>2, <3>3
  <2>2. \A j \in 1 .. m - 1 : \A q \in 1 .. j - 1 : v(q) = v(j) <=> (j - q) % c = 0
    BY <1>2
  <2>3. \A j \in 1 .. m : \A q \in 1 .. j - 1 : v(q) = v(j) <=> (j - q) % c = 0
    <3>1. \A j \in 1 .. m : j = m \/ j \in 1 .. m - 1
      OBVIOUS
    <3> QED BY <2>1, <2>2, <3>1
  <2> QED BY <2>3
<1>3. l \in T
  <2> HIDE DEF T
  <2> QED BY <1>1, <1>2, Induction
<1> QED BY <1>3 DEF c, v, Again
----------------------------------------------------------------------------
Divides(d, n) == \E q \in Int : n = d * q

\* d divides n when nothing is left.
LEMMA DividesRest ==
  ASSUME NEW d \in Nat \ {0}, NEW n \in Int
  PROVE  n % d = 0 <=> Divides(d, n)
<1>1. ASSUME n % d = 0 PROVE Divides(d, n)
  <2>1. n \div d \in Int /\ n = d * (n \div d) + (n % d)
    BY Division
  <2>2. PICK q \in Int : q = n \div d
    BY <2>1
  <2>3. n = d * q
    BY <1>1, <2>1, <2>2
  <2> QED BY <2>3 DEF Divides
<1>2. ASSUME Divides(d, n) PROVE n % d = 0
  <2>1. PICK q \in Int : n = d * q
    BY <1>2 DEF Divides
  <2>2. (d * q + 0) % d = 0
    BY RemainderIs
  <2>3. d * q + 0 = n
    BY <2>1
  <2> QED BY <2>2, <2>3
<1> QED BY <1>1, <1>2

\* A divisor of one summand divides the sum with the other.
LEMMA DividesSum ==
  ASSUME NEW d \in Int, NEW x \in Int, NEW y \in Int, Divides(d, x)
  PROVE  Divides(d, x + y) <=> Divides(d, y)
<1>1. PICK q \in Int : x = d * q
  BY DEF Divides
<1>2. ASSUME NEW r \in Int, y = d * r PROVE Divides(d, x + y)
  <2>1. x + y = d * (q + r) /\ q + r \in Int
    BY <1>1, <1>2
  <2> QED BY <2>1 DEF Divides
<1>3. ASSUME NEW r \in Int, x + y = d * r PROVE Divides(d, y)
  <2>1. y = d * (r - q) /\ r - q \in Int
    BY <1>1, <1>3
  <2> QED BY <2>1 DEF Divides
<1> QED BY <1>2, <1>3 DEF Divides

\* A divisor of what is taken away divides the difference with the rest.
LEMMA DividesMinus ==
  ASSUME NEW d \in Int, NEW x \in Int, NEW y \in Int, Divides(d, y)
  PROVE  Divides(d, x - y) <=> Divides(d, x)
<1>1. PICK z \in Int : z = x - y
  OBVIOUS
<1>2. y + z = x
  BY <1>1
<1>3. Divides(d, y + z) <=> Divides(d, z)
  BY DividesSum
<1> QED BY <1>1, <1>2, <1>3

\* A divisor of a factor divides the product.
LEMMA DividesTimes ==
  ASSUME NEW d \in Int, NEW x \in Int, NEW y \in Int, Divides(d, x)
  PROVE  Divides(d, x * y) /\ Divides(d, y * x)
<1>1. PICK q \in Int : x = d * q
  BY DEF Divides
<1>2. x * y = d * (q * y) /\ y * x = d * (q * y) /\ q * y \in Int
  BY <1>1
<1> QED BY <1>2 DEF Divides

\* A divisor of a divisor is a divisor.
LEMMA DividesTrans ==
  ASSUME NEW d \in Int, NEW x \in Int, NEW y \in Int, Divides(d, x), Divides(x, y)
  PROVE  Divides(d, y)
<1>1. PICK q \in Int : y = x * q
  BY DEF Divides
<1> QED BY <1>1, DividesTimes

\* A divisor of n is not larger than n, nor is what it is multiplied by.
LEMMA DividesSize ==
  ASSUME NEW d \in Nat, NEW n \in Nat \ {0}, Divides(d, n)
  PROVE  0 < d /\ d <= n /\ \E q \in Nat \ {0} : n = d * q /\ q <= n
<1>1. PICK q \in Int : n = d * q
  BY DEF Divides
<1>2. q > 0 /\ d > 0
  BY <1>1
<1>3. d <= d * q /\ q <= d * q
  BY <1>2
<1> QED BY <1>1, <1>2, <1>3

\* Each number divides itself and zero, and one divides each number.
LEMMA DividesItself ==
  ASSUME NEW n \in Int
  PROVE  Divides(n, n) /\ Divides(1, n) /\ Divides(n, 0)
<1>1. n = n * 1 /\ n = 1 * n /\ 0 = n * 0
  OBVIOUS
<1> QED BY <1>1 DEF Divides

IsPrime(p) == p \in Nat /\ p > 1 /\ \A d \in Nat : Divides(d, p) => d = 1 \/ d = p

HasLeastPrime(n) ==
  \E p : IsPrime(p) /\ Divides(p, n) /\ \A d \in Nat : d > 1 /\ Divides(d, n) => p <= d

\* A number above one has a prime factor, the least of its divisors above one.
LEMMA LeastPrime ==
  ASSUME NEW n \in Nat, n > 1
  PROVE  HasLeastPrime(n)
<1> DEFINE S == {d \in Nat : d > 1 /\ Divides(d, n)}
<1>1. n \in S
  BY DividesItself
<1>2. S \in SUBSET Nat /\ S # {}
  BY <1>1
<1> HIDE DEF S
<1>3. PICK p \in S : \A d \in S : p <= d
  BY <1>2, LeastNumber
<1>4. p \in Nat /\ p > 1 /\ Divides(p, n)
  BY <1>3 DEF S
<1>5. ASSUME NEW d \in Nat, Divides(d, p) PROVE d = 1 \/ d = p
  <2>1. d > 0 /\ d <= p
    BY <1>4, <1>5, DividesSize
  <2>2. Divides(d, n)
    BY <1>4, <1>5, DividesTrans
  <2>3. d > 1 => p <= d
    BY <1>3, <2>2 DEF S
  <2> QED BY <1>4, <2>1, <2>3
<1>6. IsPrime(p)
  BY <1>4, <1>5 DEF IsPrime
<1>7. \A d \in Nat : d > 1 /\ Divides(d, n) => p <= d
  BY <1>3 DEF S
<1> QED BY <1>4, <1>6, <1>7 DEF HasLeastPrime

\* Euclid: a prime divides a product only with one of its factors.
LEMMA PrimeProduct ==
  ASSUME NEW p, IsPrime(p), NEW x \in Nat, NEW y \in Nat, Divides(p, x * y)
  PROVE  Divides(p, x) \/ Divides(p, y)
<1>0. p \in Nat /\ p > 1
  BY DEF IsPrime
<1> DEFINE S == {k \in Nat : k > 0 /\ Divides(p, k * y)}
<1>1. p \in S
  <2>1. p \in Int /\ y \in Int /\ Divides(p, p)
    BY <1>0, DividesItself
  <2>2. Divides(p, p * y)
    BY <2>1, DividesTimes, Zenon
  <2> QED BY <1>0, <2>2
<1>2. S \in SUBSET Nat /\ S # {}
  BY <1>1
<1>3. PICK g \in S : \A k \in S : g <= k
  <2> HIDE DEF S
  <2> QED BY <1>2, LeastNumber
<1>4. g \in Nat \ {0} /\ Divides(p, g * y)
  BY <1>3
<1>5. ASSUME NEW k \in Nat, Divides(p, k * y) PROVE Divides(g, k)
  <2>1. k \in Int /\ k \div g \in Int /\ k % g \in 0 .. g - 1 /\ k = g * (k \div g) + (k % g)
    BY <1>4, Division
  <2>2. PICK q \in Int, r \in 0 .. g - 1 : k = g * q + r
    BY <2>1, Zenon
  <2>3. Divides(p, r * y)
    <3>0. p \in Int /\ g * y \in Int
      BY <1>0, <1>4
    <3>1. Divides(p, (g * y) * q)
      BY <3>0, <1>4, DividesTimes, Zenon
    <3>2. (g * y) * q + r * y = k * y
      <4>1. k * y = (g * q + r) * y
        BY <2>2
      <4>2. (g * q + r) * y = (g * q) * y + r * y
        BY <1>4
      <4>3. (g * q) * y = (g * y) * q
        BY <1>4
      <4> QED BY <4>1, <4>2, <4>3
    <3>3. (g * y) * q \in Int /\ r * y \in Int
      BY <1>4
    <3>4. Divides(p, (g * y) * q + r * y)
      BY <1>5, <3>2, Zenon
    <3> QED BY <3>0, <3>1, <3>3, <3>4, DividesSum, Zenon
  <2>4. r = 0
    <3>1. r \in Nat /\ r < g
      BY <1>4
    <3>2. r > 0 => r \in S
      BY <2>3, <3>1
    <3> HIDE DEF S
    <3> QED BY <1>3, <1>4, <3>1, <3>2
  <2>5. k = g * q
    BY <1>4, <2>2, <2>4
  <2> QED BY <2>5 DEF Divides
<1>6. Divides(g, p) /\ Divides(g, x)
  BY <1>0, <1>1, <1>5
<1>7. g = 1 \/ g = p
  BY <1>4, <1>6 DEF IsPrime
<1>8. 1 * y = y
  OBVIOUS
<1> QED BY <1>4, <1>6, <1>7, <1>8
----------------------------------------------------------------------------
\* Two residues that differ by a multiple of m are the same.
LEMMA SmallDifference ==
  ASSUME NEW m \in Nat \ {0}, NEW r \in 0 .. m - 1, NEW s \in 0 .. m - 1, NEW u \in Int, r - s = m * u
  PROVE  r = s
<1>1. u > 0 => m * u >= m
  OBVIOUS
<1>2. u < 0 => m * u <= -m
  OBVIOUS
<1>3. r - s < m /\ r - s > -m
  OBVIOUS
<1>4. u = 0
  BY <1>1, <1>2, <1>3
<1>5. m * u = 0
  BY <1>4
<1> QED BY <1>5

\* Two numbers leave the same rest when m divides their difference.
LEMMA SameRest ==
  ASSUME NEW m \in Nat \ {0}, NEW x \in Int, NEW y \in Int
  PROVE  x % m = y % m <=> Divides(m, x - y)
<1>1. /\ x \div m \in Int /\ x % m \in 0 .. m - 1 /\ x = m * (x \div m) + (x % m)
      /\ y \div m \in Int /\ y % m \in 0 .. m - 1 /\ y = m * (y \div m) + (y % m)
  BY Division
<1>2. PICK p \in Int, r \in 0 .. m - 1, q \in Int, s \in 0 .. m - 1 :
        (x = m * p + r /\ y = m * q + s) /\ (r = x % m /\ s = y % m)
  BY <1>1, Zenon
<1>a. x = m * p + r /\ y = m * q + s
  BY <1>2
<1>3. ASSUME r = s PROVE Divides(m, x - y)
  <2>1. m * (p - q) = m * p - m * q /\ p - q \in Int /\ m * p \in Int /\ m * q \in Int
    OBVIOUS
  <2>2. x - y = m * (p - q)
    BY <1>a, <1>3, <2>1
  <2> QED BY <2>1, <2>2 DEF Divides
<1>4. ASSUME Divides(m, x - y) PROVE r = s
  <2>1. PICK t \in Int : x - y = m * t
    BY <1>4 DEF Divides
  <2>2. PICK u \in Int : u = t - p + q
    OBVIOUS
  <2>3. r - s = m * u
    <3>1. m * u = m * t - m * p + m * q
      BY <2>2
    <3>2. PICK i \in Int, j \in Int, k \in Int : i = m * t /\ j = m * p /\ k = m * q
      OBVIOUS
    <3>3. x = j + r /\ y = k + s /\ x - y = i /\ m * u = i - j + k
      BY <1>a, <2>1, <3>1, <3>2, Zenon
    <3>4. r - s = i - j + k
      BY <3>3
    <3> QED BY <3>3, <3>4, Zenon
  <2> QED BY <2>3, SmallDifference
<1> QED BY <1>2, <1>3, <1>4

\* The rest of a division by m.
LEMMA RestOf ==
  ASSUME NEW m \in Nat \ {0}, NEW x \in Int
  PROVE  x % m \in 0 .. m - 1 /\ Divides(m, x - (x % m)) /\ (x \in 0 .. m - 1 => x % m = x)
<1>1. x \div m \in Int /\ x % m \in 0 .. m - 1 /\ x = m * (x \div m) + (x % m)
  BY Division
<1>2. PICK p \in Int, r \in 0 .. m - 1 : x = m * p + r /\ r = x % m
  BY <1>1, Zenon
<1>3. x - r = m * p
  BY <1>2
<1>4. x \in 0 .. m - 1 => x % m = x
  <2>1. ASSUME x \in 0 .. m - 1 PROVE x % m = x
    <3>1. (m * 0 + x) % m = x
      BY <2>1, RemainderIs
    <3>2. m * 0 + x = x
      OBVIOUS
    <3> QED BY <3>1, <3>2
  <2> QED BY <2>1
<1> QED BY <1>1, <1>2, <1>3, <1>4 DEF Divides

\* A factor can be replaced by its remainder.
LEMMA RestTimes ==
  ASSUME NEW m \in Nat \ {0}, NEW x \in Int, NEW y \in Int
  PROVE  ((x % m) * y) % m = (x * y) % m /\ (y * (x % m)) % m = (x * y) % m
<1>0. x % m \in Int /\ Divides(m, x - (x % m))
  <2>1. x % m \in 0 .. m - 1 /\ Divides(m, x - (x % m))
    BY RestOf, Zenon
  <2> QED BY <2>1
<1>1. PICK r \in Int : r = x % m /\ Divides(m, x - r)
  BY <1>0, Zenon
<1>2. m \in Int /\ x - r \in Int /\ x * y \in Int /\ r * y \in Int
  OBVIOUS
<1>3. Divides(m, (x - r) * y)
  BY <1>1, <1>2, DividesTimes, Zenon
<1>4. (x - r) * y = x * y - r * y
  OBVIOUS
<1>5. Divides(m, x * y - r * y)
  BY <1>3, <1>4, Zenon
<1>6. (x * y) % m = (r * y) % m
  BY <1>2, <1>5, SameRest, Zenon
<1>7. y * r = r * y
  OBVIOUS
<1> QED BY <1>1, <1>6, <1>7, Zenon

\* A summand can be replaced by its rest.
LEMMA RestPlus ==
  ASSUME NEW m \in Nat \ {0}, NEW x \in Int, NEW y \in Int
  PROVE  ((x % m) + y) % m = (x + y) % m
<1>0. x % m \in Int /\ Divides(m, x - (x % m))
  <2>1. x % m \in 0 .. m - 1 /\ Divides(m, x - (x % m))
    BY RestOf, Zenon
  <2> QED BY <2>1
<1>1. PICK r \in Int : r = x % m /\ Divides(m, x - r)
  BY <1>0, Zenon
<1>2. x + y \in Int /\ r + y \in Int /\ (x + y) - (r + y) = x - r
  OBVIOUS
<1>3. (x + y) % m = (r + y) % m
  BY <1>1, <1>2, SameRest, Zenon
<1> QED BY <1>1, <1>3, Zenon

\* The residues of the powers of a.
IsPowers(P, a, m) ==
  P \in [Nat -> 0 .. m - 1] /\ P[0] = 1 /\ \A k \in Nat : P[k + 1] = (a * P[k]) % m
HasPowers(a, m) == \E P : IsPowers(P, a, m)

\* The powers of a number exist as a function.
LEMMA PowersExist ==
  ASSUME NEW a \in Int, NEW m \in Nat, m > 1
  PROVE  HasPowers(a, m)
<1> DEFINE A == 0 .. m - 1
           s == [x \in A |-> (a * x) % m]
<1>1. 1 \in A
  OBVIOUS
<1>2. s \in [A -> A]
  <2>1. ASSUME NEW x \in A PROVE (a * x) % m \in A
    <3>1. a * x \in Int
      OBVIOUS
    <3> QED BY <3>1, RestOf
  <2> QED BY <2>1
<1>3. HasIteration(A, 1, s)
  <2> HIDE DEF A, s
  <2> QED BY <1>1, <1>2, NatRecursion
<1>4. PICK P \in [Nat -> A] : P[0] = 1 /\ \A k \in Nat : P[k + 1] = s[P[k]]
  BY <1>3 DEF HasIteration
<1>5. \A k \in Nat : P[k + 1] = (a * P[k]) % m
  BY <1>4
<1> QED BY <1>4, <1>5 DEF HasPowers, IsPowers

\* The powers of a sum are the product of the powers.
LEMMA PowersSum ==
  ASSUME NEW a \in Int, NEW m \in Nat, m > 1, NEW P, IsPowers(P, a, m), NEW i \in Nat, NEW k \in Nat
  PROVE  P[i + k] = (P[i] * P[k]) % m
<1> DEFINE T == {j \in 0 .. i : P[j + k] = (P[j] * P[k]) % m}
<1>0. P \in [Nat -> 0 .. m - 1] /\ P[0] = 1 /\ \A j \in Nat : P[j + 1] = (a * P[j]) % m
  BY DEF IsPowers
<1>1. 0 \in T
  <2>1. PICK y \in 0 .. m - 1 : y = P[k]
    BY <1>0
  <2>2. 1 * y = y /\ 0 + k = k /\ y \in Int /\ m \in Nat \ {0}
    OBVIOUS
  <2>3. y % m = y
    BY <2>2, RestOf, Zenon
  <2>4. P[0 + k] = (P[0] * P[k]) % m
    BY <1>0, <2>1, <2>2, <2>3, Zenon
  <2> QED BY <2>4
<1>2. ASSUME NEW j \in 1 .. i, j - 1 \in T PROVE j \in T
  <2>1. PICK x \in Int, y \in Int, z \in Int : x = P[j - 1] /\ y = P[k] /\ z = P[(j - 1) + k]
    <3>1. j - 1 \in Nat /\ (j - 1) + k \in Nat
      OBVIOUS
    <3>2. \A e \in Nat : P[e] \in Int
      BY <1>0
    <3> QED BY <3>1, <3>2, Zenon
  <2>a. m \in Nat \ {0}
    OBVIOUS
  <2>2. z = (x * y) % m
    BY <1>2, <2>1
  <2>3. P[j] = (a * x) % m /\ P[j + k] = (a * z) % m
    <3>1. j - 1 \in Nat /\ (j - 1) + k \in Nat /\ (j - 1) + 1 = j /\ ((j - 1) + k) + 1 = j + k
      OBVIOUS
    <3> QED BY <1>0, <2>1, <3>1
  <2>4. x * y \in Int /\ a * x \in Int /\ (x * y) * a = (a * x) * y
    OBVIOUS
  <2>5. (a * z) % m = ((x * y) * a) % m
    BY <2>2, <2>4, <2>a, RestTimes, Zenon
  <2>6. (P[j] * y) % m = ((a * x) * y) % m
    <3>1. PICK w \in Int : w = a * x
      BY <2>4
    <3>2. ((w % m) * y) % m = (w * y) % m
      BY <2>a, RestTimes
    <3> QED BY <2>3, <3>1, <3>2, Zenon
  <2>7. P[j + k] = (P[j] * P[k]) % m
    BY <2>1, <2>3, <2>4, <2>5, <2>6, Zenon
  <2> QED BY <2>7
<1>3. i \in T
  <2> HIDE DEF T
  <2> QED BY <1>1, <1>2, Induction
<1> QED BY <1>3

\* Modulo a prime, a factor that is not 0 can be cancelled.
LEMMA Cancelled ==
  ASSUME NEW m, IsPrime(m), NEW x \in 1 .. m - 1, NEW y \in 0 .. m - 1, NEW z \in 0 .. m - 1,
         (x * y) % m = (x * z) % m
  PROVE  y = z
<1>0. m \in Nat /\ m > 1 /\ m \in Nat \ {0} /\ x \in Nat /\ y \in Int /\ z \in Int
  BY DEF IsPrime
<1>1. ASSUME NEW u \in 0 .. m - 1, NEW v \in 0 .. m - 1, (x * u) % m = (x * v) % m, u > v PROVE FALSE
  <2>1. u - v \in Nat /\ u - v \in 1 .. m - 1 /\ x * u \in Int /\ x * v \in Int
        /\ x * u - x * v = x * (u - v)
    BY <1>0, <1>1
  <2>2. Divides(m, x * u - x * v)
    BY <1>0, <1>1, <2>1, SameRest, Zenon
  <2>3. Divides(m, x * (u - v))
    BY <2>1, <2>2, Zenon
  <2>4. Divides(m, x) \/ Divides(m, u - v)
    BY <1>0, <2>1, <2>3, PrimeProduct, Zenon
  <2>5. ASSUME NEW w \in 1 .. m - 1, Divides(m, w) PROVE FALSE
    <3>1. w \in Nat \ {0}
      OBVIOUS
    <3>2. m <= w
      BY <1>0, <2>5, <3>1, DividesSize
    <3> QED BY <1>0, <3>2
  <2> QED BY <2>1, <2>4, <2>5
<1> QED BY <1>0, <1>1

\* No power of a residue other than zero is zero.
LEMMA PowersNonzero ==
  ASSUME NEW m, IsPrime(m), NEW a \in 1 .. m - 1, NEW P, IsPowers(P, a, m), NEW k \in Nat
  PROVE  P[k] \in 1 .. m - 1
<1>0. m \in Nat /\ m > 1
  BY DEF IsPrime
<1>a. P \in [Nat -> 0 .. m - 1] /\ P[0] = 1 /\ \A j \in Nat : P[j + 1] = (a * P[j]) % m
  BY DEF IsPowers
<1>1. P[0] \in 1 .. m - 1
  BY <1>0, <1>a
<1>2. ASSUME NEW j \in 1 .. k, P[j - 1] \in 1 .. m - 1 PROVE P[j] \in 1 .. m - 1
  <2>1. PICK x \in 1 .. m - 1 : x = P[j - 1]
    BY <1>2
  <2>2. P[j] = (a * x) % m /\ P[j] \in 0 .. m - 1
    <3>1. j - 1 \in Nat /\ (j - 1) + 1 = j /\ j \in Nat
      OBVIOUS
    <3> QED BY <1>a, <2>1, <3>1
  <2>3. ASSUME P[j] = 0 PROVE FALSE
    <3>1. a * 0 = 0 /\ 0 \in 0 .. m - 1 /\ x \in 0 .. m - 1 /\ 0 \in Int /\ m \in Nat \ {0}
      BY <1>0
    <3>2. 0 % m = 0
      BY <3>1, RestOf
    <3>3. (a * x) % m = (a * 0) % m
      BY <2>2, <2>3, <3>1, <3>2, Zenon
    <3>4. x = 0
      BY <3>1, <3>3, Cancelled, Zenon
    <3> QED BY <3>4
  <2> QED BY <1>0, <2>2, <2>3
<1> DEFINE A == 1 .. m - 1
<1>3. \A j \in 0 .. k : P[j] \in A
  <2>1. P[0] \in A /\ \A j \in 1 .. k : P[j - 1] \in A => P[j] \in A
    BY <1>1, <1>2
  <2> HIDE DEF A
  <2> QED BY <2>1, StaysIn
<1> QED BY <1>3
----------------------------------------------------------------------------
\* d is the order of a modulo m.
IsOrder(P, d) == d \in Nat \ {0} /\ P[d] = 1 /\ \A k \in Nat \ {0} : P[k] = 1 => d <= k

\* When two powers are equal the one of the difference is 1.
LEMMA PowersEqual ==
  ASSUME NEW m, IsPrime(m), NEW a \in 1 .. m - 1, NEW P, IsPowers(P, a, m),
         NEW i \in Nat, NEW k \in Nat, i <= k, P[i] = P[k]
  PROVE  P[k - i] = 1
<1>0. m \in Nat /\ m > 1 /\ m \in Nat \ {0} /\ a \in Int
  BY DEF IsPrime
<1>1. PICK d \in Nat : d = k - i /\ i + d = k
  BY Zenon, SMT
<1>2. P[i] \in 1 .. m - 1 /\ P[d] \in 1 .. m - 1
  BY PowersNonzero
<1>3. P[i + d] = (P[i] * P[d]) % m
  BY <1>0, PowersSum
<1>4. P[i] * 1 = P[i] /\ P[i] \in Int /\ P[i] \in 0 .. m - 1 /\ P[d] \in 0 .. m - 1 /\ 1 \in 0 .. m - 1
  BY <1>0, <1>2
<1>5. P[i] % m = P[i]
  BY <1>0, <1>4, RestOf
<1>6. (P[i] * P[d]) % m = (P[i] * 1) % m
  BY <1>1, <1>3, <1>4, <1>5, Zenon
<1>7. P[d] = 1
  BY <1>2, <1>4, <1>6, Cancelled, Zenon
<1> QED BY <1>1, <1>7

\* Some power is 1 again.
LEMMA OrderExists ==
  ASSUME NEW m, IsPrime(m), NEW a \in 1 .. m - 1, NEW P, IsPowers(P, a, m)
  PROVE  \E d : IsOrder(P, d)
<1>0. m \in Nat /\ m > 1
  BY DEF IsPrime
<1> DEFINE D == 0 .. m - 1
           R == 1 .. m - 1
           g == [i \in D |-> P[i]]
<1>1. g \in [D -> R]
  <2>1. ASSUME NEW i \in D PROVE P[i] \in R
    <3>1. i \in Nat
      OBVIOUS
    <3> QED BY <3>1, PowersNonzero
  <2> QED BY <2>1
<1>2. IsFiniteSet(D) /\ IsFiniteSet(R) /\ Cardinality(R) < Cardinality(D)
  <2>1. 0 \in Int /\ 1 \in Int /\ m - 1 \in Int /\ ~(0 > m - 1) /\ ~(1 > m - 1)
    BY <1>0
  <2>2. Cardinality(D) = (m - 1) - 0 + 1 /\ Cardinality(R) = (m - 1) - 1 + 1 /\ IsFiniteSet(D) /\ IsFiniteSet(R)
    BY <2>1, FS_Interval
  <2> QED BY <1>0, <2>2
<1>3. PICK x \in D, y \in D : x # y /\ P[x] = P[y]
  <2>1. \E x, y \in D : x # y /\ g[x] = g[y]
    <3> HIDE DEF g, D, R
    <3> QED BY <1>1, <1>2, FS_PigeonHole
  <2> QED BY <2>1
<1> DEFINE S == {k \in Nat : k > 0 /\ P[k] = 1}
<1>4. S # {}
  <2>1. x \in Nat /\ y \in Nat
    OBVIOUS
  <2>2. CASE x < y
    <3>1. P[y - x] = 1 /\ y - x \in S
      BY <1>3, <2>1, <2>2, PowersEqual
    <3> QED BY <3>1
  <2>3. CASE y < x
    <3>1. P[x - y] = 1 /\ x - y \in S
      BY <1>3, <2>1, <2>3, PowersEqual
    <3> QED BY <3>1
  <2> QED BY <1>3, <2>1, <2>2, <2>3
<1>5. S \in SUBSET Nat
  OBVIOUS
<1>6. PICK d \in S : \A k \in S : d <= k
  <2> HIDE DEF S
  <2> QED BY <1>4, <1>5, LeastNumber
<1>7. IsOrder(P, d)
  BY <1>6 DEF IsOrder
<1> QED BY <1>7

\* x, multiplied k times by a.
TimesPower(P, m, x, k) == (P[k] * x) % m

\* The multiples of x by the powers, one after the other.
LEMMA TimesNext ==
  ASSUME NEW m, IsPrime(m), NEW a \in 1 .. m - 1, NEW P, IsPowers(P, a, m),
         NEW x \in 1 .. m - 1, NEW k \in Nat
  PROVE  /\ TimesPower(P, m, x, 0) = x
         /\ (a * TimesPower(P, m, x, k)) % m = TimesPower(P, m, x, k + 1)
         /\ TimesPower(P, m, x, k) \in 1 .. m - 1
<1>0. m \in Nat /\ m > 1 /\ m \in Nat \ {0} /\ a \in Int /\ x \in Int /\ x \in 0 .. m - 1
  BY DEF IsPrime
<1>a. P[0] = 1 /\ P[k + 1] = (a * P[k]) % m
  BY DEF IsPowers
<1>1. TimesPower(P, m, x, 0) = x
  <2>1. 1 * x = x
    OBVIOUS
  <2> QED BY <1>0, <1>a, <2>1, RestOf, Zenon DEF TimesPower
<1>2. PICK p \in 1 .. m - 1 : p = P[k]
  BY PowersNonzero
<1>b. p \in Int /\ p * x \in Int /\ a * p \in Int /\ (p * x) * a = (a * p) * x /\ p \in 0 .. m - 1
  BY <1>0
<1>3. (a * ((p * x) % m)) % m = ((p * x) * a) % m
  BY <1>0, <1>b, RestTimes, Zenon
<1>4. (((a * p) % m) * x) % m = ((a * p) * x) % m
  <2>1. PICK w \in Int : w = a * p
    BY <1>b
  <2>2. ((w % m) * x) % m = (w * x) % m
    BY <1>0, RestTimes
  <2> QED BY <2>1, <2>2, Zenon
<1>5. (a * TimesPower(P, m, x, k)) % m = TimesPower(P, m, x, k + 1)
  BY <1>a, <1>2, <1>b, <1>3, <1>4, Zenon DEF TimesPower
<1>6. (p * x) % m \in 0 .. m - 1
  BY <1>0, <1>b, RestOf, Zenon
<1>7. ASSUME (p * x) % m = 0 PROVE FALSE
  <2>1. p * 0 = 0 /\ 0 \in 0 .. m - 1 /\ 0 \in Int
    BY <1>0
  <2>2. 0 % m = 0
    BY <1>0, <2>1, RestOf
  <2>3. (p * x) % m = (p * 0) % m
    BY <1>7, <2>1, <2>2, Zenon
  <2>4. x = 0
    BY <1>0, <2>1, <2>3, Cancelled, Zenon
  <2> QED BY <2>4
<1>8. TimesPower(P, m, x, k) \in 1 .. m - 1
  <2>1. PICK t \in 0 .. m - 1 : t = TimesPower(P, m, x, k) /\ t # 0
    BY <1>2, <1>6, <1>7, Zenon DEF TimesPower
  <2> QED BY <1>0, <2>1
<1> QED BY <1>1, <1>5, <1>8

\* S is kept by multiplication with a.
IsClosed(S, a, m) == S \in SUBSET (1 .. m - 1) /\ \A x \in S : (a * x) % m \in S
OrbitOf(P, m, x, d) == {TimesPower(P, m, x, k) : k \in 0 .. d - 1}

\* The products of x and the powers of a are d numbers, and what is left is closed.
LEMMA OrbitRemoved ==
  ASSUME NEW m, IsPrime(m), NEW a \in 1 .. m - 1, NEW P, IsPowers(P, a, m), NEW d, IsOrder(P, d),
         NEW S, IsClosed(S, a, m), NEW x \in S
  PROVE  /\ OrbitOf(P, m, x, d) \in SUBSET S
         /\ IsFiniteSet(OrbitOf(P, m, x, d)) /\ Cardinality(OrbitOf(P, m, x, d)) = d
         /\ IsClosed(S \ OrbitOf(P, m, x, d), a, m)
<1> DEFINE O == OrbitOf(P, m, x, d)
           t(k) == TimesPower(P, m, x, k)
<1>0. /\ m \in Nat /\ m > 1 /\ m \in Nat \ {0} /\ a \in Int /\ x \in 1 .. m - 1 /\ d \in Nat \ {0} /\ P[d] = 1
      /\ P[0] = 1
  BY DEF IsPrime, IsClosed, IsOrder, IsPowers
<1>1. /\ t(0) = x /\ \A k \in Nat : (a * t(k)) % m = t(k + 1) /\ t(k) \in 1 .. m - 1
  BY SMTT(30), <1>0, TimesNext
<1>2. t(d) = x
  BY <1>0, <1>1, Zenon DEF TimesPower
<1>3. O \in SUBSET S
  <2>1. \A y \in S : (a * y) % m \in S
    BY DEF IsClosed
  <2> DEFINE T == {k \in 0 .. d : t(k) \in S}
  <2>2. 0 \in T
    BY <1>0, <1>1
  <2>3. ASSUME NEW k \in 1 .. d, k - 1 \in T PROVE k \in T
    <3>1. k - 1 \in Nat /\ (k - 1) + 1 = k /\ t(k - 1) \in S
      BY <2>3
    <3>2. t(k) = (a * t(k - 1)) % m
      BY <1>1, <3>1
    <3>3. t(k) \in S
      BY <2>1, <3>1, <3>2, Zenon
    <3> QED BY <3>3
  <2> HIDE DEF T
  <2>4. \A k \in 0 .. d : k \in T
    BY <1>0, <2>2, <2>3, Induction
  <2>5. \A k \in 0 .. d - 1 : t(k) \in S
    BY <1>0, <2>4 DEF T
  <2> QED BY <2>5 DEF OrbitOf
<1>4. IsFiniteSet(O) /\ Cardinality(O) = d
  <2> DEFINE K == 0 .. d - 1
             g == [k \in K |-> t(k)]
  <2>1. IsFiniteSet(K) /\ Cardinality(K) = d
    <3>1. 0 \in Int /\ d - 1 \in Int /\ ~(0 > d - 1) /\ (d - 1) - 0 + 1 = d
      BY <1>0
    <3> QED BY <3>1, FS_Interval
  <2>2. g \in [K -> O] /\ \A y \in O : \E k \in K : g[k] = y
    BY DEF OrbitOf
  <2>3. ASSUME NEW i \in K, NEW k \in K, t(i) = t(k), i < k PROVE FALSE
    <3>1. i \in Nat /\ k \in Nat /\ k - i \in Nat \ {0} /\ k - i < d /\ i <= k
      BY <1>0, <2>3
    <3>2. PICK p \in 1 .. m - 1, q \in 1 .. m - 1 : p = P[i] /\ q = P[k]
      BY <3>1, PowersNonzero
    <3>3. (p * x) % m = (q * x) % m
      BY <2>3, <3>2 DEF TimesPower
    <3>4. p * x = x * p /\ q * x = x * q /\ p \in 0 .. m - 1 /\ q \in 0 .. m - 1
      BY <1>0
    <3>5. p = q
      BY <1>0, <3>3, <3>4, Cancelled, Zenon
    <3>6. P[k - i] = 1
      BY ZenonT(30), <3>1, <3>2, <3>5, PowersEqual
    <3> QED BY <1>0, <3>1, <3>6 DEF IsOrder
  <2>4. \A i, k \in K : g[i] = g[k] => i = k
    <3>1. \A i, k \in K : t(i) = t(k) => i = k
      <4>1. \A i, k \in K : i \in Int /\ k \in Int /\ (i < k \/ k < i \/ i = k)
        OBVIOUS
      <4> HIDE DEF t, K
      <4> QED BY <2>3, <4>1
    <3> QED BY <3>1
  <2> HIDE DEF g, K, O
  <2>5. g \in Surjection(K, O) /\ g \in Injection(K, O)
    BY <2>2, <2>4 DEF Surjection, Injection, IsInjective
  <2> QED BY <2>1, <2>5, FS_Surjection
<1>5. ASSUME NEW y \in S \ O PROVE (a * y) % m \in S \ O
  <2>1. (a * y) % m \in S /\ y \in 1 .. m - 1
    BY DEF IsClosed
  <2>2. ASSUME NEW k \in 0 .. d - 1, (a * y) % m = t(k) PROVE FALSE
    <3>1. PICK j \in 0 .. d - 1 : (a * t(j)) % m = t(k)
      <4>1. CASE k = 0
        <5>1. d - 1 \in Nat /\ (d - 1) + 1 = d /\ d - 1 \in 0 .. d - 1
          BY <1>0
        <5>2. (a * t(d - 1)) % m = t(d)
          BY <1>1, <5>1
        <5>3. (a * t(d - 1)) % m = t(k)
          BY <1>1, <1>2, <4>1, <5>2, Zenon
        <5> QED BY <5>1, <5>3, Zenon
      <4>2. CASE k # 0
        <5>1. k - 1 \in Nat /\ (k - 1) + 1 = k /\ k - 1 \in 0 .. d - 1
          BY <1>0, <4>2
        <5>2. (a * t(k - 1)) % m = t(k)
          BY <1>1, <5>1
        <5> QED BY <5>1, <5>2, Zenon
      <4> QED BY <4>1, <4>2
    <3>2. j \in Nat
      OBVIOUS
    <3>3. t(j) \in 1 .. m - 1
      BY <1>1, <3>2, Zenon
    <3>4. y \in 0 .. m - 1 /\ t(j) \in 0 .. m - 1
      <4> HIDE DEF t
      <4> QED BY <1>0, <2>1, <3>3
    <3>5. (a * y) % m = (a * t(j)) % m
      BY <2>2, <3>1, Zenon
    <3>6. y = t(j)
      <4> HIDE DEF t
      <4> QED BY <3>4, <3>5, Cancelled, Zenon
    <3>7. y \in O
      BY <3>6 DEF OrbitOf
    <3> QED BY <3>7
  <2>3. (a * y) % m \notin O
    BY <2>2, Zenon DEF OrbitOf
  <2> QED BY <2>1, <2>3
<1>6. IsClosed(S \ O, a, m)
  <2> HIDE DEF O
  <2> QED BY <1>5 DEF IsClosed
<1> QED BY <1>3, <1>4, <1>6

\* So the number of members of a closed set is a multiple of the order ...
LEMMA ClosedSize ==
  ASSUME NEW m, IsPrime(m), NEW a \in 1 .. m - 1, NEW P, IsPowers(P, a, m), NEW d, IsOrder(P, d),
         NEW S, IsClosed(S, a, m), IsFiniteSet(S)
  PROVE  Divides(d, Cardinality(S))
<1> DEFINE Bad == {n \in Nat : \E T : /\ IsClosed(T, a, m) /\ IsFiniteSet(T) /\ Cardinality(T) = n
                                     /\ ~Divides(d, n)}
<1>0. d \in Nat \ {0} /\ d \in Int
  BY DEF IsOrder
<1>1. CASE Bad = {}
  BY <1>1, FS_CardinalityType
<1>2. CASE Bad # {}
  <2>1. Bad \in SUBSET Nat
    OBVIOUS
  <2>2. PICK n \in Bad : \A k \in Bad : n <= k
    <3> HIDE DEF Bad
    <3> QED BY <1>2, <2>1, LeastNumber
  <2>3. PICK T : IsClosed(T, a, m) /\ IsFiniteSet(T) /\ Cardinality(T) = n
    OBVIOUS
  <2>4. n \in Nat /\ ~Divides(d, n)
    OBVIOUS
  <2>5. T # {}
    <3>1. n # 0
      BY <1>0, <2>4, DividesItself
    <3> QED BY <2>3, <3>1, FS_EmptySet
  <2>6. PICK x \in T : TRUE
    BY <2>5
  <2>7. PICK O : /\ O \in SUBSET T /\ IsFiniteSet(O) /\ Cardinality(O) = d /\ IsClosed(T \ O, a, m)
    BY <2>3, OrbitRemoved
  <2>8. IsFiniteSet(T \ O) /\ Cardinality(T \ O) = n - d
    <3>1. T \cap O = O
      BY <2>7
    <3> QED BY <2>3, <2>7, <3>1, FS_Difference
  <2>9. n - d \in Nat
    <3>1. Cardinality(T \ O) \in Nat
      BY <2>8, FS_CardinalityType
    <3> QED BY <2>8, <3>1
  <2>10. ~Divides(d, n - d)
    BY <1>0, <2>4, DividesItself, DividesMinus
  <2>11. n - d \in Bad
    BY <2>7, <2>8, <2>9, <2>10
  <2>12. n <= n - d
    <3> HIDE DEF Bad
    <3> QED BY <2>2, <2>11
  <2> QED BY <1>0, <2>4, <2>12
<1> QED BY <1>1, <1>2

\* ... and the order divides m - 1.
LEMMA OrderDivides ==
  ASSUME NEW m, IsPrime(m), NEW a \in 1 .. m - 1, NEW P, IsPowers(P, a, m), NEW d, IsOrder(P, d)
  PROVE  Divides(d, m - 1)
<1>0. m \in Nat /\ m > 1 /\ a \in Int
  BY DEF IsPrime
<1> DEFINE S == 1 .. m - 1
<1>1. IsFiniteSet(S) /\ Cardinality(S) = m - 1
  <2>1. 1 \in Int /\ m - 1 \in Int /\ ~(1 > m - 1) /\ (m - 1) - 1 + 1 = m - 1
    BY <1>0
  <2> QED BY <2>1, FS_Interval
<1>2. ASSUME NEW x \in S PROVE (a * x) % m \in S
  <2>1. TimesPower(P, m, x, 0) = x /\ (a * TimesPower(P, m, x, 0)) % m = TimesPower(P, m, x, 0 + 1)
    BY TimesNext
  <2>2. TimesPower(P, m, x, 0 + 1) \in S
    BY TimesNext
  <2> QED BY <2>1, <2>2
<1>3. IsClosed(S, a, m)
  BY <1>2 DEF IsClosed
<1> HIDE DEF S
<1>4. Divides(d, Cardinality(S))
  BY <1>1, <1>3, ClosedSize
<1> QED BY <1>1, <1>4

\* Every multiple of the order gives the power 1.
LEMMA PowersOfOrder ==
  ASSUME NEW m, IsPrime(m), NEW a \in 1 .. m - 1, NEW P, IsPowers(P, a, m), NEW d, IsOrder(P, d),
         NEW q \in Nat
  PROVE  P[d * q] = 1
<1>0. m \in Nat /\ m > 1 /\ m \in Nat \ {0} /\ a \in Int /\ d \in Nat /\ P[d] = 1 /\ P[0] = 1
  BY DEF IsPrime, IsOrder, IsPowers
<1> DEFINE T == {k \in 0 .. q : P[d * k] = 1}
<1>1. 0 \in T
  <2>1. d * 0 = 0
    BY <1>0
  <2> QED BY <1>0, <2>1
<1>2. ASSUME NEW k \in 1 .. q, k - 1 \in T PROVE k \in T
  <2>1. PICK e \in Nat : e = d * (k - 1)
    BY <1>0
  <2>2. e + d = d * k
    BY <1>0, <2>1
  <2>3. P[e + d] = (P[e] * P[d]) % m
    BY ZenonT(30), <1>0, PowersSum
  <2>4. P[e] = 1
    BY <1>2, <2>1
  <2>5. (1 * 1) % m = 1
    <3>1. 1 * 1 = 1 /\ 1 \in 0 .. m - 1 /\ 1 \in Int
      BY <1>0
    <3> QED BY <1>0, <3>1, RestOf
  <2>6. P[d * k] = 1
    BY <1>0, <2>2, <2>3, <2>4, <2>5, Zenon
  <2> QED BY <2>6
<1>3. q \in T
  <2> HIDE DEF T
  <2> QED BY <1>1, <1>2, Induction
<1> QED BY <1>3

\* a is a primitive root if no power with an exponent (m - 1) \div p is 1.
THEOREM PrimitiveRoot ==
  ASSUME NEW m, IsPrime(m), NEW a \in 1 .. m - 1, NEW P, IsPowers(P, a, m),
         \A p \in Nat : IsPrime(p) /\ Divides(p, m - 1) => P[(m - 1) \div p] # 1,
         NEW k \in Nat \ {0}, P[k] = 1
  PROVE  k >= m - 1
<1>0. m \in Nat /\ m > 1 /\ m - 1 \in Nat \ {0}
  BY DEF IsPrime
<1>1. PICK d : IsOrder(P, d)
  BY OrderExists
<1>2. d \in Nat \ {0} /\ d <= k
  BY <1>1 DEF IsOrder
<1>3. PICK q \in Nat \ {0} : m - 1 = d * q
  BY <1>0, <1>1, <1>2, OrderDivides, DividesSize
<1>4. CASE q = 1
  <2>1. d * 1 = d
    BY <1>2
  <2> QED BY <1>0, <1>2, <1>3, <1>4, <2>1
<1>5. CASE q > 1
  <2>1. PICK p : IsPrime(p) /\ Divides(p, q)
    BY <1>5, LeastPrime DEF HasLeastPrime
  <2>2. p \in Nat \ {0} /\ p \in Int
    BY <2>1 DEF IsPrime
  <2>3. PICK s \in Nat \ {0} : q = p * s
    BY <2>1, <2>2, DividesSize
  <2>4. PICK t \in Nat : t = d * s
    BY <1>2
  <2>5. m - 1 = p * t + 0
    <3>1. d * (p * s) = p * (d * s)
      BY <1>2, <2>2
    <3>2. m - 1 = p * t
      BY <1>3, <2>3, <2>4, <3>1, Zenon
    <3> QED BY <2>2, <3>2
  <2>6. (m - 1) \div p = t
    <3>1. (p * t + 0) \div p = t
      <4>1. 0 \in 0 .. p - 1
        BY <2>2
      <4> QED BY <2>2, <4>1, RemainderIs
    <3> QED BY <2>5, <3>1, Zenon
  <2>7. Divides(p, m - 1)
    <3>1. m - 1 = p * t
      BY <2>2, <2>5
    <3> QED BY <3>1 DEF Divides
  <2>8. P[t] = 1
    BY <1>1, <2>4, PowersOfOrder
  <2> QED BY <2>1, <2>2, <2>6, <2>7, <2>8
<1> QED BY <1>4, <1>5
----------------------------------------------------------------------------
\* There is a prime above every number.
LEMMA PrimeAbove ==
  ASSUME NEW n \in Nat
  PROVE  \E p : IsPrime(p) /\ p > n
<1> DEFINE T == {k \in 0 .. n : \E f \in Nat : f > 0 /\ \A d \in 1 .. k : Divides(d, f)}
<1>1. 0 \in T
  <2>1. 1 \in Nat /\ 1 > 0 /\ \A d \in 1 .. 0 : Divides(d, 1)
    OBVIOUS
  <2> QED BY <2>1
<1>2. ASSUME NEW k \in 1 .. n, k - 1 \in T PROVE k \in T
  <2>1. PICK f \in Nat : f > 0 /\ \A d \in 1 .. k - 1 : Divides(d, f)
    BY <1>2
  <2>2. PICK g \in Nat : g = f * k /\ g > 0
    <3>1. f * k \in Nat /\ f * k > 0
      BY <2>1
    <3> QED BY <3>1
  <2>3. ASSUME NEW d \in 1 .. k PROVE Divides(d, g)
    <3>1. d \in Int /\ f \in Int /\ k \in Int
      OBVIOUS
    <3>2. CASE d = k
      BY <2>2, <3>1, <3>2, DividesItself, DividesTimes, Zenon
    <3>3. CASE d # k
      <4>1. Divides(d, f)
        <5>1. d \in 1 .. k - 1
          BY <3>3
        <5> QED BY <2>1, <5>1
      <4> QED BY <2>2, <3>1, <4>1, DividesTimes, Zenon
    <3> QED BY <3>2, <3>3
  <2> QED BY <2>2, <2>3
<1>3. n \in T
  <2> HIDE DEF T
  <2> QED BY <1>1, <1>2, Induction
<1>4. PICK f \in Nat : f > 0 /\ \A d \in 1 .. n : Divides(d, f)
  BY <1>3
<1>5. PICK p : IsPrime(p) /\ Divides(p, f + 1)
  <2>1. f + 1 \in Nat /\ f + 1 > 1
    BY <1>4
  <2> QED BY <2>1, LeastPrime DEF HasLeastPrime
<1>6. p \in Nat /\ p > 1
  BY <1>5 DEF IsPrime
<1>7. ASSUME p <= n PROVE FALSE
  <2>1. p \in 1 .. n
    BY <1>6, <1>7
  <2>2. Divides(p, f)
    BY <1>4, <2>1
  <2>3. Divides(p, 1)
    BY <1>5, <1>6, <2>2, DividesSum
  <2>4. 1 \in Nat \ {0}
    OBVIOUS
  <2>5. p <= 1
    BY <1>6, <2>3, <2>4, DividesSize
  <2> QED BY <1>6, <2>5
<1> QED BY <1>5, <1>6, <1>7

\* Recursion from two numbers before.
HasSteps(A, b, G) ==
  \E f \in [Nat -> A] : f[0] = b /\ f[1] = b /\ \A v \in Nat : f[v + 2] = G[v + 2][f[v]]

\* Such a recursion has a solution.
LEMMA StepsExist ==
  ASSUME NEW A, NEW b \in A, NEW G \in [Nat -> [A -> A]]
  PROVE  HasSteps(A, b, G)
<1> DEFINE B == Nat \X A \X A
           c == <<0, b, b>>
           s == [t \in B |-> <<t[1] + 1, t[3], G[t[1] + 2][t[2]]>>]
<1>1. c \in B
  OBVIOUS
<1>2. ASSUME NEW t \in B PROVE <<t[1] + 1, t[3], G[t[1] + 2][t[2]]>> \in B
  <2>1. t[1] \in Nat /\ t[2] \in A /\ t[3] \in A /\ t[1] + 1 \in Nat /\ t[1] + 2 \in Nat
    OBVIOUS
  <2>2. G[t[1] + 2][t[2]] \in A
    BY <2>1
  <2> QED BY <2>1, <2>2
<1>3. s \in [B -> B]
  BY <1>2
<1>4. HasIteration(B, c, s)
  <2> HIDE DEF B, c, s
  <2> QED BY <1>1, <1>3, NatRecursion
<1>5. PICK o \in [Nat -> B] : o[0] = c /\ \A k \in Nat : o[k + 1] = s[o[k]]
  BY <1>4 DEF HasIteration
<1>6. \A k \in Nat : o[k] \in B /\ o[k + 1] = <<o[k][1] + 1, o[k][3], G[o[k][1] + 2][o[k][2]]>>
  BY <1>5
<1>7. ASSUME NEW n \in Nat PROVE o[n][1] = n
  <2> DEFINE T == {k \in 0 .. n : o[k][1] = k}
  <2>1. 0 \in T
    BY <1>5
  <2>2. ASSUME NEW k \in 1 .. n, k - 1 \in T PROVE k \in T
    <3>1. k - 1 \in Nat /\ (k - 1) + 1 = k /\ o[k - 1][1] = k - 1
      BY <2>2
    <3>2. o[(k - 1) + 1][1] = o[k - 1][1] + 1
      BY <1>6, <3>1
    <3> QED BY <3>1, <3>2
  <2>3. n \in T
    <3>1. n \in 0 .. n
      OBVIOUS
    <3> HIDE DEF T, B, c, s
    <3> QED BY <2>1, <2>2, <3>1, Induction, Zenon
  <2> QED BY <2>3
<1> DEFINE f == [v \in Nat |-> o[v][2]]
<1>8. f \in [Nat -> A]
  <2>1. \A v \in Nat : o[v][2] \in A
    BY <1>6
  <2> QED BY <2>1
<1>9. f[0] = b /\ f[1] = b
  <2>1. o[0 + 1] = <<o[0][1] + 1, o[0][3], G[o[0][1] + 2][o[0][2]]>> /\ o[0] = c
    BY <1>5, <1>6
  <2>2. o[0][2] = b /\ o[1][2] = b
    BY <2>1
  <2> QED BY <2>2
<1>10. ASSUME NEW v \in Nat PROVE f[v + 2] = G[v + 2][f[v]]
  <2>1. v + 1 \in Nat /\ (v + 1) + 1 = v + 2 /\ v + 2 \in Nat
    OBVIOUS
  <2>2. o[v + 1][3] = G[o[v][1] + 2][o[v][2]]
    BY <1>6
  <2>3. o[v + 2][2] = o[v + 1][3]
    BY <1>6, <2>1
  <2>4. o[v][1] = v
    BY <1>7
  <2> QED BY <2>1, <2>2, <2>3, <2>4
<1> HIDE DEF f
<1> QED BY <1>8, <1>9, <1>10 DEF HasSteps

\* A search upwards in steps of two, for what it is to find in T.
IsSearch(f, T, h) == f = [v \in Nat |-> IF v \in T THEN h[v] ELSE f[v + 2]]
HasSearch(T, h) == \E f : IsSearch(f, T, h)

\* Such a search is a function, also where nothing is found.
LEMMA SearchExists ==
  ASSUME NEW T, NEW h
  PROVE  HasSearch(T, h)
<1> DEFINE Steps(v) == {k \in Nat : v + 2 * k \in T}
           Goal(v)  == v + 2 * (CHOOSE k \in Steps(v) : \A j \in Steps(v) : k <= j)
           f        == [v \in Nat |-> IF Steps(v) = {} THEN 0 ELSE h[Goal(v)]]
<1>1. ASSUME NEW v \in Nat, Steps(v) # {}
      PROVE  \E k \in Nat : Goal(v) = v + 2 * k /\ v + 2 * k \in T /\ \A j \in Nat : v + 2 * j \in T => k <= j
  <2>1. Steps(v) \in SUBSET Nat
    OBVIOUS
  <2>2. \E k \in Steps(v) : \A j \in Steps(v) : k <= j
    <3> HIDE DEF Steps
    <3> QED BY <1>1, <2>1, LeastNumber
  <2>3. PICK k \in Steps(v) : k = (CHOOSE i \in Steps(v) : \A j \in Steps(v) : i <= j) /\ \A j \in Steps(v) : k <= j
    <3> HIDE DEF Steps
    <3> QED BY <2>2
  <2>4. Goal(v) = v + 2 * k
    <3> HIDE DEF Steps
    <3> QED BY <2>3
  <2> QED BY <2>3, <2>4
<1> HIDE DEF Goal
<1>2. ASSUME NEW v \in Nat PROVE f[v] = IF v \in T THEN h[v] ELSE f[v + 2]
  <2>0. v + 2 \in Nat /\ f[v] = (IF Steps(v) = {} THEN 0 ELSE h[Goal(v)])
        /\ f[v + 2] = (IF Steps(v + 2) = {} THEN 0 ELSE h[Goal(v + 2)])
    OBVIOUS
  <2>1. CASE v \in T
    <3>1. v + 2 * 0 = v /\ 0 \in Steps(v)
      BY <2>1
    <3>2. PICK k \in Nat : Goal(v) = v + 2 * k /\ \A j \in Nat : v + 2 * j \in T => k <= j
      BY <1>1, <3>1
    <3>3. k <= 0
      BY <2>1, <3>1, <3>2
    <3>4. Goal(v) = v
      BY <3>2, <3>3
    <3> QED BY <2>0, <2>1, <3>1, <3>4
  <2>2. CASE v \notin T
    <3>1. \A k \in Nat : (v + 2) + 2 * k = v + 2 * (k + 1) /\ k + 1 \in Nat
      OBVIOUS
    <3>2. CASE Steps(v) = {}
      <4>1. Steps(v + 2) = {}
        BY <3>1, <3>2
      <4> QED BY <2>0, <2>2, <3>2, <4>1
    <3>3. CASE Steps(v) # {}
      <4>1. PICK k \in Nat : Goal(v) = v + 2 * k /\ v + 2 * k \in T /\ \A j \in Nat : v + 2 * j \in T => k <= j
        BY <1>1, <3>3
      <4>2. k # 0
        BY <2>2, <4>1
      <4>3. PICK i \in Nat : i + 1 = k
        BY <4>2
      <4>4. i \in Steps(v + 2)
        BY <3>1, <4>1, <4>3
      <4>5. PICK e \in Nat : /\ Goal(v + 2) = (v + 2) + 2 * e /\ (v + 2) + 2 * e \in T
                             /\ \A j \in Nat : (v + 2) + 2 * j \in T => e <= j
        BY <1>1, <2>0, <4>4
      <4>6. e <= i /\ k <= e + 1
        BY <3>1, <4>1, <4>3, <4>5
      <4>7. Goal(v) = Goal(v + 2)
        BY <4>1, <4>3, <4>5, <4>6
      <4> QED BY <2>0, <2>2, <3>3, <4>4, <4>7
    <3> QED BY <3>2, <3>3
  <2> QED BY <2>1, <2>2
<1>3. f = [v \in Nat |-> f[v]]
  OBVIOUS
<1> HIDE DEF f
<1>4. f = [v \in Nat |-> IF v \in T THEN h[v] ELSE f[v + 2]]
  BY <1>2, <1>3
<1> QED BY <1>4 DEF HasSearch, IsSearch

\* The search returns what it found first.
FoundBehind(f, T, h, v) == \E j \in Nat : v + 2 * j \in T /\ f[v] = h[v + 2 * j]

\* A search that has something to find returns it.
LEMMA SearchFinds ==
  ASSUME NEW T, NEW h, NEW f, IsSearch(f, T, h), NEW v \in Nat, NEW k \in Nat, v + 2 * k \in T
  PROVE  FoundBehind(f, T, h, v)
<1> DEFINE S == {d \in 0 .. k : \E j \in Nat : v + 2 * j \in T /\ f[v + 2 * (k - d)] = h[v + 2 * j]}
<1>0. \A u \in Nat : f[u] = IF u \in T THEN h[u] ELSE f[u + 2]
  BY DEF IsSearch
<1>1. 0 \in S
  <2>1. v + 2 * (k - 0) = v + 2 * k /\ v + 2 * k \in Nat
    OBVIOUS
  <2>2. f[v + 2 * k] = h[v + 2 * k]
    BY <1>0, <2>1
  <2> QED BY <2>1, <2>2
<1>2. ASSUME NEW d \in 1 .. k, d - 1 \in S PROVE d \in S
  <2>1. PICK e \in Nat : e = k - d /\ v + 2 * e \in Nat /\ (v + 2 * e) + 2 = v + 2 * (k - (d - 1))
    OBVIOUS
  <2>2. PICK j \in Nat : v + 2 * j \in T /\ f[(v + 2 * e) + 2] = h[v + 2 * j]
    BY <1>2, <2>1
  <2>3. CASE v + 2 * e \in T
    BY <1>0, <2>1, <2>3
  <2>4. CASE v + 2 * e \notin T
    <3>1. f[v + 2 * e] = h[v + 2 * j]
      BY <1>0, <2>1, <2>2, <2>4
    <3> QED BY <2>1, <2>2, <3>1
  <2> QED BY <2>3, <2>4
<1>3. k \in S
  <2> HIDE DEF S
  <2> QED BY <1>1, <1>2, Induction
<1>4. v + 2 * (k - k) = v
  OBVIOUS
<1> QED BY <1>3, <1>4 DEF FoundBehind
=============================================================================
